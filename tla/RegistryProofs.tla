---------------------------- MODULE RegistryProofs ----------------------------
(***************************************************************************)
(* The schema registry, for any schemas, texts, callers and number of      *)
(* versions.                                                               *)
(***************************************************************************)
EXTENDS SchemaRegistry, TLAPS

\* First-order steps; those that need arithmetic, records or functions name SMT.
USE Zenon

-------------------------------------------------------------------------------
(* The inductive invariants.                                               *)

Stages == {"idle", "lock", "compile", "candidate", "version", "update", "commit",
           "activate", "swap", "unlock"}

\* Register is past regMu.Lock, its text is compiled, the complete set has been
\* accepted, its version is chosen, its records are committed and not yet served.
Serialized == Stages \ {"idle", "lock"}
Compiled   == {"candidate", "version", "update", "commit", "activate", "swap"}
Accepted   == Compiled \ {"candidate"}
Numbered   == {"update", "commit"}
Window     == {"activate", "swap"}

Calls == [stage : Stages, name : Names \cup {None}, text : Text \cup {None},
          fdset : Files, cand : Files, version : 0 .. MaxVersion]

TypeInv ==
  /\ schemas \in [Names -> Records \cup {None}]
  /\ hist \in [Names -> [1 .. MaxVersion -> Text \cup {None}]]
  /\ protos \in Files
  /\ reg \in [Regs -> Calls]
  /\ \A p \in Regs : reg[p].stage # "idle" =>
       reg[p].name \in Names /\ reg[p].text \in Texts[reg[p].name]

\* The version Register gives a schema whose active record is s.
Follows(s) == IF s = None THEN 1 ELSE s.version + 1

\* One Register at a time is past regMu, so the version it chose is still the one
\* after the active record's when it commits, and no history record is there yet.
HistInv ==
  /\ \A p \in Regs : reg[p].stage \in Serialized => regMu = p
  /\ \A n \in Names : \A v \in 1 .. MaxVersion :
       hist[n][v] # None => schemas[n] # None /\ v <= schemas[n].version
  /\ \A p \in Regs : reg[p].stage \in Numbered => reg[p].version = Follows(schemas[reg[p].name])

GInv == TypeInv /\ HistInv

\* A schema sorts before what it imports.
ImportersFirst ==
  \A n \in Names : \A x \in Texts[n] : x.imports \subseteq {m \in Names : m > n}

\* loadFromStore lets the last record that holds a path decide, which is the
\* path's own record when importers come first.
ReloadsActive == ~MayCrash \/ ImportersFirst

\* The active texts with the one p registers, from which compile starts.
Sources(p) == [activeSources EXCEPT ![reg[p].name] = reg[p].text]

\* Each active record agrees with its history record and holds its own text; its
\* closure is of registered schemas.
RecordInv ==
  \A n \in Names : schemas[n] # None =>
    /\ schemas[n].text \in Texts[n] /\ hist[n][schemas[n].version] = schemas[n].text
    /\ schemas[n].fdset[n] = schemas[n].text
    /\ \A m \in Names : schemas[n].fdset[m] # None =>
         schemas[m] # None /\ (ImportersFirst => n <= m)

\* What p has compiled is taken from the active texts and its own.
CompiledAt(p) ==
  /\ reg[p].fdset[reg[p].name] = reg[p].text
  /\ \A m \in Names : reg[p].fdset[m] # None =>
       reg[p].fdset[m] = Sources(p)[m] /\ (ImportersFirst => reg[p].name <= m)

\* The set p will serve is the active texts with its own: it links and is
\* compatible with what is served.
AcceptedAt(p) ==
  /\ reg[p].cand = Sources(p) /\ buildFiles(reg[p].cand)
  /\ protos[reg[p].name] # None => ensureFileCompatible(protos[reg[p].name], reg[p].text)

\* p's text is stored.
StoredAt(p) == schemas[reg[p].name] # None /\ schemas[reg[p].name].text = reg[p].text

CallInv ==
  \A p \in Regs : /\ reg[p].stage \in Compiled => CompiledAt(p)
                  /\ reg[p].stage \in Accepted => AcceptedAt(p)
                  /\ reg[p].stage \in Window => StoredAt(p)

\* What is served is what is stored, but for a schema in its window.
ServedInv ==
  \A n \in Names :
    /\ protos[n] # None => schemas[n] # None /\ protos[n] \in Texts[n]
    /\ \/ protos[n] = activeSources[n]
       \/ \E p \in Regs : reg[p].stage \in Window /\ reg[p].name = n

CatalogInv == RecordInv /\ up /\ buildFiles(activeSources) /\ StepwiseCompatible

CInv == GInv /\ CatalogInv /\ CallInv /\ ServedInv

-------------------------------------------------------------------------------
(* What each step does to the calls in progress.                           *)

\* Only p's call changes.
Others(p) == reg' \in [Regs -> Calls] /\ \A q \in Regs \ {p} : reg'[q] = reg[q]

\* p's call goes from one stage to another.
Moves(p, from, to) ==
  /\ Others(p)
  /\ reg[p].stage = from /\ reg'[p].stage = to
  /\ reg'[p].name = reg[p].name /\ reg'[p].text = reg[p].text

Keeps(p) ==
  reg'[p].fdset = reg[p].fdset /\ reg'[p].cand = reg[p].cand /\ reg'[p].version = reg[p].version

\* p's call returns and gives regMu back.
Returns(p, from) == Others(p) /\ reg[p].stage = from /\ reg'[p].stage = "idle" /\ regMu' = None

LEMMA IdleCall == Idle \in Calls /\ Idle.stage = "idle"
  <1>1. NoFiles \in Files
    BY DEF NoFiles, Files
  <1>2. 0 \in 0 .. MaxVersion
    BY RegistryAssumption, SMT
  <1>3. QED
    BY <1>1, <1>2, SMT DEF Idle, Calls, Stages

LEMMA SetCall ==
  ASSUME reg \in [Regs -> Calls], NEW p \in Regs, NEW r \in Calls, reg' = [reg EXCEPT ![p] = r]
  PROVE  Others(p) /\ reg'[p] = r
  BY DEF Others

LEMMA SetStage ==
  ASSUME reg \in [Regs -> Calls], NEW p \in Regs, NEW to \in Stages,
         reg' = [reg EXCEPT ![p].stage = to]
  PROVE  Moves(p, reg[p].stage, to) /\ Keeps(p)
  <1> DEFINE r == [reg[p] EXCEPT !.stage = to]
  <1>1. reg' = [reg EXCEPT ![p] = r]
    OBVIOUS
  <1>2. reg[p] \in Calls
    OBVIOUS
  <1>3. r \in Calls /\ r.stage = to /\ r.name = reg[p].name /\ r.text = reg[p].text
        /\ r.fdset = reg[p].fdset /\ r.cand = reg[p].cand /\ r.version = reg[p].version
    BY <1>2, SMT DEF Calls
  <1> HIDE DEF r
  <1>4. Others(p) /\ reg'[p] = r
    BY <1>1, <1>3, SetCall
  <1>5. QED
    BY <1>3, <1>4 DEF Moves, Keeps

\* A field and the stage of a call assigned together.
LEMMA TwoFields ==
  ASSUME NEW r \in Calls, NEW to \in Stages
  PROVE  /\ \A x \in Files : [r EXCEPT !.fdset = x, !.stage = to] \in Calls
         /\ \A x \in Files : [r EXCEPT !.cand = x, !.stage = to] \in Calls
         /\ \A x \in 0 .. MaxVersion : [r EXCEPT !.version = x, !.stage = to] \in Calls
  <1>1. ASSUME NEW x \in Files  PROVE [r EXCEPT !.fdset = x, !.stage = to] \in Calls
    BY DEF Calls
  <1>2. ASSUME NEW x \in Files  PROVE [r EXCEPT !.cand = x, !.stage = to] \in Calls
    BY DEF Calls
  <1>3. ASSUME NEW x \in 0 .. MaxVersion  PROVE [r EXCEPT !.version = x, !.stage = to] \in Calls
    BY DEF Calls
  <1>4. QED
    BY <1>1, <1>2, <1>3

LEMMA StepCases ==
  ASSUME reg \in [Regs -> Calls], NEW p \in Regs, NEW from, NEW ok, NEW r, ok => r \in Calls,
         Step(p, from, ok, r)
  PROVE  \/ Returns(p, from)
         \/ ok /\ Others(p) /\ reg[p].stage = from /\ reg'[p] = r /\ regMu' = regMu
  <1>1. CASE ok
    BY <1>1, SetCall DEF Step
  <1>2. CASE ~ok
    BY <1>2, SetCall, IdleCall DEF Step, Returns
  <1>3. QED
    BY <1>1, <1>2

LEMMA Sorts ==
  ASSUME TypeInv
  PROVE  /\ activeSources \in Files
         /\ \A p \in Regs : /\ reg[p] \in Calls /\ reg[p].stage \in Stages
                            /\ reg[p].fdset \in Files /\ reg[p].cand \in Files
                            /\ reg[p].version \in 0 .. MaxVersion
         /\ \A n \in Names : schemas[n] # None =>
              /\ schemas[n] \in Records /\ schemas[n].text \in Text
              /\ schemas[n].version \in 1 .. MaxVersion /\ schemas[n].fdset \in Files
         /\ \A n \in Names : \A x \in Texts[n] : x \in Text /\ x # None
  <1>1. ASSUME NEW n \in Names, schemas[n] # None
        PROVE  /\ schemas[n] \in Records /\ schemas[n].text \in Text
               /\ schemas[n].version \in 1 .. MaxVersion /\ schemas[n].fdset \in Files
    <2>1. schemas[n] \in Records
      BY <1>1 DEF TypeInv
    <2>2. QED
      BY <2>1, SMT DEF Records
  <1>2. activeSources \in Files
    BY <1>1 DEF activeSources, Files
  <1>3. ASSUME NEW p \in Regs
        PROVE  /\ reg[p] \in Calls /\ reg[p].stage \in Stages
               /\ reg[p].fdset \in Files /\ reg[p].cand \in Files
               /\ reg[p].version \in 0 .. MaxVersion
    <2>1. reg[p] \in Calls
      BY DEF TypeInv
    <2>2. QED
      BY <2>1, SMT DEF Calls
  <1>4. ASSUME NEW n \in Names, NEW x \in Texts[n]  PROVE x \in Text /\ x # None
    BY RegistryAssumption DEF Text
  <1>5. QED
    BY <1>1, <1>2, <1>3, <1>4

\* The facts of each step inside Register, from its guard and its assignments.
LEMMA LockFacts ==
  ASSUME TypeInv, NEW p \in Regs, LockReg(p)
  PROVE  /\ Moves(p, "lock", "compile") /\ Keeps(p) /\ regMu = None /\ regMu' = p
         /\ UNCHANGED <<schemas, hist, protos, up>>
  <1>1. "compile" \in Stages
    BY DEF Stages
  <1>2. QED
    BY <1>1, SetStage DEF LockReg, TypeInv

LEMMA CompileFacts ==
  ASSUME TypeInv, NEW p \in Regs, compile(p)
  PROVE  /\ \/ Returns(p, "compile")
            \/ /\ Moves(p, "compile", "candidate") /\ regMu' = regMu
               /\ reg'[p].fdset = Only(Sources(p), Closure(Sources(p), reg[p].name))
         /\ UNCHANGED <<schemas, hist, protos, up>>
  <1> DEFINE S == Sources(p)
             F == Only(S, Closure(S, reg[p].name))
             r == [reg[p] EXCEPT !.fdset = F, !.stage = "candidate"]
  <1>1. Step(p, "compile", buildFiles(F), r) /\ UNCHANGED <<schemas, hist, protos, up>>
    BY DEF compile, Sources
  <1>2. CASE reg[p].stage = "compile"
    <2>1. reg[p].text \in Text /\ reg[p] \in Calls /\ activeSources \in Files
      BY <1>2, Sorts DEF TypeInv
    <2>2. S \in Files
      BY <2>1 DEF Sources, Files
    <2> HIDE DEF S
    <2>3. F \in Files
      BY <2>2 DEF Only, Files
    <2> HIDE DEF F
    <2>4. r \in Calls
      BY <2>1, <2>3, TwoFields DEF Stages
    <2>5. r.stage = "candidate" /\ r.fdset = F /\ r.name = reg[p].name /\ r.text = reg[p].text
      BY <2>1, SMT DEF Calls
    <2> HIDE DEF r
    <2>6. \/ Returns(p, "compile")
          \/ Others(p) /\ reg[p].stage = "compile" /\ reg'[p] = r /\ regMu' = regMu
      BY <1>1, <2>4, StepCases DEF TypeInv
    <2>7. QED
      BY <1>1, <2>5, <2>6 DEF Moves, F, S
  <1>3. QED
    BY <1>1, <1>2 DEF Step

LEMMA CandidateFacts ==
  ASSUME TypeInv, NEW p \in Regs, candidate(p)
  PROVE  /\ \/ Returns(p, "candidate")
            \/ /\ Moves(p, "candidate", "version") /\ regMu' = regMu /\ acceptable(p)
               /\ reg'[p].fdset = reg[p].fdset /\ reg'[p].cand = candidateProtos(p)
         /\ UNCHANGED <<schemas, hist, protos, up>>
  <1> DEFINE C == candidateProtos(p)
             r == [reg[p] EXCEPT !.cand = C, !.stage = "version"]
  <1>1. Step(p, "candidate", acceptable(p), r) /\ UNCHANGED <<schemas, hist, protos, up>>
    BY DEF candidate
  <1>2. reg[p] \in Calls /\ reg[p].fdset \in Files /\ protos \in Files
    BY Sorts DEF TypeInv
  <1>3. C \in Files
    BY <1>2 DEF candidateProtos, Files
  <1> HIDE DEF C
  <1>4. r \in Calls
    BY <1>2, <1>3, TwoFields DEF Stages
  <1>5. r.stage = "version" /\ r.fdset = reg[p].fdset /\ r.cand = C
        /\ r.name = reg[p].name /\ r.text = reg[p].text
    BY <1>2, SMT DEF Calls
  <1> HIDE DEF r
  <1>6. \/ Returns(p, "candidate")
        \/ acceptable(p) /\ Others(p) /\ reg[p].stage = "candidate" /\ reg'[p] = r /\ regMu' = regMu
    BY <1>1, <1>4, StepCases DEF TypeInv
  <1>7. QED
    BY <1>1, <1>5, <1>6 DEF Moves, C

LEMMA VersionFacts ==
  ASSUME TypeInv, NEW p \in Regs, nextVersion(p)
  PROVE  /\ \/ Returns(p, "version")
            \/ /\ Moves(p, "version", "update") /\ regMu' = regMu
               /\ reg'[p].fdset = reg[p].fdset /\ reg'[p].cand = reg[p].cand
               /\ reg'[p].version = Follows(schemas[reg[p].name])
         /\ UNCHANGED <<schemas, hist, protos, up>>
  <1> DEFINE v == Follows(schemas[reg[p].name])
             r == [reg[p] EXCEPT !.version = v, !.stage = "update"]
  <1>1. Step(p, "version", v <= MaxVersion, r) /\ UNCHANGED <<schemas, hist, protos, up>>
    BY DEF nextVersion, Follows
  <1>2. CASE reg[p].stage = "version"
    <2>1. reg[p].name \in Names /\ reg[p] \in Calls
      BY <1>2, Sorts DEF TypeInv
    <2>2. v \in Nat
      <3>1. schemas[reg[p].name] # None => schemas[reg[p].name].version \in 1 .. MaxVersion
        BY <2>1, Sorts
      <3>2. QED
        BY <3>1, RegistryAssumption, SMT DEF Follows
    <2> HIDE DEF v
    <2>3. v <= MaxVersion => v \in 0 .. MaxVersion
      BY <2>2, RegistryAssumption, SMT
    <2>4. v <= MaxVersion => r \in Calls
      BY <2>1, <2>3, TwoFields DEF Stages
    <2>5. r.stage = "update" /\ r.fdset = reg[p].fdset /\ r.cand = reg[p].cand /\ r.version = v
          /\ r.name = reg[p].name /\ r.text = reg[p].text
      BY <2>1, SMT DEF Calls
    <2> HIDE DEF r
    <2>6. \/ Returns(p, "version")
          \/ Others(p) /\ reg[p].stage = "version" /\ reg'[p] = r /\ regMu' = regMu
      BY <1>1, <2>4, StepCases DEF TypeInv
    <2>7. QED
      BY <1>1, <2>5, <2>6 DEF Moves, v
  <1>3. QED
    BY <1>1, <1>2 DEF Step

LEMMA BeginFacts ==
  ASSUME TypeInv, NEW p \in Regs, BeginUpdate(p)
  PROVE  /\ Moves(p, "update", "commit") /\ Keeps(p)
         /\ UNCHANGED <<schemas, hist, protos, up, regMu>>
  <1>1. "commit" \in Stages
    BY DEF Stages
  <1>2. QED
    BY <1>1, SetStage DEF BeginUpdate, TypeInv

LEMMA CommitFacts ==
  ASSUME TypeInv, NEW p \in Regs, CommitUpdate(p)
  PROVE  /\ Moves(p, "commit", "activate") /\ Keeps(p)
         /\ schemas' = [schemas EXCEPT ![reg[p].name] =
              [text |-> reg[p].text, version |-> reg[p].version, fdset |-> reg[p].fdset]]
         /\ hist' = [hist EXCEPT ![reg[p].name][reg[p].version] = reg[p].text]
         /\ UNCHANGED <<protos, up, regMu>>
  <1>1. "activate" \in Stages
    BY DEF Stages
  <1>2. Moves(p, "commit", "activate") /\ Keeps(p)
    BY <1>1, SetStage DEF CommitUpdate, TypeInv
  <1>3. QED
    BY <1>2 DEF CommitUpdate

LEMMA FailFacts ==
  ASSUME TypeInv, NEW p \in Regs, FailUpdate(p)
  PROVE  Returns(p, "commit") /\ UNCHANGED <<schemas, hist, protos, up>>
  BY StepCases, IdleCall DEF FailUpdate, TypeInv

LEMMA LockMuFacts ==
  ASSUME TypeInv, NEW p \in Regs, LockMu(p)
  PROVE  /\ Moves(p, "activate", "swap") /\ Keeps(p)
         /\ UNCHANGED <<schemas, hist, protos, up, regMu>>
  <1>1. "swap" \in Stages
    BY DEF Stages
  <1>2. QED
    BY <1>1, SetStage DEF LockMu, TypeInv

LEMMA ActivateFacts ==
  ASSUME TypeInv, NEW p \in Regs, Activate(p)
  PROVE  /\ Moves(p, "swap", "unlock") /\ Keeps(p) /\ protos' = reg[p].cand
         /\ UNCHANGED <<schemas, hist, up, regMu>>
  <1>1. "unlock" \in Stages
    BY DEF Stages
  <1>2. QED
    BY <1>1, SetStage DEF Activate, TypeInv

LEMMA UnlockFacts ==
  ASSUME TypeInv, NEW p \in Regs, UnlockReg(p)
  PROVE  Returns(p, "unlock") /\ UNCHANGED <<schemas, hist, protos, up>>
  BY SetCall, IdleCall DEF UnlockReg, Returns, TypeInv

-------------------------------------------------------------------------------
(* The history.                                                            *)

\* While p is past regMu, or nobody is, no other call is past it.
LEMMA Alone ==
  ASSUME HistInv, NEW p \in Regs, reg[p].stage \in Serialized \/ regMu = None
  PROVE  \A q \in Regs \ {p} : reg[q].stage \notin Serialized
  <1>1. \A q \in Regs : q # None
    BY RegistryAssumption
  <1>2. QED
    BY <1>1 DEF HistInv

\* A step that leaves the catalog alone.
LEMMA HistMoves ==
  ASSUME GInv, NEW p \in Regs, NEW from, NEW to, Moves(p, from, to), from # "idle",
         regMu' = p, reg[p].stage \in Serialized \/ regMu = None,
         protos' \in Files, UNCHANGED <<schemas, hist>>,
         to \in Numbered => reg'[p].version = Follows(schemas[reg[p].name])
  PROVE  GInv'
  <1>1. \A q \in Regs \ {p} : reg[q].stage \notin Serialized /\ reg'[q] = reg[q]
    BY Alone DEF GInv, Moves, Others
  <1>2. reg'[p].name \in Names /\ reg'[p].text \in Texts[reg'[p].name]
    BY DEF GInv, TypeInv, Moves
  <1>3. TypeInv'
    BY <1>1, <1>2 DEF GInv, TypeInv, Moves, Others
  <1>4. Numbered \subseteq Serialized
    BY DEF Numbered, Serialized, Stages
  <1>5. \A q \in Regs : reg'[q].stage \in Serialized => regMu' = q
    BY <1>1
  <1>6. \A q \in Regs : reg'[q].stage \in Numbered =>
          reg'[q].version = Follows(schemas'[reg'[q].name])
    BY <1>1, <1>4 DEF Moves
  <1>7. HistInv'
    BY <1>5, <1>6 DEF GInv, HistInv, Follows
  <1>8. QED
    BY <1>3, <1>7 DEF GInv

LEMMA HistReturns ==
  ASSUME GInv, NEW p \in Regs, NEW from \in Serialized, Returns(p, from),
         UNCHANGED <<schemas, hist, protos>>
  PROVE  GInv'
  <1>1. \A q \in Regs \ {p} : reg[q].stage \notin Serialized /\ reg'[q] = reg[q]
    BY Alone DEF GInv, Returns, Others
  <1>2. TypeInv'
    BY <1>1 DEF GInv, TypeInv, Returns, Others
  <1>3. \A q \in Regs : reg'[q].stage \notin Serialized
    BY <1>1 DEF Returns, Serialized
  <1>4. Numbered \subseteq Serialized
    BY DEF Numbered, Serialized, Stages
  <1>5. HistInv'
    BY <1>3, <1>4 DEF GInv, HistInv
  <1>6. QED
    BY <1>2, <1>5 DEF GInv

\* What a commit finds and leaves for the schema's history.
LEMMA CommitRecords ==
  ASSUME GInv, NEW p \in Regs, CommitUpdate(p)
  PROVE  LET n == reg[p].name
             v == reg[p].version
         IN  /\ n \in Names /\ v \in 1 .. MaxVersion /\ reg[p].text \in Texts[n]
             /\ v = Follows(schemas[n])
             /\ \A w \in 1 .. MaxVersion : hist[n][w] # None => w < v
             /\ schemas'[n] \in Records
             /\ schemas'[n].text = reg[p].text /\ schemas'[n].version = v
             /\ schemas'[n].fdset = reg[p].fdset
             /\ \A m \in Names \ {n} : schemas'[m] = schemas[m] /\ hist'[m] = hist[m]
             /\ hist'[n][v] = reg[p].text
             /\ \A w \in 1 .. MaxVersion \ {v} : hist'[n][w] = hist[n][w]
             /\ schemas' \in [Names -> Records \cup {None}]
             /\ hist' \in [Names -> [1 .. MaxVersion -> Text \cup {None}]]
  <1> DEFINE n == reg[p].name
             v == reg[p].version
             s == [text |-> reg[p].text, version |-> v, fdset |-> reg[p].fdset]
  <1>1. /\ Moves(p, "commit", "activate") /\ schemas' = [schemas EXCEPT ![n] = s]
        /\ hist' = [hist EXCEPT ![n][v] = reg[p].text]
    BY CommitFacts DEF GInv
  <1>2. n \in Names /\ reg[p].text \in Texts[n] /\ reg[p].text \in Text
    BY <1>1, Sorts DEF GInv, TypeInv, Moves
  <1>3. v = Follows(schemas[n]) /\ v \in 0 .. MaxVersion
    BY <1>1, Sorts DEF GInv, HistInv, Moves, Numbered
  <1>4. schemas[n] # None => schemas[n].version \in 1 .. MaxVersion
    BY <1>2, Sorts DEF GInv
  <1>5. v \in 1 .. MaxVersion
    BY <1>3, <1>4, RegistryAssumption, SMT DEF Follows
  <1>6. ASSUME NEW w \in 1 .. MaxVersion, hist[n][w] # None  PROVE w < v
    <2>1. schemas[n] # None /\ w <= schemas[n].version
      BY <1>2, <1>6 DEF GInv, HistInv
    <2>2. QED
      BY <1>3, <1>4, <2>1, RegistryAssumption, SMT DEF Follows
  <1>7. reg[p].fdset \in Files
    BY Sorts DEF GInv
  <1>8. s \in Records /\ s.text = reg[p].text /\ s.version = v /\ s.fdset = reg[p].fdset
    BY <1>2, <1>5, <1>7, SMT DEF Records
  <1> HIDE DEF s, n, v
  <1>9. /\ schemas' \in [Names -> Records \cup {None}] /\ schemas'[n] = s
        /\ \A m \in Names \ {n} : schemas'[m] = schemas[m]
    BY <1>1, <1>2, <1>8 DEF GInv, TypeInv
  <1>10. /\ hist' \in [Names -> [1 .. MaxVersion -> Text \cup {None}]]
         /\ hist'[n][v] = reg[p].text
         /\ \A m \in Names \ {n} : hist'[m] = hist[m]
         /\ \A w \in 1 .. MaxVersion \ {v} : hist'[n][w] = hist[n][w]
    BY <1>1, <1>2, <1>5 DEF GInv, TypeInv
  <1>11. QED
    BY <1>2, <1>3, <1>5, <1>6, <1>8, <1>9, <1>10 DEF n, v

LEMMA HistCommit ==
  ASSUME GInv, NEW p \in Regs, CommitUpdate(p)
  PROVE  GInv'
  <1> DEFINE n == reg[p].name
             v == reg[p].version
  <1>1. /\ Moves(p, "commit", "activate") /\ UNCHANGED <<protos, up, regMu>>
    BY CommitFacts DEF GInv
  <1>2. reg[p].stage \in Serialized /\ regMu = p
    BY <1>1 DEF GInv, HistInv, Moves, Serialized, Stages
  <1>3. \A q \in Regs \ {p} : reg[q].stage \notin Serialized /\ reg'[q] = reg[q]
    BY <1>1, <1>2, Alone DEF GInv, Moves, Others
  <1>4. reg'[p].name \in Names /\ reg'[p].text \in Texts[reg'[p].name]
    BY <1>1 DEF GInv, TypeInv, Moves
  <1>5. /\ schemas' \in [Names -> Records \cup {None}]
        /\ hist' \in [Names -> [1 .. MaxVersion -> Text \cup {None}]]
    BY CommitRecords
  <1>6. TypeInv'
    BY <1>1, <1>3, <1>4, <1>5 DEF GInv, TypeInv, Moves, Others
  <1>7. Numbered \subseteq Serialized /\ "activate" \notin Numbered
    BY DEF Numbered, Serialized, Stages
  <1>8. \A q \in Regs : reg'[q].stage \in Serialized => regMu' = q
    BY <1>1, <1>2, <1>3
  <1>9. \A q \in Regs : reg'[q].stage \notin Numbered
    BY <1>1, <1>3, <1>7 DEF Moves
  <1>10. ASSUME NEW m \in Names, NEW w \in 1 .. MaxVersion, hist'[m][w] # None
         PROVE  schemas'[m] # None /\ w <= schemas'[m].version
    <2>1. CASE m # n
      <3>1. hist'[m] = hist[m] /\ schemas'[m] = schemas[m]
        BY <2>1, CommitRecords
      <3>2. QED
        BY <1>10, <3>1 DEF GInv, HistInv
    <2>2. CASE m = n
      <3>1. schemas'[n] \in Records /\ schemas'[n].version = v /\ v \in 1 .. MaxVersion
        BY CommitRecords
      <3>2. w = v \/ w < v
        <4>1. w # v => hist'[n][w] = hist[n][w] /\ (hist[n][w] # None => w < v)
          BY CommitRecords
        <4>2. QED
          BY <1>10, <2>2, <4>1
      <3> HIDE DEF v
      <3>3. w <= v
        BY <3>1, <3>2, SMT
      <3>4. QED
        BY <2>2, <3>1, <3>3, RegistryAssumption
    <2>3. QED
      BY <2>1, <2>2
  <1>11. HistInv'
    BY <1>8, <1>9, <1>10 DEF HistInv
  <1>12. QED
    BY <1>6, <1>11 DEF GInv

\* Some record holds the path and its copy is taken, or nobody holds it.
LEMMA Reloaded ==
  ASSUME TypeInv, NEW path \in Names
  PROVE  \/ /\ \A n \in Names : schemas[n] # None => schemas[n].fdset[path] = None
            /\ loadFromStore[path] = None
         \/ \E n \in Names : /\ schemas[n] # None /\ schemas[n].fdset[path] # None
                             /\ loadFromStore[path] = schemas[n].fdset[path]
                             /\ \A m \in Names :
                                  schemas[m] # None /\ schemas[m].fdset[path] # None => n >= m
  <1> DEFINE holders == {n \in Names : schemas[n] # None /\ schemas[n].fdset[path] # None}
  <1>1. loadFromStore[path] = IF holders = {} THEN None ELSE schemas[Max(holders)].fdset[path]
    BY DEF loadFromStore
  <1>2. CASE holders = {}
    BY <1>1, <1>2
  <1>3. CASE holders # {}
    <2>1. holders \in SUBSET Names
      OBVIOUS
    <2>2. \E last \in holders : \A n \in holders : last >= n
      BY <1>3, <2>1, RegistryAssumption
    <2>3. Max(holders) \in holders /\ \A n \in holders : Max(holders) >= n
      BY <2>2 DEF Max
    <2>4. QED
      BY <1>1, <1>3, <2>3
  <1>4. QED
    BY <1>2, <1>3

LEMMA ReloadedFiles ==
  ASSUME TypeInv
  PROVE  loadFromStore \in Files
  <1>1. ASSUME NEW path \in Names  PROVE loadFromStore[path] \in Text \cup {None}
    <2>1. \A n \in Names : schemas[n] # None => schemas[n].fdset[path] \in Text \cup {None}
      BY Sorts DEF Files
    <2>2. QED
      BY <2>1, Reloaded
  <1>2. loadFromStore = [path \in Names |-> loadFromStore[path]]
    BY DEF loadFromStore
  <1>3. QED
    BY <1>1, <1>2 DEF Files

LEMMA HistCall ==
  ASSUME GInv, NEW p \in Regs, NEW n \in Names, NEW x \in Texts[n], Call(p, n, x)
  PROVE  GInv' /\ Others(p) /\ reg'[p].stage = "lock"
  <1> DEFINE r == [Idle EXCEPT !.stage = "lock", !.name = n, !.text = x]
  <1>1. reg' = [reg EXCEPT ![p] = r] /\ UNCHANGED <<schemas, hist, protos, regMu>>
    BY DEF Call
  <1>2. x \in Text /\ Idle \in Calls
    BY Sorts, IdleCall DEF GInv
  <1>3. r \in Calls
    BY <1>2 DEF Calls, Stages
  <1>4. r.stage = "lock" /\ r.name = n /\ r.text = x
    BY <1>2, SMT DEF Calls
  <1> HIDE DEF r
  <1>5. Others(p) /\ reg'[p] = r
    BY <1>1, <1>3, SetCall DEF GInv, TypeInv
  <1>6. TypeInv'
    BY <1>1, <1>4, <1>5 DEF GInv, TypeInv, Others
  <1>7. reg'[p].stage \notin Serialized /\ Numbered \subseteq Serialized
    BY <1>4, <1>5 DEF Serialized, Numbered, Stages
  <1>8. HistInv'
    BY <1>1, <1>5, <1>7 DEF GInv, HistInv, Others, Follows
  <1>9. QED
    BY <1>4, <1>5, <1>6, <1>8 DEF GInv

LEMMA HistCrash ==
  ASSUME GInv, Crash
  PROVE  GInv' /\ \A p \in Regs : reg'[p].stage = "idle"
  <1>1. /\ protos' = loadFromStore /\ reg' = [p \in Regs |-> Idle]
        /\ UNCHANGED <<schemas, hist>>
    BY DEF Crash
  <1>2. \A p \in Regs : reg'[p].stage = "idle"
    BY <1>1, IdleCall
  <1>3. reg' \in [Regs -> Calls]
    BY <1>1, IdleCall
  <1>4. TypeInv'
    BY <1>1, <1>2, <1>3, ReloadedFiles DEF GInv, TypeInv
  <1>5. HistInv'
    BY <1>1, <1>2 DEF GInv, HistInv, Serialized, Numbered
  <1>6. QED
    BY <1>2, <1>4, <1>5 DEF GInv

LEMMA HistOther ==
  ASSUME GInv, UNCHANGED <<schemas, hist, protos, up, regMu, reg>>
  PROVE  GInv'
  <1>1. TypeInv'
    BY DEF GInv, TypeInv
  <1>2. HistInv'
    BY DEF GInv, HistInv, Follows
  <1>3. QED
    BY <1>1, <1>2 DEF GInv

LEMMA HistRegister ==
  ASSUME GInv, NEW p \in Regs, RegisterStep(p)
  PROVE  GInv'
  <1>1. TypeInv /\ protos \in Files
    BY DEF GInv, TypeInv
  <1>2. Serialized = {"compile", "candidate", "version", "update", "commit", "activate", "swap", "unlock"}
    BY DEF Serialized, Stages
  <1>3. ASSUME NEW from \in Serialized, reg[p].stage = from  PROVE regMu = p
    BY <1>3 DEF GInv, HistInv
  <1>4. CASE LockReg(p)
    BY <1>1, <1>4, LockFacts, HistMoves DEF Numbered
  <1>5. CASE compile(p)
    <2>1. CASE Returns(p, "compile")
      BY <1>1, <1>2, <1>5, <2>1, CompileFacts, HistReturns
    <2>2. CASE Moves(p, "compile", "candidate") /\ regMu' = regMu
      BY <1>1, <1>2, <1>3, <1>5, <2>2, CompileFacts, HistMoves DEF Numbered, Moves
    <2>3. QED
      BY <1>1, <1>5, <2>1, <2>2, CompileFacts
  <1>6. CASE candidate(p)
    <2>1. CASE Returns(p, "candidate")
      BY <1>1, <1>2, <1>6, <2>1, CandidateFacts, HistReturns
    <2>2. CASE Moves(p, "candidate", "version") /\ regMu' = regMu
      BY <1>1, <1>2, <1>3, <1>6, <2>2, CandidateFacts, HistMoves DEF Numbered, Moves
    <2>3. QED
      BY <1>1, <1>6, <2>1, <2>2, CandidateFacts
  <1>7. CASE nextVersion(p)
    <2>1. CASE Returns(p, "version")
      BY <1>1, <1>2, <1>7, <2>1, VersionFacts, HistReturns
    <2>2. CASE /\ Moves(p, "version", "update") /\ regMu' = regMu
               /\ reg'[p].version = Follows(schemas[reg[p].name])
      BY <1>1, <1>2, <1>3, <1>7, <2>2, VersionFacts, HistMoves DEF Moves
    <2>3. QED
      BY <1>1, <1>7, <2>1, <2>2, VersionFacts
  <1>8. CASE BeginUpdate(p)
    <2>1. /\ Moves(p, "update", "commit") /\ Keeps(p)
          /\ UNCHANGED <<schemas, hist, protos, up, regMu>>
      BY <1>1, <1>8, BeginFacts
    <2>2. reg'[p].version = Follows(schemas[reg[p].name])
      BY <2>1 DEF GInv, HistInv, Numbered, Moves, Keeps
    <2>3. reg[p].stage \in Serialized /\ regMu' = p
      BY <1>2, <1>3, <2>1 DEF Moves
    <2>4. QED
      BY <1>1, <2>1, <2>2, <2>3, HistMoves
  <1>9. CASE CommitUpdate(p)
    BY <1>9, HistCommit
  <1>10. CASE FailUpdate(p)
    BY <1>1, <1>2, <1>10, FailFacts, HistReturns
  <1>11. CASE LockMu(p)
    BY <1>1, <1>2, <1>3, <1>11, LockMuFacts, HistMoves DEF Numbered, Moves
  <1>12. CASE Activate(p)
    <2>1. protos' \in Files
      BY <1>1, <1>12, ActivateFacts, Sorts
    <2>2. QED
      BY <1>1, <1>2, <1>3, <1>12, <2>1, ActivateFacts, HistMoves DEF Numbered, Moves
  <1>13. CASE UnlockReg(p)
    BY <1>1, <1>2, <1>13, UnlockFacts, HistReturns
  <1>14. QED
    BY <1>4, <1>5, <1>6, <1>7, <1>8, <1>9, <1>10, <1>11, <1>12, <1>13 DEF RegisterStep

LEMMA Writes ==
  ASSUME NEW w \in Writers, WriteStep(w) \/ BeginWrite(w)
  PROVE  UNCHANGED <<schemas, hist, protos, up, regMu, reg>>
  BY DEF WriteStep, MessageDescriptor, RUnlock, EndWrite, BeginWrite

LEMMA HistInductive ==
  ASSUME GInv, [Next]_vars
  PROVE  GInv'
  <1>1. CASE UNCHANGED vars
    BY <1>1, HistOther DEF vars
  <1>2. CASE Crash
    BY <1>2, HistCrash
  <1>3. ASSUME NEW w \in Writers, WriteStep(w) \/ BeginWrite(w)  PROVE GInv'
    BY <1>3, Writes, HistOther
  <1>4. ASSUME NEW p \in Regs, RegisterStep(p)  PROVE GInv'
    BY <1>4, HistRegister
  <1>5. ASSUME NEW p \in Regs, NEW n \in Names, NEW x \in Texts[n], Call(p, n, x)  PROVE GInv'
    BY <1>5, HistCall
  <1>6. QED
    BY <1>1, <1>2, <1>3, <1>4, <1>5 DEF Next

LEMMA HistInit == Init => GInv
  <1> SUFFICES ASSUME Init  PROVE GInv
    OBVIOUS
  <1>1. \A p \in Regs : reg[p] = Idle /\ reg[p].stage = "idle"
    BY IdleCall DEF Init
  <1>2. reg \in [Regs -> Calls] /\ protos \in Files
    BY IdleCall DEF Init, NoFiles, Files
  <1>3. TypeInv
    BY <1>1, <1>2 DEF Init, TypeInv
  <1>4. HistInv
    BY <1>1 DEF Init, HistInv, Serialized, Numbered
  <1>5. QED
    BY <1>3, <1>4 DEF GInv

\* Register is serialized by regMu and commits the version after the active
\* record's, in every reachable state.
THEOREM Serializes == Spec => []GInv
  BY HistInit, HistInductive, PTL DEF Spec

\* A version accepted once keeps its text for ever (registry.go:37): two
\* registrations never write the same history record, whatever crashes and
\* failures lie between, for any number of callers, schemas and versions.
THEOREM HistoryNeverRewritten == Spec => HistoryImmutable
  <1> DEFINE A == \A n \in Names : \A v \in 1 .. MaxVersion :
                    hist[n][v] # None => hist'[n][v] = hist[n][v]
  <1>1. ASSUME GInv, [Next]_vars  PROVE [A]_vars
    <2>1. CASE UNCHANGED hist
      BY <2>1
    <2>2. ASSUME NEW p \in Regs, CommitUpdate(p)  PROVE A
      <3> SUFFICES ASSUME NEW n \in Names, NEW w \in 1 .. MaxVersion, hist[n][w] # None
                   PROVE  hist'[n][w] = hist[n][w]
        OBVIOUS
      <3>1. CASE n # reg[p].name
        BY <1>1, <2>2, <3>1, CommitRecords
      <3>2. CASE n = reg[p].name
        <4>1. w < reg[p].version /\ reg[p].version \in 1 .. MaxVersion
          BY <1>1, <2>2, <3>2, CommitRecords
        <4>2. w # reg[p].version
          BY <4>1, SMT
        <4>3. QED
          BY <1>1, <2>2, <3>2, <4>2, CommitRecords
      <3>3. QED
        BY <3>1, <3>2
    <2>3. \/ UNCHANGED hist
          \/ \E p \in Regs : CommitUpdate(p)
      <3>1. CASE UNCHANGED vars
        BY <3>1 DEF vars
      <3>2. CASE Crash
        BY <3>2 DEF Crash
      <3>3. ASSUME NEW w \in Writers, WriteStep(w) \/ BeginWrite(w)  PROVE UNCHANGED hist
        BY <3>3, Writes
      <3>4. ASSUME NEW p \in Regs, RegisterStep(p)  PROVE UNCHANGED hist \/ CommitUpdate(p)
        BY <3>4 DEF RegisterStep, LockReg, compile, candidate, nextVersion, BeginUpdate,
                    FailUpdate, LockMu, Activate, UnlockReg
      <3>5. ASSUME NEW p \in Regs, NEW n \in Names, NEW x \in Texts[n], Call(p, n, x)
            PROVE  UNCHANGED hist
        BY <3>5 DEF Call
      <3>6. QED
        BY <1>1, <3>1, <3>2, <3>3, <3>4, <3>5 DEF Next
    <2>4. QED
      BY <2>1, <2>2, <2>3
  <1>2. QED
    BY <1>1, Serializes, PTL DEF Spec, HistoryImmutable

-------------------------------------------------------------------------------
(* The catalog.                                                            *)

LEMMA StageSets ==
  /\ Window \subseteq Accepted /\ Accepted \subseteq Compiled /\ Compiled \subseteq Serialized
  /\ "idle" \notin Serialized /\ "lock" \notin Serialized
  BY DEF Window, Accepted, Compiled, Serialized, Stages

LEMMA ActiveText ==
  ASSUME TypeInv, NEW m \in Names
  PROVE  /\ schemas[m] = None => activeSources[m] = None
         /\ schemas[m] # None => activeSources[m] = schemas[m].text /\ activeSources[m] # None
  <1>1. schemas[m] # None => schemas[m].text # None
    BY Sorts, RegistryAssumption
  <1>2. QED
    BY <1>1 DEF activeSources

LEMMA SourceText ==
  ASSUME TypeInv, NEW p \in Regs, reg[p].stage # "idle"
  PROVE  /\ Sources(p) \in Files
         /\ Sources(p)[reg[p].name] = reg[p].text /\ reg[p].text # None
         /\ \A m \in Names \ {reg[p].name} : Sources(p)[m] = activeSources[m]
  <1>1. reg[p].name \in Names /\ reg[p].text \in Text /\ reg[p].text # None
    BY Sorts DEF TypeInv
  <1>2. activeSources \in Files
    BY Sorts
  <1>3. QED
    BY <1>1, <1>2 DEF Sources, Files

\* A closure holds the file it starts from and, where importers come first, no
\* earlier one.
LEMMA ClosureOwn ==
  ASSUME NEW files, NEW n \in Names
  PROVE  n \in Closure(files, n)
  BY DEF Closure

LEMMA ClosureLater ==
  ASSUME ImportersFirst, NEW files, \A m \in Names : files[m] # None => files[m] \in Texts[m],
         NEW n \in Names, NEW m \in Closure(files, n)
  PROVE  n <= m
  <1> DEFINE S == {k \in Names : n <= k}
  <1>1. S \in SUBSET Names /\ n \in S
    <2>1. n <= n
      BY RegistryAssumption, SMT
    <2>2. QED
      BY <2>1
  <1>2. ASSUME NEW k \in S \cap Loaded(files)  PROVE files[k].imports \subseteq S
    <2>1. k \in Names /\ n <= k /\ files[k] \in Texts[k]
      BY <1>2 DEF Loaded
    <2>2. ASSUME NEW i \in files[k].imports  PROVE i \in Names /\ k < i
      <3>1. i \in Names /\ i > k
        BY <2>1, <2>2 DEF ImportersFirst
      <3>2. i \in Nat /\ k \in Nat
        BY <2>1, <3>1, RegistryAssumption
      <3>3. QED
        BY <3>1, <3>2, SMT
    <2>3. ASSUME NEW i \in files[k].imports  PROVE i \in S
      <3>1. i \in Nat /\ k \in Nat /\ n \in Nat /\ i \in Names /\ k < i
        BY <2>1, <2>2, <2>3, RegistryAssumption
      <3>2. n <= i
        BY <2>1, <3>1, SMT
      <3>3. QED
        BY <3>1, <3>2
    <2>4. QED
      BY <2>3
  <1>3. m \in S
    <2> HIDE DEF S
    <2>1. QED
      BY <1>1, <1>2 DEF Closure
  <1>4. QED
    BY <1>3

\* Unless it is in its window, a call past regMu serves what is stored.
LEMMA ServesStored ==
  ASSUME CInv, NEW p \in Regs, reg[p].stage \notin Window,
         reg[p].stage \in Serialized \/ regMu = None
  PROVE  \A n \in Names : protos[n] = activeSources[n]
  <1>1. \A q \in Regs : reg[q].stage \notin Window
    BY Alone, StageSets DEF CInv, GInv
  <1>2. QED
    BY <1>1 DEF CInv, ServedInv

LEMMA CatalogSame ==
  ASSUME CatalogInv, UNCHANGED <<schemas, hist, up>>
  PROVE  CatalogInv' /\ activeSources' = activeSources
  <1>1. activeSources' = activeSources
    BY DEF activeSources
  <1>2. RecordInv'
    BY DEF CatalogInv, RecordInv
  <1>3. (buildFiles(activeSources))'
    BY <1>1 DEF CatalogInv
  <1>4. StepwiseCompatible'
    BY DEF CatalogInv, StepwiseCompatible
  <1>5. QED
    BY <1>1, <1>2, <1>3, <1>4 DEF CatalogInv

\* A step of p past regMu that leaves the catalog and what is served alone.
LEMMA CatalogMoves ==
  ASSUME CInv, GInv', NEW p \in Regs, NEW from, NEW to, Moves(p, from, to), from # "idle",
         reg[p].stage \in Serialized \/ regMu = None,
         UNCHANGED <<schemas, hist, protos, up>>,
         to \in Compiled => CompiledAt(p)', to \in Accepted => AcceptedAt(p)',
         from \in Window <=> to \in Window
  PROVE  CInv'
  <1>1. CatalogInv' /\ activeSources' = activeSources
    BY CatalogSame DEF CInv
  <1>2. \A q \in Regs \ {p} : reg'[q] = reg[q] /\ reg'[q].stage \notin Compiled
    BY Alone, StageSets DEF CInv, GInv, Moves, Others
  <1>3. to \in Window => StoredAt(p)'
    <2>1. from \in Window => StoredAt(p)
      BY DEF CInv, CallInv, Moves
    <2>2. QED
      BY <2>1 DEF StoredAt, Moves
  <1>4. CallInv'
    BY <1>2, <1>3, StageSets DEF CallInv, Moves
  <1>5. \A q \in Regs : reg[q].stage \in Window =>
          reg'[q].stage \in Window /\ reg'[q].name = reg[q].name
    BY <1>2, StageSets DEF Moves
  <1>6. ServedInv'
    BY <1>1, <1>5 DEF CInv, ServedInv
  <1>7. QED
    BY <1>1, <1>4, <1>6 DEF CInv

LEMMA CatalogReturns ==
  ASSUME CInv, GInv', NEW p \in Regs, NEW from \in Serialized \ Window, Returns(p, from),
         UNCHANGED <<schemas, hist, protos, up>>
  PROVE  CInv'
  <1>1. CatalogInv' /\ activeSources' = activeSources
    BY CatalogSame DEF CInv
  <1>2. \A q \in Regs : reg'[q].stage \notin Compiled
    BY Alone, StageSets DEF CInv, GInv, Returns, Others
  <1>3. CallInv'
    BY <1>2, StageSets DEF CallInv
  <1>4. \A n \in Names : protos[n] = activeSources[n]
    BY ServesStored DEF Returns
  <1>5. ServedInv'
    BY <1>1, <1>4 DEF CInv, ServedInv
  <1>6. QED
    BY <1>1, <1>3, <1>5 DEF CInv

LEMMA SourcesSame ==
  ASSUME NEW p \in Regs, NEW from, NEW to, Moves(p, from, to), UNCHANGED schemas
  PROVE  Sources(p)' = Sources(p)
  <1>1. activeSources' = activeSources
    BY DEF activeSources
  <1>2. QED
    BY <1>1 DEF Sources, Moves

LEMMA CompiledSame ==
  ASSUME NEW p \in Regs, NEW from, NEW to, Moves(p, from, to), UNCHANGED schemas,
         reg'[p].fdset = reg[p].fdset, CompiledAt(p)
  PROVE  CompiledAt(p)'
  BY SourcesSame DEF CompiledAt, Moves

LEMMA AcceptedSame ==
  ASSUME NEW p \in Regs, NEW from, NEW to, Moves(p, from, to), UNCHANGED <<schemas, protos>>,
         reg'[p].cand = reg[p].cand, AcceptedAt(p)
  PROVE  AcceptedAt(p)'
  <1>1. Sources(p)' = Sources(p)
    BY SourcesSame
  <1>2. buildFiles(reg[p].cand)'
    BY DEF AcceptedAt
  <1>3. QED
    BY <1>1, <1>2 DEF AcceptedAt, Moves

LEMMA CatalogCompile ==
  ASSUME CInv, GInv', NEW p \in Regs, compile(p)
  PROVE  CInv'
  <1> DEFINE n == reg[p].name
             S == Sources(p)
  <1>1. TypeInv /\ UNCHANGED <<schemas, hist, protos, up>>
    BY CompileFacts DEF CInv, GInv
  <1>2. CASE Returns(p, "compile")
    BY <1>1, <1>2, CatalogReturns DEF Serialized, Stages, Window
  <1>3. CASE Moves(p, "compile", "candidate") /\ reg'[p].fdset = Only(S, Closure(S, n))
    <2>1. reg[p].stage = "compile" /\ n \in Names
      BY <1>1, <1>3 DEF Moves, TypeInv
    <2>2. /\ S[n] = reg[p].text /\ \A m \in Names \ {n} : S[m] = activeSources[m]
          /\ reg[p].text \in Texts[n]
      BY <1>1, <2>1, SourceText DEF TypeInv
    <2>3. ASSUME NEW m \in Names, S[m] # None  PROVE S[m] \in Texts[m]
      <3>1. CASE m = n
        BY <2>2, <3>1
      <3>2. CASE m # n
        <4>1. S[m] = activeSources[m]
          BY <2>2, <3>2
        <4>2. schemas[m] # None /\ S[m] = schemas[m].text
          BY <1>1, <2>3, <4>1, ActiveText
        <4>3. QED
          BY <4>2 DEF CInv, CatalogInv, RecordInv
      <3>3. QED
        BY <3>1, <3>2
    <2>4. Sources(p)' = S /\ reg'[p].name = n /\ reg'[p].text = reg[p].text
      BY <1>1, <1>3, SourcesSame DEF Moves
    <2> HIDE DEF S
    <2>5. \A m \in Names : reg'[p].fdset[m] = IF m \in Closure(S, n) THEN S[m] ELSE None
      BY <1>3 DEF Only
    <2>6. reg'[p].fdset[n] = reg[p].text
      BY <2>1, <2>2, <2>5, ClosureOwn
    <2>7. ASSUME NEW m \in Names, reg'[p].fdset[m] # None
          PROVE  reg'[p].fdset[m] = S[m] /\ (ImportersFirst => n <= m)
      <3>1. m \in Closure(S, n) /\ reg'[p].fdset[m] = S[m]
        BY <2>5, <2>7
      <3>2. QED
        BY <2>1, <2>3, <3>1, ClosureLater
    <2>8. ImportersFirst' = ImportersFirst
      BY DEF ImportersFirst
    <2>9. CompiledAt(p)'
      BY <2>4, <2>6, <2>7, <2>8 DEF CompiledAt
    <2>10. QED
      BY <1>1, <1>3, <2>1, <2>9, CatalogMoves DEF Serialized, Stages, Accepted, Compiled, Window
  <1>4. QED
    BY <1>1, <1>2, <1>3, CompileFacts

LEMMA CatalogCandidate ==
  ASSUME CInv, GInv', NEW p \in Regs, candidate(p)
  PROVE  CInv'
  <1> DEFINE n == reg[p].name
             S == Sources(p)
  <1>1. TypeInv /\ UNCHANGED <<schemas, hist, protos, up>>
    BY CandidateFacts DEF CInv, GInv
  <1>2. CASE Returns(p, "candidate")
    BY <1>1, <1>2, CatalogReturns DEF Serialized, Stages, Window
  <1>3. CASE /\ Moves(p, "candidate", "version") /\ acceptable(p)
             /\ reg'[p].fdset = reg[p].fdset /\ reg'[p].cand = candidateProtos(p)
    <2>1. reg[p].stage = "candidate" /\ n \in Names /\ reg[p].stage \in Serialized
      BY <1>1, <1>3 DEF Moves, TypeInv, Serialized, Stages
    <2>2. CompiledAt(p)
      BY <2>1 DEF CInv, CallInv, Compiled
    <2>3. /\ S \in Files /\ S[n] = reg[p].text /\ reg[p].text # None
          /\ \A m \in Names \ {n} : S[m] = activeSources[m]
      BY <1>1, <2>1, SourceText
    <2>4. \A m \in Names : protos[m] = activeSources[m]
      BY <2>1, ServesStored DEF Window
    <2>5. Sources(p)' = S
      BY <1>1, <1>3, SourcesSame
    <2> HIDE DEF S
    <2>6. ASSUME NEW m \in Names  PROVE candidateProtos(p)[m] = S[m]
      <3>1. candidateProtos(p)[m] = IF reg[p].fdset[m] # None THEN reg[p].fdset[m] ELSE protos[m]
        BY DEF candidateProtos
      <3>2. CASE reg[p].fdset[m] # None
        BY <2>2, <3>1, <3>2 DEF CompiledAt, S
      <3>3. CASE reg[p].fdset[m] = None
        <4>1. m # n
          BY <2>2, <2>3, <3>3 DEF CompiledAt
        <4>2. QED
          BY <2>3, <2>4, <3>1, <3>3, <4>1
      <3>4. QED
        BY <3>2, <3>3
    <2>7. candidateProtos(p) = S
      <3>1. candidateProtos(p) = [m \in Names |-> candidateProtos(p)[m]]
        BY DEF candidateProtos
      <3>2. S = [m \in Names |-> S[m]]
        BY <2>3 DEF Files
      <3>3. QED
        BY <2>6, <3>1, <3>2
    <2>8. buildFiles(S) /\ (protos[n] # None => ensureFileCompatible(protos[n], reg[p].text))
      BY <2>3, <2>7, <1>3 DEF acceptable
    <2>9. reg'[p].cand = S /\ reg'[p].name = n /\ reg'[p].text = reg[p].text
      BY <1>3, <2>7 DEF Moves
    <2>10. (buildFiles(reg[p].cand))'
      BY <2>8, <2>9
    <2>11. AcceptedAt(p)'
      BY <1>1, <2>5, <2>8, <2>9, <2>10 DEF AcceptedAt
    <2>12. CompiledAt(p)'
      BY <1>1, <1>3, <2>2, CompiledSame
    <2>13. QED
      BY <1>1, <1>3, <2>1, <2>11, <2>12, CatalogMoves DEF Window
  <1>4. QED
    BY <1>1, <1>2, <1>3, CandidateFacts

\* After the commit the stored texts are the ones p compiled from.
LEMMA CommitSources ==
  ASSUME CInv, NEW p \in Regs, CommitUpdate(p)
  PROVE  activeSources' = Sources(p) /\ Sources(p)' = Sources(p)
  <1> DEFINE n == reg[p].name
             S == Sources(p)
  <1>1. GInv /\ TypeInv /\ Moves(p, "commit", "activate")
    BY CommitFacts DEF CInv, GInv
  <1>2. /\ n \in Names /\ reg[p].text # None /\ S \in Files /\ S[n] = reg[p].text
        /\ \A m \in Names \ {n} : S[m] = activeSources[m]
    BY <1>1, SourceText DEF TypeInv, Moves
  <1>3. /\ schemas'[n] \in Records /\ schemas'[n].text = reg[p].text
        /\ \A m \in Names \ {n} : schemas'[m] = schemas[m]
    BY <1>1, CommitRecords
  <1> HIDE DEF S
  <1>4. ASSUME NEW m \in Names  PROVE activeSources'[m] = S[m]
    <2>1. activeSources'[m] = IF schemas'[m] = None THEN None ELSE schemas'[m].text
      BY DEF activeSources
    <2>2. activeSources[m] = IF schemas[m] = None THEN None ELSE schemas[m].text
      BY DEF activeSources
    <2>3. CASE m = n
      <3>1. schemas'[n] # None
        BY <1>3, RegistryAssumption
      <3>2. QED
        BY <1>2, <1>3, <2>1, <2>3, <3>1
    <2>4. CASE m # n
      BY <1>2, <1>3, <2>1, <2>2, <2>4
    <2>5. QED
      BY <2>3, <2>4
  <1>5. activeSources' = S
    <2>1. activeSources' = [m \in Names |-> activeSources'[m]]
      BY DEF activeSources
    <2>2. S = [m \in Names |-> S[m]]
      BY <1>2 DEF Files
    <2>3. QED
      BY <1>4, <2>1, <2>2
  <1>6. Sources(p)' = [S EXCEPT ![n] = reg[p].text]
    BY <1>1, <1>5 DEF Sources, Moves
  <1>7. [S EXCEPT ![n] = reg[p].text] = S
    BY <1>2 DEF Files
  <1>8. QED
    BY <1>5, <1>6, <1>7 DEF S

LEMMA CommitRecordInv ==
  ASSUME CInv, NEW p \in Regs, CommitUpdate(p)
  PROVE  RecordInv'
  <1> DEFINE n == reg[p].name
             v == reg[p].version
  <1>1. GInv /\ TypeInv /\ Moves(p, "commit", "activate") /\ RecordInv
    BY CommitFacts DEF CInv, GInv, CatalogInv
  <1>2. /\ n \in Names /\ reg[p].text \in Texts[n]
        /\ schemas'[n] \in Records /\ schemas'[n].text = reg[p].text /\ schemas'[n].version = v
        /\ schemas'[n].fdset = reg[p].fdset /\ hist'[n][v] = reg[p].text
    BY <1>1, CommitRecords
  <1>3. \A m \in Names \ {n} : schemas'[m] = schemas[m] /\ hist'[m] = hist[m]
    BY <1>1, CommitRecords
  <1>4. CompiledAt(p)
    BY <1>1 DEF CInv, CallInv, Moves, Compiled
  <1>5. schemas'[n] # None
    BY <1>2, RegistryAssumption
  <1>6. \A m \in Names : schemas[m] # None => schemas'[m] # None
    BY <1>3, <1>5
  <1>7. ASSUME NEW k \in Names, reg[p].fdset[k] # None
        PROVE  schemas'[k] # None /\ (ImportersFirst => n <= k)
    <2>1. reg[p].fdset[k] = Sources(p)[k] /\ (ImportersFirst => n <= k)
      BY <1>4, <1>7 DEF CompiledAt
    <2>2. CASE k # n
      <3>1. Sources(p)[k] = activeSources[k]
        BY <1>1, <2>2, SourceText DEF Moves
      <3>2. schemas[k] # None
        BY <1>1, <1>7, <2>1, <3>1, ActiveText
      <3>3. QED
        BY <1>6, <2>1, <3>2
    <2>3. QED
      BY <1>5, <2>1, <2>2
  <1>8. ASSUME NEW m \in Names, schemas'[m] # None
        PROVE  /\ schemas'[m].text \in Texts[m] /\ hist'[m][schemas'[m].version] = schemas'[m].text
               /\ schemas'[m].fdset[m] = schemas'[m].text
               /\ \A k \in Names : schemas'[m].fdset[k] # None =>
                    schemas'[k] # None /\ (ImportersFirst => m <= k)
    <2>1. CASE m = n
      BY <1>2, <1>4, <1>7, <2>1 DEF CompiledAt
    <2>2. CASE m # n
      <3>1. schemas'[m] = schemas[m] /\ hist'[m] = hist[m]
        BY <1>3, <2>2
      <3>2. QED
        BY <1>1, <1>6, <1>8, <3>1 DEF RecordInv
    <2>3. QED
      BY <2>1, <2>2
  <1>9. ImportersFirst' = ImportersFirst
    BY DEF ImportersFirst
  <1>10. QED
    BY <1>8, <1>9 DEF RecordInv

\* The text committed was compared with the one in the record before it.
LEMMA CommitStepwise ==
  ASSUME CInv, NEW p \in Regs, CommitUpdate(p)
  PROVE  StepwiseCompatible'
  <1> DEFINE n == reg[p].name
             v == reg[p].version
  <1>1. GInv /\ TypeInv /\ Moves(p, "commit", "activate") /\ RecordInv /\ StepwiseCompatible
    BY CommitFacts DEF CInv, GInv, CatalogInv
  <1>2. /\ n \in Names /\ v \in 1 .. MaxVersion /\ v = Follows(schemas[n])
        /\ \A w \in 1 .. MaxVersion : hist[n][w] # None => w < v
        /\ hist'[n][v] = reg[p].text
        /\ \A w \in 1 .. MaxVersion \ {v} : hist'[n][w] = hist[n][w]
    BY <1>1, CommitRecords
  <1>3. \A m \in Names \ {n} : hist'[m] = hist[m]
    BY <1>1, CommitRecords
  <1>4. reg[p].stage \in Serialized /\ reg[p].stage \in Accepted /\ reg[p].stage \notin Window
    BY <1>1 DEF Moves, Serialized, Stages, Accepted, Compiled, Window
  <1>5. protos[n] = activeSources[n]
    BY <1>2, <1>4, ServesStored
  <1>6. protos[n] # None => ensureFileCompatible(protos[n], reg[p].text)
    BY <1>4 DEF CInv, CallInv, AcceptedAt
  <1>7. ASSUME NEW m \in Names, NEW w \in 1 .. MaxVersion - 1, hist'[m][w + 1] # None
        PROVE  ensureFileCompatible(hist'[m][w], hist'[m][w + 1])
    <2>1. w \in 1 .. MaxVersion /\ w + 1 \in 1 .. MaxVersion /\ w \in Nat
      BY RegistryAssumption, SMT
    <2>2. CASE m # n
      <3>1. hist'[m] = hist[m]
        BY <1>3, <2>2
      <3>2. QED
        BY <1>1, <1>7, <3>1 DEF StepwiseCompatible
    <2>3. CASE m = n /\ w + 1 = v
      <3>1. schemas[n] # None /\ schemas[n].version = w
        <4>1. schemas[n] # None => schemas[n].version \in 1 .. MaxVersion
          BY <1>1, <1>2, Sorts
        <4>2. v = IF schemas[n] = None THEN 1 ELSE schemas[n].version + 1
          BY <1>2 DEF Follows
        <4> HIDE DEF v, n
        <4>3. QED
          BY <2>1, <2>3, <4>1, <4>2, RegistryAssumption, SMT
      <3>2. hist[n][w] = schemas[n].text /\ protos[n] = schemas[n].text /\ protos[n] # None
        BY <1>1, <1>2, <1>5, <3>1, ActiveText DEF RecordInv
      <3>3. w # v
        <4> HIDE DEF v
        <4>1. QED
          BY <2>1, <2>3, SMT
      <3>4. hist'[n][w] = hist[n][w] /\ hist'[n][w + 1] = reg[p].text
        BY <1>2, <2>1, <2>3, <3>3
      <3>5. QED
        BY <1>6, <2>3, <3>2, <3>4
    <2>4. CASE m = n /\ w + 1 # v
      <3>1. hist'[n][w + 1] = hist[n][w + 1]
        BY <1>2, <2>1, <2>4
      <3>2. hist[n][w + 1] # None /\ w + 1 < v
        BY <1>2, <1>7, <2>1, <2>4, <3>1
      <3>3. w # v
        <4>1. v \in Nat
          BY <1>2, SMT
        <4> HIDE DEF v
        <4>2. QED
          BY <2>1, <3>2, <4>1, SMT
      <3>4. hist'[n][w] = hist[n][w]
        BY <1>2, <2>1, <3>3
      <3>5. QED
        BY <1>1, <2>4, <3>1, <3>2, <3>4 DEF StepwiseCompatible
    <2>5. QED
      BY <2>2, <2>3, <2>4
  <1>8. QED
    BY <1>7 DEF StepwiseCompatible

LEMMA CatalogCommit ==
  ASSUME CInv, GInv', NEW p \in Regs, CommitUpdate(p)
  PROVE  CInv'
  <1> DEFINE n == reg[p].name
  <1>1. /\ GInv /\ TypeInv /\ Moves(p, "commit", "activate") /\ Keeps(p)
        /\ UNCHANGED <<protos, up, regMu>>
    BY CommitFacts DEF CInv, GInv
  <1>2. activeSources' = Sources(p) /\ Sources(p)' = Sources(p)
    BY CommitSources
  <1>3. CompiledAt(p) /\ AcceptedAt(p)
    BY <1>1 DEF CInv, CallInv, Moves, Accepted, Compiled
  <1>4. (buildFiles(activeSources))'
    BY <1>2, <1>3 DEF AcceptedAt
  <1>5. CatalogInv'
    BY <1>1, <1>4, CommitRecordInv, CommitStepwise DEF CInv, CatalogInv
  <1>6. ImportersFirst' = ImportersFirst
    BY DEF ImportersFirst
  <1>7. CompiledAt(p)'
    BY <1>1, <1>2, <1>3, <1>6 DEF CompiledAt, Moves, Keeps
  <1>8. (buildFiles(reg[p].cand))'
    BY <1>1, <1>3 DEF AcceptedAt, Keeps
  <1>9. AcceptedAt(p)'
    BY <1>1, <1>2, <1>3, <1>8 DEF AcceptedAt, Moves, Keeps
  <1>10. /\ n \in Names /\ schemas'[n] \in Records /\ schemas'[n].text = reg[p].text
         /\ \A m \in Names \ {n} : schemas'[m] = schemas[m]
    BY <1>1, CommitRecords
  <1>11. schemas'[n] # None
    BY <1>10, RegistryAssumption
  <1>12. StoredAt(p)'
    BY <1>1, <1>10, <1>11 DEF StoredAt, Moves
  <1>13. reg[p].stage \in Serialized /\ reg[p].stage \notin Window
    BY <1>1 DEF Moves, Serialized, Stages, Window
  <1>14. \A q \in Regs \ {p} : reg'[q].stage \notin Compiled
    BY <1>1, <1>13, Alone, StageSets DEF GInv, Moves, Others
  <1>15. CallInv'
    BY <1>7, <1>9, <1>12, <1>14, StageSets DEF CallInv
  <1>16. \A m \in Names : protos[m] = activeSources[m]
    BY <1>13, ServesStored
  <1>17. reg'[p].stage \in Window /\ reg'[p].name = n
    BY <1>1 DEF Moves, Window
  <1>18. ASSUME NEW m \in Names
         PROVE  /\ protos'[m] # None => schemas'[m] # None /\ protos'[m] \in Texts[m]
                /\ \/ protos'[m] = activeSources'[m]
                   \/ \E q \in Regs : reg'[q].stage \in Window /\ reg'[q].name = m
    <2>1. protos[m] # None => schemas[m] # None /\ protos[m] \in Texts[m]
      BY DEF CInv, ServedInv
    <2>2. CASE m = n
      BY <1>1, <1>11, <1>17, <2>1, <2>2
    <2>3. CASE m # n
      <3>1. Sources(p)[m] = activeSources[m]
        BY <1>1, <2>3, SourceText DEF Moves
      <3>2. QED
        BY <1>1, <1>2, <1>10, <1>16, <2>1, <2>3, <3>1
    <2>4. QED
      BY <2>2, <2>3
  <1>19. ServedInv'
    BY <1>18 DEF ServedInv
  <1>20. QED
    BY <1>5, <1>15, <1>19 DEF CInv

\* Serving p's set is serving what is stored.
LEMMA ActivateServes ==
  ASSUME CInv, NEW p \in Regs, Activate(p)
  PROVE  protos' = activeSources
  <1> DEFINE n == reg[p].name
  <1>1. TypeInv /\ Moves(p, "swap", "unlock") /\ protos' = reg[p].cand
    BY ActivateFacts DEF CInv, GInv
  <1>2. n \in Names /\ reg[p].stage = "swap"
    BY <1>1 DEF TypeInv, Moves
  <1>3. AcceptedAt(p) /\ StoredAt(p)
    BY <1>2 DEF CInv, CallInv, Accepted, Compiled, Window
  <1>4. activeSources \in Files /\ activeSources[n] = reg[p].text
    BY <1>1, <1>2, <1>3, Sorts, ActiveText DEF StoredAt
  <1>5. Sources(p) = activeSources
    BY <1>2, <1>4 DEF Sources, Files
  <1>6. QED
    BY <1>1, <1>3, <1>5 DEF AcceptedAt

\* Nothing is compiled and what is served is what is stored.
LEMMA CatalogSettled ==
  ASSUME CInv, GInv', UNCHANGED <<schemas, hist>>, up',
         \A q \in Regs : reg'[q].stage \notin Compiled,
         \A n \in Names : protos'[n] = activeSources[n]
  PROVE  CInv'
  <1>1. activeSources' = activeSources
    BY DEF activeSources
  <1>2. CatalogInv'
    <2>1. RecordInv'
      BY DEF CInv, CatalogInv, RecordInv
    <2>2. (buildFiles(activeSources))'
      BY <1>1 DEF CInv, CatalogInv
    <2>3. StepwiseCompatible'
      BY DEF CInv, CatalogInv, StepwiseCompatible
    <2>4. QED
      BY <2>1, <2>2, <2>3 DEF CatalogInv
  <1>3. CallInv'
    BY StageSets DEF CallInv
  <1>4. ASSUME NEW n \in Names, protos'[n] # None
        PROVE  schemas[n] # None /\ protos'[n] \in Texts[n]
    <2>1. schemas[n] # None /\ protos'[n] = schemas[n].text
      BY <1>4, ActiveText DEF CInv, GInv
    <2>2. QED
      BY <2>1 DEF CInv, CatalogInv, RecordInv
  <1>5. ServedInv'
    BY <1>1, <1>4 DEF ServedInv
  <1>6. QED
    BY <1>2, <1>3, <1>5 DEF CInv

LEMMA CatalogActivate ==
  ASSUME CInv, GInv', NEW p \in Regs, Activate(p)
  PROVE  CInv'
  <1>1. Moves(p, "swap", "unlock") /\ UNCHANGED <<schemas, hist, up, regMu>>
    BY ActivateFacts DEF CInv, GInv
  <1>2. reg[p].stage \in Serialized /\ "unlock" \notin Compiled
    BY <1>1 DEF Moves, Serialized, Stages, Compiled
  <1>3. \A q \in Regs : reg'[q].stage \notin Compiled
    BY <1>1, <1>2, Alone, StageSets DEF CInv, GInv, Moves, Others
  <1>4. \A n \in Names : protos'[n] = activeSources[n]
    BY ActivateServes
  <1>5. up'
    BY <1>1 DEF CInv, CatalogInv
  <1>6. QED
    BY <1>1, <1>3, <1>4, <1>5, CatalogSettled

\* NewRegistry reads back the active texts when importers come first.
LEMMA ReloadsActiveTexts ==
  ASSUME CInv, ImportersFirst
  PROVE  loadFromStore = activeSources
  <1>1. TypeInv /\ RecordInv
    BY DEF CInv, GInv, CatalogInv
  <1>2. ASSUME NEW path \in Names  PROVE loadFromStore[path] = activeSources[path]
    <2>1. CASE schemas[path] = None
      <3>1. \A n \in Names : schemas[n] # None => schemas[n].fdset[path] = None
        BY <1>1, <2>1 DEF RecordInv
      <3>2. loadFromStore[path] = None
        BY <1>1, <3>1, Reloaded
      <3>3. QED
        BY <1>1, <2>1, <3>2, ActiveText
    <2>2. CASE schemas[path] # None
      <3>1. /\ schemas[path].fdset[path] = schemas[path].text
            /\ activeSources[path] = schemas[path].text /\ activeSources[path] # None
        BY <1>1, <2>2, ActiveText DEF RecordInv
      <3>2. PICK n \in Names : /\ schemas[n] # None /\ schemas[n].fdset[path] # None
                               /\ loadFromStore[path] = schemas[n].fdset[path]
                               /\ \A m \in Names :
                                    schemas[m] # None /\ schemas[m].fdset[path] # None => n >= m
        BY <1>1, <2>2, <3>1, Reloaded
      <3>3. n <= path
        BY <1>1, <3>2 DEF RecordInv
      <3>4. n >= path
        BY <2>2, <3>1, <3>2
      <3>5. n = path
        <4>1. n \in Nat /\ path \in Nat
          BY RegistryAssumption
        <4>2. QED
          BY <3>3, <3>4, <4>1, SMT
      <3>6. QED
        BY <3>1, <3>2, <3>5
    <2>3. QED
      BY <2>1, <2>2
  <1>3. loadFromStore = [path \in Names |-> loadFromStore[path]]
    BY DEF loadFromStore
  <1>4. activeSources = [path \in Names |-> activeSources[path]]
    BY DEF activeSources
  <1>5. QED
    BY <1>2, <1>3, <1>4

LEMMA CatalogCrash ==
  ASSUME CInv, GInv', ReloadsActive, Crash
  PROVE  CInv'
  <1>1. ImportersFirst
    BY DEF ReloadsActive, Crash
  <1>2. protos' = activeSources /\ UNCHANGED <<schemas, hist>>
    BY <1>1, ReloadsActiveTexts DEF Crash
  <1>3. up'
    BY <1>2 DEF Crash, CInv, CatalogInv
  <1>4. \A q \in Regs : reg'[q].stage \notin Compiled
    BY HistCrash DEF CInv, Compiled
  <1>5. QED
    BY <1>2, <1>3, <1>4, CatalogSettled

LEMMA CallSame ==
  ASSUME NEW q \in Regs, reg'[q] = reg[q], UNCHANGED <<schemas, protos>>
  PROVE  /\ CompiledAt(q) => CompiledAt(q)'
         /\ AcceptedAt(q) => AcceptedAt(q)'
         /\ StoredAt(q) => StoredAt(q)'
  <1>1. activeSources' = activeSources
    BY DEF activeSources
  <1>2. Sources(q)' = Sources(q)
    BY <1>1 DEF Sources
  <1>3. ImportersFirst' = ImportersFirst
    BY DEF ImportersFirst
  <1>4. CompiledAt(q) => CompiledAt(q)'
    BY <1>2, <1>3 DEF CompiledAt
  <1>5. ASSUME AcceptedAt(q)  PROVE (buildFiles(reg[q].cand))'
    BY <1>5 DEF AcceptedAt
  <1>6. AcceptedAt(q) => AcceptedAt(q)'
    BY <1>2, <1>5 DEF AcceptedAt
  <1>7. QED
    BY <1>4, <1>6 DEF StoredAt

LEMMA CatalogCall ==
  ASSUME CInv, GInv', NEW p \in Regs, NEW n \in Names, NEW x \in Texts[n], Call(p, n, x)
  PROVE  CInv'
  <1>1. Others(p) /\ reg'[p].stage = "lock" /\ reg[p].stage = "idle"
    BY HistCall DEF CInv, Call
  <1>2. UNCHANGED <<schemas, hist, protos, up>>
    BY DEF Call
  <1>3. CatalogInv' /\ activeSources' = activeSources
    BY <1>2, CatalogSame DEF CInv
  <1>4. \A q \in Regs \ {p} : reg'[q] = reg[q]
    BY <1>1 DEF Others
  <1>5. reg[p].stage \notin Compiled /\ reg'[p].stage \notin Compiled
    BY <1>1, StageSets
  <1>6. ASSUME NEW q \in Regs, q # p
        PROVE  /\ CompiledAt(q) => CompiledAt(q)'
               /\ AcceptedAt(q) => AcceptedAt(q)'
               /\ StoredAt(q) => StoredAt(q)'
    BY <1>2, <1>4, <1>6, CallSame
  <1>7. CallInv'
    BY <1>4, <1>5, <1>6, StageSets DEF CInv, CallInv
  <1>8. ServedInv'
    BY <1>2, <1>3, <1>4, <1>5, StageSets DEF CInv, ServedInv
  <1>9. QED
    BY <1>3, <1>7, <1>8 DEF CInv

LEMMA CatalogOther ==
  ASSUME CInv, GInv', UNCHANGED <<schemas, hist, protos, up, regMu, reg>>
  PROVE  CInv'
  <1>1. CatalogInv' /\ activeSources' = activeSources
    BY CatalogSame DEF CInv
  <1>2. ASSUME NEW q \in Regs
        PROVE  /\ CompiledAt(q) => CompiledAt(q)'
               /\ AcceptedAt(q) => AcceptedAt(q)'
               /\ StoredAt(q) => StoredAt(q)'
    BY CallSame
  <1>3. CallInv'
    BY <1>2 DEF CInv, CallInv
  <1>4. ServedInv'
    BY <1>1 DEF CInv, ServedInv
  <1>5. QED
    BY <1>1, <1>3, <1>4 DEF CInv

LEMMA CatalogRegister ==
  ASSUME CInv, GInv', NEW p \in Regs, RegisterStep(p)
  PROVE  CInv'
  <1>1. TypeInv /\ GInv /\ CallInv
    BY DEF CInv, GInv
  <1>2. CASE LockReg(p)
    BY <1>1, <1>2, LockFacts, CatalogMoves DEF Accepted, Compiled, Window
  <1>3. CASE compile(p)
    BY <1>3, CatalogCompile
  <1>4. CASE candidate(p)
    BY <1>4, CatalogCandidate
  <1>5. CASE nextVersion(p)
    <2>1. CASE Returns(p, "version")
      BY <1>1, <1>5, <2>1, VersionFacts, CatalogReturns DEF Serialized, Stages, Window
    <2>2. CASE /\ Moves(p, "version", "update")
               /\ reg'[p].fdset = reg[p].fdset /\ reg'[p].cand = reg[p].cand
      <3>1. CompiledAt(p) /\ AcceptedAt(p) /\ reg[p].stage \in Serialized
        BY <1>1, <2>2 DEF CallInv, Moves, Accepted, Compiled, Serialized, Stages
      <3>2. UNCHANGED <<schemas, hist, protos, up>>
        BY <1>1, <1>5, VersionFacts
      <3>3. CompiledAt(p)' /\ AcceptedAt(p)'
        BY <2>2, <3>1, <3>2, CompiledSame, AcceptedSame
      <3>4. QED
        BY <2>2, <3>1, <3>2, <3>3, CatalogMoves DEF Window
    <2>3. QED
      BY <1>1, <1>5, <2>1, <2>2, VersionFacts
  <1>6. CASE BeginUpdate(p)
    <2>1. /\ Moves(p, "update", "commit") /\ Keeps(p)
          /\ UNCHANGED <<schemas, hist, protos, up>>
      BY <1>1, <1>6, BeginFacts
    <2>2. CompiledAt(p) /\ AcceptedAt(p) /\ reg[p].stage \in Serialized
      BY <1>1, <2>1 DEF CallInv, Moves, Accepted, Compiled, Serialized, Stages
    <2>3. CompiledAt(p)' /\ AcceptedAt(p)'
      BY <2>1, <2>2, CompiledSame, AcceptedSame DEF Keeps
    <2>4. QED
      BY <2>1, <2>2, <2>3, CatalogMoves DEF Window
  <1>7. CASE CommitUpdate(p)
    BY <1>7, CatalogCommit
  <1>8. CASE FailUpdate(p)
    BY <1>1, <1>8, FailFacts, CatalogReturns DEF Serialized, Stages, Window
  <1>9. CASE LockMu(p)
    <2>1. /\ Moves(p, "activate", "swap") /\ Keeps(p)
          /\ UNCHANGED <<schemas, hist, protos, up>>
      BY <1>1, <1>9, LockMuFacts
    <2>2. CompiledAt(p) /\ AcceptedAt(p) /\ reg[p].stage \in Serialized
      BY <1>1, <2>1 DEF CallInv, Moves, Accepted, Compiled, Serialized, Stages
    <2>3. CompiledAt(p)' /\ AcceptedAt(p)'
      BY <2>1, <2>2, CompiledSame, AcceptedSame DEF Keeps
    <2>4. QED
      BY <2>1, <2>2, <2>3, CatalogMoves DEF Window
  <1>10. CASE Activate(p)
    BY <1>10, CatalogActivate
  <1>11. CASE UnlockReg(p)
    BY <1>1, <1>11, UnlockFacts, CatalogReturns DEF Serialized, Stages, Window
  <1>12. QED
    BY <1>2, <1>3, <1>4, <1>5, <1>6, <1>7, <1>8, <1>9, <1>10, <1>11 DEF RegisterStep

LEMMA CatalogInductive ==
  ASSUME ReloadsActive, CInv, [Next]_vars
  PROVE  CInv'
  <1>1. GInv'
    BY HistInductive DEF CInv
  <1>2. CASE UNCHANGED vars
    BY <1>1, <1>2, CatalogOther DEF vars
  <1>3. CASE Crash
    BY <1>1, <1>3, CatalogCrash
  <1>4. ASSUME NEW w \in Writers, WriteStep(w) \/ BeginWrite(w)  PROVE CInv'
    BY <1>1, <1>4, Writes, CatalogOther
  <1>5. ASSUME NEW p \in Regs, RegisterStep(p)  PROVE CInv'
    BY <1>1, <1>5, CatalogRegister
  <1>6. ASSUME NEW p \in Regs, NEW n \in Names, NEW x \in Texts[n], Call(p, n, x)  PROVE CInv'
    BY <1>1, <1>6, CatalogCall
  <1>7. QED
    BY <1>2, <1>3, <1>4, <1>5, <1>6 DEF Next

LEMMA CatalogInit == Init => CInv
  <1> SUFFICES ASSUME Init  PROVE CInv
    OBVIOUS
  <1>1. GInv
    BY HistInit
  <1>2. \A p \in Regs : reg[p].stage = "idle"
    BY IdleCall DEF Init
  <1>3. \A n \in Names : schemas[n] = None /\ protos[n] = None /\ activeSources[n] = None
    BY DEF Init, NoFiles, activeSources
  <1>4. buildFiles(activeSources)
    <2>1. Loaded(activeSources) = {}
      BY <1>3 DEF Loaded
    <2>2. QED
      BY <2>1 DEF buildFiles
  <1>5. StepwiseCompatible
    <2>1. ASSUME NEW v \in 1 .. MaxVersion - 1  PROVE v + 1 \in 1 .. MaxVersion
      BY RegistryAssumption, SMT
    <2>2. QED
      BY <2>1 DEF Init, StepwiseCompatible
  <1>6. RecordInv
    BY <1>3 DEF RecordInv
  <1>7. CatalogInv
    BY <1>4, <1>5, <1>6 DEF CatalogInv, Init
  <1>8. CallInv
    BY <1>2, StageSets DEF CallInv
  <1>9. ServedInv
    BY <1>3 DEF ServedInv
  <1>10. QED
    BY <1>1, <1>7, <1>8, <1>9 DEF CInv

\* The records, the history, what Register has in hand and what is served agree,
\* if the registry is not opened again or importers sort before what they import
\* (loadFromStore, registry.go).
THEOREM CatalogAgrees == ReloadsActive => (Spec => []CInv)
  <1> SUFFICES ASSUME ReloadsActive  PROVE Spec => []CInv
    OBVIOUS
  <1>1. CInv /\ [Next]_vars => CInv'
    BY CatalogInductive
  <1>2. QED
    BY <1>1, CatalogInit, PTL DEF Spec

\* Every accepted version is compatible with the one before it: between the
\* comparison and the commit nobody else registers (ensureFileCompatible,
\* Register), for any number of callers, schemas and versions.
THEOREM VersionsCompatible == ReloadsActive => (Spec => []StepwiseCompatible)
  <1>1. CInv => StepwiseCompatible
    BY DEF CInv, CatalogInv
  <1>2. QED
    BY <1>1, CatalogAgrees, PTL

\* Outside the window between its commit and its activation a registered schema
\* is served as it is stored, after a restart too (Register, loadFromStore).
THEOREM CatalogServed == ReloadsActive => (Spec => []ServesCatalog)
  <1>1. ASSUME CInv  PROVE ServesCatalog
    <2> SUFFICES ASSUME \A p \in Regs : reg[p].stage \notin {"activate", "swap"},
                        NEW n \in Names, schemas[n] # None
                 PROVE  protos[n] = schemas[n].text
      BY DEF ServesCatalog
    <2>1. protos[n] = activeSources[n]
      BY <1>1 DEF CInv, ServedInv, Window
    <2>2. QED
      BY <1>1, <2>1, ActiveText DEF CInv, GInv
  <1>2. QED
    BY <1>1, CatalogAgrees, PTL

\* The catalog can always be loaded again (NewRegistry after a crash).
THEOREM AlwaysReopens == ReloadsActive => (Spec => []Reopens)
  <1>1. CInv => Reopens
    BY DEF CInv, CatalogInv, Reopens
  <1>2. QED
    BY <1>1, CatalogAgrees, PTL

-------------------------------------------------------------------------------
(* Types in use.                                                           *)

\* No schema's texts disagree on the package.
PackagesFixed == \A n \in Names : \A x, y \in Texts[n] : x.pkg = y.pkg

\* The new file declares what the old one does, with its fields.
Covers(old, new) ==
  \A full : full \in Declared(old) =>
    full \in Declared(new) /\ old.msgs[full[2]] \subseteq new.msgs[full[2]]

LEMMA CompatibleCovers ==
  ASSUME NEW old, NEW new, ensureFileCompatible(old, new), new.pkg = old.pkg
  PROVE  Covers(old, new)
  <1> SUFFICES ASSUME NEW t \in DOMAIN old.msgs
               PROVE  /\ <<old.pkg, t>> \in Declared(new)
                      /\ old.msgs[<<old.pkg, t>>[2]] \subseteq new.msgs[<<old.pkg, t>>[2]]
    BY DEF Covers, Declared
  <1>1. t \in DOMAIN new.msgs /\ old.msgs[t] \subseteq new.msgs[t]
    BY DEF ensureFileCompatible
  <1>2. <<old.pkg, t>>[2] = t
    OBVIOUS
  <1>3. QED
    BY <1>1, <1>2 DEF Declared

\* Whatever a step serves covers what was served.
LEMMA ServedCovers ==
  ASSUME ReloadsActive, PackagesFixed, CInv, [Next]_vars, NEW n \in Names, protos[n] # None
  PROVE  protos'[n] # None /\ Covers(protos[n], protos'[n])
  <1>1. Covers(protos[n], protos[n])
    BY DEF Covers
  <1>2. TypeInv /\ schemas[n] # None /\ protos[n] \in Texts[n]
    BY DEF CInv, GInv, ServedInv
  <1>3. activeSources[n] # None /\ activeSources[n] = schemas[n].text
        /\ activeSources[n] \in Texts[n]
    BY <1>2, ActiveText DEF CInv, CatalogInv, RecordInv
  <1>4. Covers(protos[n], activeSources[n])
    <2>1. CASE protos[n] = activeSources[n]
      BY <1>1, <2>1
    <2>2. ASSUME NEW p \in Regs, reg[p].stage \in Window, reg[p].name = n
          PROVE  Covers(protos[n], activeSources[n])
      <3>1. AcceptedAt(p) /\ StoredAt(p)
        BY <2>2, StageSets DEF CInv, CallInv
      <3>2. ensureFileCompatible(protos[n], activeSources[n])
        BY <1>3, <2>2, <3>1 DEF AcceptedAt, StoredAt
      <3>3. QED
        BY <1>2, <1>3, <3>2, CompatibleCovers DEF PackagesFixed
    <2>3. QED
      BY <2>1, <2>2 DEF CInv, ServedInv
  <1>5. protos' = protos \/ protos' = activeSources
    <2>1. CASE UNCHANGED vars
      BY <2>1 DEF vars
    <2>2. CASE Crash
      BY <2>2, ReloadsActiveTexts DEF Crash, ReloadsActive
    <2>3. ASSUME NEW w \in Writers, WriteStep(w) \/ BeginWrite(w)  PROVE protos' = protos
      BY <2>3, Writes
    <2>4. ASSUME NEW p \in Regs, RegisterStep(p)
          PROVE  protos' = protos \/ protos' = activeSources
      <3>1. CASE Activate(p)
        BY <3>1, ActivateServes
      <3>2. CASE ~Activate(p)
        BY <2>4, <3>2 DEF RegisterStep, LockReg, compile, candidate, nextVersion, BeginUpdate,
                          CommitUpdate, FailUpdate, LockMu, UnlockReg
      <3>3. QED
        BY <3>1, <3>2
    <2>5. ASSUME NEW p \in Regs, NEW m \in Names, NEW x \in Texts[m], Call(p, m, x)
          PROVE  protos' = protos
      BY <2>5 DEF Call
    <2>6. QED
      BY <2>1, <2>2, <2>3, <2>4, <2>5 DEF Next
  <1>6. QED
    BY <1>1, <1>3, <1>4, <1>5

LEMMA CoveredTypes ==
  ASSUME \A n \in Names : protos[n] # None => protos'[n] # None /\ Covers(protos[n], protos'[n]),
         NEW full, Resolves(protos, full)
  PROVE  Resolves(protos', full) /\ FieldsOf(protos, full) \subseteq FieldsOf(protos', full)
  <1> DEFINE D(files) == {m \in Loaded(files) : full \in Declared(files[m])}
  <1>1. ASSUME NEW m \in D(protos)
        PROVE  m \in D(protos') /\ protos[m].msgs[full[2]] \subseteq protos'[m].msgs[full[2]]
    <2>1. m \in Names /\ protos[m] # None /\ full \in Declared(protos[m])
      BY <1>1 DEF Loaded
    <2>2. protos'[m] # None /\ Covers(protos[m], protos'[m])
      BY <2>1
    <2>3. QED
      BY <2>1, <2>2 DEF Covers, Loaded
  <1>2. PICK m \in D(protos) : TRUE
    BY DEF Resolves
  <1>3. Resolves(protos', full)
    BY <1>1, <1>2 DEF Resolves
  <1>4. FieldsOf(protos, full) = UNION {protos[k].msgs[full[2]] : k \in D(protos)}
    BY DEF FieldsOf
  <1>5. FieldsOf(protos', full) = UNION {protos'[k].msgs[full[2]] : k \in D(protos')}
    BY DEF FieldsOf
  <1> HIDE DEF D
  <1>6. QED
    BY <1>1, <1>3, <1>4, <1>5

\* A type a collection is bound to goes on resolving with every field it had, if
\* no schema changes its package and the registry reloads the active texts: the
\* two conditions without which it does not (ensureFileCompatible, Register).
THEOREM TypesStay == ReloadsActive /\ PackagesFixed => (Spec => TypesStable)
  <1> DEFINE A == \A full \in FullNames : Resolves(protos, full) =>
                    /\ Resolves(protos', full)
                    /\ FieldsOf(protos, full) \subseteq FieldsOf(protos', full)
  <1> SUFFICES ASSUME ReloadsActive, PackagesFixed  PROVE Spec => TypesStable
    OBVIOUS
  <1>1. ASSUME CInv, [Next]_vars  PROVE A
    <2>1. \A n \in Names : protos[n] # None => protos'[n] # None /\ Covers(protos[n], protos'[n])
      BY <1>1, ServedCovers
    <2>2. QED
      BY <2>1, CoveredTypes
  <1>2. Spec => []CInv
    BY CatalogAgrees
  <1>3. QED
    BY <1>1, <1>2, PTL DEF Spec, TypesStable

===============================================================================
