---------------------------- MODULE SchemaRegistry ----------------------------
(***************************************************************************)
(* The schema registry (internal/schema): Register with its three locks,   *)
(* the durable catalog with its version history, the in-memory descriptor  *)
(* set, document writers that ask for descriptors inside a bbolt           *)
(* transaction, and reopening after a crash.                               *)
(*                                                                         *)
(* A .proto text is a record: its package, the schemas it imports and, for *)
(* each short type name, the fields it declares.  A field is a pair of its *)
(* number and its contract; a contract that is a full name refers to that  *)
(* type.  A file descriptor carries what its text says, so the text stands *)
(* for the descriptor.                                                     *)
(***************************************************************************)
EXTENDS Integers, FiniteSets, FiniteSetsExt

CONSTANTS
  Names,        \* schema names, numbered in key order
  Texts,        \* Texts[n]: the texts callers register under n
  Regs,         \* callers of Register
  Writers,      \* document writers
  MaxVersion,   \* bound on a schema's version
  MayCrash,
  None

Text  == UNION {Texts[n] : n \in Names}
Files == [Names -> Text \cup {None}]  \* descriptors by path
NoFiles == [n \in Names |-> None]

\* An active record: a text, its version and its compiled closure.
Records == [text : Text, version : 1 .. MaxVersion, fdset : Files]

ASSUME RegistryAssumption ==
  /\ Names \subseteq Nat
  \* finitely many: some key is the last of any
  /\ \A S \in SUBSET Names : S # {} => \E last \in S : \A n \in S : last >= n
  /\ MaxVersion \in Nat
  /\ MayCrash \in BOOLEAN
  /\ Regs \cap Writers = {}
  /\ None \notin Text \cup Regs \cup Writers \cup Records

VARIABLES
  schemas,   \* __schemas__: the active record of each name
  hist,      \* __schema_history__: the texts by name and version
  protos,    \* fileProtos, from which files is built
  up,        \* the registry is open
  regMu,     \* the caller that holds regMu
  mu,        \* the caller that holds, or waits for, mu's write lock
  readers,   \* the holders of mu's read lock
  bolt,      \* the holder of bbolt's writer lock
  reg,       \* each Register call in progress
  wr         \* each document writer's stage

vars == <<schemas, hist, protos, up, regMu, mu, readers, bolt, reg, wr>>

Idle == [stage |-> "idle", name |-> None, text |-> None, fdset |-> NoFiles,
         cand |-> NoFiles, version |-> 0]

Init ==
  /\ schemas = [n \in Names |-> None]
  /\ hist = [n \in Names |-> [v \in 1 .. MaxVersion |-> None]]
  /\ protos = NoFiles
  /\ up = TRUE
  /\ regMu = None /\ mu = None /\ readers = {} /\ bolt = None
  /\ reg = [p \in Regs |-> Idle]
  /\ wr = [w \in Writers |-> "idle"]

-------------------------------------------------------------------------------
(* Compilation and compatibility.                                          *)

Loaded(files) == {n \in Names : files[n] # None}

\* A file and everything it imports, directly or not (collectFiles, topoSort).
Closure(files, n) ==
  LET Closed(S) == \A m \in S \cap Loaded(files) : files[m].imports \subseteq S
  IN  {m \in Names : \A S \in SUBSET Names : n \in S /\ Closed(S) => m \in S}

Only(files, S) == [n \in Names |-> IF n \in S THEN files[n] ELSE None]

Declared(text) == {<<text.pkg, t>> : t \in DOMAIN text.msgs}
Refs(text)     == {f[2] : f \in UNION {text.msgs[t] : t \in DOMAIN text.msgs}}
FullNames      == UNION {Declared(x) : x \in Text}

\* The files link: every import is there, imports have no cycle, no full name
\* is declared twice and a reference is declared by the file or an import.
buildFiles(files) ==
  LET L == Loaded(files)
  IN  \A n \in L :
        /\ files[n].imports \subseteq L
        /\ \A i \in files[n].imports : n \notin Closure(files, i)
        /\ \A m \in L \ {n} : Declared(files[n]) \cap Declared(files[m]) = {}
        /\ Refs(files[n]) \cap FullNames
             \subseteq UNION {Declared(files[m]) : m \in {n} \cup files[n].imports}

\* Every message and enum of the old file is there under its short name, with
\* every field number and its contract.
ensureFileCompatible(old, new) ==
  /\ DOMAIN old.msgs \subseteq DOMAIN new.msgs
  /\ \A t \in DOMAIN old.msgs : old.msgs[t] \subseteq new.msgs[t]

activeSources == [n \in Names |-> IF schemas[n] = None THEN None ELSE schemas[n].text]

\* The records in key order, each with its import closure: the last one to hold
\* a path decides.
loadFromStore ==
  [path \in Names |->
     LET holders == {n \in Names : schemas[n] # None /\ schemas[n].fdset[path] # None}
     IN  IF holders = {} THEN None ELSE schemas[Max(holders)].fdset[path]]

-------------------------------------------------------------------------------
(* Register.                                                               *)

Call(p, n, x) ==
  /\ up /\ reg[p].stage = "idle"
  /\ x \in Texts[n]
  /\ reg' = [reg EXCEPT ![p] = [Idle EXCEPT !.stage = "lock", !.name = n, !.text = x]]
  /\ UNCHANGED <<schemas, hist, protos, up, regMu, mu, readers, bolt, wr>>

\* Mutant: registrations are not serialized.
LockRegAny(p) ==
  /\ reg[p].stage = "lock"
  /\ regMu' = p
  /\ reg' = [reg EXCEPT ![p].stage = "compile"]
  /\ UNCHANGED <<schemas, hist, protos, up, mu, readers, bolt, wr>>

LockReg(p) ==
  /\ reg[p].stage = "lock"
  /\ regMu = None
  /\ regMu' = p
  /\ reg' = [reg EXCEPT ![p].stage = "compile"]
  /\ UNCHANGED <<schemas, hist, protos, up, mu, readers, bolt, wr>>

\* A step of p inside regMu: on with call r when ok, otherwise the error return
\* releases the lock.
Step(p, stage, ok, r) ==
  /\ reg[p].stage = stage
  /\ IF ok THEN reg' = [reg EXCEPT ![p] = r] /\ UNCHANGED regMu
     ELSE reg' = [reg EXCEPT ![p] = Idle] /\ regMu' = None

\* The catalog's texts with the submitted one, compiled from its name.
compile(p) ==
  LET n       == reg[p].name
      sources == [activeSources EXCEPT ![n] = reg[p].text]
      fdset   == Only(sources, Closure(sources, n))
  IN  /\ Step(p, "compile", buildFiles(fdset),
               [reg[p] EXCEPT !.fdset = fdset, !.stage = "candidate"])
      /\ UNCHANGED <<schemas, hist, protos, up, mu, readers, bolt, wr>>

\* The active files with the compiled ones over them.
candidateProtos(p) ==
  [n \in Names |-> IF reg[p].fdset[n] # None THEN reg[p].fdset[n] ELSE protos[n]]

\* Mutant: nothing is compared.
acceptableLinked(p) == buildFiles(candidateProtos(p))

\* The complete set links and the replaced file stays compatible.
acceptable(p) ==
  LET n == reg[p].name
  IN  /\ buildFiles(candidateProtos(p))
      /\ protos[n] # None => ensureFileCompatible(protos[n], candidateProtos(p)[n])

\* Mutant: mu is locked here and until activation.
candidateHoldsMu(p) ==
  /\ mu = None
  /\ Step(p, "candidate", acceptable(p),
          [reg[p] EXCEPT !.cand = candidateProtos(p), !.stage = "version"])
  /\ mu' = p
  /\ UNCHANGED <<schemas, hist, protos, up, readers, bolt, wr>>
\* Under mu's read lock, which the copy needs only for a moment.
candidate(p) ==
  /\ mu = None
  /\ Step(p, "candidate", acceptable(p),
          [reg[p] EXCEPT !.cand = candidateProtos(p), !.stage = "version"])
  /\ UNCHANGED <<schemas, hist, protos, up, mu, readers, bolt, wr>>

\* The version after the active record's; the bound stops further evolution.
nextVersion(p) ==
  LET n == reg[p].name
      v == IF schemas[n] = None THEN 1 ELSE schemas[n].version + 1
  IN  /\ Step(p, "version", v <= MaxVersion, [reg[p] EXCEPT !.version = v, !.stage = "update"])
      /\ UNCHANGED <<schemas, hist, protos, up, mu, readers, bolt, wr>>

BeginUpdate(p) ==
  /\ reg[p].stage = "update"
  /\ bolt = None
  /\ bolt' = p
  /\ reg' = [reg EXCEPT ![p].stage = "commit"]
  /\ UNCHANGED <<schemas, hist, protos, up, regMu, mu, readers, wr>>

\* One transaction writes the active record and the history record.
CommitUpdate(p) ==
  LET r == reg[p]
  IN  /\ r.stage = "commit"
      /\ schemas' = [schemas EXCEPT ![r.name] =
                       [text |-> r.text, version |-> r.version, fdset |-> r.fdset]]
      /\ hist' = [hist EXCEPT ![r.name][r.version] = r.text]
      /\ bolt' = None
      /\ reg' = [reg EXCEPT ![p].stage = "activate"]
      /\ UNCHANGED <<protos, up, regMu, mu, readers, wr>>

\* The transaction cannot be written: nothing changes, Register fails.
FailUpdate(p) ==
  /\ Step(p, "commit", FALSE, Idle)
  /\ bolt' = None
  /\ UNCHANGED <<schemas, hist, protos, up, mu, readers, wr>>

\* mu.Lock: readers that come later wait, the ones inside go on.
LockMu(p) ==
  /\ reg[p].stage = "activate"
  /\ mu = None
  /\ mu' = p
  /\ reg' = [reg EXCEPT ![p].stage = "swap"]
  /\ UNCHANGED <<schemas, hist, protos, up, regMu, readers, bolt, wr>>

Activate(p) ==
  /\ reg[p].stage = "swap"
  /\ readers = {}
  /\ protos' = reg[p].cand
  /\ mu' = None
  /\ reg' = [reg EXCEPT ![p].stage = "unlock"]
  /\ UNCHANGED <<schemas, hist, up, regMu, readers, bolt, wr>>

UnlockReg(p) ==
  /\ reg[p].stage = "unlock"
  /\ regMu' = None
  /\ reg' = [reg EXCEPT ![p] = Idle]
  /\ UNCHANGED <<schemas, hist, protos, up, mu, readers, bolt, wr>>

-------------------------------------------------------------------------------
(* A document writer: bbolt's lock first, then mu's read lock inside it.   *)
(* One descriptor read stands for the several a transaction makes.         *)

WriterStep(w, from, to) == up /\ wr[w] = from /\ wr' = [wr EXCEPT ![w] = to]

BeginWrite(w) ==
  /\ WriterStep(w, "idle", "tx")
  /\ bolt = None
  /\ bolt' = w
  /\ UNCHANGED <<schemas, hist, protos, up, regMu, mu, readers, reg>>

MessageDescriptor(w) ==
  /\ WriterStep(w, "tx", "reading")
  /\ mu = None
  /\ readers' = readers \cup {w}
  /\ UNCHANGED <<schemas, hist, protos, up, regMu, mu, bolt, reg>>

RUnlock(w) ==
  /\ WriterStep(w, "reading", "write")
  /\ readers' = readers \ {w}
  /\ UNCHANGED <<schemas, hist, protos, up, regMu, mu, bolt, reg>>

EndWrite(w) ==
  /\ WriterStep(w, "write", "idle")
  /\ bolt' = None
  /\ UNCHANGED <<schemas, hist, protos, up, regMu, mu, readers, reg>>

-------------------------------------------------------------------------------

\* The process stops anywhere; NewRegistry reads the catalog again.
Crash ==
  /\ MayCrash
  /\ protos' = loadFromStore
  /\ up' = buildFiles(protos')
  /\ regMu' = None /\ mu' = None /\ readers' = {} /\ bolt' = None
  /\ reg' = [p \in Regs |-> Idle]
  /\ wr' = [w \in Writers |-> "idle"]
  /\ UNCHANGED <<schemas, hist>>

RegisterStep(p) ==
  \/ LockReg(p) \/ compile(p) \/ candidate(p) \/ nextVersion(p) \/ BeginUpdate(p)
  \/ CommitUpdate(p) \/ FailUpdate(p) \/ LockMu(p) \/ Activate(p) \/ UnlockReg(p)

WriteStep(w) == MessageDescriptor(w) \/ RUnlock(w) \/ EndWrite(w)

Next ==
  \/ \E p \in Regs : RegisterStep(p) \/ \E n \in Names : \E x \in Texts[n] : Call(p, n, x)
  \/ \E w \in Writers : WriteStep(w) \/ BeginWrite(w)
  \/ Crash

\* Go's mutexes hand themselves to a waiter that has waited long enough, so a
\* lock that is free again and again is acquired; everything else is a running
\* goroutine.
Fairness ==
  /\ \A p \in Regs : SF_vars(RegisterStep(p))
  /\ \A w \in Writers : SF_vars(WriteStep(w))

Spec == Init /\ [][Next]_vars /\ Fairness

-------------------------------------------------------------------------------
(* Properties.                                                             *)

\* A history record is never rewritten (registry.go:37 "immutable records for
\* every schema version accepted").
HistoryImmutable ==
  [][\A n \in Names : \A v \in 1 .. MaxVersion :
       hist[n][v] # None => hist'[n][v] = hist[n][v]]_vars

\* Each accepted version is compatible with the one before it: the comparison
\* with the active descriptor is not outrun by another registration or a restart.
StepwiseCompatible ==
  \A n \in Names : \A v \in 1 .. MaxVersion - 1 :
    hist[n][v + 1] # None => ensureFileCompatible(hist[n][v], hist[n][v + 1])

\* Outside the window between commit and activation, the descriptors served are
\* those of the active records: an accepted version is the one used, and after a
\* restart too.
ServesCatalog ==
  (up /\ \A p \in Regs : reg[p].stage \notin {"activate", "swap"}) =>
    \A n \in Names : schemas[n] # None => protos[n] = schemas[n].text

\* The database can always be opened again (NewRegistry after a crash).
Reopens == up

\* The fields the served descriptors give a full name.
FieldsOf(files, full) ==
  UNION {files[n].msgs[full[2]] : n \in {m \in Loaded(files) : full \in Declared(files[m])}}

Resolves(files, full) == \E n \in Loaded(files) : full \in Declared(files[n])

\* A type that resolves goes on resolving, with every field it had: what
\* collections bound to it rely on (ensureFileCompatible, activation, reload).
TypesStable ==
  [][\A full \in FullNames : Resolves(protos, full) =>
       /\ Resolves(protos', full)
       /\ FieldsOf(protos, full) \subseteq FieldsOf(protos', full)]_vars

\* A Register call returns and a writer that asks for a descriptor inside its
\* transaction ends, whatever the others do: every path gives regMu and bbolt's
\* writer lock back, and nobody waits for bbolt while holding mu
\* (registry.go:59-64).
CallsEnd ==
  /\ \A p \in Regs : reg[p].stage # "idle" ~> reg[p].stage = "idle"
  /\ \A w \in Writers : wr[w] # "idle" ~> wr[w] = "idle"
===============================================================================
