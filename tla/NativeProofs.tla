----------------------------- MODULE NativeProofs -----------------------------
(***************************************************************************)
(* Handles and databases of the embedded library, for any threads, files   *)
(* and number of databases.                                                *)
(***************************************************************************)
EXTENDS Native, FiniteSetTheorems, TLAPS

\* First-order steps; those that need arithmetic, records or functions name SMT.
USE Zenon

Opening == {"load", "number", "store", "publish"}
Closing == {"close", "wait", "delete"}

\* A call: a database that is being opened is known to its opener alone, and
\* one that is being closed was given to some caller.
ThreadOK(t) ==
  /\ call[t].stage = "idle" => call[t].d = None
  /\ call[t].stage # "idle" => call[t].d \in 1 .. opens
  /\ call[t].stage \in Opening =>
       /\ db[call[t].d].open /\ call[t].d \notin held
       /\ \A h \in Handles : given[h] # call[t].d
       /\ \A u \in Threads \ {t} : call[u].d # call[t].d
  /\ call[t].stage = "store" =>
       /\ call[t].h \in 1 .. next /\ given[call[t].h] = None
       /\ \A u \in Threads \ {t} : call[u].stage = "store" => call[u].h # call[t].h
  /\ call[t].stage \in Closing =>
       IF t \in CThreads
       THEN call[t].h \in ended /\ call[t].h \in Handles /\ given[call[t].h] = call[t].d
       ELSE call[t].d \in held
  /\ call[t].stage = "wait" => db[call[t].d].closer = t
  /\ call[t].stage = "delete" => ~ db[call[t].d].open

\* The table holds what was given out, a database under one handle, and none
\* of the Go SDK's.
TableOK ==
  /\ held \subseteq 1 .. opens
  /\ \A h \in Handles : given[h] # None =>
       given[h] \in 1 .. opens /\ given[h] \notin held /\ h <= next
  /\ \A h \in Handles : table[h] # None => table[h] = given[h]
  /\ \A h, k \in Handles : given[h] # None /\ given[h] = given[k] => h = k

\* bbolt: a Close that waits has the writer's lock, and transactions are those
\* of operations under way.
DbOK(d) ==
  /\ db[d].closer # None => /\ db[d].writer = None
                            /\ call[db[d].closer].stage = "wait" /\ call[db[d].closer].d = d
  /\ \A t \in Threads : db[d].writer = t \/ t \in db[d].readers =>
                          call[t].stage = "run" /\ call[t].d = d

\* As many handles were numbered as databases have, or are about to have, one.
Numbered == {d \in 1 .. opens : \/ \E h \in Handles : given[h] = d
                                \/ \E t \in Threads : call[t].stage = "store" /\ call[t].d = d}
NumbersMatch == next = Cardinality(Numbered)

\* The inductive invariant.
NInv ==
  /\ TypeOK /\ (\A t \in Threads : ThreadOK(t)) /\ TableOK /\ (\A d \in Dbs : DbOK(d))
  /\ NumbersMatch /\ Closable /\ ValidUntilClosed /\ Exclusive

-------------------------------------------------------------------------------
LEMMA Constants ==
  /\ MaxOpens \in Nat /\ CThreads \cap GoThreads = {} /\ Threads = CThreads \cup GoThreads
  /\ None \notin Nat /\ None \notin Threads /\ Dbs = 1 .. MaxOpens /\ Handles = 1 .. MaxOpens
  BY NativeAssumption DEF Threads, Dbs, Handles

\* What a step of thread t leaves alone.
Others(t) == \A u \in Threads \ {t} : call'[u] = call[u]
OtherDbs(d) == \A e \in Dbs \ {d} : db'[e] = db[e]

LEMMA GoFacts ==
  ASSUME TypeOK, NEW t \in Threads, NEW c \in CallRecord, Go(t, c)
  PROVE  call' \in [Threads -> CallRecord] /\ call'[t] = c /\ Others(t)
  BY DEF Go, TypeOK, Others

LEMMA IdleFacts ==
  Idle \in CallRecord /\ Idle.stage = "idle" /\ Idle.d = None
  BY Constants DEF Idle, CallRecord, Stages, Ops

\* All of the invariant but the numbers.
Kept ==
  /\ TypeOK /\ (\A t \in Threads : ThreadOK(t)) /\ TableOK /\ (\A d \in Dbs : DbOK(d))
  /\ Closable /\ ValidUntilClosed /\ Exclusive

\* No other call is opening what call t has in its hands after its step.
Apart(t) == \A u \in Threads \ {t} : call[u].stage \in Opening => call'[t].d # call[u].d

\* A call that has returned has nothing in its hands.
LEMMA Returned ==
  ASSUME NInv, NEW t \in Threads, call'[t].stage = "idle", call'[t].d = None
  PROVE  ThreadOK(t)' /\ Apart(t)
  <1>1. \A u \in Threads : call[u].stage \in Opening => call[u].d \in 1 .. opens
    BY DEF NInv, ThreadOK, Opening
  <1>2. None \notin 1 .. opens
    BY Constants, SMT
  <1>3. QED
    BY <1>1, <1>2 DEF ThreadOK, Opening, Closing, Apart

\* The other calls, when the table only grows, as far as they are concerned.
LEMMA OthersKept ==
  ASSUME NInv, NEW t \in Threads, Others(t), Apart(t), NEW u \in Threads \ {t},
         opens' \in Nat, opens' >= opens, next' \in Nat, next' >= next, ended \subseteq ended',
         held \subseteq held', \A d \in held' \ held : d = call[t].d /\ call[t].stage \in Opening,
         \A h \in Handles : \/ given'[h] = given[h]
                            \/ /\ given[h] = None /\ call[t].stage = "store"
                               /\ given'[h] = call[t].d /\ h = call[t].h,
         call'[t].stage = "store" => \A w \in Threads \ {t} :
                                        call[w].stage = "store" => call[w].h # call'[t].h,
         call[u].stage = "wait" => db'[call[u].d].closer = u,
         call[u].stage = "delete" => ~ db'[call[u].d].open,
         call[u].stage \in Opening => db'[call[u].d].open
  PROVE  ThreadOK(u)'
  <1>1. call'[u] = call[u] /\ ThreadOK(u) /\ ThreadOK(t) /\ call[u] \in CallRecord /\ opens \in Nat
        /\ next \in Nat
    BY Constants, SMT DEF Others, NInv, TypeOK
  <1>2. ASSUME call[u].stage \in Opening, NEW w \in Threads \ {u}  PROVE call'[w].d # call[u].d
    <2>1. CASE w = t
      BY <1>2, <2>1 DEF Apart
    <2>2. CASE w # t
      BY <1>1, <1>2, <2>2, SMT DEF ThreadOK, Others
    <2>3. QED
      BY <2>1, <2>2
  <1>3. call[u].stage \in Opening => call[t].d # call[u].d
    BY <1>1 DEF ThreadOK
  <1>4. call[u].stage = "store" =>
          \A w \in Threads \ {u} : call'[w].stage = "store" => call'[w].h # call[u].h
    BY <1>1, SMT DEF ThreadOK, Others
  <1>5. call[u].stage \in Opening => call[u].d \notin held' /\ \A h \in Handles : given'[h] # call[u].d
    BY <1>1, <1>3 DEF ThreadOK
  <1>6. call[u].stage = "store" => call[u].h \in 1 .. next' /\ given'[call[u].h] = None
    BY <1>1, Constants, SMT DEF ThreadOK, NInv, TypeOK, Opening
  <1>7. call[u].stage \in Closing =>
          IF u \in CThreads
          THEN call[u].h \in ended' /\ call[u].h \in Handles /\ given'[call[u].h] = call[u].d
          ELSE call[u].d \in held'
    BY <1>1, Constants, SMT DEF ThreadOK, Closing
  <1>8. QED
    BY <1>1, <1>2, <1>4, <1>5, <1>6, <1>7, SMT DEF ThreadOK

\* A database whose locks a step of a call without locks leaves alone.
LEMMA LocksLeft ==
  ASSUME NInv, NEW t \in Threads, Others(t), call[t].stage \notin {"wait", "run"},
         NEW d \in Dbs, db'[d].closer = db[d].closer, db'[d].writer = db[d].writer,
         db'[d].readers = db[d].readers
  PROVE  DbOK(d)'
  <1>1. db[d] \in DbRecord /\ DbOK(d)
    BY DEF NInv, TypeOK
  <1>2. db[d].closer # None => db[d].closer \in Threads \ {t}
    BY <1>1 DEF DbRecord, DbOK
  <1>3. db[d].closer # None => call'[db[d].closer] = call[db[d].closer]
    BY <1>2 DEF Others
  <1>4. \A u \in Threads : db[d].writer = u \/ u \in db[d].readers => call'[u] = call[u]
    BY <1>1 DEF DbOK, Others
  <1>5. QED
    BY <1>1, <1>3, <1>4 DEF DbOK

LEMMA TableSame ==
  ASSUME TypeOK, TypeOK', TableOK, UNCHANGED <<opens, table, given, held>>, next' >= next
  PROVE  TableOK'
  <1>1. next \in Nat /\ next' \in Nat
    BY Constants, SMT DEF TypeOK
  <1>2. \A h \in Handles : h <= next => h <= next'
    BY <1>1, Constants, SMT
  <1>3. QED
    BY <1>2 DEF TableOK

\* A step that leaves the table and what callers have alone.
LEMMA TableLeft ==
  ASSUME NInv, NEW t \in Threads, TypeOK', ThreadOK(t)', Others(t), Apart(t),
         UNCHANGED <<opens, table, given, held>>, next' >= next, ended \subseteq ended',
         call'[t].stage = "store" => \A w \in Threads \ {t} :
                                        call[w].stage = "store" => call[w].h # call'[t].h,
         \A d \in Dbs : /\ db'[d].file = db[d].file /\ (db'[d].open => db[d].open) /\ DbOK(d)'
                        /\ db'[d].writer # None \/ db'[d].readers # {} => db'[d].open
                        /\ \A u \in Threads \ {t} : db[d].closer = u => db'[d].closer = u,
         \A d \in Dbs : db[d].open /\ ~ db'[d].open =>
           /\ \A u \in Threads \ {t} : call[u].stage \in Opening => call[u].d # d
           /\ \A h \in Handles \ ended' : given[h] # d,
         call[t].stage \in Opening /\ db'[call[t].d].open =>
           call'[t].stage \in Opening /\ call'[t].d = call[t].d
  PROVE  Kept'
  <1>1. ASSUME NEW u \in Threads \ {t}  PROVE ThreadOK(u)'
    <2>1. ThreadOK(u) /\ call[u] \in CallRecord /\ opens \in 0 .. MaxOpens
      BY DEF NInv, TypeOK
    <2>2. call[u].stage # "idle" => call[u].d \in Dbs
      BY <2>1, Constants, SMT DEF ThreadOK
    <2>3. /\ call[u].stage = "wait" => db'[call[u].d].closer = u
          /\ call[u].stage = "delete" => ~ db'[call[u].d].open
          /\ call[u].stage \in Opening => db'[call[u].d].open
      BY <2>1, <2>2, SMT DEF ThreadOK, Opening
    <2>4. opens' \in Nat /\ next' \in Nat /\ opens' >= opens
      BY Constants, SMT DEF TypeOK, NInv
    <2>5. QED
      BY <2>3, <2>4, OthersKept
  <1>2. TableOK'
    BY TableSame DEF NInv
  <1>3. Closable'
    <2> SUFFICES ASSUME NEW d \in Dbs, db'[d].open
                 PROVE  \/ \E h \in Handles : table'[h] = d
                        \/ \E w \in Threads : call'[w].d = d /\ call'[w].stage \in Opening
                        \/ d \in held'
      BY DEF Closable, Opening
    <2>1. ASSUME NEW w \in Threads, call[w].d = d, call[w].stage \in Opening
          PROVE  call'[w].d = d /\ call'[w].stage \in Opening
      BY <2>1 DEF Others
    <2>2. QED
      BY <2>1 DEF NInv, Closable, Opening
  <1>4. ValidUntilClosed'
    BY SMT DEF NInv, TypeOK, ValidUntilClosed
  <1>5. Exclusive'
    BY DEF NInv, Exclusive
  <1>6. QED
    BY <1>1, <1>2, <1>3, <1>4, <1>5 DEF Kept

\* A step of one call that touches no database.
LEMMA CallOnly ==
  ASSUME NInv, NEW t \in Threads, TypeOK', ThreadOK(t)', Others(t), Apart(t),
         UNCHANGED <<db, opens, table, given, held>>, next' >= next, ended \subseteq ended',
         call'[t].stage = "store" => \A w \in Threads \ {t} :
                                        call[w].stage = "store" => call[w].h # call'[t].h,
         call[t].stage \notin {"wait", "run"},
         call[t].stage \in Opening => call'[t].stage \in Opening /\ call'[t].d = call[t].d
  PROVE  Kept'
  <1>1. \A d \in Dbs : DbOK(d)'
    BY LocksLeft
  <1>2. \A d \in Dbs : db'[d].writer # None \/ db'[d].readers # {} => db'[d].open
    BY DEF NInv, Exclusive
  <1>3. QED
    BY <1>1, <1>2, TableLeft

\* A call that has nothing in its hands returns.
LEMMA ReturnKeeps ==
  ASSUME NInv, NEW t \in Threads, call[t].stage \in {"idle", "begin"}, Return(t),
         UNCHANGED <<db, opens, table, next, given, held, ended>>
  PROVE  Kept'
  <1>1. TypeOK' /\ call'[t].stage = "idle" /\ call'[t].d = None /\ Others(t)
    BY IdleFacts, GoFacts DEF Return, NInv, TypeOK
  <1>2. ThreadOK(t)' /\ Apart(t)
    BY <1>1, Returned
  <1>3. next' >= next
    BY Constants, SMT DEF NInv, TypeOK
  <1>4. QED
    BY <1>1, <1>2, <1>3, CallOnly DEF Opening

\* An operation or a Close begins, on a database that some caller was given.
LEMMA CalledKeeps ==
  ASSUME NInv, NEW t \in Threads, call[t].stage = "idle",
         NEW c \in CallRecord, Go(t, c), c.stage \in {"begin", "close"}, c.d \in Dbs,
         c.d \in held \/ \E h \in Handles : given[h] = c.d,
         c.stage = "close" => IF t \in CThreads
                              THEN c.h \in ended' /\ c.h \in Handles /\ given[c.h] = c.d
                              ELSE c.d \in held,
         ended \subseteq ended', ended' \subseteq Handles,
         UNCHANGED <<db, opens, table, next, given, held>>
  PROVE  Kept'
  <1>1. TypeOK' /\ call'[t] = c /\ Others(t)
    BY GoFacts DEF NInv, TypeOK
  <1>2. c.d \in 1 .. opens
    BY Constants, SMT DEF NInv, TableOK
  <1>3. Apart(t)
    BY <1>1, SMT DEF NInv, ThreadOK, Opening, Apart
  <1>4. ThreadOK(t)'
    BY <1>1, <1>2 DEF ThreadOK, Opening, Closing
  <1>5. next' >= next
    BY Constants, SMT DEF NInv, TypeOK
  <1>6. QED
    BY <1>1, <1>3, <1>4, <1>5, CallOnly DEF Opening

\* KoraDBCall and DatabaseCall, KoraDBClose and DatabaseClose.
LEMMA CallsKeep ==
  ASSUME NInv, NEW t \in Threads,
         \/ t \in CThreads /\ (KoraDBClose(t) \/ KoraDBCall(t))
         \/ t \in GoThreads /\ (DatabaseClose(t) \/ DatabaseCall(t))
  PROVE  Kept'
  <1>0. call[t].stage = "idle" /\ UNCHANGED <<db, opens, table, next, given, held>>
    BY DEF KoraDBClose, KoraDBCall, DatabaseClose, DatabaseCall, At
  <1>1. CASE Return(t) /\ UNCHANGED ended
    BY <1>0, <1>1, ReturnKeeps
  <1>2. ASSUME NEW op \in Ops, NEW d \in Dbs, UNCHANGED ended,
               d \in held \/ \E h \in Handles : given[h] = d,
               Go(t, [Idle EXCEPT !.stage = "begin", !.d = d, !.op = op])
        PROVE  Kept'
    <2> DEFINE c == [Idle EXCEPT !.stage = "begin", !.d = d, !.op = op]
    <2>1. c \in CallRecord /\ c.stage = "begin" /\ c.d = d
      BY DEF Idle, CallRecord, Stages
    <2>2. Go(t, c)
      BY <1>2
    <2> HIDE DEF c
    <2>3. QED
      BY <1>0, <1>2, <2>1, <2>2, CalledKeeps DEF NInv, TypeOK
  <1>3. CASE KoraDBCall(t)
    <2>1. \A h \in Handles : table[h] # None => table[h] \in Dbs /\ given[h] = table[h]
      BY DEF NInv, TypeOK, TableOK
    <2>2. QED
      BY <1>1, <1>2, <1>3, <2>1 DEF KoraDBCall
  <1>4. CASE DatabaseCall(t)
    BY <1>1, <1>2, <1>4 DEF DatabaseCall, NInv, TypeOK
  <1>5. CASE KoraDBClose(t) /\ t \in CThreads
    <2>1. PICK h \in Handles :
            IF table[h] = None
            THEN Return(t) /\ UNCHANGED ended
            ELSE /\ Go(t, [Idle EXCEPT !.stage = "close", !.h = h, !.d = table[h]])
                 /\ ended' = ended \cup {h}
      BY <1>5 DEF KoraDBClose
    <2>2. CASE table[h] # None
      <3> DEFINE c == [Idle EXCEPT !.stage = "close", !.h = h, !.d = table[h]]
      <3>1. table[h] \in Dbs /\ given[h] = table[h]
        BY <2>2 DEF NInv, TypeOK, TableOK
      <3>2. c \in CallRecord /\ c.stage = "close" /\ c.d = table[h] /\ c.h = h
        BY <3>1 DEF Idle, CallRecord, Stages
      <3>3. Go(t, c) /\ ended' = ended \cup {h} /\ ended \subseteq Handles
        BY <2>1, <2>2 DEF NInv, TypeOK
      <3> HIDE DEF c
      <3>4. QED
        BY <1>0, <1>5, <3>1, <3>2, <3>3, CalledKeeps
    <2>3. QED
      BY <1>1, <2>1, <2>2
  <1>6. CASE DatabaseClose(t) /\ t \in GoThreads
    <2>1. PICK d \in held : Go(t, [Idle EXCEPT !.stage = "close", !.d = d])
      BY <1>6 DEF DatabaseClose
    <2> DEFINE c == [Idle EXCEPT !.stage = "close", !.d = d]
    <2>2. c \in CallRecord /\ c.stage = "close" /\ c.d = d /\ d \in Dbs
      BY DEF Idle, CallRecord, Stages, NInv, TypeOK
    <2>3. Go(t, c) /\ UNCHANGED ended /\ ended \subseteq Handles
      BY <1>6, <2>1 DEF DatabaseClose, NInv, TypeOK
    <2> HIDE DEF c
    <2>4. QED
      BY <1>0, <1>6, <2>2, <2>3, CalledKeeps, Constants
  <1>7. QED
    BY <1>3, <1>4, <1>5, <1>6

-------------------------------------------------------------------------------
\* The numbers: a call about to take one finds next below opens.
LEMMA NumberFits ==
  ASSUME NInv, NEW t \in Threads, call[t].stage = "number"
  PROVE  /\ next + 1 <= opens
         /\ Cardinality(Numbered \cup {call[t].d}) = next + 1
  <1>1. /\ call[t].d \in 1 .. opens /\ opens \in Nat
        /\ \A h \in Handles : given[h] # call[t].d
        /\ \A u \in Threads \ {t} : call[u].d # call[t].d
    BY Constants, SMT DEF NInv, TypeOK, ThreadOK, Opening
  <1>2. call[t].d \notin Numbered /\ Numbered \cup {call[t].d} \in SUBSET (1 .. opens)
    BY <1>1 DEF Numbered
  <1>3. IsFiniteSet(1 .. opens) /\ Cardinality(1 .. opens) = opens
    BY <1>1, FS_Interval, SMT
  <1>4. IsFiniteSet(Numbered)
    BY <1>2, <1>3, FS_Subset
  <1>5. Cardinality(Numbered \cup {call[t].d}) = next + 1
    BY <1>2, <1>4, FS_AddElement DEF NInv, NumbersMatch
  <1>6. Cardinality(Numbered \cup {call[t].d}) <= opens
    BY <1>2, <1>3, FS_Subset
  <1>7. QED
    BY <1>5, <1>6

\* Steps that number nothing.
LEMMA NumbersLeft ==
  ASSUME NInv, NEW t \in Threads, Others(t), opens' \in Nat, opens' >= opens,
         next' = next, given' = given,
         call[t].stage # "store", call'[t].stage # "store"
  PROVE  NumbersMatch'
  <1>1. /\ \A u \in Threads : /\ (call'[u].stage = "store" <=> call[u].stage = "store")
                              /\ call[u].stage = "store" => call'[u].d = call[u].d
        /\ \A u \in Threads : call[u].stage = "store" => call[u].d \in 1 .. opens
        /\ \A h \in Handles : given[h] # None => given[h] \in 1 .. opens
        /\ opens \in Nat
    BY Constants, SMT DEF Others, NInv, ThreadOK, TableOK, TypeOK
  <1>2. \A d \in 1 .. opens' : (\E h \in Handles : given[h] = d) => d \in 1 .. opens
    BY <1>1, Constants, SMT
  <1>3. \A d \in 1 .. opens : d \in 1 .. opens'
    BY <1>1, SMT
  <1>4. Numbered' = Numbered
    BY <1>1, <1>2, <1>3 DEF Numbered
  <1>5. QED
    BY <1>4 DEF NInv, NumbersMatch

LEMMA OpenKeeps ==
  ASSUME NInv, NEW t \in Threads, Open(t)
  PROVE  NInv'
  <1>0. call[t].stage = "idle" /\ opens < MaxOpens /\ UNCHANGED <<table, next, given, held, ended>>
        /\ opens \in Nat
    BY Constants, SMT DEF Open, At, NInv, TypeOK
  <1>1. PICK f \in Opens[t] :
          IF Locked(f)
          THEN Return(t) /\ UNCHANGED <<db, opens>>
          ELSE /\ opens' = opens + 1
               /\ db' = [db EXCEPT ![opens + 1] = [Unopened EXCEPT !.file = f, !.open = TRUE]]
               /\ Go(t, [Idle EXCEPT !.stage = "load", !.d = opens + 1])
    BY DEF Open
  <1>2. CASE Locked(f)
    <2>1. Kept'
      BY <1>0, <1>1, <1>2, ReturnKeeps
    <2>2. Others(t) /\ call'[t].stage = "idle"
      BY <1>1, <1>2, IdleFacts, GoFacts DEF Return, NInv
    <2>3. NumbersMatch'
      BY <1>0, <1>1, <1>2, <2>2, NumbersLeft, SMT
    <2>4. QED
      BY <2>1, <2>3 DEF Kept, NInv
  <1>3. CASE ~ Locked(f)
    <2> DEFINE n == opens + 1
               c == [Idle EXCEPT !.stage = "load", !.d = n]
               b == [Unopened EXCEPT !.file = f, !.open = TRUE]
    <2>1. n \in Dbs /\ n = opens + 1 /\ opens' = n
      BY <1>0, <1>1, <1>3, Constants, SMT
    <2>2. c \in CallRecord /\ c.stage = "load" /\ c.d = n
      BY <2>1 DEF Idle, CallRecord, Stages
    <2>3. /\ b \in DbRecord /\ b.file = f /\ b.open /\ b.writer = None /\ b.readers = {}
          /\ b.closer = None
      BY NativeAssumption DEF Unopened, DbRecord
    <2>4. Go(t, c) /\ db' = [db EXCEPT ![n] = b]
      BY <1>1, <1>3
    <2> HIDE DEF c, b, n
    <2>5. TypeOK' /\ call'[t] = c /\ Others(t) /\ db'[n] = b /\ OtherDbs(n)
      <3>1. TypeOK
        BY DEF NInv
      <3>2. call' \in [Threads -> CallRecord] /\ call'[t] = c /\ Others(t)
        BY <2>2, <2>4, <3>1, GoFacts
      <3>3. db' \in [Dbs -> DbRecord] /\ db'[n] = b /\ OtherDbs(n)
        BY <2>1, <2>3, <2>4, <3>1 DEF TypeOK, OtherDbs
      <3>4. opens' \in 0 .. MaxOpens
        BY <1>0, <2>1, Constants, SMT
      <3>5. QED
        BY <1>0, <3>1, <3>2, <3>3, <3>4 DEF TypeOK
    <2>6. /\ n \notin 1 .. opens /\ n \notin held /\ \A h \in Handles : given[h] # n
          /\ \A u \in Threads : call[u].stage # "idle" => call[u].d \in 1 .. opens
          /\ \A u \in Threads : call[u].d # n
      <3>1. n \notin 1 .. opens /\ n # None
        BY <1>0, <2>1, Constants, SMT
      <3>2. n \notin held /\ \A h \in Handles : given[h] # n
        BY <3>1 DEF NInv, TableOK
      <3>3. \A u \in Threads : /\ call[u].stage = "idle" => call[u].d = None
                               /\ call[u].stage # "idle" => call[u].d \in 1 .. opens
        BY DEF NInv, ThreadOK
      <3>4. QED
        BY <3>1, <3>2, <3>3
    <2>7. Apart(t)
      BY <2>2, <2>5, <2>6 DEF Apart
    <2>8. ThreadOK(t)'
      BY <1>0, <2>1, <2>2, <2>3, <2>5, <2>6, SMT DEF ThreadOK, Opening, Closing, Others
    <2>9. ASSUME NEW u \in Threads \ {t}  PROVE ThreadOK(u)'
      <3>1. call[u].stage # "idle" => db'[call[u].d] = db[call[u].d]
        BY <1>0, <2>1, <2>5, <2>6, Constants, SMT DEF OtherDbs
      <3>2. /\ call[u].stage = "wait" => db'[call[u].d].closer = u
            /\ call[u].stage = "delete" => ~ db'[call[u].d].open
            /\ call[u].stage \in Opening => db'[call[u].d].open
        BY <3>1 DEF NInv, ThreadOK, Opening
      <3>3. next' \in Nat /\ next' >= next /\ opens' \in Nat /\ opens' >= opens
        BY <1>0, <2>1, Constants, SMT DEF NInv, TypeOK
      <3>4. QED
        BY <1>0, <2>2, <2>5, <2>7, <3>2, <3>3, OthersKept
    <2>10. TableOK'
      BY <1>0, <2>1, Constants, SMT DEF NInv, TypeOK, TableOK
    <2>11. ASSUME NEW d \in Dbs  PROVE DbOK(d)'
      <3>1. CASE d = n
        BY <2>3, <2>5, <3>1, Constants DEF DbOK
      <3>2. CASE d # n
        BY <1>0, <2>5, <3>2, LocksLeft DEF OtherDbs
      <3>3. QED
        BY <3>1, <3>2
    <2>12. Closable'
      <3> SUFFICES ASSUME NEW d \in Dbs, db'[d].open
                   PROVE  \/ \E h \in Handles : table'[h] = d
                          \/ \E w \in Threads : call'[w].d = d /\ call'[w].stage \in Opening
                          \/ d \in held'
        BY DEF Closable, Opening
      <3>1. CASE d = n
        BY <2>2, <2>5, <3>1 DEF Opening
      <3>2. CASE d # n
        <4>1. ASSUME NEW w \in Threads, call[w].d = d, call[w].stage \in Opening
              PROVE  call'[w].d = d /\ call'[w].stage \in Opening
          BY <1>0, <2>5, <4>1 DEF Others, Opening
        <4>2. QED
          BY <1>0, <2>5, <3>2, <4>1 DEF NInv, Closable, Opening, OtherDbs
      <3>3. QED
        BY <3>1, <3>2
    <2>13. ValidUntilClosed'
      BY <1>0, <2>5, <2>6, Constants, SMT DEF NInv, TypeOK, ValidUntilClosed, OtherDbs
    <2>14. Exclusive'
      <3>1. \A d \in Dbs \ {n} : db[d].open => db[d].file # f
        BY <1>3 DEF Locked
      <3>2. QED
        BY <2>3, <2>5, <3>1, SMT DEF NInv, Exclusive, OtherDbs
    <2>15. NumbersMatch'
      BY <1>0, <2>1, <2>2, <2>5, NumbersLeft, SMT
    <2>16. QED
      BY <2>5, <2>8, <2>9, <2>10, <2>11, <2>12, <2>13, <2>14, <2>15 DEF NInv
  <1>4. QED
    BY <1>2, <1>3

LEMMA LoadKeeps ==
  ASSUME NInv, NEW t \in Threads, Load(t)
  PROVE  NInv'
  <1>0. /\ call[t].stage = "load" /\ UNCHANGED <<opens, table, next, given, held, ended>>
        /\ call[t] \in CallRecord /\ ThreadOK(t) /\ call[t].d \in Dbs
        /\ next' >= next /\ opens' >= opens /\ opens' \in Nat
    BY Constants, SMT DEF Load, At, NInv, TypeOK, ThreadOK
  <1>1. CASE Go(t, [call[t] EXCEPT !.stage = IF t \in CThreads THEN "number" ELSE "publish"])
             /\ UNCHANGED db
    <2> DEFINE c == [call[t] EXCEPT !.stage = IF t \in CThreads THEN "number" ELSE "publish"]
    <2>1. c \in CallRecord /\ c.stage \in {"number", "publish"} /\ c.d = call[t].d
      BY <1>0 DEF CallRecord, Stages
    <2>2. Go(t, c)
      BY <1>1
    <2> HIDE DEF c
    <2>3. TypeOK' /\ call'[t] = c /\ Others(t)
      BY <1>0, <1>1, <2>1, <2>2, GoFacts DEF NInv, TypeOK
    <2>4. ThreadOK(t)' /\ Apart(t)
      BY <1>0, <1>1, <2>1, <2>3 DEF ThreadOK, Opening, Closing, Others, Apart
    <2>5. Kept'
      BY <1>0, <1>1, <2>1, <2>3, <2>4, CallOnly DEF Opening
    <2>6. NumbersMatch'
      BY <1>0, <2>1, <2>3, NumbersLeft
    <2>7. QED
      BY <2>5, <2>6 DEF Kept, NInv
  <1>2. CASE db' = [db EXCEPT ![call[t].d].open = FALSE] /\ Return(t)
    <2> DEFINE d0 == call[t].d
    <2>0. d0 \in Dbs /\ db[d0] \in DbRecord
      BY <1>0 DEF NInv, TypeOK
    <2>1. db' = [db EXCEPT ![d0] = [db[d0] EXCEPT !.open = FALSE]]
      BY <1>2
    <2>2. /\ db' \in [Dbs -> DbRecord] /\ OtherDbs(d0) /\ ~ db'[d0].open
          /\ db'[d0].file = db[d0].file /\ db'[d0].writer = db[d0].writer
          /\ db'[d0].readers = db[d0].readers /\ db'[d0].closer = db[d0].closer
      BY <2>0, <2>1 DEF NInv, TypeOK, DbRecord, OtherDbs
    <2>3. TypeOK' /\ call'[t].stage = "idle" /\ call'[t].d = None /\ Others(t)
      <3>1. TypeOK
        BY DEF NInv
      <3>2. call' \in [Threads -> CallRecord] /\ call'[t] = Idle /\ Others(t)
        BY <1>2, <3>1, IdleFacts, GoFacts DEF Return
      <3>3. QED
        BY <1>0, <2>2, <3>1, <3>2, IdleFacts DEF TypeOK
    <2>4. ThreadOK(t)' /\ Apart(t)
      BY <2>3, Returned
    <2>5. \A d \in Dbs : DbOK(d)' /\ db'[d].closer = db[d].closer
      BY <1>0, <2>2, <2>3, LocksLeft DEF OtherDbs
    \* Nobody has a transaction on a database that only its opener knows.
    <2>6. db[d0].writer = None /\ db[d0].readers = {}
      <3>1. \A u \in Threads \ {t} : call[u].d # d0
        BY <1>0 DEF ThreadOK, Opening
      <3>2. \A u \in Threads : ~ (db[d0].writer = u \/ u \in db[d0].readers)
        BY <1>0, <2>0, <3>1 DEF NInv, DbOK
      <3>3. QED
        BY <2>0, <3>2 DEF DbRecord
    <2>7. Kept'
      <3>1. \A d \in Dbs : /\ db'[d].file = db[d].file /\ (db'[d].open => db[d].open)
                           /\ db'[d].writer # None \/ db'[d].readers # {} => db'[d].open
        BY <2>2, <2>6, SMT DEF OtherDbs, NInv, Exclusive
      <3>2. \A d \in Dbs : db[d].open /\ ~ db'[d].open => d = d0
        BY <2>2 DEF OtherDbs
      <3>3. /\ \A u \in Threads \ {t} : call[u].d # d0
            /\ \A h \in Handles : given[h] # d0
        BY <1>0 DEF ThreadOK, Opening
      <3> HIDE DEF d0
      <3>4. QED
        BY <1>0, <2>2, <2>3, <2>4, <2>5, <3>1, <3>2, <3>3, TableLeft, SMT DEF d0
    <2>8. NumbersMatch'
      BY <1>0, <2>3, NumbersLeft
    <2>9. QED
      BY <2>7, <2>8 DEF Kept, NInv
  <1>3. QED
    BY <1>1, <1>2 DEF Load

LEMMA NumberKeeps ==
  ASSUME NInv, NEW t \in Threads, Number(t)
  PROVE  NInv'
  <1> DEFINE c == [call[t] EXCEPT !.stage = "store", !.h = next + 1]
  <1>0. /\ call[t].stage = "number" /\ UNCHANGED <<db, opens, table, given, held, ended>>
        /\ call[t] \in CallRecord /\ ThreadOK(t) /\ next' = next + 1 /\ next \in Nat
        /\ next + 1 <= opens /\ opens \in 0 .. MaxOpens
    <2>1. call[t].stage = "number"
      BY DEF Number, At
    <2>2. next + 1 <= opens
      BY <2>1, NumberFits
    <2>3. QED
      BY <2>1, <2>2, Constants, SMT DEF Number, NInv, TypeOK
  <1>1. next' \in 0 .. MaxOpens /\ next' \in Handles /\ next' >= next
    BY <1>0, Constants, SMT
  <1>2. c \in CallRecord /\ c.stage = "store" /\ c.d = call[t].d /\ c.h = next'
    BY <1>0, <1>1 DEF CallRecord, Stages
  <1>3. Go(t, c)
    BY DEF Number
  <1> HIDE DEF c
  <1>4. TypeOK' /\ call'[t] = c /\ Others(t)
    BY <1>0, <1>1, <1>2, <1>3, GoFacts DEF NInv, TypeOK
  \* Every handle in use, or about to be, has a smaller number.
  <1>5. /\ given[next'] = None
        /\ \A u \in Threads \ {t} : call[u].stage = "store" => call[u].h # next'
    <2>1. \A u \in Threads : call[u].stage = "store" => call[u].h \in 1 .. next
      BY DEF NInv, ThreadOK
    <2>2. given[next'] # None => next' <= next
      BY <1>1 DEF NInv, TableOK
    <2>3. QED
      BY <1>0, <2>1, <2>2, SMT
  <1>6. ThreadOK(t)' /\ Apart(t)
    BY <1>0, <1>1, <1>2, <1>4, <1>5, Constants, SMT
    DEF ThreadOK, Opening, Closing, Others, Apart
  <1>7. Kept'
    BY <1>0, <1>1, <1>2, <1>4, <1>5, <1>6, CallOnly DEF Opening
  <1>8. Numbered' = Numbered \cup {call[t].d}
    <2>1. call[t].d \in 1 .. opens
      BY <1>0 DEF ThreadOK
    <2>2. \A d \in 1 .. opens :
            (\E u \in Threads : call'[u].stage = "store" /\ call'[u].d = d)
            <=> d = call[t].d \/ \E u \in Threads : call[u].stage = "store" /\ call[u].d = d
      BY <1>0, <1>2, <1>4 DEF Others
    <2>3. QED
      BY <1>0, <2>1, <2>2, SMT DEF Numbered
  <1>9. NumbersMatch'
    BY <1>0, <1>8, NumberFits DEF NumbersMatch
  <1>10. QED
    BY <1>7, <1>9 DEF Kept, NInv

\* The database opened goes to the caller: by a handle in the table, or itself.
LEMMA HandedOverKeeps ==
  ASSUME NInv, NEW t \in Threads, Store(t) \/ Publish(t)
  PROVE  NInv'
  <1>0. /\ call[t].stage \in {"store", "publish"} /\ UNCHANGED <<db, opens, next, ended>>
        /\ call[t] \in CallRecord /\ ThreadOK(t) /\ call[t].d \in 1 .. opens /\ call[t].d \in Dbs
        /\ db[call[t].d].open /\ call[t].d \notin held /\ call[t].d # None
        /\ \A h \in Handles : given[h] # call[t].d
        /\ \A u \in Threads \ {t} : call[u].d # call[t].d
        /\ next' >= next /\ next' \in Nat /\ opens' >= opens /\ opens' \in Nat
    <2>1. call[t].stage \in {"store", "publish"} /\ UNCHANGED <<db, opens, next, ended>>
      BY DEF Store, Publish, At
    <2>2. TypeOK /\ ThreadOK(t)
      BY DEF NInv
    <2>3. call[t] \in CallRecord /\ call[t].stage \in Opening /\ call[t].stage # "idle"
      BY <2>1, <2>2 DEF TypeOK, Opening
    <2>4. /\ call[t].d \in 1 .. opens /\ db[call[t].d].open /\ call[t].d \notin held
          /\ \A h \in Handles : given[h] # call[t].d
          /\ \A u \in Threads \ {t} : call[u].d # call[t].d
      BY <2>2, <2>3 DEF ThreadOK
    <2>5. next \in Nat /\ opens \in Nat /\ opens <= MaxOpens
      BY <2>2, Constants, SMT DEF TypeOK
    <2>6. /\ call[t].d \in Dbs /\ call[t].d # None
          /\ next' >= next /\ next' \in Nat /\ opens' >= opens /\ opens' \in Nat
      BY <2>1, <2>4, <2>5, Constants, SMT
    <2>7. QED
      BY <2>1, <2>2, <2>3, <2>4, <2>6
  <1>1. \/ /\ call[t].stage = "store" /\ call[t].h \in Handles /\ call[t].h <= next
           /\ given[call[t].h] = None
           /\ table' = [table EXCEPT ![call[t].h] = call[t].d]
           /\ given' = [given EXCEPT ![call[t].h] = call[t].d] /\ held' = held
        \/ /\ call[t].stage = "publish" /\ held' = held \cup {call[t].d}
           /\ table' = table /\ given' = given
    BY <1>0, Constants, SMT DEF Store, Publish, At, NInv, TypeOK, ThreadOK
  <1>2. TypeOK' /\ call'[t].stage = "idle" /\ call'[t].d = None /\ Others(t)
    BY <1>0, <1>1, IdleFacts, GoFacts DEF Store, Publish, Return, NInv, TypeOK
  <1>3. ThreadOK(t)' /\ Apart(t)
    BY <1>2, Returned
  <1>4. /\ held \subseteq held'
        /\ \A d \in held' \ held : d = call[t].d /\ call[t].stage \in Opening
        /\ \A h \in Handles : \/ given'[h] = given[h]
                              \/ /\ given[h] = None /\ call[t].stage = "store"
                                 /\ given'[h] = call[t].d /\ h = call[t].h
    BY <1>1 DEF Opening, NInv, TypeOK
  <1>5. ASSUME NEW u \in Threads \ {t}  PROVE ThreadOK(u)'
    <2>1. /\ call[u].stage = "wait" => db'[call[u].d].closer = u
          /\ call[u].stage = "delete" => ~ db'[call[u].d].open
          /\ call[u].stage \in Opening => db'[call[u].d].open
      BY <1>0 DEF NInv, ThreadOK, Opening
    <2>2. QED
      BY <1>0, <1>2, <1>3, <1>4, <2>1, OthersKept
  <1>6. TableOK'
    <2>1. \A h \in Handles : table'[h] # None => table'[h] = given'[h]
      BY <1>1, SMT DEF NInv, TypeOK, TableOK
    <2>2. \A h \in Handles : given'[h] # None =>
            given'[h] \in 1 .. opens /\ given'[h] \notin held' /\ h <= next
      <3>1. \A h \in Handles : given[h] # None =>
              given[h] \in 1 .. opens /\ given[h] \notin held /\ h <= next
        BY DEF NInv, TableOK
      <3>2. ASSUME NEW h \in Handles, given'[h] = given[h], given[h] # None
            PROVE  given'[h] \in 1 .. opens /\ given'[h] \notin held' /\ h <= next
        BY <1>0, <1>4, <3>1, <3>2
      <3>3. ASSUME NEW h \in Handles, call[t].stage = "store", given'[h] = call[t].d, h = call[t].h
            PROVE  given'[h] \in 1 .. opens /\ given'[h] \notin held' /\ h <= next
        BY <1>0, <1>1, <3>3
      <3>4. QED
        BY <1>4, <3>2, <3>3
    <2>3. \A h, k \in Handles : given'[h] # None /\ given'[h] = given'[k] => h = k
      BY <1>0, <1>4, SMT DEF NInv, TableOK
    <2>4. held' \subseteq 1 .. opens
      BY <1>0, <1>1 DEF NInv, TableOK
    <2>5. QED
      BY <1>0, <2>1, <2>2, <2>3, <2>4 DEF TableOK
  <1>7. \A d \in Dbs : DbOK(d)'
    BY <1>0, <1>2, LocksLeft
  <1>8. Closable'
    <2> SUFFICES ASSUME NEW d \in Dbs, db'[d].open
                 PROVE  \/ \E h \in Handles : table'[h] = d
                        \/ \E w \in Threads : call'[w].d = d /\ call'[w].stage \in Opening
                        \/ d \in held'
      BY DEF Closable, Opening
    <2>1. CASE d = call[t].d
      BY <1>1, <2>1 DEF NInv, TypeOK
    <2>2. CASE \E h \in Handles : table[h] = d /\ d # call[t].d
      <3>1. PICK h \in Handles : table[h] = d
        BY <2>2
      <3>2. given[h] = d /\ d # None
        BY <3>1, Constants, SMT DEF NInv, TableOK
      <3>3. table'[h] = d
        BY <1>1, <3>1, <3>2 DEF NInv, TypeOK
      <3>4. QED
        BY <3>3
    <2>3. ASSUME NEW w \in Threads, call[w].d = d, call[w].stage \in Opening, d # call[t].d
          PROVE  call'[w].d = d /\ call'[w].stage \in Opening
      BY <1>2, <2>3 DEF Others
    <2>4. QED
      BY <1>0, <1>4, <2>1, <2>2, <2>3 DEF NInv, Closable, Opening
  <1>9. ValidUntilClosed'
    BY <1>0, <1>1, SMT DEF NInv, TypeOK, ValidUntilClosed
  <1>10. Exclusive'
    BY <1>0 DEF NInv, Exclusive
  <1>11. NumbersMatch'
    <2>1. CASE call[t].stage = "publish"
      BY <1>0, <1>1, <1>2, <2>1, NumbersLeft
    <2>2. CASE call[t].stage = "store"
      <3>1. \A d \in 1 .. opens : (\E h \in Handles : given'[h] = d)
                                  <=> d = call[t].d \/ \E h \in Handles : given[h] = d
        BY <1>1, <2>2, Constants, SMT DEF NInv, TypeOK
      <3>2. \A d \in 1 .. opens :
              d = call[t].d \/ (\E u \in Threads : call'[u].stage = "store" /\ call'[u].d = d)
              <=> \E u \in Threads : call[u].stage = "store" /\ call[u].d = d
        BY <1>2, <2>2 DEF Others
      <3>3. Numbered' = Numbered
        BY <1>0, <3>1, <3>2, SMT DEF Numbered
      <3>4. QED
        BY <1>0, <3>3 DEF NInv, NumbersMatch
    <2>3. QED
      BY <1>0, <2>1, <2>2
  <1>12. QED
    BY <1>2, <1>3, <1>5, <1>6, <1>7, <1>8, <1>9, <1>10, <1>11 DEF NInv

LEMMA DeleteKeeps ==
  ASSUME NInv, NEW t \in Threads, Delete(t)
  PROVE  NInv'
  <1>0. /\ call[t].stage = "delete" /\ UNCHANGED <<db, opens, next, given, held, ended>>
        /\ call[t] \in CallRecord /\ ThreadOK(t)
        /\ next' >= next /\ next' \in Nat /\ opens' >= opens /\ opens' \in Nat
    BY Constants, SMT DEF Delete, At, NInv, TypeOK
  <1>1. \/ table' = table
        \/ /\ call[t].h \in Handles /\ call[t].h \in ended /\ given[call[t].h] = call[t].d
           /\ ~ db[call[t].d].open /\ table' = [table EXCEPT ![call[t].h] = None]
    BY <1>0 DEF Delete, ThreadOK, Closing
  <1>2. TypeOK' /\ call'[t].stage = "idle" /\ call'[t].d = None /\ Others(t)
    <2>1. TypeOK
      BY DEF NInv
    <2>2. call' \in [Threads -> CallRecord] /\ call'[t] = Idle /\ Others(t)
      BY <2>1, IdleFacts, GoFacts DEF Delete, Return
    <2>3. table' \in [Handles -> Dbs \cup {None}]
      BY <1>1, <2>1 DEF TypeOK
    <2>4. QED
      BY <1>0, <2>1, <2>2, <2>3, IdleFacts DEF TypeOK
  <1>3. ThreadOK(t)' /\ Apart(t)
    BY <1>2, Returned
  <1>4. ASSUME NEW u \in Threads \ {t}  PROVE ThreadOK(u)'
    <2>1. /\ call[u].stage = "wait" => db'[call[u].d].closer = u
          /\ call[u].stage = "delete" => ~ db'[call[u].d].open
          /\ call[u].stage \in Opening => db'[call[u].d].open
      BY <1>0 DEF NInv, ThreadOK, Opening
    <2>2. QED
      BY <1>0, <1>2, <1>3, <2>1, OthersKept
  <1>5. TableOK'
    BY <1>0, <1>1 DEF NInv, TypeOK, TableOK
  <1>6. \A d \in Dbs : DbOK(d)'
    BY <1>0, <1>2, LocksLeft
  <1>7. Closable'
    <2> SUFFICES ASSUME NEW d \in Dbs, db'[d].open
                 PROVE  \/ \E h \in Handles : table'[h] = d
                        \/ \E w \in Threads : call'[w].d = d /\ call'[w].stage \in Opening
                        \/ d \in held'
      BY DEF Closable, Opening
    <2>1. ASSUME NEW h \in Handles, table[h] = d  PROVE table'[h] = d
      <3>1. given[h] = d
        BY <2>1, Constants, SMT DEF NInv, TableOK
      <3>2. QED
        BY <1>0, <1>1, <2>1, <3>1 DEF NInv, TypeOK
    <2>2. ASSUME NEW w \in Threads, call[w].d = d, call[w].stage \in Opening
          PROVE  call'[w].d = d /\ call'[w].stage \in Opening
      BY <1>0, <1>2, <2>2 DEF Others, Opening
    <2>3. QED
      BY <1>0, <2>1, <2>2 DEF NInv, Closable, Opening
  <1>8. ValidUntilClosed'
    BY <1>0, <1>1 DEF NInv, TypeOK, ValidUntilClosed
  <1>9. Exclusive'
    BY <1>0 DEF NInv, Exclusive
  <1>10. NumbersMatch'
    BY <1>0, <1>2, NumbersLeft
  <1>11. QED
    BY <1>2, <1>3, <1>4, <1>5, <1>6, <1>7, <1>8, <1>9, <1>10 DEF NInv

-------------------------------------------------------------------------------
\* Closing and transactions: the caller's database changes, by an update of
\* its record that keeps the file.
DbStep(t, d0, b, c) ==
  /\ db' = [db EXCEPT ![d0] = b] /\ Go(t, c)
  /\ UNCHANGED <<opens, table, next, given, held, ended>>
  /\ d0 = call[t].d /\ call[t].stage \in {"close", "wait", "begin", "run"}
  /\ c.stage \notin Opening
  /\ c.d = None \/ c.d = d0
  /\ c.stage = "idle" <=> c.d = None
  /\ c.stage \in Closing => call[t].stage \in Closing /\ c.h = call[t].h
  /\ c.stage = "wait" <=> b.closer = t
  /\ c.stage = "delete" => ~ b.open
  /\ b.file = db[d0].file
  /\ b.open => db[d0].open
  /\ b.writer # None \/ b.readers # {} => b.open
  /\ db[d0].open /\ ~ b.open => call[t].stage \in Closing
  /\ b.closer # None => b.writer = None
  /\ \A u \in Threads \ {t} : db[d0].closer = u <=> b.closer = u
  /\ \A u \in Threads \ {t} : b.writer = u \/ u \in b.readers =>
                                db[d0].writer = u \/ u \in db[d0].readers
  /\ b.writer = t \/ t \in b.readers => c.stage = "run"

LEMMA DbStepKeeps ==
  ASSUME NInv, NEW t \in Threads, NEW d0 \in Dbs, NEW b \in DbRecord, NEW c \in CallRecord,
         DbStep(t, d0, b, c)
  PROVE  NInv'
  <1>a. /\ db' = [db EXCEPT ![d0] = b] /\ Go(t, c)
        /\ UNCHANGED <<opens, table, next, given, held, ended>>
        /\ d0 = call[t].d /\ call[t].stage \in {"close", "wait", "begin", "run"}
    BY DEF DbStep
  <1>b. /\ c.stage \notin Opening
        /\ c.d = None \/ c.d = d0
        /\ c.stage = "idle" <=> c.d = None
        /\ c.stage \in Closing => call[t].stage \in Closing /\ c.h = call[t].h
        /\ c.stage = "wait" <=> b.closer = t
        /\ c.stage = "delete" => ~ b.open
        /\ b.writer = t \/ t \in b.readers => c.stage = "run"
    BY DEF DbStep
  <1>c. /\ b.file = db[d0].file
        /\ b.open => db[d0].open
        /\ b.writer # None \/ b.readers # {} => b.open
        /\ db[d0].open /\ ~ b.open => call[t].stage \in Closing
        /\ b.closer # None => b.writer = None
        /\ \A u \in Threads \ {t} : db[d0].closer = u <=> b.closer = u
        /\ \A u \in Threads \ {t} : b.writer = u \/ u \in b.readers =>
                                      db[d0].writer = u \/ u \in db[d0].readers
    BY DEF DbStep
  <1>1. /\ call[t] \in CallRecord /\ ThreadOK(t) /\ d0 \in 1 .. opens /\ db[d0] \in DbRecord
        /\ DbOK(d0) /\ next' >= next /\ opens' >= opens /\ opens' \in Nat
    <2>1. TypeOK /\ ThreadOK(t) /\ DbOK(d0)
      BY DEF NInv
    <2>2. call[t] \in CallRecord /\ db[d0] \in DbRecord
      BY <2>1 DEF TypeOK
    <2>3. d0 \in 1 .. opens
      BY <1>a, <2>1 DEF ThreadOK
    <2>4. next \in Nat /\ opens \in Nat
      BY <2>1, Constants, SMT DEF TypeOK
    <2>5. next' >= next /\ opens' >= opens /\ opens' \in Nat
      BY <1>a, <2>4, SMT
    <2>6. QED
      BY <2>1, <2>2, <2>3, <2>5
  <1>2. db' \in [Dbs -> DbRecord] /\ db'[d0] = b /\ OtherDbs(d0)
    BY <1>a DEF NInv, TypeOK, OtherDbs
  <1>3. TypeOK' /\ call'[t] = c /\ Others(t)
    <2>1. TypeOK
      BY DEF NInv
    <2>2. call' \in [Threads -> CallRecord] /\ call'[t] = c /\ Others(t)
      BY <1>a, <2>1, GoFacts
    <2>3. QED
      BY <1>a, <1>2, <2>1, <2>2 DEF TypeOK
  <1>4. ThreadOK(t)'
    <2>1. c.stage # "idle" => c.d = d0
      BY <1>b
    <2>2. c.stage \in Closing => c.d = d0
      BY <2>1 DEF Closing
    <2>3. c.stage \in Closing =>
            IF t \in CThreads
            THEN c.h \in ended /\ c.h \in Handles /\ given[c.h] = c.d
            ELSE c.d \in held
      BY <1>a, <1>b, <1>1, <2>2 DEF ThreadOK
    <2>4. c.stage = "wait" => db'[c.d].closer = t
      BY <1>b, <1>2, <2>1
    <2>5. c.stage = "delete" => ~ db'[c.d].open
      BY <1>b, <1>2, <2>1
    <2>6. c.stage # "store"
      BY <1>b DEF Opening
    <2>7. QED
      BY <1>a, <1>b, <1>1, <1>3, <2>1, <2>3, <2>4, <2>5, <2>6 DEF ThreadOK
  <1>5. Apart(t)
    <2>1. \A u \in Threads \ {t} : call[u].stage \in Opening =>
            call[u].d # d0 /\ call[u].d \in 1 .. opens
      BY <1>a DEF NInv, ThreadOK, Opening
    <2>2. None \notin 1 .. opens
      BY Constants, SMT
    <2>3. QED
      BY <1>b, <1>3, <2>1, <2>2 DEF Apart
  <1>6. ASSUME NEW d \in Dbs  PROVE DbOK(d)'
    <2>1. CASE d = d0
      <3>1. b.closer # None => call'[b.closer].stage = "wait" /\ call'[b.closer].d = d0
        <4>1. CASE b.closer = t
          BY <1>b, <1>3, <4>1
        <4>2. ASSUME NEW u \in Threads \ {t}, b.closer = u
              PROVE  call'[u].stage = "wait" /\ call'[u].d = d0
          <5>1. db[d0].closer = u /\ u # None /\ call'[u] = call[u]
            BY <1>c, <1>3, <4>2, Constants DEF Others
          <5>2. QED
            BY <1>1, <5>1 DEF DbOK
        <4>3. QED
          BY <4>1, <4>2 DEF DbRecord
      <3>2. ASSUME NEW u \in Threads, b.writer = u \/ u \in b.readers
            PROVE  call'[u].stage = "run" /\ call'[u].d = d0
        <4>1. CASE u = t
          BY <1>b, <1>3, <3>2, <4>1
        <4>2. CASE u # t
          <5>1. (db[d0].writer = u \/ u \in db[d0].readers) /\ call'[u] = call[u]
            BY <1>c, <1>3, <3>2, <4>2 DEF Others
          <5>2. QED
            BY <1>1, <5>1 DEF DbOK
        <4>3. QED
          BY <4>1, <4>2
      <3>3. QED
        BY <1>c, <1>2, <2>1, <3>1, <3>2 DEF DbOK
    <2>2. CASE d # d0
      <3>1. db'[d] = db[d] /\ DbOK(d) /\ db[d] \in DbRecord
        BY <1>2, <2>2 DEF OtherDbs, NInv, TypeOK
      <3>2. call[t].d # d /\ \A u \in Threads : call[u].d = d => call'[u] = call[u]
        BY <1>a, <1>3, <2>2 DEF Others
      <3>3. db[d].closer # None => db[d].closer \in Threads
        BY <3>1 DEF DbRecord
      <3>4. db[d].closer # None => call'[db[d].closer] = call[db[d].closer]
        BY <3>1, <3>2, <3>3 DEF DbOK
      <3>5. \A u \in Threads : db[d].writer = u \/ u \in db[d].readers => call'[u] = call[u]
        BY <3>1, <3>2 DEF DbOK
      <3>6. QED
        BY <3>1, <3>4, <3>5 DEF DbOK
    <2>3. QED
      BY <2>1, <2>2
  <1>7. \A d \in Dbs : /\ db'[d].file = db[d].file /\ (db'[d].open => db[d].open) /\ DbOK(d)'
                       /\ db'[d].writer # None \/ db'[d].readers # {} => db'[d].open
                       /\ \A u \in Threads \ {t} : db[d].closer = u => db'[d].closer = u
    <2>1. ASSUME NEW d \in Dbs, d # d0
          PROVE  db'[d] = db[d] /\ (db[d].writer # None \/ db[d].readers # {} => db[d].open)
      BY <1>2, <2>1 DEF OtherDbs, NInv, Exclusive
    <2> SUFFICES ASSUME NEW d \in Dbs
                 PROVE  /\ db'[d].file = db[d].file /\ (db'[d].open => db[d].open) /\ DbOK(d)'
                        /\ db'[d].writer # None \/ db'[d].readers # {} => db'[d].open
                        /\ \A u \in Threads \ {t} : db[d].closer = u => db'[d].closer = u
      OBVIOUS
    <2>2. CASE d = d0
      BY <1>c, <1>2, <1>6, <2>2
    <2>3. CASE d # d0
      BY <1>6, <2>1, <2>3
    <2>4. QED
      BY <2>2, <2>3
  <1>8. \A d \in Dbs : db[d].open /\ ~ db'[d].open =>
          /\ \A u \in Threads \ {t} : call[u].stage \in Opening => call[u].d # d
          /\ \A h \in Handles \ ended' : given[h] # d
    <2> SUFFICES ASSUME db[d0].open, ~ b.open
                 PROVE  /\ \A u \in Threads \ {t} : call[u].stage \in Opening => call[u].d # d0
                        /\ \A h \in Handles \ ended : given[h] # d0
      BY <1>a, <1>2 DEF OtherDbs
    <2>1. call[t].stage \in Closing /\ d0 # None
      BY <1>c, Constants, SMT
    <2>2. \A u \in Threads \ {t} : call[u].stage \in Opening => call[u].d # d0
      BY <1>a DEF NInv, ThreadOK
    <2>3. TableOK
      BY DEF NInv
    <2>4. CASE t \in CThreads
      <3>1. call[t].h \in ended /\ call[t].h \in Handles /\ given[call[t].h] = d0
        BY <1>a, <1>1, <2>1, <2>4 DEF ThreadOK
      <3>2. \A h \in Handles : given[h] = d0 => h = call[t].h
        BY <2>1, <2>3, <3>1 DEF TableOK
      <3>3. QED
        BY <2>2, <3>1, <3>2
    <2>5. CASE t \notin CThreads
      <3>1. d0 \in held
        BY <1>a, <1>1, <2>1, <2>5 DEF ThreadOK
      <3>2. QED
        BY <2>1, <2>2, <2>3, <3>1 DEF TableOK
    <2>6. QED
      BY <2>4, <2>5
  <1>9. call[t].stage \notin Opening /\ c.stage # "store"
    BY <1>a, <1>b DEF Opening
  <1>10. Kept'
    BY <1>a, <1>1, <1>3, <1>4, <1>5, <1>7, <1>8, <1>9, TableLeft
  <1>11. NumbersMatch'
    BY <1>a, <1>1, <1>3, <1>9, NumbersLeft DEF Opening
  <1>12. QED
    BY <1>10, <1>11 DEF Kept, NInv

\* The caller's database and call, at any of these steps.
LEMMA CallerFacts ==
  ASSUME NInv, NEW t \in Threads, call[t].stage \in {"close", "wait", "begin", "run"}
  PROVE  /\ call[t] \in CallRecord /\ call[t].d \in Dbs /\ call[t].d # None
         /\ db[call[t].d] \in DbRecord /\ DOMAIN db = Dbs /\ DbOK(call[t].d)
         /\ db[call[t].d].closer = t <=> call[t].stage = "wait"
         /\ db[call[t].d].closer # None => db[call[t].d].writer = None
         /\ db[call[t].d].writer # None \/ db[call[t].d].readers # {} => db[call[t].d].open
         /\ db[call[t].d].writer = t \/ t \in db[call[t].d].readers => call[t].stage = "run"
  <1>1. call[t] \in CallRecord /\ call[t].d \in Dbs /\ call[t].d # None
    BY Constants, SMT DEF NInv, TypeOK, ThreadOK
  <1>2. ThreadOK(t) /\ DbOK(call[t].d) /\ Exclusive /\ db \in [Dbs -> DbRecord]
    BY <1>1 DEF NInv, TypeOK
  <1>3. QED
    BY <1>1, <1>2, Constants DEF ThreadOK, DbOK, Exclusive

LEMMA CloseBeginKeeps ==
  ASSUME NInv, NEW t \in Threads, CloseBegin(t)
  PROVE  NInv'
  <1> DEFINE d0 == call[t].d
             b == [db[d0] EXCEPT !.closer = t]
             c == [call[t] EXCEPT !.stage = "wait"]
  <1>1. call[t].stage = "close" /\ db[d0].writer = None /\ db[d0].closer = None
    BY DEF CloseBegin, At
  <1>2. db' = [db EXCEPT ![d0] = b] /\ Go(t, c)
        /\ UNCHANGED <<opens, table, next, given, held, ended>>
    BY DEF CloseBegin
  <1>3. /\ call[t] \in CallRecord /\ d0 \in Dbs /\ d0 # None /\ db[d0] \in DbRecord
        /\ db[d0].readers # {} => db[d0].open
        /\ t \notin db[d0].readers
    BY <1>1, CallerFacts
  <1>4. b \in DbRecord /\ c \in CallRecord
    BY <1>3 DEF DbRecord, CallRecord, Stages
  <1>5. /\ b.file = db[d0].file /\ b.open = db[d0].open /\ b.writer = db[d0].writer
        /\ b.readers = db[d0].readers /\ b.closer = t
        /\ c.stage = "wait" /\ c.d = d0 /\ c.h = call[t].h
    BY <1>3 DEF DbRecord, CallRecord
  <1> HIDE DEF b, c
  <1>6. DbStep(t, d0, b, c)
    BY <1>1, <1>2, <1>3, <1>5, Constants DEF DbStep, Opening, Closing
  <1>7. QED
    BY <1>3, <1>4, <1>6, DbStepKeeps

LEMMA CloseEndKeeps ==
  ASSUME NInv, NEW t \in Threads, CloseEnd(t)
  PROVE  NInv'
  <1> DEFINE d0 == call[t].d
             b == [db[d0] EXCEPT !.closer = None, !.open = FALSE]
  <1>1. call[t].stage = "wait" /\ db[d0].readers = {}
    BY DEF CloseEnd, At
  <1>2. /\ call[t] \in CallRecord /\ d0 \in Dbs /\ d0 # None /\ db[d0] \in DbRecord
        /\ db \in [Dbs -> DbRecord] /\ db[d0].closer = t /\ db[d0].writer = None
    BY <1>1, CallerFacts, Constants, SMT DEF NInv, TypeOK
  <1>3. db' = [db EXCEPT ![d0] = b] /\ UNCHANGED <<opens, table, next, given, held, ended>>
    BY <1>2 DEF CloseEnd
  <1>4. /\ b \in DbRecord /\ b.file = db[d0].file /\ b.open = FALSE /\ b.writer = None
        /\ b.readers = {} /\ b.closer = None
    BY <1>1, <1>2, Constants DEF DbRecord
  <1> HIDE DEF b
  <1>5. ASSUME NEW c \in CallRecord, Go(t, c),
               \/ c.stage = "idle" /\ c.d = None
               \/ c.stage = "delete" /\ c.d = d0 /\ c.h = call[t].h
        PROVE  NInv'
    <2>1. DbStep(t, d0, b, c)
      BY <1>1, <1>2, <1>3, <1>4, <1>5, Constants DEF DbStep, Opening, Closing
    <2>2. QED
      BY <1>2, <1>4, <2>1, DbStepKeeps
  <1>6. CASE Return(t)
    BY <1>5, <1>6, IdleFacts DEF Return
  <1>7. CASE Go(t, [call[t] EXCEPT !.stage = "delete"])
    <2> DEFINE c == [call[t] EXCEPT !.stage = "delete"]
    <2>1. c \in CallRecord /\ c.stage = "delete" /\ c.d = d0 /\ c.h = call[t].h
      BY <1>2 DEF CallRecord, Stages
    <2>2. QED
      BY <1>5, <1>7, <2>1
  <1>8. QED
    BY <1>6, <1>7 DEF CloseEnd

LEMMA BeginKeeps ==
  ASSUME NInv, NEW t \in Threads, Begin(t), ~ Return(t)
  PROVE  NInv'
  <1> DEFINE d0 == call[t].d
             c == [call[t] EXCEPT !.stage = "run"]
  <1>1. /\ call[t].stage = "begin" /\ db[d0].closer = None /\ db[d0].open /\ Go(t, c)
        /\ UNCHANGED <<opens, table, next, given, held, ended>>
        /\ \/ db' = [db EXCEPT ![d0].writer = t]
           \/ db' = [db EXCEPT ![d0].readers = @ \cup {t}]
    BY DEF Begin, At
  <1>2. /\ call[t] \in CallRecord /\ d0 \in Dbs /\ d0 # None /\ db[d0] \in DbRecord
        /\ db \in [Dbs -> DbRecord]
    BY <1>1, CallerFacts, Constants DEF NInv, TypeOK
  <1>3. c \in CallRecord /\ c.stage = "run" /\ c.d = d0
    BY <1>2 DEF CallRecord, Stages
  <1> HIDE DEF c
  <1>4. ASSUME NEW b \in DbRecord, db' = [db EXCEPT ![d0] = b],
               b.file = db[d0].file, b.open = db[d0].open, b.closer = None,
               b.writer = db[d0].writer \/ b.writer = t, b.readers \subseteq db[d0].readers \cup {t}
        PROVE  NInv'
    <2>1. DbStep(t, d0, b, c)
      BY <1>1, <1>2, <1>3, <1>4, Constants DEF DbStep, Opening, Closing
    <2>2. QED
      BY <1>2, <1>3, <2>1, DbStepKeeps
  <1>5. CASE db' = [db EXCEPT ![d0].writer = t]
    <2> DEFINE b == [db[d0] EXCEPT !.writer = t]
    <2>1. /\ b \in DbRecord /\ b.file = db[d0].file /\ b.open = db[d0].open /\ b.closer = None
          /\ b.writer = t /\ b.readers = db[d0].readers
      BY <1>1, <1>2 DEF DbRecord
    <2>2. db' = [db EXCEPT ![d0] = b]
      BY <1>5
    <2> HIDE DEF b
    <2>3. QED
      BY <1>4, <2>1, <2>2
  <1>6. CASE db' = [db EXCEPT ![d0].readers = @ \cup {t}]
    <2> DEFINE b == [db[d0] EXCEPT !.readers = @ \cup {t}]
    <2>1. /\ b \in DbRecord /\ b.file = db[d0].file /\ b.open = db[d0].open /\ b.closer = None
          /\ b.writer = db[d0].writer /\ b.readers = db[d0].readers \cup {t}
      BY <1>1, <1>2 DEF DbRecord
    <2>2. db' = [db EXCEPT ![d0] = b]
      BY <1>6
    <2> HIDE DEF b
    <2>3. QED
      BY <1>4, <2>1, <2>2
  <1>7. QED
    BY <1>1, <1>5, <1>6

LEMMA EndKeeps ==
  ASSUME NInv, NEW t \in Threads, End(t)
  PROVE  NInv'
  <1> DEFINE d0 == call[t].d
             w == IF db[d0].writer = t THEN None ELSE db[d0].writer
             b == [db[d0] EXCEPT !.writer = w, !.readers = @ \ {t}]
  <1>1. call[t].stage = "run" /\ UNCHANGED <<opens, table, next, given, held, ended>>
    BY DEF End, At
  <1>2. /\ call[t] \in CallRecord /\ d0 \in Dbs /\ d0 # None /\ db[d0] \in DbRecord
        /\ db \in [Dbs -> DbRecord] /\ db[d0].closer # t
        /\ db[d0].closer # None => db[d0].writer = None
        /\ db[d0].writer # None \/ db[d0].readers # {} => db[d0].open
    BY <1>1, CallerFacts, Constants DEF NInv, TypeOK
  <1>3. db' = [db EXCEPT ![d0] = b]
    BY <1>2 DEF End
  <1>4. w \in Threads \cup {None} /\ w # t /\ (w = None \/ w = db[d0].writer)
    BY <1>2, Constants DEF DbRecord
  <1> HIDE DEF w
  <1>5. /\ b \in DbRecord /\ b.file = db[d0].file /\ b.open = db[d0].open
        /\ b.closer = db[d0].closer /\ b.writer = w /\ b.readers = db[d0].readers \ {t}
    BY <1>2, <1>4 DEF DbRecord
  <1> HIDE DEF b
  <1>6. ASSUME NEW c \in CallRecord, Go(t, c),
               \/ c.stage = "idle" /\ c.d = None
               \/ c.stage = "begin" /\ c.d = d0
        PROVE  NInv'
    <2>1. DbStep(t, d0, b, c)
      BY <1>1, <1>2, <1>3, <1>4, <1>5, <1>6, Constants DEF DbStep, Opening, Closing
    <2>2. QED
      BY <1>2, <1>5, <2>1, DbStepKeeps
  <1>7. CASE Return(t)
    BY <1>6, <1>7, IdleFacts DEF Return
  <1>8. CASE Go(t, [call[t] EXCEPT !.stage = "begin", !.tx = @ + 1])
    <2> DEFINE c == [call[t] EXCEPT !.stage = "begin", !.tx = @ + 1]
    <2>1. c \in CallRecord /\ c.stage = "begin" /\ c.d = d0
      <3> DEFINE n == call[t].tx + 1
      <3>1. n \in Nat
        BY <1>2, SMT DEF CallRecord
      <3> HIDE DEF n
      <3>2. [call[t] EXCEPT !.stage = "begin", !.tx = n] \in CallRecord
        BY <1>2, <3>1 DEF CallRecord, Stages
      <3>3. QED
        BY <1>2, <3>2 DEF n, CallRecord
    <2>2. QED
      BY <1>6, <1>8, <2>1
  <1>9. QED
    BY <1>7, <1>8 DEF End

-------------------------------------------------------------------------------
\* A call that begins, and one that finds its database closed.
LEMMA CallStepKeeps ==
  ASSUME NInv, NEW t \in Threads,
         \/ t \in CThreads /\ (KoraDBClose(t) \/ KoraDBCall(t))
         \/ t \in GoThreads /\ (DatabaseClose(t) \/ DatabaseCall(t))
         \/ Begin(t) /\ Return(t)
  PROVE  NInv'
  <1>1. UNCHANGED <<opens, next, given>> /\ call[t].stage \in {"idle", "begin"} /\ opens \in Nat
    <2>1. UNCHANGED <<opens, next, given>> /\ call[t].stage \in {"idle", "begin"}
      BY DEF KoraDBClose, KoraDBCall, DatabaseClose, DatabaseCall, Begin, At
    <2>2. opens \in Nat
      BY Constants, SMT DEF NInv, TypeOK
    <2>3. QED
      BY <2>1, <2>2
  <1>2. Kept'
    <2>1. CASE Begin(t) /\ Return(t)
      <3>1. UNCHANGED <<db, opens, table, next, given, held, ended>>
        <4>1. call[t].stage = "begin" /\ call[t] \in CallRecord
          BY <2>1 DEF Begin, At, NInv, TypeOK
        <4>2. [call[t] EXCEPT !.stage = "run"].stage = "run"
          BY <4>1 DEF CallRecord
        <4>3. ~ Go(t, [call[t] EXCEPT !.stage = "run"])
          BY <2>1, <4>2, IdleFacts DEF Return, Go, NInv, TypeOK
        <4>4. QED
          BY <2>1, <4>3 DEF Begin
      <3>2. QED
        BY <1>1, <2>1, <3>1, ReturnKeeps
    <2>2. QED
      BY <2>1, CallsKeep
  <1>3. Others(t) /\ call'[t].stage # "store"
    <2>1. ASSUME NEW c, Go(t, c), c.stage # "store"
          PROVE  Others(t) /\ call'[t].stage # "store"
      BY <2>1 DEF Go, Others, NInv, TypeOK
    <2>2. CASE Return(t)
      BY <2>1, <2>2, IdleFacts DEF Return
    <2>3. CASE \E d \in Dbs \cup {None}, op \in Ops :
                 Go(t, [Idle EXCEPT !.stage = "begin", !.d = d, !.op = op])
      BY <2>1, <2>3 DEF Idle
    <2>4. CASE \E d \in Dbs \cup {None}, h \in Handles :
                 Go(t, [Idle EXCEPT !.stage = "close", !.h = h, !.d = d])
      BY <2>1, <2>4 DEF Idle
    <2>5. CASE \E d \in held : Go(t, [Idle EXCEPT !.stage = "close", !.d = d])
      BY <2>1, <2>5 DEF Idle
    <2>6. table \in [Handles -> Dbs \cup {None}] /\ held \subseteq Dbs
      BY DEF NInv, TypeOK
    <2>7. QED
      BY <2>2, <2>3, <2>4, <2>5, <2>6 DEF KoraDBClose, KoraDBCall, DatabaseClose, DatabaseCall
  <1>4. opens' \in Nat /\ opens' >= opens /\ call[t].stage # "store"
    BY <1>1, SMT
  <1>5. NumbersMatch'
    BY <1>1, <1>3, <1>4, NumbersLeft
  <1>6. QED
    BY <1>2, <1>5 DEF Kept, NInv

LEMMA NInvInductive ==
  NInv /\ [Next]_vars => NInv'
  <1> SUFFICES ASSUME NInv, [Next]_vars PROVE NInv'
    OBVIOUS
  <1>1. CASE UNCHANGED vars
    <2> USE <1>1 DEF vars
    <2>1. TypeOK' /\ TableOK'
      BY DEF NInv, TypeOK, TableOK
    <2>2. \A t \in Threads : ThreadOK(t)'
      BY DEF NInv, ThreadOK
    <2>3. \A d \in Dbs : DbOK(d)'
      BY SMT DEF NInv, DbOK
    <2>4. NumbersMatch'
      <3>1. Numbered' = Numbered
        BY DEF Numbered
      <3>2. QED
        BY <3>1 DEF NInv, NumbersMatch
    <2>5. Closable' /\ ValidUntilClosed' /\ Exclusive'
      BY DEF NInv, Closable, ValidUntilClosed, Exclusive
    <2>6. QED
      BY <2>1, <2>2, <2>3, <2>4, <2>5 DEF NInv
  <1>2. ASSUME NEW t \in Threads, Open(t) \/ Step(t)
        PROVE  NInv'
    <2>1. CASE Open(t)
      BY <2>1, OpenKeeps
    <2>2. CASE Load(t)
      BY <2>2, LoadKeeps
    <2>3. CASE Number(t)
      BY <2>3, NumberKeeps
    <2>4. CASE Store(t) \/ Publish(t)
      BY <2>4, HandedOverKeeps
    <2>5. CASE CloseBegin(t)
      BY <2>5, CloseBeginKeeps
    <2>6. CASE CloseEnd(t)
      BY <2>6, CloseEndKeeps
    <2>7. CASE Delete(t)
      BY <2>7, DeleteKeeps
    <2>8. CASE Begin(t)
      BY <2>8, BeginKeeps, CallStepKeeps
    <2>9. CASE End(t)
      BY <2>9, EndKeeps
    <2>10. QED
      BY <1>2, <2>1, <2>2, <2>3, <2>4, <2>5, <2>6, <2>7, <2>8, <2>9 DEF Step
  <1>3. ASSUME NEW t \in CThreads, KoraDBClose(t) \/ KoraDBCall(t)
        PROVE  NInv'
    BY <1>3, CallStepKeeps, Constants
  <1>4. ASSUME NEW t \in GoThreads, DatabaseClose(t) \/ DatabaseCall(t)
        PROVE  NInv'
    BY <1>4, CallStepKeeps, Constants
  <1>5. QED
    BY <1>1, <1>2, <1>3, <1>4 DEF Next

LEMMA NInvInit ==
  Init => NInv
  <1> SUFFICES ASSUME Init PROVE NInv
    OBVIOUS
  <1>1. \A t \in Threads : call[t] = Idle
    BY DEF Init
  <1>2. \A d \in Dbs : db[d] = Unopened /\ Unopened \in DbRecord /\ ~ Unopened.open
                       /\ Unopened.writer = None /\ Unopened.readers = {} /\ Unopened.closer = None
    BY DEF Init, Unopened, DbRecord
  <1>3. TypeOK
    BY <1>2, IdleFacts, Constants, SMT DEF Init, TypeOK
  <1>4. \A t \in Threads : ThreadOK(t)
    BY <1>1, IdleFacts DEF ThreadOK, Opening, Closing
  <1>5. TableOK
    BY DEF Init, TableOK
  <1>6. \A d \in Dbs : DbOK(d)
    BY <1>2, Constants DEF DbOK
  <1>7. Numbered = {}
    BY Constants, SMT DEF Init, Numbered
  <1>8. NumbersMatch
    BY <1>7, FS_EmptySet DEF Init, NumbersMatch
  <1>9. Closable /\ ValidUntilClosed /\ Exclusive
    BY <1>2 DEF Init, Closable, ValidUntilClosed, Exclusive
  <1>10. QED
    BY <1>3, <1>4, <1>5, <1>6, <1>8, <1>9 DEF NInv

\* The table, the databases and the calls fit each other at every step, for any
\* number of threads, databases and files (KoraDBOpen, KoraDBClose,
\* Database.Close, engine.Open).
THEOREM NativeSafe == Spec => []NInv
  <1>1. QED
    BY NInvInit, NInvInductive, PTL DEF Spec

\* No failed Open and no race of two Closes leaves a database open that nobody
\* can close (KoraDBOpen, engine.Open).
THEOREM OpenIsClosable == Spec => []Closable
  <1>1. NInv => Closable
    BY DEF NInv
  <1>2. QED
    BY <1>1, NativeSafe, PTL

\* A handle given out is in the table, with its database open, until a caller
\* closes it (KoraDBOpen, lookupNativeDatabase).
THEOREM HandlesValid == Spec => []ValidUntilClosed
  <1>1. NInv => ValidUntilClosed
    BY DEF NInv
  <1>2. QED
    BY <1>1, NativeSafe, PTL

\* Transactions run on open databases only, and a file is open once
\* (storage.Open, KoraDBClose).
THEOREM FilesExclusive == Spec => []Exclusive
  <1>1. NInv => Exclusive
    BY DEF NInv
  <1>2. QED
    BY <1>1, NativeSafe, PTL

\* A handle once given out never names another database (KoraDBOpen).
THEOREM HandlesNeverReused == Spec => HandleStable
  <1>1. ASSUME NInv, [Next]_vars
        PROVE  [\A h \in Handles : given[h] # None => given'[h] = given[h]]_vars
    <2>1. CASE UNCHANGED given
      BY <2>1
    <2>2. ASSUME NEW t \in Threads, Store(t)
          PROVE  \A h \in Handles : given[h] # None => given'[h] = given[h]
      <3>1. given[call[t].h] = None /\ given' = [given EXCEPT ![call[t].h] = call[t].d]
        <4>1. ThreadOK(t) /\ call[t].stage = "store"
          BY <1>1, <2>2 DEF Store, At, NInv
        <4>2. QED
          BY <2>2, <4>1 DEF Store, ThreadOK
      <3>2. QED
        BY <1>1, <3>1 DEF NInv, TypeOK
    <2>3. UNCHANGED given \/ \E t \in Threads : Store(t)
      <3>1. ASSUME NEW t \in Threads, Open(t) \/ Step(t)
            PROVE  UNCHANGED given \/ Store(t)
        <4>1. CASE Open(t) \/ Load(t) \/ Number(t) \/ Publish(t)
          BY <4>1 DEF Open, Load, Number, Publish
        <4>2. CASE CloseBegin(t) \/ CloseEnd(t) \/ Delete(t) \/ Begin(t) \/ End(t)
          BY <4>2 DEF CloseBegin, CloseEnd, Delete, Begin, End
        <4>3. QED
          BY <3>1, <4>1, <4>2 DEF Step
      <3>2. ASSUME NEW t, KoraDBClose(t) \/ KoraDBCall(t) \/ DatabaseClose(t) \/ DatabaseCall(t)
            PROVE  UNCHANGED given
        BY <3>2 DEF KoraDBClose, KoraDBCall, DatabaseClose, DatabaseCall
      <3>3. QED
        BY <1>1, <3>1, <3>2 DEF Next, vars
    <2>4. QED
      BY <2>1, <2>2, <2>3
  <1>2. QED
    BY <1>1, NativeSafe, PTL DEF HandleStable, Spec
===============================================================================
