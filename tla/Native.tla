-------------------------------- MODULE Native --------------------------------
(***************************************************************************)
(* The embedded library: the handle table of the C interface               *)
(* (sdk/native), the Database of the Go SDK, and engine.Open and Close     *)
(* below them.  Threads open, use and close databases at the same time.    *)
(* bbolt is external: one opener of a file at a time, one writer and many  *)
(* readers of a database, a Close that waits for them and keeps new        *)
(* transactions waiting, and an error for transactions on a closed one.    *)
(***************************************************************************)
EXTENDS Naturals, FiniteSets

CONSTANTS
  CThreads,   \* threads that use the C interface
  GoThreads,  \* goroutines that use the Go SDK
  Files,      \* paths of databases
  Opens,      \* those each thread may open
  MaxOpens,   \* bound on the databases opened
  None

Threads == CThreads \cup GoThreads
Dbs == 1 .. MaxOpens
Handles == 1 .. MaxOpens

ASSUME NativeAssumption ==
  /\ MaxOpens \in Nat
  /\ CThreads \cap GoThreads = {}
  /\ Opens \in [Threads -> SUBSET Files]
  /\ None \notin Nat \cup Files \cup Threads

\* The transactions of an operation, in order: a document, a list or a backup
\* is read in one, and a document or a collection written in one; Query looks
\* the collection up before it reads; RegisterSchema looks for the last version
\* before it writes.
Ops == {"Get", "Insert", "Query", "Register"}
Transactions(op) == CASE op = "Get"      -> <<"read">>
                      [] op = "Insert"   -> <<"write">>
                      [] op = "Query"    -> <<"read", "read">>
                      [] op = "Register" -> <<"read", "write">>

VARIABLES
  db,     \* the *engine.DB objects
  opens,  \* how many there are
  table,  \* nativeDatabases
  next,   \* nativeNextHandle
  given,  \* the handles callers were given (history)
  held,   \* the databases that callers of the Go SDK were given
  ended,  \* the handles some Close was called for (history)
  call    \* each thread's call

vars == <<db, opens, table, next, given, held, ended, call>>

Idle == [stage |-> "idle", d |-> None, h |-> None, op |-> None, tx |-> 1]
Unopened == [file |-> None, open |-> FALSE, writer |-> None, readers |-> {}, closer |-> None]

Init ==
  /\ db = [d \in Dbs |-> Unopened]
  /\ opens = 0
  /\ table = [h \in Handles |-> None]
  /\ next = 0
  /\ given = [h \in Handles |-> None]
  /\ held = {}
  /\ ended = {}
  /\ call = [t \in Threads |-> Idle]

At(t, s) == call[t].stage = s
Go(t, c) == call' = [call EXCEPT ![t] = c]
\* The call returns, with a result or an error.
Return(t) == Go(t, Idle)
Locked(f) == \E d \in Dbs : db[d].open /\ db[d].file = f

-------------------------------------------------------------------------------
\* A plausible bug: the database is opened without its lock.
OpenUnlocked(t) ==
  /\ At(t, "idle")
  /\ opens < MaxOpens
  /\ \E f \in Opens[t] :
       /\ opens' = opens + 1
       /\ db' = [db EXCEPT ![opens + 1] = [Unopened EXCEPT !.file = f, !.open = TRUE]]
       /\ Go(t, [Idle EXCEPT !.stage = "load", !.d = opens + 1])
  /\ UNCHANGED <<table, next, given, held, ended>>

\* storage.Open: bbolt gets the file's lock, or gives up after five seconds.
\* (The arguments are checked before.)
Open(t) ==
  /\ At(t, "idle")
  /\ opens < MaxOpens
  /\ \E f \in Opens[t] :
       IF Locked(f)
       THEN Return(t) /\ UNCHANGED <<db, opens>>
       ELSE /\ opens' = opens + 1
            /\ db' = [db EXCEPT ![opens + 1] = [Unopened EXCEPT !.file = f, !.open = TRUE]]
            /\ Go(t, [Idle EXCEPT !.stage = "load", !.d = opens + 1])
  /\ UNCHANGED <<table, next, given, held, ended>>

\* A plausible bug: a registry that does not load leaves the file open.
LoadLeaks(t) ==
  /\ At(t, "load")
  /\ \/ Go(t, [call[t] EXCEPT !.stage = IF t \in CThreads THEN "number" ELSE "publish"])
     \/ Return(t)
  /\ UNCHANGED <<db, opens, table, next, given, held, ended>>

\* engine.Open: the registry is loaded, or the store is closed again.
Load(t) ==
  /\ At(t, "load")
  /\ \/ /\ Go(t, [call[t] EXCEPT !.stage = IF t \in CThreads THEN "number" ELSE "publish"])
        /\ UNCHANGED db
     \/ /\ db' = [db EXCEPT ![call[t].d].open = FALSE]
        /\ Return(t)
  /\ UNCHANGED <<opens, table, next, given, held, ended>>

\* A plausible bug: the number of databases in the table is the handle.
NumberCounts(t) ==
  LET n == Cardinality({h \in Handles : table[h] # None}) + 1
  IN  /\ At(t, "number")
      /\ n \in Handles
      /\ Go(t, [call[t] EXCEPT !.stage = "store", !.h = n])
      /\ UNCHANGED <<db, opens, table, next, given, held, ended>>

\* A plausible bug: the caller has the handle before the table has it.
NumberPublishes(t) ==
  /\ At(t, "number")
  /\ next' = next + 1
  /\ given' = [given EXCEPT ![next + 1] = call[t].d]
  /\ Go(t, [call[t] EXCEPT !.stage = "store", !.h = next + 1])
  /\ UNCHANGED <<db, opens, table, held, ended>>

\* nativeNextHandle.Add
Number(t) ==
  /\ At(t, "number")
  /\ next' = next + 1
  /\ Go(t, [call[t] EXCEPT !.stage = "store", !.h = next + 1])
  /\ UNCHANGED <<db, opens, table, given, held, ended>>

\* nativeDatabases.Store, and the handle goes to the caller.
Store(t) ==
  /\ At(t, "store")
  /\ table' = [table EXCEPT ![call[t].h] = call[t].d]
  /\ given' = [given EXCEPT ![call[t].h] = call[t].d]
  /\ Return(t)
  /\ UNCHANGED <<db, opens, next, held, ended>>

\* The Go SDK returns the Database itself.
Publish(t) ==
  /\ At(t, "publish")
  /\ held' = held \cup {call[t].d}
  /\ Return(t)
  /\ UNCHANGED <<db, opens, table, next, given, ended>>

-------------------------------------------------------------------------------
\* KoraDBClose looks the handle up; the Go SDK has the Database at hand.
KoraDBClose(t) ==
  /\ At(t, "idle")
  /\ \E h \in Handles :
       IF table[h] = None
       THEN Return(t) /\ UNCHANGED ended
       ELSE /\ Go(t, [Idle EXCEPT !.stage = "close", !.h = h, !.d = table[h]])
            /\ ended' = ended \cup {h}
  /\ UNCHANGED <<db, opens, table, next, given, held>>

DatabaseClose(t) ==
  /\ At(t, "idle")
  /\ \E d \in held : Go(t, [Idle EXCEPT !.stage = "close", !.d = d])
  /\ UNCHANGED <<db, opens, table, next, given, held, ended>>

\* bbolt's Close takes the writer's lock, then keeps new transactions out.
CloseBegin(t) ==
  LET d == call[t].d
  IN  /\ At(t, "close")
      /\ db[d].writer = None /\ db[d].closer = None
      /\ db' = [db EXCEPT ![d].closer = t]
      /\ Go(t, [call[t] EXCEPT !.stage = "wait"])
      /\ UNCHANGED <<opens, table, next, given, held, ended>>

\* It waits for the readers, and may report an error of the system; closing
\* what is closed succeeds.
CloseEnd(t) ==
  LET d == call[t].d
  IN  /\ At(t, "wait")
      /\ db[d].readers = {}
      /\ db' = [db EXCEPT ![d].closer = None, ![d].open = FALSE]
      /\ \/ Go(t, [call[t] EXCEPT !.stage = "delete"])
         \/ db[d].open /\ Return(t)
      /\ UNCHANGED <<opens, table, next, given, held, ended>>

\* nativeDatabases.Delete
Delete(t) ==
  /\ At(t, "delete")
  /\ table' = IF t \in CThreads THEN [table EXCEPT ![call[t].h] = None] ELSE table
  /\ Return(t)
  /\ UNCHANGED <<db, opens, next, given, held, ended>>

-------------------------------------------------------------------------------
\* A function of the C interface: the handle is looked up, then the arguments
\* are checked.
KoraDBCall(t) ==
  /\ At(t, "idle")
  /\ \/ \E op \in Ops, h \in Handles :
          /\ table[h] # None
          /\ Go(t, [Idle EXCEPT !.stage = "begin", !.d = table[h], !.op = op])
     \/ Return(t)
  /\ UNCHANGED <<db, opens, table, next, given, held, ended>>

\* A method of the Go SDK: the context, and some arguments, are checked.
DatabaseCall(t) ==
  /\ At(t, "idle")
  /\ \/ \E op \in Ops, d \in held : Go(t, [Idle EXCEPT !.stage = "begin", !.d = d, !.op = op])
     \/ Return(t)
  /\ UNCHANGED <<db, opens, table, next, given, held, ended>>

Kind(t) == Transactions(call[t].op)[call[t].tx]

\* View and Update begin: they wait for a Close under way, a writer also for
\* another, and fail on a closed database.
Begin(t) ==
  LET d == call[t].d
  IN  /\ At(t, "begin")
      /\ db[d].closer = None
      /\ \/ /\ ~ db[d].open
            /\ Return(t)
            /\ UNCHANGED db
         \/ /\ db[d].open
            /\ Kind(t) = "write" => db[d].writer = None
            /\ db' = IF Kind(t) = "write" THEN [db EXCEPT ![d].writer = t]
                     ELSE [db EXCEPT ![d].readers = @ \cup {t}]
            /\ Go(t, [call[t] EXCEPT !.stage = "run"])
      /\ UNCHANGED <<opens, table, next, given, held, ended>>

More(t) == call[t].tx < Cardinality(DOMAIN Transactions(call[t].op))

\* A plausible bug: the second transaction begins inside the first.
EndNested(t) ==
  LET d == call[t].d
  IN  /\ At(t, "run")
      /\ \/ /\ More(t)
            /\ Go(t, [call[t] EXCEPT !.stage = "begin", !.tx = @ + 1])
            /\ UNCHANGED db
         \/ /\ ~ More(t)
            /\ db' = [db EXCEPT ![d].writer = IF @ = t THEN None ELSE @, ![d].readers = @ \ {t}]
            /\ Return(t)
      /\ UNCHANGED <<opens, table, next, given, held, ended>>

\* The transaction ends, and with the last one the operation; one that fails
\* is rolled back.
End(t) ==
  LET d == call[t].d
  IN  /\ At(t, "run")
      /\ db' = [db EXCEPT ![d].writer = IF @ = t THEN None ELSE @, ![d].readers = @ \ {t}]
      /\ \/ More(t) /\ Go(t, [call[t] EXCEPT !.stage = "begin", !.tx = @ + 1])
         \/ ~ More(t) /\ Return(t)
         \/ Return(t)
      /\ UNCHANGED <<opens, table, next, given, held, ended>>

Step(t) ==
  \/ Load(t) \/ Number(t) \/ Store(t) \/ Publish(t) \/ CloseBegin(t) \/ CloseEnd(t) \/ Delete(t)
  \/ Begin(t) \/ End(t)

Next ==
  \/ \E t \in Threads : Open(t) \/ Step(t)
  \/ \E t \in CThreads : KoraDBClose(t) \/ KoraDBCall(t)
  \/ \E t \in GoThreads : DatabaseClose(t) \/ DatabaseCall(t)

\* A call under way goes on; Go's and bbolt's locks let every caller that
\* keeps waiting have its turn.
Spec ==
  /\ Init /\ [][Next]_vars
  /\ \A t \in Threads : WF_vars(Step(t)) /\ SF_vars(Begin(t) \/ CloseBegin(t))

-------------------------------------------------------------------------------
Stages == {"idle", "load", "number", "store", "publish", "close", "wait", "delete", "begin", "run"}

DbRecord == [file : Files \cup {None}, open : BOOLEAN, writer : Threads \cup {None},
             readers : SUBSET Threads, closer : Threads \cup {None}]
CallRecord == [stage : Stages, d : Dbs \cup {None}, h : Handles \cup {None},
               op : Ops \cup {None}, tx : Nat]

\* The variables have their types.
TypeOK ==
  /\ db \in [Dbs -> DbRecord]
  /\ opens \in 0 .. MaxOpens /\ next \in 0 .. MaxOpens
  /\ table \in [Handles -> Dbs \cup {None}] /\ given \in [Handles -> Dbs \cup {None}]
  /\ held \subseteq Dbs /\ ended \subseteq Handles
  /\ call \in [Threads -> CallRecord]

\* A handle given to a caller names the same database for ever: it is not
\* given out again, however opens and closes interleave (KoraDBOpen).
HandleStable == [][\A h \in Handles : given[h] # None => given'[h] = given[h]]_vars

\* An open database can be closed by someone: it is in the table, or in the
\* hands of a caller, or of an Open that has not ended.  No failed Open, and no
\* race of two Closes, leaves a file locked for the life of the process.
Closable ==
  \A d \in Dbs : db[d].open =>
    \/ \E h \in Handles : table[h] = d
    \/ \E t \in Threads : call[t].d = d /\ call[t].stage \in {"load", "number", "store", "publish"}
    \/ d \in held

\* A handle that was given out is valid until some caller closes it: the
\* table has its database, and that is open.  (koradb.h promises it until
\* KoraDBClose succeeds; a Close under way, or one that failed, ends it too.)
ValidUntilClosed ==
  \A h \in Handles \ ended : given[h] # None => table[h] = given[h] /\ db[given[h]].open

\* Transactions run only on open databases, and no two open databases share a
\* file: whoever has the file open after a Close is alone with it.
Exclusive ==
  /\ \A d \in Dbs : db[d].writer # None \/ db[d].readers # {} => db[d].open
  /\ \A d1, d2 \in Dbs : db[d1].open /\ db[d2].open /\ db[d1].file = db[d2].file => d1 = d2

\* Every call returns, whatever is closed meanwhile.
CallsReturn == \A t \in Threads : call[t].stage # "idle" ~> call[t].stage = "idle"
===============================================================================
