------------------------------- MODULE DocStore -------------------------------
(***************************************************************************)
(* What the embedded database promises its callers: a store of documents   *)
(* on which every operation takes effect at one instant between its call   *)
(* and its return, or not at all.  There are no transactions, indexes,     *)
(* encodings or sequence counters here; an index lookup is defined by the  *)
(* documents themselves.  Engine is shown to implement this module.        *)
(***************************************************************************)
CONSTANTS Clients, Colls, Fields, Vals, Key, AutoKeys, AutoKey, None

VARIABLES
  docs,   \* the collections: definition, documents and identifiers ever used
  call,   \* the operation each client has in progress
  res     \* its outcome, once it has taken effect or failed

vars == <<docs, call, res>>

Ok    == <<"ok">>
Error == <<"error">>
Doc   == [Fields -> Vals]
Meta  == [keyField : Fields \cup {AutoKey}, indexes : SUBSET Fields]

Op == [kind : {"create"}, coll : Colls, meta : Meta]
        \cup [kind : {"insert"}, coll : Colls, doc : Doc]
        \cup [kind : {"update"}, coll : Colls, id : Key, doc : Doc]
        \cup [kind : {"delete", "get"}, coll : Colls, id : Key]
        \cup [kind : {"lookup"}, coll : Colls, field : Fields, value : Vals]

Init ==
  /\ docs = [c \in Colls |-> [meta |-> None, data |-> [k \in Key |-> None], used |-> {}]]
  /\ call = [p \in Clients |-> None]
  /\ res = [p \in Clients |-> None]

Call(p, o) ==
  /\ call[p] = None
  /\ call' = [call EXCEPT ![p] = o]
  /\ \E r \in {None, Error} : res' = [res EXCEPT ![p] = r]   \* may be refused at once
  /\ UNCHANGED docs

\* The collection after an operation that takes effect, and its result.
Took(p, coll, result) ==
  /\ docs' = [docs EXCEPT ![call[p].coll] = coll]
  /\ res' = [res EXCEPT ![p] = result]
  /\ UNCHANGED call

Pending(p, kind) == call[p] # None /\ call[p].kind = kind /\ res[p] = None

Create(p) ==
  LET col == docs[call[p].coll] IN
  /\ Pending(p, "create")
  /\ col.meta = None
  /\ Took(p, [col EXCEPT !.meta = call[p].meta], Ok)

\* A new document never replaces another; a generated identifier is one that
\* no document of the collection has ever had.
Insert(p) ==
  LET col == docs[call[p].coll] IN
  /\ Pending(p, "insert")
  /\ col.meta # None
  /\ \E k \in IF col.meta.keyField = AutoKey THEN AutoKeys \ col.used
              ELSE {call[p].doc[col.meta.keyField]} :
       /\ col.data[k] = None
       /\ Took(p, [meta |-> col.meta,
                   data |-> [col.data EXCEPT ![k] = call[p].doc],
                   used |-> IF col.meta.keyField = AutoKey THEN col.used \cup {k} ELSE col.used],
               <<"id", k>>)

Update(p) ==
  LET col == docs[call[p].coll] IN
  /\ Pending(p, "update")
  /\ col.meta # None
  /\ col.data[call[p].id] # None
  /\ col.meta.keyField # AutoKey => call[p].doc[col.meta.keyField] = call[p].id
  /\ Took(p, [col EXCEPT !.data[call[p].id] = call[p].doc], Ok)

Delete(p) ==
  LET col == docs[call[p].coll] IN
  /\ Pending(p, "delete")
  /\ col.meta # None
  /\ Took(p, [col EXCEPT !.data[call[p].id] = None], Ok)

\* What a read of the collection returns.
Read(col, o) ==
  IF o.kind = "get"
  THEN <<"doc", col.data[o.id]>>
  ELSE <<"keys", {k \in Key : col.data[k] # None /\ col.data[k][o.field] = o.value}>>

\* A read takes effect when its snapshot is taken, which is when it is called.
CallRead(p, o) ==
  /\ call[p] = None
  /\ o.kind \in {"get", "lookup"}
  /\ docs[o.coll].meta # None
  /\ call' = [call EXCEPT ![p] = o]
  /\ res' = [res EXCEPT ![p] = Read(docs[o.coll], o)]
  /\ UNCHANGED docs

\* An operation that fails changes nothing.
Fail(p) ==
  /\ call[p] # None
  /\ res[p] = None \/ call[p].kind \in {"get", "lookup"}
  /\ res' = [res EXCEPT ![p] = Error]
  /\ UNCHANGED <<docs, call>>

Return(p) ==
  /\ res[p] # None
  /\ call' = [call EXCEPT ![p] = None]
  /\ res' = [res EXCEPT ![p] = None]
  /\ UNCHANGED docs

\* A crash forgets the clients and no document.
Crash ==
  /\ call' = [p \in Clients |-> None]
  /\ res' = [p \in Clients |-> None]
  /\ UNCHANGED docs

Next ==
  \/ \E p \in Clients : \/ \E o \in Op : Call(p, o) \/ CallRead(p, o)
                        \/ Create(p) \/ Insert(p) \/ Update(p) \/ Delete(p)
                        \/ Fail(p) \/ Return(p)
  \/ Crash

Spec == Init /\ [][Next]_vars
===============================================================================
