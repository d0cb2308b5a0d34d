-------------------------------- MODULE Engine --------------------------------
(***************************************************************************)
(* The document engine (internal/engine) over the storage layer            *)
(* (internal/storage): collections, inserts, updates and deletes with      *)
(* their secondary indexes in one read-write transaction, reads on a       *)
(* snapshot, and crashes.                                                  *)
(*                                                                         *)
(* bbolt runs one read-write transaction at a time on a private copy of    *)
(* the state and publishes it atomically at commit.  A transaction touches *)
(* one collection, so the copy is that collection's record.  The schema    *)
(* registry is outside the transaction: each operation asks it for the     *)
(* active descriptor several times, and a registration may activate        *)
(* another one in between.  Its reads are separate steps here.             *)
(***************************************************************************)
EXTENDS IndexKeys, FiniteSets

CONSTANTS
  Clients,
  Colls,         \* collection names
  Fields,        \* fields of the message type the collections are bound to
  Vals,          \* field values, as the byte strings EncodeValue makes of them
  CallDocs,      \* documents callers send
  CallMetas,     \* collection definitions callers ask for
  Descs,         \* descriptors the registry may serve: the fields they declare
  MaxSeq,        \* bound on a collection's sequence counter
  SchemaStable,  \* TRUE: the registry only ever adds fields
  AutoKey,          \* the key field of a collection with generated keys
  NoType,        \* the registry does not resolve the message type
  None

Default  == << >>                                 \* an unset field
AutoKeys == {encodeUint(n) : n \in 1 .. MaxSeq}
Key      == Vals \cup AutoKeys
Doc      == [Fields -> Vals]
Meta     == [keyField : Fields \cup {AutoKey}, indexes : SUBSET Fields]
Entry    == {EntryKey(v, k) : v \in Vals, k \in Key}
Coll     == [meta : Meta \cup {None},
             data : [Key -> Doc \cup {None}],
             idx  : [Fields -> SUBSET Entry],
             seq  : 0 .. MaxSeq]

VARIABLES
  store,   \* the committed collections
  desc,    \* the active descriptor of the message type
  wtx,     \* bbolt's read-write transaction, None when no writer runs
  view,    \* each client's read-only snapshot
  call,    \* the operation each client has in progress
  res      \* its outcome, not yet returned

vars == <<store, desc, wtx, view, call, res>>

Ok    == <<"ok">>
Error == <<"error">>

\* The calls: an id is written as the key it denotes, a document as its fields.
Op == [kind : {"create"}, coll : Colls, meta : CallMetas]
        \cup [kind : {"insert"}, coll : Colls, doc : CallDocs]
        \cup [kind : {"update"}, coll : Colls, id : Key, doc : CallDocs]
        \cup [kind : {"delete", "get"}, coll : Colls, id : Key]
        \cup [kind : {"lookup"}, coll : Colls, field : Fields, value : Vals]

Stages  == {"getMeta", "load", "decode", "parse", "derive", "put", "putMeta", "commit"}
WriteTx == [cl : Clients, stage : Stages, work : Coll, key : Key \cup {None},
            old : Descs \cup {NoType}, new : Descs \cup {NoType}]
Result  == {Ok, Error} \cup ({"id"} \X Key) \cup ({"doc"} \X (Doc \cup {None}))
             \cup ({"keys"} \X SUBSET Key)

ASSUME EngineAssumption ==
  /\ Descs \subseteq SUBSET Fields
  /\ CallDocs \subseteq Doc /\ CallMetas \subseteq Meta
  /\ MaxSeq \in Nat
  /\ SchemaStable \in BOOLEAN
  /\ Vals \subseteq Seq(Byte) /\ Default \in Vals
  /\ AutoKey \notin Fields /\ NoType \notin Descs
  /\ \A x \in Meta \cup Doc \cup Key \cup Clients \cup Op : x # None
  /\ None \notin Coll

\* A uint64 of Width bytes holds every identifier the counter reaches.
ASSUME SequenceFits ==
  /\ AutoKeys \subseteq Seq(Byte)
  /\ \A m, n \in 1 .. MaxSeq : encodeUint(m) = encodeUint(n) => m = n

EmptyColl == [meta |-> None, data |-> [k \in Key |-> None],
              idx |-> [f \in Fields |-> {}], seq |-> 0]

Init ==
  /\ store = [c \in Colls |-> EmptyColl]
  /\ desc = NoType
  /\ wtx = None
  /\ view = [p \in Clients |-> None]
  /\ call = [p \in Clients |-> None]
  /\ res = [p \in Clients |-> None]

-------------------------------------------------------------------------------
(* Pure parts of the operations.                                           *)

\* Mutant: unknown names are discarded by the parser, not by the caller.
ParsesAny(doc, d) == d # NoType

\* A message parses when every field it sets is declared (protojson rejects
\* unknown names).
Parses(doc, d) == d # NoType /\ \A f \in Fields \ d : doc[f] = Default

\* A stored document as a descriptor shows it: undeclared fields are unknown
\* fields of the wire format, which the JSON rendering leaves out.
render(doc, d) == [f \in Fields |-> IF f \in d THEN doc[f] ELSE Default]

\* An id is a key of this collection: a number for generated keys, a value of
\* the key field, resolved in the active descriptor, otherwise.
encodeKeyOK(meta, id, d) ==
  IF meta.keyField = AutoKey THEN id \in AutoKeys
  ELSE d # NoType /\ meta.keyField \in d

\* Every indexed field must be declared by the message's descriptor.
eachIndexedValueOK(meta, d) == meta.indexes \subseteq d

indexInsert(col, k, doc) ==
  [f \in Fields |-> IF f \in col.meta.indexes
                    THEN col.idx[f] \cup {EntryKey(doc[f], k)} ELSE col.idx[f]]

indexDelete(col, k, doc) ==
  [f \in Fields |-> IF f \in col.meta.indexes
                    THEN col.idx[f] \ {EntryKey(doc[f], k)} ELSE col.idx[f]]

\* The primary keys an index holds for a value.
LookupByIndex(col, f, v) ==
  {PrimaryKeyFromEntry(e, Len(v)) : e \in PrefixScan(col.idx[f], LookupPrefix(v))}

\* A collection with other documents and index entries.
With(col, data, idx) == [meta |-> col.meta, data |-> data, idx |-> idx, seq |-> col.seq]

PutNew(col, k, doc) ==
  With(col, [col.data EXCEPT ![k] = doc], indexInsert(col, k, doc))

\* Mutant: the old document's entries stay behind.
ReplaceKeepsEntries(col, k, doc) == PutNew(col, k, doc)

DeleteOld(col, k) ==
  With(col, [col.data EXCEPT ![k] = None], indexDelete(col, k, col.data[k]))

\* indexDelete(old), Put, indexInsert(new), in that order.
Replace(col, k, doc) ==
  PutNew(With(col, col.data, indexDelete(col, k, col.data[k])), k, doc)

-------------------------------------------------------------------------------
(* The read-write transaction.                                             *)

\* store.Update: the writer lock and a private copy.  The bound keeps the
\* sequence counter finite.
Begin(p, o) ==
  /\ call[p] = None
  /\ wtx = None
  /\ o.kind \in {"insert", "update", "delete"}
  /\ o.kind = "insert" => store[o.coll].seq < MaxSeq
  /\ wtx' = [cl |-> p, stage |-> "getMeta", work |-> store[o.coll],
             key |-> None, old |-> NoType, new |-> NoType]
  /\ call' = [call EXCEPT ![p] = o]
  /\ UNCHANGED <<store, desc, view, res>>

op == call[wtx.cl]

\* A step of the writer: to transaction t when ok, otherwise the function
\* returns an error and bbolt rolls the transaction back.
TxStep(stage, ok, t) ==
  /\ wtx # None
  /\ wtx.stage = stage
  /\ \/ /\ ok
        /\ wtx' = t
        /\ UNCHANGED res
     \/ /\ ~ok
        /\ wtx' = None
        /\ res' = [res EXCEPT ![wtx.cl] = Error]
  /\ UNCHANGED <<store, desc, view, call>>

getMeta ==
  TxStep("getMeta", wtx.work.meta # None,
         [wtx EXCEPT !.stage = IF op.kind = "insert" THEN "parse" ELSE "load"])

\* encodeKey and tx.Get of the prior document.  A delete of a missing document
\* is done.
loadOld ==
  LET ok      == encodeKeyOK(wtx.work.meta, op.id, desc)
      missing == wtx.work.data[op.id] = None
  IN  TxStep("load", ok /\ (missing => op.kind = "delete"),
             [wtx EXCEPT !.key = op.id, !.stage = IF missing THEN "commit" ELSE "decode"])

decode ==
  TxStep("decode", desc # NoType,
         [wtx EXCEPT !.old = desc, !.stage = IF op.kind = "update" THEN "parse" ELSE "put"])

parse ==
  TxStep("parse", Parses(op.doc, desc), [wtx EXCEPT !.new = desc, !.stage = "derive"])

\* Mutant: number the documents instead of keeping a sequence.
NextSequenceCounts(col) ==
  [col EXCEPT !.seq = Cardinality({k \in Key : col.data[k] # None}) + 1]

\* A generated key is the next number of the collection's sequence.
NextSequence(col) == [col EXCEPT !.seq = @ + 1]

\* Mutants: no duplicate check; a key that may change.
InsertKeyAny(k) == TRUE
UpdateKeyAny(k) == TRUE

\* An insert must not find a document under a caller's key (tx.Has).
InsertKeyOK(k) == wtx.work.data[k] = None

\* An update must not change the key.
UpdateKeyOK(k) == k = wtx.key

\* deriveKey with the check that follows it in Insert and in Update.
deriveKey ==
  LET meta == wtx.work.meta
      auto == meta.keyField = AutoKey
      k    == op.doc[meta.keyField]
  IN  TxStep("derive",
             auto \/ /\ meta.keyField \in wtx.new
                     /\ encodeKeyOK(meta, k, desc)
                     /\ IF op.kind = "insert" THEN InsertKeyOK(k) ELSE UpdateKeyOK(k),
             IF op.kind = "update" THEN [wtx EXCEPT !.stage = "put"]
             ELSE IF auto
             THEN [wtx EXCEPT !.stage = "put", !.work = NextSequence(@),
                              !.key = encodeUint(NextSequence(wtx.work).seq)]
             ELSE [wtx EXCEPT !.stage = "put", !.key = k])

\* The writes.  bbolt refuses an empty key; an indexed field the message does
\* not declare is an error.
Write ==
  LET meta == wtx.work.meta
      work == CASE op.kind = "insert" -> PutNew(wtx.work, wtx.key, op.doc)
                [] op.kind = "update" -> Replace(wtx.work, wtx.key, op.doc)
                [] op.kind = "delete" -> DeleteOld(wtx.work, wtx.key)
  IN  TxStep("put", /\ op.kind # "insert" => eachIndexedValueOK(meta, wtx.old)
                    /\ op.kind # "delete" => /\ wtx.key # << >>
                                             /\ eachIndexedValueOK(meta, wtx.new),
             [wtx EXCEPT !.work = work, !.stage = "commit"])

\* What a successful call returns.
Reply == IF op.kind = "insert" THEN <<"id", wtx.key>> ELSE Ok

\* The transaction becomes durable and visible; the lock is released before the
\* caller sees the result.
Commit ==
  /\ wtx # None
  /\ wtx.stage = "commit"
  /\ store' = [store EXCEPT ![op.coll] = wtx.work]
  /\ res' = [res EXCEPT ![wtx.cl] = Reply]
  /\ wtx' = None
  /\ UNCHANGED <<desc, view, call>>

\* bbolt cannot write the file: the caller gets the error, nothing is published.
CommitFails == TxStep("commit", FALSE, wtx)

-------------------------------------------------------------------------------
(* CreateCollection: validated against the active descriptor first, then   *)
(* written in a transaction of its own.                                    *)

CreateCollection(p, o) ==
  /\ call[p] = None
  /\ o.kind = "create"
  /\ call' = [call EXCEPT ![p] = o]
  /\ res' = [res EXCEPT ![p] =
               IF /\ desc # NoType
                  /\ o.meta.keyField # AutoKey => o.meta.keyField \in desc
                  /\ o.meta.indexes \subseteq desc
               THEN None ELSE Error]
  /\ UNCHANGED <<store, desc, wtx, view>>

BeginCreate(p) ==
  /\ call[p] # None /\ call[p].kind = "create" /\ res[p] = None
  /\ wtx = None
  /\ wtx' = [cl |-> p, stage |-> "putMeta", work |-> store[call[p].coll],
             key |-> None, old |-> NoType, new |-> NoType]
  /\ UNCHANGED <<store, desc, view, call, res>>

putMeta ==
  TxStep("putMeta", wtx.work.meta = None,
         [wtx EXCEPT !.work.meta = op.meta, !.stage = "commit"])

-------------------------------------------------------------------------------
(* Reads.  The snapshot is taken when the transaction starts; the registry *)
(* is asked later.                                                         *)

OpenView(p, o) ==
  /\ call[p] = None
  /\ o.kind \in {"get", "lookup"}
  /\ o.kind = "lookup" => /\ store[o.coll].meta # None
                          /\ o.field \in store[o.coll].meta.indexes
  /\ view' = [view EXCEPT ![p] = store[o.coll]]
  /\ call' = [call EXCEPT ![p] = o]
  /\ UNCHANGED <<store, desc, wtx, res>>

CloseView(p, r) ==
  /\ view' = [view EXCEPT ![p] = None]
  /\ res' = [res EXCEPT ![p] = r]
  /\ UNCHANGED <<store, desc, wtx, call>>

Get(p) ==
  /\ view[p] # None /\ call[p].kind = "get"
  /\ LET doc == view[p].data[call[p].id]
         ok  == /\ view[p].meta # None
                /\ encodeKeyOK(view[p].meta, call[p].id, desc)
                /\ doc # None => desc # NoType
     IN  CloseView(p, IF ~ok THEN Error
                      ELSE <<"doc", IF doc = None THEN None ELSE render(doc, desc)>>)

Lookup(p) ==
  /\ view[p] # None /\ call[p].kind = "lookup"
  /\ CloseView(p, IF desc = NoType THEN Error
                  ELSE IF call[p].field \notin desc THEN Error
                  ELSE <<"keys", LookupByIndex(view[p], call[p].field, call[p].value)>>)

Return(p) ==
  /\ res[p] # None
  /\ call' = [call EXCEPT ![p] = None]
  /\ res' = [res EXCEPT ![p] = None]
  /\ UNCHANGED <<store, desc, wtx, view>>

-------------------------------------------------------------------------------
(* The environment: the registry and crashes.                              *)

Grows(d) == (SchemaStable /\ desc # NoType) => (d # NoType /\ desc \subseteq d)

\* A registration activates another descriptor.
Activate ==
  /\ \E d \in Descs \cup {NoType} : Grows(d) /\ desc' = d
  /\ desc' # desc
  /\ UNCHANGED <<store, wtx, view, call, res>>

\* The process stops anywhere and the file is opened again.
Crash ==
  /\ wtx' = None
  /\ view' = [p \in Clients |-> None]
  /\ call' = [p \in Clients |-> None]
  /\ res' = [p \in Clients |-> None]
  /\ \E d \in Descs \cup {NoType} : Grows(d) /\ desc' = d
  /\ UNCHANGED store

Next ==
  \/ \E p \in Clients : \/ \E o \in Op : Begin(p, o) \/ OpenView(p, o) \/ CreateCollection(p, o)
                        \/ BeginCreate(p) \/ Get(p) \/ Lookup(p) \/ Return(p)
  \/ getMeta \/ loadOld \/ decode \/ parse \/ deriveKey \/ Write \/ putMeta
  \/ Commit \/ CommitFails
  \/ Activate
  \/ Crash

Spec == Init /\ [][Next]_vars

-------------------------------------------------------------------------------
(* Properties.                                                             *)

Present(col) == {k \in Key : col.data[k] # None}

\* Identifiers the collection's sequence has handed out.
Minted(col) == {encodeUint(n) : n \in 1 .. col.seq}

\* Every variable keeps its type (store, transaction, snapshots and calls).
TypeOK ==
  /\ store \in [Colls -> Coll]
  /\ desc \in Descs \cup {NoType}
  /\ wtx = None \/ wtx \in WriteTx
  /\ view \in [Clients -> Coll \cup {None}]
  /\ call \in [Clients -> Op \cup {None}]
  /\ res \in [Clients -> Result \cup {None}]

\* The entries the documents of a collection call for.
ExpectedEntries(col, f) ==
  IF col.meta = None THEN {}
  ELSE IF f \notin col.meta.indexes THEN {}
  ELSE {EntryKey(col.data[k][f], k) : k \in Present(col)}

Agrees(col) == \A f \in Fields : col.idx[f] = ExpectedEntries(col, f)

\* Data and indexes never drift apart: in every committed state, whatever
\* transactions failed, were cut off by a crash or ran while the schema changed,
\* each index holds exactly one entry per stored document
\* (index.go "can never drift apart, even across a crash").
IndexAgreement == \A c \in Colls : Agrees(store[c])

\* A document of a field-keyed collection is stored under the value of its key
\* field, for ever: Insert derives the key from the document and Update refuses
\* to change it, although both read the descriptor anew.
KeyFieldMatches ==
  \A c \in Colls : \A k \in Present(store[c]) :
    store[c].meta.keyField # AutoKey => store[c].data[k][store[c].meta.keyField] = k

\* Every document of a collection with generated keys has a key its sequence
\* has passed, so the next number never meets a stored document.
KeysMinted ==
  \A c \in Colls : \A k \in Present(store[c]) :
    store[c].meta.keyField = AutoKey => k \in Minted(store[c])

\* A generated identifier is never used again: not after a delete, a rolled
\* back insert or a crash (NextSequence in deriveKey).
AutoIdsFresh ==
  [][\A c \in Colls :
       /\ Minted(store[c]) \subseteq Minted(store[c])'
       /\ store[c].meta # None =>
            (store[c].meta.keyField = AutoKey =>
               \A k \in Present(store[c])' \ Present(store[c]) : k \notin Minted(store[c]))]_vars

-------------------------------------------------------------------------------
(* The inductive invariant behind them.                                    *)

\* The documents are where their keys say, the sequence has passed them and the
\* indexes list them.
CollOK(col) ==
  /\ Agrees(col)
  /\ col.meta = None => Present(col) = {}
  /\ col.meta # None => \A k \in Present(col) :
       IF col.meta.keyField = AutoKey THEN k \in Minted(col)
       ELSE col.data[k][col.meta.keyField] = k

\* What transaction t of operation o has established at each stage.
StageOK(t, o) ==
  LET s == t.stage
      m == t.work.meta
  IN  /\ CollOK(t.work)
      /\ o.kind \in CASE s = "putMeta"            -> {"create"}
                      [] s \in {"load", "decode"}  -> {"update", "delete"}
                      [] s \in {"parse", "derive"} -> {"insert", "update"}
                      [] s \in {"getMeta", "put"}  -> {"insert", "update", "delete"}
                      [] s = "commit" -> {"create", "insert", "update", "delete"}
      /\ s \in {"load", "decode", "parse", "derive", "put"} => m # None
      /\ s \in {"getMeta", "parse", "derive"} /\ o.kind = "insert" => t.work.seq < MaxSeq
      /\ s \in {"decode", "parse", "derive", "put"} /\ o.kind # "insert" =>
           t.key \in Key /\ t.work.data[t.key] # None
      /\ s = "put" /\ o.kind = "insert" =>
           /\ t.key \in Key /\ t.work.data[t.key] = None
           /\ IF m.keyField = AutoKey THEN t.key \in Minted(t.work) ELSE o.doc[m.keyField] = t.key
      /\ s = "put" /\ o.kind = "update" => (m.keyField # AutoKey => o.doc[m.keyField] = t.key)
      /\ s = "commit" /\ o.kind = "insert" => t.key \in Key

\* The writer has a call of its own in progress.
TxOK ==
  wtx # None =>
    /\ call[wtx.cl] # None /\ res[wtx.cl] = None /\ view[wtx.cl] = None
    /\ StageOK(wtx, op)

\* A snapshot is a committed collection and belongs to a read.
ViewOK ==
  \A p \in Clients : view[p] # None =>
    /\ call[p] # None /\ call[p].kind \in {"get", "lookup"} /\ res[p] = None
    /\ CollOK(view[p])
    /\ call[p].kind = "lookup" => /\ view[p].meta # None
                                  /\ call[p].field \in view[p].meta.indexes

\* Committed collections, the writer's private copy at every stage and every
\* reader's snapshot are sound, and the writer owns its call: this is what makes
\* IndexAgreement, KeyFieldMatches and KeysMinted inductive.
IInv ==
  /\ TypeOK
  /\ \A c \in Colls : CollOK(store[c])
  /\ \A p \in Clients : call[p] = None => res[p] = None
  /\ TxOK
  /\ ViewOK

-------------------------------------------------------------------------------
(* Implementation of the abstract store.                                   *)

\* A descriptor renders the documents of a collection whole.
Readable(col, d) == \A k \in Present(col) : d # NoType /\ render(col.data[k], d) = col.data[k]

\* While the registry only adds fields, a stored document is rendered whole by
\* the active descriptor: evolution loses no stored value.
DocsReadable == SchemaStable => \A c \in Colls : Readable(store[c], desc)

\* What a snapshot holds for a read.
Seen(col, o) ==
  IF o.kind = "get" THEN <<"doc", col.data[o.id]>>
  ELSE <<"keys", LookupByIndex(col, o.field, o.value)>>

\* The documents of the abstract store, and the results: a read has its result
\* when its snapshot is taken.
docsOf == [c \in Colls |-> [meta |-> store[c].meta, data |-> store[c].data,
                            used |-> Minted(store[c])]]
resOf == [p \in Clients |-> IF view[p] = None \/ view[p].meta = None THEN res[p]
                            ELSE Seen(view[p], call[p])]

A == INSTANCE DocStore WITH docs <- docsOf, res <- resOf

\* The engine is a linearizable document store: a write takes effect at its
\* commit, a read at its snapshot, an index lookup returns exactly the keys
\* whose documents hold the value, and a failed or interrupted call changes
\* nothing.
ImplementsDocStore == A!Spec

-------------------------------------------------------------------------------
(* What the implementation needs beyond IInv.                              *)

\* What operation o, about to commit transaction t, makes of collection col.
Effect(t, o, col) ==
  LET w == t.work
  IN  /\ w.meta = IF o.kind = "create" THEN o.meta ELSE col.meta
      /\ (o.kind = "create") <=> (col.meta = None)
      /\ o.kind = "create" => w.data = col.data
      /\ o.kind = "insert" => /\ col.data[t.key] = None
                              /\ w.data = [col.data EXCEPT ![t.key] = o.doc]
      /\ o.kind = "update" => /\ col.data[o.id] # None
                              /\ w.data = [col.data EXCEPT ![o.id] = o.doc]
                              /\ col.meta.keyField # AutoKey => o.doc[col.meta.keyField] = o.id
      /\ o.kind = "delete" => w.data = [col.data EXCEPT ![o.id] = None]
      /\ IF o.kind = "insert" /\ col.meta.keyField = AutoKey
         THEN w.seq = col.seq + 1 /\ t.key = encodeUint(col.seq + 1)
         ELSE w.seq = col.seq
      /\ o.kind = "insert" /\ col.meta.keyField # AutoKey => t.key = o.doc[col.meta.keyField]

\* How far transaction t of operation o has taken its copy of collection col.
Progress(t, o, col) ==
  LET s == t.stage
  IN  /\ s \in {"getMeta", "load", "decode", "parse", "derive", "putMeta"} => t.work = col
      /\ s \in {"decode", "parse", "derive", "put"} /\ o.kind # "insert" => t.key = o.id
      /\ s = "put" => IF o.kind = "insert" /\ col.meta.keyField = AutoKey
                      THEN t.work = NextSequence(col) /\ t.key = encodeUint(col.seq + 1)
                      ELSE t.work = col
      /\ s = "commit" => Effect(t, o, col)

\* The active descriptor renders whole what is stored, what a reader sees and
\* what the writer has, and the document that it is about to write.
AllReadable ==
  /\ \A c \in Colls : Readable(store[c], desc)
  /\ \A p \in Clients : view[p] # None => Readable(view[p], desc)
  /\ wtx # None => /\ Readable(wtx.work, desc)
                   /\ wtx.stage \in {"derive", "put"} /\ op.kind # "delete" => Parses(op.doc, desc)

\* The writer's copy is the committed collection with the effect of the stages
\* passed: with IInv this makes the commit one step of the abstract store.
RInv ==
  /\ IInv
  /\ wtx # None => Progress(wtx, op, store[op.coll])
  /\ SchemaStable => AllReadable
===============================================================================
