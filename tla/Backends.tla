------------------------------- MODULE Backends -------------------------------
(* The ways into the database, given the same commands: the command line     *)
(* over an embedded database and over a server (cmd/KoraDB), the Go SDK      *)
(* (sdk/go/koradb) and the C library (sdk/native/cshared).  Each has a       *)
(* database of its own with one collection, keyed by a field of some kind or *)
(* by a sequence; a document is the value of its key field.  Transport       *)
(* faults are Pipeline's, transactions Engine's, continuation tokens Query's.*)
EXTENDS Ids, FiniteSets, Functions

CONSTANTS Names,      \* names of comparison operators
          Sizes,      \* page sizes; 0 is "no page size"
          RoleTexts,  \* role names as typed
          Limit,      \* DefaultResultLimit
          MaxDocs     \* bound on stored documents and on the sequence

ASSUME BackendsAssumption ==
  /\ Limit \in Nat \ {0} /\ Limit < Half32 /\ Sizes \subseteq Nat
  /\ MaxDocs \in Nat /\ MaxDocs < 2 * Half64
  /\ \A r \in RoleTexts : r.plain \in BOOLEAN

VARIABLES kind,     \* of the collection's key
          db,       \* each way's database
          present   \* history: the values (sequence numbers) stored, by what the ids mean

vars == <<kind, db, present>>

Fronts == {"embedded", "remote", "sdk", "native"}
Texts  == Range(Strings)
Empty  == Word("")

Values(k) ==
  CASE k \in Signed -> -Half(k) .. Half(k) - 1
    [] k \in Unsigned -> 0 .. 2 * Half(k) - 1
    [] k = "auto" -> {0}
    [] k = "bool" -> BOOLEAN
    [] k = "string" -> Texts

Fail(err) == [ok |-> FALSE, err |-> err]
Invalid == Fail("invalid")
------------------------------------------------------------------------------
(* The engine, on a database d: documents by storage key, and the sequence.  *)

deriveKey(d, v) ==
  IF kind = "auto" THEN Ok(d.seq + 1) ELSE encodeKey(kind, idStringFromValue(kind, v))

\* The storage engine refuses an empty key.
Insert(d, v) ==
  LET key == deriveKey(d, v)
  IN  CASE ~key.ok -> [ans |-> Invalid, db |-> d]
        [] key.ok /\ key.v \in DOMAIN d.docs -> [ans |-> Fail("ErrDuplicateKey"), db |-> d]
        [] kind = "string" /\ v = Empty -> [ans |-> Invalid, db |-> d]
        [] OTHER -> [ans |-> Ok(IF kind = "auto" THEN FormatInt(key.v)
                                                 ELSE idStringFromValue(kind, v)),
                     db |-> [docs |-> [k \in DOMAIN d.docs \cup {key.v} |->
                                         IF k = key.v THEN v ELSE d.docs[k]],
                             seq  |-> IF kind = "auto" THEN d.seq + 1 ELSE d.seq]]

Get(d, id) ==
  LET key == encodeKey(kind, id)
  IN  CASE ~key.ok -> Invalid
        [] key.ok /\ key.v \notin DOMAIN d.docs -> Fail("ErrNotFound")
        [] OTHER -> Ok(d.docs[key.v])

Update(d, id, v) ==
  LET key == encodeKey(kind, id)
  IN  CASE ~key.ok -> Invalid
        [] key.ok /\ key.v \notin DOMAIN d.docs -> Fail("ErrNotFound")
        [] OTHER -> IF kind # "auto" /\ deriveKey(d, v) # key THEN Invalid ELSE Ok("updated")

Delete(d, id) ==
  LET key == encodeKey(kind, id)
  IN  IF ~key.ok THEN [ans |-> Invalid, db |-> d]
      ELSE [ans |-> Ok("deleted"),
            db  |-> [d EXCEPT !.docs = [k \in DOMAIN @ \ {key.v} |-> @[k]]]]

KeyOrder(k) == IF kind \in {"bool", "string"} THEN ByteOrder(k) ELSE k

\* Keys as a cursor meets them.
InKeyOrder(keys) ==
  CHOOSE s \in [1 .. Cardinality(keys) -> keys] :
    \A i, j \in DOMAIN s : i < j => KeyOrder(s[i]) < KeyOrder(s[j])

\* One predicate on the key field.  A literal is typed when a document is read.
ExecutePage(d, op, literal, size) ==
  LET value == scalarValueFromString(kind, literal)
      hits  == {k \in DOMAIN d.docs : Holds(op, CompareValues(kind, d.docs[k], value.v))}
      keys  == InKeyOrder(hits)
      page  == SubSeq(keys, 1, IF Len(keys) < size THEN Len(keys) ELSE size)
  IN  CASE size <= 0 -> Invalid
        [] size > 0 /\ ~value.ok ->
             IF DOMAIN d.docs = {} THEN Ok([ids |-> << >>, more |-> FALSE]) ELSE Invalid
        [] OTHER -> Ok([ids |-> [i \in DOMAIN page |-> IDFromStorageKey(kind, page[i])],
                        more |-> Len(keys) > size])

ExecuteWithLimit(d, op, literal, limit) ==
  LET page == ExecutePage(d, op, literal, limit)
  IN  IF page.ok /\ page.v.more THEN Fail("ResultLimitError") ELSE page
------------------------------------------------------------------------------
(* The ways in.                                                              *)

\* Go's conversion of a page size.
int32(n) == ((n + Half32) % (2 * Half32)) - Half32

\* What a caller reads from a status code.
codeMeans(code) ==
  CASE code = "NotFound" -> "ErrNotFound" [] code = "AlreadyExists" -> "ErrDuplicateKey"
    [] code = "ResourceExhausted" -> "ResultLimitError" [] OTHER -> "invalid"

\* An answer as the way in reports it.
Report(f, ans) ==
  IF f = "remote" /\ ~ans.ok THEN Fail(codeMeans(toStatus(ans.err))) ELSE ans

\* requiredCString refuses an empty text.
Accepts(f, text) == f = "native" => text # Empty

\* The embedded command line.
embeddedQueryPage(d, op, literal, size) ==
  IF size = 0 THEN ExecuteWithLimit(d, op, literal, Limit)
  ELSE ExecutePage(d, op, literal, size)

\* The server's handler.
serverQuery(d, wireOp, literal, size) ==
  CASE toOp(wireOp) = Unknown \/ size < 0 \/ size > Limit -> Invalid
    [] toOp(wireOp) # Unknown /\ size = 0 -> ExecuteWithLimit(d, toOp(wireOp), literal, Limit)
    [] OTHER -> ExecutePage(d, toOp(wireOp), literal, size)

\* The command line over a server.
remoteQueryPage(d, op, literal, size) == serverQuery(d, toWireOp(op), literal, int32(size))

\* The command line.
cmdQuery(f, d, name, literal, size) ==
  LET op == parseOp(name)
  IN  CASE op = Unknown -> Invalid
        [] op # Unknown /\ f = "remote" -> Report(f, remoteQueryPage(d, op, literal, size))
        [] OTHER -> embeddedQueryPage(d, op, literal, size)

\* The SDK.  Its call without a page size asks for a page of the limit.
QueryPageJSON(d, name, literal, size) ==
  IF toEngineOp(name) = Unknown THEN Invalid
  ELSE ExecutePage(d, toEngineOp(name), literal, size)

QueryJSON(d, name, literal) ==
  LET page == QueryPageJSON(d, name, literal, Limit)
  IN  IF page.ok /\ page.v.more THEN Fail("ResultLimitError") ELSE page

\* The C library.
KoraDBQueryPageJSON(d, name, literal, size) ==
  IF nativeQueryOp(name) = Unknown \/ ~Accepts("native", literal) THEN Invalid
  ELSE ExecutePage(d, nativeQueryOp(name), literal, size)

KoraDBQueryJSON(d, name, literal) ==
  IF nativeQueryOp(name) = Unknown \/ ~Accepts("native", literal) THEN Invalid
  ELSE ExecuteWithLimit(d, nativeQueryOp(name), literal, Limit)

Query(f, d, name, literal, size) ==
  CASE f \in {"embedded", "remote"} -> cmdQuery(f, d, name, literal, size)
    [] f = "sdk" -> IF size = 0 THEN QueryJSON(d, name, literal)
                                ELSE QueryPageJSON(d, name, literal, size)
    [] f = "native" -> IF size = 0 THEN KoraDBQueryJSON(d, name, literal)
                                   ELSE KoraDBQueryPageJSON(d, name, literal, size)

\* The role of a key created on the command line, and as a list shows it.
embeddedCreateKey(text) == ParseRole(text)
remoteCreateKey(text)   == fromPBRole(roleToWire(text))

embeddedListKeys(role) == RoleString(role)
remoteListKeys(role)   == roleFromWire(toPBRole(role))
------------------------------------------------------------------------------
(* One command, given to every way in.                                       *)

NewDatabase == [docs |-> << >>, seq |-> 0]

Init ==
  /\ kind \in Kinds
  /\ db = [f \in Fronts |-> NewDatabase]
  /\ present = {}

cmdInsert(v) ==
  /\ Cardinality(present) < MaxDocs
  /\ \A f \in Fronts : db[f].seq < MaxDocs
  /\ db' = [f \in Fronts |-> Insert(db[f], v).db]
  /\ present' = present \cup (CASE kind = "auto" -> {db["sdk"].seq + 1}
                                [] kind = "string" -> {v} \ {Empty} [] OTHER -> {v})
  /\ UNCHANGED kind

\* What an id means: the number, truth value or string it spells, if it is one.
Meant(id) ==
  IF kind = "auto" THEN ParseUint(id, Half64) ELSE scalarValueFromString(kind, id)

cmdDelete(id) ==
  /\ db' = [f \in Fronts |-> IF Accepts(f, id) THEN Delete(db[f], id).db ELSE db[f]]
  /\ present' = IF Meant(id).ok THEN present \ {Meant(id).v} ELSE present
  /\ UNCHANGED kind

Next ==
  \/ \E v \in Values(kind) : cmdInsert(v)
  \/ \E id \in Texts : cmdDelete(id)

Spec == Init /\ [][Next]_vars
------------------------------------------------------------------------------
(* Properties.                                                               *)

\* The same commands work either way (backend.go:21-23): every way in stores
\* the same documents and keys and gives the same answers, errors included.
\* Over the wire a page is at most the server's limit and a role is written
\* plainly; the libraries know the operators' words; C passes no empty text.
SameEitherWay ==
  LET D == db["embedded"]
      Same(f, ans, expected) == Report(f, ans) = expected
      Speaks(f, name, size) == /\ f \in {"sdk", "native"} => name \in Ops
                               /\ f = "remote" => size <= Limit
  IN  /\ \A f \in Fronts : db[f].docs = D.docs /\ db[f].seq = D.seq
      /\ \A text \in {r \in RoleTexts : r.plain} :
           LET role == embeddedCreateKey(text)
           IN  /\ remoteCreateKey(text) = role
               /\ remoteListKeys(role) = embeddedListKeys(role)
      /\ \A v \in Values(kind) : LET e == Insert(D, v).ans
                                IN  \A f \in Fronts : Same(f, Insert(db[f], v).ans, e)
      /\ \A f \in Fronts : \A id \in {t \in Texts : Accepts(f, t)} :
           /\ Same(f, Get(db[f], id), Get(D, id))
           /\ Same(f, Delete(db[f], id).ans, Delete(D, id).ans)
           /\ \A v \in {D.docs[k] : k \in DOMAIN D.docs} :
                Same(f, Update(db[f], id, v), Update(D, id, v))
      /\ kind # "auto" =>
           \A name \in Names, lit \in Texts, size \in Sizes :
             LET e == Query("embedded", D, name, lit, size)
             IN  \A f \in Fronts : Accepts(f, lit) /\ Speaks(f, name, size) =>
                                    Query(f, db[f], name, lit, size) = e

\* An id finds the document whose key it means, however it is spelled, and no
\* other: "+3", "03" and "3" are one int64, "1" and "true" one bool, and each
\* its own string.  An id that means no value of the key's type is refused
\* (engine.go:466-509).
IdsDenote ==
  \A id \in Texts :
    LET got == Get(db["embedded"], id)
    IN  /\ got.ok <=> Meant(id).ok /\ Meant(id).v \in present
        /\ got.ok /\ kind # "auto" => got.v = Meant(id).v
        /\ ~Meant(id).ok => got = Invalid

\* The id in a query's result is the one Insert gave, and Get, Update and
\* Delete take it back to the same document (engine.go:511-513, values.go:10-14).
IdsUsable ==
  \A k \in DOMAIN db["embedded"].docs :
    LET id  == IDFromStorageKey(kind, k)
        doc == db["embedded"].docs[k]
    IN  /\ encodeKey(kind, id) = Ok(k)
        /\ Get(db["embedded"], id) = Ok(doc)
        /\ Update(db["embedded"], id, doc).ok
        /\ k \notin DOMAIN Delete(db["embedded"], id).db.docs
        /\ kind # "auto" => id = idStringFromValue(kind, doc)

\* A literal in a query is typed as an id is parsed: asking for the documents
\* whose key equals it finds the one Get finds (values.go:37-40).
LiteralsAgree ==
  kind # "auto" /\ present # {} =>
    \A t \in Texts :
      LET got  == Get(db["embedded"], t)
          page == ExecutePage(db["embedded"], "eq", t, MaxDocs)
      IN  CASE got.ok -> page.ok /\ page.v.ids = <<idStringFromValue(kind, got.v)>>
            [] got = Fail("ErrNotFound") -> page.ok /\ page.v.ids = << >>
            [] OTHER -> ~page.ok

\* Index entries sort as the values compare, across the sign (index.go:61-64, 85).
OrderKept ==
  kind # "auto" =>
    \A v, w \in Values(kind) :
      cmp(EncodeValue(kind, v), EncodeValue(kind, w)) = CompareValues(kind, v, w)
==============================================================================
