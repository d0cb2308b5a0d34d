---------------------------- MODULE BackendsProofs ----------------------------
(***************************************************************************)
(* Ids, keys and index entries, for integers of any width, any strings and *)
(* any commands.                                                           *)
(***************************************************************************)
EXTENDS Backends, FiniteSetTheorems, TLAPS

\* First-order steps; those that need arithmetic, records or functions name SMT.
USE Zenon

LEMMA Widths ==
  ASSUME NEW k
  PROVE  /\ Half64 \in Nat /\ Half(k) \in Nat /\ Half(k) <= Half64
         /\ k = "auto" => Half(k) = Half64
  BY WidthAssumption, SMT DEF Half

LEMMA ValuesByKind ==
  /\ \A k \in Signed : Values(k) = -Half(k) .. Half(k) - 1
  /\ \A k \in Unsigned : Values(k) = 0 .. 2 * Half(k) - 1
  /\ Values("bool") = BOOLEAN
  BY DEF Values, Signed, Unsigned

\* strconv.FormatInt is undone by ParseInt and, for naturals, by ParseUint.
LEMMA NotNumerals ==
  ASSUME NEW sign, NEW n
  PROVE  Word("true") # Numeral(sign, FALSE, n) /\ Word("false") # Numeral(sign, FALSE, n)
  BY DEF Word, Numeral

LEMMA FormatNatural ==
  ASSUME NEW n \in Nat
  PROVE  FormatInt(n).word = "numeral" /\ FormatInt(n).sign = "" /\ FormatInt(n).mag = n
  <1>1. ~ (n < 0)
    BY SMT
  <1> DEFINE e == ""
  <1>2. FormatInt(n) = Numeral(e, FALSE, n)
    BY <1>1, Zenon DEF FormatInt
  <1> HIDE DEF e
  <1>3. FormatInt(n).word = "numeral" /\ FormatInt(n).sign = e /\ FormatInt(n).mag = n
    BY <1>2, SMT DEF Numeral
  <1>4. QED
    BY <1>3, Zenon DEF e

LEMMA FormatNegative ==
  ASSUME NEW n \in Int, n < 0
  PROVE  FormatInt(n).word = "numeral" /\ FormatInt(n).sign = "-" /\ FormatInt(n).mag = -n
  <1>1. FormatInt(n) = Numeral("-", FALSE, -n)
    BY Zenon DEF FormatInt
  <1>2. QED
    BY <1>1, SMT DEF Numeral

LEMMA FormatParseInt ==
  ASSUME NEW h \in Nat, NEW n \in -h .. h - 1
  PROVE  ParseInt(FormatInt(n), h) = Ok(n)
  <1>1. CASE n < 0
    BY <1>1, FormatNegative, SMT DEF ParseInt
  <1>2. CASE n >= 0
    <2>1. FormatInt(n).word = "numeral" /\ FormatInt(n).sign = "" /\ FormatInt(n).mag = n
      <3>1. n \in Nat
        BY <1>2, SMT
      <3>2. QED
        BY <3>1, FormatNatural
    <2>2. QED
      BY <2>1 DEF ParseInt
  <1>3. QED
    BY <1>1, <1>2, SMT

LEMMA FormatParseUint ==
  ASSUME NEW h \in Nat, NEW n \in 0 .. 2 * h - 1
  PROVE  ParseUint(FormatInt(n), h) = Ok(n)
  <1>1. FormatInt(n).word = "numeral" /\ FormatInt(n).sign = "" /\ FormatInt(n).mag = n
    <2>1. n \in Nat
      BY SMT
    <2>2. QED
      BY <2>1, FormatNatural
  <1>2. n < 2 * h
    BY SMT
  <1>3. QED
    BY <1>1, <1>2, Zenon DEF ParseUint

LEMMA FormatParseBool ==
  ASSUME NEW b \in BOOLEAN
  PROVE  ParseBool(FormatBool(b)) = Ok(b)
  <1>1. CASE b = TRUE
    <2>1. FormatBool(b) = Word("true")
      BY <1>1 DEF FormatBool
    <2>2. Word("true").word = "true"
      BY DEF Word
    <2>3. ParseBool(Word("true")) = Ok(TRUE)
      <3> DEFINE w == Word("true")
                 C == w = Numeral("", FALSE, 1) \/ w.word \in {"true", "True", "TRUE", "t", "T"}
                 D == w = Numeral("", FALSE, 0) \/ w.word \in {"false", "False", "FALSE", "f", "F"}
      <3>1. C /\ ~ D
        <4>1. w # Numeral("", FALSE, 0)
          BY NotNumerals, Zenon
        <4>2. w.word \in {"true", "True", "TRUE", "t", "T"}
              /\ w.word \notin {"false", "False", "FALSE", "f", "F"}
          BY <2>2
        <4>3. QED
          BY <4>1, <4>2, Zenon
      <3>2. ParseBool(w) = CASE C -> Ok(TRUE) [] D -> Ok(FALSE) [] OTHER -> Bad
        BY Zenon DEF ParseBool
      <3> HIDE DEF C, D
      <3>3. QED
        BY <3>1, <3>2, Zenon
    <2>4. QED
      BY <1>1, <2>1, <2>3, Zenon
  <1>2. CASE b = FALSE
    <2>1. FormatBool(b) = Word("false")
      BY <1>2 DEF FormatBool
    <2>2. Word("false").word = "false"
      BY DEF Word
    <2>3. Word("false") # Numeral("", FALSE, 1)
      BY NotNumerals, Zenon
    <2>4. ParseBool(Word("false")) = Ok(FALSE)
      <3> DEFINE w == Word("false")
                 C == w = Numeral("", FALSE, 1) \/ w.word \in {"true", "True", "TRUE", "t", "T"}
                 D == w = Numeral("", FALSE, 0) \/ w.word \in {"false", "False", "FALSE", "f", "F"}
      <3>1. ~ C /\ D
        <4>1. w.word \notin {"true", "True", "TRUE", "t", "T"}
              /\ w.word \in {"false", "False", "FALSE", "f", "F"}
          BY <2>2
        <4>2. QED
          BY <2>3, <4>1
      <3>2. ParseBool(w) = CASE C -> Ok(TRUE) [] D -> Ok(FALSE) [] OTHER -> Bad
        BY DEF ParseBool
      <3> HIDE DEF C, D
      <3>3. QED
        BY <3>1, <3>2
    <2>5. QED
      BY <1>2, <2>1, <2>4
  <1>3. QED
    BY <1>1, <1>2

\* Go's conversions undo each other.
LEMMA ConversionsInverse ==
  ASSUME NEW n \in -Half64 .. Half64 - 1
  PROVE  int64(uint64(n)) = n /\ uint64(n) \in 0 .. 2 * Half64 - 1
  BY WidthAssumption, SMT DEF int64, uint64

LEMMA OkFacts ==
  ASSUME NEW v
  PROVE  Ok(v).ok /\ Ok(v).v = v
  BY DEF Ok

\* The key of a value's id, and the id of that key.
LEMMA RoundTrip ==
  ASSUME NEW k \in Kinds \ {"auto"}, NEW v \in Values(k)
  PROVE  /\ encodeKey(k, idStringFromValue(k, v)).ok
         /\ encodeKey(k, idStringFromValue(k, v)) = Ok(encodeKey(k, idStringFromValue(k, v)).v)
         /\ IDFromStorageKey(k, encodeKey(k, idStringFromValue(k, v)).v) = idStringFromValue(k, v)
  <1>1. CASE k \in Signed
    <2>1. v \in -Half(k) .. Half(k) - 1 /\ v \in -Half64 .. Half64 - 1 /\ v \in Int
      BY <1>1, ValuesByKind, Widths, SMT
    <2>2. idStringFromValue(k, v) = FormatInt(v)
      BY <1>1 DEF idStringFromValue, Signed
    <2>3. ParseInt(FormatInt(v), Half(k)) = Ok(v)
      BY <2>1, Widths, FormatParseInt
    <2>4. encodeKey(k, FormatInt(v)) = Ok(uint64(v))
      BY <1>1, <2>3, OkFacts DEF encodeKey, Signed, Unsigned
    <2>5. IDFromStorageKey(k, uint64(v)) = FormatInt(v)
      BY <1>1, <2>1, ConversionsInverse DEF IDFromStorageKey, Signed, Unsigned
    <2>6. QED
      BY <2>2, <2>4, <2>5, OkFacts, SMT
  <1>2. CASE k \in Unsigned
    <2>1. v \in 0 .. 2 * Half(k) - 1
      BY <1>2, ValuesByKind
    <2>2. idStringFromValue(k, v) = FormatInt(v)
      BY <1>2 DEF idStringFromValue, Signed, Unsigned
    <2>3. encodeKey(k, FormatInt(v)) = Ok(v)
      BY <1>2, <2>1, Widths, FormatParseUint DEF encodeKey, Signed, Unsigned
    <2>4. IDFromStorageKey(k, v) = FormatInt(v)
      BY <1>2 DEF IDFromStorageKey, Signed, Unsigned
    <2>5. QED
      BY <2>2, <2>3, <2>4, OkFacts, SMT
  <1>3. CASE k = "bool"
    <2>1. v \in BOOLEAN
      BY <1>3, ValuesByKind
    <2>2. idStringFromValue(k, v) = FormatBool(v)
      BY <1>3 DEF idStringFromValue, Signed, Unsigned
    <2>3. encodeKey(k, FormatBool(v)) = Ok(FormatBool(v))
      <3> DEFINE b == ParseBool(FormatBool(v))
      <3>1. b = Ok(v) /\ b.ok /\ b.v = v
        BY <2>1, FormatParseBool, OkFacts, Zenon
      <3>2. encodeKey(k, FormatBool(v)) = IF b.ok THEN Ok(FormatBool(b.v)) ELSE Bad
        BY <1>3 DEF encodeKey, Signed, Unsigned
      <3> HIDE DEF b
      <3>3. QED
        BY <3>1, <3>2, Zenon
    <2>4. IDFromStorageKey(k, FormatBool(v)) = FormatBool(v)
      BY <1>3 DEF IDFromStorageKey, Signed, Unsigned
    <2>5. QED
      BY <2>2, <2>3, <2>4, OkFacts, SMT
  <1>4. CASE k = "string"
    <2>1. idStringFromValue(k, v) = v
      BY <1>4 DEF idStringFromValue, Signed, Unsigned
    <2>2. encodeKey(k, v) = Ok(v)
      BY <1>4 DEF encodeKey, Signed, Unsigned
    <2>3. IDFromStorageKey(k, v) = v
      BY <1>4 DEF IDFromStorageKey, Signed, Unsigned
    <2>4. QED
      BY <2>1, <2>2, <2>3, OkFacts
  <1>5. QED
    BY <1>1, <1>2, <1>3, <1>4, SMT DEF Kinds

-------------------------------------------------------------------------------
\* Index entries compare as the values do.
LEMMA EncodingOrdered ==
  ASSUME NEW k \in Kinds \ {"auto"}, NEW v \in Values(k), NEW w \in Values(k)
  PROVE  cmp(EncodeValue(k, v), EncodeValue(k, w)) = CompareValues(k, v, w)
  <1>1. CASE k \in Signed
    <2>1. v \in -Half64 .. Half64 - 1 /\ w \in -Half64 .. Half64 - 1 /\ Half64 \in Nat
      BY <1>1, ValuesByKind, Widths, SMT
    <2>2. FlipSign(uint64(v)) = v + Half64 /\ FlipSign(uint64(w)) = w + Half64
      BY <2>1, SMT DEF FlipSign, uint64
    <2>3. EncodeValue(k, v) = v + Half64 /\ EncodeValue(k, w) = w + Half64
      BY <1>1, <2>2 DEF EncodeValue, Signed, Unsigned
    <2>4. CompareValues(k, v, w) = cmp(v, w)
      BY <1>1 DEF CompareValues, Signed, Unsigned
    <2>5. QED
      BY <2>1, <2>3, <2>4, SMT DEF cmp
  <1>2. CASE k \in Unsigned
    BY <1>2 DEF EncodeValue, CompareValues, Signed, Unsigned
  <1>3. CASE k = "bool"
    BY <1>3 DEF EncodeValue, CompareValues, Signed, Unsigned
  <1>4. CASE k = "string"
    BY <1>4 DEF EncodeValue, CompareValues, Signed, Unsigned
  <1>5. QED
    BY <1>1, <1>2, <1>3, <1>4, SMT DEF Kinds

\* Index entries sort as the values compare, whatever the width of the
\* integers and whatever the strings (index.go, EncodeValue).
THEOREM IndexOrdered == Spec => []OrderKept
  <1>1. Init => kind \in Kinds
    BY DEF Init
  <1>2. kind \in Kinds /\ [Next]_vars => (kind \in Kinds)'
    BY DEF Next, vars, cmdInsert, cmdDelete
  <1>3. kind \in Kinds => OrderKept
    BY EncodingOrdered DEF OrderKept
  <1>4. QED
    BY <1>1, <1>2, <1>3, PTL DEF Spec

-------------------------------------------------------------------------------
\* A database: the sequence is within its bound, and every document is stored
\* under the key of its id, or of a number the sequence has given.
DatabaseOK(d) ==
  /\ d = [docs |-> d.docs, seq |-> d.seq] /\ d.seq \in 0 .. MaxDocs
  /\ \A k \in DOMAIN d.docs :
       IF kind = "auto" THEN k \in 1 .. d.seq
       ELSE /\ d.docs[k] \in Values(kind)
            /\ encodeKey(kind, idStringFromValue(kind, d.docs[k])) = Ok(k)

BInv == kind \in Kinds /\ DatabaseOK(db["embedded"])

LEMMA InsertKeeps ==
  ASSUME kind \in Kinds, NEW d, DatabaseOK(d), d.seq < MaxDocs, NEW v \in Values(kind)
  PROVE  DatabaseOK(Insert(d, v).db)
  <1> DEFINE key == deriveKey(d, v)
             docs == [k \in DOMAIN d.docs \cup {key.v} |-> IF k = key.v THEN v ELSE d.docs[k]]
             seq == IF kind = "auto" THEN d.seq + 1 ELSE d.seq
             new == [docs |-> docs, seq |-> seq]
  <1>1. Insert(d, v).db = d \/ Insert(d, v).db = new
    BY DEF Insert, DatabaseOK
  <1>2. CASE kind = "auto"
    <2>1. key.v = d.seq + 1 /\ seq = d.seq + 1 /\ d.seq + 1 \in 0 .. MaxDocs
      BY <1>2, OkFacts, BackendsAssumption, SMT DEF deriveKey, DatabaseOK
    <2>2. \A k \in DOMAIN docs : k \in 1 .. seq
      BY <1>2, <2>1, SMT DEF DatabaseOK
    <2>3. DatabaseOK(new)
      BY <1>2, <2>1, <2>2 DEF DatabaseOK
    <2>4. QED
      BY <1>1, <2>3
  <1>3. CASE kind # "auto"
    <2>1. key = encodeKey(kind, idStringFromValue(kind, v)) /\ seq = d.seq
      BY <1>3 DEF deriveKey
    <2>2. key = Ok(key.v)
      BY <1>3, <2>1, RoundTrip, SMT
    <2> HIDE DEF key
    <2>3. \A k \in DOMAIN docs : /\ docs[k] \in Values(kind)
                                 /\ encodeKey(kind, idStringFromValue(kind, docs[k])) = Ok(k)
      BY <1>3, <2>1, <2>2 DEF DatabaseOK
    <2> HIDE DEF docs, seq
    <2>4. DatabaseOK(new)
      BY <1>3, <2>1, <2>3 DEF DatabaseOK
    <2>5. QED
      BY <1>1, <2>4
  <1>4. QED
    BY <1>2, <1>3

LEMMA DeleteKeeps ==
  ASSUME NEW d, DatabaseOK(d), NEW id
  PROVE  DatabaseOK(Delete(d, id).db)
  <1> DEFINE key == encodeKey(kind, id)
             docs == [k \in DOMAIN d.docs \ {key.v} |-> d.docs[k]]
             new == [docs |-> docs, seq |-> d.seq]
  <1>1. Delete(d, id).db = d \/ Delete(d, id).db = new
    BY DEF Delete, DatabaseOK
  <1> HIDE DEF key
  <1>2. DatabaseOK(new)
    BY DEF DatabaseOK
  <1>3. QED
    BY <1>1, <1>2

LEMMA BInvInductive ==
  BInv /\ [Next]_vars => BInv'
  <1> SUFFICES ASSUME BInv, [Next]_vars PROVE BInv'
    OBVIOUS
  <1>1. kind' = kind
    BY DEF Next, vars, cmdInsert, cmdDelete
  <1>2. DatabaseOK(db'["embedded"])
    <2>1. CASE UNCHANGED vars
      BY <2>1 DEF vars, BInv
    <2>2. ASSUME NEW v \in Values(kind), cmdInsert(v)
          PROVE  DatabaseOK(db'["embedded"])
      <3>1. db["embedded"].seq < MaxDocs /\ db'["embedded"] = Insert(db["embedded"], v).db
        BY <2>2 DEF cmdInsert, Fronts
      <3>2. QED
        BY <3>1, InsertKeeps DEF BInv
    <2>3. ASSUME NEW id \in Texts, cmdDelete(id)
          PROVE  DatabaseOK(db'["embedded"])
      <3>1. db'["embedded"] = Delete(db["embedded"], id).db
        BY <2>3 DEF cmdDelete, Fronts, Accepts
      <3>2. QED
        BY <3>1, DeleteKeeps DEF BInv
    <2>4. QED
      BY <2>1, <2>2, <2>3 DEF Next
  <1>3. QED
    BY <1>1, <1>2 DEF BInv, DatabaseOK

LEMMA BInvInit ==
  Init => BInv
  BY BackendsAssumption, SMT DEF Init, BInv, DatabaseOK, NewDatabase, Fronts

\* What the id of a stored key does.
LEMMA IdsWork ==
  ASSUME BInv, NEW k \in DOMAIN db["embedded"].docs
  PROVE  LET id == IDFromStorageKey(kind, k)
             doc == db["embedded"].docs[k]
         IN  /\ encodeKey(kind, id) = Ok(k)
             /\ kind # "auto" => id = idStringFromValue(kind, doc)
  <1>1. CASE kind = "auto"
    <2>1. k \in 0 .. 2 * Half64 - 1
      BY <1>1, BackendsAssumption, WidthAssumption, SMT DEF BInv, DatabaseOK
    <2>2. IDFromStorageKey(kind, k) = FormatInt(k)
      BY <1>1 DEF IDFromStorageKey, Signed, Unsigned
    <2>3. encodeKey(kind, FormatInt(k)) = ParseUint(FormatInt(k), Half64)
      BY <1>1, Widths DEF encodeKey, Signed, Unsigned
    <2>4. QED
      BY <1>1, <2>1, <2>2, <2>3, FormatParseUint, WidthAssumption
  <1>2. CASE kind # "auto"
    <2> DEFINE v == db["embedded"].docs[k]
    <2>1. v \in Values(kind) /\ encodeKey(kind, idStringFromValue(kind, v)) = Ok(k)
          /\ kind \in Kinds \ {"auto"}
      BY <1>2 DEF BInv, DatabaseOK
    <2>2. IDFromStorageKey(kind, k) = idStringFromValue(kind, v)
      BY <2>1, RoundTrip, OkFacts, SMT
    <2>3. QED
      BY <1>2, <2>1, <2>2
  <1>3. QED
    BY <1>1, <1>2

\* The id in a query's result leads Get, Update and Delete back to the document
\* it was made for, whatever the width of the integers, the strings and the
\* commands before (engine.go, encodeKey and IDFromStorageKey).
THEOREM IdsStayUsable == Spec => []IdsUsable
  <1>1. ASSUME BInv PROVE IdsUsable
    <2> SUFFICES ASSUME NEW k \in DOMAIN db["embedded"].docs
                 PROVE  LET id  == IDFromStorageKey(kind, k)
                            doc == db["embedded"].docs[k]
                        IN  /\ encodeKey(kind, id) = Ok(k)
                            /\ Get(db["embedded"], id) = Ok(doc)
                            /\ Update(db["embedded"], id, doc).ok
                            /\ k \notin DOMAIN Delete(db["embedded"], id).db.docs
                            /\ kind # "auto" => id = idStringFromValue(kind, doc)
      BY DEF IdsUsable
    <2> DEFINE d == db["embedded"]
               id == IDFromStorageKey(kind, k)
               doc == d.docs[k]
    <2>1. encodeKey(kind, id) = Ok(k) /\ (kind # "auto" => id = idStringFromValue(kind, doc))
      BY <1>1, IdsWork
    <2>2. DatabaseOK(d) /\ k \in DOMAIN d.docs
      BY <1>1 DEF BInv
    <2> HIDE DEF id, d
    <2>3. Get(d, id) = Ok(doc)
      BY <2>1, <2>2, OkFacts DEF Get
    <2>4. Update(d, id, doc).ok
      BY <2>1, <2>2, OkFacts, SMT DEF Update, deriveKey
    <2>5. k \notin DOMAIN Delete(d, id).db.docs
      BY <2>1, <2>2, OkFacts DEF Delete, DatabaseOK
    <2>6. QED
      BY <2>1, <2>3, <2>4, <2>5 DEF id, d
  <1>2. QED
    BY <1>1, BInvInit, BInvInductive, PTL DEF Spec

-------------------------------------------------------------------------------
(* What ids mean.                                                          *)

\* The key a value is stored under, in a collection of kind k.
KeyOf(k, v) ==
  CASE k \in Signed -> uint64(v)
    [] k = "bool" -> FormatBool(v)
    [] OTHER -> v

\* The values such a collection may hold; sequence numbers for generated keys.
Held(k) == IF k = "auto" THEN Nat ELSE Values(k)

\* The documents of database d are those of the values.
Denotes(k, d, values) ==
  /\ d.docs = [j \in DOMAIN d.docs |-> d.docs[j]]
  /\ DOMAIN d.docs = {KeyOf(k, v) : v \in values}
  /\ k # "auto" => \A v \in values : d.docs[KeyOf(k, v)] = v

\* Every way in has the same database, which holds the values in present.
DInv ==
  /\ BInv
  /\ \A f \in Fronts : db[f] = db["embedded"]
  /\ present \subseteq Held(kind)
  /\ kind = "string" => Empty \notin present
  /\ present # {} => MaxDocs > 0
  /\ Denotes(kind, db["embedded"], present)

LEMMA BadFacts == ~Bad.ok
  BY SMT DEF Bad

\* An id that means a value leads to that value's key; any other is refused.
LEMMA Parsed ==
  ASSUME kind \in Kinds, NEW id, id.mag \in Nat, kind = "string" => id \in Texts
  PROVE  \/ Meant(id) = Bad /\ encodeKey(kind, id) = Bad
         \/ \E v \in Held(kind) : Meant(id) = Ok(v) /\ encodeKey(kind, id) = Ok(KeyOf(kind, v))
  <1>1. CASE kind \in Signed
    <2>1. Meant(id) = ParseInt(id, Half(kind)) /\ Held(kind) = -Half(kind) .. Half(kind) - 1
      BY <1>1, ValuesByKind, SMT DEF Meant, scalarValueFromString, Held, Signed, Unsigned
    <2>2. encodeKey(kind, id) = IF ParseInt(id, Half(kind)).ok
                                THEN Ok(uint64(ParseInt(id, Half(kind)).v)) ELSE Bad
      BY <1>1, SMT DEF encodeKey, Signed, Unsigned
    <2>3. \/ ParseInt(id, Half(kind)) = Bad
          \/ \E n \in -Half(kind) .. Half(kind) - 1 : ParseInt(id, Half(kind)) = Ok(n)
      BY DEF ParseInt
    <2>4. \A v : KeyOf(kind, v) = uint64(v)
      BY <1>1, SMT DEF KeyOf, Signed
    <2>5. QED
      BY <2>1, <2>2, <2>3, <2>4, BadFacts, OkFacts
  <1>2. CASE kind \in Unsigned \cup {"auto"}
    <2>1. Meant(id) = ParseUint(id, Half(kind)) /\ encodeKey(kind, id) = ParseUint(id, Half(kind))
      BY <1>2, Widths, SMT DEF Meant, scalarValueFromString, encodeKey, Signed, Unsigned
    <2>2. 0 .. 2 * Half(kind) - 1 \subseteq Held(kind)
      <3>1. CASE kind \in Unsigned
        BY <3>1, ValuesByKind DEF Held, Unsigned
      <3>2. CASE kind = "auto"
        <4>1. 0 .. 2 * Half(kind) - 1 \subseteq Nat
          BY SMT
        <4>2. QED
          BY <3>2, <4>1 DEF Held
      <3>3. QED
        BY <1>2, <3>1, <3>2
    <2>3. \/ ParseUint(id, Half(kind)) = Bad
          \/ \E n \in 0 .. 2 * Half(kind) - 1 : ParseUint(id, Half(kind)) = Ok(n)
      <3>1. id.mag < 2 * Half(kind) => id.mag \in 0 .. 2 * Half(kind) - 1
        BY Widths, SMT
      <3>2. QED
        BY <3>1 DEF ParseUint
    <2>4. \A v : KeyOf(kind, v) = v
      BY <1>2, SMT DEF KeyOf, Signed, Unsigned
    <2>5. QED
      BY <2>1, <2>2, <2>3, <2>4
  <1>3. CASE kind = "bool"
    <2>1. Meant(id) = ParseBool(id) /\ Held(kind) = BOOLEAN
      BY <1>3, ValuesByKind, SMT DEF Meant, scalarValueFromString, Held, Signed, Unsigned
    <2>2. encodeKey(kind, id) = IF ParseBool(id).ok THEN Ok(FormatBool(ParseBool(id).v)) ELSE Bad
      BY <1>3, SMT DEF encodeKey, Signed, Unsigned
    <2>3. ParseBool(id) = Bad \/ ParseBool(id) = Ok(TRUE) \/ ParseBool(id) = Ok(FALSE)
      <3> DEFINE C == id = Numeral("", FALSE, 1) \/ id.word \in {"true", "True", "TRUE", "t", "T"}
                 D == id = Numeral("", FALSE, 0) \/ id.word \in {"false", "False", "FALSE", "f", "F"}
      <3>1. ParseBool(id) = CASE C -> Ok(TRUE) [] D -> Ok(FALSE) [] OTHER -> Bad
        BY DEF ParseBool
      <3> HIDE DEF C, D
      <3>2. QED
        BY <3>1
    <2>4. \A v : KeyOf(kind, v) = FormatBool(v)
      BY <1>3, SMT DEF KeyOf, Signed
    <2>5. QED
      BY <2>1, <2>2, <2>3, <2>4, BadFacts, OkFacts
  <1>4. CASE kind = "string"
    <2>1. Meant(id) = Ok(id) /\ encodeKey(kind, id) = Ok(id) /\ Held(kind) = Texts
      BY <1>4, SMT DEF Meant, scalarValueFromString, encodeKey, Held, Values, Signed, Unsigned
    <2>2. KeyOf(kind, id) = id
      BY <1>4, SMT DEF KeyOf, Signed
    <2>3. QED
      BY <1>4, <2>1, <2>2
  <1>5. QED
    BY <1>1, <1>2, <1>3, <1>4 DEF Kinds

\* Two values have two keys.
LEMMA KeysDiffer ==
  ASSUME kind \in Kinds, NEW v \in Held(kind), NEW w \in Held(kind), KeyOf(kind, v) = KeyOf(kind, w)
  PROVE  v = w
  <1>1. CASE kind \in Signed
    <2>1. v \in -Half64 .. Half64 - 1 /\ w \in -Half64 .. Half64 - 1
      BY <1>1, ValuesByKind, Widths, SMT DEF Held, Signed
    <2>2. uint64(v) = uint64(w)
      BY <1>1, SMT DEF KeyOf, Signed
    <2>3. QED
      BY <2>1, <2>2, ConversionsInverse
  <1>2. CASE kind = "bool"
    <2>1. v \in BOOLEAN /\ w \in BOOLEAN /\ FormatBool(v) = FormatBool(w)
      BY <1>2, ValuesByKind, SMT DEF Held, KeyOf, Signed
    <2>2. Ok(v) = Ok(w)
      BY <2>1, FormatParseBool
    <2>3. Ok(v).v = v /\ Ok(w).v = w
      BY SMT DEF Ok
    <2>4. QED
      BY <2>2, <2>3
  <1>3. CASE kind \in Unsigned \cup {"auto", "string"}
    BY <1>3, SMT DEF KeyOf, Signed, Unsigned
  <1>4. QED
    BY <1>1, <1>2, <1>3 DEF Kinds

\* The key Insert derives.
LEMMA Derived ==
  ASSUME kind \in Kinds \ {"auto"}, NEW v \in Values(kind), NEW d
  PROVE  deriveKey(d, v) = Ok(KeyOf(kind, v))
  <1>1. deriveKey(d, v) = encodeKey(kind, idStringFromValue(kind, v))
    BY DEF deriveKey
  <1>2. CASE kind \in Signed
    <2>1. v \in -Half(kind) .. Half(kind) - 1
      BY <1>2, ValuesByKind
    <2>2. ParseInt(FormatInt(v), Half(kind)) = Ok(v)
      BY <2>1, Widths, FormatParseInt
    <2>3. QED
      BY <1>1, <1>2, <2>2, OkFacts, SMT DEF encodeKey, idStringFromValue, KeyOf, Signed, Unsigned
  <1>3. CASE kind \in Unsigned
    <2>1. v \in 0 .. 2 * Half(kind) - 1
      BY <1>3, ValuesByKind
    <2>2. ParseUint(FormatInt(v), Half(kind)) = Ok(v)
      BY <2>1, Widths, FormatParseUint
    <2>3. QED
      BY <1>1, <1>3, <2>2, SMT DEF encodeKey, idStringFromValue, KeyOf, Signed, Unsigned
  <1>4. CASE kind = "bool"
    <2>1. v \in BOOLEAN
      BY <1>4, ValuesByKind
    <2>2. ParseBool(FormatBool(v)) = Ok(v)
      BY <2>1, FormatParseBool
    <2>3. QED
      BY <1>1, <1>4, <2>2, OkFacts, SMT DEF encodeKey, idStringFromValue, KeyOf, Signed, Unsigned
  <1>5. CASE kind = "string"
    BY <1>1, <1>5, SMT DEF encodeKey, idStringFromValue, KeyOf, Signed, Unsigned
  <1>6. QED
    BY <1>2, <1>3, <1>4, <1>5 DEF Kinds

\* Database d with value v under key j.
Put(d, j, v) ==
  [docs |-> [k \in DOMAIN d.docs \cup {j} |-> IF k = j THEN v ELSE d.docs[k]],
   seq  |-> IF kind = "auto" THEN d.seq + 1 ELSE d.seq]

Drop(d, j) == [docs |-> [k \in DOMAIN d.docs \ {j} |-> d.docs[k]], seq |-> d.seq]

\* The database after an insert.
LEMMA InsertDb ==
  ASSUME NEW d, d = [docs |-> d.docs, seq |-> d.seq], NEW v, NEW j, deriveKey(d, v) = Ok(j)
  PROVE  /\ j \in DOMAIN d.docs => Insert(d, v).db = d
         /\ kind = "string" /\ v = Empty => Insert(d, v).db = d
         /\ j \notin DOMAIN d.docs /\ ~(kind = "string" /\ v = Empty) =>
              Insert(d, v).db = Put(d, j, v)
  <1>1. deriveKey(d, v).ok /\ deriveKey(d, v).v = j
    BY OkFacts
  <1>2. CASE j \in DOMAIN d.docs \/ (kind = "string" /\ v = Empty)
    BY <1>1, <1>2, SMT DEF Insert
  <1>3. CASE j \notin DOMAIN d.docs /\ ~(kind = "string" /\ v = Empty)
    <2> DEFINE key == deriveKey(d, v)
               ans == IF kind = "auto" THEN FormatInt(key.v) ELSE idStringFromValue(kind, v)
               new == [docs |-> [k \in DOMAIN d.docs \cup {key.v} |-> IF k = key.v THEN v ELSE d.docs[k]],
                       seq  |-> IF kind = "auto" THEN d.seq + 1 ELSE d.seq]
    <2>1. Insert(d, v) = [ans |-> Ok(ans), db |-> new]
      <3> HIDE DEF ans, new
      <3> QED BY <1>1, <1>3 DEF Insert, ans, new
    <2>2. Insert(d, v).db = new
      <3> HIDE DEF ans, new
      <3> QED BY <2>1, SMT
    <2>3. QED
      BY <1>1, <1>3, <2>2 DEF Put
  <1>4. QED
    BY <1>2, <1>3

\* The database after a delete.
LEMMA DeleteDb ==
  ASSUME NEW d, d = [docs |-> d.docs, seq |-> d.seq], NEW id
  PROVE  /\ encodeKey(kind, id) = Bad => Delete(d, id).db = d
         /\ \A j : encodeKey(kind, id) = Ok(j) => Delete(d, id).db = Drop(d, j)
  <1>1. ASSUME encodeKey(kind, id) = Bad  PROVE Delete(d, id).db = d
    BY <1>1, BadFacts, SMT DEF Delete
  <1>2. ASSUME NEW j, encodeKey(kind, id) = Ok(j)  PROVE Delete(d, id).db = Drop(d, j)
    <2>1. encodeKey(kind, id).ok /\ encodeKey(kind, id).v = j
      BY <1>2, OkFacts
    <2>2. QED
      BY <2>1, SMT DEF Delete, Drop
  <1>3. QED
    BY <1>1, <1>2

\* A new value's document joins the others.
LEMMA PutDenotes ==
  ASSUME NEW k \in Kinds, NEW d, NEW values \in SUBSET Held(k), Denotes(k, d, values),
         NEW w \in Held(k), KeyOf(k, w) \notin DOMAIN d.docs, NEW v, k # "auto" => v = w
  PROVE  Denotes(k, Put(d, KeyOf(k, w), v), values \cup {w})
  <1> DEFINE j == KeyOf(k, w)
             docs == [i \in DOMAIN d.docs \cup {j} |-> IF i = j THEN v ELSE d.docs[i]]
  <1>1. Put(d, j, v).docs = docs
    BY SMT DEF Put
  <1>2. DOMAIN docs = {KeyOf(k, x) : x \in values \cup {w}}
    <2>1. DOMAIN docs = {KeyOf(k, x) : x \in values} \cup {j}
      BY DEF Denotes
    <2>2. QED
      BY <2>1
  <1>3. ASSUME k # "auto", NEW x \in values \cup {w}  PROVE docs[KeyOf(k, x)] = x
    <2>1. CASE x = w
      BY <1>3, <2>1
    <2>2. CASE x \in values
      <3>1. KeyOf(k, x) \in DOMAIN d.docs /\ KeyOf(k, x) # j /\ d.docs[KeyOf(k, x)] = x
        BY <1>3, <2>2 DEF Denotes
      <3>2. QED
        BY <3>1
    <2>3. QED
      BY <2>1, <2>2
  <1>4. docs = [i \in DOMAIN docs |-> docs[i]]
    OBVIOUS
  <1> HIDE DEF docs, j
  <1>5. QED
    BY <1>1, <1>2, <1>3, <1>4 DEF Denotes, j

\* A value's document leaves the others.
LEMMA DropDenotes ==
  ASSUME kind \in Kinds, NEW d, present \subseteq Held(kind), Denotes(kind, d, present),
         NEW w \in Held(kind)
  PROVE  Denotes(kind, Drop(d, KeyOf(kind, w)), present \ {w})
  <1> DEFINE j == KeyOf(kind, w)
             docs == [i \in DOMAIN d.docs \ {j} |-> d.docs[i]]
  <1>1. Drop(d, j).docs = docs
    BY SMT DEF Drop
  <1>2. \A x \in present \ {w} : KeyOf(kind, x) # j
    BY KeysDiffer
  <1>3. DOMAIN docs = {KeyOf(kind, x) : x \in present \ {w}}
    <2>1. DOMAIN docs = {KeyOf(kind, x) : x \in present} \ {j}
      BY DEF Denotes
    <2>2. ASSUME NEW i \in DOMAIN docs  PROVE \E x \in present \ {w} : i = KeyOf(kind, x)
      BY <2>1
    <2>3. ASSUME NEW x \in present \ {w}  PROVE KeyOf(kind, x) \in DOMAIN docs
      BY <1>2, <2>1
    <2>4. QED
      <3> HIDE DEF docs
      <3> QED BY <2>2, <2>3
  <1>4. ASSUME kind # "auto", NEW x \in present \ {w}  PROVE docs[KeyOf(kind, x)] = x
    BY <1>2, <1>4 DEF Denotes
  <1>5. docs = [i \in DOMAIN docs |-> docs[i]]
    OBVIOUS
  <1> HIDE DEF docs, j
  <1>6. QED
    BY <1>1, <1>3, <1>4, <1>5 DEF Denotes, j

LEMMA DropNothing ==
  ASSUME NEW d, d = [docs |-> d.docs, seq |-> d.seq], NEW j, j \notin DOMAIN d.docs,
         d.docs = [k \in DOMAIN d.docs |-> d.docs[k]]
  PROVE  Drop(d, j) = d
  <1> DEFINE S == DOMAIN d.docs
  <1>1. S \ {j} = S
    OBVIOUS
  <1>2. [k \in S \ {j} |-> d.docs[k]] = [k \in S |-> d.docs[k]]
    BY <1>1
  <1>3. Drop(d, j) = [docs |-> d.docs, seq |-> d.seq]
    <2>1. Drop(d, j) = [docs |-> [k \in S |-> d.docs[k]], seq |-> d.seq]
      BY <1>2 DEF Drop
    <2>2. QED
      BY <2>1
  <1>4. QED
    BY <1>3

\* The empty text is no id of a stored document.
LEMMA EmptyIsNoId ==
  ASSUME DInv
  PROVE  Delete(db["embedded"], Empty).db = db["embedded"]
  <1> DEFINE d == db["embedded"]
  <1>1. /\ kind \in Kinds /\ d = [docs |-> d.docs, seq |-> d.seq]
        /\ d.docs = [k \in DOMAIN d.docs |-> d.docs[k]]
    BY DEF DInv, BInv, DatabaseOK, Denotes
  <1>2. Empty.word # "numeral"
        /\ Empty.word \notin {"true", "True", "TRUE", "t", "T", "false", "False", "FALSE", "f", "F"}
    <2> DEFINE e == ""
    <2>1. e # "numeral" /\ e \notin {"true", "True", "TRUE", "t", "T", "false", "False", "FALSE", "f", "F"}
      BY Zenon
    <2>2. Empty = [word |-> e, sign |-> e, zeros |-> FALSE, mag |-> 0]
      BY Zenon DEF Empty, Word
    <2> HIDE DEF e
    <2>3. Empty.word = e
      BY <2>2, SMT
    <2>4. QED
      BY <2>1, <2>3
  <1>3. CASE kind = "string"
    <2>1. encodeKey(kind, Empty) = Ok(Empty)
      BY <1>3, SMT DEF encodeKey, Signed, Unsigned
    <2>2. Empty \notin DOMAIN d.docs
      <3>1. \A v \in present : KeyOf(kind, v) = v
        BY <1>3, SMT DEF KeyOf, Signed
      <3>2. DOMAIN d.docs = {KeyOf(kind, v) : v \in present} /\ Empty \notin present
        BY <1>3 DEF DInv, Denotes
      <3>3. QED
        BY <3>1, <3>2
    <2>3. Delete(d, Empty).db = Drop(d, Empty)
      <3> HIDE DEF d
      <3>1. d = [docs |-> d.docs, seq |-> d.seq]
        BY <1>1
      <3>2. QED
        BY <2>1, <3>1, DeleteDb
    <2>4. QED
      BY <1>1, <2>2, <2>3, DropNothing
  <1>4. CASE kind # "string"
    <2>1. encodeKey(kind, Empty) = Bad
      <3>1. CASE kind \in Signed
        BY <1>2, <3>1, BadFacts, SMT DEF encodeKey, ParseInt, Signed, Unsigned
      <3>2. CASE kind \in Unsigned \cup {"auto"}
        <4>1. ParseUint(Empty, Half(kind)) = Bad
          BY <1>2 DEF ParseUint
        <4>2. QED
          BY <3>2, <4>1, SMT DEF encodeKey, Signed, Unsigned
      <3>3. CASE kind = "bool"
        <4> DEFINE C == Empty = Numeral("", FALSE, 1) \/ Empty.word \in {"true", "True", "TRUE", "t", "T"}
                   D == Empty = Numeral("", FALSE, 0) \/ Empty.word \in {"false", "False", "FALSE", "f", "F"}
        <4>1. ~C /\ ~D
          <5>1. \A n : Numeral("", FALSE, n).word = "numeral"
            <6> DEFINE e == ""
            <6> HIDE DEF e
            <6>1. \A n : Numeral(e, FALSE, n).word = "numeral"
              BY SMT DEF Numeral
            <6>2. QED
              BY <6>1 DEF e
          <5>2. QED
            BY <1>2, <5>1
        <4>2. ParseBool(Empty) = CASE C -> Ok(TRUE) [] D -> Ok(FALSE) [] OTHER -> Bad
          BY DEF ParseBool
        <4> HIDE DEF C, D
        <4>3. ParseBool(Empty) = Bad
          BY <4>1, <4>2
        <4>4. QED
          BY <3>3, <4>3, BadFacts, SMT DEF encodeKey, Signed, Unsigned
      <3>4. QED
        BY <1>1, <1>4, <3>1, <3>2, <3>3 DEF Kinds
    <2>2. QED
      BY <1>1, <2>1, DeleteDb
  <1>5. QED
    BY <1>3, <1>4

LEMMA InsertDenotes ==
  ASSUME DInv, NEW v \in Values(kind), cmdInsert(v)
  PROVE  /\ Denotes(kind, db'["embedded"], present') /\ present' \subseteq Held(kind)
         /\ kind = "string" => Empty \notin present'
  <1> DEFINE d == db["embedded"]
  <1>1. /\ kind \in Kinds /\ d = [docs |-> d.docs, seq |-> d.seq] /\ DatabaseOK(d)
        /\ Denotes(kind, d, present) /\ present \in SUBSET Held(kind)
        /\ kind = "string" => Empty \notin present
    BY DEF DInv, BInv, DatabaseOK
  <1>2. /\ db'["embedded"] = Insert(d, v).db
        /\ present' = present \cup (CASE kind = "auto" -> {db["sdk"].seq + 1}
                                      [] kind = "string" -> {v} \ {Empty} [] OTHER -> {v})
    BY DEF cmdInsert, Fronts
  <1>3. db["sdk"] = d
    BY DEF DInv, Fronts
  <1> HIDE DEF d
  <1>4. CASE kind = "auto"
    <2> DEFINE n == d.seq + 1
    <2>1. deriveKey(d, v) = Ok(n) /\ present' = present \cup {n}
      BY <1>2, <1>3, <1>4 DEF deriveKey
    <2>2. n \notin DOMAIN d.docs /\ n \in Nat
      BY <1>1, <1>4, SMT DEF DatabaseOK
    <2>3. Held(kind) = Nat /\ KeyOf(kind, n) = n
      BY <1>4, SMT DEF Held, KeyOf, Signed
    <2> HIDE DEF n
    <2>4. Insert(d, v).db = Put(d, n, v)
      BY <1>1, <1>4, <2>1, <2>2, InsertDb
    <2>5. Denotes(kind, Put(d, n, v), present \cup {n})
      BY <1>1, <1>4, <2>2, <2>3, PutDenotes
    <2>6. QED
      BY <1>1, <1>2, <1>4, <2>1, <2>2, <2>3, <2>4, <2>5
  <1>5. CASE kind = "string" /\ v = Empty
    <2>1. deriveKey(d, v) = Ok(KeyOf(kind, v)) /\ present' = present
      BY <1>1, <1>2, <1>5, Derived
    <2>2. Insert(d, v).db = d
      BY <1>1, <1>5, <2>1, InsertDb
    <2>3. QED
      BY <1>1, <1>2, <2>1, <2>2
  <1>6. CASE kind # "auto" /\ ~(kind = "string" /\ v = Empty)
    <2>1. deriveKey(d, v) = Ok(KeyOf(kind, v)) /\ Held(kind) = Values(kind)
      BY <1>1, <1>6, Derived DEF Held
    <2>2. present' = present \cup {v}
      <3>1. CASE kind = "string"
        BY <1>2, <1>6, <3>1
      <3>2. CASE kind # "string"
        BY <1>2, <1>6, <3>2
      <3>3. QED
        BY <3>1, <3>2
    <2>3. CASE KeyOf(kind, v) \in DOMAIN d.docs
      <3>1. PICK w \in present : KeyOf(kind, v) = KeyOf(kind, w)
        <4>1. DOMAIN d.docs = {KeyOf(kind, w) : w \in present}
          BY <1>1 DEF Denotes
        <4>2. QED
          BY <2>3, <4>1
      <3>2. v \in present
        BY <1>1, <2>1, <3>1, KeysDiffer
      <3>3. present' = present
        BY <2>2, <3>2
      <3>4. Insert(d, v).db = d
        BY <1>1, <2>1, <2>3, InsertDb
      <3>5. QED
        BY <1>1, <1>2, <3>3, <3>4
    <2>4. CASE KeyOf(kind, v) \notin DOMAIN d.docs
      <3>1. Insert(d, v).db = Put(d, KeyOf(kind, v), v)
        BY <1>1, <1>6, <2>1, <2>4, InsertDb
      <3>2. Denotes(kind, Put(d, KeyOf(kind, v), v), present \cup {v})
        BY <1>1, <2>1, <2>4, PutDenotes
      <3>3. QED
        BY <1>1, <1>2, <1>6, <2>1, <2>2, <3>1, <3>2
    <2>5. QED
      BY <2>3, <2>4
  <1>7. QED
    BY <1>4, <1>5, <1>6

\* Callers' texts are texts.
LEMMA TextFacts ==
  ASSUME NEW id \in Texts
  PROVE  id.mag \in Nat
  BY TextAssumption DEF Texts, Range

LEMMA DeleteDenotes ==
  ASSUME DInv, NEW id \in Texts, cmdDelete(id)
  PROVE  /\ Denotes(kind, db'["embedded"], present') /\ present' \subseteq present
  <1> DEFINE d == db["embedded"]
  <1>1. /\ kind \in Kinds /\ d = [docs |-> d.docs, seq |-> d.seq]
        /\ Denotes(kind, d, present) /\ present \subseteq Held(kind)
    BY DEF DInv, BInv, DatabaseOK
  <1>2. /\ db'["embedded"] = Delete(d, id).db
        /\ present' = IF Meant(id).ok THEN present \ {Meant(id).v} ELSE present
    BY DEF cmdDelete, Fronts, Accepts
  <1> HIDE DEF d
  <1>3. CASE Meant(id) = Bad /\ encodeKey(kind, id) = Bad
    <2>1. present' = present /\ Delete(d, id).db = d
      BY <1>1, <1>2, <1>3, BadFacts, DeleteDb
    <2>2. QED
      BY <1>1, <1>2, <2>1
  <1>4. ASSUME NEW v \in Held(kind), Meant(id) = Ok(v), encodeKey(kind, id) = Ok(KeyOf(kind, v))
        PROVE  Denotes(kind, db'["embedded"], present') /\ present' \subseteq present
    <2>1. present' = present \ {v}
      BY <1>2, <1>4, OkFacts
    <2>2. Delete(d, id).db = Drop(d, KeyOf(kind, v))
      BY <1>1, <1>4, DeleteDb
    <2>3. Denotes(kind, Drop(d, KeyOf(kind, v)), present \ {v})
      BY <1>1, DropDenotes
    <2>4. QED
      BY <1>2, <2>1, <2>2, <2>3
  <1>5. QED
    BY <1>1, <1>3, <1>4, Parsed, TextFacts

\* No command breaks the agreement of the ways in.
LEMMA DInvInductive == DInv /\ [Next]_vars => DInv'
  <1> SUFFICES ASSUME DInv, [Next]_vars PROVE DInv'
    OBVIOUS
  <1>1. BInv' /\ kind' = kind
    BY BInvInductive DEF DInv, Next, vars, cmdInsert, cmdDelete
  <1>2. ASSUME NEW v \in Values(kind), cmdInsert(v)  PROVE DInv'
    <2>1. \A f \in Fronts : db'[f] = db'["embedded"]
      BY <1>2 DEF DInv, cmdInsert, Fronts
    <2>2. MaxDocs > 0
      <3>1. db["embedded"].seq < MaxDocs /\ db["embedded"].seq \in 0 .. MaxDocs /\ MaxDocs \in Nat
        BY <1>2, BackendsAssumption DEF DInv, BInv, DatabaseOK, cmdInsert, Fronts
      <3>2. QED
        BY <3>1, SMT
    <2>3. QED
      BY <1>1, <1>2, <2>1, <2>2, InsertDenotes DEF DInv
  <1>3. ASSUME NEW id \in Texts, cmdDelete(id)  PROVE DInv'
    <2>1. \A f \in Fronts : db'[f] = db'["embedded"]
      <3>1. \A f \in Fronts : db'[f] = IF Accepts(f, id) THEN Delete(db[f], id).db ELSE db[f]
        BY <1>3 DEF cmdDelete
      <3>2. \A f \in Fronts : Accepts(f, id) \/ id = Empty
        BY DEF Accepts
      <3>3. Delete(db["embedded"], Empty).db = db["embedded"]
        BY EmptyIsNoId
      <3>4. \A f \in Fronts : db[f] = db["embedded"]
        BY DEF DInv
      <3>5. "embedded" \in Fronts /\ Accepts("embedded", id)
        BY DEF Fronts, Accepts
      <3>6. ASSUME NEW f \in Fronts  PROVE db'[f] = Delete(db["embedded"], id).db
        BY <3>1, <3>2, <3>3, <3>4
      <3>7. QED
        BY <3>5, <3>6
    <2>2. Denotes(kind, db'["embedded"], present') /\ present' \subseteq present
      BY <1>3, DeleteDenotes
    <2>3. QED
      BY <1>1, <2>1, <2>2 DEF DInv
  <1>4. CASE UNCHANGED vars
    BY <1>1, <1>4 DEF vars, DInv
  <1>5. QED
    BY <1>2, <1>3, <1>4 DEF Next

LEMMA DInvInit == Init => DInv
  <1> SUFFICES ASSUME Init PROVE DInv
    OBVIOUS
  <1>1. BInv /\ present = {}
    BY BInvInit DEF Init
  <1>2. \A f \in Fronts : db[f] = NewDatabase
    BY DEF Init
  <1>3. NewDatabase.docs = [j \in {} |-> 0] /\ DOMAIN NewDatabase.docs = {}
    BY SMT DEF NewDatabase
  <1>4. Denotes(kind, NewDatabase, {})
    BY <1>3, SMT DEF Denotes
  <1>5. QED
    BY <1>1, <1>2, <1>4 DEF DInv, Fronts

\* In every reachable state the ways in have one database, and it holds the
\* values inserted and not deleted.
THEOREM OneDatabase == Spec => []DInv
  BY DInvInit, DInvInductive, PTL DEF Spec

-------------------------------------------------------------------------------
\* What Get answers.
LEMMA GetIs ==
  ASSUME NEW d, NEW id
  PROVE  /\ encodeKey(kind, id) = Bad => Get(d, id) = Invalid
         /\ \A j : encodeKey(kind, id) = Ok(j) =>
              /\ j \in DOMAIN d.docs => Get(d, id) = Ok(d.docs[j])
              /\ j \notin DOMAIN d.docs => Get(d, id) = Fail("ErrNotFound")
  <1>1. ASSUME encodeKey(kind, id) = Bad  PROVE Get(d, id) = Invalid
    BY <1>1, BadFacts DEF Get
  <1>2. ASSUME NEW j, encodeKey(kind, id) = Ok(j)
        PROVE  /\ j \in DOMAIN d.docs => Get(d, id) = Ok(d.docs[j])
               /\ j \notin DOMAIN d.docs => Get(d, id) = Fail("ErrNotFound")
    <2>1. encodeKey(kind, id).ok /\ encodeKey(kind, id).v = j
      BY <1>2, OkFacts
    <2>2. QED
      BY <2>1 DEF Get
  <1>3. QED
    BY <1>1, <1>2

LEMMA FailFacts ==
  ASSUME NEW e
  PROVE  ~Fail(e).ok /\ Fail(e).err = e
  BY SMT DEF Fail

\* What Get answers, by what the id means.
LEMMA GetByMeaning ==
  ASSUME DInv, NEW id \in Texts
  PROVE  \/ Meant(id) = Bad /\ Get(db["embedded"], id) = Invalid
         \/ \E v \in present : /\ Meant(id) = Ok(v) /\ encodeKey(kind, id) = Ok(KeyOf(kind, v))
                               /\ KeyOf(kind, v) \in DOMAIN db["embedded"].docs
                               /\ Get(db["embedded"], id) = Ok(db["embedded"].docs[KeyOf(kind, v)])
         \/ \E v \in Held(kind) \ present : /\ Meant(id) = Ok(v)
                                            /\ Get(db["embedded"], id) = Fail("ErrNotFound")
  <1> DEFINE d == db["embedded"]
  <1>1. kind \in Kinds /\ Denotes(kind, d, present) /\ present \subseteq Held(kind)
    BY DEF DInv, BInv
  <1>2. CASE Meant(id) = Bad /\ encodeKey(kind, id) = Bad
    BY <1>2, GetIs
  <1>3. CASE \E v \in Held(kind) : Meant(id) = Ok(v) /\ encodeKey(kind, id) = Ok(KeyOf(kind, v))
    <2>1. PICK v \in Held(kind) : Meant(id) = Ok(v) /\ encodeKey(kind, id) = Ok(KeyOf(kind, v))
      BY <1>3
    <2>2. CASE v \in present
      <3>1. KeyOf(kind, v) \in DOMAIN d.docs
        BY <1>1, <2>2 DEF Denotes
      <3>2. QED
        BY <2>1, <2>2, <3>1, GetIs
    <2>3. CASE v \notin present
      <3>1. KeyOf(kind, v) \notin DOMAIN d.docs
        BY <1>1, <2>3, KeysDiffer DEF Denotes
      <3>2. QED
        BY <2>1, <2>3, <3>1, GetIs
    <2>4. QED
      BY <2>2, <2>3
  <1>4. QED
    BY <1>1, <1>2, <1>3, Parsed, TextFacts

\* An id finds the document whose key it means, however it is spelled, and no
\* other, whatever the width of the integers and the commands before
\* (engine.go, encodeKey and Get).
THEOREM IdsFindWhatTheyMean == Spec => []IdsDenote
  <1>1. ASSUME DInv, NEW id \in Texts
        PROVE  LET got == Get(db["embedded"], id)
               IN  /\ got.ok <=> Meant(id).ok /\ Meant(id).v \in present
                   /\ got.ok /\ kind # "auto" => got.v = Meant(id).v
                   /\ ~Meant(id).ok => got = Invalid
    <2> DEFINE got == Get(db["embedded"], id)
    <2>1. CASE Meant(id) = Bad /\ got = Invalid
      BY <2>1, BadFacts, FailFacts DEF Invalid
    <2>2. CASE \E v \in present : /\ Meant(id) = Ok(v)
                                  /\ got = Ok(db["embedded"].docs[KeyOf(kind, v)])
      <3>1. PICK v \in present : Meant(id) = Ok(v) /\ got = Ok(db["embedded"].docs[KeyOf(kind, v)])
        BY <2>2
      <3>2. kind # "auto" => db["embedded"].docs[KeyOf(kind, v)] = v
        BY <1>1 DEF DInv, Denotes
      <3>3. got.ok /\ got.v = db["embedded"].docs[KeyOf(kind, v)] /\ Meant(id).ok /\ Meant(id).v = v
        BY <3>1, OkFacts
      <3>4. QED
        BY <3>2, <3>3
    <2>3. CASE \E v \in Held(kind) \ present : Meant(id) = Ok(v) /\ got = Fail("ErrNotFound")
      <3>1. PICK v \in Held(kind) \ present : Meant(id) = Ok(v) /\ got = Fail("ErrNotFound")
        BY <2>3
      <3>2. ~got.ok /\ Meant(id).ok /\ Meant(id).v = v
        BY <3>1, OkFacts, FailFacts
      <3>3. QED
        BY <3>2
    <2>4. QED
      BY <1>1, <2>1, <2>2, <2>3, GetByMeaning
  <1>2. DInv => IdsDenote
    BY <1>1 DEF IdsDenote
  <1>3. QED
    BY <1>2, OneDatabase, PTL

-------------------------------------------------------------------------------
(* The same answers either way.                                            *)

\* Answers that survive the wire.
Sent(ans) ==
  ans.ok \/ \E e \in {"invalid", "ErrNotFound", "ErrDuplicateKey", "ResultLimitError"} : ans = Fail(e)

\* The status code of each error of the engine leads back to it.
LEMMA CodesReturn ==
  ASSUME NEW e \in {"invalid", "ErrNotFound", "ErrDuplicateKey", "ResultLimitError"}
  PROVE  codeMeans(toStatus(e)) = e
  BY SMT DEF codeMeans, toStatus

LEMMA ReportSame ==
  ASSUME NEW f, NEW ans, Sent(ans)
  PROVE  Report(f, ans) = ans
  <1>1. CASE ans.ok
    BY <1>1 DEF Report
  <1>2. ASSUME NEW e \in {"invalid", "ErrNotFound", "ErrDuplicateKey", "ResultLimitError"}, ans = Fail(e)
        PROVE  Report(f, ans) = ans
    <2>1. ans.err = e /\ codeMeans(toStatus(e)) = e
      BY <1>2, FailFacts, CodesReturn
    <2>2. QED
      BY <1>2, <2>1 DEF Report
  <1>3. QED
    BY <1>1, <1>2 DEF Sent

LEMMA SentAnswers ==
  /\ \A v : Sent(Ok(v))
  /\ Sent(Invalid) /\ Sent(Fail("ErrNotFound")) /\ Sent(Fail("ErrDuplicateKey"))
  /\ Sent(Fail("ResultLimitError"))
  BY OkFacts DEF Sent, Invalid

LEMMA InsertSent ==
  ASSUME NEW d, NEW v
  PROVE  Sent(Insert(d, v).ans)
  <1> DEFINE key == deriveKey(d, v)
             id == IF kind = "auto" THEN FormatInt(key.v) ELSE idStringFromValue(kind, v)
             new == [docs |-> [k \in DOMAIN d.docs \cup {key.v} |->
                                 IF k = key.v THEN v ELSE d.docs[k]],
                     seq  |-> IF kind = "auto" THEN d.seq + 1 ELSE d.seq]
             a == [ans |-> Invalid, db |-> d]
             b == [ans |-> Fail("ErrDuplicateKey"), db |-> d]
             c == [ans |-> Ok(id), db |-> new]
             P == ~key.ok
             Q == key.ok /\ key.v \in DOMAIN d.docs
             R == kind = "string" /\ v = Empty
  <1>1. Insert(d, v) = CASE P -> a [] Q -> b [] R -> a [] OTHER -> c
    BY DEF Insert
  <1>2. Sent(a.ans) /\ Sent(b.ans) /\ Sent(c.ans)
    <2> HIDE DEF new, id
    <2>1. a.ans = Invalid /\ b.ans = Fail("ErrDuplicateKey") /\ c.ans = Ok(id)
      BY SMT
    <2> HIDE DEF a, b, c
    <2>2. QED
      BY <2>1, SentAnswers
  <1> HIDE DEF a, b, c, P, Q, R
  <1>3. QED
    BY <1>1, <1>2

LEMMA GetSent ==
  ASSUME NEW d, NEW id
  PROVE  Sent(Get(d, id))
  <1> DEFINE key == encodeKey(kind, id)
             P == ~key.ok
             Q == key.ok /\ key.v \notin DOMAIN d.docs
  <1>1. Get(d, id) = CASE P -> Invalid [] Q -> Fail("ErrNotFound") [] OTHER -> Ok(d.docs[key.v])
    BY DEF Get
  <1> HIDE DEF P, Q, key
  <1>2. QED
    BY <1>1, SentAnswers

LEMMA UpdateSent ==
  ASSUME NEW d, NEW id, NEW v
  PROVE  Sent(Update(d, id, v))
  <1> DEFINE key == encodeKey(kind, id)
             P == ~key.ok
             Q == key.ok /\ key.v \notin DOMAIN d.docs
             R == kind # "auto" /\ deriveKey(d, v) # key
  <1>1. Update(d, id, v) = CASE P -> Invalid [] Q -> Fail("ErrNotFound")
                             [] OTHER -> IF R THEN Invalid ELSE Ok("updated")
    BY DEF Update
  <1> HIDE DEF P, Q, R, key
  <1>2. QED
    BY <1>1, SentAnswers

LEMMA DeleteSent ==
  ASSUME NEW d, NEW id
  PROVE  Sent(Delete(d, id).ans)
  <1> DEFINE key == encodeKey(kind, id)
             new == [d EXCEPT !.docs = [k \in DOMAIN @ \ {key.v} |-> @[k]]]
             a == [ans |-> Invalid, db |-> d]
             b == [ans |-> Ok("deleted"), db |-> new]
  <1>1. Delete(d, id) = IF ~key.ok THEN a ELSE b
    BY DEF Delete
  <1>2. Sent(a.ans) /\ Sent(b.ans)
    <2> HIDE DEF new
    <2>1. a.ans = Invalid /\ b.ans = Ok("deleted")
      BY SMT
    <2> HIDE DEF a, b
    <2>2. QED
      BY <2>1, SentAnswers
  <1> HIDE DEF a, b, key
  <1>3. QED
    BY <1>1, <1>2

\* A page, or the refusal of its size or literal.
LEMMA PageSent ==
  ASSUME NEW d, NEW o, NEW lit, NEW size
  PROVE  /\ Sent(ExecutePage(d, o, lit, size))
         /\ Sent(ExecuteWithLimit(d, o, lit, size))
  <1>1. Sent(ExecutePage(d, o, lit, size))
    <2> DEFINE value == scalarValueFromString(kind, lit)
               hits  == {k \in DOMAIN d.docs : Holds(o, CompareValues(kind, d.docs[k], value.v))}
               keys  == InKeyOrder(hits)
               page  == SubSeq(keys, 1, IF Len(keys) < size THEN Len(keys) ELSE size)
               found == [ids |-> [i \in DOMAIN page |-> IDFromStorageKey(kind, page[i])],
                         more |-> Len(keys) > size]
               none  == [ids |-> << >>, more |-> FALSE]
               P == size <= 0
               Q == size > 0 /\ ~value.ok
               R == DOMAIN d.docs = {}
    <2>1. ExecutePage(d, o, lit, size)
            = CASE P -> Invalid [] Q -> IF R THEN Ok(none) ELSE Invalid [] OTHER -> Ok(found)
      BY DEF ExecutePage
    <2> HIDE DEF P, Q, R, none, found
    <2>2. QED
      BY <2>1, SentAnswers
  <1>2. Sent(ExecuteWithLimit(d, o, lit, size))
    BY <1>1, SentAnswers DEF ExecuteWithLimit
  <1>3. QED
    BY <1>1, <1>2

\* A small page size crosses the wire unchanged.
LEMMA SizeKept ==
  ASSUME NEW n \in Nat, n <= Limit
  PROVE  int32(n) = n
  <1>1. n + Half32 \in Nat /\ n + Half32 < 2 * Half32 /\ 2 * Half32 \in Nat \ {0}
    BY BackendsAssumption, WidthAssumption, SMT
  <1>2. (n + Half32) % (2 * Half32) = n + Half32
    BY <1>1, SMT
  <1>3. QED
    BY <1>2, WidthAssumption, SMT DEF int32

\* Each operator crosses the wire unchanged, and the libraries' words for the
\* operators are the command line's.
LEMMA OperatorsKept ==
  /\ \A o \in Ops : toOp(toWireOp(o)) = o /\ o # Unknown
  /\ \A o \in Ops : parseOp(o) = o /\ toEngineOp(o) = o /\ nativeQueryOp(o) = o
  /\ \A name : parseOp(name) \in Ops \cup {Unknown}
  <1>1. \A o \in Ops : toOp(toWireOp(o)) = o /\ o # Unknown
    BY SMT DEF toOp, toWireOp, Ops, Unknown
  <1>2. \A o \in Ops : parseOp(o) = o /\ toEngineOp(o) = o /\ nativeQueryOp(o) = o
    BY SMT DEF parseOp, toEngineOp, nativeQueryOp, Ops
  <1>3. \A name : parseOp(name) \in Ops \cup {Unknown}
    BY SMT DEF parseOp, Ops
  <1>4. QED
    BY <1>1, <1>2, <1>3

LEMMA RolesKept ==
  ASSUME NEW text, text.plain
  PROVE  /\ remoteCreateKey(text) = embeddedCreateKey(text)
         /\ remoteListKeys(embeddedCreateKey(text)) = embeddedListKeys(embeddedCreateKey(text))
  <1> DEFINE role == RoleNamed(text.name)
  <1>1. role \in Role \cup {Unknown}
    BY SMT DEF RoleNamed, Role
  <1> HIDE DEF role
  <1>2. embeddedCreateKey(text) = role
    BY DEF embeddedCreateKey, ParseRole, role
  <1>3. roleToWire(text) = CASE role = "readonly" -> "ROLE_READONLY" [] role = "readwrite" -> "ROLE_READWRITE"
                             [] role = "admin" -> "ROLE_ADMIN" [] OTHER -> Unknown
    BY DEF roleToWire, role
  <1>4. fromPBRole(roleToWire(text)) = role
    BY <1>1, <1>3, SMT DEF fromPBRole, Role, Unknown
  <1>5. roleFromWire(toPBRole(role)) = RoleString(role)
    BY <1>1, SMT DEF roleFromWire, toPBRole, RoleString, Role, Unknown
  <1>6. QED
    BY <1>2, <1>4, <1>5 DEF remoteCreateKey, remoteListKeys, embeddedListKeys

\* The command line over an embedded database.
LEMMA EmbeddedQuery ==
  ASSUME NEW d, NEW name, NEW lit, NEW size
  PROVE  Query("embedded", d, name, lit, size)
           = IF parseOp(name) = Unknown THEN Invalid
             ELSE IF size = 0 THEN ExecuteWithLimit(d, parseOp(name), lit, Limit)
             ELSE ExecutePage(d, parseOp(name), lit, size)
  <1>1. Query("embedded", d, name, lit, size) = cmdQuery("embedded", d, name, lit, size)
    BY SMT DEF Query
  <1>2. CASE parseOp(name) = Unknown
    BY <1>1, <1>2 DEF cmdQuery
  <1>3. CASE parseOp(name) # Unknown
    <2>1. cmdQuery("embedded", d, name, lit, size) = embeddedQueryPage(d, parseOp(name), lit, size)
      BY <1>3, SMT DEF cmdQuery
    <2>2. QED
      BY <1>1, <1>3, <2>1 DEF embeddedQueryPage
  <1>4. QED
    BY <1>2, <1>3

\* A query gets one answer.
LEMMA QuerySame ==
  ASSUME NEW d, NEW name, NEW lit, NEW size \in Nat, NEW f \in Fronts, Accepts(f, lit),
         f \in {"sdk", "native"} => name \in Ops, f = "remote" => size <= Limit
  PROVE  Query(f, d, name, lit, size) = Query("embedded", d, name, lit, size)
  <1> DEFINE o == parseOp(name)
             E == IF o = Unknown THEN Invalid
                  ELSE IF size = 0 THEN ExecuteWithLimit(d, o, lit, Limit)
                  ELSE ExecutePage(d, o, lit, size)
  <1>1. Query("embedded", d, name, lit, size) = E
    BY EmbeddedQuery
  <1>2. CASE f = "remote"
    <2>1. Query(f, d, name, lit, size) = cmdQuery(f, d, name, lit, size)
      BY <1>2, SMT DEF Query
    <2>2. CASE o = Unknown
      BY <1>1, <2>1, <2>2 DEF cmdQuery
    <2>3. CASE o # Unknown
      <3>1. cmdQuery(f, d, name, lit, size) = Report(f, remoteQueryPage(d, o, lit, size))
        BY <1>2, <2>3, SMT DEF cmdQuery
      <3>2. int32(size) = size /\ toOp(toWireOp(o)) = o
        BY <1>2, <2>3, SizeKept, OperatorsKept
      <3>3. remoteQueryPage(d, o, lit, size) = serverQuery(d, toWireOp(o), lit, size)
        BY <3>2 DEF remoteQueryPage
      <3>4. ~(size < 0) /\ ~(size > Limit)
        BY <1>2, BackendsAssumption, SMT
      <3>5. serverQuery(d, toWireOp(o), lit, size) = E
        <4> HIDE DEF o
        <4>1. CASE size = 0
          BY <2>3, <3>2, <3>4, <4>1 DEF serverQuery
        <4>2. CASE size # 0
          BY <2>3, <3>2, <3>4, <4>2 DEF serverQuery
        <4>3. QED
          BY <4>1, <4>2
      <3>6. Sent(E)
        BY <2>3, PageSent
      <3>7. QED
        BY <1>1, <2>1, <3>1, <3>3, <3>5, <3>6, ReportSame
    <2>4. QED
      BY <2>2, <2>3
  <1>3. CASE f = "sdk"
    <2>1. o = name /\ toEngineOp(name) = name /\ name # Unknown
      BY <1>3, OperatorsKept
    <2>2. Query(f, d, name, lit, size) = IF size = 0 THEN QueryJSON(d, name, lit)
                                         ELSE QueryPageJSON(d, name, lit, size)
      BY <1>3, SMT DEF Query
    <2>3. /\ QueryPageJSON(d, name, lit, size) = ExecutePage(d, name, lit, size)
          /\ QueryPageJSON(d, name, lit, Limit) = ExecutePage(d, name, lit, Limit)
      BY <2>1 DEF QueryPageJSON
    <2>4. QueryJSON(d, name, lit) = ExecuteWithLimit(d, name, lit, Limit)
      <3> DEFINE page == ExecutePage(d, name, lit, Limit)
      <3>1. /\ QueryJSON(d, name, lit) = IF page.ok /\ page.v.more THEN Fail("ResultLimitError") ELSE page
            /\ ExecuteWithLimit(d, name, lit, Limit)
                 = IF page.ok /\ page.v.more THEN Fail("ResultLimitError") ELSE page
        BY <2>3, SMT DEF QueryJSON, ExecuteWithLimit
      <3> HIDE DEF page
      <3>2. QED
        BY <3>1, SMT
    <2>5. E = IF size = 0 THEN ExecuteWithLimit(d, name, lit, Limit) ELSE ExecutePage(d, name, lit, size)
      BY <2>1, SMT
    <2> HIDE DEF E
    <2>6. CASE size = 0
      BY <1>1, <2>2, <2>4, <2>5, <2>6
    <2>7. CASE size # 0
      BY <1>1, <2>2, <2>3, <2>5, <2>7
    <2>8. QED
      BY <2>6, <2>7
  <1>4. CASE f = "native"
    <2>1. o = name /\ nativeQueryOp(name) = name /\ name # Unknown /\ Accepts("native", lit)
      BY <1>4, OperatorsKept
    <2>2. Query(f, d, name, lit, size) = IF size = 0 THEN KoraDBQueryJSON(d, name, lit)
                                         ELSE KoraDBQueryPageJSON(d, name, lit, size)
      BY <1>4, SMT DEF Query
    <2>3. /\ KoraDBQueryPageJSON(d, name, lit, size) = ExecutePage(d, name, lit, size)
          /\ KoraDBQueryJSON(d, name, lit) = ExecuteWithLimit(d, name, lit, Limit)
      BY <2>1 DEF KoraDBQueryPageJSON, KoraDBQueryJSON
    <2>4. E = IF size = 0 THEN ExecuteWithLimit(d, name, lit, Limit) ELSE ExecutePage(d, name, lit, size)
      BY <2>1, SMT
    <2> HIDE DEF E
    <2>5. CASE size = 0
      BY <1>1, <2>2, <2>3, <2>4, <2>5
    <2>6. CASE size # 0
      BY <1>1, <2>2, <2>3, <2>4, <2>6
    <2>7. QED
      BY <2>5, <2>6
  <1>5. CASE f = "embedded"
    BY <1>5
  <1>6. QED
    BY <1>2, <1>3, <1>4, <1>5 DEF Fronts

\* The same commands give the same documents, keys, answers and errors, by
\* whichever way they come (backend.go), for any integers, texts, limits and
\* names, after any commands.
THEOREM WaysAgree == Spec => []SameEitherWay
  <1>1. ASSUME DInv  PROVE SameEitherWay
    <2> DEFINE D == db["embedded"]
    <2>1. \A f \in Fronts : db[f] = D
      BY <1>1 DEF DInv
    <2>2. \A text \in {r \in RoleTexts : r.plain} :
            /\ remoteCreateKey(text) = embeddedCreateKey(text)
            /\ remoteListKeys(embeddedCreateKey(text)) = embeddedListKeys(embeddedCreateKey(text))
      BY RolesKept
    <2>3. \A v : \A f \in Fronts : Report(f, Insert(db[f], v).ans) = Insert(D, v).ans
      <3> TAKE v
      <3> TAKE f \in Fronts
      <3>1. Sent(Insert(D, v).ans) /\ db[f] = D
        BY <2>1, InsertSent
      <3>2. Report(f, Insert(D, v).ans) = Insert(D, v).ans
        BY <3>1, ReportSame
      <3>3. QED
        BY <3>1, <3>2
    <2>4. \A f \in Fronts : \A id : /\ Report(f, Get(db[f], id)) = Get(D, id)
                                    /\ Report(f, Delete(db[f], id).ans) = Delete(D, id).ans
      <3> TAKE f \in Fronts
      <3> TAKE id
      <3>1. Sent(Get(D, id)) /\ Sent(Delete(D, id).ans) /\ db[f] = D
        BY <2>1, GetSent, DeleteSent
      <3>2. Report(f, Get(D, id)) = Get(D, id) /\ Report(f, Delete(D, id).ans) = Delete(D, id).ans
        BY <3>1, ReportSame
      <3>3. QED
        BY <3>1, <3>2
    <2>5. \A f \in Fronts : \A id, v : Report(f, Update(db[f], id, v)) = Update(D, id, v)
      <3> TAKE f \in Fronts
      <3> TAKE id, v
      <3>1. Sent(Update(D, id, v)) /\ db[f] = D
        BY <2>1, UpdateSent
      <3>2. Report(f, Update(D, id, v)) = Update(D, id, v)
        BY <3>1, ReportSame
      <3>3. QED
        BY <3>1, <3>2
    <2>6. \A name, lit : \A size \in Sizes : \A f \in Fronts :
            (/\ Accepts(f, lit) /\ (f \in {"sdk", "native"} => name \in Ops)
             /\ (f = "remote" => size <= Limit)) =>
              Query(f, db[f], name, lit, size) = Query("embedded", D, name, lit, size)
      <3>1. Sizes \subseteq Nat
        BY BackendsAssumption
      <3> TAKE name, lit
      <3> TAKE size \in Sizes
      <3> TAKE f \in Fronts
      <3>2. size \in Nat /\ db[f] = D
        BY <2>1, <3>1
      <3> HIDE DEF D
      <3>3. QED
        BY <3>2, QuerySame
    <2>7. QED
      BY <2>1, <2>2, <2>3, <2>4, <2>5, <2>6 DEF SameEitherWay
  <1>2. QED
    BY <1>1, OneDatabase, PTL

-------------------------------------------------------------------------------
(* Literals.                                                               *)

\* Values compare equal when they are.
LEMMA EqualCompare ==
  ASSUME NEW k \in Kinds \ {"auto"}, NEW v \in Values(k), NEW w \in Values(k)
  PROVE  Holds("eq", CompareValues(k, v, w)) <=> v = w
  <1>1. \A c : Holds("eq", c) <=> c = 0
    BY SMT DEF Holds
  <1>2. \A a, b \in Int : cmp(a, b) = 0 <=> a = b
    BY SMT DEF cmp
  <1>3. CASE k \in Signed \cup Unsigned
    <2>1. v \in Int /\ w \in Int
      BY <1>3, ValuesByKind, Widths, SMT
    <2>2. CompareValues(k, v, w) = cmp(v, w)
      BY <1>3, SMT DEF CompareValues, Signed, Unsigned
    <2>3. QED
      BY <1>1, <1>2, <2>1, <2>2
  <1>4. CASE k = "bool"
    <2>1. v \in BOOLEAN /\ w \in BOOLEAN
      BY <1>4, ValuesByKind
    <2>2. CompareValues(k, v, w) = cmp(boolToInt(v), boolToInt(w))
      BY <1>4, SMT DEF CompareValues, Signed, Unsigned
    <2>3. boolToInt(v) \in Int /\ boolToInt(w) \in Int /\ (boolToInt(v) = boolToInt(w) <=> v = w)
      <3>1. 0 \in Int /\ 1 \in Int /\ 0 # 1
        BY SMT
      <3>2. boolToInt(TRUE) = 1 /\ boolToInt(FALSE) = 0
        BY DEF boolToInt
      <3>3. (v = TRUE \/ v = FALSE) /\ (w = TRUE \/ w = FALSE)
        BY <2>1
      <3>4. QED
        BY <3>1, <3>2, <3>3
    <2>4. QED
      BY <1>1, <1>2, <2>2, <2>3
  <1>5. CASE k = "string"
    <2>1. v \in Texts /\ w \in Texts
      BY <1>5, SMT DEF Values, Signed, Unsigned
    <2>2. CompareValues(k, v, w) = cmp(ByteOrder(v), ByteOrder(w))
      BY <1>5, SMT DEF CompareValues, Signed, Unsigned
    <2>3. \A t \in Texts : ByteOrder(t) \in DOMAIN Strings /\ Strings[ByteOrder(t)] = t
      BY DEF ByteOrder, Texts, Range
    <2>4. ByteOrder(v) = ByteOrder(w) <=> v = w
      BY <2>1, <2>3
    <2>5. ByteOrder(v) \in Int /\ ByteOrder(w) \in Int
      BY <2>1, <2>3, TextAssumption
    <2>6. QED
      BY <1>1, <1>2, <2>2, <2>4, <2>5
  <1>6. QED
    BY <1>3, <1>4, <1>5 DEF Kinds

\* One key, and none, in key order.
LEMMA OneKeySorted ==
  ASSUME NEW j
  PROVE  InKeyOrder({j}) = <<j>>
  <1> DEFINE Sorted(s) == \A a, b \in DOMAIN s : a < b => KeyOrder(s[a]) < KeyOrder(s[b])
  <1>1. Cardinality({j}) = 1
    BY FS_Singleton
  <1>2. InKeyOrder({j}) = CHOOSE s \in [1 .. 1 -> {j}] : Sorted(s)
    BY <1>1 DEF InKeyOrder
  <1>3. \A s \in [1 .. 1 -> {j}] : s = <<j>>
    BY SMT
  <1>4. <<j>> \in [1 .. 1 -> {j}]
    BY SMT
  <1>5. Sorted(<<j>>)
    BY SMT
  <1> HIDE DEF Sorted
  <1>6. QED
    BY <1>2, <1>3, <1>4, <1>5

LEMMA NoKeySorted == InKeyOrder({}) = << >>
  <1> DEFINE Sorted(s) == \A a, b \in DOMAIN s : a < b => KeyOrder(s[a]) < KeyOrder(s[b])
  <1>1. Cardinality({}) = 0
    BY FS_EmptySet
  <1>2. InKeyOrder({}) = CHOOSE s \in [1 .. 0 -> {}] : Sorted(s)
    BY <1>1 DEF InKeyOrder
  <1>3. \A s \in [1 .. 0 -> {}] : s = << >>
    BY SMT
  <1>4. << >> \in [1 .. 0 -> {}]
    BY SMT
  <1>5. Sorted(<< >>)
    BY SMT
  <1> HIDE DEF Sorted
  <1>6. QED
    BY <1>2, <1>3, <1>4, <1>5

\* The page of an equality: refused with a literal that is no value, otherwise
\* the keys of the documents that hold it.
LEMMA EqualityPage ==
  ASSUME NEW d, DOMAIN d.docs # {}, NEW lit, NEW size \in Nat, size > 0, NEW v, NEW hits,
         hits = {k \in DOMAIN d.docs : Holds("eq", CompareValues(kind, d.docs[k], v))}
  PROVE  LET page == ExecutePage(d, "eq", lit, size)
         IN  /\ scalarValueFromString(kind, lit) = Bad => ~page.ok
             /\ scalarValueFromString(kind, lit) = Ok(v) /\ hits = {} => page.ok /\ page.v.ids = << >>
             /\ \A j : scalarValueFromString(kind, lit) = Ok(v) /\ hits = {j} =>
                         page.ok /\ page.v.ids = <<IDFromStorageKey(kind, j)>>
  <1> DEFINE value == scalarValueFromString(kind, lit)
             page == ExecutePage(d, "eq", lit, size)
             Hits(x) == {k \in DOMAIN d.docs : Holds("eq", CompareValues(kind, d.docs[k], x))}
             IdsOf(keys) == LET p == SubSeq(keys, 1, IF Len(keys) < size THEN Len(keys) ELSE size)
                            IN  [i \in DOMAIN p |-> IDFromStorageKey(kind, p[i])]
             Found(x) == [ids |-> IdsOf(InKeyOrder(Hits(x))), more |-> Len(InKeyOrder(Hits(x))) > size]
             P == size <= 0
             Q == size > 0 /\ ~value.ok
  <1>1. ~P /\ size > 0
    BY SMT
  <1>2. page = CASE P -> Invalid
                 [] Q -> IF DOMAIN d.docs = {} THEN Ok([ids |-> << >>, more |-> FALSE]) ELSE Invalid
                 [] OTHER -> Ok(Found(value.v))
    BY DEF ExecutePage
  <1> HIDE DEF page, Found, P
  <1>3. ASSUME value = Bad  PROVE ~page.ok
    <2>1. ~value.ok
      BY <1>3, BadFacts
    <2>2. page = Invalid
      BY <1>1, <1>2, <2>1
    <2>3. QED
      BY <2>2, FailFacts DEF Invalid
  <1>4. ASSUME value = Ok(v)  PROVE page.ok /\ page.v.ids = IdsOf(InKeyOrder(hits))
    <2>1. value.ok /\ value.v = v
      BY <1>4, OkFacts
    <2>2. page = Ok(Found(v))
      BY <1>1, <1>2, <2>1
    <2>3. page.ok /\ page.v = Found(v)
      BY <2>2, OkFacts
    <2>4. Found(v) = [ids |-> IdsOf(InKeyOrder(hits)), more |-> Len(InKeyOrder(hits)) > size]
      BY DEF Found
    <2> HIDE DEF IdsOf
    <2>5. Found(v).ids = IdsOf(InKeyOrder(hits))
      BY <2>4, SMT
    <2>6. QED
      BY <2>3, <2>5
  <1>5. IdsOf(<< >>) = << >>
    BY SMT
  <1>6. ASSUME NEW j  PROVE IdsOf(<<j>>) = <<IDFromStorageKey(kind, j)>>
    <2> DEFINE n == IF Len(<<j>>) < size THEN Len(<<j>>) ELSE size
               p == SubSeq(<<j>>, 1, n)
    <2>1. n = 1
      BY SMT
    <2> HIDE DEF n
    <2>2. p = <<j>>
      <3>1. <<j>> \in Seq({j}) /\ Len(<<j>>) = 1 /\ <<j>>[1] = j
        BY SMT
      <3> DEFINE q == <<j>>
      <3> HIDE DEF q
      <3>2. SubSeq(q, 1, 1) = [i \in 1 .. 1 |-> q[i]]
        BY <3>1, SMT DEF q
      <3>3. p = SubSeq(q, 1, 1)
        BY <2>1 DEF q
      <3> HIDE DEF p
      <3>4. q[1] = j
        BY <3>1 DEF q
      <3>5. p = [i \in 1 .. 1 |-> j]
        <4>1. \A i \in 1 .. 1 : q[i] = j
          BY <3>4, SMT
        <4>2. QED
          BY <3>2, <3>3, <4>1
      <3>6. [i \in 1 .. 1 |-> j] = <<j>>
        BY SMT
      <3>7. QED
        BY <3>5, <3>6
    <2>3. IdsOf(<<j>>) = [i \in DOMAIN p |-> IDFromStorageKey(kind, p[i])]
      BY DEF n
    <2> HIDE DEF p
    <2>4. QED
      BY <2>2, <2>3, SMT
  <1> HIDE DEF IdsOf, value
  <1>7. ASSUME value = Ok(v), hits = {}  PROVE page.ok /\ page.v.ids = << >>
    BY <1>4, <1>5, <1>7, NoKeySorted
  <1>8. ASSUME NEW j, value = Ok(v), hits = {j}
        PROVE  page.ok /\ page.v.ids = <<IDFromStorageKey(kind, j)>>
    BY <1>4, <1>6, <1>8, OneKeySorted
  <1>9. QED
    BY <1>3, <1>7, <1>8 DEF page, value

\* A literal is typed as an id is parsed, so an equality finds the document Get
\* finds (values.go), whatever was stored and deleted before.
THEOREM LiteralsAreIds == Spec => []LiteralsAgree
  <1>1. ASSUME DInv, kind # "auto", present # {}, NEW t \in Texts
        PROVE  LET got  == Get(db["embedded"], t)
                   page == ExecutePage(db["embedded"], "eq", t, MaxDocs)
               IN  CASE got.ok -> page.ok /\ page.v.ids = <<idStringFromValue(kind, got.v)>>
                     [] got = Fail("ErrNotFound") -> page.ok /\ page.v.ids = << >>
                     [] OTHER -> ~page.ok
    <2> DEFINE d == db["embedded"]
               got == Get(d, t)
               page == ExecutePage(d, "eq", t, MaxDocs)
               hits(v) == {k \in DOMAIN d.docs : Holds("eq", CompareValues(kind, d.docs[k], v))}
    <2>1. /\ BInv /\ DatabaseOK(d) /\ Denotes(kind, d, present) /\ present \subseteq Held(kind)
          /\ MaxDocs > 0 /\ MaxDocs \in Nat /\ kind \in Kinds \ {"auto"}
      BY <1>1, BackendsAssumption DEF DInv, BInv
    <2>2. /\ DOMAIN d.docs = {KeyOf(kind, v) : v \in present}
          /\ \A v \in present : d.docs[KeyOf(kind, v)] = v
          /\ DOMAIN d.docs # {} /\ Held(kind) = Values(kind)
      <3>1. DOMAIN d.docs = {KeyOf(kind, v) : v \in present}
        BY <2>1 DEF Denotes
      <3>2. DOMAIN d.docs # {}
        BY <1>1, <3>1
      <3>3. QED
        BY <1>1, <2>1, <3>1, <3>2 DEF Denotes, Held
    <2>3. Meant(t) = scalarValueFromString(kind, t)
      BY <1>1 DEF Meant
    <2>4. ASSUME NEW v \in Values(kind)
          PROVE  hits(v) = {KeyOf(kind, w) : w \in present \cap {v}}
      <3>1. ASSUME NEW w \in present
            PROVE  Holds("eq", CompareValues(kind, d.docs[KeyOf(kind, w)], v)) <=> w = v
        <4>1. d.docs[KeyOf(kind, w)] = w /\ w \in Values(kind)
          BY <2>1, <2>2
        <4>2. QED
          BY <2>1, <4>1, EqualCompare
      <3>2. QED
        BY <2>2, <3>1
    <2>5. ASSUME NEW v
          PROVE  /\ scalarValueFromString(kind, t) = Bad => ~page.ok
                 /\ scalarValueFromString(kind, t) = Ok(v) /\ hits(v) = {} =>
                       page.ok /\ page.v.ids = << >>
                 /\ \A j : scalarValueFromString(kind, t) = Ok(v) /\ hits(v) = {j} =>
                             page.ok /\ page.v.ids = <<IDFromStorageKey(kind, j)>>
      <3>1. MaxDocs \in Nat /\ MaxDocs > 0 /\ DOMAIN d.docs # {}
        BY <2>1, <2>2
      <3> HIDE DEF d
      <3>2. QED
        BY <3>1, EqualityPage
    <2>6. CASE Meant(t) = Bad /\ got = Invalid
      <3>1. ~page.ok
        BY <2>3, <2>6, <2>5
      <3>2. ~got.ok /\ got # Fail("ErrNotFound")
        <4>1. Fail("ErrNotFound").err = "ErrNotFound" /\ Invalid.err = "invalid" /\ ~Invalid.ok
          BY FailFacts DEF Invalid
        <4>2. QED
          BY <2>6, <4>1
      <3> HIDE DEF got, page
      <3>3. QED
        BY <3>1, <3>2 DEF got, page
    <2>7. ASSUME NEW v \in present, Meant(t) = Ok(v), encodeKey(kind, t) = Ok(KeyOf(kind, v)),
                 KeyOf(kind, v) \in DOMAIN d.docs, got = Ok(d.docs[KeyOf(kind, v)])
          PROVE  got.ok /\ page.ok /\ page.v.ids = <<idStringFromValue(kind, got.v)>>
      <3>1. got.ok /\ got.v = v
        BY <2>2, <2>7, OkFacts
      <3>2. hits(v) = {KeyOf(kind, v)}
        <4>1. present \cap {v} = {v} /\ v \in Values(kind)
          BY <2>1, <2>2
        <4>2. hits(v) = {KeyOf(kind, w) : w \in present \cap {v}}
          BY <2>4, <4>1
        <4> HIDE DEF hits
        <4>3. QED
          BY <4>1, <4>2
      <3>3. page.ok /\ page.v.ids = <<IDFromStorageKey(kind, KeyOf(kind, v))>>
        BY <2>3, <2>7, <2>5, <3>2
      <3>4. IDFromStorageKey(kind, KeyOf(kind, v)) = idStringFromValue(kind, v)
        BY <1>1, <2>1, <2>2, <2>7, IdsWork
      <3>5. QED
        BY <3>1, <3>3, <3>4
    <2>8. ASSUME NEW v \in Held(kind) \ present, Meant(t) = Ok(v), got = Fail("ErrNotFound")
          PROVE  ~got.ok /\ page.ok /\ page.v.ids = << >>
      <3>1. hits(v) = {}
        <4>1. present \cap {v} = {} /\ v \in Values(kind)
          BY <2>2
        <4>2. hits(v) = {KeyOf(kind, w) : w \in present \cap {v}}
          BY <2>4, <4>1
        <4> HIDE DEF hits
        <4>3. QED
          BY <4>1, <4>2
      <3>2. page.ok /\ page.v.ids = << >>
        BY <2>3, <2>8, <2>5, <3>1
      <3>3. QED
        BY <2>8, <3>2, FailFacts
    <2>9. QED
      <3>1. \/ Meant(t) = Bad /\ got = Invalid
            \/ \E v \in present : /\ Meant(t) = Ok(v) /\ encodeKey(kind, t) = Ok(KeyOf(kind, v))
                                  /\ KeyOf(kind, v) \in DOMAIN d.docs
                                  /\ got = Ok(d.docs[KeyOf(kind, v)])
            \/ \E v \in Held(kind) \ present : Meant(t) = Ok(v) /\ got = Fail("ErrNotFound")
        BY <1>1, GetByMeaning
      <3>2. \/ Meant(t) = Bad /\ got = Invalid
            \/ got.ok /\ page.ok /\ page.v.ids = <<idStringFromValue(kind, got.v)>>
            \/ ~got.ok /\ got = Fail("ErrNotFound") /\ page.ok /\ page.v.ids = << >>
        BY <2>7, <2>8, <3>1
      <3>3. ASSUME got.ok  PROVE got # Fail("ErrNotFound")
        BY <3>3, FailFacts
      <3> HIDE DEF got, page
      <3>4. CASE Meant(t) = Bad /\ got = Invalid
        BY <2>6, <3>4 DEF got, page
      <3>5. CASE got.ok /\ page.ok /\ page.v.ids = <<idStringFromValue(kind, got.v)>>
        <4>1. (CASE got.ok -> page.ok /\ page.v.ids = <<idStringFromValue(kind, got.v)>>
                 [] got = Fail("ErrNotFound") -> page.ok /\ page.v.ids = << >>
                 [] OTHER -> ~page.ok)
          BY <3>3, <3>5
        <4>2. QED
          BY <4>1 DEF got, page
      <3>6. CASE ~got.ok /\ got = Fail("ErrNotFound") /\ page.ok /\ page.v.ids = << >>
        <4>1. (CASE got.ok -> page.ok /\ page.v.ids = <<idStringFromValue(kind, got.v)>>
                 [] got = Fail("ErrNotFound") -> page.ok /\ page.v.ids = << >>
                 [] OTHER -> ~page.ok)
          BY <3>6
        <4>2. QED
          BY <4>1 DEF got, page
      <3>7. QED
        BY <3>2, <3>4, <3>5, <3>6 DEF got, page
  <1>2. DInv => LiteralsAgree
    BY <1>1 DEF LiteralsAgree
  <1>3. QED
    BY <1>2, OneDatabase, PTL
===============================================================================
