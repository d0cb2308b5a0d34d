--------------------------------- MODULE Ids ---------------------------------
(* Document ids as text, as field values and as storage keys                 *)
(* (internal/engine/engine.go, values.go), and the encoding of indexed       *)
(* values (internal/index/index.go).  A storage key of an integer is the     *)
(* number its eight big-endian bytes spell, whose order is theirs            *)
(* (IndexKeys); 2^31 and 2^63 are Half32 and Half64.                         *)
EXTENDS Sequences, Vocabulary

CONSTANTS Half32, Half64,
          Strings   \* the texts in use, in byte order

ASSUME WidthAssumption == Half32 \in Nat \ {0} /\ Half64 \in Nat /\ Half32 <= Half64
ASSUME TextAssumption ==
  /\ DOMAIN Strings \subseteq Int
  /\ \A i \in DOMAIN Strings : Strings[i].mag \in Nat

\* The kinds of primary key: a sequence number, or a field of one of the types.
Signed   == {"int32", "int64"}
Unsigned == {"uint32", "uint64"}
Kinds    == Signed \cup Unsigned \cup {"auto", "bool", "string"}

Half(kind) == IF kind \in {"int32", "uint32"} THEN Half32 ELSE Half64

\* Text: a numeral with its sign, whether zeros lead it, and its magnitude; or
\* a word.  The empty text is the word "".
Numeral(sign, zeros, mag) == [word |-> "numeral", sign |-> sign, zeros |-> zeros, mag |-> mag]
Word(w) == [word |-> w, sign |-> "", zeros |-> FALSE, mag |-> 0]

Ok(v) == [ok |-> TRUE, v |-> v]
Bad   == [ok |-> FALSE]
------------------------------------------------------------------------------
(* strconv.                                                                  *)

ParseInt(t, half) ==
  LET n == IF t.sign = "-" THEN -t.mag ELSE t.mag
  IN  IF t.word = "numeral" /\ n \in -half .. half - 1 THEN Ok(n) ELSE Bad

\* No sign is accepted.
ParseUint(t, half) ==
  IF t.word = "numeral" /\ t.sign = "" /\ t.mag < 2 * half THEN Ok(t.mag) ELSE Bad

ParseBool(t) ==
  CASE t = Numeral("", FALSE, 1) \/ t.word \in {"true", "True", "TRUE", "t", "T"} -> Ok(TRUE)
    [] t = Numeral("", FALSE, 0) \/ t.word \in {"false", "False", "FALSE", "f", "F"} -> Ok(FALSE)
    [] OTHER -> Bad

FormatInt(n)  == IF n < 0 THEN Numeral("-", FALSE, -n) ELSE Numeral("", FALSE, n)
FormatBool(b) == IF b THEN Word("true") ELSE Word("false")

\* Go's conversions between the two integer types.
uint64(n) == IF n < 0 THEN n + 2 * Half64 ELSE n
int64(u)  == IF u < Half64 THEN u ELSE u - 2 * Half64
------------------------------------------------------------------------------
(* Ids and keys.                                                             *)

\* Plausible bug: a key of a 32-bit field is parsed with 64 bits.
encodeKeyWide(kind, id) ==
  CASE kind \in Signed -> LET n == ParseInt(id, Half64) IN IF n.ok THEN Ok(uint64(n.v)) ELSE Bad
    [] kind \in Unsigned \cup {"auto"} -> ParseUint(id, Half64)
    [] kind = "bool" -> LET b == ParseBool(id) IN IF b.ok THEN Ok(FormatBool(b.v)) ELSE Bad
    [] kind = "string" -> Ok(id)

\* Plausible bug: a bool's key is the text it was asked for with.
encodeKeyRaw(kind, id) ==
  CASE kind \in Signed ->
         LET n == ParseInt(id, Half(kind)) IN IF n.ok THEN Ok(uint64(n.v)) ELSE Bad
    [] kind \in Unsigned \cup {"auto"} -> ParseUint(id, Half(kind))
    [] kind = "bool" -> IF ParseBool(id).ok THEN Ok(id) ELSE Bad
    [] kind = "string" -> Ok(id)

encodeKey(kind, id) ==
  CASE kind \in Signed ->
         LET n == ParseInt(id, Half(kind)) IN IF n.ok THEN Ok(uint64(n.v)) ELSE Bad
    [] kind \in Unsigned \cup {"auto"} -> ParseUint(id, Half(kind))
    [] kind = "bool" -> LET b == ParseBool(id) IN IF b.ok THEN Ok(FormatBool(b.v)) ELSE Bad
    [] kind = "string" -> Ok(id)

\* Plausible bug: the bytes of a signed key are rendered as they are.
IDFromStorageKeyUnsigned(kind, key) ==
  IF kind \in {"bool", "string"} THEN key ELSE FormatInt(key)

IDFromStorageKey(kind, key) ==
  CASE kind \in Signed -> FormatInt(int64(key))
    [] kind \in Unsigned \cup {"auto"} -> FormatInt(key)
    [] kind \in {"bool", "string"} -> key

\* The id of a field's value.
idStringFromValue(kind, v) ==
  CASE kind \in Signed \cup Unsigned -> FormatInt(v)
    [] kind = "bool" -> FormatBool(v)
    [] kind = "string" -> v

\* A literal typed against the field it is compared with.
scalarValueFromString(kind, t) ==
  CASE kind \in Signed -> ParseInt(t, Half(kind))
    [] kind \in Unsigned -> ParseUint(t, Half(kind))
    [] kind = "bool" -> ParseBool(t)
    [] kind = "string" -> Ok(t)
------------------------------------------------------------------------------
(* Order.                                                                    *)

boolToInt(b) == IF b THEN 1 ELSE 0

ByteOrder(t) == CHOOSE i \in DOMAIN Strings : Strings[i] = t

CompareValues(kind, v, w) ==
  CASE kind = "bool" -> cmp(boolToInt(v), boolToInt(w))
    [] kind \in Signed \cup Unsigned -> cmp(v, w)
    [] kind = "string" -> cmp(ByteOrder(v), ByteOrder(w))

FlipSign(u) == IF u < Half64 THEN u + Half64 ELSE u - Half64

\* Plausible bug: the sign bit is left as it is.
EncodeValueUnflipped(kind, v) ==
  CASE kind = "bool" -> boolToInt(v)
    [] kind \in Unsigned -> v
    [] kind \in Signed -> uint64(v)
    [] kind = "string" -> ByteOrder(v)

\* The bytes of an indexed value, by the place they have in byte order.
EncodeValue(kind, v) ==
  CASE kind = "bool" -> boolToInt(v)
    [] kind \in Unsigned -> v
    [] kind \in Signed -> FlipSign(uint64(v))
    [] kind = "string" -> ByteOrder(v)
==============================================================================
