------------------------------ MODULE IndexKeys ------------------------------
(***************************************************************************)
(* Byte encodings of primary keys and of secondary-index entries           *)
(* (internal/index/index.go, internal/engine/engine.go).  A byte string is *)
(* a sequence of digits 0 .. Base-1; the code has Base = 256 and integers  *)
(* of Width = 8 bytes.                                                     *)
(***************************************************************************)
EXTENDS Integers, Sequences

CONSTANTS Base,   \* number of byte values
          Width   \* bytes of an encoded integer

ASSUME EncodingAssumption == Base \in Nat \ {0, 1} /\ Width \in Nat \ {0}

Byte == 0 .. Base - 1

\* The separator between an encoded value and the primary key.
sep == 0

\* Big-endian, fixed width, so that byte order is numeric order.
encodeUint(n) == [i \in 1 .. Width |-> (n \div Base^(Width - i)) % Base]

\* One index bucket key: the value, the separator, the primary key.
EntryKey(encodedValue, primaryKey) == encodedValue \o <<sep>> \o primaryKey

\* What every entry of a value starts with.
LookupPrefix(encodedValue) == encodedValue \o <<sep>>

\* bytes.HasPrefix, the stop condition of PrefixScan.
HasPrefix(k, prefix) ==
  /\ Len(prefix) <= Len(k)
  /\ \A i \in 1 .. Len(prefix) : k[i] = prefix[i]

\* PrefixScan over the keys of a bucket.
PrefixScan(bucket, prefix) == {k \in bucket : HasPrefix(k, prefix)}

\* The primary key back from an entry, given the length of the value.
PrimaryKeyFromEntry(entryKey, encodedValueLen) ==
  IF encodedValueLen + 1 > Len(entryKey) THEN << >>
  ELSE SubSeq(entryKey, encodedValueLen + 2, Len(entryKey))

\* No value continues another one with the separator: true of values without
\* an embedded NUL and of values of one fixed width, false of strings in
\* general, which the package leaves out of scope.
Unambiguous(values) ==
  \A v, w \in values : Len(v) < Len(w) => w[Len(v) + 1] # sep
==============================================================================
