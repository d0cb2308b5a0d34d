----------------------------- MODULE EngineProofs -----------------------------
(***************************************************************************)
(* The safety of the engine for any number of clients, collections, fields *)
(* and values, and for any behaviour of the schema registry, as long as no *)
(* value continues another one with the separator byte.                    *)
(***************************************************************************)
EXTENDS Engine, SequenceTheorems, TLAPS

\* The index encoding, for every alphabet and every length: an entry stands
\* for one value and one primary key, and a prefix scan for a value finds
\* exactly its entries and gives their keys back.
Bytes == Seq(Byte)

\* Length and elements of an entry (EntryKey): the value, the separator, then
\* the primary key.
LEMMA EntryShape ==
  ASSUME NEW v \in Bytes, NEW k \in Bytes
  PROVE  /\ EntryKey(v, k) \in Bytes
         /\ Len(EntryKey(v, k)) = Len(v) + 1 + Len(k)
         /\ \A i \in 1 .. Len(v) : EntryKey(v, k)[i] = v[i]
         /\ EntryKey(v, k)[Len(v) + 1] = sep
         /\ \A i \in 1 .. Len(k) : EntryKey(v, k)[Len(v) + 1 + i] = k[i]
  <1>1. sep \in Byte /\ <<sep>> \in Bytes /\ Len(<<sep>>) = 1 /\ <<sep>>[1] = sep
    BY EncodingAssumption DEF sep, Byte, Bytes
  <1> DEFINE p == v \o <<sep>>
  <1>2. /\ p \in Bytes
        /\ Len(p) = Len(v) + 1
        /\ \A i \in 1 .. Len(v) : p[i] = v[i]
        /\ p[Len(v) + 1] = sep
    BY <1>1, ConcatProperties DEF Bytes
  <1>3. EntryKey(v, k) = p \o k
    BY DEF EntryKey
  <1>4. Len(v) \in Nat /\ Len(k) \in Nat
    BY DEF Bytes
  <1> HIDE DEF p
  <1>5. /\ p \o k \in Bytes
        /\ Len(p \o k) = Len(p) + Len(k)
        /\ \A i \in 1 .. Len(p) + Len(k) :
             (p \o k)[i] = IF i <= Len(p) THEN p[i] ELSE k[i - Len(p)]
    BY <1>2, ConcatProperties DEF Bytes
  <1>6. \A i \in 1 .. Len(v) : (p \o k)[i] = v[i]
    BY <1>2, <1>4, <1>5
  <1>7. (p \o k)[Len(v) + 1] = sep
    BY <1>2, <1>4, <1>5
  <1>8. \A i \in 1 .. Len(k) : (p \o k)[Len(v) + 1 + i] = k[i]
    <2> TAKE i \in 1 .. Len(k)
    <2>1. Len(p) + i \in 1 .. Len(p) + Len(k) /\ ~(Len(p) + i <= Len(p)) /\ Len(p) + i - Len(p) = i
      BY <1>2, <1>4
    <2>2. QED
      BY <2>1, <1>2, <1>5
  <1>9. QED
    BY <1>2, <1>3, <1>5, <1>6, <1>7, <1>8

\* The scan prefix of a value (LookupPrefix).
LEMMA PrefixShape ==
  ASSUME NEW v \in Bytes
  PROVE  /\ Len(LookupPrefix(v)) = Len(v) + 1
         /\ \A i \in 1 .. Len(v) : LookupPrefix(v)[i] = v[i]
         /\ LookupPrefix(v)[Len(v) + 1] = sep
  <1>1. sep \in Byte /\ <<sep>> \in Bytes /\ Len(<<sep>>) = 1 /\ <<sep>>[1] = sep
    BY EncodingAssumption DEF sep, Byte, Bytes
  <1>2. QED
    BY <1>1, ConcatProperties DEF Bytes, LookupPrefix

\* A prefix scan for a value finds the entries of that value and of no other
\* (LookupByIndex over PrefixScan), when no value continues another with a NUL.
THEOREM LookupExact ==
  ASSUME NEW values \in SUBSET Bytes, Unambiguous(values),
         NEW v \in values, NEW w \in values, NEW k \in Bytes
  PROVE  HasPrefix(EntryKey(w, k), LookupPrefix(v)) <=> v = w
  <1>1. v \in Bytes /\ w \in Bytes
    OBVIOUS
  <1>2. Len(v) \in Nat /\ Len(w) \in Nat /\ Len(k) \in Nat
    BY <1>1 DEF Bytes
  <1>e. /\ Len(EntryKey(w, k)) = Len(w) + 1 + Len(k)
        /\ \A i \in 1 .. Len(w) : EntryKey(w, k)[i] = w[i]
        /\ EntryKey(w, k)[Len(w) + 1] = sep
    BY <1>1, EntryShape
  <1>p. /\ Len(LookupPrefix(v)) = Len(v) + 1
        /\ \A i \in 1 .. Len(v) : LookupPrefix(v)[i] = v[i]
        /\ LookupPrefix(v)[Len(v) + 1] = sep
    BY <1>1, PrefixShape
  <1>3. v = w => HasPrefix(EntryKey(w, k), LookupPrefix(v))
    <2> SUFFICES ASSUME v = w, NEW i \in 1 .. Len(v) + 1
                 PROVE  EntryKey(w, k)[i] = LookupPrefix(v)[i]
      BY <1>2, <1>e, <1>p DEF HasPrefix
    <2>1. i \in 1 .. Len(v) \/ i = Len(v) + 1
      BY <1>2
    <2>2. QED
      BY <2>1, <1>e, <1>p
  <1>4. ASSUME HasPrefix(EntryKey(w, k), LookupPrefix(v))
        PROVE  v = w
    <2>1. \A i \in 1 .. Len(v) + 1 : EntryKey(w, k)[i] = LookupPrefix(v)[i]
      BY <1>4, <1>p DEF HasPrefix
    <2>2. ~(Len(v) < Len(w))
      <3> SUFFICES ASSUME Len(v) < Len(w) PROVE FALSE
        OBVIOUS
      <3>1. Len(v) + 1 \in 1 .. Len(v) + 1 /\ Len(v) + 1 \in 1 .. Len(w)
        BY <1>2
      <3>2. w[Len(v) + 1] = sep
        BY <2>1, <3>1, <1>e, <1>p
      <3>3. QED
        BY <3>2 DEF Unambiguous
    <2>3. ~(Len(w) < Len(v))
      <3> SUFFICES ASSUME Len(w) < Len(v) PROVE FALSE
        OBVIOUS
      <3>1. Len(w) + 1 \in 1 .. Len(v) + 1 /\ Len(w) + 1 \in 1 .. Len(v)
        BY <1>2
      <3>2. v[Len(w) + 1] = sep
        BY <2>1, <3>1, <1>e, <1>p
      <3>3. QED
        BY <3>2 DEF Unambiguous
    <2>4. Len(v) = Len(w)
      BY <1>2, <2>2, <2>3
    <2>5. \A i \in 1 .. Len(v) : v[i] = w[i]
      BY <1>2, <2>1, <2>4, <1>e, <1>p
    <2>6. QED
      BY <1>1, <2>4, <2>5, SeqEqual DEF Bytes
  <1>5. QED
    BY <1>3, <1>4

\* The primary key comes back out of an entry (PrimaryKeyFromEntry).
THEOREM KeyRecovered ==
  ASSUME NEW v \in Bytes, NEW k \in Bytes
  PROVE  PrimaryKeyFromEntry(EntryKey(v, k), Len(v)) = k
  <1> DEFINE e == EntryKey(v, k)
             r == SubSeq(e, Len(v) + 2, Len(e))
  <1>0. /\ Len(e) = Len(v) + 1 + Len(k)
        /\ \A i \in 1 .. Len(k) : e[Len(v) + 1 + i] = k[i]
    BY EntryShape
  <1>a. Len(v) \in Nat /\ Len(k) \in Nat /\ \A i \in 1 .. Len(k) : k[i] \in Byte
    BY DEF Bytes
  <1>1. Len(v) \in Nat /\ Len(k) \in Nat /\ Len(e) = Len(v) + 1 + Len(k)
    BY <1>0, <1>a
  <1>2. \A i \in 1 .. Len(k) : e[Len(v) + 1 + i] = k[i] /\ k[i] \in Byte
    BY <1>0, <1>a
  <1>3. \A i \in Len(v) + 2 .. Len(e) : e[i] \in Byte
    <2> TAKE i \in Len(v) + 2 .. Len(e)
    <2>1. i - Len(v) - 1 \in 1 .. Len(k) /\ Len(v) + 1 + (i - Len(v) - 1) = i
      BY <1>1
    <2>2. QED
      BY <2>1, <1>2
  <1> HIDE DEF e
  <1>4. /\ r \in Seq(Byte)
        /\ Len(r) = IF Len(v) + 2 <= Len(e) THEN Len(e) - (Len(v) + 2) + 1 ELSE 0
        /\ \A i \in 1 .. Len(e) - (Len(v) + 2) + 1 : r[i] = e[Len(v) + 2 + i - 1]
    BY <1>1, <1>3, SubSeqProperties
  <1> HIDE DEF r
  <1>5. Len(r) = Len(k)
    BY <1>1, <1>4
  <1>6. \A i \in 1 .. Len(k) : r[i] = k[i]
    <2> TAKE i \in 1 .. Len(k)
    <2>1. i \in 1 .. Len(e) - (Len(v) + 2) + 1 /\ Len(v) + 2 + i - 1 = Len(v) + 1 + i
      BY <1>1
    <2>2. QED
      BY <2>1, <1>2, <1>4
  <1>7. r = k
    BY <1>4, <1>5, <1>6, SeqEqual DEF Bytes
  <1>8. ~(Len(v) + 1 > Len(e))
    BY <1>1
  <1>9. QED
    BY <1>7, <1>8 DEF PrimaryKeyFromEntry, e, r

\* Two documents share an index entry only if they have the same value and the
\* same key (EntryKey), so deleting one entry never removes another's.
THEOREM EntryKeyInjective ==
  ASSUME NEW values \in SUBSET Bytes, Unambiguous(values),
         NEW v \in values, NEW w \in values, NEW k \in Bytes, NEW l \in Bytes,
         EntryKey(v, k) = EntryKey(w, l)
  PROVE  v = w /\ k = l
  <1>1. v = w
    <2>1. HasPrefix(EntryKey(v, k), LookupPrefix(v))
      BY LookupExact
    <2>2. HasPrefix(EntryKey(w, l), LookupPrefix(v))
      BY <2>1
    <2>3. QED
      BY <2>2, LookupExact
  <1>2. k = l
    BY <1>1, KeyRecovered
  <1>3. QED
    BY <1>1, <1>2

\* ---- The engine ----

\* First-order steps; those that need arithmetic, records or functions name SMT.
USE Zenon

\* Values and keys are byte strings.
LEMMA ByteStrings == Vals \in SUBSET Bytes /\ Key \in SUBSET Bytes
  BY EngineAssumption, SequenceFits DEF Bytes, Key

\* Nothing that is stored is None.
LEMMA NoneIsNothing ==
  /\ \A d \in Doc : d # None
  /\ \A k \in Key : k # None
  /\ \A m \in Meta : m # None
  BY EngineAssumption

\* Writing a document under a free key keeps a collection sound (Insert).
LEMMA PutNewOK ==
  ASSUME Unambiguous(Vals),
         NEW col \in Coll, NEW k \in Key, NEW doc \in Doc,
         CollOK(col), col.meta # None, col.data[k] = None,
         IF col.meta.keyField = AutoKey THEN k \in Minted(col)
         ELSE doc[col.meta.keyField] = k
  PROVE  PutNew(col, k, doc) \in Coll /\ CollOK(PutNew(col, k, doc))
  <1> DEFINE new == PutNew(col, k, doc)
  <1>1. /\ col.meta \in Meta /\ col.data \in [Key -> Doc \cup {None}]
        /\ col.idx \in [Fields -> SUBSET Entry] /\ col.seq \in 0 .. MaxSeq
    BY DEF Coll
  <1>0. new = [meta |-> col.meta, data |-> [col.data EXCEPT ![k] = doc],
               idx |-> indexInsert(col, k, doc), seq |-> col.seq]
    BY DEF PutNew, With
  <1>2. /\ new.meta = col.meta /\ new.seq = col.seq
        /\ new.data = [col.data EXCEPT ![k] = doc]
        /\ new.idx = indexInsert(col, k, doc)
    BY <1>0, SMT
  <1>3. new.data \in [Key -> Doc \cup {None}]
    BY <1>1, <1>2
  <1>4. \A f \in Fields : EntryKey(doc[f], k) \in Entry
    BY SMT DEF Entry, Doc
  <1>5. new.idx \in [Fields -> SUBSET Entry]
    BY <1>1, <1>2, <1>4, SMT DEF indexInsert
  <1>6. new \in Coll
    BY <1>0, <1>1, <1>2, <1>3, <1>5 DEF Coll
  <1> HIDE DEF new
  <1>7. Present(new) = Present(col) \cup {k}
    BY <1>1, <1>2, NoneIsNothing, SMT DEF Present
  <1>8. Agrees(new)
    <2> SUFFICES ASSUME NEW f \in Fields PROVE new.idx[f] = ExpectedEntries(new, f)
      BY DEF Agrees
    <2>1. CASE f \notin col.meta.indexes
      BY <2>1, <1>2 DEF CollOK, Agrees, ExpectedEntries, indexInsert
    <2>2. CASE f \in col.meta.indexes
      <3>1. col.idx[f] = {EntryKey(col.data[x][f], x) : x \in Present(col)}
        BY <2>2 DEF CollOK, Agrees, ExpectedEntries
      <3>2. new.idx[f] = col.idx[f] \cup {EntryKey(doc[f], k)}
        BY <2>2, <1>2 DEF indexInsert
      <3>3. \A x \in Present(col) : new.data[x] = col.data[x]
        BY <1>1, <1>2 DEF Present
      <3>4. new.data[k] = doc
        BY <1>1, <1>2
      <3>5. {EntryKey(new.data[x][f], x) : x \in Present(new)}
              = {EntryKey(col.data[x][f], x) : x \in Present(col)} \cup {EntryKey(doc[f], k)}
        BY <1>7, <3>3, <3>4, SMT
      <3>6. QED
        BY <2>2, <1>2, <3>1, <3>2, <3>5 DEF ExpectedEntries
    <2>3. QED
      BY <2>1, <2>2
  <1>9. \A x \in Present(new) : IF new.meta.keyField = AutoKey THEN x \in Minted(new)
                                ELSE new.data[x][new.meta.keyField] = x
    BY <1>1, <1>2, <1>7 DEF CollOK, Minted, Present
  <1>10. QED
    BY <1>2, <1>6, <1>8, <1>9 DEF CollOK, new

\* Removing a document and its entries keeps a collection sound (Delete): no
\* other document shares one of those entries.
LEMMA DeleteOldOK ==
  ASSUME Unambiguous(Vals),
         NEW col \in Coll, NEW k \in Key,
         CollOK(col), col.meta # None, col.data[k] # None
  PROVE  DeleteOld(col, k) \in Coll /\ CollOK(DeleteOld(col, k))
  <1> DEFINE new == DeleteOld(col, k)
             old == col.data[k]
  <1>1. /\ col.meta \in Meta /\ col.data \in [Key -> Doc \cup {None}]
        /\ col.idx \in [Fields -> SUBSET Entry] /\ col.seq \in 0 .. MaxSeq
    BY DEF Coll
  <1>0. new = [meta |-> col.meta, data |-> [col.data EXCEPT ![k] = None],
               idx |-> indexDelete(col, k, old), seq |-> col.seq]
    BY DEF DeleteOld, With
  <1>2. /\ new.meta = col.meta /\ new.seq = col.seq
        /\ new.data = [col.data EXCEPT ![k] = None]
        /\ new.idx = indexDelete(col, k, old)
    BY <1>0, SMT
  <1>3. new.data \in [Key -> Doc \cup {None}]
    BY <1>1, <1>2
  <1>4. new.idx \in [Fields -> SUBSET Entry]
    BY <1>1, <1>2, SMT DEF indexDelete
  <1>5. new \in Coll
    BY <1>0, <1>1, <1>2, <1>3, <1>4 DEF Coll
  <1> HIDE DEF new
  <1>6. Present(new) = Present(col) \ {k}
    BY <1>1, <1>2 DEF Present
  <1>7. k \in Present(col) /\ Present(col) \subseteq Key
    BY DEF Present
  <1>8. Agrees(new)
    <2> SUFFICES ASSUME NEW f \in Fields PROVE new.idx[f] = ExpectedEntries(new, f)
      BY DEF Agrees
    <2>1. CASE f \notin col.meta.indexes
      BY <2>1, <1>2 DEF CollOK, Agrees, ExpectedEntries, indexDelete
    <2>2. CASE f \in col.meta.indexes
      <3>1. col.idx[f] = {EntryKey(col.data[x][f], x) : x \in Present(col)}
        BY <2>2 DEF CollOK, Agrees, ExpectedEntries
      <3>2. new.idx[f] = col.idx[f] \ {EntryKey(old[f], k)}
        BY <2>2, <1>2 DEF indexDelete
      <3>3. \A x \in Present(new) : new.data[x] = col.data[x]
        BY <1>1, <1>2, <1>6, <1>7
      <3>4. \A x \in Present(col) : x \in Bytes /\ col.data[x][f] \in Vals
        BY <1>1, ByteStrings DEF Present, Doc
      <3>5. \A x \in Present(col) :
              EntryKey(col.data[x][f], x) = EntryKey(old[f], k) => x = k
        BY <1>7, <3>4, ByteStrings, EntryKeyInjective, SMT
      <3>6. {EntryKey(new.data[x][f], x) : x \in Present(new)}
              = {EntryKey(col.data[x][f], x) : x \in Present(col)} \ {EntryKey(old[f], k)}
        BY <1>6, <1>7, <3>3, <3>5
      <3>7. QED
        BY <2>2, <1>2, <3>1, <3>2, <3>6 DEF ExpectedEntries
    <2>3. QED
      BY <2>1, <2>2
  <1>9. \A x \in Present(new) : IF new.meta.keyField = AutoKey THEN x \in Minted(new)
                                ELSE new.data[x][new.meta.keyField] = x
    BY <1>1, <1>2, <1>6, <1>7 DEF CollOK, Minted
  <1>10. QED
    BY <1>2, <1>5, <1>8, <1>9 DEF CollOK, new

\* Replacing a document is removing it and writing the new one (Update).
LEMMA ReplaceOK ==
  ASSUME Unambiguous(Vals),
         NEW col \in Coll, NEW k \in Key, NEW doc \in Doc,
         CollOK(col), col.meta # None, col.data[k] # None,
         col.meta.keyField # AutoKey => doc[col.meta.keyField] = k
  PROVE  Replace(col, k, doc) \in Coll /\ CollOK(Replace(col, k, doc))
  <1> DEFINE mid == DeleteOld(col, k)
  <1>1. mid \in Coll /\ CollOK(mid)
    BY DeleteOldOK
  <1>2. mid.meta = col.meta /\ mid.seq = col.seq /\ mid.idx = indexDelete(col, k, col.data[k])
        /\ mid.data = [col.data EXCEPT ![k] = None]
    BY DEF DeleteOld, With
  <1>3. col.data \in [Key -> Doc \cup {None}]
    BY DEF Coll
  <1>4. Replace(col, k, doc) = PutNew(mid, k, doc)
    <2>1. [mid.data EXCEPT ![k] = doc] = [col.data EXCEPT ![k] = doc]
      BY <1>2, <1>3
    <2>2. indexInsert(With(col, col.data, indexDelete(col, k, col.data[k])), k, doc)
            = indexInsert(mid, k, doc)
      BY <1>2 DEF indexInsert, With
    <2>3. QED
      BY <1>2, <2>1, <2>2 DEF Replace, PutNew, With
  <1>5. mid.data[k] = None
    BY <1>2, <1>3
  <1>6. IF mid.meta.keyField = AutoKey THEN k \in Minted(mid) ELSE doc[mid.meta.keyField] = k
    BY <1>2 DEF CollOK, Minted, Present
  <1> HIDE DEF mid
  <1>7. mid.meta # None
    BY <1>2
  <1>8. PutNew(mid, k, doc) \in Coll /\ CollOK(PutNew(mid, k, doc))
    BY <1>1, <1>5, <1>6, <1>7, PutNewOK
  <1>9. QED
    BY <1>4, <1>8

\* The next number of the sequence names no stored document, and advancing the
\* sequence keeps a collection sound (NextSequence in deriveKey).
LEMMA NextSequenceOK ==
  ASSUME NEW col \in Coll, CollOK(col), col.meta # None, col.seq < MaxSeq
  PROVE  /\ NextSequence(col) \in Coll /\ CollOK(NextSequence(col))
         /\ NextSequence(col).meta = col.meta
         /\ NextSequence(col).data = col.data
         /\ NextSequence(col).seq = col.seq + 1
         /\ encodeUint(col.seq + 1) \in Key
         /\ encodeUint(col.seq + 1) \in Minted(NextSequence(col))
         /\ col.meta.keyField = AutoKey => col.data[encodeUint(col.seq + 1)] = None
  <1> DEFINE new == NextSequence(col)
             k   == encodeUint(col.seq + 1)
  <1>1. /\ col.meta \in Meta /\ col.data \in [Key -> Doc \cup {None}]
        /\ col.idx \in [Fields -> SUBSET Entry] /\ col.seq \in 0 .. MaxSeq
        /\ MaxSeq \in Nat
    BY EngineAssumption DEF Coll
  <1>2. /\ new.meta = col.meta /\ new.data = col.data /\ new.idx = col.idx
        /\ new.seq = col.seq + 1 /\ new \in Coll
    BY <1>1, SMT DEF NextSequence, Coll
  <1>3. col.seq + 1 \in 1 .. MaxSeq /\ k \in Key
    BY <1>1, SMT DEF Key, AutoKeys
  <1> HIDE DEF new
  <1>4. Minted(col) \subseteq Minted(new) /\ k \in Minted(new)
    BY <1>1, <1>2, SMT DEF Minted
  <1>5. k \notin Minted(col)
    BY <1>1, <1>3, SequenceFits, SMT DEF Minted
  <1>6. col.meta.keyField = AutoKey => col.data[k] = None
    BY <1>3, <1>5 DEF CollOK, Present
  <1>7. Present(new) = Present(col)
    BY <1>2 DEF Present
  <1>8. Agrees(new)
    <2> SUFFICES ASSUME NEW f \in Fields PROVE new.idx[f] = ExpectedEntries(new, f)
      BY DEF Agrees
    <2>1. {EntryKey(new.data[x][f], x) : x \in Present(new)}
            = {EntryKey(col.data[x][f], x) : x \in Present(col)}
      BY <1>2, <1>7
    <2>2. col.idx[f] = ExpectedEntries(col, f)
      BY DEF CollOK, Agrees
    <2>3. QED
      BY <1>2, <2>1, <2>2 DEF ExpectedEntries
  <1>9. CollOK(new)
    BY <1>2, <1>4, <1>7, <1>8 DEF CollOK
  <1>10. QED
    BY <1>2, <1>3, <1>4, <1>6, <1>9 DEF new

\* What a call carries, by its kind.
LEMMA OpShape ==
  ASSUME NEW o \in Op
  PROVE  /\ o.coll \in Colls
         /\ o.kind \in {"create", "insert", "update", "delete", "get", "lookup"}
         /\ o.kind = "create" => o.meta \in Meta
         /\ o.kind \in {"insert", "update"} => o.doc \in Doc
         /\ o.kind \in {"update", "delete", "get"} => o.id \in Key
         /\ o.kind = "lookup" => o.field \in Fields /\ o.value \in Vals
  BY EngineAssumption DEF Op

\* An empty collection is sound.
LEMMA EmptyOK == EmptyColl \in Coll /\ CollOK(EmptyColl)
  <1>1. EmptyColl \in Coll
    BY EngineAssumption, SMT DEF EmptyColl, Coll
  <1>2. Present(EmptyColl) = {}
    BY DEF EmptyColl, Present
  <1>3. Agrees(EmptyColl)
    BY DEF EmptyColl, Agrees, ExpectedEntries
  <1>4. EmptyColl.meta = None
    BY DEF EmptyColl
  <1>5. QED
    BY <1>1, <1>2, <1>3, <1>4 DEF CollOK

\* A collection without documents stays sound when it is defined.
LEMMA PutMetaOK ==
  ASSUME NEW col \in Coll, NEW m \in Meta, CollOK(col), col.meta = None
  PROVE  [col EXCEPT !.meta = m] \in Coll /\ CollOK([col EXCEPT !.meta = m])
  <1> DEFINE new == [col EXCEPT !.meta = m]
  <1>1. /\ new \in Coll /\ new.meta = m /\ new.data = col.data
        /\ new.idx = col.idx /\ new.seq = col.seq
    BY DEF Coll
  <1>2. Present(new) = {} /\ Present(col) = {}
    BY <1>1 DEF Present, CollOK
  <1>3. \A f \in Fields : new.idx[f] = {}
    BY <1>1 DEF CollOK, Agrees, ExpectedEntries
  <1> HIDE DEF new
  <1>4. Agrees(new)
    BY <1>2, <1>3 DEF Agrees, ExpectedEntries
  <1>5. CollOK(new)
    BY <1>1, <1>2, <1>4, NoneIsNothing DEF CollOK
  <1>6. QED
    BY <1>1, <1>5 DEF new

\* An index lookup on a sound collection returns the keys of the documents that
\* hold the value, no more and no fewer (LookupByIndex).
THEOREM LookupIsExact ==
  ASSUME Unambiguous(Vals), NEW col \in Coll, CollOK(col), col.meta # None,
         NEW f \in col.meta.indexes, NEW v \in Vals
  PROVE  LookupByIndex(col, f, v) = {k \in Present(col) : col.data[k][f] = v}
  <1>1. f \in Fields
    BY DEF Coll, Meta
  <1>2. col.idx[f] = {EntryKey(col.data[k][f], k) : k \in Present(col)}
    BY <1>1 DEF CollOK, Agrees, ExpectedEntries
  <1>3. \A k \in Present(col) : k \in Bytes /\ col.data[k][f] \in Vals
    BY <1>1, ByteStrings DEF Present, Coll, Doc
  <1>4. \A k \in Present(col) :
          HasPrefix(EntryKey(col.data[k][f], k), LookupPrefix(v)) <=> col.data[k][f] = v
    BY <1>3, ByteStrings, LookupExact, SMT
  <1>5. PrefixScan(col.idx[f], LookupPrefix(v))
          = {EntryKey(v, k) : k \in {x \in Present(col) : col.data[x][f] = v}}
    BY <1>2, <1>4 DEF PrefixScan
  <1>6. \A k \in Present(col) : PrimaryKeyFromEntry(EntryKey(v, k), Len(v)) = k
    BY <1>3, ByteStrings, KeyRecovered
  <1>7. QED
    BY <1>5, <1>6, SMT DEF LookupByIndex

-------------------------------------------------------------------------------
(* The inductive invariant.                                                *)

LEMMA InitOK == Init => IInv
  <1> SUFFICES ASSUME Init PROVE IInv
    OBVIOUS
  <1>1. TypeOK
    BY EmptyOK DEF Init, TypeOK
  <1>2. QED
    BY <1>1, EmptyOK DEF Init, IInv, TxOK, ViewOK

\* The facts about the writer that every stage starts from.
LEMMA WriterFacts ==
  ASSUME IInv, wtx # None
  PROVE  /\ wtx \in WriteTx /\ wtx.cl \in Clients /\ wtx.work \in Coll
         /\ op \in Op /\ op # None /\ StageOK(wtx, op) /\ desc \in Descs \cup {NoType}
         /\ CollOK(wtx.work) /\ wtx.work.meta \in Meta \cup {None}
  <1>1. wtx \in WriteTx
    BY DEF IInv, TypeOK
  <1>2. wtx.cl \in Clients /\ wtx.work \in Coll
    BY <1>1 DEF WriteTx
  <1>3. op \in Op /\ op # None /\ StageOK(wtx, op)
    BY <1>2 DEF IInv, TypeOK, TxOK, op
  <1>4. CollOK(wtx.work) /\ wtx.work.meta \in Meta \cup {None}
    BY <1>2, <1>3 DEF StageOK, Coll
  <1>5. QED
    BY <1>1, <1>2, <1>3, <1>4 DEF IInv, TypeOK

\* A stage that hands a sound transaction to the next one, or rolls back,
\* preserves the invariant.
LEMMA TxStepOK ==
  ASSUME IInv, NEW stage, NEW ok, NEW t, TxStep(stage, ok, t),
         ok => t \in WriteTx /\ t.cl = wtx.cl /\ StageOK(t, op)
  PROVE  IInv'
  <1>1. /\ wtx # None /\ UNCHANGED <<store, desc, view, call>>
    BY DEF TxStep
  <1>2. wtx.cl \in Clients
    BY <1>1, WriterFacts
  <1>3. CASE ok /\ wtx' = t /\ UNCHANGED res
    <2>1. TypeOK'
      BY <1>1, <1>3 DEF IInv, TypeOK
    <2>2. TxOK'
      BY <1>1, <1>3 DEF IInv, TxOK, op
    <2>3. ViewOK'
      BY <1>1, <1>3 DEF IInv, ViewOK
    <2>4. QED
      BY <1>1, <1>3, <2>1, <2>2, <2>3 DEF IInv
  <1>4. CASE ~ok /\ wtx' = None /\ res' = [res EXCEPT ![wtx.cl] = Error]
    <2>1. TypeOK'
      BY <1>1, <1>2, <1>4 DEF IInv, TypeOK, Result
    <2>2. TxOK'
      BY <1>4 DEF TxOK
    <2>3. view[wtx.cl] = None /\ call[wtx.cl] # None
      BY <1>1 DEF IInv, TxOK
    <2>4. ViewOK'
      BY <1>1, <1>4, <2>3 DEF IInv, ViewOK, TypeOK
    <2>5. \A p \in Clients : call'[p] = None => res'[p] = None
      BY <1>1, <1>2, <1>4, <2>3 DEF IInv, TypeOK
    <2>6. QED
      BY <1>1, <2>1, <2>2, <2>4, <2>5 DEF IInv
  <1>5. QED
    BY <1>3, <1>4 DEF TxStep

LEMMA getMetaOK == IInv /\ getMeta => IInv'
  <1> SUFFICES ASSUME IInv, getMeta PROVE IInv'
    OBVIOUS
  <1> DEFINE t == [wtx EXCEPT !.stage = IF op.kind = "insert" THEN "parse" ELSE "load"]
  <1>1. wtx # None /\ wtx.stage = "getMeta"
    BY DEF getMeta, TxStep
  <1>2. wtx.work.meta # None => t \in WriteTx /\ t.cl = wtx.cl /\ StageOK(t, op)
    BY <1>1, WriterFacts DEF StageOK, WriteTx, Stages
  <1>3. QED
    BY <1>2, TxStepOK DEF getMeta

LEMMA loadOldOK == IInv /\ loadOld => IInv'
  <1> SUFFICES ASSUME IInv, loadOld PROVE IInv'
    OBVIOUS
  <1> DEFINE missing == wtx.work.data[op.id] = None
             ok == /\ encodeKeyOK(wtx.work.meta, op.id, desc)
                   /\ missing => op.kind = "delete"
             t == [wtx EXCEPT !.key = op.id, !.stage = IF missing THEN "commit" ELSE "decode"]
  <1>1. wtx # None /\ wtx.stage = "load"
    BY DEF loadOld, TxStep
  <1>2. op.id \in Key /\ op.kind \in {"update", "delete"}
    BY <1>1, WriterFacts, OpShape DEF StageOK
  <1>3. ok => t \in WriteTx /\ t.cl = wtx.cl /\ StageOK(t, op)
    BY <1>1, <1>2, WriterFacts DEF StageOK, WriteTx, Stages
  <1>4. TxStep("load", ok, t)
    BY DEF loadOld
  <1> HIDE DEF ok, t
  <1>5. QED
    BY <1>3, <1>4, TxStepOK

LEMMA decodeOK == IInv /\ decode => IInv'
  <1> SUFFICES ASSUME IInv, decode PROVE IInv'
    OBVIOUS
  <1> DEFINE t == [wtx EXCEPT !.old = desc,
                              !.stage = IF op.kind = "update" THEN "parse" ELSE "put"]
  <1>1. wtx # None /\ wtx.stage = "decode"
    BY DEF decode, TxStep
  <1>2. t \in WriteTx /\ t.cl = wtx.cl /\ StageOK(t, op)
    BY <1>1, WriterFacts DEF StageOK, WriteTx, Stages
  <1>3. QED
    BY <1>2, TxStepOK DEF decode

LEMMA parseOK == IInv /\ parse => IInv'
  <1> SUFFICES ASSUME IInv, parse PROVE IInv'
    OBVIOUS
  <1> DEFINE t == [wtx EXCEPT !.new = desc, !.stage = "derive"]
  <1>1. wtx # None /\ wtx.stage = "parse"
    BY DEF parse, TxStep
  <1>2. t \in WriteTx /\ t.cl = wtx.cl /\ StageOK(t, op)
    BY <1>1, WriterFacts DEF StageOK, WriteTx, Stages
  <1>3. QED
    BY <1>2, TxStepOK DEF parse

LEMMA putMetaStepOK == IInv /\ putMeta => IInv'
  <1> SUFFICES ASSUME IInv, putMeta PROVE IInv'
    OBVIOUS
  <1> DEFINE w == [wtx.work EXCEPT !.meta = op.meta]
             t == [wtx EXCEPT !.work.meta = op.meta, !.stage = "commit"]
  <1>1. wtx # None /\ wtx.stage = "putMeta"
    BY DEF putMeta, TxStep
  <1>2. op.kind = "create" /\ op.meta \in Meta
    BY <1>1, WriterFacts, OpShape DEF StageOK
  <1>3. wtx.work.meta = None => w \in Coll /\ CollOK(w)
    BY <1>1, <1>2, WriterFacts, PutMetaOK
  <1>4. t = [wtx EXCEPT !.work = w, !.stage = "commit"]
    BY <1>1, WriterFacts DEF WriteTx, Coll
  <1> HIDE DEF w
  <1>5. wtx.work.meta = None => t \in WriteTx /\ t.cl = wtx.cl /\ StageOK(t, op)
    BY <1>1, <1>2, <1>3, <1>4, WriterFacts DEF StageOK, WriteTx, Stages
  <1>6. QED
    BY <1>5, TxStepOK DEF putMeta

LEMMA deriveKeyOK == IInv /\ deriveKey => IInv'
  <1> SUFFICES ASSUME IInv, deriveKey PROVE IInv'
    OBVIOUS
  <1> DEFINE meta == wtx.work.meta
             auto == meta.keyField = AutoKey
             k  == op.doc[meta.keyField]
             ok == auto \/ /\ meta.keyField \in wtx.new
                           /\ encodeKeyOK(meta, k, desc)
                           /\ IF op.kind = "insert" THEN InsertKeyOK(k) ELSE UpdateKeyOK(k)
             w  == NextSequence(wtx.work)
             g  == encodeUint(w.seq)
             t1 == [wtx EXCEPT !.stage = "put"]
             t2 == [wtx EXCEPT !.stage = "put", !.work = w, !.key = g]
             t3 == [wtx EXCEPT !.stage = "put", !.key = k]
             t  == IF op.kind = "update" THEN t1 ELSE IF auto THEN t2 ELSE t3
  <1>1. wtx # None /\ wtx.stage = "derive"
    BY DEF deriveKey, TxStep
  <1>2. /\ meta \in Meta /\ op.doc \in Doc /\ op.kind \in {"insert", "update"}
        /\ op.kind = "insert" => wtx.work.seq < MaxSeq
    BY <1>1, WriterFacts, OpShape DEF StageOK
  <1>3. ~auto => k \in Key
    BY <1>2 DEF Doc, Meta, Key
  <1>4. ok /\ op.kind = "update" => t1 \in WriteTx /\ t1.cl = wtx.cl /\ StageOK(t1, op)
    BY <1>1, <1>2, WriterFacts DEF StageOK, WriteTx, Stages, UpdateKeyOK
  <1>5. op.kind = "insert" /\ auto => t2 \in WriteTx /\ t2.cl = wtx.cl /\ StageOK(t2, op)
    <2> SUFFICES ASSUME op.kind = "insert", auto
                 PROVE  t2 \in WriteTx /\ t2.cl = wtx.cl /\ StageOK(t2, op)
      OBVIOUS
    <2>1. wtx.work \in Coll /\ CollOK(wtx.work) /\ meta # None /\ wtx.work.seq < MaxSeq
      BY <1>1, <1>2, WriterFacts DEF StageOK
    <2>2. /\ w \in Coll /\ CollOK(w) /\ g \in Key /\ g \in Minted(w)
          /\ w.meta = meta /\ w.data[g] = None
      BY <2>1, NextSequenceOK
    <2> HIDE DEF w, g
    <2>3. QED
      BY <1>1, <1>2, <2>1, <2>2, WriterFacts DEF StageOK, WriteTx, Stages
  <1>6. ok /\ op.kind = "insert" /\ ~auto =>
          t3 \in WriteTx /\ t3.cl = wtx.cl /\ StageOK(t3, op)
    BY <1>1, <1>2, <1>3, WriterFacts DEF StageOK, WriteTx, Stages, InsertKeyOK
  <1>7. TxStep("derive", ok, t)
    BY DEF deriveKey
  <1> HIDE DEF ok, auto, t1, t2, t3
  <1>8. ok => t \in WriteTx /\ t.cl = wtx.cl /\ StageOK(t, op)
    BY <1>2, <1>4, <1>5, <1>6
  <1> HIDE DEF t
  <1>9. QED
    BY <1>7, <1>8, TxStepOK

LEMMA WriteOK == ASSUME Unambiguous(Vals), IInv, Write PROVE IInv'
  <1> DEFINE meta == wtx.work.meta
             w  == CASE op.kind = "insert" -> PutNew(wtx.work, wtx.key, op.doc)
                     [] op.kind = "update" -> Replace(wtx.work, wtx.key, op.doc)
                     [] op.kind = "delete" -> DeleteOld(wtx.work, wtx.key)
             ok == /\ op.kind # "insert" => eachIndexedValueOK(meta, wtx.old)
                   /\ op.kind # "delete" => /\ wtx.key # << >>
                                            /\ eachIndexedValueOK(meta, wtx.new)
             t  == [wtx EXCEPT !.work = w, !.stage = "commit"]
  <1>1. wtx # None /\ wtx.stage = "put"
    BY DEF Write, TxStep
  <1>2. /\ op.kind \in {"insert", "update", "delete"} /\ meta # None
        /\ wtx.work \in Coll /\ CollOK(wtx.work) /\ wtx.key \in Key
        /\ op.kind \in {"insert", "update"} => op.doc \in Doc
    BY <1>1, WriterFacts, OpShape DEF StageOK
  <1>3. ASSUME op.kind = "insert" PROVE w \in Coll /\ CollOK(w)
    <2>1. /\ wtx.work.data[wtx.key] = None
          /\ IF meta.keyField = AutoKey THEN wtx.key \in Minted(wtx.work)
             ELSE op.doc[meta.keyField] = wtx.key
      BY <1>1, <1>3, WriterFacts DEF StageOK
    <2>2. QED
      BY <1>2, <1>3, <2>1, PutNewOK
  <1>4. ASSUME op.kind = "update" PROVE w \in Coll /\ CollOK(w)
    <2>1. /\ wtx.work.data[wtx.key] # None
          /\ meta.keyField # AutoKey => op.doc[meta.keyField] = wtx.key
      BY <1>1, <1>4, WriterFacts DEF StageOK
    <2>2. QED
      BY <1>2, <1>4, <2>1, ReplaceOK
  <1>5. ASSUME op.kind = "delete" PROVE w \in Coll /\ CollOK(w)
    <2>1. wtx.work.data[wtx.key] # None
      BY <1>1, <1>5, WriterFacts DEF StageOK
    <2>2. QED
      BY <1>2, <1>5, <2>1, DeleteOldOK
  <1>6. TxStep("put", ok, t)
    BY DEF Write
  <1>7. w \in Coll /\ CollOK(w)
    BY <1>2, <1>3, <1>4, <1>5
  <1> HIDE DEF w, ok
  <1>8. t \in WriteTx /\ t.cl = wtx.cl /\ StageOK(t, op)
    BY <1>1, <1>2, <1>7, WriterFacts DEF StageOK, WriteTx, Stages
  <1> HIDE DEF t
  <1>9. QED
    BY <1>6, <1>8, TxStepOK

LEMMA CommitOK == IInv /\ Commit => IInv'
  <1> SUFFICES ASSUME IInv, Commit PROVE IInv'
    OBVIOUS
  <1>1. /\ wtx # None /\ wtx.stage = "commit" /\ wtx' = None
        /\ store' = [store EXCEPT ![op.coll] = wtx.work]
        /\ res' = [res EXCEPT ![wtx.cl] = Reply]
        /\ UNCHANGED <<desc, view, call>>
    BY DEF Commit
  <1>2. /\ op.coll \in Colls /\ wtx.cl \in Clients /\ wtx.work \in Coll
        /\ CollOK(wtx.work)
    BY <1>1, WriterFacts, OpShape
  <1>3. Reply \in Result
    BY <1>1, WriterFacts DEF StageOK, Reply, Result
  <1>4. TypeOK'
    BY <1>1, <1>2, <1>3 DEF IInv, TypeOK
  <1>5. \A c \in Colls : CollOK(store'[c])
    BY <1>1, <1>2 DEF IInv, TypeOK
  <1>6. view[wtx.cl] = None /\ call[wtx.cl] # None
    BY <1>1 DEF IInv, TxOK
  <1>7. ViewOK'
    BY <1>1, <1>2, <1>6 DEF IInv, ViewOK, TypeOK
  <1>8. \A p \in Clients : call'[p] = None => res'[p] = None
    BY <1>1, <1>2, <1>6 DEF IInv, TypeOK
  <1>9. (\A c \in Colls : CollOK(store[c]))'
    BY <1>5
  <1>10. QED
    BY <1>1, <1>4, <1>7, <1>8, <1>9 DEF IInv, TxOK

LEMMA CommitFailsOK == IInv /\ CommitFails => IInv'
  BY TxStepOK DEF CommitFails

LEMMA BeginOK == ASSUME IInv, NEW p \in Clients, NEW o \in Op, Begin(p, o) PROVE IInv'
  <1> DEFINE t == [cl |-> p, stage |-> "getMeta", work |-> store[o.coll],
                   key |-> None, old |-> NoType, new |-> NoType]
  <1>1. /\ call[p] = None /\ wtx' = t /\ call' = [call EXCEPT ![p] = o]
        /\ o.kind \in {"insert", "update", "delete"}
        /\ o.kind = "insert" => store[o.coll].seq < MaxSeq
        /\ UNCHANGED <<store, desc, view, res>>
    BY DEF Begin
  <1>2. o # None /\ o.coll \in Colls
    BY OpShape, EngineAssumption
  <1>3. store[o.coll] \in Coll /\ CollOK(store[o.coll])
    BY <1>2 DEF IInv, TypeOK
  <1>4. t \in WriteTx
    BY <1>3 DEF WriteTx, Stages
  <1>5. StageOK(t, o)
    BY <1>1, <1>3 DEF StageOK
  <1> HIDE DEF t
  <1>6. t.cl = p
    BY DEF t
  <1>7. TypeOK'
    BY <1>1, <1>4 DEF IInv, TypeOK
  <1>8. res[p] = None /\ view[p] = None
    BY <1>1 DEF IInv, ViewOK
  <1>9. TxOK'
    BY <1>1, <1>2, <1>5, <1>6, <1>8 DEF IInv, TxOK, TypeOK, op
  <1>10. ViewOK'
    BY <1>1, <1>8 DEF IInv, ViewOK, TypeOK
  <1>11. QED
    BY <1>1, <1>7, <1>8, <1>9, <1>10 DEF IInv, TypeOK

LEMMA CreateCollectionOK ==
  ASSUME IInv, NEW p \in Clients, NEW o \in Op, CreateCollection(p, o) PROVE IInv'
  <1>1. PICK r \in {None, Error} :
          /\ call[p] = None /\ call' = [call EXCEPT ![p] = o]
          /\ res' = [res EXCEPT ![p] = r]
          /\ UNCHANGED <<store, desc, wtx, view>>
    BY DEF CreateCollection
  <1>2. o # None
    BY EngineAssumption
  <1>3. view[p] = None /\ (wtx # None => wtx.cl # p)
    BY <1>1 DEF IInv, ViewOK, TxOK
  <1>4. TypeOK'
    BY <1>1 DEF IInv, TypeOK, Result
  <1>5. TxOK'
    BY <1>1, <1>3, WriterFacts DEF IInv, TypeOK, TxOK, op
  <1>6. ViewOK'
    BY <1>1, <1>3 DEF IInv, TypeOK, ViewOK
  <1>7. QED
    BY <1>1, <1>2, <1>4, <1>5, <1>6 DEF IInv, TypeOK

LEMMA BeginCreateOK == ASSUME IInv, NEW p \in Clients, BeginCreate(p) PROVE IInv'
  <1> DEFINE o == call[p]
             t == [cl |-> p, stage |-> "putMeta", work |-> store[o.coll],
                   key |-> None, old |-> NoType, new |-> NoType]
  <1>1. /\ o # None /\ o.kind = "create" /\ res[p] = None /\ wtx' = t
        /\ UNCHANGED <<store, desc, view, call, res>>
    BY DEF BeginCreate
  <1>2. o \in Op /\ o.coll \in Colls
    BY <1>1, OpShape DEF IInv, TypeOK
  <1>3. store[o.coll] \in Coll /\ CollOK(store[o.coll])
    BY <1>2 DEF IInv, TypeOK
  <1>4. t \in WriteTx
    BY <1>3 DEF WriteTx, Stages
  <1>5. StageOK(t, o)
    BY <1>1, <1>3 DEF StageOK
  <1> HIDE DEF t
  <1>6. t.cl = p
    BY DEF t
  <1>7. TypeOK'
    BY <1>1, <1>4 DEF IInv, TypeOK
  <1>8. view[p] = None
    BY <1>1 DEF IInv, ViewOK
  <1>9. TxOK'
    BY <1>1, <1>5, <1>6, <1>8 DEF TxOK, op
  <1>10. QED
    BY <1>1, <1>7, <1>9 DEF IInv, ViewOK

LEMMA OpenViewOK == ASSUME IInv, NEW p \in Clients, NEW o \in Op, OpenView(p, o) PROVE IInv'
  <1>1. /\ call[p] = None /\ o.kind \in {"get", "lookup"}
        /\ o.kind = "lookup" => /\ store[o.coll].meta # None
                                /\ o.field \in store[o.coll].meta.indexes
        /\ view' = [view EXCEPT ![p] = store[o.coll]]
        /\ call' = [call EXCEPT ![p] = o]
        /\ UNCHANGED <<store, desc, wtx, res>>
    BY DEF OpenView
  <1>2. o # None /\ o.coll \in Colls
    BY OpShape, EngineAssumption
  <1>3. store[o.coll] \in Coll /\ CollOK(store[o.coll])
    BY <1>2 DEF IInv, TypeOK
  <1>4. res[p] = None /\ (wtx # None => wtx.cl # p)
    BY <1>1 DEF IInv, TxOK
  <1>5. TypeOK'
    BY <1>1, <1>3 DEF IInv, TypeOK
  <1>6. TxOK'
    BY <1>1, <1>4, WriterFacts DEF IInv, TypeOK, TxOK, op
  <1>7. ViewOK'
    <2> SUFFICES ASSUME NEW q \in Clients, view'[q] # None
                 PROVE  /\ call'[q] # None /\ call'[q].kind \in {"get", "lookup"}
                        /\ res'[q] = None /\ CollOK(view'[q])
                        /\ call'[q].kind = "lookup" =>
                             view'[q].meta # None /\ call'[q].field \in view'[q].meta.indexes
      BY <1>1 DEF ViewOK
    <2>1. CASE q = p
      BY <1>1, <1>2, <1>3, <1>4, <2>1 DEF IInv, TypeOK
    <2>2. CASE q # p
      BY <1>1, <2>2 DEF IInv, TypeOK, ViewOK
    <2>3. QED
      BY <2>1, <2>2
  <1>8. QED
    BY <1>1, <1>2, <1>5, <1>6, <1>7 DEF IInv, TypeOK

\* A read ends with a result and without its snapshot.
LEMMA CloseViewOK ==
  ASSUME IInv, NEW p \in Clients, view[p] # None, NEW r \in Result, CloseView(p, r)
  PROVE  IInv'
  <1>1. /\ view' = [view EXCEPT ![p] = None] /\ res' = [res EXCEPT ![p] = r]
        /\ UNCHANGED <<store, desc, wtx, call>>
    BY DEF CloseView
  <1>2. call[p] # None /\ (wtx # None => wtx.cl # p)
    BY DEF IInv, ViewOK, TxOK
  <1>3. TypeOK'
    BY <1>1 DEF IInv, TypeOK
  <1>4. TxOK'
    BY <1>1, <1>2, WriterFacts DEF IInv, TypeOK, TxOK, op
  <1>5. ViewOK'
    BY <1>1 DEF IInv, TypeOK, ViewOK
  <1>6. QED
    BY <1>1, <1>2, <1>3, <1>4, <1>5 DEF IInv, TypeOK

\* A snapshot is a collection and its reader's call an operation.
LEMMA ReaderFacts ==
  ASSUME IInv, NEW p \in Clients, view[p] # None
  PROVE  view[p] \in Coll /\ CollOK(view[p]) /\ call[p] \in Op
  BY DEF IInv, TypeOK, ViewOK

LEMMA GetOK == ASSUME IInv, NEW p \in Clients, Get(p) PROVE IInv'
  <1> DEFINE doc == view[p].data[call[p].id]
             ok  == /\ view[p].meta # None
                    /\ encodeKeyOK(view[p].meta, call[p].id, desc)
                    /\ doc # None => desc # NoType
             r   == IF ~ok THEN Error
                    ELSE <<"doc", IF doc = None THEN None ELSE render(doc, desc)>>
  <1>1. view[p] # None /\ call[p].kind = "get" /\ CloseView(p, r)
    BY DEF Get
  <1>2. doc \in Doc \cup {None}
    BY <1>1, ReaderFacts, OpShape DEF Coll
  <1> HIDE DEF doc
  <1>3. doc # None => render(doc, desc) \in Doc
    BY <1>2, EngineAssumption DEF render, Doc
  <1>4. r \in Result
    BY <1>2, <1>3 DEF Result
  <1> HIDE DEF r
  <1>5. QED
    BY <1>1, <1>4, CloseViewOK

LEMMA LookupOK == ASSUME Unambiguous(Vals), IInv, NEW p \in Clients, Lookup(p) PROVE IInv'
  <1> DEFINE found == LookupByIndex(view[p], call[p].field, call[p].value)
             r == IF desc = NoType THEN Error
                  ELSE IF call[p].field \notin desc THEN Error
                  ELSE <<"keys", found>>
  <1>1. view[p] # None /\ call[p].kind = "lookup" /\ CloseView(p, r)
    BY DEF Lookup
  <1>2. /\ view[p] \in Coll /\ CollOK(view[p]) /\ view[p].meta # None
        /\ call[p].field \in view[p].meta.indexes /\ call[p].value \in Vals
    BY <1>1, ReaderFacts, OpShape DEF IInv, ViewOK
  <1>3. found \in SUBSET Key
    BY <1>2, LookupIsExact, SMT DEF Present
  <1> HIDE DEF found
  <1>4. r \in Result
    BY <1>3 DEF Result
  <1> HIDE DEF r
  <1>5. QED
    BY <1>1, <1>4, CloseViewOK

LEMMA ReturnOK == ASSUME IInv, NEW p \in Clients, Return(p) PROVE IInv'
  <1>1. /\ res[p] # None /\ call' = [call EXCEPT ![p] = None]
        /\ res' = [res EXCEPT ![p] = None] /\ UNCHANGED <<store, desc, wtx, view>>
    BY DEF Return
  <1>2. view[p] = None /\ (wtx # None => wtx.cl # p)
    BY <1>1 DEF IInv, ViewOK, TxOK
  <1>3. TypeOK'
    BY <1>1 DEF IInv, TypeOK
  <1>4. TxOK'
    BY <1>1, <1>2, WriterFacts DEF IInv, TypeOK, TxOK, op
  <1>5. ViewOK'
    BY <1>1, <1>2 DEF IInv, TypeOK, ViewOK
  <1>6. QED
    BY <1>1, <1>3, <1>4, <1>5 DEF IInv, TypeOK

LEMMA EnvironmentOK == ASSUME IInv, Activate \/ Crash PROVE IInv'
  <1>1. CASE Activate
    BY <1>1 DEF Activate, IInv, TypeOK, TxOK, ViewOK, op
  <1>2. CASE Crash
    <2>1. TypeOK'
      BY <1>2 DEF Crash, IInv, TypeOK
    <2>2. QED
      BY <1>2, <2>1 DEF Crash, IInv, TxOK, ViewOK
  <1>3. QED
    BY <1>1, <1>2

-------------------------------------------------------------------------------
(* What the writer has done to its copy, and what stays readable.          *)

\* A descriptor with more fields renders what one with fewer renders whole.
LEMMA RenderGrows ==
  ASSUME NEW doc \in Doc, NEW d, NEW e, d \subseteq e, render(doc, d) = doc
  PROVE  render(doc, e) = doc
  <1>1. \A f \in Fields : f \notin d => doc[f] = Default
    BY DEF render
  <1>2. \A f \in Fields : f \notin e => doc[f] = Default
    BY <1>1
  <1>3. doc = [f \in Fields |-> doc[f]]
    BY DEF Doc
  <1>4. QED
    BY <1>2, <1>3 DEF render

\* A document that parses is rendered whole.
LEMMA ParsedIsWhole ==
  ASSUME NEW doc \in Doc, NEW d, Parses(doc, d)
  PROVE  d # NoType /\ render(doc, d) = doc
  <1>1. doc = [f \in Fields |-> doc[f]]
    BY DEF Doc
  <1>2. QED
    BY <1>1 DEF Parses, render

\* While the registry only adds fields, what is readable stays so.
LEMMA ReadableGrows ==
  ASSUME SchemaStable, NEW e, Grows(e)
  PROVE  /\ \A col \in Coll : Readable(col, desc) => Readable(col, e)
         /\ \A doc \in Doc : Parses(doc, desc) => Parses(doc, e)
  <1>1. desc # NoType => e # NoType /\ desc \subseteq e
    BY DEF Grows
  <1>2. ASSUME NEW col \in Coll, Readable(col, desc), NEW k \in Present(col)
        PROVE  e # NoType /\ render(col.data[k], e) = col.data[k]
    <2>1. col.data[k] \in Doc
      BY DEF Coll, Present
    <2>2. desc # NoType /\ render(col.data[k], desc) = col.data[k]
      BY <1>2 DEF Readable
    <2>3. QED
      BY <1>1, <2>1, <2>2, RenderGrows
  <1>3. QED
    BY <1>1, <1>2 DEF Readable, Parses

\* A document is written, or removed.
LEMMA ReadableAfter ==
  ASSUME NEW col \in Coll, NEW new, NEW d, NEW k \in Key, NEW x,
         new.data = [col.data EXCEPT ![k] = x], Readable(col, d),
         x # None => d # NoType /\ render(x, d) = x
  PROVE  Readable(new, d)
  <1>1. \A j \in Key : new.data[j] = IF j = k THEN x ELSE col.data[j]
    BY DEF Coll
  <1>2. QED
    BY <1>1 DEF Readable, Present

LEMMA ReadableSame ==
  ASSUME NEW col, NEW new, NEW d, new.data = col.data, Readable(col, d)
  PROVE  Readable(new, d)
  BY DEF Readable, Present

\* A stage that hands on a transaction further on, or rolls back.
LEMMA TxStepFurther ==
  ASSUME RInv, NEW stage, NEW ok, NEW t, TxStep(stage, ok, t), IInv',
         ok => /\ t.cl = wtx.cl /\ Progress(t, op, store[op.coll])
               /\ SchemaStable =>
                    /\ Readable(t.work, desc)
                    /\ t.stage \in {"derive", "put"} /\ op.kind # "delete" => Parses(op.doc, desc)
  PROVE  RInv'
  <1>1. UNCHANGED <<store, desc, view, call>>
    BY DEF TxStep
  <1>2. CASE ok /\ wtx' = t
    <2>1. op' = op
      BY <1>1, <1>2 DEF op
    <2>2. Progress(wtx', op', store'[op'.coll])
      BY <1>1, <1>2, <2>1
    <2>3. SchemaStable => AllReadable'
      BY <1>1, <1>2, <2>1 DEF RInv, AllReadable
    <2>4. QED
      BY <2>2, <2>3 DEF RInv
  <1>3. CASE wtx' = None
    BY <1>1, <1>3 DEF RInv, AllReadable
  <1>4. QED
    BY <1>2, <1>3 DEF TxStep

\* The facts about the writer's copy that every stage starts from.
LEMMA CopyFacts ==
  ASSUME RInv, wtx # None
  PROVE  /\ IInv /\ Progress(wtx, op, store[op.coll]) /\ op.coll \in Colls
         /\ store[op.coll] \in Coll /\ CollOK(store[op.coll])
         /\ SchemaStable =>
              /\ Readable(wtx.work, desc)
              /\ wtx.stage \in {"derive", "put"} /\ op.kind # "delete" => Parses(op.doc, desc)
  <1>1. IInv
    BY DEF RInv
  <1>2. op.coll \in Colls
    BY <1>1, WriterFacts, OpShape
  <1>3. QED
    BY <1>1, <1>2 DEF RInv, IInv, TypeOK, AllReadable

LEMMA getMetaFurther == ASSUME RInv, getMeta, IInv' PROVE RInv'
  <1> DEFINE t == [wtx EXCEPT !.stage = IF op.kind = "insert" THEN "parse" ELSE "load"]
  <1>1. wtx # None /\ wtx.stage = "getMeta" /\ TxStep("getMeta", wtx.work.meta # None, t)
    BY DEF getMeta, TxStep
  <1>2. wtx \in WriteTx
    BY <1>1, CopyFacts, WriterFacts
  <1>3. /\ t.cl = wtx.cl /\ t.work = wtx.work
        /\ t.stage = "load" \/ (t.stage = "parse" /\ op.kind = "insert")
    BY <1>2 DEF WriteTx
  <1> HIDE DEF t
  <1>4. Progress(t, op, store[op.coll])
    BY <1>1, <1>3, CopyFacts DEF Progress
  <1>5. QED
    BY <1>1, <1>3, <1>4, CopyFacts, TxStepFurther

LEMMA loadOldFurther == ASSUME RInv, loadOld, IInv' PROVE RInv'
  <1> DEFINE missing == wtx.work.data[op.id] = None
             ok == /\ encodeKeyOK(wtx.work.meta, op.id, desc)
                   /\ missing => op.kind = "delete"
             t == [wtx EXCEPT !.key = op.id, !.stage = IF missing THEN "commit" ELSE "decode"]
             col == store[op.coll]
  <1>1. wtx # None /\ wtx.stage = "load" /\ TxStep("load", ok, t)
    BY DEF loadOld, TxStep
  <1>2. /\ wtx \in WriteTx /\ op.kind \in {"update", "delete"} /\ op.id \in Key
        /\ wtx.work = col /\ col \in Coll /\ col.meta # None
    BY <1>1, CopyFacts, WriterFacts, OpShape DEF Progress, StageOK
  <1>3. /\ t.cl = wtx.cl /\ t.work = wtx.work /\ t.key = op.id
        /\ t.stage = IF missing THEN "commit" ELSE "decode"
    BY <1>2 DEF WriteTx
  <1> HIDE DEF t
  <1>4. ASSUME missing, op.kind = "delete"  PROVE Effect(t, op, col)
    <2>1. col.data = [col.data EXCEPT ![op.id] = None]
      BY <1>2, <1>4 DEF Coll
    <2>2. QED
      BY <1>2, <1>3, <1>4, <2>1 DEF Effect
  <1>5. ok => Progress(t, op, col)
    BY <1>2, <1>3, <1>4 DEF Progress
  <1> HIDE DEF ok
  <1>6. QED
    BY <1>1, <1>3, <1>5, CopyFacts, TxStepFurther

LEMMA decodeFurther == ASSUME RInv, decode, IInv' PROVE RInv'
  <1> DEFINE t == [wtx EXCEPT !.old = desc,
                              !.stage = IF op.kind = "update" THEN "parse" ELSE "put"]
             col == store[op.coll]
  <1>1. wtx # None /\ wtx.stage = "decode" /\ TxStep("decode", desc # NoType, t)
    BY DEF decode, TxStep
  <1>2. /\ wtx \in WriteTx /\ op.kind \in {"update", "delete"} /\ wtx.work = col /\ wtx.key = op.id
    BY <1>1, CopyFacts, WriterFacts DEF Progress, StageOK
  <1>3. /\ t.cl = wtx.cl /\ t.work = wtx.work /\ t.key = op.id
        /\ t.stage = IF op.kind = "update" THEN "parse" ELSE "put"
    BY <1>2 DEF WriteTx
  <1> HIDE DEF t
  <1>4. Progress(t, op, col)
    BY <1>2, <1>3 DEF Progress
  <1>5. t.stage \notin {"derive", "put"} \/ op.kind = "delete"
    BY <1>2, <1>3
  <1>6. QED
    BY <1>1, <1>3, <1>4, <1>5, CopyFacts, TxStepFurther

LEMMA parseFurther == ASSUME RInv, parse, IInv' PROVE RInv'
  <1> DEFINE t == [wtx EXCEPT !.new = desc, !.stage = "derive"]
             col == store[op.coll]
  <1>1. wtx # None /\ wtx.stage = "parse" /\ TxStep("parse", Parses(op.doc, desc), t)
    BY DEF parse, TxStep
  <1>2. /\ wtx \in WriteTx /\ wtx.work = col /\ (op.kind # "insert" => wtx.key = op.id)
    BY <1>1, CopyFacts, WriterFacts DEF Progress
  <1>3. t.cl = wtx.cl /\ t.work = wtx.work /\ t.key = wtx.key /\ t.stage = "derive"
    BY <1>2 DEF WriteTx
  <1> HIDE DEF t
  <1>4. Progress(t, op, col)
    BY <1>2, <1>3 DEF Progress
  <1>5. QED
    BY <1>1, <1>3, <1>4, CopyFacts, TxStepFurther

LEMMA putMetaFurther == ASSUME RInv, putMeta, IInv' PROVE RInv'
  <1> DEFINE w == [wtx.work EXCEPT !.meta = op.meta]
             t == [wtx EXCEPT !.work.meta = op.meta, !.stage = "commit"]
             col == store[op.coll]
  <1>1. wtx # None /\ wtx.stage = "putMeta" /\ TxStep("putMeta", wtx.work.meta = None, t)
    BY DEF putMeta, TxStep
  <1>2. wtx \in WriteTx /\ op.kind = "create" /\ wtx.work = col /\ col \in Coll
    BY <1>1, CopyFacts, WriterFacts DEF Progress, StageOK
  <1>3. w.meta = op.meta /\ w.data = col.data /\ w.seq = col.seq
    BY <1>2 DEF Coll
  <1>4. t.cl = wtx.cl /\ t.work = w /\ t.stage = "commit"
    BY <1>2 DEF WriteTx, Coll
  <1> HIDE DEF t, w
  <1>5. wtx.work.meta = None => Progress(t, op, col)
    BY <1>2, <1>3, <1>4 DEF Progress, Effect
  <1>6. SchemaStable => Readable(t.work, desc)
    BY <1>1, <1>2, <1>3, <1>4, CopyFacts, ReadableSame
  <1>7. QED
    BY <1>1, <1>4, <1>5, <1>6, TxStepFurther

LEMMA deriveKeyFurther == ASSUME RInv, deriveKey, IInv' PROVE RInv'
  <1> DEFINE meta == wtx.work.meta
             auto == meta.keyField = AutoKey
             k  == op.doc[meta.keyField]
             ok == auto \/ /\ meta.keyField \in wtx.new
                           /\ encodeKeyOK(meta, k, desc)
                           /\ IF op.kind = "insert" THEN InsertKeyOK(k) ELSE UpdateKeyOK(k)
             w  == NextSequence(wtx.work)
             t1 == [wtx EXCEPT !.stage = "put"]
             t2 == [wtx EXCEPT !.stage = "put", !.work = w, !.key = encodeUint(w.seq)]
             t3 == [wtx EXCEPT !.stage = "put", !.key = k]
             t  == IF op.kind = "update" THEN t1 ELSE IF auto THEN t2 ELSE t3
             col == store[op.coll]
  <1>1. wtx # None /\ wtx.stage = "derive" /\ TxStep("derive", ok, t)
    BY DEF deriveKey, TxStep
  <1>2. /\ wtx \in WriteTx /\ op.kind \in {"insert", "update"} /\ wtx.work = col /\ col \in Coll
        /\ op.kind = "update" => wtx.key = op.id
    BY <1>1, CopyFacts, WriterFacts DEF Progress, StageOK
  <1>3. w.data = col.data /\ w.seq = col.seq + 1
    BY <1>2 DEF NextSequence, Coll
  <1>4. /\ t1.cl = wtx.cl /\ t1.work = col /\ t1.key = wtx.key /\ t1.stage = "put"
        /\ t2.cl = wtx.cl /\ t2.work = w /\ t2.key = encodeUint(w.seq) /\ t2.stage = "put"
        /\ t3.cl = wtx.cl /\ t3.work = col /\ t3.stage = "put"
    BY <1>2 DEF WriteTx
  <1> HIDE DEF ok, t1, t2, t3
  <1>5. op.kind = "update" => Progress(t1, op, col)
    BY <1>2, <1>4 DEF Progress
  <1>6. op.kind = "insert" /\ auto => Progress(t2, op, col)
    BY <1>2, <1>3, <1>4 DEF Progress
  <1>7. op.kind = "insert" /\ ~ auto => Progress(t3, op, col)
    BY <1>2, <1>4 DEF Progress
  <1>8. Progress(t, op, col) /\ t.cl = wtx.cl /\ (t.work = col \/ t.work = w)
    BY <1>2, <1>4, <1>5, <1>6, <1>7
  <1> HIDE DEF t, w
  <1>9. SchemaStable => Readable(t.work, desc) /\ (op.kind # "delete" => Parses(op.doc, desc))
    BY <1>1, <1>2, <1>3, <1>8, CopyFacts, ReadableSame
  <1>10. QED
    BY <1>1, <1>8, <1>9, TxStepFurther

\* What the writes do to a collection.
LEMMA WritesChange ==
  ASSUME NEW col \in Coll, NEW k \in Key, NEW doc \in Doc
  PROVE  /\ PutNew(col, k, doc).meta = col.meta /\ PutNew(col, k, doc).seq = col.seq
         /\ PutNew(col, k, doc).data = [col.data EXCEPT ![k] = doc]
         /\ Replace(col, k, doc).meta = col.meta /\ Replace(col, k, doc).seq = col.seq
         /\ Replace(col, k, doc).data = [col.data EXCEPT ![k] = doc]
  BY DEF PutNew, Replace, With

LEMMA DeletesChange ==
  ASSUME NEW col \in Coll, NEW k \in Key
  PROVE  /\ DeleteOld(col, k).meta = col.meta /\ DeleteOld(col, k).seq = col.seq
         /\ DeleteOld(col, k).data = [col.data EXCEPT ![k] = None]
  BY DEF DeleteOld, With

LEMMA WriteFurther == ASSUME RInv, Write, IInv' PROVE RInv'
  <1> DEFINE meta == wtx.work.meta
             w  == CASE op.kind = "insert" -> PutNew(wtx.work, wtx.key, op.doc)
                     [] op.kind = "update" -> Replace(wtx.work, wtx.key, op.doc)
                     [] op.kind = "delete" -> DeleteOld(wtx.work, wtx.key)
             ok == /\ op.kind # "insert" => eachIndexedValueOK(meta, wtx.old)
                   /\ op.kind # "delete" => /\ wtx.key # << >>
                                            /\ eachIndexedValueOK(meta, wtx.new)
             t  == [wtx EXCEPT !.work = w, !.stage = "commit"]
             x  == IF op.kind = "delete" THEN None ELSE op.doc
             col == store[op.coll]
  <1>1. wtx # None /\ wtx.stage = "put" /\ TxStep("put", ok, t)
    BY DEF Write, TxStep
  <1>2. /\ op.kind \in {"insert", "update", "delete"} /\ meta # None
        /\ wtx \in WriteTx /\ wtx.work \in Coll /\ wtx.key \in Key
        /\ op.kind # "delete" => op.doc \in Doc
        /\ op.kind = "insert" =>
             /\ wtx.work.data[wtx.key] = None
             /\ meta.keyField # AutoKey => op.doc[meta.keyField] = wtx.key
        /\ op.kind # "insert" => wtx.work.data[wtx.key] # None
        /\ op.kind = "update" => (meta.keyField # AutoKey => op.doc[meta.keyField] = wtx.key)
    BY <1>1, CopyFacts, WriterFacts, OpShape DEF StageOK
  <1>3. /\ op.kind # "insert" => wtx.key = op.id
        /\ IF op.kind = "insert" /\ col.meta.keyField = AutoKey
           THEN wtx.work = NextSequence(col) /\ wtx.key = encodeUint(col.seq + 1)
           ELSE wtx.work = col
        /\ col \in Coll
    BY <1>1, CopyFacts DEF Progress
  <1>4. /\ NextSequence(col).meta = col.meta /\ NextSequence(col).data = col.data
        /\ NextSequence(col).seq = col.seq + 1
    BY <1>3 DEF NextSequence, Coll
  <1>5. w.meta = meta /\ w.seq = wtx.work.seq /\ w.data = [wtx.work.data EXCEPT ![wtx.key] = x]
    <2>1. CASE op.kind = "insert"
      <3> DEFINE v == PutNew(wtx.work, wtx.key, op.doc)
      <3>1. w = v /\ x = op.doc
        BY <2>1
      <3>2. /\ v.meta = wtx.work.meta /\ v.seq = wtx.work.seq
            /\ v.data = [wtx.work.data EXCEPT ![wtx.key] = op.doc]
        BY <1>2, <2>1, WritesChange, SMT
      <3> HIDE DEF v, w, x
      <3>3. QED
        BY <3>1, <3>2
    <2>2. CASE op.kind = "update"
      <3> DEFINE v == Replace(wtx.work, wtx.key, op.doc)
      <3>1. w = v /\ x = op.doc
        BY <2>2
      <3>2. /\ v.meta = wtx.work.meta /\ v.seq = wtx.work.seq
            /\ v.data = [wtx.work.data EXCEPT ![wtx.key] = op.doc]
        BY <1>2, <2>2, WritesChange
      <3> HIDE DEF v, w, x
      <3>3. QED
        BY <3>1, <3>2
    <2>3. CASE op.kind = "delete"
      BY <1>2, <2>3, DeletesChange
    <2>4. QED
      BY <1>2, <2>1, <2>2, <2>3
  <1>6. t.cl = wtx.cl /\ t.work = w /\ t.key = wtx.key /\ t.stage = "commit"
    BY <1>2 DEF WriteTx
  <1> HIDE DEF t, w, ok
  <1>7. /\ meta = col.meta /\ wtx.work.data = col.data
        /\ IF op.kind = "insert" /\ col.meta.keyField = AutoKey
           THEN w.seq = col.seq + 1 /\ t.key = encodeUint(col.seq + 1)
           ELSE w.seq = col.seq
    BY <1>3, <1>4, <1>5, <1>6
  <1>8. w.data = [col.data EXCEPT ![wtx.key] = x]
    BY <1>5, <1>7
  <1>9. Effect(t, op, col)
    BY <1>2, <1>3, <1>5, <1>6, <1>7, <1>8 DEF Effect
  <1>10. Progress(t, op, col)
    BY <1>6, <1>9 DEF Progress
  <1>11. SchemaStable => Readable(t.work, desc)
    <2> SUFFICES ASSUME SchemaStable PROVE Readable(t.work, desc)
      OBVIOUS
    <2>1. Readable(wtx.work, desc) /\ (op.kind # "delete" => Parses(op.doc, desc))
      BY <1>1, CopyFacts
    <2>2. x # None => desc # NoType /\ render(x, desc) = x
      BY <1>2, <2>1, ParsedIsWhole
    <2> HIDE DEF x
    <2>3. t.work.data = [wtx.work.data EXCEPT ![wtx.key] = x] /\ wtx.work \in Coll /\ wtx.key \in Key
      BY <1>2, <1>5, <1>6
    <2>4. QED
      BY <2>1, <2>2, <2>3, ReadableAfter
  <1>12. QED
    BY <1>1, <1>6, <1>10, <1>11, TxStepFurther

LEMMA CommitFurther == ASSUME RInv, Commit, IInv' PROVE RInv'
  <1>1. /\ wtx # None /\ wtx' = None /\ store' = [store EXCEPT ![op.coll] = wtx.work]
        /\ UNCHANGED <<desc, view, call>>
    BY DEF Commit
  <1>2. store \in [Colls -> Coll] /\ (SchemaStable => Readable(wtx.work, desc))
    BY <1>1, CopyFacts DEF IInv, TypeOK
  <1>3. SchemaStable => AllReadable'
    BY <1>1, <1>2 DEF RInv, AllReadable
  <1>4. QED
    BY <1>1, <1>3 DEF RInv

\* A transaction starts with a copy of the committed collection.
LEMMA BeginsFurther ==
  ASSUME RInv, IInv', NEW p \in Clients, (\E o \in Op : Begin(p, o)) \/ BeginCreate(p)
  PROVE  RInv'
  <1>1. /\ wtx'.cl = p /\ UNCHANGED <<store, desc, view>>
        /\ wtx'.stage \in {"getMeta", "putMeta"}
        /\ call'[p] \in Op /\ wtx'.work = store[call'[p].coll]
    <2>1. call \in [Clients -> Op \cup {None}]
      BY DEF RInv, IInv, TypeOK
    <2> DEFINE Started == /\ wtx'.cl = p /\ UNCHANGED <<store, desc, view>>
                          /\ wtx'.stage \in {"getMeta", "putMeta"}
                          /\ call'[p] \in Op /\ wtx'.work = store[call'[p].coll]
    <2>2. ASSUME NEW o \in Op, Begin(p, o)  PROVE Started
      BY <2>1, <2>2 DEF Begin
    <2>3. ASSUME BeginCreate(p)  PROVE Started
      BY <2>1, <2>3 DEF BeginCreate
    <2>4. QED
      BY <2>2, <2>3
  <1>2. op' = call'[p] /\ op'.coll \in Colls
    BY <1>1, OpShape DEF op
  <1>3. Progress(wtx', op', store'[op'.coll])
    BY <1>1, <1>2 DEF Progress
  <1>4. SchemaStable => AllReadable'
    BY <1>1, <1>2 DEF RInv, AllReadable
  <1>5. QED
    BY <1>3, <1>4 DEF RInv

\* A client's step that leaves the writer, its call and the schema alone.
LEMMA ClientFurther ==
  ASSUME RInv, IInv', NEW p \in Clients, UNCHANGED <<store, desc, wtx>>,
         \A q \in Clients \ {p} : call'[q] = call[q] /\ view'[q] = view[q],
         wtx # None => wtx.cl # p,
         view'[p] # None => \E c \in Colls : view'[p] = store[c]
  PROVE  RInv'
  <1>1. wtx # None => op' = op
    BY WriterFacts DEF RInv, op
  <1>2. wtx' # None => Progress(wtx', op', store'[op'.coll])
    BY <1>1 DEF RInv
  <1>3. ASSUME SchemaStable  PROVE AllReadable'
    <2>1. \A q \in Clients : view'[q] # None => Readable(view'[q], desc)
      BY <1>3 DEF RInv, AllReadable
    <2>2. QED
      BY <1>1, <1>3, <2>1 DEF RInv, AllReadable
  <1>4. QED
    BY <1>2, <1>3 DEF RInv

LEMMA ClientsFurther ==
  ASSUME RInv, IInv', NEW p \in Clients,
         \/ \E o \in Op : OpenView(p, o) \/ CreateCollection(p, o)
         \/ Get(p) \/ Lookup(p) \/ Return(p)
  PROVE  RInv'
  <1>1. IInv /\ view \in [Clients -> Coll \cup {None}] /\ call \in [Clients -> Op \cup {None}]
    BY DEF RInv, IInv, TypeOK
  <1>2. wtx # None => wtx.cl # p
    BY <1>1 DEF OpenView, CreateCollection, Get, Lookup, Return, IInv, TxOK
  <1>3. CASE \E o \in Op : OpenView(p, o)
    <2>1. PICK o \in Op : OpenView(p, o)
      BY <1>3
    <2>2. o.coll \in Colls /\ view'[p] = store[o.coll]
      BY <1>1, <2>1, OpShape DEF OpenView
    <2>3. QED
      BY <1>1, <1>2, <2>1, <2>2, ClientFurther DEF OpenView
  <1>4. CASE \E o \in Op : CreateCollection(p, o)
    <2>1. view'[p] = None
      BY <1>1, <1>4 DEF CreateCollection, IInv, ViewOK
    <2>2. QED
      BY <1>1, <1>2, <1>4, <2>1, ClientFurther DEF CreateCollection
  <1>5. CASE Get(p) \/ Lookup(p)
    <2>1. PICK r : CloseView(p, r)
      BY <1>5 DEF Get, Lookup
    <2>2. QED
      BY <1>1, <1>2, <2>1, ClientFurther DEF CloseView
  <1>6. CASE Return(p)
    <2>1. view'[p] = None
      BY <1>1, <1>6 DEF Return, IInv, ViewOK
    <2>2. QED
      BY <1>1, <1>2, <1>6, <2>1, ClientFurther DEF Return
  <1>7. QED
    BY <1>3, <1>4, <1>5, <1>6

LEMMA EnvironmentFurther == ASSUME RInv, IInv', Activate \/ Crash PROVE RInv'
  <1>1. PICK d : Grows(d) /\ desc' = d
    BY DEF Activate, Crash
  <1>2. SchemaStable =>
          /\ \A col \in Coll : Readable(col, desc) => Readable(col, desc')
          /\ \A doc \in Doc : Parses(doc, desc) => Parses(doc, desc')
    BY <1>1, ReadableGrows
  <1>3. store' = store /\ store \in [Colls -> Coll] /\ view \in [Clients -> Coll \cup {None}] /\ IInv
    BY DEF Activate, Crash, RInv, IInv, TypeOK
  <1>4. SchemaStable => \A c \in Colls : Readable(store'[c], desc')
    BY <1>2, <1>3 DEF RInv, AllReadable
  <1>5. CASE Activate
    <2>1. UNCHANGED <<wtx, view, call>> /\ op' = op
      BY <1>5 DEF Activate, op
    <2>2. ASSUME SchemaStable  PROVE AllReadable'
      <3>1. \A p \in Clients : view[p] # None => Readable(view[p], desc')
        BY <1>2, <1>3, <2>2 DEF RInv, AllReadable
      <3>2. ASSUME wtx # None
            PROVE  /\ Readable(wtx.work, desc')
                   /\ wtx.stage \in {"derive", "put"} /\ op.kind # "delete" => Parses(op.doc, desc')
        <4>1. wtx.work \in Coll /\ Readable(wtx.work, desc)
          BY <1>3, <2>2, <3>2, WriterFacts, CopyFacts
        <4>2. wtx.stage \in {"derive", "put"} /\ op.kind # "delete" =>
                op.doc \in Doc /\ Parses(op.doc, desc)
          BY <1>3, <2>2, <3>2, WriterFacts, CopyFacts, OpShape DEF StageOK
        <4>3. QED
          BY <1>2, <2>2, <4>1, <4>2
      <3>3. QED
        BY <1>4, <2>1, <2>2, <3>1, <3>2 DEF AllReadable
    <2>3. QED
      BY <1>3, <2>1, <2>2 DEF RInv
  <1>6. CASE Crash
    <2>1. wtx' = None /\ \A p \in Clients : view'[p] = None
      BY <1>6 DEF Crash
    <2>2. QED
      BY <1>4, <2>1 DEF RInv, AllReadable
  <1>7. QED
    BY <1>5, <1>6

-------------------------------------------------------------------------------
(* Every step is a step of the abstract store, or invisible to it.         *)

\* One client's result changes.
LEMMA ResStep ==
  ASSUME NEW p \in Clients, NEW r, resOf'[p] = r,
         \A q \in Clients \ {p} : /\ view'[q] = view[q] /\ call'[q] = call[q] /\ res'[q] = res[q]
  PROVE  resOf' = [resOf EXCEPT ![p] = r]
  <1>1. \A q \in Clients \ {p} : resOf'[q] = resOf[q]
    BY DEF resOf
  <1>2. resOf' = [q \in Clients |-> resOf'[q]] /\ resOf = [q \in Clients |-> resOf[q]]
    BY DEF resOf
  <1>3. QED
    BY <1>1, <1>2

LEMMA ResSame == UNCHANGED <<view, call, res>> => resOf' = resOf
  BY DEF resOf

LEMMA DocsSame == UNCHANGED store => docsOf' = docsOf
  BY DEF docsOf, Minted

\* A client without a snapshot has its result.
LEMMA ResHere ==
  ASSUME NEW p \in Clients
  PROVE  /\ view[p] = None => resOf[p] = res[p]
         /\ view'[p] = None => resOf'[p] = res'[p]
  BY DEF resOf

LEMMA OpsAreOps == Op \subseteq A!Op
  <1>1. Meta = A!Meta /\ Doc = A!Doc
    BY DEF Meta, Doc, A!Meta, A!Doc
  <1>2. CallMetas \subseteq A!Meta /\ CallDocs \subseteq A!Doc
    BY <1>1, EngineAssumption
  <1>3. QED
    BY <1>2 DEF Op, A!Op

\* A call begins, and may be refused at once.
LEMMA CallImplements ==
  ASSUME NEW p \in Clients, NEW o \in Op, NEW r \in {None, Error}, call[p] = None,
         call' = [call EXCEPT ![p] = o], resOf'[p] = r, UNCHANGED store,
         \A q \in Clients \ {p} : /\ view'[q] = view[q] /\ call'[q] = call[q] /\ res'[q] = res[q]
  PROVE  A!Next
  <1>1. resOf' = [resOf EXCEPT ![p] = r] /\ docsOf' = docsOf /\ Error = A!Error
    BY ResStep, DocsSame DEF Error, A!Error
  <1>2. A!Call(p, o)
    BY <1>1 DEF A!Call
  <1>3. QED
    BY <1>2, OpsAreOps DEF A!Next

\* A call fails.
LEMMA FailImplements ==
  ASSUME NEW p \in Clients, call[p] # None, UNCHANGED <<store, call>>,
         resOf[p] = None \/ call[p].kind \in {"get", "lookup"}, resOf'[p] = Error,
         \A q \in Clients \ {p} : view'[q] = view[q] /\ res'[q] = res[q]
  PROVE  A!Next
  <1>1. resOf' = [resOf EXCEPT ![p] = Error] /\ docsOf' = docsOf /\ Error = A!Error
    BY ResStep, DocsSame DEF Error, A!Error
  <1>2. A!Fail(p)
    BY <1>1 DEF A!Fail
  <1>3. QED
    BY <1>2 DEF A!Next

\* A stage of a transaction is invisible, unless it fails.
LEMMA TxStepImplements ==
  ASSUME IInv, NEW stage, NEW ok, NEW t, TxStep(stage, ok, t)
  PROVE  A!Next \/ UNCHANGED <<docsOf, call, resOf>>
  <1>1. wtx # None /\ UNCHANGED <<store, desc, view, call>>
    BY DEF TxStep
  <1>2. /\ wtx.cl \in Clients /\ call[wtx.cl] # None /\ view[wtx.cl] = None /\ res[wtx.cl] = None
        /\ res \in [Clients -> Result \cup {None}]
    BY <1>1, WriterFacts DEF IInv, TxOK, TypeOK
  <1>3. CASE UNCHANGED res
    BY <1>1, <1>3, ResSame, DocsSame
  <1>4. CASE res' = [res EXCEPT ![wtx.cl] = Error]
    <2>1. resOf[wtx.cl] = None /\ resOf'[wtx.cl] = Error
      BY <1>1, <1>2, <1>4, ResHere
    <2>2. QED
      BY <1>1, <1>2, <1>4, <2>1, FailImplements
  <1>5. QED
    BY <1>3, <1>4 DEF TxStep

\* Calls of writes and of CreateCollection.
LEMMA CallsImplement ==
  ASSUME IInv, NEW p \in Clients, NEW o \in Op, Begin(p, o) \/ CreateCollection(p, o)
  PROVE  A!Next
  <1>1. /\ call[p] = None /\ call' = [call EXCEPT ![p] = o] /\ UNCHANGED <<store, view>>
        /\ \E r \in {None, Error} : res' = [res EXCEPT ![p] = r]
    <2>1. ASSUME call[p] = None, UNCHANGED res  PROVE res' = [res EXCEPT ![p] = None]
      BY <2>1 DEF IInv, TypeOK
    <2>2. QED
      BY <2>1 DEF Begin, CreateCollection
  <1>2. /\ view[p] = None /\ res \in [Clients -> Result \cup {None}]
        /\ call \in [Clients -> Op \cup {None}]
    BY <1>1 DEF IInv, ViewOK, TypeOK
  <1>3. PICK r \in {None, Error} : res' = [res EXCEPT ![p] = r]
    BY <1>1
  <1>4. resOf'[p] = r
    BY <1>1, <1>2, <1>3, ResHere
  <1>5. QED
    BY <1>1, <1>2, <1>3, <1>4, CallImplements

\* A read has its result with its snapshot: for a lookup, by the documents.
LEMMA OpenViewImplements ==
  ASSUME Unambiguous(Vals), IInv, NEW p \in Clients, NEW o \in Op, OpenView(p, o)
  PROVE  A!Next
  <1> DEFINE col == store[o.coll]
  <1>1. /\ call[p] = None /\ o.kind \in {"get", "lookup"}
        /\ o.kind = "lookup" => col.meta # None /\ o.field \in col.meta.indexes
        /\ view' = [view EXCEPT ![p] = col] /\ call' = [call EXCEPT ![p] = o]
        /\ UNCHANGED <<store, desc, wtx, res>>
    BY DEF OpenView
  <1>2. /\ o.coll \in Colls /\ col \in Coll /\ CollOK(col)
        /\ view \in [Clients -> Coll \cup {None}] /\ call \in [Clients -> Op \cup {None}]
        /\ res[p] = None
        /\ o.kind = "lookup" => o.value \in Vals
    BY <1>1, OpShape DEF IInv, TypeOK
  <1>3. view'[p] = col /\ call'[p] = o
        /\ \A q \in Clients \ {p} : view'[q] = view[q] /\ call'[q] = call[q] /\ res'[q] = res[q]
    BY <1>1, <1>2
  <1>4. CASE col.meta = None
    <2>1. view'[p].meta = None /\ res'[p] = None
      BY <1>1, <1>2, <1>3, <1>4
    <2>2. resOf'[p] = None
      BY <2>1 DEF resOf
    <2>3. QED
      BY <1>1, <1>3, <2>2, CallImplements
  <1>5. CASE col.meta # None
    <2>1. docsOf[o.coll].meta = col.meta /\ docsOf[o.coll].data = col.data
      BY <1>2 DEF docsOf
    <2>2. resOf'[p] = Seen(col, o)
      BY <1>2, <1>3, <1>5, EngineAssumption DEF resOf
    <2>3. Seen(col, o) = A!Read(docsOf[o.coll], o)
      <3>1. CASE o.kind = "get"
        BY <2>1, <3>1 DEF Seen, A!Read
      <3>2. CASE o.kind = "lookup"
        <4> o.field \in col.meta.indexes /\ o.value \in Vals /\ col \in Coll /\ CollOK(col)
          BY <1>1, <1>2, <3>2
        <4>1. LookupByIndex(col, o.field, o.value) = {k \in Present(col) : col.data[k][o.field] = o.value}
          <5> HIDE DEF col
          <5> QED BY <1>5, LookupIsExact
        <4>2. {k \in Present(col) : col.data[k][o.field] = o.value}
                = {k \in Key : col.data[k] # None /\ col.data[k][o.field] = o.value}
          BY DEF Present
        <4>3. QED
          BY <1>1, <2>1, <3>2, <4>1, <4>2 DEF Seen, A!Read
      <3>3. QED
        BY <1>1, <3>1, <3>2
    <2>4. resOf' = [resOf EXCEPT ![p] = A!Read(docsOf[o.coll], o)] /\ docsOf' = docsOf
      BY <1>1, <1>3, <2>2, <2>3, ResStep, DocsSame
    <2>5. A!CallRead(p, o)
      BY <1>1, <1>5, <2>1, <2>4 DEF A!CallRead
    <2>6. QED
      BY <2>5, OpsAreOps DEF A!Next
  <1>6. QED
    BY <1>4, <1>5

\* A read that is rendered whole returns what its snapshot held.
LEMMA ReadsImplement ==
  ASSUME SchemaStable, RInv, NEW p \in Clients, Get(p) \/ Lookup(p)
  PROVE  A!Next \/ UNCHANGED <<docsOf, call, resOf>>
  <1> DEFINE v == view[p]  o == call[p]
  <1>1. /\ v # None /\ o.kind \in {"get", "lookup"}
        /\ \E r : view' = [view EXCEPT ![p] = None] /\ res' = [res EXCEPT ![p] = r]
        /\ UNCHANGED <<store, desc, wtx, call>>
    BY DEF Get, Lookup, CloseView
  <1>2. /\ v \in Coll /\ o # None /\ o \in Op /\ res[p] = None /\ Readable(v, desc)
        /\ o.kind = "lookup" => v.meta # None
        /\ view \in [Clients -> Coll \cup {None}] /\ res \in [Clients -> Result \cup {None}]
    BY <1>1 DEF RInv, IInv, TypeOK, ViewOK, AllReadable
  <1>3. /\ view'[p] = None /\ resOf'[p] = res'[p]
        /\ \A q \in Clients \ {p} : view'[q] = view[q] /\ res'[q] = res[q]
    BY <1>1, <1>2, ResHere
  <1>4. CASE res'[p] = Error
    BY <1>1, <1>2, <1>3, <1>4, FailImplements
  <1>5. CASE v.meta # None /\ res'[p] = Seen(v, o)
    <2>1. resOf[p] = Seen(v, o)
      BY <1>1, <1>5 DEF resOf
    <2>2. resOf' = [resOf EXCEPT ![p] = resOf[p]]
      BY <1>1, <1>3, <1>5, <2>1, ResStep
    <2>3. resOf' = resOf
      BY <2>2 DEF resOf
    <2>4. QED
      BY <1>1, <2>3, DocsSame
  <1>6. res'[p] = Error \/ (v.meta # None /\ res'[p] = Seen(v, o))
    <2>1. CASE Get(p)
      <3>1. /\ o.kind = "get"
            /\ res'[p] # Error => v.meta # None /\ (v.data[o.id] # None => desc # NoType)
            /\ res'[p] # Error => res'[p] = <<"doc", IF v.data[o.id] = None THEN None
                                                     ELSE render(v.data[o.id], desc)>>
        BY <1>2, <2>1 DEF Get, CloseView
      <3>2. v.data[o.id] # None => render(v.data[o.id], desc) = v.data[o.id]
        BY <1>2, <3>1, OpShape DEF Readable, Present
      <3>3. QED
        BY <3>1, <3>2 DEF Seen
    <2>2. CASE Lookup(p)
      BY <1>2, <2>2 DEF Lookup, CloseView, Seen
    <2>3. QED
      BY <2>1, <2>2
  <1>7. QED
    BY <1>4, <1>5, <1>6

LEMMA ReturnImplements ==
  ASSUME IInv, NEW p \in Clients, Return(p)
  PROVE  A!Next
  <1>1. /\ res[p] # None /\ call' = [call EXCEPT ![p] = None] /\ res' = [res EXCEPT ![p] = None]
        /\ UNCHANGED <<store, view>>
    BY DEF Return
  <1>2. /\ view[p] = None /\ res \in [Clients -> Result \cup {None}]
        /\ call \in [Clients -> Op \cup {None}]
    BY <1>1 DEF IInv, TypeOK, ViewOK
  <1>3. resOf[p] # None /\ resOf'[p] = None
    BY <1>1, <1>2, ResHere
  <1>4. resOf' = [resOf EXCEPT ![p] = None] /\ docsOf' = docsOf
    BY <1>1, <1>2, <1>3, ResStep, DocsSame
  <1>5. A!Return(p)
    BY <1>1, <1>3, <1>4 DEF A!Return
  <1>6. QED
    BY <1>5 DEF A!Next

LEMMA CrashImplements ==
  ASSUME Crash
  PROVE  A!Next
  <1>1. docsOf' = docsOf /\ call' = [p \in Clients |-> None]
    BY DocsSame DEF Crash
  <1>2. resOf' = [p \in Clients |-> None]
    BY DEF Crash, resOf
  <1>3. QED
    BY <1>1, <1>2 DEF A!Next, A!Crash

\* The sequence numbers after a commit.
LEMMA MintedGrows ==
  ASSUME NEW c \in Coll, NEW w \in Coll
  PROVE  /\ w.seq = c.seq => Minted(w) = Minted(c)
         /\ w.seq = c.seq + 1 => /\ Minted(w) = Minted(c) \cup {encodeUint(c.seq + 1)}
                                 /\ encodeUint(c.seq + 1) \in AutoKeys \ Minted(c)
  <1>1. c.seq \in 0 .. MaxSeq /\ w.seq \in 0 .. MaxSeq /\ MaxSeq \in Nat
    BY EngineAssumption DEF Coll
  <1>2. w.seq = c.seq => Minted(w) = Minted(c)
    BY DEF Minted
  <1>3. ASSUME w.seq = c.seq + 1
        PROVE  /\ 1 .. w.seq = (1 .. c.seq) \cup {c.seq + 1} /\ c.seq + 1 \in 1 .. MaxSeq
               /\ \A n \in 1 .. c.seq : n \in 1 .. MaxSeq /\ n # c.seq + 1
    BY <1>1, <1>3, SMT
  <1>4. ASSUME w.seq = c.seq + 1
        PROVE  Minted(w) = Minted(c) \cup {encodeUint(c.seq + 1)}
    BY <1>3, <1>4 DEF Minted
  <1>5. ASSUME w.seq = c.seq + 1
        PROVE  encodeUint(c.seq + 1) \in AutoKeys \ Minted(c)
    BY <1>3, <1>5, SequenceFits DEF Minted, AutoKeys
  <1>6. QED
    BY <1>2, <1>4, <1>5

\* What a commit publishes, as the abstract store's collection.
LEMMA CommitFacts ==
  ASSUME RInv, Commit
  PROVE  /\ wtx # None /\ wtx.cl \in Clients /\ op # None /\ op \in Op /\ call' = call
         /\ op.kind \in {"create", "insert", "update", "delete"}
         /\ op.coll \in Colls /\ store[op.coll] \in Coll /\ wtx.work \in Coll
         /\ Effect(wtx, op, store[op.coll])
         /\ op.kind = "insert" => wtx.key \in Key
         /\ resOf[wtx.cl] = None /\ resOf' = [resOf EXCEPT ![wtx.cl] = Reply]
         /\ docsOf' = [docsOf EXCEPT ![op.coll] = [meta |-> wtx.work.meta, data |-> wtx.work.data,
                                                   used |-> Minted(wtx.work)]]
  <1>1. /\ wtx # None /\ wtx.stage = "commit" /\ store' = [store EXCEPT ![op.coll] = wtx.work]
        /\ res' = [res EXCEPT ![wtx.cl] = Reply] /\ UNCHANGED <<view, call>>
    BY DEF Commit
  <1>2. IInv /\ Progress(wtx, op, store[op.coll])
    BY <1>1 DEF RInv
  <1>3. /\ wtx.cl \in Clients /\ op # None /\ op \in Op /\ wtx.work \in Coll /\ StageOK(wtx, op)
    BY <1>1, <1>2, WriterFacts
  <1>4. /\ view[wtx.cl] = None /\ res[wtx.cl] = None /\ store \in [Colls -> Coll]
        /\ res \in [Clients -> Result \cup {None}]
    BY <1>1, <1>2 DEF IInv, TxOK, TypeOK
  <1>5. op.coll \in Colls /\ store[op.coll] \in Coll
    BY <1>3, <1>4, OpShape
  <1>6. /\ op.kind \in {"create", "insert", "update", "delete"}
        /\ op.kind = "insert" => wtx.key \in Key
    BY <1>1, <1>3 DEF StageOK
  <1>7. Effect(wtx, op, store[op.coll])
    BY <1>1, <1>2 DEF Progress
  <1>8. resOf[wtx.cl] = None /\ resOf'[wtx.cl] = Reply
    BY <1>1, <1>3, <1>4, ResHere
  <1>9. resOf' = [resOf EXCEPT ![wtx.cl] = Reply]
    BY <1>1, <1>3, <1>4, <1>8, ResStep
  <1>10. docsOf' = [docsOf EXCEPT ![op.coll] = [meta |-> wtx.work.meta, data |-> wtx.work.data,
                                                used |-> Minted(wtx.work)]]
    <2>1. \A c \in Colls : Minted(store[c])' = Minted(store'[c])
      BY DEF Minted
    <2>2. \A c \in Colls : store'[c] = IF c = op.coll THEN wtx.work ELSE store[c]
      BY <1>1, <1>4
    <2>3. \A c \in Colls : docsOf'[c] = [meta |-> store'[c].meta, data |-> store'[c].data,
                                         used |-> Minted(store'[c])]
      BY <2>1 DEF docsOf
    <2>4. docsOf' = [c \in Colls |-> docsOf'[c]] /\ docsOf = [c \in Colls |-> docsOf[c]]
      BY DEF docsOf
    <2>5. \A c \in Colls : c # op.coll => docsOf'[c] = docsOf[c]
      BY <2>2, <2>3 DEF docsOf
    <2>6. docsOf'[op.coll] = [meta |-> wtx.work.meta, data |-> wtx.work.data,
                              used |-> Minted(wtx.work)]
      BY <1>5, <2>2, <2>3
    <2>7. QED
      BY <1>5, <2>4, <2>5, <2>6
  <1>11. QED
    BY <1>1, <1>3, <1>5, <1>6, <1>7, <1>8, <1>9, <1>10

\* A commit is the operation's one step.
LEMMA CommitImplements ==
  ASSUME RInv, Commit
  PROVE  A!Next
  <1> DEFINE p == wtx.cl  o == op  col == store[op.coll]  w == wtx.work
             new == [meta |-> w.meta, data |-> w.data, used |-> Minted(w)]
             doc == docsOf[o.coll]
  <1>1. /\ wtx # None /\ p \in Clients /\ o # None /\ o \in Op /\ call' = call
        /\ o.kind \in {"create", "insert", "update", "delete"}
        /\ o.coll \in Colls /\ col \in Coll /\ w \in Coll
        /\ resOf[p] = None
        /\ resOf' = [resOf EXCEPT ![p] = Reply]
        /\ docsOf' = [docsOf EXCEPT ![o.coll] = new]
    BY CommitFacts
  <1>2. Effect(wtx, o, col) /\ call[p] = o
    BY CommitFacts DEF op
  <1>3. doc = [meta |-> col.meta, data |-> col.data, used |-> Minted(col)]
    BY <1>1 DEF docsOf
  <1>4. doc.meta = col.meta /\ doc.data = col.data /\ doc.used = Minted(col)
    BY <1>3, SMT
  <1>5. Ok = A!Ok
    BY DEF Ok, A!Ok
  <1> HIDE DEF doc, new, p, o, col
  <1>6. CASE o.kind = "create"
    <2>1. col.meta = None /\ w.meta = o.meta /\ w.data = col.data /\ w.seq = col.seq
      BY <1>2, <1>6 DEF Effect
    <2>2. Minted(w) = Minted(col)
      BY <1>1, <2>1, MintedGrows
    <2>3. new = [doc EXCEPT !.meta = o.meta]
      BY <1>3, <2>1, <2>2, SMT DEF new
    <2>4. A!Create(p)
      BY <1>1, <1>2, <1>4, <1>5, <1>6, <2>1, <2>3 DEF A!Create, A!Pending, A!Took, Reply, doc, o
    <2>5. QED
      BY <1>1, <2>4 DEF A!Next
  <1>7. CASE o.kind = "delete"
    <2>1. col.meta # None /\ w.meta = col.meta /\ w.data = [col.data EXCEPT ![o.id] = None]
          /\ w.seq = col.seq
      BY <1>2, <1>7 DEF Effect
    <2>2. Minted(w) = Minted(col)
      BY <1>1, <2>1, MintedGrows
    <2>3. new = [doc EXCEPT !.data[o.id] = None]
      BY <1>3, <2>1, <2>2, SMT DEF new
    <2>4. A!Delete(p)
      BY <1>1, <1>2, <1>4, <1>5, <1>7, <2>1, <2>3 DEF A!Delete, A!Pending, A!Took, Reply, doc, o
    <2>5. QED
      BY <1>1, <2>4 DEF A!Next
  <1>8. CASE o.kind = "update"
    <2>1. /\ col.meta # None /\ w.meta = col.meta /\ w.data = [col.data EXCEPT ![o.id] = o.doc]
          /\ w.seq = col.seq /\ col.data[o.id] # None
          /\ col.meta.keyField # AutoKey => o.doc[col.meta.keyField] = o.id
      BY <1>2, <1>8 DEF Effect
    <2>2. Minted(w) = Minted(col)
      BY <1>1, <2>1, MintedGrows
    <2>3. new = [doc EXCEPT !.data[o.id] = o.doc]
      BY <1>3, <2>1, <2>2, SMT DEF new
    <2>4. A!Update(p)
      BY <1>1, <1>2, <1>4, <1>5, <1>8, <2>1, <2>3 DEF A!Update, A!Pending, A!Took, Reply, doc, o
    <2>5. QED
      BY <1>1, <2>4 DEF A!Next
  <1>9. CASE o.kind = "insert"
    <2> DEFINE k == wtx.key  auto == col.meta.keyField = AutoKey
               used == IF auto THEN Minted(col) \cup {k} ELSE Minted(col)
    <2>1. /\ col.meta # None /\ w.meta = col.meta /\ w.data = [col.data EXCEPT ![k] = o.doc]
          /\ col.data[k] = None
          /\ IF auto THEN w.seq = col.seq + 1 /\ k = encodeUint(col.seq + 1)
                     ELSE w.seq = col.seq /\ k = o.doc[col.meta.keyField]
      BY <1>2, <1>9 DEF Effect
    <2>2. Minted(w) = used /\ k \in IF auto THEN AutoKeys \ Minted(col) ELSE {o.doc[col.meta.keyField]}
      BY <1>1, <2>1, MintedGrows
    <2>3. new = [meta |-> doc.meta, data |-> [doc.data EXCEPT ![k] = o.doc],
                 used |-> IF doc.meta.keyField = AutoKey THEN doc.used \cup {k} ELSE doc.used]
      BY <1>4, <2>1, <2>2 DEF new
    <2>4. Reply = <<"id", k>>
      BY <1>9 DEF Reply, o
    <2>5. A!Took(p, new, <<"id", k>>)
      BY <1>1, <1>2, <2>4 DEF A!Took
    <2>6. A!Insert(p)
      BY <1>1, <1>2, <1>4, <1>9, <2>1, <2>2, <2>3, <2>5 DEF A!Insert, A!Pending, doc
    <2>7. QED
      BY <1>1, <2>6 DEF A!Next
  <1>10. QED
    BY <1>1, <1>6, <1>7, <1>8, <1>9

\* Each step of the engine, seen from the abstract store.
LEMMA StepImplements ==
  ASSUME Unambiguous(Vals), SchemaStable, RInv, [Next]_vars
  PROVE  A!Next \/ UNCHANGED <<docsOf, call, resOf>>
  <1>0. IInv
    BY DEF RInv
  <1>1. ASSUME NEW p \in Clients, NEW o \in Op,
               Begin(p, o) \/ OpenView(p, o) \/ CreateCollection(p, o)
        PROVE  A!Next
    BY <1>0, <1>1, CallsImplement, OpenViewImplements
  <1>2. ASSUME NEW p \in Clients, Get(p) \/ Lookup(p) \/ Return(p)
        PROVE  A!Next \/ UNCHANGED <<docsOf, call, resOf>>
    BY <1>0, <1>2, ReadsImplement, ReturnImplements
  <1>3. ASSUME NEW p \in Clients, BeginCreate(p)
        PROVE  UNCHANGED <<docsOf, call, resOf>>
    <2>1. UNCHANGED <<store, view, call, res>>
      BY <1>3 DEF BeginCreate
    <2>2. QED
      BY <2>1, DocsSame, ResSame
  <1>4. ASSUME getMeta \/ loadOld \/ decode \/ parse \/ deriveKey \/ Write \/ putMeta \/ CommitFails
        PROVE  A!Next \/ UNCHANGED <<docsOf, call, resOf>>
    <2>1. CASE getMeta
      BY <1>0, <2>1, TxStepImplements DEF getMeta
    <2>2. CASE loadOld
      BY <1>0, <2>2, TxStepImplements DEF loadOld
    <2>3. CASE decode
      BY <1>0, <2>3, TxStepImplements DEF decode
    <2>4. CASE parse
      BY <1>0, <2>4, TxStepImplements DEF parse
    <2>5. CASE deriveKey
      BY <1>0, <2>5, TxStepImplements DEF deriveKey
    <2>6. CASE Write
      BY <1>0, <2>6, TxStepImplements DEF Write
    <2>7. CASE putMeta
      BY <1>0, <2>7, TxStepImplements DEF putMeta
    <2>8. CASE CommitFails
      BY <1>0, <2>8, TxStepImplements DEF CommitFails
    <2>9. QED
      BY <1>4, <2>1, <2>2, <2>3, <2>4, <2>5, <2>6, <2>7, <2>8
  <1>5. CASE Commit
    BY <1>5, CommitImplements
  <1>6. CASE Activate \/ UNCHANGED vars
    <2>1. UNCHANGED <<store, view, call, res>>
      BY <1>6 DEF Activate, vars
    <2>2. QED
      BY <2>1, DocsSame, ResSame
  <1>7. CASE Crash
    BY <1>7, CrashImplements
  <1>8. QED
    BY <1>1, <1>2, <1>3, <1>4, <1>5, <1>6, <1>7 DEF Next

LEMMA InitImplements == Init => A!Init
  <1> SUFFICES ASSUME Init PROVE A!Init
    OBVIOUS
  <1>1. call = [p \in Clients |-> None] /\ resOf = [p \in Clients |-> None]
    BY DEF Init, resOf
  <1>2. \A c \in Colls : store[c] = EmptyColl
    BY DEF Init
  <1>3. Minted(EmptyColl) = {}
    BY SMT DEF Minted, EmptyColl
  <1>4. EmptyColl.meta = None /\ EmptyColl.data = [k \in Key |-> None]
    BY SMT DEF EmptyColl
  <1>5. docsOf = [c \in Colls |-> [meta |-> None, data |-> [k \in Key |-> None], used |-> {}]]
    BY <1>2, <1>3, <1>4 DEF docsOf
  <1>6. QED
    BY <1>1, <1>5 DEF A!Init

-------------------------------------------------------------------------------
(* Theorems.                                                               *)

\* No step of a client, the writer, the registry or a crash breaks the invariant.
THEOREM Inductive == Unambiguous(Vals) /\ IInv /\ [Next]_vars => IInv'
  <1> SUFFICES ASSUME Unambiguous(Vals), IInv, [Next]_vars PROVE IInv'
    OBVIOUS
  <1>1. ASSUME NEW p \in Clients, NEW o \in Op,
               Begin(p, o) \/ OpenView(p, o) \/ CreateCollection(p, o)
        PROVE  IInv'
    BY <1>1, BeginOK, OpenViewOK, CreateCollectionOK
  <1>2. ASSUME NEW p \in Clients, BeginCreate(p) \/ Get(p) \/ Lookup(p) \/ Return(p)
        PROVE  IInv'
    BY <1>2, BeginCreateOK, GetOK, LookupOK, ReturnOK
  <1>3. CASE getMeta \/ loadOld \/ decode \/ parse
    BY <1>3, getMetaOK, loadOldOK, decodeOK, parseOK
  <1>4. CASE deriveKey \/ Write \/ putMeta \/ Commit \/ CommitFails
    BY <1>4, deriveKeyOK, WriteOK, putMetaStepOK, CommitOK, CommitFailsOK
  <1>5. CASE Activate \/ Crash
    BY <1>5, EnvironmentOK
  <1>6. CASE UNCHANGED vars
    BY <1>6 DEF vars, IInv, TypeOK, TxOK, ViewOK, op
  <1>7. QED
    BY <1>1, <1>2, <1>3, <1>4, <1>5, <1>6 DEF Next

\* Type correctness, agreement of data and indexes, keys that match their
\* documents and sequence numbers never met again, in every reachable state.
THEOREM EngineSafe == Unambiguous(Vals) => (Spec => []IInv)
  <1> SUFFICES ASSUME Unambiguous(Vals) PROVE Spec => []IInv
    OBVIOUS
  <1>1. IInv /\ [Next]_vars => IInv'
    BY Inductive
  <1>2. QED
    BY <1>1, InitOK, PTL DEF Spec

\* Every variable keeps its type.
THEOREM TypeCorrect == Unambiguous(Vals) => (Spec => []TypeOK)
  <1>1. IInv => TypeOK
    BY DEF IInv
  <1>2. QED
    BY <1>1, EngineSafe, PTL

\* Data and indexes never drift apart, even across a crash.
THEOREM NoDrift == Unambiguous(Vals) => (Spec => []IndexAgreement)
  <1>1. IInv => IndexAgreement
    BY DEF IInv, CollOK, IndexAgreement
  <1>2. QED
    BY <1>1, EngineSafe, PTL

\* A document stays under the value of its key field.
THEOREM KeysAreFieldValues == Unambiguous(Vals) => (Spec => []KeyFieldMatches)
  <1>1. IInv => KeyFieldMatches
    BY NoneIsNothing DEF IInv, CollOK, KeyFieldMatches, TypeOK
  <1>2. QED
    BY <1>1, EngineSafe, PTL

\* The sequence has passed every generated key in use.
THEOREM SequencePassedKeys == Unambiguous(Vals) => (Spec => []KeysMinted)
  <1>1. IInv => KeysMinted
    BY DEF IInv, CollOK, KeysMinted, TypeOK
  <1>2. QED
    BY <1>1, EngineSafe, PTL

\* The writer's copy never strays from the committed collection and the effect
\* of the stages passed, and what is stored stays readable.
THEOREM FurtherInductive == Unambiguous(Vals) /\ RInv /\ [Next]_vars => RInv'
  <1> SUFFICES ASSUME Unambiguous(Vals), RInv, [Next]_vars PROVE RInv'
    OBVIOUS
  <1>0. IInv /\ IInv'
    BY Inductive DEF RInv
  <1>1. ASSUME NEW p \in Clients, NEW o \in Op,
               Begin(p, o) \/ OpenView(p, o) \/ CreateCollection(p, o)
        PROVE  RInv'
    BY <1>0, <1>1, BeginsFurther, ClientsFurther
  <1>2. ASSUME NEW p \in Clients, BeginCreate(p) \/ Get(p) \/ Lookup(p) \/ Return(p)
        PROVE  RInv'
    BY <1>0, <1>2, BeginsFurther, ClientsFurther
  <1>3. CASE getMeta \/ loadOld \/ decode \/ parse \/ deriveKey
    BY <1>0, <1>3, getMetaFurther, loadOldFurther, decodeFurther, parseFurther, deriveKeyFurther
  <1>4. CASE Write \/ putMeta \/ Commit
    BY <1>0, <1>4, WriteFurther, putMetaFurther, CommitFurther
  <1>5. CASE CommitFails
    BY <1>0, <1>5, TxStepFurther DEF CommitFails
  <1>6. CASE Activate \/ Crash
    BY <1>0, <1>6, EnvironmentFurther
  <1>7. CASE UNCHANGED vars
    <2>1. wtx' # None => Progress(wtx, op, store[op.coll])'
      BY <1>7 DEF RInv, vars, op, Progress, Effect
    <2>2. SchemaStable => AllReadable'
      BY <1>7 DEF RInv, vars, op, AllReadable, Readable, Present
    <2>3. QED
      BY <1>0, <2>1, <2>2 DEF RInv
  <1>8. QED
    BY <1>1, <1>2, <1>3, <1>4, <1>5, <1>6, <1>7 DEF Next

\* In every reachable state the writer's copy is the committed collection with
\* the effect of the stages passed.
THEOREM EngineFurther == Unambiguous(Vals) => (Spec => []RInv)
  <1> SUFFICES ASSUME Unambiguous(Vals) PROVE Spec => []RInv
    OBVIOUS
  <1>1. Init => RInv
    <2> SUFFICES ASSUME Init PROVE RInv
      OBVIOUS
    <2>1. IInv /\ wtx = None
      BY InitOK DEF Init
    <2>2. \A c \in Colls : Present(store[c]) = {}
      BY EmptyOK DEF Init, CollOK, EmptyColl
    <2>3. AllReadable
      BY <2>1, <2>2 DEF Init, AllReadable, Readable
    <2>4. QED
      BY <2>1, <2>3 DEF RInv
  <1>2. RInv /\ [Next]_vars => RInv'
    BY FurtherInductive
  <1>3. QED
    BY <1>1, <1>2, PTL DEF Spec

\* While the registry only adds fields, every stored document stays whole under
\* the active descriptor.
THEOREM StoredStaysReadable == Unambiguous(Vals) => (Spec => []DocsReadable)
  <1>1. RInv => DocsReadable
    BY DEF RInv, AllReadable, DocsReadable
  <1>2. QED
    BY <1>1, EngineFurther, PTL

\* No generated identifier is ever handed out twice, whatever was deleted,
\* rolled back or cut off by a crash.
THEOREM IdentifiersFresh == Unambiguous(Vals) => (Spec => AutoIdsFresh)
  <1> DEFINE Fresh(c) ==
        /\ Minted(store[c]) \subseteq Minted(store[c])'
        /\ store[c].meta # None =>
             (store[c].meta.keyField = AutoKey =>
                \A k \in Present(store[c])' \ Present(store[c]) : k \notin Minted(store[c]))
  <1>1. ASSUME UNCHANGED store  PROVE \A c \in Colls : Fresh(c)
    BY <1>1 DEF Minted, Present
  <1>2. ASSUME RInv, Commit, NEW c \in Colls  PROVE Fresh(c)
    <2>1. /\ op.coll \in Colls /\ store[op.coll] \in Coll /\ wtx.work \in Coll
          /\ Effect(wtx, op, store[op.coll])
          /\ op.kind \in {"create", "insert", "update", "delete"}
      BY <1>2, CommitFacts
    <2>2. store' = [store EXCEPT ![op.coll] = wtx.work] /\ store \in [Colls -> Coll]
      BY <1>2 DEF Commit, RInv, IInv, TypeOK
    <2>3. CASE c # op.coll
      <3>1. store'[c] = store[c]
        BY <2>2, <2>3
      <3>2. QED
        BY <3>1 DEF Minted, Present
    <2>4. CASE c = op.coll
      <3> DEFINE col == store[c]  w == wtx.work
      <3>1. store'[c] = w
        BY <2>1, <2>2, <2>4
      <3>2. /\ Minted(store[c])' = Minted(w)
            /\ Present(store[c])' = Present(w)
        BY <3>1 DEF Minted, Present
      <3>3. /\ w.seq = col.seq \/ w.seq = col.seq + 1
            /\ col.meta # None /\ col.meta.keyField = AutoKey /\ op.kind = "insert" =>
                 w.seq = col.seq + 1 /\ wtx.key = encodeUint(col.seq + 1)
        BY <2>1, <2>4 DEF Effect
      <3> HIDE DEF w
      <3> /\ col \in Coll /\ w \in Coll
        BY <2>1, <2>4 DEF w
      <3>4. /\ Minted(col) \subseteq Minted(w)
            /\ w.seq = col.seq + 1 => encodeUint(col.seq + 1) \notin Minted(col)
        <4> HIDE DEF col
        <4> QED BY <3>3, MintedGrows
      <3>5. ASSUME col.meta # None, NEW k \in Present(w) \ Present(col)
            PROVE  op.kind = "insert" /\ k = wtx.key
        <4>1. k \in Key /\ w.data[k] # None /\ col.data[k] = None
          BY DEF Present
        <4>2. col.data \in [Key -> Doc \cup {None}]
          BY DEF Coll
        <4>3. op.kind # "create"
          BY <2>1, <2>4, <3>5 DEF Effect, w
        <4>4. CASE op.kind = "delete"
          <5>1. w.data = [col.data EXCEPT ![op.id] = None]
            BY <2>1, <2>4, <4>4 DEF Effect, w
          <5>2. QED
            BY <4>1, <4>2, <5>1
        <4>5. CASE op.kind = "update"
          <5>1. w.data = [col.data EXCEPT ![op.id] = op.doc] /\ col.data[op.id] # None
            BY <2>1, <2>4, <4>5 DEF Effect, w
          <5>2. QED
            BY <4>1, <4>2, <5>1
        <4>6. CASE op.kind = "insert"
          <5>1. w.data = [col.data EXCEPT ![wtx.key] = op.doc]
            BY <2>1, <2>4, <4>6 DEF Effect, w
          <5>2. QED
            BY <4>1, <4>2, <4>6, <5>1
        <4>7. QED
          BY <2>1, <4>3, <4>4, <4>5, <4>6
      <3>6. ASSUME col.meta # None, col.meta.keyField = AutoKey, NEW k \in Present(w) \ Present(col)
            PROVE  k \notin Minted(col)
        BY <3>3, <3>4, <3>5, <3>6
      <3>7. QED
        BY <3>2, <3>4, <3>6
    <2>5. QED
      BY <2>3, <2>4
  <1>3. RInv /\ [Next]_vars => [\A c \in Colls : Fresh(c)]_vars
    <2>1. ASSUME Next  PROVE Commit \/ UNCHANGED store
      BY <2>1 DEF Next, Begin, OpenView, CreateCollection, BeginCreate, Get, Lookup, CloseView,
                  Return, getMeta, loadOld, decode, parse, deriveKey, Write, putMeta, CommitFails,
                  TxStep, Activate, Crash
    <2>2. QED
      BY <1>1, <1>2, <2>1
  <1>4. QED
    BY <1>3, EngineFurther, PTL DEF Spec, AutoIdsFresh

\* The engine implements the abstract document store, for any clients,
\* collections, documents and index definitions, while the registry only adds
\* fields: a write takes effect at its commit, a read at its snapshot.
THEOREM Implements == Unambiguous(Vals) /\ SchemaStable => (Spec => ImplementsDocStore)
  <1> SUFFICES ASSUME Unambiguous(Vals), SchemaStable PROVE Spec => ImplementsDocStore
    OBVIOUS
  <1>1. RInv /\ [Next]_vars => [A!Next]_(A!vars)
    BY StepImplements DEF A!vars
  <1>2. Spec => []RInv
    BY EngineFurther
  <1>3. QED
    BY <1>1, <1>2, InitImplements, PTL DEF Spec, ImplementsDocStore, A!Spec
===============================================================================
