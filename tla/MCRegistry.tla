------------------------------ MODULE MCRegistry ------------------------------
(* Small instances of SchemaRegistry.                                       *)
EXTENDS SchemaRegistry

CONSTANTS r1, r2, w1, pk, pq, int, str

File(pkg, imports, msgs) == [pkg |-> pkg, imports |-> imports, msgs |-> msgs]

\* A type t with one field, with another, with the other one of another kind
\* beside a type m that the importer declares too, and the first one moved to
\* another package.
Base1 == File(pk, {}, [t |-> {<<1, int>>}])
Base2 == File(pk, {}, [t |-> {<<1, int>>, <<2, int>>}])
Base3 == File(pk, {}, [t |-> {<<1, int>>, <<2, str>>}, m |-> {<<1, int>>}])
Moved == File(pq, {}, [t |-> {<<1, int>>}])
Wider == File(pk, {}, [t |-> {<<1, int>>}, u |-> {<<1, int>>}])

\* A type m whose field refers to t of the file imported from n, or to u.
Importer(n)   == File(pk, {n}, [m |-> {<<1, <<pk, "t">>>>}])
ImporterOf(n, s, x) == File(pk, {n}, [k \in {s} |-> {<<1, <<pk, x>>>>}])

MCNames  == {1, 2}
MCNames3 == {1, 2, 3}

\* The importer's key comes before the key of what it imports.
MCBefore == [n \in MCNames |-> IF n = 1 THEN {Importer(2)} ELSE {Base1, Base2, Base3}]
\* A later importer keeps an old copy of what an earlier one needs new.
MCChain  == [n \in MCNames3 |-> CASE n = 1 -> {Base1, Wider}
                                  [] n = 2 -> {ImporterOf(1, "a", "u")}
                                  [] n = 3 -> {ImporterOf(1, "b", "t")}]
\* A file moves to another package.
MCMoved  == [n \in MCNames |-> IF n = 1 THEN {Base1, Base2, Moved} ELSE {Importer(1)}]
===============================================================================
