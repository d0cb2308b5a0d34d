------------------------------- MODULE MCQuery -------------------------------
(* A small instance of Query: an indexed field x and an unindexed field y.   *)
EXTENDS Query

MCDoc(x, y) == [x |-> x, y |-> y]
MCCmp(f, op, v) == [t |-> "cmp", field |-> f, op |-> op, value |-> v]
MCAnd(fs) == [t |-> "and", fs |-> fs]
MCOr(fs)  == [t |-> "or", fs |-> fs]

MCDocs == {MCDoc(1, 1), MCDoc(2, 2)}
MCSizes == -1 .. 2

MCAll   == [t |-> "nil"]
MCUnset == [t |-> "unset"]
MCX1 == MCCmp("x", "OP_EQ", 1)
MCY2 == MCCmp("y", "OP_GTE", 2)
\* 9 is a literal that does not parse, z no field.
MCX9 == MCCmp("x", "OP_EQ", 9)
MCZ1 == MCCmp("z", "OP_EQ", 1)
\* Groups at the limits of three levels and two predicates.
MCOr1  == MCOr(<<MCX1>>)
MCOrs  == {MCOr(<<MCOr(<<MCY2>>), MCX1>>), MCOr(<<MCOr(<<MCY2, MCX1>>)>>), MCOr(<<MCY2, MCZ1>>)}
MCAnd1 == MCAnd(<<MCOr1, MCX1>>)

\* Filters the server turns down.
MCNever == MCCmp("y", "OP_UNSPECIFIED", 2)
MCRefused == {MCUnset, MCNever, MCAnd(<< >>), MCAnd(<<MCX1, MCAll>>), MCAnd(<<MCUnset>>),
              MCAnd(<<MCX1, MCX1, MCY2>>), MCAnd(<<MCAnd1, MCX1>>), MCOr(<<MCOr(<<MCOr1>>)>>)}

MCAsked == {MCX1, MCX9, MCAnd1} \cup MCOrs \cup MCRefused
MCWire  == MCAsked \cup {MCAll, MCY2, MCZ1, MCOr1, MCOr(<<MCY2>>), MCOr(<<MCY2, MCX1>>), MCOr(<<MCOr1>>)}

MCHeight[f \in MCWire] ==
  IF f.t \in {"and", "or"} THEN 1 + Max({0} \cup {MCHeight[f.fs[i]] : i \in DOMAIN f.fs}) ELSE 0
==============================================================================
