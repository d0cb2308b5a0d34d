------------------------------- MODULE MCEngine -------------------------------
(* A small instance of Engine.                                               *)
EXTENDS Engine, TLC

CONSTANTS p1, p2, c1, kf, ff

MCFields == {kf, ff}
MCVals   == {<< >>, <<1>>}
MCDescs  == {{kf}, {kf, ff}}

MCDoc(k, v) == [f \in MCFields |-> IF f = kf THEN k ELSE v]
MCDocs  == {MCDoc(<<1>>, << >>), MCDoc(<<1>>, <<1>>), MCDoc(<< >>, <<1>>)}
MCMetas == {[keyField |-> AutoKey, indexes |-> {ff}],
            [keyField |-> kf, indexes |-> {ff}],
            [keyField |-> kf, indexes |-> {kf}]}

Symm    == Permutations({p1, p2})
===============================================================================
