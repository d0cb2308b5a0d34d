------------------------------- MODULE MCRestore -------------------------------
(* Small instances of Restore.                                              *)
EXTENDS Restore

MCTurn == [p \in Restorers |-> IF p = "r1" THEN 1 ELSE 2]
MCRollbacks == [p \in Restorers |-> {None, "aside"}]
MCSources == [p \in Restorers |-> {"out", "dest"}]
MCCreated == [o \in Openers |-> IF o = "s1" THEN "by-s1" ELSE "by-b1"]
MCSnapshots == {File("whole", 1, TRUE), File("torn", 1, TRUE), File("whole", 2, TRUE),
                File("whole", 3, TRUE)}
===============================================================================
