------------------------------- MODULE MCNative -------------------------------
(* Small instances of Native.                                               *)
EXTENDS Native

\* All may contend for one file; two databases may be open at once.
MCOpens == [t \in Threads |-> IF t = "c2" THEN {"f1", "f2"} ELSE {"f1"}]
===============================================================================
