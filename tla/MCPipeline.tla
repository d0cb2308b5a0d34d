------------------------------ MODULE MCPipeline ------------------------------
(* Small instances of Pipeline.                                             *)
EXTENDS Pipeline, TLC

CONSTANTS k1, k2

Request(m, c, w) == [method |-> m, cred |-> c, window |-> w]

\* Patient and hurried callers, with windows shorter and longer than the
\* server's.
MCRequests ==
  [r \in {k1, k2} |->
     IF r = k1 THEN {Request("Insert", "readwrite", None), Request("Query", "readonly", 2)}
     ELSE {Request("Insert", "readwrite", 1), Request("Insert", "readonly", None),
           Request("Check", "none", None)}]
===============================================================================
