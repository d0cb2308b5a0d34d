------------------------------ MODULE MCAuthKeys ------------------------------
(* Small instances of AuthKeys.                                             *)
EXTENDS AuthKeys, TLC

CONSTANTS k1, k2, k3, c1, c2

MCGrants == {[role |-> RoleAdmin, expires |-> 0], [role |-> RoleAdmin, expires |-> 2],
             [role |-> RoleReadWrite, expires |-> 0]}

Symm == Permutations({k1, k2, k3}) \cup Permutations({c1, c2})
===============================================================================
