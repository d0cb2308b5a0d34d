SPECIFICATION Spec
CONSTANTS
  k1 = k1
  k2 = k2
  k3 = k3
  c1 = c1
  c2 = c2
  KeyIds = {k1, k2, k3}
  Callers = {c1, c2}
  Grants <- MCGrants
  MaxTime = 2
  None = None
SYMMETRY Symm
INVARIANTS AdminRemains DeadTokensStayOut
