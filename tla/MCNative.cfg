SPECIFICATION Spec
CONSTANTS
  CThreads = {"c1", "c2"}
  GoThreads = {"g1"}
  Files = {"f1", "f2"}
  Opens <- MCOpens
  MaxOpens = 2
  None = None
INVARIANTS Closable ValidUntilClosed Exclusive
PROPERTIES HandleStable CallsReturn
