SPECIFICATION Spec
CONSTANTS
  r1 = r1
  r2 = r2
  w1 = w1
  pk = pk
  pq = pq
  int = int
  str = str
  Names <- MCNames
  Texts <- MCBefore
  Regs = {r1, r2}
  Writers = {w1}
  MaxVersion = 3
  MayCrash = TRUE
  None = None
INVARIANTS StepwiseCompatible ServesCatalog
PROPERTIES HistoryImmutable TypesStable CallsEnd
