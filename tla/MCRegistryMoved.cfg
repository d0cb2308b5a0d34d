SPECIFICATION Spec
CONSTANTS
  r1 = r1
  r2 = r2
  w1 = w1
  pk = pk
  pq = pq
  int = int
  str = str
  Names <- MCNames
  Texts <- MCMoved
  Regs = {r1}
  Writers = {w1}
  MaxVersion = 2
  MayCrash = FALSE
  None = None
PROPERTY TypesStable
