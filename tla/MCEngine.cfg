SPECIFICATION Spec
CONSTANTS
  p1 = p1
  p2 = p2
  c1 = c1
  kf = kf
  ff = ff
  Base = 2
  Width = 2
  MaxSeq = 2
  Clients = {p1, p2}
  Colls = {c1}
  Fields <- MCFields
  Vals <- MCVals
  Descs <- MCDescs
  CallDocs <- MCDocs
  CallMetas <- MCMetas
  SchemaStable = TRUE
  AutoKey = AutoKey
  NoType = NoType
  None = None
SYMMETRY Symm
INVARIANTS IndexAgreement KeyFieldMatches DocsReadable
PROPERTIES AutoIdsFresh ImplementsDocStore
