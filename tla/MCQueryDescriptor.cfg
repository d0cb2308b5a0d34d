SPECIFICATION Spec
CONSTANTS
  Keys = {1}
  Fields = {"x", "y"}
  Indexed = {"x"}
  Vals = {1, 2}
  Docs <- MCDocs
  Wire <- MCWire
  Height <- MCHeight
  Asked <- MCAsked
  Sizes <- MCSizes
  Limit = 1
  MaxDepth = 3
  MaxPredicates = 2
  MaxGen = 1
  None = None
INVARIANT SameDescriptor
