SPECIFICATION Spec
CONSTANTS
  Half32 = 2
  Half64 = 4
  Strings <- MCStrings
  Names = {"eq", "ne", "gt", "gte", "lt", "lte", "<=", "like"}
  Sizes = {0, 1, 2, 5}
  RoleTexts <- MCRoleTexts
  Limit = 1
  MaxDocs = 2
INVARIANTS SameEitherWay IdsDenote IdsUsable LiteralsAgree OrderKept
