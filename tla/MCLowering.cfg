CONSTANTS
  Loc <- MCLoc
  Root <- MCRoot
  NoLoc <- MCNoLoc
  Name <- MCName
  NoName = "-"
  Docs <- MCDocs
  MaxDepth = 2
  MaxNodes = 7
SPECIFICATION Spec
INVARIANTS
  TypeOK
  VisitingExact
  AnchorsExact
  VerdictExact
  IRBounded
