CONSTANTS
  Key <- MCKey
  RootKey = ""
  Pattern <- MCPattern
  Compiles <- MCCompiles
  Name <- MCName
  NoName = "-"
  Docs <- MCDocs
  NoDoc = NoDoc
  NoObject = NoObject
  Refs <- MCRefs
  Id <- MCId
  NoBase = ""
  normalize <- MCnormalize
SPECIFICATION Spec
INVARIANTS
  TypeOK
  TablesExact
PROPERTY KeepsPromise
