CONSTANTS
  length <- MCLength
  compiled <- MCCompiled
  matches <- MCMatches
  refused <- MCRefused
  Json <- MCJson
  depth <- MCDepth
  Values <- MCValues
  Docs <- MCDocs
  starts <- MCStarts
  split <- MCSplit
  trim <- MCTrim
  Pending = Pending
  Schema <- MCSchema
  NoSchema = "-"
  Part <- MCPart
  Base <- MCBase
  NoBase = "-"
  Tasks <- MCTasks
  MaxDepth = 3
SPECIFICATION KeywordSpec
INVARIANTS
  ComponentsExact
  AdaptExact
  BodiesExact
  NodeExact
  AgreesInOneBase
  ExceededIsAborted
