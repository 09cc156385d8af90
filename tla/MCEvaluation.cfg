CONSTANTS
  Schema <- MCSchema
  NoSchema = "-"
  Value <- MCValue
  Uri <- MCUri
  NoUri = ""
  Relative <- MCRelative
  NoRelative = "-"
  Fragment <- MCFragment
  Anchor <- MCAnchor
  Tasks <- MCTasks
  MaxDepth = 4
SPECIFICATION Spec
INVARIANTS
  TypeOK
  EnvironmentRestored
  VerdictMatchesReference
  AbortNeverLost
PROPERTY Termination
