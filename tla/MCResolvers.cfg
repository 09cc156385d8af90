CONSTANTS
  Quote = "q"
  Control = "c"
  Uris <- MCUris
  Bases <- MCBases
  References <- MCReferences
  Docs <- MCDocs
  NotJson = NotJson
  BaseDir <- MCBaseDir
  Disk <- MCDisk
  MaxJsonBytes = 20
  MaxDepth = 3
  MaxRegistrations = 2
SPECIFICATION ResolverSpec
INVARIANTS
  Authoritative
  PlacesExact
  AnswersExact
  LimitsExact
