CONSTANTS
  Plain = Plain
  Narrow = Narrow
  Mixed = Mixed
  Cyclic = Cyclic
  Broken = Broken
  Binary = Binary
  Empty = Empty
  NoFile = NoFile
  None = None
  Path <- MCPath
  Dir <- MCDir
  dir <- MCdir
  ext <- MCext
  Source <- MCSource
  Vendored <- MCVendored
  utf8 <- MCutf8
  compiled <- MCcompiled
  generated <- MCgenerated
  openapi <- MCopenapi
  json <- MCjson
  built <- MCbuilt
  output_of <- MCoutput_of
  breaks <- MCbreaks
  size <- MCsize
  MaxCommands = 1
  MaxEdits = 1
SPECIFICATION Spec
INVARIANTS
  TypeOK
  RefusalLeavesFiles
  VerdictExact
  OutputTrue
  LockHonest
  BindingsAgree
CHECK_DEADLOCK FALSE
