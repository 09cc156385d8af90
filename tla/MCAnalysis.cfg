CONSTANTS
  Value <- MCValue
  class <- MCclass
  inside <- MCinside
  NoValue = NoValue
  Nodes = 3
  Absent = Absent
  Pending = Pending
  Pairs <- MCPairs
SPECIFICATION Spec
INVARIANTS
  InferenceSound
  UniformUnion
  CompatibleKeepsValues
