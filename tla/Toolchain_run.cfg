SPECIFICATION ToolchainSpec
CONSTANTS
  Sources <- CompiledSources
  MemFiles = {}
INVARIANTS
  ParsesBack
  ComputesMeaning
  CodeIntact
  SameOnCore
PROPERTY RunsToEnd
CHECK_DEADLOCK FALSE
