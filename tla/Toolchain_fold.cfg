SPECIFICATION ToolchainSpec
CONSTANTS
  Sources <- FoldedSources
  MemFiles = {}
INVARIANT ComputesMeaning
CHECK_DEADLOCK FALSE
