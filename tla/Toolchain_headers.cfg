SPECIFICATION ToolchainSpec
CONSTANTS
  Sources <- HeaderSources
  MemFiles = {}
INVARIANT ParsesBack
CHECK_DEADLOCK FALSE
