SPECIFICATION SystemSpec
CONSTANTS
  MemDepth = 16
  Programs <- BackToBack
  Modes <- RunMode
  MaxResetCycles = 1
  StepGap = 1
  Period = 24
  ClockDivide = 1
  Depth = 4
PROPERTIES SendsInOrder
