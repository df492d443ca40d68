SPECIFICATION SpecArch
CONSTANTS
  MemDepth = 16
  Programs <- LongPrograms
  Modes <- StepMode
  MaxResetCycles = 1
  StepGap = 20
PROPERTIES RefinesMachine
