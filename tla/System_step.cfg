SPECIFICATION FairSystemSpec
CONSTANTS
  MemDepth = 16
  Programs <- SteppedPrograms
  Modes <- StepMode
  MaxResetCycles = 1
  StepGap = 57
  Period = 29
  ClockDivide = 1
  Depth = 4
INVARIANTS SystemTypeOK StepInv
PROPERTIES RefinesMachine RefinesCore OnePerPress SendsInOrder SendsAll
