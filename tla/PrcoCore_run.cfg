SPECIFICATION FairSpecArch
CONSTANTS
  MemDepth = 16
  Programs <- AllPrograms
  Modes <- RunMode
  MaxResetCycles = 2
  StepGap = 1
INVARIANTS TypeOK TokenInv DataInv OneInstruction FetchAlone DecodesWordBeforePc
PROPERTIES RefinesMachine KeepsIssuing
