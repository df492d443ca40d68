SPECIFICATION FairSpec
CONSTANTS
  ClockDivide = 3
  Bytes = {0, 83, 128, 255}
  Slips = 5
  Glitches = 2
  GlitchEdges = 6
INVARIANTS TypeOK LinkInv ReceivesWhatWasSent DeliveredBeforeNext ErrorsComeFromNoise
PROPERTIES Delivers
