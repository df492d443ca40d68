SPECIFICATION FairSpec
CONSTANTS
  ClockDivide = 1
  Depth = 4
  Data = {0, 213}
  PeerGap = 46
  MaxOwed = 4
INVARIANTS TypeOK FlagsHonest EchoesInOrder
PROPERTIES EchoesAll
