SPECIFICATION Spec
CONSTANTS
  Depth = 4
  Data = {0, 1, 2}
  Both <- Inside
INVARIANTS TypeOK Occupancy
PROPERTIES RefinesQueue
