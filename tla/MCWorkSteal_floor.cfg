CONSTANTS
  NumThreads = 2
  FirstSlot = 2
  EndSlot = 10
  EpochLen = 4
  MinSteal = 2
  MaxFaults = 0
  Blocks <- SomeBlocks
  Faults <- NoFaults
SPECIFICATION Spec
INVARIANTS FloorSafe
