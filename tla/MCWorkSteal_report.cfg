CONSTANTS
  NumThreads = 2
  FirstSlot = 2
  EndSlot = 10
  EpochLen = 4
  MinSteal = 2
  MaxFaults = 1
  Blocks <- SomeBlocks
  Faults <- Recycling
SPECIFICATION Spec
INVARIANTS EveryBlockReported
