CONSTANTS
  NumThreads = 2
  FirstSlot = 2
  EndSlot = 10
  EpochLen = 4
  MinSteal = 2
  MaxFaults = 2
  Blocks <- SomeBlocks
  Faults <- LostIndex
SPECIFICATION Spec
INVARIANTS AuditSound
