CONSTANTS
  NumThreads = 2
  FirstSlot = 2
  EndSlot = 10
  EpochLen = 4
  MinSteal = 2
  MaxFaults = 2
  Blocks <- SomeBlocks
  Faults <- AllButIndex
SPECIFICATION FairSpec
INVARIANTS TypeOK ExclusiveEmission CountedOnce AuditSound AuditComplete FloorSafeOnceAdopted
PROPERTIES Ownership RunEnds
