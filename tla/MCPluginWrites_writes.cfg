CONSTANTS
  Threads <- TwoThreads
  Lo <- TwoLo
  Hi <- TwoHi
  Blocks <- OneEach
  TxCount = 2
  FlushInterval = 2
  Faults <- AllFaults
  MaxFaults = 2
  MaxRuns = 1
SPECIFICATION FairSpec
INVARIANTS TypeOK DrainCoversWrites CountsExact
PROPERTIES NothingDropped RunEnds
