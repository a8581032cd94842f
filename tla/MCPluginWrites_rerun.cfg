CONSTANTS
  Threads <- OneThread
  Lo <- OneLo
  Hi <- OneHi
  Blocks <- TwoBlocks
  TxCount = 2
  FlushInterval = 2
  Faults <- AllFaults
  MaxFaults = 2
  MaxRuns = 2
SPECIFICATION Spec
INVARIANTS CompleteBeforeExit
