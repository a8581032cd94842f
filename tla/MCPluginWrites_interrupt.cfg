CONSTANTS
  Threads <- OneThread
  Lo <- OneLo
  Hi <- OneHi
  Blocks <- TwoBlocks
  TxCount = 2
  FlushInterval = 2
  Faults <- Interrupt
  MaxFaults = 1
  MaxRuns = 2
SPECIFICATION Spec
INVARIANTS RerunCompletes
