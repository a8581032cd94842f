CONSTANTS
  Threads <- OneThread
  Lo <- OneLo
  Hi <- OneHi
  Blocks <- TwoBlocks
  TxCount = 2
  FlushInterval = 2
  Faults <- Outage
  MaxFaults = 1
  MaxRuns = 1
SPECIFICATION Spec
INVARIANTS FloorRowsWritten
