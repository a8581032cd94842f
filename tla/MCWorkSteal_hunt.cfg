CONSTANTS
  NumThreads = 3
  FirstSlot = 2
  EndSlot = 9
  EpochLen = 4
  MinSteal = 2
  MaxFaults = 0
  Blocks <- SomeBlocks
  Faults <- NoFaults
SPECIFICATION FairSpec
INVARIANTS EveryBlockReported OneProposal
PROPERTIES ProposalsAnswered
