\* Each part of the firehose on a small instance.
SPECIFICATION PartSpec
INVARIANTS PartTypeOK FloorKept CountedOnce EverySlotSeen GeyserBlocks
PROPERTIES OneDirection ThreadsPaced GeyserDelivers EveryWaitEnds
