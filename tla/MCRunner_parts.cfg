\* Each part around the firehose on a small instance.
SPECIFICATION PartSpec
INVARIANTS PartTypeOK PulsesMeasure RowsAgree CommandsKept
PROPERTIES ServersKept EveryWaitEnds
