----------------------------- MODULE MCFirehose ------------------------------
(*****************************************************************************)
(* The parts of the firehose beside the work-steal protocol of WorkSteal:    *)
(* the reader of the resume floor, one thread with its callbacks             *)
(* (ThreadStream), the spawn gate, the recycle monitor and the geyser path.  *)
(* They run in one process without touching one another's state here, so     *)
(* that a behaviour is one of one part, chosen at the start.                 *)
(*****************************************************************************)
EXTENDS Naturals, TLC

VARIABLES
  part,  \* the part that this behaviour is about
  floorPc, position, end, grant, ledger, steals, floorProcessed, reader,
  loaded, next, found, before, quiet,
  streamPc, start, counted, highest, partial, pass, pending, overall, mine,
  since, streamFaults, pulsed, blocks, skips, streamProcessed, called,
  gatePhase, idle, retry, wait, deadline, polled, shutdown, calm, born,
  monitorPhase, age, got, flags, clock, primed, reference, monitorShutdown,
  rivals, alone,
  th, geyserFaults, finished, nodes, roots, metas, unloaded

floorVars == <<floorPc, position, end, grant, ledger, steals, floorProcessed,
            reader, loaded, next, found, before, quiet>>
streamVars == <<streamPc, start, counted, highest, partial, pass, pending,
            overall, mine, since, streamFaults, pulsed, blocks, skips,
            streamProcessed, called>>
gateVars == <<gatePhase, idle, retry, wait, deadline, polled, shutdown, calm,
            born>>
monitorVars == <<monitorPhase, age, got, flags, clock, primed, reference,
            monitorShutdown, rivals, alone>>
geyserVars == <<th, geyserFaults, finished, nodes, roots, metas, unloaded>>
all == <<part, floorVars, streamVars, gateVars, monitorVars, geyserVars>>

-----------------------------------------------------------------------------
(* The instances.                                                          *)

\* ThreadStream: three epochs of four slots; slots 2, 6, 7, 9 and 11 are skipped.
InOrder == (0 :> <<0, 1, 3>>) @@ (1 :> <<4, 5>>) @@ (2 :> <<8, 10>>)
\* The same archive, but block 5 arrives behind block 7.
OutOfOrder == (0 :> <<0, 1, 3>>) @@ (1 :> <<4, 7, 5, 6>>) @@ (2 :> <<8, 10>>)
AllFaults == {"transport", "truncated", "handler", "interrupt", "stats", "shutdown"}
NoHandler == AllFaults \ {"handler", "interrupt"}

\* GeyserFirehose: two epochs of four slots; slots 2 and 6 are skipped.
GeyserOrder == (0 :> <<0, 1, 3>>) @@ (1 :> <<4, 5, 7>>)
\* The same archive, but block 4 arrives behind block 5.
GeyserDisorder == (0 :> <<0, 1, 3>>) @@ (1 :> <<5, 4, 7>>)

Floor == INSTANCE FloorReader WITH Threads <- 3, PerThread <- 2,
  MinSteal <- 2, MaxSteals <- 1, pc <- floorPc, processed <- floorProcessed
Forward == INSTANCE ThreadStream WITH FirstSlot <- 1, EndSlot <- 12,
  EpochLen <- 4, Archive <- InOrder, Reverse <- FALSE, Interval <- 2,
  Faults <- AllFaults, MaxFaults <- 3, pc <- streamPc, faults <- streamFaults,
  processed <- streamProcessed
Backward == INSTANCE ThreadStream WITH FirstSlot <- 1, EndSlot <- 12,
  EpochLen <- 4, Archive <- InOrder, Reverse <- TRUE, Interval <- 2,
  Faults <- AllFaults, MaxFaults <- 3, pc <- streamPc, faults <- streamFaults,
  processed <- streamProcessed
Cut == INSTANCE ThreadStream WITH FirstSlot <- 1, EndSlot <- 11,
  EpochLen <- 4, Archive <- InOrder, Reverse <- TRUE, Interval <- 2,
  Faults <- AllFaults, MaxFaults <- 1, pc <- streamPc, faults <- streamFaults,
  processed <- streamProcessed
Gaps == INSTANCE ThreadStream WITH FirstSlot <- 1, EndSlot <- 12,
  EpochLen <- 4, Archive <- InOrder, Reverse <- FALSE, Interval <- 2,
  Faults <- NoHandler, MaxFaults <- 3, pc <- streamPc, faults <- streamFaults,
  processed <- streamProcessed
Disorder == INSTANCE ThreadStream WITH FirstSlot <- 0, EndSlot <- 12,
  EpochLen <- 4, Archive <- OutOfOrder, Reverse <- FALSE, Interval <- 2,
  Faults <- AllFaults, MaxFaults <- 3, pc <- streamPc, faults <- streamFaults,
  processed <- streamProcessed
Gate == INSTANCE SpawnGate WITH N <- 3, Green <- 1, Red <- 2, Grace <- 2,
  PendingMax <- 1, BackoffBase <- 1, BackoffMax <- 2, MaxDoublings <- 1,
  ErrorSlots <- {"a", "b"}, phase <- gatePhase
Monitor == INSTANCE RecycleMonitor WITH N <- 2, SweepTicks <- 1, MinAge <- 2,
  Cap <- 1, Pct <- 100, MaxRate <- 2, phase <- monitorPhase,
  shutdown <- monitorShutdown
Geyser == INSTANCE GeyserFirehose WITH FirstSlot <- 1, EndSlot <- 8,
  EpochLen <- 4, N <- 2, Notifiers <- {"entry", "block"},
  Archive <- GeyserOrder, MaxFaults <- 2, faults <- geyserFaults
Bare == INSTANCE GeyserFirehose WITH FirstSlot <- 5, EndSlot <- 7,
  EpochLen <- 4, N <- 3, Notifiers <- {}, Archive <- GeyserOrder,
  MaxFaults <- 3, faults <- geyserFaults
Overtaken == INSTANCE GeyserFirehose WITH FirstSlot <- 0, EndSlot <- 8,
  EpochLen <- 4, N <- 1, Notifiers <- {"entry", "block"},
  Archive <- GeyserDisorder, MaxFaults <- 3, faults <- geyserFaults

-----------------------------------------------------------------------------
(* One part runs; the variables of the others are not used.                *)

NoFloor == /\ floorPc = 0 /\ position = 0 /\ end = 0 /\ grant = 0
           /\ ledger = 0 /\ steals = 0 /\ floorProcessed = 0 /\ reader = 0
           /\ loaded = 0 /\ next = 0 /\ found = 0 /\ before = 0 /\ quiet = 0
NoStream == /\ streamPc = 0 /\ start = 0 /\ counted = 0 /\ highest = 0
            /\ partial = 0 /\ pass = 0 /\ pending = 0 /\ overall = 0
            /\ mine = 0 /\ since = 0 /\ streamFaults = 0 /\ pulsed = 0
            /\ blocks = 0 /\ skips = 0 /\ streamProcessed = 0 /\ called = 0
NoGate == /\ gatePhase = 0 /\ idle = 0 /\ retry = 0 /\ wait = 0
          /\ deadline = 0 /\ polled = 0 /\ shutdown = 0 /\ calm = 0
          /\ born = 0
NoMonitor == /\ monitorPhase = 0 /\ age = 0 /\ got = 0 /\ flags = 0
             /\ clock = 0 /\ primed = 0 /\ reference = 0
             /\ monitorShutdown = 0 /\ rivals = 0 /\ alone = 0
NoGeyser == /\ th = 0 /\ geyserFaults = 0 /\ finished = 0 /\ nodes = 0
            /\ roots = 0 /\ metas = 0 /\ unloaded = 0

Parts == {"floor", "forward", "backward", "cut", "gaps",
          "disorder", "gate", "monitor", "geyser", "bare", "overtaken"}

PartInit ==
  /\ part \in Parts
  /\ IF part = "floor" THEN Floor!Init ELSE NoFloor
  /\ CASE part = "forward" -> Forward!Init
       [] part = "backward" -> Backward!Init
       [] part = "cut" -> Cut!Init
       [] part = "gaps" -> Gaps!Init
       [] part = "disorder" -> Disorder!Init
       [] OTHER -> NoStream
  /\ IF part = "gate" THEN Gate!Init ELSE NoGate
  /\ IF part = "monitor" THEN Monitor!Init ELSE NoMonitor
  /\ CASE part = "geyser" -> Geyser!Init
       [] part = "bare" -> Bare!Init
       [] part = "overtaken" -> Overtaken!Init
       [] OTHER -> NoGeyser

PartNext ==
  /\ UNCHANGED part
  /\ IF part = "floor" THEN Floor!Next ELSE UNCHANGED floorVars
  /\ CASE part = "forward" -> Forward!Next
       [] part = "backward" -> Backward!Next
       [] part = "cut" -> Cut!Next
       [] part = "gaps" -> Gaps!Next
       [] part = "disorder" -> Disorder!Next
       [] OTHER -> UNCHANGED streamVars
  /\ IF part = "gate" THEN Gate!Next ELSE UNCHANGED gateVars
  /\ IF part = "monitor" THEN Monitor!Next ELSE UNCHANGED monitorVars
  /\ CASE part = "geyser" -> Geyser!Next
       [] part = "bare" -> Bare!Next
       [] part = "overtaken" -> Overtaken!Next
       [] OTHER -> UNCHANGED geyserVars

ASSUME FirehoseAssumptions ==
  /\ Floor!ThreadsAssumption /\ Floor!StealAssumption
  /\ Forward!RangeAssumption /\ Forward!EpochAssumption
  /\ Forward!ModeAssumption /\ Forward!ArchiveAssumption
  /\ Backward!RangeAssumption /\ Backward!ModeAssumption
  /\ Cut!RangeAssumption /\ Cut!ModeAssumption
  /\ Gaps!ModeAssumption /\ Disorder!RangeAssumption /\ Disorder!ArchiveAssumption
  /\ Gate!TimesAssumption /\ Monitor!MonitorAssumption
  /\ Geyser!RangeAssumption /\ Bare!RangeAssumption /\ Overtaken!RangeAssumption
  /\ Geyser!ArchiveAssumption /\ Bare!ArchiveAssumption /\ Overtaken!ArchiveAssumption

\* What each part's scheduling justifies: FairSpec of ThreadStream, SpawnGate,
\* RecycleMonitor and GeyserFirehose.
PartSpec ==
  /\ PartInit /\ [][PartNext]_all
  /\ WF_streamVars(part = "forward" /\ Forward!Work)
  /\ WF_gateVars(part = "gate" /\ Gate!Ramping /\ Gate!Tick)
  /\ WF_gateVars(part = "gate" /\ Gate!Ramping /\ Gate!Poll)
  /\ WF_gateVars(part = "gate" /\ Gate!Ramping /\ Gate!Resumes)
  /\ \A t \in 0 .. 1 :
       /\ WF_monitorVars(part = "monitor" /\ (Monitor!Open(t) \/ Monitor!Finish(t)))
       /\ SF_monitorVars(part = "monitor" /\ Monitor!Recycle(t))
       /\ WF_monitorVars(part = "monitor" /\ Monitor!Stop(t))
       /\ WF_geyserVars(part = "geyser" /\ Geyser!Thread(t))
  /\ WF_geyserVars(part = "geyser" /\ Geyser!Finish)
  /\ \A t \in 0 .. 2 : WF_geyserVars(part = "bare" /\ Bare!Thread(t))
  /\ WF_geyserVars(part = "bare" /\ Bare!Finish)

-----------------------------------------------------------------------------
(* Properties: each part is stated and explained in the part's module.     *)

\* Every variable of every part keeps its type.
PartTypeOK ==
  /\ part = "floor" => Floor!TypeOK
  /\ part = "forward" => Forward!TypeOK
  /\ part = "gate" => Gate!TypeOK
  /\ part = "monitor" => Monitor!TypeOK
  /\ part = "geyser" => Geyser!TypeOK

\* resume_floor loads the ledger field by field while owners store: during a handover
\* every open slot is in some slice or in a grant on its way, whichever store was the
\* last; and when no grant is on its way meanwhile, every block below the floor that
\* is returned was processed.
FloorKept == part = "floor" => Floor!NothingLost /\ Floor!QuietFloorRight

\* Over all restarts of a thread, forward and in reverse, a block is counted once, and
\* the deltas of the statistics pulses add up to the counters, also after a callback
\* failed and its pulse was rolled back.
CountedOnce ==
  /\ part = "forward" => Forward!CountedOnce /\ Forward!PulsesAddUp
  /\ part = "backward" => Backward!CountedOnce /\ Backward!PulsesAddUp
  /\ part = "cut" => Cut!CountedOnce

\* When a thread ends, on_block has seen every block of its range, whatever failed in
\* between; without failing handlers every skipped slot between two blocks of an
\* epoch as well; and a block that comes late is counted if nothing fails.
EverySlotSeen ==
  /\ part = "forward" => Forward!EveryBlockSeen
  /\ part = "backward" => Backward!EveryBlockSeen
  /\ part = "gaps" => Gaps!EverySlotSeen
  /\ part = "disorder" => Disorder!LateCounted

\* Over all restarts on_block never goes back to a slot it was called for, and in
\* reverse mode never goes up to an epoch that was left.
OneDirection ==
  [][/\ part = "forward" => Forward!NeverBack
     /\ part = "disorder" => Disorder!NeverBack
     /\ part = "backward" => Backward!EpochsDescend]_all

\* The gate starts a thread past the pending limit only after a whole grace without a
\* red thread, and the rate the monitor holds the others to was reached by more than
\* one thread unless only one was moving.
ThreadsPaced ==
  [][/\ part = "gate" => Gate!RedFreeGrace
     /\ part = "monitor" => Monitor!BarIsShared']_all

\* Before firehose_geyser announces a block its transactions and entries were
\* notified, each once and in order, whatever was retried; and a block out of order
\* costs no block that is in order with the others of its epoch.
GeyserBlocks ==
  /\ part = "geyser" => Geyser!BlockComplete
  /\ part = "overtaken" => Overtaken!BlockComplete /\ Overtaken!OthersCovered

\* firehose_geyser implements GeyserDelivery, with the metadata and the unload of the
\* plugins, and again with the slot notifications and its own return.
GeyserDelivers ==
  /\ part = "geyser" => Geyser!Delivery!Init
  /\ [][part = "geyser" => [Geyser!Delivery!Step]_(Geyser!Delivery!vars)]_all
  /\ <>(part = "geyser" => unloaded)
  /\ part = "bare" => Bare!Announcing!Init
  /\ [][part = "bare" => [Bare!Announcing!Step]_(Bare!Announcing!vars)]_all
  /\ <>(part = "bare" => finished)

\* A thread's stream ends or was stopped; every thread is started once the running
\* ones stop being red, however sluggish they stay; and a request to recycle is taken,
\* or its thread finishes.
EveryWaitEnds ==
  /\ <>(part = "forward" => Forward!Ended)
  /\ <>[](part = "gate" => Gate!Calm) => <>(part = "gate" => Gate!AllSpawned)
  /\ \A t \in 0 .. 1 :
       part = "monitor" /\ Monitor!Requested(t) ~> part = "monitor" /\ Monitor!Answered(t)
=============================================================================
