---------------------------- MODULE ThreadStream ----------------------------
(***************************************************************************)
(* One firehose thread that shares its range with nobody: sequential mode, *)
(* reverse mode and the threaded mode with one thread (firehose() of       *)
(* jetstreamer-firehose, firehose.rs).  It goes through the nodes of every *)
(* block of its range, calls the handlers in order, counts, emits the      *)
(* statistics, and starts again from the failed slot after every error.    *)
(*                                                                         *)
(* Data: a block is its slot and holds one transaction, one entry and one  *)
(* rewards node in front of the block node; a block hash is the slot it    *)
(* belongs to.  Backoff only delays a restart here and is left out.        *)
(***************************************************************************)
EXTENDS Integers, Sequences, FiniteSets

CONSTANTS
  FirstSlot, EndSlot,  \* the requested range is FirstSlot .. EndSlot - 1
  EpochLen,            \* slots per epoch
  Archive,             \* Archive[e]: the blocks of epoch e in stream order
  Reverse,             \* reverse mode
  Interval,            \* tracking_interval_slots
  Faults, MaxFaults    \* the kinds of fault that happen, and how many at most

FaultKinds ==
  { "transport",  \* open, seek, read or decode fails or times out
    "truncated",  \* the stream ends cleanly before its last block
    "handler",    \* a callback returns an error
    "interrupt",  \* a callback returns an io::Error of kind Interrupted
    "stats",      \* the statistics callback returns an error
    "shutdown" }  \* a shutdown signal arrives

RangeAssumption == FirstSlot \in Nat /\ EndSlot \in Nat /\ FirstSlot < EndSlot
EpochAssumption == EpochLen \in Nat \ {0} /\ Interval \in Nat \ {0}
ModeAssumption == Reverse \in BOOLEAN /\ Faults \subseteq FaultKinds /\ MaxFaults \in Nat

EpochOf(s) == s \div EpochLen
Lowest == EpochOf(FirstSlot)
Top == EpochOf(EndSlot - 1)

ArchiveAssumption ==
  \A e \in Lowest .. Top :
    /\ Archive[e] \in Seq({s \in Nat : EpochOf(s) = e}) /\ Archive[e] # <<>>
    /\ \A i, j \in 1 .. Len(Archive[e]) : Archive[e][i] = Archive[e][j] => i = j

Slots == FirstSlot .. (EndSlot - 1)
Present == UNION {{Archive[e][i] : i \in 1 .. Len(Archive[e])} : e \in Lowest .. Top}

NoSlot == -1   \* Option::None of a slot or an epoch

VARIABLES
  pc,        \* where the thread is
  start,     \* slot_range.start
  counted,   \* last_counted_slot
  highest,   \* reverse_highest_remaining_epoch
  partial,   \* reverse_partial_resume
  pass,      \* locals of one pass of the retry loop
  pending,   \* pending_skipped_slots of this thread
  overall,   \* the counters all threads share: slots, blocks, transactions
  mine,      \* thread_stats
  since,     \* the counters since the last pulse
  faults,
  \* history
  pulsed,    \* what the statistics callback was told, summed up
  blocks,    \* slots on_block accepted a Block for
  skips,     \* slots on_block accepted a PossibleLeaderSkipped for
  processed, \* slots of the blocks that were counted
  called     \* the slot on_block was last called with

control == <<start, highest, partial>>
stats == <<overall, mine, since, pulsed>>
seen == <<blocks, skips, processed, called>>
vars == <<pc, control, counted, pass, pending, stats, faults, seen>>

-----------------------------------------------------------------------------
Max2(a, b) == IF a < b THEN b ELSE a
Min2(a, b) == IF a < b THEN a ELSE b
Dec(n) == Max2(n - 1, 0)   \* saturating_sub(1)

EpochFirst(e) == e * EpochLen
EpochLast(e) == e * EpochLen + (EpochLen - 1)

NextPresent(after, last) ==
  LET S == {s \in Present : after < s /\ s <= last}
  IN  IF S = {} THEN NoSlot ELSE CHOOSE s \in S : \A r \in S : s <= r

NoCount == [slots |-> 0, blocks |-> 0, txs |-> 0]
Plus(a, b) == [k \in DOMAIN a |-> a[k] + b[k]]
Minus(a, b) == [k \in DOMAIN a |-> a[k] - b[k]]
OneSlot == [NoCount EXCEPT !.slots = 1]
OneBlock == [NoCount EXCEPT !.slots = 1, !.blocks = 1]
OneTx == [NoCount EXCEPT !.txs = 1]

NoPass == [todo |-> <<>>, epoch |-> 0, last |-> 0, pos |-> 0, emitted |-> 0, cur |-> NoSlot,
           node |-> "none", hash |-> NoSlot, prev |-> NoSlot, snap |-> <<>>]

Init ==
  /\ pc = "boundary"
  /\ start = FirstSlot
  /\ counted = Dec(FirstSlot)
  /\ highest = Top
  /\ partial = NoSlot
  /\ pass = NoPass
  /\ pending = {}
  /\ overall = NoCount
  /\ mine = [slots |-> 0, blocks |-> 0, skipped |-> 0, current |-> FirstSlot]
  /\ since = NoCount
  /\ faults = 0
  /\ pulsed = NoCount
  /\ blocks = {} /\ skips = {} /\ processed = {}
  /\ called = NoSlot

-----------------------------------------------------------------------------
(* The error path of the retry loop.                                       *)

Fault(k) == k \in Faults /\ faults < MaxFaults /\ faults' = faults + 1

\* (Mutant: at the failed slot.)
ResumeSlot_Failed(slot, c) == slot
ResumeSlot(slot, c) == IF slot <= c THEN c + 1 ELSE slot

(***************************************************************************)
(* reverse_resume_after_error: an error behind the last slot of an epoch   *)
(* completes the epoch.                                                    *)
(***************************************************************************)
ReverseResume(slot, c, h) ==
  IF EpochOf(slot) >= EpochOf(c) /\ EpochOf(ResumeSlot(slot, c)) > EpochOf(c)
  THEN [partial |-> NoSlot, highest |-> IF h = EpochOf(c) THEN h - 1 ELSE h]
  ELSE [partial |-> ResumeSlot(slot, c), highest |-> h]

(***************************************************************************)
(* An error at slot when c is the last counted slot and h the highest      *)
(* epoch that is left.  The pending skips are forgotten, and the last      *)
(* emitted slot goes back to where the task started.                       *)
(***************************************************************************)
Restart(slot, c, h) ==
  /\ pc' = "boundary"
  /\ counted' = c
  /\ pending' = {}
  /\ pass' = NoPass
  /\ IF Reverse
     THEN /\ partial' = ReverseResume(slot, c, h).partial
          /\ highest' = ReverseResume(slot, c, h).highest
          /\ UNCHANGED start
     ELSE /\ start' = ResumeSlot(slot, c)
          /\ UNCHANGED <<partial, highest>>

\* Errors between two blocks, and errors while opening an epoch.
AfterCurrent == IF pass.cur = NoSlot THEN start ELSE pass.cur + 1
AtCurrent == IF pass.cur = NoSlot THEN start ELSE pass.cur

\* A shutdown signal is looked at before a pass, an epoch and a batch.
PollShutdown ==
  /\ pc \in {"boundary", "epoch", "loop"}
  /\ Fault("shutdown")
  /\ pc' = "stopped"
  /\ UNCHANGED <<control, counted, pass, pending, stats, seen>>

-----------------------------------------------------------------------------
(* The epochs of a pass.                                                   *)

Ascending(lo, hi) == [i \in 1 .. (hi - lo + 1) |-> lo + (i - 1)]
Descending(hi, lo) == [i \in 1 .. (hi - lo + 1) |-> hi - (i - 1)]

StartPass ==
  /\ pc = "boundary"
  /\ IF Reverse /\ highest < Lowest
     THEN pc' = "done" /\ UNCHANGED pass
     ELSE /\ pc' = "epoch"
          /\ pass' = [NoPass EXCEPT
               !.todo = IF Reverse THEN Descending(highest, Lowest) ELSE Ascending(EpochOf(start), Top),
               !.emitted = Dec(FirstSlot)]
  /\ UNCHANGED <<control, counted, pending, stats, faults, seen>>

LocalStart(e) ==
  IF Reverse /\ partial # NoSlot /\ EpochOf(partial) = e
  THEN Max2(EpochFirst(e), partial)
  ELSE Max2(start, EpochFirst(e))
LocalLast(e) == Min2(EndSlot - 1, EpochLast(e))

AtEpoch == pc = "epoch" /\ pass.todo # <<>>
Overlaps(e) == LocalStart(e) <= LocalLast(e)

SkipEpoch ==
  /\ AtEpoch
  /\ ~Overlaps(Head(pass.todo))
  /\ pass' = [pass EXCEPT !.todo = Tail(@)]
  /\ UNCHANGED <<pc, control, counted, pending, stats, faults, seen>>

\* Where the stream stands after read_raw_header and, within an epoch,
\* seek_to_slot: at the data of the first block from slot s on, or at the end.
PositionOf(e, s) ==
  IF s = EpochFirst(e) THEN 1
  ELSE LET b == NextPresent(s - 1, EpochLast(e))
       IN  IF b = NoSlot THEN Len(Archive[e]) + 1
           ELSE CHOOSE i \in 1 .. Len(Archive[e]) : Archive[e][i] = b

\* The counters are aligned to the part of the epoch this pass streams.
EmittedAtOpen(s) == IF Reverse THEN Dec(s) ELSE pass.emitted

OpenEpoch ==
  /\ AtEpoch
  /\ LET e == Head(pass.todo)
         s == LocalStart(e)
     IN  /\ Overlaps(e)
         /\ counted' = Dec(s)
         /\ mine' = [mine EXCEPT !.current = s]
         /\ pass' = [pass EXCEPT !.epoch = e, !.last = LocalLast(e), !.pos = PositionOf(e, s),
                                 !.cur = NoSlot, !.emitted = EmittedAtOpen(s),
                                 !.hash = NoSlot, !.prev = NoSlot]
  /\ pc' = "loop"
  /\ UNCHANGED <<control, pending, overall, since, pulsed, faults, seen>>

\* fetch_epoch_stream or read_raw_header fails: current_slot is still the last
\* block of the epoch before.
OpenFails ==
  /\ AtEpoch
  /\ Overlaps(Head(pass.todo))
  /\ Fault("transport")
  /\ Restart(AtCurrent, counted, highest)
  /\ UNCHANGED <<stats, seen>>

SeekFails ==
  /\ AtEpoch
  /\ LET s == LocalStart(Head(pass.todo))
     IN  /\ Overlaps(Head(pass.todo))
         /\ s > EpochFirst(Head(pass.todo))
         /\ mine' = [mine EXCEPT !.current = s]
         /\ Restart(s, s - 1, highest)
  /\ Fault("transport")
  /\ UNCHANGED <<overall, since, pulsed, seen>>

\* Every epoch of the pass was streamed.
PassEnds ==
  /\ pc = "epoch"
  /\ pass.todo = <<>>
  /\ pc' = "done"
  /\ UNCHANGED <<control, counted, pass, pending, stats, faults, seen>>

-----------------------------------------------------------------------------
(* The blocks of an epoch.                                                 *)

Stream == Archive[pass.epoch]
AtBlock == pc = "loop" /\ pass.pos <= Len(Stream)
Ahead == Stream[pass.pos]

ReadFails ==
  /\ pc = "loop"
  /\ Fault("transport")
  /\ Restart(AfterCurrent, counted, highest)
  /\ UNCHANGED <<stats, seen>>

\* A block in front of the range is passed over.
BeforeRange ==
  /\ AtBlock
  /\ Ahead < start
  /\ pass' = [pass EXCEPT !.pos = @ + 1]
  /\ UNCHANGED <<pc, control, counted, pending, stats, faults, seen>>

TakeBlock ==
  /\ AtBlock
  /\ start <= Ahead /\ Ahead <= pass.last
  /\ pc' = "node"
  /\ pass' = [pass EXCEPT !.cur = Ahead, !.pos = @ + 1, !.node = "tx"]
  /\ UNCHANGED <<control, counted, pending, stats, faults, seen>>

\* The index still names a block of this part of the epoch.
\* (Mutants: a clean end of the stream is taken at its word; the last counted
\* block counts as unread.)
Unread_TrustEof == NoSlot
Unread_Counted == NextPresent(counted - 1, pass.last)
Unread == NextPresent(counted, pass.last)

StreamEnds ==
  \/ pass.pos > Len(Stream) /\ UNCHANGED faults
  \/ AtBlock /\ Fault("truncated")

PrematureEnd ==
  /\ pc = "loop"
  /\ StreamEnds
  /\ Unread # NoSlot
  /\ Restart(counted + 1, counted, highest)
  /\ UNCHANGED <<stats, seen>>

\* A pulse: what the counters since the last one hold goes to the callback.
\* A pulse that fails puts it back.  (Mutant: it does not.)
Unpulsed_Lost(c) == NoCount
Unpulsed(c) == c

\* (Mutant: it is only taken off the list of this pass.)
EpochDone_Forgotten == highest
EpochDone == IF Reverse /\ highest = pass.epoch THEN highest - 1 ELSE highest

(***************************************************************************)
(* The end of an epoch: at the end of its stream, or at a block behind the *)
(* part this thread streams.  The epoch counts as complete before the last *)
(* pulse, which may fail.                                                  *)
(***************************************************************************)
EpochEnds ==
  /\ pc = "loop"
  /\ \/ StreamEnds /\ Unread = NoSlot
     \/ AtBlock /\ Ahead > pass.last /\ UNCHANGED faults
  /\ pc' = "epoch"
  /\ highest' = EpochDone
  /\ partial' = IF Reverse /\ partial # NoSlot /\ EpochOf(partial) = pass.epoch THEN NoSlot ELSE partial
  /\ pass' = [pass EXCEPT !.todo = Tail(@)]
  /\ pulsed' = Plus(pulsed, since)
  /\ since' = NoCount
  /\ pending' = {}
  /\ UNCHANGED <<start, counted, overall, mine, seen>>

EpochEndPulseFails ==
  /\ pc = "loop"
  /\ \/ pass.pos > Len(Stream) /\ Unread = NoSlot
     \/ AtBlock /\ Ahead > pass.last
  /\ Fault("stats")
  /\ since' = Unpulsed(since)
  /\ Restart(mine.current, counted, EpochDone)
  /\ UNCHANGED <<overall, mine, pulsed, seen>>

-----------------------------------------------------------------------------
(* The nodes of a block.                                                   *)

AtNode(n) == pc = "node" /\ pass.node = n

OnTransaction ==
  /\ AtNode("tx")
  /\ overall' = Plus(overall, OneTx)
  /\ since' = Plus(since, OneTx)
  /\ mine' = [mine EXCEPT !.current = pass.cur]
  /\ pass' = [pass EXCEPT !.node = "entry"]
  /\ UNCHANGED <<pc, control, counted, pending, pulsed, faults, seen>>

OnEntry ==
  /\ AtNode("entry")
  /\ pass' = [pass EXCEPT !.node = "rewards", !.hash = pass.cur]
  /\ UNCHANGED <<pc, control, counted, pending, stats, faults, seen>>

\* The rewards are kept for the block; the block node takes a snapshot of the
\* thread's statistics before it counts the gap in front of the block.
OnRewards ==
  /\ AtNode("rewards")
  /\ pass' = [pass EXCEPT !.node = "block", !.snap = <<counted, mine>>]
  /\ UNCHANGED <<pc, control, counted, pending, stats, faults, seen>>

\* A callback (or the decoding of its node) fails in front of the block node.
NodeFails ==
  /\ pc = "node"
  /\ pass.node # "block"
  /\ Fault("handler")
  /\ mine' = [mine EXCEPT !.current = pass.cur]
  /\ Restart(pass.cur, counted, highest)
  /\ UNCHANGED <<overall, since, pulsed, seen>>

\* The next slot of the gap: the gap does not cross into another epoch.
\* (Mutant: its last slot is left out.)
Gap == counted + 1
InGap_Short == AtNode("block") /\ Gap < pass.cur - 1 /\ EpochOf(Gap) = EpochOf(pass.snap[1])
InGap ==
  /\ AtNode("block")
  /\ Gap < pass.cur
  /\ EpochOf(Gap) = EpochOf(pass.snap[1])

\* (Mutant: whatever was emitted before.)
Fresh_Always(s) == TRUE
Fresh(s) == s > pass.emitted

SkipSlot ==
  /\ InGap
  /\ counted' = Gap
  /\ pending' = pending \cup {Gap}
  /\ overall' = Plus(overall, OneSlot)
  /\ since' = Plus(since, OneSlot)
  /\ mine' = [mine EXCEPT !.slots = @ + 1, !.skipped = @ + 1, !.current = Gap]
  /\ IF Fresh(Gap)
     THEN /\ pass' = [pass EXCEPT !.emitted = Gap]
          /\ skips' = skips \cup {Gap}
          /\ called' = Gap
     ELSE UNCHANGED <<pass, skips, called>>
  /\ UNCHANGED <<pc, control, pulsed, faults, blocks, processed>>

SkipFails ==
  /\ InGap
  /\ Fresh(Gap)
  /\ Fault("handler")
  /\ called' = Gap
  /\ Restart(pass.cur, counted, highest)
  /\ UNCHANGED <<stats, blocks, skips, processed>>

AtBlockNode == AtNode("block") /\ ~InGap
\* (Mutant: a slot that was reported as skipped stays skipped.)
Late_Never == FALSE
Late == pass.cur \in pending
Duplicate == pass.cur <= counted /\ ~Late

\* What follows a block: the last slot of the range ends the thread.
AfterBlock ==
  /\ pc' = IF ~Reverse /\ pass.cur = EndSlot - 1 THEN "done" ELSE "loop"
  /\ pending' = IF pc' = "done" THEN pending ELSE pending \ {pass.cur}

DropDuplicate ==
  /\ AtBlockNode
  /\ Duplicate
  /\ AfterBlock
  /\ pass' = [pass EXCEPT !.node = "none", !.snap = <<>>]
  /\ UNCHANGED <<control, counted, stats, faults, seen>>

Call == called' = IF Fresh(pass.cur) THEN pass.cur ELSE called
PulseDue == pass.cur % Interval = 0

DeliverBlock ==
  /\ AtBlockNode
  /\ ~Duplicate
  /\ Call
  /\ blocks' = IF Fresh(pass.cur) THEN blocks \cup {pass.cur} ELSE blocks
  /\ overall' = Plus(overall, OneBlock)
  /\ pulsed' = IF PulseDue THEN Plus(pulsed, Plus(since, OneBlock)) ELSE pulsed
  /\ since' = IF PulseDue THEN NoCount ELSE Plus(since, OneBlock)
  /\ mine' = [mine EXCEPT !.slots = @ + 1, !.blocks = @ + 1, !.current = pass.cur]
  /\ counted' = Max2(counted, pass.cur)
  /\ pass' = [pass EXCEPT !.node = "none", !.snap = <<>>, !.prev = pass.hash,
                          !.emitted = Max2(@, pass.cur)]
  /\ processed' = processed \cup {pass.cur}
  /\ AfterBlock
  /\ UNCHANGED <<control, faults, skips>>

BlockFails ==
  /\ AtBlockNode
  /\ ~Duplicate
  /\ Fresh(pass.cur)
  /\ Fault("handler")
  /\ called' = pass.cur
  /\ Restart(pass.cur, counted, highest)
  /\ UNCHANGED <<stats, blocks, skips, processed>>

(***************************************************************************)
(* The pulse behind a block fails: the block is taken out of the counters  *)
(* again, this thread's statistics go back to the snapshot, and so does    *)
(* the last counted slot.                                                  *)
(***************************************************************************)

PulseFails ==
  /\ AtBlockNode
  /\ ~Duplicate
  /\ PulseDue
  /\ Fault("stats")
  /\ Call
  /\ blocks' = IF Fresh(pass.cur) THEN blocks \cup {pass.cur} ELSE blocks
  /\ since' = Minus(Unpulsed(Plus(since, OneBlock)), OneBlock)
  /\ mine' = pass.snap[2]
  /\ Restart(pass.cur, pass.snap[1], highest)
  /\ UNCHANGED <<overall, pulsed, skips, processed>>

\* A callback that fails with an interruption ends the thread.
Interrupted ==
  /\ pc = "node"
  /\ Fault("interrupt")
  /\ pc' = "stopped"
  /\ UNCHANGED <<control, counted, pass, pending, stats, seen>>

-----------------------------------------------------------------------------
Ended == pc \in {"done", "stopped"}
Terminated == Ended /\ UNCHANGED vars

Epochs == StartPass \/ SkipEpoch \/ OpenEpoch \/ OpenFails \/ SeekFails \/ PassEnds
Batches == BeforeRange \/ TakeBlock \/ ReadFails \/ PrematureEnd \/ EpochEnds \/ EpochEndPulseFails
Nodes == OnTransaction \/ OnEntry \/ OnRewards \/ NodeFails \/ Interrupted
BlockNode == SkipSlot \/ SkipFails \/ DropDuplicate \/ DeliverBlock \/ BlockFails \/ PulseFails
Work == Epochs \/ Batches \/ Nodes \/ BlockNode

Next == Work \/ PollShutdown \/ Terminated
Spec == Init /\ [][Next]_vars

\* A thread that can go on does: its task is polled until it returns.
FairSpec == Spec /\ WF_vars(Work)

-----------------------------------------------------------------------------
TypeOK ==
  /\ pc \in {"boundary", "epoch", "loop", "node", "done", "stopped"}
  /\ start \in FirstSlot .. EndSlot
  /\ counted \in Nat /\ highest \in -1 .. Top /\ partial \in Int
  /\ pending \subseteq Nat
  /\ {overall, since, pulsed} \subseteq [{"slots", "blocks", "txs"} -> Nat]
  /\ mine \in [{"slots", "blocks", "skipped", "current"} -> Nat]
  /\ pass.cur \in Int /\ pass.pos \in Nat /\ pass.emitted \in Nat
  /\ faults \in 0 .. MaxFaults
  /\ blocks \cup skips \cup processed \subseteq Slots

\* Whatever fails, and however often a pass starts again, a pulse reports
\* neither a slot nor a block nor a transaction that another one reported, and
\* none is lost between two pulses (maybe_emit_stats and its roll back).
PulsesAddUp == Plus(pulsed, since) = overall

\* A block is counted once over all restarts.
CountedOnce == overall.blocks = Cardinality(processed)

\* A thread that finished its range called on_block for every block of it
\* (plugin lib.rs: "Called for every block observed by the firehose").
EveryBlockSeen == pc = "done" => Slots \cap Present \subseteq blocks

\* Blocks that arrive out of order are counted, if nothing fails and the epoch begins
\* with its first block (README, Disagreements): all but the genesis block, whose slot
\* counts as done from the beginning.
LateCounted == pc = "done" /\ faults = 0 => (Slots \cap Present) \ {0} \subseteq processed

\* Slots without a block between two blocks of the range in the same epoch.
InnerGaps ==
  {s \in Slots \ Present :
     \E a, b \in Slots \cap Present : a < s /\ s < b /\ EpochOf(a) = EpochOf(b)}

\* A finished thread reported every slot of such a gap, also after a restart
\* (test_firehose_restart_loses_coverage_without_reset).
EverySlotSeen == pc = "done" => InnerGaps \subseteq skips

\* Going forward, on_block never goes back, over all restarts: a call repeats
\* the slot whose delivery failed or names a later one (docs: "each thread sees a
\* purely sequential view").
NeverBack == called' # called => called' > called

\* In reverse mode on_block never goes up to an epoch that was left
\* (test_firehose_sequential_reverse_crosses_epoch_boundary).
EpochsDescend == called # NoSlot => EpochOf(called') <= EpochOf(called)

\* Stats.slots_processed: "Aggregate slots processed across all threads".
\* (Does not hold: README, Disagreements.)
OverallIsSum == overall.slots = mine.slots

\* A block whose parent this run processed is delivered with the parent's hash
\* (BlockData::Block: "Parent block hash").
\* (Does not hold: README, Disagreements.)
ParentHash ==
  [][\A s \in blocks' \ blocks :
       LET before == {p \in processed : p < s /\ \A q \in Present : q < s => q <= p}
       IN  before # {} => pass.prev \in before]_vars

\* A thread finishes, or is told to stop.
RunEnds == <>Ended
============================================================================
