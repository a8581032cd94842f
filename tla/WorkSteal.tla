----------------------------- MODULE WorkSteal -----------------------------
(***************************************************************************)
(* The threaded forward mode of firehose() (jetstreamer-firehose,          *)
(* firehose.rs): every thread streams the blocks of its slot range epoch   *)
(* by epoch, restarts after errors, and, when its range is complete, asks  *)
(* the least-progressed thread for half of its remaining work over a       *)
(* per-thread inbox; the victim answers at quiescent points.  At the end   *)
(* an audit checks the union of the journaled intervals.                   *)
(*                                                                         *)
(* Data is abstracted: a block is its slot number, a callback is the slot  *)
(* it was called with, an error is its kind and the slot it is attributed  *)
(* to.  Statistics, callbacks' contents and late (out of order) blocks are *)
(* not modelled here; slot 0 is excluded (saturating subtractions of the   *)
(* code make it special).                                                  *)
(***************************************************************************)
EXTENDS Naturals, Sequences, FiniteSets

CONSTANTS
  NumThreads,   \* threads of the run
  FirstSlot,    \* the requested range is FirstSlot .. EndSlot - 1
  EndSlot,
  EpochLen,     \* slots per epoch (432000 in epochs.rs)
  MinSteal,     \* MIN_STEAL_SLOTS (64 in firehose.rs)
  Blocks,       \* the slots of the archive that hold a block
  Faults,       \* the kinds of fault the environment may produce
  MaxFaults     \* bound on the number of faults of one behaviour

FaultKinds ==
  { "transport",  \* open, seek or read fails or times out
    "truncated",  \* the stream ends cleanly before its last block
    "index",      \* next_present_slot cannot tell and answers None
    "handler",    \* a callback returns an error
    "interrupt",  \* a callback returns an io::Error of kind Interrupted
    "recycle",    \* the recycle monitor flags the thread
    "shutdown" }  \* a shutdown signal arrives

ASSUME ThreadsAssumption == NumThreads \in Nat /\ NumThreads > 1
ASSUME RangeAssumption == FirstSlot \in Nat \ {0} /\ EndSlot \in Nat /\ FirstSlot <= EndSlot
ASSUME EpochAssumption == EpochLen \in Nat \ {0}
ASSUME StealAssumption == MinSteal \in Nat /\ MinSteal > 1
ASSUME BlocksAssumption == Blocks \subseteq Nat
ASSUME IndexAssumption ==   \* node_reader.rs: an epoch without indexed slots is corrupt
  \A s \in FirstSlot .. (EndSlot - 1) : \E b \in Blocks : b \div EpochLen = s \div EpochLen
ASSUME FaultsAssumption == Faults \subseteq FaultKinds /\ MaxFaults \in Nat

Threads == 0 .. (NumThreads - 1)
Slots == FirstSlot .. (EndSlot - 1)

None == 0   \* Option::None of a slot number; slot 0 is outside the range

VARIABLES
  \* local to a thread
  pc,         \* where the thread's task is
  range,      \* slot_range: [start, end)
  counted,    \* last_counted_slot
  emitted,    \* last_emitted_slot (and last_emitted_slot_global)
  pass,       \* locals of one pass of the retry loop
  cands,      \* victims request_steal has not asked yet
  \* shared by the threads
  slice,      \* work_registry: the ledger entry each thread publishes
  inbox,      \* steal_inboxes: the thieves whose proposals wait at a victim
  reply,      \* the oneshot of the proposal a thief waits for
  journal,    \* coverage_log
  shutdown,   \* shutdown_flag
  audit,      \* outcome of the end-of-run coverage audit
  faults,     \* faults so far
  \* history
  touched,    \* touched[t]: slots t called any callback for
  delivered,  \* delivered[t]: slots t called on_block with a Block for
  processed   \* slots whose block was delivered to every callback and counted

local == <<pc, range, counted, emitted, pass, cands>>
shared == <<slice, inbox, reply, journal, shutdown, audit, faults>>
history == <<touched, delivered, processed>>
vars == <<local, shared, history>>

-----------------------------------------------------------------------------
Min2(a, b) == IF a < b THEN a ELSE b
Max2(a, b) == IF a < b THEN b ELSE a

EpochOf(s) == s \div EpochLen
EpochFirst(e) == e * EpochLen
EpochLast(e) == e * EpochLen + (EpochLen - 1)

\* generate_subranges: nearly even, the remainder goes to the first threads.
Subrange(t) ==
  LET total == EndSlot - FirstSlot
      each  == total \div NumThreads
      rest  == total % NumThreads
      start == FirstSlot + t * each + Min2(t, rest)
  IN  [start |-> start, end |-> start + each + (IF t < rest THEN 1 ELSE 0)]

\* index.rs next_present_slot over a complete index.
NextPresent(after, last) ==
  LET S == {s \in Blocks : after < s /\ s <= last}
  IN  IF S = {} THEN None ELSE CHOOSE s \in S : \A r \in S : s <= r

NoPass == [epoch |-> 0, top |-> 0, last |-> 0, cur |-> None, batch |-> None]
NoReply == [kind |-> "none", start |-> 0, end |-> 0]
Pending == [NoReply EXCEPT !.kind = "pending"]
Refused == [NoReply EXCEPT !.kind = "refused"]
Dropped == [NoReply EXCEPT !.kind = "dropped"]
Granted(lo, hi) == [kind |-> "granted", start |-> lo, end |-> hi]

Gone == {"retired", "stopped"}
Go(t, l) == pc' = [pc EXCEPT ![t] = l]
Fault(k) == k \in Faults /\ faults < MaxFaults /\ faults' = faults + 1

Init ==
  /\ pc = [t \in Threads |-> "unspawned"]
  /\ range = [t \in Threads |-> Subrange(t)]
  /\ counted = [t \in Threads |-> Subrange(t).start - 1]
  /\ emitted = [t \in Threads |-> Subrange(t).start - 1]
  /\ pass = [t \in Threads |-> NoPass]
  /\ cands = [t \in Threads |-> <<>>]
  /\ slice = [t \in Threads |-> [start |-> Subrange(t).start,
                                 next  |-> Subrange(t).start,
                                 end   |-> Subrange(t).end]]
  /\ inbox = [t \in Threads |-> <<>>]
  /\ reply = [t \in Threads |-> NoReply]
  /\ journal = {}
  /\ shutdown = FALSE
  /\ audit = "pending"
  /\ faults = 0
  /\ touched = [t \in Threads |-> {}]
  /\ delivered = [t \in Threads |-> {}]
  /\ processed = {}

-----------------------------------------------------------------------------
(* Steps several handlers take.                                            *)

\* Dropping an inbox drops the oneshots inside it.  (Mutant: it does not.)
DropProposals_Leak(t) == reply
DropProposals(t) ==
  [u \in Threads |-> IF \E i \in 1 .. Len(inbox[t]) : inbox[t][i] = u
                     THEN Dropped ELSE reply[u]]

\* The task ends, and its inbox with it.
Leave(t, l) ==
  /\ Go(t, l)
  /\ inbox' = [inbox EXCEPT ![t] = <<>>]
  /\ reply' = DropProposals(t)
  /\ pass' = [pass EXCEPT ![t] = NoPass]

\* Resume after what is counted.  (Mutant: always at the failed slot.)
ResumeAt_Failed(slot, c) == slot
ResumeAt(slot, c) == IF slot <= c THEN c + 1 ELSE slot

(***************************************************************************)
(* The error path of the retry loop for an error at slot, when c is the    *)
(* last counted slot.  The last emitted slot goes back to the binding made *)
(* when the task was spawned, which the pass's own binding shadows.  A     *)
(* recycled connection restarts at once, without backoff.                  *)
(***************************************************************************)
Restart(t, slot, c, recycled) ==
  /\ Go(t, IF recycled THEN "boundary" ELSE "backoff")
  /\ counted' = [counted EXCEPT ![t] = c]
  /\ range' = [range EXCEPT ![t].start = ResumeAt(slot, c)]
  /\ emitted' = [emitted EXCEPT ![t] = Subrange(t).start - 1]
  /\ pass' = [pass EXCEPT ![t] = NoPass]

\* Where an error between two blocks is attributed to.
AfterCurrent(t) == IF pass[t].cur = None THEN range[t].start ELSE pass[t].cur + 1
AtCurrent(t) == IF pass[t].cur = None THEN range[t].start ELSE pass[t].cur

-----------------------------------------------------------------------------
(* The victim's side of the protocol.                                      *)

\* The victim's next slot to process.
Position(t) == IF pc[t] = "batch" THEN counted[t] + 1 ELSE range[t].start

\* The victim keeps the first half.  (Mutant: it gives everything away.)
SplitPoint_All(position, remaining) == position
SplitPoint(position, remaining) == position + remaining \div 2

(***************************************************************************)
(* service_steal_inbox with allow, one proposal: at a restart boundary,    *)
(* between two batches, or while backing off.                              *)
(***************************************************************************)
Answer(t) ==
  LET thief == Head(inbox[t])
      position == Position(t)
      remaining == IF position < range[t].end THEN range[t].end - position ELSE 0
      mid == SplitPoint(position, remaining)
  IN
  /\ pc[t] \in {"boundary", "batch", "backoff"}
  /\ inbox[t] # <<>>
  /\ inbox' = [inbox EXCEPT ![t] = Tail(@)]
  /\ IF remaining < MinSteal
     THEN /\ reply' = [reply EXCEPT ![thief] = Refused]
          /\ UNCHANGED <<range, slice>>
     ELSE /\ reply' = [reply EXCEPT ![thief] = Granted(mid, range[t].end)]
          /\ range' = [range EXCEPT ![t].end = mid]
          /\ slice' = [slice EXCEPT ![t].end = mid]
  /\ UNCHANGED <<pc, counted, emitted, pass, cands, journal, shutdown, audit, faults, history>>

\* A thread with nothing left refuses: while draining, and while it hunts.
Refuse(t) ==
  /\ pc[t] \in {"drain", "await"}
  /\ inbox[t] # <<>>
  /\ inbox' = [inbox EXCEPT ![t] = Tail(@)]
  /\ reply' = [reply EXCEPT ![Head(inbox[t])] = Refused]
  /\ UNCHANGED <<local, slice, journal, shutdown, audit, faults, history>>

-----------------------------------------------------------------------------
(* The stream: one pass of the retry loop.                                 *)

\* Threads are spawned in order (the health gate only delays a spawn), and
\* a spawned thread stamps its stream start, which makes it a candidate.
Spawn(t) ==
  /\ pc[t] = "unspawned"
  /\ \A u \in Threads : u < t => pc[u] # "unspawned"
  /\ Go(t, "boundary")
  /\ UNCHANGED <<range, counted, emitted, pass, cands, shared, history>>

\* The boundary is done once its inbox is empty; the epochs are fixed here.
StartPass(t) ==
  /\ pc[t] = "boundary"
  /\ inbox[t] = <<>>
  /\ ~shutdown
  /\ Go(t, "epoch")
  /\ pass' = [pass EXCEPT ![t] = [NoPass EXCEPT !.epoch = EpochOf(range[t].start),
                                                !.top = EpochOf(range[t].end - 1)]]
  /\ UNCHANGED <<range, counted, emitted, cands, shared, history>>

\* (Mutant: the epoch is always streamed from its first slot.)
LocalStart_Epoch(t) == EpochFirst(pass[t].epoch)
LocalStart(t) == Max2(range[t].start, EpochFirst(pass[t].epoch))
LocalLast(t) == Min2(range[t].end - 1, EpochLast(pass[t].epoch))

AtEpoch(t) == pc[t] = "epoch" /\ pass[t].epoch <= pass[t].top /\ ~shutdown

\* The thread's range, which a grant may have cut, does not reach the epoch.
SkipEpoch(t) ==
  /\ AtEpoch(t)
  /\ LocalStart(t) > LocalLast(t)
  /\ pass' = [pass EXCEPT ![t].epoch = @ + 1]
  /\ UNCHANGED <<pc, range, counted, emitted, cands, shared, history>>

OpenEpoch(t) ==
  /\ AtEpoch(t)
  /\ LocalStart(t) <= LocalLast(t)
  /\ Go(t, "loop")
  /\ counted' = [counted EXCEPT ![t] = LocalStart(t) - 1]
  /\ pass' = [pass EXCEPT ![t].cur = None, ![t].last = LocalLast(t)]
  /\ UNCHANGED <<range, emitted, cands, shared, history>>

\* fetch_epoch_stream or read_raw_header fails.
FetchFails(t) ==
  /\ AtEpoch(t)
  /\ LocalStart(t) <= LocalLast(t)
  /\ Fault("transport")
  /\ Restart(t, AtCurrent(t), counted[t], FALSE)
  /\ UNCHANGED <<cands, slice, inbox, reply, journal, shutdown, audit, history>>

\* seek_to_slot fails after the counters were aligned to the epoch.
SeekFails(t) ==
  /\ AtEpoch(t)
  /\ EpochFirst(pass[t].epoch) < LocalStart(t)
  /\ LocalStart(t) <= LocalLast(t)
  /\ Fault("transport")
  /\ Restart(t, LocalStart(t), LocalStart(t) - 1, FALSE)
  /\ UNCHANGED <<cands, slice, inbox, reply, journal, shutdown, audit, history>>

\* read_until_block: the next block of the epoch's stream, or its end, which a
\* connection cut cleanly in the middle looks like.
Read(t) ==
  /\ pc[t] = "loop"
  /\ ~shutdown
  /\ Go(t, "batch")
  /\ LET next == NextPresent(counted[t], EpochLast(pass[t].epoch))
     IN  \/ /\ pass' = [pass EXCEPT ![t].batch = next]
            /\ UNCHANGED faults
         \/ /\ next # None
            /\ pass' = [pass EXCEPT ![t].batch = None]
            /\ Fault("truncated")
  /\ UNCHANGED <<range, counted, emitted, cands, slice, inbox, reply, journal,
                 shutdown, audit, history>>

ReadFails(t) ==
  /\ pc[t] = "loop"
  /\ ~shutdown
  /\ \/ Fault("transport") /\ Restart(t, AfterCurrent(t), counted[t], FALSE)
     \/ Fault("recycle") /\ Restart(t, AfterCurrent(t), counted[t], TRUE)
  /\ UNCHANGED <<cands, slice, inbox, reply, journal, shutdown, audit, history>>

\* A batch is looked at once the proposals that arrived with it are answered.
HasBatch(t) == pc[t] = "batch" /\ inbox[t] = <<>>

\* The block the index still names in this thread's part of the epoch.
\* (Mutant: a clean end of the stream is taken at its word.)
Unread_TrustEof(t) == None
Unread(t) == NextPresent(counted[t], Min2(pass[t].last, range[t].end - 1))

LeaveEpoch(t) ==
  /\ Go(t, "epoch")
  /\ pass' = [pass EXCEPT ![t].epoch = @ + 1, ![t].batch = None]
  /\ UNCHANGED <<range, counted, emitted>>

\* The stream ended although the index knows a block that was not read.
PrematureEnd(t) ==
  /\ HasBatch(t)
  /\ pass[t].batch = None
  /\ Unread(t) # None
  /\ Restart(t, counted[t] + 1, counted[t], FALSE)
  /\ UNCHANGED <<cands, shared, history>>

\* The stream ended and the index names no block that remains.
EndOfStream(t) ==
  /\ HasBatch(t)
  /\ pass[t].batch = None
  /\ \/ Unread(t) = None /\ UNCHANGED faults
     \/ Unread(t) # None /\ Fault("index")
  /\ LeaveEpoch(t)
  /\ UNCHANGED <<cands, slice, inbox, reply, journal, shutdown, audit, history>>

\* A block behind this thread's part of the epoch.
PastSlice(t) ==
  /\ HasBatch(t)
  /\ pass[t].batch > pass[t].last
  /\ LeaveEpoch(t)
  /\ UNCHANGED <<cands, shared, history>>

\* A block a grant has given away.
PastRange(t) ==
  /\ HasBatch(t)
  /\ pass[t].batch # None
  /\ pass[t].batch <= pass[t].last
  /\ pass[t].batch >= range[t].end
  /\ Go(t, "complete")
  /\ pass' = [pass EXCEPT ![t] = NoPass]
  /\ UNCHANGED <<range, counted, emitted, cands, shared, history>>

\* A block inside what a grant has left.  (Mutant: the range is not looked at.)
CanProcess_Unclipped(t) ==
  /\ HasBatch(t)
  /\ pass[t].batch # None
  /\ pass[t].batch <= pass[t].last

CanProcess(t) ==
  /\ HasBatch(t)
  /\ pass[t].batch # None
  /\ pass[t].batch <= pass[t].last
  /\ pass[t].batch < range[t].end

\* The slots before the block that are counted as skipped: none from another epoch.
Gap(t, slot) ==
  {s \in counted[t] + 1 .. slot - 1 : EpochOf(s) = EpochOf(counted[t])}

\* The slots of S reported by on_block: those above the last emitted one.
Fresh(t, S) == {s \in S : s > emitted[t]}

\* What the ledger shows after a block.  (Mutant: one slot too far.)
NextAfter_Ahead(slot) == slot + 2
NextAfter(slot) == slot + 1

(***************************************************************************)
(* Every node of the batch is handled: transactions, entries and rewards   *)
(* of the slot, PossibleLeaderSkipped for the gap, the Block; the ledger's *)
(* next moves behind the block.                                            *)
(***************************************************************************)
Process(t) ==
  LET slot == pass[t].batch IN
  /\ CanProcess(t)
  /\ touched' = [touched EXCEPT ![t] = @ \cup {slot} \cup Fresh(t, Gap(t, slot))]
  /\ delivered' = [delivered EXCEPT ![t] = @ \cup Fresh(t, {slot})]
  /\ processed' = processed \cup {slot}
  /\ emitted' = [emitted EXCEPT ![t] = Max2(@, slot)]
  /\ counted' = [counted EXCEPT ![t] = slot]
  /\ slice' = [slice EXCEPT ![t].next = NextAfter(slot)]
  /\ IF slot = range[t].end - 1
     THEN Go(t, "complete") /\ pass' = [pass EXCEPT ![t] = NoPass]
     ELSE Go(t, "loop") /\ pass' = [pass EXCEPT ![t].cur = slot, ![t].batch = None]
  /\ UNCHANGED <<range, cands, inbox, reply, journal, shutdown, audit, faults>>

(***************************************************************************)
(* A callback fails: one for a node before the Block (nothing of the gap   *)
(* is counted), on_block for a skipped slot k, or on_block for the block   *)
(* (k is the slot itself).  The slots below k are counted by then.         *)
(***************************************************************************)
FailedDelivery(t, k) ==
  LET slot == pass[t].batch
      below == {s \in Gap(t, slot) : s < k}
  IN
  /\ CanProcess(t)
  /\ k \in {None, slot} \cup Gap(t, slot)
  /\ k # None => k > emitted[t]
  /\ touched' = [touched EXCEPT ![t] = @ \cup {slot} \cup Fresh(t, below \cup ({k} \ {None}))]

CountedBefore(t, k) ==
  IF k = None \/ EpochOf(counted[t]) # EpochOf(k) THEN counted[t] ELSE k - 1

HandlerFails(t) ==
  /\ \E k \in {None} \cup Blocks \cup Slots :
       /\ FailedDelivery(t, k)
       /\ Restart(t, pass[t].batch, CountedBefore(t, k), FALSE)
  /\ Fault("handler")
  /\ UNCHANGED <<cands, slice, inbox, reply, journal, shutdown, audit, delivered, processed>>

\* An io::Error of kind Interrupted out of a callback ends the task at once.
HandlerInterrupts(t) ==
  /\ \E k \in {None} \cup Blocks \cup Slots : FailedDelivery(t, k)
  /\ Fault("interrupt")
  /\ Leave(t, "stopped")
  /\ UNCHANGED <<range, counted, emitted, cands, slice, journal, shutdown, audit,
                 delivered, processed>>

\* The last epoch of the pass is behind the thread.
FinishEpochs(t) ==
  /\ pc[t] = "epoch"
  /\ pass[t].epoch > pass[t].top
  /\ Go(t, "complete")
  /\ pass' = [pass EXCEPT ![t] = NoPass]
  /\ UNCHANGED <<range, counted, emitted, cands, shared, history>>

\* The backoff deadline passes.
BackoffEnds(t) ==
  /\ pc[t] = "backoff"
  /\ Go(t, "boundary")
  /\ UNCHANGED <<range, counted, emitted, pass, cands, shared, history>>

\* poll_shutdown at the boundary, before an epoch, before a read, in backoff.
PollShutdown(t) ==
  /\ shutdown
  /\ \/ pc[t] \in {"loop", "backoff"}
     \/ pc[t] = "boundary" /\ inbox[t] = <<>>
     \/ pc[t] = "epoch" /\ pass[t].epoch <= pass[t].top
  /\ Leave(t, "stopped")
  /\ UNCHANGED <<range, counted, emitted, cands, slice, journal, shutdown, audit, faults, history>>

-----------------------------------------------------------------------------
(* The thief's side of the protocol: range complete, hunt, adopt or retire. *)

\* The interval of an assignment.  (Mutant: from where its last pass resumed.)
Interval_LastPass(t) == [start |-> range[t].start, end |-> counted[t] + 1]
Interval(t) == [start |-> slice[t].start, end |-> counted[t] + 1]

\* Journal what this assignment processed and publish that nothing remains.
CompleteRange(t) ==
  /\ pc[t] = "complete"
  /\ Go(t, "drain")
  /\ journal' = journal \cup {Interval(t)}
  /\ slice' = [slice EXCEPT ![t].next = range[t].end]
  /\ UNCHANGED <<range, counted, emitted, pass, cands, inbox, reply, shutdown, audit,
                 faults, history>>

Remaining(v) == IF slice[v].next < slice[v].end THEN slice[v].end - slice[v].next ELSE 0
Done(v) == IF slice[v].start < slice[v].next THEN slice[v].next - slice[v].start ELSE 0
Assigned(v) == IF slice[v].start < slice[v].end THEN slice[v].end - slice[v].start ELSE 1

Candidates(t) ==
  {v \in Threads : /\ v # t
                   /\ pc[v] \notin {"retired", "unspawned"}
                   /\ Remaining(v) >= MinSteal}

\* Lowest completed fraction first, then most remaining, then lowest index.
AskedBefore(v, w) ==
  LET fv == Done(v) * Assigned(w)
      fw == Done(w) * Assigned(v)
  IN  \/ fv < fw
      \/ fv = fw /\ Remaining(v) > Remaining(w)
      \/ fv = fw /\ Remaining(v) = Remaining(w) /\ v < w

\* request_steal ranks the ledger under the steal lock.
Scan(t) ==
  /\ pc[t] = "drain"
  /\ inbox[t] = <<>>
  /\ Go(t, "hunt")
  /\ \E q \in [1 .. Cardinality(Candidates(t)) -> Candidates(t)] :
       /\ \A i, j \in DOMAIN q : i < j => AskedBefore(q[i], q[j])
       /\ cands' = [cands EXCEPT ![t] = q]
  /\ UNCHANGED <<range, counted, emitted, pass, shared, history>>

\* Propose to the next candidate, unless its task is gone.
Ask(t) ==
  /\ pc[t] = "hunt"
  /\ cands[t] # <<>>
  /\ LET v == Head(cands[t]) IN
     IF pc[v] \in Gone
     THEN /\ cands' = [cands EXCEPT ![t] = Tail(@)]
          /\ UNCHANGED <<pc, inbox, reply>>
     ELSE /\ inbox' = [inbox EXCEPT ![v] = Append(@, t)]
          /\ reply' = [reply EXCEPT ![t] = Pending]
          /\ Go(t, "await")
          /\ UNCHANGED cands
  /\ UNCHANGED <<range, counted, emitted, pass, slice, journal, shutdown, audit,
                 faults, history>>

Denied(t) ==
  /\ pc[t] = "await"
  /\ reply[t].kind \in {"refused", "dropped"}
  /\ Go(t, "hunt")
  /\ cands' = [cands EXCEPT ![t] = Tail(@)]
  /\ reply' = [reply EXCEPT ![t] = NoReply]
  /\ UNCHANGED <<range, counted, emitted, pass, slice, inbox, journal, shutdown, audit,
                 faults, history>>

\* The thief publishes its new assignment in three stores, then restarts on it.
AdoptStart(t) ==
  /\ pc[t] = "await"
  /\ reply[t].kind = "granted"
  /\ Go(t, "adopt_next")
  /\ slice' = [slice EXCEPT ![t].start = reply[t].start]
  /\ UNCHANGED <<range, counted, emitted, pass, cands, inbox, reply, journal, shutdown,
                 audit, faults, history>>

AdoptNext(t) ==
  /\ pc[t] = "adopt_next"
  /\ Go(t, "adopt_end")
  /\ slice' = [slice EXCEPT ![t].next = reply[t].start]
  /\ UNCHANGED <<range, counted, emitted, pass, cands, inbox, reply, journal, shutdown,
                 audit, faults, history>>

\* Nothing of the stolen range is emitted.  (Mutant: the old mark stays.)
AdoptedMark_Old(t) == emitted[t]
AdoptedMark(t) == reply[t].start - 1

AdoptEnd(t) ==
  /\ pc[t] = "adopt_end"
  /\ Go(t, "boundary")
  /\ slice' = [slice EXCEPT ![t].end = reply[t].end]
  /\ range' = [range EXCEPT ![t] = [start |-> reply[t].start, end |-> reply[t].end]]
  /\ counted' = [counted EXCEPT ![t] = reply[t].start - 1]
  /\ emitted' = [emitted EXCEPT ![t] = AdoptedMark(t)]
  /\ cands' = [cands EXCEPT ![t] = <<>>]
  /\ reply' = [reply EXCEPT ![t] = NoReply]
  /\ UNCHANGED <<pass, inbox, journal, shutdown, audit, faults, history>>

\* Nobody has work to share: the thread is finished.
Retire(t) ==
  /\ pc[t] = "hunt"
  /\ cands[t] = <<>>
  /\ Leave(t, "retired")
  /\ UNCHANGED <<range, counted, emitted, cands, slice, journal, shutdown, audit,
                 faults, history>>

-----------------------------------------------------------------------------
(* The run.                                                                *)

SignalShutdown ==
  /\ ~shutdown
  /\ \E t \in Threads : pc[t] \notin Gone
  /\ Fault("shutdown")
  /\ shutdown' = TRUE
  /\ UNCHANGED <<local, slice, inbox, reply, journal, audit, history>>

AllGone == \A t \in Threads : pc[t] \in Gone

\* The slots of the run no journaled interval covers.
Holes == {s \in Slots : \A j \in journal : s < j.start \/ s >= j.end}

\* After the join: a hole is an error only if the index knows a block in it.
Audit ==
  /\ AllGone
  /\ audit = "pending"
  /\ \/ shutdown /\ audit' = "skipped" /\ UNCHANGED faults
     \/ ~shutdown /\ Holes \cap Blocks = {} /\ audit' = "passed" /\ UNCHANGED faults
     \/ ~shutdown /\ Holes \cap Blocks # {} /\ audit' = "failed" /\ UNCHANGED faults
     \/ ~shutdown /\ Holes \cap Blocks # {} /\ audit' = "passed" /\ Fault("index")
  /\ UNCHANGED <<local, slice, inbox, reply, journal, shutdown, history>>

Terminated == audit # "pending" /\ UNCHANGED vars

Step(t) ==
  \/ Answer(t) \/ Refuse(t) \/ Spawn(t) \/ StartPass(t) \/ SkipEpoch(t) \/ OpenEpoch(t)
  \/ Read(t) \/ PrematureEnd(t) \/ EndOfStream(t) \/ PastSlice(t) \/ PastRange(t)
  \/ Process(t) \/ FinishEpochs(t) \/ BackoffEnds(t) \/ PollShutdown(t)
  \/ CompleteRange(t) \/ Scan(t) \/ Ask(t) \/ Denied(t)
  \/ AdoptStart(t) \/ AdoptNext(t) \/ AdoptEnd(t) \/ Retire(t)

Disturb(t) ==
  FetchFails(t) \/ SeekFails(t) \/ ReadFails(t) \/ HandlerFails(t) \/ HandlerInterrupts(t)

Next ==
  \/ \E t \in Threads : Step(t) \/ Disturb(t)
  \/ SignalShutdown
  \/ Audit
  \/ Terminated

\* The runtime schedules every task that can run, and join awaits them all.
Fairness == (\A t \in Threads : WF_vars(Step(t))) /\ WF_vars(Audit)

Spec == Init /\ [][Next]_vars
FairSpec == Spec /\ Fairness

-----------------------------------------------------------------------------
(* Properties.                                                             *)

Positions == FirstSlot - 1 .. EndSlot
ReplyKinds == {"none", "pending", "refused", "dropped", "granted"}
Labels == { "unspawned", "boundary", "epoch", "loop", "batch", "backoff", "complete",
            "drain", "hunt", "await", "adopt_next", "adopt_end", "retired", "stopped" }

Ranges == [start : Positions, end : Positions]
Slices == [start : Positions, next : Positions, end : Positions]
Passes == [epoch : Nat, top : Nat, last : Nat, cur : Nat, batch : Nat]
Replies == [kind : ReplyKinds, start : Nat, end : Nat]

\* Every variable keeps its type; slot numbers never leave the run, except
\* that a block read ahead may lie behind its end.
TypeOK ==
  /\ pc \in [Threads -> Labels]
  /\ range \in [Threads -> Ranges]
  /\ counted \in [Threads -> Positions]
  /\ emitted \in [Threads -> Positions]
  /\ pass \in [Threads -> Passes]
  /\ cands \in [Threads -> Seq(Threads)]
  /\ slice \in [Threads -> Slices]
  /\ inbox \in [Threads -> Seq(Threads)]
  /\ reply \in [Threads -> Replies]
  /\ journal \subseteq Ranges
  /\ shutdown \in BOOLEAN
  /\ audit \in {"pending", "passed", "failed", "skipped"}
  /\ faults \in 0 .. MaxFaults
  /\ touched \in [Threads -> SUBSET Slots]
  /\ delivered \in [Threads -> SUBSET Slots]
  /\ processed \subseteq Slots

\* The slots t still has to do: what is left of its range, or a grant on its way.
Streaming == {"unspawned", "boundary", "epoch", "loop", "batch", "backoff"}
Promised == {"await", "adopt_next", "adopt_end"}
WorkOf(t) ==
  {s \in Slots :
     \/ /\ pc[t] \in Streaming
        /\ range[t].start <= s /\ counted[t] < s /\ s < range[t].end
     \/ /\ pc[t] \in Promised /\ reply[t].kind = "granted"
        /\ reply[t].start <= s /\ s < reply[t].end}

Owners == INSTANCE SlotOwnership WITH
  AllThreads <- Threads, AllSlots <- Slots,
  Initial   <- [t \in Threads |-> {s \in Slots : Subrange(t).start <= s /\ s < Subrange(t).end}],
  work      <- [t \in Threads |-> WorkOf(t)],
  dead      <- {t \in Threads : pc[t] = "stopped"}

\* The steal protocol keeps the promise of SlotOwnership (if the index answers).
Ownership == Owners!Spec

\* No slot's data reaches the callbacks of two threads (README: "handovers can
\* never race in-flight emission").
ExclusiveEmission == Owners!ExclusiveEmission

\* A block is handed to the callbacks again only if its first delivery failed:
\* no thread is about to process a block that was already counted.
CountedOnce == \A t \in Threads : CanProcess(t) => pass[t].batch \notin processed

\* A passed audit means what it logs: every block of the run was processed.
AuditSound == audit = "passed" => Slots \cap Blocks \subseteq processed

\* A run in which no thread died is complete: the audit never reports a hole.
AuditComplete ==
  audit = "failed" => \E t \in Threads : pc[t] = "stopped"

\* A thief waits for a reply exactly as long as its proposal sits in the inbox
\* of the victim at the head of its list: no lost and no stale proposal.
OneProposal ==
  \A t \in Threads :
    (pc[t] = "await" /\ reply[t].kind = "pending") <=>
      \E v \in Threads : \E i \in 1 .. Len(inbox[v]) :
        /\ inbox[v][i] = t
        /\ pc[t] = "await" /\ cands[t] # <<>> /\ v = Head(cands[t])

\* A run ends: every thread retires or stops and the audit gives its verdict.
RunEnds == <>(audit # "pending")

\* Every proposal is answered: no thief waits forever, whoever its victim waits for.
ProposalsAnswered == \A t \in Threads : pc[t] = "await" ~> pc[t] # "await"

(***************************************************************************)
(* resume_floor: the lowest unprocessed slot of the ledger.                *)
(***************************************************************************)
Unfinished == {v \in Threads : slice[v].next < slice[v].end}
\* A slot below every unfinished slice, so below the floor if there is one.
BelowFloor(s) == \A v \in Unfinished : s < slice[v].next

\* firehose.rs:370 "everything below this is complete" (None: everything is).
FloorSafe == \A s \in Slots \cap Blocks : BelowFloor(s) => s \in processed

\* It is true of every state in which no grant is on its way to its thief.
FloorSafeOnceAdopted == (\A t \in Threads : reply[t].kind # "granted") => FloorSafe

\* Every block that counts as processed was handed to on_block
\* (plugin lib.rs:209 "Called for every block observed by the firehose.").
EveryBlockReported == processed \subseteq UNION {delivered[t] : t \in Threads}
============================================================================
