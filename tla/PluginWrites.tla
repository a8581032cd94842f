---------------------------- MODULE PluginWrites ----------------------------
(***************************************************************************)
(* The plugin runner (jetstreamer-plugin/src/lib.rs) with one built-in     *)
(* plugin and its ClickHouse tables: the callbacks of the firehose threads *)
(* collect per-slot state and spawn writes, which retry until they are     *)
(* acknowledged or, at the end of their horizon, end the process; Ctrl-C   *)
(* makes the callbacks ignore what comes; the end of the run drains the    *)
(* writes, flushes what is left, lets the plugin exit and backfill.        *)
(*                                                                         *)
(* A thread reads a batch for each block of its range: the transactions of *)
(* the block, the skipped slots before it, the block.  Each plugin table   *)
(* is a ReplacingMergeTree(timestamp): a merge keeps the newest timestamp, *)
(* and the row inserted last among equal ones.                             *)
(***************************************************************************)
EXTENDS Integers, FiniteSets

CONSTANTS
  Threads,
  Lo, Hi,         \* thread t streams the slots Lo[t] .. Hi[t] - 1
  Blocks,         \* the slots that hold a block
  TxCount,        \* transactions in a block
  FlushInterval,  \* db_update_interval_slots
  Faults,         \* the kinds of failure that may happen
  MaxFaults,      \* bound: failures in a behaviour
  MaxRuns         \* bound: times the program is started

FaultKinds == {
  "replay",     \* a node behind a transaction does not decode: the block is retried
  "unacked",    \* a write is committed but the acknowledgment is lost
  "outage",     \* a write fails to the end of the retry horizon
  "ctrlc" }     \* CTRL+C

SlotsOf(t) == Lo[t] .. Hi[t] - 1
Slots == UNION {SlotsOf(t) : t \in Threads}

ASSUME ThreadsAssumption == IsFiniteSet(Threads)
ASSUME RangesAssumption ==
  /\ Lo \in [Threads -> Nat] /\ Hi \in [Threads -> Nat]
  /\ \A t \in Threads : Lo[t] < Hi[t]
  /\ \A t, u \in Threads : t # u => SlotsOf(t) \cap SlotsOf(u) = {}
ASSUME BlocksAssumption == Blocks \subseteq Slots
ASSUME CountsAssumption ==
  /\ TxCount \in Nat \ {0} /\ FlushInterval \in Nat \ {0}
  /\ MaxFaults \in Nat /\ MaxRuns \in Nat \ {0}
ASSUME FaultsAssumption == Faults \subseteq FaultKinds

VARIABLES
  phase,      \* of PluginRunner::run, see Phases
  pc,         \* of each thread's callbacks, see PCs
  next,       \* the ledger: the slot each thread processes next
  at,         \* the slot each thread reports next
  seen,       \* transactions each thread has delivered of its batch
  shutting,   \* shutting_down
  signalled,  \* the shutdown broadcast was sent
  tally,      \* SLOT_TX_TALLY: transactions per slot, 0 if absent
  pending,    \* PENDING_BY_SLOT: events per slot, 0 if absent
  buffer,     \* slot_buffer: the slots of the plugin
  reported,   \* slots_since_flush
  tasks,      \* the write tasks spawned and not finished
  inFlight,   \* WRITES_IN_FLIGHT
  slotRows,   \* jetstreamer_plugin_slots
  statusRows, \* jetstreamer_slot_status: transactions per slot, 0 if absent
  eventRows,  \* the plugin's table: the newest row with a block time, 0 if absent
  undated,    \* the plugin's table: rows with timestamp 0 not merged away
  accepted,   \* history: slots whose block on_block has taken on in this run
  replayed,   \* history: slots whose batch was retried in this run
  resumed,    \* where this run was resumed from, 0 for the whole range
  runs, faults

thread == <<pc, next, at, seen>>
memory == <<tally, pending, buffer, reported>>
writes == <<tasks, inFlight>>
tables == <<slotRows, statusRows, eventRows, undated>>
flags == <<shutting, signalled>>
history == <<accepted, replayed>>
session == <<resumed, runs>>
vars == <<phase, thread, flags, memory, writes, tables, history, session, faults>>

Fault(kind) ==
  /\ kind \in Faults
  /\ faults < MaxFaults
  /\ faults' = faults + 1

Absent == [s \in Slots |-> 0]

\* Where thread t starts when the run starts from a slot.
StartOf(from) ==
  [t \in Threads |-> IF from <= Lo[t] THEN Lo[t] ELSE IF from < Hi[t] THEN from ELSE Hi[t]]

Init ==
  /\ phase = "streaming"
  /\ pc = [t \in Threads |-> "batch"]
  /\ next = StartOf(0) /\ at = StartOf(0)
  /\ seen = [t \in Threads |-> 0]
  /\ shutting = FALSE /\ signalled = FALSE
  /\ tally = Absent /\ pending = Absent
  /\ buffer = {} /\ reported = 0
  /\ tasks = {} /\ inFlight = 0
  /\ slotRows = {} /\ statusRows = Absent /\ eventRows = Absent
  /\ undated = [s \in Slots |-> {}]
  /\ accepted = {} /\ replayed = {}
  /\ resumed = 0 /\ runs = 1 /\ faults = 0

-----------------------------------------------------------------------------
(* Write tasks.                                                            *)

Event(s, n) == [kind |-> "events", key |-> s, slots |-> {s}, count |-> n]
Status(s, n) == [kind |-> "status", key |-> s, slots |-> {s}, count |-> n]
Flush(n) == [kind |-> "flush", key |-> n, slots |-> {}, count |-> 0]
Drained(w, rows) == [w EXCEPT !.kind = "rows", !.slots = rows]

\* spawn_tracked_write: counted before it is spawned.  (Mutant: a flush is
\* not tracked.)
Spawn_FlushUntracked(new) ==
  /\ tasks' = tasks \cup new
  /\ inFlight' = inFlight + Cardinality({w \in new : w.kind # "flush"})
Spawn(new) ==
  /\ tasks' = tasks \cup new
  /\ inFlight' = inFlight + Cardinality(new)

\* InFlightWrite::drop.  (Mutants: the guard leaks; it is dropped twice.)
Finished_Leaks(w) == tasks' = tasks \ {w} /\ UNCHANGED inFlight
Finished_Twice(w) == tasks' = tasks \ {w} /\ inFlight' = inFlight - 2
Finished(w) == tasks' = tasks \ {w} /\ inFlight' = inFlight - 1

\* The rows an attempt to write replays.  (Mutant: each attempt drains anew.)
RowsOf_Redrain(w) == IF w.kind = "rows" THEN buffer ELSE w.slots
RowsOf(w) == w.slots

\* One attempt reaches the table.
Insert(w) ==
  LET rows == RowsOf(w)
      counts(table) == [s \in Slots |-> IF s \in rows THEN w.count ELSE table[s]]
  IN
  /\ slotRows' = IF w.kind = "rows" THEN slotRows \cup rows ELSE slotRows
  /\ statusRows' = IF w.kind = "status" THEN counts(statusRows) ELSE statusRows
  /\ eventRows' = IF w.kind = "events" THEN counts(eventRows) ELSE eventRows
  /\ UNCHANGED undated

Alive == phase \notin {"done", "aborted"}

\* flush_slot_buffer takes the buffer once, before its first attempt.
DrainBuffer(w) ==
  /\ Alive /\ w \in tasks /\ w.kind = "flush"
  /\ buffer' = {}
  /\ IF buffer = {}
     THEN Finished(w)
     ELSE /\ tasks' = (tasks \ {w}) \cup {Drained(w, buffer)}
          /\ UNCHANGED inFlight
  /\ UNCHANGED <<phase, thread, flags, tally, pending, reported, tables, history, session, faults>>

\* retry_clickhouse_write: an attempt succeeds.
WriteSucceeds(w) ==
  /\ Alive /\ w \in tasks /\ w.kind # "flush"
  /\ Insert(w)
  /\ Finished(w)
  /\ UNCHANGED <<phase, thread, flags, memory, history, session, faults>>

\* The insert is committed, the client sees an error and will try again.
WriteUnacked(w) ==
  /\ Alive /\ w \in tasks /\ w.kind # "flush"
  /\ Fault("unacked")
  /\ Insert(w)
  /\ UNCHANGED <<phase, thread, flags, memory, writes, history, session>>

\* The retry horizon of a write ends: std::process::exit.
Exit ==
  /\ Fault("outage")
  /\ phase' = "aborted"
  /\ UNCHANGED <<thread, flags, memory, writes, tables, history, session>>

WriteExhausted(w) ==
  /\ Alive /\ w \in tasks /\ w.kind # "flush"
  /\ Exit

-----------------------------------------------------------------------------
(* The callbacks of thread t.                                              *)

\* The block of the batch: the next one the thread has to process.
Remaining(t) == {b \in Blocks : next[t] <= b /\ b < Hi[t]}
Batch(t, b) == b \in Remaining(t) /\ \A c \in Remaining(t) : b <= c

Go(t, label) == pc' = [pc EXCEPT ![t] = label]

\* on_transaction: tallied in any case, given to the plugin unless shutting down.
OnTransaction(t) ==
  \E b \in Blocks :
    /\ Alive /\ pc[t] = "batch" /\ Batch(t, b)
    /\ seen[t] < TxCount
    /\ seen' = [seen EXCEPT ![t] = @ + 1]
    /\ tally' = [tally EXCEPT ![b] = @ + 1]
    /\ pending' = IF shutting THEN pending ELSE [pending EXCEPT ![b] = @ + 1]
    /\ UNCHANGED <<phase, pc, next, at, flags, buffer, reported, writes, tables,
                   history, session, faults>>

\* A later node of the batch does not decode: the firehose reads it again.
RetryBatch(t) ==
  \E b \in Blocks :
    /\ Alive /\ pc[t] = "batch" /\ Batch(t, b)
    /\ seen[t] > 0 /\ at[t] = next[t]
    /\ Fault("replay")
    /\ seen' = [seen EXCEPT ![t] = 0]
    /\ replayed' = replayed \cup {b}
    /\ UNCHANGED <<phase, pc, next, at, flags, memory, writes, tables, accepted, session>>

\* on_block does nothing while a shutdown is in progress.  (Mutant: it does.)
Ignoring_Never == FALSE
Ignoring == shutting

\* on_block for a skipped slot or, at last, the block of the batch.
OnBlock(t) ==
  LET s == at[t]
      due == {Event(c, pending[c]) : c \in {c \in {s} : pending[c] > 0}}
  IN
  /\ Alive /\ pc[t] = "batch" /\ Remaining(t) # {}
  /\ seen[t] = TxCount
  /\ \/ Ignoring /\ Go(t, "returned") /\ UNCHANGED <<pending, buffer, writes>>
     \/ ~Ignoring /\ s \in Blocks
        /\ pending' = [pending EXCEPT ![s] = 0]
        /\ buffer' = buffer \cup {s}
        /\ Spawn(due)
        /\ Go(t, "collected")
     \/ ~Ignoring /\ s \notin Blocks
        /\ Go(t, "collected") /\ UNCHANGED <<pending, buffer, writes>>
  /\ UNCHANGED <<phase, next, at, seen, flags, tally, reported, tables, history, session, faults>>

\* Every FlushInterval-th slot spawns a flush of the buffer.
CountSlot(t) ==
  /\ Alive /\ pc[t] = "collected"
  /\ reported' = reported + 1
  /\ IF (reported + 1) % FlushInterval = 0
     THEN Spawn({Flush(reported + 1)})
     ELSE UNCHANGED writes
  /\ Go(t, "counted")
  /\ UNCHANGED <<phase, next, at, seen, flags, tally, pending, buffer, tables,
                 history, session, faults>>

\* The tally becomes the slot's status; that of a skipped slot is dropped.
RecordStatus(t) ==
  LET s == at[t] IN
  /\ Alive /\ pc[t] = "counted"
  /\ tally' = [tally EXCEPT ![s] = 0]
  /\ IF s \in Blocks
     THEN Spawn({Status(s, tally[s])}) /\ accepted' = accepted \cup {s}
     ELSE UNCHANGED <<writes, accepted>>
  /\ Go(t, "returned")
  /\ UNCHANGED <<phase, next, at, seen, flags, pending, buffer, reported, tables,
                 replayed, session, faults>>

\* The firehose after on_block: behind the block it publishes its position.
Return(t) ==
  /\ Alive /\ pc[t] = "returned"
  /\ at' = [at EXCEPT ![t] = @ + 1]
  /\ IF at[t] \in Blocks
     THEN /\ next' = [next EXCEPT ![t] = at[t] + 1]
          /\ seen' = [seen EXCEPT ![t] = 0]
     ELSE UNCHANGED <<next, seen>>
  /\ Go(t, "batch")
  /\ UNCHANGED <<phase, flags, memory, writes, tables, history, session, faults>>

\* The range holds no further block.
Complete(t) ==
  /\ Alive /\ pc[t] = "batch" /\ Remaining(t) = {}
  /\ next' = [next EXCEPT ![t] = Hi[t]]
  /\ Go(t, "ended")
  /\ UNCHANGED <<phase, at, seen, flags, memory, writes, tables, history, session, faults>>

\* Between two batches a thread obeys the shutdown broadcast.
PollShutdown(t) ==
  /\ Alive /\ pc[t] = "batch"
  /\ seen[t] = 0 /\ at[t] = next[t]
  /\ signalled
  /\ Go(t, "ended")
  /\ UNCHANGED <<phase, next, at, seen, flags, memory, writes, tables, history, session, faults>>

-----------------------------------------------------------------------------
(* PluginRunner::run.                                                      *)

CtrlC ==
  /\ phase = "streaming" /\ ~shutting
  /\ Fault("ctrlc")
  /\ shutting' = TRUE
  /\ UNCHANGED <<phase, thread, signalled, memory, writes, tables, history, session>>

Broadcast ==
  /\ phase = "streaming" /\ shutting /\ ~signalled
  /\ signalled' = TRUE
  /\ UNCHANGED <<phase, thread, shutting, memory, writes, tables, history, session, faults>>

FirehoseReturns ==
  /\ phase = "streaming"
  /\ \A t \in Threads : pc[t] = "ended"
  /\ shutting => signalled
  /\ phase' = "draining"
  /\ UNCHANGED <<thread, flags, memory, writes, tables, history, session, faults>>

DrainOutstanding ==
  /\ phase = "draining"
  /\ inFlight = 0
  /\ phase' = "flushing"
  /\ UNCHANGED <<thread, flags, memory, writes, tables, history, session, faults>>

\* What the final flush writes.  (Mutant: nothing.)
Leftover_None == {}
Leftover == buffer

\* The last flush_slot_buffer; nobody else uses the buffer any more.
FinalFlush ==
  /\ phase = "flushing"
  /\ slotRows' = slotRows \cup Leftover
  /\ \/ /\ buffer' = {} /\ phase' = "exiting"
        /\ UNCHANGED faults
     \/ /\ buffer # {} /\ Fault("unacked")
        /\ UNCHANGED <<buffer, phase>>
  /\ UNCHANGED <<thread, flags, tally, pending, reported, writes, statusRows, eventRows, undated,
                 history, session>>

\* on_exit: what is still pending is written with timestamp 0.
ExitFlush ==
  /\ phase = "exiting"
  /\ undated' = [s \in Slots |-> IF pending[s] > 0 THEN undated[s] \cup {pending[s]} ELSE undated[s]]
  /\ \/ /\ pending' = Absent /\ phase' = "backfilling"
        /\ UNCHANGED faults
     \/ /\ pending # Absent /\ Fault("unacked")
        /\ UNCHANGED <<pending, phase>>
  /\ UNCHANGED <<thread, flags, tally, buffer, reported, writes, slotRows, statusRows, eventRows,
                 history, session>>

\* The slots with an undated row and a status that knows the block time.
Datable == {s \in Slots : undated[s] # {} /\ statusRows[s] > 0}

\* on_exit: an undated row of each slot is inserted again, dated (an ANY join
\* gives one row for a key, whichever comes first).
Backfill ==
  /\ phase = "backfilling"
  /\ \E dated \in [Datable -> UNION {undated[s] : s \in Datable}] :
       /\ \A s \in Datable : dated[s] \in undated[s]
       /\ eventRows' = [s \in Slots |-> IF s \in Datable THEN dated[s] ELSE eventRows[s]]
  /\ \/ phase' = "done" /\ UNCHANGED faults
     \/ Fault("unacked") /\ UNCHANGED phase
  /\ UNCHANGED <<thread, flags, memory, writes, slotRows, statusRows, undated, history, session>>

\* One of the last three writes is never acknowledged.
MainExhausted ==
  /\ \/ phase = "flushing" /\ buffer # {}
     \/ phase = "exiting" /\ pending # Absent
     \/ phase = "backfilling"
  /\ Exit

-----------------------------------------------------------------------------
(* The world outside the process.                                          *)

\* ClickHouse merges parts: a dated row wins over undated ones, of those one stays.
Merge(s) ==
  /\ undated[s] # {}
  /\ \/ eventRows[s] > 0 /\ undated' = [undated EXCEPT ![s] = {}]
     \/ /\ eventRows[s] = 0
        /\ \E n \in undated[s] : undated' = [undated EXCEPT ![s] = {n}] /\ undated[s] # {n}
  /\ UNCHANGED <<phase, thread, flags, memory, writes, slotRows, statusRows, eventRows,
                 history, session, faults>>

\* resume_floor: the lowest ledger entry of an unfinished thread.
Unfinished == {t \in Threads : next[t] < Hi[t]}
IsFloor(n) == (\E t \in Unfinished : n = next[t]) /\ \A t \in Unfinished : n <= next[t]

\* A new process knows nothing of the last one; the tables stay.
Restart(from) ==
  /\ phase' = "streaming"
  /\ pc' = [t \in Threads |-> "batch"]
  /\ next' = StartOf(from) /\ at' = StartOf(from)
  /\ seen' = [t \in Threads |-> 0]
  /\ shutting' = FALSE /\ signalled' = FALSE
  /\ tally' = Absent /\ pending' = Absent
  /\ buffer' = {} /\ reported' = 0
  /\ tasks' = {} /\ inFlight' = 0
  /\ accepted' = {} /\ replayed' = {}
  /\ resumed' = from

\* The program is started again, over the whole range or from the printed floor.
Rerun ==
  /\ ~Alive
  /\ runs < MaxRuns
  /\ \/ Restart(0)
     \/ \E from \in Slots : phase = "aborted" /\ IsFloor(from) /\ Restart(from)
  /\ runs' = runs + 1
  /\ UNCHANGED <<tables, faults>>

Terminated == ~Alive /\ UNCHANGED vars

Callback(t) ==
  \/ OnTransaction(t) \/ OnBlock(t) \/ CountSlot(t) \/ RecordStatus(t) \/ Return(t)
  \/ Complete(t) \/ PollShutdown(t)
WriteStep == \E w \in tasks : DrainBuffer(w) \/ WriteSucceeds(w) \/ WriteExhausted(w)
RunStep ==
  \/ Broadcast \/ FirehoseReturns \/ DrainOutstanding
  \/ FinalFlush \/ ExitFlush \/ Backfill \/ MainExhausted

Next ==
  \/ \E t \in Threads : Callback(t) \/ RetryBatch(t)
  \/ WriteStep
  \/ \E w \in tasks : WriteUnacked(w)
  \/ RunStep
  \/ CtrlC
  \/ \E s \in Slots : Merge(s)
  \/ Rerun
  \/ Terminated

\* The runtime polls every task that can run; a write succeeds or meets its horizon.
Fairness ==
  /\ \A t \in Threads : WF_vars(Callback(t))
  /\ WF_vars(WriteStep)
  /\ WF_vars(RunStep)

Spec == Init /\ [][Next]_vars
FairSpec == Spec /\ Fairness

-----------------------------------------------------------------------------
(* Properties.                                                             *)

Phases == {"streaming", "draining", "flushing", "exiting", "backfilling", "done", "aborted"}
PCs == {"batch", "collected", "counted", "returned", "ended"}
Tasks == [kind : {"events", "status", "flush", "rows"}, key : Nat, slots : SUBSET Slots, count : Nat]

\* Every variable keeps its type; the counter of writes never underflows.
TypeOK ==
  /\ phase \in Phases
  /\ pc \in [Threads -> PCs]
  /\ next \in [Threads -> Nat] /\ at \in [Threads -> Nat] /\ seen \in [Threads -> 0 .. TxCount]
  /\ shutting \in BOOLEAN /\ signalled \in BOOLEAN
  /\ tally \in [Slots -> Nat] /\ pending \in [Slots -> Nat]
  /\ buffer \subseteq Slots /\ reported \in Nat
  /\ tasks \subseteq Tasks /\ IsFiniteSet(tasks) /\ inFlight \in Nat
  /\ slotRows \subseteq Slots /\ statusRows \in [Slots -> Nat]
  /\ eventRows \in [Slots -> Nat] /\ undated \in [Slots -> SUBSET Nat]
  /\ accepted \subseteq Slots /\ replayed \subseteq Slots
  /\ resumed \in Nat /\ runs \in Nat /\ faults \in Nat

\* lib.rs:1106 "every write spawned from a handler is guaranteed to be counted":
\* once the drain is over no write task exists that the end of the process could
\* cancel.
DrainCoversWrites == phase \in {"flushing", "exiting", "backfilling", "done"} => tasks = {}

\* All rows of a block are in the tables.
Written(s) == s \in slotRows /\ statusRows[s] > 0 /\ eventRows[s] > 0

Sink == INSTANCE RowSink WITH
  outcome <- CASE phase = "done" -> "finished" [] phase = "aborted" -> "aborted" [] OTHER -> "running",
  written <- {s \in accepted : Written(s)}

\* A run finishes only when every row of every block it accepted is written,
\* across lost acknowledgments, Ctrl-C and retried batches.
NothingDropped == Sink!Spec

\* The rows of an accepted block count its transactions once, unless its batch
\* was retried: Ctrl-C in the middle of a block does not leave a dated row of
\* half of it.
CountsExact ==
  \A s \in Blocks \ replayed :
    /\ statusRows[s] \in {0, TxCount} /\ eventRows[s] \in {0, TxCount}
    /\ \A w \in tasks : w.kind \in {"events", "status"} /\ w.key = s => w.count = TxCount

\* A run over the whole range that nobody interrupts has complete rows of every
\* block in the tables when the plugin exits, whatever earlier runs left there.
Uninterrupted == ~shutting /\ resumed = 0
AllComplete == \A s \in Blocks \ replayed : Written(s) /\ eventRows[s] = TxCount
CompleteBeforeExit == phase = "exiting" /\ Uninterrupted => AllComplete

\* lib.rs:1193 "re-run the same range to resume (overlapping rows deduplicate via
\* ReplacingMergeTree)": the same when the run is over.
RerunCompletes == phase = "done" /\ Uninterrupted => AllComplete

\* A run ends: its writes are acknowledged or its horizon passes.
RunEnds == <>(phase \in {"done", "aborted"})

\* lib.rs:1190 "everything below slot {floor} is fully processed": the resume
\* command an aborted run prints leaves out no block with missing rows.
FloorRowsWritten ==
  phase = "aborted" =>
    \A s \in Blocks : (\A n \in Slots : IsFloor(n) => s < n) /\ Unfinished # {} => Written(s)
=============================================================================
