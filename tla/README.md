# Jetstreamer in TLA+

Jetstreamer streams historical Solana blocks out of the Old Faithful archive:
`jetstreamer-firehose` splits a slot range among threads that read epoch after
epoch over HTTP and call back with transactions, entries, rewards and blocks;
`jetstreamer-plugin` runs plugins on those callbacks and writes to ClickHouse;
`jetstreamer-utils` starts an embedded ClickHouse; the root crate is the command
line and the terminal UI. This directory specifies the parts in which state,
concurrency and failure meet, checks them with TLC and proves what matters most
with TLAPS.

## Inventory

| Component | State | Operations | Interacts with |
|---|---|---|---|
| Threaded forward firehose (`firehose.rs`) | per thread: slot range, last counted and last emitted slot, the pass over epochs; shared: work ledger, steal inboxes, coverage journal, shutdown flag | stream, restart after an error, answer steal proposals, hunt, adopt, retire, audit | index, node reader, callbacks |
| Reverse and sequential mode (`firehose.rs`) | highest remaining epoch, partial resume slot | `reverse_resume_after_error` | same |
| Statistics (`firehose.rs`) | counters of all threads and since the last pulse | count, emit, roll back | stats callback |
| Spawn gate, recycle monitor (`firehose.rs`) | activity stamps, finished and recycle sets, reference rate | delay a spawn, flag slow threads | threads |
| Retry backoff (`firehose.rs`) | last failed slot, streak | next delay | threads |
| Geyser firehose (`firehose.rs`) | a pass per thread | older streaming path | geyser plugins |
| Slot index (`index.rs`) | epoch cache, result cache, request spacing | look up a range, next present slot, invalidate | threads, audit |
| Node reader (`node_reader.rs`), epochs (`epochs.rs`) | position in a stream | seek, read until a block | threads |
| CAR nodes (`node.rs`, `block.rs`, ...) | none | decoding | node reader |
| Plugin runner (`jetstreamer-plugin/src/lib.rs`) | slot buffer, vote tallies, writes in flight, shutting-down flag | callbacks, flush, tracked writes, drain, abort | firehose, ClickHouse |
| Built-in plugins (`plugins/`) | events pending per slot | collect, flush per block and at exit | runner |
| ClickHouse helper (`jetstreamer-utils`) | child process, readiness | start, wait, stop | runner |
| Metrics, TUI, command line, archive locations, network, system sizing | telemetry, configuration | rendering, parsing | all |

What makes the code hard: threads that split each other's ranges over messages
while blocks are in flight; restarts that must neither repeat nor lose a slot;
a clean end of a stream that may be a cut connection; an index that may be
unable to answer; callbacks that fail half way through a block; shutdown and
abort at any moment; a resume point computed from a ledger that others are
writing. Per component, correctness means:

* *Firehose*: no slot is delivered by two threads; every block is processed or
  reported missing; a block is counted once and its delivery repeated only after
  a failure; every proposal is answered and every run ends; nothing above the
  resume floor is assumed, everything below it is done; every processed block
  reached `on_block`.
* *Reverse mode*: epochs in descending order, each complete, resumed once.
* *Statistics*: counters equal what was delivered, also after a rollback.
* *Index*: a lookup answers from the index in force, also after invalidation.
* *Spawn gate*: every thread is spawned if the others recover or finish.
* *Plugin runner*: rows are written or the run aborts; the drain outlives every
  write; a resume from the printed floor leaves no row out.
* *ClickHouse helper*: one server, stopped when the run stops.

`PROJECT.json` lists each hazard at its line with the properties that cover it.

## Modules

* **SlotOwnership** says what the threaded run promises, without streams, ledgers
  or messages: each thread has *work* (slots it still has to do); it delivers only
  data of its work (`Advance`), hands untouched slots to an idle thread
  (`Handover`), or dies and loses its work (`Die`). `Move` is a step of a thread
  without the promise that no block is let go of.
* **WorkSteal** is the code of `firehose()` in threaded forward mode, one action per
  stretch between two awaits or shared accesses:
  - victim: `Answer` (`service_steal_inbox` at a restart boundary, between
    batches and in backoff), `Refuse` (while draining and hunting);
  - stream: `Spawn`, `StartPass`, `SkipEpoch`, `OpenEpoch`, `Read`, `PastSlice`,
    `PastRange`, `Process`, `PrematureEnd`, `EndOfStream`, `FinishEpochs`, and
    `FetchFails`, `SeekFails`, `ReadFails`, `HandlerFails`, `HandlerInterrupts`,
    which end in `Restart` (the error path) or end the task;
  - thief: `CompleteRange` (journal, publish), `Scan`, `Ask`, `Denied`,
    `AdoptStart`, `AdoptNext`, `AdoptEnd` (the three stores of a new
    assignment), `Retire`;
  - run: `SignalShutdown`, `PollShutdown`, `Audit`.

  `pc` is the position of a thread's task; `range`, `counted`, `emitted` are
  `slot_range`, `last_counted_slot` and the two last-emitted variables (equal
  between passes and within one); `pass` holds the locals of one run of the
  retry loop's async block; `slice` is the `work_registry`; `inbox` and `reply`
  are the channel of each victim and the oneshot of each thief; `journal` is the
  `coverage_log`. `touched`, `delivered` and `processed` are history: slots a
  thread called any callback for, slots it called `on_block` for, slots whose
  block was delivered and counted.
* **RowSink** says what a run of the plugin runner promises about ClickHouse: blocks
  are accepted, rows arrive (`Progress`); the run finishes only when the rows of all
  accepted blocks are there (`Finish`), or it aborts (`Abort`).
* **PluginWrites** is `PluginRunner::run` with one built-in plugin, the firehose
  reduced to the order in which it calls back:
  - callbacks: `OnTransaction`, `OnBlock` (plugin `on_block` and slot buffer),
    `CountSlot` (periodic flush), `RecordStatus` (tally and slot status), `Return`
    (back in the firehose, which publishes the ledger), `RetryBatch`, `Complete`,
    `PollShutdown`;
  - write tasks: `DrainBuffer` (`flush_slot_buffer` takes the buffer once),
    `WriteSucceeds`, `WriteUnacked` (committed, but the client sees an error and
    retries), `WriteExhausted` (`std::process::exit`);
  - main task: `CtrlC`, `Broadcast`, `FirehoseReturns`, `DrainOutstanding`,
    `FinalFlush`, `ExitFlush`, `Backfill`, `MainExhausted`;
  - around it: `Merge` (ClickHouse merges the parts of a `ReplacingMergeTree`) and
    `Rerun` (the user starts the program again).

  `pending` is the plugin's `PENDING_BY_SLOT`, `tally` is `SLOT_TX_TALLY`, `buffer` the
  slot buffer, `reported` is `slots_since_flush`, `tasks` the spawned writes and
  `inFlight` the counter `WRITES_IN_FLIGHT`; `slotRows`, `statusRows`, `eventRows` and
  `undated` are the tables; `next` is the ledger. `accepted` and `replayed` are
  history: blocks whose `on_block` spawned its last write, blocks whose batch was retried.
* **SlotOwnershipProofs**, **WorkStealProofs**, **PluginWritesProofs**,
  **ThreadStreamProofs** and **GeyserProofs** hold the theorems
  about the modules they extend, **ArchiveProofs** those about HitGate and its two users,
  SlotLookup, EpochReader and IndexCache,
  **ObserverProofs** those about what looks at the threads while they run: FloorReader,
  SpawnGate, RecycleMonitor and StatsPulse, and **RunnerProofs** those about PluginTallies
  and ClickHouseHelper.
* **MCWorkSteal** and **MCPluginWrites** give the constants of the two their values.

The rest of the firehose (checked together by **MCFirehose**):

* **ThreadStream** is one thread in the order of its callbacks, in every mode in
  which it shares its range with nobody: forward, reverse (`reverse_resume_after_error`)
  and sequential. WorkSteal has many threads and no callbacks below a block; this
  one has one thread and every callback: transactions, entries, rewards, skipped
  slots, blocks that arrive late, the slot's counters, the statistics pulse of
  `maybe_emit_stats` and its rollback, and a restart from any of them.
* **FloorReader** is `resume_floor` while the run goes on: two loads per slice
  without a lock, against owners that store one field at a time. The protocol by
  which a thief finds its victim is one action here (`Hand`).
* **SpawnGate** is `wait_for_green_threads` with the activity stamps, the grace
  clock and `RetryBackoff`; **RecycleMonitor** is the sweep that flags slow
  threads, its percentile, its reference rate and its caps, and the threads that
  take the flag before their next batch.
* **GeyserDelivery** says what `firehose_geyser` promises: each block's metadata is
  announced once, and the plugins are unloaded after all of them.
  **GeyserFirehose** is the code, a notification per step, with the restart from
  the failed item; it implements GeyserDelivery if the archive is in slot order. A block
  out of order can be lost, and so can the one that it overtook: a thread that resumes
  at the slot of the latter seeks to a place behind the former. `OthersCovered` is
  about all the others.

The archive (checked together by **MCArchive**):

* **IndexCache**: the map of ranges, the once-cell per epoch, the load with its
  legacy fallback, the invalidation after a failure, and the two loops on top
  (the seek of `node_reader.rs`, the probe of `next_present_slot`), a step per
  await or shared access.
* **SlotLookup**: both ways to find where a slot's data lies, compared.
  **CompactIndex**: the file format behind the legacy way: header, buckets and the
  search in an implicit tree, in files that may be cut short.
* **HitGate** is the compare-and-swap that paces requests; **RemoteFetch** (the
  retries of an index fetch) and **SeekPermits** (the permits of the readers'
  seeks) are its two users and extend it.
* **EpochReader**: the two readers of an epoch's archive (range requests with
  reconnects, and the windowed download that cannot seek), the buffer over them
  and the reader that collects the nodes of one block. **Varint**: the two integer
  decoders. **FrameChain**: the batch of nodes, `reassemble_dataframes` and the
  verification of hashes, in an archive that is damaged once.

Around the firehose (checked together by **MCRunner**):

* **ClickHouseHelper**: `start`, the monitor task, `stop`, the orphan search, and
  how `JetstreamerRunner::run` uses them, over several runs of the program.
* **StatsPulse**: the statistics callback of the runner: totals and clock read in
  front of the spin lock, three exchanges under it, the record behind it.
* **PluginTallies**: what the three built-in plugins and the runner's vote tally
  count of each transaction, one plugin after the other, with other threads and
  Ctrl-C in between.
* **CommandLine**: `parse_cli_args`, the environment, the helper decision, the
  thread count, and the resume command of an aborted run, parsed again.

The parts of MCFirehose, MCArchive and MCRunner have no state in common in the
code beyond what each module contains, or only through calls whose every outcome
a module allows (an index that cannot answer, a connection that fails). So a
behaviour of such an MC module is a behaviour of one part: `part` names it, `PartNext`
steps it, and the variables of the others stay 0. A component that needs more than one instance
has one part per instance (`forward`, `backward`, `cut`, `gaps`, `disorder` are
ThreadStream). A property of these modules says of each part what the part's own
module states under that name, where it is explained.

An operator `X_Y` is a plausible wrong version of `X`: a missing guard, a reset that
is forgotten, an end that is off by one. `PROJECT.json` names for each property one that
breaks it; the others break the further definitions that a property over parts stands for.

Abstractions of WorkSteal. A block is its slot; a fault is its kind. A grant is
committed in one step with its delivery: `send` on a oneshot fails only if the
receiver is gone, and a thief waits until it is answered or its own task ends,
which it can only do outside the wait. Sleeps in backoff are one state in which
proposals are answered. The float comparison of completed fractions is a cross
multiplication, exact where the code rounds: it only orders the candidates. The
error of a missing block at the end of a batch (`get_block`) cannot happen after
the test for a stream's end before it. A failure to decode a node is a failing
callback of its slot: it leaves the same state. Statistics and blocks out of
order are in ThreadStream, and here the run starts above slot 0, where the
saturating subtractions of the code would merge "nothing yet" with slot 0.

Abstractions of PluginWrites. A block is its slot, its transactions are equal, and a
plugin's rows of a slot are one number, how many transactions they count; the three
bundled plugins have the same code around what they count. A block has a positive
block time, so a row is dated or has timestamp 0. The firehose threads have fixed
ranges (WorkSteal has the stealing), clipped when the run resumes from a floor; their
retries are those that happen before `on_block`, after a transaction was
delivered. The callbacks never fail (the runner logs and swallows plugin errors).
An attempt to write that fails without effect is a stutter: only a lost
acknowledgment and the end of the horizon show. The last flush, the exit flush and
the backfill drain their input and write it in one step, because by then nobody else
uses the buffer or the pending map, and the run cannot leave the step but by success
or exit. The backfill's `ANY INNER JOIN` gives one row per slot; which one is open.
ClickHouse is reachable at start and enabled (without it nothing is written).

Abstractions of the other modules, where they bear on what is shown:

* *ThreadStream*: a block is its slot and has one transaction, one entry and one
  rewards node; a hash is the slot it belongs to. Backoff only delays.
* *FloorReader*: no errors and no restarts; a handover is ordered as in the code,
  but any idle thread may get half of any slice.
* *SpawnGate*, *RecycleMonitor*: durations are ticks; an age is kept no further
  than it makes a difference. Rates are small integers.
* *IndexCache*: `OnceCell` is external (one caller initialises, the others wait, a
  failed initialiser lets the next one try). Versions of the files are published
  while the program runs.
* *CompactIndex*, *SlotLookup*: the files and their writers are external: any placement
  that the format allows. Where a slot starts is the number of bytes before it in the archive. Truncated hashes may collide; full ones are given.
* *RemoteFetch*, *SeekPermits*: time is discrete and moves only when somebody
  waits or a request takes time; the servers are external and answer anything.
* *EpochReader*: a unit of the stream is what one `read_exact` asks for; `BufReader`
  is external. `LayoutAssumption` is what the writer of an archive guarantees: its slots in order,
  the block of a slot behind its other sections, and the tail of no slot (`NoSlot`) at the end.
* *Varint*: a byte carries 2 bits and a value 7, so that, as with 7 bits and 64, the
  last byte has one bit left.
* *FrameChain*: content identifiers and checksums are ideal. Rewards and metadata are
  payloads; the transaction itself, which is never split, is not. An error ends the pass, which
  ThreadStream then starts again.
* *ClickHouseHelper*: server, operating system and `pgrep` are external. Servers are
  detached and share data directory and port. Of the log only the lines the
  monitor looks for exist. `Overlap` allows a process to start while another
  works, `Prompt` says that the spawned task is polled before the run ends,
  `Host` which runs share a process.
* *StatsPulse*: transactions stand for all totals; rates, progress and the estimate
  of the remaining time are left out.
* *PluginTallies*: no batch is repeated (PluginWrites has that); the properties
  compare the tables with the transactions that were given to the callbacks.
* *CommandLine*: a word is a record of what the parser can tell of it. The shell splits
  at blanks. The environment is the same at every resumption.

## Runs

All WorkSteal runs use epochs of four slots, a minimal steal of two slots and a
first slot of 2. `SomeBlocks` has leader-skipped slots in the middle and at the
end of the range, so ranges end in gaps, seeks land on gaps, and a sub-range can
hold no block at its end. Each of the ranges spans two or three epochs, so that
grants cut passes whose epochs are already fixed. With two threads a range of
eight slots allows two successive steals; with three it allows a thief to be
robbed. Nothing in the code depends on a size other than through these
comparisons, which both sides of are reached.

| Run | Instance | Shows |
|---|---|---|
| `faults` | WorkSteal, 2 threads, slots 2..9, at most 2 faults of any kind but an unanswering index | `TypeOK`; `ExclusiveEmission`; `CountedOnce`; the audit passes only complete runs (`AuditSound`) and fails only if a thread died (`AuditComplete`); `FloorSafeOnceAdopted`; `Ownership`, the refinement of SlotOwnership; `RunEnds` |
| `hunt` | WorkSteal, 3 threads, slots 2..8, no faults | thieves rob thieves: `EveryBlockReported`, `OneProposal`, and `ProposalsAnswered`, the deadlock freedom `request_steal` documents |
| `writes` | PluginWrites, 2 threads, 2 blocks of 2 transactions and a skipped slot, flush every 2 slots, at most 2 faults of any kind | `TypeOK`; `DrainCoversWrites`; `CountsExact` (a dated row never counts half a block, Ctrl-C included); `NothingDropped`, the refinement of RowSink; `RunEnds` |
| `rerun` | PluginWrites, 1 thread, 2 runs, at most 2 faults of any kind | `CompleteBeforeExit`: whatever the first run left, an uninterrupted second one has complete rows before its plugins exit |
| `firehose_parts` | MCFirehose, its parts below | the parts of the firehose beside the steal protocol |
| `archive_parts` | MCArchive, its parts below | the parts that read the archive |
| `runner_parts` | MCRunner, its parts below | the parts around the firehose |
| `floor` | WorkSteal, 2 threads, no faults | `FloorSafe` violated |
| `report` | WorkSteal, 2 threads, 1 recycle | `EveryBlockReported` violated |
| `audit` | WorkSteal, 2 threads, 2 faults: cut stream, unanswering index | `AuditSound` violated |
| `interrupt` | PluginWrites, 1 thread, 2 runs, Ctrl-C | `RerunCompletes` violated |
| `rows_floor` | PluginWrites, 1 thread, 1 failing write | `FloorRowsWritten` violated |

The violations are explained under Disagreements. What the runs over parts check, with the
definitions of the parts' modules that each property stands for:

| Property | Part: definitions | Why the instance is large enough |
|---|---|---|
| `FloorKept` | `floor`: `NothingLost`, `QuietFloorRight` | 3 threads, so that the reader can stand between a thief it has passed and a victim it has not reached |
| `CountedOnce` | `forward`, `backward`, `cut`: `CountedOnce`, `PulsesAddUp` | slots 1..11 in three epochs, begin and end in mid epoch; 3 faults of every kind: an error during the recovery from an error; `cut` ends within its highest epoch |
| `EverySlotSeen` | `forward`, `backward`: `EveryBlockSeen`; `gaps`: `EverySlotSeen`; `disorder`: `LateCounted` | gaps of one and two slots, also across an epoch's end; `disorder`: block 5 behind block 7, and genesis |
| `OneDirection` | `forward`, `disorder`: `NeverBack`; `backward`: `EpochsDescend` | as above |
| `GeyserBlocks`, `GeyserDelivers` | `geyser`, `overtaken`: `BlockComplete`; `overtaken`: `OthersCovered`; `geyser`, `bare`: the refinement of GeyserDelivery | 2 threads, 2 epochs, 2 faults; `bare` has three threads for three slots and no notifiers |
| `ThreadsPaced`, `EveryWaitEnds` | `gate`: `RedFreeGrace`, `RampCompletes`; `monitor`: `BarIsShared`, `RequestsEnd`; `forward`: `StreamEnds` | 3 threads to start, a grace of two polls; 2 monitored threads with rates up to 2 and the bar itself as the limit, so that a thread that moves can be too slow |
| `IndexAnswers` | `solo`: `FreshAfterInvalidate`; `solo`, `shared`: `SeekPassesOnlyAbsent`, `ProbeSound` | two epochs of two slots whose files change between missing, legacy and slot ranges; one load may fail |
| `LookupsAgree` | `lookup`: `LegacyAgrees`; `compact`: `FindsWritten`, `CutIsError` | four slots, present or not, of two lengths, with any entry for an absent one; five keys, two of which collide, in one to three buckets, files cut at every structure |
| `PermitsSpaced` | `fetch`, `permits`: `PermitsSpaced`, about the stamps; `retries`: `BacksOff` | 2 clients, spacing 2 |
| `RateKept` | `fetch`, `permits`: `RateKept`, about what is sent | 2 clients, spacing 2 and time for two permits: a client can hold its permit until both send together, or lose it with its reader |
| `RequestsRight` | `permits`: `SeekHasPermit`, `PacingIsUntimed`; `windowed`: `NeverRefused`; `fetch`: `RangesExact` | 2 clients, of which one takes permits ahead; a timeout shorter than the spacing |
| `ReadsExact` | `ranges`, `windowed`: `WholeSlots`; `varint`: `DecodesWhatFits`, `StreamIsExact`; `frames`: `PayloadExact`, `GoodArchiveReads`, `EndsComplete` | sections in front of, behind and without a block, a buffer that ends in mid section, 3 failures; all streams of up to four bytes; payloads that need none, one and several lists of frames |
| `Settles` | `settle`: a seek or probe ends; `windowed`: `AllDelivered`; `frames`: `FramesSettle` | as above |
| `ServersKept`, `EveryWaitEnds` | `relaunch`: `NothingLeftRunning`, `FailedStartClears`, `OnlyOrphansKilled`, `StartSettles`, `RunReturned` | four runs: the third can find the servers of two others, and the fourth the one of the third's aborted run and of a failed start before it |
| `PulsesMeasure`, `EveryWaitEnds` | `pulses`: `MeasuresFromPrevious`, `NothingUnmeasured`, `PulsesEnd`; `sole`: `MeasuredOnce` | 2 threads with 2 pulses each can overtake one another at each of the three places |
| `RowsAgree` | `tables`: `ProgramRowsExact`, `ComputeConserved`; `tallies`: `SameTransactions` (`EveryTransaction` and `EveryCall`), `DatedTogether`, `StatusAgrees` | a simple vote, a vote among other calls, a failing transaction, inner calls, loaded keys, no calls |
| `CommandsKept` | `words`: `ResumeKeepsConfig`, `ResumeAccepted`; `modes`: `HelperAllowed`; `sizing`: `ThreadsInRange` | every command line of up to four of ten words, resumed twice; every mode with a local, a remote and no DSN; capacities at each boundary of the formula |

PluginWrites needs little: two transactions distinguish half a block from a block; a
flush interval of two puts a flush between a block and its last one and leaves rows
for the final flush; two faults combine Ctrl-C or a retried batch with a lost
acknowledgment, and an abort or interruption of a first run with a fault of the second
(`MaxRuns` is two: a third run finds nothing in the tables that a second could not).

`MaxFaults` bounds the faults of a behaviour; without the bound a connection that
always fails would keep a run from ending, in the code as in the model. Two faults
allow a failure during the recovery from a failure, and a shutdown during one.

Fairness (`FairSpec`): weak fairness of each thread's `Step` and of `Audit`. The
tokio runtime polls every ready task, timers fire, and the main task awaits
every handle before it audits. Faults, the shutdown signal and the errors of
`Disturb` are not fair. In PluginWrites, likewise: each thread's `Callback`, the writes
taken together (each attempt is bounded by the horizon: a write succeeds or ends the
process) and the main task's `RunStep`; lost acknowledgments, retried batches, Ctrl-C and
merges are not fair, and a lost acknowledgment can only repeat `MaxFaults` times, as
the horizon bounds it in the code.

In the runs over parts fairness is stated per part, on the part's own variables:
the thread's `Work` (ThreadStream) and each geyser thread, which the scheduler
runs; the gate's clock, its polls and the threads that come out of a backoff;
strong fairness of a monitored thread's `Recycle`, because the code looks at the flag
before every batch, however often a thread leaves and opens a stream in between, and weak
fairness of its end at a shutdown; the steps of
each caller of the index and one publication of a good index, without which no
seek can end; the windowed reader and the frame reader; server, monitor task, runner and start
task of ClickHouseHelper, whose errors (`abort`, a wiped status file, a server that dies once
it is ready) are not fair; and the steps of a pulse up to the release of the spin lock. Failures are
bounded or not fair, everywhere.

## Disagreements

Where the code does other than its comments, docs or tests say. Five have a run:

* `floor`: `resume_floor` promises that everything below it is complete. A grant
  shrinks the victim's ledger entry at once, and the thief publishes the slots
  only after it received the answer. In between they are in no entry. Once no
  grant is on its way the promise holds (`FloorSafeOnceAdopted`).
* `report`: the error path restores the last emitted slot from the binding made at
  spawn (`firehose.rs:1641`), because the binding of the pass shadows it. After
  stealing a range *below* its first one, a thread that restarts takes all
  stolen blocks for already emitted.
* `audit`: `next_present_slot` answers `None` when it cannot tell. A cut stream is then
  taken for the end of the epoch, the next epoch moves `last_counted_slot` behind
  the loss, and the journal covers it.
* `rows_floor`: the ledger moves when `on_block` has returned; the rows it spawned or
  buffered may not be written yet. When a write gives up, the printed floor can be
  above slots whose rows die with the process, and the printed command skips them.
* `interrupt`: Ctrl-C in mid block leaves a row with timestamp 0 for the transactions
  before it. A second, complete run writes the full row, but its exit backfill inserts
  the old one again with the block time, behind the full row and with the same
  timestamp, and the merge keeps the later. Until the backfill all is well
  (`CompleteBeforeExit`).

The others are definitions that stay in the modules and that no run here checks; a model
checker refutes each in the instance named (of the MC module's part, if it is one):

| Definition | Code | Disagreement | Instance |
|---|---|---|---|
| ThreadStream `CountedOnce`, reverse | `firehose.rs:1766` | A resume slot behind the range makes the pass skip the highest epoch without marking it done; a second error delivers it again, which the comment at 524 warns of (and `EpochsDescend` fails with it) | `cut` with 2 transport faults |
| ThreadStream `EveryBlockSeen`, reverse | `firehose.rs:540` | When the highest epoch ends with nothing counted, the last counted slot lies in the epoch below; an error there, or in the statistics callback at the end of the epoch, marks that epoch as done though nothing of it was streamed, against the comment "everything in `last_epoch` was processed" | range `4 .. 9`, epochs `0, 1, 3`, `4, 5` and `10` of four slots, reverse, 1 transport fault |
| ThreadStream `EveryBlockSeen`, genesis | `firehose.rs:1652`, `2263` | The last counted slot is 0 before slot 0 was counted, so its block is dropped as a duplicate; `on_block` is documented as called for every block (`jetstreamer-plugin/src/lib.rs:209`) | `disorder`, no fault |
| ThreadStream `EveryBlockSeen`, late | `firehose.rs:2280` | A late block is counted but not delivered, because the last emitted slot has moved on; `README.md:199` says it is delivered | `disorder`, no fault |
| ThreadStream `LateCounted` | `firehose.rs:2196` | The gap in front of the first block that is read of an epoch is not kept as pending, so a block of that gap that comes late is dropped as a duplicate; the comment at 1270 has it arrive out of order | epochs `1, 0, 3`, `6, 5, 7` and `11, 10` of four slots from slot 1, no fault |
| ThreadStream `EverySlotSeen` | `firehose.rs:2240` | An error on a skipped slot resumes at the block behind the gap; the rest of the gap is never reported, against the assertion at 4440 | `forward`, 1 handler fault |
| ThreadStream `OverallIsSum` | `firehose.rs:2343` | The rollback of a failed pulse leaves the gap's slots in the overall counter, documented as the aggregate (766) | `forward`, 1 stats fault |
| ThreadStream `ParentHash` | `firehose.rs:1820` | The first block of an epoch, and after a restart, is delivered with a parent hash of zeros | `forward`, no fault |
| FloorReader `FloorComplete` | `firehose.rs:376` | Even without a grant on its way at a load, the walk can miss a handover from behind it to before it; the comment at 370 says everything below is complete | 2 threads, 4 slots each, steals of 2 |
| SpawnGate `StalledHolds` | `firehose.rs:320` | A thread that never read a block is not red, however long; the doc at 280 says a stalled thread holds the ramp | `gate` |
| RecycleMonitor `OldStreamsOnly` | `firehose.rs:1872` | A flag outlives the stream it was set for and hits the young one; the comment at 1691 says the stamp shields it | `monitor` |
| RecycleMonitor `SomeKeepStreaming` | `firehose.rs:1570` | The cap is a constant: with no more threads than that all may be recycled in one sweep, against the comment at 1521 | 2 threads, cap 2 |
| GeyserFirehose `Coverage` | `firehose.rs:3173` | A block out of order is dropped, though the doc at 2849 promises coverage | `overtaken`, no fault |
| IndexCache `FreshAfterInvalidate`, shared | `index.rs:438`, `245` | A lookup that holds the old index caches its range behind an invalidation, which is documented (502) to force a refetch; two callers that seek the same slot can go on doing so for ever, which is why `settle` has a slot per caller | 2 callers of slot 1, files `Moved` |
| HitGate `IntervalStartsNow` | `node_reader.rs:415` | The interval of a permit starts when its client read the clock, before the swap; the comment at 421 says it starts now. A client that is delayed between the two, or behind the swap, sends beside the next one | `permits` |
| SlotLookup `StartsInTime` | `index.rs:673` | The lookup of a skipped slot that hits its own entry answers an empty range at the end of the data, against the comment at 668 | `lookup` |
| CompactIndex `MalformedIsReported` | `index.rs:1374` | A header shorter than its fixed part, or without buckets, panics instead of the error at 109 | a header of length under 13, or of no buckets |
| Varint `StreamIsExact` for `decode_varint` | `index.rs` | Unlike `read_uvarint` it does not look at how much of the last byte fits | `varint` |
| ClickHouseHelper `OnlyOrphansKilled` | `clickhouse.rs:232` | Nothing looks at whether the other server's run still works, though it is documented to find an orphan (46) | `Overlap` |
| ClickHouseHelper `RelaunchHelps` | `clickhouse.rs:58`, `256` | Without a status file the first process that `pgrep` finds is killed, which can be the server of an earlier failed start that has not exited yet; "please re-launch", and the one in the way goes on serving. `FailedStartClears` excepts the case, which takes four runs | `relaunch`, fault `wiped` |
| ClickHouseHelper `StopReachesServer` | `clickhouse.rs:302`, `283` | `stop` reads the pid before the task was polled, or that of the first run in the process; the comment at 300 says it stops a running server | not `Prompt`; or a shared `Host` |
| ClickHouseHelper `StartSettles` | `clickhouse.rs:207` | A server that dies before it logs anything leaves `start` waiting; the error for it (68) is never constructed | fault `stillborn` |
| StatsPulse `TimeMovesOn` | `jetstreamer-plugin/src/lib.rs:688` | The clock is read before the lock, so a thread that is overtaken measures one nanosecond; the comment says pulses are serialized | `pulses` |
| StatsPulse `LatestIsMostRecent` | `lib.rs:770` | Pulses are recorded after the lock is released, in any order (`metrics.rs:134`) | `pulses` |
| PluginTallies `LoadedKeysCounted` | `pubkey_stats.rs:98` | Loaded addresses are in the metadata and never counted, against the comment at 30 | `tallies` |
| CommandLine `HelperAllowed` | `src/lib.rs:956` | The DSN is searched for the text, so a remote `localhost.example.com` counts as local (102) | a lookalike DSN |
| CommandLine `ResumeAccepted` | `src/lib.rs:830` | The command is joined with blanks and without quotes | a DSN with a blank |
| CommandLine `ThreadsBySizing` | `system.rs:175` | Divides by 250 where the doc at 16 has 285 | `sizing` |
| CommandLine `RangeIncreases` | `src/lib.rs:838` | `9:2` is not compared and reaches a subtraction that underflows; the builder asserts it (435) | a range word that decreases |

## Proofs

The theorems hold for every number of threads, every range, every epoch length, every
set of blocks and every set of faults that the assumptions of the module allow; what a
theorem assumes beyond them stands in its statement. `PROJECT.json` lists each with what
it establishes.

**The work-steal protocol.** WorkSteal assumes more than one thread, a range above slot 0,
positive epochs, a minimal steal above one and a block in each epoch of the range
(`node_reader.rs` treats an epoch without indexed slots as corrupt).

* `WorkStealProofs!TypeCorrect`: `Spec => []TypeOK`. That slot numbers stay inside
  `FirstSlot - 1 .. EndSlot` needs how the counters relate to the pass
  (`Bounds`): the current slot is counted, a read block lies behind the counted one,
  a granted reply is a range of the run. That `Answer` writes to a reply that is
  pending needs `Mailbox`: whoever sits in an inbox waits for that proposal and sits
  in no other. `TypeInv` is their conjunction and is inductive.
* `WorkStealProofs!ProposalsAccounted`: `Spec => []OneProposal`. `Mailbox` gives one
  direction; the other, that no proposal is lost, is `Posted`: a victim that stops taking
  proposals has answered those in its inbox.
* `WorkStealProofs!EmissionExclusive`: `Spec => []ExclusiveEmission`, with every
  fault allowed. `ExclusiveEmission` is not inductive: a grant must not contain
  slots already delivered. `StealInv` adds to `TypeInv` that the work of the threads
  is disjoint and untouched by others (`Owners!Exclusive`), that of its own work a
  thread has touched at most the slot it resumes at (`Untouched`), and how range and
  counter relate (`Streams`). Each action is shown to be a step `Move`, `Handover` or
  `Die` of SlotOwnership, and those preserve `Exclusive` (`SubrangesPartition` gives the
  initial partition).
* `WorkStealProofs!OwnershipKept`: `IndexAnswers /\ Spec => Ownership`, the refinement of
  SlotOwnership step by step. A `Move` is an `Advance` when the blocks it takes out of a
  thread's work are processed. `BlockInv` says so: no block of its work lies where a
  thread has streamed past (`NoneSkipped`), a ledger entry shows as done only what is
  (`EntryTrue`), and every block is processed or open in an entry or a grant (`Claim`),
  and journaled or to be journaled (`Share`) while no thread has stopped.
  The hypothesis is the one that the run `audit` shows to be needed: an index
  that does not answer lets a cut stream pass for the end of an epoch. Every other fault is
  allowed.
* From the same invariant, `FloorIsSafe` (`FloorSafeOnceAdopted`), `PassedAuditSound`
  (`AuditSound`) and `FailedAuditTrue` (`AuditComplete`). `BlocksCountedOnce`
  (`CountedOnce`) needs no hypothesis on the faults.
* `BlocksReported`: `NoRestarts /\ Spec => []EveryBlockReported`. The last emitted slot
  never passes the last counted one (`Marked`), over any chain of steals. Without
  `NoRestarts` the property is false: the run `report`.
* `SlotOwnershipProofs!OwnershipHolds`: from an initial partition of the slots
  (`InitialPartition`), SlotOwnership keeps `ExclusiveEmission` and `NoOrphan`. This is about
  the abstract specification only, whose `Advance` lets go of no block; that the
  code's steps are such steps is `OwnershipKept`. WorkSteal instantiates `AllThreads`, `AllSlots` and `Initial`
  with its own threads, slots and subranges (`SubrangesPartition`).

**The plugin runner**, for every set of threads with disjoint ranges, set of
blocks, number of transactions, flush interval, faults and runs.

* `PluginWritesProofs`: `TypesKept`: `Spec => []TypeOK`; `DrainSafe`:
  `Spec => []DrainCoversWrites`; `DropsNothing`: `Spec => NothingDropped`, the whole
  refinement of RowSink. All three follow
  from `WritesInv`. That the counter never underflows and that the drain covers the
  writes needs `Counter` (it is the number of tasks, which in turn needs that no two
  tasks are equal: `Unique`, `Past`). That a finished run wrote everything needs
  `Conserved`: each row of an accepted block is in its table or in the hands of a task or
  the buffer; that holds because a block at `on_block` has events and a tally
  (`Threading`, the place of a thread in its batch) and because a task that ends has
  inserted what it held. `Quiet` says that callbacks, tasks and buffer come to rest in
  this order, so that at the end there are no hands left. `Positive` keeps the backfill from
  overwriting rows with nothing.
* `PluginWritesProofs!UninterruptedRunWrites`: `Spec => []CompleteBeforeExit`, for any number of
  runs. What is collected for a block that was not retried is what was delivered of it
  (`Collects`), so every task carries a whole block (`WritesWhole`); the events of a block
  are in the table or in such a task until the exit (`EventsKept`); and without an
  interrupt no block is left out (`TakesAll`).
* `PluginWritesProofs!RowsCountOnce`: `MaxRuns = 1 /\ Spec => []CountsExact`. A status is written
  only of a slot that the thread has left, with nothing pending and no undated row
  (`Settled`), so the exit backfill finds nothing to undo (`Emptied`, `Undated`,
  `RowsExact`). The hypothesis is what the run `writes` has; for a second run the
  argument ends where the run `interrupt` shows: its backfill meets rows of the first.

**The resume floor.** `ObserverProofs`, for every number of threads, slots per thread,
minimal steal and number of steals: `FloorTypes`, `HandoversLoseNothing` (`NothingLost`),
`QuietReadsRight` (`QuietFloorRight`). `Slice` says for each place in a handover which of
the two stores of an entry lag behind their thread, and `Covered` that each open slot is
owned or being given: that is `NothingLost` for the variables of the threads instead of the
ledger. A reader is right because every slice it has passed is represented in what it found
(`ReadInv`): without a grant on its way a slice only shrinks from below, so what was
read of it stays at or below what is open.

**The pace of the threads, and the pulses.** Also in `ObserverProofs`:

* `ForcedSpawnsWait` (`RedFreeGrace`, an action property), for every number of threads, grace
  and green and red age. The invariant is `deadline = Grace - calm`: whatever puts the
  deadline back begins a new calm, so a deadline that ran out means a whole grace without
  a red thread (`GateInv`). The durations of the backoffs do not enter.
* `BarAlwaysShared` (`TypeOK` and `BarIsShared`), for every number of threads, rate and cap.
  `PercentileShared` is the step that matters: the entry of the sorted rates at nine
  tenths is never the last of two or more, so the threads below it are at most two fewer
  than the threads that move. For this `P90` is stated by counting (`UpTo`, `Place`)
  instead of by the sorted vector.
* `PulsesMeasureFromPrevious` (`MeasuresFromPrevious`), `PulsesMissNothing` (`NothingUnmeasured`)
  and `PulseTypesKept`, for every set of threads: who is between the loads and the stores holds
  the lock, and the two halves of the last snapshot differ only between the two stores
  (`Exchange`, `LastTaken`). `SolePulseExact` (`MeasuredOnce`) is for a single thread: with
  two, a pulse that took its snapshot first and came to the lock second moves the total back, and what
  came in between is measured again.

**One thread over all restarts.** `ThreadStreamProofs`, for every range, archive, interval,
number of faults and both modes:

* `StreamTypes` and `PulsesReportAll` (`PulsesAddUp`) need nothing further.
* `BlocksOnce` (`CountedOnce`): `Course` says through which epochs a pass goes and which
  part of each is left, so that the slots behind a thread (`Passed`) are determined by
  `pc`, the list of epochs and the counter. Then what is processed is behind the thread,
  and no restart takes it back in front of it (`OnceInv`).
* `BlocksSeen` (`EveryBlockSeen`) and `SlotsSeen` (`EverySlotSeen`): `Standing` and
  `Position` place the counter, the last emitted slot and the position in the stream
  relative to one another; `Reported` says that what is behind the thread was
  delivered, once for the blocks and once for the slots between blocks.
* `GoesForward` (`NeverBack`, for any order of the archive) and `GoesDown`
  (`EpochsDescend`): the last slot called is behind whatever a restart resumes at
  (`Back`, `Descent`).

`Aligned` (a reverse range ends with an epoch), `Ordered` (an archive in order, a range that
starts behind the genesis slot) and the exclusion of failing handlers in `SlotsSeen` are
there because the properties are false without them, as the rows about ThreadStream
above show. The runs check `BlocksOnce` and `SlotsSeen` of one instance each
(parts `forward`, `backward`, `gaps`), and in `cut` a range that is not aligned.

**The Geyser path.** `GeyserProofs`, for every range, epoch length, number of threads, set of
notifiers, number of faults, and archive in any order (`Instance`):

* `GeyserTypes` (`TypeOK`), `BlocksComplete` (`BlockComplete`) and `OrderlyCovered`
  (`OthersCovered`) follow from `GeyserInv`. Of a thread it says where it is in its
  part of the range (`Place`), what was called for the slots of that part (`Called`: nothing
  of a block behind the last one counted, the calls up to the current node of the
  current one, all calls of one that was announced), and that of the blocks in order with
  the others each is announced, current or still ahead in the stream (`Covered`).
  `Covered` survives a seek because the index names the first block that is present
  (`IndexNames`) and no such block stands in front of that one (`SeekStands`);
  it survives a clean end of the stream because the code asks the index for what it
  has not read, and a block behind the slice because nothing in order comes after it.
  `RangesApart` and `RangesCover` say that `generate_subranges` gives each slot to one thread.
* The attempt at this proof corrected `OthersCovered`: it used to leave out only blocks that
  were overtaken. With a range from slot 5 and the epoch `4, 6, 5, 7` the seek to 5 leaves
  6 behind, and block 6 is never announced, without any fault. The blocks that overtook
  another (`Overtaking`) are left out too.
* `AnnouncesSafely` and `DeliversSafely`: for an archive in order (`InOrder`), every step is a
  step of GeyserDelivery or a stutter, for the slot notifications and for the block
  metadata. That the run ends, the other half of the refinement, is checked by TLC.

**Requests to the archive.** `ArchiveProofs`, for every number of clients, spacing, timeout and
bound on time. `GateInv`: a client about to swap has read a clock at least an interval
behind the stamp that it compares with, and the compare-and-swap fails if the stamp moved;
so `PermitsSpaced` holds of any user of the gate. It is about stamps, not about when something is
sent: a client that is delayed behind its clock read gets its permit late and sends beside the
next one, and S3 takes no permits at all. What holds of the requests themselves is `RateKept`:
up to any time no more of them were sent than intervals have passed. Its invariant counts
the permits still in hand with the requests (`Within`): together they fit into the time up to the last
stamp (`Budgets`). `requests` and `sought` are history variables; the number of clients is finite (`GateAssumption`).

* `SeekStampsSpaced` (`PermitsSpaced`), `SeekRateKept` (`RateKept`), `SeeksPermitted` (`SeekHasPermit`), `SeeksUntimed` (`PacingIsUntimed`), `SeekTypes`:
  `SeekKept` says where a reader holds a permit that no seek has used, where it can be at the gate,
  and that one which takes permits ahead does not wait for another. `SeeksUntimed` assumes that
  those who take permits ahead are clients. In hand is a permit that was granted, taken ahead or
  is about to be used (`InHand`); one that is lost with its reader leaves the budget unused.
* `FetchStampsSpaced` (`PermitsSpaced`), `FetchRateKept` (`RateKept`, of requests over HTTP), `FetchesBackOff` (`BacksOff`), `FetchesExact` (`RangesExact`), `FetchTypes`: `FetchKept`
  says that a fetch that tries again wakes no earlier than its delay after its last
  request, and is at the gate only when it woke. `FetchesBackOff` assumes at most 11 retries, because the delay stops doubling at the tenth; the
  program makes 10.

**Where the data of a slot lies.** `ArchiveProofs!IndexesAgree` (`TypeOK` and `LegacyAgrees`), for every
epoch, set of present slots with their lengths, size of a block's section and entry that an absent slot may
hit. `Scanning` says that no present slot lies between where the scan is and the slot that is
looked up, so that the section at which it stops ends where the data of the slot starts. This needs that the
starts grow from one present slot to the next, so `StartOf` counts the bytes before a slot
(`NextStart`, `StartsGrow`, from FiniteSetTheorems) instead of adding lengths up.

**What a reader hands over.** `ArchiveProofs!BatchesAreWhole` (`WholeSlots`) and `NeverSoughtInVain`
(`TypeOK` and `NeverRefused`), for every archive in the order of its slots, buffer, number of faults, and both streams.
The reader's `Place` is the position of the stream less what the buffer holds; `Buffered` and
`Connected` say that the buffer holds the units just before the position and that a connection goes on
behind them, which every seek, reconnection and short read keeps up. So the units come one after the other, and
`AtSection` says that the nodes taken are those of the wanted slot in front of the next section; a batch
ends with the slot's block (`SlotRuns`) and the next slot starts right behind it
(`SlotsFollow`). A stream that cannot seek is only opened while the first slot is wanted (`Placed`).

**The shared index.** Also in `ArchiveProofs`, for every number of callers and epochs, epoch length,
sequence of versions, set of seeks and probes, and number of faults. `IndexAssumption` numbers the
epochs from 0 on without a gap, and each has a file of some version from the start.

* `IndexTypes` (`TypeOK`), `SeeksPassOnlyAbsent` (`SeekPassesOnlyAbsent`), `ProbesSound`
  (`ProbeSound`), from `IndexInv`. That a seek or a probe has passed over absent slots only
  (`Sought`, `Probed`) is about one caller; what it reads it reads from an entry that others fill,
  and that the map may have forgotten. So `Uses` says that an entry serves one epoch, for
  the map and for everybody who holds it, and that no version in it is newer than the one on the server.
  A fresh entry keeps this up because nobody can hold it: there is one for each caller and
  each epoch, and the caller that asks and the epoch it asks for have none (`EntryFree`).
* `InvalidationIsFresh` (`FreshAfterInvalidate`), for one caller, as in the part `solo`. While the
  ranges of the epoch are being removed its entry is gone from the map and the ranges behind
  the sweep are empty (`FreshCaller`). A second caller fills both meanwhile, and the property is false
  (Disagreements).

**What the plugins count.** `RunnerProofs`, for every set of threads whose feeds report no slot twice, set of
skipped slots, set of transactions and interleaving of the callbacks with one another and with Ctrl-C:
`TallyTypes` (`TypeOK`), `NoTransactionLost` (`EveryTransaction`), `RowsDatedTogether`
(`DatedTogether`) and `StatusMatchesRows` (`StatusAgrees`).

* None of them is inductive, because in the middle of a callback the plugins differ. `Stage` says of each
  slot of a feed how far it is: not seen yet (`Unseen`), with pending counts of all that was given
  (`Waiting`), in a transaction of which some plugins have their share (`InTransaction`), in a
  block whose entries some plugins have taken (`InBlock`), or left behind, either with everything still
  pending (`Kept`) or with rows that carry the time (`Taken`). `Sound` is what is so of every slot.
* Ctrl-C is harmless because a callback looks at the flag only once: it gives up before the first plugin,
  where the slot is `Waiting` and goes to `Kept`, or passes all of them. The tally runs ahead then, and
  so `Waiting` equates it with the counts only until the flag is set; a block that passes the flag was
  `Waiting` without it, and takes the agreement along in `InBlock` to the status.
* The exit drains a slot that is `Kept`, all of it, and finds nothing of one that is `Taken`.
* What is summed over transactions, instructions or keys (`ProgramRowsExact`, `ComputeConserved`,
  `EveryCall`) is checked by TLC: the sums are folds.

**The helper process.** Also in `RunnerProofs`, for every set of runs and faults:

* `HelperTypes` (`TypeOK`). `Course` ties what a run has heard to how far its server has come: a log
  holds one announcement or one complaint, which names a run, so that no other process is killed.
* `RunsLeaveNothing` (`NothingLeftRunning`) and `StopsReachServer` (`StopReachesServer`), if each run has a
  process of its own (`OwnProcess`): `CellOf` says that the cell of a process holds the server of its
  run from the first poll of the task on. Two runs in one process share the cell, and then both are false. The
  second one also assumes that the task is polled before `stop` (`Prompt`).
* `FailedStartsClear` (`FailedStartClears`) and `OrphansOnlyKilled` (`OnlyOrphansKilled`), if no run starts
  while another is active (`~Overlap`): at most one server holds the database (`Sole`), and what a
  complaint names is the one that serves (`Way`).

Two forms recur. A set of numbers that is not empty has a least element: the library's
induction theorems take an operator, so this is proved from `WFMin` of
WellFoundedInduction. And where many actions disturb an invariant in the same way, the
way is a lemma of its own (`MarkedFrame`, `RestartBack`), and the step of an action
shows only that it goes that way.

*Only model-checked*: everything under fairness (`RunEnds` of both modules,
`ProposalsAnswered`, `EveryWaitEnds`, `Settles`), which is beyond the prover;
`LateCounted` of ThreadStream; the types of SpawnGate (its backoffs are powers); CompactIndex, Varint,
FrameChain and CommandLine; and the sums of PluginTallies. The properties of
the runs over parts are conjunctions over instances: `FloorKept`, `GeyserBlocks`, `IndexAnswers`, `PermitsSpaced`, `RateKept`, `RequestsRight`, `PulsesMeasure`, `ServersKept` and
those of ThreadStream have their conjuncts proved for every instance, as said above, and so have those of
`LookupsAgree` about SlotLookup, of `ReadsExact` about EpochReader and of `RowsAgree` except the sums.

## Plan

1. *Done*: SlotOwnership, WorkSteal, their runs, `TypeCorrect`, `EmissionExclusive`.
2. *Done*: RowSink, PluginWrites, their runs, `TypesKept`, `DrainSafe`, `DropsNothing`.
3. *Done*: ThreadStream (also in reverse), FloorReader, SpawnGate, RecycleMonitor, the
   geyser path.
4. *Done*: the index (IndexCache, SlotLookup, CompactIndex, HitGate, RemoteFetch), the
   reader (SeekPermits, EpochReader, Varint, FrameChain).
5. *Done*: ClickHouseHelper, StatsPulse, PluginTallies, CommandLine.
6. *Done*: the proofs of the section above.
7. *Done*: proofs about the archive: the gate, the retries, the seeks, lookups, deliveries;
   and about the runner: what the plugins count, the helper process.
   The parts' modules state their assumptions on constants as plain operators
   (`GateAssumption`), which the MC modules assume of each instance and a theorem takes
   as a hypothesis. CompactIndex is out of the prover's reach: its tree is built by a
   RECURSIVE operator.

## Not modelled

* CBOR into immutable structures (`block.rs`, `entry.rs`, `epoch.rs`, `rewards.rs`,
  `subset.rs`, `transaction.rs`, `utils.rs`): conversion without state, of which FrameChain
  uses the result.
* `archive.rs`, `network.rs`, most of `system.rs`: environment and machine turned into
  settings once, and requests without state of their own.
* `src/tui.rs` and most of `metrics.rs`: rendering of telemetry, which nothing else reads.
* `main.rs` of the firehose and the crate roots: wiring.
* The servers behind HTTP, S3 and ClickHouse, and who writes the archive and
  its indexes: not in the repository; external where a module needs them.
* Of modelled components: the content of callbacks' data and its decoding, the `ripget`
  options and the download threads of sequential mode, loading Geyser plugins from a
  file, the plugin runner's `on_load`, entries and rewards (no built-in plugin
  uses them), the mode without ClickHouse, and the runner's builder for library users.
