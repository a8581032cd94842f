------------------------------ MODULE StatsPulse ------------------------------
(***************************************************************************)
(* The statistics pulses of the plugin runner (jetstreamer-plugin/src/     *)
(* lib.rs: on_stats; metrics.rs: record_pulse, latest_pulse) on top of the *)
(* totals the firehose threads share (firehose.rs: maybe_emit_stats).      *)
(*                                                                         *)
(* A thread that emits a pulse loads the totals, reads the clock, takes    *)
(* the spin lock, exchanges its snapshot for the previous one, and records *)
(* the pulse.  Transactions stand for all the totals; the clock moves with *)
(* every transaction and on its own.                                       *)
(***************************************************************************)
EXTENDS Integers, FiniteSets

CONSTANTS
  Threads,
  MaxTxs, MaxTime, MaxPulses  \* bounds: transactions, clock, pulses of a thread

Nobody == "nobody"

ThreadsAssumption == IsFiniteSet(Threads) /\ Nobody \notin Threads
BoundsAssumption == MaxTxs \in Nat /\ MaxTime \in Nat /\ MaxPulses \in Nat

NoPulse == [txs |-> 0, time |-> 0]

VARIABLES
  pc,       \* of the thread's pulse, see PCs
  total,    \* overall_transactions_processed
  clock,
  mine,     \* the snapshot of the thread's pulse
  prev,     \* the one it replaced
  lock,     \* SNAPSHOT_LOCK, with its holder
  lastTxs, lastTime,  \* LAST_TOTAL_TXS, LAST_TOTAL_TIME_NS
  latest,   \* LATEST_PULSE
  shutting, \* shutting_down, set by Ctrl-C
  pulses,   \* pulses the thread has begun
  measured, \* history: the sum of all deltas
  taken     \* history: the snapshots exchanged so far

local == <<pc, mine, prev, pulses>>
last == <<lastTxs, lastTime>>
history == <<measured, taken>>
vars == <<local, total, clock, lock, last, latest, shutting, history>>

Init ==
  /\ pc = [t \in Threads |-> "work"]
  /\ total = 0 /\ clock = 0
  /\ mine = [t \in Threads |-> NoPulse] /\ prev = [t \in Threads |-> NoPulse]
  /\ lock = Nobody
  /\ lastTxs = 0 /\ lastTime = 0
  /\ latest = NoPulse /\ shutting = FALSE
  /\ pulses = [t \in Threads |-> 0]
  /\ measured = 0 /\ taken = {NoPulse}

Go(t, from, to) == pc[t] = from /\ pc' = [pc EXCEPT ![t] = to]

Elapse ==
  /\ clock < MaxTime
  /\ clock' = clock + 1
  /\ UNCHANGED <<local, total, lock, last, latest, history, shutting>>

CtrlC ==
  /\ ~shutting
  /\ shutting' = TRUE
  /\ UNCHANGED <<local, total, clock, lock, last, latest, history>>

\* The thread processes a transaction.
Process(t) ==
  /\ pc[t] = "work" /\ total < MaxTxs
  /\ total' = total + 1 /\ clock' = clock + 1
  /\ UNCHANGED <<local, lock, last, latest, history, shutting>>

\* maybe_emit_stats
Snapshot(t) ==
  /\ pulses[t] < MaxPulses
  /\ Go(t, "work", "clock")
  /\ pulses' = [pulses EXCEPT ![t] = @ + 1]
  /\ mine' = [mine EXCEPT ![t].txs = total]
  /\ UNCHANGED <<prev, total, clock, lock, last, latest, history, shutting>>

\* "skipping stats write during shutdown"
Skip(t) ==
  /\ shutting
  /\ Go(t, "clock", "work")
  /\ UNCHANGED <<mine, prev, pulses, total, clock, lock, last, latest, history, shutting>>

ReadClock(t) ==
  /\ ~shutting
  /\ Go(t, "clock", "spin")
  /\ mine' = [mine EXCEPT ![t].time = clock]
  /\ UNCHANGED <<prev, pulses, total, clock, lock, last, latest, history, shutting>>

\* compare_exchange.  (Mutant: a swap whose result is not looked at.)
Free_Always == TRUE
Free == lock = Nobody

Acquire(t) ==
  /\ Go(t, "spin", "load")
  /\ Free
  /\ lock' = t
  /\ UNCHANGED <<mine, prev, pulses, total, clock, last, latest, history, shutting>>

Spin(t) == pc[t] = "spin" /\ ~Free /\ UNCHANGED vars

LoadTxs(t) ==
  /\ Go(t, "load", "loaded")
  /\ prev' = [prev EXCEPT ![t].txs = lastTxs]
  /\ UNCHANGED <<mine, pulses, total, clock, lock, last, latest, history, shutting>>

LoadTime(t) ==
  /\ Go(t, "loaded", "store")
  /\ prev' = [prev EXCEPT ![t].time = lastTime]
  /\ UNCHANGED <<mine, pulses, total, clock, lock, last, latest, history, shutting>>

\* saturating_sub.  (Mutant: the operands are swapped.)
Delta_Swapped(t) == IF mine[t].txs > prev[t].txs THEN 0 ELSE prev[t].txs - mine[t].txs
Delta(t) == IF mine[t].txs < prev[t].txs THEN 0 ELSE mine[t].txs - prev[t].txs

\* (Mutant: the total is only kept when it grew by more than one.)
Stored_Sparse(t) == IF Delta(t) > 1 THEN mine[t].txs ELSE lastTxs
Stored(t) == mine[t].txs

StoreTxs(t) ==
  /\ Go(t, "store", "stored")
  /\ lastTxs' = Stored(t)
  /\ measured' = measured + Delta(t)
  /\ UNCHANGED <<mine, prev, pulses, total, clock, lock, lastTime, latest, taken, shutting>>

\* The last store, and the release.  (Mutant: an early return keeps the lock.)
Released_Never == lock
Released == Nobody

StoreTime(t) ==
  /\ Go(t, "stored", "record")
  /\ lastTime' = mine[t].time
  /\ lock' = Released
  /\ taken' = taken \cup {mine[t]}
  /\ UNCHANGED <<mine, prev, pulses, total, clock, lastTxs, latest, measured, shutting>>

\* record_pulse
Record(t) ==
  /\ Go(t, "record", "work")
  /\ latest' = mine[t]
  /\ UNCHANGED <<mine, prev, pulses, total, clock, lock, last, history, shutting>>

\* A pulse at least reaches its end.
Pulse(t) ==
  \/ Skip(t) \/ ReadClock(t) \/ Acquire(t) \/ LoadTxs(t)
  \/ LoadTime(t) \/ StoreTxs(t) \/ StoreTime(t) \/ Record(t)

Over ==
  /\ \A t \in Threads : pc[t] = "work" /\ pulses[t] = MaxPulses
  /\ UNCHANGED vars

Next == Elapse \/ CtrlC \/ (\E t \in Threads : Process(t) \/ Snapshot(t) \/ Pulse(t) \/ Spin(t)) \/ Over

Spec == Init /\ [][Next]_vars
FairSpec == Spec /\ \A t \in Threads : WF_vars(Pulse(t))

-----------------------------------------------------------------------------
(* Properties.                                                             *)

PCs == {"work", "clock", "spin", "load", "loaded", "store", "stored", "record"}
Snapshots == [txs : 0 .. MaxTxs, time : 0 .. MaxTxs + MaxTime]

\* Every variable keeps its type; the lock is held by the thread inside.
TypeOK ==
  /\ pc \in [Threads -> PCs]
  /\ total \in 0 .. MaxTxs /\ clock \in 0 .. MaxTxs + MaxTime
  /\ mine \in [Threads -> Snapshots] /\ prev \in [Threads -> Snapshots]
  /\ lock \in Threads \cup {Nobody}
  /\ lastTxs \in 0 .. MaxTxs /\ lastTime \in 0 .. MaxTxs + MaxTime
  /\ latest \in Snapshots /\ shutting \in BOOLEAN
  /\ pulses \in [Threads -> 0 .. MaxPulses]
  /\ measured \in Nat /\ taken \subseteq Snapshots
  /\ \A t \in Threads : pc[t] \in {"load", "loaded", "store", "stored"} <=> lock = t

\* lib.rs:689 "every pulse measures deltas from the previous pulse": what a pulse
\* subtracts is the snapshot of one earlier pulse, in all its parts, and nobody
\* has exchanged it since.
MeasuresFromPrevious ==
  \A t \in Threads : pc[t] = "store" =>
    prev[t] = [txs |-> lastTxs, time |-> lastTime] /\ prev[t] \in taken

\* What the pulses have measured together is at least the total the last of them
\* saw: no transaction falls between two pulses, in whatever order threads whose
\* snapshots are older come to the lock.
NothingUnmeasured == measured >= lastTxs

\* A single thread measures each transaction in one pulse.
MeasuredOnce == measured = lastTxs

Pulsing(t) == pc[t] # "work"

\* A pulse that has begun ends: the spin lock is always released.
PulsesEnd == \A t \in Threads : Pulsing(t) ~> ~Pulsing(t)

\* lib.rs:691 "using a monotonic clock shared across threads": the time from the
\* previous pulse is never negative (it would be taken for one nanosecond).
\* (Does not hold: README, Disagreements.)
TimeMovesOn == \A t \in Threads : pc[t] = "store" => prev[t].time <= mine[t].time

\* metrics.rs:134 "Returns the most recent stats pulse, if any": the recorded
\* pulse is not replaced by one that was taken before it.
\* (Does not hold: README, Disagreements.)
LatestIsMostRecent == [][latest'.time >= latest.time]_vars
===============================================================================
