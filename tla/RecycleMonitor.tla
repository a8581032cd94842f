--------------------------- MODULE RecycleMonitor ---------------------------
(***************************************************************************)
(* The connection-recycle monitor of firehose() (jetstreamer-firehose,     *)
(* firehose.rs): every sweep compares how many transactions each thread    *)
(* processed with the best rate seen so far and flags the slowest threads; *)
(* a flagged thread reopens its stream before its next batch.              *)
(*                                                                         *)
(* Time is counted in ticks, SweepTicks of them to a sweep.  The totals    *)
(* the monitor subtracts are kept as their difference, what a thread       *)
(* processed since the last sweep, bounded by MaxRate.                     *)
(***************************************************************************)
EXTENDS Integers, FiniteSets, FiniteSetsExt

CONSTANTS
  N,           \* threads of the run
  SweepTicks,  \* SWEEP
  MinAge,      \* MIN_STREAM_AGE_MS
  Cap,         \* MAX_RECYCLES_PER_SWEEP
  Pct,         \* recycle_threshold_pct
  MaxRate

MonitorAssumption ==
  /\ N \in Nat \ {0, 1} /\ SweepTicks \in Nat \ {0} /\ MinAge \in Nat
  /\ Cap \in Nat /\ Pct \in 1 .. 100 /\ MaxRate \in Nat

Threads == 0 .. (N - 1)
NoAge == -1   \* stream_age_ms is None: the thread never opened a stream
Returned == -1   \* the clock of a monitor that saw the shutdown

VARIABLES
  phase,      \* "away" (not spawned, backing off, hunting), "streaming", "finished" or "stopped"
  age,        \* age of the stream, or NoAge
  got,        \* transactions since the last sweep
  flags,      \* RECYCLE_REQUESTED
  clock,      \* ticks to the next sweep
  primed, reference,
  shutdown,    \* shutdown_flag
  \* history
  rivals,     \* the most threads that reached the reference in one sweep
  alone       \* some sweep saw only one thread move

vars == <<phase, age, got, flags, clock, primed, reference, shutdown, rivals, alone>>
monitor == <<clock, primed, reference, shutdown, rivals, alone>>

Min2(a, b) == IF a < b THEN a ELSE b
Max2(a, b) == IF a < b THEN b ELSE a

Init ==
  /\ phase = [t \in Threads |-> "away"]
  /\ age = [t \in Threads |-> NoAge]
  /\ got = [t \in Threads |-> 0]
  /\ flags = {}
  /\ clock = SweepTicks
  /\ primed = FALSE
  /\ reference = 0
  /\ shutdown = FALSE
  /\ rivals = N
  /\ alone = FALSE

-----------------------------------------------------------------------------
(* The threads.                                                            *)

\* A pass of the retry loop begins: after the spawn, a backoff or a steal.
Open(t) ==
  /\ phase[t] = "away"
  /\ phase' = [phase EXCEPT ![t] = "streaming"]
  /\ age' = [age EXCEPT ![t] = 0]
  /\ UNCHANGED <<got, flags, monitor>>

Process(t) ==
  /\ phase[t] = "streaming"
  /\ got[t] < MaxRate
  /\ got' = [got EXCEPT ![t] = @ + 1]
  /\ UNCHANGED <<phase, age, flags, monitor>>

\* An error, or the end of the range: the thread backs off or hunts.
Leave(t) ==
  /\ phase[t] = "streaming"
  /\ phase' = [phase EXCEPT ![t] = "away"]
  /\ UNCHANGED <<age, got, flags, monitor>>

\* note_finished: the hunt found nothing.
Finish(t) ==
  /\ phase[t] = "away"
  /\ age[t] # NoAge
  /\ phase' = [phase EXCEPT ![t] = "finished"]
  /\ UNCHANGED <<age, got, flags, monitor>>

\* take_recycle before a batch; the new pass opens a stream at once.
\* (Mutant: the request is looked at, not consumed.)
Taken_Kept(t) == flags
Taken(t) == flags \ {t}
Recycle(t) ==
  /\ phase[t] = "streaming"
  /\ t \in flags
  /\ flags' = Taken(t)
  /\ age' = [age EXCEPT ![t] = 0]
  /\ UNCHANGED <<phase, got, monitor>>

\* poll_shutdown: between batches, or in a backoff.
Stop(t) ==
  /\ shutdown
  /\ phase[t] \in {"away", "streaming"}
  /\ phase' = [phase EXCEPT ![t] = "stopped"]
  /\ UNCHANGED <<age, got, flags, monitor>>

-----------------------------------------------------------------------------
(* The monitor.                                                            *)

Moving == {t \in Threads : got[t] > 0}
Rates == {got[t] : t \in Moving}
UpTo(rate) == {t \in Moving : got[t] <= rate}

\* The 90th percentile of the rates above zero: the entry at Place of the sorted vector, which
\* is the least rate that so many threads do not exceed.  (Mutant: the best one.)
Place == ((Cardinality(Moving) - 1) * 9) \div 10 + 1
P90_Best == Max(Rates)
P90 == Min({rate \in Rates : Cardinality(UpTo(rate)) >= Place})

NewReference == Max2(reference, P90)
Threshold == (NewReference * Pct) \div 100

Slower(t, u) == got[t] < got[u] \/ (got[t] = got[u] /\ t < u)

\* Streams that had the time to prove themselves.
Candidates == {t \in Threads : phase[t] # "finished" /\ got[t] < Threshold /\ age[t] >= MinAge}

\* The slowest first, and no more than Cap of them.
Flagged == {t \in Candidates : Cardinality({u \in Candidates : Slower(u, t)}) < Cap}

\* The first sweep only takes the totals; one in which nothing moved does no more.
Sweep ==
  /\ clock = 0
  /\ ~shutdown
  /\ clock' = SweepTicks
  /\ got' = [t \in Threads |-> 0]
  /\ primed' = TRUE
  /\ IF primed /\ Moving # {}
     THEN /\ reference' = NewReference
          /\ flags' = flags \cup Flagged
          /\ rivals' = IF P90 > reference THEN Cardinality({t \in Threads : got[t] >= P90}) ELSE rivals
          /\ alone' = (alone \/ Cardinality(Moving) = 1)
     ELSE UNCHANGED <<reference, flags, rivals, alone>>
  /\ UNCHANGED <<phase, age, shutdown>>

\* A sweep that sees the shutdown is the last.
Return ==
  /\ clock = 0
  /\ shutdown
  /\ clock' = Returned
  /\ UNCHANGED <<phase, age, got, flags, primed, reference, shutdown, rivals, alone>>

Tick ==
  /\ clock > 0
  /\ clock' = clock - 1
  /\ age' = [t \in Threads |-> IF age[t] = NoAge THEN NoAge ELSE Min2(age[t] + 1, MinAge)]
  /\ UNCHANGED <<phase, got, flags, primed, reference, shutdown, rivals, alone>>

Shutdown ==
  /\ ~shutdown
  /\ shutdown' = TRUE
  /\ UNCHANGED <<phase, age, got, flags, clock, primed, reference, rivals, alone>>

Thread(t) == Open(t) \/ Process(t) \/ Leave(t) \/ Finish(t) \/ Recycle(t) \/ Stop(t)
Over == clock = Returned /\ \A t \in Threads : phase[t] \in {"finished", "stopped"}
Next == \/ Sweep \/ Return \/ Tick \/ Shutdown
        \/ \E t \in Threads : Thread(t)
        \/ Over /\ UNCHANGED vars
Spec == Init /\ [][Next]_vars

\* A thread that is away comes back or finishes; a batch ends, and the flag is
\* looked at before the next one, as is the shutdown.
FairSpec ==
  Spec /\ \A t \in Threads : WF_vars(Open(t) \/ Finish(t)) /\ SF_vars(Recycle(t)) /\ WF_vars(Stop(t))

-----------------------------------------------------------------------------
TypeOK ==
  /\ phase \in [Threads -> {"away", "streaming", "finished", "stopped"}]
  /\ age \in [Threads -> NoAge .. MinAge]
  /\ got \in [Threads -> 0 .. MaxRate]
  /\ flags \subseteq Threads
  /\ clock \in Returned .. SweepTicks
  /\ primed \in BOOLEAN /\ shutdown \in BOOLEAN /\ alone \in BOOLEAN
  /\ reference \in 0 .. MaxRate /\ rivals \in 0 .. N

\* The bar is a rate that two threads reached in one sweep, unless there was a
\* sweep in which only one moved ("one anomalously fast thread can't set it").
BarIsShared == reference > 0 /\ ~alone => rivals > 1

\* A flagged thread is flagged no longer once it looked, and does not keep
\* reopening its stream: every request ends, or its thread does.
Requested(t) == t \in flags
Answered(t) == t \notin flags \/ phase[t] \in {"finished", "stopped"}
RequestsEnd == \A t \in Threads : Requested(t) ~> Answered(t)

\* A sweep leaves a streaming thread alone ("recycling everyone simultaneously
\* would zero throughput").
\* (Does not hold: README, Disagreements.)
Streaming == {t \in Threads : phase[t] = "streaming"}
SomeKeepStreaming ==
  [][flags' # flags /\ flags \subseteq flags' /\ Cardinality(Streaming) > 1
       => ~(Streaming \subseteq flags')]_vars

\* Only a stream that had MinAge to prove itself is recycled ("the stamp shields
\* young connections from the recycle monitor while they warm up").
\* (Does not hold: README, Disagreements.)
OldStreamsOnly ==
  [][\A t \in flags \ flags' : age[t] >= MinAge]_vars
============================================================================
