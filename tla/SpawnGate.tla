------------------------------ MODULE SpawnGate ------------------------------
(***************************************************************************)
(* The launch gate of the threaded firehose (jetstreamer-firehose,         *)
(* firehose.rs: wait_for_green_threads, thread_activity, RetryBackoff):    *)
(* threads are started one after the other, and the next start waits while *)
(* running threads have not read any data for a while.                     *)
(*                                                                         *)
(* Time is counted in polls of the gate.  A stamp is kept as its age, and  *)
(* an age stops where it makes no more difference; so does the number of   *)
(* doublings of a backoff.  Slots at which a thread fails are taken from   *)
(* ErrorSlots.                                                             *)
(***************************************************************************)
EXTENDS Naturals, FiniteSets

CONSTANTS
  N,            \* threads of the run
  Green, Red,   \* ages from which a thread is no longer green, and is red
  Grace,        \* SPAWN_GRACE_DEFAULT
  PendingMax,   \* spawn_pending_max: threads that may be not green
  BackoffBase, BackoffMax, MaxDoublings,
  ErrorSlots

TimesAssumption ==
  /\ N \in Nat \ {0} /\ PendingMax \in Nat \ {0} /\ Grace \in Nat \ {0}
  /\ Green \in Nat \ {0} /\ Red \in Nat /\ Green <= Red
  /\ BackoffBase \in Nat \ {0} /\ BackoffMax \in Nat /\ MaxDoublings \in Nat

Threads == 0 .. (N - 1)
Never == Red + 1    \* thread_activity::idle_ms is None: no data was read yet
NoError == "none"

VARIABLES
  phase,     \* what a thread does: "unspawned", "running", "backoff" or "ended"
  idle,      \* age of the last read, or Never
  retry,     \* RetryBackoff: the slot that failed last and how often it did
  wait,      \* what is left of a backoff
  deadline,  \* what is left of the grace
  polled,    \* the gate has looked and sleeps until the clock moves
  shutdown,
  \* history
  calm,      \* time since the gate was entered or last saw a red thread
  born       \* age of a thread that has not read any data yet

health == <<phase, idle, retry, wait, born>>
gate == <<deadline, polled, calm>>
vars == <<health, gate, shutdown>>

Min2(a, b) == IF a < b THEN a ELSE b

Spawned == {t \in Threads : phase[t] # "unspawned"}
NextThread == Cardinality(Spawned)

Init ==
  /\ phase = [t \in Threads |-> IF t = 0 THEN "running" ELSE "unspawned"]
  /\ idle = [t \in Threads |-> Never]
  /\ retry = [t \in Threads |-> [slot |-> NoError, doublings |-> 0]]
  /\ wait = [t \in Threads |-> 0]
  /\ born = [t \in Threads |-> 0]
  /\ deadline = Grace
  /\ polled = FALSE
  /\ shutdown = FALSE
  /\ calm = 0

-----------------------------------------------------------------------------
(* The threads.                                                            *)

\* read_until_block answered: thread_activity::note.
Note(t) ==
  /\ phase[t] = "running"
  /\ idle' = [idle EXCEPT ![t] = 0]
  /\ born' = [born EXCEPT ![t] = 0]
  /\ UNCHANGED <<phase, retry, wait, gate, shutdown>>

\* RetryBackoff::next_delay: failures at one slot in a row double the delay.
Doublings(t, slot) ==
  IF retry[t].slot = slot THEN Min2(retry[t].doublings + 1, MaxDoublings) ELSE 0
Delay(d) == Min2(BackoffBase * 2 ^ d, BackoffMax)

Fail(t) ==
  /\ phase[t] = "running"
  /\ \E slot \in ErrorSlots :
       /\ retry' = [retry EXCEPT ![t] = [slot |-> slot, doublings |-> Doublings(t, slot)]]
       /\ wait' = [wait EXCEPT ![t] = Delay(Doublings(t, slot))]
  /\ phase' = [phase EXCEPT ![t] = "backoff"]
  /\ UNCHANGED <<idle, born, gate, shutdown>>

Resume(t) ==
  /\ phase[t] = "backoff"
  /\ wait[t] = 0
  /\ phase' = [phase EXCEPT ![t] = "running"]
  /\ UNCHANGED <<idle, born, retry, wait, gate, shutdown>>

\* The task returns: its range is complete, or it saw the shutdown.
End(t) ==
  /\ phase[t] = "running" \/ (phase[t] = "backoff" /\ shutdown)
  /\ phase' = [phase EXCEPT ![t] = "ended"]
  /\ UNCHANGED <<idle, born, retry, wait, gate, shutdown>>

-----------------------------------------------------------------------------
(* The gate.                                                               *)

\* Threads whose task has not returned.  (Mutant: a task that has counts too.)
Running_Ended == Spawned
Running == {t \in Spawned : phase[t] # "ended"}
NotYetGreen == {t \in Running : idle[t] >= Green}
AnyRed == \E t \in Running : idle[t] # Never /\ idle[t] >= Red

\* A red thread restarts the grace clock.  (Mutant: it keeps running.)
Held_Running == deadline
Held == Grace

\* The gate for the next thread looks at once.
SpawnNext ==
  /\ phase' = [phase EXCEPT ![NextThread] = "running"]
  /\ deadline' = Grace
  /\ calm' = 0
  /\ polled' = FALSE

Poll ==
  /\ ~polled
  /\ IF shutdown THEN SpawnNext
     ELSE IF AnyRed THEN deadline' = Held /\ calm' = 0 /\ polled' = TRUE /\ UNCHANGED phase
     ELSE IF Cardinality(NotYetGreen) < PendingMax \/ deadline = 0 THEN SpawnNext
     ELSE polled' = TRUE /\ UNCHANGED <<phase, deadline, calm>>
  /\ UNCHANGED <<idle, born, retry, wait, shutdown>>

Shutdown ==
  /\ ~shutdown
  /\ shutdown' = TRUE
  /\ UNCHANGED <<health, gate>>

Older(age) == IF age = Never THEN Never ELSE Min2(age + 1, Red)

\* The clock moves on once the gate has looked and no backoff is overdue.
Tick ==
  /\ polled
  /\ \A t \in Threads : phase[t] = "backoff" => wait[t] > 0
  /\ polled' = FALSE
  /\ idle' = [t \in Threads |-> Older(idle[t])]
  /\ born' = [t \in Threads |-> IF t \in Spawned /\ idle[t] = Never THEN Min2(born[t] + 1, Red) ELSE 0]
  /\ wait' = [t \in Threads |-> IF wait[t] = 0 THEN 0 ELSE wait[t] - 1]
  /\ deadline' = IF deadline = 0 THEN 0 ELSE deadline - 1
  /\ calm' = Min2(calm + 1, Grace)
  /\ UNCHANGED <<phase, retry, shutdown>>

Resumes == \E t \in Threads : Resume(t)
Step ==
  \/ \E t \in Threads : Note(t) \/ Fail(t) \/ End(t)
  \/ Resumes \/ Poll \/ Tick \/ Shutdown

\* Nothing here matters once every thread was started.
Ramping == NextThread < N
Next == (Ramping /\ Step) \/ (~Ramping /\ UNCHANGED vars)

Spec == Init /\ [][Next]_vars

\* Time passes, the gate polls, and a backoff that is over ends.
FairSpec ==
  Spec /\ WF_vars(Ramping /\ Tick) /\ WF_vars(Ramping /\ Poll) /\ WF_vars(Ramping /\ Resumes)

-----------------------------------------------------------------------------
TypeOK ==
  /\ phase \in [Threads -> {"unspawned", "running", "backoff", "ended"}]
  /\ idle \in [Threads -> 0 .. Never]
  /\ retry \in [Threads -> [slot : ErrorSlots \cup {NoError}, doublings : 0 .. MaxDoublings]]
  /\ wait \in [Threads -> 0 .. BackoffMax]
  /\ born \in [Threads -> 0 .. Red]
  /\ deadline \in 0 .. Grace /\ calm \in 0 .. Grace
  /\ polled \in BOOLEAN /\ shutdown \in BOOLEAN

SpawnsOne == NextThread' = NextThread + 1

\* The gate starts a thread past PendingMax threads that are not green only
\* after a whole grace in which no poll saw a red thread ("only a red-free
\* interval of `grace` can force a spawn past non-green threads").
RedFreeGrace ==
  SpawnsOne /\ ~shutdown /\ Cardinality(NotYetGreen) >= PendingMax => calm = Grace

\* The ramp goes on once the running threads stop being red, however sluggish
\* they stay ("a flickering thread cannot stall the ramp forever").
Calm == \A t \in Spawned : phase[t] = "ended" \/ idle[t] < Red \/ idle[t] = Never
AllSpawned == NextThread = N
RampCompletes == <>[]Calm => <>AllSpawned

\* No thread is started while another one that runs has not read anything for
\* the timeout of an operation since it was started itself ("a **red** thread (...: stalled or backing off)
\* holds the ramp outright").
\* (Does not hold: README, Disagreements.)
StalledHolds ==
  [][SpawnsOne /\ ~shutdown => \A t \in Running : born[t] < Red]_vars
============================================================================
