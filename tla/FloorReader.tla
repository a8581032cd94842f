----------------------------- MODULE FloorReader -----------------------------
(***************************************************************************)
(* resume_floor (firehose.rs), read while the run goes on: a writer that   *)
(* gives up walks over the work ledger without a lock, two loads for each  *)
(* slice, while the threads publish their progress and hand work over with *)
(* one store at a time.  WorkSteal has the protocol by which a thief finds *)
(* its victim, and reads the ledger in one step.                           *)
(***************************************************************************)
EXTENDS Integers, FiniteSets

CONSTANTS
  Threads,   \* number of threads and of slices
  PerThread, \* slots of a thread's first slice
  MinSteal,  \* MIN_STEAL_SLOTS
  MaxSteals  \* bound: grants in a behaviour

ThreadsAssumption == Threads \in Nat \ {0} /\ PerThread \in Nat \ {0}
StealAssumption == MinSteal \in Nat \ {0, 1} /\ MaxSteals \in Nat

Thread == 1 .. Threads
Slot == 0 .. Threads * PerThread - 1
Bound == 0 .. Threads * PerThread

VARIABLES
  pc,        \* "between" blocks, "counted", "handing", "idle", "granted", "midway"
  position,  \* the thread's next slot
  end,       \* slot_range.end
  grant,     \* the range on its way to the thread
  ledger,    \* ACTIVE_WORK_LEDGER: next and end of every slice
  steals,    \* grants so far
  processed, \* history: the slots that are done
  reader,    \* the slice whose next is loaded, 0 before and Threads + 1 after
  loaded,    \* "next": its next is loaded, its end is not
  next,      \* that load
  found,     \* the slices' next that count, so far
  before,    \* history: the ledger's floor when the reader began
  quiet      \* history: when no grant was on its way since

threads == <<pc, position, end, grant, ledger, steals, processed>>
reading == <<reader, loaded, next, found, before>>
vars == <<threads, reading, quiet>>

NoRange == <<0, 0>>
Least(S) == CHOOSE s \in S : \A r \in S : s <= r
Nothing == Threads * PerThread  \* the floor of a finished run: None

\* The floor of a ledger read in one step.
FloorOf(l) ==
  LET open == {l[t].next : t \in {u \in Thread : l[u].next < l[u].end}}
  IN IF open = {} THEN Nothing ELSE Least(open)

InFlight == \E t \in Thread : pc[t] \in {"granted", "midway"}

Init ==
  /\ pc = [t \in Thread |-> "between"]
  /\ position = [t \in Thread |-> (t - 1) * PerThread]
  /\ end = [t \in Thread |-> t * PerThread]
  /\ grant = [t \in Thread |-> NoRange]
  /\ ledger = [t \in Thread |-> [next |-> (t - 1) * PerThread, end |-> t * PerThread]]
  /\ steals = 0 /\ processed = {}
  /\ reader = 0 /\ loaded = "end" /\ next = 0 /\ found = {} /\ before = 0
  /\ quiet = "always"

-----------------------------------------------------------------------------
(* The threads.                                                            *)

Become(t, state) == pc' = [pc EXCEPT ![t] = state]

\* A block's callbacks have returned: last_counted_slot.
Process(t) ==
  /\ pc[t] = "between" /\ position[t] < end[t]
  /\ processed' = processed \cup {position[t]}
  /\ position' = [position EXCEPT ![t] = @ + 1]
  /\ Become(t, "counted")
  /\ UNCHANGED <<end, grant, ledger, steals>>

\* last_counted_slot + 1.
Published(t) == position[t]

Publish(t) ==
  /\ pc[t] = "counted"
  /\ ledger' = [ledger EXCEPT ![t].next = Published(t)]
  /\ Become(t, "between")
  /\ UNCHANGED <<position, end, grant, steals, processed>>

\* service_steal_inbox: the upper half, sent before the victim shrinks.
\* (Mutant: without the slot in the middle.)
Half_Open(t) == <<position[t] + (end[t] - position[t]) \div 2 + 1, end[t]>>
Half(t) == <<position[t] + (end[t] - position[t]) \div 2, end[t]>>

Hand(v, t) ==
  /\ pc[v] = "between" /\ pc[t] = "idle" /\ steals < MaxSteals
  /\ end[v] - position[v] >= MinSteal
  /\ grant' = [grant EXCEPT ![t] = Half(v)]
  /\ end' = [end EXCEPT ![v] = position[v] + (end[v] - position[v]) \div 2]
  /\ pc' = [pc EXCEPT ![v] = "handing", ![t] = "granted"]
  /\ steals' = steals + 1
  /\ UNCHANGED <<position, ledger, processed>>

Shrink(v) ==
  /\ pc[v] = "handing"
  /\ ledger' = [ledger EXCEPT ![v].end = end[v]]
  /\ Become(v, "between")
  /\ UNCHANGED <<position, end, grant, steals, processed>>

\* RangeComplete: "nothing remaining" is published.
Finish(t) ==
  /\ pc[t] = "between" /\ position[t] = end[t]
  /\ ledger' = [ledger EXCEPT ![t].next = end[t]]
  /\ Become(t, "idle")
  /\ UNCHANGED <<position, end, grant, steals, processed>>

\* request_steal: the thief stores next and then end.
AdoptNext(t) ==
  /\ pc[t] = "granted"
  /\ ledger' = [ledger EXCEPT ![t].next = grant[t][1]]
  /\ Become(t, "midway")
  /\ UNCHANGED <<position, end, grant, steals, processed>>

AdoptEnd(t) ==
  /\ pc[t] = "midway"
  /\ ledger' = [ledger EXCEPT ![t].end = grant[t][2]]
  /\ position' = [position EXCEPT ![t] = grant[t][1]]
  /\ end' = [end EXCEPT ![t] = grant[t][2]]
  /\ grant' = [grant EXCEPT ![t] = NoRange]
  /\ Become(t, "between")
  /\ UNCHANGED <<steals, processed>>

Run(t) == Process(t) \/ Publish(t) \/ Shrink(t) \/ Finish(t) \/ AdoptNext(t) \/ AdoptEnd(t)

-----------------------------------------------------------------------------
(* resume_floor.                                                           *)

LoadNext ==
  /\ loaded = "end" /\ reader < Threads
  /\ reader' = reader + 1 /\ loaded' = "next"
  /\ next' = ledger[reader + 1].next
  /\ before' = IF reader = 0 THEN FloorOf(ledger) ELSE before
  /\ UNCHANGED found

\* next < end counts.
LoadEnd ==
  /\ loaded = "next"
  /\ found' = IF next < ledger[reader].end THEN found \cup {next} ELSE found
  /\ reader' = IF reader = Threads THEN Threads + 1 ELSE reader
  /\ loaded' = "end"
  /\ UNCHANGED <<next, before>>

\* Some(min), or None.  (Mutant: the slice found last.)
Floor_First == IF found = {} THEN Nothing ELSE CHOOSE s \in found : \A r \in found : r <= s
Floor == IF found = {} THEN Nothing ELSE Least(found)

Reading == reader > 0
Answered == reader = Threads + 1

\* What is remembered of the read: no grant was on its way in any of its states,
\* or at none of its loads, or neither.
Watch ==
  quiet' = CASE Answered                              -> quiet
             [] ~Answered /\ UNCHANGED reading        -> IF InFlight' /\ quiet = "always" /\ Reading THEN "loads" ELSE quiet
             [] ~Answered /\ ~UNCHANGED reading       -> IF InFlight THEN "no" ELSE quiet

Over == (\A t \in Thread : pc[t] = "idle") /\ Answered /\ UNCHANGED vars

Step ==
  \/ (\E t \in Thread : Run(t)) /\ UNCHANGED reading
  \/ (\E v, t \in Thread : Hand(v, t)) /\ UNCHANGED reading
  \/ (LoadNext \/ LoadEnd) /\ UNCHANGED threads

Next == (Step /\ Watch) \/ Over

Spec == Init /\ [][Next]_vars

-----------------------------------------------------------------------------
(* Properties.                                                             *)

Unprocessed == Slot \ processed

TypeOK ==
  /\ pc \in [Thread -> {"between", "counted", "handing", "idle", "granted", "midway"}]
  /\ position \in [Thread -> Bound] /\ end \in [Thread -> Bound]
  /\ grant \in [Thread -> Bound \X Bound]
  /\ ledger \in [Thread -> [next : Bound, end : Bound]]
  /\ steals \in 0 .. MaxSteals /\ processed \subseteq Slot
  /\ reader \in 0 .. Threads + 1 /\ loaded \in {"next", "end"}
  /\ next \in Bound /\ found \subseteq Bound /\ before \in Bound /\ quiet \in {"always", "loads", "no"}

\* Every slot that is not done is in a slice of the ledger, or in a grant on its
\* way, whatever store of a handover was the last one.
NothingLost ==
  \A s \in Unprocessed :
    \/ \E t \in Thread : ledger[t].next <= s /\ s < ledger[t].end
    \/ \E t \in Thread : grant[t][1] <= s /\ s < grant[t][2]

\* The floor that is answered, from loads of different moments: every slot below it
\* is done, and it is not below the floor the ledger had when the read began, as
\* long as no grant was on its way during the read.
QuietFloorRight ==
  Answered /\ quiet = "always" => /\ \A s \in Unprocessed : s >= Floor
                       /\ before <= Floor

\* "everything below this is complete", at least when at every single load the ledger
\* held every open slot.
\* (Does not hold: README, Disagreements.)
FloorComplete == Answered /\ quiet # "no" => \A s \in Unprocessed : s >= Floor
=============================================================================
