---------------------------- MODULE ObserverProofs ----------------------------
(***************************************************************************)
(* Proofs about what looks at the threads of a run while they run, for     *)
(* every number of threads.                                                *)
(*                                                                         *)
(* FloorReader: the stores of a handover never hide an open slot from the  *)
(* ledger and the grants (HandoversLoseNothing), and a floor read from     *)
(* loads of different moments is right unless a grant was on its way       *)
(* meanwhile (QuietReadsRight).                                            *)
(*                                                                         *)
(* SpawnGate: a spawn is forced only after a calm grace (ForcedSpawnsWait).*)
(*                                                                         *)
(* RecycleMonitor: the bar is a rate that two threads reached, unless one  *)
(* moved alone (BarAlwaysShared).                                          *)
(*                                                                         *)
(* StatsPulse: a pulse measures from the whole snapshot of an earlier one  *)
(* (PulsesMeasureFromPrevious), the pulses together miss nothing           *)
(* (PulsesMissNothing), and those of a single thread count nothing twice   *)
(* (SolePulseExact).                                                       *)
(***************************************************************************)
EXTENDS FloorReader, FiniteSetsExt, FiniteSetTheorems, WellFoundedInduction, TLAPS

CONSTANTS
  Green, Red, Grace, PendingMax, BackoffBase, BackoffMax, MaxDoublings, ErrorSlots,  \* the spawn gate
  SweepTicks, MinAge, Cap, Pct, MaxRate,                                             \* the recycle monitor
  Workers, MaxTxs, MaxTime, MaxPulses                                                \* the pulses

VARIABLES launch, idle, retry, wait, deadline, polled, shutdown, calm, born
VARIABLES streams, age, got, flags, sweepClock, primed, reference, rivals, alone
VARIABLES pulse, total, clock, mine, prev, lock, lastTxs, lastTime, latest, shuttingDown, pulses, measured, taken

Gate == INSTANCE SpawnGate WITH N <- Threads, phase <- launch
Monitor == INSTANCE RecycleMonitor WITH N <- Threads, phase <- streams, clock <- sweepClock
Stats == INSTANCE StatsPulse WITH Threads <- Workers, pc <- pulse, shutting <- shuttingDown

-----------------------------------------------------------------------------
(* The reader of the floor.                                                *)

Working == {"between", "counted", "handing"}
Carrying == {"granted", "midway"}

\* Thread t has slot s still to do, or is being given it.
Owns(t, s) == pc[t] \in Working /\ position[t] <= s /\ s < end[t]
IsGiven(t, s) == pc[t] \in Carrying /\ grant[t][1] <= s /\ s < grant[t][2]

\* Each slice of the ledger follows its thread: a store behind in next while a block
\* is counted, a store behind in end while half of the range is handed over.
Slice(t) ==
  /\ position[t] <= end[t]
  /\ pc[t] \notin Carrying => grant[t] = NoRange
  /\ pc[t] \in Carrying => grant[t][1] <= grant[t][2]
  /\ pc[t] \in {"between", "handing"} => ledger[t].next = position[t]
  /\ pc[t] = "counted" => ledger[t].next <= position[t]
  /\ pc[t] \in {"between", "counted"} => ledger[t].end = end[t]
  /\ pc[t] = "handing" => end[t] <= ledger[t].end
  /\ pc[t] \in {"idle", "granted"} =>
       position[t] = end[t] /\ ledger[t].next = end[t] /\ ledger[t].end = end[t]
  /\ pc[t] = "midway" => ledger[t].next = grant[t][1] /\ position[t] = end[t]

Covered == \A s \in Unprocessed : \E t \in Thread : Owns(t, s) \/ IsGiven(t, s)

LedgerInv == TypeOK /\ (\A t \in Thread : Slice(t)) /\ Covered

\* The read goes on, and no grant was on its way since it began.
Undisturbed == Reading /\ ~Answered /\ quiet = "always"

\* Slice t is read.
IsRead(t) == t < reader \/ (t = reader /\ loaded = "end")

\* What the reader found says of the slots that are still open.
Below(s) == \E f \in found : f <= s

ReadInv ==
  /\ loaded = "next" => reader \in Thread
  /\ reader = 0 => found = {} /\ quiet = "always"
  /\ Undisturbed =>
       /\ ~InFlight
       /\ \A t \in Thread : ledger[t].next < ledger[t].end => before <= ledger[t].next
       /\ \A t \in Thread : IsRead(t) => \A s \in Unprocessed : Owns(t, s) => Below(s)
       /\ loaded = "next" => next <= position[reader] /\ (next < ledger[reader].end => before <= next)
  /\ Reading /\ quiet = "always" => \A f \in found : before <= f
  /\ Answered /\ quiet = "always" => \A s \in Unprocessed : Below(s)

FloorInv ==
  /\ ThreadsAssumption /\ StealAssumption
  /\ LedgerInv /\ ReadInv

-----------------------------------------------------------------------------
(* Numbers.                                                                *)

LEMMA LessRelation == IsWellFoundedOn({p \in Nat \X Nat : p[1] < p[2]}, Nat)
BY NatLessThanWellFounded DEF OpToRel

\* A set of numbers that is not empty has a least one.
LEMMA Smallest ==
  ASSUME NEW T \in SUBSET Nat, T # {}
  PROVE  \E x \in T : \A y \in T : x <= y
<1> DEFINE R == {p \in Nat \X Nat : p[1] < p[2]}
<1>1. PICK x \in T : \A y \in T : ~(<<y, x>> \in R)
  <2> HIDE DEF R
  <2> QED BY LessRelation, WFMin DEF R
<1>2. ASSUME NEW y \in T PROVE x <= y
  <2>1. y \in Nat /\ x \in Nat /\ <<y, x>> \notin R
    BY <1>1
  <2>2. ~(y < x)
    BY <2>1
  <2> QED BY <2>1, <2>2
<1> QED BY <1>2

LEMMA LeastIs ==
  ASSUME NEW T \in SUBSET Nat, T # {}
  PROVE  Least(T) \in T /\ \A y \in T : Least(T) <= y
BY Smallest DEF Least

LEMMA Products ==
  ASSUME NEW a \in Nat, NEW b \in Nat, NEW c \in Nat, a <= b
  PROVE  a * c \in Nat /\ a * c <= b * c
<1>1. b - a \in Nat /\ (b - a) * c \in Nat /\ a * c \in Nat
  OBVIOUS
<1>2. b * c = a * c + (b - a) * c
  OBVIOUS
<1> QED BY <1>1, <1>2

\* Where the first slices begin and end.
LEMMA Corners ==
  ASSUME ThreadsAssumption, NEW t \in Thread
  PROVE  /\ (t - 1) * PerThread \in Bound /\ t * PerThread \in Bound
         /\ (t - 1) * PerThread <= t * PerThread
<1>1. t \in Nat /\ t - 1 \in Nat /\ Threads \in Nat /\ PerThread \in Nat /\ t <= Threads
  BY DEF ThreadsAssumption, Thread
<1>2. t * PerThread \in Nat /\ t * PerThread <= Threads * PerThread
  BY <1>1, Products
<1>3. (t - 1) * PerThread \in Nat /\ (t - 1) * PerThread <= t * PerThread
  BY <1>1, Products
<1>4. Threads * PerThread \in Nat
  BY <1>1, Products
<1> QED BY <1>2, <1>3, <1>4 DEF Bound

LEMMA Slots == ASSUME ThreadsAssumption PROVE Slot \subseteq Bound /\ Bound \subseteq Nat
<1>1. Threads * PerThread \in Nat
  BY Products DEF ThreadsAssumption
<1> QED BY <1>1 DEF Slot, Bound

\* Each slot is in one of the first slices.
LEMMA FirstSlices ==
  ASSUME ThreadsAssumption, NEW s \in Slot
  PROVE  \E t \in Thread : (t - 1) * PerThread <= s /\ s < t * PerThread
<1> DEFINE T == {t \in Thread : s < t * PerThread}
<1>1. Threads \in Thread /\ PerThread \in Nat /\ s \in Nat /\ s < Threads * PerThread
  BY Products DEF ThreadsAssumption, Thread, Slot
<1>2. T \in SUBSET Nat /\ T # {}
  BY <1>1 DEF Thread
<1>3. PICK t \in T : \A u \in T : t <= u
  <2> HIDE DEF T
  <2> QED BY <1>2, Smallest
<1>4. t \in Thread /\ s < t * PerThread
  BY <1>3
<1>5. (t - 1) * PerThread <= s
  <2>1. CASE t = 1
    <3>1. (t - 1) * PerThread = 0
      BY <2>1, <1>1
    <3> QED BY <3>1, <1>1
  <2>2. CASE t # 1
    <3>1. t - 1 \in Thread /\ t - 1 \notin T
      <4>1. t \in Nat /\ t - 1 \in Thread /\ ~(t <= t - 1)
        BY <1>1, <1>4, <2>2 DEF Thread
      <4> HIDE DEF T
      <4> QED BY <4>1, <1>3
    <3>2. (t - 1) * PerThread \in Nat
      BY <3>1, <1>1 DEF Thread
    <3> QED BY <3>1, <3>2, <1>1
  <2> QED BY <2>1, <2>2
<1> QED BY <1>4, <1>5

LEMMA Middle ==
  ASSUME NEW p \in Nat, NEW e \in Nat, p <= e
  PROVE  /\ p + (e - p) \div 2 \in Nat
         /\ p <= p + (e - p) \div 2 /\ p + (e - p) \div 2 <= e
<1>1. (e - p) \div 2 \in Nat /\ (e - p) \div 2 <= e - p
  OBVIOUS
<1> QED BY <1>1

-----------------------------------------------------------------------------
(* The threads keep the ledger.                                            *)

\* A step of one thread leaves the slices of the others alone.
LEMMA OneThread ==
  ASSUME LedgerInv, NEW t \in Thread,
         \A u \in Thread : u # t =>
           /\ pc'[u] = pc[u] /\ position'[u] = position[u] /\ end'[u] = end[u]
           /\ grant'[u] = grant[u] /\ ledger'[u] = ledger[u],
         Slice(t)',
         processed \subseteq processed',
         \A s \in Unprocessed : s \notin processed' /\ (Owns(t, s) \/ IsGiven(t, s)) =>
           Owns(t, s)' \/ IsGiven(t, s)'
  PROVE  (\A u \in Thread : Slice(u)') /\ Covered'
<1>1. ASSUME NEW u \in Thread, u # t
      PROVE  Slice(u)' /\ \A s : (Owns(u, s) => Owns(u, s)') /\ (IsGiven(u, s) => IsGiven(u, s)')
  BY <1>1 DEF LedgerInv, Slice, Owns, IsGiven
<1>2. ASSUME NEW s \in Unprocessed'
      PROVE  \E u \in Thread : Owns(u, s)' \/ IsGiven(u, s)'
  <2>1. s \in Unprocessed /\ s \notin processed'
    BY <1>2 DEF Unprocessed
  <2>2. PICK u \in Thread : Owns(u, s) \/ IsGiven(u, s)
    BY <2>1 DEF LedgerInv, Covered
  <2> QED BY <1>1, <2>1, <2>2
<1> QED BY <1>1, <1>2 DEF Covered

\* Where a thread's numbers are.
LEMMA Places ==
  ASSUME ThreadsAssumption, TypeOK, NEW t \in Thread
  PROVE  /\ position[t] \in Nat /\ end[t] \in Nat
         /\ ledger[t].next \in Nat /\ ledger[t].end \in Nat
         /\ grant[t][1] \in Nat /\ grant[t][2] \in Nat
         /\ \A n \in Nat : n <= end[t] => n \in Bound
         /\ end[t] <= Threads * PerThread
<1>1. Threads * PerThread \in Nat
  BY Products DEF ThreadsAssumption
<1> QED BY <1>1, Slots DEF TypeOK, Bound

LEMMA RunKeeps ==
  ASSUME ThreadsAssumption, LedgerInv, NEW t \in Thread, Run(t), UNCHANGED reading, Watch
  PROVE  LedgerInv'
<1> USE DEF LedgerInv
<1>1. /\ position[t] \in Nat /\ end[t] \in Nat /\ ledger[t].next \in Nat /\ ledger[t].end \in Nat
      /\ \A n \in Nat : n <= end[t] => n \in Bound
      /\ Slice(t) /\ TypeOK /\ end[t] <= Threads * PerThread /\ Threads * PerThread \in Nat
      /\ ledger[t] \in [next : Bound, end : Bound] /\ grant[t] \in Bound \X Bound
  <2>1. Threads * PerThread \in Nat
    BY Products DEF ThreadsAssumption
  <2> QED BY <2>1, Places DEF TypeOK
<1>2. quiet' \in {"always", "loads", "no"}
  BY DEF Watch, TypeOK
<1>3. /\ steals' = steals
      /\ \A u \in Thread : u # t =>
           /\ pc'[u] = pc[u] /\ position'[u] = position[u] /\ end'[u] = end[u]
           /\ grant'[u] = grant[u] /\ ledger'[u] = ledger[u]
  BY DEF Run, Process, Publish, Shrink, Finish, AdoptNext, AdoptEnd, Become, TypeOK
<1>4. CASE Process(t)
  <2>1. /\ pc[t] = "between" /\ position[t] < end[t] /\ processed' = processed \cup {position[t]}
        /\ pc'[t] = "counted" /\ position'[t] = position[t] + 1
        /\ UNCHANGED <<end, grant, ledger, steals>>
        /\ pc' = [pc EXCEPT ![t] = "counted"] /\ position' = [position EXCEPT ![t] = @ + 1]
    BY <1>4 DEF Process, Become, TypeOK
  <2>2. position[t] \in Slot /\ position[t] + 1 \in Bound
    BY <1>1, <2>1 DEF Slot, Bound
  <2>3. TypeOK'
    BY <1>1, <1>2, <2>1, <2>2 DEF TypeOK, reading
  <2>4. Slice(t)'
    BY <1>1, <2>1 DEF Slice, Carrying
  <2>5. \A s \in Unprocessed : s \notin processed' /\ (Owns(t, s) \/ IsGiven(t, s)) => Owns(t, s)' \/ IsGiven(t, s)'
    <3>1. \A s \in Slot : s \in Nat
      BY Slots
    <3> QED BY <1>1, <2>1, <3>1 DEF Owns, IsGiven, Working, Carrying, Unprocessed
  <2> QED BY <1>3, <2>1, <2>3, <2>4, <2>5, OneThread
<1>5. CASE Publish(t)
  <2>1. /\ pc[t] = "counted" /\ ledger' = [ledger EXCEPT ![t].next = position[t]] /\ pc' = [pc EXCEPT ![t] = "between"]
        /\ pc'[t] = "between" /\ ledger'[t].next = position[t] /\ ledger'[t].end = ledger[t].end
        /\ UNCHANGED <<position, end, grant, steals, processed>>
    BY <1>1, <1>5 DEF Publish, Published, Become, TypeOK
  <2>2. TypeOK'
    BY <1>1, <1>2, <2>1 DEF TypeOK, reading
  <2>3. Slice(t)'
    BY <1>1, <2>1 DEF Slice, Carrying
  <2>4. \A s \in Unprocessed : Owns(t, s) \/ IsGiven(t, s) => Owns(t, s)' \/ IsGiven(t, s)'
    BY <2>1 DEF Owns, IsGiven, Working, Carrying
  <2> QED BY <1>3, <2>1, <2>2, <2>3, <2>4, OneThread
<1>6. CASE Shrink(t)
  <2>1. /\ pc[t] = "handing" /\ ledger' = [ledger EXCEPT ![t].end = end[t]] /\ pc' = [pc EXCEPT ![t] = "between"]
        /\ pc'[t] = "between" /\ ledger'[t].next = ledger[t].next /\ ledger'[t].end = end[t]
        /\ UNCHANGED <<position, end, grant, steals, processed>>
    BY <1>1, <1>6 DEF Shrink, Become, TypeOK
  <2>2. TypeOK'
    BY <1>1, <1>2, <2>1 DEF TypeOK, reading
  <2>3. Slice(t)'
    BY <1>1, <2>1 DEF Slice, Carrying
  <2>4. \A s \in Unprocessed : Owns(t, s) \/ IsGiven(t, s) => Owns(t, s)' \/ IsGiven(t, s)'
    BY <2>1 DEF Owns, IsGiven, Working, Carrying
  <2> QED BY <1>3, <2>1, <2>2, <2>3, <2>4, OneThread
<1>7. CASE Finish(t)
  <2>1. /\ pc[t] = "between" /\ position[t] = end[t] /\ ledger' = [ledger EXCEPT ![t].next = end[t]]
        /\ pc' = [pc EXCEPT ![t] = "idle"]
        /\ pc'[t] = "idle" /\ ledger'[t].next = end[t] /\ ledger'[t].end = ledger[t].end
        /\ UNCHANGED <<position, end, grant, steals, processed>>
    BY <1>1, <1>7 DEF Finish, Become, TypeOK
  <2>2. TypeOK'
    BY <1>1, <1>2, <2>1 DEF TypeOK, reading
  <2>3. Slice(t)'
    BY <1>1, <2>1 DEF Slice, Carrying
  <2>4. \A s \in Unprocessed : ~Owns(t, s) /\ ~IsGiven(t, s)
    BY <1>1, <2>1, Slots DEF Owns, IsGiven, Carrying, Unprocessed
  <2> QED BY <1>3, <2>1, <2>2, <2>3, <2>4, OneThread
<1>8. CASE AdoptNext(t)
  <2>1. /\ pc[t] = "granted" /\ ledger' = [ledger EXCEPT ![t].next = grant[t][1]] /\ pc' = [pc EXCEPT ![t] = "midway"]
        /\ pc'[t] = "midway" /\ ledger'[t].next = grant[t][1] /\ ledger'[t].end = ledger[t].end
        /\ UNCHANGED <<position, end, grant, steals, processed>>
    BY <1>1, <1>8 DEF AdoptNext, Become, TypeOK
  <2>2. TypeOK'
    BY <1>1, <1>2, <2>1 DEF TypeOK, reading
  <2>3. Slice(t)'
    BY <1>1, <2>1 DEF Slice, Carrying
  <2>4. \A s \in Unprocessed : Owns(t, s) \/ IsGiven(t, s) => Owns(t, s)' \/ IsGiven(t, s)'
    BY <2>1 DEF Owns, IsGiven, Working, Carrying
  <2> QED BY <1>3, <2>1, <2>2, <2>3, <2>4, OneThread
<1>9. CASE AdoptEnd(t)
  <2>1. /\ pc[t] = "midway" /\ ledger' = [ledger EXCEPT ![t].end = grant[t][2]] /\ pc' = [pc EXCEPT ![t] = "between"]
        /\ position' = [position EXCEPT ![t] = grant[t][1]] /\ end' = [end EXCEPT ![t] = grant[t][2]]
        /\ grant' = [grant EXCEPT ![t] = NoRange]
        /\ pc'[t] = "between" /\ ledger'[t].next = ledger[t].next /\ ledger'[t].end = grant[t][2]
        /\ position'[t] = grant[t][1] /\ end'[t] = grant[t][2] /\ grant'[t] = NoRange
        /\ UNCHANGED <<steals, processed>>
    BY <1>1, <1>9 DEF AdoptEnd, Become, TypeOK
  <2>2. 0 \in Bound
    BY <1>1 DEF Bound
  <2>3. TypeOK'
    BY <1>1, <1>2, <2>1, <2>2 DEF TypeOK, reading, NoRange
  <2>4. Slice(t)'
    BY <1>1, <2>1 DEF Slice, Carrying
  <2>5. \A s \in Unprocessed : Owns(t, s) \/ IsGiven(t, s) => Owns(t, s)' \/ IsGiven(t, s)'
    BY <2>1 DEF Owns, IsGiven, Working, Carrying
  <2> QED BY <1>3, <2>1, <2>3, <2>4, <2>5, OneThread
<1> QED BY <1>4, <1>5, <1>6, <1>7, <1>8, <1>9 DEF Run

\* A handover splits the range of the victim in two.
LEMMA HandKeeps ==
  ASSUME ThreadsAssumption, StealAssumption, LedgerInv, NEW v \in Thread, NEW t \in Thread, Hand(v, t),
         UNCHANGED reading, Watch
  PROVE  LedgerInv'
<1> USE DEF LedgerInv
<1> DEFINE m == position[v] + (end[v] - position[v]) \div 2
<1>1. /\ pc[v] = "between" /\ pc[t] = "idle" /\ v # t
      /\ grant' = [grant EXCEPT ![t] = <<m, end[v]>>]
      /\ end' = [end EXCEPT ![v] = m]
      /\ pc' = [pc EXCEPT ![v] = "handing", ![t] = "granted"]
      /\ steals' = steals + 1 /\ steals < MaxSteals
      /\ UNCHANGED <<position, ledger, processed>>
  BY DEF Hand, Half
<1>2. /\ position[v] \in Nat /\ end[v] \in Nat /\ end[v] \in Bound /\ Slice(v) /\ Slice(t)
      /\ \A n \in Nat : n <= end[v] => n \in Bound
  BY Places DEF TypeOK
<1>3. m \in Nat /\ m \in Bound /\ position[v] <= m /\ m <= end[v]
  <2>1. m \in Nat /\ position[v] <= m /\ m <= end[v]
    BY <1>2, Middle DEF Slice
  <2> HIDE DEF m
  <2> QED BY <1>2, <2>1
<1> HIDE DEF m
<1>4. quiet' \in {"always", "loads", "no"} /\ steals' \in 0 .. MaxSteals
  BY <1>1 DEF Watch, TypeOK, StealAssumption
<1>5. TypeOK'
  BY <1>1, <1>2, <1>3, <1>4 DEF TypeOK, reading
<1>6. /\ pc'[v] = "handing" /\ end'[v] = m /\ grant'[v] = grant[v]
      /\ pc'[t] = "granted" /\ end'[t] = end[t] /\ grant'[t] = <<m, end[v]>>
      /\ \A u \in Thread : u # v /\ u # t => pc'[u] = pc[u] /\ end'[u] = end[u] /\ grant'[u] = grant[u]
  BY <1>1 DEF TypeOK
<1>7. Slice(v)'
  BY <1>1, <1>2, <1>3, <1>6 DEF Slice, Carrying
<1>8. Slice(t)'
  BY <1>1, <1>2, <1>3, <1>6 DEF Slice, Carrying
<1>9. ASSUME NEW u \in Thread, u # v, u # t
      PROVE  Slice(u)' /\ \A s : (Owns(u, s) => Owns(u, s)') /\ (IsGiven(u, s) => IsGiven(u, s)')
  <2>1. /\ pc'[u] = pc[u] /\ end'[u] = end[u] /\ grant'[u] = grant[u]
        /\ position'[u] = position[u] /\ ledger'[u] = ledger[u] /\ Slice(u)
    BY <1>1, <1>6, <1>9
  <2> QED BY <2>1 DEF Slice, Owns, IsGiven
<1>10. ASSUME NEW s \in Unprocessed PROVE \E u \in Thread : Owns(u, s)' \/ IsGiven(u, s)'
  <2>1. PICK u \in Thread : Owns(u, s) \/ IsGiven(u, s)
    BY DEF Covered
  <2>2. s \in Nat
    BY Slots DEF Unprocessed
  <2>3. u # t
    BY <1>1, <2>1 DEF Owns, IsGiven, Working, Carrying
  <2>4. CASE u = v
    <3>1. position[v] <= s /\ s < end[v]
      BY <1>1, <2>1, <2>4 DEF Owns, IsGiven, Carrying
    <3>2. CASE s < m
      BY <1>1, <1>6, <3>1, <3>2 DEF Owns, Working
    <3>3. CASE ~(s < m)
      <4>1. m <= s
        BY <1>3, <2>2, <3>3
      <4>2. IsGiven(t, s)'
        BY <1>6, <3>1, <4>1 DEF IsGiven, Carrying
      <4> QED BY <4>2
    <3> QED BY <3>2, <3>3
  <2> QED BY <1>9, <2>1, <2>3, <2>4
<1>11. Covered'
  BY <1>1, <1>10 DEF Covered, Unprocessed
<1> QED BY <1>5, <1>7, <1>8, <1>9, <1>11

LEMMA ReaderKeeps ==
  ASSUME ThreadsAssumption, LedgerInv, LoadNext \/ LoadEnd, UNCHANGED threads, Watch
  PROVE  LedgerInv'
<1> USE DEF LedgerInv
<1>1. quiet' \in {"always", "loads", "no"}
  BY DEF Watch, TypeOK
<1>2. FloorOf(ledger) \in Bound
  <2> DEFINE open == {ledger[t].next : t \in {u \in Thread : ledger[u].next < ledger[u].end}}
  <2>1. open \in SUBSET Nat /\ open \subseteq Bound
    BY Slots DEF TypeOK
  <2>2. Nothing \in Bound
    BY Products DEF Nothing, Bound, ThreadsAssumption
  <2> HIDE DEF open
  <2> QED BY <2>1, <2>2, LeastIs DEF FloorOf, open
<1>3. CASE LoadNext
  <2>1. reader + 1 \in Thread /\ reader' = reader + 1 /\ loaded' = "next" /\ next' = ledger[reader + 1].next
    BY <1>3 DEF LoadNext, TypeOK, Thread, ThreadsAssumption
  <2>2. reader' \in 0 .. Threads + 1 /\ next' \in Bound
    BY <2>1 DEF TypeOK, Thread, ThreadsAssumption
  <2> QED BY <1>1, <1>2, <1>3, <2>1, <2>2 DEF LoadNext, TypeOK, threads, Slice, Covered, Owns, IsGiven, Unprocessed
<1>4. CASE LoadEnd
  <2>1. reader' \in 0 .. Threads + 1 /\ found' \subseteq Bound
    BY <1>4 DEF LoadEnd, TypeOK, ThreadsAssumption
  <2> QED BY <1>1, <1>4, <2>1 DEF LoadEnd, TypeOK, threads, Slice, Covered, Owns, IsGiven, Unprocessed
<1> QED BY <1>3, <1>4

-----------------------------------------------------------------------------
(* The read.                                                               *)

\* A run's step that is remembered as quiet hands nothing over.
LEMMA QuietStep ==
  ASSUME UNCHANGED reading, Watch, Reading, ~Answered, quiet' = "always"
  PROVE  Undisturbed /\ ~InFlight'
<1>1. UNCHANGED reading /\ ~Answered /\ Reading
  OBVIOUS
<1>2. quiet' = IF InFlight' /\ quiet = "always" /\ Reading THEN "loads" ELSE quiet
  BY <1>1 DEF Watch
<1> QED BY <1>1, <1>2 DEF Undisturbed

\* Then no range grows and no slot changes hands.
LEMMA QuietRun ==
  ASSUME ThreadsAssumption, LedgerInv, NEW t \in Thread, Run(t), ~InFlight
  PROVE  /\ processed \subseteq processed'
         /\ \A u \in Thread : position[u] <= position'[u]
         /\ \A u \in Thread, s \in Unprocessed : Owns(u, s)' => Owns(u, s)
         /\ \A u \in Thread : ledger'[u].next < ledger'[u].end =>
              ledger[u].next < ledger[u].end /\ ledger[u].next <= ledger'[u].next
         /\ \A u \in Thread : ledger'[u].end <= ledger[u].end
<1> USE DEF LedgerInv
<1>1. /\ position[t] \in Nat /\ end[t] \in Nat /\ ledger[t].next \in Nat /\ ledger[t].end \in Nat /\ Slice(t)
      /\ TypeOK
  BY Places
<1>2. /\ processed \subseteq processed'
      /\ \A u \in Thread : u # t =>
           /\ pc'[u] = pc[u] /\ position'[u] = position[u] /\ end'[u] = end[u] /\ ledger'[u] = ledger[u]
  BY DEF Run, Process, Publish, Shrink, Finish, AdoptNext, AdoptEnd, Become, TypeOK
<1>3. \A u \in Thread : position[u] \in Nat /\ ledger[u].next \in Nat /\ ledger[u].end \in Nat
  BY Places
<1>4. \A s \in Unprocessed : s \in Nat
  BY Slots DEF Unprocessed
<1>5. /\ position[t] <= position'[t]
      /\ \A s \in Unprocessed : Owns(t, s)' => Owns(t, s)
      /\ ledger'[t].next < ledger'[t].end => ledger[t].next < ledger[t].end /\ ledger[t].next <= ledger'[t].next
      /\ ledger'[t].end <= ledger[t].end
  <2>1. CASE Process(t)
    <3>1. /\ pc[t] = "between" /\ pc'[t] = "counted" /\ position'[t] = position[t] + 1 /\ UNCHANGED <<end, ledger>>
      BY <2>1 DEF Process, Become, TypeOK
    <3> QED BY <1>1, <1>4, <3>1 DEF Owns, Working
  <2>2. CASE Publish(t)
    <3>1. /\ pc[t] = "counted" /\ pc'[t] = "between" /\ ledger'[t].next = position[t] /\ ledger'[t].end = ledger[t].end
          /\ UNCHANGED <<position, end>>
      BY <1>1, <2>2 DEF Publish, Published, Become, TypeOK
    <3> QED BY <1>1, <3>1 DEF Owns, Working, Slice
  <2>3. CASE Shrink(t)
    <3>1. /\ pc[t] = "handing" /\ pc'[t] = "between" /\ ledger'[t].next = ledger[t].next /\ ledger'[t].end = end[t]
          /\ UNCHANGED <<position, end>>
      BY <1>1, <2>3 DEF Shrink, Become, TypeOK
    <3> QED BY <1>1, <3>1 DEF Owns, Working, Slice
  <2>4. CASE Finish(t)
    <3>1. /\ pc[t] = "between" /\ pc'[t] = "idle" /\ ledger'[t].next = end[t] /\ ledger'[t].end = ledger[t].end
          /\ UNCHANGED <<position, end>>
      BY <1>1, <2>4 DEF Finish, Become, TypeOK
    <3> QED BY <1>1, <3>1 DEF Owns, Working, Slice
  <2>5. CASE AdoptNext(t) \/ AdoptEnd(t)
    BY <2>5 DEF AdoptNext, AdoptEnd, InFlight
  <2> QED BY <2>1, <2>2, <2>3, <2>4, <2>5 DEF Run
<1>6. ASSUME NEW u \in Thread, u # t
      PROVE  /\ position[u] <= position'[u] /\ (\A s \in Unprocessed : Owns(u, s)' => Owns(u, s))
             /\ ledger'[u].next < ledger'[u].end => ledger[u].next < ledger[u].end /\ ledger[u].next <= ledger'[u].next
             /\ ledger'[u].end <= ledger[u].end
  BY <1>2, <1>3, <1>6 DEF Owns
<1> QED BY <1>2, <1>5, <1>6

\* What the threads do during a quiet read takes nothing from what the reader knows.
LEMMA ThreadsRead ==
  ASSUME ThreadsAssumption, LedgerInv, ReadInv, UNCHANGED reading, Watch, processed \subseteq processed',
         ~InFlight /\ ~InFlight' =>
           /\ \A u \in Thread : position[u] <= position'[u]
           /\ \A u \in Thread, s \in Unprocessed : Owns(u, s)' => Owns(u, s)
           /\ \A u \in Thread : ledger'[u].next < ledger'[u].end =>
                ledger[u].next < ledger[u].end /\ ledger[u].next <= ledger'[u].next
           /\ \A u \in Thread : ledger'[u].end <= ledger[u].end,
         TypeOK'
  PROVE  ReadInv'
<1>1. /\ UNCHANGED <<reader, loaded, next, found, before>> /\ Unprocessed' \subseteq Unprocessed
      /\ next \in Nat /\ before \in Nat /\ found \subseteq Nat /\ Threads \in Nat
  BY Slots DEF reading, Unprocessed, LedgerInv, TypeOK, ThreadsAssumption
<1>2. \A s : Below(s)' = Below(s)
  BY <1>1 DEF Below
<1>3. Reading' = Reading /\ Answered' = Answered /\ \A t : IsRead(t)' = IsRead(t)
  BY <1>1 DEF Reading, Answered, IsRead
<1>4. CASE reader = 0
  <2>1. ~Reading /\ ~Answered
    BY <1>1, <1>4 DEF Reading, Answered
  <2>2. quiet' = quiet
    BY <2>1 DEF Watch
  <2> QED BY <1>1, <1>3, <1>4, <2>1, <2>2 DEF ReadInv, Undisturbed
<1>5. CASE Answered
  <2>1. quiet' = quiet
    BY <1>5 DEF Watch
  <2> QED BY <1>1, <1>2, <1>3, <1>5, <2>1 DEF ReadInv, Undisturbed
<1>6. CASE reader # 0 /\ ~Answered /\ quiet' # "always"
  BY <1>1, <1>3, <1>6 DEF ReadInv, Undisturbed
<1>7. CASE reader # 0 /\ ~Answered /\ quiet' = "always"
  <2>1. Undisturbed /\ ~InFlight'
    <3>1. Reading
      BY <1>7 DEF Reading, LedgerInv, TypeOK
    <3> QED BY <1>7, <3>1, QuietStep
  <2>2. ~InFlight
    BY <2>1 DEF ReadInv
  <2>3. ASSUME NEW u \in Thread, ledger'[u].next < ledger'[u].end
        PROVE  before <= ledger'[u].next
    <3>1. before <= ledger[u].next /\ ledger[u].next <= ledger'[u].next
      BY <2>1, <2>2, <2>3 DEF ReadInv
    <3>2. ledger[u].next \in Nat /\ ledger'[u].next \in Nat
      BY Slots DEF LedgerInv, TypeOK
    <3> QED BY <1>1, <3>1, <3>2
  <2>4. ASSUME NEW u \in Thread, IsRead(u), NEW s \in Unprocessed', Owns(u, s)' PROVE Below(s)
    BY <1>1, <2>1, <2>2, <2>4 DEF ReadInv
  <2>5. ASSUME loaded = "next"
        PROVE  next <= position'[reader] /\ (next < ledger'[reader].end => before <= next)
    <3>1. reader \in Thread /\ next <= position[reader] /\ (next < ledger[reader].end => before <= next)
      BY <2>1, <2>5 DEF ReadInv
    <3>2. position[reader] <= position'[reader] /\ ledger'[reader].end <= ledger[reader].end
      BY <2>1, <2>2, <3>1
    <3>3. position[reader] \in Nat /\ position'[reader] \in Nat /\ ledger'[reader].end \in Nat /\ ledger[reader].end \in Nat
      BY <3>1, Slots DEF LedgerInv, TypeOK
    <3> QED BY <1>1, <3>1, <3>2, <3>3
  <2> QED BY <1>1, <1>2, <1>3, <1>7, <2>1, <2>3, <2>4, <2>5 DEF ReadInv, Undisturbed
<1> QED BY <1>4, <1>5, <1>6, <1>7

\* A thread's store is not ahead of it, and its end not before it, unless it adopts.
LEMMA Behind ==
  ASSUME ThreadsAssumption, LedgerInv, NEW t \in Thread, ~InFlight
  PROVE  /\ ledger[t].next <= position[t]
         /\ \A s \in Unprocessed : Owns(t, s) => s < ledger[t].end
<1>1. /\ position[t] \in Nat /\ end[t] \in Nat /\ ledger[t].next \in Nat /\ ledger[t].end \in Nat /\ Slice(t)
      /\ pc[t] \in {"between", "counted", "handing", "idle"}
      /\ \A s \in Unprocessed : s \in Nat
  BY Places, Slots DEF LedgerInv, TypeOK, InFlight, Unprocessed
<1>2. ledger[t].next <= position[t]
  <2>1. CASE pc[t] = "idle"
    <3>1. position[t] = end[t] /\ ledger[t].next = end[t]
      BY <1>1, <2>1 DEF Slice
    <3> QED BY <1>1, <3>1
  <2>2. CASE pc[t] # "idle"
    BY <1>1, <2>2 DEF Slice
  <2> QED BY <2>1, <2>2
<1>3. ASSUME NEW s \in Unprocessed, Owns(t, s) PROVE s < ledger[t].end
  <2>1. end[t] <= ledger[t].end /\ s < end[t]
    BY <1>1, <1>3 DEF Slice, Owns, Working
  <2> QED BY <1>1, <2>1
<1> QED BY <1>2, <1>3

\* The first load finds the floor of the ledger below every open slice.
LEMMA FloorBelow ==
  ASSUME ThreadsAssumption, TypeOK, NEW t \in Thread, ledger[t].next < ledger[t].end
  PROVE  FloorOf(ledger) <= ledger[t].next
<1> DEFINE open == {ledger[u].next : u \in {v \in Thread : ledger[v].next < ledger[v].end}}
<1>1. open \in SUBSET Nat /\ ledger[t].next \in open
  BY Slots DEF TypeOK
<1>2. FloorOf(ledger) = IF open = {} THEN Nothing ELSE Least(open)
  BY DEF FloorOf
<1> HIDE DEF open
<1>3. \A n \in open : Least(open) <= n
  BY <1>1, LeastIs
<1>4. open # {}
  BY <1>1
<1> QED BY <1>1, <1>2, <1>3, <1>4

LEMMA LoadNextReads ==
  ASSUME ThreadsAssumption, LedgerInv, ReadInv, LoadNext, UNCHANGED threads, Watch
  PROVE  ReadInv'
<1> USE DEF LedgerInv
<1>1. /\ loaded = "end" /\ reader < Threads /\ reader' = reader + 1 /\ loaded' = "next"
      /\ next' = ledger[reader + 1].next /\ found' = found
      /\ before' = IF reader = 0 THEN FloorOf(ledger) ELSE before
      /\ UNCHANGED <<pc, position, end, grant, ledger, steals, processed>>
  BY DEF LoadNext, threads
<1>2. /\ reader \in Nat /\ Threads \in Nat /\ reader' \in Thread /\ reader' # 0 /\ ~Answered /\ ~Answered'
      /\ ~UNCHANGED reading
  BY <1>1 DEF TypeOK, Thread, ThreadsAssumption, Answered, reading
<1>3. quiet' = IF InFlight THEN "no" ELSE quiet
  BY <1>2 DEF Watch
<1>4. CASE quiet' # "always"
  BY <1>1, <1>2, <1>4 DEF ReadInv, Undisturbed
<1>5. CASE quiet' = "always"
  <2>1. ~InFlight /\ ~InFlight' /\ quiet = "always"
    BY <1>1, <1>3, <1>5 DEF InFlight
  <2>2. \A t \in Thread : ledger[t].next < ledger[t].end => before' <= ledger[t].next
    <3>1. CASE reader = 0
      BY <1>1, <3>1, FloorBelow
    <3>2. CASE reader # 0
      BY <1>1, <1>2, <2>1, <3>2 DEF ReadInv, Undisturbed, Reading
    <3> QED BY <3>1, <3>2
  <2>3. ASSUME NEW t \in Thread, IsRead(t)', NEW s \in Unprocessed', Owns(t, s)'
        PROVE  Below(s)'
    <3>1. t \in Nat /\ t <= reader /\ reader # 0
      BY <1>1, <1>2, <2>3 DEF IsRead, Thread
    <3>2. IsRead(t) /\ Owns(t, s) /\ s \in Unprocessed
      BY <1>1, <1>2, <2>3, <3>1 DEF IsRead, Owns, Unprocessed
    <3>3. Below(s)
      BY <1>2, <2>1, <3>1, <3>2 DEF ReadInv, Undisturbed, Reading
    <3> QED BY <1>1, <3>3 DEF Below
  <2>4. next' <= position[reader'] /\ (next' < ledger[reader'].end => before' <= next')
    BY <1>1, <1>2, <2>1, <2>2, Behind
  <2>5. \A f \in found' : before' <= f
    BY <1>1, <1>2, <2>1 DEF ReadInv, Reading
  <2> QED BY <1>1, <1>2, <2>1, <2>2, <2>3, <2>4, <2>5 DEF ReadInv, Undisturbed
<1> QED BY <1>4, <1>5

LEMMA LoadEndReads ==
  ASSUME ThreadsAssumption, LedgerInv, ReadInv, LoadEnd, UNCHANGED threads, Watch
  PROVE  ReadInv'
<1> USE DEF LedgerInv
<1>1. /\ loaded = "next" /\ loaded' = "end" /\ next' = next /\ before' = before
      /\ found' = IF next < ledger[reader].end THEN found \cup {next} ELSE found
      /\ reader' = IF reader = Threads THEN Threads + 1 ELSE reader
      /\ UNCHANGED <<pc, position, end, grant, ledger, steals, processed>>
  BY DEF LoadEnd, threads
<1>2. /\ reader \in Thread /\ reader \in Nat /\ Threads \in Nat /\ reader' # 0 /\ ~Answered /\ Reading /\ Reading'
      /\ ~UNCHANGED reading
  BY <1>1 DEF ReadInv, TypeOK, Thread, ThreadsAssumption, Answered, Reading, reading
<1>3. quiet' = IF InFlight THEN "no" ELSE quiet
  BY <1>2 DEF Watch
<1>4. CASE quiet' # "always"
  BY <1>1, <1>2, <1>4 DEF ReadInv, Undisturbed
<1>5. CASE quiet' = "always"
  <2>1. ~InFlight /\ ~InFlight' /\ quiet = "always" /\ Undisturbed
    BY <1>1, <1>2, <1>3, <1>5 DEF InFlight, Undisturbed
  <2>2. /\ next <= position[reader] /\ (next < ledger[reader].end => before <= next)
        /\ \A t \in Thread : ledger[t].next < ledger[t].end => before <= ledger[t].next
        /\ \A f \in found : before <= f
    BY <1>1, <1>2, <2>1 DEF ReadInv
  <2>3. \A f \in found' : before' <= f
    BY <1>1, <2>2
  <2>4. ASSUME NEW t \in Thread, t <= reader, NEW s \in Unprocessed, Owns(t, s)
        PROVE  Below(s)'
    <3>1. CASE t = reader
      <4>1. position[t] <= s /\ s < ledger[t].end
        BY <2>1, <2>4, Behind DEF Owns
      <4>2. next \in Nat /\ position[t] \in Nat /\ s \in Nat /\ ledger[t].end \in Nat
        BY Slots DEF TypeOK, Unprocessed
      <4>3. next < ledger[t].end /\ next <= s
        BY <2>2, <3>1, <4>1, <4>2
      <4> QED BY <1>1, <3>1, <4>3 DEF Below
    <3>2. CASE t # reader
      <4>1. IsRead(t)
        BY <1>2, <2>4, <3>2 DEF IsRead, Thread
      <4>2. Below(s)
        BY <2>1, <2>4, <4>1 DEF ReadInv
      <4> QED BY <1>1, <4>2 DEF Below
    <3> QED BY <3>1, <3>2
  <2>5. ASSUME NEW t \in Thread, IsRead(t)', Undisturbed', NEW s \in Unprocessed', Owns(t, s)'
        PROVE  Below(s)'
    <3>1. t <= reader
      BY <1>1, <1>2, <2>5 DEF IsRead, Undisturbed, Answered, Thread
    <3>2. s \in Unprocessed /\ Owns(t, s)
      BY <1>1, <2>5 DEF Owns, Unprocessed
    <3> QED BY <2>4, <3>1, <3>2
  <2>6. ASSUME Answered', NEW s \in Unprocessed'
        PROVE  Below(s)'
    <3>1. reader = Threads /\ s \in Unprocessed
      BY <1>1, <1>2, <2>6 DEF Answered, Unprocessed, Thread
    <3>2. PICK t \in Thread : Owns(t, s) \/ IsGiven(t, s)
      BY <3>1 DEF Covered
    <3>3. Owns(t, s) /\ t <= reader
      BY <2>1, <3>1, <3>2 DEF IsGiven, Carrying, InFlight, Thread
    <3> QED BY <2>4, <3>1, <3>3
  <2> QED BY <1>1, <1>2, <2>1, <2>2, <2>3, <2>5, <2>6 DEF ReadInv, Undisturbed
<1> QED BY <1>4, <1>5

-----------------------------------------------------------------------------
LEMMA FloorInit == ThreadsAssumption /\ StealAssumption /\ Init => FloorInv
<1> SUFFICES ASSUME ThreadsAssumption, StealAssumption, Init PROVE FloorInv
  OBVIOUS
<1>1. 0 \in Bound /\ 0 \in 0 .. MaxSteals /\ 0 \in 0 .. Threads + 1
  BY Products DEF ThreadsAssumption, StealAssumption, Bound
<1>2. TypeOK
  BY <1>1, Corners DEF Init, TypeOK, NoRange
<1>3. ASSUME NEW t \in Thread PROVE Slice(t)
  BY Corners DEF Init, Slice, Carrying
<1>4. Covered
  BY FirstSlices DEF Init, Covered, Unprocessed, Owns, Working
<1>5. ReadInv
  BY DEF Init, ReadInv, Undisturbed, Reading, Answered, ThreadsAssumption
<1> QED BY <1>2, <1>3, <1>4, <1>5 DEF FloorInv, LedgerInv

LEMMA FloorStep == FloorInv /\ [Next]_vars => FloorInv'
<1> SUFFICES ASSUME FloorInv, [Next]_vars PROVE FloorInv'
  OBVIOUS
<1> USE DEF FloorInv
<1>1. ASSUME NEW t \in Thread, Run(t), UNCHANGED reading, Watch PROVE LedgerInv' /\ ReadInv'
  <2>1. LedgerInv'
    BY <1>1, RunKeeps
  <2>2. processed \subseteq processed'
    BY <1>1 DEF Run, Process, Publish, Shrink, Finish, AdoptNext, AdoptEnd
  <2> QED BY <1>1, <2>1, <2>2, QuietRun, ThreadsRead DEF LedgerInv
<1>2. ASSUME NEW v \in Thread, NEW t \in Thread, Hand(v, t), UNCHANGED reading, Watch PROVE LedgerInv' /\ ReadInv'
  <2>1. LedgerInv'
    BY <1>2, HandKeeps
  <2>2. pc'[t] = "granted" /\ processed' = processed
    BY <1>2 DEF Hand, LedgerInv, TypeOK
  <2>3. InFlight'
    BY <2>2 DEF InFlight
  <2> QED BY <1>2, <2>1, <2>2, <2>3, ThreadsRead DEF LedgerInv
<1>3. ASSUME LoadNext \/ LoadEnd, UNCHANGED threads, Watch PROVE LedgerInv' /\ ReadInv'
  BY <1>3, ReaderKeeps, LoadNextReads, LoadEndReads
<1>4. CASE UNCHANGED vars
  BY <1>4 DEF vars, threads, reading, LedgerInv, TypeOK, Slice, Covered, Owns, IsGiven, Unprocessed,
     ReadInv, Undisturbed, Reading, Answered, InFlight, IsRead, Below
<1> QED BY <1>1, <1>2, <1>3, <1>4 DEF Next, Step, Over

LEMMA FloorAlways == ThreadsAssumption /\ StealAssumption /\ Spec => []FloorInv
<1> QED BY FloorInit, FloorStep, PTL DEF Spec

\* Type correctness of FloorReader.
THEOREM FloorTypes == ThreadsAssumption /\ StealAssumption /\ Spec => []TypeOK
<1>1. FloorInv => TypeOK
  BY DEF FloorInv, LedgerInv
<1> QED BY <1>1, FloorAlways, PTL

\* service_steal_inbox and request_steal store next and end one at a time: after each
\* of the stores every slot that is not done is in a slice of the ledger, or in a grant
\* on its way.
THEOREM HandoversLoseNothing == ThreadsAssumption /\ StealAssumption /\ Spec => []NothingLost
<1>1. ASSUME FloorInv PROVE NothingLost
  <2>1. ASSUME NEW s \in Unprocessed
        PROVE  \/ \E t \in Thread : ledger[t].next <= s /\ s < ledger[t].end
               \/ \E t \in Thread : grant[t][1] <= s /\ s < grant[t][2]
    <3>1. PICK t \in Thread : Owns(t, s) \/ IsGiven(t, s)
      BY <1>1 DEF FloorInv, LedgerInv, Covered
    <3>2. CASE Owns(t, s)
      <4>1. /\ position[t] \in Nat /\ end[t] \in Nat /\ ledger[t].next \in Nat /\ ledger[t].end \in Nat
            /\ s \in Nat /\ Slice(t)
        BY <1>1, Places, Slots DEF FloorInv, LedgerInv, Unprocessed
      <4>2. ledger[t].next <= position[t] /\ end[t] <= ledger[t].end
        BY <3>2, <4>1 DEF Slice, Owns, Working
      <4>3. ledger[t].next <= s /\ s < ledger[t].end
        BY <3>2, <4>1, <4>2 DEF Owns
      <4> QED BY <4>3
    <3> QED BY <3>1, <3>2 DEF IsGiven
  <2> QED BY <2>1 DEF NothingLost
<1> QED BY <1>1, FloorAlways, PTL

\* resume_floor, two relaxed loads for each slice while owners store and hand over: as
\* long as no grant is on its way during the read, every slot below the answer is
\* done, and the answer is not below the floor the ledger had when the read began.
THEOREM QuietReadsRight == ThreadsAssumption /\ StealAssumption /\ Spec => []QuietFloorRight
<1>1. ASSUME FloorInv, Answered, quiet = "always"
      PROVE  (\A s \in Unprocessed : s >= Floor) /\ before <= Floor
  <2> USE <1>1 DEF FloorInv
  <2>1. /\ \A f \in found : before <= f
        /\ \A s \in Unprocessed : Below(s)
        /\ found \in SUBSET Nat /\ before \in Bound /\ before \in Nat /\ Threads * PerThread \in Nat
        /\ Unprocessed \subseteq Nat
    BY Slots, Products DEF ReadInv, Answered, Reading, LedgerInv, TypeOK, ThreadsAssumption, Unprocessed
  <2>2. CASE found = {}
    <3>1. Floor = Nothing /\ Unprocessed = {}
      BY <2>1, <2>2 DEF Floor, Below
    <3>2. before <= Nothing
      BY <2>1 DEF Nothing, Bound
    <3> QED BY <3>1, <3>2
  <2>3. CASE found # {}
    <3>1. Floor \in found /\ \A f \in found : Floor <= f
      BY <2>1, <2>3, LeastIs DEF Floor
    <3>2. ASSUME NEW s \in Unprocessed PROVE s >= Floor
      <4>1. PICK f \in found : f <= s
        BY <2>1 DEF Below
      <4>2. Floor <= f /\ f \in Nat /\ Floor \in Nat /\ s \in Nat
        BY <2>1, <3>1
      <4> QED BY <4>1, <4>2
    <3> QED BY <2>1, <3>1, <3>2
  <2> QED BY <2>2, <2>3
<1>2. FloorInv => QuietFloorRight
  BY <1>1 DEF QuietFloorRight
<1> QED BY <1>2, FloorAlways, PTL

-----------------------------------------------------------------------------
(* The spawn gate.                                                         *)

LEMMA GateCounts == \A S : Gate!Cardinality(S) = Cardinality(S)
  BY DEF Gate!Cardinality, Cardinality

\* The deadline runs down while the calm lasts: what a red thread puts back, it puts back in both.
GateInv ==
  /\ Gate!TimesAssumption
  /\ launch \in [Gate!Threads -> {"unspawned", "running", "backoff", "ended"}]
  /\ calm \in 0 .. Grace /\ deadline = Grace - calm

LEMMA SpawnedFinite ==
  ASSUME Gate!TimesAssumption, NEW S, S \subseteq Gate!Threads
  PROVE  Cardinality(S) \in Nat
<1>1. Threads \in Nat /\ 0 \in Int /\ Threads - 1 \in Int
  BY DEF Gate!TimesAssumption
<1>2. IsFiniteSet(0 .. (Threads - 1))
  BY <1>1, FS_Interval
<1>. QED  BY <1>2, FS_Subset, FS_CardinalityType DEF Gate!Threads

LEMMA GateStarts == ASSUME Gate!TimesAssumption, Gate!Init PROVE GateInv
<1>1. Grace \in Nat
  BY DEF Gate!TimesAssumption
<1>2. calm = 0 /\ deadline = Grace
  BY DEF Gate!Init
<1>3. launch \in [Gate!Threads -> {"unspawned", "running", "backoff", "ended"}]
  BY DEF Gate!Init
<1>. QED  BY <1>1, <1>2, <1>3 DEF GateInv

\* The threads, and Ctrl-C, start nobody and leave the gate alone.
Elsewhere ==
  (\E t \in Gate!Threads : Gate!Note(t) \/ Gate!Fail(t) \/ Gate!End(t) \/ Gate!Resume(t)) \/ Gate!Shutdown

LEMMA ThreadsKeepGate ==
  ASSUME GateInv, Elsewhere
  PROVE  GateInv' /\ Gate!Spawned' = Gate!Spawned
<1>1. deadline' = deadline /\ calm' = calm
  BY DEF Elsewhere, Gate!Note, Gate!Fail, Gate!End, Gate!Resume, Gate!Shutdown, Gate!gate
<1>2. \/ launch' = launch
      \/ \E t \in Gate!Threads : \E to \in {"running", "backoff", "ended"} :
           launch[t] # "unspawned" /\ launch' = [launch EXCEPT ![t] = to]
  BY DEF Elsewhere, Gate!Note, Gate!Fail, Gate!End, Gate!Resume, Gate!Shutdown, Gate!health
<1>3. /\ launch' \in [Gate!Threads -> {"unspawned", "running", "backoff", "ended"}]
      /\ \A t \in Gate!Threads : launch'[t] # "unspawned" <=> launch[t] # "unspawned"
  BY <1>2 DEF GateInv
<1>. QED  BY <1>1, <1>3 DEF GateInv, Gate!TimesAssumption, Gate!Spawned

LEMMA TickKeepsGate ==
  ASSUME GateInv, Gate!Tick
  PROVE  GateInv' /\ Gate!Spawned' = Gate!Spawned
<1>1. launch' = launch /\ deadline' = (IF deadline = 0 THEN 0 ELSE deadline - 1)
      /\ calm' = IF calm + 1 < Grace THEN calm + 1 ELSE Grace
  BY DEF Gate!Tick, Gate!Min2
<1>2. Grace \in Nat /\ Grace > 0
  BY DEF GateInv, Gate!TimesAssumption
<1>3. calm' \in 0 .. Grace /\ deadline' = Grace - calm'
  BY <1>1, <1>2 DEF GateInv
<1>. QED  BY <1>1, <1>3 DEF GateInv, Gate!TimesAssumption, Gate!Spawned

\* A poll that starts a thread is forced to only when the deadline is over.
LEMMA PollKeepsGate ==
  ASSUME GateInv, Gate!Poll
  PROVE  GateInv' /\ (Gate!Spawned' = Gate!Spawned \/ shutdown \/ ~(Cardinality(Gate!NotYetGreen) >= PendingMax)
                        \/ calm = Grace)
<1>1. Grace \in Nat /\ PendingMax \in Nat
  BY DEF GateInv, Gate!TimesAssumption
<1>2. ASSUME Gate!SpawnNext PROVE GateInv'
  <2>1. /\ deadline' = Grace /\ calm' = 0
        /\ launch' \in [Gate!Threads -> {"unspawned", "running", "backoff", "ended"}]
    BY <1>2 DEF GateInv, Gate!SpawnNext
  <2>. QED  BY <1>1, <2>1 DEF GateInv, Gate!TimesAssumption
<1>3. ASSUME UNCHANGED launch, (deadline' = Grace /\ calm' = 0) \/ UNCHANGED <<deadline, calm>> PROVE GateInv'
  BY <1>1, <1>3 DEF GateInv, Gate!TimesAssumption, Gate!Spawned
<1>4. GateInv'
  BY <1>2, <1>3 DEF Gate!Poll, Gate!Held
<1>5. \/ UNCHANGED launch \/ shutdown
      \/ Cardinality(Gate!NotYetGreen) < PendingMax \/ deadline = 0
  BY GateCounts DEF Gate!Poll
<1>6. Gate!Spawned' = Gate!Spawned \/ shutdown \/ ~(Cardinality(Gate!NotYetGreen) >= PendingMax) \/ calm = Grace
  <2>1. CASE UNCHANGED launch
    BY <2>1 DEF Gate!Spawned
  <2>2. CASE Cardinality(Gate!NotYetGreen) < PendingMax
    <3>1. Gate!NotYetGreen \subseteq Gate!Threads
      BY DEF Gate!NotYetGreen, Gate!Running, Gate!Spawned
    <3>2. Cardinality(Gate!NotYetGreen) \in Nat
      BY <3>1, SpawnedFinite DEF GateInv
    <3>. QED  BY <1>1, <2>2, <3>2
  <2>3. CASE deadline = 0
    BY <1>1, <2>3 DEF GateInv
  <2>. QED  BY <1>5, <2>1, <2>2, <2>3
<1>. QED  BY <1>4, <1>6

LEMMA GateNext ==
  ASSUME GateInv, [Gate!Next]_(Gate!vars)
  PROVE  GateInv' /\ Gate!RedFreeGrace
<1>1. Gate!Spawned \subseteq Gate!Threads /\ Cardinality(Gate!Spawned) \in Nat
  <2>1. Gate!Spawned \subseteq Gate!Threads
    BY DEF Gate!Spawned
  <2>. QED  BY <2>1, SpawnedFinite DEF GateInv
<1>2. Gate!Spawned' = Gate!Spawned => ~Gate!SpawnsOne
  BY <1>1, GateCounts DEF Gate!SpawnsOne, Gate!NextThread
<1>3. ASSUME Gate!Spawned' = Gate!Spawned PROVE Gate!RedFreeGrace
  BY <1>2, <1>3 DEF Gate!RedFreeGrace
<1>4. CASE UNCHANGED Gate!vars
  <2>1. UNCHANGED <<launch, deadline, calm>>
    BY <1>4 DEF Gate!vars, Gate!health, Gate!gate
  <2>2. Gate!Spawned' = Gate!Spawned
    BY <2>1 DEF Gate!Spawned
  <2>. QED  BY <1>3, <2>1, <2>2 DEF GateInv, Gate!TimesAssumption
<1>5. CASE Elsewhere
  BY <1>3, <1>5, ThreadsKeepGate
<1>6. CASE Gate!Tick
  BY <1>3, <1>6, TickKeepsGate
<1>7. CASE Gate!Poll
  BY <1>3, <1>7, PollKeepsGate, GateCounts DEF Gate!RedFreeGrace
<1>. QED  BY <1>4, <1>5, <1>6, <1>7 DEF Gate!Next, Gate!Step, Gate!Resumes, Elsewhere

\* The gate starts a thread past PendingMax threads that are not green only after a whole grace
\* in which no poll saw a red one ("only a red-free interval of `grace` can force a spawn").
THEOREM ForcedSpawnsWait ==
  Gate!TimesAssumption /\ Gate!Spec => [][Gate!RedFreeGrace]_(Gate!vars)
<1>1. Gate!TimesAssumption /\ Gate!Init => GateInv
  BY GateStarts
<1>2. GateInv /\ [Gate!Next]_(Gate!vars) => GateInv' /\ [Gate!RedFreeGrace]_(Gate!vars)
  BY GateNext
<1>. QED  BY <1>1, <1>2, PTL DEF Gate!Spec

-----------------------------------------------------------------------------
(* The recycle monitor.                                                    *)

\* RecycleMonitor counts and picks with the operators the facts below are about.
LEMMA SameCount == \A S : Monitor!Cardinality(S) = Cardinality(S)
  BY DEF Monitor!Cardinality, Cardinality

LEMMA SameLeast == \A S : Monitor!Min(S) = Min(S)
  BY DEF Monitor!Min, Min

\* Min of a set of numbers that is not empty is its least member.
LEMMA MinIs ==
  ASSUME NEW T \in SUBSET Nat, T # {}
  PROVE  Min(T) \in T /\ \A y \in T : Min(T) <= y
  BY Smallest DEF Min

\* A set of numbers up to a bound that is not empty has a greatest member.
LEMMA GreatestIs ==
  ASSUME NEW B \in Nat, NEW T \in SUBSET (0 .. B), T # {}
  PROVE  \E m \in T : \A y \in T : y <= m
<1> DEFINE D == {B - y : y \in T}
<1>1. D \in SUBSET Nat /\ D # {}
  <2>1. \A y \in T : B - y \in Nat
    OBVIOUS
  <2>. QED  BY <2>1
<1>2. Min(D) \in D /\ \A d \in D : Min(D) <= d
  <2> HIDE DEF D
  <2>. QED  BY <1>1, MinIs
<1>3. PICK m \in T : Min(D) = B - m
  BY <1>2
<1>4. ASSUME NEW y \in T PROVE y <= m
  <2>1. Min(D) <= B - y /\ y \in 0 .. B /\ m \in 0 .. B
    BY <1>2
  <2>. QED  BY <1>3, <2>1
<1>. QED  BY <1>4

MonitorInv ==
  /\ Monitor!MonitorAssumption /\ Monitor!TypeOK
  /\ Monitor!BarIsShared

LEMMA MonitorThreads ==
  ASSUME Monitor!MonitorAssumption
  PROVE  IsFiniteSet(Monitor!Threads) /\ Cardinality(Monitor!Threads) = Threads /\ Monitor!Threads \subseteq Nat
<1>1. Threads \in Nat /\ 0 \in Int /\ Threads - 1 \in Int
  BY DEF Monitor!MonitorAssumption
<1>2. IsFiniteSet(0 .. (Threads - 1)) /\ Cardinality(0 .. (Threads - 1)) = IF 0 > Threads - 1 THEN 0 ELSE (Threads - 1) - 0 + 1
  BY <1>1, FS_Interval
<1>. QED  BY <1>1, <1>2 DEF Monitor!Threads

\* At the 90th percentile two threads are at least as fast, if two move at all.
LEMMA PercentileShared ==
  ASSUME MonitorInv, Monitor!Moving # {}
  PROVE  /\ Monitor!P90 \in 0 .. MaxRate
         /\ Cardinality(Monitor!Moving) # 1 => Cardinality({t \in Monitor!Threads : got[t] >= Monitor!P90}) > 1
<1> DEFINE Moving == Monitor!Moving
           n == Cardinality(Monitor!Moving)
           Rates == Monitor!Rates
           UpTo(r) == Monitor!UpTo(r)
           place == Monitor!Place
           H == {r \in Monitor!Rates : Cardinality(Monitor!UpTo(r)) >= Monitor!Place}
           bar == Monitor!P90
           Slow == {t \in Monitor!Moving : got[t] < Monitor!P90}
           Fast == {t \in Monitor!Threads : got[t] >= Monitor!P90}
<1>1. /\ IsFiniteSet(Monitor!Threads) /\ got \in [Monitor!Threads -> 0 .. MaxRate] /\ MaxRate \in Nat
  BY MonitorThreads DEF MonitorInv, Monitor!TypeOK, Monitor!MonitorAssumption
<1>2. Moving \subseteq Monitor!Threads /\ IsFiniteSet(Moving) /\ n \in Nat /\ n > 0
  <2>1. Moving \subseteq Monitor!Threads
    BY DEF Monitor!Moving
  <2>2. IsFiniteSet(Moving)
    BY <1>1, <2>1, FS_Subset
  <2>. QED  BY <2>1, <2>2, FS_CardinalityType, FS_EmptySet
<1>3. place \in Nat /\ place <= n /\ (n > 1 => place <= n - 1)
  BY <1>2, SameCount, Z3 DEF Monitor!Place
<1>4. Rates \in SUBSET (0 .. MaxRate) /\ Rates \in SUBSET Nat /\ Rates # {}
  <2>1. \A t \in Moving : got[t] \in 0 .. MaxRate
    BY <1>1, <1>2
  <2>. QED  BY <1>1, <2>1 DEF Monitor!Rates
<1>5. \A r : UpTo(r) \subseteq Moving /\ IsFiniteSet(UpTo(r)) /\ Cardinality(UpTo(r)) \in Nat
  <2> SUFFICES ASSUME NEW r PROVE UpTo(r) \subseteq Moving /\ IsFiniteSet(UpTo(r)) /\ Cardinality(UpTo(r)) \in Nat
    OBVIOUS
  <2>1. UpTo(r) \subseteq Moving
    BY DEF Monitor!UpTo
  <2>. QED  BY <1>2, <2>1, FS_Subset, FS_CardinalityType
<1>6. H # {}
  <2>1. PICK m \in Rates : \A y \in Rates : y <= m
    BY <1>1, <1>4, GreatestIs
  <2>2. UpTo(m) = Moving
    BY <2>1 DEF Monitor!UpTo, Monitor!Rates
  <2>. QED  BY <1>3, <2>1, <2>2
<1>7. bar \in H /\ \A y \in H : bar <= y
  <2>1. H \in SUBSET Nat /\ bar = Min(H)
    BY <1>4, SameCount, SameLeast DEF Monitor!P90
  <2> HIDE DEF H
  <2>. QED  BY <1>6, <2>1, MinIs
<1>8. bar \in 0 .. MaxRate /\ bar \in Nat
  BY <1>4, <1>7
<1> HIDE DEF n, place, bar, Moving
<1>9. ASSUME n # 1 PROVE Cardinality(Fast) > 1
  <2>1. Slow \subseteq Moving /\ IsFiniteSet(Slow) /\ Cardinality(Slow) \in Nat
    <3>1. Slow \subseteq Moving
      BY DEF Moving
    <3>. QED  BY <1>2, <3>1, FS_Subset, FS_CardinalityType
  <2>2. Cardinality(Slow) <= n - 2
    <3>1. CASE Slow = {}
      BY <1>2, <1>9, <3>1, FS_EmptySet
    <3>2. CASE Slow # {}
      <4>1. {got[t] : t \in Slow} \in SUBSET (0 .. MaxRate) /\ {got[t] : t \in Slow} # {}
        BY <1>1, <1>2, <2>1, <3>2
      <4>2. PICK m \in {got[t] : t \in Slow} : \A y \in {got[t] : t \in Slow} : y <= m
        BY <1>1, <4>1, GreatestIs
      <4>3. m \in Rates /\ m < bar /\ Slow \subseteq UpTo(m) /\ m \in Nat
        BY <1>1, <2>1, <4>1, <4>2 DEF Monitor!Rates, Monitor!UpTo, Moving, bar
      <4>4. ~(Cardinality(UpTo(m)) >= place)
        BY <1>7, <1>8, <4>3 DEF place
      <4>5. Cardinality(Slow) <= Cardinality(UpTo(m))
        BY <1>5, <4>3, FS_Subset
      <4>. QED  BY <1>2, <1>3, <1>5, <1>9, <2>1, <4>4, <4>5
    <3>. QED  BY <3>1, <3>2
  <2>3. /\ IsFiniteSet(Moving \ Slow) /\ Cardinality(Moving \ Slow) = n - Cardinality(Slow)
    <3>1. Moving \cap Slow = Slow
      BY <2>1
    <3>. QED  BY <1>2, <2>1, <3>1, FS_Difference DEF n, Moving
  <2>4. Moving \ Slow \subseteq Fast /\ IsFiniteSet(Fast)
    <3>1. Moving \ Slow \subseteq Fast
      BY <1>1, <1>2, <1>8 DEF Moving, bar
    <3>2. Fast \subseteq Monitor!Threads
      OBVIOUS
    <3>. QED  BY <1>1, <3>1, <3>2, FS_Subset
  <2>5. Cardinality(Moving \ Slow) <= Cardinality(Fast) /\ Cardinality(Fast) \in Nat
    BY <2>4, FS_Subset, FS_CardinalityType
  <2>. QED  BY <1>2, <2>1, <2>2, <2>3, <2>5
<1>. QED  BY <1>8, <1>9 DEF n, bar

LEMMA MonitorBounds ==
  ASSUME MonitorInv
  PROVE  /\ Threads \in Nat /\ Threads > 1 /\ SweepTicks \in Nat /\ SweepTicks > 0 /\ MinAge \in Nat /\ MaxRate \in Nat
         /\ Monitor!TypeOK /\ Monitor!BarIsShared
  BY DEF MonitorInv, Monitor!MonitorAssumption

LEMMA MonitorStarts == ASSUME Monitor!MonitorAssumption, Monitor!Init PROVE MonitorInv
<1>1. /\ Threads \in Nat /\ Threads > 1 /\ SweepTicks \in Nat /\ MinAge \in Nat /\ MaxRate \in Nat
  BY DEF Monitor!MonitorAssumption
<1>2. Monitor!NoAge \in Monitor!NoAge .. MinAge /\ SweepTicks \in Monitor!Returned .. SweepTicks
  BY <1>1 DEF Monitor!NoAge, Monitor!Returned
<1>3. Monitor!TypeOK
  <2>1. 0 \in 0 .. MaxRate /\ Threads \in 0 .. Threads
    BY <1>1
  <2>2. /\ streams = [t \in Monitor!Threads |-> "away"] /\ age = [t \in Monitor!Threads |-> Monitor!NoAge]
        /\ got = [t \in Monitor!Threads |-> 0] /\ flags = {} /\ sweepClock = SweepTicks /\ primed = FALSE
        /\ reference = 0 /\ shutdown = FALSE /\ rivals = Threads /\ alone = FALSE
    BY DEF Monitor!Init
  <2>3. /\ streams \in [Monitor!Threads -> {"away", "streaming", "finished", "stopped"}]
        /\ age \in [Monitor!Threads -> Monitor!NoAge .. MinAge] /\ got \in [Monitor!Threads -> 0 .. MaxRate]
    BY <1>2, <2>1, <2>2
  <2>. QED  BY <1>2, <2>1, <2>2, <2>3 DEF Monitor!TypeOK
<1>4. Monitor!BarIsShared
  BY DEF Monitor!Init, Monitor!BarIsShared
<1>. QED  BY <1>3, <1>4 DEF MonitorInv

\* The bar moves in sweeps only.
LEMMA BarStands ==
  ASSUME MonitorInv, Monitor!TypeOK', UNCHANGED <<reference, rivals, alone>>
  PROVE  MonitorInv'
<1>1. Monitor!BarIsShared'
  BY DEF MonitorInv, Monitor!BarIsShared
<1>. QED  BY <1>1 DEF MonitorInv, Monitor!MonitorAssumption

LEMMA ThreadKeepsMonitor ==
  ASSUME MonitorInv, NEW t \in Monitor!Threads, Monitor!Thread(t)
  PROVE  MonitorInv'
<1>1. UNCHANGED <<sweepClock, primed, reference, shutdown, rivals, alone>>
  BY DEF Monitor!Thread, Monitor!Open, Monitor!Process, Monitor!Leave, Monitor!Finish, Monitor!Recycle,
         Monitor!Stop, Monitor!monitor
<1>2. \E phase \in {"away", "streaming", "finished", "stopped"} :
        streams' = [streams EXCEPT ![t] = phase] \/ streams' = streams
  BY DEF Monitor!Thread, Monitor!Open, Monitor!Process, Monitor!Leave, Monitor!Finish, Monitor!Recycle, Monitor!Stop
<1>3. age' = age \/ age' = [age EXCEPT ![t] = 0]
  BY DEF Monitor!Thread, Monitor!Open, Monitor!Process, Monitor!Leave, Monitor!Finish, Monitor!Recycle, Monitor!Stop
<1>4. got' = got \/ (got[t] < MaxRate /\ got' = [got EXCEPT ![t] = @ + 1])
  BY DEF Monitor!Thread, Monitor!Open, Monitor!Process, Monitor!Leave, Monitor!Finish, Monitor!Recycle, Monitor!Stop
<1>5. flags' \subseteq flags
  BY DEF Monitor!Thread, Monitor!Open, Monitor!Process, Monitor!Leave, Monitor!Finish, Monitor!Recycle, Monitor!Stop,
         Monitor!Taken
<1>6. streams' \in [Monitor!Threads -> {"away", "streaming", "finished", "stopped"}]
  BY <1>2, MonitorBounds DEF Monitor!TypeOK
<1>7. age' \in [Monitor!Threads -> Monitor!NoAge .. MinAge]
  <2>1. 0 \in Monitor!NoAge .. MinAge
    BY MonitorBounds DEF Monitor!NoAge
  <2>. QED  BY <1>3, <2>1, MonitorBounds DEF Monitor!TypeOK
<1>8. got' \in [Monitor!Threads -> 0 .. MaxRate]
  BY <1>4, MonitorBounds DEF Monitor!TypeOK
<1>9. Monitor!TypeOK'
  BY <1>1, <1>5, <1>6, <1>7, <1>8, MonitorBounds DEF Monitor!TypeOK
<1>. QED  BY <1>1, <1>9, BarStands

\* A sweep raises the bar to what two threads did, if two moved at all.
LEMMA SweepKeepsMonitor == ASSUME MonitorInv, Monitor!Sweep PROVE MonitorInv'
<1>1. /\ sweepClock' = SweepTicks /\ got' = [t \in Monitor!Threads |-> 0] /\ primed' = TRUE
      /\ UNCHANGED <<streams, age, shutdown>>
  BY DEF Monitor!Sweep
<1>2. CASE ~(primed /\ Monitor!Moving # {})
  <2>1. UNCHANGED <<reference, flags, rivals, alone>>
    BY <1>2 DEF Monitor!Sweep
  <2>2. Monitor!TypeOK'
    BY <1>1, <2>1, MonitorBounds DEF Monitor!TypeOK, Monitor!Returned
  <2>. QED  BY <2>1, <2>2, BarStands
<1>3. CASE primed /\ Monitor!Moving # {}
  <2> DEFINE bar == Monitor!P90
             Fast == {t \in Monitor!Threads : got[t] >= Monitor!P90}
  <2>1. /\ reference' = Monitor!NewReference /\ flags' = flags \cup Monitor!Flagged
        /\ rivals' = IF bar > reference THEN Cardinality(Fast) ELSE rivals
        /\ alone' = (alone \/ Cardinality(Monitor!Moving) = 1)
    BY <1>3, SameCount DEF Monitor!Sweep
  <2>2. bar \in 0 .. MaxRate /\ (Cardinality(Monitor!Moving) # 1 => Cardinality(Fast) > 1)
    BY <1>3, PercentileShared
  <2>3. Cardinality(Fast) \in 0 .. Threads
    <3>1. IsFiniteSet(Monitor!Threads) /\ Cardinality(Monitor!Threads) = Threads
      BY MonitorThreads DEF MonitorInv
    <3>2. Fast \subseteq Monitor!Threads
      OBVIOUS
    <3>3. IsFiniteSet(Fast) /\ Cardinality(Fast) <= Threads
      BY <3>1, <3>2, FS_Subset
    <3>. QED  BY <3>3, MonitorBounds, FS_CardinalityType
  <2> HIDE DEF bar, Fast
  <2>4. reference' = IF reference < bar THEN bar ELSE reference
    BY <2>1 DEF Monitor!NewReference, Monitor!Max2, bar
  <2>5. reference' \in 0 .. MaxRate /\ rivals' \in 0 .. Threads /\ alone' \in BOOLEAN
    BY <2>1, <2>2, <2>3, <2>4, MonitorBounds DEF Monitor!TypeOK
  <2>6. Monitor!TypeOK'
    <3>1. flags' \subseteq Monitor!Threads
      BY <2>1, MonitorBounds DEF Monitor!TypeOK, Monitor!Flagged, Monitor!Candidates
    <3>. QED  BY <1>1, <2>5, <3>1, MonitorBounds DEF Monitor!TypeOK, Monitor!Returned
  <2>7. Monitor!BarIsShared'
    <3> SUFFICES ASSUME reference' > 0, ~alone' PROVE rivals' > 1
      BY DEF Monitor!BarIsShared
    <3>1. ~alone /\ Cardinality(Fast) > 1
      BY <2>1, <2>2
    <3>2. CASE bar > reference
      BY <2>1, <3>1, <3>2
    <3>3. CASE ~(bar > reference)
      <4>1. reference' = reference /\ rivals' = rivals
        BY <2>1, <2>2, <2>4, <3>3, MonitorBounds DEF Monitor!TypeOK
      <4>. QED  BY <3>1, <4>1, MonitorBounds DEF Monitor!BarIsShared
    <3>. QED  BY <3>2, <3>3
  <2>. QED  BY <2>6, <2>7 DEF MonitorInv, Monitor!MonitorAssumption
<1>. QED  BY <1>2, <1>3

LEMMA ClockKeepsMonitor ==
  ASSUME MonitorInv, Monitor!Return \/ Monitor!Tick \/ Monitor!Shutdown
  PROVE  MonitorInv'
<1>1. UNCHANGED <<streams, got, flags, primed, reference, rivals, alone>>
  BY DEF Monitor!Return, Monitor!Tick, Monitor!Shutdown
<1>2. CASE Monitor!Return \/ Monitor!Shutdown
  <2>1. age' = age /\ (sweepClock' = sweepClock \/ sweepClock' = Monitor!Returned) /\ shutdown' \in BOOLEAN
    BY <1>2, MonitorBounds DEF Monitor!Return, Monitor!Shutdown, Monitor!TypeOK
  <2>2. sweepClock' \in Monitor!Returned .. SweepTicks
    BY <2>1, MonitorBounds DEF Monitor!TypeOK, Monitor!Returned
  <2>3. Monitor!TypeOK'
    BY <1>1, <2>1, <2>2, MonitorBounds DEF Monitor!TypeOK
  <2>. QED  BY <1>1, <2>3, BarStands
<1>3. CASE Monitor!Tick
  <2>1. age' \in [Monitor!Threads -> Monitor!NoAge .. MinAge]
    <3>1. \A t \in Monitor!Threads : Monitor!Min2(age[t] + 1, MinAge) \in Monitor!NoAge .. MinAge
      BY MonitorBounds DEF Monitor!TypeOK, Monitor!Min2, Monitor!NoAge
    <3>2. Monitor!NoAge \in Monitor!NoAge .. MinAge
      BY MonitorBounds DEF Monitor!NoAge
    <3>. QED  BY <1>3, <3>1, <3>2 DEF Monitor!Tick
  <2>2. sweepClock' \in Monitor!Returned .. SweepTicks /\ shutdown' = shutdown
    BY <1>3, MonitorBounds DEF Monitor!Tick, Monitor!TypeOK, Monitor!Returned
  <2>3. Monitor!TypeOK'
    BY <1>1, <2>1, <2>2, MonitorBounds DEF Monitor!TypeOK
  <2>. QED  BY <1>1, <2>3, BarStands
<1>. QED  BY <1>2, <1>3

LEMMA MonitorNext == ASSUME MonitorInv, [Monitor!Next]_(Monitor!vars) PROVE MonitorInv'
<1>1. CASE UNCHANGED Monitor!vars
  <2>1. UNCHANGED <<streams, age, got, flags, sweepClock, primed, reference, shutdown, rivals, alone>>
    BY <1>1 DEF Monitor!vars
  <2>2. Monitor!TypeOK'
    BY <2>1, MonitorBounds DEF Monitor!TypeOK
  <2>. QED  BY <2>1, <2>2, BarStands
<1>2. CASE Monitor!Next
  BY <1>1, <1>2, ThreadKeepsMonitor, SweepKeepsMonitor, ClockKeepsMonitor DEF Monitor!Next
<1>. QED  BY <1>1, <1>2

\* The bar of the recycle monitor is a rate that two threads reached in one sweep, unless only
\* one moved in some sweep ("one anomalously fast thread can't set it"), and the types.
THEOREM BarAlwaysShared ==
  Monitor!MonitorAssumption /\ Monitor!Spec => [](Monitor!TypeOK /\ Monitor!BarIsShared)
<1>1. Monitor!MonitorAssumption /\ Monitor!Init => MonitorInv
  BY MonitorStarts
<1>2. MonitorInv /\ [Monitor!Next]_(Monitor!vars) => MonitorInv'
  BY MonitorNext
<1>3. MonitorInv => Monitor!TypeOK /\ Monitor!BarIsShared
  BY DEF MonitorInv
<1>. QED  BY <1>1, <1>2, <1>3, PTL DEF Monitor!Spec

-----------------------------------------------------------------------------
(* The statistics pulses.                                                  *)

Exchanging == {"load", "loaded", "store", "stored"}

\* What a pulse has exchanged so far, by where it is.
Exchange(t) ==
  /\ pulse[t] \in Exchanging <=> lock = t
  /\ pulse[t] \in {"loaded", "store"} => prev[t].txs = lastTxs
  /\ pulse[t] = "store" => prev[t].time = lastTime
  /\ pulse[t] = "stored" => mine[t].txs = lastTxs

\* Between the two stores of a pulse, and only there, the two halves are of different pulses.
LastTaken ==
  \/ [txs |-> lastTxs, time |-> lastTime] \in taken
  \/ lock # Stats!Nobody /\ pulse[lock] = "stored"

PulseTypes ==
  /\ pulse \in [Workers -> Stats!PCs]
  /\ total \in 0 .. MaxTxs /\ clock \in 0 .. (MaxTxs + MaxTime) /\ clock <= total + MaxTime
  /\ mine \in [Workers -> Stats!Snapshots] /\ prev \in [Workers -> Stats!Snapshots]
  /\ lock \in Workers \cup {Stats!Nobody}
  /\ lastTxs \in 0 .. MaxTxs /\ lastTime \in 0 .. (MaxTxs + MaxTime)
  /\ latest \in Stats!Snapshots /\ shuttingDown \in BOOLEAN
  /\ pulses \in [Workers -> 0 .. MaxPulses]
  /\ measured \in Nat /\ taken \subseteq Stats!Snapshots

StatsAssumption == Stats!ThreadsAssumption /\ Stats!BoundsAssumption

PulseInv ==
  /\ StatsAssumption /\ PulseTypes
  /\ \A t \in Workers : Exchange(t)
  /\ LastTaken
  /\ measured >= lastTxs

LEMMA PulseStarts == ASSUME StatsAssumption, Stats!Init PROVE PulseInv
<1>1. MaxTxs \in Nat /\ MaxTime \in Nat /\ MaxPulses \in Nat /\ Stats!Nobody \notin Workers
  BY DEF StatsAssumption, Stats!ThreadsAssumption, Stats!BoundsAssumption
<1>2. Stats!NoPulse \in Stats!Snapshots /\ Stats!NoPulse = [txs |-> 0, time |-> 0]
  BY <1>1 DEF Stats!NoPulse, Stats!Snapshots
<1>3. PulseTypes
  <2>1. 0 \in 0 .. MaxTxs /\ 0 \in 0 .. (MaxTxs + MaxTime) /\ 0 <= 0 + MaxTime /\ 0 \in 0 .. MaxPulses
    BY <1>1
  <2>2. Stats!Nobody \in Workers \cup {Stats!Nobody}
    OBVIOUS
  <2>. QED  BY <1>2, <2>1, <2>2 DEF PulseTypes, Stats!Init, Stats!PCs
<1>4. \A t \in Workers : Exchange(t)
  BY <1>1 DEF Exchange, Exchanging, Stats!Init
<1>5. LastTaken /\ measured >= lastTxs
  BY <1>2 DEF LastTaken, Stats!Init
<1>. QED  BY <1>3, <1>4, <1>5 DEF PulseInv

\* A step outside the lock.
LEMMA OutsideKept ==
  ASSUME PulseInv, NEW t \in Workers, NEW to, pulse' = [pulse EXCEPT ![t] = to], PulseTypes',
         pulse[t] \notin Exchanging, to \notin Exchanging,
         \A u \in Workers : u # t => mine'[u] = mine[u],
         UNCHANGED <<prev, lock, lastTxs, lastTime, measured, taken>>
  PROVE  PulseInv'
<1>1. \A u \in Workers : u # t => pulse'[u] = pulse[u]
  BY DEF PulseInv, PulseTypes
<1>2. pulse'[t] = to
  BY DEF PulseInv, PulseTypes
<1>3. \A u \in Workers : Exchange(u)'
  BY <1>1, <1>2 DEF PulseInv, Exchange, Exchanging
<1>4. LastTaken'
  BY <1>1, <1>2 DEF PulseInv, PulseTypes, LastTaken, Exchanging
<1>. QED  BY <1>3, <1>4 DEF PulseInv, StatsAssumption

\* A step under the lock: nobody else is there.
LEMMA InsideKept ==
  ASSUME PulseInv, NEW t \in Workers, NEW to, pulse' = [pulse EXCEPT ![t] = to], PulseTypes',
         pulse[t] \in Exchanging, Exchange(t)', (to \in Exchanging /\ lock' = lock) \/ lock' = Stats!Nobody,
         LastTaken', measured' >= lastTxs',
         \A u \in Workers : u # t => mine'[u] = mine[u] /\ prev'[u] = prev[u]
  PROVE  PulseInv'
<1>1. \A u \in Workers : u # t => pulse'[u] = pulse[u]
  BY DEF PulseInv, PulseTypes
<1>2. lock = t /\ Stats!Nobody \notin Workers
  BY DEF PulseInv, Exchange, StatsAssumption, Stats!ThreadsAssumption
<1>3. \A u \in Workers : u # t => pulse[u] \notin Exchanging
  BY <1>2 DEF PulseInv, Exchange
<1>4. \A u \in Workers : u # t => Exchange(u)'
  BY <1>1, <1>2, <1>3 DEF Exchange, Exchanging
<1>. QED  BY <1>4 DEF PulseInv, StatsAssumption

LEMMA PulseBounds ==
  ASSUME PulseInv
  PROVE  /\ MaxTxs \in Nat /\ MaxTime \in Nat /\ MaxPulses \in Nat /\ Stats!Nobody \notin Workers
         /\ PulseTypes
  BY DEF PulseInv, StatsAssumption, Stats!ThreadsAssumption, Stats!BoundsAssumption

\* Time passes, transactions are processed, Ctrl-C is pressed.
LEMMA OthersKeepPulse ==
  ASSUME PulseInv, Stats!Elapse \/ Stats!CtrlC \/ (\E t \in Workers : Stats!Process(t))
  PROVE  PulseInv'
<1>1. UNCHANGED <<pulse, mine, prev, lock, lastTxs, lastTime, latest, pulses, measured, taken>>
  BY DEF Stats!Elapse, Stats!CtrlC, Stats!Process, Stats!local, Stats!last, Stats!history
<1>2. PulseTypes'
  <2>1. CASE Stats!Elapse
    BY <1>1, <2>1, PulseBounds DEF PulseTypes, Stats!Elapse
  <2>2. CASE Stats!CtrlC
    BY <1>1, <2>2, PulseBounds DEF PulseTypes, Stats!CtrlC
  <2>3. ASSUME NEW t \in Workers, Stats!Process(t) PROVE PulseTypes'
    BY <1>1, <2>3, PulseBounds DEF PulseTypes, Stats!Process
  <2>. QED  BY <2>1, <2>2, <2>3
<1>3. LastTaken' /\ \A t \in Workers : Exchange(t)'
  BY <1>1 DEF PulseInv, LastTaken, Exchange
<1>. QED  BY <1>1, <1>2, <1>3 DEF PulseInv, StatsAssumption

\* The snapshot is taken before the lock.
LEMMA SnapshotKeepsPulse ==
  ASSUME PulseInv, NEW t \in Workers, Stats!Snapshot(t) \/ Stats!Skip(t) \/ Stats!ReadClock(t) \/ Stats!Record(t)
  PROVE  PulseInv'
<1>1. /\ PulseTypes /\ MaxTxs \in Nat /\ MaxTime \in Nat /\ MaxPulses \in Nat
  BY PulseBounds
<1>2. CASE Stats!Snapshot(t)
  <2>1. /\ pulse[t] = "work" /\ pulse' = [pulse EXCEPT ![t] = "clock"] /\ mine' = [mine EXCEPT ![t].txs = total]
        /\ pulses[t] < MaxPulses /\ pulses' = [pulses EXCEPT ![t] = @ + 1]
        /\ UNCHANGED <<prev, total, clock, lock, lastTxs, lastTime, latest, measured, taken, shuttingDown>>
    BY <1>2 DEF Stats!Snapshot, Stats!Go, Stats!last, Stats!history
  <2>2. PulseTypes'
    BY <1>1, <2>1 DEF PulseTypes, Stats!PCs, Stats!Snapshots
  <2>. QED  BY <1>1, <2>1, <2>2, OutsideKept DEF Exchanging, PulseTypes
<1>3. CASE Stats!Skip(t)
  <2>1. /\ pulse[t] = "clock" /\ pulse' = [pulse EXCEPT ![t] = "work"]
        /\ UNCHANGED <<mine, pulses, prev, total, clock, lock, lastTxs, lastTime, latest, measured, taken, shuttingDown>>
    BY <1>3 DEF Stats!Skip, Stats!Go, Stats!last, Stats!history
  <2>2. PulseTypes'
    BY <1>1, <2>1 DEF PulseTypes, Stats!PCs
  <2>. QED  BY <2>1, <2>2, OutsideKept DEF Exchanging
<1>4. CASE Stats!ReadClock(t)
  <2>1. /\ pulse[t] = "clock" /\ pulse' = [pulse EXCEPT ![t] = "spin"] /\ mine' = [mine EXCEPT ![t].time = clock]
        /\ UNCHANGED <<pulses, prev, total, clock, lock, lastTxs, lastTime, latest, measured, taken, shuttingDown>>
    BY <1>4 DEF Stats!ReadClock, Stats!Go, Stats!last, Stats!history
  <2>2. PulseTypes'
    BY <1>1, <2>1 DEF PulseTypes, Stats!PCs, Stats!Snapshots
  <2>. QED  BY <1>1, <2>1, <2>2, OutsideKept DEF Exchanging, PulseTypes
<1>5. CASE Stats!Record(t)
  <2>1. /\ pulse[t] = "record" /\ pulse' = [pulse EXCEPT ![t] = "work"] /\ latest' = mine[t]
        /\ UNCHANGED <<mine, pulses, prev, total, clock, lock, lastTxs, lastTime, measured, taken, shuttingDown>>
    BY <1>5 DEF Stats!Record, Stats!Go, Stats!last, Stats!history
  <2>2. PulseTypes'
    BY <1>1, <2>1 DEF PulseTypes, Stats!PCs
  <2>. QED  BY <2>1, <2>2, OutsideKept DEF Exchanging
<1>. QED  BY <1>2, <1>3, <1>4, <1>5

\* One pulse gets the lock.
LEMMA AcquireKeepsPulse == ASSUME PulseInv, NEW t \in Workers, Stats!Acquire(t) PROVE PulseInv'
<1>1. /\ pulse[t] = "spin" /\ pulse' = [pulse EXCEPT ![t] = "load"] /\ lock = Stats!Nobody /\ lock' = t
      /\ UNCHANGED <<mine, pulses, prev, total, clock, lastTxs, lastTime, latest, measured, taken, shuttingDown>>
  BY DEF Stats!Acquire, Stats!Go, Stats!Free, Stats!last, Stats!history
<1>2. PulseTypes /\ Stats!Nobody \notin Workers
  BY PulseBounds
<1>3. PulseTypes'
  BY <1>1, <1>2 DEF PulseTypes, Stats!PCs
<1>4. pulse'[t] = "load" /\ \A u \in Workers : u # t => pulse'[u] = pulse[u]
  BY <1>1, <1>2 DEF PulseTypes
<1>5. \A u \in Workers : pulse[u] \notin Exchanging
  BY <1>1, <1>2 DEF PulseInv, Exchange
<1>6. \A u \in Workers : Exchange(u)'
  BY <1>1, <1>4, <1>5 DEF Exchange, Exchanging
<1>7. LastTaken'
  BY <1>1 DEF PulseInv, LastTaken
<1>. QED  BY <1>1, <1>3, <1>6, <1>7 DEF PulseInv, StatsAssumption

\* The previous snapshot is loaded and replaced, each in two halves.
LEMMA ExchangeKeepsPulse ==
  ASSUME PulseInv, NEW t \in Workers,
         Stats!LoadTxs(t) \/ Stats!LoadTime(t) \/ Stats!StoreTxs(t) \/ Stats!StoreTime(t)
  PROVE  PulseInv'
<1>1. /\ PulseTypes /\ MaxTxs \in Nat /\ MaxTime \in Nat /\ Stats!Nobody \notin Workers
      /\ Exchange(t) /\ LastTaken /\ measured >= lastTxs
      /\ mine[t].txs \in Nat /\ prev[t].txs \in Nat /\ lastTxs \in Nat /\ measured \in Nat
      /\ mine[t] = [txs |-> mine[t].txs, time |-> mine[t].time]
  BY PulseBounds DEF PulseInv, PulseTypes, Stats!Snapshots
<1>2. CASE Stats!LoadTxs(t)
  <2>1. /\ pulse[t] = "load" /\ pulse' = [pulse EXCEPT ![t] = "loaded"] /\ prev' = [prev EXCEPT ![t].txs = lastTxs]
        /\ UNCHANGED <<mine, pulses, total, clock, lock, lastTxs, lastTime, latest, measured, taken, shuttingDown>>
    BY <1>2 DEF Stats!LoadTxs, Stats!Go, Stats!last, Stats!history
  <2>2. PulseTypes'
    BY <1>1, <2>1 DEF PulseTypes, Stats!PCs, Stats!Snapshots
  <2>3. pulse'[t] = "loaded" /\ prev'[t].txs = lastTxs
    BY <1>1, <2>1 DEF PulseTypes, Stats!Snapshots
  <2>4. Exchange(t)'
    BY <1>1, <2>1, <2>3 DEF Exchange, Exchanging
  <2>5. LastTaken'
    BY <1>1, <2>1 DEF LastTaken, Exchange, Exchanging
  <2>. QED  BY <1>1, <2>1, <2>2, <2>4, <2>5, InsideKept DEF Exchanging, PulseTypes
<1>3. CASE Stats!LoadTime(t)
  <2>1. /\ pulse[t] = "loaded" /\ pulse' = [pulse EXCEPT ![t] = "store"] /\ prev' = [prev EXCEPT ![t].time = lastTime]
        /\ UNCHANGED <<mine, pulses, total, clock, lock, lastTxs, lastTime, latest, measured, taken, shuttingDown>>
    BY <1>3 DEF Stats!LoadTime, Stats!Go, Stats!last, Stats!history
  <2>2. PulseTypes'
    BY <1>1, <2>1 DEF PulseTypes, Stats!PCs, Stats!Snapshots
  <2>3. pulse'[t] = "store" /\ prev'[t].txs = prev[t].txs /\ prev'[t].time = lastTime
    BY <1>1, <2>1 DEF PulseTypes, Stats!Snapshots
  <2>4. Exchange(t)'
    BY <1>1, <2>1, <2>3 DEF Exchange, Exchanging
  <2>5. LastTaken'
    BY <1>1, <2>1 DEF LastTaken, Exchange, Exchanging
  <2>. QED  BY <1>1, <2>1, <2>2, <2>4, <2>5, InsideKept DEF Exchanging, PulseTypes
<1>4. CASE Stats!StoreTxs(t)
  <2>1. /\ pulse[t] = "store" /\ pulse' = [pulse EXCEPT ![t] = "stored"] /\ lastTxs' = mine[t].txs
        /\ measured' = measured + Stats!Delta(t)
        /\ UNCHANGED <<mine, prev, pulses, total, clock, lock, lastTime, latest, taken, shuttingDown>>
    BY <1>4 DEF Stats!StoreTxs, Stats!Go, Stats!Stored
  <2>2. Stats!Delta(t) \in Nat /\ mine[t].txs <= prev[t].txs + Stats!Delta(t) /\ prev[t].txs = lastTxs
    BY <1>1, <2>1 DEF Stats!Delta, Exchange
  <2>3. measured' \in Nat /\ measured' >= lastTxs'
    BY <1>1, <2>1, <2>2
  <2>4. PulseTypes'
    BY <1>1, <2>1, <2>3 DEF PulseTypes, Stats!PCs, Stats!Snapshots
  <2>5. pulse'[t] = "stored" /\ lock' = t
    BY <1>1, <2>1 DEF PulseTypes, Exchange, Exchanging
  <2>6. Exchange(t)'
    BY <2>1, <2>5 DEF Exchange, Exchanging
  <2>7. LastTaken'
    BY <1>1, <2>5 DEF LastTaken
  <2>. QED  BY <2>1, <2>3, <2>4, <2>6, <2>7, InsideKept DEF Exchanging
<1>5. CASE Stats!StoreTime(t)
  <2>1. /\ pulse[t] = "stored" /\ pulse' = [pulse EXCEPT ![t] = "record"] /\ lastTime' = mine[t].time
        /\ lock' = Stats!Nobody /\ taken' = taken \cup {mine[t]}
        /\ UNCHANGED <<mine, prev, pulses, total, clock, lastTxs, latest, measured, shuttingDown>>
    BY <1>5 DEF Stats!StoreTime, Stats!Go, Stats!Released
  <2>2. PulseTypes'
    BY <1>1, <2>1 DEF PulseTypes, Stats!PCs, Stats!Snapshots
  <2>3. pulse'[t] = "record"
    BY <1>1, <2>1 DEF PulseTypes
  <2>4. Exchange(t)'
    BY <1>1, <2>1, <2>3 DEF Exchange, Exchanging
  <2>5. LastTaken'
    BY <1>1, <2>1 DEF LastTaken, Exchange
  <2>. QED  BY <1>1, <2>1, <2>2, <2>4, <2>5, InsideKept DEF Exchanging
<1>. QED  BY <1>2, <1>3, <1>4, <1>5

LEMMA PulseStays == ASSUME PulseInv, UNCHANGED Stats!vars PROVE PulseInv'
<1>1. UNCHANGED <<pulse, mine, prev, pulses, total, clock, lock, lastTxs, lastTime, latest, shuttingDown, measured, taken>>
  BY DEF Stats!vars, Stats!local, Stats!last, Stats!history
<1>. QED  BY <1>1 DEF PulseInv, StatsAssumption, PulseTypes, LastTaken, Exchange

LEMMA PulseNext == ASSUME PulseInv, [Stats!Next]_(Stats!vars) PROVE PulseInv'
<1>1. CASE UNCHANGED Stats!vars
  BY <1>1, PulseStays
<1>2. CASE Stats!Over \/ \E t \in Workers : Stats!Spin(t)
  BY <1>2, PulseStays DEF Stats!Over, Stats!Spin
<1>3. CASE Stats!Elapse \/ Stats!CtrlC \/ (\E t \in Workers : Stats!Process(t))
  BY <1>3, OthersKeepPulse
<1>4. ASSUME NEW t \in Workers, Stats!Snapshot(t) \/ Stats!Pulse(t) PROVE PulseInv'
  BY <1>4, SnapshotKeepsPulse, AcquireKeepsPulse, ExchangeKeepsPulse DEF Stats!Pulse
<1>. QED  BY <1>1, <1>2, <1>3, <1>4 DEF Stats!Next

\* The types, and that the lock is held by the thread inside.
THEOREM PulseTypesKept == StatsAssumption /\ Stats!Spec => []Stats!TypeOK
<1>1. StatsAssumption /\ Stats!Init => PulseInv
  BY PulseStarts
<1>2. PulseInv /\ [Stats!Next]_(Stats!vars) => PulseInv'
  BY PulseNext
<1>3. PulseInv => Stats!TypeOK
  BY DEF PulseInv, PulseTypes, Exchange, Exchanging, Stats!TypeOK
<1>. QED  BY <1>1, <1>2, <1>3, PTL DEF Stats!Spec

\* A pulse subtracts the snapshot of one earlier pulse, whole, and the latest one exchanged
\* (the swaps of LAST_TOTAL_TXS and LAST_TOTAL_TIME_NS under SNAPSHOT_LOCK).
THEOREM PulsesMeasureFromPrevious == StatsAssumption /\ Stats!Spec => []Stats!MeasuresFromPrevious
<1>1. StatsAssumption /\ Stats!Init => PulseInv
  BY PulseStarts
<1>2. PulseInv /\ [Stats!Next]_(Stats!vars) => PulseInv'
  BY PulseNext
<1>3. ASSUME PulseInv PROVE Stats!MeasuresFromPrevious
  <2> SUFFICES ASSUME NEW t \in Workers, pulse[t] = "store"
               PROVE prev[t] = [txs |-> lastTxs, time |-> lastTime] /\ prev[t] \in taken
    BY DEF Stats!MeasuresFromPrevious
  <2>1. Exchange(t) /\ LastTaken /\ prev[t] = [txs |-> prev[t].txs, time |-> prev[t].time]
    BY <1>3 DEF PulseInv, PulseTypes, Stats!Snapshots
  <2>. QED  BY <2>1 DEF Exchange, Exchanging, LastTaken
<1>. QED  BY <1>1, <1>2, <1>3, PTL DEF Stats!Spec

\* What the pulses measured together is at least what the last of them saw.
THEOREM PulsesMissNothing == StatsAssumption /\ Stats!Spec => []Stats!NothingUnmeasured
<1>1. StatsAssumption /\ Stats!Init => PulseInv
  BY PulseStarts
<1>2. PulseInv /\ [Stats!Next]_(Stats!vars) => PulseInv'
  BY PulseNext
<1>3. PulseInv => Stats!NothingUnmeasured
  BY DEF PulseInv, Stats!NothingUnmeasured
<1>. QED  BY <1>1, <1>2, <1>3, PTL DEF Stats!Spec

\* A single thread: its pulses come to the lock in the order of their snapshots.
SoleInv(t) ==
  /\ PulseInv
  /\ lastTxs <= total /\ measured = lastTxs
  /\ pulse[t] # "work" => lastTxs <= mine[t].txs /\ mine[t].txs <= total

LEMMA SoleNext ==
  ASSUME NEW t \in Workers, Workers = {t}, SoleInv(t), [Stats!Next]_(Stats!vars)
  PROVE  SoleInv(t)'
<1>1. PulseInv'
  BY PulseNext DEF SoleInv
<1>2. /\ PulseTypes /\ lastTxs \in Nat /\ total \in Nat /\ mine[t].txs \in Nat /\ Exchange(t)
  BY PulseBounds DEF SoleInv, PulseInv, PulseTypes, Stats!Snapshots
<1>3. CASE UNCHANGED <<pulse, mine, lastTxs, measured>> /\ total' >= total /\ total' \in Nat
  BY <1>1, <1>2, <1>3 DEF SoleInv
<1>4. CASE Stats!Elapse \/ Stats!CtrlC \/ (\E u \in Workers : Stats!Process(u) \/ Stats!Spin(u)) \/ Stats!Over
            \/ UNCHANGED Stats!vars
  <2>1. UNCHANGED <<pulse, mine, lastTxs, measured>> /\ (total' = total \/ total' = total + 1)
    BY <1>4 DEF Stats!Elapse, Stats!CtrlC, Stats!Process, Stats!Spin, Stats!Over, Stats!vars,
                Stats!local, Stats!last, Stats!history
  <2>. QED  BY <1>2, <1>3, <2>1
<1>5. CASE Stats!Snapshot(t)
  <2>1. mine'[t].txs = total /\ UNCHANGED <<total, lastTxs, measured>>
    BY <1>2, <1>5 DEF Stats!Snapshot, Stats!last, Stats!history, PulseTypes, Stats!Snapshots
  <2>. QED  BY <1>1, <1>2, <2>1 DEF SoleInv
<1>6. CASE Stats!Skip(t) \/ Stats!ReadClock(t) \/ Stats!Acquire(t) \/ Stats!LoadTxs(t) \/ Stats!LoadTime(t)
            \/ Stats!StoreTime(t) \/ Stats!Record(t)
  <2>1. /\ pulse[t] # "work" /\ UNCHANGED <<total, lastTxs, measured>> /\ mine'[t].txs = mine[t].txs
    BY <1>2, <1>6 DEF Stats!Skip, Stats!ReadClock, Stats!Acquire, Stats!LoadTxs, Stats!LoadTime, Stats!StoreTime,
                      Stats!Record, Stats!Go, Stats!last, Stats!history, PulseTypes, Stats!Snapshots
  <2>. QED  BY <1>1, <2>1 DEF SoleInv
<1>7. CASE Stats!StoreTxs(t)
  <2>1. /\ pulse[t] = "store" /\ lastTxs' = mine[t].txs /\ measured' = measured + Stats!Delta(t)
        /\ UNCHANGED <<total, mine>>
    BY <1>7 DEF Stats!StoreTxs, Stats!Go, Stats!Stored
  <2>2. prev[t].txs = lastTxs /\ lastTxs <= mine[t].txs /\ mine[t].txs <= total /\ measured = lastTxs
    BY <1>2, <2>1 DEF SoleInv, Exchange
  <2>3. Stats!Delta(t) = mine[t].txs - lastTxs
    BY <1>2, <2>2 DEF Stats!Delta
  <2>4. measured' = lastTxs' /\ lastTxs' <= total' /\ lastTxs' <= mine'[t].txs /\ mine'[t].txs <= total'
    BY <1>2, <2>1, <2>2, <2>3
  <2>. QED  BY <1>1, <2>4 DEF SoleInv
<1>. QED  BY <1>4, <1>5, <1>6, <1>7 DEF Stats!Next, Stats!Pulse

\* A single thread measures each transaction in one pulse.
THEOREM SolePulseExact ==
  ASSUME NEW t \in Workers, Workers = {t}
  PROVE  StatsAssumption /\ Stats!Spec => []Stats!MeasuredOnce
<1>1. StatsAssumption /\ Stats!Init => SoleInv(t)
  <2> SUFFICES ASSUME StatsAssumption, Stats!Init PROVE SoleInv(t)
    OBVIOUS
  <2>1. PulseInv
    BY PulseStarts
  <2>2. lastTxs = 0 /\ total = 0 /\ measured = 0 /\ pulse[t] = "work"
    BY DEF Stats!Init
  <2>. QED  BY <2>1, <2>2 DEF SoleInv
<1>2. SoleInv(t) /\ [Stats!Next]_(Stats!vars) => SoleInv(t)'
  BY SoleNext
<1>3. SoleInv(t) => Stats!MeasuredOnce
  BY DEF SoleInv, Stats!MeasuredOnce
<1>. QED  BY <1>1, <1>2, <1>3, PTL DEF Stats!Spec
=============================================================================
