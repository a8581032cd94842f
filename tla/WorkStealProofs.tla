-------------------------- MODULE WorkStealProofs --------------------------
(***************************************************************************)
(* Proofs about WorkSteal for every number of threads, range, epoch        *)
(* length, steal threshold and placement of blocks: its types and the      *)
(* steal proposals, then who may deliver what (EmissionExclusive), then    *)
(* what becomes of the blocks (OwnershipKept and what follows from it).    *)
(***************************************************************************)
EXTENDS WorkSteal, FiniteSetTheorems, SequenceTheorems, WellFoundedInduction, TLAPS

-----------------------------------------------------------------------------
(* Arithmetic of subranges and epochs.                                     *)

LEMMA ThreadsNat == Threads \subseteq Nat /\ NumThreads \in Nat \ {0}
BY ThreadsAssumption DEF Threads

\* A larger factor makes a larger product.
LEMMA TimesMonotone ==
  ASSUME NEW a \in Nat, NEW b \in Nat, NEW c \in Nat, a <= b
  PROVE  a * c <= b * c /\ a * c \in Nat /\ b * c \in Nat
<1>1. PICK d \in Nat : b = a + d
  <2>1. b - a \in Nat /\ b = a + (b - a)
    OBVIOUS
  <2> QED BY <2>1
<1>2. (a + d) * c = a * c + d * c
  OBVIOUS
<1>3. d * c \in Nat /\ a * c \in Nat
  OBVIOUS
<1> QED BY <1>1, <1>2, <1>3

LEMMA DivMod ==
  ASSUME NEW a \in Nat, NEW n \in Nat \ {0}
  PROVE  /\ a \div n \in Nat
         /\ a % n \in 0 .. (n - 1)
         /\ a = n * (a \div n) + (a % n)
<1>1. n \in Nat /\ n > 0
  OBVIOUS
<1>2. ASSUME NEW i \in Nat, NEW m \in Nat, m > 0
      PROVE  i \div m \in Nat /\ i % m \in 0 .. (m - 1)
  BY <1>2
<1>3. ASSUME NEW i \in Int, NEW m \in Int, m > 0
      PROVE  i = m * (i \div m) + (i % m)
  BY <1>3, Z3
<1> QED BY <1>1, <1>2, <1>3

LEMMA EpochBounds ==
  ASSUME NEW s \in Nat
  PROVE  /\ EpochOf(s) \in Nat
         /\ EpochFirst(EpochOf(s)) <= s
         /\ s <= EpochLast(EpochOf(s))
BY EpochAssumption, DivMod DEF EpochOf, EpochFirst, EpochLast

LEMMA EpochOrder ==
  ASSUME NEW e \in Nat, NEW f \in Nat, e < f
  PROVE  EpochLast(e) < EpochFirst(f)
<1>1. (e + 1) * EpochLen <= f * EpochLen
  BY TimesMonotone, EpochAssumption
<1>2. (e + 1) * EpochLen = e * EpochLen + EpochLen
  BY EpochAssumption
<1> QED BY <1>1, <1>2, EpochAssumption DEF EpochLast, EpochFirst

\* generate_subranges: each thread's part lies in the run, the parts of two
\* threads are ordered like the threads, and the parts leave no gap.
LEMMA SubrangeBounds ==
  ASSUME NEW t \in Threads
  PROVE  /\ Subrange(t) \in [start : FirstSlot .. EndSlot, end : FirstSlot .. EndSlot]
         /\ Subrange(t).start <= Subrange(t).end
         /\ t = 0 => Subrange(t).start = FirstSlot
         /\ t = NumThreads - 1 => Subrange(t).end = EndSlot
         /\ t + 1 \in Threads => Subrange(t + 1).start = Subrange(t).end
<1> DEFINE total == EndSlot - FirstSlot
           each == total \div NumThreads
           rest == total % NumThreads
<1>1. total \in Nat /\ NumThreads \in Nat \ {0} /\ t \in Nat /\ t <= NumThreads - 1
  BY RangeAssumption, ThreadsAssumption DEF Threads
<1>2. each \in Nat /\ rest \in 0 .. (NumThreads - 1) /\ total = NumThreads * each + rest
  BY <1>1, DivMod
<1> HIDE DEF each, rest
<1>3. (t + 1) * each <= NumThreads * each /\ t * each \in Nat /\ (t + 1) * each = t * each + each
  BY <1>1, <1>2, TimesMonotone
<1>4. NumThreads * each = (NumThreads - 1) * each + each
  BY <1>1, <1>2
<1>5. Subrange(t) = [start |-> FirstSlot + t * each + Min2(t, rest),
                     end |-> FirstSlot + t * each + Min2(t, rest) + each
                             + (IF t < rest THEN 1 ELSE 0)]
  BY DEF Subrange, each, rest
<1>6. Subrange(t + 1).start = FirstSlot + (t + 1) * each + Min2(t + 1, rest)
  BY DEF Subrange, each, rest
<1> QED BY <1>1, <1>2, <1>3, <1>4, <1>5, <1>6, RangeAssumption DEF Min2, Threads

-----------------------------------------------------------------------------
(* Type correctness: TypeOK is inductive only together with the bounds     *)
(* between a thread's counters and the state of the mailboxes.             *)

InPass == {"epoch", "loop", "batch"}
Adopting == {"adopt_next", "adopt_end"}

Bounds(t) ==
  /\ FirstSlot <= range[t].start
  /\ FirstSlot <= range[t].end
  /\ counted[t] < EndSlot
  /\ pc[t] \in InPass => pass[t].cur <= counted[t]
  /\ pc[t] = "batch" /\ pass[t].batch # None => counted[t] < pass[t].batch
  /\ reply[t].kind = "granted" => /\ reply[t].start \in FirstSlot .. EndSlot
                                  /\ reply[t].end \in FirstSlot .. EndSlot
  /\ pc[t] \in Adopting => reply[t].kind = "granted"
  /\ pc[t] = "await" => cands[t] # <<>>

\* Whoever sits in an inbox waits for that proposal and no other.
Mailbox ==
  /\ \A v \in Threads : \A i \in 1 .. Len(inbox[v]) :
       /\ inbox[v][i] # v
       /\ pc[inbox[v][i]] = "await"
       /\ reply[inbox[v][i]].kind = "pending"
  /\ \A v, w \in Threads : \A i \in 1 .. Len(inbox[v]), j \in 1 .. Len(inbox[w]) :
       inbox[v][i] = inbox[w][j] => v = w /\ i = j
  /\ \A t \in Threads : \A i \in 1 .. Len(cands[t]) : cands[t][i] # t


AllBounded == \A u \in Threads : Bounds(u)
TypeInv == TypeOK /\ AllBounded /\ Mailbox

LEMMA Numbers ==
  ASSUME TypeOK, NEW t \in Threads
  PROVE  /\ range[t].start \in Nat /\ range[t].end \in Nat
         /\ counted[t] \in Nat /\ emitted[t] \in Nat
         /\ slice[t].start \in Nat /\ slice[t].next \in Nat /\ slice[t].end \in Nat
         /\ pass[t].epoch \in Nat /\ pass[t].top \in Nat /\ pass[t].last \in Nat
         /\ pass[t].cur \in Nat /\ pass[t].batch \in Nat
         /\ reply[t].start \in Nat /\ reply[t].end \in Nat
         /\ FirstSlot - 1 <= counted[t]
<1>1. Positions \subseteq Nat /\ \A p \in Positions : FirstSlot - 1 <= p
  BY RangeAssumption DEF Positions
<1>2. counted[t] \in Positions /\ emitted[t] \in Positions
  BY DEF TypeOK
<1>3. range[t].start \in Positions /\ range[t].end \in Positions
  BY DEF TypeOK, Ranges
<1>4. slice[t].start \in Positions /\ slice[t].next \in Positions /\ slice[t].end \in Positions
  BY DEF TypeOK, Slices
<1>5. /\ pass[t].epoch \in Nat /\ pass[t].top \in Nat /\ pass[t].last \in Nat
      /\ pass[t].cur \in Nat /\ pass[t].batch \in Nat
  BY DEF TypeOK, Passes
<1>6. reply[t].start \in Nat /\ reply[t].end \in Nat
  BY DEF TypeOK, Replies
<1> QED BY <1>1, <1>2, <1>3, <1>4, <1>5, <1>6

LEMMA FaultCount ==
  ASSUME TypeOK, NEW k, Fault(k)
  PROVE  faults' \in 0 .. MaxFaults
BY FaultsAssumption DEF TypeOK, Fault

LEMMA NoPassType == NoPass \in Passes /\ NoReply \in Replies /\ Pending \in Replies
                    /\ Refused \in Replies /\ Dropped \in Replies
BY DEF NoPass, Passes, None, NoReply, Pending, Refused, Dropped, Replies, ReplyKinds

\* Steps that change nothing but where the pass of a thread stands.
LEMMA PassType ==
  ASSUME TypeOK, NEW t \in Threads, NEW l \in Labels, Go(t, l), pass' \in [Threads -> Passes],
         faults' \in 0 .. MaxFaults,
         UNCHANGED <<range, counted, emitted, cands, slice, inbox, reply, journal,
                     shutdown, audit, history>>
  PROVE  TypeOK'
BY DEF TypeOK, Go, history

LEMMA StartPassType ==
  ASSUME TypeOK, AllBounded, NEW t \in Threads, StartPass(t)
  PROVE  TypeOK' /\ AllBounded'
<1>1. range[t].end - 1 \in Nat
  BY Numbers, RangeAssumption DEF Bounds, AllBounded
<1>2. EpochOf(range[t].start) \in Nat /\ EpochOf(range[t].end - 1) \in Nat
  BY <1>1, EpochBounds, Numbers
<1>3. pass \in [Threads -> Passes]
  BY DEF TypeOK
<1>4. pass' \in [Threads -> Passes]
  BY <1>2, <1>3 DEF StartPass, NoPass, None, Passes
<1>5. pass'[t].cur = 0 /\ 0 <= counted[t]
  BY <1>3, Numbers DEF StartPass, NoPass, None
<1>6. TypeOK'
  BY <1>4, PassType DEF StartPass, shared, Labels, TypeOK
<1>7. AllBounded'
  BY <1>5 DEF TypeOK, StartPass, shared, history, Go, AllBounded, Bounds, InPass, Adopting
<1> QED BY <1>6, <1>7

LEMMA SkipEpochType ==
  ASSUME TypeOK, AllBounded, NEW t \in Threads, SkipEpoch(t)
  PROVE  TypeOK' /\ AllBounded'
<1>1. pass \in [Threads -> Passes] /\ pass[t].epoch + 1 \in Nat
  BY Numbers DEF TypeOK
<1>2. pass' \in [Threads -> Passes]
  BY <1>1 DEF SkipEpoch, Passes
<1>3. TypeOK'
  BY <1>2 DEF TypeOK, SkipEpoch, shared, history
<1>4. AllBounded'
  BY <1>1 DEF TypeOK, SkipEpoch, Passes, shared, history, AllBounded, Bounds
<1> QED BY <1>3, <1>4

LEMMA LeaveEpochType ==
  ASSUME TypeOK, AllBounded, NEW t \in Threads, LeaveEpoch(t), pc[t] = "batch",
         faults' \in 0 .. MaxFaults,
         UNCHANGED <<cands, slice, inbox, reply, journal, shutdown, audit, history>>
  PROVE  TypeOK' /\ AllBounded'
<1>1. pass \in [Threads -> Passes] /\ pass[t].epoch + 1 \in Nat
  BY Numbers DEF TypeOK
<1>2. pass' \in [Threads -> Passes]
  BY <1>1 DEF LeaveEpoch, Passes, None
<1>3. TypeOK'
  BY <1>2, PassType DEF LeaveEpoch, Labels
<1>4. AllBounded'
  BY <1>1 DEF TypeOK, LeaveEpoch, Passes, AllBounded, Bounds, Go, InPass, Adopting
<1> QED BY <1>3, <1>4

LEMMA EpochEndType ==
  ASSUME TypeOK, AllBounded, NEW t \in Threads, PastSlice(t) \/ EndOfStream(t)
  PROVE  TypeOK' /\ AllBounded'
<1>1. faults' \in 0 .. MaxFaults
  BY FaultCount DEF TypeOK, PastSlice, EndOfStream, shared
<1>2. UNCHANGED <<cands, slice, inbox, reply, journal, shutdown, audit, history>>
  BY DEF PastSlice, EndOfStream, shared
<1> QED BY <1>1, <1>2, LeaveEpochType DEF PastSlice, EndOfStream, HasBatch

\* Steps that end the pass, or change nothing but the program counter.
LEMMA PassEndType ==
  ASSUME TypeOK, AllBounded, NEW t \in Threads,
         PastRange(t) \/ FinishEpochs(t) \/ Spawn(t) \/ BackoffEnds(t)
  PROVE  TypeOK' /\ AllBounded'
<1>1. pass \in [Threads -> Passes]
  BY DEF TypeOK
<1>2. pass' \in [Threads -> Passes]
  BY <1>1, NoPassType DEF PastRange, FinishEpochs, Spawn, BackoffEnds
<1>3. Go(t, "complete") \/ Go(t, "boundary")
  BY DEF PastRange, FinishEpochs, Spawn, BackoffEnds
<1>4. UNCHANGED <<range, counted, emitted, cands, shared, history>>
  BY DEF PastRange, FinishEpochs, Spawn, BackoffEnds
<1>5. \A u \in Threads \ {t} : pass'[u] = pass[u]
  BY <1>1 DEF PastRange, FinishEpochs, Spawn, BackoffEnds
<1>6. TypeOK'
  BY <1>2, <1>3, <1>4, PassType DEF Labels, shared, TypeOK
<1>7. AllBounded'
  BY <1>3, <1>4, <1>5 DEF TypeOK, shared, Go, AllBounded, Bounds, InPass, Adopting
<1> QED BY <1>6, <1>7

\* A nonempty set of natural numbers has a least element.
LEMMA LeastElement ==
  ASSUME NEW S \in SUBSET Nat, S # {}
  PROVE  \E s \in S : \A r \in S : s <= r
<1>1. PICK s \in S : \A r \in S : <<r, s>> \notin OpToRel(<, Nat)
  BY WFMin, NatLessThanWellFounded
<1>2. \A r \in S : ~(r < s)
  BY <1>1, Zenon DEF OpToRel
<1>3. \A r \in S : s <= r
  BY <1>2
<1> QED BY <1>3

\* next_present_slot returns the first block above "after", if one is at or below "last".
LEMMA NextPresentSpec ==
  ASSUME NEW after \in Nat, NEW last \in Nat
  PROVE  LET s == NextPresent(after, last) IN
         /\ s \in Nat
         /\ s # None => s \in Blocks /\ after < s /\ s <= last
         /\ s # None => \A b \in Blocks : b <= after \/ s <= b
         /\ s = None => \A b \in Blocks : b <= after \/ last < b
<1> DEFINE S == {s \in Blocks : after < s /\ s <= last}
<1>1. S \in SUBSET Nat
  BY BlocksAssumption
<1>2. CASE S = {}
  <2>1. NextPresent(after, last) = None
    BY <1>2 DEF NextPresent
  <2>2. \A b \in Blocks : b <= after \/ last < b
    BY <1>2, BlocksAssumption
  <2> QED BY <2>1, <2>2 DEF None
<1>3. CASE S # {}
  <2>1. PICK s \in S : \A r \in S : s <= r
    BY <1>1, <1>3, LeastElement
  <2>2. /\ NextPresent(after, last) \in S
        /\ \A r \in S : NextPresent(after, last) <= r
    BY <1>3, <2>1 DEF NextPresent
  <2>3. \A b \in Blocks : b <= after \/ NextPresent(after, last) <= b
    BY <1>1, <2>2, BlocksAssumption
  <2>4. NextPresent(after, last) # None
    BY <1>1, <2>2 DEF None
  <2> QED BY <1>1, <2>2, <2>3, <2>4
<1> QED BY <1>2, <1>3

\* Where an epoch's stream is opened lies inside the thread's range.
LEMMA LocalBounds ==
  ASSUME TypeOK, AllBounded, NEW t \in Threads, LocalStart(t) <= LocalLast(t)
  PROVE  /\ LocalStart(t) \in Nat /\ LocalLast(t) \in Nat
         /\ LocalStart(t) \in FirstSlot .. EndSlot - 1
         /\ LocalStart(t) - 1 \in Positions
         /\ LocalLast(t) <= range[t].end - 1
         /\ LocalLast(t) <= EpochLast(pass[t].epoch)
         /\ range[t].start <= LocalStart(t)
         /\ EpochFirst(pass[t].epoch) <= LocalStart(t)
         /\ EpochFirst(pass[t].epoch) \in Nat /\ EpochLast(pass[t].epoch) \in Nat
<1>1. /\ range[t].start \in Nat /\ range[t].end \in Nat /\ pass[t].epoch \in Nat
      /\ FirstSlot <= range[t].start /\ FirstSlot <= range[t].end
  BY Numbers DEF AllBounded, Bounds
<1>2. range[t].end <= EndSlot
  BY <1>1, RangeAssumption DEF TypeOK, Ranges, Positions
<1>3. EpochFirst(pass[t].epoch) \in Nat /\ EpochLast(pass[t].epoch) \in Nat
  BY <1>1, EpochAssumption DEF EpochFirst, EpochLast
<1>4. range[t].end - 1 \in Nat
  BY <1>1, RangeAssumption
<1> QED BY <1>1, <1>2, <1>3, <1>4, RangeAssumption DEF LocalStart, LocalLast, Max2, Min2, Positions

LEMMA OpenEpochType ==
  ASSUME TypeOK, AllBounded, NEW t \in Threads, OpenEpoch(t)
  PROVE  TypeOK' /\ AllBounded'
<1>1. /\ LocalStart(t) - 1 \in Positions /\ LocalLast(t) \in Nat /\ LocalStart(t) - 1 < EndSlot
      /\ 0 <= LocalStart(t) - 1
  BY LocalBounds, RangeAssumption DEF OpenEpoch
<1>2. pass \in [Threads -> Passes] /\ counted \in [Threads -> Positions] /\ pc \in [Threads -> Labels]
  BY DEF TypeOK
<1>3. pass' \in [Threads -> Passes] /\ pass'[t].cur = 0
  BY <1>1, <1>2 DEF OpenEpoch, None, Passes
<1>4. counted' \in [Threads -> Positions] /\ pc' \in [Threads -> Labels]
  BY <1>1, <1>2 DEF OpenEpoch, Go, Labels
<1>5. TypeOK'
  BY <1>3, <1>4 DEF TypeOK, OpenEpoch, shared, history
<1>6. AllBounded'
  BY <1>1, <1>2, <1>3 DEF OpenEpoch, shared, history, Go, AllBounded, Bounds, InPass, Adopting
<1> QED BY <1>5, <1>6

\* The error path: the resumed range still lies inside the run.
LEMMA RestartType ==
  ASSUME TypeOK, AllBounded, NEW t \in Threads, NEW slot \in Nat, NEW c \in Positions,
         NEW recycled \in BOOLEAN, Restart(t, slot, c, recycled),
         c < EndSlot, slot <= c \/ slot \in FirstSlot .. EndSlot,
         faults' \in 0 .. MaxFaults, touched' \in [Threads -> SUBSET Slots],
         UNCHANGED <<cands, slice, inbox, reply, journal, shutdown, audit, delivered, processed>>
  PROVE  TypeOK' /\ AllBounded'
<1>1. c \in Nat /\ FirstSlot - 1 <= c /\ ResumeAt(slot, c) \in FirstSlot .. EndSlot
  BY RangeAssumption DEF Positions, ResumeAt
<1>2. ResumeAt(slot, c) \in Positions /\ FirstSlot <= ResumeAt(slot, c)
  BY <1>1, RangeAssumption DEF Positions
<1>3. Subrange(t).start - 1 \in Positions
  BY SubrangeBounds, RangeAssumption DEF Positions
<1>4. /\ pc \in [Threads -> Labels] /\ range \in [Threads -> Ranges]
      /\ counted \in [Threads -> Positions] /\ emitted \in [Threads -> Positions]
      /\ pass \in [Threads -> Passes]
  BY DEF TypeOK
<1>5. range' \in [Threads -> Ranges]
  BY <1>2, <1>4 DEF Restart, Ranges
<1>6. pc' \in [Threads -> Labels] /\ pc'[t] \in {"boundary", "backoff"}
  BY <1>4 DEF Restart, Go, Labels
<1>7. /\ counted' \in [Threads -> Positions] /\ emitted' \in [Threads -> Positions]
      /\ pass' \in [Threads -> Passes]
  BY <1>3, <1>4, NoPassType DEF Restart
<1>8. TypeOK'
  BY <1>5, <1>6, <1>7 DEF TypeOK
<1>9. Bounds(t)'
  BY <1>2, <1>4, <1>6 DEF Restart, AllBounded, Bounds, Ranges, InPass, Adopting
<1>10. ASSUME NEW u \in Threads, u # t PROVE Bounds(u)'
  BY <1>4, <1>10 DEF Restart, Go, AllBounded, Bounds
<1> QED BY <1>8, <1>9, <1>10 DEF AllBounded

\* The block a thread is about to process lies ahead of it and inside the run.
LEMMA BatchBounds ==
  ASSUME TypeOK, AllBounded, NEW t \in Threads, CanProcess(t)
  PROVE  /\ pc[t] = "batch" /\ pass[t].batch \in Slots
         /\ counted[t] < pass[t].batch /\ pass[t].batch < range[t].end
         /\ counted[t] \in Nat /\ range[t].end \in Nat /\ range[t].end <= EndSlot
         /\ Gap(t, pass[t].batch) \subseteq Slots
         /\ \A s \in Gap(t, pass[t].batch) : counted[t] < s /\ s < pass[t].batch
<1>1. /\ pass[t].batch \in Nat /\ counted[t] \in Nat /\ FirstSlot - 1 <= counted[t]
      /\ range[t].end \in Nat
  BY Numbers
<1>2. range[t].end <= EndSlot
  BY <1>1, RangeAssumption DEF TypeOK, Ranges, Positions
<1>3. /\ pc[t] = "batch" /\ counted[t] < pass[t].batch /\ pass[t].batch < range[t].end
  BY DEF CanProcess, HasBatch, AllBounded, Bounds
<1> QED BY <1>1, <1>2, <1>3, RangeAssumption DEF Slots, Gap

LEMMA FailedDeliveryType ==
  ASSUME TypeOK, AllBounded, NEW t \in Threads, NEW k \in {None} \cup Blocks \cup Slots,
         FailedDelivery(t, k)
  PROVE  /\ touched' \in [Threads -> SUBSET Slots]
         /\ CountedBefore(t, k) \in Positions
         /\ counted[t] <= CountedBefore(t, k)
         /\ CountedBefore(t, k) < pass[t].batch
<1>1. CanProcess(t) /\ k \in {None, pass[t].batch} \cup Gap(t, pass[t].batch)
  BY DEF FailedDelivery
<1>2. Fresh(t, {s \in Gap(t, pass[t].batch) : s < k} \cup ({k} \ {None})) \subseteq Slots
  BY <1>1, BatchBounds DEF Fresh
<1>3. touched \in [Threads -> SUBSET Slots]
  BY DEF TypeOK
<1>4. touched' \in [Threads -> SUBSET Slots]
  BY <1>1, <1>2, <1>3, BatchBounds DEF FailedDelivery
<1>5. k = None \/ (k \in Nat /\ counted[t] < k /\ k <= pass[t].batch)
  BY <1>1, BatchBounds DEF Slots
<1>6. counted[t] \in Positions /\ pass[t].batch \in Nat /\ pass[t].batch < EndSlot
  BY <1>1, BatchBounds, RangeAssumption DEF TypeOK, Slots
<1>7. /\ CountedBefore(t, k) \in Positions
      /\ counted[t] <= CountedBefore(t, k)
      /\ CountedBefore(t, k) < pass[t].batch
  BY <1>1, <1>5, <1>6, BatchBounds, RangeAssumption DEF CountedBefore, Positions
<1> QED BY <1>4, <1>7

LEMMA ErrorType ==
  ASSUME TypeOK, AllBounded, NEW t \in Threads,
         FetchFails(t) \/ SeekFails(t) \/ ReadFails(t) \/ PrematureEnd(t) \/ HandlerFails(t)
  PROVE  TypeOK' /\ AllBounded'
<1>1. /\ counted[t] \in Positions /\ counted[t] \in Nat /\ counted[t] < EndSlot
      /\ range[t].start \in FirstSlot .. EndSlot
      /\ pass[t].cur \in Nat /\ pass[t].batch \in Nat
      /\ FirstSlot - 1 <= counted[t]
      /\ faults \in 0 .. MaxFaults
  <2>1. /\ counted[t] \in Positions /\ range[t].start \in Positions /\ faults \in 0 .. MaxFaults
    BY DEF TypeOK, Ranges
  <2> QED BY <2>1, Numbers, RangeAssumption DEF AllBounded, Bounds, Positions
<1>2. CASE FetchFails(t)
  <2>1. AtCurrent(t) \in Nat /\ (AtCurrent(t) <= counted[t] \/ AtCurrent(t) \in FirstSlot .. EndSlot)
    BY <1>1, <1>2, RangeAssumption DEF FetchFails, AtEpoch, AtCurrent, AllBounded, Bounds, InPass
  <2> QED BY <1>1, <1>2, <2>1, FaultCount, RestartType DEF FetchFails, history, TypeOK
<1>3. CASE SeekFails(t)
  <2>1. LocalStart(t) \in FirstSlot .. EndSlot - 1 /\ LocalStart(t) - 1 \in Positions
    BY <1>3, LocalBounds DEF SeekFails
  <2>2. LocalStart(t) \in Nat /\ LocalStart(t) - 1 < EndSlot /\ LocalStart(t) \in FirstSlot .. EndSlot
    BY <2>1, RangeAssumption
  <2> QED BY <1>3, <2>1, <2>2, FaultCount, RestartType DEF SeekFails, history, TypeOK
<1>4. CASE ReadFails(t)
  <2>1. /\ AfterCurrent(t) \in Nat
        /\ AfterCurrent(t) <= counted[t] \/ AfterCurrent(t) \in FirstSlot .. EndSlot
    <3>1. /\ range[t].start \in FirstSlot .. EndSlot /\ pass[t].cur \in Nat
          /\ counted[t] \in Nat /\ counted[t] < EndSlot /\ FirstSlot \in Nat /\ EndSlot \in Nat
      BY <1>1, Numbers, RangeAssumption DEF AllBounded, Bounds, TypeOK, Ranges, Positions
    <3>2. pass[t].cur <= counted[t] /\ FirstSlot - 1 <= counted[t]
      BY <1>1, <1>4, Numbers DEF ReadFails, AllBounded, Bounds, InPass
    <3>3. AfterCurrent(t) = range[t].start \/ AfterCurrent(t) = pass[t].cur + 1
      BY DEF AfterCurrent
    <3>4. CASE AfterCurrent(t) = pass[t].cur + 1
      <4>1. CASE pass[t].cur < counted[t]
        BY <3>1, <3>4, <4>1
      <4>2. CASE pass[t].cur = counted[t]
        BY <3>1, <3>2, <3>4, <4>2
      <4> QED BY <3>1, <3>2, <4>1, <4>2
    <3> QED BY <3>1, <3>3, <3>4
  <2> QED BY <1>1, <1>4, <2>1, FaultCount, RestartType DEF ReadFails, history, TypeOK
<1>5. CASE PrematureEnd(t)
  <2>1. counted[t] + 1 \in Nat /\ counted[t] + 1 \in FirstSlot .. EndSlot
    BY <1>1, RangeAssumption
  <2> QED BY <1>1, <1>5, <2>1, RestartType DEF PrematureEnd, shared, history, TypeOK
<1>6. CASE HandlerFails(t)
  <2>1. PICK k \in {None} \cup Blocks \cup Slots :
          FailedDelivery(t, k) /\ Restart(t, pass[t].batch, CountedBefore(t, k), FALSE)
    BY <1>6 DEF HandlerFails
  <2>2. pass[t].batch \in FirstSlot .. EndSlot /\ pass[t].batch < EndSlot
    BY <2>1, BatchBounds, RangeAssumption DEF FailedDelivery, Slots
  <2>3. CountedBefore(t, k) \in Positions /\ CountedBefore(t, k) < EndSlot
    BY <1>1, <2>1, <2>2, FailedDeliveryType, RangeAssumption DEF Positions
  <2>4. touched' \in [Threads -> SUBSET Slots] /\ faults' \in 0 .. MaxFaults
    BY <1>6, <2>1, FailedDeliveryType, FaultCount DEF HandlerFails
  <2> QED BY <1>1, <1>6, <2>1, <2>2, <2>3, <2>4, RestartType DEF HandlerFails
<1> QED BY <1>2, <1>3, <1>4, <1>5, <1>6

LEMMA ReadType ==
  ASSUME TypeOK, AllBounded, NEW t \in Threads, Read(t)
  PROVE  TypeOK' /\ AllBounded'
<1> DEFINE next == NextPresent(counted[t], EpochLast(pass[t].epoch))
<1>1. next \in Nat /\ (next # None => counted[t] < next)
  <2>1. counted[t] \in Nat /\ EpochLast(pass[t].epoch) \in Nat
    BY Numbers, EpochAssumption DEF EpochLast
  <2> QED BY <2>1, NextPresentSpec
<1> HIDE DEF next
<1>2. PICK b \in {next, None} : pass' = [pass EXCEPT ![t].batch = b]
  BY DEF Read, next
<1>3. faults' \in 0 .. MaxFaults
  BY FaultCount DEF Read, TypeOK
<1>4. pass \in [Threads -> Passes] /\ b \in Nat
  BY <1>1 DEF TypeOK, None
<1>5. pass' \in [Threads -> Passes]
  BY <1>2, <1>4 DEF Passes
<1>6. TypeOK'
  BY <1>3, <1>5, PassType DEF Read, Labels
<1>7. AllBounded'
  <2>1. pass'[t].batch = b /\ pass'[t].cur = pass[t].cur /\ \A u \in Threads \ {t} : pass'[u] = pass[u]
    BY <1>2, <1>4 DEF Passes
  <2>2. pc \in [Threads -> Labels]
    BY DEF TypeOK
  <2> QED BY <1>1, <2>1, <2>2 DEF Read, Go, AllBounded, Bounds, InPass, Adopting
<1> QED BY <1>6, <1>7

LEMMA ProcessType ==
  ASSUME TypeOK, AllBounded, NEW t \in Threads, Process(t)
  PROVE  TypeOK' /\ AllBounded'
<1> DEFINE slot == pass[t].batch
<1>1. CanProcess(t)
  BY DEF Process
<1>2. /\ slot \in Slots /\ slot \in Nat /\ slot + 1 \in Positions /\ slot \in Positions
      /\ slot < EndSlot /\ Fresh(t, Gap(t, slot)) \subseteq Slots /\ Fresh(t, {slot}) \subseteq Slots
  BY <1>1, BatchBounds, RangeAssumption DEF Slots, Positions, Fresh
<1>3. /\ pc \in [Threads -> Labels] /\ pass \in [Threads -> Passes] /\ slice \in [Threads -> Slices]
      /\ counted \in [Threads -> Positions] /\ emitted \in [Threads -> Positions]
      /\ touched \in [Threads -> SUBSET Slots] /\ delivered \in [Threads -> SUBSET Slots]
      /\ processed \subseteq Slots
  BY DEF TypeOK
<1>4. Max2(emitted[t], slot) \in Positions
  BY <1>2, <1>3 DEF Max2
<1>5. /\ touched' \in [Threads -> SUBSET Slots] /\ delivered' \in [Threads -> SUBSET Slots]
      /\ processed' \subseteq Slots
  BY <1>2, <1>3 DEF Process
<1>6. counted' \in [Threads -> Positions] /\ emitted' \in [Threads -> Positions]
  BY <1>2, <1>3, <1>4 DEF Process
<1>7. slice' \in [Threads -> Slices]
  BY <1>2, <1>3 DEF Process, NextAfter, Slices
<1>8. /\ pc' \in [Threads -> Labels] /\ pc'[t] \in {"complete", "loop"}
      /\ \A u \in Threads \ {t} : pc'[u] = pc[u] /\ pass'[u] = pass[u] /\ counted'[u] = counted[u]
  BY <1>3 DEF Process, Go, Labels
<1>9. pass' \in [Threads -> Passes]
  <2>1. CASE pass' = [pass EXCEPT ![t] = NoPass]
    BY <1>3, <2>1, NoPassType
  <2>2. CASE pass' = [pass EXCEPT ![t].cur = slot, ![t].batch = None]
    BY <1>2, <1>3, <2>2 DEF Passes, None
  <2> QED BY <2>1, <2>2 DEF Process
<1>10. counted'[t] = slot /\ (pc'[t] = "loop" => pass'[t].cur = slot)
  BY <1>3 DEF Process, Go, Passes
<1>11. TypeOK'
  BY <1>5, <1>6, <1>7, <1>8, <1>9 DEF TypeOK, Process
<1>12. Bounds(t)'
  BY <1>2, <1>8, <1>10 DEF Process, AllBounded, Bounds, InPass, Adopting
<1>13. ASSUME NEW u \in Threads, u # t PROVE Bounds(u)'
  BY <1>8, <1>13 DEF Process, AllBounded, Bounds
<1> QED BY <1>11, <1>12, <1>13 DEF AllBounded

LEMMA CompleteRangeType ==
  ASSUME TypeOK, AllBounded, NEW t \in Threads, CompleteRange(t)
  PROVE  TypeOK' /\ AllBounded'
<1>1. /\ slice \in [Threads -> Slices] /\ range[t].end \in Positions /\ slice[t].start \in Positions
      /\ pc \in [Threads -> Labels] /\ journal \subseteq Ranges
  BY DEF TypeOK, Ranges, Slices
<1>2. counted[t] + 1 \in Positions
  BY Numbers, RangeAssumption DEF AllBounded, Bounds, Positions
<1>3. slice' \in [Threads -> Slices] /\ journal' \subseteq Ranges /\ pc' \in [Threads -> Labels]
  BY <1>1, <1>2 DEF CompleteRange, Slices, Ranges, Interval, Go, Labels
<1>4. TypeOK'
  BY <1>3 DEF TypeOK, CompleteRange, history
<1>5. AllBounded'
  BY <1>1 DEF CompleteRange, Go, AllBounded, Bounds, InPass, Adopting
<1> QED BY <1>4, <1>5

LEMMA ScanType ==
  ASSUME TypeOK, AllBounded, NEW t \in Threads, Scan(t)
  PROVE  TypeOK' /\ AllBounded'
<1>1. Cardinality(Candidates(t)) \in Nat
  <2>1. IsFiniteSet(Threads) /\ Candidates(t) \in SUBSET Threads
    BY ThreadsNat, FS_Interval DEF Threads, Candidates
  <2> QED BY <2>1, FS_Subset, FS_CardinalityType
<1>2. PICK q \in [1 .. Cardinality(Candidates(t)) -> Candidates(t)] : cands' = [cands EXCEPT ![t] = q]
  BY DEF Scan
<1>3. q \in Seq(Threads)
  <2>1. q \in [1 .. Cardinality(Candidates(t)) -> Threads]
    BY <1>2 DEF Candidates
  <2> QED BY <1>1, <2>1, SeqDef
<1>4. cands \in [Threads -> Seq(Threads)] /\ pc \in [Threads -> Labels]
  BY DEF TypeOK
<1>5. cands' \in [Threads -> Seq(Threads)] /\ pc' \in [Threads -> Labels]
  BY <1>2, <1>3, <1>4 DEF Scan, Go, Labels
<1>6. TypeOK'
  BY <1>5 DEF TypeOK, Scan, shared, history
<1>7. AllBounded'
  BY <1>4 DEF Scan, shared, Go, AllBounded, Bounds, InPass, Adopting
<1> QED BY <1>6, <1>7

LEMMA AskType ==
  ASSUME TypeOK, AllBounded, NEW t \in Threads, Ask(t)
  PROVE  TypeOK' /\ AllBounded'
<1>1. /\ cands \in [Threads -> Seq(Threads)] /\ inbox \in [Threads -> Seq(Threads)]
      /\ pc \in [Threads -> Labels] /\ reply \in [Threads -> Replies]
  BY DEF TypeOK
<1>2. cands[t] \in Seq(Threads) /\ cands[t] # <<>>
  BY <1>1 DEF Ask
<1>3. Head(cands[t]) \in Threads /\ Tail(cands[t]) \in Seq(Threads)
  BY <1>2, HeadTailProperties
<1>4. Append(inbox[Head(cands[t])], t) \in Seq(Threads)
  BY <1>1, <1>3, AppendProperties
<1>5. /\ cands' \in [Threads -> Seq(Threads)] /\ inbox' \in [Threads -> Seq(Threads)]
      /\ pc' \in [Threads -> Labels] /\ reply' \in [Threads -> Replies]
  BY <1>1, <1>3, <1>4, NoPassType DEF Ask, Go, Labels
<1>6. TypeOK'
  BY <1>5 DEF TypeOK, Ask, history
<1>7. Pending.kind = "pending"
  BY DEF Pending, NoReply
<1>8. AllBounded'
  BY <1>1, <1>7 DEF Ask, Go, AllBounded, Bounds, InPass, Adopting
<1> QED BY <1>6, <1>8

LEMMA DeniedType ==
  ASSUME TypeOK, AllBounded, NEW t \in Threads, Denied(t)
  PROVE  TypeOK' /\ AllBounded'
<1>1. /\ cands \in [Threads -> Seq(Threads)] /\ pc \in [Threads -> Labels]
      /\ reply \in [Threads -> Replies]
  BY DEF TypeOK
<1>2. Tail(cands[t]) \in Seq(Threads)
  BY <1>1, HeadTailProperties DEF Denied, AllBounded, Bounds
<1>3. /\ cands' \in [Threads -> Seq(Threads)] /\ pc' \in [Threads -> Labels]
      /\ reply' \in [Threads -> Replies]
  BY <1>1, <1>2, NoPassType DEF Denied, Go, Labels
<1>4. TypeOK'
  BY <1>3 DEF TypeOK, Denied, history
<1>5. NoReply.kind = "none"
  BY DEF NoReply
<1>6. AllBounded'
  BY <1>1, <1>5 DEF Denied, Go, AllBounded, Bounds, InPass, Adopting
<1> QED BY <1>4, <1>6

LEMMA SliceField ==
  ASSUME slice \in [Threads -> Slices], NEW t \in Threads, NEW s \in Positions,
         \/ slice' = [slice EXCEPT ![t].start = s]
         \/ slice' = [slice EXCEPT ![t].next = s]
         \/ slice' = [slice EXCEPT ![t].end = s]
  PROVE  slice' \in [Threads -> Slices]
<1>1. CASE slice' = [slice EXCEPT ![t].start = s] BY <1>1 DEF Slices
<1>2. CASE slice' = [slice EXCEPT ![t].next = s] BY <1>2 DEF Slices
<1>3. CASE slice' = [slice EXCEPT ![t].end = s] BY <1>3 DEF Slices
<1> QED BY <1>1, <1>2, <1>3

LEMMA AdoptType ==
  ASSUME TypeOK, AllBounded, NEW t \in Threads, AdoptStart(t) \/ AdoptNext(t) \/ AdoptEnd(t)
  PROVE  TypeOK' /\ AllBounded'
<1>1. /\ slice \in [Threads -> Slices] /\ pc \in [Threads -> Labels] /\ reply \in [Threads -> Replies]
      /\ range \in [Threads -> Ranges] /\ cands \in [Threads -> Seq(Threads)]
      /\ counted \in [Threads -> Positions] /\ emitted \in [Threads -> Positions]
  BY DEF TypeOK
<1>2. reply[t].kind = "granted"
  BY DEF AdoptStart, AdoptNext, AdoptEnd, AllBounded, Bounds, Adopting
<1>3. /\ reply[t].start \in FirstSlot .. EndSlot /\ reply[t].end \in FirstSlot .. EndSlot
      /\ reply[t].start \in Positions /\ reply[t].end \in Positions /\ reply[t].start - 1 \in Positions
      /\ reply[t].start - 1 < EndSlot
  BY <1>2, RangeAssumption DEF AllBounded, Bounds, Positions
<1>4. slice' \in [Threads -> Slices]
  <2>1. CASE AdoptStart(t) BY <1>1, <1>3, <2>1, SliceField DEF AdoptStart
  <2>2. CASE AdoptNext(t) BY <1>1, <1>3, <2>2, SliceField DEF AdoptNext
  <2>3. CASE AdoptEnd(t) BY <1>1, <1>3, <2>3, SliceField DEF AdoptEnd
  <2> QED BY <2>1, <2>2, <2>3
<1>5. pc' \in [Threads -> Labels]
  BY <1>1 DEF AdoptStart, AdoptNext, AdoptEnd, Go, Labels
<1>6. CASE AdoptStart(t) \/ AdoptNext(t)
  <2>1. UNCHANGED <<range, counted, emitted, pass, cands, inbox, reply, journal, shutdown,
                    audit, faults, history>>
    BY <1>6 DEF AdoptStart, AdoptNext
  <2>2. TypeOK'
    BY <1>4, <1>5, <2>1 DEF TypeOK, history
  <2>3. Go(t, "adopt_next") \/ Go(t, "adopt_end")
    BY <1>6 DEF AdoptStart, AdoptNext
  <2>4. AllBounded'
    BY <1>1, <1>2, <2>1, <2>3 DEF Go, AllBounded, Bounds, InPass, Adopting
  <2> QED BY <2>2, <2>4
<1>7. CASE AdoptEnd(t)
  <2>1. /\ range' \in [Threads -> Ranges] /\ counted' \in [Threads -> Positions]
        /\ emitted' \in [Threads -> Positions] /\ cands' \in [Threads -> Seq(Threads)]
        /\ reply' \in [Threads -> Replies]
    BY <1>1, <1>3, <1>7, NoPassType DEF AdoptEnd, AdoptedMark, Ranges
  <2>2. TypeOK'
    BY <1>4, <1>5, <1>7, <2>1 DEF TypeOK, AdoptEnd, history
  <2>3. Bounds(t)'
    BY <1>1, <1>3, <1>7, RangeAssumption DEF AdoptEnd, Go, Bounds, InPass, Adopting, NoReply
  <2>4. ASSUME NEW u \in Threads, u # t PROVE Bounds(u)'
    BY <1>1, <1>7, <2>4 DEF AdoptEnd, Go, AllBounded, Bounds
  <2> QED BY <2>2, <2>3, <2>4 DEF AllBounded
<1> QED BY <1>6, <1>7

\* What a grant gives away is the end of the victim's range, behind its position.
LEMMA GrantBounds ==
  ASSUME TypeOK, AllBounded, NEW t \in Threads, pc[t] \in {"boundary", "batch", "backoff"},
         NEW remaining,
         remaining = IF Position(t) < range[t].end THEN range[t].end - Position(t) ELSE 0,
         ~(remaining < MinSteal)
  PROVE  /\ Position(t) \in FirstSlot .. EndSlot
         /\ SplitPoint(Position(t), remaining) \in FirstSlot .. EndSlot
         /\ Position(t) < SplitPoint(Position(t), remaining)
         /\ SplitPoint(Position(t), remaining) < range[t].end
         /\ range[t].end \in FirstSlot .. EndSlot
<1>1. /\ counted[t] \in Nat /\ range[t].start \in Nat /\ range[t].end \in Nat
      /\ FirstSlot - 1 <= counted[t] /\ FirstSlot <= range[t].start /\ counted[t] < EndSlot
  BY Numbers DEF AllBounded, Bounds
<1>2. range[t].start <= EndSlot /\ range[t].end <= EndSlot
  BY <1>1, RangeAssumption DEF TypeOK, Ranges, Positions
<1>3. Position(t) \in FirstSlot .. EndSlot
  BY <1>1, <1>2, RangeAssumption DEF Position
<1>4. remaining \in Nat /\ remaining > 1 /\ remaining = range[t].end - Position(t)
  BY <1>1, <1>3, StealAssumption, RangeAssumption
<1>5. remaining \div 2 \in Nat /\ remaining \div 2 > 0 /\ remaining \div 2 < remaining
  BY <1>4
<1> QED BY <1>1, <1>2, <1>3, <1>4, <1>5, RangeAssumption DEF SplitPoint

\* Whoever waits at the head of an inbox, and what remains behind it.
LEMMA InboxHead ==
  ASSUME TypeOK, Mailbox, NEW t \in Threads, inbox[t] # <<>>
  PROVE  /\ inbox[t] \in Seq(Threads) /\ Head(inbox[t]) \in Threads
         /\ Tail(inbox[t]) \in Seq(Threads)
         /\ Len(Tail(inbox[t])) = Len(inbox[t]) - 1 /\ Len(inbox[t]) \in Nat /\ Len(inbox[t]) > 0
         /\ \A i \in 1 .. Len(Tail(inbox[t])) : Tail(inbox[t])[i] = inbox[t][i + 1]
         /\ Head(inbox[t]) = inbox[t][1]
         /\ Head(inbox[t]) # t /\ pc[Head(inbox[t])] = "await"
         /\ reply[Head(inbox[t])].kind = "pending"
<1>1. inbox[t] \in Seq(Threads)
  BY DEF TypeOK
<1>2. /\ Head(inbox[t]) \in Threads /\ Tail(inbox[t]) \in Seq(Threads)
      /\ Len(Tail(inbox[t])) = Len(inbox[t]) - 1
      /\ \A i \in 1 .. Len(Tail(inbox[t])) : Tail(inbox[t])[i] = inbox[t][i + 1]
  BY <1>1, HeadTailProperties
<1>3. Len(inbox[t]) \in Nat /\ Len(inbox[t]) > 0 /\ Head(inbox[t]) = inbox[t][1]
  BY <1>1
<1>4. 1 \in 1 .. Len(inbox[t])
  BY <1>3
<1> QED BY <1>1, <1>2, <1>3, <1>4 DEF Mailbox

LEMMA AnswerType ==
  ASSUME TypeOK, AllBounded, Mailbox, NEW t \in Threads, Answer(t)
  PROVE  TypeOK' /\ AllBounded'
<1> DEFINE thief == Head(inbox[t])
           position == Position(t)
           remaining == IF position < range[t].end THEN range[t].end - position ELSE 0
           mid == SplitPoint(position, remaining)
<1>1. /\ thief \in Threads /\ thief # t /\ pc[thief] = "await" /\ Tail(inbox[t]) \in Seq(Threads)
  BY InboxHead DEF Answer
<1>2. /\ inbox \in [Threads -> Seq(Threads)] /\ reply \in [Threads -> Replies]
      /\ range \in [Threads -> Ranges] /\ slice \in [Threads -> Slices]
  BY DEF TypeOK
<1>3. inbox' \in [Threads -> Seq(Threads)]
  BY <1>1, <1>2 DEF Answer
<1>4. CASE remaining < MinSteal
  <2>1. reply' = [reply EXCEPT ![thief] = Refused] /\ UNCHANGED <<range, slice>>
    BY <1>4 DEF Answer
  <2>2. TypeOK'
    BY <1>2, <1>3, <2>1, NoPassType DEF TypeOK, Answer, history
  <2>3. AllBounded'
    BY <1>1, <1>2, <2>1 DEF Answer, AllBounded, Bounds, Adopting, Refused, NoReply
  <2> QED BY <2>2, <2>3
<1>5. CASE ~(remaining < MinSteal)
  <2> HIDE DEF thief
  <2>1. /\ reply' = [reply EXCEPT ![thief] = Granted(mid, range[t].end)]
        /\ range' = [range EXCEPT ![t].end = mid]
        /\ slice' = [slice EXCEPT ![t].end = mid]
    BY <1>5 DEF Answer, thief
  <2>2. mid \in FirstSlot .. EndSlot /\ range[t].end \in FirstSlot .. EndSlot
    BY <1>5, GrantBounds DEF Answer
  <2> HIDE DEF mid
  <2>3. mid \in Positions /\ mid \in Nat /\ range[t].end \in Nat
    BY <2>2, RangeAssumption DEF Positions
  <2>4. Granted(mid, range[t].end) \in Replies
    BY <2>3 DEF Granted, Replies, ReplyKinds
  <2>5. slice' \in [Threads -> Slices]
    BY <1>2, <2>1, <2>3, SliceField
  <2>6. range' \in [Threads -> Ranges]
    BY <1>2, <2>1, <2>3 DEF Ranges
  <2>7. TypeOK'
    BY <1>1, <1>2, <1>3, <2>1, <2>4, <2>5, <2>6 DEF TypeOK, Answer, history
  <2>8. /\ reply'[thief].kind = "granted" /\ reply'[thief].start = mid /\ reply'[thief].end = range[t].end
        /\ \A u \in Threads \ {thief} : reply'[u] = reply[u]
    BY <1>1, <1>2, <2>1 DEF Granted
  <2>9. /\ range'[t].start = range[t].start /\ range'[t].end = mid
        /\ \A u \in Threads \ {t} : range'[u] = range[u]
    BY <1>2, <2>1 DEF Ranges
  <2>10. UNCHANGED <<pc, counted, pass, cands>>
    BY DEF Answer
  <2>11. AllBounded'
    BY <2>2, <2>8, <2>9, <2>10 DEF AllBounded, Bounds
  <2> QED BY <2>7, <2>11
<1> QED BY <1>4, <1>5

LEMMA RefuseType ==
  ASSUME TypeOK, AllBounded, Mailbox, NEW t \in Threads, Refuse(t)
  PROVE  TypeOK' /\ AllBounded'
<1> DEFINE thief == Head(inbox[t])
<1>1. /\ thief \in Threads /\ thief # t /\ pc[thief] = "await" /\ Tail(inbox[t]) \in Seq(Threads)
  BY InboxHead DEF Refuse
<1>2. /\ inbox \in [Threads -> Seq(Threads)] /\ reply \in [Threads -> Replies]
  BY DEF TypeOK
<1>3. inbox' \in [Threads -> Seq(Threads)] /\ reply' \in [Threads -> Replies]
  BY <1>1, <1>2, NoPassType DEF Refuse
<1>4. TypeOK'
  BY <1>3 DEF TypeOK, Refuse, local, history
<1>5. AllBounded'
  BY <1>1, <1>2 DEF Refuse, local, AllBounded, Bounds, Adopting, Refused, NoReply
<1> QED BY <1>4, <1>5

\* A task that ends leaves no proposal behind.
LEMMA LeaveType ==
  ASSUME TypeOK, AllBounded, Mailbox, NEW t \in Threads, NEW l \in Gone, Leave(t, l),
         faults' \in 0 .. MaxFaults, touched' \in [Threads -> SUBSET Slots],
         UNCHANGED <<range, counted, emitted, cands, slice, journal, shutdown, audit,
                     delivered, processed>>
  PROVE  TypeOK' /\ AllBounded'
<1>1. /\ inbox \in [Threads -> Seq(Threads)] /\ reply \in [Threads -> Replies]
      /\ pc \in [Threads -> Labels] /\ pass \in [Threads -> Passes]
  BY DEF TypeOK
<1>2. inbox' \in [Threads -> Seq(Threads)] /\ reply' \in [Threads -> Replies]
  BY <1>1, NoPassType DEF Leave, DropProposals
<1>3. /\ pc' \in [Threads -> Labels] /\ pass' \in [Threads -> Passes]
      /\ pc'[t] \in Gone /\ \A u \in Threads \ {t} : pc'[u] = pc[u] /\ pass'[u] = pass[u]
  BY <1>1, NoPassType DEF Leave, Go, Labels, Gone
<1>4. TypeOK'
  BY <1>2, <1>3 DEF TypeOK
<1>5. \A u \in Threads : reply'[u] = reply[u] \/ (reply'[u] = Dropped /\ pc[u] = "await")
  BY DEF Leave, DropProposals, Mailbox
<1>6. Dropped.kind = "dropped"
  BY DEF Dropped, NoReply
<1>7. AllBounded'
  BY <1>3, <1>5, <1>6 DEF AllBounded, Bounds, Gone, InPass, Adopting
<1> QED BY <1>4, <1>7

LEMMA EndType ==
  ASSUME TypeOK, AllBounded, Mailbox, NEW t \in Threads,
         HandlerInterrupts(t) \/ PollShutdown(t) \/ Retire(t)
  PROVE  TypeOK' /\ AllBounded'
<1>1. faults' \in 0 .. MaxFaults
  BY FaultCount DEF HandlerInterrupts, PollShutdown, Retire, TypeOK
<1>2. touched' \in [Threads -> SUBSET Slots]
  BY FailedDeliveryType DEF HandlerInterrupts, PollShutdown, Retire, history, TypeOK
<1>3. \E l \in Gone : Leave(t, l)
  BY DEF HandlerInterrupts, PollShutdown, Retire, Gone
<1>4. UNCHANGED <<range, counted, emitted, cands, slice, journal, shutdown, audit,
                  delivered, processed>>
  BY DEF HandlerInterrupts, PollShutdown, Retire, history
<1> QED BY <1>1, <1>2, <1>3, <1>4, LeaveType

LEMMA RunType ==
  ASSUME TypeOK, AllBounded, SignalShutdown \/ Audit \/ Terminated
  PROVE  TypeOK' /\ AllBounded'
<1>1. faults' \in 0 .. MaxFaults
  BY FaultCount DEF SignalShutdown, Audit, Terminated, vars, shared, TypeOK
<1>2. UNCHANGED <<local, slice, inbox, reply, journal, history>>
  BY DEF SignalShutdown, Audit, Terminated, vars, shared
<1>3. shutdown' \in BOOLEAN /\ audit' \in {"pending", "passed", "failed", "skipped"}
  BY DEF SignalShutdown, Audit, Terminated, vars, shared, TypeOK
<1>4. TypeOK'
  BY <1>1, <1>2, <1>3 DEF TypeOK, local, history
<1>5. AllBounded'
  BY <1>2 DEF local, AllBounded, Bounds
<1> QED BY <1>4, <1>5

-----------------------------------------------------------------------------
(* The mailboxes: a proposal is in at most one inbox, and its thief waits. *)

\* Steps of a thread that waits for nobody, and put nothing in an inbox.
LEMMA MailboxFrame ==
  ASSUME TypeOK, Mailbox, NEW t \in Threads, UNCHANGED inbox,
         pc[t] # "await" \/ reply[t].kind # "pending",
         \A u \in Threads \ {t} : pc'[u] = pc[u] /\ reply'[u] = reply[u] /\ cands'[u] = cands[u],
         \A i \in 1 .. Len(cands'[t]) : cands'[t][i] # t
  PROVE  Mailbox'
<1>1. \A v \in Threads : \A i \in 1 .. Len(inbox[v]) : inbox[v][i] \in Threads
  BY ElementOfSeq DEF TypeOK
<1>2. \A v \in Threads : \A i \in 1 .. Len(inbox[v]) : inbox[v][i] # t
  BY DEF Mailbox
<1>3. \A v \in Threads : \A i \in 1 .. Len(inbox[v]) :
        /\ inbox[v][i] # v
        /\ pc'[inbox[v][i]] = "await"
        /\ reply'[inbox[v][i]].kind = "pending"
  BY <1>1, <1>2 DEF Mailbox
<1>4. \A u \in Threads : \A i \in 1 .. Len(cands'[u]) : cands'[u][i] # u
  BY DEF Mailbox
<1> QED BY <1>3, <1>4 DEF Mailbox

\* The head of an inbox is answered.
LEMMA MailboxPop ==
  ASSUME TypeOK, Mailbox, NEW t \in Threads, inbox[t] # <<>>,
         inbox' = [inbox EXCEPT ![t] = Tail(@)],
         \A u \in Threads \ {Head(inbox[t])} : reply'[u] = reply[u],
         UNCHANGED <<pc, cands>>
  PROVE  Mailbox'
<1> DEFINE thief == Head(inbox[t])
<1>1. \A v \in Threads : \A i \in 1 .. Len(inbox[v]) : inbox[v][i] \in Threads
  BY ElementOfSeq DEF TypeOK
<1>2. /\ Len(inbox[t]) \in Nat /\ Len(inbox'[t]) = Len(inbox[t]) - 1
      /\ \A i \in 1 .. Len(inbox'[t]) : inbox'[t][i] = inbox[t][i + 1] /\ i + 1 \in 1 .. Len(inbox[t])
      /\ thief = inbox[t][1] /\ 1 \in 1 .. Len(inbox[t])
  <2>1. inbox'[t] = Tail(inbox[t])
    BY DEF TypeOK
  <2>2. /\ Len(inbox[t]) \in Nat /\ Len(inbox[t]) > 0 /\ Len(inbox'[t]) = Len(inbox[t]) - 1
        /\ \A i \in 1 .. Len(inbox'[t]) : inbox'[t][i] = inbox[t][i + 1]
        /\ thief = inbox[t][1]
    <3>1. /\ Len(Tail(inbox[t])) = Len(inbox[t]) - 1 /\ Len(inbox[t]) \in Nat /\ Len(inbox[t]) > 0
          /\ \A i \in 1 .. Len(Tail(inbox[t])) : Tail(inbox[t])[i] = inbox[t][i + 1]
          /\ Head(inbox[t]) = inbox[t][1]
      BY InboxHead
    <3> QED BY <2>1, <3>1, Zenon
  <2> HIDE DEF thief
  <2>3. 1 \in 1 .. Len(inbox[t]) /\ \A i \in 1 .. Len(inbox'[t]) : i + 1 \in 1 .. Len(inbox[t])
    BY <2>2
  <2> QED BY <2>2, <2>3
<1>3. \A v \in Threads \ {t} : inbox'[v] = inbox[v]
  BY DEF TypeOK
<1>4. \A i \in 1 .. Len(inbox'[t]) : inbox'[t][i] # thief
  BY <1>2 DEF Mailbox
<1>5. \A v \in Threads \ {t} : \A i \in 1 .. Len(inbox'[v]) : inbox'[v][i] # thief
  BY <1>2, <1>3 DEF Mailbox
<1>6. \A v \in Threads : \A i \in 1 .. Len(inbox'[v]) :
        \E j \in 1 .. Len(inbox[v]) : inbox'[v][i] = inbox[v][j] /\ inbox'[v][i] # thief
  <2>1. TAKE v \in Threads
  <2>2. TAKE i \in 1 .. Len(inbox'[v])
  <2>3. CASE v = t
    BY <1>2, <1>4, <2>3
  <2>4. CASE v # t
    BY <1>3, <1>5, <2>4
  <2> QED BY <2>3, <2>4
<1>7. \A v \in Threads : \A i \in 1 .. Len(inbox'[v]) :
        /\ inbox'[v][i] # v
        /\ pc'[inbox'[v][i]] = "await"
        /\ reply'[inbox'[v][i]].kind = "pending"
  <2>1. TAKE v \in Threads
  <2>2. TAKE i \in 1 .. Len(inbox'[v])
  <2>3. PICK j \in 1 .. Len(inbox[v]) : inbox'[v][i] = inbox[v][j] /\ inbox'[v][i] # thief
    BY <1>6
  <2>4. /\ inbox[v][j] \in Threads /\ inbox[v][j] # v /\ pc[inbox[v][j]] = "await"
        /\ reply[inbox[v][j]].kind = "pending"
    BY <1>1 DEF Mailbox
  <2> QED BY <2>3, <2>4
<1>8. ASSUME NEW v \in Threads, NEW w \in Threads,
             NEW i \in 1 .. Len(inbox'[v]), NEW j \in 1 .. Len(inbox'[w]),
             inbox'[v][i] = inbox'[w][j]
      PROVE  v = w /\ i = j
  <2>1. CASE v = t /\ w = t
    BY <1>2, <1>8, <2>1 DEF Mailbox
  <2>2. CASE v = t /\ w # t
    BY <1>2, <1>3, <1>8, <2>2 DEF Mailbox
  <2>3. CASE v # t /\ w = t
    BY <1>2, <1>3, <1>8, <2>3 DEF Mailbox
  <2>4. CASE v # t /\ w # t
    BY <1>3, <1>8, <2>4 DEF Mailbox
  <2> QED BY <2>1, <2>2, <2>3, <2>4
<1> QED BY <1>7, <1>8 DEF Mailbox

\* A thief that hunts sends one proposal.
LEMMA AskMailbox ==
  ASSUME TypeOK, Mailbox, NEW t \in Threads, Ask(t)
  PROVE  Mailbox'
<1> DEFINE v == Head(cands[t])
<1>1. /\ cands[t] \in Seq(Threads) /\ cands[t] # <<>> /\ v \in Threads /\ v # t /\ pc[t] = "hunt"
      /\ Tail(cands[t]) \in Seq(Threads) /\ cands \in [Threads -> Seq(Threads)]
  <2>1. cands[t] \in Seq(Threads) /\ cands[t] # <<>> /\ cands \in [Threads -> Seq(Threads)]
    BY DEF TypeOK, Ask
  <2>2. v \in Threads /\ Tail(cands[t]) \in Seq(Threads) /\ v = cands[t][1] /\ 1 \in 1 .. Len(cands[t])
    BY <2>1, HeadTailProperties
  <2> QED BY <2>1, <2>2 DEF Mailbox, Ask
<1>2. CASE pc[v] \in Gone
  <2>1. UNCHANGED <<pc, inbox, reply>> /\ cands' = [cands EXCEPT ![t] = Tail(@)]
    BY <1>2 DEF Ask
  <2>2. cands'[t] = Tail(cands[t]) /\ \A u \in Threads \ {t} : cands'[u] = cands[u]
    BY <1>1, <2>1
  <2>3. \A i \in 1 .. Len(cands'[t]) : cands'[t][i] # t
    <3>1. /\ Len(Tail(cands[t])) = Len(cands[t]) - 1 /\ Len(cands[t]) \in Nat
          /\ \A i \in 1 .. Len(Tail(cands[t])) : Tail(cands[t])[i] = cands[t][i + 1]
      BY <1>1, HeadTailProperties
    <3> QED BY <2>2, <3>1 DEF Mailbox
  <2> QED BY <1>1, <2>1, <2>2, <2>3, MailboxFrame
<1>3. CASE pc[v] \notin Gone
  <2>1. /\ inbox' = [inbox EXCEPT ![v] = Append(@, t)] /\ reply' = [reply EXCEPT ![t] = Pending]
        /\ pc' = [pc EXCEPT ![t] = "await"] /\ UNCHANGED cands
    BY <1>3 DEF Ask, Go
  <2>2. /\ inbox[v] \in Seq(Threads) /\ Len(inbox[v]) \in Nat
        /\ inbox'[v] = Append(inbox[v], t) /\ \A w \in Threads \ {v} : inbox'[w] = inbox[w]
    BY <1>1, <2>1 DEF TypeOK
  <2>3. /\ Len(inbox'[v]) = Len(inbox[v]) + 1 /\ inbox'[v][Len(inbox[v]) + 1] = t
        /\ \A i \in 1 .. Len(inbox[v]) : inbox'[v][i] = inbox[v][i]
    BY <2>2, AppendProperties
  <2>4. /\ pc'[t] = "await" /\ reply'[t].kind = "pending"
        /\ \A u \in Threads \ {t} : pc'[u] = pc[u] /\ reply'[u] = reply[u]
    BY <2>1 DEF TypeOK, Pending, NoReply
  <2>5. \A w \in Threads : \A i \in 1 .. Len(inbox[w]) : inbox[w][i] \in Threads \ {t}
    <3>1. TAKE w \in Threads
    <3>2. TAKE i \in 1 .. Len(inbox[w])
    <3>3. inbox[w] \in Seq(Threads)
      BY DEF TypeOK
    <3>4. inbox[w][i] \in Threads
      BY <3>3, ElementOfSeq
    <3>5. pc[inbox[w][i]] = "await"
      BY DEF Mailbox
    <3> QED BY <1>1, <3>4, <3>5
  <2>6. \A w \in Threads : \A i \in 1 .. Len(inbox'[w]) :
          \/ i \in 1 .. Len(inbox[w]) /\ inbox'[w][i] = inbox[w][i]
          \/ w = v /\ i = Len(inbox[v]) + 1 /\ inbox'[w][i] = t
    <3>1. TAKE w \in Threads
    <3>2. TAKE i \in 1 .. Len(inbox'[w])
    <3>3. CASE w = v
      BY <2>2, <2>3, <3>3
    <3>4. CASE w # v
      BY <2>2, <3>4
    <3> QED BY <3>3, <3>4
  <2>7. \A w \in Threads : \A i \in 1 .. Len(inbox'[w]) :
          /\ inbox'[w][i] # w
          /\ pc'[inbox'[w][i]] = "await"
          /\ reply'[inbox'[w][i]].kind = "pending"
    <3>1. TAKE w \in Threads
    <3>2. TAKE i \in 1 .. Len(inbox'[w])
    <3>3. CASE i \in 1 .. Len(inbox[w]) /\ inbox'[w][i] = inbox[w][i]
      BY <2>4, <2>5, <3>3 DEF Mailbox
    <3>4. CASE w = v /\ inbox'[w][i] = t
      BY <1>1, <2>4, <3>4
    <3> QED BY <2>6, <3>3, <3>4
  <2>8. \A w, x \in Threads : \A i \in 1 .. Len(inbox'[w]), j \in 1 .. Len(inbox'[x]) :
          inbox'[w][i] = inbox'[x][j] => w = x /\ i = j
    <3>1. TAKE w, x \in Threads
    <3>2. TAKE i \in 1 .. Len(inbox'[w]), j \in 1 .. Len(inbox'[x])
    <3>3. CASE i \in 1 .. Len(inbox[w]) /\ inbox'[w][i] = inbox[w][i]
      <4>1. inbox'[w][i] # t
        BY <2>5, <3>3
      <4>2. CASE j \in 1 .. Len(inbox[x]) /\ inbox'[x][j] = inbox[x][j]
        <5>1. \A y, z \in Threads : \A m \in 1 .. Len(inbox[y]), n \in 1 .. Len(inbox[z]) :
                inbox[y][m] = inbox[z][n] => y = z /\ m = n
          BY DEF Mailbox
        <5>2. inbox[w][i] = inbox[x][j] => w = x /\ i = j
          BY <3>3, <4>2, <5>1
        <5> QED BY <3>3, <4>2, <5>2
      <4>3. CASE inbox'[x][j] = t
        BY <4>1, <4>3
      <4> QED BY <2>6, <4>2, <4>3
    <3>4. CASE w = v /\ i = Len(inbox[v]) + 1 /\ inbox'[w][i] = t
      <4>1. CASE j \in 1 .. Len(inbox[x]) /\ inbox'[x][j] = inbox[x][j]
        BY <2>5, <3>4, <4>1
      <4>2. CASE x = v /\ j = Len(inbox[v]) + 1
        BY <3>4, <4>2
      <4> QED BY <2>6, <4>1, <4>2
    <3> QED BY <2>6, <3>3, <3>4
  <2>9. \A u \in Threads : \A i \in 1 .. Len(cands'[u]) : cands'[u][i] # u
    BY <2>1 DEF Mailbox
  <2> QED BY <2>7, <2>8, <2>9 DEF Mailbox
<1> QED BY <1>2, <1>3

\* A task that ends drops the proposals in its inbox.
LEMMA LeaveMailbox ==
  ASSUME TypeOK, Mailbox, NEW t \in Threads, NEW l, Leave(t, l), pc[t] # "await", UNCHANGED cands
  PROVE  Mailbox'
<1>1. /\ inbox'[t] = <<>> /\ \A v \in Threads \ {t} : inbox'[v] = inbox[v]
      /\ \A u \in Threads \ {t} : pc'[u] = pc[u]
  BY DEF Leave, Go, TypeOK
<1>2. \A v \in Threads : \A i \in 1 .. Len(inbox'[v]) : v # t /\ i \in 1 .. Len(inbox[v]) /\ inbox'[v][i] = inbox[v][i]
  BY <1>1
<1>3. \A v \in Threads : \A i \in 1 .. Len(inbox[v]) : inbox[v][i] \in Threads \ {t}
  <2>1. \A v \in Threads : \A i \in 1 .. Len(inbox[v]) : inbox[v][i] \in Threads
    BY ElementOfSeq DEF TypeOK
  <2> QED BY <2>1 DEF Mailbox
<1>4. \A v \in Threads \ {t} : \A i \in 1 .. Len(inbox[v]) : reply'[inbox[v][i]] = reply[inbox[v][i]]
  BY <1>3 DEF Leave, DropProposals, Mailbox
<1>5. \A v \in Threads : \A i \in 1 .. Len(inbox'[v]) :
        /\ inbox'[v][i] # v
        /\ pc'[inbox'[v][i]] = "await"
        /\ reply'[inbox'[v][i]].kind = "pending"
  BY <1>1, <1>2, <1>3, <1>4 DEF Mailbox
<1>6. \A w, x \in Threads : \A i \in 1 .. Len(inbox'[w]), j \in 1 .. Len(inbox'[x]) :
        inbox'[w][i] = inbox'[x][j] => w = x /\ i = j
  BY <1>2 DEF Mailbox
<1> QED BY <1>5, <1>6 DEF Mailbox

LEMMA TypeInit == Init => TypeInv
<1> SUFFICES ASSUME Init PROVE TypeInv
  OBVIOUS
<1>1. \A t \in Threads : /\ Subrange(t).start \in FirstSlot .. EndSlot
                         /\ Subrange(t).end \in FirstSlot .. EndSlot
  BY SubrangeBounds
<1>2. \A t \in Threads : /\ Subrange(t).start \in Positions /\ Subrange(t).end \in Positions
                         /\ Subrange(t).start - 1 \in Positions /\ Subrange(t).start - 1 < EndSlot
  BY <1>1, RangeAssumption DEF Positions
<1>3. \A t \in Threads : Subrange(t) \in Ranges
  BY <1>2, SubrangeBounds DEF Ranges
<1>4. /\ range \in [Threads -> Ranges] /\ slice \in [Threads -> Slices]
      /\ counted \in [Threads -> Positions] /\ emitted \in [Threads -> Positions]
  BY <1>2, <1>3 DEF Init, Slices
<1>5. /\ pc \in [Threads -> Labels] /\ pass \in [Threads -> Passes] /\ reply \in [Threads -> Replies]
      /\ inbox \in [Threads -> Seq(Threads)] /\ cands \in [Threads -> Seq(Threads)]
  BY NoPassType DEF Init, Labels
<1>6. /\ touched \in [Threads -> SUBSET Slots] /\ delivered \in [Threads -> SUBSET Slots]
      /\ processed \subseteq Slots /\ faults \in 0 .. MaxFaults /\ journal \subseteq Ranges
      /\ audit \in {"pending", "passed", "failed", "skipped"} /\ shutdown \in BOOLEAN
  <2>1. faults \in 0 .. MaxFaults
    BY FaultsAssumption DEF Init
  <2>2. touched \in [Threads -> SUBSET Slots] /\ delivered \in [Threads -> SUBSET Slots]
    BY DEF Init
  <2>3. /\ processed \subseteq Slots /\ journal \subseteq Ranges
        /\ audit \in {"pending", "passed", "failed", "skipped"} /\ shutdown \in BOOLEAN
    BY DEF Init
  <2> QED BY <2>1, <2>2, <2>3
<1>7. TypeOK
  BY <1>4, <1>5, <1>6 DEF TypeOK
<1>8. AllBounded
  BY <1>1, <1>2 DEF Init, AllBounded, Bounds, InPass, Adopting, NoReply
<1>9. \A t \in Threads : Len(inbox[t]) = 0 /\ Len(cands[t]) = 0
  BY DEF Init
<1>10. Mailbox
  BY <1>9 DEF Mailbox
<1> QED BY <1>7, <1>8, <1>10 DEF TypeInv

LEMMA StepType ==
  ASSUME TypeInv, NEW t \in Threads, Step(t) \/ Disturb(t)
  PROVE  TypeOK' /\ AllBounded'
BY AnswerType, RefuseType, StartPassType, SkipEpochType, OpenEpochType, ReadType, ErrorType,
   EpochEndType, PassEndType, ProcessType, EndType, CompleteRangeType, ScanType, AskType,
   DeniedType, AdoptType
   DEF TypeInv, Step, Disturb

LEMMA StepMailbox ==
  ASSUME TypeInv, NEW t \in Threads, Step(t) \/ Disturb(t)
  PROVE  Mailbox'
<1> USE DEF TypeInv
<1>1. /\ pc \in [Threads -> Labels] /\ reply \in [Threads -> Replies]
      /\ cands \in [Threads -> Seq(Threads)]
  BY DEF TypeOK
<1>2. \A i \in 1 .. Len(cands[t]) : cands[t][i] # t
  BY DEF Mailbox
<1>3. CASE Answer(t)
  BY <1>3, MailboxPop DEF Answer, TypeOK
<1>4. CASE Refuse(t)
  BY <1>4, MailboxPop DEF Refuse, local, TypeOK
<1>5. CASE Ask(t)
  BY <1>5, AskMailbox
<1>6. CASE PollShutdown(t) \/ HandlerInterrupts(t) \/ Retire(t)
  <2>1. \E l \in Gone : Leave(t, l)
    BY <1>6 DEF PollShutdown, HandlerInterrupts, Retire, Gone
  <2>2. pc[t] # "await" /\ UNCHANGED cands
    BY <1>6 DEF PollShutdown, HandlerInterrupts, Retire, FailedDelivery, CanProcess, HasBatch
  <2> QED BY <2>1, <2>2, LeaveMailbox
<1>7. CASE Denied(t)
  <2>1. cands[t] # <<>>
    BY <1>7 DEF Denied, AllBounded, Bounds
  <2>2. /\ Len(Tail(cands[t])) = Len(cands[t]) - 1 /\ Len(cands[t]) \in Nat
        /\ \A i \in 1 .. Len(Tail(cands[t])) : Tail(cands[t])[i] = cands[t][i + 1]
    BY <1>1, <2>1, HeadTailProperties
  <2>3. \A i \in 1 .. Len(Tail(cands[t])) : Tail(cands[t])[i] # t
    BY <1>2, <2>2
  <2>4. cands'[t] = Tail(cands[t]) /\ reply[t].kind # "pending"
    BY <1>1, <1>7 DEF Denied
  <2>5. \A u \in Threads \ {t} : pc'[u] = pc[u] /\ reply'[u] = reply[u] /\ cands'[u] = cands[u]
    BY <1>1, <1>7 DEF Denied, Go
  <2>6. UNCHANGED inbox
    BY <1>7 DEF Denied
  <2> QED BY <2>3, <2>4, <2>5, <2>6, MailboxFrame
<1>8. CASE Scan(t)
  <2>1. PICK q \in [1 .. Cardinality(Candidates(t)) -> Candidates(t)] : cands' = [cands EXCEPT ![t] = q]
    BY <1>8 DEF Scan
  <2>2. Cardinality(Candidates(t)) \in Nat
    <3>1. IsFiniteSet(Threads) /\ Candidates(t) \in SUBSET Threads
      BY ThreadsNat, FS_Interval DEF Threads, Candidates
    <3> QED BY <3>1, FS_Subset, FS_CardinalityType
  <2>3. \A i \in 1 .. Len(q) : q[i] # t
    BY <2>1, <2>2 DEF Candidates
  <2>4. cands'[t] = q /\ \A u \in Threads \ {t} : cands'[u] = cands[u]
    BY <1>1, <2>1
  <2>5. /\ UNCHANGED <<inbox, reply>> /\ pc[t] # "await"
        /\ \A u \in Threads \ {t} : pc'[u] = pc[u]
    BY <1>1, <1>8 DEF Scan, Go, shared
  <2> QED BY <2>3, <2>4, <2>5, MailboxFrame
<1>9. CASE AdoptEnd(t)
  <2>1. /\ UNCHANGED inbox /\ pc[t] # "await" /\ cands'[t] = <<>>
        /\ \A u \in Threads \ {t} : pc'[u] = pc[u] /\ reply'[u] = reply[u] /\ cands'[u] = cands[u]
    BY <1>1, <1>9 DEF AdoptEnd, Go
  <2> QED BY <2>1, MailboxFrame
<1>10. CASE \/ Spawn(t) \/ StartPass(t) \/ SkipEpoch(t) \/ OpenEpoch(t) \/ Read(t)
            \/ PrematureEnd(t) \/ EndOfStream(t) \/ PastSlice(t) \/ PastRange(t) \/ Process(t)
            \/ FinishEpochs(t) \/ BackoffEnds(t) \/ CompleteRange(t)
            \/ AdoptStart(t) \/ AdoptNext(t)
            \/ FetchFails(t) \/ SeekFails(t) \/ ReadFails(t) \/ HandlerFails(t)
  <2>1. UNCHANGED <<inbox, reply, cands>>
    BY <1>10 DEF Spawn, StartPass, SkipEpoch, OpenEpoch, Read, PrematureEnd, EndOfStream, PastSlice,
       PastRange, Process, FinishEpochs, BackoffEnds, CompleteRange, AdoptStart, AdoptNext,
       FetchFails, SeekFails, ReadFails, HandlerFails, LeaveEpoch, shared
  <2>2. pc[t] # "await" \/ reply[t].kind # "pending"
    BY <1>10 DEF Spawn, StartPass, SkipEpoch, AtEpoch, OpenEpoch, Read, PrematureEnd, EndOfStream,
       PastSlice, HasBatch, PastRange, Process, CanProcess, FinishEpochs, BackoffEnds,
       CompleteRange, AdoptStart, AdoptNext, FetchFails, SeekFails, ReadFails, HandlerFails,
       FailedDelivery
  <2>3. \A u \in Threads \ {t} : pc'[u] = pc[u]
    BY <1>1, <1>10 DEF Spawn, StartPass, SkipEpoch, OpenEpoch, Read, PrematureEnd, EndOfStream,
       PastSlice, LeaveEpoch, PastRange, Process, FinishEpochs, BackoffEnds, CompleteRange,
       AdoptStart, AdoptNext, FetchFails, SeekFails, ReadFails, HandlerFails, Restart, Go
  <2> QED BY <1>2, <2>1, <2>2, <2>3, MailboxFrame
<1> QED BY <1>3, <1>4, <1>5, <1>6, <1>7, <1>8, <1>9, <1>10 DEF Step, Disturb

LEMMA TypeNext == TypeInv /\ [Next]_vars => TypeInv'
<1> SUFFICES ASSUME TypeInv, [Next]_vars PROVE TypeInv'
  OBVIOUS
<1>1. ASSUME NEW t \in Threads, Step(t) \/ Disturb(t) PROVE TypeInv'
  BY <1>1, StepType, StepMailbox DEF TypeInv
<1>2. CASE SignalShutdown \/ Audit \/ Terminated
  <2>1. UNCHANGED <<pc, cands, inbox, reply>>
    BY <1>2 DEF SignalShutdown, Audit, Terminated, vars, local, shared
  <2>2. Mailbox'
    BY <2>1 DEF TypeInv, Mailbox
  <2> QED BY <1>2, <2>2, RunType DEF TypeInv
<1>3. CASE UNCHANGED vars
  BY <1>3 DEF TypeInv, TypeOK, AllBounded, Bounds, Mailbox, vars, local, shared, history
<1> QED BY <1>1, <1>2, <1>3 DEF Next

(***************************************************************************)
(* Type correctness, with the bounds it needs: whatever faults occur, no   *)
(* counter, published ledger entry, granted range or journaled interval    *)
(* leaves the requested run, and whoever sits in an inbox is waiting.      *)
(***************************************************************************)
THEOREM TypeCorrect == Spec => []TypeOK
<1>1. TypeInv => TypeOK
  BY DEF TypeInv
<1> QED BY <1>1, TypeInit, TypeNext, PTL DEF Spec

-----------------------------------------------------------------------------
(* No proposal is lost: who waits for an answer still sits in the inbox of *)
(* the thread it asked.                                                    *)

Awaits(u) == pc[u] = "await" /\ reply[u].kind = "pending"
Sits(u, v) == \E i \in 1 .. Len(inbox[v]) : inbox[v][i] = u
Posted == \A u \in Threads : Awaits(u) => Sits(u, Head(cands[u]))

\* The thread asked is one of the run.
LEMMA AskedThread ==
  ASSUME TypeInv, NEW u \in Threads, pc[u] = "await"
  PROVE  cands[u] # <<>> /\ Head(cands[u]) \in Threads
<1>1. cands[u] # <<>> /\ cands[u] \in Seq(Threads)
  BY DEF TypeInv, TypeOK, AllBounded, Bounds
<1> QED BY <1>1

LEMMA PostedKept ==
  ASSUME TypeInv, Posted,
         \A u \in Threads : Awaits(u)' => Awaits(u) /\ cands'[u] = cands[u],
         \A u, v \in Threads : Awaits(u)' /\ Sits(u, v) => Sits(u, v)'
  PROVE  Posted'
<1> SUFFICES ASSUME NEW u \in Threads, Awaits(u)' PROVE Sits(u, Head(cands[u]))'
  BY DEF Posted
<1>1. Awaits(u) /\ cands'[u] = cands[u] /\ Head(cands[u]) \in Threads
  BY AskedThread DEF Awaits
<1> QED BY <1>1 DEF Posted, Sits

\* The head of an inbox is answered; the others move up.
LEMMA PopPosted ==
  ASSUME TypeInv, Posted, NEW t \in Threads, Answer(t) \/ Refuse(t)
  PROVE  Posted'
<1> DEFINE thief == Head(inbox[t])
<1>1. /\ inbox[t] # <<>> /\ inbox' = [inbox EXCEPT ![t] = Tail(@)] /\ UNCHANGED <<pc, cands>>
      /\ \/ reply' = [reply EXCEPT ![thief] = Refused]
         \/ \E lo, hi : reply' = [reply EXCEPT ![thief] = Granted(lo, hi)]
  <2>1. CASE Refuse(t)
    BY <2>1 DEF Refuse, local
  <2>2. CASE Answer(t)
    BY <2>2 DEF Answer
  <2> QED BY <2>1, <2>2
<1>2. /\ thief \in Threads /\ thief = inbox[t][1]
      /\ Len(Tail(inbox[t])) = Len(inbox[t]) - 1 /\ Len(inbox[t]) \in Nat /\ Len(inbox[t]) > 0
      /\ \A i \in 1 .. Len(Tail(inbox[t])) : Tail(inbox[t])[i] = inbox[t][i + 1]
  BY <1>1, InboxHead DEF TypeInv
<1> HIDE DEF thief
<1>3. reply'[thief].kind # "pending" /\ \A u \in Threads \ {thief} : reply'[u] = reply[u]
  <2>1. Refused.kind = "refused" /\ \A lo, hi : Granted(lo, hi).kind = "granted"
    BY DEF Refused, NoReply, Granted
  <2>2. reply \in [Threads -> Replies]
    BY DEF TypeInv, TypeOK
  <2>3. CASE reply' = [reply EXCEPT ![thief] = Refused]
    BY <1>2, <2>1, <2>2, <2>3
  <2>4. CASE \E lo, hi : reply' = [reply EXCEPT ![thief] = Granted(lo, hi)]
    <3>1. PICK lo, hi : reply' = [reply EXCEPT ![thief] = Granted(lo, hi)]
      BY <2>4
    <3> QED BY <1>2, <2>1, <2>2, <3>1
  <2> QED BY <1>1, <2>3, <2>4
<1>4. \A u \in Threads : Awaits(u)' => u # thief /\ Awaits(u) /\ cands'[u] = cands[u]
  BY <1>1, <1>3 DEF Awaits
<1>5. ASSUME NEW u \in Threads, NEW v \in Threads, Awaits(u)', Sits(u, v) PROVE Sits(u, v)'
  <2>1. PICK i \in 1 .. Len(inbox[v]) : inbox[v][i] = u
    BY <1>5 DEF Sits
  <2>2. CASE v # t
    <3>1. inbox'[v] = inbox[v]
      BY <1>1, <2>2 DEF TypeInv, TypeOK
    <3> QED BY <2>1, <3>1 DEF Sits
  <2>3. CASE v = t
    <3>1. i # 1
      BY <1>2, <1>4, <1>5, <2>1, <2>3
    <3>2. i - 1 \in 1 .. Len(Tail(inbox[t])) /\ i - 1 + 1 = i
      BY <1>2, <2>1, <2>3, <3>1
    <3>3. Tail(inbox[t])[i - 1] = u
      BY <1>2, <2>1, <2>3, <3>2
    <3>4. inbox'[v] = Tail(inbox[t])
      BY <1>1, <2>3 DEF TypeInv, TypeOK
    <3> QED BY <3>2, <3>3, <3>4 DEF Sits
  <2> QED BY <2>2, <2>3
<1> QED BY <1>4, <1>5, PostedKept

LEMMA AskPosted ==
  ASSUME TypeInv, Posted, NEW t \in Threads, Ask(t)
  PROVE  Posted'
<1>1. /\ pc \in [Threads -> Labels] /\ reply \in [Threads -> Replies] /\ inbox \in [Threads -> Seq(Threads)]
      /\ cands \in [Threads -> Seq(Threads)] /\ pc[t] = "hunt" /\ cands[t] # <<>>
  BY DEF TypeInv, TypeOK, Ask
<1>0. PICK v \in Threads : v = Head(cands[t])
  BY <1>1
<1>2. CASE pc[v] \in Gone
  <2>1. UNCHANGED <<pc, inbox, reply>> /\ \A u \in Threads \ {t} : cands'[u] = cands[u]
    BY <1>0, <1>1, <1>2 DEF Ask
  <2> QED BY <1>1, <2>1, PostedKept DEF Awaits, Sits
<1>3. CASE pc[v] \notin Gone
  <2>1. inbox' = [inbox EXCEPT ![v] = Append(@, t)] /\ UNCHANGED cands
    BY <1>0, <1>3 DEF Ask
  <2>2. /\ Len(inbox'[v]) = Len(inbox[v]) + 1 /\ Len(inbox[v]) \in Nat
        /\ inbox'[v][Len(inbox[v]) + 1] = t
        /\ \A i \in 1 .. Len(inbox[v]) : inbox'[v][i] = inbox[v][i]
    BY <1>1, <2>1, AppendProperties
  <2>3. Sits(t, v)'
    <3>1. PICK n \in Nat : n = Len(inbox[v])
      BY <2>2
    <3>2. n + 1 \in 1 .. Len(inbox'[v]) /\ inbox'[v][n + 1] = t
      BY <2>2, <3>1
    <3>3. \E i \in 1 .. Len(inbox'[v]) : inbox'[v][i] = t
      BY <3>2
    <3>4. Sits(t, v)' = \E i \in 1 .. Len(inbox'[v]) : inbox'[v][i] = t
      BY DEF Sits
    <3> QED BY <3>3, <3>4
  <2>4. ASSUME NEW u \in Threads, NEW w \in Threads, Sits(u, w) PROVE Sits(u, w)'
    <3>1. PICK i \in 1 .. Len(inbox[w]) : inbox[w][i] = u
      BY <2>4 DEF Sits
    <3>2. CASE w = v
      <4>1. i \in 1 .. Len(inbox'[v])
        BY <2>2, <3>1, <3>2
      <4> QED BY <2>2, <3>1, <3>2, <4>1 DEF Sits
    <3>3. CASE w # v
      BY <1>1, <2>1, <3>1, <3>3 DEF Sits
    <3> QED BY <3>2, <3>3
  <2>5. ASSUME NEW u \in Threads, u # t, Awaits(u)' PROVE Sits(u, Head(cands[u]))'
    <3>1. Awaits(u)
      BY <1>0, <1>1, <1>3, <2>5 DEF Ask, Go, Awaits
    <3>2. Head(cands[u]) \in Threads /\ Sits(u, Head(cands[u])) /\ cands' = cands
      BY <2>1, <3>1, AskedThread DEF Awaits, Posted
    <3>3. Sits(u, Head(cands[u]))' = \E i \in 1 .. Len(inbox'[Head(cands[u])]) : inbox'[Head(cands[u])][i] = u
      BY <3>2 DEF Sits
    <3> QED BY <2>4, <3>2, <3>3 DEF Sits
  <2>6. Sits(t, Head(cands[t]))'
    BY <1>0, <2>1, <2>3 DEF Sits
  <2> QED BY <2>5, <2>6 DEF Posted
<1> QED BY <1>2, <1>3

\* A task that ends answers the proposals in its inbox by dropping them.
LEMMA LeavePosted ==
  ASSUME TypeInv, Posted, NEW t \in Threads, NEW l \in Gone, Leave(t, l), UNCHANGED cands
  PROVE  Posted'
<1>1. /\ pc \in [Threads -> Labels] /\ inbox \in [Threads -> Seq(Threads)]
  BY DEF TypeInv, TypeOK
<1>2. \A u \in Threads : Sits(u, t) => ~Awaits(u)'
  BY DEF Leave, DropProposals, Sits, Awaits, Dropped, NoReply
<1>3. \A u \in Threads : Awaits(u)' => Awaits(u)
  BY <1>1 DEF Leave, Go, Gone, DropProposals, Awaits, Dropped, NoReply
<1>4. \A u, v \in Threads : Awaits(u)' /\ Sits(u, v) => Sits(u, v)'
  BY <1>1, <1>2 DEF Leave, Sits
<1> QED BY <1>3, <1>4, PostedKept

LEMMA PostedStep ==
  ASSUME TypeInv, Posted, NEW t \in Threads, Step(t) \/ Disturb(t)
  PROVE  Posted'
<1>1. /\ pc \in [Threads -> Labels] /\ reply \in [Threads -> Replies] /\ cands \in [Threads -> Seq(Threads)]
  BY DEF TypeInv, TypeOK
<1>2. CASE Answer(t) \/ Refuse(t)
  BY <1>2, PopPosted
<1>3. CASE Ask(t)
  BY <1>3, AskPosted
<1>4. CASE PollShutdown(t) \/ HandlerInterrupts(t) \/ Retire(t)
  BY <1>4, LeavePosted DEF PollShutdown, HandlerInterrupts, Retire, Gone
<1>5. CASE Denied(t) \/ Scan(t) \/ AdoptEnd(t)
  <2>1. /\ UNCHANGED inbox /\ pc'[t] # "await"
        /\ \A u \in Threads \ {t} : pc'[u] = pc[u] /\ reply'[u] = reply[u] /\ cands'[u] = cands[u]
    <3>1. CASE Denied(t) \/ AdoptEnd(t)
      BY <1>1, <3>1 DEF Denied, AdoptEnd, Go
    <3>2. CASE Scan(t)
      <4>1. PICK q \in [1 .. Cardinality(Candidates(t)) -> Candidates(t)] : cands' = [cands EXCEPT ![t] = q]
        BY <3>2 DEF Scan
      <4> QED BY <1>1, <3>2, <4>1 DEF Scan, Go, shared
    <3> QED BY <1>5, <3>1, <3>2
  <2>2. \A u \in Threads : Awaits(u)' => Awaits(u) /\ cands'[u] = cands[u]
    BY <2>1 DEF Awaits
  <2> QED BY <2>1, <2>2, PostedKept DEF Sits
<1>6. CASE \/ Spawn(t) \/ StartPass(t) \/ SkipEpoch(t) \/ OpenEpoch(t) \/ Read(t)
           \/ PrematureEnd(t) \/ EndOfStream(t) \/ PastSlice(t) \/ PastRange(t) \/ Process(t)
           \/ FinishEpochs(t) \/ BackoffEnds(t) \/ CompleteRange(t)
           \/ AdoptStart(t) \/ AdoptNext(t)
           \/ FetchFails(t) \/ SeekFails(t) \/ ReadFails(t) \/ HandlerFails(t)
  <2>1. UNCHANGED <<inbox, reply, cands>>
    BY <1>6 DEF Spawn, StartPass, SkipEpoch, OpenEpoch, Read, PrematureEnd, EndOfStream, PastSlice,
       PastRange, Process, FinishEpochs, BackoffEnds, CompleteRange, AdoptStart, AdoptNext,
       FetchFails, SeekFails, ReadFails, HandlerFails, LeaveEpoch, shared
  <2>2. \A u \in Threads : pc'[u] = "await" => pc[u] = "await"
    BY <1>1, <1>6 DEF Spawn, StartPass, SkipEpoch, OpenEpoch, Read, PrematureEnd, EndOfStream,
       PastSlice, LeaveEpoch, PastRange, Process, FinishEpochs, BackoffEnds, CompleteRange,
       AdoptStart, AdoptNext, FetchFails, SeekFails, ReadFails, HandlerFails, Restart, Go
  <2> QED BY <2>1, <2>2, PostedKept DEF Awaits, Sits
<1> QED BY <1>2, <1>3, <1>4, <1>5, <1>6 DEF Step, Disturb

(***************************************************************************)
(* A thief waits for an answer exactly as long as its proposal sits in the *)
(* inbox of the thread it asked: none is lost when tasks end, restart or   *)
(* hand over work, and none is answered after the thief gave up on it.     *)
(***************************************************************************)
THEOREM ProposalsAccounted == Spec => []OneProposal
<1>1. Init => TypeInv /\ Posted
  BY TypeInit DEF Init, Posted, Awaits, NoReply
<1>2. TypeInv /\ Posted /\ [Next]_vars => (TypeInv /\ Posted)'
  <2> SUFFICES ASSUME TypeInv, Posted, [Next]_vars PROVE Posted'
    BY TypeNext
  <2>1. CASE \E t \in Threads : Step(t) \/ Disturb(t)
    BY <2>1, PostedStep
  <2>2. CASE SignalShutdown \/ Audit \/ Terminated \/ UNCHANGED vars
    <3>1. UNCHANGED <<pc, cands, inbox, reply>>
      BY <2>2 DEF SignalShutdown, Audit, Terminated, vars, local, shared
    <3> QED BY <3>1 DEF Posted, Awaits, Sits
  <2> QED BY <2>1, <2>2 DEF Next
<1>3. TypeInv /\ Posted => OneProposal
  BY AskedThread DEF Posted, Awaits, Sits, TypeInv, Mailbox, OneProposal
<1> QED BY <1>1, <1>2, <1>3, PTL DEF Spec

-----------------------------------------------------------------------------
(***************************************************************************)
(* WorkSteal implements SlotOwnership: the steal protocol keeps two threads *)
(* apart, whatever faults occur.                                           *)
(***************************************************************************)

\* The first slot of a thread's work while it streams.
Resume(t) == Max2(range[t].start, counted[t] + 1)

(***************************************************************************)
(* How a thread's counter stands to its range and its epoch.               *)
(***************************************************************************)
Streams(t) ==
  /\ pc[t] \in {"unspawned", "boundary", "backoff"} => counted[t] < range[t].start
  /\ pc[t] = "epoch" => /\ counted[t] < Max2(range[t].start, EpochFirst(pass[t].epoch))
                        /\ pass[t].cur # None => range[t].start <= counted[t] + 1
  /\ pc[t] \in {"loop", "batch"} => /\ range[t].start <= counted[t] + 1
                                    /\ counted[t] <= EpochLast(pass[t].epoch)
                                    /\ pass[t].last <= EpochLast(pass[t].epoch)

\* Of a thread's work only the slot it resumes at may have been touched.
Untouched(t) == \A s \in touched[t] \cap WorkOf(t) : pc[t] \in Streaming /\ s = Resume(t)

StealInv ==
  /\ TypeInv
  /\ \A t \in Threads : Streams(t) /\ Untouched(t)
  /\ Owners!Exclusive

\* The work of a thread, by what it is doing.
LEMMA WorkShape ==
  ASSUME NEW t \in Threads, TypeOK
  PROVE  /\ pc[t] \in Streaming => WorkOf(t) = {s \in Slots : Resume(t) <= s /\ s < range[t].end}
         /\ pc[t] \notin Streaming /\ pc[t] \notin Promised => WorkOf(t) = {}
         /\ reply[t].kind # "granted" /\ pc[t] \notin Streaming => WorkOf(t) = {}
         /\ pc[t] \in Promised /\ reply[t].kind = "granted" =>
              WorkOf(t) = {s \in Slots : reply[t].start <= s /\ s < reply[t].end}
         /\ WorkOf(t) \in SUBSET Slots
<1>1. counted[t] \in Nat /\ range[t].start \in Nat /\ Slots \subseteq Nat
  BY Numbers, RangeAssumption DEF Slots
<1>2. \A s \in Nat : Resume(t) <= s <=> range[t].start <= s /\ counted[t] < s
  BY <1>1 DEF Resume, Max2
<1> QED BY <1>1, <1>2 DEF WorkOf, Streaming, Promised

LEMMA WorkFrame ==
  ASSUME NEW u \in Threads, UNCHANGED <<pc[u], range[u], counted[u], reply[u]>>
  PROVE  WorkOf(u)' = WorkOf(u)
BY DEF WorkOf

-----------------------------------------------------------------------------
(* How steps of this module read as steps of SlotOwnership.                *)

LEMMA ReadsAsMove ==
  ASSUME NEW t \in Threads, TypeOK, TypeOK',
         \A u \in Threads : WorkOf(u) \subseteq Slots /\ WorkOf(u)' \subseteq Slots,
         \A u \in Threads \ {t} : WorkOf(u)' = WorkOf(u) /\ touched'[u] = touched[u],
         WorkOf(t)' \subseteq WorkOf(t),
         touched[t] \subseteq touched'[t], touched'[t] \subseteq touched[t] \cup WorkOf(t),
         processed \subseteq processed', processed' \subseteq processed \cup (WorkOf(t) \cap touched'[t]),
         \A u \in Threads : pc'[u] = "stopped" <=> pc[u] = "stopped"
  PROVE  Owners!Move(t)
<1> DEFINE done == processed' \ processed
<1>1. done \in SUBSET (WorkOf(t) \cap touched'[t]) /\ processed' = processed \cup done
  OBVIOUS
<1> QED BY <1>1 DEF Owners!Move, Owners!OnlyChanges, TypeOK

LEMMA MoveExclusive ==
  ASSUME Owners!Exclusive, NEW t \in Threads, Owners!Move(t)
  PROVE  Owners!Exclusive'
<1> USE DEF Owners!Exclusive, Owners!Move, Owners!OnlyChanges
<1>1. Owners!TypeOK'
  BY DEF Owners!TypeOK
<1>2. Owners!OneOwner'
  BY DEF Owners!OneOwner, Owners!TypeOK
<1>3. Owners!FreshWork'
  BY DEF Owners!FreshWork, Owners!OneOwner, Owners!TypeOK
<1>4. Owners!ExclusiveEmission'
  BY DEF Owners!ExclusiveEmission, Owners!FreshWork, Owners!TypeOK
<1> QED BY <1>1, <1>2, <1>3, <1>4

LEMMA HandoverExclusive ==
  ASSUME Owners!Exclusive, NEW v \in Threads, NEW t \in Threads, Owners!Handover(v, t)
  PROVE  Owners!Exclusive'
<1> USE DEF Owners!Exclusive, Owners!Handover, Owners!OnlyChanges
<1>1. Owners!TypeOK'
  BY DEF Owners!TypeOK
<1>2. Owners!OneOwner'
  BY DEF Owners!OneOwner, Owners!TypeOK
<1>3. Owners!FreshWork'
  BY DEF Owners!FreshWork, Owners!TypeOK
<1>4. Owners!ExclusiveEmission'
  BY DEF Owners!ExclusiveEmission
<1> QED BY <1>1, <1>2, <1>3, <1>4

LEMMA DieExclusive ==
  ASSUME Owners!Exclusive, NEW t \in Threads, Owners!Die(t)
  PROVE  Owners!Exclusive'
<1> USE DEF Owners!Exclusive, Owners!Die, Owners!OnlyChanges
<1>1. Owners!TypeOK'
  BY DEF Owners!TypeOK
<1>2. Owners!OneOwner'
  BY DEF Owners!OneOwner, Owners!TypeOK
<1>3. Owners!FreshWork'
  BY DEF Owners!FreshWork, Owners!OneOwner, Owners!TypeOK
<1>4. Owners!ExclusiveEmission'
  BY DEF Owners!ExclusiveEmission, Owners!FreshWork, Owners!TypeOK
<1> QED BY <1>1, <1>2, <1>3, <1>4

\* A thread another thread's step leaves alone, or whose proposal it turns down.
Bystander(u) ==
  /\ pc'[u] = pc[u] /\ range'[u] = range[u] /\ counted'[u] = counted[u]
  /\ pass'[u] = pass[u] /\ touched'[u] = touched[u]
  /\ \/ reply'[u] = reply[u]
     \/ pc[u] = "await" /\ reply[u].kind # "granted" /\ reply'[u].kind # "granted"

LEMMA BystanderKeeps ==
  ASSUME NEW u \in Threads, Bystander(u), Streams(u), Untouched(u)
  PROVE  WorkOf(u)' = WorkOf(u) /\ Streams(u)' /\ Untouched(u)'
<1>1. WorkOf(u)' = WorkOf(u)
  BY DEF Bystander, WorkOf, Streaming
<1>2. Resume(u)' = Resume(u)
  BY DEF Bystander, Resume
<1>3. Streams(u)'
  BY DEF Bystander, Streams
<1>4. Untouched(u)'
  BY <1>1, <1>2 DEF Bystander, Untouched
<1> QED BY <1>1, <1>3, <1>4

\* What is to be shown of a step of one thread that hands nothing over.
Moves(t) ==
  /\ Streams(t)' /\ Untouched(t)'
  /\ WorkOf(t)' \subseteq WorkOf(t)
  /\ touched[t] \subseteq touched'[t] /\ touched'[t] \subseteq touched[t] \cup WorkOf(t)
  /\ processed \subseteq processed' /\ processed' \subseteq processed \cup (WorkOf(t) \cap touched'[t])
  /\ pc[t] # "stopped" /\ pc'[t] # "stopped"

LEMMA LocalStep ==
  ASSUME StealInv, TypeInv', NEW t \in Threads,
         \A u \in Threads \ {t} : Bystander(u), Moves(t)
  PROVE  Owners!Move(t) /\ StealInv'
<1>1. \A u \in Threads \ {t} : WorkOf(u)' = WorkOf(u) /\ Streams(u)' /\ Untouched(u)'
  BY BystanderKeeps DEF StealInv
<1>2. \A u \in Threads : WorkOf(u) \subseteq Slots /\ WorkOf(u)' \subseteq Slots
  BY DEF WorkOf
<1>3. \A u \in Threads \ {t} : touched'[u] = touched[u] /\ pc'[u] = pc[u]
  BY DEF Bystander
<1>4. Owners!Move(t)
  BY <1>1, <1>2, <1>3, ReadsAsMove DEF Moves, StealInv, TypeInv
<1>5. Owners!Exclusive'
  BY <1>4, MoveExclusive DEF StealInv
<1> QED BY <1>1, <1>4, <1>5 DEF Moves, StealInv

\* Steps that touch nothing and leave the work of the thread as it is.
LEMMA NothingDone ==
  ASSUME NEW t \in Threads, Untouched(t), WorkOf(t)' = WorkOf(t), Streams(t)',
         WorkOf(t) = {} \/ pc[t] \notin Streaming \/ (pc'[t] \in Streaming /\ Resume(t)' = Resume(t)),
         touched'[t] = touched[t], processed' = processed, pc[t] # "stopped", pc'[t] # "stopped"
  PROVE  Moves(t)
<1>1. Untouched(t)'
  BY DEF Untouched
<1> QED BY <1>1 DEF Moves
-----------------------------------------------------------------------------
(* The steps of one thread, group by group.                                *)

\* A proposal is turned down.
LEMMA TurnDownMoves ==
  ASSUME StealInv, NEW t \in Threads, inbox[t] # <<>>, pc[t] # "stopped",
         reply' = [reply EXCEPT ![Head(inbox[t])] = Refused],
         UNCHANGED <<pc, range, counted, pass, history>>
  PROVE  Moves(t) /\ \A u \in Threads \ {t} : Bystander(u)
<1> DEFINE thief == Head(inbox[t])
<1>1. thief \in Threads /\ pc[thief] = "await" /\ reply[thief].kind = "pending"
  BY InboxHead DEF StealInv, TypeInv
<1>2. reply'[thief].kind = "refused" /\ \A u \in Threads \ {thief} : reply'[u] = reply[u]
  BY <1>1 DEF StealInv, TypeInv, TypeOK, Refused, NoReply
<1>3. \A u \in Threads : Bystander(u)
  BY <1>1, <1>2 DEF Bystander, history
<1>4. WorkOf(t)' = WorkOf(t) /\ Streams(t)' /\ Untouched(t)'
  BY <1>3, BystanderKeeps DEF StealInv
<1> QED BY <1>3, <1>4 DEF Moves, history

LEMMA RefuseMoves ==
  ASSUME StealInv, NEW t \in Threads, Refuse(t)
  PROVE  Moves(t) /\ \A u \in Threads \ {t} : Bystander(u)
BY TurnDownMoves DEF Refuse, local

\* A thread that is done with its range and has no grant has no work.
LEMMA IdleMoves ==
  ASSUME StealInv, TypeInv', NEW t \in Threads,
         CompleteRange(t) \/ Scan(t) \/ Ask(t) \/ Denied(t) \/ Retire(t)
  PROVE  Moves(t) /\ \A u \in Threads \ {t} : Bystander(u)
<1>1. /\ pc \in [Threads -> Labels] /\ reply \in [Threads -> Replies] /\ pass \in [Threads -> Passes]
      /\ TypeOK /\ TypeOK' /\ Mailbox
  BY DEF StealInv, TypeInv, TypeOK
<1>2. /\ pc[t] \in {"complete", "drain", "hunt"} \/ (pc[t] = "await" /\ reply[t].kind # "granted")
      /\ pc'[t] \in {"drain", "hunt", "retired"} \/ (pc'[t] = "await" /\ reply'[t].kind # "granted")
  BY <1>1 DEF CompleteRange, Scan, Ask, Denied, Retire, Leave, Go, Pending, NoReply
<1>3. UNCHANGED <<range, counted, touched, processed>>
  BY DEF CompleteRange, Scan, Ask, Denied, Retire, history
<1>4. \A u \in Threads \ {t} : pc'[u] = pc[u] /\ pass'[u] = pass[u]
  BY <1>1 DEF CompleteRange, Scan, Ask, Denied, Retire, Leave, Go
<1>5. ASSUME NEW u \in Threads, u # t
      PROVE  reply'[u] = reply[u] \/ (pc[u] = "await" /\ reply[u].kind # "granted" /\ reply'[u].kind # "granted")
  <2>1. CASE Retire(t)
    <3>1. reply'[u] = reply[u] \/ (reply'[u] = Dropped /\ pc[u] = "await" /\ reply[u].kind = "pending")
      BY <1>1, <2>1 DEF Retire, Leave, DropProposals, Mailbox
    <3> QED BY <3>1 DEF Dropped, NoReply
  <2>2. CASE ~Retire(t)
    BY <1>1, <1>5, <2>2 DEF CompleteRange, Scan, Ask, Denied, shared
  <2> QED BY <2>1, <2>2
<1>6. \A u \in Threads \ {t} : Bystander(u)
  BY <1>3, <1>4, <1>5 DEF Bystander
<1>7. WorkOf(t) = {} /\ WorkOf(t)' = {}
  BY <1>2 DEF WorkOf, Streaming, Promised
<1>8. Streams(t)'
  BY <1>2 DEF Streams
<1> QED BY <1>2, <1>3, <1>6, <1>7, <1>8, NothingDone DEF StealInv

\* A grant is work from the moment it is made; adopting it only moves it.
LEMMA AdoptMoves ==
  ASSUME StealInv, TypeInv', NEW t \in Threads, AdoptStart(t) \/ AdoptNext(t) \/ AdoptEnd(t)
  PROVE  Moves(t) /\ \A u \in Threads \ {t} : Bystander(u)
<1>1. /\ pc \in [Threads -> Labels] /\ reply \in [Threads -> Replies] /\ range \in [Threads -> Ranges]
      /\ counted \in [Threads -> Positions]
  BY DEF StealInv, TypeInv, TypeOK
<1>2. pc[t] \in Promised /\ reply[t].kind = "granted" /\ reply[t].start \in Nat /\ Slots \subseteq Nat
  BY Numbers, RangeAssumption DEF StealInv, TypeInv, AllBounded, Bounds, AdoptStart, AdoptNext, AdoptEnd,
     Promised, Adopting, Slots
<1>3. pc'[t] # "stopped" /\ UNCHANGED <<pass, touched, processed>>
  BY <1>1 DEF AdoptStart, AdoptNext, AdoptEnd, Go, history
<1>4. \A u \in Threads \ {t} : Bystander(u)
  BY <1>1 DEF AdoptStart, AdoptNext, AdoptEnd, Go, history, Bystander
<1>5. WorkOf(t)' = WorkOf(t) /\ Streams(t)'
  <2>1. CASE AdoptStart(t) \/ AdoptNext(t)
    <3>1. pc'[t] \in Promised /\ UNCHANGED <<range, counted, reply>>
      BY <1>1, <2>1 DEF AdoptStart, AdoptNext, Go, Promised
    <3> QED BY <1>2, <3>1 DEF WorkOf, Streams, Streaming, Promised
  <2>2. CASE AdoptEnd(t)
    <3>1. /\ pc'[t] = "boundary" /\ counted'[t] = reply[t].start - 1
          /\ range'[t].start = reply[t].start /\ range'[t].end = reply[t].end
      BY <1>1, <2>2 DEF AdoptEnd, Go
    <3>2. Streams(t)'
      BY <1>2, <3>1 DEF Streams
    <3>3. \A s \in Nat : reply[t].start <= s => counted'[t] < s
      BY <1>2, <3>1
    <3>4. WorkOf(t)' = WorkOf(t)
      BY <1>2, <3>1, <3>3 DEF WorkOf, Streaming, Promised
    <3> QED BY <3>2, <3>4
  <2> QED BY <2>1, <2>2
<1>6. pc[t] \notin Streaming /\ pc[t] # "stopped"
  BY <1>2 DEF Promised, Streaming
<1> QED BY <1>3, <1>4, <1>5, <1>6, NothingDone DEF StealInv

\* Steps that leave range and counter alone and keep streaming.
LEMMA PassMoves ==
  ASSUME StealInv, TypeInv', NEW t \in Threads,
         \/ Spawn(t) \/ StartPass(t) \/ SkipEpoch(t) \/ Read(t) \/ BackoffEnds(t)
         \/ PastSlice(t) \/ EndOfStream(t)
  PROVE  Moves(t) /\ \A u \in Threads \ {t} : Bystander(u)
<1>1. /\ pc \in [Threads -> Labels] /\ pass \in [Threads -> Passes] /\ TypeOK
      /\ Streams(t) /\ Untouched(t)
  BY DEF StealInv, TypeInv, TypeOK
<1>2. /\ UNCHANGED <<range, counted, reply, touched, processed>>
      /\ \A u \in Threads \ {t} : pc'[u] = pc[u] /\ pass'[u] = pass[u]
  BY <1>1 DEF Spawn, StartPass, SkipEpoch, Read, BackoffEnds, PastSlice, EndOfStream, LeaveEpoch,
     Go, shared, history
<1>3. pc[t] \in Streaming /\ pc'[t] \in Streaming
  BY <1>1 DEF Spawn, StartPass, SkipEpoch, AtEpoch, Read, BackoffEnds, PastSlice, EndOfStream,
     LeaveEpoch, HasBatch, Go, Streaming
<1>4. WorkOf(t)' = WorkOf(t) /\ Resume(t)' = Resume(t)
  BY <1>2, <1>3 DEF WorkOf, Resume, Streaming, Promised
<1>5. /\ counted[t] \in Nat /\ range[t].start \in Nat /\ pass[t].epoch \in Nat
      /\ EpochFirst(pass[t].epoch) \in Nat /\ EpochLast(pass[t].epoch) \in Nat
      /\ EpochFirst(pass[t].epoch + 1) \in Nat
      /\ EpochFirst(pass[t].epoch) <= EpochLast(pass[t].epoch)
      /\ EpochLast(pass[t].epoch) < EpochFirst(pass[t].epoch + 1)
  <2>1. counted[t] \in Nat /\ range[t].start \in Nat /\ pass[t].epoch \in Nat
    BY <1>1, Numbers
  <2>2. EpochLast(pass[t].epoch) < EpochFirst(pass[t].epoch + 1)
    BY <2>1, EpochOrder
  <2> QED BY <2>1, <2>2, EpochAssumption DEF EpochFirst, EpochLast
<1>6. CASE Spawn(t) \/ BackoffEnds(t)
  <2>1. pc[t] \in {"unspawned", "backoff"} /\ pc'[t] = "boundary"
    BY <1>1, <1>6 DEF Spawn, BackoffEnds, Go
  <2>2. Streams(t)'
    BY <1>1, <1>2, <2>1 DEF Streams
  <2> QED BY <1>2, <1>3, <1>4, <2>1, <2>2, NothingDone DEF StealInv, Bystander
<1>7. CASE StartPass(t)
  <2>1. pc[t] = "boundary" /\ pc'[t] = "epoch" /\ pass'[t].cur = None /\ pass'[t].epoch = EpochOf(range[t].start)
    BY <1>1, <1>7 DEF StartPass, Go, NoPass
  <2>2. EpochFirst(EpochOf(range[t].start)) <= range[t].start /\ EpochOf(range[t].start) \in Nat
    BY <1>5, EpochBounds
  <2>3. EpochFirst(EpochOf(range[t].start)) \in Nat
    BY <2>2, EpochAssumption DEF EpochFirst
  <2>4. counted[t] < Max2(range[t].start, EpochFirst(EpochOf(range[t].start)))
    BY <1>1, <1>5, <2>1, <2>2, <2>3 DEF Streams, Max2
  <2>5. Streams(t)'
    BY <1>2, <2>1, <2>4 DEF Streams
  <2> QED BY <1>2, <1>3, <1>4, <2>1, <2>5, NothingDone DEF StealInv, Bystander
<1>8. CASE SkipEpoch(t)
  <2>1. /\ pc[t] = "epoch" /\ pc'[t] = "epoch" /\ pass'[t].cur = pass[t].cur
        /\ pass'[t].epoch = pass[t].epoch + 1
    BY <1>1, <1>8 DEF SkipEpoch, AtEpoch, Passes
  <2>2. EpochFirst(pass[t].epoch) <= EpochFirst(pass[t].epoch + 1)
    BY <1>5
  <2>3. counted[t] < Max2(range[t].start, EpochFirst(pass[t].epoch + 1))
    BY <1>1, <1>5, <2>1, <2>2 DEF Streams, Max2
  <2>4. Streams(t)'
    BY <1>1, <1>2, <2>1, <2>3 DEF Streams
  <2> QED BY <1>2, <1>3, <1>4, <2>1, <2>4, NothingDone DEF StealInv, Bystander
<1>9. CASE Read(t)
  <2>1. pc[t] = "loop" /\ pc'[t] = "batch"
    BY <1>1, <1>9 DEF Read, Go
  <2>2. pass'[t].epoch = pass[t].epoch /\ pass'[t].last = pass[t].last
    BY <1>1, <1>9 DEF Read, Passes
  <2>3. Streams(t)'
    BY <1>1, <1>2, <2>1, <2>2 DEF Streams
  <2> QED BY <1>2, <1>3, <1>4, <2>1, <2>3, NothingDone DEF StealInv, Bystander
<1>10. CASE PastSlice(t) \/ EndOfStream(t)
  <2>1. pc[t] = "batch" /\ LeaveEpoch(t)
    BY <1>10 DEF PastSlice, EndOfStream, HasBatch
  <2>2. pc'[t] = "epoch" /\ pass'[t].epoch = pass[t].epoch + 1 /\ pass'[t].cur = pass[t].cur
    BY <1>1, <2>1 DEF LeaveEpoch, Go, Passes
  <2>3. counted[t] < Max2(range[t].start, EpochFirst(pass[t].epoch + 1))
    BY <1>1, <1>5, <2>1 DEF Streams, Max2
  <2>4. Streams(t)'
    BY <1>1, <1>2, <2>1, <2>2, <2>3 DEF Streams
  <2> QED BY <1>2, <1>3, <1>4, <2>1, <2>2, <2>4, NothingDone DEF StealInv, Bystander
<1> QED BY <1>6, <1>7, <1>8, <1>9, <1>10

LEMMA PassEndMoves ==
  ASSUME StealInv, TypeInv', NEW t \in Threads, PastRange(t) \/ FinishEpochs(t)
  PROVE  Moves(t) /\ \A u \in Threads \ {t} : Bystander(u)
<1>1. /\ pc \in [Threads -> Labels] /\ pass \in [Threads -> Passes]
  BY DEF StealInv, TypeInv, TypeOK
<1>2. /\ pc[t] # "stopped" /\ pc'[t] = "complete"
      /\ UNCHANGED <<range, counted, reply, touched, processed>>
      /\ \A u \in Threads \ {t} : pc'[u] = pc[u] /\ pass'[u] = pass[u]
  BY <1>1 DEF PastRange, FinishEpochs, HasBatch, Go, shared, history
<1>3. WorkOf(t)' = {} /\ Streams(t)' /\ Untouched(t)'
  BY <1>2 DEF WorkOf, Streams, Untouched, Streaming, Promised
<1> QED BY <1>2, <1>3 DEF Moves, Bystander

(***************************************************************************)
(* Steps that move the point a thread resumes at ahead: the slots between  *)
(* leave its work, and nothing behind the new point may be touched.        *)
(***************************************************************************)
LEMMA Forward ==
  ASSUME TypeOK, TypeOK', NEW t \in Threads, Untouched(t),
         pc[t] \in Streaming, pc'[t] \in Streaming, range'[t].end = range[t].end,
         Resume(t) <= Resume(t)',
         touched[t] \subseteq touched'[t], touched'[t] \subseteq touched[t] \cup WorkOf(t),
         \A s \in touched'[t] \ touched[t] : s <= Resume(t)'
  PROVE  WorkOf(t)' \subseteq WorkOf(t) /\ Untouched(t)'
<1>1. /\ counted[t] \in Nat /\ range[t].start \in Nat /\ range[t].end \in Nat /\ Slots \subseteq Nat
  BY Numbers, RangeAssumption DEF Slots
<1>2. counted'[t] \in Nat /\ range'[t].start \in Nat
  <2>1. counted'[t] \in Positions /\ range'[t].start \in Positions
    BY DEF TypeOK, Ranges
  <2> QED BY <2>1, RangeAssumption DEF Positions
<1>3. \A s \in Nat : /\ Resume(t) <= s <=> range[t].start <= s /\ counted[t] < s
                     /\ Resume(t)' <= s <=> range'[t].start <= s /\ counted'[t] < s
  BY <1>1, <1>2 DEF Resume, Max2
<1>4. WorkOf(t) = {s \in Slots : Resume(t) <= s /\ s < range[t].end}
  BY WorkShape
<1>5. WorkOf(t)' = {s \in Slots : Resume(t)' <= s /\ s < range[t].end}
  BY <1>1, <1>3 DEF WorkOf, Streaming, Promised
<1>6. Resume(t) \in Nat /\ Resume(t)' \in Nat
  BY <1>1, <1>2 DEF Resume, Max2
<1>7. WorkOf(t)' \subseteq WorkOf(t)
  <2>1. ASSUME NEW s \in WorkOf(t)' PROVE s \in WorkOf(t)
    <3>1. s \in Slots /\ s \in Nat /\ Resume(t)' <= s /\ s < range[t].end
      BY <1>1, <1>5, <2>1
    <3>2. Resume(t) <= s
      BY <1>6, <3>1
    <3> QED BY <1>4, <3>1, <3>2
  <2> QED BY <2>1
<1>8. ASSUME NEW s \in touched'[t] \cap WorkOf(t)' PROVE s = Resume(t)'
  <2>1. s \in Nat /\ Resume(t)' <= s
    BY <1>1, <1>5, <1>8
  <2>2. CASE s \in touched[t]
    BY <1>6, <1>7, <2>1, <2>2 DEF Untouched
  <2>3. CASE s \notin touched[t]
    BY <1>6, <2>1, <2>3
  <2> QED BY <2>2, <2>3
<1> QED BY <1>7, <1>8 DEF Untouched

LEMMA RestartMoves ==
  ASSUME StealInv, TypeInv', NEW t \in Threads, NEW slot \in Nat, NEW c \in Nat, NEW recycled,
         Restart(t, slot, c, recycled), pc[t] \in Streaming,
         Resume(t) <= ResumeAt(slot, c),
         touched[t] \subseteq touched'[t], touched'[t] \subseteq touched[t] \cup WorkOf(t),
         \A s \in touched'[t] \ touched[t] : s <= ResumeAt(slot, c),
         \A u \in Threads \ {t} : touched'[u] = touched[u],
         UNCHANGED <<reply, processed>>
  PROVE  Moves(t) /\ \A u \in Threads \ {t} : Bystander(u)
<1>1. /\ pc \in [Threads -> Labels] /\ pass \in [Threads -> Passes] /\ range \in [Threads -> Ranges]
      /\ counted \in [Threads -> Positions] /\ TypeOK /\ TypeOK' /\ Untouched(t)
  BY DEF StealInv, TypeInv, TypeOK
<1>2. /\ pc'[t] \in {"boundary", "backoff"} /\ counted'[t] = c
      /\ range'[t].start = ResumeAt(slot, c) /\ range'[t].end = range[t].end
  BY <1>1 DEF Restart, Go, Ranges
<1>3. c < ResumeAt(slot, c) /\ ResumeAt(slot, c) \in Nat
  BY DEF ResumeAt
<1>4. Resume(t)' = ResumeAt(slot, c)
  BY <1>2, <1>3 DEF Resume, Max2
<1>5. Streams(t)'
  BY <1>2, <1>3 DEF Streams
<1>6. pc'[t] \in Streaming
  BY <1>2 DEF Streaming
<1>7. WorkOf(t)' \subseteq WorkOf(t) /\ Untouched(t)'
  BY <1>1, <1>2, <1>4, <1>6, Forward
<1>8. \A u \in Threads \ {t} : Bystander(u)
  BY <1>1 DEF Restart, Go, Bystander
<1>9. pc[t] # "stopped" /\ pc'[t] # "stopped"
  BY <1>6 DEF Streaming
<1> QED BY <1>5, <1>7, <1>8, <1>9 DEF Moves

\* What a failed or interrupted delivery may have touched.
LEMMA DeliveryTouches ==
  ASSUME StealInv, NEW t \in Threads, NEW k \in {None} \cup Blocks \cup Slots, FailedDelivery(t, k)
  PROVE  /\ touched[t] \subseteq touched'[t] /\ touched'[t] \subseteq touched[t] \cup WorkOf(t)
         /\ \A s \in touched'[t] \ touched[t] : s <= pass[t].batch
         /\ \A u \in Threads \ {t} : touched'[u] = touched[u]
<1>1. /\ TypeOK /\ AllBounded /\ touched \in [Threads -> SUBSET Slots] /\ CanProcess(t) /\ Streams(t)
  BY DEF StealInv, TypeInv, TypeOK, FailedDelivery
<1>2. /\ pc[t] = "batch" /\ pass[t].batch \in Slots /\ Slots \subseteq Nat
      /\ counted[t] < pass[t].batch /\ pass[t].batch < range[t].end
      /\ counted[t] \in Nat /\ range[t].start \in Nat /\ range[t].start <= counted[t] + 1
      /\ range[t].end \in Nat /\ pass[t].batch \in Nat
      /\ \A s \in Gap(t, pass[t].batch) : s \in Slots /\ s \in Nat /\ counted[t] < s /\ s < pass[t].batch
  <2>1. /\ pc[t] = "batch" /\ pass[t].batch \in Slots /\ Slots \subseteq Nat
        /\ counted[t] < pass[t].batch /\ pass[t].batch < range[t].end
        /\ \A s \in Gap(t, pass[t].batch) : s \in Slots /\ counted[t] < s /\ s < pass[t].batch
    BY <1>1, BatchBounds, RangeAssumption DEF Slots
  <2>2. /\ counted[t] \in Nat /\ range[t].start \in Nat /\ range[t].end \in Nat
        /\ pass[t].batch \in Nat
    BY <1>1, Numbers
  <2>3. range[t].start <= counted[t] + 1
    BY <1>1, <2>1 DEF Streams
  <2> QED BY <2>1, <2>2, <2>3
<1>3. k \in {None, pass[t].batch} \cup Gap(t, pass[t].batch)
  BY DEF FailedDelivery
<1>4. PICK S : /\ touched' = [touched EXCEPT ![t] = @ \cup {pass[t].batch} \cup S]
               /\ S \subseteq {pass[t].batch} \cup Gap(t, pass[t].batch)
  <2> DEFINE slot == pass[t].batch
             S == Fresh(t, {s \in Gap(t, slot) : s < k} \cup ({k} \ {None}))
  <2>1. touched' = [touched EXCEPT ![t] = @ \cup {slot} \cup S]
    BY DEF FailedDelivery
  <2>2. S \subseteq {slot} \cup Gap(t, slot)
    BY <1>3 DEF Fresh
  <2> QED BY <2>1, <2>2
<1> DEFINE T == {pass[t].batch} \cup S
<1>5. \A s \in T : s \in Slots /\ counted[t] < s /\ s <= pass[t].batch
  <2>1. ASSUME NEW s \in T PROVE s \in Slots /\ counted[t] < s /\ s <= pass[t].batch
    <3>1. CASE s = pass[t].batch
      BY <1>2, <3>1
    <3>2. CASE s \in Gap(t, pass[t].batch)
      BY <1>2, <3>2
    <3> QED BY <1>4, <2>1, <3>1, <3>2
  <2> QED BY <2>1
<1> HIDE DEF T
<1>6. \A s \in T : s \in Slots /\ range[t].start <= s /\ counted[t] < s /\ s < range[t].end
  <2>1. ASSUME NEW s \in T PROVE range[t].start <= s /\ s < range[t].end
    <3>1. s \in Nat /\ counted[t] < s /\ s <= pass[t].batch /\ pass[t].batch \in Nat
      BY <1>2, <1>5, <2>1
    <3> QED BY <1>2, <3>1
  <2> QED BY <1>5, <2>1
<1>7. T \subseteq WorkOf(t)
  BY <1>2, <1>6 DEF WorkOf, Streaming
<1>8. touched'[t] = touched[t] \cup T /\ \A u \in Threads \ {t} : touched'[u] = touched[u]
  BY <1>1, <1>4 DEF T
<1> QED BY <1>5, <1>7, <1>8

LEMMA ErrorMoves ==
  ASSUME StealInv, TypeInv', NEW t \in Threads,
         FetchFails(t) \/ SeekFails(t) \/ ReadFails(t) \/ PrematureEnd(t) \/ HandlerFails(t)
  PROVE  Moves(t) /\ \A u \in Threads \ {t} : Bystander(u)
<1>1. /\ TypeOK /\ AllBounded /\ Streams(t) /\ Bounds(t)
      /\ counted[t] \in Nat /\ range[t].start \in Nat /\ pass[t].cur \in Nat /\ pass[t].batch \in Nat
  BY Numbers DEF StealInv, TypeInv, AllBounded
<1>2. CASE FetchFails(t)
  <2>1. pc[t] = "epoch" /\ Restart(t, AtCurrent(t), counted[t], FALSE) /\ UNCHANGED <<reply, touched, processed>>
    BY <1>2 DEF FetchFails, AtEpoch, history
  <2>2. AtCurrent(t) \in Nat /\ Resume(t) <= ResumeAt(AtCurrent(t), counted[t])
    BY <1>1, <2>1 DEF Streams, Bounds, InPass, AtCurrent, ResumeAt, Resume, Max2
  <2> QED BY <1>1, <2>1, <2>2, RestartMoves DEF Streaming
<1>3. CASE SeekFails(t)
  <2>1. /\ pc[t] = "epoch" /\ Restart(t, LocalStart(t), LocalStart(t) - 1, FALSE)
        /\ UNCHANGED <<reply, touched, processed>>
    BY <1>3 DEF SeekFails, AtEpoch, history
  <2>2. LocalStart(t) \in Nat /\ LocalStart(t) - 1 \in Nat
    BY <1>1, <1>3, LocalBounds, RangeAssumption DEF SeekFails
  <2>3. Resume(t) <= ResumeAt(LocalStart(t), LocalStart(t) - 1)
    BY <1>1, <2>1, <2>2, EpochAssumption DEF Streams, LocalStart, ResumeAt, Resume, Max2, EpochFirst
  <2> QED BY <2>1, <2>2, <2>3, RestartMoves DEF Streaming
<1>4. CASE ReadFails(t)
  <2>1. /\ pc[t] = "loop" /\ UNCHANGED <<reply, touched, processed>>
        /\ \E r \in BOOLEAN : Restart(t, AfterCurrent(t), counted[t], r)
    BY <1>4 DEF ReadFails, history
  <2>2. AfterCurrent(t) \in Nat /\ Resume(t) <= ResumeAt(AfterCurrent(t), counted[t])
    BY <1>1, <2>1 DEF Streams, Bounds, InPass, AfterCurrent, ResumeAt, Resume, Max2
  <2> QED BY <1>1, <2>1, <2>2, RestartMoves DEF Streaming
<1>5. CASE PrematureEnd(t)
  <2>1. /\ pc[t] = "batch" /\ UNCHANGED <<reply, touched, processed>>
        /\ Restart(t, counted[t] + 1, counted[t], FALSE)
    BY <1>5 DEF PrematureEnd, HasBatch, shared, history
  <2>2. counted[t] + 1 \in Nat /\ Resume(t) <= ResumeAt(counted[t] + 1, counted[t])
    BY <1>1, <2>1 DEF Streams, ResumeAt, Resume, Max2
  <2> QED BY <1>1, <2>1, <2>2, RestartMoves DEF Streaming
<1>6. CASE HandlerFails(t)
  <2>1. PICK k \in {None} \cup Blocks \cup Slots :
          FailedDelivery(t, k) /\ Restart(t, pass[t].batch, CountedBefore(t, k), FALSE)
    BY <1>6 DEF HandlerFails
  <2>2. /\ pc[t] = "batch" /\ counted[t] < pass[t].batch
    BY <1>1, <2>1, BatchBounds DEF FailedDelivery
  <2>3. CountedBefore(t, k) \in Nat /\ CountedBefore(t, k) < pass[t].batch
    BY <1>1, <2>1, FailedDeliveryType, RangeAssumption DEF Positions
  <2>4. ResumeAt(pass[t].batch, CountedBefore(t, k)) = pass[t].batch /\ Resume(t) <= pass[t].batch
    BY <1>1, <2>2, <2>3 DEF ResumeAt, Streams, Resume, Max2
  <2>5. UNCHANGED <<reply, processed>>
    BY <1>6 DEF HandlerFails
  <2>6. /\ touched[t] \subseteq touched'[t] /\ touched'[t] \subseteq touched[t] \cup WorkOf(t)
        /\ \A s \in touched'[t] \ touched[t] : s <= pass[t].batch
        /\ \A u \in Threads \ {t} : touched'[u] = touched[u]
    BY <2>1, DeliveryTouches
  <2>7. pc[t] \in Streaming
    BY <2>2 DEF Streaming
  <2>8. /\ Resume(t) <= ResumeAt(pass[t].batch, CountedBefore(t, k))
        /\ \A s \in touched'[t] \ touched[t] : s <= ResumeAt(pass[t].batch, CountedBefore(t, k))
    BY <2>4, <2>6
  <2>9. pass[t].batch \in Nat /\ CountedBefore(t, k) \in Nat /\ Restart(t, pass[t].batch, CountedBefore(t, k), FALSE)
    BY <1>1, <2>1, <2>3
  <2> QED BY <2>5, <2>6, <2>7, <2>8, <2>9, RestartMoves
<1> QED BY <1>2, <1>3, <1>4, <1>5, <1>6

LEMMA OpenEpochMoves ==
  ASSUME StealInv, TypeInv', NEW t \in Threads, OpenEpoch(t)
  PROVE  Moves(t) /\ \A u \in Threads \ {t} : Bystander(u)
<1>1. /\ pc \in [Threads -> Labels] /\ pass \in [Threads -> Passes] /\ counted \in [Threads -> Positions]
      /\ TypeOK /\ TypeOK' /\ AllBounded /\ Streams(t) /\ Untouched(t)
      /\ counted[t] \in Nat /\ range[t].start \in Nat
  BY Numbers DEF StealInv, TypeInv, TypeOK
<1>2. /\ pc[t] = "epoch" /\ pc'[t] = "loop" /\ counted'[t] = LocalStart(t) - 1
      /\ pass'[t].last = LocalLast(t) /\ pass'[t].epoch = pass[t].epoch
      /\ UNCHANGED <<range, reply, touched, processed>>
  BY <1>1 DEF OpenEpoch, AtEpoch, Go, Passes, shared, history
<1>3. /\ LocalStart(t) \in Nat /\ LocalLast(t) \in Nat /\ range[t].start <= LocalStart(t)
      /\ LocalStart(t) <= LocalLast(t) /\ LocalLast(t) <= EpochLast(pass[t].epoch)
      /\ EpochLast(pass[t].epoch) \in Nat /\ EpochFirst(pass[t].epoch) \in Nat
  BY <1>1, LocalBounds DEF OpenEpoch
<1>4. Streams(t)'
  BY <1>2, <1>3 DEF Streams
<1>5. Resume(t)' = LocalStart(t)
  BY <1>1, <1>2, <1>3 DEF Resume, Max2
<1>6. Resume(t) <= LocalStart(t)
  BY <1>1, <1>2, <1>3 DEF Streams, LocalStart, Resume, Max2
<1>7. pc[t] \in Streaming /\ pc'[t] \in Streaming /\ pc[t] # "stopped" /\ pc'[t] # "stopped"
  BY <1>2 DEF Streaming
<1>8. WorkOf(t)' \subseteq WorkOf(t) /\ Untouched(t)'
  BY <1>1, <1>2, <1>5, <1>6, <1>7, Forward
<1>9. \A u \in Threads \ {t} : Bystander(u)
  BY <1>1, <1>2 DEF OpenEpoch, Go, Bystander
<1> QED BY <1>2, <1>4, <1>7, <1>8, <1>9 DEF Moves

LEMMA ProcessMoves ==
  ASSUME StealInv, TypeInv', NEW t \in Threads, Process(t)
  PROVE  Moves(t) /\ \A u \in Threads \ {t} : Bystander(u)
<1> DEFINE slot == pass[t].batch
<1>1. /\ pc \in [Threads -> Labels] /\ pass \in [Threads -> Passes] /\ counted \in [Threads -> Positions]
      /\ touched \in [Threads -> SUBSET Slots]
      /\ TypeOK /\ AllBounded /\ Streams(t) /\ Untouched(t) /\ CanProcess(t)
  BY DEF StealInv, TypeInv, TypeOK, Process
<1>2. /\ pc[t] = "batch" /\ slot \in Slots /\ slot \in Nat /\ Slots \subseteq Nat /\ slot <= pass[t].last
      /\ counted[t] < slot /\ slot < range[t].end /\ range[t].end \in Nat
      /\ counted[t] \in Nat /\ range[t].start \in Nat /\ range[t].start <= counted[t] + 1
      /\ pass[t].last \in Nat /\ pass[t].last <= EpochLast(pass[t].epoch)
      /\ EpochLast(pass[t].epoch) \in Nat
  <2>1. /\ pc[t] = "batch" /\ slot \in Slots /\ counted[t] < slot /\ slot < range[t].end
        /\ counted[t] \in Nat /\ range[t].end \in Nat
    BY <1>1, BatchBounds
  <2>2. range[t].start \in Nat /\ pass[t].last \in Nat /\ EpochLast(pass[t].epoch) \in Nat /\ slot \in Nat
    <3>1. range[t].start \in Nat /\ pass[t].last \in Nat /\ slot \in Nat /\ pass[t].epoch \in Nat
      BY <1>1, Numbers
    <3> QED BY <3>1, EpochAssumption DEF EpochLast
  <2>3. slot <= pass[t].last /\ range[t].start <= counted[t] + 1 /\ pass[t].last <= EpochLast(pass[t].epoch)
    BY <1>1, <2>1 DEF CanProcess, Streams
  <2> QED BY <2>1, <2>2, <2>3, RangeAssumption DEF Slots
<1>3. PICK S : S = {slot} \cup Fresh(t, Gap(t, slot))
  OBVIOUS
<1>4. \A s \in S : s \in Slots /\ s \in Nat /\ counted[t] < s /\ s <= slot
  <2>1. \A s \in Gap(t, slot) : s \in Slots /\ counted[t] < s /\ s < slot
    BY <1>1, BatchBounds
  <2>2. ASSUME NEW s \in S PROVE s \in Slots /\ s \in Nat /\ counted[t] < s /\ s <= slot
    <3>1. CASE s = slot
      BY <1>2, <3>1
    <3>2. CASE s \in Gap(t, slot)
      <4>1. s \in Slots /\ counted[t] < s /\ s < slot /\ s \in Nat
        BY <1>2, <2>1, <3>2
      <4> QED BY <1>2, <4>1
    <3> QED BY <1>3, <2>2, <3>1, <3>2 DEF Fresh
  <2> QED BY <2>2
<1>5. S \subseteq WorkOf(t)
  <2>1. ASSUME NEW s \in S PROVE s \in Slots /\ range[t].start <= s /\ counted[t] < s /\ s < range[t].end
    <3>1. s \in Slots /\ s \in Nat /\ counted[t] < s /\ s <= slot
      BY <1>4, <2>1
    <3> QED BY <1>2, <3>1
  <2> QED BY <1>2, <2>1 DEF WorkOf, Streaming
<1>6. touched'[t] = touched[t] \cup S /\ \A u \in Threads \ {t} : touched'[u] = touched[u]
  <2>1. touched' = [touched EXCEPT ![t] = @ \cup S]
    BY <1>3 DEF Process
  <2> QED BY <1>1, <2>1
<1>7. processed' = processed \cup {slot} /\ slot \in S
  BY <1>3 DEF Process
<1>8. /\ counted'[t] = slot /\ range' = range /\ reply' = reply
      /\ \A u \in Threads \ {t} : pc'[u] = pc[u] /\ pass'[u] = pass[u] /\ counted'[u] = counted[u]
  BY <1>1 DEF Process, Go
<1>9. \/ slot = range[t].end - 1 /\ pc'[t] = "complete"
      \/ pc'[t] = "loop" /\ pass'[t].epoch = pass[t].epoch /\ pass'[t].last = pass[t].last
  BY <1>1 DEF Process, Go, Passes
<1>10. Streams(t)'
  BY <1>2, <1>8, <1>9 DEF Streams
<1>11. WorkOf(t)' \subseteq {s \in WorkOf(t) : slot < s}
  <2>1. ASSUME NEW s \in WorkOf(t)' PROVE s \in WorkOf(t) /\ slot < s
    <3>1. s \in Slots /\ s \in Nat /\ range[t].start <= s /\ slot < s /\ s < range[t].end
      BY <1>2, <1>8, <1>9, <2>1 DEF WorkOf, Streaming, Promised
    <3>2. counted[t] < s
      BY <1>2, <3>1
    <3> QED BY <1>2, <3>1, <3>2 DEF WorkOf, Streaming
  <2> QED BY <2>1
<1>12. Resume(t) <= slot /\ Resume(t) \in Nat
  BY <1>2 DEF Resume, Max2
<1>13. Untouched(t)'
  <2>1. ASSUME NEW s \in touched'[t] \cap WorkOf(t)' PROVE FALSE
    <3>1. s \in WorkOf(t) /\ slot < s /\ s \in Nat
      BY <1>2, <1>11, <2>1 DEF WorkOf
    <3>2. s \in touched[t]
      BY <1>2, <1>4, <1>6, <2>1, <3>1
    <3>3. s = Resume(t)
      BY <1>1, <3>1, <3>2 DEF Untouched
    <3> QED BY <1>2, <1>12, <3>1, <3>3
  <2> QED BY <2>1 DEF Untouched
<1>14. \A u \in Threads \ {t} : Bystander(u)
  BY <1>6, <1>8 DEF Bystander
<1> QED BY <1>2, <1>5, <1>6, <1>7, <1>9, <1>10, <1>11, <1>13, <1>14 DEF Moves

\* A task that stops takes its work with it.
LEMMA DeathStep ==
  ASSUME StealInv, TypeInv', NEW t \in Threads,
         PollShutdown(t) \/ HandlerInterrupts(t)
  PROVE  Owners!Die(t) /\ StealInv'
<1>1. /\ pc \in [Threads -> Labels] /\ pass \in [Threads -> Passes] /\ reply \in [Threads -> Replies]
      /\ touched' \in [Threads -> SUBSET Slots] /\ TypeOK /\ TypeOK' /\ Mailbox
  BY DEF StealInv, TypeInv, TypeOK
<1>2. Leave(t, "stopped") /\ UNCHANGED <<range, counted, processed>>
  BY DEF PollShutdown, HandlerInterrupts, history
<1>3. /\ touched[t] \subseteq touched'[t] /\ touched'[t] \subseteq touched[t] \cup WorkOf(t)
      /\ \A u \in Threads \ {t} : touched'[u] = touched[u]
  <2>1. CASE PollShutdown(t)
    BY <2>1 DEF PollShutdown, history
  <2>2. CASE HandlerInterrupts(t)
    <3>1. PICK k \in {None} \cup Blocks \cup Slots : FailedDelivery(t, k)
      BY <2>2 DEF HandlerInterrupts
    <3> QED BY <3>1, DeliveryTouches
  <2> QED BY <2>1, <2>2
<1>4. pc'[t] = "stopped" /\ \A u \in Threads \ {t} : pc'[u] = pc[u] /\ pass'[u] = pass[u]
  BY <1>1, <1>2 DEF Leave, Go
<1>5. ASSUME NEW u \in Threads, u # t
      PROVE  reply'[u] = reply[u] \/ (pc[u] = "await" /\ reply[u].kind # "granted" /\ reply'[u].kind # "granted")
  <2>1. reply'[u] = reply[u] \/ (reply'[u] = Dropped /\ pc[u] = "await" /\ reply[u].kind = "pending")
    BY <1>1, <1>2 DEF Leave, DropProposals, Mailbox
  <2> QED BY <2>1 DEF Dropped, NoReply
<1>6. ASSUME NEW u \in Threads, u # t PROVE WorkOf(u)' = WorkOf(u) /\ Streams(u)' /\ Untouched(u)'
  <2>1. Bystander(u)
    BY <1>2, <1>3, <1>4, <1>5, <1>6 DEF Bystander
  <2> QED BY <2>1, BystanderKeeps DEF StealInv
<1>7. WorkOf(t)' = {} /\ Streams(t)' /\ Untouched(t)'
  BY <1>4 DEF WorkOf, Streams, Untouched, Streaming, Promised
<1>8. Owners!Die(t)
  <2>1. [u \in Threads |-> WorkOf(u)]' = [[u \in Threads |-> WorkOf(u)] EXCEPT ![t] = {}]
    BY <1>6, <1>7
  <2>2. {u \in Threads : pc[u] = "stopped"}' = {u \in Threads : pc[u] = "stopped"} \cup {t}
    BY <1>4
  <2> QED BY <1>1, <1>2, <1>3, <2>1, <2>2 DEF Owners!Die, Owners!OnlyChanges
<1>9. Owners!Exclusive'
  BY <1>8, DieExclusive DEF StealInv
<1> QED BY <1>6, <1>7, <1>8, <1>9 DEF StealInv

(***************************************************************************)
(* A grant hands the tail of the victim's work to the thief, which has     *)
(* none; the slot the victim resumes at, the only one it may have touched, *)
(* stays with the victim.                                                  *)
(***************************************************************************)
LEMMA GrantStep ==
  ASSUME StealInv, TypeInv', NEW t \in Threads, Answer(t),
         reply' # [reply EXCEPT ![Head(inbox[t])] = Refused]
  PROVE  Owners!Handover(t, Head(inbox[t])) /\ StealInv'
<1> DEFINE remaining == IF Position(t) < range[t].end THEN range[t].end - Position(t) ELSE 0
           mid == SplitPoint(Position(t), remaining)
<1>1. /\ range \in [Threads -> Ranges] /\ reply \in [Threads -> Replies]
      /\ TypeOK /\ TypeOK' /\ AllBounded /\ Mailbox /\ Streams(t) /\ Untouched(t)
  BY DEF StealInv, TypeInv, TypeOK
<1>0. PICK thief \in Threads : thief = Head(inbox[t])
  BY <1>1, InboxHead DEF Answer
<1>2. thief # t /\ pc[thief] = "await" /\ reply[thief].kind = "pending"
  BY <1>0, <1>1, InboxHead DEF Answer
<1>3. /\ pc[t] \in {"boundary", "batch", "backoff"} /\ ~(remaining < MinSteal)
      /\ reply' = [reply EXCEPT ![thief] = Granted(mid, range[t].end)]
      /\ range' = [range EXCEPT ![t].end = mid]
      /\ UNCHANGED <<pc, counted, pass, touched, processed>>
  BY <1>0 DEF Answer, history
<1>4. /\ Position(t) \in FirstSlot .. EndSlot /\ mid \in FirstSlot .. EndSlot
      /\ Position(t) < mid /\ mid < range[t].end /\ range[t].end \in FirstSlot .. EndSlot
  BY <1>1, <1>3, GrantBounds
<1> HIDE DEF mid, remaining
<1>5. /\ counted[t] \in Nat /\ range[t].start \in Nat /\ mid \in Nat /\ range[t].end \in Nat
      /\ Position(t) \in Nat /\ Slots \subseteq Nat
  BY <1>1, <1>4, Numbers, RangeAssumption DEF Slots
<1>6. Position(t) = Resume(t)
  BY <1>1, <1>3, <1>5 DEF Streams, Position, Resume, Max2
<1>7. /\ reply'[thief].kind = "granted" /\ reply'[thief].start = mid /\ reply'[thief].end = range[t].end
      /\ \A u \in Threads \ {thief} : reply'[u] = reply[u]
  BY <1>1, <1>2, <1>3 DEF Granted
<1>8. /\ range'[t].start = range[t].start /\ range'[t].end = mid
      /\ \A u \in Threads \ {t} : range'[u] = range[u]
  BY <1>1, <1>3 DEF Ranges
<1>9. WorkOf(t) = {s \in Slots : Resume(t) <= s /\ s < range[t].end} /\ WorkOf(thief) = {}
  BY <1>1, <1>2, <1>3, WorkShape DEF Streaming
<1>10. WorkOf(t)' = {s \in Slots : Resume(t) <= s /\ s < mid}
  <2>1. \A s \in Nat : Resume(t) <= s <=> range[t].start <= s /\ counted[t] < s
    BY <1>5 DEF Resume, Max2
  <2>2. WorkOf(t)' = {s \in Slots : range[t].start <= s /\ counted[t] < s /\ s < mid}
    BY <1>3, <1>8 DEF WorkOf, Streaming, Promised
  <2> QED BY <1>5, <2>1, <2>2
<1>11. WorkOf(thief)' = {s \in Slots : mid <= s /\ s < range[t].end}
  <2>1. pc'[thief] = "await"
    BY <1>2, <1>3
  <2> QED BY <1>7, <2>1 DEF WorkOf, Streaming, Promised
<1>12. WorkOf(t)' \subseteq WorkOf(t) /\ WorkOf(thief)' = WorkOf(t) \ WorkOf(t)'
  <2>1. \A s \in Slots : s \in Nat /\ (s < mid => s < range[t].end) /\ (mid <= s => Resume(t) <= s)
                         /\ (mid <= s <=> ~(s < mid))
    <3>1. \A s \in Nat : (s < mid => s < range[t].end) /\ (mid <= s => Position(t) <= s)
                         /\ (mid <= s <=> ~(s < mid))
      BY <1>4, <1>5
    <3> QED BY <1>5, <1>6, <3>1
  <2> QED BY <1>9, <1>10, <1>11, <2>1
<1>13. WorkOf(thief)' \cap touched[t] = {}
  <2>1. ASSUME NEW s \in WorkOf(thief)' \cap touched[t] PROVE FALSE
    <3>1. s \in WorkOf(t) /\ mid <= s /\ s \in Nat
      BY <1>5, <1>11, <1>12, <2>1
    <3>2. s = Position(t)
      BY <1>1, <1>6, <2>1, <3>1 DEF Untouched
    <3> QED BY <1>4, <1>5, <3>1, <3>2
  <2> QED BY <2>1
<1>14. ASSUME NEW u \in Threads, u # t, u # thief PROVE WorkOf(u)' = WorkOf(u) /\ Streams(u)' /\ Untouched(u)'
  <2>1. Bystander(u)
    BY <1>3, <1>7, <1>8, <1>14 DEF Bystander
  <2> QED BY <2>1, BystanderKeeps DEF StealInv
<1>15. Owners!Handover(t, thief)
  <2>1. \A u \in Threads : WorkOf(u)' \subseteq Slots
    BY DEF WorkOf
  <2>2. [u \in Threads |-> WorkOf(u)]' \in [Threads -> SUBSET Slots]
    BY <2>1
  <2>3. \A u \in Threads \ {t, thief} : WorkOf(u)' = WorkOf(u)
    BY <1>14
  <2>4. UNCHANGED <<touched, processed, {u \in Threads : pc[u] = "stopped"}>>
    BY <1>3
  <2> QED BY <1>2, <1>9, <1>12, <1>13, <2>2, <2>3, <2>4 DEF Owners!Handover, Owners!OnlyChanges
<1>16. Owners!Exclusive'
  BY <1>2, <1>15, HandoverExclusive DEF StealInv
<1>17. Streams(t)' /\ Untouched(t)'
  <2>1. Streams(t)'
    BY <1>1, <1>3, <1>8 DEF Streams
  <2>2. Resume(t)' = Resume(t)
    BY <1>3, <1>8 DEF Resume
  <2> QED BY <1>1, <1>3, <1>12, <2>1, <2>2 DEF Untouched
<1>18. Streams(thief)' /\ Untouched(thief)'
  <2>1. touched[thief] \cap WorkOf(t) = {}
    BY <1>2 DEF StealInv, Owners!Exclusive, Owners!FreshWork
  <2>2. touched'[thief] \cap WorkOf(thief)' = {}
    BY <1>3, <1>12, <2>1
  <2>3. pc'[thief] = "await"
    BY <1>2, <1>3
  <2> QED BY <2>2, <2>3 DEF Streams, Untouched
<1>19. \A u \in Threads : Streams(u)' /\ Untouched(u)'
  BY <1>14, <1>17, <1>18
<1> QED BY <1>0, <1>15, <1>16, <1>19 DEF StealInv

-----------------------------------------------------------------------------
(* The invariant, and the first theorem it carries.                        *)

Initial(t) == {s \in Slots : Subrange(t).start <= s /\ s < Subrange(t).end}

LEMMA SubrangeOrder ==
  ASSUME NEW t \in Threads, NEW u \in Threads, t < u
  PROVE  Subrange(t).end <= Subrange(u).start
<1> DEFINE each == (EndSlot - FirstSlot) \div NumThreads
           rest == (EndSlot - FirstSlot) % NumThreads
<1>1. /\ EndSlot - FirstSlot \in Nat /\ NumThreads \in Nat \ {0} /\ t \in Nat /\ u \in Nat
      /\ FirstSlot \in Nat
  BY RangeAssumption, ThreadsAssumption DEF Threads
<1>2. each \in Nat /\ rest \in 0 .. (NumThreads - 1)
  BY <1>1, DivMod
<1>3. /\ Subrange(t).end = FirstSlot + t * each + Min2(t, rest) + each + (IF t < rest THEN 1 ELSE 0)
      /\ Subrange(u).start = FirstSlot + u * each + Min2(u, rest)
  BY DEF Subrange
<1> HIDE DEF each, rest
<1>4. (t + 1) * each <= u * each /\ u * each \in Nat /\ t * each \in Nat /\ (t + 1) * each = t * each + each
  <2>1. t + 1 \in Nat /\ t + 1 <= u
    BY <1>1
  <2>2. (t + 1) * each <= u * each /\ u * each \in Nat /\ (t + 1) * each \in Nat
    BY <1>1, <1>2, <2>1, TimesMonotone
  <2> QED BY <1>1, <1>2, <2>2
<1> QED BY <1>1, <1>2, <1>3, <1>4 DEF Min2

\* generate_subranges: every slot of the run is in exactly one thread's part.
LEMMA SubrangesPartition ==
  /\ \A t, u \in Threads : t # u => Initial(t) \cap Initial(u) = {}
  /\ \A s \in Slots : \E t \in Threads : s \in Initial(t)
<1>1. ASSUME NEW t \in Threads, NEW u \in Threads, t # u PROVE Initial(t) \cap Initial(u) = {}
  <2>1. /\ t \in Nat /\ u \in Nat /\ Slots \subseteq Nat
        /\ Subrange(t).start \in Nat /\ Subrange(t).end \in Nat
        /\ Subrange(u).start \in Nat /\ Subrange(u).end \in Nat
    BY ThreadsNat, SubrangeBounds, RangeAssumption DEF Slots
  <2>2. Subrange(t).end <= Subrange(u).start \/ Subrange(u).end <= Subrange(t).start
    <3>1. t < u \/ u < t
      BY <1>1, <2>1
    <3> QED BY <3>1, SubrangeOrder
  <2>3. ASSUME NEW s \in Initial(t) \cap Initial(u) PROVE FALSE
    <3>1. /\ s \in Nat /\ Subrange(t).start <= s /\ s < Subrange(t).end
          /\ Subrange(u).start <= s /\ s < Subrange(u).end
      BY <2>1, <2>3 DEF Initial
    <3> QED BY <2>1, <2>2, <3>1
  <2> QED BY <2>3
<1>2. ASSUME NEW s \in Slots PROVE \E t \in Threads : s \in Initial(t)
  <2> DEFINE Behind == {n \in Nat : n <= NumThreads - 1 /\ Subrange(NumThreads - 1 - n).start <= s}
  <2>1. NumThreads - 1 \in Nat /\ s \in Nat /\ FirstSlot <= s /\ s < EndSlot
        /\ 0 \in Threads /\ NumThreads - 1 \in Threads
    BY ThreadsAssumption, RangeAssumption DEF Slots, Threads
  <2>2. NumThreads - 1 \in Behind
    BY <2>1, SubrangeBounds
  <2>3. PICK n \in Behind : \A m \in Behind : n <= m
    BY <2>2, LeastElement
  <2> DEFINE t == NumThreads - 1 - n
  <2>4. n \in Nat /\ n <= NumThreads - 1 /\ t \in Threads /\ Subrange(t).start <= s
    BY <2>1, <2>3 DEF Threads
  <2>5. CASE n = 0
    BY <2>1, <2>4, <2>5, SubrangeBounds DEF Initial
  <2>6. CASE n # 0
    <3>1. n - 1 \in Nat /\ n - 1 <= NumThreads - 1 /\ ~(n <= n - 1) /\ NumThreads - 1 - (n - 1) = t + 1
      BY <2>1, <2>4, <2>6
    <3>2. n - 1 \notin Behind
      BY <2>3, <3>1
    <3>3. t + 1 \in Threads
      BY <2>1, <2>4, <2>6 DEF Threads
    <3>4. ~(Subrange(t + 1).start <= s)
      BY <3>1, <3>2
    <3>5. Subrange(t + 1).start = Subrange(t).end /\ Subrange(t + 1).start \in Nat
      BY <2>4, <3>3, SubrangeBounds, RangeAssumption
    <3>6. s < Subrange(t).end
      BY <2>1, <3>4, <3>5
    <3> QED BY <2>4, <3>6 DEF Initial
  <2> QED BY <2>5, <2>6
<1> QED BY <1>1, <1>2

LEMMA StealInit == Init => StealInv
<1> SUFFICES ASSUME Init PROVE StealInv
  OBVIOUS
<1>1. TypeInv /\ TypeOK
  BY TypeInit DEF TypeInv
<1>2. \A t \in Threads : Streams(t) /\ Untouched(t)
  <2>1. TAKE t \in Threads
  <2>2. /\ pc[t] = "unspawned" /\ counted[t] = Subrange(t).start - 1
        /\ range[t].start = Subrange(t).start /\ Subrange(t).start \in Nat /\ touched[t] = {}
    BY SubrangeBounds, RangeAssumption DEF Init
  <2> QED BY <2>2 DEF Streams, Untouched
<1>3. \A t \in Threads : WorkOf(t) = {s \in Slots : Subrange(t).start <= s /\ s < Subrange(t).end}
  <2>1. TAKE t \in Threads
  <2>2. /\ pc[t] = "unspawned" /\ counted[t] = Subrange(t).start - 1 /\ range[t] = Subrange(t)
        /\ Subrange(t).start \in Nat /\ Slots \subseteq Nat
    BY SubrangeBounds, RangeAssumption DEF Init, Slots
  <2>3. \A s \in Slots : Subrange(t).start <= s => counted[t] < s
    BY <2>2
  <2> QED BY <2>2, <2>3 DEF WorkOf, Streaming, Promised
<1>4. Owners!Exclusive
  <2>1. Owners!TypeOK
    BY <1>1 DEF Owners!TypeOK, TypeOK, WorkOf
  <2>2. Owners!OneOwner
    BY <1>3, SubrangesPartition DEF Owners!OneOwner, Initial
  <2>3. Owners!FreshWork /\ Owners!ExclusiveEmission
    BY DEF Init, Owners!FreshWork, Owners!ExclusiveEmission
  <2> QED BY <2>1, <2>2, <2>3 DEF Owners!Exclusive
<1> QED BY <1>1, <1>2, <1>4 DEF StealInv

\* Every step of a thread is a move, a handover or a death.
LEMMA StealStep ==
  ASSUME StealInv, NEW t \in Threads, Step(t) \/ Disturb(t)
  PROVE  /\ StealInv'
         /\ \/ Owners!Move(t)
            \/ Owners!Die(t)
            \/ \E u \in Threads : Owners!Handover(t, u)
<1>1. TypeInv'
  BY StepType, StepMailbox DEF TypeInv, StealInv
<1>2. CASE PollShutdown(t) \/ HandlerInterrupts(t)
  BY <1>1, <1>2, DeathStep
<1>3. CASE Answer(t) /\ reply' # [reply EXCEPT ![Head(inbox[t])] = Refused]
  <2>1. Head(inbox[t]) \in Threads
    BY <1>3, InboxHead DEF Answer, StealInv, TypeInv
  <2> QED BY <1>1, <1>3, <2>1, GrantStep
<1>4. CASE Answer(t) /\ reply' = [reply EXCEPT ![Head(inbox[t])] = Refused]
  <2>1. Refused.kind = "refused" /\ \A a, b : Granted(a, b).kind = "granted"
    BY DEF Refused, NoReply, Granted
  <2>2. Head(inbox[t]) \in Threads /\ reply \in [Threads -> Replies]
    BY <1>4, InboxHead DEF Answer, StealInv, TypeInv, TypeOK
  <2>3. UNCHANGED range
    BY <1>4, <2>1, <2>2 DEF Answer
  <2>4. inbox[t] # <<>> /\ pc[t] # "stopped" /\ UNCHANGED <<pc, counted, pass, history>>
    BY <1>4 DEF Answer
  <2> QED BY <1>1, <1>4, <2>3, <2>4, TurnDownMoves, LocalStep
<1>5. CASE ~PollShutdown(t) /\ ~HandlerInterrupts(t) /\ ~Answer(t)
  <2>1. Moves(t) /\ \A u \in Threads \ {t} : Bystander(u)
    BY <1>1, <1>5, RefuseMoves, IdleMoves, AdoptMoves, PassMoves, PassEndMoves, ErrorMoves,
       OpenEpochMoves, ProcessMoves DEF Step, Disturb
  <2> QED BY <1>1, <2>1, LocalStep
<1> QED BY <1>2, <1>3, <1>4, <1>5

LEMMA StealStutter ==
  ASSUME StealInv, SignalShutdown \/ Audit \/ Terminated \/ UNCHANGED vars
  PROVE  StealInv' /\ UNCHANGED Owners!vars
<1>1. TypeInv'
  BY TypeNext DEF StealInv, Next
<1>2. UNCHANGED <<pc, range, counted, pass, reply, touched, processed>>
  BY DEF SignalShutdown, Audit, Terminated, vars, local, shared, history
<1>3. ASSUME NEW u \in Threads PROVE WorkOf(u)' = WorkOf(u) /\ Streams(u)' /\ Untouched(u)'
  <2>1. Bystander(u)
    BY <1>2 DEF Bystander
  <2> QED BY <2>1, BystanderKeeps DEF StealInv
<1>4. UNCHANGED Owners!vars
  BY <1>2, <1>3 DEF Owners!vars
<1>5. Owners!Exclusive'
  BY <1>4 DEF StealInv, Owners!Exclusive, Owners!TypeOK, Owners!OneOwner, Owners!FreshWork,
     Owners!ExclusiveEmission, Owners!vars
<1> QED BY <1>1, <1>3, <1>4, <1>5 DEF StealInv

LEMMA StealNext == StealInv /\ [Next]_vars => StealInv'
BY StealStep, StealStutter DEF Next

(***************************************************************************)
(* No slot's data reaches the callbacks of two threads, whatever faults    *)
(* occur: restarts, aborted deliveries, lost connections, an index that    *)
(* cannot tell, threads that stop and grants at any quiescent point.       *)
(***************************************************************************)
THEOREM EmissionExclusive == Spec => []ExclusiveEmission
<1>1. StealInv => ExclusiveEmission
  BY DEF StealInv, Owners!Exclusive, ExclusiveEmission
<1> QED BY <1>1, StealInit, StealNext, PTL DEF Spec

-----------------------------------------------------------------------------
(***************************************************************************)
(* What becomes of the blocks of the run: while the index answers the steal *)
(* protocol lets go of none, the ledger and the journal tell the truth     *)
(* about them, and each is counted once.                                   *)
(***************************************************************************)

\* next_present_slot never answers None for want of an index.
IndexAnswers == "index" \notin Faults

\* The slots between two bounds, the second excluded.
Between(lo, hi, s) == lo <= s /\ s < hi

(***************************************************************************)
(* A thread streams past no block of its work: none lies between its       *)
(* counter and where it resumes, none in an epoch it has left, none before *)
(* the block it has read, and its pass reaches the end of its range.       *)
(***************************************************************************)
NoneSkipped(t) ==
  /\ pc[t] \in Streaming =>
       /\ Resume(t) <= range[t].end
       /\ \A b \in Blocks : b <= counted[t] \/ range[t].start <= b
  /\ pc[t] = "epoch" =>
       \A b \in Blocks : Between(Resume(t), range[t].end, b) => EpochFirst(pass[t].epoch) <= b
  /\ pc[t] \in InPass => range[t].end <= EpochLast(pass[t].top) + 1
  /\ pc[t] \in {"loop", "batch"} =>
       \A s \in Slots : s < range[t].end /\ s <= EpochLast(pass[t].epoch) => s <= pass[t].last
  /\ pc[t] = "batch" /\ pass[t].batch # None =>
       \A b \in Blocks : b <= counted[t] \/ pass[t].batch <= b

(***************************************************************************)
(* What the ledger entry of a thread says of its assignment: everything    *)
(* from its start to where the thread resumes is processed, and an entry   *)
(* of a thread without an assignment shows nothing that remains.           *)
(***************************************************************************)
EntryTrue(t) ==
  /\ pc[t] \in Streaming =>
       /\ slice[t].end = range[t].end
       /\ slice[t].start <= slice[t].next /\ slice[t].next <= Resume(t)
       /\ \A b \in Slots \cap Blocks : Between(slice[t].start, Resume(t), b) => b \in processed
  /\ pc[t] = "complete" =>
       /\ slice[t].end = range[t].end /\ counted[t] < range[t].end
       /\ slice[t].start <= slice[t].next
       /\ \A b \in Slots \cap Blocks :
            Between(slice[t].start, range[t].end, b) => b \in processed /\ b <= counted[t]
  /\ pc[t] \in {"drain", "hunt", "await", "adopt_next", "retired"} => slice[t].end <= slice[t].next
  /\ pc[t] \in Adopting => slice[t].start = reply[t].start
  /\ pc[t] = "adopt_end" => slice[t].next = reply[t].start
  /\ reply[t].kind = "granted" => pc[t] \in Promised /\ reply[t].start <= reply[t].end

\* The slots a thread's ledger entry, or a grant on its way, shows as open.
Claim(t) ==
  IF reply[t].kind = "granted" THEN {s \in Slots : Between(reply[t].start, reply[t].end, s)}
  ELSE {s \in Slots : Between(slice[t].next, slice[t].end, s)}

\* The slots a thread will have journaled when its assignment is complete.
Share(t) ==
  {s \in Slots :
     \/ pc[t] \in Streaming \cup {"complete"} /\ Between(slice[t].start, range[t].end, s)
     \/ reply[t].kind = "granted" /\ Between(reply[t].start, reply[t].end, s)}

Journaled == {s \in Slots : \E j \in journal : Between(j.start, j.end, s)}

BlockInv ==
  /\ \A t \in Threads : NoneSkipped(t) /\ EntryTrue(t)
  /\ \A b \in Slots \cap Blocks : b \in processed \/ \E t \in Threads : b \in Claim(t)
  /\ Journaled \cap Blocks \subseteq processed
  /\ (\A t \in Threads : pc[t] # "stopped") =>
       \A b \in Slots \cap Blocks : b \in Journaled \/ \E t \in Threads : b \in Share(t)

LedgerInv == StealInv /\ BlockInv

-----------------------------------------------------------------------------
(* A step read off its effects: what it must do for the thread that takes  *)
(* it, and that it leaves the entries of the others alone.                 *)

LEMMA NextNumbers ==
  ASSUME TypeOK', NEW t \in Threads
  PROVE  /\ range'[t].start \in Nat /\ range'[t].end \in Nat /\ counted'[t] \in Nat
         /\ slice'[t].start \in Nat /\ slice'[t].next \in Nat /\ slice'[t].end \in Nat
         /\ pass'[t].epoch \in Nat /\ pass'[t].top \in Nat /\ pass'[t].last \in Nat
         /\ pass'[t].batch \in Nat
<1>1. Positions \subseteq Nat
  BY RangeAssumption DEF Positions
<1>2. range'[t] \in Ranges /\ counted'[t] \in Positions /\ slice'[t] \in Slices /\ pass'[t] \in Passes
  BY DEF TypeOK
<1> QED BY <1>1, <1>2 DEF Ranges, Slices, Passes

LEMMA SlotsNat == Slots \subseteq Nat /\ Blocks \subseteq Nat /\ FirstSlot \in Nat /\ EndSlot \in Nat
BY RangeAssumption, BlocksAssumption DEF Slots

\* A block between where a thread resumes and the end of its range is its work.
LEMMA BlockAhead ==
  ASSUME TypeOK, AllBounded, NEW t \in Threads, NEW b \in Blocks, Between(Resume(t), range[t].end, b)
  PROVE  /\ b \in Slots /\ b \in Nat /\ counted[t] < b /\ range[t].start <= b /\ b < range[t].end
         /\ range[t].end <= EndSlot
<1>1. b \in Nat /\ counted[t] \in Nat /\ range[t].start \in Nat /\ range[t].end \in Nat
  BY SlotsNat, Numbers
<1>2. counted[t] < b /\ range[t].start <= b /\ b < range[t].end
  BY <1>1 DEF Between, Resume, Max2
<1>3. FirstSlot <= range[t].start /\ range[t].end <= EndSlot
  <2>1. range[t].end \in Positions
    BY DEF TypeOK, Ranges
  <2> QED BY <2>1, RangeAssumption DEF AllBounded, Bounds, Positions
<1>4. b \in FirstSlot .. EndSlot - 1
  BY <1>1, <1>2, <1>3, SlotsNat
<1> QED BY <1>1, <1>2, <1>3, <1>4 DEF Slots

\* A thread that is not the one to step: what of it can change is a reply that grants nothing.
Aside(u) == Bystander(u) /\ slice'[u] = slice[u]

LEMMA AsideKeeps ==
  ASSUME NEW u \in Threads, Aside(u), NoneSkipped(u), EntryTrue(u), processed \subseteq processed'
  PROVE  NoneSkipped(u)' /\ EntryTrue(u)' /\ Claim(u)' = Claim(u) /\ Share(u)' = Share(u)
<1>1. Resume(u)' = Resume(u)
  BY DEF Aside, Bystander, Resume
<1>2. NoneSkipped(u)'
  BY <1>1 DEF Aside, Bystander, NoneSkipped
<1>3. EntryTrue(u)'
  <2>1. /\ pc'[u] = pc[u] /\ slice'[u] = slice[u] /\ range'[u] = range[u] /\ counted'[u] = counted[u]
        /\ pc[u] \in Adopting => reply'[u] = reply[u]
        /\ reply'[u].kind = "granted" => reply'[u] = reply[u]
    BY DEF Aside, Bystander, Adopting
  <2>2. pc[u] = "adopt_end" => pc[u] \in Adopting
    BY DEF Adopting
  <2> QED BY <1>1, <2>1, <2>2 DEF EntryTrue
<1>4. Claim(u)' = Claim(u) /\ Share(u)' = Share(u)
  BY DEF Aside, Bystander, Claim, Share
<1> QED BY <1>2, <1>3, <1>4

\* What a step keeps of the thread that takes it.
Keeps(t) ==
  /\ NoneSkipped(t)' /\ EntryTrue(t)'
  /\ Claim(t) \cap Blocks \subseteq processed' \cup Claim(t)'
  /\ pc'[t] = "stopped" \/ Share(t) \cap Blocks \subseteq Share(t)' \cup Journaled'
  /\ processed \subseteq processed'
  /\ Journaled \subseteq Journaled' /\ Journaled' \cap Blocks \subseteq processed'
  /\ pc[t] \notin Gone

LEMMA KeepStep ==
  ASSUME BlockInv, NEW t \in Threads, Keeps(t), \A u \in Threads \ {t} : Aside(u)
  PROVE  BlockInv'
<1>1. \A u \in Threads \ {t} : /\ NoneSkipped(u)' /\ EntryTrue(u)'
                               /\ Claim(u)' = Claim(u) /\ Share(u)' = Share(u) /\ pc'[u] = pc[u]
  BY AsideKeeps DEF BlockInv, Keeps, Aside, Bystander
<1>2. ASSUME NEW b \in Slots \cap Blocks PROVE b \in processed' \/ \E u \in Threads : b \in Claim(u)'
  <2>1. CASE b \in processed
    BY <2>1 DEF Keeps
  <2>2. CASE \E u \in Threads : b \in Claim(u)
    BY <1>1, <2>2 DEF Keeps
  <2> QED BY <2>1, <2>2 DEF BlockInv
<1>3. ASSUME NEW b \in Slots \cap Blocks, \A u \in Threads : pc'[u] # "stopped"
      PROVE  b \in Journaled' \/ \E u \in Threads : b \in Share(u)'
  <2>1. \A u \in Threads : pc[u] # "stopped"
    BY <1>1, <1>3 DEF Keeps, Gone
  <2>2. CASE b \in Journaled
    BY <2>2 DEF Keeps
  <2>3. CASE \E u \in Threads : b \in Share(u)
    BY <1>1, <1>3, <2>3 DEF Keeps
  <2> QED BY <2>1, <2>2, <2>3 DEF BlockInv
<1> QED BY <1>1, <1>2, <1>3 DEF BlockInv, Keeps

(***************************************************************************)
(* A step of the stream: the assignment stays, the thread may resume       *)
(* farther ahead, with no block in between.                                *)
(***************************************************************************)
LEMMA StreamKeeps ==
  ASSUME StealInv, BlockInv, NEW t \in Threads, TypeOK', NoneSkipped(t)',
         pc[t] \in Streaming, pc'[t] \in Streaming,
         UNCHANGED <<slice, reply, journal, processed>>, range'[t].end = range[t].end,
         \A b \in Blocks : Between(Resume(t), Resume(t)', b) => b \notin Slots,
         Resume(t) <= Resume(t)'
  PROVE  Keeps(t)
<1>1. EntryTrue(t) /\ TypeOK
  BY DEF BlockInv, StealInv, TypeInv
<1>2. pc'[t] \notin Adopting /\ pc[t] \notin Gone /\ reply[t].kind # "granted"
      /\ pc[t] \notin Promised /\ pc'[t] \notin {"complete", "drain", "hunt", "await", "adopt_next", "adopt_end", "retired"}
  BY <1>1 DEF EntryTrue, Streaming, Promised, Adopting, Gone
<1>3. /\ slice[t].start \in Nat /\ slice[t].next \in Nat /\ counted[t] \in Nat /\ range[t].start \in Nat
      /\ counted'[t] \in Nat /\ range'[t].start \in Nat
  BY <1>1, Numbers, NextNumbers
<1>4. Resume(t) \in Nat /\ Resume(t)' \in Nat
  BY <1>3 DEF Resume, Max2
<1>5. ASSUME NEW b \in Slots \cap Blocks, Between(slice[t].start, Resume(t)', b) PROVE b \in processed
  <2>1. b \in Nat
    BY SlotsNat
  <2>2. Between(slice[t].start, Resume(t), b) \/ Between(Resume(t), Resume(t)', b)
    BY <1>3, <1>4, <1>5, <2>1 DEF Between
  <2> QED BY <1>1, <2>2 DEF EntryTrue
<1>6. EntryTrue(t)'
  <2>1. slice[t].end = range'[t].end /\ slice[t].start <= slice[t].next /\ slice[t].next <= Resume(t)'
    BY <1>1, <1>3, <1>4 DEF EntryTrue
  <2> QED BY <1>2, <1>5, <2>1 DEF EntryTrue
<1>7. Claim(t)' = Claim(t) /\ Share(t)' = Share(t) /\ Journaled' = Journaled
  BY DEF Claim, Share, Journaled
<1> QED BY <1>2, <1>6, <1>7 DEF Keeps, BlockInv

LEMMA AsideOthers ==
  ASSUME NEW t \in Threads, \A u \in Threads \ {t} : Bystander(u), UNCHANGED slice
  PROVE  \A u \in Threads \ {t} : Aside(u)
BY DEF Aside

\* Steps of the stream that leave range and counter alone.
LEMMA PassKeeps ==
  ASSUME StealInv, BlockInv, StealInv', IndexAnswers, NEW t \in Threads,
         \/ Spawn(t) \/ StartPass(t) \/ SkipEpoch(t) \/ Read(t) \/ BackoffEnds(t)
         \/ PastSlice(t) \/ EndOfStream(t)
  PROVE  Keeps(t) /\ \A u \in Threads \ {t} : Aside(u)
<1>1. /\ pc \in [Threads -> Labels] /\ pass \in [Threads -> Passes] /\ TypeOK /\ TypeOK' /\ AllBounded
      /\ Streams(t) /\ Streams(t)' /\ NoneSkipped(t) /\ TypeInv'
  BY DEF StealInv, TypeInv, TypeOK, BlockInv
<1>2. UNCHANGED <<range, counted, slice, reply, journal, processed>>
  BY DEF Spawn, StartPass, SkipEpoch, Read, BackoffEnds, PastSlice, EndOfStream, LeaveEpoch, shared, history
<1>3. pc[t] \in Streaming /\ pc'[t] \in Streaming
  BY <1>1 DEF Spawn, StartPass, SkipEpoch, AtEpoch, Read, BackoffEnds, PastSlice, EndOfStream,
     LeaveEpoch, HasBatch, Go, Streaming
<1>4. /\ counted[t] \in Nat /\ range[t].start \in Nat /\ range[t].end \in Nat /\ pass[t].epoch \in Nat
      /\ pass[t].top \in Nat /\ pass[t].last \in Nat /\ pass[t].batch \in Nat
      /\ FirstSlot <= range[t].start /\ FirstSlot <= range[t].end /\ range[t].end <= EndSlot
  <2>1. range[t].end \in Positions
    BY <1>1 DEF TypeOK, Ranges
  <2> QED BY <1>1, <2>1, Numbers, RangeAssumption DEF AllBounded, Bounds, Positions
<1>5. /\ EpochFirst(pass[t].epoch) \in Nat /\ EpochLast(pass[t].epoch) \in Nat
      /\ EpochFirst(pass[t].epoch + 1) = EpochLast(pass[t].epoch) + 1
  BY <1>4, EpochAssumption DEF EpochFirst, EpochLast
<1>6. Resume(t)' = Resume(t) /\ Resume(t) \in Nat
  BY <1>2, <1>4 DEF Resume, Max2
<1>7. \A b \in Blocks : Between(Resume(t), range[t].end, b) =>
        /\ b \in Slots /\ b \in Nat /\ counted[t] < b /\ range[t].start <= b /\ b < range[t].end
  BY <1>1, BlockAhead
<1>8. NoneSkipped(t)'
  <2>1. /\ Resume(t)' <= range'[t].end
        /\ \A b \in Blocks : b <= counted'[t] \/ range'[t].start <= b
    BY <1>1, <1>2, <1>3, <1>6 DEF NoneSkipped
  <2>2. CASE Spawn(t) \/ BackoffEnds(t)
    <3>1. pc'[t] = "boundary"
      BY <1>1, <2>2 DEF Spawn, BackoffEnds, Go
    <3> QED BY <2>1, <3>1 DEF NoneSkipped, InPass
  <2>3. CASE StartPass(t)
    <3>1. /\ pc[t] = "boundary" /\ pc'[t] = "epoch" /\ pass'[t].epoch = EpochOf(range[t].start)
          /\ pass'[t].top = EpochOf(range[t].end - 1)
      BY <1>1, <2>3 DEF StartPass, Go, NoPass
    <3>2. range[t].end - 1 \in Nat
      BY <1>4, RangeAssumption
    <3>3. EpochFirst(EpochOf(range[t].start)) <= range[t].start /\ EpochOf(range[t].start) \in Nat
      BY <1>4, EpochBounds
    <3>4. range[t].end - 1 <= EpochLast(EpochOf(range[t].end - 1)) /\ EpochOf(range[t].end - 1) \in Nat
      BY <3>2, EpochBounds
    <3>5. EpochFirst(EpochOf(range[t].start)) \in Nat /\ EpochLast(EpochOf(range[t].end - 1)) \in Nat
      BY <3>3, <3>4, EpochAssumption DEF EpochFirst, EpochLast
    <3>6. \A b \in Blocks : Between(Resume(t), range[t].end, b) => EpochFirst(pass'[t].epoch) <= b
      BY <1>4, <1>7, <3>1, <3>3, <3>5
    <3>7. range'[t].end <= EpochLast(pass'[t].top) + 1
      BY <1>2, <1>4, <3>1, <3>4, <3>5
    <3> QED BY <1>2, <1>6, <2>1, <3>1, <3>6, <3>7 DEF NoneSkipped, InPass
  <2>4. CASE Read(t)
    <3>1. /\ pc[t] = "loop" /\ pc'[t] = "batch" /\ pass'[t].epoch = pass[t].epoch /\ pass'[t].last = pass[t].last
          /\ pass'[t].top = pass[t].top
          /\ pass'[t].batch \in {None, NextPresent(counted[t], EpochLast(pass[t].epoch))}
      BY <1>1, <2>4 DEF Read, Go, Passes
    <3>2. pass'[t].batch # None => \A b \in Blocks : b <= counted[t] \/ pass'[t].batch <= b
      BY <1>4, <1>5, <3>1, NextPresentSpec
    <3> QED BY <1>1, <1>2, <2>1, <3>1, <3>2 DEF NoneSkipped, InPass
  <2>5. CASE SkipEpoch(t) \/ PastSlice(t) \/ EndOfStream(t)
    <3>1. /\ pc[t] \in {"epoch", "batch"} /\ pc'[t] = "epoch" /\ pass'[t].epoch = pass[t].epoch + 1
          /\ pass'[t].top = pass[t].top
      BY <1>1, <2>5 DEF SkipEpoch, AtEpoch, PastSlice, EndOfStream, HasBatch, LeaveEpoch, Go, Passes
    <3>2. ASSUME NEW b \in Blocks, Between(Resume(t), range[t].end, b), b <= EpochLast(pass[t].epoch)
          PROVE  FALSE
      <4>1. b \in Slots /\ b \in Nat /\ counted[t] < b /\ range[t].start <= b /\ b < range[t].end
        BY <1>7, <3>2
      <4>2. CASE SkipEpoch(t)
        <5>1. EpochFirst(pass[t].epoch) <= b /\ LocalStart(t) > LocalLast(t)
          BY <1>1, <3>2, <4>2 DEF SkipEpoch, AtEpoch, NoneSkipped
        <5> QED BY <1>4, <1>5, <3>2, <4>1, <5>1 DEF LocalStart, LocalLast, Max2, Min2
      <4>3. CASE PastSlice(t) \/ EndOfStream(t)
        <5>1. pc[t] = "batch" /\ b <= pass[t].last
          BY <1>1, <3>2, <4>1, <4>3 DEF PastSlice, EndOfStream, HasBatch, NoneSkipped
        <5>2. CASE PastSlice(t)
          <6>1. pass[t].batch > pass[t].last /\ pass[t].batch # None
            BY <1>4, <5>2 DEF PastSlice, None
          <6>2. pass[t].batch <= b
            BY <1>1, <1>4, <4>1, <5>1, <6>1 DEF NoneSkipped
          <6> QED BY <1>4, <4>1, <5>1, <6>1, <6>2
        <5>3. CASE EndOfStream(t)
          <6>1. Unread(t) = None
            BY <5>3 DEF EndOfStream, Fault, IndexAnswers
          <6>2. Min2(pass[t].last, range[t].end - 1) \in Nat /\ b <= Min2(pass[t].last, range[t].end - 1)
            BY <1>4, <4>1, <5>1 DEF Min2
          <6>3. b <= counted[t] \/ Min2(pass[t].last, range[t].end - 1) < b
            BY <1>4, <6>1, <6>2, NextPresentSpec DEF Unread
          <6> QED BY <1>4, <4>1, <6>2, <6>3
        <5> QED BY <4>3, <5>2, <5>3
      <4> QED BY <2>5, <4>2, <4>3
    <3>3. \A b \in Blocks : Between(Resume(t), range[t].end, b) => EpochFirst(pass'[t].epoch) <= b
      BY <1>5, <1>7, <3>1, <3>2
    <3>4. range'[t].end <= EpochLast(pass'[t].top) + 1
      BY <1>1, <1>2, <3>1 DEF NoneSkipped, InPass
    <3> QED BY <1>2, <1>6, <2>1, <3>1, <3>3, <3>4 DEF NoneSkipped, InPass
  <2> QED BY <2>2, <2>3, <2>4, <2>5
<1>9. \A b \in Blocks : Between(Resume(t), Resume(t)', b) => b \notin Slots
  BY <1>6, SlotsNat DEF Between
<1>10. Keeps(t)
  BY <1>1, <1>2, <1>3, <1>6, <1>8, <1>9, StreamKeeps
<1>11. \A u \in Threads \ {t} : Bystander(u)
  BY <1>1, PassMoves
<1> QED BY <1>2, <1>10, <1>11, AsideOthers

LEMMA OpenEpochKeeps ==
  ASSUME StealInv, BlockInv, StealInv', NEW t \in Threads, OpenEpoch(t)
  PROVE  Keeps(t) /\ \A u \in Threads \ {t} : Aside(u)
<1>1. /\ pc \in [Threads -> Labels] /\ pass \in [Threads -> Passes] /\ counted \in [Threads -> Positions]
      /\ TypeOK /\ TypeOK' /\ AllBounded /\ NoneSkipped(t) /\ Streams(t) /\ TypeInv'
      /\ counted[t] \in Nat /\ range[t].start \in Nat /\ range[t].end \in Nat /\ pass[t].epoch \in Nat
  BY Numbers DEF StealInv, TypeInv, TypeOK, BlockInv
<1>2. /\ pc[t] = "epoch" /\ pc'[t] = "loop" /\ counted'[t] = LocalStart(t) - 1
      /\ pass'[t].last = LocalLast(t) /\ pass'[t].epoch = pass[t].epoch /\ pass'[t].top = pass[t].top
      /\ UNCHANGED <<range, slice, reply, journal, processed>>
  BY <1>1 DEF OpenEpoch, AtEpoch, Go, Passes, shared, history
<1>3. /\ LocalStart(t) \in Nat /\ LocalLast(t) \in Nat /\ range[t].start <= LocalStart(t)
      /\ LocalStart(t) <= LocalLast(t) /\ LocalLast(t) <= range[t].end - 1
      /\ EpochLast(pass[t].epoch) \in Nat /\ EpochFirst(pass[t].epoch) \in Nat
  BY <1>1, LocalBounds DEF OpenEpoch
<1>4. Resume(t)' = LocalStart(t) /\ Resume(t) <= LocalStart(t) /\ Resume(t) \in Nat
  BY <1>1, <1>2, <1>3 DEF Streams, LocalStart, Resume, Max2
<1>5. \A b \in Blocks : Between(Resume(t), LocalStart(t), b) => b \notin Slots
  <2>1. ASSUME NEW b \in Blocks, Between(Resume(t), LocalStart(t), b) PROVE FALSE
    <3>1. b \in Nat /\ Between(Resume(t), range[t].end, b)
      BY <1>1, <1>3, <1>4, <2>1, SlotsNat DEF Between
    <3>2. EpochFirst(pass[t].epoch) <= b /\ range[t].start <= b
      BY <1>1, <1>2, <3>1, BlockAhead DEF NoneSkipped
    <3> QED BY <1>1, <1>3, <2>1, <3>1, <3>2 DEF Between, LocalStart, Max2
  <2> QED BY <2>1
<1>6. NoneSkipped(t)'
  <2>1. Resume(t)' <= range'[t].end
    BY <1>1, <1>2, <1>3, <1>4
  <2>2. \A b \in Blocks : b <= counted'[t] \/ range'[t].start <= b
    <3>1. ASSUME NEW b \in Blocks PROVE b <= LocalStart(t) - 1 \/ range[t].start <= b
      <4>1. b \in Nat
        BY SlotsNat
      <4> QED BY <1>1, <1>3, <4>1
    <3> QED BY <1>2, <3>1
  <2>3. range'[t].end <= EpochLast(pass'[t].top) + 1
    BY <1>1, <1>2 DEF NoneSkipped, InPass
  <2>4. ASSUME NEW s \in Slots, s < range'[t].end, s <= EpochLast(pass'[t].epoch)
        PROVE  s <= pass'[t].last
    <3>1. s \in Nat /\ s < range[t].end /\ s <= EpochLast(pass[t].epoch)
      BY <1>2, <2>4, SlotsNat
    <3> QED BY <1>1, <1>2, <3>1 DEF LocalLast, Min2
  <2> QED BY <1>2, <2>1, <2>2, <2>3, <2>4 DEF NoneSkipped, InPass
<1>7. Keeps(t)
  BY <1>1, <1>2, <1>4, <1>5, <1>6, StreamKeeps DEF Streaming
<1>8. \A u \in Threads \ {t} : Bystander(u)
  BY <1>1, OpenEpochMoves
<1> QED BY <1>2, <1>7, <1>8, AsideOthers

LEMMA RestartKeeps ==
  ASSUME StealInv, BlockInv, StealInv', NEW t \in Threads, NEW slot \in Nat, NEW c \in Nat, NEW recycled \in BOOLEAN,
         Restart(t, slot, c, recycled), pc[t] \in Streaming,
         UNCHANGED <<slice, reply, journal, processed>>,
         Resume(t) <= ResumeAt(slot, c), ResumeAt(slot, c) <= range[t].end,
         \A b \in Blocks : Between(Resume(t), ResumeAt(slot, c), b) => b \notin Slots,
         \A b \in Blocks : b <= c \/ ResumeAt(slot, c) <= b
  PROVE  Keeps(t)
<1>1. /\ pc \in [Threads -> Labels] /\ range \in [Threads -> Ranges] /\ counted \in [Threads -> Positions]
      /\ TypeOK /\ TypeOK'
  BY DEF StealInv, TypeInv, TypeOK
<1>2. /\ pc'[t] \in {"boundary", "backoff"} /\ counted'[t] = c
      /\ range'[t].start = ResumeAt(slot, c) /\ range'[t].end = range[t].end
  BY <1>1 DEF Restart, Go, Ranges
<1>3. Resume(t)' = ResumeAt(slot, c)
  BY <1>2 DEF Resume, Max2, ResumeAt
<1>4. NoneSkipped(t)'
  BY <1>2, <1>3 DEF NoneSkipped, InPass
<1>5. pc'[t] \in Streaming
  BY <1>2 DEF Streaming
<1> QED BY <1>1, <1>2, <1>3, <1>4, <1>5, StreamKeeps

LEMMA ErrorKeeps ==
  ASSUME StealInv, BlockInv, StealInv', NEW t \in Threads,
         FetchFails(t) \/ SeekFails(t) \/ ReadFails(t) \/ PrematureEnd(t) \/ HandlerFails(t)
  PROVE  Keeps(t) /\ \A u \in Threads \ {t} : Aside(u)
<1>1. /\ TypeOK /\ AllBounded /\ Streams(t) /\ Bounds(t) /\ NoneSkipped(t) /\ TypeInv'
      /\ counted[t] \in Nat /\ range[t].start \in Nat /\ range[t].end \in Nat
      /\ pass[t].cur \in Nat /\ pass[t].batch \in Nat
  BY Numbers DEF StealInv, TypeInv, AllBounded, BlockInv
<1>2. UNCHANGED <<slice, reply, journal, processed>>
  BY DEF FetchFails, SeekFails, ReadFails, PrematureEnd, HandlerFails, shared, history
<1>3. pc[t] \in Streaming
  BY DEF FetchFails, SeekFails, ReadFails, PrematureEnd, HandlerFails, AtEpoch, HasBatch, FailedDelivery,
     CanProcess, Streaming
<1>4. /\ Resume(t) \in Nat /\ Resume(t) <= range[t].end
      /\ \A b \in Blocks : b <= counted[t] \/ Resume(t) <= b
  <2>1. ASSUME NEW b \in Blocks PROVE b <= counted[t] \/ Resume(t) <= b
    <3>1. b \in Nat /\ (b <= counted[t] \/ range[t].start <= b)
      BY <1>1, <1>3, SlotsNat DEF NoneSkipped
    <3> QED BY <1>1, <3>1 DEF Resume, Max2
  <2> QED BY <1>1, <1>3, <2>1 DEF NoneSkipped, Resume, Max2
<1>5. ASSUME NEW slot \in Nat, NEW recycled \in BOOLEAN, Restart(t, slot, counted[t], recycled),
             ResumeAt(slot, counted[t]) = Resume(t)
      PROVE  Keeps(t)
  <2>1. ResumeAt(slot, counted[t]) = Resume(t)
    BY <1>5
  <2>2. \A b \in Blocks : b <= counted[t] \/ ResumeAt(slot, counted[t]) <= b
    BY <1>4, <2>1
  <2>4. ASSUME NEW b \in Blocks, Between(Resume(t), ResumeAt(slot, counted[t]), b) PROVE FALSE
    <3>1. b \in Nat /\ Between(Resume(t), Resume(t), b)
      BY <2>1, <2>4, SlotsNat
    <3> QED BY <1>4, <3>1 DEF Between
  <2>3. Resume(t) <= ResumeAt(slot, counted[t]) /\ ResumeAt(slot, counted[t]) <= range[t].end
    BY <1>4, <2>1
  <2> QED BY <1>1, <1>2, <1>3, <1>5, <2>2, <2>3, <2>4, RestartKeeps
<1>6. ASSUME FetchFails(t) PROVE Keeps(t)
  <2>1. pc[t] = "epoch" /\ Restart(t, AtCurrent(t), counted[t], FALSE)
    BY <1>6 DEF FetchFails, AtEpoch
  <2>2. AtCurrent(t) \in Nat /\ ResumeAt(AtCurrent(t), counted[t]) = Resume(t)
    BY <1>1, <2>1 DEF Streams, Bounds, InPass, AtCurrent, ResumeAt, Resume, Max2
  <2> QED BY <1>5, <2>1, <2>2
<1>7. ASSUME ReadFails(t) PROVE Keeps(t)
  <2>1. pc[t] = "loop" /\ \E r \in BOOLEAN : Restart(t, AfterCurrent(t), counted[t], r)
    BY <1>7 DEF ReadFails
  <2>2. AfterCurrent(t) \in Nat /\ ResumeAt(AfterCurrent(t), counted[t]) = Resume(t)
    BY <1>1, <2>1 DEF Streams, Bounds, InPass, AfterCurrent, ResumeAt, Resume, Max2
  <2> QED BY <1>5, <2>1, <2>2
<1>8. ASSUME PrematureEnd(t) PROVE Keeps(t)
  <2>1. pc[t] = "batch" /\ Restart(t, counted[t] + 1, counted[t], FALSE)
    BY <1>8 DEF PrematureEnd, HasBatch
  <2>2. counted[t] + 1 \in Nat /\ ResumeAt(counted[t] + 1, counted[t]) = Resume(t)
    BY <1>1, <2>1 DEF Streams, ResumeAt, Resume, Max2
  <2> QED BY <1>5, <2>1, <2>2
<1>9. ASSUME SeekFails(t) PROVE Keeps(t)
  <2>1. pc[t] = "epoch" /\ Restart(t, LocalStart(t), LocalStart(t) - 1, FALSE)
    BY <1>9 DEF SeekFails, AtEpoch
  <2>2. /\ LocalStart(t) \in Nat /\ LocalStart(t) - 1 \in Nat /\ LocalStart(t) <= range[t].end
        /\ EpochFirst(pass[t].epoch) \in Nat
    <3>1. /\ LocalStart(t) \in FirstSlot .. EndSlot - 1 /\ LocalLast(t) <= range[t].end - 1
          /\ LocalStart(t) <= LocalLast(t) /\ LocalLast(t) \in Nat /\ EpochFirst(pass[t].epoch) \in Nat
      BY <1>1, <1>9, LocalBounds DEF SeekFails
    <3> QED BY <1>1, <3>1, RangeAssumption
  <2>3. ResumeAt(LocalStart(t), LocalStart(t) - 1) = LocalStart(t) /\ Resume(t) <= LocalStart(t)
    BY <1>1, <2>1, <2>2 DEF Streams, LocalStart, ResumeAt, Resume, Max2
  <2>4. ASSUME NEW b \in Blocks, Between(Resume(t), LocalStart(t), b) PROVE FALSE
    <3>1. b \in Nat /\ Between(Resume(t), range[t].end, b)
      BY <1>1, <1>4, <2>2, <2>4, SlotsNat DEF Between
    <3>2. EpochFirst(pass[t].epoch) <= b /\ range[t].start <= b
      BY <1>1, <2>1, <3>1, BlockAhead DEF NoneSkipped
    <3> QED BY <1>1, <2>2, <2>4, <3>1, <3>2 DEF Between, LocalStart, Max2
  <2>5. ASSUME NEW b \in Blocks PROVE b <= LocalStart(t) - 1 \/ LocalStart(t) <= b
    <3>1. b \in Nat
      BY SlotsNat
    <3> QED BY <2>2, <3>1
  <2> QED BY <1>2, <1>3, <2>1, <2>2, <2>3, <2>4, <2>5, RestartKeeps
<1>10. ASSUME HandlerFails(t) PROVE Keeps(t)
  <2>1. PICK k \in {None} \cup Blocks \cup Slots :
          FailedDelivery(t, k) /\ Restart(t, pass[t].batch, CountedBefore(t, k), FALSE)
    BY <1>10 DEF HandlerFails
  <2>2. /\ pc[t] = "batch" /\ counted[t] < pass[t].batch /\ pass[t].batch < range[t].end
        /\ pass[t].batch # None
    BY <1>1, <2>1, BatchBounds DEF FailedDelivery, None
  <2>3. /\ CountedBefore(t, k) \in Nat /\ counted[t] <= CountedBefore(t, k)
        /\ CountedBefore(t, k) < pass[t].batch
    BY <1>1, <2>1, FailedDeliveryType, RangeAssumption DEF Positions
  <2>4. ResumeAt(pass[t].batch, CountedBefore(t, k)) = pass[t].batch /\ Resume(t) <= pass[t].batch
    BY <1>1, <2>2, <2>3 DEF ResumeAt, Streams, Resume, Max2
  <2>5. \A b \in Blocks : b \in Nat /\ (b <= counted[t] \/ pass[t].batch <= b)
    BY <1>1, <2>2, SlotsNat DEF NoneSkipped
  <2>6. ASSUME NEW b \in Blocks, Between(Resume(t), pass[t].batch, b) PROVE FALSE
    <3>1. b \in Nat /\ b <= counted[t]
      BY <1>1, <2>5, <2>6 DEF Between
    <3> QED BY <1>1, <2>6, <3>1 DEF Between, Resume, Max2
  <2>7. ASSUME NEW b \in Blocks PROVE b <= CountedBefore(t, k) \/ pass[t].batch <= b
    <3>1. b \in Nat /\ (b <= counted[t] \/ pass[t].batch <= b)
      BY <2>5
    <3> QED BY <1>1, <2>3, <3>1
  <2>8. /\ Resume(t) <= ResumeAt(pass[t].batch, CountedBefore(t, k))
        /\ ResumeAt(pass[t].batch, CountedBefore(t, k)) <= range[t].end
    BY <1>1, <2>2, <2>4
  <2>9. \A b \in Blocks : Between(Resume(t), ResumeAt(pass[t].batch, CountedBefore(t, k)), b) => b \notin Slots
    BY <2>4, <2>6
  <2>10. \A b \in Blocks : b <= CountedBefore(t, k) \/ ResumeAt(pass[t].batch, CountedBefore(t, k)) <= b
    BY <2>4, <2>7
  <2>11. Restart(t, pass[t].batch, CountedBefore(t, k), FALSE)
    BY <2>1
  <2> QED BY <1>1, <1>2, <1>3, <2>3, <2>8, <2>9, <2>10, <2>11, RestartKeeps
<1>11. \A u \in Threads \ {t} : Bystander(u)
  BY <1>1, ErrorMoves
<1> QED BY <1>2, <1>6, <1>7, <1>8, <1>9, <1>10, <1>11, AsideOthers

LEMMA PassEndKeeps ==
  ASSUME StealInv, BlockInv, StealInv', NEW t \in Threads, PastRange(t) \/ FinishEpochs(t)
  PROVE  Keeps(t) /\ \A u \in Threads \ {t} : Aside(u)
<1>1. /\ pc \in [Threads -> Labels] /\ TypeOK /\ AllBounded /\ TypeInv' /\ Streams(t)
      /\ NoneSkipped(t) /\ EntryTrue(t)
      /\ counted[t] \in Nat /\ range[t].start \in Nat /\ range[t].end \in Nat
      /\ pass[t].epoch \in Nat /\ pass[t].top \in Nat /\ pass[t].batch \in Nat
      /\ slice[t].start \in Nat
  BY Numbers DEF StealInv, TypeInv, TypeOK, BlockInv
<1>2. /\ pc[t] \in InPass /\ pc[t] \in Streaming /\ pc'[t] = "complete"
      /\ UNCHANGED <<range, counted, slice, reply, journal, processed>>
  BY <1>1 DEF PastRange, FinishEpochs, HasBatch, InPass, Streaming, Go, shared, history
<1>3. ASSUME NEW b \in Blocks, Between(Resume(t), range[t].end, b) PROVE FALSE
  <2>1. /\ b \in Nat /\ counted[t] < b /\ b < range[t].end
    BY <1>1, <1>3, BlockAhead
  <2>2. CASE PastRange(t)
    <3>1. pc[t] = "batch" /\ pass[t].batch # None /\ range[t].end <= pass[t].batch
      BY <1>1, <2>2 DEF PastRange, HasBatch
    <3>2. b <= counted[t] \/ pass[t].batch <= b
      BY <1>1, <3>1 DEF NoneSkipped
    <3> QED BY <1>1, <2>1, <3>1, <3>2
  <2>3. CASE FinishEpochs(t)
    <3>1. pc[t] = "epoch" /\ pass[t].top < pass[t].epoch
      BY <1>1, <2>3 DEF FinishEpochs
    <3>2. EpochFirst(pass[t].epoch) <= b /\ range[t].end <= EpochLast(pass[t].top) + 1
      BY <1>1, <1>3, <3>1 DEF NoneSkipped, InPass
    <3>3. EpochLast(pass[t].top) < EpochFirst(pass[t].epoch)
      BY <1>1, <3>1, EpochOrder
    <3>4. EpochLast(pass[t].top) \in Nat /\ EpochFirst(pass[t].epoch) \in Nat
      BY <1>1, EpochAssumption DEF EpochFirst, EpochLast
    <3> QED BY <1>1, <2>1, <3>2, <3>3, <3>4
  <2> QED BY <2>2, <2>3
<1>4. ASSUME NEW b \in Slots \cap Blocks, Between(slice[t].start, range[t].end, b)
      PROVE  b \in processed /\ b <= counted[t]
  <2>1. b \in Nat /\ Resume(t) \in Nat
    BY <1>1, SlotsNat DEF Resume, Max2
  <2>2. b < Resume(t) /\ (b <= counted[t] \/ range[t].start <= b)
    BY <1>1, <1>2, <1>3, <1>4, <2>1 DEF Between, NoneSkipped
  <2>3. b \in processed
    BY <1>1, <1>2, <1>4, <2>2 DEF EntryTrue, Between
  <2> QED BY <1>1, <2>1, <2>2, <2>3 DEF Resume, Max2
<1>5. NoneSkipped(t)'
  BY <1>2 DEF NoneSkipped, Streaming, InPass
<1>6. EntryTrue(t)' /\ reply[t].kind # "granted"
  <2>1. /\ slice[t].end = range[t].end /\ slice[t].start <= slice[t].next /\ reply[t].kind # "granted"
    BY <1>1, <1>2 DEF EntryTrue, Streaming, Promised
  <2>2. counted[t] < range[t].end
    BY <1>1, <1>2 DEF NoneSkipped, Resume, Max2
  <2> QED BY <1>2, <1>4, <2>1, <2>2 DEF EntryTrue, Streaming, Adopting
<1>7. Claim(t)' = Claim(t) /\ Share(t) \subseteq Share(t)' /\ Journaled' = Journaled
  BY <1>2 DEF Claim, Share, Journaled
<1>8. pc[t] \notin Gone
  BY <1>2 DEF InPass, Gone
<1>9. \A u \in Threads \ {t} : Bystander(u)
  BY <1>1, PassEndMoves
<1> QED BY <1>2, <1>5, <1>6, <1>7, <1>8, <1>9, AsideOthers DEF Keeps, BlockInv

LEMMA ProcessKeeps ==
  ASSUME StealInv, BlockInv, StealInv', NEW t \in Threads, Process(t)
  PROVE  Keeps(t) /\ \A u \in Threads \ {t} : Aside(u)
<1> DEFINE slot == pass[t].batch
<1>1. /\ pc \in [Threads -> Labels] /\ pass \in [Threads -> Passes] /\ counted \in [Threads -> Positions]
      /\ slice \in [Threads -> Slices] /\ TypeOK /\ AllBounded /\ TypeInv' /\ Streams(t)
      /\ CanProcess(t) /\ NoneSkipped(t) /\ EntryTrue(t)
  BY DEF StealInv, TypeInv, TypeOK, BlockInv, Process
<1>2. /\ pc[t] = "batch" /\ slot \in Slots /\ slot \in Nat /\ slot # None
      /\ counted[t] < slot /\ slot < range[t].end /\ range[t].start <= counted[t] + 1
      /\ counted[t] \in Nat /\ range[t].start \in Nat /\ range[t].end \in Nat
      /\ slice[t].start \in Nat /\ slice[t].next \in Nat
  <2>1. pc[t] = "batch" /\ slot \in Slots /\ counted[t] < slot /\ slot < range[t].end
    BY <1>1, BatchBounds
  <2>2. range[t].start <= counted[t] + 1 /\ slot # None
    BY <1>1, <2>1 DEF Streams, CanProcess
  <2> QED BY <1>1, <2>1, <2>2, Numbers
<1>3. /\ counted'[t] = slot /\ slice'[t] = [slice[t] EXCEPT !.next = slot + 1]
      /\ processed' = processed \cup {slot} /\ UNCHANGED <<range, reply, journal>>
      /\ \A u \in Threads \ {t} : slice'[u] = slice[u]
  BY <1>1 DEF Process, NextAfter
<1>4. /\ slice'[t].start = slice[t].start /\ slice'[t].end = slice[t].end /\ slice'[t].next = slot + 1
  BY <1>1, <1>3 DEF Slices
<1>5. \/ slot = range[t].end - 1 /\ pc'[t] = "complete"
      \/ /\ slot # range[t].end - 1 /\ pc'[t] = "loop"
         /\ pass'[t].epoch = pass[t].epoch /\ pass'[t].last = pass[t].last /\ pass'[t].top = pass[t].top
  BY <1>1 DEF Process, Go, Passes
<1>6. Resume(t)' = slot + 1 /\ Resume(t) <= slot /\ Resume(t) \in Nat
  BY <1>2, <1>3 DEF Resume, Max2
<1>7. NoneSkipped(t)'
  <2>1. ASSUME NEW b \in Blocks PROVE b <= slot \/ range[t].start <= b
    <3>1. b \in Nat
      BY SlotsNat
    <3> QED BY <1>2, <3>1
  <2>2. CASE pc'[t] = "complete"
    BY <2>2 DEF NoneSkipped, Streaming, InPass
  <2>3. CASE pc'[t] = "loop"
    <3>1. Resume(t)' <= range'[t].end
      BY <1>2, <1>3, <1>5, <1>6, <2>3
    <3>2. /\ pass'[t].epoch = pass[t].epoch /\ pass'[t].last = pass[t].last /\ pass'[t].top = pass[t].top
          /\ range[t].end <= EpochLast(pass[t].top) + 1
          /\ \A s \in Slots : s < range[t].end /\ s <= EpochLast(pass[t].epoch) => s <= pass[t].last
      BY <1>1, <1>2, <1>5, <2>3 DEF NoneSkipped, InPass
    <3> QED BY <1>3, <2>1, <2>3, <3>1, <3>2 DEF NoneSkipped, Streaming, InPass
  <2> QED BY <1>5, <2>2, <2>3
<1>8. ASSUME NEW b \in Slots \cap Blocks, slice[t].start <= b, b <= slot PROVE b \in processed'
  <2>1. b \in Nat
    BY SlotsNat
  <2>2. b <= counted[t] \/ slot <= b
    BY <1>1, <1>2 DEF NoneSkipped
  <2>3. CASE slot <= b
    BY <1>2, <1>3, <1>8, <2>1, <2>3
  <2>4. CASE b <= counted[t]
    <3>1. b < Resume(t)
      BY <1>2, <2>1, <2>4 DEF Resume, Max2
    <3> QED BY <1>1, <1>2, <1>3, <1>8, <3>1 DEF EntryTrue, Streaming, Between
  <2> QED BY <2>2, <2>3, <2>4
<1>9. /\ slice[t].end = range[t].end /\ slice[t].start <= slice[t].next /\ slice[t].next <= Resume(t)
      /\ reply[t].kind # "granted"
  BY <1>1, <1>2 DEF EntryTrue, Streaming, Promised
<1>10. EntryTrue(t)'
  <2>1. slice[t].start <= slot + 1
    BY <1>2, <1>6, <1>9
  <2>2. ASSUME NEW b \in Slots \cap Blocks, Between(slice[t].start, slot + 1, b)
        PROVE  b \in processed' /\ b <= slot
    <3>1. b \in Nat /\ slice[t].start <= b /\ b <= slot
      BY <1>2, <2>2, SlotsNat DEF Between
    <3> QED BY <1>8, <3>1
  <2>3. CASE pc'[t] = "complete" /\ slot = range[t].end - 1
    <3>1. range'[t].end = slot + 1 /\ counted'[t] < range'[t].end
      BY <1>2, <1>3, <2>3
    <3> QED BY <1>3, <1>4, <1>9, <2>1, <2>2, <2>3, <3>1 DEF EntryTrue, Streaming, Adopting
  <2>4. CASE pc'[t] = "loop"
    BY <1>2, <1>3, <1>4, <1>6, <1>9, <2>1, <2>2, <2>4 DEF EntryTrue, Streaming, Adopting
  <2> QED BY <1>5, <2>3, <2>4
<1>11. Claim(t) \cap Blocks \subseteq processed' \cup Claim(t)'
  <2>1. ASSUME NEW b \in Slots \cap Blocks, Between(slice[t].next, slice[t].end, b), b \notin processed'
        PROVE  Between(slot + 1, slice[t].end, b)
    <3>1. b \in Nat /\ slice[t].start <= b
      BY <1>2, <1>9, <2>1, SlotsNat DEF Between
    <3>2. ~(b <= slot)
      BY <1>8, <2>1, <3>1
    <3> QED BY <1>2, <2>1, <3>1, <3>2 DEF Between
  <2> QED BY <1>3, <1>4, <1>9, <2>1 DEF Claim
<1>12. Share(t) \subseteq Share(t)' /\ Journaled' = Journaled
  BY <1>3, <1>4, <1>5 DEF Share, Journaled, Streaming
<1>13. pc[t] \notin Gone /\ processed \subseteq processed'
  BY <1>2, <1>3 DEF Gone
<1>14. \A u \in Threads \ {t} : Bystander(u)
  BY <1>1, ProcessMoves
<1> QED BY <1>3, <1>7, <1>10, <1>11, <1>12, <1>13, <1>14 DEF Keeps, BlockInv, Aside

-----------------------------------------------------------------------------
(* A step that is Aside for every thread, and the steps outside the stream. *)

LEMMA AsideStep ==
  ASSUME BlockInv, \A u \in Threads : Aside(u), UNCHANGED <<journal, processed>>
  PROVE  BlockInv'
<1>1. \A u \in Threads : /\ NoneSkipped(u)' /\ EntryTrue(u)'
                         /\ Claim(u)' = Claim(u) /\ Share(u)' = Share(u) /\ pc'[u] = pc[u]
  BY AsideKeeps DEF BlockInv, Aside, Bystander
<1>2. Journaled' = Journaled
  BY DEF Journaled
<1> QED BY <1>1, <1>2 DEF BlockInv

\* A proposal is turned down.
LEMMA TurnDownAside ==
  ASSUME StealInv, NEW t \in Threads, inbox[t] # <<>>,
         reply' = [reply EXCEPT ![Head(inbox[t])] = Refused],
         UNCHANGED <<pc, range, counted, pass, slice, history>>
  PROVE  \A u \in Threads : Aside(u)
<1>1. Head(inbox[t]) \in Threads /\ pc[Head(inbox[t])] = "await" /\ reply[Head(inbox[t])].kind = "pending"
  BY InboxHead DEF StealInv, TypeInv
<1>2. /\ reply'[Head(inbox[t])].kind = "refused"
      /\ \A u \in Threads \ {Head(inbox[t])} : reply'[u] = reply[u]
  BY <1>1 DEF StealInv, TypeInv, TypeOK, Refused, NoReply
<1> QED BY <1>1, <1>2 DEF Aside, Bystander, history

\* A thread between two assignments claims and owes nothing.
LEMMA IdleClaims ==
  ASSUME TypeOK, NEW t \in Threads, EntryTrue(t), reply[t].kind # "granted",
         pc[t] \in {"drain", "hunt", "await", "retired"}
  PROVE  Claim(t) = {} /\ Share(t) = {}
<1>1. slice[t].end <= slice[t].next /\ slice[t].end \in Nat /\ slice[t].next \in Nat
  BY Numbers DEF EntryTrue
<1>2. \A s \in Slots : s \in Nat
  BY SlotsNat
<1> QED BY <1>1, <1>2 DEF Claim, Share, Between, Streaming

LEMMA IdleKeeps ==
  ASSUME StealInv, BlockInv, TypeInv', NEW t \in Threads, Scan(t) \/ Ask(t) \/ Denied(t) \/ Retire(t)
  PROVE  Keeps(t) /\ \A u \in Threads \ {t} : Aside(u)
<1>1. /\ pc \in [Threads -> Labels] /\ reply \in [Threads -> Replies] /\ TypeOK /\ TypeOK' /\ EntryTrue(t)
  BY DEF StealInv, TypeInv, TypeOK, BlockInv
<1>2. UNCHANGED <<slice, journal, processed>>
  BY DEF Scan, Ask, Denied, Retire, shared, history
<1>3. /\ pc[t] \in {"drain", "hunt", "await"} /\ reply[t].kind # "granted"
      /\ pc'[t] \in {"drain", "hunt", "await", "retired"}
  BY <1>1 DEF Scan, Ask, Denied, Retire, Leave, Go, EntryTrue, Promised
<1>4. reply'[t].kind # "granted"
  BY <1>1, <1>3 DEF Scan, Ask, Denied, Retire, Leave, DropProposals, shared, Pending, Dropped, NoReply
<1>5. NoneSkipped(t)'
  BY <1>3 DEF NoneSkipped, Streaming, InPass
<1>6. EntryTrue(t)'
  BY <1>1, <1>2, <1>3, <1>4 DEF EntryTrue, Streaming, Adopting
<1>7. Claim(t) = {} /\ Share(t) = {} /\ Journaled' = Journaled
  BY <1>1, <1>2, <1>3, IdleClaims DEF Journaled
<1>8. \A u \in Threads \ {t} : Bystander(u)
  BY IdleMoves
<1> QED BY <1>2, <1>3, <1>5, <1>6, <1>7, <1>8, AsideOthers DEF Keeps, BlockInv, Gone

\* What a completed assignment journals is processed, and it is all of the thread's share.
LEMMA CompleteKeeps ==
  ASSUME StealInv, BlockInv, TypeInv', NEW t \in Threads, CompleteRange(t)
  PROVE  Keeps(t) /\ \A u \in Threads \ {t} : Aside(u)
<1>1. /\ pc \in [Threads -> Labels] /\ slice \in [Threads -> Slices] /\ TypeOK /\ TypeOK' /\ EntryTrue(t)
      /\ counted[t] \in Nat /\ range[t].end \in Nat /\ slice[t].start \in Nat /\ slice[t].next \in Nat
  BY Numbers DEF StealInv, TypeInv, TypeOK, BlockInv
<1>2. /\ pc[t] = "complete" /\ pc'[t] = "drain" /\ UNCHANGED <<range, counted, reply, processed>>
      /\ journal' = journal \cup {[start |-> slice[t].start, end |-> counted[t] + 1]}
      /\ slice'[t].start = slice[t].start /\ slice'[t].next = range[t].end /\ slice'[t].end = slice[t].end
      /\ \A u \in Threads \ {t} : slice'[u] = slice[u]
  BY <1>1 DEF CompleteRange, Go, Interval, Slices, history
<1>3. /\ slice[t].end = range[t].end /\ counted[t] < range[t].end /\ slice[t].start <= slice[t].next
      /\ \A b \in Slots \cap Blocks :
            Between(slice[t].start, range[t].end, b) => b \in processed /\ b <= counted[t]
      /\ reply[t].kind # "granted"
  BY <1>1, <1>2 DEF EntryTrue, Promised
<1>4. NoneSkipped(t)'
  BY <1>2 DEF NoneSkipped, Streaming, InPass
<1>5. EntryTrue(t)'
  BY <1>1, <1>2, <1>3 DEF EntryTrue, Streaming, Adopting
<1>6. Journaled' = Journaled \cup {s \in Slots : Between(slice[t].start, counted[t] + 1, s)}
  <2> DEFINE new == [start |-> slice[t].start, end |-> counted[t] + 1]
  <2>1. new.start = slice[t].start /\ new.end = counted[t] + 1 /\ journal' = journal \cup {new}
    BY <1>2
  <2> HIDE DEF new
  <2>2. ASSUME NEW s \in Slots
        PROVE  (\E j \in journal' : Between(j.start, j.end, s)) <=>
                 \/ \E j \in journal : Between(j.start, j.end, s)
                 \/ Between(slice[t].start, counted[t] + 1, s)
    BY <2>1
  <2> QED BY <2>2 DEF Journaled
<1>7. ASSUME NEW b \in Slots \cap Blocks, Between(slice[t].start, counted[t] + 1, b) PROVE b \in processed
  <2>1. b \in Nat
    BY SlotsNat
  <2>2. Between(slice[t].start, range[t].end, b)
    BY <1>1, <1>3, <1>7, <2>1 DEF Between
  <2> QED BY <1>3, <2>2
<1>8. ASSUME NEW b \in Slots \cap Blocks, Between(slice[t].start, range[t].end, b)
      PROVE  Between(slice[t].start, counted[t] + 1, b)
  <2>1. b \in Nat /\ b <= counted[t]
    BY <1>3, <1>8, SlotsNat
  <2> QED BY <1>1, <1>8, <2>1 DEF Between
<1>9. Share(t) \cap Blocks \subseteq Journaled'
  BY <1>2, <1>3, <1>6, <1>8 DEF Share
<1>10. Claim(t) \cap Blocks \subseteq processed
  <2>1. ASSUME NEW b \in Slots \cap Blocks, Between(slice[t].next, slice[t].end, b) PROVE b \in processed
    <3>1. b \in Nat
      BY SlotsNat
    <3>2. Between(slice[t].start, range[t].end, b)
      BY <1>1, <1>3, <2>1, <3>1 DEF Between
    <3> QED BY <1>3, <3>2
  <2> QED BY <1>3, <2>1 DEF Claim
<1>11. \A u \in Threads \ {t} : Bystander(u)
  BY IdleMoves
<1>12. \A u \in Threads \ {t} : Aside(u)
  BY <1>2, <1>11 DEF Aside
<1> QED BY <1>2, <1>4, <1>5, <1>6, <1>7, <1>9, <1>10, <1>12 DEF Keeps, BlockInv, Gone

\* A grant is claimed from the moment it is made until it is streamed.
LEMMA AdoptKeeps ==
  ASSUME StealInv, BlockInv, TypeInv', NEW t \in Threads, AdoptStart(t) \/ AdoptNext(t) \/ AdoptEnd(t)
  PROVE  Keeps(t) /\ \A u \in Threads \ {t} : Aside(u)
<1>1. /\ pc \in [Threads -> Labels] /\ reply \in [Threads -> Replies] /\ range \in [Threads -> Ranges]
      /\ counted \in [Threads -> Positions] /\ slice \in [Threads -> Slices] /\ EntryTrue(t)
  BY DEF StealInv, TypeInv, TypeOK, BlockInv
<1>2. /\ pc[t] \in Promised /\ reply[t].kind = "granted" /\ reply[t].start <= reply[t].end
      /\ reply[t].start \in Nat \ {0} /\ reply[t].end \in Nat
  BY <1>1, Numbers, RangeAssumption DEF StealInv, TypeInv, AllBounded, Bounds, AdoptStart, AdoptNext, AdoptEnd,
     Promised, Adopting, EntryTrue
<1>3. UNCHANGED <<journal, processed>> /\ \A u \in Threads \ {t} : slice'[u] = slice[u]
  BY <1>1 DEF AdoptStart, AdoptNext, AdoptEnd, history
<1>4. NoneSkipped(t)' /\ EntryTrue(t)' /\ Claim(t)' = Claim(t) /\ Share(t)' = Share(t)
  <2>1. CASE AdoptStart(t)
    <3>1. /\ pc[t] = "await" /\ pc'[t] = "adopt_next" /\ UNCHANGED <<reply, range>>
          /\ slice'[t].start = reply[t].start /\ slice'[t].next = slice[t].next /\ slice'[t].end = slice[t].end
      BY <1>1, <2>1 DEF AdoptStart, Go, Slices
    <3>2. EntryTrue(t)'
      BY <1>1, <1>2, <3>1 DEF EntryTrue, Streaming, Adopting, Promised
    <3> QED BY <1>2, <3>1, <3>2 DEF NoneSkipped, Streaming, InPass, Claim, Share
  <2>2. CASE AdoptNext(t)
    <3>1. /\ pc[t] = "adopt_next" /\ pc'[t] = "adopt_end" /\ UNCHANGED <<reply, range>>
          /\ slice'[t].start = slice[t].start /\ slice'[t].next = reply[t].start
      BY <1>1, <2>2 DEF AdoptNext, Go, Slices
    <3>2. EntryTrue(t)'
      BY <1>1, <1>2, <3>1 DEF EntryTrue, Streaming, Adopting, Promised
    <3> QED BY <1>2, <3>1, <3>2 DEF NoneSkipped, Streaming, InPass, Claim, Share
  <2>3. CASE AdoptEnd(t)
    <3>1. /\ pc[t] = "adopt_end" /\ pc'[t] = "boundary" /\ reply'[t].kind = "none"
          /\ range'[t].start = reply[t].start /\ range'[t].end = reply[t].end
          /\ counted'[t] = reply[t].start - 1
          /\ slice'[t].start = slice[t].start /\ slice'[t].next = slice[t].next
          /\ slice'[t].end = reply[t].end
      BY <1>1, <2>3 DEF AdoptEnd, Go, Slices, NoReply
    <3>2. slice[t].start = reply[t].start /\ slice[t].next = reply[t].start
      BY <1>1, <3>1 DEF EntryTrue, Adopting
    <3>3. Resume(t)' = reply[t].start
      BY <1>2, <3>1 DEF Resume, Max2
    <3>4. ASSUME NEW b \in Blocks PROVE b <= reply[t].start - 1 \/ reply[t].start <= b
      <4>1. b \in Nat
        BY SlotsNat
      <4> QED BY <1>2, <4>1
    <3>5. NoneSkipped(t)'
      BY <1>2, <3>1, <3>3, <3>4 DEF NoneSkipped, Streaming, InPass
    <3>6. ASSUME NEW b \in Slots \cap Blocks, Between(reply[t].start, reply[t].start, b) PROVE FALSE
      <4>1. b \in Nat
        BY SlotsNat
      <4> QED BY <1>2, <3>6, <4>1 DEF Between
    <3>7. EntryTrue(t)'
      <4>1. slice'[t].next <= Resume(t)' /\ slice'[t].start <= slice'[t].next
        BY <1>2, <3>1, <3>2, <3>3
      <4>2. \A b \in Slots \cap Blocks : ~Between(slice'[t].start, Resume(t)', b)
        BY <3>1, <3>2, <3>3, <3>6
      <4> QED BY <3>1, <4>1, <4>2 DEF EntryTrue, Streaming, Adopting
    <3> QED BY <1>2, <3>1, <3>2, <3>5, <3>7 DEF Claim, Share, Streaming
  <2> QED BY <2>1, <2>2, <2>3
<1>5. Journaled' = Journaled
  BY <1>3 DEF Journaled
<1>6. \A u \in Threads \ {t} : Bystander(u)
  BY AdoptMoves
<1> QED BY <1>2, <1>3, <1>4, <1>5, <1>6 DEF Keeps, BlockInv, Gone, Promised, Aside

\* A task that stops leaves its entry behind, which goes on showing its work as open.
LEMMA DeathKeeps ==
  ASSUME StealInv, BlockInv, TypeInv', NEW t \in Threads, PollShutdown(t) \/ HandlerInterrupts(t)
  PROVE  Keeps(t) /\ \A u \in Threads \ {t} : Aside(u)
<1>1. /\ pc \in [Threads -> Labels] /\ pass \in [Threads -> Passes] /\ reply \in [Threads -> Replies]
      /\ TypeOK /\ Mailbox /\ EntryTrue(t)
  BY DEF StealInv, TypeInv, TypeOK, BlockInv
<1>2. Leave(t, "stopped") /\ UNCHANGED <<range, counted, slice, journal, processed>>
  BY DEF PollShutdown, HandlerInterrupts, history
<1>3. pc[t] \in Streaming
  BY DEF PollShutdown, HandlerInterrupts, FailedDelivery, CanProcess, HasBatch, Streaming
<1>4. /\ pc'[t] = "stopped" /\ reply[t].kind # "granted" /\ reply'[t].kind # "granted"
      /\ \A u \in Threads \ {t} : pc'[u] = pc[u] /\ pass'[u] = pass[u]
  BY <1>1, <1>2, <1>3 DEF Leave, Go, DropProposals, Dropped, NoReply, EntryTrue, Streaming, Promised
<1>5. ASSUME NEW u \in Threads, u # t
      PROVE  reply'[u] = reply[u] \/ (pc[u] = "await" /\ reply[u].kind # "granted" /\ reply'[u].kind # "granted")
  <2>1. reply'[u] = reply[u] \/ (reply'[u] = Dropped /\ pc[u] = "await" /\ reply[u].kind = "pending")
    BY <1>1, <1>2 DEF Leave, DropProposals, Mailbox
  <2> QED BY <2>1 DEF Dropped, NoReply
<1>6. \A u \in Threads \ {t} : touched'[u] = touched[u]
  <2>1. CASE PollShutdown(t)
    BY <2>1 DEF PollShutdown, history
  <2>2. CASE HandlerInterrupts(t)
    <3>1. PICK k \in {None} \cup Blocks \cup Slots : FailedDelivery(t, k)
      BY <2>2 DEF HandlerInterrupts
    <3> QED BY <1>1, <3>1 DEF FailedDelivery, TypeOK
  <2> QED BY <2>1, <2>2
<1>7. \A u \in Threads \ {t} : Aside(u)
  BY <1>2, <1>4, <1>5, <1>6 DEF Aside, Bystander
<1>8. NoneSkipped(t)' /\ EntryTrue(t)'
  BY <1>4 DEF NoneSkipped, EntryTrue, Streaming, InPass, Adopting
<1>9. Claim(t)' = Claim(t) /\ Journaled' = Journaled
  BY <1>2, <1>4 DEF Claim, Journaled
<1>10. pc[t] \notin Gone
  BY <1>3 DEF Streaming, Gone
<1> QED BY <1>2, <1>4, <1>7, <1>8, <1>9, <1>10 DEF Keeps, BlockInv

(***************************************************************************)
(* A grant cuts the victim's entry where the thief's begins: between them  *)
(* they claim what the victim did.                                         *)
(***************************************************************************)
LEMMA GrantKeeps ==
  ASSUME StealInv, BlockInv, NEW t \in Threads, Answer(t),
         reply' # [reply EXCEPT ![Head(inbox[t])] = Refused]
  PROVE  BlockInv'
<1> DEFINE remaining == IF Position(t) < range[t].end THEN range[t].end - Position(t) ELSE 0
           mid == SplitPoint(Position(t), remaining)
<1>1. /\ range \in [Threads -> Ranges] /\ reply \in [Threads -> Replies] /\ slice \in [Threads -> Slices]
      /\ TypeOK /\ AllBounded /\ Mailbox /\ Streams(t)
  BY DEF StealInv, TypeInv, TypeOK
<1>0. PICK thief \in Threads : thief = Head(inbox[t])
  BY <1>1, InboxHead DEF Answer
<1>2. thief # t /\ pc[thief] = "await" /\ reply[thief].kind = "pending"
  BY <1>0, <1>1, InboxHead DEF Answer
<1>3. /\ pc[t] \in {"boundary", "batch", "backoff"} /\ ~(remaining < MinSteal)
      /\ reply' = [reply EXCEPT ![thief] = Granted(mid, range[t].end)]
      /\ range' = [range EXCEPT ![t].end = mid]
      /\ slice' = [slice EXCEPT ![t].end = mid]
      /\ UNCHANGED <<pc, counted, pass, journal, touched, processed>>
  BY <1>0 DEF Answer, history
<1>4. /\ Position(t) \in FirstSlot .. EndSlot /\ mid \in FirstSlot .. EndSlot
      /\ Position(t) < mid /\ mid < range[t].end /\ range[t].end \in FirstSlot .. EndSlot
  BY <1>1, <1>3, GrantBounds
<1> HIDE DEF mid, remaining
<1>5. /\ counted[t] \in Nat /\ range[t].start \in Nat /\ mid \in Nat /\ range[t].end \in Nat
      /\ Position(t) \in Nat /\ slice[t].start \in Nat /\ slice[t].next \in Nat /\ pass[t].top \in Nat
  BY <1>1, <1>4, Numbers, RangeAssumption
<1>6. Position(t) = Resume(t)
  BY <1>1, <1>3, <1>5 DEF Streams, Position, Resume, Max2
<1>7. /\ reply'[thief].kind = "granted" /\ reply'[thief].start = mid /\ reply'[thief].end = range[t].end
      /\ \A u \in Threads \ {thief} : reply'[u] = reply[u]
  BY <1>1, <1>2, <1>3 DEF Granted
<1>8. /\ range'[t].start = range[t].start /\ range'[t].end = mid
      /\ \A u \in Threads \ {t} : range'[u] = range[u]
      /\ slice'[t].start = slice[t].start /\ slice'[t].next = slice[t].next /\ slice'[t].end = mid
      /\ \A u \in Threads \ {t} : slice'[u] = slice[u]
  BY <1>1, <1>3 DEF Ranges, Slices
<1>9. /\ pc[t] \in Streaming /\ pc'[t] = pc[t] /\ NoneSkipped(t) /\ EntryTrue(t) /\ EntryTrue(thief)
      /\ Resume(t)' = Resume(t)
  BY <1>3, <1>8 DEF BlockInv, Streaming, Resume
<1>10. /\ slice[t].end = range[t].end /\ slice[t].start <= slice[t].next /\ slice[t].next <= Resume(t)
       /\ reply[t].kind # "granted" /\ reply'[t] = reply[t]
  BY <1>2, <1>7, <1>9 DEF EntryTrue, Streaming, Promised
<1>11. NoneSkipped(t)'
  <2>1. Resume(t)' <= range'[t].end /\ \A b \in Blocks : b <= counted'[t] \/ range'[t].start <= b
    BY <1>3, <1>4, <1>5, <1>6, <1>8, <1>9 DEF NoneSkipped
  <2>2. pc[t] = "batch" => /\ range'[t].end <= EpochLast(pass[t].top) + 1
                           /\ \A s \in Slots : s < mid /\ s <= EpochLast(pass[t].epoch) => s <= pass[t].last
    <3>1. SUFFICES ASSUME pc[t] = "batch"
                   PROVE  /\ range'[t].end <= EpochLast(pass[t].top) + 1
                          /\ \A s \in Slots : s < mid /\ s <= EpochLast(pass[t].epoch) => s <= pass[t].last
      OBVIOUS
    <3>2. range[t].end <= EpochLast(pass[t].top) + 1 /\ EpochLast(pass[t].top) \in Nat
      BY <1>5, <1>9, <3>1, EpochAssumption DEF NoneSkipped, InPass, EpochLast
    <3>3. ASSUME NEW s \in Slots, s < mid PROVE s < range[t].end
      <4>1. s \in Nat
        BY SlotsNat
      <4> QED BY <1>4, <1>5, <3>3, <4>1
    <3> QED BY <1>4, <1>5, <1>8, <1>9, <3>1, <3>2, <3>3 DEF NoneSkipped
  <2> QED BY <1>3, <1>8, <1>9, <2>1, <2>2 DEF NoneSkipped, InPass
<1>12. EntryTrue(t)'
  <2>1. \A b \in Slots \cap Blocks : Between(slice[t].start, Resume(t), b) => b \in processed
    BY <1>9 DEF EntryTrue
  <2> QED BY <1>3, <1>8, <1>9, <1>10, <2>1 DEF EntryTrue, Adopting
<1>13. NoneSkipped(thief)' /\ EntryTrue(thief)'
  <2>1. pc'[thief] = "await" /\ slice'[thief] = slice[thief] /\ slice[thief].end <= slice[thief].next
    BY <1>2, <1>3, <1>8, <1>9 DEF EntryTrue
  <2> QED BY <1>4, <1>5, <1>7, <2>1 DEF NoneSkipped, EntryTrue, Streaming, InPass, Adopting, Promised
<1>14. ASSUME NEW u \in Threads, u # t, u # thief
       PROVE  NoneSkipped(u)' /\ EntryTrue(u)' /\ Claim(u)' = Claim(u) /\ Share(u)' = Share(u)
  <2>1. Aside(u)
    BY <1>3, <1>7, <1>8, <1>14 DEF Aside, Bystander
  <2> QED BY <1>3, <2>1, AsideKeeps DEF BlockInv
<1>15. Claim(thief) = {} /\ Share(thief) = {}
  BY <1>1, <1>2, <1>9, IdleClaims
<1>16. ASSUME NEW lo \in Nat, lo <= mid, NEW b \in Slots, Between(lo, range[t].end, b)
       PROVE  Between(lo, mid, b) \/ Between(mid, range[t].end, b)
  <2>1. b \in Nat
    BY SlotsNat
  <2> QED BY <1>5, <1>16, <2>1 DEF Between
<1>17. Claim(t) \subseteq Claim(t)' \cup Claim(thief)'
  <2>1. slice[t].next <= mid
    BY <1>4, <1>5, <1>6, <1>10
  <2> QED BY <1>5, <1>7, <1>8, <1>10, <1>16, <2>1 DEF Claim
<1>18. Share(t) \subseteq Share(t)' \cup Share(thief)'
  <2>1. slice[t].start <= mid
    BY <1>4, <1>5, <1>6, <1>10
  <2>2. ASSUME NEW b \in Share(t) PROVE Between(slice[t].start, range[t].end, b) /\ b \in Slots
    BY <1>10, <2>2 DEF Share
  <2> QED BY <1>3, <1>5, <1>7, <1>8, <1>9, <1>10, <1>16, <2>1, <2>2 DEF Share
<1>19. \A u \in Threads : Claim(u) \subseteq UNION {Claim(w)' : w \in Threads}
                          /\ Share(u) \subseteq UNION {Share(w)' : w \in Threads}
  BY <1>0, <1>14, <1>15, <1>17, <1>18
<1>20. \A u \in Threads : NoneSkipped(u)' /\ EntryTrue(u)'
  BY <1>11, <1>12, <1>13, <1>14
<1>21. Journaled' = Journaled
  BY <1>3 DEF Journaled
<1> QED BY <1>3, <1>19, <1>20, <1>21 DEF BlockInv

-----------------------------------------------------------------------------
(* The claims and the work of a thread name the same unprocessed blocks.   *)

LEMMA WorkClaimed ==
  ASSUME TypeOK, NEW t \in Threads, EntryTrue(t)
  PROVE  WorkOf(t) \subseteq Claim(t)
<1>1. /\ Slots \subseteq Nat /\ slice[t].next \in Nat /\ range[t].start \in Nat /\ counted[t] \in Nat
  BY Numbers, SlotsNat
<1>2. CASE pc[t] \in Streaming
  <2>1. /\ WorkOf(t) = {s \in Slots : Resume(t) <= s /\ s < range[t].end}
        /\ slice[t].end = range[t].end /\ slice[t].next <= Resume(t) /\ reply[t].kind # "granted"
    BY <1>2, WorkShape DEF EntryTrue, Streaming, Promised
  <2>2. Resume(t) \in Nat
    BY <1>1 DEF Resume, Max2
  <2>3. \A s \in Nat : Resume(t) <= s => slice[t].next <= s
    BY <1>1, <2>1, <2>2
  <2> QED BY <1>1, <2>1, <2>3 DEF Claim, Between
<1>3. CASE pc[t] \notin Streaming
  BY <1>3, WorkShape DEF Claim, Between
<1> QED BY <1>2, <1>3

LEMMA ClaimWorked ==
  ASSUME TypeOK', AllBounded', NEW t \in Threads, EntryTrue(t)', pc'[t] # "stopped"
  PROVE  Claim(t)' \cap Blocks \subseteq processed' \cup WorkOf(t)'
<1>1. /\ Slots \subseteq Nat /\ slice'[t].start \in Nat /\ slice'[t].next \in Nat /\ slice'[t].end \in Nat
      /\ range'[t].start \in Nat /\ counted'[t] \in Nat /\ range'[t].end \in Nat
      /\ pc'[t] \in Labels
  BY NextNumbers, SlotsNat DEF TypeOK
<1> SUFFICES ASSUME NEW b \in Slots \cap Blocks, b \in Claim(t)', b \notin processed' PROVE b \in WorkOf(t)'
  BY DEF Claim
<1>2. b \in Nat
  BY <1>1
<1>3. CASE reply'[t].kind = "granted"
  <2>1. pc'[t] \in Promised /\ Between(reply'[t].start, reply'[t].end, b)
    BY <1>3 DEF EntryTrue, Claim
  <2> QED BY <1>3, <2>1 DEF WorkOf, Between
<1>4. CASE reply'[t].kind # "granted"
  <2>1. slice'[t].next <= b /\ b < slice'[t].end
    BY <1>4 DEF Claim, Between
  <2>2. pc'[t] \notin {"drain", "hunt", "await", "adopt_next", "retired"}
    BY <1>1, <1>2, <2>1 DEF EntryTrue
  <2>3. pc'[t] # "adopt_end"
    BY <1>4 DEF AllBounded, Bounds, Adopting
  <2>4. pc'[t] # "complete"
    <3>1. ASSUME pc'[t] = "complete" PROVE FALSE
      <4>1. slice'[t].end = range'[t].end /\ slice'[t].start <= slice'[t].next
        BY <3>1 DEF EntryTrue
      <4>2. Between(slice'[t].start, range'[t].end, b)
        BY <1>1, <1>2, <2>1, <4>1 DEF Between
      <4> QED BY <3>1, <4>2 DEF EntryTrue
    <3> QED BY <3>1
  <2>5. pc'[t] \in Streaming
    BY <1>1, <2>2, <2>3, <2>4 DEF Labels, Streaming
  <2>6. slice'[t].end = range'[t].end /\ slice'[t].start <= slice'[t].next
    BY <2>5 DEF EntryTrue
  <2>7. ~Between(slice'[t].start, Resume(t)', b)
    BY <2>5 DEF EntryTrue
  <2>8. Resume(t)' <= b
    BY <1>1, <1>2, <2>1, <2>6, <2>7 DEF Between, Resume, Max2
  <2>9. range'[t].start <= b /\ counted'[t] < b /\ b < range'[t].end
    BY <1>1, <1>2, <2>1, <2>6, <2>8 DEF Resume, Max2
  <2> QED BY <2>5, <2>9 DEF WorkOf
<1> QED BY <1>3, <1>4

\* So a step that keeps the claims is one of SlotOwnership's advances.
LEMMA KeptIsAdvance ==
  ASSUME LedgerInv, TypeInv', NEW t \in Threads, Keeps(t), pc'[t] # "stopped", Owners!Move(t)
  PROVE  Owners!Advance(t)
<1>1. WorkOf(t) \subseteq Claim(t)
  BY WorkClaimed DEF LedgerInv, StealInv, TypeInv, BlockInv
<1>2. Claim(t)' \cap Blocks \subseteq processed' \cup WorkOf(t)'
  BY ClaimWorked DEF Keeps, TypeInv
<1>3. (WorkOf(t) \ WorkOf(t)') \cap Blocks \subseteq processed'
  BY <1>1, <1>2 DEF Keeps
<1> QED BY <1>3 DEF Owners!Advance

(***************************************************************************)
(* Every step of a thread advances it, hands its work over or ends it.     *)
(***************************************************************************)
LEMMA LedgerStep ==
  ASSUME LedgerInv, IndexAnswers, NEW t \in Threads, Step(t) \/ Disturb(t)
  PROVE  /\ LedgerInv'
         /\ \/ Owners!Advance(t)
            \/ Owners!Die(t)
            \/ \E u \in Threads : Owners!Handover(t, u)
<1>1. StealInv /\ BlockInv /\ StealInv' /\ TypeInv'
  BY StealStep DEF LedgerInv, StealInv
<1>2. CASE PollShutdown(t) \/ HandlerInterrupts(t)
  BY <1>1, <1>2, DeathStep, DeathKeeps, KeepStep DEF LedgerInv
<1>3. CASE Answer(t) /\ reply' # [reply EXCEPT ![Head(inbox[t])] = Refused]
  <2>1. Head(inbox[t]) \in Threads
    BY <1>1, <1>3, InboxHead DEF Answer, StealInv, TypeInv
  <2> QED BY <1>1, <1>3, <2>1, GrantStep, GrantKeeps DEF LedgerInv
<1>4. CASE \/ Answer(t) /\ reply' = [reply EXCEPT ![Head(inbox[t])] = Refused]
           \/ Refuse(t)
  <2>1. Refused.kind = "refused" /\ \A a, b : Granted(a, b).kind = "granted"
    BY DEF Refused, NoReply, Granted
  <2>2. inbox[t] # <<>> /\ Head(inbox[t]) \in Threads /\ reply \in [Threads -> Replies]
    BY <1>1, <1>4, InboxHead DEF Answer, Refuse, StealInv, TypeInv, TypeOK
  <2>3. /\ reply' = [reply EXCEPT ![Head(inbox[t])] = Refused] /\ pc[t] # "stopped"
        /\ UNCHANGED <<pc, range, counted, pass, slice, journal, history>>
    BY <1>4, <2>1, <2>2 DEF Answer, Refuse, local
  <2>4. Moves(t) /\ \A u \in Threads \ {t} : Bystander(u)
    BY <1>1, <2>2, <2>3, TurnDownMoves
  <2>5. Owners!Move(t)
    BY <1>1, <2>4, LocalStep
  <2>6. \A u \in Threads : Aside(u)
    BY <1>1, <2>2, <2>3, TurnDownAside
  <2>7. WorkOf(t)' = WorkOf(t)
    BY <1>1, <2>6, BystanderKeeps DEF Aside, StealInv
  <2>8. Owners!Advance(t)
    BY <2>5, <2>7 DEF Owners!Advance
  <2> QED BY <1>1, <2>3, <2>6, <2>8, AsideStep DEF LedgerInv, history
<1>5. CASE ~PollShutdown(t) /\ ~HandlerInterrupts(t) /\ ~Answer(t) /\ ~Refuse(t)
  <2>1. Keeps(t) /\ \A u \in Threads \ {t} : Aside(u)
    BY <1>1, <1>5, IdleKeeps, CompleteKeeps, AdoptKeeps, PassKeeps, PassEndKeeps, ErrorKeeps,
       OpenEpochKeeps, ProcessKeeps DEF Step, Disturb
  <2>2. Moves(t) /\ \A u \in Threads \ {t} : Bystander(u)
    BY <1>1, <1>5, IdleMoves, AdoptMoves, PassMoves, PassEndMoves, ErrorMoves,
       OpenEpochMoves, ProcessMoves DEF Step, Disturb
  <2>3. Owners!Move(t) /\ pc'[t] # "stopped"
    BY <1>1, <2>2, LocalStep DEF Moves
  <2>4. BlockInv'
    BY <1>1, <2>1, KeepStep
  <2> QED BY <1>1, <2>1, <2>3, <2>4, KeptIsAdvance DEF LedgerInv
<1> QED BY <1>2, <1>3, <1>4, <1>5

LEMMA LedgerStutter ==
  ASSUME LedgerInv, SignalShutdown \/ Audit \/ Terminated \/ UNCHANGED vars
  PROVE  LedgerInv' /\ UNCHANGED Owners!vars
<1>1. StealInv' /\ UNCHANGED Owners!vars
  BY StealStutter DEF LedgerInv
<1>2. UNCHANGED <<pc, range, counted, pass, slice, reply, journal, touched, processed>>
  BY DEF SignalShutdown, Audit, Terminated, vars, local, shared, history
<1>3. \A u \in Threads : Aside(u)
  BY <1>2 DEF Aside, Bystander
<1> QED BY <1>1, <1>2, <1>3, AsideStep DEF LedgerInv

LEMMA LedgerInit == Init => LedgerInv
<1> SUFFICES ASSUME Init PROVE LedgerInv
  OBVIOUS
<1>1. StealInv
  BY StealInit
<1>2. ASSUME NEW t \in Threads
      PROVE  /\ pc[t] = "unspawned" /\ range[t] = Subrange(t) /\ counted[t] = Subrange(t).start - 1
             /\ slice[t].start = Subrange(t).start /\ slice[t].next = Subrange(t).start
             /\ slice[t].end = Subrange(t).end /\ reply[t].kind = "none"
             /\ Subrange(t).start \in Nat \ {0} /\ Subrange(t).end \in Nat
             /\ Subrange(t).start <= Subrange(t).end
  BY SubrangeBounds, RangeAssumption DEF Init, NoReply
<1>3. ASSUME NEW t \in Threads PROVE NoneSkipped(t) /\ EntryTrue(t)
  <2>1. Resume(t) = Subrange(t).start
    BY <1>2 DEF Resume, Max2
  <2>2. \A b \in Blocks : b <= Subrange(t).start - 1 \/ Subrange(t).start <= b
    <3>1. ASSUME NEW b \in Blocks PROVE b <= Subrange(t).start - 1 \/ Subrange(t).start <= b
      <4>1. b \in Nat
        BY SlotsNat
      <4> QED BY <1>2, <4>1
    <3> QED BY <3>1
  <2>3. \A b \in Slots \cap Blocks : ~Between(Subrange(t).start, Subrange(t).start, b)
    <3>1. \A b \in Nat : ~Between(Subrange(t).start, Subrange(t).start, b)
      BY <1>2 DEF Between
    <3> QED BY <3>1, SlotsNat
  <2>4. NoneSkipped(t)
    BY <1>2, <2>1, <2>2 DEF NoneSkipped, InPass
  <2> QED BY <1>2, <2>1, <2>3, <2>4 DEF EntryTrue, Adopting
<1>4. ASSUME NEW s \in Slots PROVE \E t \in Threads : s \in Claim(t) /\ s \in Share(t)
  <2>1. PICK t \in Threads : s \in Initial(t)
    BY SubrangesPartition
  <2>2. Between(Subrange(t).start, Subrange(t).end, s)
    BY <2>1 DEF Initial, Between
  <2> QED BY <1>2, <2>2 DEF Claim, Share, Streaming
<1>5. Journaled = {}
  BY DEF Init, Journaled
<1> QED BY <1>1, <1>3, <1>4, <1>5 DEF LedgerInv, BlockInv

LEMMA LedgerNext == IndexAnswers /\ LedgerInv /\ [Next]_vars => LedgerInv'
BY LedgerStep, LedgerStutter DEF Next

-----------------------------------------------------------------------------
(* The theorems.                                                           *)

LEMMA LedgerAlways == IndexAnswers /\ Spec => [](IndexAnswers /\ LedgerInv)
<1>1. IndexAnswers /\ Init => IndexAnswers /\ LedgerInv
  BY LedgerInit
<1>2. (IndexAnswers /\ LedgerInv) /\ [Next]_vars => (IndexAnswers /\ LedgerInv)'
  BY LedgerNext DEF IndexAnswers
<1> QED BY <1>1, <1>2, PTL DEF Spec

(***************************************************************************)
(* While the index answers, the steal protocol implements SlotOwnership:   *)
(* work changes hands whole and untouched, and no thread lets go of a      *)
(* block it has not processed, whatever else fails and whoever stops.      *)
(***************************************************************************)
THEOREM OwnershipKept == IndexAnswers /\ Spec => Ownership
<1>1. Init => Owners!Init
  <2> SUFFICES ASSUME Init PROVE Owners!Init
    OBVIOUS
  <2>1. \A t \in Threads : WorkOf(t) = {s \in Slots : Subrange(t).start <= s /\ s < Subrange(t).end}
    <3>1. TAKE t \in Threads
    <3>2. /\ pc[t] = "unspawned" /\ counted[t] = Subrange(t).start - 1 /\ range[t] = Subrange(t)
          /\ Subrange(t).start \in Nat
      BY SubrangeBounds, RangeAssumption DEF Init
    <3>3. \A s \in Slots : Subrange(t).start <= s => counted[t] < s
      BY <3>2, SlotsNat
    <3> QED BY <3>2, <3>3 DEF WorkOf, Streaming, Promised
  <2>2. touched = [t \in Threads |-> {}] /\ processed = {} /\ {t \in Threads : pc[t] = "stopped"} = {}
    BY DEF Init
  <2> QED BY <2>1, <2>2 DEF Owners!Init
<1>2. (IndexAnswers /\ LedgerInv) /\ [Next]_vars => [Owners!Next]_(Owners!vars)
  BY LedgerStep, LedgerStutter DEF Next, Owners!Next
<1> QED BY <1>1, <1>2, LedgerAlways, PTL DEF Spec, Ownership, Owners!Spec

\* What a thread is about to process is its work.
LEMMA BatchIsWork ==
  ASSUME TypeOK, AllBounded, NEW t \in Threads, Streams(t), CanProcess(t)
  PROVE  pass[t].batch \in WorkOf(t)
<1>1. pc[t] = "batch" /\ pass[t].batch \in Slots /\ counted[t] < pass[t].batch /\ pass[t].batch < range[t].end
  BY BatchBounds
<1>2. range[t].start <= counted[t] + 1 /\ counted[t] \in Nat /\ range[t].start \in Nat /\ pass[t].batch \in Nat
  BY <1>1, Numbers DEF Streams
<1>3. range[t].start <= pass[t].batch
  BY <1>1, <1>2
<1> QED BY <1>1, <1>3 DEF WorkOf, Streaming

\* No block is anybody's work once it is counted.
CountedIsDone == \A t \in Threads : processed \cap WorkOf(t) = {}

\* Only Process counts a block.
LEMMA OnlyProcessCounts ==
  ASSUME NEW t \in Threads, Step(t) \/ Disturb(t), ~Process(t)
  PROVE  UNCHANGED processed
BY DEF Step, Disturb, Answer, Refuse, Spawn, StartPass, SkipEpoch, OpenEpoch, Read, PrematureEnd,
   EndOfStream, PastSlice, PastRange, FinishEpochs, BackoffEnds, PollShutdown, CompleteRange, Scan,
   Ask, Denied, AdoptStart, AdoptNext, AdoptEnd, Retire, FetchFails, SeekFails, ReadFails,
   HandlerFails, HandlerInterrupts, history

LEMMA CountedStep ==
  ASSUME StealInv, CountedIsDone, NEW t \in Threads, Step(t) \/ Disturb(t)
  PROVE  CountedIsDone'
<1>1. StealInv' /\ (Owners!Move(t) \/ Owners!Die(t) \/ \E u \in Threads : Owners!Handover(t, u))
  BY StealStep
<1>2. \A u, w \in Threads : u # w => WorkOf(u) \cap WorkOf(w) = {}
  BY DEF StealInv, Owners!Exclusive, Owners!OneOwner
<1>3. CASE Process(t)
  <2>1. /\ TypeOK /\ TypeOK' /\ Streams(t) /\ CanProcess(t) /\ AllBounded
        /\ counted \in [Threads -> Positions]
    BY <1>1, <1>3 DEF StealInv, TypeInv, Process, TypeOK
  <2>2. pass[t].batch \in WorkOf(t) /\ pass[t].batch \in Nat
    BY <2>1, BatchIsWork, Numbers
  <2>3. processed' = processed \cup {pass[t].batch} /\ counted'[t] = pass[t].batch
        /\ pc'[t] \notin Promised
    BY <1>3, <2>1 DEF Process, Go, Promised, TypeOK
  <2>4. \A u \in Threads : WorkOf(u)' \subseteq WorkOf(u)
    <3>1. Moves(t) /\ \A u \in Threads \ {t} : Bystander(u)
      BY <1>1, <1>3, ProcessMoves DEF StealInv
    <3> QED BY <3>1, BystanderKeeps DEF Moves, StealInv
  <2>5. pass[t].batch \notin WorkOf(t)'
    <3>1. ~(counted'[t] < pass[t].batch)
      BY <2>2, <2>3
    <3> QED BY <2>3, <3>1 DEF WorkOf
  <2>6. ASSUME NEW u \in Threads PROVE processed' \cap WorkOf(u)' = {}
    BY <1>2, <2>2, <2>3, <2>4, <2>5 DEF CountedIsDone
  <2> QED BY <2>6 DEF CountedIsDone
<1>4. CASE ~Process(t)
  <2>1. processed' = processed
    BY <1>4, OnlyProcessCounts
  <2>2. \A u \in Threads : \E w \in Threads : WorkOf(u)' \subseteq WorkOf(w)
    BY <1>1 DEF Owners!Move, Owners!Die, Owners!Handover, Owners!OnlyChanges
  <2> QED BY <2>1, <2>2 DEF CountedIsDone
<1> QED BY <1>3, <1>4

(***************************************************************************)
(* No thread is about to process a block that is already counted: what     *)
(* restarts, grants and failed deliveries bring back was never counted.    *)
(* Whatever faults occur.                                                  *)
(***************************************************************************)
THEOREM BlocksCountedOnce == Spec => []CountedOnce
<1>1. Init => StealInv /\ CountedIsDone
  BY StealInit DEF Init, CountedIsDone
<1>2. StealInv /\ CountedIsDone /\ [Next]_vars => (StealInv /\ CountedIsDone)'
  <2> SUFFICES ASSUME StealInv, CountedIsDone, [Next]_vars PROVE CountedIsDone'
    BY StealNext
  <2>1. CASE \E t \in Threads : Step(t) \/ Disturb(t)
    BY <2>1, CountedStep
  <2>2. CASE SignalShutdown \/ Audit \/ Terminated \/ UNCHANGED vars
    <3>1. UNCHANGED Owners!vars
      BY <2>2, StealStutter
    <3> QED BY <3>1 DEF CountedIsDone, Owners!vars
  <2> QED BY <2>1, <2>2 DEF Next
<1>3. StealInv /\ CountedIsDone => CountedOnce
  BY BatchIsWork DEF StealInv, TypeInv, CountedIsDone, CountedOnce
<1> QED BY <1>1, <1>2, <1>3, PTL DEF Spec

(***************************************************************************)
(* The resume floor: once no grant is on its way, every block below all    *)
(* unfinished ledger entries is processed.                                 *)
(***************************************************************************)
THEOREM FloorIsSafe == IndexAnswers /\ Spec => []FloorSafeOnceAdopted
<1>1. LedgerInv => FloorSafeOnceAdopted
  <2> SUFFICES ASSUME LedgerInv, \A t \in Threads : reply[t].kind # "granted",
                      NEW s \in Slots \cap Blocks, BelowFloor(s)
               PROVE  s \in processed
    BY DEF FloorSafeOnceAdopted, FloorSafe
  <2>1. ASSUME NEW t \in Threads, s \in Claim(t) PROVE FALSE
    <3>1. slice[t].next \in Nat /\ slice[t].end \in Nat /\ s \in Nat
      BY Numbers, SlotsNat DEF LedgerInv, StealInv, TypeInv
    <3>2. slice[t].next <= s /\ s < slice[t].end
      BY <2>1 DEF Claim, Between
    <3>3. t \in Unfinished
      BY <3>1, <3>2 DEF Unfinished
    <3> QED BY <3>1, <3>2, <3>3 DEF BelowFloor
  <2> QED BY <2>1 DEF LedgerInv, BlockInv
<1> QED BY <1>1, LedgerAlways, PTL

-----------------------------------------------------------------------------
(* The audit.                                                              *)

LEMMA StepAudit ==
  ASSUME NEW t \in Threads, Step(t) \/ Disturb(t)
  PROVE  UNCHANGED audit
BY DEF Step, Disturb, Answer, Refuse, Spawn, StartPass, SkipEpoch, OpenEpoch, Read, PrematureEnd,
   EndOfStream, PastSlice, PastRange, Process, FinishEpochs, BackoffEnds, PollShutdown, CompleteRange,
   Scan, Ask, Denied, AdoptStart, AdoptNext, AdoptEnd, Retire, FetchFails, SeekFails, ReadFails,
   HandlerFails, HandlerInterrupts, shared

\* What is neither journaled nor in a hole is no slot of the run.
LEMMA HoleOrJournaled ==
  ASSUME TypeOK, NEW s \in Slots
  PROVE  s \in Holes <=> s \notin Journaled
<1>1. ASSUME NEW j \in journal PROVE (s < j.start \/ s >= j.end) <=> ~Between(j.start, j.end, s)
  <2>1. Positions \subseteq Nat
    BY RangeAssumption DEF Positions
  <2>2. j.start \in Nat /\ j.end \in Nat
    BY <2>1 DEF TypeOK, Ranges
  <2>3. s \in Nat
    BY SlotsNat
  <2> QED BY <2>2, <2>3 DEF Between
<1> QED BY <1>1 DEF Holes, Journaled

\* When every thread has retired the journal covers every block.
LEMMA RetiredJournaled ==
  ASSUME LedgerInv, \A t \in Threads : pc[t] = "retired"
  PROVE  Slots \cap Blocks \subseteq Journaled
<1>1. \A t \in Threads : Share(t) = {}
  <2>1. TAKE t \in Threads
  <2>2. EntryTrue(t) /\ TypeOK
    BY DEF LedgerInv, BlockInv, StealInv, TypeInv
  <2>3. reply[t].kind # "granted"
    BY <2>2 DEF EntryTrue, Promised
  <2> QED BY <2>2, <2>3, IdleClaims
<1> QED BY <1>1 DEF LedgerInv, BlockInv

AuditTells ==
  /\ AuditSound
  /\ audit = "failed" => \E t \in Threads : pc[t] = "stopped"

LEMMA AuditStep ==
  ASSUME LedgerInv, IndexAnswers, AuditTells, [Next]_vars
  PROVE  AuditTells'
<1>1. CASE \E t \in Threads : Step(t) \/ Disturb(t)
  <2>1. PICK t \in Threads : Step(t) \/ Disturb(t)
    BY <1>1
  <2>2. audit' = audit
    BY <2>1, StepAudit
  <2>3. Owners!Move(t) \/ Owners!Die(t) \/ \E u \in Threads : Owners!Handover(t, u)
    BY <2>1, StealStep DEF LedgerInv
  <2>4. processed \subseteq processed'
    BY <2>3 DEF Owners!Move, Owners!Die, Owners!Handover
  <2>5. {u \in Threads : pc[u] = "stopped"} \subseteq {u \in Threads : pc'[u] = "stopped"}
    BY <2>3 DEF Owners!Move, Owners!Die, Owners!Handover
  <2> QED BY <2>2, <2>4, <2>5 DEF AuditTells, AuditSound
<1>2. CASE Audit
  <2>1. UNCHANGED <<pc, journal, processed>> /\ AllGone
    BY <1>2 DEF Audit, local, history
  <2>2. audit' = "passed" => Holes \cap Blocks = {}
    BY <1>2 DEF Audit, Fault, IndexAnswers
  <2>3. audit' = "failed" => Holes \cap Blocks # {}
    BY <1>2 DEF Audit
  <2>4. TypeOK /\ Journaled \cap Blocks \subseteq processed
    BY DEF LedgerInv, StealInv, TypeInv, BlockInv
  <2>5. AuditSound'
    BY <2>1, <2>2, <2>4, HoleOrJournaled DEF AuditSound
  <2>6. audit' = "failed" => \E t \in Threads : pc[t] = "stopped"
    <3>1. Holes \subseteq Slots
      BY DEF Holes
    <3>2. (\A t \in Threads : pc[t] # "stopped") => \A t \in Threads : pc[t] = "retired"
      BY <2>1 DEF AllGone, Gone
    <3> QED BY <2>3, <2>4, <3>1, <3>2, HoleOrJournaled, RetiredJournaled
  <2> QED BY <2>1, <2>5, <2>6 DEF AuditTells
<1>3. CASE SignalShutdown \/ Terminated \/ UNCHANGED vars
  <2>1. UNCHANGED <<pc, audit, processed>>
    BY <1>3 DEF SignalShutdown, Terminated, vars, local, shared, history
  <2> QED BY <2>1 DEF AuditTells, AuditSound
<1> QED BY <1>1, <1>2, <1>3 DEF Next

LEMMA AuditAlways == IndexAnswers /\ Spec => []AuditTells
<1>1. IndexAnswers /\ Init => AuditTells
  BY DEF Init, AuditTells, AuditSound
<1>2. (IndexAnswers /\ LedgerInv) /\ AuditTells /\ [Next]_vars => AuditTells'
  BY AuditStep
<1> QED BY <1>1, <1>2, LedgerAlways, PTL DEF Spec

(***************************************************************************)
(* A passed coverage audit means what it logs: every block of the          *)
(* requested range was delivered and counted.                              *)
(***************************************************************************)
THEOREM PassedAuditSound == IndexAnswers /\ Spec => []AuditSound
<1>1. AuditTells => AuditSound
  BY DEF AuditTells
<1> QED BY <1>1, AuditAlways, PTL

(***************************************************************************)
(* The coverage audit never fails a run in which every thread finished:    *)
(* restarts, steals and refused proposals leave no hole in the journal.    *)
(***************************************************************************)
THEOREM FailedAuditTrue == IndexAnswers /\ Spec => []AuditComplete
<1>1. AuditTells => AuditComplete
  BY DEF AuditTells, AuditComplete
<1> QED BY <1>1, AuditAlways, PTL

-----------------------------------------------------------------------------
(* What is reported through on_block, in a run in which no thread restarts. *)

\* The faults after which a thread restarts, and its mark of what it emitted with it.
NoRestarts == Faults \cap {"transport", "truncated", "handler", "recycle"} = {}

\* A thread has counted whatever it emitted, and a clean end of its stream is the true one.
Marked(t) ==
  /\ pc[t] \in Streaming => emitted[t] <= counted[t]
  /\ pc[t] = "batch" /\ pass[t].batch = None =>
       \A b \in Blocks : b <= counted[t] \/ EpochLast(pass[t].epoch) < b

ReportInv == (\A t \in Threads : Marked(t)) /\ EveryBlockReported

\* Steps that touch neither what is counted nor what was reported.
LEMMA MarkedFrame ==
  ASSUME ReportInv, NEW t \in Threads, UNCHANGED <<counted, emitted, delivered, processed>>,
         \A u \in Threads \ {t} : pc'[u] = pc[u] /\ pass'[u] = pass[u],
         pc'[t] \in Streaming => pc[t] \in Streaming,
         pc'[t] # "batch" \/ (pc[t] = "batch" /\ pass'[t] = pass[t])
  PROVE  ReportInv'
<1>1. ASSUME NEW u \in Threads PROVE Marked(u)'
  <2>1. CASE u = t
    BY <2>1 DEF ReportInv, Marked
  <2>2. CASE u # t
    BY <2>2 DEF ReportInv, Marked
  <2> QED BY <2>1, <2>2
<1>2. EveryBlockReported'
  BY DEF ReportInv, EveryBlockReported
<1> QED BY <1>1, <1>2 DEF ReportInv

\* Without a cut stream, the index knows nothing the stream does not deliver.
LEMMA EndIsTrue ==
  ASSUME StealInv, NEW t \in Threads, Marked(t)
  PROVE  ~PrematureEnd(t)
<1> SUFFICES ASSUME PrematureEnd(t) PROVE FALSE
  OBVIOUS
<1>1. pc[t] = "batch" /\ pass[t].batch = None /\ Unread(t) # None
  BY DEF PrematureEnd, HasBatch
<1>2. /\ counted[t] \in Nat /\ pass[t].last \in Nat /\ range[t].end \in Nat \ {0} /\ pass[t].epoch \in Nat
      /\ pass[t].last <= EpochLast(pass[t].epoch)
  BY <1>1, Numbers, RangeAssumption DEF StealInv, TypeInv, AllBounded, Bounds, Streams
<1>3. EpochLast(pass[t].epoch) \in Nat /\ Min2(pass[t].last, range[t].end - 1) \in Nat
      /\ Min2(pass[t].last, range[t].end - 1) <= pass[t].last
  <2>1. EpochLast(pass[t].epoch) \in Nat
    BY <1>2, EpochAssumption DEF EpochLast
  <2>2. range[t].end - 1 \in Nat
    BY <1>2
  <2> QED BY <1>2, <2>1, <2>2 DEF Min2
<1>4. /\ Unread(t) \in Blocks /\ Unread(t) \in Nat /\ counted[t] < Unread(t)
      /\ Unread(t) <= Min2(pass[t].last, range[t].end - 1)
  BY <1>1, <1>2, <1>3, NextPresentSpec DEF Unread
<1> QED BY <1>1, <1>2, <1>3, <1>4 DEF Marked

LEMMA ReportStep ==
  ASSUME StealInv, ReportInv, NoRestarts, NEW t \in Threads, Step(t) \/ Disturb(t)
  PROVE  ReportInv'
<1>1. /\ pc \in [Threads -> Labels] /\ pass \in [Threads -> Passes] /\ counted \in [Threads -> Positions]
      /\ emitted \in [Threads -> Positions] /\ reply \in [Threads -> Replies]
      /\ delivered \in [Threads -> SUBSET Slots]
      /\ TypeOK /\ AllBounded /\ Streams(t) /\ Marked(t) /\ ~PrematureEnd(t)
  BY EndIsTrue DEF StealInv, TypeInv, TypeOK, ReportInv
<1>2. /\ counted[t] \in Nat /\ emitted[t] \in Nat /\ range[t].start \in Nat /\ pass[t].epoch \in Nat
      /\ pass[t].batch \in Nat
  BY <1>1, Numbers
<1>3. ~Fault("transport") /\ ~Fault("truncated") /\ ~Fault("handler") /\ ~Fault("recycle")
  BY DEF NoRestarts, Fault
<1>4. CASE FetchFails(t) \/ SeekFails(t) \/ ReadFails(t) \/ HandlerFails(t)
  BY <1>3, <1>4 DEF FetchFails, SeekFails, ReadFails, HandlerFails
<1>5. CASE Read(t)
  <2>1. /\ UNCHANGED <<counted, emitted, delivered, processed>> /\ pc[t] = "loop"
        /\ pass'[t].batch = NextPresent(counted[t], EpochLast(pass[t].epoch))
        /\ pass'[t].epoch = pass[t].epoch
        /\ \A u \in Threads \ {t} : pc'[u] = pc[u] /\ pass'[u] = pass[u]
    BY <1>1, <1>3, <1>5 DEF Read, Go, Passes, history
  <2>2. EpochLast(pass[t].epoch) \in Nat
    BY <1>2, EpochAssumption DEF EpochLast
  <2>3. pass'[t].batch = None => \A b \in Blocks : b <= counted[t] \/ EpochLast(pass[t].epoch) < b
    BY <1>2, <2>1, <2>2, NextPresentSpec
  <2>4. Marked(t)'
    BY <1>1, <2>1, <2>3 DEF Marked, Streaming
  <2>5. \A u \in Threads : Marked(u)'
    BY <2>1, <2>4 DEF ReportInv, Marked
  <2> QED BY <2>1, <2>5 DEF ReportInv, EveryBlockReported
<1>6. CASE OpenEpoch(t)
  <2>1. /\ UNCHANGED <<emitted, delivered, processed>> /\ pc[t] = "epoch" /\ pc'[t] = "loop"
        /\ counted'[t] = LocalStart(t) - 1
        /\ \A u \in Threads \ {t} : pc'[u] = pc[u] /\ pass'[u] = pass[u] /\ counted'[u] = counted[u]
    BY <1>1, <1>6 DEF OpenEpoch, AtEpoch, Go, shared, history
  <2>2. emitted[t] <= counted[t] /\ counted[t] < LocalStart(t) /\ LocalStart(t) \in Nat
    BY <1>1, <1>6, <2>1, LocalBounds DEF OpenEpoch, Marked, Streams, LocalStart, Streaming
  <2>3. emitted[t] <= LocalStart(t) - 1
    BY <1>2, <2>2
  <2>4. Marked(t)'
    BY <2>1, <2>3 DEF Marked
  <2>5. \A u \in Threads : Marked(u)'
    BY <2>1, <2>4 DEF ReportInv, Marked
  <2> QED BY <2>1, <2>5 DEF ReportInv, EveryBlockReported
<1>7. CASE Process(t)
  <2> DEFINE slot == pass[t].batch
  <2>1. CanProcess(t) /\ counted[t] < slot /\ emitted[t] <= counted[t]
    BY <1>1, <1>7, BatchBounds DEF Process, Marked, Streaming
  <2>2. /\ counted'[t] = slot /\ emitted'[t] = Max2(emitted[t], slot)
        /\ processed' = processed \cup {slot} /\ pc'[t] \in {"complete", "loop"}
        /\ \A u \in Threads \ {t} : /\ pc'[u] = pc[u] /\ pass'[u] = pass[u] /\ counted'[u] = counted[u]
                                    /\ emitted'[u] = emitted[u] /\ delivered'[u] = delivered[u]
        /\ delivered'[t] = delivered[t] \cup Fresh(t, {slot})
    BY <1>1, <1>7 DEF Process, Go
  <2>3. slot \in Fresh(t, {slot}) /\ emitted'[t] <= counted'[t]
    BY <1>2, <2>1, <2>2 DEF Fresh, Max2
  <2>4. \A u \in Threads : Marked(u)'
    BY <2>2, <2>3 DEF ReportInv, Marked
  <2>5. EveryBlockReported'
    <3>1. \A u \in Threads : delivered[u] \subseteq delivered'[u]
      BY <2>2
    <3>2. slot \in delivered'[t]
      BY <2>2, <2>3
    <3>3. ASSUME NEW s \in processed' PROVE \E u \in Threads : s \in delivered'[u]
      <4>1. CASE s = slot
        BY <3>2, <4>1
      <4>2. CASE s \in processed
        BY <3>1, <4>2 DEF ReportInv, EveryBlockReported
      <4> QED BY <2>2, <4>1, <4>2
    <3> QED BY <3>3 DEF EveryBlockReported
  <2> QED BY <2>4, <2>5 DEF ReportInv
<1>8. CASE AdoptEnd(t)
  <2>1. /\ UNCHANGED <<delivered, processed>> /\ pc'[t] = "boundary"
        /\ counted'[t] = reply[t].start - 1 /\ emitted'[t] = reply[t].start - 1
        /\ \A u \in Threads \ {t} : /\ pc'[u] = pc[u] /\ pass'[u] = pass[u] /\ counted'[u] = counted[u]
                                    /\ emitted'[u] = emitted[u]
    BY <1>1, <1>8 DEF AdoptEnd, Go, AdoptedMark, history
  <2>2. reply[t].start - 1 \in Nat
    <3>1. reply[t].start \in FirstSlot .. EndSlot
      BY <1>1, <1>8 DEF AdoptEnd, AllBounded, Bounds, Adopting
    <3> QED BY <3>1, RangeAssumption
  <2>3. Marked(t)'
    BY <2>1, <2>2 DEF Marked
  <2>4. \A u \in Threads : Marked(u)'
    BY <2>1, <2>3 DEF ReportInv, Marked
  <2> QED BY <2>1, <2>4 DEF ReportInv, EveryBlockReported
<1>9. CASE \/ Answer(t) \/ Refuse(t) \/ Spawn(t) \/ StartPass(t) \/ SkipEpoch(t) \/ EndOfStream(t)
           \/ PastSlice(t) \/ PastRange(t) \/ FinishEpochs(t) \/ BackoffEnds(t) \/ PollShutdown(t)
           \/ CompleteRange(t) \/ Scan(t) \/ Ask(t) \/ Denied(t) \/ AdoptStart(t) \/ AdoptNext(t)
           \/ Retire(t) \/ HandlerInterrupts(t)
  <2>1. UNCHANGED <<counted, emitted, delivered, processed>>
    BY <1>9 DEF Answer, Refuse, Spawn, StartPass, SkipEpoch, EndOfStream, PastSlice, PastRange,
       FinishEpochs, BackoffEnds, PollShutdown, CompleteRange, Scan, Ask, Denied, AdoptStart,
       AdoptNext, Retire, HandlerInterrupts, LeaveEpoch, local, history
  <2>2. \A u \in Threads \ {t} : pc'[u] = pc[u] /\ pass'[u] = pass[u]
    BY <1>1, <1>9 DEF Answer, Refuse, Spawn, StartPass, SkipEpoch, EndOfStream, PastSlice, PastRange,
       FinishEpochs, BackoffEnds, PollShutdown, CompleteRange, Scan, Ask, Denied, AdoptStart,
       AdoptNext, Retire, HandlerInterrupts, LeaveEpoch, Leave, Go, local
  <2>3. /\ pc'[t] \in Streaming => pc[t] \in Streaming
        /\ pc'[t] # "batch" \/ (pc[t] = "batch" /\ pass'[t] = pass[t])
    BY <1>1, <1>9 DEF Answer, Refuse, Spawn, StartPass, SkipEpoch, AtEpoch, EndOfStream, PastSlice,
       HasBatch, PastRange, FinishEpochs, BackoffEnds, PollShutdown, CompleteRange, Scan, Ask, Denied,
       AdoptStart, AdoptNext, Retire, HandlerInterrupts, LeaveEpoch, Leave, Go, local, Streaming
  <2> QED BY <2>1, <2>2, <2>3, MarkedFrame
<1> QED BY <1>1, <1>4, <1>5, <1>6, <1>7, <1>8, <1>9 DEF Step, Disturb

(***************************************************************************)
(* As long as no thread restarts, every block that counts as processed was *)
(* handed to on_block, stolen ranges included: the mark of what a thread   *)
(* emitted never runs ahead of what it counted.                            *)
(***************************************************************************)
THEOREM BlocksReported == NoRestarts /\ Spec => []EveryBlockReported
<1>1. NoRestarts /\ Init => NoRestarts /\ StealInv /\ ReportInv
  <2> SUFFICES ASSUME Init PROVE StealInv /\ ReportInv
    OBVIOUS
  <2>1. ASSUME NEW t \in Threads PROVE Marked(t)
    <3>1. pc[t] = "unspawned" /\ emitted[t] = counted[t] /\ counted[t] \in Int
      BY SubrangeBounds, RangeAssumption DEF Init
    <3> QED BY <3>1 DEF Marked
  <2>2. EveryBlockReported
    BY DEF Init, EveryBlockReported
  <2> QED BY <2>1, <2>2, StealInit DEF ReportInv
<1>2. (NoRestarts /\ StealInv /\ ReportInv) /\ [Next]_vars => (NoRestarts /\ StealInv /\ ReportInv)'
  <2> SUFFICES ASSUME NoRestarts, StealInv, ReportInv, [Next]_vars PROVE ReportInv'
    BY StealNext DEF NoRestarts
  <2>1. CASE \E t \in Threads : Step(t) \/ Disturb(t)
    BY <2>1, ReportStep
  <2>2. CASE SignalShutdown \/ Audit \/ Terminated \/ UNCHANGED vars
    <3>1. UNCHANGED <<pc, pass, counted, emitted, delivered, processed>>
      BY <2>2 DEF SignalShutdown, Audit, Terminated, vars, local, shared, history
    <3> QED BY <3>1 DEF ReportInv, Marked, EveryBlockReported
  <2> QED BY <2>1, <2>2 DEF Next
<1>3. ReportInv => EveryBlockReported
  BY DEF ReportInv
<1> QED BY <1>1, <1>2, <1>3, PTL DEF Spec
=============================================================================
