---------------------------- MODULE GeyserProofs ----------------------------
(***************************************************************************)
(* What firehose_geyser does for every range, archive, number of threads   *)
(* and sequence of faults.                                                 *)
(***************************************************************************)
EXTENDS GeyserFirehose, WellFoundedInduction, TLAPS

Instance == RangeAssumption /\ ArchiveAssumption

-----------------------------------------------------------------------------
(* The invariant, over the locals r of a thread t.                         *)

First(t) == Subrange(t).start
End(t) == Subrange(t).end
Mine(t) == First(t) .. (End(t) - 1)

Start(r) == Max2(r.start, EpochFirst(r.epoch))
Last(r) == Min2(Dec(r.end), EpochLast(r.epoch))
Blocks(r) == 1 .. Len(Archive[r.epoch])

Passes ==
  [pc : {"epoch", "loop", "nodes", "returned"}, start : Nat, end : Nat, counted : Nat,
   epoch : Nat, last : Nat, pos : Nat, cur : Slots \cup {NoSlot}, node : Nat, ran : {0, 1, 2}, skip : {1}]

\* The entries that were notified in front of a node, and all the calls for it.
RanAt(n) == IF n <= 2 THEN 0 ELSE IF n <= 4 THEN 1 ELSE 2
Entries == "entry" \in Notifiers
Calls(n) ==
  IF n = 1 THEN <<>>
  ELSE IF n = 2 \/ (n = 3 /\ ~Entries) THEN <<"tx">>
  ELSE IF n = 3 THEN <<"tx", <<"entry", 0>>>>
  ELSE IF ~Entries THEN <<"tx", "tx">>
  ELSE IF n = 4 THEN <<"tx", <<"entry", 0>>, "tx">>
  ELSE <<"tx", <<"entry", 0>>, "tx", <<"entry", 1>>>>

\* In an epoch: the part of it that is read begins behind what was counted.
Reading(r) ==
  /\ r.epoch \in Lowest .. Top /\ 1 <= r.pos
  /\ r.last = Last(r) /\ Start(r) <= r.last
  /\ Dec(Start(r)) <= r.counted /\ r.counted <= EpochLast(r.epoch)

\* In a block: its slot, and how far the thread got in it.
Inside(t, r) ==
  /\ r.cur \in Mine(t) \cap Present /\ r.counted < r.cur /\ r.cur <= r.last
  /\ r.pos - 1 \in Blocks(r) /\ Archive[r.epoch][r.pos - 1] = r.cur
  /\ r.node \in 1 .. 6 /\ r.ran = RanAt(r.node)

Place(t, r) ==
  /\ r \in Passes /\ r.end = End(t)
  /\ First(t) <= r.start /\ r.start <= End(t) /\ First(t) <= r.counted + 1 /\ r.counted < End(t)
  /\ r.pc = "epoch" => r.counted <= Dec(Start(r))
  /\ r.pc \in {"epoch", "loop"} => r.cur = NoSlot \/ r.cur <= r.counted
  /\ r.pc \in {"loop", "nodes"} => Reading(r)
  /\ r.pc = "nodes" => Inside(t, r)

\* What was called for the slots of a thread: nothing for those behind the last one
\* that it counted, and all of it for a block that was announced.
Called(t, r, no, ro, me) ==
  /\ \A s \in Mine(t) :
       /\ ro[s] \in {0, 1} /\ me[s] = IF "block" \in Notifiers THEN ro[s] ELSE 0
       /\ ro[s] = 1 => s <= r.counted /\ no[s] = Calls(6)
  /\ r.pc = "nodes" => no[r.cur] = Calls(r.node)

\* The blocks that are in order with the others of their epoch.
Orderly == Wanted \ (Overtaken \cup Overtaking \cup {0})

\* A block ahead of a thread is still in its stream.
AheadOf(r, s) == \E j \in Blocks(r) : r.pos <= j /\ Archive[r.epoch][j] = s

Covered(t, r, ro) ==
  \A s \in Mine(t) \cap Orderly :
    /\ r.pc = "returned" => ro[s] = 1
    /\ r.pc = "epoch" /\ s < Start(r) => ro[s] = 1
    /\ r.pc \in {"loop", "nodes"} =>
         /\ s <= r.counted => ro[s] = 1
         /\ r.counted < s /\ s <= r.last => AheadOf(r, s) \/ (r.pc = "nodes" /\ s = r.cur)

Joins ==
  /\ finished \in BOOLEAN /\ (finished => Joined)
  /\ unloaded = (finished /\ "block" \in Notifiers)

GeyserInv ==
  /\ Instance
  /\ faults \in 0 .. MaxFaults
  /\ DOMAIN th = Threads
  /\ DOMAIN nodes = Slots /\ roots \in [Slots -> {0, 1}] /\ metas \in [Slots -> {0, 1}]
  /\ \A t \in Threads : /\ Place(t, th[t])
                       /\ Called(t, th[t], nodes, roots, metas)
                       /\ Covered(t, th[t], roots)
  /\ Joins

-----------------------------------------------------------------------------
(* Epochs, and the ranges of the threads.                                  *)

\* An epoch holds the slots from its first to its last.
LEMMA EpochHolds ==
  ASSUME RangeAssumption, NEW s \in Nat
  PROVE  /\ EpochOf(s) \in Nat
         /\ EpochFirst(EpochOf(s)) <= s /\ s <= EpochLast(EpochOf(s))
  BY Z3 DEF RangeAssumption, EpochOf, EpochFirst, EpochLast

\* A slot within an epoch's bounds is of that epoch.
LEMMA EpochIs ==
  ASSUME RangeAssumption, NEW s \in Nat, NEW e \in Nat, EpochFirst(e) <= s, s <= EpochLast(e)
  PROVE  EpochOf(s) = e
  BY Z3 DEF RangeAssumption, EpochOf, EpochFirst, EpochLast

\* An epoch begins behind the one before it.
LEMMA EpochNext ==
  ASSUME RangeAssumption, NEW e \in Nat
  PROVE  /\ EpochFirst(e) \in Nat /\ EpochLast(e) \in Nat /\ EpochFirst(e) <= EpochLast(e)
         /\ EpochFirst(e + 1) = EpochLast(e) + 1
  BY Z3 DEF RangeAssumption, EpochFirst, EpochLast

\* A slot lies behind every epoch before its own.
LEMMA EpochBehind ==
  ASSUME RangeAssumption, NEW s \in Nat, NEW e \in Nat, EpochOf(s) < e
  PROVE  s < EpochFirst(e)
  BY Z3 DEF RangeAssumption, EpochOf, EpochFirst

\* Epochs follow the order of their slots.
LEMMA EpochMonotone ==
  ASSUME RangeAssumption, NEW s \in Nat, NEW t \in Nat, s <= t
  PROVE  EpochOf(s) <= EpochOf(t)
  BY Z3 DEF RangeAssumption, EpochOf

LEMMA EpochsOfRange ==
  ASSUME RangeAssumption
  PROVE  /\ Lowest \in Nat /\ Top \in Nat /\ Lowest <= Top
         /\ \A s \in Slots : s \in Nat /\ EpochOf(s) \in Lowest .. Top
<1>. /\ FirstSlot \in Nat /\ EndSlot - 1 \in Nat /\ FirstSlot <= EndSlot - 1
  BY DEF RangeAssumption
<1>1. \A s \in Slots : s \in Nat /\ FirstSlot <= s /\ s <= EndSlot - 1
  BY DEF Slots
<1>. QED  BY <1>1, EpochHolds, EpochMonotone DEF Lowest, Top

\* The slots are divided with a remainder less than the number of threads.
LEMMA Division ==
  ASSUME RangeAssumption
  PROVE  /\ SlotsPer \in Nat /\ Rest \in 0 .. (N - 1)
         /\ FirstSlot + N * SlotsPer + Rest = EndSlot
<1> DEFINE n == EndSlot - FirstSlot
<1>1. n \in Nat \ {0} /\ N \in Nat \ {0} /\ FirstSlot \in Nat /\ EndSlot \in Nat
  BY DEF RangeAssumption
<1> HIDE DEF n
<1>2. n \div N \in Nat /\ n % N \in 0 .. (N - 1) /\ n = N * (n \div N) + (n % N)
  BY <1>1, Z3
<1>. QED  BY <1>1, <1>2 DEF n, SlotsPer, Rest

LEMMA Multiples ==
  ASSUME NEW p \in Nat, NEW i \in Nat, NEW j \in Nat
  PROVE  /\ i * p \in Nat /\ (i + 1) * p = i * p + p
         /\ i <= j => i * p <= j * p
  BY Z3

\* The range of a thread begins where that of the thread before it ends.
LEMMA RangeOf ==
  ASSUME RangeAssumption, NEW t \in Threads
  PROVE  /\ First(t) = FirstSlot + t * SlotsPer + Min2(t, Rest)
         /\ End(t) = FirstSlot + (t + 1) * SlotsPer + Min2(t + 1, Rest)
         /\ First(t) \in Nat /\ End(t) \in Nat /\ FirstSlot <= First(t) /\ First(t) <= End(t) /\ End(t) > 0
<1>1. /\ SlotsPer \in Nat /\ Rest \in 0 .. (N - 1) /\ FirstSlot \in Nat /\ N \in Nat \ {0} /\ t \in Nat /\ t < N
      /\ FirstSlot + N * SlotsPer + Rest = EndSlot /\ FirstSlot < EndSlot /\ EndSlot \in Nat
  BY Division DEF RangeAssumption, Threads
<1> DEFINE a == t * SlotsPer
           b == (t + 1) * SlotsPer
<1>2. a \in Nat /\ b = a + SlotsPer
  BY <1>1, Multiples
<1> HIDE DEF a, b
<1>3. First(t) = FirstSlot + a + Min2(t, Rest)
  BY DEF First, Subrange, a
<1>4. End(t) = FirstSlot + a + Min2(t, Rest) + SlotsPer + Extra(t)
  BY DEF End, Subrange, a
<1>5. End(t) = FirstSlot + b + Min2(t + 1, Rest)
  BY <1>1, <1>2, <1>4 DEF Min2, Extra
<1>6. /\ First(t) \in Nat /\ End(t) \in Nat /\ FirstSlot <= First(t) /\ First(t) <= End(t)
  BY <1>1, <1>2, <1>3, <1>4 DEF Min2, Extra
<1>7. End(t) > 0
  <2>1. CASE Rest = 0
    <3>1. SlotsPer > 0
      <4> SUFFICES ASSUME SlotsPer = 0 PROVE FALSE
        BY <1>1
      <4>1. N * SlotsPer = 0
        BY <1>1
      <4>. QED  BY <1>1, <2>1, <4>1
    <3>. QED  BY <1>1, <1>2, <1>5, <2>1, <3>1 DEF Min2
  <2>2. CASE Rest > 0
    BY <1>1, <1>2, <1>5, <2>2 DEF Min2
  <2>. QED  BY <1>1, <2>1, <2>2
<1>. QED  BY <1>3, <1>5, <1>6, <1>7 DEF a, b

\* No slot is in the ranges of two threads.
LEMMA RangesApart ==
  ASSUME RangeAssumption, NEW t \in Threads, NEW u \in Threads, t # u
  PROVE  Mine(t) \cap Mine(u) = {}
<1>1. SUFFICES ASSUME NEW i \in Threads, NEW j \in Threads, i < j PROVE End(i) <= First(j)
  <2>1. t \in Nat /\ u \in Nat
    BY DEF Threads, RangeAssumption
  <2>2. t < u \/ u < t
    BY <2>1
  <2>3. End(t) <= First(u) \/ End(u) <= First(t)
    BY <1>1, <2>2
  <2>4. First(t) \in Nat /\ End(t) \in Nat /\ First(u) \in Nat /\ End(u) \in Nat
    BY RangeOf
  <2>. QED  BY <2>3, <2>4 DEF Mine
<1>2. i \in Nat /\ j \in Nat /\ i + 1 <= j /\ SlotsPer \in Nat /\ Rest \in Nat /\ FirstSlot \in Nat
  BY <1>1, Division DEF Threads, RangeAssumption
<1>3. (i + 1) * SlotsPer <= j * SlotsPer /\ (i + 1) * SlotsPer \in Nat /\ j * SlotsPer \in Nat
  BY <1>2, Multiples
<1>4. Min2(i + 1, Rest) <= Min2(j, Rest) /\ Min2(i + 1, Rest) \in Nat /\ Min2(j, Rest) \in Nat
  BY <1>2 DEF Min2
<1>. QED  BY <1>2, <1>3, <1>4, RangeOf

LEMMA LessRelation == IsWellFoundedOn({p \in Nat \X Nat : p[1] < p[2]}, Nat)
  BY NatLessThanWellFounded DEF OpToRel

\* A set of numbers that is not empty has a least one.
LEMMA Smallest ==
  ASSUME NEW T \in SUBSET Nat, T # {}
  PROVE  \E x \in T : \A y \in T : x <= y
<1> DEFINE R == {p \in Nat \X Nat : p[1] < p[2]}
<1>1. PICK x \in T : \A y \in T : ~(<<y, x>> \in R)
  <2> HIDE DEF R
  <2> QED BY LessRelation, WFMin DEF R
<1>2. ASSUME NEW y \in T PROVE x <= y
  <2>1. y \in Nat /\ x \in Nat /\ <<y, x>> \notin R
    BY <1>1
  <2>2. ~(y < x)
    BY <2>1
  <2> QED BY <2>1, <2>2
<1> QED BY <1>2

\* Every slot of the whole range is in the range of a thread.
LEMMA RangesCover ==
  ASSUME RangeAssumption, NEW s \in Slots
  PROVE  \E t \in Threads : s \in Mine(t)
<1>1. /\ SlotsPer \in Nat /\ Rest \in 0 .. (N - 1) /\ FirstSlot \in Nat /\ N \in Nat \ {0}
      /\ FirstSlot + N * SlotsPer + Rest = EndSlot /\ s \in Nat /\ FirstSlot <= s /\ s < EndSlot /\ EndSlot \in Nat
  BY Division DEF RangeAssumption, Slots
<1> DEFINE T == {t \in Threads : s < End(t)}
<1>2. N - 1 \in T
  <2>1. N - 1 \in Threads /\ (N - 1) + 1 = N
    BY <1>1 DEF Threads
  <2>2. End(N - 1) = FirstSlot + N * SlotsPer + Min2(N, Rest)
    BY <2>1, RangeOf
  <2>3. Min2(N, Rest) = Rest
    BY <1>1 DEF Min2
  <2>. QED  BY <1>1, <2>1, <2>2, <2>3
<1>3. T \in SUBSET Nat
  BY <1>1 DEF Threads
<1>4. PICK t \in T : \A u \in T : t <= u
  BY <1>2, <1>3, Smallest
<1>5. t \in Threads /\ t \in Nat /\ s < End(t) /\ First(t) \in Nat /\ End(t) \in Nat
  BY <1>3, <1>4, RangeOf
<1>6. CASE t = 0
  <2>1. First(t) = FirstSlot + t * SlotsPer + Min2(t, Rest)
    BY <1>5, RangeOf
  <2>2. t * SlotsPer = 0 /\ Min2(t, Rest) = 0
    BY <1>1, <1>6 DEF Min2
  <2>. QED  BY <1>1, <1>5, <2>1, <2>2 DEF Mine
<1>7. CASE t # 0
  <2>1. t - 1 \in Threads /\ (t - 1) + 1 = t /\ t - 1 < t
    BY <1>1, <1>5, <1>7 DEF Threads
  <2>2. t - 1 \notin T
    BY <1>4, <1>5, <2>1
  <2>3. End(t - 1) = First(t)
    BY <1>5, <2>1, RangeOf
  <2>4. ~(s < First(t))
    BY <2>1, <2>2, <2>3
  <2>. QED  BY <1>1, <1>5, <2>4 DEF Mine
<1>. QED  BY <1>6, <1>7

LEMMA MineIn ==
  ASSUME RangeAssumption, NEW t \in Threads
  PROVE  Mine(t) \subseteq Slots /\ Mine(t) \subseteq Nat /\ End(t) <= EndSlot
<1>1. /\ SlotsPer \in Nat /\ Rest \in 0 .. (N - 1) /\ FirstSlot \in Nat /\ N \in Nat \ {0} /\ t \in Nat /\ t + 1 <= N
      /\ FirstSlot + N * SlotsPer + Rest = EndSlot /\ EndSlot \in Nat
  BY Division DEF RangeAssumption, Threads
<1>2. (t + 1) * SlotsPer <= N * SlotsPer /\ (t + 1) * SlotsPer \in Nat /\ N * SlotsPer \in Nat
  BY <1>1, Multiples
<1>3. Min2(t + 1, Rest) <= Rest /\ Min2(t + 1, Rest) \in Nat
  BY <1>1 DEF Min2
<1>4. /\ End(t) = FirstSlot + (t + 1) * SlotsPer + Min2(t + 1, Rest)
      /\ First(t) \in Nat /\ End(t) \in Nat /\ FirstSlot <= First(t)
  BY RangeOf
<1>5. End(t) <= EndSlot
  BY <1>1, <1>2, <1>3, <1>4
<1>. QED  BY <1>1, <1>4, <1>5 DEF Mine, Slots

-----------------------------------------------------------------------------
(* The archive and its index.                                              *)

\* The present slots of an epoch are those of its part of the archive.
LEMMA PresentIn ==
  ASSUME Instance, NEW e \in Lowest .. Top
  PROVE  /\ Len(Archive[e]) \in Nat
         /\ \A i \in 1 .. Len(Archive[e]) :
              Archive[e][i] \in Nat /\ EpochOf(Archive[e][i]) = e /\ Archive[e][i] \in Present
         /\ \A s \in Present : EpochOf(s) = e => \E i \in 1 .. Len(Archive[e]) : Archive[e][i] = s
<1>1. ASSUME NEW f \in Lowest .. Top
      PROVE  Len(Archive[f]) \in Nat /\ \A i \in 1 .. Len(Archive[f]) : Archive[f][i] \in {s \in Nat : EpochOf(s) = f}
  <2> DEFINE T == {s \in Nat : EpochOf(s) = f}
  <2>1. Archive[f] \in Seq(T)
    BY DEF Instance, ArchiveAssumption
  <2> HIDE DEF T
  <2>2. Len(Archive[f]) \in Nat /\ \A i \in 1 .. Len(Archive[f]) : Archive[f][i] \in T
    BY <2>1
  <2>. QED  BY <2>2 DEF T
<1>2. \A i \in 1 .. Len(Archive[e]) : Archive[e][i] \in Present
  BY DEF Present
<1>3. ASSUME NEW s \in Present, EpochOf(s) = e PROVE \E i \in 1 .. Len(Archive[e]) : Archive[e][i] = s
  <2>1. PICK f \in Lowest .. Top : s \in {Archive[f][i] : i \in 1 .. Len(Archive[f])}
    BY DEF Present
  <2>2. f = e
    BY <1>1, <1>3, <2>1
  <2>. QED  BY <2>1, <2>2
<1>. QED  BY <1>1, <1>2, <1>3

LEMMA PresentNat == ASSUME Instance PROVE Present \subseteq Nat
<1>1. SUFFICES ASSUME NEW s \in Present PROVE s \in Nat
  OBVIOUS
<1>2. PICK f \in Lowest .. Top : s \in {Archive[f][i] : i \in 1 .. Len(Archive[f])}
  BY DEF Present
<1>. QED  BY <1>2, PresentIn

\* The index names the first present slot of an interval, or none.
LEMMA IndexNames ==
  ASSUME Instance, NEW after \in Int, NEW last \in Int
  PROVE  /\ NextPresent(after, last) = NoSlot => \A s \in Present : ~(after < s /\ s <= last)
         /\ NextPresent(after, last) # NoSlot =>
              /\ NextPresent(after, last) \in Present
              /\ after < NextPresent(after, last) /\ NextPresent(after, last) <= last
              /\ \A s \in Present : after < s /\ s <= last => NextPresent(after, last) <= s
<1> DEFINE S == {s \in Present : after < s /\ s <= last}
<1>1. S \subseteq Nat
  BY PresentNat
<1>2. CASE S = {}
  <2>1. NextPresent(after, last) = NoSlot
    BY <1>2 DEF NextPresent
  <2>. QED  BY <1>2, <2>1
<1>3. CASE S # {}
  <2>1. \E s \in S : \A r \in S : s <= r
    BY <1>1, <1>3, Smallest
  <2>2. NextPresent(after, last) = CHOOSE s \in S : \A r \in S : s <= r
    BY <1>3 DEF NextPresent
  <2>3. NextPresent(after, last) \in S /\ \A r \in S : NextPresent(after, last) <= r
    BY <2>1, <2>2
  <2>4. NextPresent(after, last) # NoSlot
    BY <2>3, <1>1 DEF NoSlot
  <2>. QED  BY <2>3, <2>4
<1>. QED  BY <1>2, <1>3

\* A seek within an epoch stands in front of every block from the slot on that is in
\* order with the others.
LEMMA SeekStands ==
  ASSUME Instance, NEW e \in Lowest .. Top, NEW s \in Nat, EpochFirst(e) <= s, s <= EpochLast(e)
  PROVE  /\ PositionOf(e, s) \in Nat /\ 1 <= PositionOf(e, s)
         /\ \A r \in Present \ Overtaking : s <= r /\ r <= EpochLast(e) =>
              \E j \in 1 .. Len(Archive[e]) : PositionOf(e, s) <= j /\ Archive[e][j] = r
<1> DEFINE b == NextPresent(s - 1, EpochLast(e))
<1>0. /\ Len(Archive[e]) \in Nat /\ Present \subseteq Nat /\ s - 1 \in Int /\ EpochLast(e) \in Int
      /\ RangeAssumption /\ e \in Nat /\ EpochFirst(e) \in Nat
  <2>1. RangeAssumption /\ e \in Nat
    BY EpochsOfRange DEF Instance
  <2>. QED  BY <2>1, PresentIn, PresentNat, EpochNext
<1>a. ASSUME NEW r \in Present, s <= r, r <= EpochLast(e)
      PROVE  EpochOf(r) = e /\ \E j \in 1 .. Len(Archive[e]) : Archive[e][j] = r
  <2>1. r \in Nat /\ EpochFirst(e) <= r
    BY <1>0, <1>a
  <2>2. EpochOf(r) = e
    BY <1>0, <1>a, <2>1, EpochIs
  <2>. QED  BY <2>2, PresentIn
<1>b. \A r \in Present : s - 1 < r <=> s <= r
  BY <1>0
<1>1. CASE s = EpochFirst(e)
  BY <1>1, <1>a DEF PositionOf
<1>2. CASE s # EpochFirst(e) /\ b = NoSlot
  <2>1. PositionOf(e, s) = Len(Archive[e]) + 1
    BY <1>2 DEF PositionOf
  <2>2. \A r \in Present : ~(s - 1 < r /\ r <= EpochLast(e))
    BY <1>0, <1>2, IndexNames
  <2>. QED  BY <1>0, <1>b, <2>1, <2>2
<1>3. CASE s # EpochFirst(e) /\ b # NoSlot
  <2>1. /\ b \in Present /\ s - 1 < b /\ b <= EpochLast(e)
        /\ \A r \in Present : s - 1 < r /\ r <= EpochLast(e) => b <= r
    BY <1>0, <1>3, IndexNames
  <2> DEFINE p == PositionOf(e, s)
  <2>2. p = CHOOSE i \in 1 .. Len(Archive[e]) : Archive[e][i] = b
    BY <1>3 DEF PositionOf
  <2> HIDE DEF b, p
  <2>3. b \in Nat /\ s <= b
    BY <1>0, <1>b, <2>1
  <2>4. EpochOf(b) = e /\ \E i \in 1 .. Len(Archive[e]) : Archive[e][i] = b
    BY <1>a, <2>1, <2>3
  <2>5. p \in 1 .. Len(Archive[e]) /\ Archive[e][p] = b
    BY <2>2, <2>4
  <2>6. ASSUME NEW r \in Present \ Overtaking, s <= r, r <= EpochLast(e)
        PROVE  \E j \in 1 .. Len(Archive[e]) : p <= j /\ Archive[e][j] = r
    <3>1. PICK j \in 1 .. Len(Archive[e]) : Archive[e][j] = r
      BY <1>a, <2>6
    <3>2. EpochOf(r) = e /\ b <= r /\ r \in Nat
      BY <1>0, <1>a, <1>b, <2>1, <2>6
    <3>3. CASE b = r
      BY <2>5, <3>3, <1>0
    <3>4. CASE b # r
      <4>1. b < r /\ b # EpochFirst(e)
        BY <1>0, <1>3, <2>3, <3>2, <3>4
      <4>2. ~(j < p)
        BY <2>5, <2>6, <3>1, <3>2, <4>1 DEF Overtaking
      <4>. QED  BY <1>0, <2>5, <3>1, <4>2
    <3>. QED  BY <3>3, <3>4
  <2>. QED  BY <1>0, <2>5, <2>6 DEF p
<1>. QED  BY <1>1, <1>2, <1>3

-----------------------------------------------------------------------------
(* Steps.                                                                  *)

\* What the locals of a thread are, from its place.
LEMMA PlaceIs ==
  ASSUME Instance, NEW t \in Threads, NEW r, Place(t, r)
  PROVE  /\ r \in Passes /\ r.end = End(t) /\ r.end \in Nat /\ r.end > 0 /\ r.start \in Nat /\ r.counted \in Nat
         /\ r.epoch \in Nat /\ r.pos \in Nat /\ r.last \in Nat /\ r.node \in Nat /\ r.ran \in Nat /\ r.skip = 1
         /\ First(t) \in Nat /\ Start(r) \in Nat /\ Dec(Start(r)) \in Nat
         /\ r.start <= Start(r) /\ EpochFirst(r.epoch) <= Start(r)
         /\ Start(r) = r.start \/ Start(r) = EpochFirst(r.epoch)
         /\ Last(r) \in Nat /\ Last(r) <= r.end - 1 /\ Last(r) <= EpochLast(r.epoch)
         /\ Last(r) = r.end - 1 \/ Last(r) = EpochLast(r.epoch)
         /\ EpochFirst(r.epoch) \in Nat /\ EpochLast(r.epoch) \in Nat /\ EpochFirst(r.epoch) <= EpochLast(r.epoch)
         /\ EpochFirst(r.epoch + 1) = EpochLast(r.epoch) + 1
<1>1. /\ r \in Passes /\ r.end = End(t) /\ r.end \in Nat /\ r.end > 0 /\ r.start \in Nat /\ r.counted \in Nat
      /\ r.epoch \in Nat /\ r.pos \in Nat /\ r.last \in Nat /\ r.node \in Nat /\ r.ran \in Nat /\ r.skip = 1
      /\ First(t) \in Nat
  BY RangeOf DEF Place, Passes, Instance
<1>2. /\ EpochFirst(r.epoch) \in Nat /\ EpochLast(r.epoch) \in Nat /\ EpochFirst(r.epoch) <= EpochLast(r.epoch)
      /\ EpochFirst(r.epoch + 1) = EpochLast(r.epoch) + 1
  BY <1>1, EpochNext DEF Instance
<1>. QED  BY <1>1, <1>2 DEF Start, Last, Dec, Max2, Min2

\* A new pass of a thread begins where nothing of its range is missing before.
LEMMA NewPassKept ==
  ASSUME Instance, NEW t \in Threads, NEW a \in Nat, NEW c \in Nat, First(t) <= a, a <= End(t),
         First(t) <= c + 1, c < End(t), c <= Dec(a),
         NEW ro, \A s \in Mine(t) \cap Orderly : s < a => ro[s] = 1,
         NEW r, r = NewPass(End(t), a, c) \/ r = [NewPass(End(t), a, c) EXCEPT !.skip = 1]
  PROVE  Place(t, r) /\ Covered(t, r, ro) /\ r.pc = "epoch" /\ r.counted = c
<1>1. EpochOf(a) \in Nat /\ EpochFirst(EpochOf(a)) <= a /\ End(t) \in Nat
  BY EpochHolds, RangeOf DEF Instance
<1>2. EpochFirst(EpochOf(a)) \in Nat
  BY <1>1, EpochNext DEF Instance
<1>3. NewPass(End(t), a, c) \in Passes
  BY <1>1 DEF NewPass, Passes
<1>4. [NewPass(End(t), a, c) EXCEPT !.skip = 1] \in Passes
  BY <1>3 DEF Passes
<1>5. /\ r \in Passes /\ r.pc = "epoch" /\ r.start = a /\ r.end = End(t) /\ r.counted = c
      /\ r.epoch = EpochOf(a) /\ r.cur = NoSlot
  BY <1>3, <1>4 DEF NewPass
<1>6. Start(r) = a
  BY <1>1, <1>2, <1>5 DEF Start, Max2
<1>. QED  BY <1>5, <1>6 DEF Place, Covered

\* The step of a thread leaves the others where they are.
LEMMA ThreadAlone ==
  ASSUME GeyserInv, NEW t \in Threads, NEW r, Set(t, r), th[t].pc # "returned",
         \A s \in Slots : s \notin Mine(t) => nodes'[s] = nodes[s] /\ roots'[s] = roots[s] /\ metas'[s] = metas[s],
         DOMAIN nodes' = Slots, roots' \in [Slots -> {0, 1}], metas' \in [Slots -> {0, 1}],
         faults' \in 0 .. MaxFaults, UNCHANGED <<finished, unloaded>>,
         Place(t, r), Called(t, r, nodes', roots', metas'), Covered(t, r, roots')
  PROVE  GeyserInv'
<1>1. DOMAIN th' = Threads /\ th'[t] = r /\ \A u \in Threads : u # t => th'[u] = th[u]
  BY DEF GeyserInv, Set
<1>2. ASSUME NEW u \in Threads
      PROVE  /\ Place(u, th'[u])
             /\ Called(u, th'[u], nodes', roots', metas')
             /\ Covered(u, th'[u], roots')
  <2>1. CASE u = t
    BY <1>1, <2>1
  <2>2. CASE u # t
    <3>1. /\ Place(u, th[u]) /\ Called(u, th[u], nodes, roots, metas) /\ Covered(u, th[u], roots)
          /\ th'[u] = th[u]
      BY <1>1, <2>2 DEF GeyserInv
    <3>2. \A s \in Mine(u) : nodes'[s] = nodes[s] /\ roots'[s] = roots[s] /\ metas'[s] = metas[s]
      BY <2>2, RangesApart, MineIn DEF GeyserInv, Instance
    <3>3. Called(u, th'[u], nodes', roots', metas')
      BY <3>1, <3>2 DEF Called, Place, Inside
    <3>4. Covered(u, th'[u], roots')
      BY <3>1, <3>2 DEF Covered
    <3>. QED  BY <3>1, <3>3, <3>4
  <2>. QED  BY <2>1, <2>2
<1>3. ~finished
  BY DEF GeyserInv, Joins, Joined, At
<1>4. Joins'
  BY <1>3 DEF GeyserInv, Joins
<1>5. Instance'
  BY DEF GeyserInv, Instance, RangeAssumption, ArchiveAssumption, Lowest, Top, EpochOf
<1>. QED  BY <1>1, <1>2, <1>4, <1>5 DEF GeyserInv

\* A step of a thread that calls nothing.
LEMMA ThreadSilent ==
  ASSUME GeyserInv, NEW t \in Threads, NEW r, Set(t, r), th[t].pc # "returned",
         UNCHANGED calls, faults' \in 0 .. MaxFaults, UNCHANGED <<finished, unloaded>>,
         Place(t, r), r.pc # "nodes", th[t].counted <= r.counted, Covered(t, r, roots)
  PROVE  GeyserInv'
<1>1. nodes' = nodes /\ roots' = roots /\ metas' = metas
  BY DEF calls
<1>2. Called(t, r, nodes, roots, metas)
  <2>1. Called(t, th[t], nodes, roots, metas) /\ th[t].counted \in Nat /\ r.counted \in Nat /\ Mine(t) \subseteq Nat
    BY PlaceIs, MineIn DEF GeyserInv, Instance
  <2>. QED  BY <2>1 DEF Called
<1>3. Called(t, r, nodes', roots', metas') /\ Covered(t, r, roots')
  BY <1>1, <1>2
<1>4. DOMAIN nodes' = Slots /\ roots' \in [Slots -> {0, 1}] /\ metas' \in [Slots -> {0, 1}]
  BY <1>1 DEF GeyserInv
<1>. QED  BY <1>1, <1>3, <1>4, ThreadAlone

LEMMA FaultCounts == ASSUME GeyserInv, Fault PROVE faults' \in 0 .. MaxFaults
  BY DEF GeyserInv, Instance, RangeAssumption, Fault

\* A restart within the range, from which nothing before is missing.
LEMMA RestartKept ==
  ASSUME GeyserInv, NEW t \in Threads, th[t].pc # "returned", NEW slot \in Nat, Restart(t, slot),
         UNCHANGED calls, faults' \in 0 .. MaxFaults, UNCHANGED <<finished, unloaded>>,
         slot <= th[t].counted \/ (First(t) <= slot /\ slot <= End(t)),
         \A s \in Mine(t) \cap Orderly : s < slot \/ s <= th[t].counted => roots[s] = 1
  PROVE  GeyserInv'
<1>1. /\ Place(t, th[t]) /\ Instance /\ th[t].end = End(t) /\ th[t].counted \in Nat /\ First(t) \in Nat
      /\ First(t) <= th[t].counted + 1 /\ th[t].counted < End(t) /\ End(t) \in Nat
      /\ Mine(t) \subseteq Nat
  BY PlaceIs, RangeOf, MineIn DEF GeyserInv, Place, Instance
<1> DEFINE c == th[t].counted
           a == ResumeSlot(slot, c)
           r == [NewPass(End(t), a, c) EXCEPT !.skip = 1]
<1>2. /\ a \in Nat /\ First(t) <= a /\ a <= End(t) /\ c <= Dec(a)
      /\ \A s \in Nat : s < a => s < slot \/ s <= c
  BY <1>1 DEF ResumeSlot, Dec, Max2
<1>3. Set(t, r)
  BY <1>1 DEF Restart, SkipUntil
<1>4. \A s \in Mine(t) \cap Orderly : s < a => roots[s] = 1
  BY <1>1, <1>2
<1>5. c \in Nat /\ First(t) <= c + 1 /\ c < End(t)
  BY <1>1
<1> HIDE DEF a, c
<1>6. Place(t, r) /\ Covered(t, r, roots) /\ r.pc = "epoch" /\ r.counted = c
  BY <1>1, <1>2, <1>4, <1>5, NewPassKept
<1> HIDE DEF r
<1>. QED  BY <1>3, <1>5, <1>6, ThreadSilent DEF c

\* The locals after the steps that set some of them.
LEMMA EpochPlus ==
  ASSUME NEW r \in Passes, NEW x, x = [r EXCEPT !.pc = "epoch", !.epoch = @ + 1]
  PROVE  /\ x \in Passes /\ x.pc = "epoch" /\ x.end = r.end /\ x.start = r.start /\ x.counted = r.counted
         /\ x.cur = r.cur /\ x.epoch = r.epoch + 1
<1>1. r.epoch + 1 \in Nat
  BY DEF Passes
<1>. QED  BY <1>1 DEF Passes

Over(r, c) == [r EXCEPT !.pos = @ + 1, !.cur = c]
Taken(r, c) == [r EXCEPT !.pc = "nodes", !.pos = @ + 1, !.cur = c, !.node = r.skip, !.skip = 1, !.ran = 0]

LEMMA OverIs ==
  ASSUME NEW r \in Passes, NEW c \in Slots \cup {NoSlot}, NEW x, x = Over(r, c)
  PROVE  /\ x \in Passes /\ x.pc = r.pc /\ x.end = r.end /\ x.start = r.start /\ x.counted = r.counted
         /\ x.cur = c /\ x.epoch = r.epoch /\ x.last = r.last /\ x.pos = r.pos + 1
<1>1. r.pos + 1 \in Nat
  BY DEF Passes
<1>. QED  BY <1>1 DEF Passes, Over

LEMMA TakenIs ==
  ASSUME NEW r \in Passes, NEW c \in Slots, NEW x, x = Taken(r, c)
  PROVE  /\ x \in Passes /\ x.pc = "nodes" /\ x.end = r.end /\ x.start = r.start /\ x.counted = r.counted
         /\ x.cur = c /\ x.epoch = r.epoch /\ x.last = r.last /\ x.pos = r.pos + 1 /\ x.node = 1 /\ x.ran = 0
<1>1. r.pos + 1 \in Nat /\ r.skip = 1
  BY DEF Passes
<1>2. x = [[Over(r, c) EXCEPT !.pc = "nodes", !.node = 1] EXCEPT !.skip = 1, !.ran = 0]
  BY <1>1 DEF Taken, Over, Passes
<1>3. /\ Over(r, c) \in Passes /\ Over(r, c).end = r.end /\ Over(r, c).start = r.start
      /\ Over(r, c).counted = r.counted /\ Over(r, c).cur = c /\ Over(r, c).epoch = r.epoch
      /\ Over(r, c).last = r.last /\ Over(r, c).pos = r.pos + 1
  BY OverIs
<1> DEFINE y == Over(r, c)
           z == [y EXCEPT !.pc = "nodes", !.node = 1]
<1>4. /\ z \in Passes /\ z.pc = "nodes" /\ z.node = 1 /\ z.end = y.end /\ z.start = y.start
      /\ z.counted = y.counted /\ z.cur = y.cur /\ z.epoch = y.epoch /\ z.last = y.last /\ z.pos = y.pos
  <2>1. y \in Passes
    BY <1>3
  <2> HIDE DEF y
  <2>. QED  BY <2>1 DEF Passes
<1>5. /\ x \in Passes /\ x.ran = 0 /\ x.pc = z.pc /\ x.node = z.node /\ x.end = z.end /\ x.start = z.start
      /\ x.counted = z.counted /\ x.cur = z.cur /\ x.epoch = z.epoch /\ x.last = z.last /\ x.pos = z.pos
  <2>1. z \in Passes /\ x = [z EXCEPT !.skip = 1, !.ran = 0]
    BY <1>2, <1>4
  <2> HIDE DEF z
  <2>2. x \in Passes
    <3>1. [z EXCEPT !.skip = 1] \in Passes
      BY <2>1 DEF Passes
    <3>2. x = [[z EXCEPT !.skip = 1] EXCEPT !.ran = 0]
      BY <2>1 DEF Passes
    <3> DEFINE v == [z EXCEPT !.skip = 1]
    <3> HIDE DEF v
    <3>3. [v EXCEPT !.ran = 0] \in Passes
      BY <3>1 DEF Passes, v
    <3>. QED  BY <3>2, <3>3 DEF v
  <2>3. x.ran = 0 /\ x.pc = z.pc /\ x.node = z.node /\ x.end = z.end /\ x.start = z.start
    BY <2>1 DEF Passes
  <2>4. x.counted = z.counted /\ x.cur = z.cur /\ x.epoch = z.epoch /\ x.last = z.last /\ x.pos = z.pos
    BY <2>1 DEF Passes
  <2>. QED  BY <2>2, <2>3, <2>4
<1>. QED  BY <1>3, <1>4, <1>5

\* A slot of a thread's range is in front of its epoch, in the part that it reads, or behind.
LEMMA OrderlyIs ==
  ASSUME Instance, NEW t \in Threads, NEW s \in Mine(t) \cap Orderly
  PROVE  s \in Nat \ {0} /\ s \in Present /\ s \notin Overtaken /\ s \notin Overtaking /\ s <= End(t) - 1
<1>1. s \in Nat /\ s <= End(t) - 1 /\ End(t) \in Nat
  BY MineIn, RangeOf DEF Instance, Mine
<1>. QED  BY <1>1 DEF Orderly, Wanted

\* The steps between epochs.
LEMMA EpochSteps ==
  ASSUME GeyserInv, NEW t \in Threads,
         PassEnds(t) \/ SkipEpoch(t) \/ OpenEpoch(t) \/ OpenFails(t) \/ SeekFails(t)
  PROVE  GeyserInv' /\ UNCHANGED calls
<1> DEFINE r == th[t]
<1>0. /\ Instance /\ Place(t, r) /\ Covered(t, r, roots) /\ r.pc = "epoch" /\ r.pc # "returned"
      /\ UNCHANGED calls /\ UNCHANGED <<finished, unloaded>> /\ faults \in 0 .. MaxFaults
      /\ Mine(t) \subseteq Nat
  BY MineIn DEF GeyserInv, Instance, PassEnds, SkipEpoch, OpenEpoch, OpenFails, SeekFails, EpochLeft, At
<1>1. CASE PassEnds(t)
  <2> DEFINE x == [r EXCEPT !.pc = "returned"]
  <2>1. Set(t, x) /\ faults' = faults /\ ~(r.epoch <= EpochOf(r.end - 1))
    BY <1>1, <1>0 DEF PassEnds, EpochLeft, At
  <2>2. x \in Passes /\ x.pc = "returned" /\ x.end = r.end /\ x.start = r.start /\ x.counted = r.counted
    BY <1>0, PlaceIs DEF Passes
  <2> HIDE DEF x
  <2>3. Place(t, x)
    BY <1>0, <2>2 DEF Place
  <2>4. ASSUME NEW s \in Mine(t) \cap Orderly PROVE roots[s] = 1
    <3>1. r.end - 1 \in Nat /\ r.epoch \in Nat /\ EpochOf(r.end - 1) \in Nat
      BY <1>0, PlaceIs, EpochHolds DEF Instance
    <3>2. r.end - 1 < EpochFirst(r.epoch)
      BY <1>0, <2>1, <3>1, EpochBehind DEF Instance
    <3>3. s < Start(r)
      BY <1>0, <3>1, <3>2, PlaceIs, OrderlyIs
    <3>. QED  BY <1>0, <3>3 DEF Covered
  <2>5. Covered(t, x, roots)
    BY <2>2, <2>4 DEF Covered
  <2>6. r.counted \in Nat
    BY <1>0, PlaceIs
  <2>. QED  BY <1>0, <2>1, <2>2, <2>3, <2>5, <2>6, ThreadSilent
<1>2. CASE SkipEpoch(t)
  <2> DEFINE x == [r EXCEPT !.epoch = @ + 1]
  <2>1. Set(t, x) /\ faults' = faults /\ Start(r) > Last(r)
    BY <1>2, <1>0 DEF SkipEpoch, LocalStart, LocalLast, Start, Last
  <2>2. /\ x \in Passes /\ x.pc = "epoch" /\ x.end = r.end /\ x.start = r.start /\ x.counted = r.counted
        /\ x.cur = r.cur /\ x.epoch = r.epoch + 1
    BY <1>0, PlaceIs DEF Passes
  <2> HIDE DEF x
  <2>3. Start(x) = Max2(r.start, EpochLast(r.epoch) + 1)
    BY <1>0, <2>2, PlaceIs DEF Start
  <2>4. Dec(Start(x)) >= Dec(Start(r)) /\ Dec(Start(x)) \in Nat
    <3>1. /\ Start(r) \in Nat /\ r.start \in Nat /\ EpochFirst(r.epoch) \in Nat /\ EpochLast(r.epoch) \in Nat
          /\ EpochFirst(r.epoch) <= EpochLast(r.epoch) /\ Start(r) = Max2(r.start, EpochFirst(r.epoch))
      BY <1>0, PlaceIs DEF Start
    <3>. QED  BY <2>3, <3>1 DEF Dec, Max2
  <2>5. Place(t, x)
    BY <1>0, <2>2, <2>4, PlaceIs DEF Place
  <2>6. ASSUME NEW s \in Mine(t) \cap Orderly, s < Start(x) PROVE roots[s] = 1
    <3>1. s < Start(r)
      BY <1>0, <2>1, <2>3, <2>6, PlaceIs, OrderlyIs DEF Max2
    <3>. QED  BY <1>0, <3>1 DEF Covered
  <2>7. Covered(t, x, roots)
    BY <2>2, <2>6 DEF Covered
  <2>8. r.counted \in Nat
    BY <1>0, PlaceIs
  <2>. QED  BY <1>0, <2>1, <2>2, <2>5, <2>7, <2>8, ThreadSilent
<1>3. CASE OpenEpoch(t)
  <2> DEFINE s0 == Start(r)
             p == PositionOf(r.epoch, s0)
             x == [r EXCEPT !.pc = "loop", !.counted = Dec(s0), !.last = Last(r), !.pos = p, !.cur = NoSlot]
  <2>1. Set(t, x) /\ faults' = faults /\ s0 <= Last(r)
    BY <1>3, <1>0 DEF OpenEpoch, LocalStart, LocalLast, Start, Last
  <2>2. s0 \in Nat /\ EpochFirst(r.epoch) <= s0 /\ s0 <= EpochLast(r.epoch) /\ Last(r) \in Nat /\ r.epoch \in Nat
    BY <1>0, <2>1, PlaceIs
  <2>3. r.epoch \in Lowest .. Top
    <3>1. s0 \in Slots
      <4>1. FirstSlot <= First(t) /\ First(t) <= r.start /\ First(t) \in Nat /\ FirstSlot \in Nat
        BY <1>0, RangeOf DEF Place, Instance, RangeAssumption
      <4>2. Last(r) <= End(t) - 1 /\ End(t) <= EndSlot /\ EndSlot \in Nat /\ End(t) \in Nat
        BY <1>0, PlaceIs, MineIn, RangeOf DEF Instance, RangeAssumption
      <4>. QED  BY <1>0, <2>1, <2>2, <4>1, <4>2, PlaceIs DEF Slots
    <3>2. EpochOf(s0) = r.epoch
      BY <1>0, <2>2, EpochIs DEF Instance
    <3>. QED  BY <1>0, <3>1, <3>2, EpochsOfRange DEF Instance
  <2>4. /\ p \in Nat /\ 1 <= p
        /\ \A q \in Present \ Overtaking : s0 <= q /\ q <= EpochLast(r.epoch) =>
             \E j \in 1 .. Len(Archive[r.epoch]) : p <= j /\ Archive[r.epoch][j] = q
    BY <1>0, <2>2, <2>3, SeekStands
  <2>5. Dec(s0) \in Nat
    BY <1>0, PlaceIs
  <2> HIDE DEF p
  <2>6. /\ x \in Passes /\ x.pc = "loop" /\ x.end = r.end /\ x.start = r.start /\ x.counted = Dec(s0)
        /\ x.cur = NoSlot /\ x.epoch = r.epoch /\ x.last = Last(r) /\ x.pos = p
    <3>1. r \in Passes /\ Last(r) \in Nat
      BY <1>0, PlaceIs
    <3> DEFINE d == Dec(s0)
               l == Last(r)
    <3>2. d \in Nat /\ l \in Nat /\ p \in Nat
      BY <2>4, <2>5, <3>1
    <3> HIDE DEF d, l
    <3>3. [r EXCEPT !.pc = "loop", !.counted = d, !.last = l, !.pos = p, !.cur = NoSlot] \in Passes
      BY <3>1, <3>2 DEF Passes
    <3>4. x = [r EXCEPT !.pc = "loop", !.counted = d, !.last = l, !.pos = p, !.cur = NoSlot]
      BY DEF d, l
    <3>5. /\ x \in Passes /\ x.pc = "loop" /\ x.end = r.end /\ x.start = r.start /\ x.counted = d
          /\ x.cur = NoSlot /\ x.epoch = r.epoch /\ x.last = l /\ x.pos = p
      BY <3>1, <3>3, <3>4 DEF Passes
    <3>. QED  BY <3>5 DEF d, l
  <2> HIDE DEF x
  <2>7. Start(x) = s0 /\ Last(x) = Last(r) /\ Blocks(x) = Blocks(r)
    BY <2>6 DEF Start, Last, Blocks
  <2>8. Dec(s0) <= s0 /\ (s0 > 0 => Dec(s0) = s0 - 1)
    BY <2>2 DEF Dec, Max2
  <2>9. Place(t, x)
    <3>1. Reading(x)
      <4>1. EpochLast(r.epoch) \in Nat
        BY <1>0, PlaceIs
      <4>. QED  BY <2>1, <2>2, <2>3, <2>4, <2>5, <2>6, <2>7, <2>8, <4>1 DEF Reading
    <3>2. First(t) <= Dec(s0) + 1 /\ Dec(s0) < End(t)
      BY <1>0, <2>1, <2>2, <2>5, <2>8, PlaceIs DEF Place
    <3>. QED  BY <1>0, <2>6, <3>1, <3>2 DEF Place
  <2>10. ASSUME NEW s \in Mine(t) \cap Orderly
         PROVE  /\ s <= Dec(s0) => roots[s] = 1
                /\ Dec(s0) < s /\ s <= Last(r) => AheadOf(x, s)
    <3>1. s \in Nat \ {0} /\ s \in Present \ Overtaking
      BY <1>0, OrderlyIs
    <3>2. s <= Dec(s0) => s < s0
      BY <2>2, <2>5, <2>8, <3>1
    <3>3. Dec(s0) < s => s0 <= s
      BY <2>2, <2>5, <2>8, <3>1
    <3>4. s <= Last(r) => s <= EpochLast(r.epoch)
      BY <1>0, <3>1, PlaceIs
    <3>. QED  BY <1>0, <2>4, <2>6, <3>1, <3>2, <3>3, <3>4 DEF Covered, AheadOf, Blocks
  <2>11. Covered(t, x, roots)
    BY <2>6, <2>10 DEF Covered
  <2>12. r.counted <= x.counted
    BY <1>0, <2>6 DEF Place
  <2>. QED  BY <1>0, <2>1, <2>6, <2>9, <2>11, <2>12, ThreadSilent
<1>4. CASE OpenFails(t)
  <2>1. Restart(t, Current(t)) /\ faults' \in 0 .. MaxFaults
    BY <1>4, FaultCounts DEF OpenFails
  <2>2. Current(t) \in Nat /\ (Current(t) = r.start \/ Current(t) <= r.counted)
    <3>1. r.cur \in Slots \cup {NoSlot} /\ r.start \in Nat /\ \A s \in Slots : s \in Nat
      BY <1>0, PlaceIs, EpochsOfRange DEF Passes, Instance
    <3>. QED  BY <1>0, <3>1 DEF Current, Place
  <2>3. r.start \in Nat /\ First(t) <= r.start /\ r.start <= End(t)
    BY <1>0, PlaceIs DEF Place
  <2>4. ASSUME NEW s \in Mine(t) \cap Orderly, s < Current(t) \/ s <= r.counted PROVE roots[s] = 1
    <3>1. s \in Nat \ {0} /\ Start(r) \in Nat /\ r.start <= Start(r) /\ r.counted <= Dec(Start(r)) /\ r.counted \in Nat
      BY <1>0, PlaceIs, OrderlyIs DEF Place
    <3>2. s < Start(r)
      BY <2>2, <2>3, <2>4, <3>1 DEF Dec, Max2
    <3>. QED  BY <1>0, <3>2 DEF Covered
  <2>. QED  BY <1>0, <2>1, <2>2, <2>3, <2>4, RestartKept
<1>5. CASE SeekFails(t)
  <2> DEFINE a == Start(r)
             x == NewPass(r.end, a, a - 1)
  <2>1. Set(t, x) /\ faults' \in 0 .. MaxFaults /\ a <= Last(r) /\ a > EpochFirst(r.epoch)
    BY <1>5, <1>0, FaultCounts DEF SeekFails, LocalStart, LocalLast, Start, Last
  <2>2. /\ a \in Nat /\ a - 1 \in Nat /\ Dec(a) = a - 1 /\ r.end = End(t) /\ First(t) <= a /\ a <= End(t)
        /\ First(t) <= (a - 1) + 1 /\ a - 1 < End(t) /\ r.counted <= a - 1 /\ r.counted \in Nat
    <3>1. /\ a \in Nat /\ EpochFirst(r.epoch) \in Nat /\ r.start <= a /\ r.start \in Nat /\ Last(r) <= r.end - 1
          /\ Last(r) \in Nat /\ r.end \in Nat /\ r.end = End(t) /\ First(t) \in Nat /\ First(t) <= r.start
          /\ r.counted <= Dec(a) /\ r.counted \in Nat
      BY <1>0, PlaceIs DEF Place
    <3> HIDE DEF a
    <3>. QED  BY <2>1, <3>1 DEF Dec, Max2
  <2>3. \A s \in Mine(t) \cap Orderly : s < a => roots[s] = 1
    BY <1>0 DEF Covered
  <2> HIDE DEF a
  <2>4. Place(t, x) /\ Covered(t, x, roots) /\ x.pc = "epoch" /\ x.counted = a - 1
    BY <1>0, <2>2, <2>3, NewPassKept
  <2> HIDE DEF x
  <2>5. x.pc # "nodes" /\ r.counted <= x.counted
    BY <2>2, <2>4
  <2>. QED  BY <1>0, <2>1, <2>4, <2>5, ThreadSilent
<1>. QED  BY <1>0, <1>1, <1>2, <1>3, <1>4, <1>5

\* The block ahead is one of the epoch's.
LEMMA AheadIs ==
  ASSUME GeyserInv, NEW t \in Threads, AtBlock(t)
  PROVE  /\ th[t].pos \in Blocks(th[t]) /\ Archive[th[t].epoch][th[t].pos] = Ahead(t)
         /\ Ahead(t) \in Present /\ Ahead(t) \in Nat /\ EpochOf(Ahead(t)) = th[t].epoch
<1>1. /\ Instance /\ Place(t, th[t]) /\ th[t].epoch \in Lowest .. Top /\ 1 <= th[t].pos /\ th[t].pos \in Nat
      /\ th[t].pos <= Len(Archive[th[t].epoch]) /\ Ahead(t) = Archive[th[t].epoch][th[t].pos]
  BY PlaceIs DEF GeyserInv, Place, Reading, AtBlock, At, Stream, Ahead
<1>2. Len(Archive[th[t].epoch]) \in Nat
  BY <1>1, PresentIn
<1>3. th[t].pos \in 1 .. Len(Archive[th[t].epoch])
  BY <1>1, <1>2
<1>. QED  BY <1>1, <1>3, PresentIn DEF Blocks

\* The thread leaves an epoch of which nothing that is in order is missing.
LEMMA NextEpochKept ==
  ASSUME GeyserInv, NEW t \in Threads, At(t, "loop"),
         Set(t, [th[t] EXCEPT !.pc = "epoch", !.epoch = @ + 1]),
         faults' \in 0 .. MaxFaults, UNCHANGED calls, UNCHANGED <<finished, unloaded>>,
         \A s \in Mine(t) \cap Orderly : ~(th[t].counted < s /\ s <= th[t].last)
  PROVE  GeyserInv'
<1> DEFINE r == th[t]
           x == [r EXCEPT !.pc = "epoch", !.epoch = @ + 1]
<1>1. /\ Instance /\ Place(t, r) /\ Covered(t, r, roots) /\ r.pc = "loop" /\ r.pc # "returned"
  BY DEF GeyserInv, At
<1>2. /\ x \in Passes /\ x.pc = "epoch" /\ x.end = r.end /\ x.start = r.start /\ x.counted = r.counted
      /\ x.cur = r.cur /\ x.epoch = r.epoch + 1
  BY <1>1, PlaceIs, EpochPlus
<1>3. Set(t, x)
  OBVIOUS
<1> HIDE DEF x
<1>4. /\ r.last = Last(r) /\ r.counted \in Nat /\ r.counted <= EpochLast(r.epoch) /\ Dec(Start(r)) <= r.counted
      /\ EpochLast(r.epoch) \in Nat /\ r.start \in Nat /\ r.start <= Start(r) /\ Start(r) \in Nat /\ r.end \in Nat
      /\ (Last(r) = r.end - 1 \/ Last(r) = EpochLast(r.epoch)) /\ r.end = End(t)
  BY <1>1, PlaceIs DEF Place, Reading
<1>5. Start(x) = Max2(r.start, EpochLast(r.epoch) + 1)
  BY <1>1, <1>2, PlaceIs DEF Start
<1>6. Place(t, x)
  <2>1. r.counted <= Dec(Start(x))
    BY <1>4, <1>5 DEF Dec, Max2
  <2>. QED  BY <1>1, <1>2, <2>1 DEF Place
<1>7. ASSUME NEW s \in Mine(t) \cap Orderly, s < Start(x) PROVE roots[s] = 1
  <2>1. s \in Nat /\ s <= r.end - 1 /\ ~(r.counted < s /\ s <= r.last)
    BY <1>1, <1>4, OrderlyIs
  <2>2. r.start <= r.counted + 1
    BY <1>4 DEF Dec, Max2
  <2>3. s <= r.counted
    BY <1>4, <1>5, <1>7, <2>1, <2>2 DEF Max2
  <2>. QED  BY <1>1, <2>3 DEF Covered
<1>8. Covered(t, x, roots)
  BY <1>2, <1>7 DEF Covered
<1>. QED  BY <1>1, <1>2, <1>3, <1>4, <1>6, <1>8, ThreadSilent

\* The steps within an epoch, between blocks.
LEMMA StreamSteps ==
  ASSUME GeyserInv, NEW t \in Threads,
         ReadFails(t) \/ StreamEnds(t) \/ PastSlice(t) \/ PassOver(t) \/ TakeBlock(t)
  PROVE  GeyserInv' /\ UNCHANGED <<roots, metas>>
<1> DEFINE r == th[t]
<1>0. /\ Instance /\ Place(t, r) /\ Covered(t, r, roots) /\ Called(t, r, nodes, roots, metas)
      /\ r.pc = "loop" /\ r.pc # "returned" /\ At(t, "loop") /\ Reading(r)
      /\ UNCHANGED <<roots, metas>> /\ UNCHANGED <<finished, unloaded>> /\ faults \in 0 .. MaxFaults
      /\ Mine(t) \subseteq Nat
  BY MineIn DEF GeyserInv, Instance, Place, ReadFails, StreamEnds, PastSlice, PassOver, TakeBlock, AtBlock, At, calls
<1>a. /\ r.counted \in Nat /\ r.last = Last(r) /\ r.last \in Nat /\ Start(r) \in Nat /\ r.start \in Nat
      /\ r.start <= Start(r) /\ Dec(Start(r)) <= r.counted /\ Start(r) <= r.counted + 1
      /\ First(t) <= r.start /\ r.start <= End(t) /\ First(t) <= r.counted + 1 /\ r.counted < End(t)
      /\ First(t) \in Nat /\ End(t) \in Nat /\ r.pos \in Nat /\ r.epoch \in Nat /\ r.last <= End(t) - 1
  BY <1>0, PlaceIs, RangeOf DEF Place, Reading, Dec, Max2
<1>b. \A s \in Mine(t) \cap Orderly : s <= r.counted => roots[s] = 1
  BY <1>0 DEF Covered
<1>1. CASE ReadFails(t)
  <2>1. PICK slot \in {Current(t), AfterCurrent(t)} : Restart(t, slot)
    BY <1>1 DEF ReadFails
  <2>2. faults' \in 0 .. MaxFaults /\ UNCHANGED calls
    BY <1>1, FaultCounts DEF ReadFails
  <2>3. slot \in Nat /\ slot <= r.counted + 1 /\ (slot = r.counted + 1 \/ slot <= r.counted \/ slot = r.start)
    <3>1. r.cur \in Slots \cup {NoSlot} /\ \A s \in Slots : s \in Nat
      BY <1>0, PlaceIs, EpochsOfRange DEF Passes, Instance
    <3>2. r.cur = NoSlot \/ r.cur <= r.counted
      BY <1>0 DEF Place
    <3>. QED  BY <1>a, <3>1, <3>2 DEF Current, AfterCurrent, Dec, Max2
  <2>4. slot <= r.counted \/ (First(t) <= slot /\ slot <= End(t))
    BY <1>a, <2>3
  <2>5. \A s \in Mine(t) \cap Orderly : s < slot \/ s <= r.counted => roots[s] = 1
    BY <1>0, <1>a, <1>b, <2>3, OrderlyIs
  <2>. QED  BY <1>0, <2>1, <2>2, <2>3, <2>4, <2>5, RestartKept
<1>2. CASE StreamEnds(t)
  <2>1. faults' \in 0 .. MaxFaults /\ UNCHANGED calls
    BY <1>2, <1>0, FaultCounts DEF StreamEnds
  <2>2. CASE Unread(t) = NoSlot
    <3>1. \A s \in Present : ~(r.counted < s /\ s <= r.last)
      BY <1>0, <1>a, <2>2, IndexNames DEF Unread
    <3>2. \A s \in Mine(t) \cap Orderly : ~(r.counted < s /\ s <= r.last)
      BY <1>0, <3>1, OrderlyIs
    <3>3. Set(t, [th[t] EXCEPT !.pc = "epoch", !.epoch = @ + 1])
      BY <1>2, <2>2 DEF StreamEnds
    <3>. QED  BY <1>0, <2>1, <3>2, <3>3, NextEpochKept
  <2>3. CASE Unread(t) # NoSlot
    <3> DEFINE slot == r.counted + 1
    <3>1. Restart(t, slot)
      BY <1>2, <2>3 DEF StreamEnds
    <3>2. slot \in Nat /\ First(t) <= slot /\ slot <= End(t)
      BY <1>a
    <3>3. \A s \in Mine(t) \cap Orderly : s < slot \/ s <= r.counted => roots[s] = 1
      BY <1>0, <1>a, <1>b, OrderlyIs
    <3> HIDE DEF slot
    <3>. QED  BY <1>0, <2>1, <3>1, <3>2, <3>3, RestartKept
  <2>. QED  BY <2>2, <2>3
<1>3. CASE PastSlice(t)
  <2>1. /\ r.pos \in Blocks(r) /\ Archive[r.epoch][r.pos] = Ahead(t) /\ Ahead(t) \in Nat /\ Ahead(t) > r.last
        /\ EpochOf(Ahead(t)) = r.epoch
    BY <1>3, AheadIs DEF PastSlice
  <2>2. ASSUME NEW s \in Mine(t) \cap Orderly, r.counted < s, s <= r.last PROVE FALSE
    <3>1. PICK j \in Blocks(r) : r.pos <= j /\ Archive[r.epoch][j] = s
      BY <1>0, <2>2 DEF Covered, AheadOf
    <3>2. s \in Nat /\ s \in Present /\ s \notin Overtaken
      BY <1>0, OrderlyIs
    <3>3. EpochOf(s) = r.epoch
      BY <1>0, <3>1, PresentIn DEF Blocks, Reading
    <3>4. s < Ahead(t) /\ r.pos # j
      BY <1>a, <2>1, <2>2, <3>1, <3>2
    <3>5. r.pos < j
      BY <1>a, <2>1, <3>1, <3>4 DEF Blocks
    <3>. QED  BY <2>1, <3>1, <3>2, <3>3, <3>4, <3>5 DEF Overtaken, Blocks
  <2>3. Set(t, [th[t] EXCEPT !.pc = "epoch", !.epoch = @ + 1]) /\ faults' \in 0 .. MaxFaults /\ UNCHANGED calls
    BY <1>3, <1>0 DEF PastSlice
  <2>. QED  BY <1>0, <2>2, <2>3, NextEpochKept
<1>4. CASE PassOver(t)
  <2> DEFINE c == IF Ahead(t) < Start(r) THEN r.cur ELSE Ahead(t)
             x == Over(r, c)
  <2>1. /\ Set(t, x) /\ AtBlock(t) /\ faults' = faults /\ UNCHANGED calls
        /\ Ahead(t) <= r.last /\ (Ahead(t) < Start(r) \/ Ahead(t) <= r.counted)
    BY <1>4 DEF PassOver, LocalStart, Start, Over
  <2>2. /\ r.pos \in Blocks(r) /\ Archive[r.epoch][r.pos] = Ahead(t) /\ Ahead(t) \in Nat
    BY <2>1, AheadIs
  <2>3. c \in Slots \cup {NoSlot} /\ (c = NoSlot \/ c <= r.counted)
    <3>1. r.cur \in Slots \cup {NoSlot} /\ (r.cur = NoSlot \/ r.cur <= r.counted)
      BY <1>0, PlaceIs DEF Passes, Place
    <3>2. ASSUME ~(Ahead(t) < Start(r)) PROVE Ahead(t) \in Slots
      <4>1. FirstSlot <= First(t) /\ FirstSlot \in Nat /\ End(t) <= EndSlot /\ EndSlot \in Nat
        BY <1>0, RangeOf, MineIn DEF Instance, RangeAssumption
      <4>. QED  BY <1>a, <2>1, <2>2, <3>2, <4>1 DEF Slots
    <3>. QED  BY <2>1, <3>1, <3>2
  <2> HIDE DEF c
  <2>4. /\ x \in Passes /\ x.pc = "loop" /\ x.end = r.end /\ x.start = r.start /\ x.counted = r.counted
        /\ x.cur = c /\ x.epoch = r.epoch /\ x.last = r.last /\ x.pos = r.pos + 1
    BY <1>0, <2>3, PlaceIs, OverIs
  <2> HIDE DEF x
  <2>5. Start(x) = Start(r) /\ Last(x) = Last(r) /\ Blocks(x) = Blocks(r)
    BY <2>4 DEF Start, Last, Blocks
  <2>6. Place(t, x)
    BY <1>0, <1>a, <2>3, <2>4, <2>5 DEF Place, Reading
  <2>7. ASSUME NEW s \in Mine(t) \cap Orderly, r.counted < s, s <= r.last PROVE AheadOf(x, s)
    <3>1. PICK j \in Blocks(r) : r.pos <= j /\ Archive[r.epoch][j] = s
      BY <1>0, <2>7 DEF Covered, AheadOf
    <3>2. s \in Nat
      BY <1>0, OrderlyIs
    <3>3. j # r.pos
      BY <1>a, <2>1, <2>2, <2>7, <3>1, <3>2
    <3>4. r.pos + 1 <= j
      BY <1>a, <3>1, <3>3 DEF Blocks
    <3>. QED  BY <2>4, <2>5, <3>1, <3>4 DEF AheadOf
  <2>8. Covered(t, x, roots)
    BY <1>b, <2>4, <2>7 DEF Covered
  <2>9. x.pc # "nodes" /\ r.counted <= x.counted
    BY <1>a, <2>4
  <2>. QED  BY <1>0, <2>1, <2>6, <2>8, <2>9, ThreadSilent
<1>5. CASE TakeBlock(t)
  <2> DEFINE b == Ahead(t)
             x == Taken(r, b)
  <2>1. /\ Set(t, x) /\ AtBlock(t) /\ faults' = faults /\ nodes' = [nodes EXCEPT ![b] = <<>>]
        /\ Start(r) <= b /\ b <= r.last /\ r.counted < b
    BY <1>5, <1>a, AheadIs DEF TakeBlock, LocalStart, Start, NoneRan, Taken
  <2>2. /\ r.pos \in Blocks(r) /\ Archive[r.epoch][r.pos] = b /\ b \in Nat /\ b \in Present
    BY <2>1, AheadIs
  <2>3. b \in Mine(t) /\ b \in Slots
    BY <1>0, <1>a, <2>1, <2>2, MineIn DEF Mine, Instance
  <2> HIDE DEF b
  <2>4. /\ x \in Passes /\ x.pc = "nodes" /\ x.end = r.end /\ x.start = r.start /\ x.counted = r.counted
        /\ x.cur = b /\ x.epoch = r.epoch /\ x.last = r.last /\ x.pos = r.pos + 1 /\ x.node = 1 /\ x.ran = 0
    BY <1>0, <2>3, PlaceIs, TakenIs
  <2> HIDE DEF x
  <2>5. Start(x) = Start(r) /\ Last(x) = Last(r) /\ Blocks(x) = Blocks(r)
    BY <2>4 DEF Start, Last, Blocks
  <2>6. Place(t, x)
    <3>1. x.pos - 1 = r.pos
      BY <1>a, <2>4
    <3>2. Inside(t, x)
      BY <2>1, <2>2, <2>3, <2>4, <2>5, <3>1 DEF Inside, RanAt
    <3>3. Reading(x)
      BY <1>0, <1>a, <2>4, <2>5 DEF Reading
    <3>. QED  BY <1>0, <2>4, <3>2, <3>3 DEF Place
  <2>7. ASSUME NEW s \in Mine(t) \cap Orderly, r.counted < s, s <= r.last PROVE AheadOf(x, s) \/ s = b
    <3>1. PICK j \in Blocks(r) : r.pos <= j /\ Archive[r.epoch][j] = s
      BY <1>0, <2>7 DEF Covered, AheadOf
    <3>2. CASE j = r.pos
      BY <2>2, <3>1, <3>2
    <3>3. CASE j # r.pos
      <4>1. r.pos + 1 <= j
        BY <1>a, <3>1, <3>3 DEF Blocks
      <4>. QED  BY <2>4, <2>5, <3>1, <4>1 DEF AheadOf
    <3>. QED  BY <3>2, <3>3
  <2>8. Covered(t, x, roots')
    BY <1>0, <1>b, <2>4, <2>7 DEF Covered
  <2>9. Called(t, x, nodes', roots', metas')
    <3>1. nodes'[b] = <<>> /\ \A s \in Slots : s # b => nodes'[s] = nodes[s]
      BY <2>1, <2>3 DEF GeyserInv
    <3>2. \A s \in Mine(t) : roots[s] = 1 => s # b /\ s \in Slots
      BY <1>0, <1>a, <2>1, <2>2, MineIn DEF Called, Instance
    <3>3. nodes'[x.cur] = Calls(x.node)
      BY <2>4, <3>1 DEF Calls
    <3>. QED  BY <1>0, <2>4, <3>1, <3>2, <3>3 DEF Called
  <2>10. \A s \in Slots : s \notin Mine(t) => nodes'[s] = nodes[s]
    BY <2>1, <2>3 DEF GeyserInv
  <2>11. DOMAIN nodes' = Slots /\ roots' \in [Slots -> {0, 1}] /\ metas' \in [Slots -> {0, 1}]
    BY <1>0, <2>1 DEF GeyserInv
  <2>12. \A s \in Slots : s \notin Mine(t) => nodes'[s] = nodes[s] /\ roots'[s] = roots[s] /\ metas'[s] = metas[s]
    BY <1>0, <2>10
  <2>. QED  BY <1>0, <2>1, <2>6, <2>8, <2>9, <2>11, <2>12, ThreadAlone
<1>. QED  BY <1>0, <1>1, <1>2, <1>3, <1>4, <1>5

\* What it means that a sequence is another one with an element appended.
LEMMA AppendIs ==
  ASSUME NEW S, NEW s \in Seq(S), NEW e \in S, NEW u \in Seq(S),
         Len(u) = Len(s) + 1, \A i \in 1 .. Len(s) : u[i] = s[i], u[Len(s) + 1] = e
  PROVE  Append(s, e) = u
<1>1. Append(s, e) \in Seq(S) /\ Len(Append(s, e)) = Len(s) + 1 /\ Len(s) \in Nat
  OBVIOUS
<1>2. \A i \in 1 .. Len(u) : Append(s, e)[i] = u[i]
  OBVIOUS
<1>. QED  BY <1>1, <1>2

LEMMA AppendNone == ASSUME NEW a PROVE Append(<<>>, a) = <<a>>
  OBVIOUS

LEMMA AppendOne == ASSUME NEW a, NEW b PROVE Append(<<a>>, b) = <<a, b>>
<1> DEFINE S == {a, b}
           s == <<a>>
           u == <<a, b>>
<1>1. s \in Seq(S) /\ Len(s) = 1 /\ s[1] = a
  OBVIOUS
<1>2. u \in Seq(S) /\ Len(u) = 2 /\ u[1] = a /\ u[2] = b /\ b \in S
  OBVIOUS
<1> HIDE DEF s, u, S
<1>3. Len(u) = Len(s) + 1 /\ u[Len(s) + 1] = b
  BY <1>1, <1>2
<1>4. \A i \in 1 .. Len(s) : u[i] = s[i]
  BY <1>1, <1>2
<1>5. Append(s, b) = u
  BY <1>1, <1>2, <1>3, <1>4, AppendIs
<1>. QED  BY <1>5 DEF s, u

LEMMA AppendTwo ==
  ASSUME NEW a, NEW b, NEW c
  PROVE  Append(<<a, b>>, c) = <<a, b, c>>
<1> DEFINE S == {a, b, c}
           s == <<a, b>>
           u == <<a, b, c>>
<1>1. s \in Seq(S) /\ Len(s) = 2 /\ s[1] = a /\ s[2] = b
  OBVIOUS
<1>2. u \in Seq(S) /\ Len(u) = 3 /\ u[1] = a /\ u[2] = b /\ u[3] = c /\ c \in S
  OBVIOUS
<1> HIDE DEF s, u, S
<1>3. Len(u) = Len(s) + 1 /\ u[Len(s) + 1] = c
  BY <1>1, <1>2
<1>4. \A i \in 1 .. Len(s) : u[i] = s[i]
  BY <1>1, <1>2
<1>5. Append(s, c) = u
  BY <1>1, <1>2, <1>3, <1>4, AppendIs
<1>. QED  BY <1>5 DEF s, u

LEMMA AppendThree ==
  ASSUME NEW a, NEW b, NEW c, NEW d
  PROVE  Append(<<a, b, c>>, d) = <<a, b, c, d>>
<1> DEFINE S == {a, b, c, d}
           s == <<a, b, c>>
           u == <<a, b, c, d>>
<1>1. s \in Seq(S) /\ Len(s) = 3 /\ s[1] = a /\ s[2] = b /\ s[3] = c
  OBVIOUS
<1>2. u \in Seq(S) /\ Len(u) = 4 /\ u[1] = a /\ u[2] = b /\ u[3] = c /\ u[4] = d /\ d \in S
  OBVIOUS
<1> HIDE DEF s, u, S
<1>3. Len(u) = Len(s) + 1 /\ u[Len(s) + 1] = d
  BY <1>1, <1>2
<1>4. \A i \in 1 .. Len(s) : u[i] = s[i]
  BY <1>1, <1>2
<1>5. Append(s, d) = u
  BY <1>1, <1>2, <1>3, <1>4, AppendIs
<1>. QED  BY <1>5 DEF s, u

\* The calls of a block grow by one for each of its nodes that has a notifier.
LEMMA NodesAre ==
  ASSUME NEW n \in 1 .. 6
  PROVE  /\ Shape[n] = "tx" => n \in {1, 3} /\ Calls(n + 1) = Append(Calls(n), "tx") /\ RanAt(n + 1) = RanAt(n)
         /\ Shape[n] = "entry" => n \in {2, 4} /\ RanAt(n + 1) = RanAt(n) + 1
                                   /\ Calls(n + 1) = IF Entries THEN Append(Calls(n), <<"entry", RanAt(n)>>)
                                                     ELSE Calls(n)
         /\ Shape[n] = "rewards" => n = 5 /\ Calls(n + 1) = Calls(n)
         /\ Shape[n] = "block" => n = 6
<1>1. /\ Shape[1] = "tx" /\ Shape[2] = "entry" /\ Shape[3] = "tx" /\ Shape[4] = "entry"
      /\ Shape[5] = "rewards" /\ Shape[6] = "block"
  BY DEF Shape
<1>2. /\ Calls(1) = <<>> /\ Calls(2) = <<"tx">>
      /\ Calls(3) = IF Entries THEN <<"tx", <<"entry", 0>>>> ELSE <<"tx">>
      /\ Calls(4) = IF Entries THEN <<"tx", <<"entry", 0>>, "tx">> ELSE <<"tx", "tx">>
      /\ Calls(5) = IF Entries THEN <<"tx", <<"entry", 0>>, "tx", <<"entry", 1>>>> ELSE <<"tx", "tx">>
      /\ Calls(6) = IF Entries THEN <<"tx", <<"entry", 0>>, "tx", <<"entry", 1>>>> ELSE <<"tx", "tx">>
  BY DEF Calls
<1>3. Calls(2) = Append(Calls(1), "tx") /\ Calls(4) = Append(Calls(3), "tx")
  <2> DEFINE e == <<"entry", 0>>
  <2> HIDE DEF e
  <2>1. Append(<<>>, "tx") = <<"tx">> /\ Append(<<"tx">>, "tx") = <<"tx", "tx">>
    BY AppendNone, AppendOne, Zenon
  <2>3. Append(<<"tx", e>>, "tx") = <<"tx", e, "tx">>
    BY AppendTwo, Zenon
  <2>2. /\ Calls(1) = <<>> /\ Calls(2) = <<"tx">>
        /\ Calls(3) = IF Entries THEN <<"tx", e>> ELSE <<"tx">>
        /\ Calls(4) = IF Entries THEN <<"tx", e, "tx">> ELSE <<"tx", "tx">>
    BY <1>2, Zenon DEF e
  <2>. QED  BY <2>1, <2>2, <2>3
<1>4. /\ Calls(3) = IF Entries THEN Append(Calls(2), <<"entry", 0>>) ELSE Calls(2)
      /\ Calls(5) = IF Entries THEN Append(Calls(4), <<"entry", 1>>) ELSE Calls(4)
  <2> DEFINE e == <<"entry", 0>>
             g == <<"entry", 1>>
  <2> HIDE DEF e, g
  <2>1. Append(<<"tx">>, e) = <<"tx", e>>
    BY AppendOne, Zenon
  <2>4. Append(<<"tx", e, "tx">>, g) = <<"tx", e, "tx", g>>
    BY AppendThree, Zenon
  <2>2. /\ Calls(2) = <<"tx">>
        /\ Calls(3) = IF Entries THEN <<"tx", e>> ELSE <<"tx">>
        /\ Calls(4) = IF Entries THEN <<"tx", e, "tx">> ELSE <<"tx", "tx">>
        /\ Calls(5) = IF Entries THEN <<"tx", e, "tx", g>> ELSE <<"tx", "tx">>
    BY <1>2, Zenon DEF e, g
  <2>3. /\ Calls(3) = IF Entries THEN Append(Calls(2), e) ELSE Calls(2)
        /\ Calls(5) = IF Entries THEN Append(Calls(4), g) ELSE Calls(4)
    BY <2>1, <2>2, <2>4
  <2>. QED  BY <2>3, Zenon DEF e, g
<1>5. /\ RanAt(1) = 0 /\ RanAt(2) = 0 /\ RanAt(3) = 1 /\ RanAt(4) = 1 /\ RanAt(5) = 2 /\ RanAt(6) = 2
  BY DEF RanAt
<1>6. n \in {1, 2, 3, 4, 5, 6}
  OBVIOUS
<1>7. CASE n = 1
  BY <1>1, <1>3, <1>5, <1>7
<1>8. CASE n = 2
  BY <1>1, <1>4, <1>5, <1>8
<1>9. CASE n = 3
  BY <1>1, <1>3, <1>5, <1>9
<1>10. CASE n = 4
  BY <1>1, <1>4, <1>5, <1>10
<1>11. CASE n = 5
  <2>1. Calls(6) = Calls(5)
    BY DEF Calls
  <2>. QED  BY <1>1, <1>5, <1>11, <2>1
<1>12. CASE n = 6
  BY <1>1, <1>12
<1>. QED  BY <1>6, <1>7, <1>8, <1>9, <1>10, <1>11, <1>12

\* The thread goes on to the next node of its block.
LEMMA NodeKept ==
  ASSUME GeyserInv, NEW t \in Threads, At(t, "nodes"), NEW k \in Nat, NEW x,
         \/ x = [th[t] EXCEPT !.node = @ + 1] /\ k = th[t].ran
         \/ x = [th[t] EXCEPT !.node = @ + 1, !.ran = @ + 1] /\ k = th[t].ran + 1,
         Set(t, x), th[t].node < 6, k = RanAt(th[t].node + 1),
         DOMAIN nodes' = Slots, nodes'[th[t].cur] = Calls(th[t].node + 1),
         \A s \in Slots : s # th[t].cur => nodes'[s] = nodes[s],
         UNCHANGED <<faults, finished, unloaded, roots, metas>>
  PROVE  GeyserInv'
<1> DEFINE r == th[t]
<1>1. /\ Instance /\ Place(t, r) /\ Covered(t, r, roots) /\ Called(t, r, nodes, roots, metas)
      /\ r.pc = "nodes" /\ r.pc # "returned" /\ Inside(t, r) /\ Reading(r) /\ faults \in 0 .. MaxFaults
      /\ r \in Passes /\ r.node + 1 \in Nat /\ r.ran + 1 \in Nat
  BY PlaceIs DEF GeyserInv, Place, At
<1>2. /\ x \in Passes /\ x.pc = "nodes" /\ x.end = r.end /\ x.start = r.start /\ x.counted = r.counted
      /\ x.cur = r.cur /\ x.epoch = r.epoch /\ x.last = r.last /\ x.pos = r.pos /\ x.node = r.node + 1 /\ x.ran = k
  <2>3. k \in {0, 1, 2}
    BY DEF RanAt
  <2>1. CASE x = [r EXCEPT !.node = @ + 1] /\ k = r.ran
    BY <1>1, <2>1 DEF Passes
  <2>2. CASE x = [r EXCEPT !.node = @ + 1, !.ran = @ + 1] /\ k = r.ran + 1
    <3> DEFINE y == [r EXCEPT !.node = @ + 1]
    <3>1. y \in Passes /\ y.ran = r.ran /\ x = [y EXCEPT !.ran = k]
      BY <1>1, <2>2 DEF Passes
    <3>2. /\ y.pc = "nodes" /\ y.end = r.end /\ y.start = r.start /\ y.counted = r.counted /\ y.cur = r.cur
          /\ y.epoch = r.epoch /\ y.last = r.last /\ y.pos = r.pos /\ y.node = r.node + 1
      BY <1>1 DEF Passes
    <3> HIDE DEF y
    <3>. QED  BY <2>3, <3>1, <3>2 DEF Passes
  <2>. QED  BY <2>1, <2>2
<1>3. Start(x) = Start(r) /\ Last(x) = Last(r) /\ Blocks(x) = Blocks(r)
  BY <1>2 DEF Start, Last, Blocks
<1>4. Place(t, x)
  <2>1. Inside(t, x)
    BY <1>1, <1>2, <1>3 DEF Inside
  <2>2. Reading(x)
    BY <1>1, <1>2, <1>3 DEF Reading
  <2>. QED  BY <1>1, <1>2, <2>1, <2>2 DEF Place
<1>5. Covered(t, x, roots')
  BY <1>1, <1>2, <1>3 DEF Covered, AheadOf
<1>6. r.cur \in Mine(t) /\ r.cur \in Slots /\ ~(r.cur <= r.counted)
  BY <1>1, PlaceIs, MineIn DEF Inside, Instance
<1>7. nodes'[r.cur] = Calls(r.node + 1) /\ \A s \in Slots : s # r.cur => nodes'[s] = nodes[s]
  OBVIOUS
<1>8. \A s \in Mine(t) : s \in Slots
  BY <1>1, MineIn DEF Instance
<1>9. Called(t, x, nodes', roots', metas')
  <2>1. \A s \in Mine(t) : roots[s] = 1 => s # r.cur /\ s \in Slots
    BY <1>1, <1>6, <1>8 DEF Called
  <2>. QED  BY <1>1, <1>2, <1>7, <2>1 DEF Called
<1>10. \A s \in Slots : s \notin Mine(t) => nodes'[s] = nodes[s] /\ roots'[s] = roots[s] /\ metas'[s] = metas[s]
  BY <1>6, <1>7
<1>11. DOMAIN nodes' = Slots /\ roots' \in [Slots -> {0, 1}] /\ metas' \in [Slots -> {0, 1}]
  BY DEF GeyserInv
<1>12. faults' \in 0 .. MaxFaults /\ UNCHANGED <<finished, unloaded>>
  BY <1>1
<1>. QED  BY <1>1, <1>4, <1>5, <1>9, <1>10, <1>11, <1>12, ThreadAlone

\* In a block: a block of the range that is in order and in front of it was announced.
LEMMA BeforeCurrent ==
  ASSUME GeyserInv, NEW t \in Threads, At(t, "nodes"), NEW s \in Mine(t) \cap Orderly, s < th[t].cur
  PROVE  roots[s] = 1
<1> DEFINE r == th[t]
<1>1. /\ Instance /\ Place(t, r) /\ Covered(t, r, roots) /\ r.pc = "nodes" /\ Inside(t, r) /\ Reading(r)
  BY DEF GeyserInv, Place, At
<1>2. s \in Nat /\ s \in Present /\ s \notin Overtaken /\ r.counted \in Nat /\ r.pos \in Nat /\ r.last \in Nat
      /\ r.cur \in Nat /\ r.cur <= r.last
  BY <1>1, PlaceIs, OrderlyIs, PresentNat DEF Inside
<1>3. CASE s <= r.counted
  BY <1>1, <1>3 DEF Covered
<1>4. CASE r.counted < s
  <2>1. PICK j \in Blocks(r) : r.pos <= j /\ Archive[r.epoch][j] = s
    BY <1>1, <1>2, <1>4 DEF Covered, AheadOf
  <2>2. EpochOf(s) = r.epoch
    BY <1>1, <2>1, PresentIn DEF Blocks, Reading
  <2>3. r.pos - 1 \in Blocks(r) /\ Archive[r.epoch][r.pos - 1] > s /\ r.pos - 1 < j
    BY <1>1, <1>2, <2>1 DEF Inside, Blocks
  <2>. QED  BY <1>2, <2>1, <2>2, <2>3 DEF Overtaken, Blocks
<1>. QED  BY <1>2, <1>3, <1>4

\* The block node of a slot announces it, and nothing else does.
Announces(s) ==
  /\ s \in Wanted /\ roots[s] = 0 /\ roots' = [roots EXCEPT ![s] = 1]
  /\ metas' = IF "block" \in Notifiers THEN [metas EXCEPT ![s] = 1] ELSE metas

\* The nodes of a block in front of its block node.
LEMMA NodeSteps ==
  ASSUME GeyserInv, NEW t \in Threads, OnTransaction(t) \/ OnEntry(t) \/ OnRewards(t) \/ NodeFails(t)
  PROVE  GeyserInv' /\ UNCHANGED <<roots, metas>>
<1> DEFINE r == th[t]
           n == r.node
<1>1. /\ Instance /\ Place(t, r) /\ Called(t, r, nodes, roots, metas) /\ Covered(t, r, roots)
      /\ At(t, "nodes") /\ r.pc = "nodes" /\ r.pc # "returned" /\ Inside(t, r) /\ r.ran \in Nat
      /\ UNCHANGED <<roots, metas>> /\ UNCHANGED <<finished, unloaded>> /\ faults \in 0 .. MaxFaults
      /\ DOMAIN nodes = Slots /\ n \in Nat
  BY PlaceIs DEF GeyserInv, Place, OnTransaction, OnEntry, OnRewards, NodeFails, AtNode, At, calls
<1>2. n \in 1 .. 6 /\ r.ran = RanAt(n) /\ nodes[r.cur] = Calls(n) /\ r.cur \in Slots
  BY <1>1, MineIn DEF Inside, Called, Instance
<1> DEFINE Grown == /\ DOMAIN nodes' = Slots /\ nodes'[r.cur] = Calls(n + 1)
                    /\ \A s \in Slots : s # r.cur => nodes'[s] = nodes[s]
<1>3. nodes' = nodes /\ Calls(n + 1) = Calls(n) => Grown
  BY <1>1, <1>2
<1>4. CASE OnTransaction(t)
  <2>1. /\ Shape[n] = "tx" /\ nodes' = [nodes EXCEPT ![r.cur] = Append(nodes[r.cur], "tx")]
        /\ Set(t, [r EXCEPT !.node = @ + 1]) /\ UNCHANGED <<faults, finished, unloaded, roots, metas>>
    BY <1>4 DEF OnTransaction, AtNode
  <2>2. n \in {1, 3} /\ Calls(n + 1) = Append(Calls(n), "tx") /\ RanAt(n + 1) = RanAt(n)
    BY <1>2, <2>1, NodesAre
  <2>3. Grown
    BY <1>1, <1>2, <2>1, <2>2
  <2>4. n < 6 /\ r.ran = RanAt(n + 1)
    BY <1>2, <2>2
  <2>. QED  BY <1>1, <2>1, <2>3, <2>4, NodeKept
<1>5. CASE OnEntry(t)
  <2>1. /\ Shape[n] = "entry" /\ Set(t, [r EXCEPT !.node = @ + 1, !.ran = @ + 1])
        /\ UNCHANGED <<faults, finished, unloaded, roots, metas>>
        /\ nodes' = IF Entries THEN [nodes EXCEPT ![r.cur] = Append(nodes[r.cur], <<"entry", r.ran>>)] ELSE nodes
    BY <1>5 DEF OnEntry, AtNode, Entries
  <2>2. /\ n \in {2, 4} /\ RanAt(n + 1) = RanAt(n) + 1
        /\ Calls(n + 1) = IF Entries THEN Append(Calls(n), <<"entry", RanAt(n)>>) ELSE Calls(n)
    BY <1>2, <2>1, NodesAre
  <2>3. CASE Entries
    <3>1. Grown
      BY <1>1, <1>2, <2>1, <2>2, <2>3
    <3>2. n < 6 /\ r.ran + 1 = RanAt(n + 1) /\ r.ran + 1 \in Nat
      BY <1>1, <1>2, <2>2
    <3>. QED  BY <1>1, <2>1, <3>1, <3>2, NodeKept
  <2>4. CASE ~Entries
    <3>1. Grown
      BY <1>3, <2>1, <2>2, <2>4
    <3>2. n < 6 /\ r.ran + 1 = RanAt(n + 1) /\ r.ran + 1 \in Nat
      BY <1>1, <1>2, <2>2
    <3>. QED  BY <1>1, <2>1, <3>1, <3>2, NodeKept
  <2>. QED  BY <2>3, <2>4
<1>6. CASE OnRewards(t)
  <2>1. /\ Shape[n] = "rewards" /\ Set(t, [r EXCEPT !.node = @ + 1]) /\ nodes' = nodes
        /\ UNCHANGED <<faults, finished, unloaded, roots, metas>>
    BY <1>6 DEF OnRewards, AtNode, calls
  <2>2. n = 5 /\ Calls(n + 1) = Calls(n)
    BY <1>2, <2>1, NodesAre
  <2>3. RanAt(n + 1) = RanAt(n)
    BY <2>2 DEF RanAt
  <2>4. Grown
    BY <1>3, <2>1, <2>2
  <2>5. n < 6 /\ r.ran = RanAt(n + 1)
    BY <1>2, <2>2, <2>3
  <2>. QED  BY <1>1, <2>1, <2>4, <2>5, NodeKept
<1>7. CASE NodeFails(t)
  <2>1. Restart(t, r.cur) /\ faults' \in 0 .. MaxFaults /\ UNCHANGED calls
    BY <1>7, FaultCounts DEF NodeFails
  <2>2. /\ r.cur \in Nat /\ First(t) <= r.cur /\ r.cur <= End(t) /\ r.counted < r.cur /\ r.counted \in Nat
        /\ Mine(t) \subseteq Nat
    BY <1>1, PlaceIs, MineIn, RangeOf DEF Inside, Instance, Mine
  <2>3. \A s \in Mine(t) \cap Orderly : s < r.cur \/ s <= r.counted => roots[s] = 1
    BY <1>1, <2>2, BeforeCurrent
  <2>. QED  BY <1>1, <2>1, <2>2, <2>3, RestartKept
<1>. QED  BY <1>1, <1>4, <1>5, <1>6, <1>7

\* The block node: the block is announced, for the first time.
LEMMA BlockStep ==
  ASSUME GeyserInv, NEW t \in Threads, OnBlock(t)
  PROVE  GeyserInv' /\ Announces(th[t].cur)
<1> DEFINE r == th[t]
           p == IF RangeDone(t) THEN "returned" ELSE "loop"
           x == [r EXCEPT !.pc = p, !.counted = r.cur, !.node = 0]
           c == r.cur
<1>1. /\ Instance /\ Place(t, r) /\ Called(t, r, nodes, roots, metas) /\ Covered(t, r, roots)
      /\ At(t, "nodes") /\ r.pc = "nodes" /\ r.pc # "returned" /\ Inside(t, r) /\ Reading(r)
      /\ UNCHANGED <<faults, finished, unloaded, nodes>> /\ faults \in 0 .. MaxFaults
      /\ DOMAIN nodes = Slots /\ roots \in [Slots -> {0, 1}] /\ metas \in [Slots -> {0, 1}]
      /\ r \in Passes /\ r.node \in 1 .. 6 /\ Shape[r.node] = "block" /\ Set(t, x)
  BY PlaceIs DEF GeyserInv, Place, OnBlock, AtNode, At, Inside
<1>2. /\ c \in Mine(t) /\ c \in Slots /\ c \in Nat /\ c \in Present /\ c \in Wanted /\ r.counted < c
      /\ r.counted \in Nat /\ c <= r.last /\ r.last = Last(r) /\ c <= EpochLast(r.epoch) /\ c < End(t)
      /\ First(t) <= c /\ First(t) \in Nat /\ End(t) \in Nat /\ Mine(t) \subseteq Slots /\ Mine(t) \subseteq Nat
  <2>1. c \in Mine(t) /\ Mine(t) \subseteq Slots /\ Mine(t) \subseteq Nat /\ c \in Present /\ r.counted < c /\ c <= r.last
    BY <1>1, MineIn DEF Inside, Instance
  <2>2. r.last = Last(r) /\ Last(r) \in Nat /\ Last(r) <= EpochLast(r.epoch) /\ EpochLast(r.epoch) \in Nat /\ r.counted \in Nat
    BY <1>1, PlaceIs DEF Reading
  <2>. QED  BY <1>1, <2>1, <2>2, RangeOf DEF Wanted, Mine, Instance
<1>3. roots[c] = 0 /\ metas[c] = 0
  <2>1. roots[c] # 1 /\ roots[c] \in {0, 1} /\ metas[c] = IF "block" \in Notifiers THEN roots[c] ELSE 0
    BY <1>1, <1>2 DEF Called
  <2>. QED  BY <2>1
<1>4. /\ roots' = [roots EXCEPT ![c] = 1]
      /\ metas' = IF "block" \in Notifiers THEN [metas EXCEPT ![c] = 1] ELSE metas
  <2>1. roots' = [roots EXCEPT ![c] = roots[c] + 1]
    BY DEF OnBlock
  <2>2. metas' = IF "block" \in Notifiers THEN [metas EXCEPT ![c] = metas[c] + 1] ELSE metas
    BY DEF OnBlock
  <2>. QED  BY <1>3, <2>1, <2>2
<1>5. Announces(c)
  BY <1>2, <1>3, <1>4 DEF Announces
<1>6. nodes[c] = Calls(6)
  <2>1. r.node = 6
    BY <1>1, NodesAre
  <2>. QED  BY <1>1, <2>1 DEF Called
<1>7. /\ x \in Passes /\ x.pc = p /\ x.end = r.end /\ x.start = r.start /\ x.counted = c
      /\ x.cur = c /\ x.epoch = r.epoch /\ x.last = r.last /\ x.pos = r.pos
  <2>1. p \in {"returned", "loop"}
    OBVIOUS
  <2> HIDE DEF p
  <2>. QED  BY <1>1, <1>2, <2>1 DEF Passes
<1>8. p \in {"returned", "loop"} /\ (p = "returned" => c = End(t) - 1)
  BY <1>1, PlaceIs DEF RangeDone
<1> HIDE DEF x, p
<1>9. Start(x) = Start(r) /\ Last(x) = Last(r) /\ Blocks(x) = Blocks(r)
  BY <1>7 DEF Start, Last, Blocks
<1>10. Place(t, x)
  <2>1. Reading(x)
    <3>1. Dec(Start(r)) <= c
      BY <1>1, <1>2, PlaceIs DEF Reading
    <3>. QED  BY <1>1, <1>2, <1>7, <1>9, <3>1 DEF Reading
  <2>2. First(t) <= c + 1
    BY <1>2
  <2>. QED  BY <1>1, <1>2, <1>7, <1>8, <2>1, <2>2 DEF Place
<1>11. Called(t, x, nodes', roots', metas')
  <2>1. ASSUME NEW s \in Mine(t)
        PROVE  /\ roots'[s] \in {0, 1} /\ metas'[s] = IF "block" \in Notifiers THEN roots'[s] ELSE 0
               /\ roots'[s] = 1 => s <= c /\ nodes'[s] = Calls(6)
    <3>1. CASE s = c
      BY <1>1, <1>2, <1>3, <1>4, <1>6, <3>1
    <3>2. CASE s # c
      <4>1. roots'[s] = roots[s] /\ metas'[s] = metas[s] /\ nodes'[s] = nodes[s]
        BY <1>1, <1>2, <1>4, <3>2
      <4>2. s <= r.counted => s <= c
        BY <1>2
      <4>. QED  BY <1>1, <4>1, <4>2 DEF Called
    <3>. QED  BY <3>1, <3>2
  <2>. QED  BY <1>7, <1>8, <2>1 DEF Called
<1>12. Covered(t, x, roots')
  <2>1. ASSUME NEW s \in Mine(t) \cap Orderly, s <= c PROVE roots'[s] = 1
    <3>1. CASE s = c
      BY <1>1, <1>2, <1>4, <3>1
    <3>2. CASE s # c
      <4>1. roots[s] = 1
        BY <1>1, <1>2, <2>1, <3>2, BeforeCurrent
      <4>. QED  BY <1>1, <1>2, <1>4, <3>2, <4>1
    <3>. QED  BY <3>1, <3>2
  <2>2. ASSUME NEW s \in Mine(t) \cap Orderly, c < s, s <= r.last PROVE AheadOf(x, s)
    <3>1. AheadOf(r, s)
      BY <1>1, <1>2, <2>2 DEF Covered
    <3>. QED  BY <1>7, <1>9, <3>1 DEF AheadOf
  <2>3. \A s \in Mine(t) \cap Orderly : p = "returned" => s <= c
    BY <1>1, <1>2, <1>8, OrderlyIs
  <2>. QED  BY <1>7, <1>8, <2>1, <2>2, <2>3 DEF Covered
<1>13. /\ DOMAIN nodes' = Slots /\ roots' \in [Slots -> {0, 1}] /\ metas' \in [Slots -> {0, 1}]
       /\ \A s \in Slots : s \notin Mine(t) => nodes'[s] = nodes[s] /\ roots'[s] = roots[s] /\ metas'[s] = metas[s]
  BY <1>1, <1>2, <1>4
<1>14. faults' \in 0 .. MaxFaults /\ UNCHANGED <<finished, unloaded>>
  BY <1>1
<1>15. GeyserInv'
  BY <1>1, <1>7, <1>10, <1>11, <1>12, <1>13, <1>14, ThreadAlone
<1>. QED  BY <1>5, <1>15

\* Every step of a thread.
LEMMA ThreadStep ==
  ASSUME GeyserInv, NEW t \in Threads, Thread(t)
  PROVE  GeyserInv' /\ (UNCHANGED <<roots, metas>> \/ \E s \in Slots : Announces(s)) /\ ~finished /\ UNCHANGED <<finished, unloaded>>
<1>1. ~finished
  <2>1. finished => th[t].pc = "returned"
    BY DEF GeyserInv, Joins, Joined, At
  <2>2. th[t].pc # "returned"
    BY DEF Thread, PassEnds, SkipEpoch, OpenEpoch, OpenFails, SeekFails, ReadFails, StreamEnds, PastSlice, PassOver,
           TakeBlock, OnTransaction, OnEntry, OnRewards, NodeFails, OnBlock, EpochLeft, AtBlock, AtNode, At
  <2>. QED  BY <2>1, <2>2
<1>2. UNCHANGED <<finished, unloaded>>
  BY DEF Thread, PassEnds, SkipEpoch, OpenEpoch, OpenFails, SeekFails, ReadFails, StreamEnds, PastSlice, PassOver,
         TakeBlock, OnTransaction, OnEntry, OnRewards, NodeFails, OnBlock
<1>3. CASE PassEnds(t) \/ SkipEpoch(t) \/ OpenEpoch(t) \/ OpenFails(t) \/ SeekFails(t)
  BY <1>1, <1>2, <1>3, EpochSteps DEF calls
<1>4. CASE ReadFails(t) \/ StreamEnds(t) \/ PastSlice(t) \/ PassOver(t) \/ TakeBlock(t)
  BY <1>1, <1>2, <1>4, StreamSteps
<1>5. CASE OnTransaction(t) \/ OnEntry(t) \/ OnRewards(t) \/ NodeFails(t)
  BY <1>1, <1>2, <1>5, NodeSteps
<1>6. CASE OnBlock(t)
  <2>1. GeyserInv' /\ Announces(th[t].cur)
    BY <1>6, BlockStep
  <2>2. th[t].cur \in Slots
    BY <2>1 DEF Announces, Wanted
  <2>. QED  BY <1>1, <1>2, <2>1, <2>2
<1>. QED  BY <1>3, <1>4, <1>5, <1>6 DEF Thread

LEMMA FinishStep == ASSUME GeyserInv, Finish PROVE GeyserInv'
<1>1. /\ UNCHANGED <<th, faults, nodes, roots, metas>> /\ Joined /\ finished' = TRUE /\ unloaded' = ("block" \in Notifiers)
  BY DEF Finish, calls
<1>2. Joined'
  BY <1>1 DEF Joined, At
<1>3. Joins'
  BY <1>1, <1>2 DEF Joins
<1>4. Instance'
  BY DEF GeyserInv, Instance, RangeAssumption, ArchiveAssumption, Lowest, Top, EpochOf
<1>5. \A t \in Threads : /\ Place(t, th'[t])
                         /\ Called(t, th'[t], nodes', roots', metas')
                         /\ Covered(t, th'[t], roots')
  BY <1>1 DEF GeyserInv
<1>. QED  BY <1>1, <1>3, <1>4, <1>5 DEF GeyserInv

LEMMA GeyserStutters == ASSUME GeyserInv, UNCHANGED vars PROVE GeyserInv'
<1>1. UNCHANGED <<th, faults, finished, nodes, roots, metas, unloaded>>
  BY DEF vars, calls
<1>2. Joins'
  BY <1>1 DEF GeyserInv, Joins, Joined, At
<1>3. Instance'
  BY DEF GeyserInv, Instance, RangeAssumption, ArchiveAssumption, Lowest, Top, EpochOf
<1>4. \A t \in Threads : /\ Place(t, th'[t])
                         /\ Called(t, th'[t], nodes', roots', metas')
                         /\ Covered(t, th'[t], roots')
  BY <1>1 DEF GeyserInv
<1>. QED  BY <1>1, <1>2, <1>3, <1>4 DEF GeyserInv

\* At the start no block of the range counts as done but the genesis block.
LEMMA GeyserStarts == ASSUME Instance, Init PROVE GeyserInv
<1>1. ASSUME NEW t \in Threads
      PROVE  /\ Place(t, th[t])
             /\ Called(t, th[t], nodes, roots, metas)
             /\ Covered(t, th[t], roots)
  <2> DEFINE a == First(t)
             c == Dec(First(t))
             r == NewPass(End(t), a, c)
  <2>1. /\ a \in Nat /\ End(t) \in Nat /\ a <= End(t) /\ End(t) > 0 /\ Mine(t) \subseteq Nat
        /\ Mine(t) \subseteq Slots
    BY RangeOf, MineIn DEF Instance
  <2>2. th[t] = r
    BY DEF Init, First, End
  <2>3. c \in Nat /\ a <= c + 1 /\ c < End(t)
    BY <2>1 DEF Dec, Max2
  <2>4. \A s \in Mine(t) \cap Orderly : s < a => roots[s] = 1
    BY <2>1 DEF Mine
  <2>5. c <= Dec(a) /\ First(t) <= a /\ First(t) <= c + 1
    BY <2>1, <2>3
  <2>6. \A s \in Mine(t) : nodes[s] = <<>> /\ roots[s] = 0 /\ metas[s] = 0
    BY <2>1 DEF Init
  <2> HIDE DEF a, c
  <2>7. Place(t, r) /\ Covered(t, r, roots) /\ r.pc = "epoch" /\ r.counted = c
    BY <2>1, <2>3, <2>4, <2>5, NewPassKept
  <2>8. Called(t, r, nodes, roots, metas)
    BY <2>6, <2>7 DEF Called
  <2>. QED  BY <2>2, <2>7, <2>8
<1>2. /\ DOMAIN th = Threads /\ faults \in 0 .. MaxFaults
      /\ DOMAIN nodes = Slots /\ roots \in [Slots -> {0, 1}] /\ metas \in [Slots -> {0, 1}]
  BY DEF Init, Instance, RangeAssumption
<1>3. Joins
  BY DEF Init, Joins
<1>. QED  BY <1>1, <1>2, <1>3 DEF GeyserInv

THEOREM GeyserInvariant == Instance /\ Spec => []GeyserInv
<1>1. Instance /\ Init => GeyserInv
  BY GeyserStarts
<1>2. GeyserInv /\ [Next]_vars => GeyserInv'
  BY FinishStep, ThreadStep, GeyserStutters DEF Next
<1>. QED  BY <1>1, <1>2, PTL DEF Spec

-----------------------------------------------------------------------------
(* What it shows.                                                          *)

\* The locals of every thread stay within the range, and the counts are counts.
THEOREM GeyserTypes == Instance /\ Spec => []TypeOK
<1>1. GeyserInv => TypeOK
  <2> SUFFICES ASSUME GeyserInv PROVE TypeOK
    OBVIOUS
  <2>1. ASSUME NEW t \in Threads
        PROVE  /\ th[t].pc \in {"epoch", "loop", "nodes", "returned"}
               /\ th[t].start \in FirstSlot .. EndSlot /\ th[t].end \in FirstSlot .. EndSlot
               /\ th[t].counted \in Nat /\ th[t].cur \in Slots \cup {NoSlot}
               /\ th[t].ran \in 0 .. TxsPerBlock
    <3>1. Instance /\ Place(t, th[t])
      BY DEF GeyserInv
    <3>2. /\ FirstSlot \in Nat /\ EndSlot \in Nat /\ First(t) \in Nat /\ End(t) \in Nat
          /\ FirstSlot <= First(t) /\ First(t) <= End(t) /\ End(t) <= EndSlot
      BY <3>1, RangeOf, MineIn DEF Instance, RangeAssumption
    <3>3. /\ th[t] \in Passes /\ th[t].end = End(t) /\ First(t) <= th[t].start /\ th[t].start <= End(t)
          /\ th[t].start \in Nat
      BY <3>1, PlaceIs DEF Place
    <3>4. th[t].ran \in 0 .. TxsPerBlock
      BY <3>3 DEF Passes, TxsPerBlock
    <3>. QED  BY <3>2, <3>3, <3>4 DEF Passes
  <2>2. roots \in [Slots -> Nat] /\ metas \in [Slots -> Nat]
    BY DEF GeyserInv
  <2>3. finished \in BOOLEAN /\ unloaded \in BOOLEAN
    BY DEF GeyserInv, Joins
  <2>. QED  BY <2>1, <2>2, <2>3 DEF TypeOK, GeyserInv
<1>. QED  BY <1>1, GeyserInvariant, PTL

\* Before a block is announced all of it was notified, whatever failed before.
THEOREM BlocksComplete == Instance /\ Spec => []BlockComplete
<1>1. GeyserInv => BlockComplete
  <2> SUFFICES ASSUME GeyserInv, NEW s \in Slots, roots[s] > 0
               PROVE  nodes[s] = IF "entry" \in Notifiers THEN <<"tx", <<"entry", 0>>, "tx", <<"entry", 1>>>>
                                 ELSE <<"tx", "tx">>
    BY DEF BlockComplete
  <2>1. PICK t \in Threads : s \in Mine(t)
    BY RangesCover DEF GeyserInv, Instance
  <2>2. roots[s] = 1
    BY DEF GeyserInv
  <2>3. nodes[s] = Calls(6)
    BY <2>1, <2>2 DEF GeyserInv, Called
  <2>4. Calls(6) = IF Entries THEN <<"tx", <<"entry", 0>>, "tx", <<"entry", 1>>>> ELSE <<"tx", "tx">>
    BY DEF Calls
  <2>. QED  BY <2>3, <2>4, Zenon DEF Entries
<1>. QED  BY <1>1, GeyserInvariant, PTL

\* Blocks that are in order with the others of their epoch are announced, once each.
THEOREM OrderlyCovered == Instance /\ Spec => []OthersCovered
<1>1. GeyserInv => OthersCovered
  <2> SUFFICES ASSUME GeyserInv, finished, NEW s \in Orderly PROVE roots[s] = 1
    BY DEF OthersCovered, Orderly
  <2>1. s \in Slots
    BY DEF Orderly, Wanted
  <2>2. PICK t \in Threads : s \in Mine(t)
    BY <2>1, RangesCover DEF GeyserInv, Instance
  <2>3. th[t].pc = "returned"
    BY <2>2 DEF GeyserInv, Joins, Joined, At
  <2>. QED  BY <2>2, <2>3 DEF GeyserInv, Covered
<1>. QED  BY <1>1, GeyserInvariant, PTL

-----------------------------------------------------------------------------
(* The refinement, but for the liveness of GeyserDelivery.                 *)

\* The archive is in slot order, and the genesis block is not in the range.
InOrder == Overtaken = {} /\ 0 \notin Wanted

\* Then every block is in order with the others.
LEMMA AllOrderly == ASSUME Instance, InOrder PROVE Orderly = Wanted
<1>1. ASSUME NEW s \in Wanted, s \in Overtaking PROVE FALSE
  <2>1. s \in Present /\ s \in Slots /\ s \in Nat
    BY EpochsOfRange DEF Wanted, Instance
  <2> DEFINE e == EpochOf(s)
  <2>2. PICK i, j \in 1 .. Len(Archive[e]) : i < j /\ Archive[e][i] = s /\ Archive[e][j] < s
    BY <1>1 DEF Overtaking
  <2>3. e \in Lowest .. Top
    BY <2>1, EpochsOfRange DEF Instance
  <2>4. EpochOf(Archive[e][j]) = e /\ Archive[e][j] \in Present
    BY <2>2, <2>3, PresentIn
  <2> HIDE DEF e
  <2>5. Archive[e][j] \in Overtaken
    BY <2>2, <2>4 DEF Overtaken
  <2>. QED  BY <2>5 DEF InOrder
<1>. QED  BY <1>1 DEF InOrder, Orderly

\* A range is done when all of it was announced.
LEMMA DoneIsAll ==
  ASSUME GeyserInv, InOrder, Joined, NEW s \in Wanted
  PROVE  roots[s] = 1
<1>1. s \in Orderly /\ s \in Slots /\ Instance
  BY AllOrderly DEF GeyserInv, Wanted
<1>2. PICK t \in Threads : s \in Mine(t)
  BY <1>1, RangesCover DEF Instance
<1>3. th[t].pc = "returned"
  BY <1>2 DEF Joined, At
<1>. QED  BY <1>1, <1>2, <1>3 DEF GeyserInv, Covered

\* The metadata is delivered with the announcement.
LEMMA DeliveredIs ==
  ASSUME GeyserInv, NEW s \in Slots
  PROVE  metas[s] = IF "block" \in Notifiers THEN roots[s] ELSE 0
<1>1. PICK t \in Threads : s \in Mine(t)
  BY RangesCover DEF GeyserInv, Instance
<1>. QED  BY <1>1 DEF GeyserInv, Called

\* What a step does that is not the end, and what the end finds.
LEMMA Outcomes ==
  ASSUME GeyserInv, InOrder, [Next]_vars
  PROVE  \/ UNCHANGED <<roots, metas, finished, unloaded>>
         \/ (\E s \in Wanted : Announces(s)) /\ ~finished /\ UNCHANGED <<finished, unloaded>>
         \/ /\ ~finished /\ finished' = TRUE /\ unloaded' = ("block" \in Notifiers) /\ UNCHANGED <<roots, metas>>
            /\ \A s \in Wanted : roots[s] = 1
<1>1. CASE Finish
  BY <1>1, DoneIsAll DEF Finish, calls
<1>2. ASSUME NEW t \in Threads, Thread(t)
      PROVE  \/ UNCHANGED <<roots, metas, finished, unloaded>>
             \/ (\E s \in Wanted : Announces(s)) /\ ~finished /\ UNCHANGED <<finished, unloaded>>
  BY <1>2, ThreadStep DEF Announces
<1>3. CASE UNCHANGED vars
  BY <1>3 DEF vars, calls
<1>. QED  BY <1>1, <1>2, <1>3 DEF Next

LEMMA WantedStays == Wanted' = Wanted
  BY DEF Wanted, Slots, Present, Lowest, Top, EpochOf

\* Every slot notification announces a block of the range that was not announced before,
\* and firehose_geyser returns when all were: what GeyserDelivery allows.
THEOREM AnnouncesSafely == Instance /\ InOrder /\ Spec => Announcing!Init /\ [][Announcing!Step]_(Announcing!vars)
<1>. SUFFICES ASSUME InOrder
              PROVE  Instance /\ Spec => Announcing!Init /\ [][Announcing!Step]_(Announcing!vars)
  OBVIOUS
<1>1. Instance /\ Init => Announcing!Init
  <2> SUFFICES ASSUME Init PROVE [s \in Wanted |-> roots[s]] = [s \in Wanted |-> 0] /\ finished = FALSE
    BY DEF Announcing!Init
  <2>. QED  BY DEF Init, Wanted
<1>2. GeyserInv /\ [Next]_vars => [Announcing!Step]_(Announcing!vars)
  <2> SUFFICES ASSUME GeyserInv, [Next]_vars
               PROVE  Announcing!Step \/ UNCHANGED Announcing!vars
    OBVIOUS
  <2> DEFINE m == [s \in Wanted |-> roots[s]]
             n == [s \in Wanted |-> roots'[s]]
  <2>1. CASE UNCHANGED <<roots, metas, finished, unloaded>>
    BY <2>1, WantedStays DEF Announcing!vars
  <2>2. CASE (\E s \in Wanted : Announces(s)) /\ ~finished /\ UNCHANGED <<finished, unloaded>>
    <3>1. PICK s \in Wanted : Announces(s)
      BY <2>2
    <3>2. m[s] = 0 /\ n = [m EXCEPT ![s] = 1]
      BY <3>1 DEF Announces, Wanted, GeyserInv
    <3>. QED  BY <2>2, <3>1, <3>2, WantedStays DEF Announcing!Step, Announcing!Deliver
  <2>3. CASE /\ ~finished /\ finished' = TRUE /\ unloaded' = ("block" \in Notifiers) /\ UNCHANGED <<roots, metas>>
             /\ \A s \in Wanted : roots[s] = 1
    <3>1. m = n /\ \A s \in Wanted : m[s] = 1
      BY <2>3
    <3>. QED  BY <2>3, <3>1, WantedStays DEF Announcing!Step, Announcing!Unload
  <2>. QED  BY <2>1, <2>2, <2>3, Outcomes
<1>. QED  BY <1>1, <1>2, GeyserInvariant, PTL DEF Spec

\* So is the block metadata: every block of the range once, and "unload" after all of it.
THEOREM DeliversSafely == Instance /\ InOrder /\ Spec => Delivery!Init /\ [][Delivery!Step]_(Delivery!vars)
<1>. SUFFICES ASSUME InOrder
              PROVE  Instance /\ Spec => Delivery!Init /\ [][Delivery!Step]_(Delivery!vars)
  OBVIOUS
<1>1. Instance /\ Init => Delivery!Init
  <2> SUFFICES ASSUME Init PROVE [s \in Wanted |-> metas[s]] = [s \in Wanted |-> 0] /\ unloaded = FALSE
    BY DEF Delivery!Init
  <2>. QED  BY DEF Init, Wanted
<1>2. GeyserInv /\ [Next]_vars => [Delivery!Step]_(Delivery!vars)
  <2> SUFFICES ASSUME GeyserInv, [Next]_vars
               PROVE  Delivery!Step \/ UNCHANGED Delivery!vars
    OBVIOUS
  <2> DEFINE m == [s \in Wanted |-> metas[s]]
             n == [s \in Wanted |-> metas'[s]]
  <2>1. CASE UNCHANGED <<roots, metas, finished, unloaded>>
    BY <2>1, WantedStays DEF Delivery!vars
  <2>2. CASE (\E s \in Wanted : Announces(s)) /\ ~finished /\ UNCHANGED <<finished, unloaded>>
    <3>1. PICK s \in Wanted : Announces(s)
      BY <2>2
    <3>2. CASE "block" \in Notifiers
      <4>1. metas[s] = 0
        BY <3>1, <3>2, DeliveredIs DEF Announces, Wanted
      <4>2. m[s] = 0 /\ n = [m EXCEPT ![s] = 1]
        BY <3>1, <3>2, <4>1 DEF Announces, Wanted, GeyserInv
      <4>3. ~unloaded
        BY <2>2 DEF GeyserInv, Joins
      <4>. QED  BY <2>2, <4>2, <4>3, WantedStays DEF Delivery!Step, Delivery!Deliver
    <3>3. CASE "block" \notin Notifiers
      BY <2>2, <3>1, <3>3, WantedStays DEF Announces, Delivery!vars
    <3>. QED  BY <3>2, <3>3
  <2>3. CASE /\ ~finished /\ finished' = TRUE /\ unloaded' = ("block" \in Notifiers) /\ UNCHANGED <<roots, metas>>
             /\ \A s \in Wanted : roots[s] = 1
    <3>1. m = n /\ ~unloaded
      BY <2>3 DEF GeyserInv, Joins
    <3>2. CASE "block" \in Notifiers
      <4>1. \A s \in Wanted : m[s] = 1
        BY <2>3, <3>2, DeliveredIs DEF Wanted
      <4>. QED  BY <2>3, <3>1, <3>2, <4>1, WantedStays DEF Delivery!Step, Delivery!Unload
    <3>3. CASE "block" \notin Notifiers
      <4>1. unloaded' = FALSE /\ unloaded = FALSE
        BY <2>3, <3>3 DEF GeyserInv, Joins
      <4>. QED  BY <2>3, <4>1, WantedStays DEF Delivery!vars
    <3>. QED  BY <3>2, <3>3
  <2>. QED  BY <2>1, <2>2, <2>3, Outcomes
<1>. QED  BY <1>1, <1>2, GeyserInvariant, PTL DEF Spec
=============================================================================
