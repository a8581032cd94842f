------------------------- MODULE ThreadStreamProofs -------------------------
(***************************************************************************)
(* What ThreadStream keeps for every range, archive and sequence of        *)
(* faults.                                                                 *)
(***************************************************************************)
EXTENDS ThreadStream, FiniteSetTheorems, WellFoundedInduction, TLAPS

Instance == RangeAssumption /\ EpochAssumption /\ ModeAssumption /\ ArchiveAssumption

-----------------------------------------------------------------------------
(* Epochs.                                                                 *)

\* An epoch holds the slots from its first to its last.
LEMMA EpochHolds ==
  ASSUME EpochAssumption, NEW s \in Nat
  PROVE  /\ EpochOf(s) \in Nat
         /\ EpochFirst(EpochOf(s)) <= s /\ s <= EpochLast(EpochOf(s))
  BY Z3 DEF EpochAssumption, EpochOf, EpochFirst, EpochLast

\* A slot within an epoch's bounds is of that epoch.
LEMMA EpochIs ==
  ASSUME EpochAssumption, NEW s \in Nat, NEW e \in Nat,
         EpochFirst(e) <= s, s <= EpochLast(e)
  PROVE  EpochOf(s) = e
  BY Z3 DEF EpochAssumption, EpochOf, EpochFirst, EpochLast

\* An epoch begins behind every epoch before it.
LEMMA EpochOrder ==
  ASSUME EpochAssumption, NEW e \in Int, NEW f \in Int, e < f
  PROVE  /\ EpochFirst(e) \in Int /\ EpochLast(e) \in Int /\ EpochFirst(f) \in Int
         /\ EpochFirst(e) <= EpochLast(e)
         /\ EpochLast(e) < EpochFirst(f)
         /\ EpochFirst(e + 1) = EpochLast(e) + 1
  BY Z3 DEF EpochAssumption, EpochFirst, EpochLast

\* Epochs follow the order of their slots.
LEMMA EpochMonotone ==
  ASSUME EpochAssumption, NEW s \in Nat, NEW t \in Nat, s <= t
  PROVE  EpochOf(s) <= EpochOf(t)
  BY Z3 DEF EpochAssumption, EpochOf

LEMMA Epochs0 ==
  ASSUME RangeAssumption, EpochAssumption
  PROVE  /\ Lowest \in Nat /\ Top \in Nat /\ Lowest <= Top
         /\ \A s \in Slots : EpochOf(s) \in Lowest .. Top
<1>. /\ FirstSlot \in Nat /\ EndSlot - 1 \in Nat /\ FirstSlot <= EndSlot - 1
  BY DEF RangeAssumption
<1>1. \A s \in Slots : s \in Nat /\ FirstSlot <= s /\ s <= EndSlot - 1
  BY DEF Slots
<1>. QED  BY <1>1, EpochHolds, EpochMonotone DEF Lowest, Top

-----------------------------------------------------------------------------
(* Types.                                                                  *)

Counts == [slots : Nat, blocks : Nat, txs : Nat]
Mine == [slots : Nat, blocks : Nat, skipped : Nat, current : Slots]

\* A last counted slot lies within the range or right in front of it.
Counted == {c \in Nat : FirstSlot <= c + 1 /\ c < EndSlot}

\* Where a pass may start again.
Resume == FirstSlot .. EndSlot

PassType ==
  [todo : Seq(Lowest .. Top), epoch : Nat, last : Int, pos : Nat, emitted : Nat,
   cur : Slots \cup {NoSlot},
   node : {"none", "tx", "entry", "rewards", "block"},
   hash : Int, prev : Int, snap : {<<>>} \cup (Counted \X Mine)]

\* Within an epoch: the epoch and the part of it that is streamed, and at the
\* block node a snapshot to go back to.
Streaming ==
  pc \in {"loop", "node"} =>
    /\ pass.epoch \in Lowest .. Top
    /\ pass.last = LocalLast(pass.epoch)
    /\ pass.todo # <<>> /\ pass.epoch = Head(pass.todo)
    /\ 1 <= pass.pos

AtABlock ==
  pc = "node" =>
    /\ pass.cur \in Slots
    /\ pass.cur <= pass.last
    /\ pass.node = "block" => pass.snap \in Counted \X Mine

TypeInv ==
  /\ pc \in {"boundary", "epoch", "loop", "node", "done", "stopped"}
  /\ start \in Resume
  /\ counted \in Counted
  /\ highest \in -1 .. Top
  /\ partial \in Resume \cup {NoSlot}
  /\ pass \in PassType
  /\ pending \subseteq Nat
  /\ overall \in Counts /\ since \in Counts /\ pulsed \in Counts
  /\ mine \in Mine
  /\ faults \in 0 .. MaxFaults
  /\ blocks \subseteq Slots /\ skips \subseteq Slots /\ processed \subseteq Slots
  /\ called \in Slots \cup {NoSlot}
  /\ Streaming /\ AtABlock

StreamInv == Instance /\ TypeInv

LEMMA PlusCounts ==
  ASSUME NEW a \in Counts, NEW b \in Counts
  PROVE  /\ Plus(a, b) \in Counts
         /\ Plus(a, b).slots = a.slots + b.slots
         /\ Plus(a, b).blocks = a.blocks + b.blocks
         /\ Plus(a, b).txs = a.txs + b.txs
  BY DEF Plus, Counts

LEMMA SomeCounts ==
  /\ NoCount = [slots |-> 0, blocks |-> 0, txs |-> 0]
  /\ OneSlot = [slots |-> 1, blocks |-> 0, txs |-> 0]
  /\ OneBlock = [slots |-> 1, blocks |-> 1, txs |-> 0]
  /\ OneTx = [slots |-> 0, blocks |-> 0, txs |-> 1]
  /\ NoCount \in Counts /\ OneSlot \in Counts /\ OneBlock \in Counts /\ OneTx \in Counts
<1>1. NoCount = [slots |-> 0, blocks |-> 0, txs |-> 0]
  BY DEF NoCount
<1>2. OneSlot = [slots |-> 1, blocks |-> 0, txs |-> 0]
  BY DEF OneSlot, NoCount
<1>3. OneBlock = [slots |-> 1, blocks |-> 1, txs |-> 0]
  <2>1. OneBlock \in Counts /\ [slots |-> 1, blocks |-> 1, txs |-> 0] \in Counts
    BY <1>1 DEF OneBlock, Counts
  <2>2. OneBlock.slots = 1 /\ OneBlock.blocks = 1 /\ OneBlock.txs = 0
    BY <1>1 DEF OneBlock
  <2>. QED  BY <2>1, <2>2 DEF Counts
<1>4. OneTx = [slots |-> 0, blocks |-> 0, txs |-> 1]
  BY DEF OneTx, NoCount
<1>. QED  BY <1>1, <1>2, <1>3, <1>4 DEF Counts

LEMMA PlusCancels ==
  ASSUME NEW a \in Counts, NEW b \in Counts
  PROVE  Minus(Plus(a, b), b) = a
  BY DEF Plus, Minus, Counts

\* A restart resumes within the range.
LEMMA RestartTypes ==
  ASSUME StreamInv, NEW slot \in Resume, NEW c \in Counted, NEW h \in -1 .. Top,
         Restart(slot, c, h)
  PROVE  /\ pc' = "boundary" /\ start' \in Resume /\ counted' \in Counted
         /\ highest' \in -1 .. Top /\ partial' \in Resume \cup {NoSlot}
         /\ pass' \in PassType /\ pending' \subseteq Nat
<1>1. ResumeSlot(slot, c) \in Resume
  BY DEF ResumeSlot, Resume, Counted, StreamInv, Instance, RangeAssumption
<1>2. NoPass \in PassType
  BY DEF NoPass, PassType, NoSlot
<1>3. Top \in Nat /\ EpochOf(c) \in Nat
  BY Epochs0, EpochHolds DEF StreamInv, Instance, Counted
<1>4. ReverseResume(slot, c, h).highest \in -1 .. Top
  BY <1>3 DEF ReverseResume
<1>5. ReverseResume(slot, c, h).partial \in Resume \cup {NoSlot}
  BY <1>1 DEF ReverseResume
<1>. QED  BY <1>1, <1>2, <1>4, <1>5 DEF Restart, StreamInv, TypeInv

-----------------------------------------------------------------------------
(* The archive and its index.                                              *)

LEMMA LessRelation == IsWellFoundedOn({p \in Nat \X Nat : p[1] < p[2]}, Nat)
  BY NatLessThanWellFounded DEF OpToRel

\* A set of numbers that is not empty has a least one.
LEMMA Smallest ==
  ASSUME NEW T \in SUBSET Nat, T # {}
  PROVE  \E x \in T : \A y \in T : x <= y
<1> DEFINE R == {p \in Nat \X Nat : p[1] < p[2]}
<1>1. PICK x \in T : \A y \in T : ~(<<y, x>> \in R)
  <2> HIDE DEF R
  <2> QED BY LessRelation, WFMin DEF R
<1>2. ASSUME NEW y \in T PROVE x <= y
  <2>1. y \in Nat /\ x \in Nat /\ <<y, x>> \notin R
    BY <1>1
  <2>2. ~(y < x)
    BY <2>1
  <2> QED BY <2>1, <2>2
<1> QED BY <1>2

\* The present slots of an epoch are those of its part of the archive.
LEMMA PresentIn ==
  ASSUME Instance, NEW e \in Lowest .. Top
  PROVE  /\ Archive[e] \in Seq(Nat) /\ Len(Archive[e]) \in Nat
         /\ \A i \in 1 .. Len(Archive[e]) :
              Archive[e][i] \in Nat /\ EpochOf(Archive[e][i]) = e /\ Archive[e][i] \in Present
         /\ \A s \in Present :
              EpochOf(s) = e => \E i \in 1 .. Len(Archive[e]) : Archive[e][i] = s
<1>1. \A f \in Lowest .. Top : Archive[f] \in Seq({s \in Nat : EpochOf(s) = f})
  BY DEF Instance, ArchiveAssumption
<1>2. \A f \in Lowest .. Top : \A i \in 1 .. Len(Archive[f]) :
        Archive[f][i] \in Nat /\ EpochOf(Archive[f][i]) = f
  <2>1. ASSUME NEW f \in Lowest .. Top, NEW i \in 1 .. Len(Archive[f])
        PROVE  Archive[f][i] \in {s \in Nat : EpochOf(s) = f}
    <3> DEFINE T == {s \in Nat : EpochOf(s) = f}
    <3>1. Archive[f] \in Seq(T)
      BY <1>1
    <3>2. Archive[f][i] \in T
      <4> HIDE DEF T
      <4>. QED  BY <2>1, <3>1
    <3>. QED  BY <3>2
  <2>. QED  BY <2>1
<1>3. Archive[e] \in Seq(Nat) /\ Len(Archive[e]) \in Nat
  <2> DEFINE T == {s \in Nat : EpochOf(s) = e}
  <2>1. Archive[e] \in Seq(T) /\ T \subseteq Nat
    BY <1>1
  <2> HIDE DEF T
  <2>2. Len(Archive[e]) \in Nat /\ DOMAIN Archive[e] = 1 .. Len(Archive[e])
        /\ Archive[e] \in [1 .. Len(Archive[e]) -> T]
    BY <2>1
  <2>3. Archive[e] \in [1 .. Len(Archive[e]) -> Nat]
    BY <2>1, <2>2
  <2>. QED  BY <2>2, <2>3
<1>4. \A i \in 1 .. Len(Archive[e]) : Archive[e][i] \in Present
  BY DEF Present
<1>5. ASSUME NEW s \in Present, EpochOf(s) = e
      PROVE  \E i \in 1 .. Len(Archive[e]) : Archive[e][i] = s
  <2>1. PICK f \in Lowest .. Top : s \in {Archive[f][i] : i \in 1 .. Len(Archive[f])}
    BY DEF Present
  <2>2. f = e
    BY <2>1, <1>2, <1>5
  <2>. QED  BY <2>1, <2>2
<1>. QED  BY <1>2, <1>3, <1>4, <1>5

LEMMA PresentNat == ASSUME Instance PROVE Present \subseteq Nat
<1>1. SUFFICES ASSUME NEW s \in Present PROVE s \in Nat
  OBVIOUS
<1>2. PICK f \in Lowest .. Top : s \in {Archive[f][i] : i \in 1 .. Len(Archive[f])}
  BY DEF Present
<1>. QED  BY <1>2, PresentIn

\* The index names the first present slot of an interval, or none.
LEMMA IndexNames ==
  ASSUME Instance, NEW after \in Int, NEW last \in Int
  PROVE  /\ NextPresent(after, last) = NoSlot => \A s \in Present : ~(after < s /\ s <= last)
         /\ NextPresent(after, last) # NoSlot =>
              /\ NextPresent(after, last) \in Present
              /\ after < NextPresent(after, last) /\ NextPresent(after, last) <= last
              /\ \A s \in Present : after < s /\ s <= last => NextPresent(after, last) <= s
<1> DEFINE S == {s \in Present : after < s /\ s <= last}
<1>1. S \subseteq Nat
  BY PresentNat
<1>2. CASE S = {}
  <2>1. NextPresent(after, last) = NoSlot
    BY <1>2 DEF NextPresent
  <2>. QED  BY <1>2, <2>1
<1>3. CASE S # {}
  <2>1. \E s \in S : \A r \in S : s <= r
    BY <1>1, <1>3, Smallest
  <2>2. NextPresent(after, last) = CHOOSE s \in S : \A r \in S : s <= r
    BY <1>3 DEF NextPresent
  <2>3. NextPresent(after, last) \in S /\ \A r \in S : NextPresent(after, last) <= r
    BY <2>1, <2>2
  <2>4. NextPresent(after, last) # NoSlot
    BY <2>3, <1>1 DEF NoSlot
  <2>. QED  BY <2>3, <2>4
<1>. QED  BY <1>2, <1>3

\* A seek within an epoch ends at the first block from the slot on, or at the end.
LEMMA SeekStands ==
  ASSUME Instance, NEW e \in Lowest .. Top, NEW s \in Nat,
         EpochFirst(e) <= s, s <= EpochLast(e)
  PROVE  /\ PositionOf(e, s) \in Nat /\ 1 <= PositionOf(e, s)
         /\ \/ s = EpochFirst(e) /\ PositionOf(e, s) = 1
            \/ /\ PositionOf(e, s) = Len(Archive[e]) + 1
               /\ \A r \in Present : ~(s <= r /\ r <= EpochLast(e))
            \/ /\ PositionOf(e, s) \in 1 .. Len(Archive[e])
               /\ Archive[e][PositionOf(e, s)] >= s
               /\ \A r \in Present : s <= r /\ r <= EpochLast(e) => Archive[e][PositionOf(e, s)] <= r
<1> DEFINE b == NextPresent(s - 1, EpochLast(e))
<1>0. /\ Len(Archive[e]) \in Nat /\ Present \subseteq Nat /\ s - 1 \in Int /\ EpochLast(e) \in Int
      /\ EpochAssumption /\ e \in Nat /\ EpochFirst(e) \in Nat
  BY PresentIn, PresentNat, Epochs0 DEF Instance, EpochLast, EpochFirst, EpochAssumption
<1>b. \A r \in Present : s - 1 < r <=> s <= r
  BY <1>0
<1>1. CASE s = EpochFirst(e)
  BY <1>1 DEF PositionOf
<1>2. CASE s # EpochFirst(e) /\ b = NoSlot
  <2>1. PositionOf(e, s) = Len(Archive[e]) + 1
    BY <1>2 DEF PositionOf
  <2>2. \A r \in Present : ~(s - 1 < r /\ r <= EpochLast(e))
    BY <1>0, <1>2, IndexNames
  <2>. QED  BY <1>0, <1>b, <2>1, <2>2
<1>3. CASE s # EpochFirst(e) /\ b # NoSlot
  <2>1. /\ b \in Present /\ s - 1 < b /\ b <= EpochLast(e)
        /\ \A r \in Present : s - 1 < r /\ r <= EpochLast(e) => b <= r
    BY <1>0, <1>3, IndexNames
  <2>2. PositionOf(e, s) = CHOOSE i \in 1 .. Len(Archive[e]) : Archive[e][i] = b
    BY <1>3 DEF PositionOf
  <2> HIDE DEF b
  <2>3. b \in Nat /\ EpochFirst(e) <= b /\ s <= b
    BY <1>0, <1>b, <2>1
  <2>4. EpochOf(b) = e
    BY <1>0, <2>1, <2>3, EpochIs
  <2>5. \E i \in 1 .. Len(Archive[e]) : Archive[e][i] = b
    BY <2>1, <2>4, PresentIn
  <2>6. PositionOf(e, s) \in 1 .. Len(Archive[e]) /\ Archive[e][PositionOf(e, s)] = b
    BY <2>2, <2>5
  <2>7. \A r \in Present : s <= r /\ r <= EpochLast(e) => b <= r
    BY <1>b, <2>1
  <2>. QED  BY <1>0, <2>3, <2>6, <2>7
<1>. QED  BY <1>1, <1>2, <1>3

-----------------------------------------------------------------------------
(* Every step keeps the types.                                             *)

\* What a pass streams of an epoch lies in the epoch and in the range.
LEMMA Window ==
  ASSUME StreamInv, NEW e \in Lowest .. Top
  PROVE  /\ LocalStart(e) \in Nat /\ LocalLast(e) \in Int
         /\ FirstSlot <= LocalStart(e) /\ EpochFirst(e) <= LocalStart(e)
         /\ LocalLast(e) <= EpochLast(e) /\ LocalLast(e) < EndSlot
         /\ Overlaps(e) => /\ LocalStart(e) \in Slots /\ EpochOf(LocalStart(e)) = e
                           /\ Dec(LocalStart(e)) \in Counted
<1>1. /\ FirstSlot \in Nat /\ EndSlot \in Nat /\ FirstSlot < EndSlot /\ e \in Nat
      /\ EpochAssumption
  BY Epochs0 DEF StreamInv, Instance, RangeAssumption
<1>2. EpochFirst(e) \in Nat /\ EpochLast(e) \in Nat
  BY <1>1 DEF EpochFirst, EpochLast, EpochAssumption
<1>3. start \in Nat /\ FirstSlot <= start
  BY <1>1 DEF StreamInv, TypeInv, Resume
<1>4. partial # NoSlot => partial \in Nat /\ FirstSlot <= partial
  BY <1>1 DEF StreamInv, TypeInv, Resume
<1>5. LocalStart(e) \in Nat /\ FirstSlot <= LocalStart(e) /\ EpochFirst(e) <= LocalStart(e)
  BY <1>1, <1>2, <1>3, <1>4 DEF LocalStart, Max2
<1>6. /\ LocalLast(e) \in Int /\ LocalLast(e) <= EpochLast(e) /\ LocalLast(e) < EndSlot
      /\ LocalLast(e) <= EndSlot - 1
  BY <1>1, <1>2 DEF LocalLast, Min2
<1>7. ASSUME Overlaps(e)
      PROVE  /\ LocalStart(e) \in Slots /\ EpochOf(LocalStart(e)) = e
             /\ Dec(LocalStart(e)) \in Counted
  <2>1. LocalStart(e) <= EpochLast(e) /\ LocalStart(e) <= EndSlot - 1
    BY <1>1, <1>2, <1>5, <1>6, <1>7 DEF Overlaps
  <2>2. EpochOf(LocalStart(e)) = e
    BY <1>1, <1>5, <2>1, EpochIs
  <2>3. LocalStart(e) \in Slots
    BY <1>1, <1>5, <2>1 DEF Slots
  <2>4. Dec(LocalStart(e)) \in Counted
    BY <1>1, <1>5, <2>1 DEF Dec, Max2, Counted
  <2>. QED  BY <2>2, <2>3, <2>4
<1>. QED  BY <1>5, <1>6, <1>7

\* The block ahead is one of the epoch's.
LEMMA AheadIs ==
  ASSUME StreamInv, pc \in {"loop", "node"}, pass.pos <= Len(Stream)
  PROVE  /\ Ahead \in Present /\ Ahead \in Nat /\ EpochOf(Ahead) = pass.epoch
         /\ pass.pos \in 1 .. Len(Archive[pass.epoch])
<1>1. pass.epoch \in Lowest .. Top /\ 1 <= pass.pos /\ pass.pos \in Nat
  BY DEF StreamInv, TypeInv, Streaming, PassType
<1>2. pass.pos \in 1 .. Len(Archive[pass.epoch])
  BY <1>1, PresentIn DEF StreamInv, Stream
<1>. QED  BY <1>1, <1>2, PresentIn DEF StreamInv, Ahead, Stream

\* A slot after the last counted one and in front of a slot of the range is in it.
LEMMA GapIs ==
  ASSUME StreamInv, InGap
  PROVE  Gap \in Slots /\ Gap \in Counted /\ Gap \in Nat /\ Gap < pass.cur
  BY DEF StreamInv, TypeInv, InGap, AtNode, AtABlock, Gap, Counted, Slots, Instance, RangeAssumption

LEMMA InitTypes == Instance /\ Init => StreamInv
<1> SUFFICES ASSUME Instance, Init PROVE TypeInv
  BY DEF StreamInv
<1>1. /\ FirstSlot \in Nat /\ EndSlot \in Nat /\ FirstSlot < EndSlot /\ Top \in Nat /\ MaxFaults \in Nat
  BY Epochs0 DEF Instance, RangeAssumption, ModeAssumption
<1>2. NoPass \in PassType
  BY DEF NoPass, PassType, NoSlot
<1>3. mine \in Mine
  BY <1>1 DEF Init, Mine, Slots
<1>4. Dec(FirstSlot) \in Counted
  BY <1>1 DEF Dec, Max2, Counted
<1>. QED  BY <1>1, <1>2, <1>3, <1>4, SomeCounts DEF Init, TypeInv, Resume, NoSlot, Streaming, AtABlock

\* A pass starts in an epoch of the range, or right behind it.
LEMMA StartFits ==
  ASSUME StreamInv
  PROVE  EpochOf(start) \in Nat /\ Lowest <= EpochOf(start) /\ EpochOf(start) <= Top + 1
<1>1. /\ FirstSlot \in Nat /\ EndSlot \in Nat /\ EndSlot - 1 \in Nat /\ EpochAssumption /\ Instance
      /\ start \in Nat /\ FirstSlot <= start /\ start <= EndSlot
  BY DEF StreamInv, Instance, RangeAssumption, TypeInv, Resume
<1>2. EpochOf(start) \in Nat /\ EpochOf(EndSlot) \in Nat /\ Lowest <= EpochOf(start)
      /\ EpochOf(start) <= EpochOf(EndSlot) /\ Top \in Nat
  BY <1>1, EpochHolds, EpochMonotone DEF Lowest, Top
<1>3. EpochOf(EndSlot) <= EpochOf(EndSlot - 1) + 1
  BY <1>1, Z3 DEF EpochAssumption, EpochOf
<1>. QED  BY <1>2, <1>3 DEF Top

LEMMA TodoTypes ==
  ASSUME Instance, NEW lo \in Int, NEW hi \in Int, lo <= hi + 1
  PROVE  /\ Lowest <= lo /\ hi <= Top => Ascending(lo, hi) \in Seq(Lowest .. Top)
         /\ Lowest <= lo /\ hi <= Top => Descending(hi, lo) \in Seq(Lowest .. Top)
         /\ Len(Ascending(lo, hi)) = hi - lo + 1 /\ Len(Descending(hi, lo)) = hi - lo + 1
<1> DEFINE n == hi - lo + 1
<1>1. n \in Nat /\ Lowest \in Nat /\ Top \in Nat
  BY Epochs0 DEF Instance
<1>2. ASSUME Lowest <= lo, hi <= Top
      PROVE  \A i \in 1 .. n : lo + (i - 1) \in Lowest .. Top /\ hi - (i - 1) \in Lowest .. Top
  BY <1>1, <1>2
<1>. QED  BY <1>1, <1>2 DEF Ascending, Descending

LEMMA TailTypes ==
  ASSUME NEW p \in PassType, p.todo # <<>>
  PROVE  [p EXCEPT !.todo = Tail(p.todo)] \in PassType /\ Tail(p.todo) \in Seq(Lowest .. Top)
<1>1. p.todo \in Seq(Lowest .. Top)
  BY DEF PassType
<1>2. Tail(p.todo) \in Seq(Lowest .. Top)
  <2> DEFINE T == Lowest .. Top  q == p.todo
  <2>1. q \in Seq(T) /\ q # <<>>
    BY <1>1
  <2> HIDE DEF T, q
  <2>2. Tail(q) \in Seq(T)
    BY <2>1
  <2>. QED  BY <2>2 DEF T, q
<1>. QED  BY <1>2 DEF PassType

LEMMA CountIsKept ==
  ASSUME StreamInv
  PROVE  /\ FirstSlot \in Nat /\ EndSlot \in Nat /\ counted \in Nat /\ counted + 1 \in Resume
         /\ AtCurrent \in Resume /\ AfterCurrent \in Resume /\ mine.current \in Resume
<1>1. FirstSlot \in Nat /\ EndSlot \in Nat
  BY DEF StreamInv, Instance, RangeAssumption
<1>2. counted \in Nat /\ counted + 1 \in Resume
  BY <1>1 DEF StreamInv, TypeInv, Counted, Resume
<1>3. start \in Resume /\ pass.cur \in Slots \cup {NoSlot} /\ mine.current \in Slots
  BY DEF StreamInv, TypeInv, PassType, Mine
<1>4. \A s \in Slots : s \in Resume /\ s + 1 \in Resume
  BY <1>1 DEF Slots, Resume
<1>. QED  BY <1>1, <1>2, <1>3, <1>4 DEF AtCurrent, AfterCurrent

\* An error restarts within the types.
LEMMA RestartKeeps ==
  ASSUME StreamInv, NEW slot \in Resume, NEW c \in Counted, NEW h \in -1 .. Top,
         Restart(slot, c, h),
         overall' \in Counts, since' \in Counts, pulsed' \in Counts, mine' \in Mine,
         faults' \in 0 .. MaxFaults,
         blocks' \subseteq Slots, skips' \subseteq Slots, processed' \subseteq Slots,
         called' \in Slots \cup {NoSlot}
  PROVE  TypeInv'
<1>1. pc' = "boundary" /\ start' \in Resume /\ counted' \in Counted
      /\ highest' \in -1 .. Top /\ partial' \in Resume \cup {NoSlot}
      /\ pass' \in PassType /\ pending' \subseteq Nat
  BY RestartTypes
<1>2. Streaming' /\ AtABlock'
  BY <1>1 DEF Streaming, AtABlock
<1>. QED  BY <1>1, <1>2 DEF TypeInv

LEMMA FaultTypes ==
  ASSUME StreamInv, NEW k, Fault(k) PROVE faults' \in 0 .. MaxFaults
  BY DEF StreamInv, TypeInv, Instance, ModeAssumption, Fault

LEMMA EpochStepTypes ==
  ASSUME StreamInv, Epochs PROVE TypeInv'
<1>0. /\ FirstSlot \in Nat /\ EndSlot \in Nat /\ Lowest \in Nat /\ Top \in Nat
      /\ EpochAssumption
  BY Epochs0 DEF StreamInv, Instance, RangeAssumption
<1>1. CASE StartPass
  <2>1. CASE Reverse /\ highest < Lowest
    BY <1>1, <2>1 DEF StartPass, StreamInv, TypeInv, Streaming, AtABlock, control, stats, seen
  <2>2. CASE ~(Reverse /\ highest < Lowest)
    <3> DEFINE todo == IF Reverse THEN Descending(highest, Lowest) ELSE Ascending(EpochOf(start), Top)
    <3>1. todo \in Seq(Lowest .. Top)
      <4>1. start \in Nat /\ FirstSlot <= start /\ start <= EndSlot /\ highest \in -1 .. Top
        BY <1>0 DEF StreamInv, TypeInv, Resume
      <4>2. EpochOf(start) \in Nat /\ Lowest <= EpochOf(start)
        BY StartFits
      <4>3. EpochOf(start) <= Top + 1
        BY StartFits
      <4>4. Instance /\ Top \in Int /\ EpochOf(start) \in Int /\ Lowest \in Int /\ highest \in Int
        BY <1>0, <4>1, <4>2 DEF StreamInv
      <4>5. CASE Reverse
        <5>1. Lowest <= highest + 1 /\ highest <= Top
          BY <1>0, <2>2, <4>1, <4>5
        <5>. QED  BY <4>4, <4>5, <5>1, TodoTypes
      <4>6. CASE ~Reverse
        <5>1. EpochOf(start) <= Top + 1 /\ Lowest <= EpochOf(start) /\ Top <= Top
          BY <1>0, <4>2, <4>3
        <5>2. Ascending(EpochOf(start), Top) \in Seq(Lowest .. Top)
          BY <4>4, <5>1, TodoTypes
        <5>. QED  BY <4>6, <5>2
      <4>. QED  BY <4>5, <4>6
    <3>2. /\ pc' = "epoch"
          /\ pass' = [NoPass EXCEPT !.todo = todo, !.emitted = Dec(FirstSlot)]
      BY <1>1, <2>2 DEF StartPass
    <3>3. pass' \in PassType
      <4>1. NoPass \in PassType /\ Dec(FirstSlot) \in Nat
        BY <1>0 DEF NoPass, PassType, NoSlot, Dec, Max2
      <4>. QED  BY <3>1, <3>2, <4>1 DEF PassType
    <3>. QED  BY <1>1, <3>2, <3>3 DEF StartPass, StreamInv, TypeInv, Streaming, AtABlock, control, stats, seen
  <2>. QED  BY <2>1, <2>2
<1>2. CASE SkipEpoch
  <2>1. pass \in PassType /\ pass.todo # <<>> /\ pass' = [pass EXCEPT !.todo = Tail(pass.todo)]
    BY <1>2 DEF SkipEpoch, AtEpoch, StreamInv, TypeInv
  <2>2. pass' \in PassType
    BY <2>1, TailTypes
  <2>. QED  BY <1>2, <2>2 DEF SkipEpoch, AtEpoch, StreamInv, TypeInv, Streaming, AtABlock, control, stats, seen
<1>3. CASE OpenEpoch
  <2> DEFINE e == Head(pass.todo)  s == LocalStart(e)
  <2>1. pc = "epoch" /\ pass.todo # <<>> /\ Overlaps(e) /\ pass \in PassType
    BY <1>3 DEF OpenEpoch, AtEpoch, StreamInv, TypeInv
  <2>2. e \in Lowest .. Top /\ e \in Nat
    BY <1>0, <2>1 DEF PassType
  <2>3. /\ s \in Slots /\ s \in Nat /\ EpochFirst(e) <= s /\ s <= EpochLast(e) /\ Dec(s) \in Counted /\ Dec(s) \in Nat
    BY <1>0, <2>1, <2>2, Window, EpochHolds DEF Counted
  <2>4. PositionOf(e, s) \in Nat /\ 1 <= PositionOf(e, s)
    BY <2>2, <2>3, SeekStands DEF StreamInv
  <2>5. EmittedAtOpen(s) \in Nat
    BY <2>1, <2>3 DEF EmittedAtOpen, PassType
  <2>6. LocalLast(e) \in Int
    BY <2>2, Window
  <2> HIDE DEF e, s
  <2>7. /\ pc' = "loop" /\ counted' = Dec(s) /\ mine' = [mine EXCEPT !.current = s]
        /\ pass' = [pass EXCEPT !.epoch = e, !.last = LocalLast(e), !.pos = PositionOf(e, s),
                                !.cur = NoSlot, !.emitted = EmittedAtOpen(s),
                                !.hash = NoSlot, !.prev = NoSlot]
        /\ UNCHANGED <<start, highest, partial, pending, overall, since, pulsed, faults, blocks, skips, processed, called>>
    BY <1>3 DEF OpenEpoch, control, seen, e, s
  <2>8. pass' \in PassType
    <3>1. /\ pass.todo \in Seq(Lowest .. Top) /\ pass.node \in {"none", "tx", "entry", "rewards", "block"}
          /\ pass.snap \in {<<>>} \cup (Counted \X Mine)
      BY <2>1 DEF PassType
    <3>2. pass' = [todo |-> pass.todo, epoch |-> e, last |-> LocalLast(e), pos |-> PositionOf(e, s),
                   emitted |-> EmittedAtOpen(s), cur |-> NoSlot, node |-> pass.node,
                   hash |-> NoSlot, prev |-> NoSlot, snap |-> pass.snap]
      BY <2>1, <2>7 DEF PassType
    <3>. QED  BY <2>2, <2>4, <2>5, <2>6, <3>1, <3>2 DEF PassType, NoSlot
  <2>9. /\ pass'.epoch = e /\ pass'.last = LocalLast(e) /\ pass'.pos = PositionOf(e, s)
        /\ pass'.todo = pass.todo
    BY <2>1, <2>7 DEF PassType
  <2>10. Streaming' /\ AtABlock'
    BY <2>1, <2>2, <2>4, <2>7, <2>9 DEF Streaming, AtABlock, LocalLast, e
  <2>11. mine' \in Mine
    BY <2>3, <2>7 DEF StreamInv, TypeInv, Mine
  <2>. QED  BY <2>3, <2>7, <2>8, <2>10, <2>11 DEF StreamInv, TypeInv
<1>4. CASE OpenFails
  <2>1. Restart(AtCurrent, counted, highest) /\ faults' \in 0 .. MaxFaults
    BY <1>4, FaultTypes DEF OpenFails
  <2>2. AtCurrent \in Resume
    BY CountIsKept
  <2>. QED  BY <1>4, <2>1, <2>2, RestartKeeps DEF OpenFails, StreamInv, TypeInv, stats, seen
<1>5. CASE SeekFails
  <2> DEFINE e == Head(pass.todo)  s == LocalStart(e)
  <2>1. pc = "epoch" /\ pass.todo # <<>> /\ Overlaps(e) /\ pass \in PassType /\ EpochFirst(e) < s
    BY <1>5 DEF SeekFails, AtEpoch, StreamInv, TypeInv
  <2>2. e \in Lowest .. Top /\ EpochFirst(e) \in Nat
    BY <1>0, <2>1 DEF PassType, EpochFirst, EpochAssumption
  <2>3. s \in Slots /\ s \in Nat
    BY <1>0, <2>1, <2>2, Window
  <2>4. s \in Resume /\ s - 1 \in Counted
    BY <1>0, <2>1, <2>2, <2>3 DEF Resume, Slots, Counted
  <2> HIDE DEF s
  <2>5. Restart(s, s - 1, highest) /\ mine' = [mine EXCEPT !.current = s]
    BY <1>5 DEF SeekFails, s
  <2>6. mine' \in Mine
    BY <2>3, <2>5 DEF StreamInv, TypeInv, Mine
  <2>7. faults' \in 0 .. MaxFaults
    BY <1>5, FaultTypes DEF SeekFails
  <2>. QED  BY <1>5, <2>4, <2>5, <2>6, <2>7, RestartKeeps DEF SeekFails, StreamInv, TypeInv, seen
<1>6. CASE PassEnds
  BY <1>6 DEF PassEnds, StreamInv, TypeInv, Streaming, AtABlock, control, stats, seen
<1>. QED  BY <1>1, <1>2, <1>3, <1>4, <1>5, <1>6 DEF Epochs

LEMMA EpochDoneType ==
  ASSUME StreamInv, pc \in {"loop", "node"} PROVE EpochDone \in -1 .. Top
  BY Epochs0 DEF StreamInv, TypeInv, Streaming, Instance, EpochDone

LEMMA BatchStepTypes ==
  ASSUME StreamInv, Batches PROVE TypeInv'
<1>0. /\ FirstSlot \in Nat /\ EndSlot \in Nat /\ Lowest \in Nat /\ Top \in Nat
  BY Epochs0 DEF StreamInv, Instance, RangeAssumption
<1>1. CASE BeforeRange
  <2>1. pass \in PassType /\ pass' = [pass EXCEPT !.pos = @ + 1]
    BY <1>1 DEF BeforeRange, StreamInv, TypeInv
  <2>2. /\ pass' \in PassType /\ pass'.epoch = pass.epoch /\ pass'.last = pass.last
        /\ pass'.todo = pass.todo /\ pass'.pos = pass.pos + 1 /\ pass.pos \in Nat
    BY <2>1 DEF PassType
  <2>3. pc = "loop" /\ pc' = pc
    BY <1>1 DEF BeforeRange, AtBlock
  <2>. QED  BY <1>1, <2>2, <2>3 DEF BeforeRange, StreamInv, TypeInv, Streaming, AtABlock, LocalLast, control, stats, seen
<1>2. CASE TakeBlock
  <2>1. /\ pass \in PassType /\ pass' = [pass EXCEPT !.cur = Ahead, !.pos = @ + 1, !.node = "tx"]
        /\ pc = "loop" /\ pc' = "node" /\ start <= Ahead /\ Ahead <= pass.last
    BY <1>2 DEF TakeBlock, AtBlock, StreamInv, TypeInv
  <2>2. Ahead \in Slots
    <3>1. Ahead \in Nat
      BY <1>2, <2>1, AheadIs DEF TakeBlock, AtBlock
    <3>2. pass.last < EndSlot /\ pass.last \in Int
      BY <2>1, Window DEF StreamInv, TypeInv, Streaming
    <3>3. start \in Nat /\ FirstSlot <= start
      BY <1>0 DEF StreamInv, TypeInv, Resume
    <3>. QED  BY <1>0, <2>1, <3>1, <3>2, <3>3 DEF Slots
  <2>3. /\ pass' \in PassType /\ pass'.epoch = pass.epoch /\ pass'.last = pass.last
        /\ pass'.todo = pass.todo /\ pass'.pos = pass.pos + 1 /\ pass.pos \in Nat
        /\ pass'.cur = Ahead /\ pass'.node = "tx"
    <3>1. pass' = [pass EXCEPT !.cur = Ahead, !.pos = pass.pos + 1, !.node = "tx"]
      BY <2>1
    <3>2. pass' = [todo |-> pass.todo, epoch |-> pass.epoch, last |-> pass.last, pos |-> pass.pos + 1,
                   emitted |-> pass.emitted, cur |-> Ahead, node |-> "tx",
                   hash |-> pass.hash, prev |-> pass.prev, snap |-> pass.snap]
      BY <2>1, <3>1 DEF PassType
    <3>3. pass.pos \in Nat
      BY <2>1 DEF PassType
    <3>4. pass' \in PassType
      BY <2>1, <2>2, <3>2, <3>3 DEF PassType
    <3>. QED  BY <3>2, <3>3, <3>4
  <2>. QED  BY <1>2, <2>1, <2>2, <2>3 DEF TakeBlock, StreamInv, TypeInv, Streaming, AtABlock, LocalLast, control, stats, seen
<1>3. CASE ReadFails
  <2>1. Restart(AfterCurrent, counted, highest) /\ faults' \in 0 .. MaxFaults
    BY <1>3, FaultTypes DEF ReadFails
  <2>. QED  BY <1>3, <2>1, CountIsKept, RestartKeeps DEF ReadFails, StreamInv, TypeInv, stats, seen
<1>4. CASE PrematureEnd
  <2>1. Restart(counted + 1, counted, highest)
    BY <1>4 DEF PrematureEnd
  <2>2. faults' \in 0 .. MaxFaults
    BY <1>4, FaultTypes DEF PrematureEnd, StreamEnds, StreamInv, TypeInv
  <2>. QED  BY <1>4, <2>1, <2>2, CountIsKept, RestartKeeps DEF PrematureEnd, StreamInv, TypeInv, stats, seen
<1>5. CASE EpochEnds
  <2>1. pass \in PassType /\ pass' = [pass EXCEPT !.todo = Tail(pass.todo)] /\ pass.todo # <<>>
        /\ pc = "loop" /\ pc' = "epoch"
    BY <1>5 DEF EpochEnds, StreamInv, TypeInv, Streaming
  <2>2. pass' \in PassType
    BY <2>1, TailTypes
  <2>3. faults' \in 0 .. MaxFaults
    BY <1>5, FaultTypes DEF EpochEnds, StreamEnds, StreamInv, TypeInv
  <2>4. highest' \in -1 .. Top
    BY <1>5, <2>1, EpochDoneType DEF EpochEnds
  <2>5. pulsed' \in Counts /\ since' \in Counts
    BY <1>5, PlusCounts, SomeCounts DEF EpochEnds, StreamInv, TypeInv
  <2>. QED  BY <1>5, <2>1, <2>2, <2>3, <2>4, <2>5 DEF EpochEnds, StreamInv, TypeInv, Streaming, AtABlock, seen
<1>6. CASE EpochEndPulseFails
  <2>1. Restart(mine.current, counted, EpochDone) /\ faults' \in 0 .. MaxFaults /\ since' = since
        /\ EpochDone \in -1 .. Top
    BY <1>6, FaultTypes, EpochDoneType DEF EpochEndPulseFails, Unpulsed
  <2>. QED  BY <1>6, <2>1, CountIsKept, RestartKeeps DEF EpochEndPulseFails, StreamInv, TypeInv, seen
<1>. QED  BY <1>1, <1>2, <1>3, <1>4, <1>5, <1>6 DEF Batches

LEMMA NodeStepTypes ==
  ASSUME StreamInv, Nodes PROVE TypeInv'
<1>0. pc = "node" /\ pass \in PassType /\ pass.cur \in Slots /\ mine \in Mine /\ counted \in Counted
  BY DEF Nodes, OnTransaction, OnEntry, OnRewards, NodeFails, Interrupted, AtNode, StreamInv, TypeInv, AtABlock
<1>1. CASE OnTransaction
  <2>1. pass' = [pass EXCEPT !.node = "entry"] /\ mine' = [mine EXCEPT !.current = pass.cur]
    BY <1>1 DEF OnTransaction
  <2>2. pass' \in PassType /\ pass'.node = "entry" /\ mine' \in Mine
    BY <1>0, <2>1 DEF PassType, Mine
  <2>3. /\ pass'.epoch = pass.epoch /\ pass'.last = pass.last /\ pass'.todo = pass.todo
        /\ pass'.pos = pass.pos /\ pass'.cur = pass.cur
    BY <1>0, <2>1 DEF PassType
  <2>4. overall' \in Counts /\ since' \in Counts
    BY <1>1, PlusCounts, SomeCounts DEF OnTransaction, StreamInv, TypeInv
  <2>. QED  BY <1>0, <1>1, <2>2, <2>3, <2>4
       DEF OnTransaction, StreamInv, TypeInv, Streaming, AtABlock, LocalLast, control, seen
<1>2. CASE OnEntry
  <2>1. pass' = [pass EXCEPT !.node = "rewards", !.hash = pass.cur]
    BY <1>2 DEF OnEntry
  <2>2. pass' \in PassType /\ pass'.node = "rewards"
    <3>1. pass.cur \in Int
      BY <1>0 DEF Slots, StreamInv, Instance, RangeAssumption
    <3>. QED  BY <1>0, <2>1, <3>1 DEF PassType
  <2>3. /\ pass'.epoch = pass.epoch /\ pass'.last = pass.last /\ pass'.todo = pass.todo
        /\ pass'.pos = pass.pos /\ pass'.cur = pass.cur
    BY <1>0, <2>1 DEF PassType
  <2>. QED  BY <1>0, <1>2, <2>2, <2>3
       DEF OnEntry, StreamInv, TypeInv, Streaming, AtABlock, LocalLast, control, stats, seen
<1>3. CASE OnRewards
  <2>1. pass' = [pass EXCEPT !.node = "block", !.snap = <<counted, mine>>]
    BY <1>3 DEF OnRewards
  <2>2. pass' \in PassType /\ pass'.node = "block" /\ pass'.snap \in Counted \X Mine
    BY <1>0, <2>1 DEF PassType
  <2>3. /\ pass'.epoch = pass.epoch /\ pass'.last = pass.last /\ pass'.todo = pass.todo
        /\ pass'.pos = pass.pos /\ pass'.cur = pass.cur
    BY <1>0, <2>1 DEF PassType
  <2>. QED  BY <1>0, <1>3, <2>2, <2>3
       DEF OnRewards, StreamInv, TypeInv, Streaming, AtABlock, LocalLast, control, stats, seen
<1>4. CASE NodeFails
  <2>1. Restart(pass.cur, counted, highest) /\ faults' \in 0 .. MaxFaults
        /\ mine' = [mine EXCEPT !.current = pass.cur]
    BY <1>4, FaultTypes DEF NodeFails
  <2>2. mine' \in Mine
    BY <1>0, <2>1 DEF Mine
  <2>3. pass.cur \in Resume
    BY <1>0 DEF Slots, Resume, StreamInv, Instance, RangeAssumption
  <2>. QED  BY <1>0, <1>4, <2>1, <2>2, <2>3, RestartKeeps DEF NodeFails, StreamInv, TypeInv, seen
<1>5. CASE Interrupted
  <2>1. faults' \in 0 .. MaxFaults
    BY <1>5, FaultTypes DEF Interrupted
  <2>. QED  BY <1>5, <2>1 DEF Interrupted, StreamInv, TypeInv, Streaming, AtABlock, control, stats, seen
<1>. QED  BY <1>1, <1>2, <1>3, <1>4, <1>5 DEF Nodes

\* At the block node there is a snapshot.
LEMMA AtBlockNodeIs ==
  ASSUME StreamInv, AtNode("block")
  PROVE  /\ pass \in PassType /\ pass.cur \in Slots /\ pass.cur \in Nat /\ pass.cur \in Resume
         /\ pass.cur \in Counted /\ pass.cur <= pass.last
         /\ pass.snap \in Counted \X Mine /\ pass.snap[1] \in Counted /\ pass.snap[2] \in Mine
         /\ Max2(counted, pass.cur) \in Counted /\ counted \in Counted /\ counted \in Nat
         /\ pass.emitted \in Nat /\ Max2(pass.emitted, pass.cur) \in Nat
<1>1. /\ FirstSlot \in Nat /\ EndSlot \in Nat /\ counted \in Counted /\ pass \in PassType
      /\ pass.cur \in Slots /\ pass.snap \in Counted \X Mine /\ pass.cur <= pass.last
  BY DEF StreamInv, TypeInv, AtABlock, AtNode, Instance, RangeAssumption
<1>2. pass.cur \in Nat /\ pass.cur \in Resume /\ pass.cur \in Counted
  BY <1>1 DEF Slots, Resume, Counted
<1>. QED  BY <1>1, <1>2 DEF Max2, Counted, PassType

LEMMA BlockNodeStepTypes ==
  ASSUME StreamInv, BlockNode PROVE TypeInv'
<1>0. /\ pass \in PassType /\ pass.cur \in Slots /\ pass.cur \in Nat /\ pass.cur \in Resume
      /\ pass.cur \in Counted
      /\ pass.snap \in Counted \X Mine /\ pass.snap[1] \in Counted /\ pass.snap[2] \in Mine
      /\ Max2(counted, pass.cur) \in Counted /\ counted \in Counted
      /\ Max2(pass.emitted, pass.cur) \in Nat /\ pc = "node" /\ mine \in Mine
  BY AtBlockNodeIs DEF BlockNode, SkipSlot, SkipFails, DropDuplicate, DeliverBlock, BlockFails, PulseFails,
       AtBlockNode, InGap, AtNode, StreamInv, TypeInv
<1>1. CASE SkipSlot
  <2>1. Gap \in Slots /\ Gap \in Counted /\ Gap \in Nat
    BY <1>1, GapIs DEF SkipSlot
  <2>2. overall' \in Counts /\ since' \in Counts
    BY <1>1, PlusCounts, SomeCounts DEF SkipSlot, StreamInv, TypeInv
  <2>3. mine' \in Mine
    <3>1. mine' = [mine EXCEPT !.slots = mine.slots + 1, !.skipped = mine.skipped + 1, !.current = Gap]
      BY <1>1 DEF SkipSlot
    <3>2. mine' = [slots |-> mine.slots + 1, blocks |-> mine.blocks, skipped |-> mine.skipped + 1,
                   current |-> Gap]
      BY <1>0, <3>1 DEF Mine
    <3>. QED  BY <1>0, <2>1, <3>2 DEF Mine
  <2>4. pass' = pass \/ pass' = [pass EXCEPT !.emitted = Gap]
    BY <1>1 DEF SkipSlot
  <2>5. /\ pass' \in PassType /\ pass'.epoch = pass.epoch /\ pass'.last = pass.last /\ pass'.todo = pass.todo
        /\ pass'.pos = pass.pos /\ pass'.cur = pass.cur /\ pass'.snap = pass.snap
    BY <1>0, <2>1, <2>4 DEF PassType
  <2>6. skips' \subseteq Slots /\ called' \in Slots \cup {NoSlot}
    BY <1>1, <2>1 DEF SkipSlot, StreamInv, TypeInv
  <2>7. Streaming' /\ AtABlock'
    BY <1>0, <1>1, <2>5 DEF SkipSlot, StreamInv, TypeInv, Streaming, AtABlock, LocalLast
  <2>. QED  BY <1>1, <2>1, <2>2, <2>3, <2>5, <2>6, <2>7 DEF SkipSlot, StreamInv, TypeInv, control
<1>2. CASE SkipFails
  <2>1. Gap \in Slots /\ Restart(pass.cur, counted, highest) /\ faults' \in 0 .. MaxFaults /\ called' = Gap
    BY <1>2, GapIs, FaultTypes DEF SkipFails
  <2>. QED  BY <1>0, <1>2, <2>1, RestartKeeps DEF SkipFails, StreamInv, TypeInv, stats
<1>3. CASE DropDuplicate
  <2>1. pass' = [pass EXCEPT !.node = "none", !.snap = <<>>]
    BY <1>3 DEF DropDuplicate
  <2>2. /\ pass' \in PassType /\ pass'.epoch = pass.epoch /\ pass'.last = pass.last /\ pass'.todo = pass.todo
        /\ pass'.pos = pass.pos
    BY <1>0, <2>1 DEF PassType
  <2>3. pc' \in {"done", "loop"} /\ pending' \subseteq Nat
    BY <1>3 DEF DropDuplicate, AfterBlock, StreamInv, TypeInv
  <2>. QED  BY <1>0, <1>3, <2>2, <2>3
       DEF DropDuplicate, StreamInv, TypeInv, Streaming, AtABlock, LocalLast, control, stats, seen
<1>4. CASE DeliverBlock
  <2>1. pass' = [pass EXCEPT !.node = "none", !.snap = <<>>, !.prev = pass.hash,
                             !.emitted = Max2(pass.emitted, pass.cur)]
    BY <1>4 DEF DeliverBlock
  <2>2. /\ pass' \in PassType /\ pass'.epoch = pass.epoch /\ pass'.last = pass.last /\ pass'.todo = pass.todo
        /\ pass'.pos = pass.pos
    BY <1>0, <2>1 DEF PassType
  <2>3. pc' \in {"done", "loop"} /\ pending' \subseteq Nat
    BY <1>4 DEF DeliverBlock, AfterBlock, StreamInv, TypeInv
  <2>4. overall' \in Counts /\ since' \in Counts /\ pulsed' \in Counts
    BY <1>4, PlusCounts, SomeCounts DEF DeliverBlock, StreamInv, TypeInv
  <2>5. mine' \in Mine
    <3>1. mine' = [mine EXCEPT !.slots = mine.slots + 1, !.blocks = mine.blocks + 1, !.current = pass.cur]
      BY <1>4 DEF DeliverBlock
    <3>2. mine' = [slots |-> mine.slots + 1, blocks |-> mine.blocks + 1, skipped |-> mine.skipped,
                   current |-> pass.cur]
      BY <1>0, <3>1 DEF Mine
    <3>. QED  BY <1>0, <3>2 DEF Mine
  <2>6. /\ blocks' \subseteq Slots /\ processed' \subseteq Slots /\ called' \in Slots \cup {NoSlot}
        /\ counted' \in Counted
    BY <1>0, <1>4 DEF DeliverBlock, Call, StreamInv, TypeInv
  <2>7. Streaming' /\ AtABlock'
    BY <1>0, <1>4, <2>2, <2>3 DEF DeliverBlock, StreamInv, TypeInv, Streaming, AtABlock, LocalLast
  <2>. QED  BY <1>4, <2>2, <2>3, <2>4, <2>5, <2>6, <2>7 DEF DeliverBlock, StreamInv, TypeInv, control
<1>5. CASE BlockFails
  <2>1. Restart(pass.cur, counted, highest) /\ faults' \in 0 .. MaxFaults /\ called' = pass.cur
    BY <1>5, FaultTypes DEF BlockFails
  <2>. QED  BY <1>0, <1>5, <2>1, RestartKeeps DEF BlockFails, StreamInv, TypeInv, stats
<1>6. CASE PulseFails
  <2>1. Restart(pass.cur, pass.snap[1], highest) /\ faults' \in 0 .. MaxFaults /\ mine' = pass.snap[2]
    BY <1>6, FaultTypes DEF PulseFails
  <2>2. since' = since
    BY <1>6, PlusCancels, SomeCounts DEF PulseFails, Unpulsed, StreamInv, TypeInv
  <2>3. blocks' \subseteq Slots /\ called' \in Slots \cup {NoSlot}
    BY <1>0, <1>6 DEF PulseFails, Call, StreamInv, TypeInv
  <2>4. highest \in -1 .. Top
    BY DEF StreamInv, TypeInv
  <2>. QED  BY <1>0, <1>6, <2>1, <2>2, <2>3, <2>4, RestartKeeps DEF PulseFails, StreamInv, TypeInv
<1>. QED  BY <1>1, <1>2, <1>3, <1>4, <1>5, <1>6 DEF BlockNode

LEMMA StreamStep == StreamInv /\ [Next]_vars => StreamInv'
<1> SUFFICES ASSUME StreamInv, [Next]_vars PROVE TypeInv'
  BY DEF StreamInv, Instance, RangeAssumption, EpochAssumption, ModeAssumption, ArchiveAssumption
<1>1. CASE Work
  BY <1>1, EpochStepTypes, BatchStepTypes, NodeStepTypes, BlockNodeStepTypes DEF Work
<1>2. CASE PollShutdown
  <2>1. faults' \in 0 .. MaxFaults
    BY <1>2, FaultTypes DEF PollShutdown
  <2>. QED  BY <1>2, <2>1 DEF PollShutdown, StreamInv, TypeInv, Streaming, AtABlock, control, stats, seen
<1>3. CASE UNCHANGED vars
  BY <1>3 DEF vars, control, stats, seen, StreamInv, TypeInv, Streaming, AtABlock, LocalLast
<1>. QED  BY <1>1, <1>2, <1>3 DEF Next, Terminated

\* Every variable keeps its type: the thread never leaves its range, whatever
\* fails and wherever a pass starts again.
THEOREM StreamTypes == Instance /\ Spec => []TypeOK
<1>1. StreamInv => TypeOK
  <2> SUFFICES ASSUME StreamInv PROVE TypeOK
    OBVIOUS
  <2>1. Counts \subseteq [{"slots", "blocks", "txs"} -> Nat]
    BY DEF Counts
  <2>2. \A s \in Slots : s \in Nat
    BY DEF StreamInv, Instance, RangeAssumption, Slots
  <2>3. Mine \subseteq [{"slots", "blocks", "skipped", "current"} -> Nat]
    BY <2>2 DEF Mine
  <2>4. pass.cur \in Int /\ pass.pos \in Nat /\ pass.emitted \in Nat
    BY <2>2 DEF StreamInv, TypeInv, PassType, NoSlot
  <2>5. partial \in Int /\ start \in FirstSlot .. EndSlot /\ counted \in Nat
    BY DEF StreamInv, TypeInv, Resume, NoSlot, Counted, Instance, RangeAssumption
  <2>. QED  BY <2>1, <2>3, <2>4, <2>5 DEF TypeOK, StreamInv, TypeInv
<1>. QED  BY <1>1, InitTypes, StreamStep, PTL DEF Spec

-----------------------------------------------------------------------------
(* The statistics.                                                         *)

LEMMA PlusAssociates ==
  ASSUME NEW a \in Counts, NEW b \in Counts, NEW c \in Counts
  PROVE  /\ Plus(a, Plus(b, c)) = Plus(Plus(a, b), c)
         /\ Plus(a, NoCount) = a
  BY SomeCounts DEF Plus, Counts

\* A pulse and what waits for the next one make up the counters: a block adds to
\* both, a pulse moves all that waits, and a pulse that fails puts it back.
THEOREM PulsesReportAll == Instance /\ Spec => []PulsesAddUp
<1>1. Instance /\ Init => PulsesAddUp
  BY SomeCounts, PlusAssociates DEF Init, PulsesAddUp
<1>2. StreamInv /\ PulsesAddUp /\ [Next]_vars => PulsesAddUp'
  <2> SUFFICES ASSUME StreamInv, PulsesAddUp, [Next]_vars PROVE PulsesAddUp'
    OBVIOUS
  <2>0. /\ overall \in Counts /\ since \in Counts /\ pulsed \in Counts
        /\ Plus(pulsed, since) = overall
        /\ NoCount \in Counts /\ OneSlot \in Counts /\ OneBlock \in Counts /\ OneTx \in Counts
    BY SomeCounts DEF StreamInv, TypeInv, PulsesAddUp
  <2>1. CASE OnTransaction
    BY <2>0, <2>1, PlusAssociates DEF OnTransaction, PulsesAddUp
  <2>2. CASE SkipSlot
    BY <2>0, <2>2, PlusAssociates DEF SkipSlot, PulsesAddUp
  <2>3. CASE DeliverBlock
    <3>1. Plus(since, OneBlock) \in Counts /\ Plus(pulsed, Plus(since, OneBlock)) \in Counts
      BY <2>0, PlusCounts
    <3>. QED  BY <2>0, <2>3, <3>1, PlusAssociates DEF DeliverBlock, PulsesAddUp
  <2>4. CASE PulseFails
    BY <2>0, <2>4, PlusCancels DEF PulseFails, Unpulsed, PulsesAddUp
  <2>5. CASE EpochEnds
    BY <2>0, <2>5, PlusCounts, PlusAssociates DEF EpochEnds, PulsesAddUp
  <2>6. CASE EpochEndPulseFails
    BY <2>0, <2>6 DEF EpochEndPulseFails, Unpulsed, PulsesAddUp
  <2>7. CASE UNCHANGED <<overall, since, pulsed>>
    BY <2>7 DEF PulsesAddUp
  <2>8. ASSUME [Next]_vars
        PROVE  OnTransaction \/ SkipSlot \/ DeliverBlock \/ PulseFails \/ EpochEnds \/ EpochEndPulseFails
               \/ UNCHANGED <<overall, since, pulsed>>
    BY <2>8 DEF Next, Work, Epochs, Batches, Nodes, BlockNode, PollShutdown, Terminated, vars, stats,
         StartPass, SkipEpoch, OpenEpoch, OpenFails, SeekFails, PassEnds, BeforeRange, TakeBlock, ReadFails,
         PrematureEnd, OnEntry, OnRewards, NodeFails, Interrupted, SkipFails, DropDuplicate, BlockFails
  <2>. QED  BY <2>1, <2>2, <2>3, <2>4, <2>5, <2>6, <2>7, <2>8
<1>. QED  BY <1>1, <1>2, InitTypes, StreamStep, PTL DEF Spec

-----------------------------------------------------------------------------
(* The course of a pass.                                                   *)

\* The range of a reverse run ends with an epoch.
Aligned == Reverse => EndSlot = EpochFirst(Top + 1)

\* The epoch that is streamed, or comes next.
Front ==
  IF pc = "boundary" THEN IF Reverse THEN highest ELSE EpochOf(start)
  ELSE IF Reverse THEN Lowest + (Len(pass.todo) - 1) ELSE Top - (Len(pass.todo) - 1)

Past(e) == {p \in Slots : IF Reverse THEN e < EpochOf(p) ELSE EpochOf(p) < e}
Behind(e, s) == Past(e) \cup {p \in Slots : EpochOf(p) = e /\ p < s}

\* The slots the thread has behind it.
Passed == Behind(Front, IF pc \in {"loop", "node"} THEN counted + 1 ELSE LocalStart(Front))

Going == pc \in {"boundary", "epoch", "loop", "node"}
InPass == pc \in {"epoch", "loop", "node"}

\* Where a pass goes: through the epochs one by one, forward or in reverse, and in
\* each from the first slot that is left to the last counted one.
Course ==
  /\ Reverse => start = FirstSlot
  /\ InPass =>
       /\ \A i \in 1 .. Len(pass.todo) :
            pass.todo[i] = IF Reverse THEN Lowest + (Len(pass.todo) - i) ELSE Top - (Len(pass.todo) - i)
       /\ IF Reverse THEN highest = Front ELSE EpochOf(start) <= Front
  /\ pc \in {"loop", "node"} =>
       /\ EpochFirst(pass.epoch) <= counted + 1 /\ counted <= pass.last
       /\ EpochFirst(pass.epoch) <= mine.current /\ mine.current <= pass.last
       /\ pass.cur # NoSlot => EpochOf(pass.cur) = pass.epoch
  /\ pc \in {"epoch", "loop"} => pass.cur <= counted
  /\ pc = "loop" /\ pass.cur = NoSlot => counted < EpochLast(pass.epoch) \/ counted = 0
  /\ pc = "node" /\ pass.node = "block" =>
       /\ pass.snap[1] <= counted /\ EpochFirst(pass.epoch) <= pass.snap[1] + 1
       /\ (pass.snap[1] = counted \/ counted < pass.cur)

CourseInv == StreamInv /\ Aligned /\ Course

\* The next epoch is the first of the list.
LEMMA FrontIs ==
  ASSUME CourseInv, InPass
  PROVE  /\ Len(pass.todo) \in Nat /\ Lowest \in Nat /\ Top \in Nat /\ Front \in Int
         /\ pass.todo \in Seq(Lowest .. Top)
         /\ pass.todo # <<>> => Head(pass.todo) = Front /\ Front \in Lowest .. Top /\ 1 <= Len(pass.todo)
         /\ pc \in {"loop", "node"} => pass.epoch = Front
<1>1. /\ pass.todo \in Seq(Lowest .. Top) /\ Lowest \in Nat /\ Top \in Nat
  BY Epochs0 DEF CourseInv, StreamInv, Instance, TypeInv, PassType
<1>2. Len(pass.todo) \in Nat
  BY <1>1
<1>3. pc # "boundary" /\ Front \in Int
  BY <1>1, <1>2 DEF InPass, Front
<1>4. ASSUME pass.todo # <<>>
      PROVE  Head(pass.todo) = Front /\ Front \in Lowest .. Top /\ 1 <= Len(pass.todo)
  <2>1. 1 \in 1 .. Len(pass.todo) /\ Head(pass.todo) = pass.todo[1] /\ Head(pass.todo) \in Lowest .. Top
    BY <1>1, <1>2, <1>4
  <2>2. pass.todo[1] = Front
    BY <1>3, <2>1 DEF CourseInv, Course, Front
  <2>. QED  BY <2>1, <2>2
<1>5. pc \in {"loop", "node"} => pass.todo # <<>> /\ pass.epoch = Head(pass.todo)
  BY DEF CourseInv, StreamInv, TypeInv, Streaming
<1>. QED  BY <1>1, <1>2, <1>3, <1>4, <1>5

\* What is left when the first epoch of the list is done.
LEMMA NextFront ==
  ASSUME CourseInv, InPass, pass.todo # <<>>, pc' = "epoch", pass'.todo = Tail(pass.todo)
  PROVE  /\ Front' = IF Reverse THEN Front - 1 ELSE Front + 1
         /\ \A i \in 1 .. Len(pass'.todo) :
              pass'.todo[i] = IF Reverse THEN Lowest + (Len(pass'.todo) - i) ELSE Top - (Len(pass'.todo) - i)
<1> DEFINE q == pass.todo
<1>1. q \in Seq(Lowest .. Top) /\ q # <<>> /\ Len(q) \in Nat /\ Lowest \in Nat /\ Top \in Nat
  BY FrontIs
<1>2. \A i \in 1 .. Len(q) : q[i] = IF Reverse THEN Lowest + (Len(q) - i) ELSE Top - (Len(q) - i)
  BY DEF CourseInv, Course
<1>3. Front = IF Reverse THEN Lowest + (Len(q) - 1) ELSE Top - (Len(q) - 1)
  BY DEF Front, InPass
<1>4. Front' = IF Reverse THEN Lowest + (Len(Tail(q)) - 1) ELSE Top - (Len(Tail(q)) - 1)
  BY DEF Front
<1>5. pass'.todo = Tail(q)
  OBVIOUS
<1> HIDE DEF q
<1>6. Len(Tail(q)) = Len(q) - 1 /\ \A i \in 1 .. Len(Tail(q)) : Tail(q)[i] = q[i + 1] /\ i + 1 \in 1 .. Len(q)
  BY <1>1
<1>7. \A i \in 1 .. Len(Tail(q)) :
        Tail(q)[i] = IF Reverse THEN Lowest + (Len(Tail(q)) - i) ELSE Top - (Len(Tail(q)) - i)
  BY <1>1, <1>2, <1>6
<1>8. Front' = IF Reverse THEN Front - 1 ELSE Front + 1
  BY <1>1, <1>3, <1>4, <1>6
<1>. QED  BY <1>5, <1>7, <1>8

\* A reverse run skips no epoch.
LEMMA ReverseOverlaps ==
  ASSUME CourseInv, Reverse, NEW e \in Lowest .. Top
  PROVE  Overlaps(e)
<1>1. /\ FirstSlot \in Nat /\ EndSlot \in Nat /\ e \in Nat /\ Top \in Nat /\ EpochAssumption
      /\ Lowest \in Nat /\ FirstSlot < EndSlot
  BY Epochs0 DEF CourseInv, StreamInv, Instance, RangeAssumption
<1>2. EpochFirst(e) \in Nat /\ EpochLast(e) \in Nat /\ EpochFirst(e) <= EpochLast(e)
  BY <1>1 DEF EpochFirst, EpochLast, EpochAssumption
<1>3. EpochLast(e) <= EndSlot - 1
  <2>1. EndSlot = EpochFirst(Top + 1)
    BY DEF CourseInv, Aligned
  <2>2. e < Top + 1 /\ EpochLast(e) < EpochFirst(Top + 1)
    BY <1>1, EpochOrder
  <2>. QED  BY <1>1, <1>2, <2>1, <2>2
<1>4. FirstSlot <= EpochLast(e)
  <2>1. FirstSlot <= EpochLast(Lowest) /\ EpochLast(Lowest) \in Nat
    BY <1>1, EpochHolds DEF Lowest, EpochLast, EpochAssumption
  <2>2. Lowest < e => EpochLast(Lowest) < EpochFirst(e)
    BY <1>1, EpochOrder
  <2>. QED  BY <1>1, <1>2, <2>1, <2>2
<1>5. start = FirstSlot
  BY DEF CourseInv, Course
<1>6. ASSUME partial # NoSlot, EpochOf(partial) = e PROVE partial \in Nat /\ partial <= EpochLast(e)
  <2>1. partial \in Nat
    BY <1>1, <1>6 DEF CourseInv, StreamInv, TypeInv, Resume
  <2>. QED  BY <1>1, <1>6, <2>1, EpochHolds
<1>. QED  BY <1>1, <1>2, <1>3, <1>4, <1>5, <1>6 DEF Overlaps, LocalStart, LocalLast, Max2, Min2

LEMMA RestartCourse ==
  ASSUME CourseInv, NEW slot, NEW c, NEW h, Restart(slot, c, h)
  PROVE  Course'
  BY DEF CourseInv, Course, Restart, InPass

LEMMA EpochStepCourse ==
  ASSUME CourseInv, Epochs PROVE Course'
<1>0. /\ FirstSlot \in Nat /\ EndSlot \in Nat /\ Lowest \in Nat /\ Top \in Nat
      /\ EpochAssumption /\ Instance /\ StreamInv /\ counted \in Nat /\ start \in Nat /\ FirstSlot <= start
  BY Epochs0 DEF CourseInv, StreamInv, Instance, RangeAssumption, TypeInv, Resume, Counted
<1>1. CASE StartPass
  <2>1. CASE Reverse /\ highest < Lowest
    BY <1>1, <2>1 DEF StartPass, CourseInv, Course, InPass, control
  <2>2. CASE ~(Reverse /\ highest < Lowest)
    <3> DEFINE todo == IF Reverse THEN Descending(highest, Lowest) ELSE Ascending(EpochOf(start), Top)
    <3>1. /\ pc' = "epoch" /\ start' = start /\ highest' = highest /\ counted' = counted
          /\ pass'.todo = todo /\ pass'.cur = NoSlot
      BY <1>1, <2>2 DEF StartPass, control, NoPass
    <3>2. highest \in Int /\ EpochOf(start) \in Nat /\ Lowest <= EpochOf(start)
      BY <1>0, EpochHolds, EpochMonotone DEF StreamInv, TypeInv, Lowest
    <3>3. ASSUME Reverse
          PROVE  /\ Len(todo) = highest - Lowest + 1
                 /\ \A i \in 1 .. Len(todo) : todo[i] = highest - (i - 1)
      <4>1. Lowest <= highest + 1 /\ todo = Descending(highest, Lowest)
        BY <1>0, <2>2, <3>2, <3>3
      <4>2. Lowest \in Int /\ highest \in Int /\ Lowest <= highest + 1
        BY <1>0, <3>2, <4>1
      <4>3. Len(Descending(highest, Lowest)) = highest - Lowest + 1
        BY <1>0, <4>2, TodoTypes
      <4>. QED  BY <4>1, <4>3 DEF Descending
    <3>4. ASSUME ~Reverse
          PROVE  /\ Len(todo) = Top - EpochOf(start) + 1
                 /\ \A i \in 1 .. Len(todo) : todo[i] = EpochOf(start) + (i - 1)
      <4>1. todo = Ascending(EpochOf(start), Top) /\ EpochOf(start) <= Top + 1
        BY <1>0, <3>4, StartFits
      <4>2. EpochOf(start) \in Int /\ Top \in Int /\ EpochOf(start) <= Top + 1
        BY <1>0, <3>2, <4>1
      <4>3. Len(Ascending(EpochOf(start), Top)) = Top - EpochOf(start) + 1
        BY <1>0, <4>2, TodoTypes
      <4>. QED  BY <4>1, <4>3 DEF Ascending
    <3> HIDE DEF todo
    <3>5. IF Reverse THEN highest' = Front' ELSE EpochOf(start)' <= Front'
      BY <1>0, <3>1, <3>2, <3>3, <3>4 DEF Front, EpochOf
    <3>6. \A i \in 1 .. Len(pass'.todo) : pass'.todo[i] =
            IF Reverse THEN Lowest + (Len(pass'.todo) - i) ELSE Top - (Len(pass'.todo) - i)
      <4>1. pass'.todo = todo
        BY <3>1
      <4>2. ASSUME Reverse, NEW i \in 1 .. Len(todo) PROVE todo[i] = Lowest + (Len(todo) - i)
        <5>1. Len(todo) = highest - Lowest + 1 /\ todo[i] = highest - (i - 1)
          BY <3>3, <4>2
        <5>2. highest \in Int /\ Lowest \in Int /\ i \in Int
          BY <1>0, <3>2, <4>2, <5>1
        <5>. QED  BY <5>1, <5>2
      <4>3. ASSUME ~Reverse, NEW i \in 1 .. Len(todo) PROVE todo[i] = Top - (Len(todo) - i)
        <5>1. Len(todo) = Top - EpochOf(start) + 1 /\ todo[i] = EpochOf(start) + (i - 1)
          BY <3>4, <4>3
        <5>2. EpochOf(start) \in Int /\ Top \in Int /\ i \in Int
          BY <1>0, <3>2, <4>3, <5>1
        <5>. QED  BY <5>1, <5>2
      <4>. QED  BY <4>1, <4>2, <4>3
    <3>. QED  BY <1>0, <3>1, <3>5, <3>6 DEF CourseInv, Course, InPass, NoSlot, EpochOf
  <2>. QED  BY <2>1, <2>2
<1>2. CASE SkipEpoch
  <2>1. /\ pc = "epoch" /\ pass.todo # <<>> /\ pass' = [pass EXCEPT !.todo = Tail(@)] /\ pass \in PassType
        /\ ~Overlaps(Head(pass.todo)) /\ pc' = "epoch" /\ start' = start /\ highest' = highest /\ counted' = counted
    BY <1>0, <1>2 DEF SkipEpoch, AtEpoch, control, StreamInv, TypeInv
  <2>2. pass'.todo = Tail(pass.todo) /\ pass'.cur = pass.cur
    BY <2>1 DEF PassType
  <2>3. ~Reverse
    BY <2>1, FrontIs, ReverseOverlaps DEF InPass
  <2>4. EpochOf(start) <= Front /\ EpochOf(start) \in Nat /\ Front \in Int
    BY <1>0, <2>1, <2>3, FrontIs, EpochHolds DEF CourseInv, Course, InPass
  <2>5. Front' = Front + 1
    BY <2>1, <2>2, <2>3, NextFront DEF InPass
  <2>6. EpochOf(start)' <= Front'
    BY <2>1, <2>4, <2>5 DEF EpochOf
  <2>7. pass.cur <= counted
    BY <2>1 DEF CourseInv, Course
  <2>. QED  BY <2>1, <2>2, <2>3, <2>6, <2>7, NextFront DEF CourseInv, Course, InPass, EpochOf
<1>3. CASE OpenEpoch
  <2> DEFINE e == Head(pass.todo)  s == LocalStart(e)
  <2>1. pc = "epoch" /\ pass.todo # <<>> /\ Overlaps(e) /\ pass \in PassType /\ mine \in Mine
    BY <1>0, <1>3 DEF OpenEpoch, AtEpoch, StreamInv, TypeInv
  <2>2. e = Front /\ e \in Lowest .. Top /\ e \in Nat
    BY <1>0, <2>1, FrontIs DEF InPass
  <2>3. /\ s \in Nat /\ EpochFirst(e) <= s /\ s <= LocalLast(e) /\ LocalLast(e) <= EpochLast(e) /\ LocalLast(e) \in Int
        /\ EpochLast(e) \in Int /\ EpochFirst(e) \in Int
    BY <1>0, <2>1, <2>2, Window DEF Overlaps, EpochFirst, EpochLast, EpochAssumption
  <2>4. /\ Dec(s) \in Nat /\ Dec(s) <= s /\ s <= Dec(s) + 1 /\ (Dec(s) < s \/ Dec(s) = 0)
    BY <2>3 DEF Dec, Max2
  <2> HIDE DEF s
  <2>5. /\ pc' = "loop" /\ counted' = Dec(s) /\ mine' = [mine EXCEPT !.current = s]
        /\ pass' = [pass EXCEPT !.epoch = e, !.last = LocalLast(e), !.pos = PositionOf(e, s),
                                !.cur = NoSlot, !.emitted = EmittedAtOpen(s),
                                !.hash = NoSlot, !.prev = NoSlot]
        /\ start' = start /\ highest' = highest
    BY <1>3 DEF OpenEpoch, control, s
  <2>6. pass'.epoch = e /\ pass'.last = LocalLast(e) /\ pass'.cur = NoSlot /\ pass'.todo = pass.todo
        /\ mine'.current = s
    BY <2>1, <2>5 DEF PassType, Mine
  <2> HIDE DEF e
  <2>7. Front' = Front
    BY <2>1, <2>5, <2>6 DEF Front
  <2>8. /\ Reverse => start = FirstSlot
        /\ \A i \in 1 .. Len(pass.todo) :
            pass.todo[i] = IF Reverse THEN Lowest + (Len(pass.todo) - i) ELSE Top - (Len(pass.todo) - i)
        /\ IF Reverse THEN highest = Front ELSE EpochOf(start) <= Front
    BY <2>1 DEF CourseInv, Course, InPass
  <2>9. /\ EpochFirst(e) <= counted' + 1 /\ counted' <= LocalLast(e)
        /\ counted' < EpochLast(e) \/ counted' = 0
        /\ NoSlot <= counted' /\ EpochFirst(e) <= mine'.current /\ mine'.current <= LocalLast(e)
    BY <2>3, <2>4, <2>5, <2>6 DEF NoSlot
  <2>. QED  BY <2>5, <2>6, <2>7, <2>8, <2>9 DEF Course, InPass, EpochOf, EpochFirst, EpochLast
<1>4. CASE OpenFails
  BY <1>4, RestartCourse DEF OpenFails
<1>5. CASE SeekFails
  BY <1>5, RestartCourse DEF SeekFails
<1>6. CASE PassEnds
  BY <1>6 DEF PassEnds, CourseInv, Course, InPass, control
<1>. QED  BY <1>1, <1>2, <1>3, <1>4, <1>5, <1>6 DEF Epochs

\* A step within an epoch that goes on with the same list of epochs.
LEMMA SameEpoch ==
  ASSUME CourseInv, pc \in {"loop", "node"}, pc' \in {"loop", "node", "done", "stopped"},
         pass'.todo = pass.todo, pass'.epoch = pass.epoch, pass'.last = pass.last,
         start' = start, highest' = highest, pass.cur # NoSlot => pass'.cur # NoSlot,
         EpochFirst(pass.epoch) <= counted' + 1, counted' <= pass.last,
         EpochFirst(pass.epoch) <= mine'.current, mine'.current <= pass.last,
         pass'.cur # NoSlot => EpochOf(pass'.cur) = pass.epoch,
         pc' = "loop" => pass'.cur <= counted',
         pc' = "loop" /\ pass'.cur = NoSlot => counted' < EpochLast(pass.epoch) \/ counted' = 0,
         pc' = "node" /\ pass'.node = "block" =>
           /\ pass'.snap[1] <= counted' /\ EpochFirst(pass.epoch) <= pass'.snap[1] + 1
           /\ (pass'.snap[1] = counted' \/ counted' < pass'.cur)
  PROVE  Course' /\ Front' = Front
<1>1. Front' = Front \/ pc' \in {"done", "stopped"}
  BY DEF Front
<1>2. Front' = Front
  BY DEF Front
<1>. QED  BY <1>2 DEF CourseInv, Course, InPass, EpochOf, EpochFirst, EpochLast

LEMMA BatchStepCourse ==
  ASSUME CourseInv, Batches PROVE Course'
<1>0. /\ pc = "loop" /\ pass \in PassType /\ StreamInv /\ Course
      /\ EpochFirst(pass.epoch) <= counted + 1 /\ counted <= pass.last
      /\ EpochFirst(pass.epoch) <= mine.current /\ mine.current <= pass.last
      /\ pass.cur # NoSlot => EpochOf(pass.cur) = pass.epoch
      /\ pass.cur <= counted
      /\ pass.cur = NoSlot => counted < EpochLast(pass.epoch) \/ counted = 0
  BY DEF Batches, BeforeRange, TakeBlock, ReadFails, PrematureEnd, EpochEnds, EpochEndPulseFails, AtBlock,
         CourseInv, Course, StreamInv, TypeInv
<1>1. CASE BeforeRange
  <2>1. /\ pass'.todo = pass.todo /\ pass'.epoch = pass.epoch /\ pass'.last = pass.last /\ pass'.cur = pass.cur
    BY <1>0, <1>1 DEF BeforeRange, PassType
  <2>. QED  BY <1>0, <1>1, <2>1, SameEpoch DEF BeforeRange, control, stats
<1>2. CASE TakeBlock
  <2>1. pass' = [pass EXCEPT !.cur = Ahead, !.pos = pass.pos + 1, !.node = "tx"]
    BY <1>2 DEF TakeBlock
  <2>2. /\ pass'.todo = pass.todo /\ pass'.epoch = pass.epoch /\ pass'.last = pass.last /\ pass'.cur = Ahead
        /\ pass'.node = "tx"
    BY <1>0, <2>1 DEF PassType
  <2>3. EpochOf(Ahead) = pass.epoch /\ Ahead # NoSlot
    BY <1>0, <1>2, AheadIs DEF TakeBlock, AtBlock, NoSlot
  <2>4. pc' = "node" /\ start' = start /\ highest' = highest /\ counted' = counted /\ mine' = mine
    BY <1>2 DEF TakeBlock, control, stats
  <2>. QED  BY <1>0, <2>2, <2>3, <2>4, SameEpoch
<1>3. CASE ReadFails
  BY <1>3, RestartCourse DEF ReadFails
<1>4. CASE PrematureEnd
  BY <1>4, RestartCourse DEF PrematureEnd
<1>5. CASE EpochEnds
  <2>1. /\ pass.todo # <<>> /\ pass' = [pass EXCEPT !.todo = Tail(@)] /\ pc' = "epoch"
        /\ start' = start /\ highest' = EpochDone /\ counted' = counted
    BY <1>0, <1>5 DEF EpochEnds, StreamInv, TypeInv, Streaming
  <2>2. pass'.todo = Tail(pass.todo) /\ pass'.cur = pass.cur
    BY <1>0, <2>1 DEF PassType
  <2>3. /\ IF Reverse THEN highest = Front ELSE EpochOf(start) <= Front
        /\ Front \in Int /\ pass.epoch = Front /\ EpochOf(start) \in Nat /\ InPass
    <3>1. InPass
      BY <1>0 DEF InPass
    <3>2. IF Reverse THEN highest = Front ELSE EpochOf(start) <= Front
      BY <1>0, <3>1 DEF Course
    <3>3. start \in Nat /\ EpochAssumption
      BY <1>0 DEF StreamInv, TypeInv, Resume, Instance, RangeAssumption
    <3>4. EpochOf(start) \in Nat
      BY <3>3, EpochHolds
    <3>. QED  BY <1>0, <3>1, <3>2, <3>4, FrontIs
  <2>4. Front' = IF Reverse THEN Front - 1 ELSE Front + 1
    BY <2>1, <2>2, <2>3, NextFront
  <2>5. IF Reverse THEN highest' = Front' ELSE EpochOf(start)' <= Front'
    BY <2>1, <2>3, <2>4 DEF EpochDone, EpochOf
  <2>. QED  BY <1>0, <2>1, <2>2, <2>3, <2>5, NextFront DEF Course, InPass
<1>6. CASE EpochEndPulseFails
  BY <1>6, RestartCourse DEF EpochEndPulseFails
<1>. QED  BY <1>1, <1>2, <1>3, <1>4, <1>5, <1>6 DEF Batches

LEMMA NodeIs ==
  ASSUME CourseInv, pc = "node"
  PROVE  /\ pass \in PassType /\ StreamInv /\ Course
         /\ EpochFirst(pass.epoch) <= counted + 1 /\ counted <= pass.last
         /\ EpochFirst(pass.epoch) <= mine.current /\ mine.current <= pass.last
         /\ EpochOf(pass.cur) = pass.epoch /\ pass.cur # NoSlot /\ pass.cur \in Slots /\ pass.cur \in Nat
         /\ EpochFirst(pass.epoch) <= pass.cur /\ pass.cur <= EpochLast(pass.epoch)
         /\ pass.cur <= pass.last /\ mine \in Mine /\ counted \in Nat
         /\ pass.epoch \in Lowest .. Top /\ pass.last <= EpochLast(pass.epoch) /\ pass.last \in Int
         /\ EpochFirst(pass.epoch) \in Nat /\ EpochLast(pass.epoch) \in Nat
<1>1. /\ FirstSlot \in Nat /\ EndSlot \in Nat /\ EpochAssumption /\ Lowest \in Nat /\ Top \in Nat
  BY Epochs0 DEF CourseInv, StreamInv, Instance, RangeAssumption
<1>2. pass.cur \in Slots /\ pass.cur <= pass.last /\ pass.last = LocalLast(pass.epoch)
      /\ pass.epoch \in Lowest .. Top /\ pass \in PassType /\ StreamInv /\ Course /\ mine \in Mine
      /\ counted \in Nat
  BY DEF CourseInv, StreamInv, TypeInv, AtABlock, Streaming, Counted
<1>3. pass.cur \in Nat /\ pass.cur # NoSlot /\ pass.epoch \in Nat
  BY <1>1, <1>2 DEF Slots, NoSlot
<1>4. EpochOf(pass.cur) = pass.epoch /\ EpochFirst(pass.epoch) <= counted + 1 /\ counted <= pass.last
      /\ EpochFirst(pass.epoch) <= mine.current /\ mine.current <= pass.last
  BY <1>2, <1>3 DEF Course
<1>5. EpochFirst(pass.epoch) <= pass.cur /\ pass.cur <= EpochLast(pass.epoch)
  BY <1>1, <1>3, <1>4, EpochHolds
<1>6. pass.last \in Int /\ pass.last <= EpochLast(pass.epoch)
  BY <1>2, Window
<1>7. EpochFirst(pass.epoch) \in Nat /\ EpochLast(pass.epoch) \in Nat
  BY <1>1, <1>3 DEF EpochFirst, EpochLast, EpochAssumption
<1>. QED  BY <1>2, <1>3, <1>4, <1>5, <1>6, <1>7

LEMMA NodeStepCourse ==
  ASSUME CourseInv, Nodes \/ BlockNode PROVE Course'
<1>0. pc = "node"
  BY DEF Nodes, OnTransaction, OnEntry, OnRewards, NodeFails, Interrupted, AtNode,
     BlockNode, SkipSlot, SkipFails, DropDuplicate, DeliverBlock, BlockFails, PulseFails, AtBlockNode, InGap
<1>1. CASE OnTransaction
  <2>1. /\ pass'.todo = pass.todo /\ pass'.epoch = pass.epoch /\ pass'.last = pass.last /\ pass'.cur = pass.cur
        /\ pass'.node = "entry" /\ mine'.current = pass.cur
    BY <1>0, <1>1, NodeIs DEF OnTransaction, PassType, Mine
  <2>2. pc' = "node" /\ start' = start /\ highest' = highest /\ counted' = counted
    BY <1>0, <1>1 DEF OnTransaction, control
  <2>. QED  BY <1>0, <2>1, <2>2, NodeIs, SameEpoch
<1>2. CASE OnEntry
  <2>1. /\ pass'.todo = pass.todo /\ pass'.epoch = pass.epoch /\ pass'.last = pass.last /\ pass'.cur = pass.cur
        /\ pass'.node = "rewards"
    BY <1>0, <1>2, NodeIs DEF OnEntry, PassType
  <2>2. pc' = "node" /\ start' = start /\ highest' = highest /\ counted' = counted /\ mine' = mine
    BY <1>0, <1>2 DEF OnEntry, control, stats
  <2>. QED  BY <1>0, <2>1, <2>2, NodeIs, SameEpoch
<1>3. CASE OnRewards
  <2>1. /\ pass'.todo = pass.todo /\ pass'.epoch = pass.epoch /\ pass'.last = pass.last /\ pass'.cur = pass.cur
        /\ pass'.snap[1] = counted
    BY <1>0, <1>3, NodeIs DEF OnRewards, PassType
  <2>2. pc' = "node" /\ start' = start /\ highest' = highest /\ counted' = counted /\ mine' = mine
    BY <1>0, <1>3 DEF OnRewards, control, stats
  <2>. QED  BY <1>0, <2>1, <2>2, NodeIs, SameEpoch
<1>4. CASE NodeFails
  BY <1>4, RestartCourse DEF NodeFails
<1>5. CASE Interrupted
  BY <1>0, <1>5, NodeIs DEF Interrupted, Course, InPass, control
<1>6. CASE SkipSlot
  <2>0. AtNode("block") /\ Gap \in Nat /\ Gap < pass.cur /\ counted' = Gap
    BY <1>6, GapIs DEF SkipSlot, InGap, CourseInv
  <2>1. pass' = pass \/ pass' = [pass EXCEPT !.emitted = Gap]
    BY <1>6 DEF SkipSlot
  <2>2. /\ pass'.todo = pass.todo /\ pass'.epoch = pass.epoch /\ pass'.last = pass.last /\ pass'.cur = pass.cur
        /\ pass'.snap = pass.snap /\ pass'.node = pass.node
    BY <1>0, <2>1, NodeIs DEF PassType
  <2>3. pc' = "node" /\ start' = start /\ highest' = highest /\ mine'.current = Gap
    BY <1>0, <1>6, NodeIs DEF SkipSlot, control, Mine
  <2>4. pass.snap[1] \in Nat /\ pass.snap[1] <= counted /\ EpochFirst(pass.epoch) <= pass.snap[1] + 1
    BY <1>0, <2>0, AtBlockNodeIs DEF CourseInv, Course, AtNode, Counted
  <2>5. Gap = counted + 1
    BY DEF Gap
  <2>. QED  BY <1>0, <2>0, <2>2, <2>3, <2>4, <2>5, NodeIs, SameEpoch
<1>7. CASE SkipFails
  BY <1>7, RestartCourse DEF SkipFails
<1>8. CASE DropDuplicate
  <2>1. pass' = [pass EXCEPT !.node = "none", !.snap = <<>>]
    BY <1>8 DEF DropDuplicate
  <2>2. /\ pass'.todo = pass.todo /\ pass'.epoch = pass.epoch /\ pass'.last = pass.last /\ pass'.cur = pass.cur
    BY <1>0, <2>1, NodeIs DEF PassType
  <2>3. pc' \in {"loop", "done"} /\ start' = start /\ highest' = highest /\ mine' = mine /\ counted' = counted
    BY <1>8 DEF DropDuplicate, control, stats, AfterBlock
  <2>4. pass.cur <= counted
    BY <1>8 DEF DropDuplicate, Duplicate
  <2>. QED  BY <1>0, <2>2, <2>3, <2>4, NodeIs, SameEpoch
<1>9. CASE DeliverBlock
  <2>1. pass' = [pass EXCEPT !.node = "none", !.snap = <<>>, !.prev = pass.hash,
                             !.emitted = Max2(pass.emitted, pass.cur)]
    BY <1>9 DEF DeliverBlock
  <2>2. /\ pass'.todo = pass.todo /\ pass'.epoch = pass.epoch /\ pass'.last = pass.last /\ pass'.cur = pass.cur
    BY <1>0, <2>1, NodeIs DEF PassType
  <2>3. pc' \in {"loop", "done"} /\ start' = start /\ highest' = highest /\ mine'.current = pass.cur
        /\ counted' = Max2(counted, pass.cur)
    BY <1>0, <1>9, NodeIs DEF DeliverBlock, control, AfterBlock, Mine
  <2>4. counted' \in Nat /\ pass.cur <= counted' /\ counted <= counted' /\ counted' <= pass.last
    BY <1>0, <2>3, NodeIs DEF Max2
  <2>. QED  BY <1>0, <2>2, <2>3, <2>4, NodeIs, SameEpoch
<1>10. CASE BlockFails
  BY <1>10, RestartCourse DEF BlockFails
<1>11. CASE PulseFails
  BY <1>11, RestartCourse DEF PulseFails
<1>. QED  BY <1>1, <1>2, <1>3, <1>4, <1>5, <1>6, <1>7, <1>8, <1>9, <1>10, <1>11 DEF Nodes, BlockNode

LEMMA CourseStep == CourseInv /\ [Next]_vars => CourseInv'
<1> SUFFICES ASSUME CourseInv, [Next]_vars PROVE CourseInv'
  OBVIOUS
<1>1. StreamInv'
  BY StreamStep DEF CourseInv
<1>2. Aligned'
  BY DEF CourseInv, Aligned, Top, EpochOf, EpochFirst
<1>3. Course'
  <2>1. CASE Work
    BY <2>1, EpochStepCourse, BatchStepCourse, NodeStepCourse DEF Work
  <2>2. CASE PollShutdown
    BY <2>2 DEF PollShutdown, CourseInv, Course, InPass, control
  <2>3. CASE UNCHANGED vars
    BY <2>3 DEF vars, control, stats, seen, CourseInv, Course, InPass, Front
  <2>. QED  BY <2>1, <2>2, <2>3 DEF Next, Terminated
<1>. QED  BY <1>1, <1>2, <1>3 DEF CourseInv

LEMMA InitCourse == Instance /\ Aligned /\ Init => CourseInv
  BY InitTypes DEF CourseInv, Course, Init, InPass

-----------------------------------------------------------------------------
(* A block is counted once.                                                *)

\* What was processed is behind the thread, and no block that is counted as
\* skipped was processed.  An error attributed to an earlier epoch, after the last
\* epoch was left, must not bring the thread back to it: where the thread would start
\* again, it has counted past all that it processed of that epoch.
OnceInv ==
  /\ Going => processed \subseteq Passed /\ pending \cap processed = {}
  /\ pc = "node" /\ pass.node = "block" => processed \subseteq Behind(pass.epoch, pass.snap[1] + 1)
  /\ pc \in {"boundary", "epoch"} =>
       \A p \in processed : IF Reverse THEN EpochOf(p) = highest => p <= counted /\ counted < EpochLast(highest)
                            ELSE p <= counted
  /\ CountedOnce

\* Going forward, what is behind the thread is what is below its slot.
LEMMA ForwardBehind ==
  ASSUME EpochAssumption, RangeAssumption, ~Reverse, NEW e \in Nat, NEW s \in Nat, NEW p \in Slots,
         EpochFirst(e) <= s, s <= EpochLast(e) + 1
  PROVE  p \in Behind(e, s) <=> p < s
<1>1. p \in Nat /\ EpochOf(p) \in Nat /\ EpochFirst(EpochOf(p)) <= p /\ p <= EpochLast(EpochOf(p))
  BY EpochHolds DEF Slots, RangeAssumption
<1>2. /\ EpochFirst(e) \in Nat /\ EpochLast(e) \in Nat
      /\ EpochFirst(EpochOf(p)) \in Nat /\ EpochLast(EpochOf(p)) \in Nat
  BY <1>1 DEF EpochFirst, EpochLast, EpochAssumption
<1>3. p \in Behind(e, s) <=> EpochOf(p) < e \/ (EpochOf(p) = e /\ p < s)
  BY DEF Behind, Past
<1>4. EpochOf(p) < e => EpochLast(EpochOf(p)) < EpochFirst(e)
  BY <1>1, EpochOrder
<1>5. e < EpochOf(p) => EpochLast(e) < EpochFirst(EpochOf(p))
  BY <1>1, EpochOrder
<1>. QED  BY <1>1, <1>2, <1>3, <1>4, <1>5

\* After a restart the thread stands behind all that was processed.
LEMMA RestartOnce ==
  ASSUME CourseInv, NEW slot \in Resume, NEW c \in Counted, NEW h \in -1 .. Top, NEW e \in Lowest .. Top,
         Restart(slot, c, h), UNCHANGED processed,
         Reverse => h = e \/ h = e - 1,
         \A p \in processed :
           IF Reverse
           THEN /\ e <= EpochOf(p)
                /\ EpochOf(p) = e =>
                     /\ p <= c /\ c <= EpochLast(e)
                     /\ slot <= c + 1 \/ EpochOf(slot) = e
                     /\ c < EpochLast(e) \/ c = 0 \/ EpochFirst(e) <= slot
           ELSE p <= c
  PROVE  /\ (processed \subseteq Passed)' /\ (pending \cap processed = {})' /\ pc' = "boundary"
         /\ \A p \in processed' : IF Reverse THEN EpochOf(p) = highest' => p <= counted' /\ counted' < EpochLast(highest')
                                  ELSE p <= counted'
<1>0. /\ FirstSlot \in Nat /\ EndSlot \in Nat /\ Lowest \in Nat /\ Top \in Nat /\ EpochAssumption
      /\ RangeAssumption /\ e \in Nat /\ slot \in Nat /\ c \in Nat /\ h \in Int
  BY Epochs0 DEF CourseInv, StreamInv, Instance, RangeAssumption, Resume, Counted
<1>1. pc' = "boundary" /\ counted' = c /\ pending' = {} /\ processed' = processed
  BY DEF Restart
<1>2. \A p \in processed : p \in Slots /\ p \in Nat
  BY <1>0 DEF CourseInv, StreamInv, TypeInv, Slots
<1> DEFINE r == ResumeSlot(slot, c)
<1>3. r \in Nat /\ c < r /\ (r = c + 1 \/ r = slot) /\ (slot <= c + 1 => r = c + 1)
  BY <1>0 DEF ResumeSlot
<1> HIDE DEF r
<1>4. EpochOf(r) \in Nat /\ EpochOf(c) \in Nat /\ EpochOf(slot) \in Nat
  BY <1>0, <1>3, EpochHolds
<1>5. CASE ~Reverse
  <2>1. start' = r
    BY <1>5 DEF Restart, r
  <2>2. EpochFirst(EpochOf(r)) <= r /\ r <= EpochLast(EpochOf(r)) /\ EpochFirst(EpochOf(r)) \in Nat
        /\ EpochLast(EpochOf(r)) \in Nat
    BY <1>0, <1>3, <1>4, EpochHolds DEF EpochFirst, EpochLast, EpochAssumption
  <2>3. Passed' = Behind(EpochOf(r), r)
    <3>1. Front' = EpochOf(r)
      BY <1>1, <1>5, <2>1 DEF Front, EpochOf
    <3>2. LocalStart(Front)' = r
      BY <1>3, <1>5, <2>1, <2>2, <3>1 DEF LocalStart, Max2, EpochFirst
    <3>. QED  BY <1>1, <3>1, <3>2 DEF Passed, Behind, Past
  <2>4. ASSUME NEW p \in processed PROVE p \in Behind(EpochOf(r), r)
    <3>1. p < r /\ p \in Slots
      BY <1>2, <1>3, <1>0, <1>5
    <3>. QED  BY <1>0, <1>3, <1>4, <1>5, <2>2, <3>1, ForwardBehind
  <2>. QED  BY <1>1, <1>5, <2>3, <2>4
<1>6. CASE Reverse
  <2> DEFINE n == ReverseResume(slot, c, h)
  <2>1. partial' = n.partial /\ highest' = n.highest /\ start' = start
    BY <1>6 DEF Restart
  <2>2. \/ EpochOf(slot) >= EpochOf(c) /\ EpochOf(r) > EpochOf(c) /\ n.partial = NoSlot
           /\ n.highest = (IF h = EpochOf(c) THEN h - 1 ELSE h)
        \/ ~(EpochOf(slot) >= EpochOf(c) /\ EpochOf(r) > EpochOf(c)) /\ n.partial = r /\ n.highest = h
    BY DEF ReverseResume, r
  <2> HIDE DEF n
  <2>3. n.highest \in Int /\ n.highest <= e
    BY <1>0, <1>6, <2>2
  <2>4. \A p \in processed : EpochOf(p) \in Nat /\ e <= EpochOf(p)
    BY <1>0, <1>2, <1>6, EpochHolds
  <2>5. Front' = n.highest
    BY <1>1, <1>6, <2>1 DEF Front
  <2>6. \A p \in Slots : n.highest < EpochOf(p) => p \in Passed'
    BY <1>6, <2>5 DEF Passed, Behind, Past, EpochOf
  <2>7. ASSUME NEW p \in processed, EpochOf(p) = n.highest
        PROVE  p \in Passed' /\ p <= c /\ c < EpochLast(e) /\ n.highest = e
    <3>1. n.highest = e /\ h = e
      BY <1>0, <1>6, <2>2, <2>3, <2>4, <2>7
    <3>2. p <= c /\ c <= EpochLast(e) /\ (slot <= c + 1 \/ EpochOf(slot) = e)
          /\ (c < EpochLast(e) \/ c = 0 \/ EpochFirst(e) <= slot)
      BY <1>6, <2>7, <3>1
    <3>3. EpochFirst(e) <= p /\ p \in Nat /\ EpochFirst(e) \in Nat /\ EpochLast(e) \in Nat
      BY <1>0, <1>2, <2>7, <3>1, EpochHolds DEF EpochFirst, EpochLast, EpochAssumption
    <3>4. EpochOf(c) = e
      BY <1>0, <3>2, <3>3, EpochIs
    <3>5. ~(EpochOf(slot) >= EpochOf(c) /\ EpochOf(r) > EpochOf(c)) /\ n.partial = r
      BY <1>0, <2>2, <3>1, <3>4
    <3>6. e <= EpochOf(r) /\ EpochFirst(EpochOf(r)) <= r /\ r <= EpochLast(EpochOf(r))
      BY <1>0, <1>3, <3>4, EpochMonotone, EpochHolds
    <3>7. EpochOf(r) = e
      <4>1. SUFFICES ASSUME e < EpochOf(r) PROVE FALSE
        BY <1>4, <3>6, <1>0
      <4>2. EpochOf(slot) < e
        BY <1>0, <1>4, <3>4, <3>5, <4>1
      <4>3. slot < EpochFirst(e)
        <5>1. e <= EpochOf(slot) \/ slot < EpochFirst(e)
          BY <1>0, <3>3, EpochIs, EpochMonotone, EpochHolds, EpochOrder
        <5>. QED  BY <1>0, <1>4, <4>2, <5>1
      <4>4. c < EpochLast(e) \/ c = 0
        BY <1>0, <3>2, <3>3, <4>3
      <4>5. c # 0
        BY <1>0, <3>2, <3>3, <4>3
      <4>6. r = c + 1 /\ r <= EpochLast(e) /\ EpochFirst(e) <= r
        BY <1>0, <1>3, <1>4, <3>2, <3>3, <4>2, <4>4, <4>5
      <4>7. EpochOf(r) = e
        BY <1>0, <1>3, <4>6, EpochIs
      <4>. QED  BY <1>0, <4>1, <4>7
    <3>8. c < EpochLast(e)
      BY <1>0, <1>3, <3>3, <3>6, <3>7
    <3>9. LocalStart(Front)' = Max2(EpochFirst(e), r)
      <4>1. partial' = r /\ partial' # NoSlot /\ EpochOf(partial') = e /\ Front' = e
        BY <1>3, <2>1, <2>5, <3>1, <3>5, <3>7 DEF NoSlot
      <4>. QED  BY <1>6, <4>1 DEF LocalStart, EpochOf, EpochFirst, Max2
    <3>10. p < LocalStart(Front)'
      BY <1>0, <1>3, <3>2, <3>3, <3>9 DEF Max2
    <3>11. p \in Passed'
      BY <1>1, <1>2, <2>5, <2>7, <3>10 DEF Passed, Behind, EpochOf
    <3>. QED  BY <3>1, <3>2, <3>8, <3>11
  <2>8. \A p \in processed : p \in Passed'
    BY <1>2, <2>3, <2>4, <2>6, <2>7
  <2>. QED  BY <1>1, <1>6, <2>1, <2>7, <2>8
<1>. QED  BY <1>5, <1>6

OnceAll == CourseInv /\ OnceInv

\* Within an epoch, what is behind the thread ends with the last counted slot.
LEMMA InEpoch ==
  ASSUME CourseInv, pc \in {"loop", "node"}
  PROVE  /\ Passed = Behind(pass.epoch, counted + 1)
         /\ pass.epoch = Front /\ pass.epoch \in Lowest .. Top /\ pass.epoch \in Nat
         /\ EpochFirst(pass.epoch) <= counted + 1 /\ counted <= EpochLast(pass.epoch)
         /\ EpochFirst(pass.epoch) \in Nat /\ EpochLast(pass.epoch) \in Nat /\ counted \in Nat
         /\ Reverse => highest = pass.epoch
<1>1. pass.epoch = Front /\ pass.epoch \in Lowest .. Top /\ Lowest \in Nat /\ Top \in Nat
      /\ (Reverse => highest = Front)
  BY FrontIs DEF CourseInv, StreamInv, TypeInv, Streaming, InPass, Course
<1>2. Passed = Behind(pass.epoch, counted + 1)
  BY <1>1 DEF Passed
<1>3. pass.epoch \in Nat /\ EpochFirst(pass.epoch) \in Nat /\ EpochLast(pass.epoch) \in Nat /\ counted \in Nat
  BY <1>1 DEF EpochFirst, EpochLast, CourseInv, StreamInv, Instance, EpochAssumption, TypeInv, Counted
<1>4. EpochFirst(pass.epoch) <= counted + 1 /\ counted <= pass.last /\ pass.last = LocalLast(pass.epoch)
  BY DEF CourseInv, Course, StreamInv, TypeInv, Streaming
<1>5. counted <= EpochLast(pass.epoch)
  BY <1>1, <1>3, <1>4, Window DEF CourseInv
<1>. QED  BY <1>1, <1>2, <1>3, <1>4, <1>5

\* Where the thread has what it processed behind it.
LEMMA PassedIs ==
  ASSUME OnceAll, pc \in {"loop", "node"}
  PROVE  /\ Passed = Behind(pass.epoch, counted + 1) /\ processed \subseteq Behind(pass.epoch, counted + 1)
         /\ pass.epoch = Front /\ pass.epoch \in Lowest .. Top /\ pass.epoch \in Nat
         /\ EpochFirst(pass.epoch) <= counted + 1 /\ counted <= EpochLast(pass.epoch)
         /\ EpochFirst(pass.epoch) \in Nat /\ EpochLast(pass.epoch) \in Nat /\ counted \in Nat
         /\ Reverse => highest = pass.epoch
<1>1. processed \subseteq Passed
  BY DEF OnceAll, OnceInv, Going
<1>. QED  BY <1>1, InEpoch DEF OnceAll

\* What is behind slot s of epoch e, for a restart of that epoch.
LEMMA BehindGives ==
  ASSUME OnceAll, NEW e \in Nat, NEW c \in Nat, EpochFirst(e) <= c + 1, c <= EpochLast(e),
         processed \subseteq Behind(e, c + 1)
  PROVE  \A p \in processed :
           IF Reverse THEN e <= EpochOf(p) /\ (EpochOf(p) = e => p <= c) ELSE p <= c
<1>1. \A p \in processed : p \in Slots /\ p \in Nat /\ EpochOf(p) \in Nat
  BY EpochHolds DEF OnceAll, CourseInv, StreamInv, TypeInv, Slots, Instance, RangeAssumption
<1>2. CASE Reverse
  BY <1>1, <1>2 DEF Behind, Past
<1>3. CASE ~Reverse
  <2>1. EpochAssumption /\ RangeAssumption
    BY DEF OnceAll, CourseInv, StreamInv, Instance
  <2>2. EpochLast(e) \in Nat /\ c + 1 \in Nat /\ c + 1 <= EpochLast(e) + 1
    BY <2>1 DEF EpochLast, EpochAssumption
  <2>3. \A p \in processed : p < c + 1
    BY <1>1, <1>3, <2>1, <2>2, ForwardBehind
  <2>. QED  BY <1>1, <1>3, <2>3
<1>. QED  BY <1>2, <1>3

\* A restart within an epoch.
LEMMA RestartWithin ==
  ASSUME OnceAll, pc \in {"loop", "node"}, NEW slot \in Resume, NEW c \in Counted, NEW h \in -1 .. Top,
         Restart(slot, c, h), UNCHANGED <<processed, overall>>,
         Reverse => h = highest \/ h = highest - 1,
         processed \subseteq Behind(pass.epoch, c + 1),
         EpochFirst(pass.epoch) <= c + 1, c <= EpochLast(pass.epoch),
         slot <= c + 1 \/ EpochOf(slot) = pass.epoch,
         c < EpochLast(pass.epoch) \/ c = 0 \/ EpochFirst(pass.epoch) <= slot
  PROVE  OnceInv'
<1>1. \A p \in processed :
        IF Reverse THEN pass.epoch <= EpochOf(p) /\ (EpochOf(p) = pass.epoch => p <= c) ELSE p <= c
  BY PassedIs, BehindGives DEF Counted
<1>2. CourseInv /\ pass.epoch \in Lowest .. Top /\ (Reverse => h = pass.epoch \/ h = pass.epoch - 1)
  BY PassedIs DEF OnceAll
<1>3. /\ (processed \subseteq Passed)' /\ (pending \cap processed = {})' /\ pc' = "boundary"
      /\ \A p \in processed' : IF Reverse THEN EpochOf(p) = highest' => p <= counted' /\ counted' < EpochLast(highest')
                               ELSE p <= counted'
  BY <1>1, <1>2, RestartOnce
<1>4. CountedOnce'
  BY DEF OnceAll, OnceInv, CountedOnce
<1>. QED  BY <1>3, <1>4 DEF OnceInv, EpochOf, EpochLast

\* A pass starts where the error path left the thread.
LEMMA StartFront ==
  ASSUME CourseInv, StartPass, pc' = "epoch"
  PROVE  Front' = Front /\ Passed' = Passed /\ LocalStart(Front)' = LocalStart(Front)
<1>1. pc = "boundary" /\ UNCHANGED <<start, highest, partial, counted>>
  BY DEF StartPass, control
<1>2. Front' = Front
  <2>1. CASE Reverse
    BY <1>1, <2>1, CourseStep DEF CourseInv, Course, InPass, Front, Next, Work, Epochs
  <2>2. CASE ~Reverse
    <3>1. pass'.todo = Ascending(EpochOf(start), Top)
      BY <1>1, <2>2 DEF StartPass, NoPass
    <3>2. EpochOf(start) \in Int /\ Top \in Int /\ EpochOf(start) <= Top + 1 /\ Instance
      BY StartFits, Epochs0 DEF CourseInv, StreamInv, Instance
    <3>3. Len(pass'.todo) = Top - EpochOf(start) + 1
      BY <3>1, <3>2, TodoTypes
    <3>4. Front' = Top - (Len(pass'.todo) - 1) /\ Front = EpochOf(start)
      BY <1>1, <2>2 DEF Front
    <3>. QED  BY <3>2, <3>3, <3>4
  <2>. QED  BY <2>1, <2>2
<1>3. LocalStart(Front)' = LocalStart(Front)
  BY <1>1, <1>2 DEF LocalStart, EpochOf, EpochFirst, Max2
<1>4. Passed' = Passed
  BY <1>1, <1>2, <1>3 DEF Passed, Behind, Past, EpochOf
<1>. QED  BY <1>2, <1>3, <1>4

LEMMA EpochStepOnce ==
  ASSUME OnceAll, CourseInv', Epochs PROVE OnceInv'
<1>0. /\ FirstSlot \in Nat /\ EndSlot \in Nat /\ Lowest \in Nat /\ Top \in Nat
      /\ EpochAssumption /\ RangeAssumption /\ StreamInv /\ counted \in Nat /\ CourseInv /\ counted \in Counted
      /\ processed' = processed /\ overall' = overall /\ CountedOnce' /\ FirstSlot <= counted + 1
  BY Epochs0 DEF OnceAll, OnceInv, CountedOnce, CourseInv, StreamInv, Instance, RangeAssumption, TypeInv, Counted,
     Epochs, StartPass, SkipEpoch, OpenEpoch, OpenFails, SeekFails, PassEnds, stats, seen
<1>00. \A p \in processed : p \in Slots /\ p \in Nat /\ EpochOf(p) \in Nat
  BY <1>0, EpochHolds DEF StreamInv, TypeInv, Slots
<1>1. CASE StartPass
  <2>1. /\ pc = "boundary" /\ pc' \in {"done", "epoch"}
        /\ UNCHANGED <<start, highest, partial, counted, pending, processed>>
    BY <1>1 DEF StartPass, control, seen
  <2>2. pc' = "epoch" => Passed' = Passed
    BY <1>0, <1>1, StartFront
  <2>. QED  BY <1>0, <2>1, <2>2 DEF OnceAll, OnceInv, Going, EpochOf, EpochLast
<1>2. CASE SkipEpoch
  <2>1. /\ pc = "epoch" /\ pass.todo # <<>> /\ pass' = [pass EXCEPT !.todo = Tail(@)] /\ pass \in PassType
        /\ ~Overlaps(Head(pass.todo)) /\ pc' = "epoch"
        /\ UNCHANGED <<start, highest, partial, counted, pending, processed>>
    BY <1>0, <1>2 DEF SkipEpoch, AtEpoch, control, seen, StreamInv, TypeInv
  <2>2. ~Reverse /\ pass'.todo = Tail(pass.todo)
    BY <1>0, <2>1, FrontIs, ReverseOverlaps DEF InPass, PassType
  <2>3. Front' = Front + 1 /\ Front \in Int
    BY <1>0, <2>1, <2>2, NextFront, FrontIs DEF InPass
  <2>4. Passed \subseteq Passed'
    <3>1. \A p \in Passed : p \in Slots /\ EpochOf(p) <= Front /\ EpochOf(p) \in Nat
      BY <1>0, <2>2, <2>3, EpochHolds DEF Passed, Behind, Past, Slots
    <3>. QED  BY <2>2, <2>3, <3>1 DEF Passed, Behind, Past, EpochOf
  <2>. QED  BY <1>0, <2>1, <2>2, <2>4 DEF OnceAll, OnceInv, Going
<1>3. CASE OpenEpoch
  <2> DEFINE e == Head(pass.todo)  s == LocalStart(e)
  <2>1. /\ pc = "epoch" /\ pass.todo # <<>> /\ Overlaps(e) /\ pc' = "loop" /\ counted' = Dec(s)
        /\ UNCHANGED <<start, highest, partial, pending, processed>>
    BY <1>3 DEF OpenEpoch, AtEpoch, control, seen
  <2>2. e = Front /\ e \in Lowest .. Top /\ s \in Nat
    BY <1>0, <2>1, FrontIs, Window DEF InPass
  <2>3. s <= Dec(s) + 1 /\ Dec(s) + 1 \in Nat
    BY <2>2 DEF Dec, Max2
  <2>4. pass'.todo = pass.todo
    BY <1>0, <1>3 DEF OpenEpoch, StreamInv, TypeInv, PassType
  <2>5. Front' = Front
    BY <2>1, <2>4 DEF Front
  <2>6. Passed = Behind(Front, s)
    BY <2>1, <2>2 DEF Passed
  <2>7. Passed' = Behind(Front, Dec(s) + 1)
    BY <2>1, <2>5 DEF Passed, Behind, Past, EpochOf
  <2> HIDE DEF s
  <2>8. \A p \in processed : p < s => p < Dec(s) + 1
    BY <1>00, <2>2, <2>3
  <2>9. processed \subseteq Passed'
    BY <1>00, <2>1, <2>6, <2>7, <2>8 DEF OnceAll, OnceInv, Going, Behind
  <2>. QED  BY <1>0, <2>1, <2>9 DEF OnceAll, OnceInv, Going
<1>4. CASE OpenFails
  <2> DEFINE e == Head(pass.todo)
  <2>1. pc = "epoch" /\ pass.todo # <<>> /\ Restart(AtCurrent, counted, highest)
    BY <1>4 DEF OpenFails, AtEpoch
  <2>a. e = Front /\ e \in Lowest .. Top /\ e \in Nat /\ InPass
    BY <1>0, <2>1, FrontIs DEF InPass
  <2>2. e = Front /\ e \in Lowest .. Top /\ (Reverse => highest = e) /\ pass.cur <= counted
        /\ (Reverse => start = FirstSlot) /\ e \in Nat
    BY <1>0, <2>1, <2>a DEF CourseInv, Course
  <2>3. AtCurrent \in Resume /\ counted \in Counted /\ highest \in -1 .. Top
    BY <1>0, CountIsKept DEF StreamInv, TypeInv
  <2>4. Reverse => AtCurrent <= counted + 1
    <3>1. pass.cur # NoSlot => pass.cur \in Nat
      BY <1>0 DEF StreamInv, TypeInv, PassType, Slots
    <3>. QED  BY <1>0, <2>2, <3>1 DEF AtCurrent
  <2>5. ASSUME NEW p \in processed
        PROVE  IF Reverse
               THEN /\ e <= EpochOf(p)
                    /\ EpochOf(p) = e =>
                         /\ p <= counted /\ counted <= EpochLast(e)
                         /\ AtCurrent <= counted + 1 \/ EpochOf(AtCurrent) = e
                         /\ counted < EpochLast(e) \/ counted = 0 \/ EpochFirst(e) <= AtCurrent
               ELSE p <= counted
    <3>1. p \in Passed
      BY <2>1 DEF OnceAll, OnceInv, Going
    <3>2. Reverse => e <= EpochOf(p)
      BY <1>00, <2>1, <2>2, <3>1 DEF Passed, Behind, Past
    <3>3. IF Reverse THEN EpochOf(p) = e => p <= counted /\ counted < EpochLast(e) ELSE p <= counted
      BY <2>1, <2>2 DEF OnceAll, OnceInv
    <3>4. EpochLast(e) \in Nat
      BY <1>0, <2>2 DEF EpochLast, EpochAssumption
    <3>. QED  BY <1>0, <2>4, <3>2, <3>3, <3>4
  <2> HIDE DEF e
  <2>6. /\ (processed \subseteq Passed)' /\ (pending \cap processed = {})' /\ pc' = "boundary"
        /\ \A p \in processed' : IF Reverse THEN EpochOf(p) = highest' => p <= counted' /\ counted' < EpochLast(highest')
                                 ELSE p <= counted'
    BY <1>0, <2>1, <2>2, <2>3, <2>5, RestartOnce
  <2>. QED  BY <1>0, <2>6 DEF OnceInv, EpochOf, EpochLast
<1>5. CASE SeekFails
  <2> DEFINE e == Head(pass.todo)  s == LocalStart(e)
  <2>1. pc = "epoch" /\ pass.todo # <<>> /\ Overlaps(e) /\ EpochFirst(e) < s /\ Restart(s, s - 1, highest)
    BY <1>5 DEF SeekFails, AtEpoch
  <2>a. e = Front /\ e \in Lowest .. Top /\ e \in Nat /\ InPass
    BY <1>0, <2>1, FrontIs DEF InPass
  <2>2. e = Front /\ e \in Lowest .. Top /\ (Reverse => highest = e) /\ e \in Nat
    BY <1>0, <2>1, <2>a DEF CourseInv, Course
  <2>b. s \in Slots /\ s \in Nat /\ EpochOf(s) = e
    BY <1>0, <2>1, <2>2, Window
  <2>3. s \in Slots /\ s \in Nat /\ EpochFirst(e) \in Nat /\ EpochOf(s) = e /\ s <= EpochLast(e) /\ EpochLast(e) \in Nat
    BY <1>0, <2>2, <2>b, EpochHolds DEF EpochFirst, EpochLast, EpochAssumption
  <2>4. s \in Resume /\ s - 1 \in Counted /\ s - 1 \in Nat /\ highest \in -1 .. Top
    BY <1>0, <2>1, <2>3 DEF Resume, Slots, Counted, StreamInv, TypeInv
  <2>5. processed \subseteq Behind(e, s)
    BY <2>1, <2>2 DEF OnceAll, OnceInv, Going, Passed
  <2> HIDE DEF e, s
  <2>6. s = (s - 1) + 1 /\ EpochFirst(e) <= (s - 1) + 1 /\ s - 1 <= EpochLast(e) /\ s - 1 < EpochLast(e)
        /\ s <= (s - 1) + 1
    BY <2>1, <2>3
  <2>7. processed \subseteq Behind(e, (s - 1) + 1)
    BY <2>5, <2>6
  <2>8. \A p \in processed :
          IF Reverse THEN e <= EpochOf(p) /\ (EpochOf(p) = e => p <= s - 1) ELSE p <= s - 1
    BY <2>2, <2>4, <2>6, <2>7, BehindGives
  <2>9. \A p \in processed :
           IF Reverse
           THEN /\ e <= EpochOf(p)
                /\ EpochOf(p) = e =>
                     /\ p <= s - 1 /\ s - 1 <= EpochLast(e)
                     /\ s <= (s - 1) + 1 \/ EpochOf(s) = e
                     /\ s - 1 < EpochLast(e) \/ s - 1 = 0 \/ EpochFirst(e) <= s
           ELSE p <= s - 1
    BY <2>6, <2>8
  <2>10. /\ (processed \subseteq Passed)' /\ (pending \cap processed = {})' /\ pc' = "boundary"
         /\ \A p \in processed' : IF Reverse THEN EpochOf(p) = highest' => p <= counted' /\ counted' < EpochLast(highest')
                                  ELSE p <= counted'
    BY <1>0, <2>1, <2>2, <2>4, <2>9, RestartOnce
  <2>. QED  BY <1>0, <2>10 DEF OnceInv, EpochOf, EpochLast
<1>6. CASE PassEnds
  BY <1>0, <1>6 DEF PassEnds, OnceInv, Going
<1>. QED  BY <1>1, <1>2, <1>3, <1>4, <1>5, <1>6 DEF Epochs

\* A step within an epoch that processes nothing.
LEMMA OnceStays ==
  ASSUME OnceAll, pc \in {"loop", "node"}, pc' \in {"loop", "node", "done", "stopped"},
         pass'.todo = pass.todo, pass'.epoch = pass.epoch,
         UNCHANGED <<counted, pending, processed, overall>>,
         pc' = "node" /\ pass'.node = "block" => processed \subseteq Behind(pass.epoch, pass'.snap[1] + 1)
  PROVE  OnceInv'
<1>1. Front' = Front
  BY DEF Front
<1>2. pc' \in {"loop", "node"} => Passed' = Passed
  BY <1>1 DEF Passed, Behind, Past, EpochOf
<1>3. Behind(pass.epoch, pass.snap[1] + 1)' = Behind(pass.epoch, pass'.snap[1] + 1)
  BY DEF Behind, Past, EpochOf
<1>. QED  BY <1>2, <1>3 DEF OnceAll, OnceInv, Going, CountedOnce, Behind, Past, EpochOf

LEMMA BatchStepOnce ==
  ASSUME OnceAll, CourseInv', Batches PROVE OnceInv'
<1>0. /\ pc = "loop" /\ pass \in PassType /\ StreamInv /\ CourseInv /\ Course
      /\ pass.cur \in Slots \cup {NoSlot} /\ counted \in Counted /\ highest \in -1 .. Top
      /\ pass.cur # NoSlot => EpochOf(pass.cur) = pass.epoch
      /\ pass.cur <= counted /\ EpochFirst(pass.epoch) <= mine.current /\ mine.current <= pass.last
      /\ pass.cur = NoSlot => counted < EpochLast(pass.epoch) \/ counted = 0
      /\ processed' = processed /\ overall' = overall
  BY DEF Batches, BeforeRange, TakeBlock, ReadFails, PrematureEnd, EpochEnds, EpochEndPulseFails, AtBlock,
         OnceAll, CourseInv, Course, StreamInv, TypeInv, PassType, stats, seen
<1>b. /\ counted + 1 \in Resume /\ AfterCurrent \in Resume /\ mine.current \in Resume /\ counted \in Nat
      /\ mine.current \in Nat /\ FirstSlot \in Nat /\ EpochAssumption /\ FirstSlot <= counted + 1
  BY <1>0, CountIsKept DEF StreamInv, Instance, Resume, Counted
<1>1. CASE BeforeRange
  <2>1. /\ pass'.todo = pass.todo /\ pass'.epoch = pass.epoch
    BY <1>0, <1>1 DEF BeforeRange, PassType
  <2>. QED  BY <1>0, <1>1, <2>1, OnceStays DEF BeforeRange
<1>2. CASE TakeBlock
  <2>1. pass' = [pass EXCEPT !.cur = Ahead, !.pos = pass.pos + 1, !.node = "tx"]
    BY <1>2 DEF TakeBlock
  <2>2. /\ pass'.todo = pass.todo /\ pass'.epoch = pass.epoch /\ pass'.node = "tx"
    BY <1>0, <2>1 DEF PassType
  <2>. QED  BY <1>0, <1>2, <2>2, OnceStays DEF TakeBlock
<1>3. CASE ReadFails
  <2>1. Restart(AfterCurrent, counted, highest)
    BY <1>3 DEF ReadFails
  <2>2. CASE pass.cur = NoSlot
    <3>1. Reverse => AfterCurrent <= counted + 1
      BY <1>0, <1>b, <2>2 DEF AfterCurrent, Course
    <3>2. counted < EpochLast(pass.epoch) \/ counted = 0
      BY <1>0, <2>2
    <3>3. CASE Reverse
      BY <1>0, <2>1, <1>b, <3>1, <3>2, <3>3, PassedIs, RestartWithin
    <3>4. CASE ~Reverse
      <4>1. \A p \in processed : p <= counted
        BY <1>0, <1>b, <3>4, PassedIs, BehindGives
      <4>2. pass.epoch \in Lowest .. Top
        BY <1>0, PassedIs
      <4>3. /\ (processed \subseteq Passed)' /\ (pending \cap processed = {})' /\ pc' = "boundary"
            /\ \A p \in processed' : IF Reverse THEN EpochOf(p) = highest' => p <= counted' /\ counted' < EpochLast(highest')
                                     ELSE p <= counted'
        BY <1>0, <1>b, <2>1, <3>4, <4>1, <4>2, RestartOnce
      <4>. QED  BY <1>0, <3>4, <4>3 DEF OnceAll, OnceInv, CountedOnce
    <3>. QED  BY <3>3, <3>4
  <2>3. CASE pass.cur # NoSlot
    <3>1. pass.cur \in Nat /\ AfterCurrent = pass.cur + 1 /\ AfterCurrent <= counted + 1
      BY <1>0, <1>b, <2>3 DEF AfterCurrent, Slots
    <3>2. EpochFirst(pass.epoch) <= AfterCurrent
      BY <1>0, <1>b, <2>3, <3>1, EpochHolds, PassedIs
    <3>. QED  BY <1>0, <2>1, <1>b, <3>1, <3>2, PassedIs, RestartWithin
  <2>. QED  BY <2>2, <2>3
<1>4. CASE PrematureEnd
  <2>1. Restart(counted + 1, counted, highest)
    BY <1>4 DEF PrematureEnd
  <2>. QED  BY <1>0, <2>1, <1>b, PassedIs, RestartWithin
<1>5. CASE EpochEnds
  <2>1. /\ pass.todo # <<>> /\ pass' = [pass EXCEPT !.todo = Tail(@)] /\ pc' = "epoch"
        /\ highest' = EpochDone /\ counted' = counted /\ pending' = {}
    BY <1>0, <1>5 DEF EpochEnds, StreamInv, TypeInv, Streaming
  <2>2. pass'.todo = Tail(pass.todo)
    BY <1>0, <2>1 DEF PassType
  <2>3. Front' = (IF Reverse THEN Front - 1 ELSE Front + 1)
    BY <1>0, <2>1, <2>2, NextFront DEF InPass
  <2>4. /\ processed \subseteq Behind(Front, counted + 1) /\ Front \in Nat /\ pass.epoch = Front
        /\ EpochFirst(Front) <= counted + 1 /\ counted <= EpochLast(Front) /\ (Reverse => highest = Front)
    BY <1>0, PassedIs
  <2>5. \A p \in processed : p \in Slots /\ EpochOf(p) \in Nat
    BY <1>0, <1>b, EpochHolds DEF StreamInv, TypeInv, Slots
  <2>6. \A p \in processed : p \in Past(Front')
    BY <2>3, <2>4, <2>5 DEF Behind, Past
  <2>7. processed' \subseteq Passed'
    BY <1>0, <2>1, <2>6 DEF Passed, Behind, Past, EpochOf
  <2>8. \A p \in processed :
          IF Reverse THEN Front <= EpochOf(p) ELSE p <= counted
    BY <1>b, <2>4, BehindGives
  <2>9. Reverse => highest' = Front - 1
    BY <2>1, <2>4 DEF EpochDone
  <2>10. \A p \in processed : Reverse => EpochOf(p) # highest'
    BY <2>4, <2>5, <2>8, <2>9
  <2>. QED  BY <1>0, <2>1, <2>7, <2>8, <2>10 DEF OnceAll, OnceInv, Going, CountedOnce, EpochOf
<1>6. CASE EpochEndPulseFails
  <2>1. Restart(mine.current, counted, EpochDone)
    BY <1>6 DEF EpochEndPulseFails
  <2>2. EpochDone \in -1 .. Top /\ (Reverse => EpochDone = highest - 1)
    BY <1>0, EpochDoneType, PassedIs DEF EpochDone
  <2>3. mine.current <= counted + 1 \/ EpochOf(mine.current) = pass.epoch
    <3>1. pass.last = LocalLast(pass.epoch) /\ LocalLast(pass.epoch) <= EpochLast(pass.epoch)
          /\ LocalLast(pass.epoch) \in Int /\ EpochLast(pass.epoch) \in Nat
      BY <1>0, PassedIs, Window DEF StreamInv, TypeInv, Streaming
    <3>2. mine.current <= EpochLast(pass.epoch)
      BY <1>0, <1>b, <3>1
    <3>. QED  BY <1>0, <1>b, <3>2, PassedIs, EpochIs
  <2>. QED  BY <1>0, <2>1, <2>2, <2>3, <1>b, PassedIs, RestartWithin
<1>. QED  BY <1>1, <1>2, <1>3, <1>4, <1>5, <1>6 DEF Batches

LEMMA NodeStepOnce ==
  ASSUME OnceAll, CourseInv', Nodes \/ BlockNode PROVE OnceInv'
<1>0. pc = "node" /\ CourseInv /\ StreamInv /\ highest \in -1 .. Top /\ counted \in Counted
  BY DEF Nodes, OnTransaction, OnEntry, OnRewards, NodeFails, Interrupted, AtNode, OnceAll, CourseInv, StreamInv, TypeInv,
     BlockNode, SkipSlot, SkipFails, DropDuplicate, DeliverBlock, BlockFails, PulseFails, AtBlockNode, InGap
<1>b. /\ processed \subseteq Behind(pass.epoch, counted + 1) /\ pending \cap processed = {}
      /\ counted \in Nat /\ pass.cur \in Nat /\ pass.cur \in Slots /\ pass.cur \in Resume
      /\ EpochOf(pass.cur) = pass.epoch
      /\ EpochFirst(pass.epoch) <= counted + 1 /\ counted <= EpochLast(pass.epoch)
      /\ EpochFirst(pass.epoch) <= pass.cur /\ pass.cur <= EpochLast(pass.epoch)
      /\ EpochFirst(pass.epoch) \in Nat /\ EpochLast(pass.epoch) \in Nat /\ pass.epoch \in Nat
  BY <1>0, NodeIs, PassedIs DEF OnceAll, OnceInv, Going, Slots, Resume, CourseInv, StreamInv, Instance, RangeAssumption
<1>1. CASE OnTransaction
  <2>1. /\ pass'.todo = pass.todo /\ pass'.epoch = pass.epoch /\ pass'.node = "entry"
    BY <1>0, <1>1, NodeIs DEF OnTransaction, PassType
  <2>2. UNCHANGED <<counted, pending, processed>> /\ pc' = "node"
    BY <1>0, <1>1 DEF OnTransaction, seen
  <2>3. overall'.blocks = overall.blocks
    <3>1. overall \in Counts /\ overall' = Plus(overall, OneTx)
      BY <1>0, <1>1 DEF OnTransaction, StreamInv, TypeInv
    <3>2. OneTx \in Counts /\ OneTx.blocks = 0
      BY SomeCounts
    <3>3. overall'.blocks = overall.blocks + OneTx.blocks
      BY <3>1, <3>2, PlusCounts
    <3>. QED  BY <3>1, <3>2, <3>3 DEF Counts
  <2>4. Front' = Front
    BY <1>0, <2>1, <2>2 DEF Front
  <2>5. Passed' = Passed
    BY <1>0, <2>2, <2>4 DEF Passed, Behind, Past, EpochOf
  <2>. QED  BY <1>0, <2>1, <2>2, <2>3, <2>5 DEF OnceAll, OnceInv, Going, CountedOnce
<1>2. CASE OnEntry
  <2>1. /\ pass'.todo = pass.todo /\ pass'.epoch = pass.epoch /\ pass'.node = "rewards"
    BY <1>0, <1>2, NodeIs DEF OnEntry, PassType
  <2>2. UNCHANGED <<counted, pending, processed, overall>> /\ pc' = "node"
    BY <1>0, <1>2 DEF OnEntry, seen, stats
  <2>. QED  BY <1>0, <2>1, <2>2, OnceStays
<1>3. CASE OnRewards
  <2>1. /\ pass'.todo = pass.todo /\ pass'.epoch = pass.epoch /\ pass'.snap[1] = counted
    BY <1>0, <1>3, NodeIs DEF OnRewards, PassType
  <2>2. UNCHANGED <<counted, pending, processed, overall>> /\ pc' = "node"
    BY <1>0, <1>3 DEF OnRewards, seen, stats
  <2>. QED  BY <1>0, <1>b, <2>1, <2>2, OnceStays
<1>4. CASE NodeFails
  <2>1. Restart(pass.cur, counted, highest) /\ UNCHANGED <<processed, overall>>
    BY <1>4 DEF NodeFails, seen
  <2>. QED  BY <1>0, <1>b, <2>1, RestartWithin
<1>5. CASE Interrupted
  <2>1. pc' = "stopped" /\ UNCHANGED <<processed, overall>>
    BY <1>5 DEF Interrupted, seen, stats
  <2>. QED  BY <2>1 DEF OnceAll, OnceInv, Going, CountedOnce
<1>6. CASE SkipSlot
  <2>0. AtNode("block") /\ Gap \in Nat /\ Gap < pass.cur /\ counted' = Gap /\ Gap = counted + 1
        /\ pending' = pending \cup {Gap} /\ processed' = processed /\ pc' = "node"
    BY <1>0, <1>6, GapIs DEF SkipSlot, InGap, Gap
  <2>1. pass' = pass \/ pass' = [pass EXCEPT !.emitted = Gap]
    BY <1>6 DEF SkipSlot
  <2>2. /\ pass'.todo = pass.todo /\ pass'.epoch = pass.epoch /\ pass'.snap = pass.snap /\ pass'.node = pass.node
    BY <1>0, <2>1, NodeIs DEF PassType
  <2>3. overall'.blocks = overall.blocks
    <3>1. overall \in Counts /\ overall' = Plus(overall, OneSlot)
      BY <1>0, <1>6 DEF SkipSlot, StreamInv, TypeInv
    <3>2. OneSlot \in Counts /\ OneSlot.blocks = 0
      BY SomeCounts
    <3>3. overall'.blocks = overall.blocks + OneSlot.blocks
      BY <3>1, <3>2, PlusCounts
    <3>. QED  BY <3>1, <3>2, <3>3 DEF Counts
  <2>4. pass.snap[1] \in Nat /\ pass.snap[1] <= counted /\ processed \subseteq Behind(pass.epoch, pass.snap[1] + 1)
    BY <1>0, <2>0, AtBlockNodeIs DEF OnceAll, OnceInv, CourseInv, Course, AtNode, Counted
  <2>5. EpochOf(Gap) = pass.epoch
    BY <1>0, <1>b, <2>0, EpochIs DEF StreamInv, Instance
  <2>6. Gap \notin processed
    BY <1>b, <2>0, <2>4, <2>5 DEF Behind, Past
  <2>7. Front' = Front /\ pass.epoch = Front
    BY <1>0, <2>0, <2>2, PassedIs DEF Front
  <2>8. Passed' = Behind(pass.epoch, Gap + 1)
    BY <1>0, <2>0, <2>7 DEF Passed, Behind, Past, EpochOf
  <2>9. \A p \in processed : p \in Slots /\ p \in Nat
    BY <1>0 DEF StreamInv, TypeInv, Slots, Instance, RangeAssumption
  <2>10. processed \subseteq Passed'
    BY <1>b, <2>0, <2>8, <2>9 DEF Behind
  <2>11. CountedOnce'
    BY <2>0, <2>3 DEF OnceAll, OnceInv, CountedOnce
  <2>12. (processed \subseteq Behind(pass.epoch, pass.snap[1] + 1))'
    BY <2>0, <2>2, <2>4 DEF Behind, Past, EpochOf
  <2>. QED  BY <1>b, <2>0, <2>6, <2>10, <2>11, <2>12 DEF OnceInv, Going
<1>7. CASE SkipFails
  <2>1. Restart(pass.cur, counted, highest) /\ UNCHANGED <<processed, overall>>
    BY <1>7 DEF SkipFails, stats
  <2>. QED  BY <1>0, <1>b, <2>1, RestartWithin
<1>8. CASE DropDuplicate
  <2>1. /\ pass'.todo = pass.todo /\ pass'.epoch = pass.epoch
    BY <1>0, <1>8, NodeIs DEF DropDuplicate, PassType
  <2>2. /\ UNCHANGED <<counted, processed, overall>> /\ pc' \in {"loop", "done"}
        /\ pending' \subseteq pending
    BY <1>0, <1>8 DEF DropDuplicate, seen, stats, AfterBlock
  <2>4. Front' = Front
    BY <1>0, <2>1, <2>2 DEF Front
  <2>5. pc' = "loop" => Passed' = Passed
    BY <1>0, <2>2, <2>4 DEF Passed, Behind, Past, EpochOf
  <2>. QED  BY <1>0, <2>1, <2>2, <2>5 DEF OnceAll, OnceInv, Going, CountedOnce
<1>9. CASE DeliverBlock
  <2>1. /\ pass'.todo = pass.todo /\ pass'.epoch = pass.epoch
    BY <1>0, <1>9, NodeIs DEF DeliverBlock, PassType
  <2>2. /\ counted' = Max2(counted, pass.cur) /\ processed' = processed \cup {pass.cur}
        /\ pc' \in {"loop", "done"} /\ (pc' = "loop" => pending' = pending \ {pass.cur})
        /\ (pass.cur > counted \/ pass.cur \in pending)
    BY <1>0, <1>b, <1>9 DEF DeliverBlock, AfterBlock, Duplicate, Late
  <2>3. overall'.blocks = overall.blocks + 1
    BY <1>0, <1>9, PlusCounts, SomeCounts DEF DeliverBlock, StreamInv, TypeInv
  <2>4. pass.cur \notin processed
    BY <1>b, <2>2 DEF Behind, Past
  <2>5. CountedOnce'
    <3>1. IsFiniteSet(Slots)
      BY FS_Interval DEF Slots, StreamInv, Instance, RangeAssumption, OnceAll, CourseInv
    <3>2. IsFiniteSet(processed)
      BY <1>0, <3>1, FS_Subset DEF StreamInv, TypeInv
    <3>3. Cardinality(processed') = Cardinality(processed) + 1
      BY <2>2, <2>4, <3>2, FS_AddElement
    <3>. QED  BY <2>3, <3>3 DEF OnceAll, OnceInv, CountedOnce
  <2>6. Front' = Front /\ pass.epoch = Front
    BY <1>0, <2>1, <2>2, PassedIs DEF Front
  <2>7. pc' = "loop" => Passed' = Behind(pass.epoch, counted' + 1)
    BY <1>0, <2>6 DEF Passed, Behind, Past, EpochOf
  <2>8. counted' \in Nat /\ counted <= counted' /\ pass.cur <= counted'
    BY <1>b, <2>2 DEF Max2
  <2>9. \A p \in processed : p \in Slots /\ p \in Nat
    BY <1>0 DEF StreamInv, TypeInv, Slots, Instance, RangeAssumption
  <2>10. processed' \subseteq Behind(pass.epoch, counted' + 1)
    BY <1>b, <2>2, <2>8, <2>9 DEF Behind
  <2>11. pc' = "loop" => (pending \cap processed = {})'
    BY <1>b, <2>2
  <2>. QED  BY <2>2, <2>5, <2>7, <2>10, <2>11 DEF OnceInv, Going
<1>10. CASE BlockFails
  <2>1. Restart(pass.cur, counted, highest) /\ UNCHANGED <<processed, overall>>
    BY <1>10 DEF BlockFails, stats
  <2>. QED  BY <1>0, <1>b, <2>1, RestartWithin
<1>11. CASE PulseFails
  <2>1. Restart(pass.cur, pass.snap[1], highest) /\ UNCHANGED <<processed, overall>> /\ AtNode("block")
    BY <1>11 DEF PulseFails, AtBlockNode
  <2>2. pass.snap[1] \in Counted /\ pass.snap[1] \in Nat
    BY <1>0, <2>1, AtBlockNodeIs DEF Counted
  <2>3. /\ processed \subseteq Behind(pass.epoch, pass.snap[1] + 1) /\ pass.snap[1] <= counted
        /\ EpochFirst(pass.epoch) <= pass.snap[1] + 1
    BY <1>0, <2>1 DEF OnceAll, OnceInv, CourseInv, Course, AtNode
  <2>4. pass.snap[1] <= EpochLast(pass.epoch)
    BY <1>b, <2>2, <2>3
  <2>. QED  BY <1>0, <1>b, <2>1, <2>2, <2>3, <2>4, RestartWithin
<1>. QED  BY <1>1, <1>2, <1>3, <1>4, <1>5, <1>6, <1>7, <1>8, <1>9, <1>10, <1>11 DEF Nodes, BlockNode

\* A block is counted once over all restarts of the thread: forward, in any order of
\* the archive, and in reverse if the range ends with an epoch.  (Without that the
\* thread comes back to an epoch it left: see README, Disagreements.)
THEOREM BlocksOnce == Instance /\ Aligned /\ Spec => []CountedOnce
<1>1. Instance /\ Aligned /\ Init => OnceAll
  <2> SUFFICES ASSUME Instance, Aligned, Init PROVE OnceAll
    OBVIOUS
  <2>1. CourseInv
    BY InitCourse
  <2>2. overall.blocks = 0 /\ Cardinality(processed) = 0
    BY SomeCounts, FS_EmptySet DEF Init
  <2>. QED  BY <2>1, <2>2 DEF OnceAll, OnceInv, CountedOnce, Init
<1>2. OnceAll /\ [Next]_vars => OnceAll'
  <2> SUFFICES ASSUME OnceAll, [Next]_vars PROVE OnceInv'
    BY CourseStep DEF OnceAll
  <2>1. CourseInv'
    BY CourseStep DEF OnceAll
  <2>2. CASE Work
    BY <2>1, <2>2, EpochStepOnce, BatchStepOnce, NodeStepOnce DEF Work
  <2>3. CASE PollShutdown
    BY <2>3 DEF PollShutdown, OnceAll, OnceInv, Going, CountedOnce, stats, seen
  <2>4. CASE UNCHANGED vars
    BY <2>4 DEF vars, control, stats, seen, OnceAll, OnceInv, Going, CountedOnce, Passed, Behind, Past, Front,
                LocalStart, EpochOf
  <2>. QED  BY <2>2, <2>3, <2>4 DEF Next, Terminated
<1>3. OnceAll => CountedOnce
  BY DEF OnceAll, OnceInv
<1>. QED  BY <1>1, <1>2, <1>3, PTL DEF Spec

-----------------------------------------------------------------------------
(* What is behind the thread was reported.                                 *)

\* The archive holds the blocks of an epoch in slot order, and the range begins
\* behind the genesis slot, which counts as emitted from the beginning.
Ordered ==
  /\ 0 < FirstSlot
  /\ \A e \in Lowest .. Top : \A i, j \in 1 .. Len(Archive[e]) : i < j => Archive[e][i] < Archive[e][j]

\* Between two epochs: the last counted slot is in front of what comes next, and in
\* reverse not in front of the epoch that is left.
Standing ==
  /\ pc \in {"boundary", "epoch"} =>
       IF Reverse THEN counted + 1 = FirstSlot \/ EpochFirst(highest) <= counted + 1
       ELSE counted < LocalStart(Front)
  /\ pc = "epoch" /\ ~Reverse => pass.emitted < LocalStart(Front)
  /\ Reverse /\ partial # NoSlot => partial = FirstSlot \/ highest <= EpochOf(partial)

\* Within an epoch: the stream stands behind the last counted slot, or behind the
\* block that is delivered, and nothing that is still to come was emitted.  The snapshot
\* of a block node does not lie in front of an earlier block of the epoch.
Position ==
  /\ pc \in {"loop", "node"} => start <= counted + 1 /\ pass.emitted <= counted
  /\ pc = "loop" => \A i \in 1 .. Len(Stream) : Stream[i] <= counted <=> i < pass.pos
  /\ pc = "node" =>
       /\ 1 < pass.pos /\ pass.pos - 1 <= Len(Stream) /\ pass.cur = Stream[pass.pos - 1] /\ counted < pass.cur
       /\ \A i \in 1 .. Len(Stream) : Stream[i] <= counted <=> i < pass.pos - 1
       /\ pass.node = "block" => \A i \in 1 .. Len(Stream) : i < pass.pos - 1 => Stream[i] <= pass.snap[1]

PlaceInv == CourseInv /\ Ordered /\ Standing /\ Position

\* Of the slots T, those behind the thread are in D.  Where the last counted slot still
\* is of the next epoch in reverse, the error path resumes behind it: the slots of T up
\* to it are in D, too.
Reported(T, D) ==
  /\ Going => T \cap Passed \subseteq D
  /\ pc \in {"boundary", "epoch"} /\ Reverse =>
       \A p \in T : EpochOf(p) = highest /\ EpochOf(counted) = highest /\ p <= counted => p \in D
  /\ pc = "done" => T \subseteq D

\* The same after a step.
ReportedNext(T, D) ==
  /\ Going' => T \cap Passed' \subseteq D
  /\ pc' \in {"boundary", "epoch"} /\ Reverse =>
       \A p \in T : EpochOf(p) = highest' /\ EpochOf(counted') = highest' /\ p <= counted' => p \in D
  /\ pc' = "done" => T \subseteq D

\* A later place in the archive holds a later slot.
LEMMA InOrder ==
  ASSUME Instance, Ordered, NEW e \in Lowest .. Top,
         NEW i \in 1 .. Len(Archive[e]), NEW j \in 1 .. Len(Archive[e])
  PROVE  Archive[e][i] < Archive[e][j] <=> i < j
<1>1. Archive[e][i] \in Nat /\ Archive[e][j] \in Nat /\ i \in Int /\ j \in Int
  BY PresentIn
<1>2. /\ i < j => Archive[e][i] < Archive[e][j]
      /\ j < i => Archive[e][j] < Archive[e][i]
      /\ i = j => Archive[e][i] = Archive[e][j]
  BY DEF Ordered
<1>. QED  BY <1>1, <1>2

\* An error resumes at the failed slot or behind the last counted one.
LEMMA ResumeIs ==
  ASSUME NEW slot \in Nat, NEW c \in Nat
  PROVE  /\ ResumeSlot(slot, c) \in Nat /\ c < ResumeSlot(slot, c)
         /\ slot <= c + 1 => ResumeSlot(slot, c) = c + 1
         /\ c < slot => ResumeSlot(slot, c) = slot
  BY DEF ResumeSlot

\* After a restart nothing that was not reported is behind the thread.
LEMMA RestartReports ==
  ASSUME CourseInv, Ordered, NEW slot \in Resume, NEW c \in Counted, NEW h \in -1 .. Top,
         Restart(slot, c, h), NEW T \in SUBSET Slots, NEW D,
         IF Reverse
         THEN /\ EpochFirst(h) <= c + 1 \/ (c + 1 = FirstSlot /\ slot <= c + 1)
              /\ \A p \in T : h < EpochOf(p) => p \in D
              /\ \A p \in T :
                   /\ EpochOf(p) = h /\ p < ResumeSlot(slot, c)
                   /\ EpochOf(c) = h \/ EpochOf(ResumeSlot(slot, c)) = h
                   => p \in D
         ELSE \A p \in T : p < ResumeSlot(slot, c) => p \in D
  PROVE  Standing' /\ Position' /\ ReportedNext(T, D)
<1> DEFINE r == ResumeSlot(slot, c)
<1>0. /\ FirstSlot \in Nat /\ EndSlot \in Nat /\ Lowest \in Nat /\ Top \in Nat /\ EpochAssumption
      /\ RangeAssumption /\ slot \in Nat /\ c \in Nat /\ h \in Int /\ FirstSlot <= c + 1 /\ FirstSlot <= slot
  BY Epochs0 DEF CourseInv, StreamInv, Instance, RangeAssumption, Resume, Counted
<1>1. pc' = "boundary" /\ counted' = c
  BY DEF Restart
<1>2. r \in Nat /\ c < r /\ (slot <= c + 1 => r = c + 1) /\ (c < slot => r = slot)
  BY <1>0, ResumeIs
<1> HIDE DEF r
<1>3. EpochOf(r) \in Nat /\ EpochOf(c) \in Nat /\ EpochOf(c) <= EpochOf(r)
      /\ EpochFirst(EpochOf(r)) <= r /\ r <= EpochLast(EpochOf(r))
      /\ EpochFirst(EpochOf(r)) \in Nat /\ EpochLast(EpochOf(r)) \in Nat
  BY <1>0, <1>2, EpochHolds, EpochMonotone DEF EpochFirst, EpochLast, EpochAssumption
<1>4. \A p \in Slots : p \in Nat /\ EpochOf(p) \in Nat /\ FirstSlot <= p
  BY <1>0, EpochHolds DEF Slots
<1>5. SUFFICES /\ \A p \in T : p \in Passed' => p \in D
               /\ Reverse => \A p \in T : EpochOf(p) = highest' /\ EpochOf(c) = highest' /\ p <= c => p \in D
               /\ Standing'
  BY <1>1 DEF Position, ReportedNext
<1>6. CASE ~Reverse
  <2>1. start' = r
    BY <1>6 DEF Restart, r
  <2>2. Front' = EpochOf(r)
    BY <1>1, <1>6, <2>1 DEF Front, EpochOf
  <2>3. LocalStart(Front)' = r
    BY <1>2, <1>3, <1>6, <2>1, <2>2 DEF LocalStart, Max2, EpochFirst
  <2>4. Passed' = Behind(EpochOf(r), r)
    BY <1>1, <2>2, <2>3 DEF Passed, Behind, Past
  <2>5. ASSUME NEW p \in T, p \in Behind(EpochOf(r), r) PROVE p \in D
    <3>1. p \in Slots
      OBVIOUS
    <3>2. r <= EpochLast(EpochOf(r)) + 1
      BY <1>2, <1>3
    <3>3. p < r
      BY <1>0, <1>2, <1>3, <1>6, <2>5, <3>1, <3>2, ForwardBehind
    <3>. QED  BY <1>6, <3>1, <3>3 DEF r
  <2>. QED  BY <1>1, <1>2, <1>6, <2>3, <2>4, <2>5 DEF Standing
<1>7. CASE Reverse
  <2> DEFINE n == ReverseResume(slot, c, h)
  <2>1. partial' = n.partial /\ highest' = n.highest /\ start' = FirstSlot
    BY <1>7 DEF Restart, CourseInv, Course
  <2>2. \/ /\ EpochOf(r) > EpochOf(c) /\ n.partial = NoSlot
           /\ n.highest = (IF h = EpochOf(c) THEN h - 1 ELSE h)
        \/ n.partial = r /\ n.highest = h
    BY DEF ReverseResume, r
  <2> HIDE DEF n
  <2>3. Front' = n.highest /\ n.highest \in Int
    BY <1>0, <1>1, <1>7, <2>1, <2>2 DEF Front
  <2>4. /\ EpochFirst(h) <= c + 1 \/ (c + 1 = FirstSlot /\ slot <= c + 1)
        /\ \A p \in T : h < EpochOf(p) => p \in D
        /\ \A p \in T :
             EpochOf(p) = h /\ p < r /\ (EpochOf(c) = h \/ EpochOf(r) = h) => p \in D
    BY <1>7 DEF r
  <2>5. /\ EpochFirst(h) \in Int /\ EpochFirst(h - 1) \in Int /\ EpochFirst(h - 1) <= EpochFirst(h)
    BY <1>0, EpochOrder DEF EpochFirst, EpochAssumption
  <2>6. CASE EpochOf(r) > EpochOf(c) /\ n.partial = NoSlot /\ n.highest = (IF h = EpochOf(c) THEN h - 1 ELSE h)
    <3>1. ASSUME NEW p \in T, n.highest < EpochOf(p) PROVE p \in D
      <4>1. h < EpochOf(p) \/ (EpochOf(p) = h /\ EpochOf(c) = h)
        BY <1>0, <1>3, <1>4, <2>6, <3>1
      <4>2. EpochOf(p) = h /\ EpochOf(c) = h => p < r
        <5>1. r <= p => EpochOf(r) <= EpochOf(p)
          BY <1>0, <1>2, <1>4, EpochMonotone
        <5>. QED  BY <1>2, <1>3, <1>4, <2>6, <5>1
      <4>. QED  BY <2>4, <4>1, <4>2
    <3>2. \A p \in Slots : p \in Passed' => n.highest < EpochOf(p)
      <4>1. LocalStart(Front)' = Max2(FirstSlot, EpochFirst(n.highest))
        BY <2>1, <2>3, <2>6 DEF LocalStart, EpochFirst, Max2
      <4>2. ASSUME NEW p \in Slots, EpochOf(p) = n.highest PROVE ~(p < Max2(FirstSlot, EpochFirst(n.highest)))
        <5>1. EpochFirst(n.highest) <= p /\ EpochFirst(n.highest) \in Int
          BY <1>0, <1>4, <4>2, EpochHolds DEF EpochFirst, EpochAssumption
        <5>. QED  BY <1>0, <1>4, <5>1 DEF Max2
      <4>. QED  BY <1>1, <1>7, <2>3, <4>1, <4>2 DEF Passed, Behind, Past, EpochOf
    <3>3. \A p \in T : p \in Passed' => p \in D
      BY <3>1, <3>2
    <3>4. EpochOf(c) # n.highest
      BY <1>0, <1>3, <2>6
    <3>5. c + 1 = FirstSlot \/ EpochFirst(n.highest) <= c + 1
      BY <1>0, <2>4, <2>5, <2>6
    <3>. QED  BY <1>1, <1>7, <2>1, <2>6, <3>3, <3>4, <3>5 DEF Standing, EpochOf, EpochFirst
  <2>7. CASE n.partial = r /\ n.highest = h
    <3>1. r # NoSlot
      BY <1>2 DEF NoSlot
    <3>2. ASSUME NEW p \in Slots, p \in Passed'
          PROVE  h < EpochOf(p) \/ (EpochOf(p) = h /\ p < r /\ EpochOf(r) = h)
      <4>1. h < EpochOf(p) \/ (EpochOf(p) = h /\ p < LocalStart(Front)')
        BY <1>1, <1>7, <2>3, <2>7, <3>2 DEF Passed, Behind, Past, EpochOf
      <4>2. CASE EpochOf(r) = h
        <5>1. LocalStart(Front)' = Max2(EpochFirst(h), r)
          BY <1>7, <2>1, <2>3, <2>7, <3>1, <4>2 DEF LocalStart, EpochOf, EpochFirst, Max2
        <5>2. Max2(EpochFirst(h), r) = r
          BY <1>2, <1>3, <4>2 DEF Max2
        <5>. QED  BY <4>1, <4>2, <5>1, <5>2
      <4>3. CASE EpochOf(r) # h
        <5>1. LocalStart(Front)' = Max2(FirstSlot, EpochFirst(h))
          BY <1>7, <2>1, <2>3, <2>7, <4>3 DEF LocalStart, EpochOf, EpochFirst, Max2
        <5>2. EpochOf(p) = h => EpochFirst(h) <= p
          BY <1>0, <1>4, EpochHolds
        <5>3. EpochOf(p) = h => ~(p < LocalStart(Front)')
          BY <1>0, <1>4, <2>5, <5>1, <5>2 DEF Max2
        <5>. QED  BY <4>1, <5>3
      <4>. QED  BY <4>2, <4>3
    <3>3. \A p \in T : p \in Passed' => p \in D
      BY <2>4, <3>2
    <3>4. \A p \in T : EpochOf(p) = h /\ EpochOf(c) = h /\ p <= c => p \in D
      BY <1>0, <1>2, <1>4, <2>4
    <3>5. r = FirstSlot \/ h <= EpochOf(r)
      <4>1. CASE EpochFirst(h) <= c + 1
        <5>1. EpochFirst(h) <= r
          BY <1>0, <1>2, <2>5, <4>1
        <5>2. EpochOf(r) < h => EpochLast(EpochOf(r)) < EpochFirst(h)
          BY <1>0, <1>3, EpochOrder
        <5>. QED  BY <1>0, <1>2, <1>3, <2>5, <5>1, <5>2
      <4>2. CASE c + 1 = FirstSlot /\ slot <= c + 1
        BY <1>2, <4>2
      <4>. QED  BY <2>4, <4>1, <4>2
    <3>6. c + 1 = FirstSlot \/ EpochFirst(h) <= c + 1
      BY <2>4
    <3>. QED  BY <1>1, <1>7, <2>1, <2>7, <3>3, <3>4, <3>5, <3>6 DEF Standing, EpochOf, EpochFirst
  <2>. QED  BY <2>2, <2>6, <2>7
<1>. QED  BY <1>6, <1>7

\* A restart within an epoch resumes where all before was reported.
LEMMA RestartAt ==
  ASSUME PlaceInv, pc \in {"loop", "node"}, NEW slot \in Resume, NEW c \in Counted,
         Restart(slot, c, highest), NEW T \in SUBSET Slots, NEW D,
         EpochFirst(pass.epoch) <= c + 1, ResumeSlot(slot, c) <= EpochLast(pass.epoch) + 1,
         \A p \in T : p \in Behind(pass.epoch, ResumeSlot(slot, c)) => p \in D
  PROVE  Standing' /\ Position' /\ ReportedNext(T, D)
<1> DEFINE r == ResumeSlot(slot, c)  e == pass.epoch
<1>0. /\ FirstSlot \in Nat /\ EpochAssumption /\ RangeAssumption /\ slot \in Nat /\ c \in Nat
      /\ highest \in -1 .. Top /\ CourseInv /\ Ordered
  BY DEF PlaceInv, CourseInv, StreamInv, TypeInv, Instance, RangeAssumption, Resume, Counted
<1>1. r \in Nat /\ c < r
  BY <1>0, ResumeIs
<1>2. /\ e \in Nat /\ EpochFirst(e) \in Nat /\ EpochLast(e) \in Nat /\ (Reverse => highest = e)
  BY <1>0, InEpoch
<1>3. EpochFirst(e) <= r /\ r <= EpochLast(e) + 1
  BY <1>0, <1>1, <1>2
<1>4. \A p \in T : p \in Behind(e, r) => p \in D
  OBVIOUS
<1>5. Reverse => \A p \in T : highest < EpochOf(p) \/ (EpochOf(p) = highest /\ p < r) => p \in D
  BY <1>2, <1>4 DEF Behind, Past
<1>6. ~Reverse => \A p \in T : p < r => p \in D
  BY <1>0, <1>1, <1>2, <1>3, <1>4, ForwardBehind
<1>. QED  BY <1>0, <1>2, <1>5, <1>6, RestartReports


\* In front of the block that is delivered every block of the epoch was counted.
LEMMA BelowCur ==
  ASSUME PlaceInv, pc = "node"
  PROVE  /\ pass.epoch \in Lowest .. Top /\ pass.pos - 1 \in 1 .. Len(Stream) /\ Stream = Archive[pass.epoch]
         /\ pass.cur = Stream[pass.pos - 1] /\ pass.cur \in Present /\ counted < pass.cur
         /\ \A p \in Present : EpochOf(p) = pass.epoch /\ p < pass.cur => p <= counted
         /\ \A i \in 1 .. Len(Stream) : Stream[i] <= pass.cur <=> i < pass.pos
         /\ \A i \in 1 .. Len(Stream) : Stream[i] < pass.cur <=> i < pass.pos - 1
<1>0. /\ pass.epoch \in Lowest .. Top /\ Instance /\ Ordered /\ Stream = Archive[pass.epoch]
      /\ pass.pos \in Nat /\ counted \in Nat
  BY InEpoch DEF PlaceInv, Stream, CourseInv, StreamInv, TypeInv, PassType
<1>1. /\ 1 < pass.pos /\ pass.pos - 1 <= Len(Stream) /\ pass.cur = Stream[pass.pos - 1] /\ counted < pass.cur
      /\ \A i \in 1 .. Len(Stream) : Stream[i] <= counted <=> i < pass.pos - 1
  BY DEF PlaceInv, Position
<1>2. Len(Stream) \in Nat /\ \A i \in 1 .. Len(Stream) : Stream[i] \in Nat
  BY <1>0, PresentIn
<1>3. pass.pos - 1 \in 1 .. Len(Stream)
  BY <1>0, <1>1, <1>2
<1>4. \A i \in 1 .. Len(Stream) : Stream[i] < pass.cur <=> i < pass.pos - 1
  BY <1>0, <1>1, <1>3, InOrder
<1>5. \A i \in 1 .. Len(Stream) : pass.cur < Stream[i] <=> pass.pos - 1 < i
  BY <1>0, <1>1, <1>3, InOrder
<1>6. \A i \in 1 .. Len(Stream) : Stream[i] <= pass.cur <=> i < pass.pos
  BY <1>0, <1>1, <1>2, <1>3, <1>5
<1>7. ASSUME NEW p \in Present, EpochOf(p) = pass.epoch, p < pass.cur PROVE p <= counted
  <2>1. PICK i \in 1 .. Len(Stream) : Stream[i] = p
    BY <1>0, <1>7, PresentIn
  <2>. QED  BY <1>1, <1>4, <1>7, <2>1
<1>8. pass.cur \in Present
  BY <1>0, <1>1, <1>3, PresentIn
<1>. QED  BY <1>0, <1>1, <1>3, <1>4, <1>6, <1>7, <1>8

\* What is behind a slot within the epoch and not behind the thread is of the epoch.
LEMMA BehindCur ==
  ASSUME PlaceInv, pc \in {"loop", "node"}, NEW T \in SUBSET Slots, NEW D, Reported(T, D), NEW s \in Nat,
         \A p \in T : EpochOf(p) = pass.epoch /\ counted < p /\ p < s => p \in D
  PROVE  \A p \in T : p \in Behind(pass.epoch, s) => p \in D
<1>1. Passed = Behind(pass.epoch, counted + 1) /\ counted \in Nat
  BY InEpoch DEF PlaceInv
<1>2. T \cap Passed \subseteq D
  BY DEF Reported, Going
<1>3. \A p \in Slots : p \in Nat
  BY DEF Slots, PlaceInv, CourseInv, StreamInv, Instance, RangeAssumption
<1>4. ASSUME NEW p \in T, p \in Behind(pass.epoch, s) PROVE p \in D
  <2>1. p \in Behind(pass.epoch, counted + 1) \/ (EpochOf(p) = pass.epoch /\ counted < p /\ p < s)
    BY <1>1, <1>3, <1>4 DEF Behind
  <2>. QED  BY <1>1, <1>2, <2>1
<1>. QED  BY <1>4

\* Where the stream of an epoch ends, and in front of a block behind the range, its
\* blocks were counted; it has one, so that the last counted slot is in the epoch.
LEMMA EpochRead ==
  ASSUME PlaceInv, pc = "loop",
         Unread = NoSlot \/ (AtBlock /\ Ahead > pass.last)
  PROVE  /\ \A p \in Present \cap Slots : EpochOf(p) = pass.epoch => p <= counted
         /\ Reverse => EpochFirst(pass.epoch) <= counted
<1>0. /\ pass.epoch \in Lowest .. Top /\ Instance /\ Ordered /\ Stream = Archive[pass.epoch] /\ CourseInv
      /\ pass.pos \in Nat /\ counted \in Nat /\ pass.epoch \in Nat /\ EpochAssumption
      /\ pass.last = Min2(EndSlot - 1, EpochLast(pass.epoch)) /\ pass.last \in Int
      /\ EpochFirst(pass.epoch) \in Nat /\ EpochLast(pass.epoch) \in Nat /\ EndSlot \in Nat
      /\ pass.epoch < Top + 1 /\ Top + 1 \in Int
  <2>1. CourseInv /\ StreamInv /\ Instance /\ Ordered
    BY DEF PlaceInv, CourseInv, StreamInv
  <2>2. /\ pass.epoch \in Lowest .. Top /\ counted \in Nat /\ pass.epoch \in Nat
        /\ EpochFirst(pass.epoch) \in Nat /\ EpochLast(pass.epoch) \in Nat
    BY <2>1, InEpoch
  <2>3. EpochAssumption /\ RangeAssumption /\ EndSlot \in Nat /\ Top \in Nat
    BY <2>1, Epochs0 DEF Instance, RangeAssumption
  <2>4. pass.pos \in Nat /\ pass.last = Min2(EndSlot - 1, EpochLast(pass.epoch))
    BY <2>1 DEF StreamInv, TypeInv, PassType, Streaming, LocalLast
  <2>5. pass.last \in Int
    BY <2>2, <2>3, <2>4 DEF Min2
  <2>. QED  BY <2>1, <2>2, <2>3, <2>4, <2>5 DEF Stream
<1>1. \A i \in 1 .. Len(Stream) : Stream[i] <= counted <=> i < pass.pos
  BY DEF PlaceInv, Position
<1>2. Len(Stream) \in Nat /\ \A i \in 1 .. Len(Stream) : Stream[i] \in Nat /\ Stream[i] \in Present /\ EpochOf(Stream[i]) = pass.epoch
  BY <1>0, PresentIn
<1>3. ASSUME NEW p \in Present, EpochOf(p) = pass.epoch, p <= pass.last PROVE p <= counted
  <2>1. PICK i \in 1 .. Len(Stream) : Stream[i] = p
    BY <1>0, <1>3, PresentIn
  <2>2. CASE Unread = NoSlot
    <3>1. ~(counted < p /\ p <= pass.last)
      BY <1>0, <1>3, <2>2, IndexNames DEF Unread
    <3>. QED  BY <1>0, <1>2, <1>3, <2>1, <3>1
  <2>3. CASE AtBlock /\ Ahead > pass.last
    <3>1. pass.pos <= Len(Stream) /\ 1 <= pass.pos
      BY <2>3, <1>0 DEF AtBlock, CourseInv, StreamInv, TypeInv, Streaming
    <3>2. pass.pos \in 1 .. Len(Stream) /\ Ahead = Stream[pass.pos]
      BY <1>0, <1>2, <3>1 DEF Ahead
    <3>3. pass.pos < i => Stream[pass.pos] < Stream[i]
      BY <1>0, <2>1, <3>2, InOrder
    <3>4. Ahead \in Int /\ Stream[i] \in Int /\ pass.last \in Int /\ Stream[i] <= pass.last /\ pass.last < Ahead
      BY <1>0, <1>2, <1>3, <2>1, <2>3, <3>2
    <3>5. ~(Ahead <= Stream[i])
      BY <3>4
    <3>6. ~(pass.pos < i) /\ i # pass.pos
      BY <3>2, <3>3, <3>4, <3>5
    <3>7. i < pass.pos
      BY <1>0, <2>1, <3>6
    <3>. QED  BY <1>1, <2>1, <3>7
  <2>. QED  BY <2>2, <2>3
<1>4. ASSUME NEW p \in Present \cap Slots, EpochOf(p) = pass.epoch PROVE p <= counted
  <2>1. p \in Nat /\ p <= EndSlot - 1 /\ p <= EpochLast(pass.epoch)
    BY <1>0, <1>4, EpochHolds, PresentNat DEF Slots
  <2>. QED  BY <1>0, <1>3, <1>4, <2>1 DEF Min2
<1>5. ASSUME Reverse PROVE EpochFirst(pass.epoch) <= counted
  <2>1. Archive[pass.epoch] # <<>> /\ Archive[pass.epoch] \in Seq(Nat)
    BY <1>0, PresentIn DEF Instance, ArchiveAssumption
  <2>2. 1 \in 1 .. Len(Stream)
    BY <1>0, <1>2, <2>1
  <2>3. EpochFirst(pass.epoch) <= Stream[1] /\ Stream[1] <= EpochLast(pass.epoch)
    BY <1>0, <1>2, <2>2, EpochHolds
  <2>4. EpochLast(pass.epoch) <= EndSlot - 1
    BY <1>0, <1>5, EpochOrder DEF CourseInv, Aligned
  <2>5. Stream[1] <= counted
    BY <1>0, <1>2, <1>3, <2>2, <2>3, <2>4 DEF Min2
  <2>. QED  BY <1>0, <1>2, <2>2, <2>3, <2>5
<1>. QED  BY <1>4, <1>5

\* An epoch in front of which nothing is left begins with its first slot or that of
\* the range: what is behind the thread there is what the earlier epochs hold.
LEMMA FreshEpoch ==
  ASSUME Instance, NEW f \in Int, NEW st \in Nat, NEW part,
         Reverse => st = FirstSlot /\ (part # NoSlot => part = FirstSlot \/ EpochOf(part) # f),
         ~Reverse => EpochOf(st) < f
  PROVE  \A p \in Slots : EpochOf(p) = f =>
           ~(p < IF Reverse /\ part # NoSlot /\ EpochOf(part) = f
                 THEN Max2(EpochFirst(f), part) ELSE Max2(st, EpochFirst(f)))
<1> DEFINE S == IF Reverse /\ part # NoSlot /\ EpochOf(part) = f
                THEN Max2(EpochFirst(f), part) ELSE Max2(st, EpochFirst(f))
<1> SUFFICES ASSUME NEW p \in Slots, EpochOf(p) = f PROVE ~(p < S)
  OBVIOUS
<1>1. FirstSlot \in Nat /\ EpochAssumption /\ p \in Nat /\ FirstSlot <= p
  BY DEF Instance, RangeAssumption, Slots
<1>2. f \in Nat /\ EpochFirst(f) <= p /\ EpochFirst(f) \in Nat
  BY <1>1, EpochHolds DEF EpochFirst, EpochAssumption
<1>3. CASE ~Reverse
  <2>1. EpochOf(st) \in Nat /\ st <= EpochLast(EpochOf(st)) /\ EpochLast(EpochOf(st)) < EpochFirst(f)
        /\ EpochLast(EpochOf(st)) \in Int
    BY <1>1, <1>2, <1>3, EpochHolds, EpochOrder
  <2>2. S = Max2(st, EpochFirst(f))
    BY <1>3
  <2>. QED  BY <1>1, <1>2, <2>1, <2>2 DEF Max2
<1>4. CASE Reverse
  <2>1. S = Max2(FirstSlot, EpochFirst(f)) \/ S = Max2(EpochFirst(f), FirstSlot)
    BY <1>4
  <2>. QED  BY <1>1, <1>2, <2>1 DEF Max2
<1>. QED  BY <1>3, <1>4

\* Behind the last epoch everything was delivered.
LEMMA AllBehind ==
  ASSUME Instance, NEW f \in Int, IF Reverse THEN f < Lowest ELSE Top < f
  PROVE  Slots \subseteq Past(f)
<1>1. \A p \in Slots : EpochOf(p) \in Lowest .. Top /\ Lowest \in Nat /\ Top \in Nat
  BY Epochs0 DEF Instance
<1>. QED  BY <1>1 DEF Past


\* Between two epochs nothing is left behind.
LEMMA EpochStepReports ==
  ASSUME PlaceInv, CourseInv', Epochs, NEW T \in SUBSET Slots, NEW D, Reported(T, D)
  PROVE  Standing' /\ Position' /\ ReportedNext(T, D)
<1>0. /\ FirstSlot \in Nat /\ EndSlot \in Nat /\ Lowest \in Nat /\ Top \in Nat /\ 0 < FirstSlot
      /\ EpochAssumption /\ RangeAssumption /\ Instance /\ StreamInv /\ CourseInv /\ Ordered /\ Standing
      /\ counted \in Nat /\ counted \in Counted /\ FirstSlot <= counted + 1 /\ highest \in -1 .. Top
      /\ start \in Nat /\ FirstSlot <= start /\ start \in Resume
  <2>1. CourseInv /\ StreamInv /\ Instance /\ Ordered /\ Standing
    BY DEF PlaceInv, CourseInv, StreamInv
  <2>2. /\ FirstSlot \in Nat /\ EndSlot \in Nat /\ Lowest \in Nat /\ Top \in Nat /\ 0 < FirstSlot
        /\ EpochAssumption /\ RangeAssumption
    BY <2>1, Epochs0 DEF Instance, RangeAssumption, Ordered
  <2>3. counted \in Counted /\ highest \in -1 .. Top /\ start \in Resume
    BY <2>1 DEF StreamInv, TypeInv
  <2>. QED  BY <2>1, <2>2, <2>3 DEF Counted, Resume
<1>b. /\ pc \in {"boundary", "epoch"} /\ T \cap Passed \subseteq D
      /\ \A p \in Slots : p \in Nat /\ EpochOf(p) \in Nat /\ FirstSlot <= p /\ p <= EndSlot - 1
  BY <1>0, EpochHolds DEF Reported, Going, Slots,
     Epochs, StartPass, SkipEpoch, OpenEpoch, OpenFails, SeekFails, PassEnds, AtEpoch
<1>c. Reverse =>
        \A p \in T : EpochOf(p) = highest /\ EpochOf(counted) = highest /\ p <= counted => p \in D
  BY <1>b DEF Reported
<1>1. CASE StartPass
  <2>1. /\ pc = "boundary" /\ pc' \in {"done", "epoch"} /\ UNCHANGED <<start, highest, partial, counted>>
    BY <1>1 DEF StartPass, control
  <2>2. CASE pc' = "epoch"
    <3>1. Front' = Front /\ Passed' = Passed /\ LocalStart(Front)' = LocalStart(Front)
      BY <1>0, <1>1, <2>2, StartFront
    <3>2. ~Reverse => pass'.emitted < LocalStart(Front)
      <4>1. ~Reverse => LocalStart(Front) = Max2(start, EpochFirst(Front)) /\ Front = EpochOf(start)
        BY <2>1 DEF LocalStart, Front
      <4>2. EpochFirst(EpochOf(start)) <= start /\ EpochFirst(EpochOf(start)) \in Int
        BY <1>0, EpochHolds DEF EpochFirst, EpochAssumption
      <4>3. pass'.emitted = Dec(FirstSlot)
        BY <1>1, <2>2 DEF StartPass, NoPass
      <4>4. Dec(FirstSlot) = FirstSlot - 1
        BY <1>0 DEF Dec, Max2
      <4>. QED  BY <1>0, <4>1, <4>2, <4>3, <4>4 DEF Max2
    <3>3. Standing'
      BY <1>0, <2>1, <2>2, <3>1, <3>2 DEF Standing, EpochOf, EpochFirst
    <3>. QED  BY <1>0, <1>b, <1>c, <2>1, <2>2, <3>1, <3>3 DEF ReportedNext, Position
  <2>3. CASE pc' = "done"
    <3>1. Reverse /\ highest < Lowest /\ Front = highest
      BY <1>1, <2>1, <2>3 DEF StartPass, Front
    <3>2. Slots \subseteq Past(highest)
      BY <1>0, <3>1, AllBehind
    <3>3. T \subseteq D
      BY <1>b, <3>1, <3>2 DEF Passed, Behind
    <3>4. Standing'
      BY <1>0, <2>1, <2>3 DEF Standing, EpochOf
    <3>. QED  BY <1>0, <2>3, <3>3, <3>4 DEF ReportedNext, Position, Going
  <2>. QED  BY <2>1, <2>2, <2>3
<1>2. CASE SkipEpoch
  <2>1. /\ pc = "epoch" /\ pass.todo # <<>> /\ pass' = [pass EXCEPT !.todo = Tail(@)] /\ pass \in PassType
        /\ ~Overlaps(Head(pass.todo)) /\ pc' = "epoch" /\ UNCHANGED <<start, highest, partial, counted>> /\ InPass
    BY <1>0, <1>2 DEF SkipEpoch, AtEpoch, control, StreamInv, TypeInv, InPass
  <2>2. Head(pass.todo) = Front /\ Front \in Lowest .. Top /\ Front \in Nat /\ Front \in Int
    BY <1>0, <2>1, FrontIs
  <2>3. ~Reverse /\ pass'.todo = Tail(pass.todo) /\ pass'.emitted = pass.emitted
    BY <1>0, <2>1, <2>2, ReverseOverlaps DEF PassType
  <2>4. Front' = Front + 1
    BY <1>0, <2>1, <2>3, NextFront
  <2>5. EpochOf(start) <= Front /\ EpochOf(start) \in Nat
    BY <1>0, <2>1, <2>3, EpochHolds DEF CourseInv, Course
  <2>6. EpochFirst(Front) \in Int /\ EpochFirst(Front + 1) \in Int /\ EpochLast(Front) \in Int
        /\ EpochFirst(Front) <= EpochFirst(Front + 1)
    BY <1>0, <2>2, EpochOrder
  <2>7. LocalStart(Front)' = Max2(start, EpochFirst(Front + 1)) /\ LocalStart(Front) = Max2(start, EpochFirst(Front))
        /\ LocalStart(Front + 1) = Max2(start, EpochFirst(Front + 1))
    BY <2>1, <2>3, <2>4 DEF LocalStart, EpochFirst, Max2
  <2>8. LocalStart(Front) <= LocalStart(Front)' /\ LocalStart(Front) \in Int /\ LocalStart(Front)' \in Int
    BY <1>0, <2>6, <2>7 DEF Max2
  <2>9. \A p \in Slots : EpochOf(p) = Front => p < LocalStart(Front)
    <3>1. \A p \in Slots : EpochOf(p) = Front => p <= EpochLast(Front)
      BY <1>0, <1>b, EpochHolds
    <3>2. LocalLast(Front) = Min2(EndSlot - 1, EpochLast(Front)) /\ ~(LocalStart(Front) <= LocalLast(Front))
      BY <2>1, <2>2 DEF LocalLast, Overlaps
    <3>. QED  BY <1>0, <1>b, <2>6, <2>8, <3>1, <3>2 DEF Min2
  <2>10. \A p \in Slots : EpochOf(p) = Front + 1 => ~(p < LocalStart(Front + 1))
    <3>1. EpochOf(start) < Front + 1 /\ Front + 1 \in Int
      BY <2>2, <2>5
    <3>. QED  BY <1>0, <2>3, <3>1, FreshEpoch DEF LocalStart
  <2>11. Passed' = Behind(Front + 1, LocalStart(Front + 1))
    BY <2>1, <2>4, <2>7 DEF Passed, Behind, Past, EpochOf
  <2>12. Passed' \subseteq Passed
    <3>1. ASSUME NEW p \in Slots, p \in Passed' PROVE p \in Passed
      <4>1. EpochOf(p) < Front + 1
        BY <2>3, <2>10, <2>11, <3>1 DEF Behind, Past
      <4>2. EpochOf(p) < Front \/ EpochOf(p) = Front
        BY <1>b, <2>2, <4>1
      <4>. QED  BY <2>1, <2>3, <2>9, <4>2 DEF Passed, Behind, Past
    <3>. QED  BY <2>11, <3>1 DEF Behind, Past
  <2>13. pass.emitted \in Nat /\ counted < LocalStart(Front) /\ pass.emitted < LocalStart(Front)
    BY <1>0, <2>1, <2>3 DEF Standing, PassType
  <2>14. counted < LocalStart(Front)' /\ pass.emitted < LocalStart(Front)'
    BY <1>0, <2>8, <2>13
  <2>15. Standing'
    BY <2>1, <2>3, <2>14 DEF Standing
  <2>. QED  BY <1>0, <1>b, <2>1, <2>3, <2>12, <2>15 DEF ReportedNext, Position
<1>3. CASE OpenEpoch
  <2> DEFINE e == Head(pass.todo)  s == LocalStart(e)
  <2>1. /\ pc = "epoch" /\ pass.todo # <<>> /\ Overlaps(e) /\ pc' = "loop" /\ counted' = Dec(s) /\ InPass
        /\ UNCHANGED <<start, highest, partial>> /\ pass \in PassType
    BY <1>0, <1>3 DEF OpenEpoch, AtEpoch, control, InPass, StreamInv, TypeInv
  <2>2. e = Front /\ e \in Lowest .. Top
    BY <1>0, <2>1, FrontIs
  <2>3. s \in Nat /\ FirstSlot <= s /\ EpochFirst(e) <= s /\ s \in Slots /\ EpochOf(s) = e /\ e \in Nat
    BY <1>0, <2>1, <2>2, Window
  <2>4. s <= EpochLast(e)
    BY <1>0, <2>3, EpochHolds
  <2>5. start <= s
    <3>1. CASE Reverse
      BY <1>0, <2>3, <3>1 DEF CourseInv, Course
    <3>2. CASE ~Reverse
      <4>1. s = Max2(start, EpochFirst(e)) /\ EpochFirst(e) \in Int
        BY <1>0, <2>3, <3>2 DEF LocalStart, EpochFirst, EpochAssumption
      <4>. QED  BY <1>0, <4>1 DEF Max2
    <3>. QED  BY <3>1, <3>2
  <2>6. Passed = Behind(Front, s)
    BY <2>1, <2>2 DEF Passed
  <2> HIDE DEF s
  <2>7. Dec(s) = s - 1 /\ Dec(s) \in Nat /\ Dec(s) + 1 = s
    BY <1>0, <2>3 DEF Dec, Max2
  <2>8. /\ pass'.todo = pass.todo /\ pass'.epoch = e /\ pass'.pos = PositionOf(e, s) /\ pass'.emitted = EmittedAtOpen(s)
    BY <1>3, <2>1 DEF OpenEpoch, PassType, s
  <2>9. Front' = Front
    BY <2>1, <2>8 DEF Front
  <2>10. Passed' = Passed
    BY <2>1, <2>6, <2>7, <2>9 DEF Passed, Behind, Past, EpochOf
  <2>11. pass'.emitted <= counted'
    <3>1. CASE Reverse
      BY <2>1, <2>7, <2>8, <3>1 DEF EmittedAtOpen
    <3>2. CASE ~Reverse
      <4>1. pass.emitted < s /\ pass.emitted \in Nat /\ pass'.emitted = pass.emitted
        BY <1>0, <2>1, <2>2, <2>8, <3>2 DEF Standing, EmittedAtOpen, PassType, s
      <4>. QED  BY <2>1, <2>3, <2>7, <4>1
    <3>. QED  BY <3>1, <3>2
  <2> DEFINE A == Archive[e]  q == PositionOf(e, s)
  <2>12. \A i \in 1 .. Len(A) : A[i] < s <=> i < q
    <3>1. /\ Len(A) \in Nat
          /\ \A i \in 1 .. Len(A) : A[i] \in Nat /\ A[i] \in Present /\ EpochFirst(e) <= A[i] /\ A[i] <= EpochLast(e)
          /\ \A i, j \in 1 .. Len(A) : A[i] < A[j] <=> i < j
      BY <1>0, <2>2, PresentIn, EpochHolds, InOrder
    <3>2. \/ s = EpochFirst(e) /\ q = 1
          \/ q = Len(A) + 1 /\ \A r \in Present : ~(s <= r /\ r <= EpochLast(e))
          \/ q \in 1 .. Len(A) /\ A[q] >= s /\ \A r \in Present : s <= r /\ r <= EpochLast(e) => A[q] <= r
      BY <1>0, <2>2, <2>3, <2>4, SeekStands
    <3> HIDE DEF A, q
    <3>3. CASE s = EpochFirst(e) /\ q = 1
      BY <2>3, <3>1, <3>3
    <3>4. CASE q = Len(A) + 1 /\ \A r \in Present : ~(s <= r /\ r <= EpochLast(e))
      BY <2>3, <3>1, <3>4
    <3>5. CASE q \in 1 .. Len(A) /\ A[q] >= s /\ \A r \in Present : s <= r /\ r <= EpochLast(e) => A[q] <= r
      <4>1. ASSUME NEW i \in 1 .. Len(A), i < q PROVE A[i] < s
        <5>1. A[i] < A[q] /\ ~(A[q] <= A[i])
          BY <3>1, <3>5, <4>1
        <5>. QED  BY <2>3, <3>1, <3>5, <5>1
      <4>2. ASSUME NEW i \in 1 .. Len(A), A[i] < s PROVE i < q
        <5>1. A[i] < A[q]
          BY <2>3, <3>1, <3>5, <4>2
        <5>. QED  BY <3>1, <3>5, <5>1
      <4>. QED  BY <4>1, <4>2
    <3>. QED  BY <3>2, <3>3, <3>4, <3>5
  <2>13. \A i \in 1 .. Len(A) : A[i] \in Nat
    BY <1>0, <2>2, PresentIn
  <2>14. Stream' = A
    BY <2>8 DEF Stream
  <2>15. \A i \in 1 .. Len(Stream') : Stream'[i] <= counted' <=> i < pass'.pos
    <3> HIDE DEF A
    <3>. QED  BY <2>1, <2>3, <2>7, <2>8, <2>12, <2>13, <2>14
  <2>16. Position'
    BY <2>1, <2>5, <2>7, <2>11, <2>15 DEF Position
  <2>17. Standing'
    BY <1>0, <2>1 DEF Standing, EpochOf
  <2>. QED  BY <1>0, <1>b, <2>1, <2>10, <2>16, <2>17 DEF ReportedNext
<1>4. CASE OpenFails
  <2> DEFINE e == Head(pass.todo)
  <2>1. pc = "epoch" /\ pass.todo # <<>> /\ Restart(AtCurrent, counted, highest) /\ InPass
    BY <1>4 DEF OpenFails, AtEpoch, InPass
  <2>2. e = Front /\ e \in Lowest .. Top /\ e \in Nat
    BY <1>0, <2>1, FrontIs
  <2>3. (Reverse => highest = e /\ start = FirstSlot) /\ pass.cur <= counted
    BY <1>0, <2>1, <2>2 DEF CourseInv, Course
  <2>4. AtCurrent \in Resume /\ AtCurrent \in Nat
    BY <1>0, CountIsKept DEF Resume
  <2>5. AtCurrent = start \/ AtCurrent <= counted
    <3>. QED  BY <2>3 DEF AtCurrent
  <2> DEFINE r == ResumeSlot(AtCurrent, counted)
  <2>6. r \in Nat /\ (AtCurrent <= counted + 1 => r = counted + 1) /\ (counted < AtCurrent => r = AtCurrent)
    BY <1>0, <2>4, ResumeIs
  <2> HIDE DEF e, r
  <2>7. CASE Reverse
    <3>1. AtCurrent <= counted + 1 /\ r = counted + 1
      BY <1>0, <2>3, <2>4, <2>5, <2>6, <2>7
    <3>2. \A p \in T : highest < EpochOf(p) => p \in D
      BY <1>0, <1>b, <2>1, <2>2, <2>3, <2>7 DEF Passed, Behind, Past
    <3>3. ASSUME NEW p \in T, EpochOf(p) = highest, p < r, EpochOf(counted) = highest \/ EpochOf(r) = highest
          PROVE  p \in D
      <4>1. p <= counted
        BY <1>0, <1>b, <3>1, <3>3
      <4>2. EpochOf(counted) = highest
        <5>1. EpochOf(p) <= EpochOf(counted) /\ EpochOf(counted) <= EpochOf(r)
          BY <1>0, <1>b, <2>6, <3>1, <4>1, EpochMonotone
        <5>2. EpochOf(p) \in Nat /\ EpochOf(counted) \in Nat /\ EpochOf(r) \in Nat
          BY <1>0, <1>b, <2>6, EpochHolds
        <5>. QED  BY <3>3, <5>1, <5>2
      <4>. QED  BY <1>c, <2>7, <3>3, <4>1, <4>2
    <3>4. EpochFirst(highest) <= counted + 1 \/ (counted + 1 = FirstSlot /\ AtCurrent <= counted + 1)
      BY <1>0, <2>1, <2>7, <3>1 DEF Standing
    <3>. QED  BY <1>0, <2>1, <2>4, <2>7, <3>2, <3>3, <3>4, RestartReports DEF r
  <2>8. CASE ~Reverse
    <3>1. Passed = Behind(Front, LocalStart(Front)) /\ LocalStart(Front) = Max2(start, EpochFirst(Front))
      BY <2>1, <2>8 DEF Passed, LocalStart
    <3>2. EpochFirst(Front) \in Int /\ counted < LocalStart(Front)
      BY <1>0, <2>1, <2>2, <2>8 DEF Standing, EpochFirst, EpochAssumption
    <3>3. r <= LocalStart(Front) /\ LocalStart(Front) \in Int
      BY <1>0, <2>4, <2>5, <2>6, <3>1, <3>2 DEF Max2
    <3>4. ASSUME NEW p \in T, p < r PROVE p \in D
      <4>1. EpochOf(p) < Front \/ EpochOf(p) = Front \/ Front < EpochOf(p)
        BY <1>b, <2>2
      <4>2. p < LocalStart(Front)
        BY <1>b, <2>6, <3>3, <3>4
      <4>3. EpochOf(start) <= Front /\ EpochOf(start) \in Nat
        BY <1>0, <2>1, <2>8, EpochHolds DEF CourseInv, Course
      <4>4. ~(Front < EpochOf(p))
        <5>1. SUFFICES ASSUME Front < EpochOf(p) PROVE FALSE
          OBVIOUS
        <5>2. EpochFirst(Front) < EpochFirst(EpochOf(p)) /\ EpochFirst(EpochOf(p)) <= p /\ EpochFirst(EpochOf(p)) \in Int
          BY <1>0, <1>b, <2>2, <5>1, EpochHolds, EpochOrder
        <5>3. p < start => EpochOf(p) <= EpochOf(start)
          BY <1>0, <1>b, EpochMonotone
        <5>. QED  BY <1>0, <1>b, <2>2, <3>1, <3>2, <4>2, <4>3, <5>1, <5>2, <5>3 DEF Max2
      <4>5. p \in Passed
        BY <2>8, <3>1, <4>1, <4>2, <4>4 DEF Behind, Past
      <4>. QED  BY <1>b, <4>5
    <3>. QED  BY <1>0, <2>1, <2>4, <2>8, <3>4, RestartReports DEF r
  <2>. QED  BY <2>7, <2>8
<1>5. CASE SeekFails
  <2> DEFINE e == Head(pass.todo)  s == LocalStart(e)
  <2>1. pc = "epoch" /\ pass.todo # <<>> /\ Overlaps(e) /\ EpochFirst(e) < s /\ Restart(s, s - 1, highest) /\ InPass
    BY <1>5 DEF SeekFails, AtEpoch, InPass
  <2>2. e = Front /\ e \in Lowest .. Top
    BY <1>0, <2>1, FrontIs
  <2>b. s \in Slots /\ s \in Nat /\ EpochOf(s) = e /\ e \in Nat
    BY <1>0, <2>1, <2>2, Window
  <2>3. /\ s \in Slots /\ s \in Nat /\ EpochOf(s) = e /\ e \in Nat /\ EpochFirst(e) \in Nat /\ EpochLast(e) \in Nat
        /\ EpochFirst(e) <= s /\ s <= EpochLast(e)
    BY <1>0, <2>b, EpochHolds DEF EpochFirst, EpochLast, EpochAssumption
  <2>4. s <= EpochLast(e) + 1 /\ s \in Resume /\ s - 1 \in Counted /\ s - 1 \in Nat
    <3> HIDE DEF s, e
    <3>. QED  BY <1>0, <2>1, <2>3 DEF Resume, Counted, Slots, s, e
  <2>5. Reverse => highest = e
    BY <1>0, <2>1, <2>2 DEF CourseInv, Course
  <2>6. \A p \in T : p \in Behind(e, s) => p \in D
    BY <1>b, <2>1, <2>2 DEF Passed
  <2> HIDE DEF e, s
  <2>7. ResumeSlot(s, s - 1) = s
    <3>1. s - 1 < s
      BY <2>3
    <3>. QED  BY <2>3, <2>4, <3>1, ResumeIs
  <2>8. Reverse => \A p \in T : highest < EpochOf(p) \/ (EpochOf(p) = highest /\ p < s) => p \in D
    BY <2>5, <2>6 DEF Behind, Past
  <2>9. ~Reverse => \A p \in T : p < s => p \in D
    BY <1>0, <2>3, <2>4, <2>6, ForwardBehind
  <2>10. EpochFirst(e) <= (s - 1) + 1
    BY <2>1, <2>3
  <2>11. s \in Resume /\ s - 1 \in Counted /\ highest \in -1 .. Top /\ Restart(s, s - 1, highest)
    BY <1>0, <2>1, <2>4
  <2>12. IF Reverse
         THEN /\ EpochFirst(highest) <= (s - 1) + 1 \/ ((s - 1) + 1 = FirstSlot /\ s <= (s - 1) + 1)
              /\ \A p \in T : highest < EpochOf(p) => p \in D
              /\ \A p \in T :
                   /\ EpochOf(p) = highest /\ p < ResumeSlot(s, s - 1)
                   /\ EpochOf(s - 1) = highest \/ EpochOf(ResumeSlot(s, s - 1)) = highest
                   => p \in D
         ELSE \A p \in T : p < ResumeSlot(s, s - 1) => p \in D
    BY <2>5, <2>7, <2>8, <2>9, <2>10
  <2>. QED  BY <1>0, <2>11, <2>12, RestartReports
<1>6. CASE PassEnds
  <2>1. pc = "epoch" /\ pass.todo = <<>> /\ pc' = "done" /\ UNCHANGED <<highest, partial>>
    BY <1>6 DEF PassEnds, control
  <2>2. IF Reverse THEN Front = Lowest - 1 ELSE Front = Top + 1
    BY <1>0, <2>1 DEF Front
  <2>3. Slots \subseteq Past(Front)
    BY <1>0, <2>2, AllBehind
  <2>4. T \subseteq D
    BY <1>b, <2>3 DEF Passed, Behind
  <2>5. Standing'
    BY <1>0, <2>1 DEF Standing, EpochOf
  <2>. QED  BY <1>0, <2>1, <2>4, <2>5 DEF ReportedNext, Position, Going
<1>. QED  BY <1>1, <1>2, <1>3, <1>4, <1>5, <1>6 DEF Epochs


\* Nor within an epoch, if the slots T of an epoch that was read are behind the last
\* counted one.
LEMMA BatchStepReports ==
  ASSUME PlaceInv, CourseInv', Batches, NEW T \in SUBSET Slots, NEW D, Reported(T, D),
         Unread = NoSlot \/ (AtBlock /\ Ahead > pass.last)
           => \A p \in T : EpochOf(p) = pass.epoch => p <= counted
  PROVE  Standing' /\ Position' /\ ReportedNext(T, D)
<1>0. /\ pc = "loop" /\ pass \in PassType /\ CourseInv /\ StreamInv /\ Course /\ Standing /\ Position /\ Ordered /\ Instance
      /\ pass.cur \in Slots \cup {NoSlot} /\ counted \in Counted /\ pass.cur <= counted /\ mine.current <= pass.last
      /\ EpochAssumption
  BY DEF PlaceInv, Batches, BeforeRange, TakeBlock, ReadFails, PrematureEnd, EpochEnds, EpochEndPulseFails, AtBlock,
         CourseInv, Course, StreamInv, TypeInv, PassType, Instance
<1>b. /\ counted + 1 \in Resume /\ AfterCurrent \in Resume /\ mine.current \in Resume /\ counted \in Nat
      /\ mine.current \in Nat /\ FirstSlot \in Nat /\ FirstSlot <= counted + 1 /\ AfterCurrent \in Nat
  BY <1>0, CountIsKept DEF Resume, Counted
<1>c. /\ pass.epoch = Front /\ pass.epoch \in Lowest .. Top /\ pass.epoch \in Nat
      /\ EpochFirst(pass.epoch) <= counted + 1 /\ counted <= EpochLast(pass.epoch)
      /\ EpochFirst(pass.epoch) \in Nat /\ EpochLast(pass.epoch) \in Nat
      /\ (Reverse => highest = pass.epoch) /\ Passed = Behind(pass.epoch, counted + 1)
      /\ \A p \in T : p \in Behind(pass.epoch, counted + 1) => p \in D
  BY <1>0, InEpoch DEF Reported, Going
<1>d. /\ \A i \in 1 .. Len(Stream) : Stream[i] <= counted <=> i < pass.pos
      /\ start <= counted + 1 /\ pass.emitted <= counted /\ pass.pos \in Nat /\ 1 <= pass.pos
      /\ start \in Nat /\ Len(Stream) \in Nat /\ pass.last <= EpochLast(pass.epoch) /\ pass.last \in Int
      /\ \A i \in 1 .. Len(Stream) : Stream[i] \in Nat
  <2>1. pass.last = LocalLast(pass.epoch) /\ 1 <= pass.pos /\ pass.pos \in Nat /\ start \in Nat
    BY <1>0, <1>b DEF PassType, StreamInv, TypeInv, Streaming, Resume
  <2>2. Len(Stream) \in Nat /\ \A i \in 1 .. Len(Stream) : Stream[i] \in Nat
    BY <1>0, <1>c, PresentIn DEF Stream
  <2>3. pass.last <= EpochLast(pass.epoch) /\ pass.last \in Int
    BY <1>0, <1>c, <2>1, Window
  <2>. QED  BY <1>0, <2>1, <2>2, <2>3 DEF Position
<1>e. \A p \in Slots : p \in Nat /\ EpochOf(p) \in Nat
  BY <1>0, <1>b, EpochHolds DEF Slots
<1>1. CASE BeforeRange
  <2>1. pass.pos \in 1 .. Len(Stream) /\ Stream[pass.pos] < start
    BY <1>1, <1>d DEF BeforeRange, AtBlock, Ahead
  <2>2. Stream[pass.pos] <= counted /\ ~(pass.pos < pass.pos)
    BY <1>b, <1>d, <2>1
  <2>. QED  BY <1>d, <2>1, <2>2
<1>2. CASE TakeBlock
  <2>1. pass' = [pass EXCEPT !.cur = Ahead, !.pos = pass.pos + 1, !.node = "tx"]
    BY <1>2 DEF TakeBlock
  <2>2. /\ pass'.todo = pass.todo /\ pass'.epoch = pass.epoch /\ pass'.cur = Ahead /\ pass'.pos = pass.pos + 1
        /\ pass'.emitted = pass.emitted /\ pass'.node = "tx"
    BY <1>0, <2>1 DEF PassType
  <2>3. pc' = "node" /\ UNCHANGED <<start, highest, partial, counted>> /\ pass.pos \in 1 .. Len(Stream)
        /\ Ahead = Stream[pass.pos]
    BY <1>2, <1>d DEF TakeBlock, AtBlock, control, Ahead
  <2>4. Front' = Front
    BY <1>0, <2>2, <2>3 DEF Front
  <2>5. Passed' = Passed
    BY <1>0, <2>3, <2>4 DEF Passed, Behind, Past, EpochOf
  <2>6. counted < Ahead
    <3>1. ~(pass.pos < pass.pos)
      BY <1>d
    <3>2. ~(Stream[pass.pos] <= counted) /\ Stream[pass.pos] \in Nat
      BY <1>d, <2>3, <3>1
    <3>. QED  BY <1>b, <2>3, <3>2
  <2>7. Stream' = Stream
    BY <2>2 DEF Stream
  <2>8. pass'.pos - 1 = pass.pos
    BY <1>d, <2>2
  <2>9. /\ 1 < pass'.pos /\ pass'.pos - 1 <= Len(Stream') /\ pass'.cur = Stream'[pass'.pos - 1] /\ counted' < pass'.cur
        /\ \A i \in 1 .. Len(Stream') : Stream'[i] <= counted' <=> i < pass'.pos - 1
        /\ start' <= counted' + 1 /\ pass'.emitted <= counted'
    BY <1>d, <2>2, <2>3, <2>6, <2>7, <2>8
  <2>10. Position'
    BY <2>2, <2>3, <2>9 DEF Position
  <2>11. Standing'
    BY <1>0, <2>3 DEF Standing, EpochOf
  <2>. QED  BY <1>0, <1>c, <2>3, <2>5, <2>10, <2>11 DEF ReportedNext
<1>3. CASE ReadFails
  <2>1. Restart(AfterCurrent, counted, highest)
    BY <1>3 DEF ReadFails
  <2>2. AfterCurrent <= counted + 1
    <3>1. pass.cur # NoSlot => pass.cur \in Nat
      BY <1>0, <1>e
    <3>. QED  BY <1>0, <1>b, <1>d, <3>1 DEF AfterCurrent
  <2>3. ResumeSlot(AfterCurrent, counted) = counted + 1
    BY <1>b, <2>2, ResumeIs
  <2>4. counted + 1 <= EpochLast(pass.epoch) + 1
    BY <1>b, <1>c
  <2>. QED  BY <1>0, <1>b, <1>c, <2>1, <2>3, <2>4, RestartAt
<1>4. CASE PrematureEnd
  <2>1. Restart(counted + 1, counted, highest)
    BY <1>4 DEF PrematureEnd
  <2>2. ResumeSlot(counted + 1, counted) = counted + 1 /\ counted + 1 <= EpochLast(pass.epoch) + 1
    BY <1>b, <1>c, ResumeIs
  <2>. QED  BY <1>0, <1>b, <1>c, <2>1, <2>2, RestartAt
<1>5. CASE EpochEnds
  <2>1. /\ pass.todo # <<>> /\ pass' = [pass EXCEPT !.todo = Tail(@)] /\ pc' = "epoch"
        /\ highest' = EpochDone /\ counted' = counted /\ start' = start
        /\ partial' = IF Reverse /\ partial # NoSlot /\ EpochOf(partial) = pass.epoch THEN NoSlot ELSE partial
    BY <1>0, <1>5 DEF EpochEnds, StreamInv, TypeInv, Streaming
  <2>2. pass'.todo = Tail(pass.todo) /\ pass'.emitted = pass.emitted
    BY <1>0, <2>1 DEF PassType
  <2>3. Front' = (IF Reverse THEN Front - 1 ELSE Front + 1)
    BY <1>0, <2>1, <2>2, NextFront DEF InPass
  <2>4. /\ \A p \in T : EpochOf(p) = pass.epoch => p \in D
        /\ Reverse => EpochFirst(pass.epoch) <= counted
    <3>1. Unread = NoSlot \/ (AtBlock /\ Ahead > pass.last)
      BY <1>5 DEF EpochEnds
    <3>2. \A p \in T : EpochOf(p) = pass.epoch => p \in Behind(pass.epoch, counted + 1)
      BY <1>b, <1>e, <3>1 DEF Behind
    <3>. QED  BY <1>0, <1>c, <3>1, <3>2, EpochRead
  <2> DEFINE f == IF Reverse THEN Front - 1 ELSE Front + 1
             S == IF Reverse /\ partial' # NoSlot /\ EpochOf(partial') = f
                  THEN Max2(EpochFirst(f), partial') ELSE Max2(start', EpochFirst(f))
  <2>a. Front' = f
    BY <2>3
  <2>b. LocalStart(Front)' = S
    BY <2>a DEF LocalStart, Max2, EpochFirst, EpochOf
  <2>5. f \in Int
    BY <1>c, <2>3
  <2>7. Reverse => start' = FirstSlot /\ (partial' # NoSlot => partial' = FirstSlot \/ EpochOf(partial') # f)
    <3>1. SUFFICES ASSUME Reverse, partial' # NoSlot, partial' # FirstSlot PROVE EpochOf(partial') # f /\ start' = FirstSlot
      BY <1>0, <2>1 DEF Course
    <3>2. partial' = partial /\ highest <= EpochOf(partial)
      BY <1>0, <2>1, <3>1 DEF Standing
    <3>3. partial \in Nat
      BY <1>0, <1>b, <3>1, <3>2 DEF StreamInv, TypeInv, Resume
    <3>4. EpochOf(partial) \in Nat /\ f = Front - 1 /\ highest = Front
      BY <1>0, <1>c, <2>3, <3>1, <3>3, EpochHolds
    <3>. QED  BY <1>0, <1>c, <2>1, <3>1, <3>2, <3>4 DEF Course
  <2>8. ~Reverse => EpochOf(start) < f
    <3>1. EpochOf(start) \in Nat
      BY <1>0, <1>d, EpochHolds
    <3>. QED  BY <1>0, <1>c, <2>3, <3>1 DEF Course, InPass
  <2>9. \A p \in Slots : EpochOf(p) = f => ~(p < S)
    <3>1. (Reverse => start' = FirstSlot /\ (partial' # NoSlot => partial' = FirstSlot \/ EpochOf(partial') # f))
          /\ (~Reverse => EpochOf(start') < f) /\ start' \in Nat
      BY <1>d, <2>1, <2>7, <2>8
    <3> HIDE DEF f
    <3>. QED  BY <1>0, <2>5, <3>1, FreshEpoch
  <2>10. Passed' \subseteq Past(f)
    <3>1. Passed' = Behind(f, S)
      <4> HIDE DEF f, S
      <4>. QED  BY <2>1, <2>a, <2>b DEF Passed, Behind, Past, EpochOf
    <3>. QED  BY <2>9, <3>1 DEF Behind
  <2>11. ASSUME NEW p \in T, p \in Past(f) PROVE p \in D
    <3>1. p \in Slots /\ (EpochOf(p) = pass.epoch \/ p \in Past(pass.epoch))
      BY <1>c, <1>e, <2>3, <2>11 DEF Past
    <3>. QED  BY <1>c, <2>4, <3>1 DEF Behind
  <2>12. T \cap Passed' \subseteq D
    BY <1>0, <2>10, <2>11
  <2>13. CASE Reverse
    <3>1. highest' = pass.epoch - 1
      BY <1>c, <2>1, <2>13 DEF EpochDone
    <3>2. EpochFirst(pass.epoch - 1) <= counted + 1
      BY <1>0, <1>b, <1>c, EpochOrder
    <3>3. EpochOf(counted) = pass.epoch
      BY <1>0, <1>b, <1>c, <2>4, <2>13, EpochIs
    <3>4. EpochOf(counted) # highest'
      BY <1>c, <3>1, <3>3
    <3>5. partial' # NoSlot => partial' = FirstSlot \/ highest' <= EpochOf(partial')
      <4>1. partial' # NoSlot => partial' = partial /\ partial \in Nat
        BY <1>0, <1>b, <2>1 DEF StreamInv, TypeInv, Resume
      <4>2. partial # NoSlot => partial = FirstSlot \/ highest <= EpochOf(partial)
        BY <1>0, <2>13 DEF Standing
      <4>3. partial \in Nat => EpochOf(partial) \in Nat
        BY <1>0, EpochHolds
      <4>. QED  BY <1>c, <2>1, <2>13, <3>1, <4>1, <4>2, <4>3
    <3>6. Standing'
      BY <2>1, <2>13, <3>1, <3>2, <3>4, <3>5 DEF Standing, EpochOf, EpochFirst
    <3>. QED  BY <2>1, <2>12, <3>4, <3>6 DEF ReportedNext, Position, EpochOf
  <2>14. CASE ~Reverse
    <3>1. f = pass.epoch + 1
      BY <1>c, <2>3, <2>14
    <3>2. EpochLast(pass.epoch) < EpochFirst(f) /\ EpochFirst(f) \in Int
      BY <1>0, <1>c, <2>5, <3>1, EpochOrder
    <3>3. LocalStart(Front)' = Max2(start', EpochFirst(f))
      BY <2>b, <2>14
    <3> HIDE DEF f
    <3>4. counted < LocalStart(Front)' /\ pass.emitted < LocalStart(Front)'
      <4>1. pass.emitted \in Nat
        BY <1>0 DEF PassType
      <4>. QED  BY <1>b, <1>c, <1>d, <2>1, <3>2, <3>3, <4>1 DEF Max2
    <3>5. Standing'
      BY <2>1, <2>2, <2>14, <3>4 DEF Standing
    <3>. QED  BY <2>1, <2>12, <2>14, <3>5 DEF ReportedNext, Position
  <2>. QED  BY <2>13, <2>14
<1>6. CASE EpochEndPulseFails
  <2>1. Restart(mine.current, counted, EpochDone)
    BY <1>6 DEF EpochEndPulseFails
  <2>2. EpochDone \in -1 .. Top /\ (Reverse => EpochDone = highest - 1)
    BY <1>0, <1>c, EpochDoneType DEF EpochDone
  <2>3. /\ \A p \in T : EpochOf(p) = pass.epoch => p \in D
        /\ Reverse => EpochFirst(pass.epoch) <= counted
    <3>1. Unread = NoSlot \/ (AtBlock /\ Ahead > pass.last)
      BY <1>6 DEF EpochEndPulseFails
    <3>2. \A p \in T : EpochOf(p) = pass.epoch => p \in Behind(pass.epoch, counted + 1)
      BY <1>b, <1>e, <3>1 DEF Behind
    <3>. QED  BY <1>0, <1>c, <3>1, <3>2, EpochRead
  <2> DEFINE r == ResumeSlot(mine.current, counted)
  <2>4. r \in Nat /\ counted < r /\ (r = counted + 1 \/ r = mine.current)
    BY <1>b DEF ResumeSlot
  <2> HIDE DEF r
  <2>5. ASSUME NEW p \in T, p \in Past(pass.epoch) PROVE p \in D
    BY <1>c, <2>5 DEF Behind
  <2>6. CASE Reverse
    <3>1. \A p \in T : EpochDone < EpochOf(p) => p \in D
      BY <1>0, <1>c, <1>e, <2>2, <2>3, <2>5, <2>6 DEF Past
    <3>2. EpochOf(counted) = pass.epoch
      BY <1>0, <1>b, <1>c, <2>3, <2>6, EpochIs
    <3>3. EpochOf(counted) # EpochDone /\ EpochOf(r) # EpochDone
      <4>1. EpochOf(counted) <= EpochOf(r) /\ EpochOf(r) \in Nat
        BY <1>0, <1>b, <2>4, EpochMonotone, EpochHolds
      <4>. QED  BY <1>c, <2>2, <2>6, <3>2, <4>1
    <3>4. EpochFirst(EpochDone) <= counted + 1
      BY <1>0, <1>b, <1>c, <2>2, <2>6, EpochOrder
    <3>. QED  BY <1>0, <1>b, <2>1, <2>2, <2>6, <3>1, <3>3, <3>4, RestartReports DEF r
  <2>7. CASE ~Reverse
    <3>1. ASSUME NEW p \in T, p < r PROVE p \in D
      <4>1. r <= EpochLast(pass.epoch) + 1
        BY <1>0, <1>b, <1>c, <1>d, <2>4
      <4>2. EpochFirst(EpochOf(p)) <= p /\ EpochFirst(EpochOf(p)) \in Int
        BY <1>0, <1>e, <3>1, EpochHolds DEF EpochFirst, EpochAssumption
      <4>3. pass.epoch < EpochOf(p) => EpochLast(pass.epoch) < EpochFirst(EpochOf(p))
        BY <1>0, <1>c, <1>e, <3>1, EpochOrder
      <4>4. EpochOf(p) = pass.epoch \/ EpochOf(p) < pass.epoch
        BY <1>c, <1>e, <2>4, <3>1, <4>1, <4>2, <4>3
      <4>. QED  BY <2>3, <2>5, <2>7, <3>1, <4>4 DEF Past
    <3>. QED  BY <1>0, <1>b, <2>1, <2>2, <2>7, <3>1, RestartReports DEF r
  <2>. QED  BY <2>6, <2>7
<1>. QED  BY <1>1, <1>2, <1>3, <1>4, <1>5, <1>6 DEF Batches

\* A step at a block that leaves the thread where it is.
LEMMA PlaceStays ==
  ASSUME PlaceInv, pc = "node", pc' \in {"node", "stopped"},
         UNCHANGED <<start, highest, partial, counted>>,
         pass'.todo = pass.todo, pass'.epoch = pass.epoch, pass'.pos = pass.pos, pass'.cur = pass.cur,
         pass'.emitted = pass.emitted,
         pc' = "node" /\ pass'.node = "block" =>
           pass'.snap[1] = counted \/ (pass.node = "block" /\ pass'.snap = pass.snap),
         NEW T \in SUBSET Slots, NEW D, Reported(T, D)
  PROVE  Standing' /\ Position' /\ ReportedNext(T, D)
<1>1. Front' = Front /\ Stream' = Stream
  BY DEF Front, Stream
<1>2. pc' = "node" => Passed' = Passed
  BY <1>1 DEF Passed, Behind, Past, EpochOf
<1>3. Position'
  <2>1. pc' = "node" =>
          /\ start' <= counted' + 1 /\ pass'.emitted <= counted'
          /\ 1 < pass'.pos /\ pass'.pos - 1 <= Len(Stream') /\ pass'.cur = Stream'[pass'.pos - 1] /\ counted' < pass'.cur
          /\ \A i \in 1 .. Len(Stream') : Stream'[i] <= counted' <=> i < pass'.pos - 1
    BY <1>1 DEF PlaceInv, Position
  <2>2. pc' = "node" /\ pass'.node = "block" =>
          \A i \in 1 .. Len(Stream') : i < pass'.pos - 1 => Stream'[i] <= pass'.snap[1]
    BY <1>1, <2>1 DEF PlaceInv, Position
  <2>. QED  BY <2>1, <2>2 DEF Position
<1>4. Standing'
  BY DEF PlaceInv, Standing, EpochOf
<1>. QED  BY <1>2, <1>3, <1>4 DEF Reported, ReportedNext, Going

\* A block that fails is where the thread resumes.
LEMMA RestartAtCur ==
  ASSUME PlaceInv, pc = "node", NEW c \in Counted, Restart(pass.cur, c, highest),
         EpochFirst(pass.epoch) <= c + 1, c < pass.cur,
         NEW T \in SUBSET Slots, NEW D, Reported(T, D),
         \A p \in T : EpochOf(p) = pass.epoch /\ counted < p /\ p < pass.cur => p \in D
  PROVE  Standing' /\ Position' /\ ReportedNext(T, D)
<1>1. CourseInv /\ c \in Nat
  BY DEF PlaceInv, Counted
<1>2. /\ pass.cur \in Nat /\ pass.cur \in Slots /\ pass.cur <= EpochLast(pass.epoch) /\ EpochLast(pass.epoch) \in Nat
  BY <1>1, NodeIs
<1>3. pass.cur \in Resume
  BY <1>1, <1>2 DEF Slots, Resume, CourseInv, StreamInv, Instance, RangeAssumption
<1>4. ResumeSlot(pass.cur, c) = pass.cur
  BY <1>1, <1>2, ResumeIs
<1>5. pass.cur <= EpochLast(pass.epoch) + 1
  BY <1>2
<1>6. \A p \in T : p \in Behind(pass.epoch, pass.cur) => p \in D
  BY <1>2, BehindCur
<1>. QED  BY <1>3, <1>4, <1>5, <1>6, RestartAt

\* Nor at a block, if the slots of T in front of a block that fails, a slot of T that
\* counts as skipped, and those up to a block that counts are in D by then.
LEMMA NodeStepReports ==
  ASSUME PlaceInv, CourseInv', Nodes \/ BlockNode, NEW T \in SUBSET Slots, NEW D, Reported(T, D),
         pc' = "boundary" =>
           \A p \in T : EpochOf(p) = pass.epoch /\ counted < p /\ p < pass.cur => p \in D,
         SkipSlot => (Gap \in T => Gap \in D),
         DeliverBlock =>
           \A p \in T : EpochOf(p) = pass.epoch /\ counted < p /\ p <= pass.cur => p \in D
  PROVE  Standing' /\ Position' /\ ReportedNext(T, D)
<1>0. pc = "node" /\ CourseInv /\ StreamInv /\ Position /\ Standing /\ counted \in Counted /\ pass \in PassType
  BY DEF Nodes, OnTransaction, OnEntry, OnRewards, NodeFails, Interrupted, AtNode, PlaceInv, CourseInv, StreamInv, TypeInv,
     BlockNode, SkipSlot, SkipFails, DropDuplicate, DeliverBlock, BlockFails, PulseFails, AtBlockNode, InGap
<1>b. /\ pass.cur \in Slots /\ pass.cur \in Nat /\ EpochOf(pass.cur) = pass.epoch /\ pass.epoch \in Nat
      /\ EpochFirst(pass.epoch) <= counted + 1 /\ counted \in Nat /\ counted < pass.cur
      /\ EpochFirst(pass.epoch) \in Nat /\ EpochLast(pass.epoch) \in Nat /\ pass.epoch = Front
      /\ pass.cur <= EpochLast(pass.epoch) /\ pass.emitted \in Nat /\ pass.pos \in Nat
  BY <1>0, NodeIs, InEpoch, BelowCur DEF PassType
<1>c. /\ start <= counted + 1 /\ pass.emitted <= counted
      /\ 1 < pass.pos /\ pass.pos - 1 <= Len(Stream) /\ pass.cur = Stream[pass.pos - 1]
      /\ \A i \in 1 .. Len(Stream) : Stream[i] <= counted <=> i < pass.pos - 1
  BY <1>0 DEF Position
<1>d. /\ pass.epoch \in Lowest .. Top /\ Stream = Archive[pass.epoch] /\ start \in Nat
      /\ Instance /\ EpochAssumption /\ RangeAssumption
      /\ Len(Stream) \in Nat /\ \A i \in 1 .. Len(Stream) : Stream[i] \in Nat /\ Stream[i] \in Present
  <2>1. /\ Instance /\ EpochAssumption /\ RangeAssumption /\ start \in Resume
    BY <1>0 DEF CourseInv, StreamInv, TypeInv, Instance
  <2>2. pass.epoch \in Lowest .. Top /\ Stream = Archive[pass.epoch]
    BY <1>0, BelowCur
  <2>3. start \in Nat
    BY <2>1 DEF Resume, RangeAssumption
  <2>4. Len(Stream) \in Nat /\ \A i \in 1 .. Len(Stream) : Stream[i] \in Nat /\ Stream[i] \in Present
    BY <2>1, <2>2, PresentIn
  <2>. QED  BY <2>1, <2>2, <2>3, <2>4
<1>e. \A p \in T : p \in Nat
  BY <1>d DEF Slots, RangeAssumption
<1>1. CASE OnTransaction
  <2>1. /\ pass'.todo = pass.todo /\ pass'.epoch = pass.epoch /\ pass'.pos = pass.pos /\ pass'.cur = pass.cur
        /\ pass'.emitted = pass.emitted /\ pass'.node = "entry"
    BY <1>0, <1>1 DEF OnTransaction, PassType
  <2>. QED  BY <1>0, <1>1, <2>1, PlaceStays DEF OnTransaction, control
<1>2. CASE OnEntry
  <2>1. /\ pass'.todo = pass.todo /\ pass'.epoch = pass.epoch /\ pass'.pos = pass.pos /\ pass'.cur = pass.cur
        /\ pass'.emitted = pass.emitted /\ pass'.node = "rewards"
    BY <1>0, <1>2 DEF OnEntry, PassType
  <2>. QED  BY <1>0, <1>2, <2>1, PlaceStays DEF OnEntry, control
<1>3. CASE OnRewards
  <2>1. /\ pass'.todo = pass.todo /\ pass'.epoch = pass.epoch /\ pass'.pos = pass.pos /\ pass'.cur = pass.cur
        /\ pass'.emitted = pass.emitted /\ pass'.node = "block" /\ pass'.snap[1] = counted
    BY <1>0, <1>3 DEF OnRewards, PassType
  <2>. QED  BY <1>0, <1>3, <2>1, PlaceStays DEF OnRewards, control
<1>4. CASE NodeFails
  <2>1. Restart(pass.cur, counted, highest) /\ pc' = "boundary"
    BY <1>4 DEF NodeFails, Restart
  <2>. QED  BY <1>0, <1>b, <2>1, RestartAtCur
<1>5. CASE Interrupted
  BY <1>0, <1>5, PlaceStays DEF Interrupted, control
<1>6. CASE SkipSlot
  <2>0. AtNode("block") /\ Gap \in Nat /\ Gap < pass.cur /\ counted' = Gap /\ Gap = counted + 1 /\ pc' = "node"
        /\ UNCHANGED <<start, highest, partial>>
    BY <1>0, <1>6, GapIs DEF SkipSlot, InGap, Gap, control
  <2>1. pass' = pass \/ pass' = [pass EXCEPT !.emitted = Gap]
    BY <1>6 DEF SkipSlot
  <2>2. /\ pass'.todo = pass.todo /\ pass'.epoch = pass.epoch /\ pass'.pos = pass.pos /\ pass'.cur = pass.cur
        /\ pass'.emitted \in {pass.emitted, Gap} /\ pass'.snap = pass.snap
    BY <1>0, <2>1 DEF PassType
  <2>3. Front' = Front /\ Stream' = Stream
    BY <1>0, <2>0, <2>2 DEF Front, Stream
  <2>4. Passed' = Behind(pass.epoch, Gap + 1)
    BY <1>b, <2>0, <2>3 DEF Passed, Behind, Past, EpochOf
  <2>5. EpochOf(Gap) = pass.epoch
    BY <1>b, <1>d, <2>0, EpochIs
  <2>6. ASSUME NEW p \in T, p \in Passed' PROVE p \in D
    <3>1. \A q \in T : EpochOf(q) = pass.epoch /\ counted < q /\ q < Gap + 1 => q = Gap
      BY <1>b, <1>e, <2>0
    <3>2. \A q \in T : q \in Behind(pass.epoch, Gap + 1) => q \in D
      BY <1>0, <1>6, <2>0, <3>1, BehindCur
    <3>. QED  BY <2>4, <2>6, <3>2
  <2>7. ASSUME NEW i \in 1 .. Len(Stream) PROVE Stream[i] <= Gap <=> i < pass.pos - 1
    <3>1. Stream[i] < pass.cur => Stream[i] <= counted
      <4>1. pass.pos - 1 \in 1 .. Len(Stream)
        BY <1>0, BelowCur
      <4>2. Ordered
        BY DEF PlaceInv
      <4>3. Stream[i] < pass.cur <=> i < pass.pos - 1
        BY <1>c, <1>d, <4>1, <4>2, InOrder
      <4>. QED  BY <1>c, <4>3
    <3>. QED  BY <1>b, <1>c, <1>d, <2>0, <3>1
  <2>8. start' <= counted' + 1 /\ pass'.emitted <= counted' /\ counted' < pass'.cur
    BY <1>b, <1>c, <1>d, <2>0, <2>2
  <2>9. Position'
    <3>1. /\ 1 < pass'.pos /\ pass'.pos - 1 <= Len(Stream') /\ pass'.cur = Stream'[pass'.pos - 1]
          /\ \A i \in 1 .. Len(Stream') : Stream'[i] <= counted' <=> i < pass'.pos - 1
      BY <1>c, <2>0, <2>2, <2>3, <2>7
    <3>2. \A i \in 1 .. Len(Stream') : i < pass'.pos - 1 => Stream'[i] <= pass'.snap[1]
      BY <1>0, <2>0, <2>2, <2>3 DEF Position, AtNode
    <3>. QED  BY <2>0, <2>8, <3>1, <3>2 DEF Position
  <2>10. Standing'
    BY <1>0, <2>0 DEF Standing, EpochOf
  <2>. QED  BY <2>0, <2>6, <2>9, <2>10 DEF ReportedNext
<1>7. CASE SkipFails
  <2>1. Restart(pass.cur, counted, highest) /\ pc' = "boundary"
    BY <1>7 DEF SkipFails, Restart
  <2>. QED  BY <1>0, <1>b, <2>1, RestartAtCur
<1>8. CASE DropDuplicate
  BY <1>b, <1>8 DEF DropDuplicate, Duplicate
<1>9. CASE DeliverBlock
  <2>1. pass' = [pass EXCEPT !.node = "none", !.snap = <<>>, !.prev = pass.hash, !.emitted = Max2(pass.emitted, pass.cur)]
    BY <1>9 DEF DeliverBlock
  <2>2. /\ pass'.todo = pass.todo /\ pass'.epoch = pass.epoch /\ pass'.pos = pass.pos
        /\ pass'.emitted = Max2(pass.emitted, pass.cur)
    BY <1>0, <2>1 DEF PassType
  <2>3. /\ counted' = pass.cur /\ UNCHANGED <<start, highest, partial>>
        /\ pc' = IF ~Reverse /\ pass.cur = EndSlot - 1 THEN "done" ELSE "loop"
    BY <1>b, <1>c, <1>9 DEF DeliverBlock, AfterBlock, Max2, control
  <2>4. Front' = Front /\ Stream' = Stream
    BY <1>0, <2>2, <2>3 DEF Front, Stream
  <2>5. pc' = "loop" => Passed' = Behind(pass.epoch, pass.cur + 1)
    BY <1>b, <2>3, <2>4 DEF Passed, Behind, Past, EpochOf
  <2>6. \A p \in T : p \in Behind(pass.epoch, pass.cur + 1) => p \in D
    <3>1. \A p \in T : p < pass.cur + 1 => p <= pass.cur
      BY <1>b, <1>e
    <3>. QED  BY <1>0, <1>b, <1>9, <3>1, BehindCur
  <2>7. start' <= counted' + 1 /\ pass'.emitted <= counted'
    BY <1>b, <1>c, <1>d, <2>2, <2>3 DEF Max2
  <2>8. \A i \in 1 .. Len(Stream') : Stream'[i] <= counted' <=> i < pass'.pos
    BY <1>0, <2>2, <2>3, <2>4, BelowCur
  <2>9. Position'
    BY <2>3, <2>7, <2>8 DEF Position
  <2>10. Standing'
    BY <1>0, <2>3 DEF Standing, EpochOf
  <2>11. ASSUME pc' = "done", NEW p \in T PROVE p \in D
    <3>2. ~Reverse /\ pass.cur = EndSlot - 1
      BY <2>3, <2>11
    <3>3. p < pass.cur + 1 /\ pass.cur + 1 <= EpochLast(pass.epoch) + 1 /\ EpochFirst(pass.epoch) <= pass.cur + 1
      BY <1>b, <1>d, <3>2 DEF Slots, RangeAssumption
    <3>4. p \in Behind(pass.epoch, pass.cur + 1)
      BY <1>b, <1>d, <3>2, <3>3, ForwardBehind
    <3>. QED  BY <2>6, <3>4
  <2>. QED  BY <2>3, <2>5, <2>6, <2>9, <2>10, <2>11 DEF ReportedNext, Going
<1>10. CASE BlockFails
  <2>1. Restart(pass.cur, counted, highest) /\ pc' = "boundary"
    BY <1>10 DEF BlockFails, Restart
  <2>. QED  BY <1>0, <1>b, <2>1, RestartAtCur
<1>11. CASE PulseFails
  <2>1. Restart(pass.cur, pass.snap[1], highest) /\ pc' = "boundary" /\ AtNode("block")
    BY <1>11 DEF PulseFails, AtBlockNode, Restart
  <2>2. pass.snap[1] \in Counted /\ pass.snap[1] \in Nat
    BY <1>0, <2>1, AtBlockNodeIs DEF Counted
  <2>3. pass.snap[1] <= counted /\ EpochFirst(pass.epoch) <= pass.snap[1] + 1
    BY <1>0, <2>1 DEF CourseInv, Course, AtNode
  <2>4. pass.snap[1] < pass.cur
    BY <1>b, <2>2, <2>3
  <2>. QED  BY <1>0, <2>1, <2>2, <2>3, <2>4, RestartAtCur
<1>. QED  BY <1>1, <1>2, <1>3, <1>4, <1>5, <1>6, <1>7, <1>8, <1>9, <1>10, <1>11 DEF Nodes, BlockNode

\* At the start nothing is behind the thread.
LEMMA InitReports ==
  ASSUME Instance, Aligned, Ordered, Init
  PROVE  PlaceInv /\ \A T \in SUBSET Slots : Reported(T, {})
<1>1. /\ FirstSlot \in Nat /\ 0 < FirstSlot /\ EpochAssumption /\ Top \in Nat
      /\ pc = "boundary" /\ start = FirstSlot /\ counted = Dec(FirstSlot) /\ highest = Top /\ partial = NoSlot
  BY Epochs0 DEF Init, Instance, RangeAssumption, Ordered
<1>2. counted = FirstSlot - 1 /\ \A p \in Slots : p \in Nat /\ FirstSlot <= p
  BY <1>1 DEF Dec, Max2, Slots
<1>3. LocalStart(Front) = Max2(FirstSlot, EpochFirst(Front))
  BY <1>1 DEF LocalStart
<1>4. Front \in Nat /\ EpochFirst(Front) \in Nat
  BY <1>1, EpochHolds DEF Front, EpochFirst, EpochAssumption
<1>5. counted < LocalStart(Front)
  BY <1>1, <1>2, <1>3, <1>4 DEF Max2
<1>6. Standing
  BY <1>1, <1>2, <1>5 DEF Standing
<1>7. ASSUME NEW p \in Slots, p \in Passed PROVE FALSE
  <2>1. p \in Behind(Front, LocalStart(Front))
    BY <1>1, <1>7 DEF Passed
  <2>2. p \in Nat /\ FirstSlot <= p /\ EpochOf(p) \in Lowest .. Top /\ EpochFirst(EpochOf(p)) <= p
    BY <1>1, <1>2, <1>7, Epochs0, EpochHolds DEF Instance
  <2>3. EpochOf(p) = Front => ~(p < LocalStart(Front))
    BY <1>1, <1>3, <1>4, <2>2 DEF Max2
  <2>4. p \notin Past(Front)
    BY <1>1, <1>4, <2>2 DEF Past, Front, Lowest
  <2>. QED  BY <2>1, <2>3, <2>4 DEF Behind
<1>8. \A p \in Slots : ~(p <= counted)
  BY <1>1, <1>2
<1>9. PlaceInv
  BY <1>1, <1>6, InitCourse DEF PlaceInv, Position
<1>10. ASSUME NEW T \in SUBSET Slots PROVE Reported(T, {})
  BY <1>1, <1>7, <1>8 DEF Reported
<1>. QED  BY <1>9, <1>10

\* More reports keep what was reported.
LEMMA MoreReports ==
  ASSUME NEW T, NEW D, NEW D1, D \subseteq D1, Reported(T, D)
  PROVE  Reported(T, D1)
  BY DEF Reported

\* A step that is none of the thread's work moves nothing.
LEMMA OtherReports ==
  ASSUME PlaceInv, PollShutdown \/ Terminated \/ UNCHANGED vars, NEW T \in SUBSET Slots, NEW D, Reported(T, D)
  PROVE  Standing' /\ Position' /\ ReportedNext(T, D)
<1>1. CASE PollShutdown
  <2>1. pc' = "stopped" /\ UNCHANGED <<highest, partial>>
    BY <1>1 DEF PollShutdown, control
  <2>. QED  BY <2>1 DEF PlaceInv, Standing, Position, ReportedNext, Going, EpochOf
<1>2. CASE UNCHANGED vars
  <2>1. UNCHANGED <<pc, start, highest, partial, counted, pass>>
    BY <1>2 DEF vars, control
  <2>2. Front' = Front /\ Stream' = Stream
    BY <2>1 DEF Front, Stream, EpochOf
  <2>3. LocalStart(Front)' = LocalStart(Front)
    BY <2>1, <2>2 DEF LocalStart, EpochOf, EpochFirst, Max2
  <2>4. Passed' = Passed
    BY <2>1, <2>2, <2>3 DEF Passed, Behind, Past, EpochOf
  <2>5. Standing'
    BY <2>1, <2>3 DEF PlaceInv, Standing, EpochOf, EpochFirst
  <2>6. Position'
    BY <2>1, <2>2 DEF PlaceInv, Position
  <2>. QED  BY <2>1, <2>4, <2>5, <2>6 DEF Reported, ReportedNext, Going
<1>. QED  BY <1>1, <1>2 DEF Terminated

\* The blocks of the range.
Wanted == Present \cap Slots

\* Every step delivers the blocks that it leaves behind.
LEMMA BlocksReported ==
  ASSUME PlaceInv, Reported(Wanted, blocks), [Next]_vars
  PROVE  PlaceInv' /\ ReportedNext(Wanted, blocks')
<1>0. CourseInv' /\ CourseInv /\ Ordered /\ Position /\ StreamInv
  BY CourseStep DEF PlaceInv, CourseInv
<1>1. Wanted \subseteq Slots /\ Wanted \subseteq Present
  BY DEF Wanted
<1>2. blocks \subseteq blocks'
  BY DEF Next, Work, Epochs, StartPass, SkipEpoch, OpenEpoch, OpenFails, SeekFails, PassEnds,
     Batches, BeforeRange, TakeBlock, ReadFails, PrematureEnd, EpochEnds, EpochEndPulseFails,
     Nodes, OnTransaction, OnEntry, OnRewards, NodeFails, Interrupted,
     BlockNode, SkipSlot, SkipFails, DropDuplicate, DeliverBlock, BlockFails, PulseFails,
     PollShutdown, Terminated, vars, seen
<1>3. Reported(Wanted, blocks')
  BY <1>2, MoreReports
<1>4. SUFFICES Standing' /\ Position' /\ ReportedNext(Wanted, blocks')
  BY <1>0 DEF PlaceInv, Ordered
<1>5. CASE Epochs
  BY <1>0, <1>1, <1>3, <1>5, EpochStepReports
<1>6. CASE Batches
  <2>1. pc = "loop"
    BY <1>6 DEF Batches, BeforeRange, TakeBlock, ReadFails, PrematureEnd, EpochEnds, EpochEndPulseFails, AtBlock
  <2>2. Unread = NoSlot \/ (AtBlock /\ Ahead > pass.last)
          => \A p \in Wanted : EpochOf(p) = pass.epoch => p <= counted
    BY <2>1, EpochRead DEF Wanted
  <2>. QED  BY <1>0, <1>1, <1>3, <1>6, <2>2, BatchStepReports
<1>7. CASE Nodes \/ BlockNode
  <2>1. pc = "node"
    BY <1>7 DEF Nodes, OnTransaction, OnEntry, OnRewards, NodeFails, Interrupted, AtNode,
       BlockNode, SkipSlot, SkipFails, DropDuplicate, DeliverBlock, BlockFails, PulseFails, AtBlockNode, InGap
  <2>2. /\ \A p \in Wanted : EpochOf(p) = pass.epoch /\ p < pass.cur => p <= counted
        /\ counted < pass.cur /\ pass.cur \in Nat /\ counted \in Nat /\ \A p \in Wanted : p \in Nat
        /\ EpochOf(pass.cur) = pass.epoch /\ EpochFirst(pass.epoch) <= counted + 1
        /\ pass.cur <= EpochLast(pass.epoch) /\ pass.epoch \in Nat /\ EpochAssumption
        /\ EpochLast(pass.epoch) \in Nat
    <3>1. /\ \A p \in Wanted : EpochOf(p) = pass.epoch /\ p < pass.cur => p <= counted
          /\ counted < pass.cur
      BY <1>1, <2>1, BelowCur
    <3>2. /\ pass.cur \in Nat /\ counted \in Nat /\ EpochOf(pass.cur) = pass.epoch
          /\ EpochFirst(pass.epoch) <= counted + 1 /\ pass.cur <= EpochLast(pass.epoch) /\ pass.epoch \in Nat
          /\ EpochLast(pass.epoch) \in Nat
      BY <1>0, <2>1, NodeIs, InEpoch
    <3>3. EpochAssumption /\ \A p \in Wanted : p \in Nat
      BY <1>0, <1>1, PresentNat DEF StreamInv, Instance
    <3>. QED  BY <3>1, <3>2, <3>3
  <2>3. \A p \in Wanted : EpochOf(p) = pass.epoch /\ counted < p /\ p < pass.cur => p \in blocks'
    BY <2>2
  <2>4. SkipSlot => (Gap \in Wanted => Gap \in blocks')
    <3>1. SUFFICES ASSUME SkipSlot, Gap \in Wanted PROVE FALSE
      OBVIOUS
    <3>2. Gap \in Nat /\ Gap < pass.cur /\ Gap = counted + 1
      BY <1>0, <3>1, GapIs DEF SkipSlot, Gap
    <3>3. EpochOf(Gap) = pass.epoch
      BY <2>2, <3>2, EpochIs
    <3>. QED  BY <2>2, <3>1, <3>2, <3>3
  <2>5. DeliverBlock => \A p \in Wanted : EpochOf(p) = pass.epoch /\ counted < p /\ p <= pass.cur => p \in blocks'
    <3>1. SUFFICES ASSUME DeliverBlock PROVE pass.cur \in blocks'
      BY <2>2
    <3>2. pass.emitted \in Nat /\ pass.emitted <= counted
      BY <1>0, <2>1 DEF Position, StreamInv, TypeInv, PassType
    <3>3. Fresh(pass.cur)
      BY <2>2, <3>2 DEF Fresh
    <3>. QED  BY <3>1, <3>3 DEF DeliverBlock
  <2>. QED  BY <1>0, <1>1, <1>3, <1>7, <2>3, <2>4, <2>5, NodeStepReports
<1>8. CASE PollShutdown \/ Terminated \/ UNCHANGED vars
  BY <1>0, <1>1, <1>3, <1>8, OtherReports
<1>. QED  BY <1>5, <1>6, <1>7, <1>8 DEF Next, Work

\* A thread that finished its range delivered every block of it, whatever failed and
\* wherever it started again, forward and in reverse.  (With an archive out of slot order,
\* and in reverse with a range that ends within an epoch, it may not: see README.)
THEOREM BlocksSeen == Instance /\ Aligned /\ Ordered /\ Spec => []EveryBlockSeen
<1> DEFINE I == PlaceInv /\ Reported(Wanted, blocks)
<1>1. Instance /\ Aligned /\ Ordered /\ Init => I
  <2>1. Wanted \in SUBSET Slots /\ {} \subseteq blocks
    BY DEF Wanted
  <2>. QED  BY <2>1, InitReports, MoreReports
<1>2. I /\ [Next]_vars => I'
  <2> SUFFICES ASSUME I, [Next]_vars PROVE I'
    OBVIOUS
  <2>1. PlaceInv' /\ ReportedNext(Wanted, blocks')
    BY BlocksReported
  <2>2. Reported(Wanted, blocks)'
    BY <2>1 DEF Reported, ReportedNext, Wanted, Slots, Present, EpochOf
  <2>. QED  BY <2>1, <2>2
<1>3. I => EveryBlockSeen
  BY DEF Reported, EveryBlockSeen, Wanted
<1>. QED  BY <1>1, <1>2, <1>3, PTL DEF Spec

-----------------------------------------------------------------------------
(* Every slot of a gap between two blocks of an epoch is reported.         *)

\* Such a slot has blocks of its epoch on both sides.
LEMMA GapIsInner ==
  ASSUME Instance, NEW p \in InnerGaps
  PROVE  /\ \E a \in Slots \cap Present : a < p /\ EpochOf(a) = EpochOf(p)
         /\ \E b \in Slots \cap Present : p < b /\ EpochOf(b) = EpochOf(p)
<1>1. p \in Slots \ Present
      /\ \E a, b \in Slots \cap Present : a < p /\ p < b /\ EpochOf(a) = EpochOf(b)
  BY DEF InnerGaps
<1>2. PICK a \in Slots \cap Present, b \in Slots \cap Present : a < p /\ p < b /\ EpochOf(a) = EpochOf(b)
  BY <1>1
<1>3. EpochAssumption /\ a \in Nat /\ b \in Nat /\ p \in Nat
  BY <1>1, PresentNat DEF Instance, RangeAssumption, Slots
<1>4. EpochOf(a) <= EpochOf(p) /\ EpochOf(p) <= EpochOf(b) /\ EpochOf(a) \in Nat /\ EpochOf(p) \in Nat
  BY <1>2, <1>3, EpochMonotone, EpochHolds
<1>5. EpochOf(a) = EpochOf(p) /\ EpochOf(b) = EpochOf(p)
  BY <1>2, <1>4
<1>. QED  BY <1>2, <1>5

\* In front of the block that is delivered, no such slot is left when the code is through
\* with the gap: the first block of the epoch has none in front of it.
LEMMA GapsBelowCur ==
  ASSUME PlaceInv, AtBlockNode, NEW p \in InnerGaps,
         EpochOf(p) = pass.epoch, counted < p, p <= pass.cur
  PROVE  FALSE
<1>0. /\ pc = "node" /\ pass.node = "block" /\ ~InGap /\ CourseInv /\ StreamInv /\ Instance /\ Course /\ Position
  BY DEF AtBlockNode, AtNode, PlaceInv, CourseInv, StreamInv
<1>1. /\ pass.epoch \in Lowest .. Top /\ pass.pos - 1 \in 1 .. Len(Stream) /\ Stream = Archive[pass.epoch]
      /\ pass.cur = Stream[pass.pos - 1] /\ pass.cur \in Present /\ counted < pass.cur
      /\ \A i \in 1 .. Len(Stream) : Stream[i] < pass.cur <=> i < pass.pos - 1
  BY <1>0, BelowCur
<1>2. /\ pass.cur \in Nat /\ counted \in Nat /\ EpochFirst(pass.epoch) <= counted + 1
      /\ counted <= EpochLast(pass.epoch) /\ pass.epoch \in Nat /\ pass.cur <= EpochLast(pass.epoch)
      /\ EpochFirst(pass.epoch) \in Nat /\ EpochLast(pass.epoch) \in Nat /\ EpochAssumption
      /\ EpochOf(pass.cur) = pass.epoch
  BY <1>0, NodeIs, InEpoch DEF Instance
<1>3. PICK a \in Slots \cap Present : a < p /\ EpochOf(a) = EpochOf(p)
  BY <1>0, GapIsInner
<1>4. p \in Slots /\ p \notin Present /\ p \in Nat /\ a \in Nat /\ p # pass.cur
  BY <1>0, <1>1, PresentNat DEF InnerGaps, Slots, Instance, RangeAssumption
<1>5. Gap \in Nat /\ Gap < pass.cur /\ Gap = counted + 1
  BY <1>2, <1>4 DEF Gap
<1>6. EpochOf(Gap) = pass.epoch
  BY <1>2, <1>5, EpochIs
<1>7. EpochOf(pass.snap[1]) # pass.epoch
  BY <1>0, <1>5, <1>6 DEF InGap, AtNode
<1>8. pass.snap[1] \in Nat /\ pass.snap[1] <= counted /\ EpochFirst(pass.epoch) <= pass.snap[1] + 1
  <2>1. pass.snap[1] \in Nat
    BY <1>0, AtBlockNodeIs DEF AtNode, Counted
  <2>. QED  BY <1>0, <2>1 DEF Course
<1>9. pass.snap[1] < EpochFirst(pass.epoch)
  BY <1>2, <1>7, <1>8, EpochIs
<1>10. PICK i \in 1 .. Len(Stream) : Stream[i] = a
  BY <1>0, <1>1, <1>3, PresentIn
<1>11. EpochFirst(pass.epoch) <= a
  BY <1>2, <1>3, <1>4, EpochHolds
<1>12. a < pass.cur
  BY <1>2, <1>3, <1>4
<1>13. a <= pass.snap[1]
  BY <1>0, <1>1, <1>10, <1>12 DEF Position
<1>. QED  BY <1>2, <1>4, <1>8, <1>9, <1>11, <1>13

\* Every step reports the gaps that it leaves behind, if no callback fails.
LEMMA GapsReported ==
  ASSUME PlaceInv, "handler" \notin Faults, Reported(InnerGaps, skips), [Next]_vars
  PROVE  PlaceInv' /\ ReportedNext(InnerGaps, skips')
<1>0. CourseInv' /\ CourseInv /\ Ordered /\ Position /\ StreamInv /\ Instance
  BY CourseStep DEF PlaceInv, CourseInv, StreamInv
<1>1. InnerGaps \subseteq Slots
  BY DEF InnerGaps
<1>2. skips \subseteq skips'
  BY DEF Next, Work, Epochs, StartPass, SkipEpoch, OpenEpoch, OpenFails, SeekFails, PassEnds,
     Batches, BeforeRange, TakeBlock, ReadFails, PrematureEnd, EpochEnds, EpochEndPulseFails,
     Nodes, OnTransaction, OnEntry, OnRewards, NodeFails, Interrupted,
     BlockNode, SkipSlot, SkipFails, DropDuplicate, DeliverBlock, BlockFails, PulseFails,
     PollShutdown, Terminated, vars, seen
<1>3. Reported(InnerGaps, skips')
  BY <1>2, MoreReports
<1>4. SUFFICES Standing' /\ Position' /\ ReportedNext(InnerGaps, skips')
  BY <1>0 DEF PlaceInv, Ordered
<1>5. CASE Epochs
  BY <1>0, <1>1, <1>3, <1>5, EpochStepReports
<1>6. CASE Batches
  <2>1. pc = "loop"
    BY <1>6 DEF Batches, BeforeRange, TakeBlock, ReadFails, PrematureEnd, EpochEnds, EpochEndPulseFails, AtBlock
  <2>2. ASSUME Unread = NoSlot \/ (AtBlock /\ Ahead > pass.last), NEW p \in InnerGaps, EpochOf(p) = pass.epoch
        PROVE  p <= counted
    <3>1. PICK b \in Slots \cap Present : p < b /\ EpochOf(b) = EpochOf(p)
      BY <1>0, <2>2, GapIsInner
    <3>2. b <= counted
      BY <2>1, <2>2, <3>1, EpochRead
    <3>3. p \in Nat /\ b \in Nat /\ counted \in Nat
      BY <1>0, <1>1, PresentNat DEF Slots, Instance, RangeAssumption, StreamInv, TypeInv, Counted
    <3>. QED  BY <3>1, <3>2, <3>3
  <2>. QED  BY <1>0, <1>1, <1>3, <1>6, <2>2, BatchStepReports
<1>7. CASE Nodes \/ BlockNode
  <2>1. pc = "node"
    BY <1>7 DEF Nodes, OnTransaction, OnEntry, OnRewards, NodeFails, Interrupted, AtNode,
       BlockNode, SkipSlot, SkipFails, DropDuplicate, DeliverBlock, BlockFails, PulseFails, AtBlockNode, InGap
  <2>2. pass.emitted \in Nat /\ pass.emitted <= counted /\ pass.cur \in Nat /\ counted \in Nat
    BY <1>0, <2>1, NodeIs DEF Position, StreamInv, TypeInv, PassType
  <2>3. \A p \in InnerGaps : p \in Nat
    BY <1>0, <1>1 DEF Slots, Instance, RangeAssumption
  <2>4. ASSUME pc' = "boundary" PROVE PulseFails
    <3>1. ~NodeFails /\ ~SkipFails /\ ~BlockFails
      BY DEF NodeFails, SkipFails, BlockFails, Fault
    <3>. QED  BY <1>7, <2>1, <2>4, <3>1 DEF Nodes, OnTransaction, OnEntry, OnRewards, Interrupted,
         BlockNode, SkipSlot, DropDuplicate, DeliverBlock, AfterBlock
  <2>5. pc' = "boundary" =>
          \A p \in InnerGaps : EpochOf(p) = pass.epoch /\ counted < p /\ p < pass.cur => p \in skips'
    <3>1. PulseFails => AtBlockNode
      BY DEF PulseFails
    <3>2. \A p \in InnerGaps : p < pass.cur => p <= pass.cur
      BY <2>2, <2>3
    <3>. QED  BY <2>4, <3>1, <3>2, GapsBelowCur
  <2>6. SkipSlot => (Gap \in InnerGaps => Gap \in skips')
    <3>1. SUFFICES ASSUME SkipSlot PROVE Gap \in skips'
      OBVIOUS
    <3>2. Fresh(Gap)
      BY <2>2 DEF Fresh, Gap
    <3>. QED  BY <3>1, <3>2 DEF SkipSlot
  <2>7. DeliverBlock => \A p \in InnerGaps : EpochOf(p) = pass.epoch /\ counted < p /\ p <= pass.cur => p \in skips'
    BY GapsBelowCur DEF DeliverBlock
  <2>. QED  BY <1>0, <1>1, <1>3, <1>7, <2>5, <2>6, <2>7, NodeStepReports
<1>8. CASE PollShutdown \/ Terminated \/ UNCHANGED vars
  BY <1>0, <1>1, <1>3, <1>8, OtherReports
<1>. QED  BY <1>5, <1>6, <1>7, <1>8 DEF Next, Work

\* If no callback fails, a thread that finished its range reported every slot without a
\* block between two blocks of an epoch, over all restarts, forward and in reverse.
THEOREM SlotsSeen ==
  Instance /\ Aligned /\ Ordered /\ "handler" \notin Faults /\ Spec => []EverySlotSeen
<1> DEFINE I == PlaceInv /\ "handler" \notin Faults /\ Reported(InnerGaps, skips)
<1>1. Instance /\ Aligned /\ Ordered /\ "handler" \notin Faults /\ Init => I
  <2>1. InnerGaps \in SUBSET Slots /\ {} \subseteq skips
    BY DEF InnerGaps
  <2>. QED  BY <2>1, InitReports, MoreReports
<1>2. I /\ [Next]_vars => I'
  <2> SUFFICES ASSUME I, [Next]_vars PROVE I'
    OBVIOUS
  <2>1. PlaceInv' /\ ReportedNext(InnerGaps, skips')
    BY GapsReported
  <2>2. Reported(InnerGaps, skips)'
    BY <2>1 DEF Reported, ReportedNext, InnerGaps, Slots, Present, EpochOf
  <2>. QED  BY <2>1, <2>2
<1>3. I => EverySlotSeen
  BY DEF Reported, EverySlotSeen
<1>. QED  BY <1>1, <1>2, <1>3, PTL DEF Spec

-----------------------------------------------------------------------------
(* The direction of the calls.                                             *)

\* Forward: no slot behind the last emitted one, or behind the start of the range that
\* is left, was called.  A block node that is repeated has not been passed by the last
\* emitted slot, or that slot was counted in front of it.
Back ==
  /\ pc \in {"loop", "node"} => start <= counted + 1 /\ pass.emitted <= counted
  /\ pc = "node" => start <= pass.cur
  /\ pc = "node" /\ pass.node = "block" => pass.emitted <= pass.snap[1] \/ pass.emitted < pass.cur
  /\ pc = "epoch" =>
       /\ pass.emitted <= Max2(counted, start) /\ pass.emitted <= Dec(LocalStart(Front))
       /\ start <= counted + 1 \/ pass.cur = NoSlot
  /\ pc = "boundary" => called <= start
  /\ pc \in {"epoch", "loop", "node"} => called <= Max2(start, pass.emitted)

BackInv == CourseInv /\ ~Reverse /\ Back

\* A restart keeps the direction when it resumes at or behind the last call.
LEMMA RestartBack ==
  ASSUME BackInv, NEW slot \in Resume, NEW c \in Counted, NEW h \in -1 .. Top, Restart(slot, c, h),
         called' \in Int, called' <= slot \/ called' <= c + 1
  PROVE  Back'
<1>1. slot \in Nat /\ c \in Nat
  BY DEF Resume, Counted, BackInv, CourseInv, StreamInv, Instance, RangeAssumption
<1>2. pc' = "boundary" /\ start' = ResumeSlot(slot, c)
  BY DEF Restart, BackInv
<1>3. slot <= ResumeSlot(slot, c) /\ c < ResumeSlot(slot, c) /\ ResumeSlot(slot, c) \in Nat
  BY <1>1 DEF ResumeSlot
<1>. QED  BY <1>1, <1>2, <1>3 DEF Back

\* What a forward thread knows of its place.
LEMMA BackIs ==
  ASSUME BackInv
  PROVE  /\ CourseInv /\ StreamInv /\ Instance /\ Course /\ ~Reverse /\ Back /\ EpochAssumption
         /\ start \in Nat /\ start \in Resume /\ counted \in Nat /\ counted \in Counted
         /\ called \in Int /\ called \in Slots \cup {NoSlot} /\ pass \in PassType /\ pass.emitted \in Nat
         /\ FirstSlot \in Nat /\ FirstSlot <= start /\ highest \in -1 .. Top
         /\ \A s \in Slots : s \in Nat /\ s \in Resume
<1>1. CourseInv /\ StreamInv /\ Instance /\ Course /\ ~Reverse /\ Back /\ EpochAssumption /\ RangeAssumption
  BY DEF BackInv, CourseInv, StreamInv, Instance
<1>2. start \in Resume /\ counted \in Counted /\ called \in Slots \cup {NoSlot} /\ pass \in PassType
      /\ highest \in -1 .. Top
  BY <1>1 DEF StreamInv, TypeInv
<1>3. \A s \in Slots : s \in Nat /\ s \in Resume
  BY <1>1 DEF Slots, Resume, RangeAssumption
<1>. QED  BY <1>1, <1>2, <1>3 DEF Resume, Counted, PassType, NoSlot, RangeAssumption

LEMMA EpochStepBack ==
  ASSUME BackInv, CourseInv', Epochs PROVE Back' /\ called' = called
<1>0. /\ CourseInv /\ StreamInv /\ Instance /\ Course /\ ~Reverse /\ Back /\ EpochAssumption
      /\ start \in Nat /\ counted \in Nat /\ counted \in Counted /\ called \in Int /\ pass \in PassType
      /\ pass.emitted \in Nat /\ FirstSlot \in Nat /\ FirstSlot <= start /\ highest \in -1 .. Top
      /\ Lowest \in Nat /\ Top \in Nat /\ RangeAssumption /\ EndSlot \in Nat
  BY BackIs, Epochs0 DEF Instance, RangeAssumption
<1>a. called' = called
  BY DEF Epochs, StartPass, SkipEpoch, OpenEpoch, OpenFails, SeekFails, PassEnds, seen
<1>1. CASE StartPass
  <2>1. /\ pc = "boundary" /\ pc' = "epoch" /\ UNCHANGED <<start, highest, partial, counted>>
        /\ pass'.emitted = Dec(FirstSlot) /\ pass'.cur = NoSlot
    BY <1>0, <1>1 DEF StartPass, control, NoPass
  <2>2. LocalStart(Front)' = LocalStart(Front)
    BY <1>0, <1>1, <2>1, StartFront
  <2>3. LocalStart(Front) = Max2(start, EpochFirst(Front)) /\ Front = EpochOf(start)
    BY <1>0, <2>1 DEF LocalStart, Front
  <2>4. EpochFirst(Front) \in Int
    BY <1>0, <2>3, EpochHolds DEF EpochFirst, EpochAssumption
  <2>5. Dec(FirstSlot) <= start /\ Dec(FirstSlot) \in Nat /\ Dec(FirstSlot) <= Dec(LocalStart(Front))
    BY <1>0, <2>3, <2>4 DEF Dec, Max2
  <2>6. called <= start
    BY <1>0, <2>1 DEF Back
  <2>. QED  BY <1>0, <1>a, <2>1, <2>2, <2>5, <2>6 DEF Back, Max2
<1>2. CASE SkipEpoch
  <2>1. /\ pc = "epoch" /\ pass.todo # <<>> /\ pass' = [pass EXCEPT !.todo = Tail(@)]
        /\ pc' = "epoch" /\ UNCHANGED <<start, highest, partial, counted>> /\ InPass
    BY <1>0, <1>2 DEF SkipEpoch, AtEpoch, control, InPass
  <2>2. Front \in Lowest .. Top /\ Front \in Nat /\ Front \in Int
    BY <1>0, <2>1, FrontIs
  <2>3. pass'.todo = Tail(pass.todo) /\ pass'.emitted = pass.emitted /\ pass'.cur = pass.cur
    BY <1>0, <2>1 DEF PassType
  <2>4. Front' = Front + 1
    BY <1>0, <2>1, <2>3, NextFront
  <2>5. EpochFirst(Front) \in Int /\ EpochFirst(Front + 1) \in Int /\ EpochLast(Front) \in Int
        /\ EpochFirst(Front) <= EpochFirst(Front + 1)
    BY <1>0, <2>2, EpochOrder
  <2>6. LocalStart(Front)' = Max2(start, EpochFirst(Front + 1)) /\ LocalStart(Front) = Max2(start, EpochFirst(Front))
    BY <1>0, <2>1, <2>4 DEF LocalStart, EpochFirst, Max2
  <2>7. Dec(LocalStart(Front)) <= Dec(LocalStart(Front)') /\ Dec(LocalStart(Front)) \in Nat
        /\ Dec(LocalStart(Front)') \in Nat
    BY <1>0, <2>5, <2>6 DEF Dec, Max2
  <2>8. Dec(LocalStart(Front))' = Dec(LocalStart(Front)')
    BY DEF Dec, Max2
  <2>9. /\ pass.emitted <= Max2(counted, start) /\ pass.emitted <= Dec(LocalStart(Front))
        /\ start <= counted + 1 \/ pass.cur = NoSlot
        /\ called <= Max2(start, pass.emitted)
    BY <1>0, <2>1 DEF Back
  <2>10. pass.emitted <= Dec(LocalStart(Front))'
    BY <1>0, <2>7, <2>8, <2>9
  <2>. QED  BY <1>a, <2>1, <2>3, <2>9, <2>10 DEF Back, Max2
<1>3. CASE OpenEpoch
  <2> DEFINE e == Head(pass.todo)  s == LocalStart(e)
  <2>1. /\ pc = "epoch" /\ pass.todo # <<>> /\ Overlaps(e) /\ pc' = "loop" /\ counted' = Dec(s) /\ InPass
        /\ start' = start
    BY <1>0, <1>3 DEF OpenEpoch, AtEpoch, control, InPass
  <2>2. e = Front /\ e \in Lowest .. Top /\ e \in Nat
    BY <1>0, <2>1, FrontIs
  <2>3. s \in Nat /\ s = Max2(start, EpochFirst(e)) /\ EpochFirst(e) \in Int
    BY <1>0, <2>2, Window DEF LocalStart, EpochFirst, EpochAssumption
  <2>4. start <= Dec(s) + 1 /\ Dec(s) \in Nat
    BY <1>0, <2>3 DEF Dec, Max2
  <2>5. pass.emitted <= Dec(s) /\ called <= Max2(start, pass.emitted)
    BY <1>0, <2>1, <2>2 DEF Back
  <2>6. pass'.emitted = pass.emitted
    BY <1>0, <1>3 DEF OpenEpoch, PassType, EmittedAtOpen
  <2> HIDE DEF s, e
  <2>. QED  BY <1>0, <1>a, <2>1, <2>4, <2>5, <2>6 DEF Back, Max2
<1>4. CASE OpenFails
  <2>1. pc = "epoch" /\ pass.todo # <<>> /\ Restart(AtCurrent, counted, highest)
    BY <1>4 DEF OpenFails, AtEpoch
  <2>2. AtCurrent \in Resume
    BY <1>0, CountIsKept
  <2>3. /\ pass.emitted <= Max2(counted, start) /\ called <= Max2(start, pass.emitted)
        /\ start <= counted + 1 \/ pass.cur = NoSlot
    BY <1>0, <2>1 DEF Back
  <2>4. called <= AtCurrent \/ called <= counted + 1
    BY <1>0, <2>3 DEF AtCurrent, Max2
  <2>. QED  BY <1>0, <1>a, <2>1, <2>2, <2>4, RestartBack
<1>5. CASE SeekFails
  <2> DEFINE e == Head(pass.todo)  s == LocalStart(e)
  <2>1. pc = "epoch" /\ pass.todo # <<>> /\ Overlaps(e) /\ EpochFirst(e) < s /\ Restart(s, s - 1, highest) /\ InPass
    BY <1>5 DEF SeekFails, AtEpoch, InPass
  <2>2. e = Front /\ e \in Lowest .. Top /\ e \in Nat
    BY <1>0, <2>1, FrontIs
  <2>3. s \in Nat /\ s = Max2(start, EpochFirst(e)) /\ EpochFirst(e) \in Nat
    BY <1>0, <2>2, Window DEF LocalStart, EpochFirst, EpochAssumption
  <2>4. s \in Slots
    BY <1>0, <2>1, <2>2, Window
  <2>5. pass.emitted <= Dec(s) /\ called <= Max2(start, pass.emitted)
    BY <1>0, <2>1, <2>2 DEF Back
  <2> HIDE DEF s, e
  <2>6. s \in Resume /\ s - 1 \in Counted
    BY <1>0, <2>1, <2>3, <2>4 DEF Resume, Counted, Slots
  <2>7. called <= s
    BY <1>0, <2>3, <2>5 DEF Dec, Max2
  <2>. QED  BY <1>0, <1>a, <2>1, <2>6, <2>7, RestartBack
<1>6. CASE PassEnds
  <2>1. pc' = "done"
    BY <1>6 DEF PassEnds
  <2>. QED  BY <2>1, <1>a DEF Back
<1>. QED  BY <1>1, <1>2, <1>3, <1>4, <1>5, <1>6 DEF Epochs

LEMMA BatchStepBack ==
  ASSUME BackInv, CourseInv', Batches PROVE Back' /\ called' = called
<1>0. /\ CourseInv /\ StreamInv /\ Instance /\ Course /\ ~Reverse /\ Back /\ EpochAssumption
      /\ start \in Nat /\ counted \in Nat /\ counted \in Counted /\ called \in Int /\ pass \in PassType
      /\ pass.emitted \in Nat /\ FirstSlot \in Nat /\ FirstSlot <= start /\ highest \in -1 .. Top
  BY BackIs
<1>a. called' = called
  BY DEF Batches, BeforeRange, TakeBlock, ReadFails, PrematureEnd, EpochEnds, EpochEndPulseFails, seen
<1>b. pc = "loop" /\ start <= counted + 1 /\ pass.emitted <= counted /\ called <= Max2(start, pass.emitted)
  BY <1>0 DEF Back, Batches, BeforeRange, TakeBlock, ReadFails, PrematureEnd, EpochEnds, EpochEndPulseFails, AtBlock
<1>c. called <= counted + 1
  BY <1>0, <1>b DEF Max2
<1>1. CASE BeforeRange
  <2>1. pass'.emitted = pass.emitted /\ pc' = "loop" /\ UNCHANGED <<start, counted>>
    BY <1>0, <1>b, <1>1 DEF BeforeRange, PassType, control
  <2>. QED  BY <1>a, <1>b, <2>1 DEF Back, Max2
<1>2. CASE TakeBlock
  <2>1. pass' = [pass EXCEPT !.cur = Ahead, !.pos = pass.pos + 1, !.node = "tx"]
    BY <1>2 DEF TakeBlock
  <2>2. pass'.emitted = pass.emitted /\ pass'.cur = Ahead /\ pass'.node = "tx"
    BY <1>0, <2>1 DEF PassType
  <2>3. pc' = "node" /\ UNCHANGED <<start, counted>> /\ start <= Ahead
    BY <1>2 DEF TakeBlock, control
  <2>. QED  BY <1>a, <1>b, <2>2, <2>3 DEF Back, Max2
<1>3. CASE ReadFails
  <2>1. Restart(AfterCurrent, counted, highest)
    BY <1>3 DEF ReadFails
  <2>2. AfterCurrent \in Resume
    BY <1>0, CountIsKept
  <2>. QED  BY <1>0, <1>a, <1>c, <2>1, <2>2, RestartBack
<1>4. CASE PrematureEnd
  <2>1. Restart(counted + 1, counted, highest)
    BY <1>4 DEF PrematureEnd
  <2>2. counted + 1 \in Resume
    BY <1>0, CountIsKept
  <2>. QED  BY <1>0, <1>a, <1>c, <2>1, <2>2, RestartBack
<1>5. CASE EpochEnds
  <2>1. pass' = [pass EXCEPT !.todo = Tail(pass.todo)] /\ pc' = "epoch" /\ start' = start /\ counted' = counted
        /\ pass.todo # <<>>
    BY <1>0, <1>b, <1>5 DEF EpochEnds, StreamInv, TypeInv, Streaming
  <2>2. pass'.emitted = pass.emitted /\ pass'.todo = Tail(pass.todo)
    BY <1>0, <2>1 DEF PassType
  <2>3. Front' = Front + 1
    BY <1>0, <1>b, <2>1, <2>2, NextFront DEF InPass
  <2>4. /\ pass.epoch = Front /\ pass.epoch \in Nat /\ counted <= EpochLast(pass.epoch) /\ EpochLast(pass.epoch) \in Nat
    BY <1>0, <1>b, InEpoch
  <2>5. EpochFirst(Front + 1) = EpochLast(Front) + 1 /\ EpochFirst(Front + 1) \in Int
    BY <1>0, <2>4, EpochOrder
  <2>6. LocalStart(Front)' = Max2(start, EpochFirst(Front + 1))
    BY <1>0, <2>1, <2>3 DEF LocalStart, EpochFirst, Max2
  <2>7. pass.emitted <= Dec(Max2(start, EpochFirst(Front + 1)))
    BY <1>0, <1>b, <2>4, <2>5 DEF Dec, Max2
  <2>8. pass'.emitted <= Dec(LocalStart(Front))'
    BY <2>2, <2>6, <2>7 DEF Dec, Max2
  <2>9. pass.emitted <= Max2(counted, start)
    BY <1>0, <1>b DEF Max2
  <2>. QED  BY <1>a, <1>b, <2>1, <2>2, <2>8, <2>9 DEF Back, Max2
<1>6. CASE EpochEndPulseFails
  <2>1. Restart(mine.current, counted, EpochDone) /\ EpochDone \in -1 .. Top /\ mine.current \in Resume
    BY <1>0, <1>b, <1>6, EpochDoneType, CountIsKept DEF EpochEndPulseFails
  <2>. QED  BY <1>0, <1>a, <1>c, <2>1, RestartBack
<1>. QED  BY <1>1, <1>2, <1>3, <1>4, <1>5, <1>6 DEF Batches

LEMMA NodeStepBack ==
  ASSUME BackInv, CourseInv', Nodes \/ BlockNode PROVE Back' /\ NeverBack
<1>0. /\ CourseInv /\ StreamInv /\ Instance /\ Course /\ ~Reverse /\ Back /\ EpochAssumption
      /\ start \in Nat /\ counted \in Nat /\ counted \in Counted /\ called \in Int /\ pass \in PassType
      /\ pass.emitted \in Nat /\ FirstSlot \in Nat /\ FirstSlot <= start /\ highest \in -1 .. Top
      /\ \A s \in Slots : s \in Nat /\ s \in Resume
  BY BackIs
<1>a. pc = "node"
  BY DEF Nodes, OnTransaction, OnEntry, OnRewards, NodeFails, Interrupted, AtNode,
     BlockNode, SkipSlot, SkipFails, DropDuplicate, DeliverBlock, BlockFails, PulseFails, AtBlockNode, InGap
<1>b. /\ start <= counted + 1 /\ pass.emitted <= counted /\ start <= pass.cur
      /\ called <= Max2(start, pass.emitted) /\ pass.cur \in Slots /\ pass.cur \in Nat /\ pass.cur \in Resume
      /\ pass.node = "block" => pass.emitted <= pass.snap[1] \/ pass.emitted < pass.cur
  BY <1>0, <1>a, NodeIs DEF Back
<1>c. called <= pass.cur \/ called <= counted + 1
  BY <1>0, <1>b DEF Max2
<1>1. CASE OnTransaction \/ OnEntry
  <2>1. /\ pass'.emitted = pass.emitted /\ pass'.cur = pass.cur /\ pass'.node \in {"entry", "rewards"}
    BY <1>0, <1>1 DEF OnTransaction, OnEntry, PassType
  <2>2. pc' = "node" /\ UNCHANGED <<start, counted, called>>
    BY <1>a, <1>1 DEF OnTransaction, OnEntry, control, seen
  <2>. QED  BY <1>b, <2>1, <2>2 DEF Back, Max2, NeverBack
<1>2. CASE OnRewards
  <2>1. /\ pass'.emitted = pass.emitted /\ pass'.cur = pass.cur /\ pass'.snap[1] = counted
    BY <1>0, <1>2 DEF OnRewards, PassType
  <2>2. pc' = "node" /\ UNCHANGED <<start, counted, called>>
    BY <1>a, <1>2 DEF OnRewards, control, seen
  <2>. QED  BY <1>b, <2>1, <2>2 DEF Back, Max2, NeverBack
<1>3. CASE NodeFails
  <2>1. Restart(pass.cur, counted, highest) /\ called' = called
    BY <1>3 DEF NodeFails, seen
  <2>. QED  BY <1>0, <1>b, <1>c, <2>1, RestartBack DEF NeverBack
<1>4. CASE Interrupted
  BY <1>4 DEF Interrupted, Back, NeverBack, seen
<1>5. CASE SkipSlot
  <2>1. /\ pass.node = "block" /\ Gap \in Nat /\ Gap < pass.cur /\ Gap = counted + 1 /\ pc' = "node"
        /\ counted' = Gap /\ start' = start
    BY <1>0, <1>a, <1>5, GapIs DEF SkipSlot, InGap, AtNode, Gap, control
  <2>2. Fresh(Gap)
    BY <1>0, <1>b, <2>1 DEF Fresh
  <2>3. pass'.emitted = Gap /\ called' = Gap /\ pass'.cur = pass.cur
    BY <1>0, <1>5, <2>2 DEF SkipSlot, PassType
  <2>4. called <= Gap
    BY <1>0, <1>b, <2>1 DEF Max2
  <2>5. NeverBack
    BY <1>0, <2>1, <2>3, <2>4 DEF NeverBack
  <2>. QED  BY <1>0, <1>b, <2>1, <2>3, <2>5 DEF Back, Max2
<1>6. CASE SkipFails
  <2>1. Gap \in Nat /\ Gap < pass.cur /\ Gap = counted + 1 /\ called' = Gap /\ Restart(pass.cur, counted, highest)
    BY <1>0, <1>6, GapIs DEF SkipFails, Gap
  <2>2. called <= Gap
    BY <1>0, <1>b, <2>1 DEF Max2
  <2>3. NeverBack
    BY <1>0, <2>1, <2>2 DEF NeverBack
  <2>. QED  BY <1>0, <1>b, <2>1, <2>3, RestartBack
<1>7. CASE DropDuplicate
  <2>1. /\ pass'.emitted = pass.emitted /\ pc' \in {"loop", "done"} /\ UNCHANGED <<start, counted, called>>
    BY <1>0, <1>7 DEF DropDuplicate, AfterBlock, PassType, control, seen
  <2>. QED  BY <1>b, <2>1 DEF Back, Max2, NeverBack
<1>8. CASE DeliverBlock
  <2>1. pass' = [pass EXCEPT !.node = "none", !.snap = <<>>, !.prev = pass.hash, !.emitted = Max2(pass.emitted, pass.cur)]
    BY <1>8 DEF DeliverBlock
  <2>2. /\ pass'.emitted = Max2(pass.emitted, pass.cur) /\ pc' \in {"loop", "done"} /\ start' = start
        /\ counted' = Max2(counted, pass.cur) /\ called' = (IF Fresh(pass.cur) THEN pass.cur ELSE called)
    BY <1>0, <1>8, <2>1 DEF DeliverBlock, AfterBlock, PassType, control, Call
  <2>3. Fresh(pass.cur) => called <= pass.cur
    BY <1>0, <1>b DEF Fresh, Max2
  <2>4. NeverBack
    BY <1>0, <1>b, <2>2, <2>3 DEF NeverBack
  <2>5. called' <= Max2(start, pass'.emitted) /\ start <= counted' + 1 /\ pass'.emitted <= counted'
    BY <1>0, <1>b, <2>2 DEF Max2
  <2>. QED  BY <2>2, <2>4, <2>5 DEF Back, Max2
<1>9. CASE BlockFails
  <2>1. called' = pass.cur /\ Restart(pass.cur, counted, highest) /\ Fresh(pass.cur)
    BY <1>9 DEF BlockFails
  <2>2. called <= pass.cur
    BY <1>0, <1>b, <2>1 DEF Fresh, Max2
  <2>3. NeverBack
    BY <1>0, <1>b, <2>1, <2>2 DEF NeverBack
  <2>. QED  BY <1>0, <1>b, <2>1, <2>3, RestartBack
<1>10. CASE PulseFails
  <2>1. /\ called' = (IF Fresh(pass.cur) THEN pass.cur ELSE called) /\ Restart(pass.cur, pass.snap[1], highest)
        /\ pass.node = "block"
    BY <1>10 DEF PulseFails, Call, AtBlockNode, AtNode
  <2>2. pass.snap[1] \in Counted /\ pass.snap[1] \in Nat
    BY <1>0, <1>a, <2>1, AtBlockNodeIs DEF AtNode, Counted
  <2>3. Fresh(pass.cur) => called <= pass.cur
    BY <1>0, <1>b DEF Fresh, Max2
  <2>4. ~Fresh(pass.cur) => called <= pass.cur \/ called <= pass.snap[1] + 1
    BY <1>0, <1>b, <2>1, <2>2 DEF Fresh, Max2
  <2>5. NeverBack
    BY <1>0, <1>b, <2>1, <2>3 DEF NeverBack
  <2>. QED  BY <1>0, <1>b, <2>1, <2>2, <2>4, <2>5, RestartBack
<1>. QED  BY <1>1, <1>2, <1>3, <1>4, <1>5, <1>6, <1>7, <1>8, <1>9, <1>10 DEF Nodes, BlockNode

\* Going forward, on_block is never called for a slot in front of one it was called for,
\* over all restarts, and for any order of the blocks in the archive.
THEOREM GoesForward == Instance /\ ~Reverse /\ Spec => [][NeverBack]_vars
<1>1. Instance /\ ~Reverse /\ Init => BackInv
  <2> SUFFICES ASSUME Instance, ~Reverse, Init PROVE Back
    BY InitCourse DEF BackInv, Aligned
  <2>1. pc = "boundary" /\ called = -1 /\ start = FirstSlot /\ FirstSlot \in Nat
    BY DEF Init, NoSlot, Instance, RangeAssumption
  <2>. QED  BY <2>1 DEF Back
<1>2. BackInv /\ [Next]_vars => BackInv' /\ [NeverBack]_vars
  <2> SUFFICES ASSUME BackInv, [Next]_vars PROVE Back' /\ [NeverBack]_vars
    BY CourseStep DEF BackInv
  <2>1. CourseInv'
    BY CourseStep DEF BackInv
  <2>2. CASE Epochs
    BY <2>1, <2>2, EpochStepBack DEF NeverBack
  <2>3. CASE Batches
    BY <2>1, <2>3, BatchStepBack DEF NeverBack
  <2>4. CASE Nodes \/ BlockNode
    BY <2>1, <2>4, NodeStepBack
  <2>5. CASE PollShutdown
    BY <2>5 DEF PollShutdown, Back, NeverBack, seen
  <2>6. CASE UNCHANGED vars
    <3>1. UNCHANGED <<pc, start, counted, pass, called, partial, highest>>
      BY <2>6 DEF vars, control, seen
    <3>2. Dec(LocalStart(Front))' = Dec(LocalStart(Front))
      BY <3>1 DEF Dec, LocalStart, Front, Max2, EpochOf, EpochFirst
    <3>3. Back'
      BY <3>1, <3>2 DEF BackInv, Back, Max2
    <3>. QED  BY <2>6, <3>3
  <2>. QED  BY <2>2, <2>3, <2>4, <2>5, <2>6 DEF Next, Work, Terminated
<1>. QED  BY <1>1, <1>2, PTL DEF Spec

\* In reverse: every call was for a slot of an epoch that is left, or of one that was.
Descent == Going /\ called # NoSlot => highest <= EpochOf(called)

DescentInv == CourseInv /\ Reverse /\ Descent

\* No step brings an epoch back, and each calls on_block within the epoch that it reads.
LEMMA StepDescends ==
  ASSUME DescentInv, [Next]_vars
  PROVE  DescentInv' /\ EpochsDescend
<1>0. CourseInv /\ CourseInv' /\ StreamInv /\ Reverse /\ Descent /\ Instance /\ EpochAssumption
      /\ highest \in -1 .. Top /\ Top \in Nat /\ called \in Slots \cup {NoSlot} /\ called' \in Slots \cup {NoSlot}
      /\ \A s \in Slots : s \in Nat /\ EpochOf(s) \in Nat
  <2>1. CourseInv /\ CourseInv' /\ StreamInv /\ Reverse /\ Descent /\ Instance /\ EpochAssumption /\ RangeAssumption
    BY CourseStep DEF DescentInv, CourseInv, StreamInv, Instance
  <2>2. called \in Slots \cup {NoSlot} /\ called' \in Slots \cup {NoSlot} /\ highest \in -1 .. Top
    BY <2>1 DEF CourseInv, StreamInv, TypeInv, Slots
  <2>3. \A s \in Slots : s \in Nat
    BY <2>1 DEF Slots, RangeAssumption
  <2>. QED  BY <2>1, <2>2, <2>3, Epochs0, EpochHolds
<1>1. ASSUME NEW slot, NEW c, NEW h \in Int, h <= highest, Restart(slot, c, h)
      PROVE  highest' \in Int /\ highest' <= highest
  BY <1>0, <1>1 DEF Restart, ReverseResume
<1>2. EpochDone \in Int /\ EpochDone <= highest
  BY <1>0 DEF EpochDone
<1>3. highest' \in Int /\ highest' <= highest
  <2>1. CASE UNCHANGED highest
    BY <1>0, <2>1
  <2>2. CASE highest' = EpochDone
    BY <1>2, <2>2
  <2>3. CASE \E slot, c : Restart(slot, c, highest)
    BY <1>0, <1>1, <2>3
  <2>4. CASE \E slot, c : Restart(slot, c, EpochDone)
    BY <1>1, <1>2, <2>4
  <2>5. \/ UNCHANGED highest \/ highest' = EpochDone
        \/ \E slot, c : Restart(slot, c, highest)
        \/ \E slot, c : Restart(slot, c, EpochDone)
    BY DEF Next, Work, Epochs, StartPass, SkipEpoch, OpenEpoch, OpenFails, SeekFails, PassEnds,
       Batches, BeforeRange, TakeBlock, ReadFails, PrematureEnd, EpochEnds, EpochEndPulseFails,
       Nodes, OnTransaction, OnEntry, OnRewards, NodeFails, Interrupted,
       BlockNode, SkipSlot, SkipFails, DropDuplicate, DeliverBlock, BlockFails, PulseFails,
       PollShutdown, Terminated, vars, control
  <2>. QED  BY <2>1, <2>2, <2>3, <2>4, <2>5
<1>4. called' = called \/ (pc = "node" /\ (called' = pass.cur \/ (InGap /\ called' = Gap)))
  BY DEF Next, Work, Epochs, StartPass, SkipEpoch, OpenEpoch, OpenFails, SeekFails, PassEnds,
     Batches, BeforeRange, TakeBlock, ReadFails, PrematureEnd, EpochEnds, EpochEndPulseFails,
     Nodes, OnTransaction, OnEntry, OnRewards, NodeFails, Interrupted,
     BlockNode, SkipSlot, SkipFails, DropDuplicate, DeliverBlock, BlockFails, PulseFails,
     PollShutdown, Terminated, vars, seen, Call, AtBlockNode, InGap, AtNode
<1>5. ASSUME called' # called PROVE Going /\ EpochOf(called') = highest
  <2>1. pc = "node" /\ EpochOf(pass.cur) = highest /\ pass.epoch = highest /\ pass.epoch \in Nat
        /\ EpochFirst(pass.epoch) <= counted + 1 /\ pass.cur <= EpochLast(pass.epoch)
        /\ pass.cur \in Nat /\ EpochLast(pass.epoch) \in Nat
    BY <1>0, <1>4, <1>5, InEpoch, NodeIs
  <2>2. InGap => EpochOf(Gap) = highest
    <3>1. InGap => Gap \in Nat /\ Gap < pass.cur /\ Gap = counted + 1
      BY <1>0, GapIs DEF Gap
    <3>. QED  BY <1>0, <2>1, <3>1, EpochIs
  <2>. QED  BY <1>4, <1>5, <2>1, <2>2 DEF Going
<1>6. Going' => Going
  BY DEF Going, Next, Work, Epochs, StartPass, SkipEpoch, OpenEpoch, OpenFails, SeekFails, PassEnds, AtEpoch,
     Batches, BeforeRange, TakeBlock, ReadFails, PrematureEnd, EpochEnds, EpochEndPulseFails, AtBlock,
     Nodes, OnTransaction, OnEntry, OnRewards, NodeFails, Interrupted, AtNode,
     BlockNode, SkipSlot, SkipFails, DropDuplicate, DeliverBlock, BlockFails, PulseFails, AtBlockNode, InGap,
     PollShutdown, Terminated, Ended, vars
<1>7. EpochsDescend
  <2>1. SUFFICES ASSUME called # NoSlot, called' # called PROVE EpochOf(called') <= EpochOf(called)
    BY <1>0 DEF EpochsDescend
  <2>. QED  BY <1>0, <1>5, <2>1 DEF Descent
<1>8. Descent'
  <2>1. SUFFICES ASSUME Going', called' # NoSlot PROVE highest' <= EpochOf(called')
    BY DEF Descent, EpochOf
  <2>2. CASE called' = called
    BY <1>0, <1>3, <1>6, <2>1, <2>2 DEF Descent
  <2>3. CASE called' # called
    BY <1>3, <1>5, <2>3
  <2>. QED  BY <2>2, <2>3
<1>. QED  BY <1>0, <1>7, <1>8 DEF DescentInv

\* In reverse, on_block is never called for a slot of an epoch above one it was called
\* for, over all restarts.  (The range ends with an epoch: see README.)
THEOREM GoesDown == Instance /\ Reverse /\ Aligned /\ Spec => [][EpochsDescend]_vars
<1>1. Instance /\ Reverse /\ Aligned /\ Init => DescentInv
  BY InitCourse DEF DescentInv, Descent, Init
<1>2. DescentInv /\ [Next]_vars => DescentInv' /\ [EpochsDescend]_vars
  BY StepDescends
<1>. QED  BY <1>1, <1>2, PTL DEF Spec
=============================================================================
