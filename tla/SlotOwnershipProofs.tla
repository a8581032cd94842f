------------------------ MODULE SlotOwnershipProofs ------------------------
(***************************************************************************)
(* What SlotOwnership promises holds for every set of threads, slots and   *)
(* blocks and every initial partition.                                     *)
(***************************************************************************)
EXTENDS SlotOwnership, TLAPS

LEMMA OwnershipInit == InitialPartition /\ Init => OwnershipInv
BY DEF InitialPartition, Init, OwnershipInv, Exclusive, TypeOK, OneOwner, FreshWork, ExclusiveEmission, NoOrphan

LEMMA OwnershipAdvance ==
  ASSUME OwnershipInv, NEW t \in AllThreads, Advance(t)
  PROVE  OwnershipInv'
<1> USE DEF OwnershipInv, Exclusive, Advance, Move, OnlyChanges
<1>1. TypeOK'
  BY DEF TypeOK
<1>2. OneOwner'
  BY DEF OneOwner, TypeOK
<1>3. FreshWork'
  BY DEF FreshWork, OneOwner, TypeOK
<1>4. ExclusiveEmission'
  BY DEF ExclusiveEmission, FreshWork, TypeOK
<1>5. NoOrphan'
  BY DEF NoOrphan, TypeOK
<1> QED BY <1>1, <1>2, <1>3, <1>4, <1>5

LEMMA OwnershipHandover ==
  ASSUME OwnershipInv, NEW v \in AllThreads, NEW t \in AllThreads, Handover(v, t)
  PROVE  OwnershipInv'
<1> USE DEF OwnershipInv, Exclusive, Handover, OnlyChanges
<1>1. TypeOK'
  BY DEF TypeOK
<1>2. OneOwner'
  BY DEF OneOwner, TypeOK
<1>3. FreshWork'
  BY DEF FreshWork, TypeOK
<1>4. ExclusiveEmission'
  BY DEF ExclusiveEmission
<1>5. NoOrphan'
  BY DEF NoOrphan, TypeOK
<1> QED BY <1>1, <1>2, <1>3, <1>4, <1>5

LEMMA OwnershipDie ==
  ASSUME OwnershipInv, NEW t \in AllThreads, Die(t)
  PROVE  OwnershipInv'
<1> USE DEF OwnershipInv, Exclusive, Die, OnlyChanges
<1>1. TypeOK'
  BY DEF TypeOK
<1>2. OneOwner'
  BY DEF OneOwner, TypeOK
<1>3. FreshWork'
  BY DEF FreshWork, OneOwner, TypeOK
<1>4. ExclusiveEmission'
  BY DEF ExclusiveEmission, FreshWork, TypeOK
<1>5. NoOrphan'
  BY DEF NoOrphan
<1> QED BY <1>1, <1>2, <1>3, <1>4, <1>5

(***************************************************************************)
(* Whatever work is split, handed over or lost: no slot is delivered by    *)
(* two threads, and while no thread died every block is processed or       *)
(* somebody's work (the inbox protocol of request_steal and                *)
(* service_steal_inbox relies on both).                                    *)
(***************************************************************************)
THEOREM OwnershipHolds == InitialPartition /\ Spec => [](ExclusiveEmission /\ NoOrphan)
<1>1. OwnershipInv /\ [Next]_vars => OwnershipInv'
  <2> SUFFICES ASSUME OwnershipInv, [Next]_vars PROVE OwnershipInv'
    OBVIOUS
  <2>1. CASE UNCHANGED vars
    BY <2>1 DEF vars, OwnershipInv, Exclusive, TypeOK, OneOwner, FreshWork, ExclusiveEmission, NoOrphan
  <2>2. CASE Next
    BY <2>2, OwnershipAdvance, OwnershipHandover, OwnershipDie DEF Next
  <2> QED BY <2>1, <2>2
<1>2. OwnershipInv => ExclusiveEmission /\ NoOrphan
  BY DEF OwnershipInv, Exclusive
<1> QED BY OwnershipInit, <1>1, <1>2, PTL DEF Spec
============================================================================
