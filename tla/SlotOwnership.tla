--------------------------- MODULE SlotOwnership ---------------------------
(***************************************************************************)
(* What the threaded firehose promises about the slots of a run, without   *)
(* streams, ledgers or messages: every slot is the work of at most one     *)
(* thread at a time, a thread only delivers data of slots that are its     *)
(* work, work changes hands only before anything of it was delivered and   *)
(* only towards a thread that has nothing left, and a slot that holds a    *)
(* block leaves a thread's work only by being processed, by changing hands *)
(* or because the thread died.                                             *)
(*                                                                         *)
(* WorkSteal implements this specification.                                *)
(***************************************************************************)
EXTENDS Naturals

CONSTANTS
  AllThreads,   \* the firehose threads of a run
  AllSlots,     \* the slots of the requested range
  Blocks,       \* the slots of the archive that hold a block
  Initial       \* Initial[t]: the slots thread t starts with

\* Every slot is the work of one thread at the start.
InitialPartition ==
  /\ Initial \in [AllThreads -> SUBSET AllSlots]
  /\ \A t, u \in AllThreads : t # u => Initial[t] \cap Initial[u] = {}
  /\ \A s \in AllSlots : \E t \in AllThreads : s \in Initial[t]

VARIABLES
  work,         \* work[t]: the slots t is responsible for and has not finished
  touched,      \* touched[t]: the slots t handed to a callback, wholly or in part
  processed,    \* the slots whose block was delivered and counted
  dead          \* the threads that stopped before they finished

vars == <<work, touched, processed, dead>>

Init ==
  /\ work = Initial
  /\ touched = [t \in AllThreads |-> {}]
  /\ processed = {}
  /\ dead = {}

\* The steps below are stated as relations: what changes, and between which bounds.
OnlyChanges(f, T) == \A u \in AllThreads \ T : f'[u] = f[u]

\* t delivers data of slots that are its work, finishes some and lets go of some.
Move(t) ==
  /\ work' \in [AllThreads -> SUBSET AllSlots]
  /\ OnlyChanges(work, {t})
  /\ work'[t] \subseteq work[t]
  /\ touched' \in [AllThreads -> SUBSET AllSlots]
  /\ OnlyChanges(touched, {t})
  /\ touched[t] \subseteq touched'[t]
  /\ touched'[t] \ touched[t] \subseteq work[t]
  /\ \E done \in SUBSET (work[t] \cap touched'[t]) : processed' = processed \cup done
  /\ UNCHANGED dead

\* Among the slots t lets go of no block is left unprocessed.
Advance(t) ==
  /\ Move(t)
  /\ (work[t] \ work'[t]) \cap Blocks \subseteq processed'

\* v hands slots of which it delivered nothing to the idle thread t.

Handover(v, t) ==
  /\ v # t
  /\ work[t] = {}
  /\ work' \in [AllThreads -> SUBSET AllSlots]
  /\ OnlyChanges(work, {v, t})
  /\ work'[v] \subseteq work[v]
  /\ work'[t] = work[v] \ work'[v]
  /\ work'[t] \cap touched[v] = {}
  /\ UNCHANGED <<touched, processed, dead>>

\* t stops before it finished, maybe in the middle of a delivery; its work is lost.
Die(t) ==
  /\ work' = [work EXCEPT ![t] = {}]
  /\ touched' \in [AllThreads -> SUBSET AllSlots]
  /\ OnlyChanges(touched, {t})
  /\ touched[t] \subseteq touched'[t]
  /\ touched'[t] \ touched[t] \subseteq work[t]
  /\ dead' = dead \cup {t}
  /\ UNCHANGED processed

Next ==
  \/ \E t \in AllThreads : Advance(t)
  \/ \E v, t \in AllThreads : Handover(v, t)
  \/ \E t \in AllThreads : Die(t)

Spec == Init /\ [][Next]_vars

-----------------------------------------------------------------------------
TypeOK ==
  /\ work \in [AllThreads -> SUBSET AllSlots]
  /\ touched \in [AllThreads -> SUBSET AllSlots]
  /\ processed \subseteq AllSlots
  /\ dead \subseteq AllThreads

\* No slot is the work of two threads.
OneOwner == \A t, u \in AllThreads : t # u => work[t] \cap work[u] = {}

\* No thread is responsible for a slot another thread already delivered.
FreshWork == \A t, u \in AllThreads : t # u => work[t] \cap touched[u] = {}

(***************************************************************************)
(* No slot's data reaches the callbacks of two threads: a handover can     *)
(* never race in-flight emission.                                          *)
(***************************************************************************)
ExclusiveEmission == \A t, u \in AllThreads : t # u => touched[t] \cap touched[u] = {}

(***************************************************************************)
(* As long as no thread died, every block of the run is processed or is    *)
(* still some thread's work.  Advance says as much of each step; that the  *)
(* code's steps are such steps is what the refinement shows.               *)
(***************************************************************************)
NoOrphan ==
  dead = {} => \A s \in AllSlots \cap Blocks :
                 s \in processed \/ \E t \in AllThreads : s \in work[t]

\* What keeps two threads apart, and what it takes to lose no block.
Exclusive == TypeOK /\ OneOwner /\ FreshWork /\ ExclusiveEmission
OwnershipInv == Exclusive /\ NoOrphan
============================================================================
