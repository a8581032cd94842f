----------------------------- MODULE HitGate -----------------------------
(***************************************************************************)
(* The gate that paces requests over all threads: one atomic stamp of the  *)
(* last permit, a compare-and-swap to take the next.  The program has two: *)
(* wait_for_remote_hit_slot (jetstreamer-firehose/src/index.rs), which     *)
(* yields while it waits, and wait_for_seek_hit_slot (node_reader.rs),     *)
(* which sleeps.                                                           *)
(***************************************************************************)
EXTENDS Integers, FiniteSets

CONSTANTS
    Clients,    \* the tasks that ask for permits
    Spacing,    \* MIN_HIT_SPACING_MS, MIN_SEEK_SPACING_MS
    Sleeps,     \* TRUE for the gate that sleeps
    MaxTime     \* bound: how far the clock runs

GateAssumption ==
    /\ IsFiniteSet(Clients)
    /\ Spacing \in Nat \ {0} /\ MaxTime \in Nat /\ Sleeps \in BOOLEAN

VARIABLES
    now,     \* the monotonic clock, in milliseconds
    last,    \* LAST_HIT_TIME, LAST_SEEK_HIT_TIME
    gate     \* each client: where it stands, the clock and stamp it has read
gateVars == <<now, last, gate>>

Outside == [step |-> "outside", seen |-> 0, stamp |-> 0, wake |-> 0]

GateInit ==
    /\ now = 0 /\ last = 0
    /\ gate = [c \in Clients |-> Outside]

Monus(a, b) == IF a > b THEN a - b ELSE 0

Enter(c) ==
    /\ gate[c].step = "outside"
    /\ gate' = [gate EXCEPT ![c].step = "clock"]
    /\ UNCHANGED <<now, last>>

ReadClock(c) ==
    /\ gate[c].step = "clock" /\ now >= gate[c].wake
    /\ gate' = [gate EXCEPT ![c].seen = now, ![c].step = "stamp"]
    /\ UNCHANGED <<now, last>>

(* Too early: wait, for the rest of the interval or for the next turn.      *)
ReadStamp(c) ==
    /\ gate[c].step = "stamp"
    /\ LET since == Monus(gate[c].seen, last)
       IN gate' = IF since < Spacing
                    THEN [gate EXCEPT ![c].step = "clock",
                            ![c].wake = IF Sleeps THEN now + Spacing - since ELSE now]
                    ELSE [gate EXCEPT ![c].step = "swap", ![c].stamp = last]
    /\ UNCHANGED <<now, last>>

StillLast_Unchecked(c) == TRUE
StillLast(c) == last = gate[c].stamp

(* The swap takes the permit with the clock that was read before, unless    *)
(* another client has taken one since; the loser waits a whole interval.    *)
Swap(c) ==
    /\ gate[c].step = "swap"
    /\ IF StillLast(c)
         THEN /\ last' = gate[c].seen
              /\ gate' = [gate EXCEPT ![c] = [Outside EXCEPT !.step = "granted"]]
         ELSE /\ UNCHANGED last
              /\ gate' = [gate EXCEPT ![c].step = "clock",
                            ![c].wake = IF Sleeps THEN now + Spacing ELSE now]
    /\ UNCHANGED now

(* The client goes on with its permit.                                      *)
Leave(c) ==
    /\ gate[c].step = "granted"
    /\ gate' = [gate EXCEPT ![c] = Outside]
    /\ UNCHANGED <<now, last>>

(* The task is dropped while it waits: nothing was taken.                   *)
Cancel(c) ==
    /\ gate[c].step \in {"clock", "stamp", "swap"}
    /\ gate' = [gate EXCEPT ![c] = Outside]
    /\ UNCHANGED <<now, last>>

GateTick == now < MaxTime /\ now' = now + 1 /\ UNCHANGED <<last, gate>>
Wait(c) == ReadClock(c) \/ ReadStamp(c) \/ Swap(c)
-----------------------------------------------------------------------------
GateTypeOK ==
    /\ now \in 0..MaxTime /\ last \in 0..now
    /\ \A c \in Clients :
         /\ gate[c].step \in {"outside", "clock", "stamp", "swap", "granted"}
         /\ gate[c].seen \in 0..now /\ gate[c].stamp \in 0..now /\ gate[c].wake \in Nat

(* The stamps of two permits are at least an interval apart, however the    *)
(* reads of the clock and the stamp of several threads interleave (index.rs *)
(* MIN_HIT_SPACING_MS, node_reader.rs MIN_SEEK_SPACING_MS).  A stamp is the *)
(* clock as it was read before the swap: a client that is delayed between   *)
(* the two gets its permit late, maybe together with the next client.       *)
PermitsSpaced == last' # last => last' >= last + Spacing

(* "The winner's spacing interval starts now" (node_reader.rs, at a lost    *)
(* swap).  It started when the winner read its clock: this does not hold.   *)
IntervalStartsNow == last' # last => last' = now'
=============================================================================
