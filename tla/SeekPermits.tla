--------------------------- MODULE SeekPermits ---------------------------
(***************************************************************************)
(* The seeks of the readers (jetstreamer-firehose/src/node_reader.rs       *)
(* prime_seek_permit, seek_to_offset) and how the threads use them         *)
(* (firehose.rs): a permit of the seek gate is taken ahead, outside of the *)
(* timeout that the seek itself runs under, and used by the next seek; a   *)
(* seek that has none takes one itself.                                    *)
(***************************************************************************)
EXTENDS HitGate

CONSTANTS
    Primes,    \* the clients that take their permit ahead; others just seek
    OpTimeout  \* how long a seek may take

VARIABLES
    reader,    \* each client's step, and whether its reader holds a permit
    timer,     \* when the timed part of the seek began
    permits, seeks,  \* how many were taken and how many seeks were sent
    sought     \* how many seeks were sent by all clients
vars == <<now, last, gate, reader, timer, permits, seeks, sought>>

Fresh == [step |-> "opened", primed |-> FALSE]

Init ==
    /\ GateInit
    /\ reader = [c \in Clients |-> Fresh]
    /\ timer = [c \in Clients |-> 0]
    /\ permits = [c \in Clients |-> 0] /\ seeks = [c \in Clients |-> 0]
    /\ sought = 0

Primed_Not(c) == [reader EXCEPT ![c].step = "index"]
Primed(c) == [reader EXCEPT ![c].primed = TRUE, ![c].step = "index"]

Prime(c) ==
    /\ reader[c].step = "opened" /\ c \in Primes
    /\ Enter(c)
    /\ reader' = [reader EXCEPT ![c].step = "priming"]
    /\ UNCHANGED <<timer, permits, seeks, sought>>

PrimeEnds(c) ==
    /\ reader[c].step = "priming" /\ Leave(c)
    /\ reader' = Primed(c)
    /\ timer' = [timer EXCEPT ![c] = now]
    /\ permits' = [permits EXCEPT ![c] = @ + 1]
    /\ UNCHANGED <<seeks, sought>>

SeekUnprimed(c) ==
    /\ reader[c].step = "opened" /\ c \notin Primes
    /\ reader' = [reader EXCEPT ![c].step = "index"]
    /\ timer' = [timer EXCEPT ![c] = now]
    /\ UNCHANGED <<gateVars, permits, seeks, sought>>

(* The index has the offset; the permit is used up, or taken now.           *)
Taken(c) == [reader EXCEPT ![c] = [step |-> "seek", primed |-> FALSE]]

OffsetKnown_NoWait(c) ==
    /\ reader[c].step = "index"
    /\ reader' = Taken(c)
    /\ UNCHANGED <<gateVars, timer, permits, seeks, sought>>

OffsetKnown(c) ==
    /\ reader[c].step = "index"
    /\ IF reader[c].primed
         THEN /\ reader' = Taken(c)
              /\ UNCHANGED gateVars
         ELSE /\ Enter(c) /\ reader' = [reader EXCEPT ![c].step = "waiting"]
    /\ UNCHANGED <<timer, permits, seeks, sought>>

WaitEnds(c) ==
    /\ reader[c].step = "waiting" /\ Leave(c)
    /\ reader' = [reader EXCEPT ![c].step = "seek"]
    /\ permits' = [permits EXCEPT ![c] = @ + 1]
    /\ UNCHANGED <<timer, seeks, sought>>

Seek(c) ==
    /\ reader[c].step = "seek"
    /\ seeks' = [seeks EXCEPT ![c] = @ + 1] /\ sought' = sought + 1
    /\ reader' = [reader EXCEPT ![c].step = "reading"]
    /\ UNCHANGED <<gateVars, timer, permits>>

(* The index or the seek fails, the reading ends, or it is time: the reader *)
(* is dropped, and with it the permit it may hold, and a new one is opened. *)
Closed(c) == reader' = [reader EXCEPT ![c] = Fresh]
Drop(c) ==
    /\ reader[c].step \in {"index", "reading"}
    /\ Closed(c)
    /\ UNCHANGED <<gateVars, timer, permits, seeks, sought>>

TimeOut(c) ==
    /\ reader[c].step \in {"index", "waiting", "seek"} /\ now >= timer[c] + OpTimeout
    /\ Closed(c)
    /\ IF gate[c].step = "outside" THEN UNCHANGED gateVars
       ELSE gate[c].step # "granted" /\ Cancel(c)
    /\ UNCHANGED <<timer, permits, seeks, sought>>

Over == now = MaxTime /\ UNCHANGED vars
Tick == GateTick /\ UNCHANGED <<reader, timer, permits, seeks, sought>>
Waits(c) == Wait(c) /\ UNCHANGED <<reader, timer, permits, seeks, sought>>
Next ==
    \/ \E c \in Clients : \/ Prime(c) \/ PrimeEnds(c) \/ SeekUnprimed(c) \/ OffsetKnown(c)
                          \/ WaitEnds(c) \/ Waits(c) \/ Seek(c) \/ Drop(c) \/ TimeOut(c)
    \/ Tick \/ Over
Spec == Init /\ [][Next]_vars
-----------------------------------------------------------------------------
TypeOK ==
    /\ GateTypeOK
    /\ \A c \in Clients :
         /\ reader[c].step \in {"opened", "priming", "index", "waiting", "seek", "reading"}
         /\ reader[c].primed => reader[c].step = "index"
         /\ timer[c] \in 0..now

(* A permit lets one seek through: no reader seeks twice on one, and none   *)
(* keeps the permit of a reader that was dropped.                           *)
SeekHasPermit == \A c \in Clients : seeks[c] <= permits[c]

(* No more seeks were sent than intervals have passed since the gate's      *)
(* clock started, whenever their permits were taken and with whichever      *)
(* readers they were lost (node_reader.rs MIN_SEEK_SPACING_MS).             *)
RateKept == sought * Spacing <= now

(* A thread that takes its permit ahead does not queue for another while    *)
(* the timeout of its seek runs ("that wait is pacing, not a stall").       *)
PacingIsUntimed ==
    \A c \in Primes : gate[c].step # "outside" => reader[c].step = "priming"
=============================================================================
