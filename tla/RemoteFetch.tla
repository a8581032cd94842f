--------------------------- MODULE RemoteFetch ---------------------------
(***************************************************************************)
(* How an index file, or a range of one, is fetched                        *)
(* (jetstreamer-firehose/src/index.rs fetch_full, fetch_http_range,        *)
(* fetch_s3_full, fetch_s3_range): every request over HTTP first passes    *)
(* the gate; errors of the network, of the body and "too many requests"    *)
(* are retried with a doubled delay, a missing file and other errors are   *)
(* not.  The S3 backend asks once, and without the gate.                   *)
(***************************************************************************)
EXTENDS HitGate, FiniteSetsExt

CONSTANTS
    MaxRetries,   \* FETCH_RANGE_MAX_RETRIES
    BaseDelay,    \* FETCH_RANGE_BASE_DELAY_MS
    Backends,     \* which of "http", "s3"
    Wanted        \* how many bytes a range asks for

VARIABLES
    backend,   \* of each client
    ranged,    \* whether it asks for a range that has to be exact
    fetch,     \* what each client does: step, attempt, when it may go on
    sent,      \* requests sent, and when the last one was
    requests,  \* how many were sent over HTTP, by all clients
    answer     \* how the fetch ended
vars == <<now, last, gate, backend, ranged, fetch, sent, requests, answer>>

Fetching == [step |-> "gate", attempt |-> 0, wake |-> 0]

Init ==
    /\ GateInit
    /\ backend \in [Clients -> Backends]
    /\ ranged \in [Clients -> BOOLEAN]
    /\ fetch = [c \in Clients |-> Fetching]
    /\ sent = [c \in Clients |-> [count |-> 0, at |-> 0]] /\ requests = 0
    /\ answer = [c \in Clients |-> "none"]

Ask(c) ==
    /\ fetch[c].step = "gate" /\ now >= fetch[c].wake /\ backend[c] = "http"
    /\ Enter(c)
    /\ UNCHANGED <<backend, ranged, fetch, sent, requests, answer>>

Sent(c) ==
    /\ fetch' = [fetch EXCEPT ![c].step = "response"]
    /\ sent' = [sent EXCEPT ![c] = [count |-> @.count + 1, at |-> now]]
    /\ requests' = requests + (IF backend[c] = "http" THEN 1 ELSE 0)
    /\ UNCHANGED <<backend, ranged, answer>>

Send_RetryUngated(c) ==
    /\ fetch[c].step = "gate"
    /\ \/ Leave(c)
       \/ /\ gate[c].step = "outside" /\ fetch[c].attempt > 0 /\ now >= fetch[c].wake
          /\ UNCHANGED gateVars
       \/ backend[c] = "s3" /\ UNCHANGED gateVars
    /\ Sent(c)

Send(c) ==
    /\ fetch[c].step = "gate"
    /\ \/ Leave(c)
       \/ backend[c] = "s3" /\ UNCHANGED gateVars
    /\ Sent(c)

Ends(c, how) ==
    /\ fetch' = [fetch EXCEPT ![c].step = "end"]
    /\ answer' = [answer EXCEPT ![c] = how]

Delay_Constant(attempt) == BaseDelay
Delay(attempt) == BaseDelay * 2 ^ Min({attempt, 10})

TriesAgain(c) == backend[c] = "http" /\ fetch[c].attempt < MaxRetries

RetryOr(c, error) ==
    IF TriesAgain(c)
      THEN /\ fetch' = [fetch EXCEPT ![c] = [step |-> "gate", attempt |-> @.attempt + 1,
                                             wake |-> now + Delay(@.attempt)]]
           /\ UNCHANGED answer
      ELSE Ends(c, error)

(* Errors of the connection, and a server that asks to slow down.           *)
NoResponse(c) ==
    /\ fetch[c].step = "response"
    /\ \E error \in {"network", "busy"} : RetryOr(c, error)
    /\ UNCHANGED <<gateVars, backend, ranged, sent, requests>>

(* A missing file and any other status end the fetch.  S3 says "missing"    *)
(* also when it denies access, and a range never says so.                   *)
Refused(c) ==
    /\ fetch[c].step = "response"
    /\ \E error \in {"not found", "status"} :
         Ends(c, IF backend[c] = "s3" /\ ranged[c] THEN "status" ELSE error)
    /\ UNCHANGED <<gateVars, backend, ranged, sent, requests>>

Body(c) ==
    /\ fetch[c].step = "response"
    /\ fetch' = [fetch EXCEPT ![c].step = "body"]
    /\ UNCHANGED <<gateVars, backend, ranged, sent, requests, answer>>

BodyFails(c) ==
    /\ fetch[c].step = "body"
    /\ RetryOr(c, "network")
    /\ UNCHANGED <<gateVars, backend, ranged, sent, requests>>

(* The body is there; a range that has to be exact is measured.             *)
Exact_Unchecked(c, bytes) == TRUE
Exact(c, bytes) == ranged[c] => bytes = Wanted
BodyEnds(c) ==
    /\ fetch[c].step = "body"
    /\ \E bytes \in {Wanted - 1, Wanted, Wanted + 1} :
         Ends(c, IF Exact(c, bytes) THEN (IF bytes = Wanted THEN "whole" ELSE "other")
                 ELSE "format")
    /\ UNCHANGED <<gateVars, backend, ranged, sent, requests>>

Over ==
    /\ now = MaxTime \/ \A c \in Clients : fetch[c].step = "end"
    /\ UNCHANGED vars
Tick == GateTick /\ UNCHANGED <<backend, ranged, fetch, sent, requests, answer>>
Waits(c) == Wait(c) /\ UNCHANGED <<backend, ranged, fetch, sent, requests, answer>>

Next ==
    \/ \E c \in Clients : \/ Ask(c) \/ Waits(c) \/ Send(c) \/ NoResponse(c)
                          \/ Refused(c) \/ Body(c) \/ BodyFails(c) \/ BodyEnds(c)
    \/ Tick \/ Over
Spec == Init /\ [][Next]_vars
-----------------------------------------------------------------------------
TypeOK ==
    /\ GateTypeOK
    /\ \A c \in Clients :
         /\ fetch[c].step \in {"gate", "response", "body", "end"}
         /\ fetch[c].attempt \in 0..MaxRetries
         /\ sent[c].count = fetch[c].attempt + (IF fetch[c].step = "gate" THEN 0 ELSE 1)
         /\ answer[c] \in {"none", "network", "busy", "not found", "status", "format",
                           "whole", "other"}

(* A client that sends again has waited for the doubled delay since its     *)
(* last request, on top of the gate that all clients share (index.rs        *)
(* fetch_full, fetch_http_range: FETCH_RANGE_BASE_DELAY_MS << attempt).     *)
BacksOff ==
    \A c \in Clients :
      (sent'[c].count > sent[c].count /\ sent[c].count > 0)
         => now >= sent[c].at + BaseDelay * 2 ^ (sent[c].count - 1)

(* No more requests were sent over HTTP than intervals have passed since    *)
(* the gate's clock started: each one, a retry as well, uses up a permit of *)
(* its own, though it may be late (index.rs MIN_HIT_SPACING_MS).  How many  *)
(* are sent together is not bounded but by the clients that are delayed.    *)
RateKept == requests * Spacing <= now

(* A range that has to be exact is exact or the fetch is an error; the      *)
(* buckets of an index are sliced without another look at their length.     *)
RangesExact ==
    \A c \in Clients : ranged[c] => answer[c] # "other"
=============================================================================
