--------------------------- MODULE GeyserDelivery ---------------------------
(***************************************************************************)
(* What firehose_geyser promises its plugins: the metadata of every block  *)
(* of the range is delivered once, and "unload" comes after all of it.     *)
(* (jetstreamer-firehose, firehose.rs: firehose_geyser.)                   *)
(***************************************************************************)
EXTENDS Naturals

CONSTANT Wanted   \* the slots of the range that hold a block

VARIABLES
  metas,    \* metas[s]: how often the metadata of slot s was delivered
  unloaded

Init == metas = [s \in Wanted |-> 0] /\ unloaded = FALSE

Deliver(s) == metas[s] = 0 /\ metas' = [metas EXCEPT ![s] = 1] /\ UNCHANGED unloaded

Unload ==
  /\ ~unloaded
  /\ \A s \in Wanted : metas[s] = 1
  /\ unloaded' = TRUE
  /\ UNCHANGED metas

Step == Unload \/ \E s \in Wanted : ~unloaded /\ Deliver(s)

vars == <<metas, unloaded>>

\* A step is possible until the plugins are unloaded, so that this is the same as
\* weak fairness of Step.
Spec == Init /\ [][Step]_vars /\ <>unloaded
=============================================================================
