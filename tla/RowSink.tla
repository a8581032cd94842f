------------------------------- MODULE RowSink -------------------------------
(***************************************************************************)
(* What a run of the plugin runner promises about ClickHouse               *)
(* (jetstreamer-plugin/src/lib.rs, "Write Durability"): a block it has     *)
(* accepted is written or the run aborts.  A run never finishes, after     *)
(* Ctrl-C or without, while rows of an accepted block are missing.         *)
(***************************************************************************)
CONSTANT Slots

VARIABLES
  outcome,   \* "running", "finished" or "aborted"
  accepted,  \* slots of the blocks the run has taken on
  written    \* those among them all of whose rows are in the tables

vars == <<outcome, accepted, written>>

Init == outcome = "running" /\ accepted = {} /\ written = {}

\* Blocks are taken on, rows arrive; neither is ever taken back.
Progress ==
  /\ outcome = "running"
  /\ accepted' \in {accepted} \cup {accepted \cup {s} : s \in Slots}
  /\ written \subseteq written' /\ written' \subseteq accepted'
  /\ UNCHANGED outcome

Finish ==
  /\ outcome = "running"
  /\ accepted \subseteq written
  /\ outcome' = "finished"
  /\ UNCHANGED <<accepted, written>>

Abort ==
  /\ outcome = "running"
  /\ outcome' = "aborted"
  /\ UNCHANGED <<accepted, written>>

\* The user starts the program again.
Restart ==
  /\ outcome # "running"
  /\ outcome' = "running" /\ accepted' = {} /\ written' = {}

Next == Progress \/ Finish \/ Abort \/ Restart

Spec == Init /\ [][Next]_vars
==============================================================================
