---------------------------- MODULE MCWorkSteal ----------------------------
(* Constants of the WorkSteal runs. *)
EXTENDS WorkSteal

\* Three epochs of four slots; slots 6 and 10 are skipped by their leaders.
SomeBlocks == {2, 3, 4, 5, 7, 8, 9, 11}
NoFaults == {}
AllButIndex == FaultKinds \ {"index"}
LostIndex == {"truncated", "index"}
Recycling == {"recycle"}
============================================================================
