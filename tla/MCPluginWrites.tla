--------------------------- MODULE MCPluginWrites ---------------------------
(* Constants of the PluginWrites runs. *)
EXTENDS PluginWrites

\* Thread 1 reads slots 1 and 2, of which its leader skipped 1, thread 2 reads slot 3.
TwoThreads == 1 .. 2
TwoLo == <<1, 3>>
TwoHi == <<3, 4>>
OneEach == {2, 3}

\* One thread that reads slots 1 to 3, slot 2 is skipped.
OneThread == {1}
OneLo == <<1>>
OneHi == <<4>>
TwoBlocks == {1, 3}

AllFaults == FaultKinds
Outage == {"outage"}
Interrupt == {"ctrlc"}
==============================================================================
