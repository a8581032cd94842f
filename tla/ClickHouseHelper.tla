--------------------------- MODULE ClickHouseHelper ---------------------------
(***************************************************************************)
(* The embedded ClickHouse server: how the helper starts, watches and      *)
(* stops it (jetstreamer-utils/src/clickhouse.rs: start, stop, the monitor *)
(* task) and how JetstreamerRunner::run uses the helper (src/lib.rs).      *)
(*                                                                         *)
(* A run of the runner has one server, named like the run.  Servers are    *)
(* detached: they outlive the process that started them, and all of them   *)
(* use the same data directory and port.  Host[r] is the process run r     *)
(* executes in: two runs may share one.  Of a server's log only the lines  *)
(* the monitor looks for are kept.                                         *)
(***************************************************************************)
EXTENDS Naturals, Sequences

CONSTANTS
  Runs, Host,
  Overlap,  \* a process may be started while another one is working
  Prompt,   \* the task that waits for the server runs before the run ends
  Faults    \* the kinds of failure that may happen

FaultKinds == {
  "abort",    \* the process exits in the middle of a run
  "wiped",    \* the data directory is emptied: no status file names the owner
  "crash",    \* a server that serves dies
  "stillborn" }  \* a server dies before it serves

SwitchAssumption == Overlap \in BOOLEAN /\ Prompt \in BOOLEAN
FaultsAssumption == Faults \subseteq FaultKinds

Nobody == "nobody"
HostAssumption == DOMAIN Host = Runs /\ Nobody \notin Runs
Hosts == {Host[r] : r \in Runs}
Ready == [kind |-> "ready", pid |-> Nobody]       \* "Ready for connections"
Conflict == [kind |-> "conflict", pid |-> Nobody] \* "DB::Server::run() @"
Pid(r) == [kind |-> "pid", pid |-> r]             \* "PID: " of the status file

VARIABLES
  phase,    \* of JetstreamerRunner::run, see Phases
  server,   \* the child, see States
  lines,    \* its log, not read yet
  monitor,  \* the task that reads the log: "none", "watching" or "gone"
  other,    \* other_pid
  sent,     \* ready_signal_sent
  task,     \* the task of the process future, see Tasks
  cell      \* CLICKHOUSE_PROCESS of each process

runner == <<phase, task, cell>>
watch == <<monitor, other, sent>>
vars == <<phase, server, lines, monitor, other, sent, task, cell>>

Init ==
  /\ phase = [r \in Runs |-> "idle"]
  /\ server = [r \in Runs |-> "none"]
  /\ lines = [r \in Runs |-> <<>>]
  /\ monitor = [r \in Runs |-> "none"]
  /\ other = [r \in Runs |-> Nobody]
  /\ sent = [r \in Runs |-> FALSE]
  /\ task = [r \in Runs |-> "none"]
  /\ cell = [h \in Hosts |-> Nobody]

Ended == {"failed", "done", "aborted"}
Active(r) == phase[r] \notin Ended \cup {"idle"}
Exists(r) == server[r] \in {"booting", "serving", "refused", "dying"}
Holds(r) == server[r] \in {"serving", "dying"}
SameProcess(r) == {q \in Runs : Host[q] = Host[r]}

\* SIGTERM reaches a process that exists; one that was refused is ending anyway.
Term(r) == IF server[r] \in {"booting", "serving"} THEN [server EXCEPT ![r] = "dying"] ELSE server

-----------------------------------------------------------------------------
(* The server.                                                             *)

\* It serves unless another one holds the data directory and the port.
Boot(r) ==
  /\ server[r] = "booting"
  /\ \A q \in Runs : ~Holds(q)
  /\ server' = [server EXCEPT ![r] = "serving"]
  /\ lines' = [lines EXCEPT ![r] = Append(@, Ready)]
  /\ UNCHANGED <<runner, watch>>

Refuse(r) ==
  /\ server[r] = "booting"
  /\ \E q \in Runs :
       /\ Holds(q)
       /\ \/ lines' = [lines EXCEPT ![r] = @ \o <<Pid(q), Conflict>>]
          \/ "wiped" \in Faults /\ lines' = [lines EXCEPT ![r] = Append(@, Conflict)]
  /\ server' = [server EXCEPT ![r] = "refused"]
  /\ UNCHANGED <<runner, watch>>

Exit(r) ==
  /\ server[r] \in {"refused", "dying"}
  /\ server' = [server EXCEPT ![r] = "dead"]
  /\ UNCHANGED <<runner, lines, watch>>

Die(r) ==
  /\ \/ server[r] = "serving" /\ "crash" \in Faults
     \/ server[r] = "booting" /\ "stillborn" \in Faults
  /\ server' = [server EXCEPT ![r] = "dead"]
  /\ UNCHANGED <<runner, lines, watch>>

-----------------------------------------------------------------------------
(* The monitor task.  Once the log has ended it polls it forever.          *)

\* find_orphaned_clickhouse.  (Mutant: the own child counts too.)
Found_Own(r) == {q \in Runs : Exists(q)}
Found(r) == {q \in Runs : Exists(q) /\ q # r}

Line(r, kind) ==
  /\ monitor[r] = "watching" /\ lines[r] # <<>>
  /\ Head(lines[r]).kind = kind
  /\ lines' = [lines EXCEPT ![r] = Tail(@)]

SeesReady(r) ==
  /\ Line(r, "ready")
  /\ sent' = [sent EXCEPT ![r] = TRUE]
  /\ UNCHANGED <<runner, server, monitor, other>>

\* The second word of the line.
Named(r) == Head(lines[r]).pid

SeesPid(r) ==
  /\ Line(r, "pid")
  /\ other' = [other EXCEPT ![r] = Named(r)]
  /\ UNCHANGED <<runner, server, monitor, sent>>

\* The owner is the one the status file names, or else one that pgrep finds.
\* (Mutant: only the former.)
Owners_Named(r) == IF other[r] # Nobody THEN {other[r]} ELSE {}
Owners(r) == IF other[r] # Nobody THEN {other[r]} ELSE Found(r)

\* (Mutant: the monitor goes on after it has sent the signal.)
AfterKill_Watching == "watching"
AfterKill == "gone"

SeesConflict(r) ==
  /\ Line(r, "conflict")
  /\ \/ Owners(r) = {} /\ UNCHANGED server
     \/ \E q \in Owners(r) : server' = Term(q)
  /\ monitor' = [monitor EXCEPT ![r] = AfterKill]
  /\ UNCHANGED <<runner, other, sent>>

-----------------------------------------------------------------------------
(* JetstreamerRunner::run.                                                 *)

\* jetstreamer_utils::start.
Launch(r) ==
  /\ phase[r] = "idle"
  /\ \A q \in SameProcess(r) : ~Active(q) /\ phase[q] # "aborted"
  /\ Overlap \/ \A q \in Runs : ~Active(q)
  /\ phase' = [phase EXCEPT ![r] = "starting"]
  /\ server' = [server EXCEPT ![r] = "booting"]
  /\ monitor' = [monitor EXCEPT ![r] = "watching"]
  /\ UNCHANGED <<lines, other, sent, task, cell>>

\* ready_rx.recv() returns the signal, or None when the sender was dropped.
ReceiveReady(r) ==
  /\ phase[r] = "starting" /\ sent[r]
  /\ phase' = [phase EXCEPT ![r] = "running"]
  /\ task' = [task EXCEPT ![r] = "spawned"]
  /\ UNCHANGED <<server, lines, watch, cell>>

ReceiveNone(r) ==
  /\ phase[r] = "starting" /\ ~sent[r] /\ monitor[r] = "gone"
  /\ phase' = [phase EXCEPT ![r] = "failed"]
  /\ UNCHANGED <<server, lines, watch, task, cell>>

\* First poll of the process future: a cell that is set already is a panic.
PollTask(r) ==
  /\ task[r] = "spawned" /\ Active(r)
  /\ IF cell[Host[r]] = Nobody
     THEN /\ cell' = [cell EXCEPT ![Host[r]] = r]
          /\ task' = [task EXCEPT ![r] = "waiting"]
     ELSE task' = [task EXCEPT ![r] = "panicked"] /\ UNCHANGED cell
  /\ UNCHANGED <<phase, server, lines, watch>>

\* The child was waited for.
TaskEnds(r) ==
  /\ task[r] = "waiting" /\ Active(r) /\ server[r] = "dead"
  /\ task' = [task EXCEPT ![r] = "finished"]
  /\ UNCHANGED <<phase, cell, server, lines, watch>>

\* PluginRunner::run returns, well or not.
RunReturns(r) ==
  /\ phase[r] = "running"
  /\ Prompt => task[r] # "spawned"
  /\ phase' = [phase EXCEPT ![r] = "stopping"]
  /\ UNCHANGED <<server, lines, watch, task, cell>>

\* stop kills the process the cell names.  (Mutant: nothing is killed.)
Kill_Nobody(r) == server
Kill(r) == IF cell[Host[r]] = Nobody THEN server ELSE Term(cell[Host[r]])

Stop(r) ==
  /\ phase[r] = "stopping"
  /\ server' = Kill(r)
  /\ phase' = [phase EXCEPT ![r] = "joining"]
  /\ UNCHANGED <<lines, watch, task, cell>>

\* handle.await.  (Mutant: the task is not awaited.)
Joined_Detached(r) == TRUE
Joined(r) == task[r] \in {"finished", "panicked"}

Join(r) ==
  /\ phase[r] = "joining" /\ Joined(r)
  /\ phase' = [phase EXCEPT ![r] = "done"]
  /\ UNCHANGED <<server, lines, watch, task, cell>>

\* std::process::exit, or a signal: the server stays.
Abort(r) ==
  /\ "abort" \in Faults
  /\ phase[r] = "running"
  /\ phase' = [phase EXCEPT ![r] = "aborted"]
  /\ monitor' = [monitor EXCEPT ![r] = "gone"]
  /\ UNCHANGED <<server, lines, other, sent, task, cell>>

Server(r) == Boot(r) \/ Refuse(r) \/ Exit(r)
Monitor(r) == SeesReady(r) \/ SeesPid(r) \/ SeesConflict(r)
Runner(r) == ReceiveReady(r) \/ ReceiveNone(r) \/ RunReturns(r) \/ Stop(r) \/ Join(r)
Task(r) == PollTask(r) \/ TaskEnds(r)

Quiet == UNCHANGED vars  \* nothing is left to do

Next ==
  \/ \E r \in Runs :
       Server(r) \/ Monitor(r) \/ Runner(r) \/ Task(r) \/ Launch(r) \/ Abort(r) \/ Die(r)
  \/ Quiet

Spec == Init /\ [][Next]_vars
FairSpec ==
  Spec /\ \A r \in Runs :
    WF_vars(Server(r)) /\ WF_vars(Monitor(r)) /\ WF_vars(Runner(r)) /\ WF_vars(Task(r))

-----------------------------------------------------------------------------
(* Properties.                                                             *)

Phases == {"idle", "starting", "running", "stopping", "joining"} \cup Ended
States == {"none", "booting", "serving", "refused", "dying", "dead"}
Tasks == {"none", "spawned", "waiting", "panicked", "finished"}

\* Every variable keeps its type: what is killed is a server of some run.
TypeOK ==
  /\ phase \in [Runs -> Phases]
  /\ server \in [Runs -> States]
  /\ lines \in [Runs -> Seq({Ready, Conflict} \cup {Pid(r) : r \in Runs})]
  /\ monitor \in [Runs -> {"none", "watching", "gone"}]
  /\ other \in [Runs -> Runs \cup {Nobody}]
  /\ sent \in [Runs -> BOOLEAN]
  /\ task \in [Runs -> Tasks]
  /\ cell \in [Hosts -> Runs \cup {Nobody}]

\* lib.rs: run returns only after the server it started is gone, so the data
\* directory is free for the next run, whether or not the server crashed.
NothingLeftRunning == \A r \in Runs : phase[r] = "done" => server[r] = "dead"

\* clickhouse.rs:256 "killed orphaned ClickHouse process [...]; please re-launch": a
\* start that fails leaves no server serving.
\* (Does not hold: README, Disagreements.)
RelaunchHelps ==
  \A r \in Runs : phase'[r] = "failed" /\ phase[r] # "failed" =>
        \A q \in Runs : server[q] # "serving"

\* A start that fails has dealt with the server that was in its way, which the
\* status file may name or not, unless it was not named and the server of an
\* earlier failed start, which has yet to exit, was found in its stead.
FailedStartClears ==
  \A r \in Runs : phase[r] = "starting" /\ monitor[r] = "watching" /\ monitor'[r] = "gone" =>
    \/ \A q \in Runs : server'[q] # "serving"
    \/ other[r] = Nobody /\ \E q \in Runs \ {r} : phase[q] = "failed" /\ server[q] = "refused"

\* clickhouse.rs:46 "an orphaned embedded ClickHouse server left behind by a
\* previous run": a server is signalled when its own run stops it or after its
\* run has ended, never under a run that is using it.
OnlyOrphansKilled ==
  \A r \in Runs : server[r] # "dying" /\ server'[r] = "dying" =>
        phase[r] \in Ended \cup {"stopping"}

Starting(r) == phase[r] = "starting"
Started(r) == phase[r] \in {"running", "failed"}
Stopping(r) == phase[r] = "stopping"
Done(r) == phase[r] = "done"

\* A start ends: the server gets ready, or the run reports why it did not
\* (clickhouse.rs:68 "Server failed to perform its required initialization
\* steps").
StartSettles == \A r \in Runs : Starting(r) ~> Started(r)

\* A run that was not aborted returns: stop never waits for a server nobody stops.
RunReturned == \A r \in Runs : Stopping(r) ~> Done(r)

\* clickhouse.rs:300 "Stops the ClickHouse process asynchronously, if one is
\* running": after stop the server of the run has been told to end.
\* (Holds only if the spawned task is polled in time, once per process: README, Disagreements.)
StopReachesServer ==
  \A r \in Runs : phase[r] = "joining" => server[r] \in {"dying", "dead"}
===============================================================================
