------------------------------ MODULE MCRunner -------------------------------
(*****************************************************************************)
(* The parts around the firehose: the ClickHouse helper process, the statistics*)
(* pulses of the runner, the tallies of the built-in plugins and the command *)
(* line. Each keeps its own state, so that a behaviour is one of one part,   *)
(* chosen at the start.                                                      *)
(*****************************************************************************)
EXTENDS Integers, Sequences, TLC

VARIABLES
  part,  \* the part that this behaviour is about
  helperPhase, server, lines, monitor, other, sent, task, cell,
  pc, total, clock, mine, prev, lock, lastTxs, lastTime, latest, pulses,
  measured, taken, pulseShutting,
  tallyPhase, shutting, tallyAt, call, tally, programs, instructions,
  mentions, rows, status, given,
  env, argv, lineAt, parsed, outcome, config, template, helper, runs, origin,
  floor

helperVars == <<helperPhase, server, lines, monitor, other, sent, task, cell>>
pulseVars == <<pc, total, clock, mine, prev, lock, lastTxs, lastTime, latest,
            pulses, measured, taken, pulseShutting>>
tallyVars == <<tallyPhase, shutting, tallyAt, call, tally, programs,
            instructions, mentions, rows, status, given>>
lineVars == <<env, argv, lineAt, parsed, outcome, config, template, helper,
            runs, origin, floor>>
all == <<part, helperVars, pulseVars, tallyVars, lineVars>>

-----------------------------------------------------------------------------
(* The instances.                                                          *)

\* ClickHouseHelper: four runs one after the other, each in a process of its own,
\* named in the order in which they start: nothing else tells them apart.
Order == <<"r1", "r2", "r3", "r4">>
Names == {Order[i] : i \in DOMAIN Order}
Own == [r \in Names |-> r]

\* PluginTallies: two threads, one with a skipped slot, and transactions of every
\* kind: a simple vote, a failed call of two programs, a vote among others, one that
\* calls a loaded program, one without instructions.
Tx(keys, loaded, outer, inner, legacy, cu, errored) ==
  [keys |-> keys, loaded |-> loaded, outer |-> outer, inner |-> inner, legacy |-> legacy,
   signatures |-> 1, cu |-> cu, errored |-> errored]
SimpleVote == Tx(<<"payer", "voter">>, <<>>, <<2>>, <<>>, TRUE, 2, FALSE)
Failed == Tx(<<"payer", "system", "voter">>, <<>>, <<2, 3, 2>>, <<>>, TRUE, 7, TRUE)
Nested == Tx(<<"payer", "system", "voter">>, <<"table">>, <<2>>, <<3, 4>>, FALSE, 5, FALSE)
Empty == Tx(<<"payer">>, <<>>, <<>>, <<>>, FALSE, 1, FALSE)
TxShapes == {SimpleVote, Failed, Nested, Empty}
TwoFeeds == "t1" :> <<1, 2>> @@ "t2" :> <<3>>
SoleFeed == "t1" :> <<1, 2>>

\* CommandLine: every command line of up to four words; a DSN from the environment,
\* from the flag or from neither; machines with few and many cores and networks of
\* every speed. CL is there for the words, which need no state.
CL == INSTANCE CommandLine WITH Argvs <- {}, Envs <- {}, EpochLen <- 3, MaxRuns <- 1,
  env <- 0, argv <- 0, at <- 0, parsed <- 0, outcome <- 0, config <- 0, template <- 0,
  helper <- 0, runs <- 0, origin <- 0, floor <- 0
Vocabulary ==
  {CL!Flag("--with-plugin"), CL!Flag("--no-plugins"), CL!Flag("--list-plugins"),
   CL!Flag("--reverse"), CL!Flag("--buffer-window"), CL!Flag("--clickhouse-dsn"),
   CL!Flag("--other"), CL!Name("pubkey-stats"), CL!Epoch(2), CL!SlotsWord(2, 4)}
AllArgvs == UNION {[1 .. k -> Vocabulary] : k \in 1 .. 4}
Remote == CL!Dsn("example.com", FALSE, FALSE, FALSE)
DsnArgvs ==
  {<<CL!Epoch(2)>>}
    \cup {<<CL!Flag("--clickhouse-dsn"), d, CL!Epochs(1, 2)>> : d \in {Remote, CL!LocalDsn}}
PlainArgvs == {<<CL!Epoch(0)>>}
Plain ==
  [mode |-> "unset", dsn |-> CL!NoWord, threads |-> 4, reverse |-> FALSE,
   sequential |-> FALSE, cores |-> 1, capacity |-> 0]
PlainEnvs == {Plain}
ModeEnvs ==
  {[Plain EXCEPT !.mode = m, !.dsn = d, !.reverse = r] :
     m \in CL!ModeNames, d \in {CL!NoWord, CL!LocalDsn, Remote}, r \in BOOLEAN}
SizingEnvs ==
  {[Plain EXCEPT !.threads = -1, !.cores = c, !.capacity = m] :
     c \in 1 .. 4, m \in {0, 1, 249, 250, 284, 285, 999, 1000, 2850, 100000}}

Relaunch == INSTANCE ClickHouseHelper WITH Runs <- Names, Host <- Own,
  Overlap <- FALSE, Prompt <- TRUE, Faults <- {"abort", "wiped", "crash"},
  phase <- helperPhase
Pulses == INSTANCE StatsPulse WITH Threads <- {"t1", "t2"}, MaxTxs <- 2,
  MaxTime <- 1, MaxPulses <- 2, shutting <- pulseShutting
Sole == INSTANCE StatsPulse WITH Threads <- {"t1"}, MaxTxs <- 4, MaxTime <- 2,
  MaxPulses <- 3, shutting <- pulseShutting
Tables == INSTANCE PluginTallies WITH Threads <- {"t1"}, Feed <- SoleFeed,
  Skipped <- {1}, Shapes <- TxShapes, Vote <- "voter", MaxTxs <- 3,
  phase <- tallyPhase, at <- tallyAt
Tallies == INSTANCE PluginTallies WITH Threads <- {"t1", "t2"},
  Feed <- TwoFeeds, Skipped <- {1}, Shapes <- TxShapes, Vote <- "voter",
  MaxTxs <- 1, phase <- tallyPhase, at <- tallyAt
Words == INSTANCE CommandLine WITH Argvs <- AllArgvs, Envs <- PlainEnvs,
  EpochLen <- 3, MaxRuns <- 3, at <- lineAt
Modes == INSTANCE CommandLine WITH Argvs <- DsnArgvs, Envs <- ModeEnvs,
  EpochLen <- 3, MaxRuns <- 2, at <- lineAt
Sizing == INSTANCE CommandLine WITH Argvs <- PlainArgvs, Envs <- SizingEnvs,
  EpochLen <- 3, MaxRuns <- 1, at <- lineAt

-----------------------------------------------------------------------------
(* One part runs; the variables of the others are not used.                *)

NoHelper == /\ helperPhase = 0 /\ server = 0 /\ lines = 0 /\ monitor = 0
            /\ other = 0 /\ sent = 0 /\ task = 0 /\ cell = 0
NoPulse == /\ pc = 0 /\ total = 0 /\ clock = 0 /\ mine = 0 /\ prev = 0
           /\ lock = 0 /\ lastTxs = 0 /\ lastTime = 0 /\ latest = 0
           /\ pulses = 0 /\ measured = 0 /\ taken = 0 /\ pulseShutting = 0
NoTally == /\ tallyPhase = 0 /\ shutting = 0 /\ tallyAt = 0 /\ call = 0
           /\ tally = 0 /\ programs = 0 /\ instructions = 0 /\ mentions = 0
           /\ rows = 0 /\ status = 0 /\ given = 0
NoLine == /\ env = 0 /\ argv = 0 /\ lineAt = 0 /\ parsed = 0 /\ outcome = 0
          /\ config = 0 /\ template = 0 /\ helper = 0 /\ runs = 0
          /\ origin = 0 /\ floor = 0

Parts == {"relaunch", "pulses", "sole", "tables", "tallies", "words", "modes",
          "sizing"}

PartInit ==
  /\ part \in Parts
  /\ IF part = "relaunch" THEN Relaunch!Init ELSE NoHelper
  /\ CASE part = "pulses" -> Pulses!Init
       [] part = "sole" -> Sole!Init
       [] OTHER -> NoPulse
  /\ CASE part = "tables" -> Tables!Init
       [] part = "tallies" -> Tallies!Init
       [] OTHER -> NoTally
  /\ CASE part = "words" -> Words!Init
       [] part = "modes" -> Modes!Init
       [] part = "sizing" -> Sizing!Init
       [] OTHER -> NoLine

\* The runs start in the order of their names.
InOrder ==
  \A i \in 2 .. Len(Order) :
    helperPhase'[Order[i]] # "idle" => helperPhase'[Order[i - 1]] # "idle"

PartNext ==
  /\ UNCHANGED part
  /\ IF part = "relaunch" THEN Relaunch!Next /\ InOrder ELSE UNCHANGED helperVars
  /\ CASE part = "pulses" -> Pulses!Next
       [] part = "sole" -> Sole!Next
       [] OTHER -> UNCHANGED pulseVars
  /\ CASE part = "tables" -> Tables!Next
       [] part = "tallies" -> Tallies!Next
       [] OTHER -> UNCHANGED tallyVars
  /\ CASE part = "words" -> Words!Next
       [] part = "modes" -> Modes!Next
       [] part = "sizing" -> Sizing!Next
       [] OTHER -> UNCHANGED lineVars

ASSUME RunnerAssumptions ==
  /\ Relaunch!HostAssumption /\ Relaunch!SwitchAssumption /\ Relaunch!FaultsAssumption
  /\ Pulses!ThreadsAssumption /\ Pulses!BoundsAssumption /\ Sole!BoundsAssumption
  /\ Tables!FeedAssumption /\ Tables!SkippedAssumption /\ Tables!ShapesAssumption
  /\ Tallies!FeedAssumption /\ Tallies!SkippedAssumption /\ Tallies!ShapesAssumption
  /\ Words!EnvsAssumption /\ Modes!EnvsAssumption /\ Sizing!EnvsAssumption
  /\ Words!BoundsAssumption

\* What each part's scheduling justifies: FairSpec of ClickHouseHelper and
\* StatsPulse.
PartSpec ==
  /\ PartInit /\ [][PartNext]_all
  /\ \A r \in Names :
       /\ WF_helperVars(part = "relaunch" /\ Relaunch!Server(r))
       /\ WF_helperVars(part = "relaunch" /\ Relaunch!Monitor(r))
       /\ WF_helperVars(part = "relaunch" /\ Relaunch!Runner(r))
       /\ WF_helperVars(part = "relaunch" /\ Relaunch!Task(r))
  /\ \A t \in {"t1", "t2"} : WF_pulseVars(part = "pulses" /\ Pulses!Pulse(t))

-----------------------------------------------------------------------------
(* Properties: each part is stated and explained in the part's module.     *)

\* Every variable of every part keeps its type.
PartTypeOK ==
  /\ part = "relaunch" => Relaunch!TypeOK
  /\ part = "pulses" => Pulses!TypeOK
  /\ part = "tallies" => Tallies!TypeOK
  /\ part = "words" => Words!TypeOK

\* run returns only after the ClickHouse server it started is gone; a start that fails
\* has dealt with the server in its way, whether the status file names it or not, unless
\* that of an earlier failed start was found in its stead; and a server is never
\* signalled under a run that uses it, as long as no process starts while another one
\* is working.
ServersKept ==
  [][part = "relaunch" =>
       /\ Relaunch!NothingLeftRunning'
       /\ Relaunch!FailedStartClears
       /\ Relaunch!OnlyOrphansKilled]_all

\* What a statistics pulse subtracts is the snapshot of one earlier pulse, and no
\* transaction falls between two pulses, in whatever order their threads come to the
\* lock; a single thread measures each transaction once.
PulsesMeasure ==
  /\ part = "pulses" => Pulses!MeasuresFromPrevious /\ Pulses!NothingUnmeasured
  /\ part = "sole" => Sole!MeasuredOnce

\* The plugins' tables agree about a slot: program_invocations says of every program and
\* vote flag exactly what its transactions did, and its charges add up to the compute
\* units; the rows of all tables are about the same transactions and dated together, and
\* the slot's status counts what they count, also when Ctrl-C comes in between.
RowsAgree ==
  /\ part = "tables" => Tables!ProgramRowsExact /\ Tables!ComputeConserved
  /\ part = "tallies" =>
       Tallies!SameTransactions /\ Tallies!DatedTogether /\ Tallies!StatusAgrees

\* The command an aborted run prints is accepted and gives a run with every setting of
\* the first but the start; the helper is only started for a local DSN in a mode that
\* allows it; the number of threads lies within what the machine allows.
CommandsKept ==
  /\ part = "words" => Words!ResumeKeepsConfig /\ Words!ResumeAccepted
  /\ part = "modes" => Modes!HelperAllowed
  /\ part = "sizing" => Sizing!ThreadsInRange

\* A start of the helper gets its server ready or fails, a run that is stopping returns,
\* and a statistics pulse that has begun ends.
EveryWaitEnds ==
  /\ \A r \in Names :
       /\ part = "relaunch" /\ Relaunch!Starting(r) ~> part = "relaunch" /\ Relaunch!Started(r)
       /\ part = "relaunch" /\ Relaunch!Stopping(r) ~> part = "relaunch" /\ Relaunch!Done(r)
  /\ \A t \in {"t1", "t2"} :
       part = "pulses" /\ Pulses!Pulsing(t) ~> part = "pulses" /\ ~Pulses!Pulsing(t)
=============================================================================
