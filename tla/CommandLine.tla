----------------------------- MODULE CommandLine -----------------------------
(***************************************************************************)
(* How a run is configured and resumed: parse_cli_args and the helper      *)
(* decision of JetstreamerRunner (src/src/lib.rs), the thread count of     *)
(* jetstreamer-firehose/src/system.rs and the resume command that a fatal  *)
(* write error prints (jetstreamer-plugin/src/lib.rs, metrics.rs).         *)
(*                                                                         *)
(* An aborted run prints its own command with the work range replaced; the *)
(* user gives that to the shell in the same environment, and so on.  A     *)
(* word of the command line is a record of what the parser can tell of it. *)
(***************************************************************************)
EXTENDS Integers, SequencesExt

CONSTANTS
  Argvs,     \* the command lines a user gives
  Envs,      \* the environments, see Environments
  EpochLen,  \* slots in an epoch
  MaxRuns    \* bound: starts of the program

\* What a word is by its text; a DSN may name a local host, or only contain its
\* name, and a text with a blank is two words to a shell.
Word(kind, text, nums) ==
  [kind |-> kind, text |-> text, nums |-> nums, local |-> FALSE, mentions |-> FALSE, blank |-> FALSE]
Flag(text) == Word("flag", text, <<>>)
Name(text) == Word("name", text, <<>>)
Size(text) == Word("size", text, <<>>)
Epoch(e) == Word("epoch", "", <<e>>)
Epochs(a, b) == Word("epochs", "", <<a, b>>)
SlotsWord(a, b) == Word("slots", "", <<a, b>>)
Dsn(text, local, mentions, blank) ==
  [Word("dsn", text, <<>>) EXCEPT !.local = local, !.mentions = mentions, !.blank = blank]
Marker == Word("marker", "{range}", <<>>)
NoWord == Word("none", "", <<>>)
LocalDsn == Dsn("localhost:8123", TRUE, TRUE, FALSE)

Builtins == {"program-tracking", "instruction-tracking", "pubkey-stats"}
ModeNames == {"unset", "auto", "off", "remote", "local", "unknown"}
Environments ==
  [mode : ModeNames, dsn : {NoWord, LocalDsn, Dsn("example.com", FALSE, FALSE, FALSE)},
   threads : Nat \cup {-1}, reverse : BOOLEAN, sequential : BOOLEAN,
   cores : Nat \ {0}, capacity : Nat]

EnvsAssumption == \A e \in Envs : e \in Environments
BoundsAssumption == EpochLen \in Nat \ {0} /\ MaxRuns \in Nat \ {0}

VARIABLES
  env,       \* the environment, the same for every run
  argv,      \* the arguments behind the binary's name
  at,        \* the argument the parser looks at
  parsed,    \* the locals of parse_cli_args
  outcome,   \* see Outcomes
  config,    \* Config, with the DSN of the runner
  template,  \* RESUME_COMMAND_TEMPLATE
  helper,    \* the run has spawned the ClickHouse helper
  runs,
  origin,    \* history: the configuration of the first run
  floor      \* history: the floor printed last

vars == <<env, argv, at, parsed, outcome, config, template, helper, runs, origin, floor>>

Blank ==
  [first |-> NoWord, plugins |-> <<>>, none |-> FALSE, sequential |-> FALSE, reverse |-> FALSE,
   window |-> NoWord, dsn |-> NoWord, tui |-> FALSE]
NoConfig == [start |-> 0, end |-> 0]

Init ==
  /\ env \in Envs /\ argv \in Argvs
  /\ at = 1 /\ parsed = Blank /\ outcome = "reading"
  /\ config = NoConfig /\ template = <<>> /\ helper = FALSE
  /\ runs = 1 /\ origin = NoConfig /\ floor = 0

-----------------------------------------------------------------------------
(* The pieces.                                                             *)

\* BuiltinPlugin::from_flag.
IsPlugin(w) == w.text \in Builtins

\* resolve_clickhouse_settings: an unknown mode is the default one.
Enabled(e) == e.mode # "off"
SpawnAllowed(e) == e.mode \in {"unset", "auto", "unknown", "local"}

\* should_spawn_for_dsn.
ShouldSpawnFor(dsn) == dsn.mentions

\* compute_optimal_thread_count.  (Mutant: a slow network gives no thread.)
OptimalThreads_Unfloored(cores, capacity) ==
  IF capacity > 0 /\ capacity \div 250 < 4 * cores THEN capacity \div 250 ELSE 4 * cores
OptimalThreads(cores, capacity) ==
  LET given == IF capacity > 0 THEN capacity ELSE 1000
      network == IF given \div 250 < 1 THEN 1 ELSE given \div 250
  IN IF network < 4 * cores THEN network ELSE 4 * cores

ThreadsFor(e) == IF e.threads >= 0 THEN e.threads ELSE OptimalThreads(e.cores, e.capacity)

\* The work range of the first positional.
RangeOf(w) ==
  CASE w.kind = "slots"  -> <<w.nums[1], w.nums[2] + 1>>
    [] w.kind = "epochs" -> <<w.nums[1] * EpochLen, (w.nums[2] + 1) * EpochLen>>
    [] OTHER             -> <<w.nums[1] * EpochLen, (w.nums[1] + 1) * EpochLen>>

\* What cannot be a range: a text with a hyphen is an error, another one panics.
RangeError(w) == w.kind \in {"flag", "name"} \/ (w.kind = "epochs" /\ w.nums[1] > w.nums[2])
RangePanics(w) == w.kind \in {"dsn", "size", "none"}

\* parse_optional_buffer_window_bytes: none, a size, or a plain number.
WindowOk(w) == w.kind \in {"none", "size"} \/ (w.kind = "epoch" /\ w.nums[1] >= 2)

\* Flags whose value is the next argument.  (Mutant: they are not skipped.)
TakesValue(w) == w.kind = "flag" /\ w.text \in {"--with-plugin", "--buffer-window", "--clickhouse-dsn"}
Paired_Never(words, i) == FALSE
Paired(words, i) ==
  \* position i is the value of a flag, counting pairs from the left
  LET value[j \in 0 .. Len(words)] ==
        IF j = 0 THEN FALSE ELSE j > 1 /\ ~value[j - 1] /\ TakesValue(words[j - 1])
  IN value[i]

\* The invocation with the first positional replaced.
TemplateOf(words, first) ==
  LET same == {i \in DOMAIN words : words[i] = first /\ ~Paired(words, i) /\ ~TakesValue(words[i])}
  IN [i \in DOMAIN words |-> IF i \in same /\ \A j \in same : i <= j THEN Marker ELSE words[i]]

\* The range of the resume command: inclusive, like the argument.  (Mutant: up
\* to the exclusive end.)
ResumeRange_Exclusive(from, end) == SlotsWord(from, end)
ResumeRange(from, end) == SlotsWord(from, end - 1)

\* The words a shell makes of the printed command, joined by blanks.
ShellWords(w) == IF w.blank THEN <<[w EXCEPT !.blank = FALSE], Name("rest")>> ELSE <<w>>
ResumeCommand(words, from, end) ==
  FlattenSeq([i \in DOMAIN words |->
    ShellWords(IF words[i] = Marker THEN ResumeRange(from, end) ELSE words[i])])

-----------------------------------------------------------------------------
(* parse_cli_args.                                                         *)

Arg == argv[at]
NextArg == IF at < Len(argv) THEN argv[at + 1] ELSE NoWord
Reading == outcome = "reading"
End(result) == outcome' = result /\ UNCHANGED <<at, parsed>>

Took(p, n) == parsed' = p /\ at' = at + n /\ UNCHANGED outcome

WithPlugin ==
  /\ Arg = Flag("--with-plugin")
  /\ IF IsPlugin(NextArg) THEN Took([parsed EXCEPT !.plugins = Append(@, NextArg.text)], 2)
                          ELSE End("error")

ListPlugins == Arg = Flag("--list-plugins") /\ End("listed")

Switch ==
  \/ Arg = Flag("--no-plugins") /\ Took([parsed EXCEPT !.none = TRUE], 1)
  \/ Arg = Flag("--sequential") /\ Took([parsed EXCEPT !.sequential = TRUE], 1)
  \/ Arg = Flag("--reverse") /\ Took([parsed EXCEPT !.reverse = TRUE], 1)
  \/ Arg = Flag("--tui") /\ Took([parsed EXCEPT !.tui = TRUE], 1)

Valued ==
  /\ Arg \in {Flag("--buffer-window"), Flag("--clickhouse-dsn")}
  /\ IF NextArg = NoWord THEN End("error")
     ELSE IF Arg = Flag("--buffer-window") THEN Took([parsed EXCEPT !.window = NextArg], 2)
     ELSE Took([parsed EXCEPT !.dsn = NextArg], 2)

KnownFlags ==
  {Flag(f) : f \in {"--with-plugin", "--no-plugins", "--list-plugins", "--sequential", "--reverse",
                    "--buffer-window", "--clickhouse-dsn", "--tui"}}

Positional ==
  /\ Arg \notin KnownFlags
  /\ IF parsed.first = NoWord THEN Took([parsed EXCEPT !.first = Arg], 1) ELSE End("error")

ReadArg ==
  /\ Reading /\ at <= Len(argv)
  /\ WithPlugin \/ ListPlugins \/ Switch \/ Valued \/ Positional
  /\ UNCHANGED <<env, argv, config, template, helper, runs, origin, floor>>

ConfigOf(p, e) ==
  LET reverse == p.reverse \/ e.reverse IN
  [start |-> RangeOf(p.first)[1], end |-> RangeOf(p.first)[2],
   threads |-> ThreadsFor(e),
   reverse |-> reverse,
   sequential |-> reverse \/ p.sequential \/ e.sequential,
   window |-> p.window,
   enabled |-> Enabled(e),
   spawn |-> SpawnAllowed(e) /\ Enabled(e),
   plugins |-> IF p.none THEN <<>> ELSE IF p.plugins = <<>> THEN <<"program-tracking">> ELSE p.plugins,
   tui |-> p.tui,
   dsn |-> IF p.dsn # NoWord THEN p.dsn ELSE IF e.dsn # NoWord THEN e.dsn ELSE LocalDsn]

Conflict == parsed.none /\ parsed.plugins # <<>>
Panics == parsed.first = NoWord \/ (RangePanics(parsed.first) /\ ~Conflict)
Rejected == Conflict \/ RangeError(parsed.first) \/ ~WindowOk(parsed.window)

\* The arguments are read: the template is set before the range is parsed.
Configure ==
  /\ Reading /\ at > Len(argv)
  /\ template' = IF parsed.first = NoWord \/ Conflict THEN template ELSE TemplateOf(argv, parsed.first)
  /\ IF Rejected \/ Panics
     THEN /\ outcome' = IF Panics THEN "panicked" ELSE "error"
          /\ UNCHANGED <<config, origin>>
     ELSE /\ outcome' = "configured"
          /\ config' = ConfigOf(parsed, env)
          /\ origin' = IF runs = 1 THEN ConfigOf(parsed, env) ELSE origin
  /\ UNCHANGED <<env, argv, at, parsed, helper, runs, floor>>

-----------------------------------------------------------------------------
(* The run.                                                                *)

\* JetstreamerRunner::run.  (Mutant: the helper is spawned for any DSN.)
SpawnsHelper_AnyDsn(c) == c.enabled /\ c.dsn.text # "" /\ c.spawn
SpawnsHelper(c) == c.enabled /\ c.dsn.text # "" /\ c.spawn /\ ShouldSpawnFor(c.dsn)

Start ==
  /\ outcome = "configured"
  /\ helper' = SpawnsHelper(config)
  /\ outcome' = "running"
  /\ UNCHANGED <<env, argv, at, parsed, config, template, runs, origin, floor>>

\* A write fails to its horizon: the command is printed with the floor.
Abort ==
  /\ outcome = "running" /\ config.enabled
  /\ \E f \in config.start .. config.end - 1 :
       /\ floor' = f
       /\ argv' = ResumeCommand(template, f, config.end)
  /\ outcome' = "aborted"
  /\ UNCHANGED <<env, at, parsed, config, template, helper, runs, origin>>

\* The user runs what was printed.
Resume ==
  /\ outcome = "aborted" /\ runs < MaxRuns
  /\ outcome' = "reading" /\ runs' = runs + 1
  /\ at' = 1 /\ parsed' = Blank
  /\ config' = NoConfig /\ template' = <<>> /\ helper' = FALSE
  /\ UNCHANGED <<env, argv, origin, floor>>

Over ==
  /\ outcome \in {"listed", "error", "panicked", "running", "aborted"}
  /\ UNCHANGED vars

Next == ReadArg \/ Configure \/ Start \/ Abort \/ Resume \/ Over

Spec == Init /\ [][Next]_vars

-----------------------------------------------------------------------------
(* Properties.                                                             *)

Outcomes == {"reading", "listed", "error", "panicked", "configured", "running", "aborted"}

\* Every variable keeps its type; only built-in plugins are asked for.
TypeOK ==
  /\ env \in Envs /\ at \in 1 .. Len(argv) + 2 /\ outcome \in Outcomes
  /\ \A i \in DOMAIN parsed.plugins : parsed.plugins[i] \in Builtins
  /\ helper \in BOOLEAN /\ runs \in 1 .. MaxRuns /\ floor \in Nat

\* metrics.rs:76 "an accurate resume command": a resumed run has every setting of
\* the first one but the slots below the floor, however often it is resumed.
ResumeKeepsConfig ==
  outcome \in {"configured", "running", "aborted"} /\ runs > 1
    => config = [origin EXCEPT !.start = config.start]
       /\ (outcome # "aborted" => config.start = floor)

\* The command of an aborted run is one the parser accepts, whatever value equals
\* whatever range.
ResumeAccepted == runs > 1 => outcome \notin {"listed", "error", "panicked"}

\* lib.rs:102 "Helper spawning only occurs when both the mode allows it
\* (`auto`/`local`) and the DSN points to `localhost`": of the DSN the run really
\* uses, whichever of the environment and the flag it came from.
HelperAllowed == helper => env.mode \notin {"off", "remote"} /\ config.dsn.local

\* system.rs:18 "The returned thread count is always in the inclusive range
\* `[1, num_cpu_cores * 4]`".
ThreadsInRange ==
  outcome \in {"configured", "running"} /\ env.threads = -1
    => config.threads \in 1 .. 4 * env.cores

\* system.rs:16 `min(num_cpu_cores * 4, network_interface_bandwidth_capacity_megabytes / 285)`
\* (Does not hold: README, Disagreements.)
ThreadsBySizing ==
  outcome \in {"configured", "running"} /\ env.threads = -1 /\ env.capacity >= 285
    => config.threads = IF env.capacity \div 285 < 4 * env.cores
                        THEN env.capacity \div 285 ELSE 4 * env.cores

\* lib.rs:435 "slot range must have a strictly increasing upper bound": no run
\* starts with a range that is not.
\* (Does not hold: README, Disagreements.)
RangeIncreases == outcome = "running" => config.start < config.end
=============================================================================
