---------------------------- MODULE PluginTallies ----------------------------
(***************************************************************************)
(* What the three built-in plugins and the runner count of the             *)
(* transactions of a slot: program_tracking.rs (calls and compute units of *)
(* each program), instruction_tracking.rs (vote and other instructions),   *)
(* pubkey_stats.rs (mentions of each key) and the vote tally of            *)
(* jetstreamer-plugin/src/lib.rs.  Each keeps a map by slot, filled by the *)
(* transaction callback, taken by the block callback, drained at the exit. *)
(* The rows end in four tables that are joined by slot.                    *)
(*                                                                         *)
(* A callback passes a transaction or a block to one plugin after the      *)
(* other, and other threads and Ctrl-C come between.  How the rows get     *)
(* into the tables is the subject of PluginWrites.                         *)
(***************************************************************************)
EXTENDS Integers, Sequences, FiniteSetsExt

CONSTANTS
  Threads,
  Feed,     \* the slots each thread reports, in order
  Skipped,  \* the slots without a block
  Shapes,   \* the transactions there are
  Vote,     \* the vote program's key
  MaxTxs    \* bound: transactions in a block

Slots == UNION {{Feed[t][i] : i \in DOMAIN Feed[t]} : t \in Threads}

\* No slot is reported twice.
FeedAssumption ==
  /\ \A t \in Threads : Feed[t] \in Seq(Nat)
  /\ \A t, u \in Threads : \A i \in DOMAIN Feed[t], j \in DOMAIN Feed[u] :
       Feed[t][i] = Feed[u][j] => t = u /\ i = j
SkippedAssumption == Skipped \subseteq Slots /\ MaxTxs \in Nat

\* A message is sanitized: its own instructions name static keys; an inner one
\* may name a key that was loaded from a lookup table.
ShapesAssumption ==
  \A tx \in Shapes :
    /\ tx.keys \in Seq(STRING) /\ tx.keys # <<>> /\ tx.cu \in Nat
    /\ tx.outer \in Seq(Nat) /\ tx.inner \in Seq(Nat)
    /\ \A i \in DOMAIN tx.outer : tx.outer[i] \in DOMAIN tx.keys
    /\ \A i \in DOMAIN tx.inner : tx.inner[i] \in 1 .. Len(tx.keys) + Len(tx.loaded)

VARIABLES
  phase,     \* "streaming", "exiting", "done"
  shutting,  \* shutting_down
  at,        \* the slot each thread reports, an index of its feed
  call,      \* the callback of each thread and the plugin it is at
  tally,     \* SLOT_TX_TALLY
  programs, instructions, mentions,  \* the PENDING_BY_SLOT of each plugin
  rows,      \* the rows each plugin has handed to a write, by slot
  status,    \* the rows handed to the write of jetstreamer_slot_status
  given      \* history: the transactions the plugins were given, by slot

pending == <<programs, instructions, mentions>>
vars == <<phase, shutting, at, call, tally, pending, rows, status, given>>

Plugins == 1 .. 3
Idle == [of |-> "none"]
NoTally == [votes |-> 0, others |-> 0]
NoEvent == [voteInstr |-> 0, otherInstr |-> 0, voteTxs |-> 0, otherTxs |-> 0]
Nothing == [k \in {} |-> 0]

Init ==
  /\ phase = "streaming" /\ shutting = FALSE
  /\ at = [t \in Threads |-> 1]
  /\ call = [t \in Threads |-> Idle]
  /\ tally = [s \in Slots |-> NoTally]
  /\ programs = [s \in Slots |-> Nothing]
  /\ instructions = [s \in Slots |-> NoEvent]
  /\ mentions = [s \in Slots |-> Nothing]
  /\ rows = [p \in Plugins |-> [s \in Slots |-> {}]]
  /\ status = [s \in Slots |-> {}]
  /\ given = [s \in Slots |-> <<>>]

-----------------------------------------------------------------------------
(* One transaction.                                                        *)

\* is_simple_vote_transaction
IsVote(tx) ==
  /\ tx.legacy /\ tx.signatures \in 1 .. 2
  /\ Len(tx.outer) = 1
  /\ tx.outer[1] \in DOMAIN tx.keys /\ tx.keys[tx.outer[1]] = Vote

\* The instructions whose program is a static key.
Resolved(tx) == {i \in DOMAIN tx.outer : tx.outer[i] \in DOMAIN tx.keys}
ProgramOf(tx, i) == tx.keys[tx.outer[i]]

\* Each call is charged an equal part.  (Mutant: all of it.)
Share_Whole(tx) == tx.cu
Share(tx) == tx.cu \div Cardinality(Resolved(tx))

\* The keys of the program events.
Touched(tx) == {<<ProgramOf(tx, i), IsVote(tx)>> : i \in Resolved(tx)}
CallsOf(tx, key) == Cardinality({i \in Resolved(tx) : <<ProgramOf(tx, i), IsVote(tx)>> = key})

FreshEvent == [count |-> 0, errors |-> 0, least |-> -1, most |-> 0, total |-> 0]

\* The event of a program after n calls of a transaction.  (Mutant: a failed
\* transaction is one error.)
Bump_ErrorOnce(e, tx, n) ==
  [count |-> e.count + n,
   errors |-> IF tx.errored THEN e.errors + 1 ELSE e.errors,
   least |-> IF e.least = -1 \/ Share(tx) < e.least THEN Share(tx) ELSE e.least,
   most |-> IF Share(tx) > e.most THEN Share(tx) ELSE e.most,
   total |-> e.total + n * Share(tx)]
Bump(e, tx, n) ==
  [count |-> e.count + n,
   errors |-> IF tx.errored THEN e.errors + n ELSE e.errors,
   least |-> IF e.least = -1 \/ Share(tx) < e.least THEN Share(tx) ELSE e.least,
   most |-> IF Share(tx) > e.most THEN Share(tx) ELSE e.most,
   total |-> e.total + n * Share(tx)]

AddPrograms(entry, tx) ==
  [k \in DOMAIN entry \cup Touched(tx) |->
     LET e == IF k \in DOMAIN entry THEN entry[k] ELSE FreshEvent
     IN IF k \in Touched(tx) THEN Bump(e, tx, CallsOf(tx, k)) ELSE e]

\* instruction_vote_counts: inner ones too, by the static keys.  (Mutant: only those.)
All_Inner(tx) == tx.inner
All(tx) == tx.outer \o tx.inner
IsVoteInstr(tx, i) == All(tx)[i] \in DOMAIN tx.keys /\ tx.keys[All(tx)[i]] = Vote

VoteInstrs(tx) == Cardinality({i \in DOMAIN All(tx) : IsVoteInstr(tx, i)})
OtherInstrs(tx) == Cardinality({i \in DOMAIN All(tx) : ~IsVoteInstr(tx, i)})

AddInstructions(e, tx) ==
  [voteInstr |-> e.voteInstr + VoteInstrs(tx),
   otherInstr |-> e.otherInstr + OtherInstrs(tx),
   voteTxs |-> IF VoteInstrs(tx) > 0 THEN e.voteTxs + 1 ELSE e.voteTxs,
   otherTxs |-> IF VoteInstrs(tx) > 0 THEN e.otherTxs ELSE e.otherTxs + 1]

MentionsIn(tx, key) == Cardinality({i \in DOMAIN tx.keys : tx.keys[i] = key})
AddMentions(entry, tx) ==
  [k \in DOMAIN entry \cup {tx.keys[i] : i \in DOMAIN tx.keys} |->
     (IF k \in DOMAIN entry THEN entry[k] ELSE 0) + MentionsIn(tx, k)]

AddTally(e, tx) ==
  IF IsVote(tx) THEN [e EXCEPT !.votes = @ + 1] ELSE [e EXCEPT !.others = @ + 1]

-----------------------------------------------------------------------------
(* The callbacks.                                                          *)

Slot(t) == Feed[t][at[t]]
Streaming(t) == phase = "streaming" /\ at[t] <= Len(Feed[t])
Do(t, c) == call' = [call EXCEPT ![t] = c]

\* Whether a callback gives up: it looks once, before the first plugin.
\* (Mutant: before each plugin.)
Ignoring_EachPlugin(plugin) == shutting
Ignoring(plugin) == plugin = 1 /\ shutting

\* The transaction is tallied before anything else.
Receive(t) ==
  \E tx \in Shapes :
    /\ Streaming(t) /\ call[t].of = "none"
    /\ Slot(t) \notin Skipped
    /\ tally[Slot(t)].votes + tally[Slot(t)].others < MaxTxs
    /\ tally' = [tally EXCEPT ![Slot(t)] = AddTally(@, tx)]
    /\ Do(t, [of |-> "transaction", tx |-> tx, plugin |-> 1])
    /\ UNCHANGED <<phase, shutting, at, pending, rows, status, given>>

\* One plugin's on_transaction.
OnTransaction(t) ==
  LET c == call[t]
      s == Slot(t)
  IN
  /\ phase = "streaming" /\ c.of = "transaction"
  /\ IF Ignoring(c.plugin)
     THEN Do(t, Idle) /\ UNCHANGED <<pending, given>>
     ELSE /\ Do(t, IF c.plugin = 3 THEN Idle ELSE [c EXCEPT !.plugin = @ + 1])
          /\ given' = IF c.plugin = 1 THEN [given EXCEPT ![s] = Append(@, c.tx)] ELSE given
          /\ programs' = IF c.plugin = 1 THEN [programs EXCEPT ![s] = AddPrograms(@, c.tx)] ELSE programs
          /\ instructions' = IF c.plugin = 2 THEN [instructions EXCEPT ![s] = AddInstructions(@, c.tx)]
                                             ELSE instructions
          /\ mentions' = IF c.plugin = 3 THEN [mentions EXCEPT ![s] = AddMentions(@, c.tx)] ELSE mentions
  /\ UNCHANGED <<phase, shutting, at, tally, rows, status>>

\* The firehose reports the block, or that there is none.
Close(t) ==
  /\ Streaming(t) /\ call[t].of = "none"
  /\ Do(t, [of |-> "block", plugin |-> 1])
  /\ UNCHANGED <<phase, shutting, at, tally, pending, rows, status, given>>

\* The rows a plugin has of a slot: one, or none.
ProgramRows(s) == {programs[s]} \ {Nothing}
InstructionRows(s) == {instructions[s]} \ {NoEvent}
MentionRows(s) == {mentions[s]} \ {Nothing}

Row(dated, body) == [dated |-> dated, body |-> body]
Hand(plugin, s, bodies) ==
  rows' = [rows EXCEPT ![plugin][s] = @ \cup {Row(TRUE, b) : b \in bodies}]

\* on_block of each plugin takes the slot's entry.
BlockPrograms(s) ==
  /\ Hand(1, s, ProgramRows(s))
  /\ programs' = [programs EXCEPT ![s] = Nothing]
  /\ UNCHANGED <<instructions, mentions>>

\* (Mutant: the entry stays.)
BlockInstructions_Kept(s) == Hand(2, s, InstructionRows(s)) /\ UNCHANGED pending
BlockInstructions(s) ==
  /\ Hand(2, s, InstructionRows(s))
  /\ instructions' = [instructions EXCEPT ![s] = NoEvent]
  /\ UNCHANGED <<programs, mentions>>

BlockMentions(s) ==
  /\ Hand(3, s, MentionRows(s))
  /\ mentions' = [mentions EXCEPT ![s] = Nothing]
  /\ UNCHANGED <<programs, instructions>>

\* The runner passes the block on; behind the last plugin the tally becomes the status.
OnBlock(t) ==
  LET c == call[t]
      s == Slot(t)
  IN
  /\ phase = "streaming" /\ c.of = "block" /\ c.plugin \in Plugins
  /\ IF Ignoring(c.plugin)
     THEN Do(t, [c EXCEPT !.plugin = 5]) /\ UNCHANGED <<pending, rows>>
     ELSE /\ Do(t, [c EXCEPT !.plugin = @ + 1])
          /\ \/ s \in Skipped /\ UNCHANGED <<pending, rows>>
             \/ s \notin Skipped /\ c.plugin = 1 /\ BlockPrograms(s)
             \/ s \notin Skipped /\ c.plugin = 2 /\ BlockInstructions(s)
             \/ s \notin Skipped /\ c.plugin = 3 /\ BlockMentions(s)
  /\ UNCHANGED <<phase, shutting, at, tally, status, given>>

OnStatus(t) ==
  LET s == Slot(t) IN
  /\ phase = "streaming" /\ call[t].of = "block" /\ call[t].plugin = 4
  /\ status' = IF s \in Skipped THEN status ELSE [status EXCEPT ![s] = @ \cup {tally[s]}]
  /\ tally' = [tally EXCEPT ![s] = NoTally]
  /\ Do(t, [call[t] EXCEPT !.plugin = 5])
  /\ UNCHANGED <<phase, shutting, at, pending, rows, given>>

Return(t) ==
  /\ phase = "streaming" /\ call[t].of = "block" /\ call[t].plugin = 5
  /\ at' = [at EXCEPT ![t] = @ + 1]
  /\ Do(t, Idle)
  /\ UNCHANGED <<phase, shutting, tally, pending, rows, status, given>>

CtrlC ==
  /\ phase = "streaming" /\ ~shutting
  /\ shutting' = TRUE
  /\ UNCHANGED <<phase, at, call, tally, pending, rows, status, given>>

\* The firehose is over, or Ctrl-C has stopped its threads between callbacks.
StreamsEnd ==
  /\ phase = "streaming"
  /\ \A t \in Threads : call[t].of = "none" /\ (shutting \/ at[t] > Len(Feed[t]))
  /\ phase' = "exiting"
  /\ UNCHANGED <<shutting, at, call, tally, pending, rows, status, given>>

\* drain_all_pending of each plugin.  (Mutant: a plugin does not drain.)
DrainPrograms(s) == {Row(FALSE, b) : b \in ProgramRows(s)}
DrainInstructions(s) == {Row(FALSE, b) : b \in InstructionRows(s)}
DrainMentions_Nothing(s) == {}
DrainMentions(s) == {Row(FALSE, b) : b \in MentionRows(s)}

\* on_exit of every plugin: what is pending is written without a time.
OnExit ==
  /\ phase = "exiting"
  /\ rows' = <<[s \in Slots |-> rows[1][s] \cup DrainPrograms(s)],
               [s \in Slots |-> rows[2][s] \cup DrainInstructions(s)],
               [s \in Slots |-> rows[3][s] \cup DrainMentions(s)]>>
  /\ programs' = [s \in Slots |-> Nothing]
  /\ instructions' = [s \in Slots |-> NoEvent]
  /\ mentions' = [s \in Slots |-> Nothing]
  /\ phase' = "done"
  /\ UNCHANGED <<shutting, at, call, tally, status, given>>

Over == phase = "done" /\ UNCHANGED vars

Next ==
  \/ \E t \in Threads :
       Receive(t) \/ OnTransaction(t) \/ Close(t) \/ OnBlock(t) \/ OnStatus(t) \/ Return(t)
  \/ CtrlC \/ StreamsEnd \/ OnExit
  \/ Over

Spec == Init /\ [][Next]_vars

-----------------------------------------------------------------------------
(* Properties.                                                             *)

\* Every variable keeps its type; no slot has two statuses or two rows of a plugin.
TypeOK ==
  /\ phase \in {"streaming", "exiting", "done"} /\ shutting \in BOOLEAN
  /\ \A t \in Threads : at[t] \in 1 .. Len(Feed[t]) + 1
  /\ \A t \in Threads : call[t].of \in {"none", "transaction", "block"}
  /\ tally \in [Slots -> [votes : Nat, others : Nat]]
  /\ instructions \in [Slots -> [voteInstr : Nat, otherInstr : Nat, voteTxs : Nat, otherTxs : Nat]]
  /\ \A p \in Plugins : \A s \in Slots : Cardinality(rows[p][s]) <= 1
  /\ \A s \in Slots : Cardinality(status[s]) <= 1
  /\ given \in [Slots -> UNION {[1 .. n -> Shapes] : n \in 0 .. MaxTxs}]

Total(q, Of(_)) == MapThenSumSet(LAMBDA i : Of(q[i]), DOMAIN q)

\* What a row of each plugin should say of the transactions q.
Callers(q, k) == {i \in DOMAIN q : k \in Touched(q[i])}
ProgramRow(q) ==
  [k \in UNION {{<<ProgramOf(q[i], j), IsVote(q[i])>> : j \in DOMAIN q[i].outer} : i \in DOMAIN q} |->
     [count |-> Total(q, LAMBDA tx : CallsOf(tx, k)),
      errors |-> Total(q, LAMBDA tx : IF tx.errored THEN CallsOf(tx, k) ELSE 0),
      least |-> Min({Share(q[i]) : i \in Callers(q, k)}),
      most |-> Max({Share(q[i]) : i \in Callers(q, k)}),
      total |-> Total(q, LAMBDA tx : IF CallsOf(tx, k) > 0 THEN CallsOf(tx, k) * Share(tx) ELSE 0)]]

Instructions(tx) == Len(tx.outer) + Len(tx.inner)
Body(p, s) == {r.body : r \in rows[p][s]}

\* program_invocations has, for every program and vote flag, the calls, the failed
\* calls and the least, greatest and total charge over exactly the transactions
\* of the slot that the plugin was given.
ProgramRowsExact == \A s \in Slots : \A b \in Body(1, s) : b = ProgramRow(given[s])

\* The charges of a slot's programs add up to the compute units its transactions
\* consumed, short of what an equal division among the calls leaves over.
ComputeConserved ==
  \A s \in Slots : \A b \in Body(1, s) :
    LET charged == MapThenSumSet(LAMBDA k : b[k].total, DOMAIN b)
        consumed == Total(given[s], LAMBDA tx : IF tx.outer = <<>> THEN 0 ELSE tx.cu)
        slack == Total(given[s], LAMBDA tx : IF tx.outer = <<>> THEN 0 ELSE Len(tx.outer) - 1)
    IN charged <= consumed /\ consumed <= charged + slack

\* The rows of a slot in the plugins' tables describe the same transactions: all
\* of those the plugins were given, none twice, whether the block was reported
\* or Ctrl-C stopped the run in the middle of it.
EveryTransaction ==
  \A s \in Slots :
    /\ \A b \in Body(2, s) : b.voteTxs + b.otherTxs = Len(given[s])
    /\ phase = "done" /\ given[s] # <<>> => Body(2, s) # {} /\ Body(3, s) # {}
EveryCall ==
  \A s \in Slots :
    /\ \A b \in Body(2, s) : b.voteInstr + b.otherInstr = Total(given[s], Instructions)
    /\ \A b \in Body(3, s) :
         MapThenSumSet(LAMBDA k : b[k], DOMAIN b) = Total(given[s], LAMBDA tx : Len(tx.keys))
SameTransactions == EveryTransaction /\ EveryCall

\* A slot has rows with a block time in every table or in none: a shutdown does
\* not come between the plugins of one callback.
DatedTogether ==
  \A s \in Slots : phase = "done" =>
    \A p, q \in Plugins :
      {r.dated : r \in rows[p][s]} = {r.dated : r \in rows[q][s]} \/ Body(p, s) = {} \/ Body(q, s) = {}

\* The status of a slot counts the transactions its dated rows count, and its votes
\* are among those with a vote instruction.
StatusAgrees ==
  \A s \in Slots : \A st \in status[s] : \A r \in rows[2][s] :
    /\ r.dated
    /\ st.votes + st.others = r.body.voteTxs + r.body.otherTxs
    /\ st.votes <= r.body.voteTxs

\* pubkey_stats.rs:30 "all account keys referenced in the message (both static and
\* loaded) are counted".
\* (Does not hold: README, Disagreements.)
LoadedKeysCounted ==
  \A s \in Slots : \A b \in Body(3, s) :
    \A i \in DOMAIN given[s] :
      \A j \in DOMAIN given[s][i].loaded : given[s][i].loaded[j] \in DOMAIN b
=============================================================================
