----------------------------- MODULE RunnerProofs -----------------------------
(***************************************************************************)
(* Proofs about the runner and what it starts.                             *)
(*                                                                         *)
(* PluginTallies, for every feed, set of skipped slots, set of             *)
(* transactions and interleaving of the callbacks with Ctrl-C: the rows of *)
(* a slot count the transactions the plugins were given, each once         *)
(* (NoTransactionLost), agree on the block time (RowsDatedTogether) and    *)
(* with the slot's status (StatusMatchesRows).                             *)
(*                                                                         *)
(* ClickHouseHelper, for every set of runs and faults: a run that ends     *)
(* leaves no server (RunsLeaveNothing), a stop reaches it (StopsReachServer), *)
(* a start that fails has made room for the next one (FailedStartsClear),  *)
(* and only what an earlier run left is killed (OrphansOnlyKilled).        *)
(***************************************************************************)
EXTENDS PluginTallies, FiniteSetTheorems, TLAPS

CONSTANTS Runs, Host, Overlap, Prompt, Faults
VARIABLES helperPhase, server, lines, monitor, other, sent, task, cell

Helper == INSTANCE ClickHouseHelper WITH phase <- helperPhase

-----------------------------------------------------------------------------
(* Types.                                                                  *)

TallyAssumption == FeedAssumption /\ SkippedAssumption /\ ShapesAssumption

TallyRecords == [votes : Nat, others : Nat]
Events == [voteInstr : Nat, otherInstr : Nat, voteTxs : Nat, otherTxs : Nat]
Calls ==
  {Idle} \cup [of : {"transaction"}, tx : Shapes, plugin : Plugins] \cup [of : {"block"}, plugin : 1 .. 5]
SlotRows == {Row(d, b) : d \in BOOLEAN, b \in Events}

Types ==
  /\ phase \in {"streaming", "exiting", "done"} /\ shutting \in BOOLEAN
  /\ at \in [Threads -> Nat] /\ \A t \in Threads : at[t] \in 1 .. Len(Feed[t]) + 1
  /\ call \in [Threads -> Calls]
  /\ tally \in [Slots -> TallyRecords]
  /\ programs = [s \in Slots |-> programs[s]]
  /\ instructions \in [Slots -> Events]
  /\ mentions = [s \in Slots |-> mentions[s]]
  /\ rows = [p \in Plugins |-> [s \in Slots |-> rows[p][s]]]
  /\ \A s \in Slots : rows[2][s] \subseteq SlotRows
  /\ status \in [Slots -> SUBSET TallyRecords]
  /\ given \in [Slots -> Seq(Shapes)]

-----------------------------------------------------------------------------
(* The slots.                                                              *)

Tallied(s) == tally[s].votes + tally[s].others
Counted(s) == instructions[s].voteTxs + instructions[s].otherTxs

\* The transactions b counts are those of the tally e.
Agrees(e, b) == e.votes + e.others = b.voteTxs + b.otherTxs /\ e.votes <= b.voteTxs

Dated(s) == \A p \in Plugins : \A r \in rows[p][s] : r.dated
Rowed(s) == given[s] # <<>> => rows[2][s] # {} /\ rows[3][s] # {}
Clean(s) == (\A p \in Plugins : rows[p][s] = {}) /\ status[s] = {}
Empty(s) == programs[s] = Nothing /\ instructions[s] = NoEvent /\ mentions[s] = Nothing

\* What is so of a slot at any time: one row of each plugin, dated alike, and a status
\* that counts the transactions of the rows.
Sound(s) ==
  /\ \A p \in Plugins : \A r, q \in rows[p][s] : r = q
  /\ \E d \in BOOLEAN : \A p \in Plugins : \A r \in rows[p][s] : r.dated = d
  /\ \A r \in rows[2][s] : r.body.voteTxs + r.body.otherTxs = Len(given[s])
  /\ \A e \in status[s] : \A r \in rows[2][s] : r.dated /\ Agrees(e, r.body)
  /\ \A e, f \in status[s] : e = f
  /\ given[s] = <<>> => Empty(s)
  /\ s \in Skipped => given[s] = <<>>
  /\ Len(given[s]) <= MaxTxs

\* A slot that no callback has reached; one whose counts are still pending, of every
\* transaction given; one whose rows have been handed over; one with no callback at work.
Unseen(s) == given[s] = <<>> /\ tally[s] = NoTally /\ Clean(s)
Kept(s) == Clean(s) /\ Counted(s) = Len(given[s]) /\ (given[s] # <<>> => mentions[s] # Nothing)
Taken(s) == Empty(s) /\ Dated(s) /\ Rowed(s)
Settled(s) == Kept(s) \/ Taken(s)

Waiting(s) ==
  Kept(s) /\ Len(given[s]) <= Tallied(s) /\ Tallied(s) <= MaxTxs /\ (~shutting => Agrees(tally[s], instructions[s]))

\* In the middle of a callback: what the plugins before this one have already done.
One(b) == IF b THEN 1 ELSE 0
InTransaction(s, tx, plugin) ==
  /\ Clean(s) /\ s \notin Skipped
  /\ Len(given[s]) + One(plugin = 1) <= Tallied(s) /\ Tallied(s) <= MaxTxs
  /\ Len(given[s]) = Counted(s) + One(plugin = 2) /\ Len(given[s]) >= One(plugin # 1)
  /\ Len(given[s]) > One(plugin # 1) => mentions[s] # Nothing
  /\ ~shutting =>
       /\ Tallied(s) = Counted(s) + One(plugin # 3)
       /\ tally[s].votes <= instructions[s].voteTxs + One(plugin # 3 /\ IsVote(tx))

InBlock(s, plugin) ==
  /\ status[s] = {} /\ programs[s] = Nothing /\ Dated(s)
  /\ IF plugin = 2
     THEN rows[2][s] = {} /\ Counted(s) = Len(given[s]) /\ Agrees(tally[s], instructions[s])
     ELSE /\ instructions[s] = NoEvent
          /\ given[s] # <<>> => rows[2][s] # {}
          /\ \A r \in rows[2][s] : Agrees(tally[s], r.body)
  /\ IF plugin = 4
     THEN mentions[s] = Nothing /\ (given[s] # <<>> => rows[3][s] # {})
     ELSE rows[3][s] = {} /\ (given[s] # <<>> => mentions[s] # Nothing)

\* The slot s of a thread whose call is c.
Calling(s, c) ==
  /\ c.of = "none" => Waiting(s)
  /\ c.of = "transaction" => InTransaction(s, c.tx, c.plugin)
  /\ c.of = "block" =>
       CASE c.plugin = 1 -> Waiting(s)
         [] c.plugin = 5 -> Settled(s)
         [] OTHER -> InBlock(s, c.plugin)

Stage(t, i) ==
  LET s == Feed[t][i] IN
  /\ i > at[t] => Unseen(s)
  /\ i < at[t] => Settled(s)
  /\ i = at[t] => Calling(s, call[t])


\* The slots behind a thread are settled, those ahead of it have not been seen, and the
\* slot it reports is as far as its callback; at the exit all are settled.
TallyInv ==
  /\ TallyAssumption /\ Types
  /\ \A s \in Slots : Sound(s)
  /\ phase = "streaming" =>
       \A t \in Threads : call[t].of # "none" => at[t] <= Len(Feed[t])
  /\ phase = "streaming" => \A t \in Threads : \A i \in DOMAIN Feed[t] : Stage(t, i)
  /\ phase = "exiting" => \A s \in Slots : Settled(s)
  /\ phase = "done" => \A s \in Slots : Rowed(s)

LEMMA NoEventIs == NoEvent \in Events /\ NoEvent.voteTxs = 0 /\ NoEvent.otherTxs = 0
  BY DEF NoEvent, Events

LEMMA NoTallyIs == NoTally \in TallyRecords /\ NoTally.votes = 0 /\ NoTally.others = 0
  BY DEF NoTally, TallyRecords

LEMMA IdleIs == Idle.of = "none" /\ Idle \in Calls
  BY DEF Idle, Calls

LEMMA FeedIs ==
  ASSUME TallyAssumption, NEW t \in Threads
  PROVE  /\ Len(Feed[t]) \in Nat /\ DOMAIN Feed[t] = 1 .. Len(Feed[t])
         /\ \A i \in DOMAIN Feed[t] : Feed[t][i] \in Slots
<1>1. Feed[t] \in Seq(Nat)
  BY DEF TallyAssumption, FeedAssumption
<1>. QED  BY <1>1 DEF Slots

LEMMA TalliesStart == TallyAssumption /\ Init => TallyInv
<1> SUFFICES ASSUME TallyAssumption, Init PROVE TallyInv
  OBVIOUS
<1>1. Types
  <2>1. \A t \in Threads : 1 \in 1 .. Len(Feed[t]) + 1
    BY FeedIs
  <2>2. /\ rows = [p \in Plugins |-> [s \in Slots |-> rows[p][s]]]
        /\ \A s \in Slots : rows[2][s] \subseteq SlotRows
    BY DEF Init, Plugins
  <2>3. /\ programs = [s \in Slots |-> programs[s]] /\ mentions = [s \in Slots |-> mentions[s]]
        /\ instructions \in [Slots -> Events] /\ tally \in [Slots -> TallyRecords]
    BY NoEventIs, NoTallyIs DEF Init
  <2>4. given \in [Slots -> Seq(Shapes)] /\ status \in [Slots -> SUBSET TallyRecords]
    BY DEF Init
  <2>5. /\ phase \in {"streaming", "exiting", "done"} /\ shutting \in BOOLEAN
        /\ at \in [Threads -> Nat] /\ \A t \in Threads : at[t] \in 1 .. Len(Feed[t]) + 1
        /\ call \in [Threads -> Calls]
    BY <2>1, IdleIs DEF Init
  <2>. QED  BY <2>2, <2>3, <2>4, <2>5 DEF Types
<1>2. ASSUME NEW s \in Slots PROVE Sound(s) /\ Unseen(s) /\ Waiting(s)
  <2>1. MaxTxs \in Nat /\ Len(<<>>) = 0
    BY DEF TallyAssumption, SkippedAssumption
  <2>2. \A p \in Plugins : rows[p][s] = {}
    BY DEF Init
  <2>3. 2 \in Plugins
    BY DEF Plugins
  <2>4. Sound(s)
    <3>1. \E d \in BOOLEAN : \A p \in Plugins : \A r \in rows[p][s] : r.dated = d
      BY <2>2
    <3>2. status[s] = {} /\ given[s] = <<>> /\ rows[2][s] = {} /\ Empty(s)
      BY <2>2, <2>3 DEF Init, Empty
    <3>. QED  BY <2>1, <2>2, <3>1, <3>2 DEF Sound
  <2>. QED  BY <2>1, <2>2, <2>4, NoEventIs, NoTallyIs
            DEF Init, Unseen, Waiting, Kept, Clean, Agrees, Tallied, Counted
<1>3. ASSUME NEW t \in Threads, NEW i \in DOMAIN Feed[t] PROVE Stage(t, i)
  <2>1. Unseen(Feed[t][i]) /\ Waiting(Feed[t][i])
    BY <1>2, FeedIs
  <2>2. i >= 1
    BY FeedIs
  <2>3. at[t] = 1 /\ call[t] = Idle
    BY DEF Init
  <2>4. Calling(Feed[t][i], call[t])
    BY <2>1, <2>3, IdleIs DEF Calling
  <2>5. i \in Nat
    BY FeedIs
  <2>. QED  BY <2>1, <2>2, <2>3, <2>4, <2>5 DEF Stage
<1>. QED  BY <1>1, <1>2, <1>3, IdleIs DEF TallyInv, Init

\* The slot s is left as it is.
SameAt(s) ==
  /\ tally'[s] = tally[s] /\ programs'[s] = programs[s]
  /\ instructions'[s] = instructions[s] /\ mentions'[s] = mentions[s]
  /\ \A p \in Plugins : rows'[p][s] = rows[p][s]
  /\ status'[s] = status[s] /\ given'[s] = given[s]

LEMMA SlotStays ==
  ASSUME NEW s, SameAt(s)
  PROVE  /\ Sound(s) => Sound(s)'
         /\ Unseen(s) => Unseen(s)'
         /\ Settled(s) => Settled(s)'
         /\ Rowed(s) => Rowed(s)'
<1>1. 2 \in Plugins /\ 3 \in Plugins
  BY DEF Plugins
<1>2. Sound(s) => Sound(s)'
  BY <1>1 DEF SameAt, Sound, Empty
<1>3. Unseen(s) => Unseen(s)'
  BY DEF SameAt, Unseen, Clean
<1>4. Rowed(s) => Rowed(s)'
  BY <1>1 DEF SameAt, Rowed
<1>5. Kept(s) => Kept(s)'
  BY DEF SameAt, Kept, Clean, Counted
<1>6. Empty(s) /\ Dated(s) => Empty(s)' /\ Dated(s)'
  BY DEF SameAt, Empty, Dated
<1>. QED  BY <1>2, <1>3, <1>4, <1>5, <1>6 DEF Settled, Taken

\* A call goes on as before when Ctrl-C comes.
LEMMA CallStays ==
  ASSUME NEW s, SameAt(s), NEW c, Calling(s, c), shutting => shutting'
  PROVE  Calling(s, c)'
<1>1. Kept(s)' <=> Kept(s)
  BY DEF SameAt, Kept, Clean, Counted
<1>2. Tallied(s)' = Tallied(s) /\ Counted(s)' = Counted(s) /\ Clean(s)' = Clean(s)
  BY DEF SameAt, Tallied, Counted, Clean
<1>3. Waiting(s) => Waiting(s)'
  BY <1>1, <1>2 DEF SameAt, Waiting, Agrees
<1>4. ASSUME NEW tx, NEW k, InTransaction(s, tx, k) PROVE InTransaction(s, tx, k)'
  BY <1>2, <1>4 DEF SameAt, InTransaction
<1>5. Dated(s)' = Dated(s)
  BY DEF SameAt, Dated
<1>6. 2 \in Plugins /\ 3 \in Plugins
  BY DEF Plugins
<1>7. ASSUME NEW k, InBlock(s, k) PROVE InBlock(s, k)'
  BY <1>2, <1>5, <1>6, <1>7 DEF SameAt, InBlock
<1>. QED  BY <1>3, <1>4, <1>7, SlotStays DEF Calling

\* Two places of the feeds are two slots.
LEMMA FeedOnce ==
  ASSUME TallyAssumption, NEW t \in Threads, NEW u \in Threads, NEW i \in DOMAIN Feed[t], NEW j \in DOMAIN Feed[u],
         Feed[t][i] = Feed[u][j]
  PROVE  t = u /\ i = j
  BY DEF TallyAssumption, FeedAssumption

\* A step of a thread touches the slot it reports.
LEMMA OneCallMoves ==
  ASSUME TallyInv, phase = "streaming", UNCHANGED <<phase, shutting, at>>, Types',
         NEW t \in Threads, at[t] <= Len(Feed[t]), NEW c \in Calls, call' = [call EXCEPT ![t] = c],
         NEW s, s = Slot(t), \A u \in Slots \ {s} : SameAt(u),
         Sound(s)', Calling(s, c)'
  PROVE  TallyInv'
<1>1. TallyAssumption /\ Types /\ at[t] \in DOMAIN Feed[t] /\ s \in Slots /\ at[t] \in Nat
  <2>1. TallyAssumption /\ Types
    BY DEF TallyInv
  <2>2. at[t] \in DOMAIN Feed[t]
    BY <2>1, FeedIs DEF Types
  <2>. QED  BY <2>1, <2>2, FeedIs DEF Slot, Types
<1>2. \A u \in Slots : Sound(u)'
  <2> SUFFICES ASSUME NEW u \in Slots, u # s PROVE Sound(u)'
    OBVIOUS
  <2>1. SameAt(u) /\ Sound(u)
    BY DEF TallyInv
  <2>. QED  BY <2>1, SlotStays
<1>3. ASSUME NEW u \in Threads PROVE call'[u] = IF u = t THEN c ELSE call[u]
  BY <1>1 DEF Types
<1>4. ASSUME NEW u \in Threads, call'[u].of # "none" PROVE at'[u] <= Len(Feed[u])
  BY <1>3, <1>4 DEF TallyInv
<1>5. ASSUME NEW u \in Threads, NEW i \in DOMAIN Feed[u] PROVE Stage(u, i)'
  <2>1. Stage(u, i) /\ Feed[u][i] \in Slots /\ i \in Nat /\ at[u] \in Nat /\ at'[u] = at[u]
    BY <1>1, FeedIs DEF TallyInv, Types
  <2>2. CASE u = t /\ i = at[t]
    <3>1. Feed[u][i] = s /\ call'[u] = c
      BY <1>3, <2>2 DEF Slot
    <3>. QED  BY <2>1, <2>2, <3>1 DEF Stage
  <2>3. CASE ~(u = t /\ i = at[t])
    <3>1. Feed[u][i] # s
      BY <1>1, <2>3, FeedOnce DEF Slot
    <3>2. SameAt(Feed[u][i])
      BY <2>1, <3>1
    <3>3. CASE i = at[u]
      <4>1. call'[u] = call[u] /\ Calling(Feed[u][i], call[u])
        BY <1>3, <2>1, <2>3, <3>3 DEF Stage
      <4>2. Calling(Feed[u][i], call[u])'
        BY <3>2, <4>1, CallStays
      <4>. QED  BY <2>1, <3>3, <4>1, <4>2 DEF Stage
    <3>4. CASE i # at[u]
      BY <2>1, <3>2, <3>4, SlotStays DEF Stage
    <3>. QED  BY <3>3, <3>4
  <2>. QED  BY <2>2, <2>3
<1>. QED  BY <1>1, <1>2, <1>4, <1>5 DEF TallyInv, TallyAssumption, FeedAssumption, SkippedAssumption, ShapesAssumption

\* Where a thread is.
LEMMA CallIs ==
  ASSUME TallyInv, phase = "streaming", NEW t \in Threads, at[t] <= Len(Feed[t]) \/ call[t].of # "none",
         NEW s, s = Slot(t)
  PROVE  /\ at[t] <= Len(Feed[t]) /\ s \in Slots /\ Types /\ Sound(s)
         /\ call[t] \in Calls /\ Calling(s, call[t])
         /\ tally[s] \in TallyRecords /\ instructions[s] \in Events
         /\ given[s] \in Seq(Shapes) /\ MaxTxs \in Nat
<1>1. at[t] <= Len(Feed[t]) /\ Types /\ TallyAssumption
  BY DEF TallyInv
<1>2. at[t] \in DOMAIN Feed[t]
  BY <1>1, FeedIs DEF Types
<1>3. s \in Slots
  BY <1>1, <1>2, FeedIs DEF Slot
<1>4. Stage(t, at[t])
  BY <1>2 DEF TallyInv
<1>5. Calling(s, call[t])
  BY <1>4 DEF Stage, Slot
<1>6. Sound(s)
  BY <1>3 DEF TallyInv
<1>. QED  BY <1>1, <1>3, <1>5, <1>6 DEF Types, TallyAssumption, SkippedAssumption

LEMMA AddTallyIs ==
  ASSUME NEW e \in TallyRecords, NEW tx
  PROVE  /\ AddTally(e, tx) \in TallyRecords
         /\ AddTally(e, tx).votes + AddTally(e, tx).others = e.votes + e.others + 1
         /\ AddTally(e, tx).votes = e.votes + One(IsVote(tx))
  BY DEF AddTally, TallyRecords, One

LEMMA ReceiveKeeps ==
  ASSUME TallyInv, NEW t \in Threads, NEW s, s = Slot(t), Receive(t)
  PROVE  TallyInv'
<1>1. PICK tx \in Shapes :
        /\ phase = "streaming" /\ at[t] <= Len(Feed[t]) /\ call[t].of = "none"
        /\ s \notin Skipped
        /\ tally[s].votes + tally[s].others < MaxTxs
        /\ tally' = [tally EXCEPT ![s] = AddTally(@, tx)]
        /\ call' = [call EXCEPT ![t] = [of |-> "transaction", tx |-> tx, plugin |-> 1]]
        /\ UNCHANGED <<phase, shutting, at, pending, rows, status, given>>
  BY DEF Receive, Streaming, Do
<1> DEFINE c == [of |-> "transaction", tx |-> tx, plugin |-> 1]
<1>2. c \in Calls
  BY DEF Calls, Plugins
<1>3. /\ s \in Slots /\ Types /\ Sound(s) /\ Waiting(s) /\ tally[s] \in TallyRecords
      /\ instructions[s] \in Events /\ given[s] \in Seq(Shapes) /\ MaxTxs \in Nat
  BY <1>1, CallIs DEF Calling
<1>4. /\ tally' \in [Slots -> TallyRecords]
      /\ \A u \in Slots \ {s} : tally'[u] = tally[u]
      /\ tally'[s] = AddTally(tally[s], tx)
  BY <1>1, <1>3, AddTallyIs DEF Types
<1>5. Types'
  BY <1>1, <1>2, <1>3, <1>4 DEF Types, pending
<1>6. \A u \in Slots \ {s} : SameAt(u)
  BY <1>1, <1>4 DEF SameAt, pending
<1>7. Sound(s)'
  BY <1>1, <1>3 DEF Sound, Empty, pending
<1>8. InTransaction(s, tx, 1)'
  <2>1. Clean(s)' /\ Counted(s)' = Counted(s) /\ given' = given /\ mentions' = mentions
    BY <1>1, <1>3 DEF Waiting, Kept, Clean, Counted, pending
  <2>2. Tallied(s)' = Tallied(s) + 1 /\ tally'[s].votes = tally[s].votes + One(IsVote(tx)) /\ Tallied(s) \in Nat
    <3>1. /\ AddTally(tally[s], tx).votes + AddTally(tally[s], tx).others = tally[s].votes + tally[s].others + 1
          /\ AddTally(tally[s], tx).votes = tally[s].votes + One(IsVote(tx))
      BY <1>3, AddTallyIs
    <3>2. tally[s].votes + tally[s].others \in Nat
      BY <1>3 DEF TallyRecords
    <3>. QED  BY <1>4, <3>1, <3>2 DEF Tallied
  <2>3. Len(given[s]) \in Nat /\ (given[s] # <<>> <=> Len(given[s]) > 0)
    BY <1>3
  <2>4. /\ One(1 = 1) = 1 /\ One(1 = 2) = 0 /\ One(1 # 1) = 0 /\ One(1 # 3) = 1
        /\ One(1 # 3 /\ IsVote(tx)) = One(IsVote(tx))
    BY DEF One
  <2>5. /\ Len(given[s]) <= Tallied(s) /\ Tallied(s) < MaxTxs /\ Counted(s) = Len(given[s])
        /\ ~shutting => Tallied(s) = Counted(s) /\ tally[s].votes <= instructions[s].voteTxs
        /\ given[s] # <<>> => mentions[s] # Nothing
    BY <1>1, <1>3 DEF Waiting, Kept, Agrees, Tallied, Counted
  <2>6. instructions[s].voteTxs \in Nat /\ tally[s].votes \in Nat /\ One(IsVote(tx)) \in {0, 1}
    BY <1>3 DEF Events, TallyRecords, One
  <2>7. Len(given'[s]) + 1 <= Tallied(s)' /\ Tallied(s)' <= MaxTxs /\ Len(given'[s]) = Counted(s)' + 0
    BY <1>1, <1>3, <2>1, <2>2, <2>3, <2>5
  <2>8. ~shutting' => /\ Tallied(s)' = Counted(s)' + 1
                      /\ tally'[s].votes <= instructions'[s].voteTxs + One(IsVote(tx))
    BY <1>1, <2>1, <2>2, <2>3, <2>5, <2>6 DEF pending
  <2>. QED  BY <1>1, <2>1, <2>3, <2>4, <2>5, <2>7, <2>8 DEF InTransaction
<1>9. Calling(s, c)'
  BY <1>8 DEF Calling
<1>. QED  BY <1>1, <1>2, <1>5, <1>6, <1>7, <1>9, OneCallMoves

LEMMA CloseKeeps ==
  ASSUME TallyInv, NEW t \in Threads, NEW s, s = Slot(t), Close(t)
  PROVE  TallyInv'
<1> DEFINE c == [of |-> "block", plugin |-> 1]
<1>1. /\ phase = "streaming" /\ at[t] <= Len(Feed[t]) /\ call[t].of = "none"
      /\ call' = [call EXCEPT ![t] = c]
      /\ UNCHANGED <<phase, shutting, at, tally, pending, rows, status, given>>
  BY DEF Close, Streaming, Do
<1>2. c \in Calls
  BY DEF Calls
<1>3. s \in Slots /\ Types /\ Sound(s) /\ Waiting(s)
  BY <1>1, CallIs DEF Calling
<1>4. Types'
  BY <1>1, <1>2, <1>3 DEF Types, pending
<1>5. \A u \in Slots : SameAt(u)
  BY <1>1 DEF SameAt, pending
<1>6. Sound(s)'
  BY <1>3, <1>5, SlotStays
<1>7. Waiting(s)'
  BY <1>1, <1>3 DEF Waiting, Kept, Clean, Counted, Tallied, pending
<1>8. Calling(s, c)'
  BY <1>7 DEF Calling
<1>. QED  BY <1>1, <1>2, <1>3, <1>4, <1>5, <1>6, <1>8, OneCallMoves

LEMMA ConcatIs ==
  ASSUME NEW p \in Seq(Nat), NEW q \in Seq(Nat)
  PROVE  /\ p \o q \in Seq(Nat)
         /\ Len(p \o q) = Len(p) + Len(q)
         /\ \A i \in 1 .. Len(p) : (p \o q)[i] = p[i]
  OBVIOUS

LEMMA VoteInstrsIs ==
  ASSUME TallyAssumption, NEW tx \in Shapes
  PROVE  /\ VoteInstrs(tx) \in Nat /\ OtherInstrs(tx) \in Nat
         /\ IsVote(tx) => VoteInstrs(tx) > 0
<1>1. tx.outer \in Seq(Nat) /\ tx.inner \in Seq(Nat)
  BY DEF TallyAssumption, ShapesAssumption
<1>2. /\ All(tx) \in Seq(Nat)
      /\ Len(All(tx)) = Len(tx.outer) + Len(tx.inner)
      /\ \A i \in 1 .. Len(tx.outer) : All(tx)[i] = tx.outer[i]
  BY <1>1, ConcatIs DEF All
<1>3. IsFiniteSet(DOMAIN All(tx)) /\ DOMAIN All(tx) = 1 .. Len(All(tx)) /\ Len(All(tx)) \in Nat
  <2>1. DOMAIN All(tx) = 1 .. Len(All(tx)) /\ Len(All(tx)) \in Nat
    <3>1. \A q \in Seq(Nat) : DOMAIN q = 1 .. Len(q) /\ Len(q) \in Nat
      OBVIOUS
    <3>. QED  BY <1>2, <3>1
  <2>2. IsFiniteSet(1 .. Len(All(tx)))
    BY <2>1, FS_Interval
  <2>. QED  BY <2>1, <2>2
<1> DEFINE V == {i \in DOMAIN All(tx) : IsVoteInstr(tx, i)}
           O == {i \in DOMAIN All(tx) : ~IsVoteInstr(tx, i)}
<1>4. IsFiniteSet(V) /\ IsFiniteSet(O)
  BY <1>3, FS_Subset
<1>5. Cardinality(V) \in Nat /\ Cardinality(O) \in Nat
  BY <1>4, FS_CardinalityType
<1>6. ASSUME IsVote(tx) PROVE Cardinality(V) > 0
  <2>1. Len(tx.outer) = 1 /\ tx.outer[1] \in DOMAIN tx.keys /\ tx.keys[tx.outer[1]] = Vote
    BY <1>6 DEF IsVote
  <2>2. Len(tx.inner) \in Nat
    BY <1>1
  <2>3. 1 \in DOMAIN All(tx) /\ All(tx)[1] = tx.outer[1]
    BY <1>2, <1>3, <2>1, <2>2
  <2>4. 1 \in V
    BY <2>1, <2>3 DEF IsVoteInstr
  <2>5. V # {}
    BY <2>4
  <2> HIDE DEF V
  <2>. QED  BY <1>4, <1>5, <2>5, FS_EmptySet
<1>. QED  BY <1>5, <1>6 DEF VoteInstrs, OtherInstrs

LEMMA AddInstructionsIs ==
  ASSUME TallyAssumption, NEW e \in Events, NEW tx \in Shapes
  PROVE  /\ AddInstructions(e, tx) \in Events
         /\ AddInstructions(e, tx).voteTxs + AddInstructions(e, tx).otherTxs = e.voteTxs + e.otherTxs + 1
         /\ AddInstructions(e, tx).voteTxs >= e.voteTxs + One(IsVote(tx))
<1>1. VoteInstrs(tx) \in Nat /\ OtherInstrs(tx) \in Nat /\ (IsVote(tx) => VoteInstrs(tx) > 0)
  BY VoteInstrsIs
<1>2. e.voteInstr \in Nat /\ e.otherInstr \in Nat /\ e.voteTxs \in Nat /\ e.otherTxs \in Nat
  BY DEF Events
<1>. QED  BY <1>1, <1>2 DEF AddInstructions, Events, One

LEMMA AddMentionsIs ==
  ASSUME TallyAssumption, NEW entry, NEW tx \in Shapes
  PROVE  AddMentions(entry, tx) # Nothing
<1>1. tx.keys \in Seq(STRING) /\ tx.keys # <<>>
  BY DEF TallyAssumption, ShapesAssumption
<1>2. 1 \in DOMAIN tx.keys
  BY <1>1
<1>3. tx.keys[1] \in DOMAIN AddMentions(entry, tx)
  BY <1>2 DEF AddMentions
<1>4. DOMAIN Nothing = {}
  BY DEF Nothing
<1>. QED  BY <1>3, <1>4

\* A slot without rows.
LEMMA CleanIsSound ==
  ASSUME NEW s, Clean(s)', given'[s] = <<>> => Empty(s)', s \in Skipped => given'[s] = <<>>, Len(given'[s]) <= MaxTxs
  PROVE  Sound(s)'
<1>1. 2 \in Plugins
  BY DEF Plugins
<1>2. /\ \A p \in Plugins : rows'[p][s] = {}
      /\ status'[s] = {} /\ rows'[2][s] = {}
  BY <1>1 DEF Clean
<1>. QED  BY <1>2 DEF Sound

LEMMA TransactionIs ==
  ASSUME TallyInv, NEW t \in Threads, NEW s, s = Slot(t), phase = "streaming", call[t].of = "transaction"
  PROVE  /\ call[t] \in [of : {"transaction"}, tx : Shapes, plugin : Plugins]
         /\ at[t] <= Len(Feed[t]) /\ s \in Slots /\ Types /\ Sound(s)
         /\ InTransaction(s, call[t].tx, call[t].plugin)
         /\ tally[s] \in TallyRecords /\ instructions[s] \in Events
         /\ given[s] \in Seq(Shapes) /\ MaxTxs \in Nat /\ TallyAssumption
<1>1. call[t] \in Calls
  BY CallIs
<1>2. call[t] \in [of : {"transaction"}, tx : Shapes, plugin : Plugins]
  BY <1>1, IdleIs DEF Calls
<1>. QED  BY <1>2, CallIs DEF Calling, TallyInv

LEMMA IgnoreTransactionKeeps ==
  ASSUME TallyInv, NEW t \in Threads, NEW s, s = Slot(t), OnTransaction(t), Ignoring(call[t].plugin)
  PROVE  TallyInv'
<1>1. /\ phase = "streaming" /\ call[t].of = "transaction" /\ call[t].plugin = 1 /\ shutting
      /\ call' = [call EXCEPT ![t] = Idle]
      /\ UNCHANGED <<phase, shutting, at, tally, pending, rows, status, given>>
  BY DEF OnTransaction, Ignoring, Do
<1>2. s \in Slots /\ Types /\ Sound(s) /\ InTransaction(s, call[t].tx, 1) /\ at[t] <= Len(Feed[t])
  BY <1>1, TransactionIs
<1>3. Types'
  BY <1>1, <1>2, IdleIs DEF Types, pending
<1>4. \A u \in Slots : SameAt(u)
  BY <1>1 DEF SameAt, pending
<1>5. Sound(s)'
  BY <1>2, <1>4, SlotStays
<1>6. Waiting(s)'
  <2>1. /\ One(1 = 1) = 1 /\ One(1 = 2) = 0 /\ One(1 # 1) = 0
        /\ Tallied(s) \in Nat /\ Counted(s) \in Nat /\ given[s] \in Seq(Shapes) /\ MaxTxs \in Nat
    BY <1>1, TransactionIs DEF One, Tallied, Counted, TallyRecords, Events
  <2>2. Kept(s) /\ Len(given[s]) <= Tallied(s) /\ Tallied(s) <= MaxTxs
    BY <1>2, <2>1 DEF InTransaction, Kept
  <2>. QED  BY <1>1, <2>2 DEF Waiting, Kept, Clean, Counted, Tallied, pending
<1>7. Calling(s, Idle)'
  BY <1>6, IdleIs DEF Calling
<1>. QED  BY <1>1, <1>2, <1>3, <1>4, <1>5, <1>7, IdleIs, OneCallMoves

LEMMA GivenLonger ==
  ASSUME NEW q \in Seq(Shapes), NEW tx \in Shapes
  PROVE  Append(q, tx) \in Seq(Shapes) /\ Append(q, tx) # <<>> /\ Len(Append(q, tx)) = Len(q) + 1 /\ Len(q) \in Nat
  OBVIOUS

LEMMA FirstPluginKeeps ==
  ASSUME TallyInv, NEW t \in Threads, NEW s, s = Slot(t), OnTransaction(t), ~Ignoring(call[t].plugin),
         call[t].plugin = 1
  PROVE  TallyInv'
<1> PICK tx, c : tx = call[t].tx /\ c = [call[t] EXCEPT !.plugin = @ + 1]
  OBVIOUS
<1>1. /\ phase = "streaming" /\ call[t].of = "transaction" /\ ~shutting
      /\ call' = [call EXCEPT ![t] = c]
      /\ given' = [given EXCEPT ![s] = Append(@, tx)]
      /\ programs' = [programs EXCEPT ![s] = AddPrograms(@, tx)]
      /\ UNCHANGED <<instructions, mentions, phase, shutting, at, tally, rows, status>>
  BY DEF OnTransaction, Ignoring, Do
<1>2. /\ call[t] \in [of : {"transaction"}, tx : Shapes, plugin : Plugins]
      /\ at[t] <= Len(Feed[t]) /\ s \in Slots /\ Types /\ Sound(s) /\ InTransaction(s, tx, 1)
      /\ tally[s] \in TallyRecords /\ instructions[s] \in Events
      /\ given[s] \in Seq(Shapes) /\ MaxTxs \in Nat
  BY <1>1, TransactionIs
<1>3. c \in Calls /\ c.of = "transaction" /\ c.plugin = 2 /\ c.tx = tx /\ tx \in Shapes
  BY <1>2 DEF Calls, Plugins
<1>4. /\ Append(given[s], tx) \in Seq(Shapes) /\ Append(given[s], tx) # <<>>
      /\ Len(Append(given[s], tx)) = Len(given[s]) + 1 /\ Len(given[s]) \in Nat
  BY <1>2, <1>3, GivenLonger
<1>5. /\ given' \in [Slots -> Seq(Shapes)] /\ given'[s] = Append(given[s], tx)
      /\ programs' = [u \in Slots |-> programs'[u]]
      /\ \A u \in Slots \ {s} : given'[u] = given[u] /\ programs'[u] = programs[u]
  BY <1>1, <1>2, <1>4 DEF Types
<1>6. Types'
  BY <1>1, <1>2, <1>3, <1>5 DEF Types
<1>7. \A u \in Slots \ {s} : SameAt(u)
  BY <1>1, <1>5 DEF SameAt
<1>8. /\ Clean(s)' = Clean(s) /\ Tallied(s)' = Tallied(s) /\ Counted(s)' = Counted(s)
      /\ Tallied(s) \in Nat /\ Counted(s) \in Nat
  BY <1>1, <1>2 DEF Clean, Tallied, Counted, TallyRecords, Events
<1>9. /\ One(1 = 1) = 1 /\ One(1 = 2) = 0 /\ One(1 # 1) = 0 /\ One(2 = 1) = 0 /\ One(2 = 2) = 1 /\ One(2 # 1) = 1
      /\ One(2 # 3) = One(1 # 3) /\ One(2 # 3 /\ IsVote(tx)) = One(1 # 3 /\ IsVote(tx))
  BY DEF One
<1>10. /\ Clean(s) /\ s \notin Skipped /\ Len(given[s]) + 1 <= Tallied(s) /\ Tallied(s) <= MaxTxs
       /\ Len(given[s]) = Counted(s)
       /\ Len(given[s]) > 0 => mentions[s] # Nothing
  BY <1>2, <1>4, <1>8, <1>9 DEF InTransaction
<1>11. Sound(s)'
  <2>1. given'[s] # <<>> /\ Len(given'[s]) <= MaxTxs
    BY <1>2, <1>4, <1>5, <1>8, <1>10
  <2>. QED  BY <1>8, <1>10, <2>1, CleanIsSound
<1>12. InTransaction(s, tx, 2)'
  <2>1. /\ Len(given'[s]) <= Tallied(s)' /\ Tallied(s)' <= MaxTxs /\ Len(given'[s]) = Counted(s)' + 1
        /\ Len(given'[s]) + 0 <= Tallied(s)'
        /\ Len(given'[s]) > 1 => mentions'[s] # Nothing
    BY <1>1, <1>2, <1>4, <1>5, <1>8, <1>10
  <2>2. ~shutting => /\ Tallied(s) = Counted(s) + One(2 # 3)
                     /\ tally[s].votes <= instructions[s].voteTxs + One(2 # 3 /\ IsVote(tx))
    BY <1>2, <1>9 DEF InTransaction
  <2>. QED  BY <1>1, <1>8, <1>9, <1>10, <2>1, <2>2 DEF InTransaction
<1>13. Calling(s, c)'
  BY <1>3, <1>12 DEF Calling
<1>. QED  BY <1>1, <1>2, <1>3, <1>6, <1>7, <1>11, <1>13, OneCallMoves

LEMMA SecondPluginKeeps ==
  ASSUME TallyInv, NEW t \in Threads, NEW s, s = Slot(t), OnTransaction(t), call[t].plugin = 2
  PROVE  TallyInv'
<1> PICK tx, c : tx = call[t].tx /\ c = [call[t] EXCEPT !.plugin = @ + 1]
  OBVIOUS
<1>1. /\ phase = "streaming" /\ call[t].of = "transaction"
      /\ call' = [call EXCEPT ![t] = c]
      /\ instructions' = [instructions EXCEPT ![s] = AddInstructions(@, tx)]
      /\ UNCHANGED <<given, programs, mentions, phase, shutting, at, tally, rows, status>>
  BY DEF OnTransaction, Ignoring, Do
<1>2. /\ call[t] \in [of : {"transaction"}, tx : Shapes, plugin : Plugins]
      /\ at[t] <= Len(Feed[t]) /\ s \in Slots /\ Types /\ Sound(s) /\ InTransaction(s, tx, 2)
      /\ tally[s] \in TallyRecords /\ instructions[s] \in Events
      /\ given[s] \in Seq(Shapes) /\ MaxTxs \in Nat /\ TallyAssumption
  BY <1>1, TransactionIs
<1>3. c \in Calls /\ c.of = "transaction" /\ c.plugin = 3 /\ c.tx = tx /\ tx \in Shapes
  BY <1>2 DEF Calls, Plugins
<1>4. /\ AddInstructions(instructions[s], tx) \in Events
      /\ AddInstructions(instructions[s], tx).voteTxs + AddInstructions(instructions[s], tx).otherTxs
           = instructions[s].voteTxs + instructions[s].otherTxs + 1
      /\ AddInstructions(instructions[s], tx).voteTxs >= instructions[s].voteTxs + One(IsVote(tx))
  BY <1>2, <1>3, AddInstructionsIs
<1>5. /\ instructions' \in [Slots -> Events] /\ instructions'[s] = AddInstructions(instructions[s], tx)
      /\ \A u \in Slots \ {s} : instructions'[u] = instructions[u]
  BY <1>1, <1>2, <1>4 DEF Types
<1>6. Types'
  BY <1>1, <1>2, <1>3, <1>5 DEF Types
<1>7. \A u \in Slots \ {s} : SameAt(u)
  BY <1>1, <1>5 DEF SameAt
<1>8. /\ Clean(s)' = Clean(s) /\ Tallied(s)' = Tallied(s) /\ Counted(s)' = Counted(s) + 1
      /\ Tallied(s) \in Nat /\ Counted(s) \in Nat /\ Len(given[s]) \in Nat
  <2>1. Counted(s)' = Counted(s) + 1
    BY <1>4, <1>5 DEF Counted
  <2>2. Clean(s)' = Clean(s) /\ Tallied(s)' = Tallied(s)
    BY <1>1 DEF Clean, Tallied
  <2>3. Tallied(s) \in Nat /\ Counted(s) \in Nat
    BY <1>2 DEF Tallied, Counted, TallyRecords, Events
  <2>. QED  BY <1>2, <2>1, <2>2, <2>3
<1>9. /\ One(2 = 1) = 0 /\ One(2 = 2) = 1 /\ One(2 # 1) = 1 /\ One(3 = 1) = 0 /\ One(3 = 2) = 0 /\ One(3 # 1) = 1
      /\ One(2 # 3) = 1 /\ One(2 # 3 /\ IsVote(tx)) = One(IsVote(tx)) /\ One(3 # 3) = 0 /\ One(3 # 3 /\ IsVote(tx)) = 0
  BY DEF One
<1>10. /\ Clean(s) /\ s \notin Skipped /\ Len(given[s]) <= Tallied(s) /\ Tallied(s) <= MaxTxs
       /\ Len(given[s]) = Counted(s) + 1
       /\ Len(given[s]) > 1 => mentions[s] # Nothing
  BY <1>2, <1>8, <1>9 DEF InTransaction
<1>11. Sound(s)'
  <2>1. given[s] # <<>>
    BY <1>8, <1>10
  <2>2. Len(given[s]) <= MaxTxs
    BY <1>2 DEF Sound
  <2>. QED  BY <1>1, <1>8, <1>10, <2>1, <2>2, CleanIsSound
<1>12. InTransaction(s, tx, 3)'
  <2>1. /\ Len(given'[s]) + 0 <= Tallied(s)' /\ Tallied(s)' <= MaxTxs /\ Len(given'[s]) = Counted(s)' + 0
        /\ Len(given'[s]) > 1 => mentions'[s] # Nothing
    BY <1>1, <1>2, <1>8, <1>10
  <2>2. ~shutting => /\ Tallied(s)' = Counted(s)' + 0
                     /\ tally'[s].votes <= instructions'[s].voteTxs + 0
    <3>1. ~shutting => /\ Tallied(s) = Counted(s) + 1
                       /\ tally[s].votes <= instructions[s].voteTxs + One(IsVote(tx))
      BY <1>2, <1>9 DEF InTransaction
    <3>2. instructions'[s].voteTxs >= instructions[s].voteTxs + One(IsVote(tx))
      BY <1>4, <1>5
    <3>3. /\ instructions[s].voteTxs \in Nat /\ instructions'[s].voteTxs \in Nat /\ tally[s].votes \in Nat
          /\ One(IsVote(tx)) \in Nat
      BY <1>2, <1>5 DEF Events, TallyRecords, One
    <3>. QED  BY <1>1, <1>8, <3>1, <3>2, <3>3
  <2>. QED  BY <1>1, <1>8, <1>9, <1>10, <2>1, <2>2 DEF InTransaction
<1>13. Calling(s, c)'
  BY <1>3, <1>12 DEF Calling
<1>. QED  BY <1>1, <1>2, <1>3, <1>6, <1>7, <1>11, <1>13, OneCallMoves

LEMMA ThirdPluginKeeps ==
  ASSUME TallyInv, NEW t \in Threads, NEW s, s = Slot(t), OnTransaction(t), call[t].plugin = 3
  PROVE  TallyInv'
<1> PICK tx : tx = call[t].tx
  OBVIOUS
<1>1. /\ phase = "streaming" /\ call[t].of = "transaction"
      /\ call' = [call EXCEPT ![t] = Idle]
      /\ mentions' = [mentions EXCEPT ![s] = AddMentions(@, tx)]
      /\ UNCHANGED <<given, programs, instructions, phase, shutting, at, tally, rows, status>>
  BY DEF OnTransaction, Ignoring, Do
<1>2. /\ call[t] \in [of : {"transaction"}, tx : Shapes, plugin : Plugins]
      /\ at[t] <= Len(Feed[t]) /\ s \in Slots /\ Types /\ Sound(s) /\ InTransaction(s, tx, 3)
      /\ tally[s] \in TallyRecords /\ instructions[s] \in Events
      /\ given[s] \in Seq(Shapes) /\ MaxTxs \in Nat /\ TallyAssumption
  BY <1>1, TransactionIs
<1>3. tx \in Shapes
  BY <1>2
<1>4. /\ mentions' = [u \in Slots |-> mentions'[u]] /\ mentions'[s] # Nothing
      /\ \A u \in Slots \ {s} : mentions'[u] = mentions[u]
  BY <1>1, <1>2, <1>3, AddMentionsIs DEF Types
<1>5. Types'
  <2>1. call' \in [Threads -> Calls]
    BY <1>1, <1>2, IdleIs DEF Types
  <2>2. /\ programs' = [u \in Slots |-> programs'[u]]
        /\ rows' = [p \in Plugins |-> [u \in Slots |-> rows'[p][u]]]
        /\ \A u \in Slots : rows'[2][u] \subseteq SlotRows
    BY <1>1, <1>2 DEF Types
  <2>. QED  BY <1>1, <1>2, <1>4, <2>1, <2>2 DEF Types
<1>6. \A u \in Slots \ {s} : SameAt(u)
  BY <1>1, <1>4 DEF SameAt
<1>7. /\ Clean(s)' = Clean(s) /\ Tallied(s)' = Tallied(s) /\ Counted(s)' = Counted(s)
      /\ Tallied(s) \in Nat /\ Counted(s) \in Nat /\ Len(given[s]) \in Nat
  BY <1>1, <1>2 DEF Clean, Tallied, Counted, TallyRecords, Events
<1>8. One(3 = 1) = 0 /\ One(3 = 2) = 0 /\ One(3 # 1) = 1 /\ One(3 # 3) = 0 /\ One(3 # 3 /\ IsVote(tx)) = 0
  BY DEF One
<1>9. /\ Clean(s) /\ s \notin Skipped /\ Len(given[s]) <= Tallied(s) /\ Tallied(s) <= MaxTxs
      /\ Len(given[s]) = Counted(s)
      /\ ~shutting => Tallied(s) = Counted(s) /\ tally[s].votes <= instructions[s].voteTxs
  <2>1. instructions[s].voteTxs \in Nat /\ tally[s].votes \in Nat
    BY <1>2 DEF Events, TallyRecords
  <2>. QED  BY <1>2, <1>7, <1>8, <2>1 DEF InTransaction
<1>10. Waiting(s)'
  BY <1>1, <1>4, <1>7, <1>9 DEF Waiting, Kept, Agrees, Tallied, Counted
<1>11. Sound(s)'
  <2>1. Len(given[s]) <= MaxTxs
    BY <1>2 DEF Sound
  <2>2. given[s] # <<>>
    BY <1>2, <1>8 DEF InTransaction
  <2>. QED  BY <1>1, <1>7, <1>9, <2>1, <2>2, CleanIsSound
<1>12. Calling(s, Idle)'
  BY <1>10, IdleIs DEF Calling
<1>. QED  BY <1>1, <1>2, <1>5, <1>6, <1>11, <1>12, IdleIs, OneCallMoves

\* What a plugin's callback hands to a write.
LEMMA HandIs ==
  ASSUME Types, NEW k \in Plugins, NEW s \in Slots, NEW bodies, rows[k][s] = {}, Hand(k, s, bodies)
  PROVE  /\ rows' = [p \in Plugins |-> [u \in Slots |-> rows'[p][u]]]
         /\ rows'[k][s] = {Row(TRUE, b) : b \in bodies}
         /\ \A p \in Plugins, u \in Slots : p # k \/ u # s => rows'[p][u] = rows[p][u]
<1>1. rows = [p \in Plugins |-> [u \in Slots |-> rows[p][u]]]
  BY DEF Types
<1>2. rows' = [rows EXCEPT ![k][s] = @ \cup {Row(TRUE, b) : b \in bodies}]
  BY DEF Hand
<1>3. rows'[k][s] = rows[k][s] \cup {Row(TRUE, b) : b \in bodies}
  BY <1>1, <1>2
<1>4. \A p \in Plugins, u \in Slots : p # k \/ u # s => rows'[p][u] = rows[p][u]
  BY <1>1, <1>2
<1>5. rows' = [p \in Plugins |-> [u \in Slots |-> rows'[p][u]]]
  BY <1>1, <1>2
<1>. QED  BY <1>3, <1>4, <1>5

LEMMA RowIs == ASSUME NEW d, NEW b PROVE Row(d, b).dated = d /\ Row(d, b).body = b
  BY DEF Row

LEMMA SlotRowIs ==
  ASSUME NEW d \in BOOLEAN, NEW b \in Events
  PROVE  Row(d, b) \in SlotRows
  BY DEF SlotRows

LEMMA BlockIs ==
  ASSUME TallyInv, NEW t \in Threads, NEW s, s = Slot(t), phase = "streaming", call[t].of = "block"
  PROVE  /\ call[t] \in [of : {"block"}, plugin : 1 .. 5]
         /\ at[t] <= Len(Feed[t]) /\ s \in Slots /\ Types /\ Sound(s)
         /\ call[t].plugin = 1 => Waiting(s)
         /\ call[t].plugin = 5 => Settled(s)
         /\ call[t].plugin \in {2, 3, 4} => InBlock(s, call[t].plugin)
         /\ tally[s] \in TallyRecords /\ instructions[s] \in Events
         /\ given[s] \in Seq(Shapes) /\ MaxTxs \in Nat /\ TallyAssumption
<1>1. call[t] \in Calls
  BY CallIs
<1>2. call[t] \in [of : {"block"}, plugin : 1 .. 5]
  BY <1>1, IdleIs DEF Calls
<1>3. Calling(s, call[t])
  BY CallIs
<1>4. /\ call[t].plugin = 1 => Waiting(s)
      /\ call[t].plugin = 5 => Settled(s)
      /\ call[t].plugin \in {2, 3, 4} => InBlock(s, call[t].plugin)
  BY <1>3 DEF Calling
<1>. QED  BY <1>2, <1>4, CallIs DEF TallyInv

LEMMA CallingBlock ==
  ASSUME NEW s, NEW k, NEW c, c.of = "block", c.plugin = k,
         (k \in {2, 3, 4} /\ InBlock(s, k)') \/ (k = 5 /\ Settled(s)')
  PROVE  Calling(s, c)'
  BY DEF Calling

LEMMA IgnoreBlockKeeps ==
  ASSUME TallyInv, NEW t \in Threads, NEW s, s = Slot(t), OnBlock(t), Ignoring(call[t].plugin)
  PROVE  TallyInv'
<1> PICK c : c = [call[t] EXCEPT !.plugin = 5]
  OBVIOUS
<1>1. /\ phase = "streaming" /\ call[t].of = "block" /\ call[t].plugin = 1
      /\ call' = [call EXCEPT ![t] = c]
      /\ UNCHANGED <<phase, shutting, at, tally, pending, rows, status, given>>
  BY DEF OnBlock, Ignoring, Do
<1>2. call[t] \in [of : {"block"}, plugin : 1 .. 5] /\ s \in Slots /\ Types /\ Sound(s) /\ Waiting(s)
      /\ at[t] <= Len(Feed[t])
  BY <1>1, BlockIs
<1>3. c \in Calls /\ c.of = "block" /\ c.plugin = 5
  BY <1>1, <1>2 DEF Calls
<1>4. Types'
  BY <1>1, <1>2, <1>3 DEF Types, pending
<1>5. \A u \in Slots : SameAt(u)
  BY <1>1 DEF SameAt, pending
<1>6. Sound(s)' /\ Settled(s)'
  BY <1>2, <1>5, SlotStays DEF Waiting, Settled
<1>7. Calling(s, c)'
  BY <1>3, <1>6, CallingBlock
<1>. QED  BY <1>1, <1>2, <1>3, <1>4, <1>5, <1>6, <1>7, OneCallMoves

LEMMA SkippedBlockKeeps ==
  ASSUME TallyInv, NEW t \in Threads, NEW s, s = Slot(t), OnBlock(t), ~Ignoring(call[t].plugin), s \in Skipped
  PROVE  TallyInv'
<1> PICK k, c : k = call[t].plugin + 1 /\ c = [call[t] EXCEPT !.plugin = k]
  OBVIOUS
<1>1. /\ phase = "streaming" /\ call[t].of = "block" /\ call[t].plugin \in 1 .. 3
      /\ call[t].plugin = 1 => ~shutting
      /\ call' = [call EXCEPT ![t] = c]
      /\ UNCHANGED <<phase, shutting, at, tally, pending, rows, status, given>>
  BY DEF OnBlock, Ignoring, Do, Plugins
<1>2. /\ call[t] \in [of : {"block"}, plugin : 1 .. 5] /\ s \in Slots /\ Types /\ Sound(s) /\ at[t] <= Len(Feed[t])
      /\ call[t].plugin = 1 => Waiting(s)
      /\ call[t].plugin \in {2, 3} => InBlock(s, call[t].plugin)
      /\ tally[s] \in TallyRecords
  BY <1>1, BlockIs
<1>3. c \in Calls /\ c.of = "block" /\ c.plugin = k /\ k \in {2, 3, 4}
  BY <1>1, <1>2 DEF Calls
<1>4. Types'
  BY <1>1, <1>2, <1>3 DEF Types, pending
<1>5. \A u \in Slots : SameAt(u)
  BY <1>1 DEF SameAt, pending
<1>6. given[s] = <<>> /\ Empty(s) /\ Counted(s) = 0 /\ Len(given[s]) = 0
  <2>1. given[s] = <<>> /\ Empty(s)
    BY <1>2 DEF Sound
  <2>. QED  BY <2>1, NoEventIs DEF Empty, Counted
<1>7. InBlock(s, k)
  <2>1. CASE k = 2
    <3>1. Waiting(s) /\ ~shutting
      BY <1>1, <1>2, <2>1
    <3>2. Agrees(tally[s], instructions[s]) /\ Clean(s)
      BY <3>1 DEF Waiting, Kept
    <3>3. rows[2][s] = {} /\ rows[3][s] = {} /\ status[s] = {} /\ Dated(s)
      BY <3>2 DEF Clean, Dated, Plugins
    <3>. QED  BY <1>6, <2>1, <3>2, <3>3 DEF InBlock, Empty
  <2>2. CASE k = 3
    <3>1. InBlock(s, 2)
      BY <1>1, <1>2, <2>2
    <3>2. status[s] = {} /\ Dated(s) /\ rows[2][s] = {} /\ rows[3][s] = {}
      BY <3>1 DEF InBlock
    <3>. QED  BY <1>6, <2>2, <3>2 DEF InBlock, Empty
  <2>3. CASE k = 4
    <3>1. InBlock(s, 3)
      BY <1>1, <1>2, <2>3
    <3>2. status[s] = {} /\ Dated(s) /\ \A r \in rows[2][s] : Agrees(tally[s], r.body)
      BY <3>1 DEF InBlock
    <3>. QED  BY <1>6, <2>3, <3>2 DEF InBlock, Empty
  <2>. QED  BY <1>3, <2>1, <2>2, <2>3
<1>8. Calling(s, c)
  BY <1>3, <1>7 DEF Calling
<1>9. Calling(s, c)' /\ Sound(s)'
  BY <1>1, <1>2, <1>5, <1>8, CallStays, SlotStays
<1>. QED  BY <1>1, <1>2, <1>3, <1>4, <1>5, <1>9, OneCallMoves

LEMMA BlockProgramsKeeps ==
  ASSUME TallyInv, NEW t \in Threads, NEW s, s = Slot(t), OnBlock(t), ~Ignoring(call[t].plugin), s \notin Skipped,
         call[t].plugin = 1
  PROVE  TallyInv'
<1> PICK c : c = [call[t] EXCEPT !.plugin = 2]
  OBVIOUS
<1>1. /\ phase = "streaming" /\ call[t].of = "block" /\ ~shutting
      /\ call' = [call EXCEPT ![t] = c]
      /\ Hand(1, s, ProgramRows(s))
      /\ programs' = [programs EXCEPT ![s] = Nothing]
      /\ UNCHANGED <<instructions, mentions, phase, shutting, at, tally, status, given>>
  BY DEF OnBlock, Ignoring, Do, BlockPrograms
<1>2. /\ call[t] \in [of : {"block"}, plugin : 1 .. 5] /\ s \in Slots /\ Types /\ Sound(s) /\ at[t] <= Len(Feed[t])
      /\ Waiting(s) /\ given[s] \in Seq(Shapes)
  BY <1>1, BlockIs
<1>3. c \in Calls /\ c.of = "block" /\ c.plugin = 2
  BY <1>2 DEF Calls
<1>4. /\ Clean(s) /\ Agrees(tally[s], instructions[s]) /\ Counted(s) = Len(given[s])
      /\ given[s] # <<>> => mentions[s] # Nothing
  BY <1>1, <1>2 DEF Waiting, Kept
<1>5. 1 \in Plugins /\ 2 \in Plugins /\ 3 \in Plugins /\ \A p \in Plugins : p \in {1, 2, 3}
  BY DEF Plugins
<1>6. /\ \A p \in Plugins : rows[p][s] = {} /\ status[s] = {}
      /\ rows[1][s] = {}
  BY <1>4, <1>5 DEF Clean
<1>7. /\ rows' = [p \in Plugins |-> [u \in Slots |-> rows'[p][u]]]
      /\ rows'[1][s] = {Row(TRUE, b) : b \in ProgramRows(s)}
      /\ \A p \in Plugins, u \in Slots : p # 1 \/ u # s => rows'[p][u] = rows[p][u]
  BY <1>1, <1>2, <1>5, <1>6, HandIs
<1>8. /\ programs' = [u \in Slots |-> programs'[u]] /\ programs'[s] = Nothing
      /\ \A u \in Slots \ {s} : programs'[u] = programs[u]
  BY <1>1, <1>2 DEF Types
<1>9. Types'
  <2>1. \A u \in Slots : rows'[2][u] \subseteq SlotRows
    BY <1>2, <1>5, <1>7 DEF Types
  <2>2. call' \in [Threads -> Calls]
    BY <1>1, <1>2, <1>3 DEF Types
  <2>. QED  BY <1>1, <1>2, <1>7, <1>8, <2>1, <2>2 DEF Types
<1>10. \A u \in Slots \ {s} : SameAt(u)
  BY <1>1, <1>7, <1>8 DEF SameAt
<1>11. /\ \A r \in rows'[1][s] : r = Row(TRUE, programs[s]) /\ r.dated
       /\ rows'[2][s] = {} /\ rows'[3][s] = {}
  <2>1. rows'[2][s] = {} /\ rows'[3][s] = {}
    BY <1>2, <1>5, <1>6, <1>7
  <2>2. ASSUME NEW r \in rows'[1][s] PROVE r = Row(TRUE, programs[s]) /\ r.dated
    <3>1. PICK b \in ProgramRows(s) : r = Row(TRUE, b)
      BY <1>7, <2>2
    <3>2. b = programs[s]
      BY <3>1 DEF ProgramRows
    <3>. QED  BY <3>1, <3>2, RowIs
  <2>. QED  BY <2>1, <2>2
<1>12. Dated(s)' /\ \A p \in Plugins : \A r, q \in rows'[p][s] : r = q
  <2>1. ASSUME NEW p \in Plugins PROVE \A r, q \in rows'[p][s] : r.dated /\ r = q
    <3>1. CASE p = 1
      BY <1>11, <3>1
    <3>2. CASE p = 2 \/ p = 3
      BY <1>11, <3>2
    <3>. QED  BY <1>5, <3>1, <3>2
  <2>. QED  BY <2>1 DEF Dated
<1>13. Sound(s)'
  <2>1. given[s] = <<>> => Empty(s)'
    BY <1>1, <1>2, <1>8 DEF Sound, Empty
  <2>2. \E d \in BOOLEAN : \A p \in Plugins : \A r \in rows'[p][s] : r.dated = d
    <3>1. \A p \in Plugins : \A r \in rows'[p][s] : r.dated = TRUE
      BY <1>5, <1>11, <1>7, RowIs
    <3>. QED  BY <3>1
  <2>3. status'[s] = {} /\ Len(given[s]) <= MaxTxs /\ (s \in Skipped => given[s] = <<>>)
    BY <1>1, <1>2, <1>5, <1>6 DEF Sound
  <2>. QED  BY <1>1, <1>11, <1>12, <2>1, <2>2, <2>3 DEF Sound
<1>14. InBlock(s, 2)'
  <2>1. status'[s] = {} /\ Counted(s)' = Len(given'[s])
    BY <1>1, <1>4, <1>5, <1>6 DEF Counted
  <2>. QED  BY <1>1, <1>4, <1>8, <1>11, <1>12, <2>1 DEF InBlock, Agrees
<1>15. Calling(s, c)'
  BY <1>3, <1>14, CallingBlock
<1>. QED  BY <1>1, <1>2, <1>3, <1>9, <1>10, <1>13, <1>15, OneCallMoves

LEMMA BlockInstructionsKeeps ==
  ASSUME TallyInv, NEW t \in Threads, NEW s, s = Slot(t), OnBlock(t), s \notin Skipped, call[t].plugin = 2
  PROVE  TallyInv'
<1> PICK c : c = [call[t] EXCEPT !.plugin = 3]
  OBVIOUS
<1>1. /\ phase = "streaming" /\ call[t].of = "block"
      /\ call' = [call EXCEPT ![t] = c]
      /\ Hand(2, s, InstructionRows(s))
      /\ instructions' = [instructions EXCEPT ![s] = NoEvent]
      /\ UNCHANGED <<programs, mentions, phase, shutting, at, tally, status, given>>
  BY DEF OnBlock, Ignoring, Do, BlockInstructions
<1>2. /\ call[t] \in [of : {"block"}, plugin : 1 .. 5] /\ s \in Slots /\ Types /\ Sound(s) /\ at[t] <= Len(Feed[t])
      /\ InBlock(s, 2) /\ given[s] \in Seq(Shapes) /\ instructions[s] \in Events
  BY <1>1, BlockIs
<1>3. c \in Calls /\ c.of = "block" /\ c.plugin = 3
  BY <1>2 DEF Calls
<1>4. /\ status[s] = {} /\ programs[s] = Nothing /\ Dated(s) /\ rows[2][s] = {} /\ rows[3][s] = {}
      /\ Counted(s) = Len(given[s]) /\ Agrees(tally[s], instructions[s])
      /\ given[s] # <<>> => mentions[s] # Nothing
  BY <1>2 DEF InBlock
<1>5. 1 \in Plugins /\ 2 \in Plugins /\ 3 \in Plugins /\ \A p \in Plugins : p \in {1, 2, 3}
  BY DEF Plugins
<1>6. /\ rows' = [p \in Plugins |-> [u \in Slots |-> rows'[p][u]]]
      /\ rows'[2][s] = {Row(TRUE, b) : b \in InstructionRows(s)}
      /\ \A p \in Plugins, u \in Slots : p # 2 \/ u # s => rows'[p][u] = rows[p][u]
  BY <1>1, <1>2, <1>4, <1>5, HandIs
<1>7. /\ instructions' \in [Slots -> Events] /\ instructions'[s] = NoEvent
      /\ \A u \in Slots \ {s} : instructions'[u] = instructions[u]
  BY <1>1, <1>2, NoEventIs DEF Types
<1>8. rows'[1][s] = rows[1][s] /\ rows'[3][s] = {}
  BY <1>2, <1>4, <1>5, <1>6
<1>9. ASSUME NEW r \in rows'[2][s] PROVE r = Row(TRUE, instructions[s]) /\ r.dated /\ r.body = instructions[s]
  <2>1. PICK b \in InstructionRows(s) : r = Row(TRUE, b)
    BY <1>6, <1>9
  <2>2. b = instructions[s]
    BY <2>1 DEF InstructionRows
  <2>. QED  BY <2>1, <2>2, RowIs
<1>10. given[s] # <<>> => rows'[2][s] # {}
  <2> SUFFICES ASSUME given[s] # <<>> PROVE rows'[2][s] # {}
    OBVIOUS
  <2>1. Counted(s) # 0
    BY <1>2, <1>4
  <2>2. instructions[s] \in InstructionRows(s)
    BY <2>1, NoEventIs DEF Counted, InstructionRows
  <2>3. Row(TRUE, instructions[s]) \in rows'[2][s]
    BY <1>6, <2>2
  <2>. QED  BY <2>3
<1>11. Types'
  <2>1. ASSUME NEW u \in Slots PROVE rows'[2][u] \subseteq SlotRows
    <3>1. CASE u = s
      <4>1. Row(TRUE, instructions[s]) \in SlotRows
        BY <1>2, SlotRowIs
      <4>. QED  BY <1>9, <3>1, <4>1
    <3>2. CASE u # s
      BY <1>2, <1>5, <1>6, <3>2 DEF Types
    <3>. QED  BY <3>1, <3>2
  <2>2. call' \in [Threads -> Calls]
    BY <1>1, <1>2, <1>3 DEF Types
  <2>. QED  BY <1>1, <1>2, <1>6, <1>7, <2>1, <2>2 DEF Types
<1>12. \A u \in Slots \ {s} : SameAt(u)
  BY <1>1, <1>6, <1>7 DEF SameAt
<1>13. ASSUME NEW p \in Plugins PROVE \A r, q \in rows'[p][s] : r.dated = TRUE /\ r = q
  <2>1. CASE p = 1
    <3>1. \A r, q \in rows[1][s] : r = q /\ r.dated
      BY <1>2, <1>4, <1>5 DEF Sound, Dated
    <3>2. \A r \in rows[1][s] : r.dated \in BOOLEAN
      BY <1>2, <1>5 DEF Sound
    <3>. QED  BY <1>8, <2>1, <3>1, <3>2
  <2>2. CASE p = 2
    <3>1. \A r, q \in rows'[2][s] : r = q
      BY <1>9
    <3>2. \A r \in rows'[2][s] : r.dated = TRUE
      BY <1>9, RowIs
    <3>. QED  BY <2>2, <3>1, <3>2
  <2>3. CASE p = 3
    BY <1>8, <2>3
  <2>. QED  BY <1>5, <2>1, <2>2, <2>3
<1>14. Sound(s)'
  <2>1. given[s] = <<>> => Empty(s)'
    BY <1>1, <1>2, <1>7 DEF Sound, Empty
  <2>2. \E d \in BOOLEAN : \A p \in Plugins : \A r \in rows'[p][s] : r.dated = d
    BY <1>13
  <2>3. status'[s] = {} /\ Len(given[s]) <= MaxTxs /\ (s \in Skipped => given[s] = <<>>)
    BY <1>1, <1>2, <1>4 DEF Sound
  <2>4. \A r \in rows'[2][s] : r.body.voteTxs + r.body.otherTxs = Len(given'[s])
    BY <1>1, <1>4, <1>9 DEF Counted
  <2>. QED  BY <1>1, <1>13, <2>1, <2>2, <2>3, <2>4 DEF Sound
<1>15. InBlock(s, 3)'
  <2>1. Dated(s)'
    BY <1>13 DEF Dated
  <2>2. \A r \in rows'[2][s] : Agrees(tally'[s], r.body)
    BY <1>1, <1>4, <1>9
  <2>. QED  BY <1>1, <1>4, <1>7, <1>8, <1>10, <2>1, <2>2 DEF InBlock
<1>16. Calling(s, c)'
  BY <1>3, <1>15, CallingBlock
<1>. QED  BY <1>1, <1>2, <1>3, <1>11, <1>12, <1>14, <1>16, OneCallMoves

LEMMA BlockMentionsKeeps ==
  ASSUME TallyInv, NEW t \in Threads, NEW s, s = Slot(t), OnBlock(t), s \notin Skipped, call[t].plugin = 3
  PROVE  TallyInv'
<1> PICK c : c = [call[t] EXCEPT !.plugin = 4]
  OBVIOUS
<1>1. /\ phase = "streaming" /\ call[t].of = "block"
      /\ call' = [call EXCEPT ![t] = c]
      /\ Hand(3, s, MentionRows(s))
      /\ mentions' = [mentions EXCEPT ![s] = Nothing]
      /\ UNCHANGED <<programs, instructions, phase, shutting, at, tally, status, given>>
  BY DEF OnBlock, Ignoring, Do, BlockMentions
<1>2. /\ call[t] \in [of : {"block"}, plugin : 1 .. 5] /\ s \in Slots /\ Types /\ Sound(s) /\ at[t] <= Len(Feed[t])
      /\ InBlock(s, 3) /\ given[s] \in Seq(Shapes)
  BY <1>1, BlockIs
<1>3. c \in Calls /\ c.of = "block" /\ c.plugin = 4
  BY <1>2 DEF Calls
<1>4. /\ status[s] = {} /\ programs[s] = Nothing /\ Dated(s) /\ instructions[s] = NoEvent /\ rows[3][s] = {}
      /\ given[s] # <<>> => rows[2][s] # {}
      /\ \A r \in rows[2][s] : Agrees(tally[s], r.body)
      /\ given[s] # <<>> => mentions[s] # Nothing
  BY <1>2 DEF InBlock
<1>5. 1 \in Plugins /\ 2 \in Plugins /\ 3 \in Plugins /\ \A p \in Plugins : p \in {1, 2, 3}
  BY DEF Plugins
<1>6. /\ rows' = [p \in Plugins |-> [u \in Slots |-> rows'[p][u]]]
      /\ rows'[3][s] = {Row(TRUE, b) : b \in MentionRows(s)}
      /\ \A p \in Plugins, u \in Slots : p # 3 \/ u # s => rows'[p][u] = rows[p][u]
  BY <1>1, <1>2, <1>4, <1>5, HandIs
<1>7. /\ mentions' = [u \in Slots |-> mentions'[u]] /\ mentions'[s] = Nothing
      /\ \A u \in Slots \ {s} : mentions'[u] = mentions[u]
  BY <1>1, <1>2 DEF Types
<1>8. rows'[1][s] = rows[1][s] /\ rows'[2][s] = rows[2][s]
  BY <1>2, <1>5, <1>6
<1>9. ASSUME NEW r \in rows'[3][s] PROVE r = Row(TRUE, mentions[s]) /\ r.dated = TRUE
  <2>1. PICK b \in MentionRows(s) : r = Row(TRUE, b)
    BY <1>6, <1>9
  <2>2. b = mentions[s]
    BY <2>1 DEF MentionRows
  <2>. QED  BY <2>1, <2>2, RowIs
<1>10. given[s] # <<>> => rows'[3][s] # {}
  <2> SUFFICES ASSUME given[s] # <<>> PROVE rows'[3][s] # {}
    OBVIOUS
  <2>1. mentions[s] \in MentionRows(s)
    BY <1>4 DEF MentionRows
  <2>2. Row(TRUE, mentions[s]) \in rows'[3][s]
    BY <1>6, <2>1
  <2>. QED  BY <2>2
<1>11. Types'
  <2>1. \A u \in Slots : rows'[2][u] \subseteq SlotRows
    BY <1>2, <1>5, <1>6 DEF Types
  <2>2. call' \in [Threads -> Calls]
    BY <1>1, <1>2, <1>3 DEF Types
  <2>. QED  BY <1>1, <1>2, <1>6, <1>7, <2>1, <2>2 DEF Types
<1>12. \A u \in Slots \ {s} : SameAt(u)
  BY <1>1, <1>6, <1>7 DEF SameAt
<1>13. ASSUME NEW p \in Plugins PROVE \A r, q \in rows'[p][s] : r.dated = TRUE /\ r = q
  <2>1. CASE p = 1 \/ p = 2
    <3>1. \A r, q \in rows[p][s] : r = q /\ r.dated
      BY <1>2, <1>4 DEF Sound, Dated
    <3>2. \A r \in rows[p][s] : r.dated \in BOOLEAN
      BY <1>2 DEF Sound
    <3>. QED  BY <1>8, <2>1, <3>1, <3>2
  <2>2. CASE p = 3
    BY <1>9, <2>2
  <2>. QED  BY <1>5, <2>1, <2>2
<1>14. Sound(s)'
  <2>1. given[s] = <<>> => Empty(s)'
    BY <1>1, <1>2, <1>7 DEF Sound, Empty
  <2>2. \E d \in BOOLEAN : \A p \in Plugins : \A r \in rows'[p][s] : r.dated = d
    BY <1>13
  <2>3. status'[s] = {} /\ Len(given[s]) <= MaxTxs /\ (s \in Skipped => given[s] = <<>>)
    BY <1>1, <1>2, <1>4 DEF Sound
  <2>4. \A r \in rows'[2][s] : r.body.voteTxs + r.body.otherTxs = Len(given'[s])
    BY <1>1, <1>2, <1>8 DEF Sound
  <2>. QED  BY <1>1, <1>13, <2>1, <2>2, <2>3, <2>4 DEF Sound
<1>15. InBlock(s, 4)'
  <2>1. Dated(s)'
    BY <1>13 DEF Dated
  <2>. QED  BY <1>1, <1>4, <1>7, <1>8, <1>10, <2>1 DEF InBlock
<1>16. Calling(s, c)'
  BY <1>3, <1>15, CallingBlock
<1>. QED  BY <1>1, <1>2, <1>3, <1>11, <1>12, <1>14, <1>16, OneCallMoves

LEMMA OnStatusKeeps ==
  ASSUME TallyInv, NEW t \in Threads, NEW s, s = Slot(t), OnStatus(t)
  PROVE  TallyInv'
<1> PICK c : c = [call[t] EXCEPT !.plugin = 5]
  OBVIOUS
<1>1. /\ phase = "streaming" /\ call[t].of = "block" /\ call[t].plugin = 4
      /\ call' = [call EXCEPT ![t] = c]
      /\ status' = IF s \in Skipped THEN status ELSE [status EXCEPT ![s] = @ \cup {tally[s]}]
      /\ tally' = [tally EXCEPT ![s] = NoTally]
      /\ UNCHANGED <<phase, shutting, at, pending, rows, given>>
  BY DEF OnStatus, Do
<1>2. /\ call[t] \in [of : {"block"}, plugin : 1 .. 5] /\ s \in Slots /\ Types /\ Sound(s) /\ at[t] <= Len(Feed[t])
      /\ InBlock(s, 4) /\ tally[s] \in TallyRecords
  BY <1>1, BlockIs
<1>3. c \in Calls /\ c.of = "block" /\ c.plugin = 5
  BY <1>2 DEF Calls
<1>4. /\ status[s] = {} /\ Empty(s) /\ Dated(s) /\ Rowed(s)
      /\ \A r \in rows[2][s] : Agrees(tally[s], r.body)
  BY <1>2 DEF InBlock, Empty, Rowed
<1>5. /\ status' \in [Slots -> SUBSET TallyRecords] /\ \A e \in status'[s] : e = tally[s]
      /\ \A u \in Slots \ {s} : status'[u] = status[u]
  BY <1>1, <1>2, <1>4 DEF Types
<1>6. tally' \in [Slots -> TallyRecords] /\ \A u \in Slots \ {s} : tally'[u] = tally[u]
  BY <1>1, <1>2, NoTallyIs DEF Types
<1>7. Types'
  <2>1. call' \in [Threads -> Calls]
    BY <1>1, <1>2, <1>3 DEF Types
  <2>. QED  BY <1>1, <1>2, <1>5, <1>6, <2>1 DEF Types, pending
<1>8. \A u \in Slots \ {s} : SameAt(u)
  BY <1>1, <1>5, <1>6 DEF SameAt, pending
<1>9. Settled(s)'
  BY <1>1, <1>4 DEF Settled, Taken, Empty, Dated, Rowed, pending
<1>10. Sound(s)'
  <2>1. \A e \in status'[s] : \A r \in rows'[2][s] : r.dated /\ Agrees(e, r.body)
    BY <1>1, <1>4, <1>5 DEF Dated, Plugins
  <2>. QED  BY <1>1, <1>2, <1>5, <2>1 DEF Sound, Empty, pending
<1>11. Calling(s, c)'
  BY <1>3, <1>9, CallingBlock
<1>. QED  BY <1>1, <1>2, <1>3, <1>7, <1>8, <1>10, <1>11, OneCallMoves

\* A step that touches no slot.
LEMMA UnseenWaits ==
  ASSUME NEW s, Unseen(s), Sound(s), MaxTxs \in Nat
  PROVE  Kept(s) /\ Waiting(s)
<1>1. given[s] = <<>> /\ tally[s] = NoTally /\ Clean(s) /\ Empty(s) /\ Len(given[s]) = 0
  BY DEF Unseen, Sound
<1>2. Counted(s) = 0 /\ Tallied(s) = 0 /\ Agrees(tally[s], instructions[s])
  BY <1>1, NoEventIs, NoTallyIs DEF Empty, Counted, Tallied, Agrees
<1>. QED  BY <1>1, <1>2 DEF Kept, Waiting

LEMMA ReturnKeeps ==
  ASSUME TallyInv, NEW t \in Threads, Return(t)
  PROVE  TallyInv'
<1>1. /\ phase = "streaming" /\ call[t].of = "block" /\ call[t].plugin = 5
      /\ at' = [at EXCEPT ![t] = @ + 1] /\ call' = [call EXCEPT ![t] = Idle]
      /\ UNCHANGED <<phase, shutting, tally, pending, rows, status, given>>
  BY DEF Return, Do
<1>2. TallyAssumption /\ Types /\ MaxTxs \in Nat
  BY DEF TallyInv, TallyAssumption, SkippedAssumption
<1>3. at[t] \in Nat /\ at[t] + 1 \in 1 .. Len(Feed[t]) + 1
  <2>1. at[t] <= Len(Feed[t])
    BY <1>1 DEF TallyInv
  <2>. QED  BY <1>2, <2>1, FeedIs DEF Types
<1>4. /\ at' \in [Threads -> Nat] /\ at'[t] = at[t] + 1 /\ \A u \in Threads \ {t} : at'[u] = at[u]
      /\ call' \in [Threads -> Calls] /\ call'[t] = Idle /\ \A u \in Threads \ {t} : call'[u] = call[u]
  BY <1>1, <1>2, <1>3, IdleIs DEF Types
<1>5. Types'
  <2>1. \A u \in Threads : at'[u] \in 1 .. Len(Feed[u]) + 1
    BY <1>2, <1>3, <1>4 DEF Types
  <2>. QED  BY <1>1, <1>2, <1>4, <2>1 DEF Types, pending
<1>6. \A u \in Slots : SameAt(u)
  BY <1>1 DEF SameAt, pending
<1>7. \A u \in Slots : Sound(u)'
  <2> SUFFICES ASSUME NEW u \in Slots PROVE Sound(u)'
    OBVIOUS
  <2>1. SameAt(u) /\ Sound(u)
    BY <1>6 DEF TallyInv
  <2>. QED  BY <2>1, SlotStays
<1>8. ASSUME NEW u \in Threads, call'[u].of # "none" PROVE at'[u] <= Len(Feed[u])
  <2>1. u # t
    BY <1>4, <1>8, IdleIs
  <2>. QED  BY <1>1, <1>4, <1>8, <2>1 DEF TallyInv
<1>9. ASSUME NEW u \in Threads, NEW i \in DOMAIN Feed[u] PROVE Stage(u, i)'
  <2> PICK s : s = Feed[u][i]
    OBVIOUS
  <2>1. Stage(u, i) /\ s \in Slots /\ i \in Nat /\ at[u] \in Nat /\ SameAt(s) /\ Sound(s)
    BY <1>1, <1>2, <1>6, FeedIs DEF TallyInv, Types
  <2>2. /\ i > at[u] => Unseen(s)
        /\ i < at[u] => Settled(s)
        /\ i = at[u] => Calling(s, call[u])
    BY <2>1 DEF Stage
  <2>3. CASE u # t
    <3>1. at'[u] = at[u] /\ call'[u] = call[u]
      BY <1>4, <2>3
    <3>2. /\ i > at[u] => Unseen(s)'
          /\ i < at[u] => Settled(s)'
      BY <2>1, <2>2, SlotStays
    <3>3. ASSUME i = at[u] PROVE Calling(s, call[u])'
      <4>1. Calling(s, call[u])
        BY <2>2, <3>3
      <4>2. PICK c : c = call[u]
        OBVIOUS
      <4>3. Calling(s, c)
        BY <4>1, <4>2
      <4>4. Calling(s, c)'
        BY <1>1, <2>1, <4>3, CallStays
      <4>. QED  BY <3>1, <4>2, <4>4
    <3>. QED  BY <3>1, <3>2, <3>3 DEF Stage
  <2>4. CASE u = t
    <3>1. at'[u] = at[u] + 1 /\ call'[u] = Idle
      BY <1>4, <2>4
    <3>2. i > at[u] + 1 => Unseen(s)'
      BY <2>1, <2>2, SlotStays
    <3>3. i < at[u] + 1 => Settled(s)'
      <4>1. i = at[u] => Settled(s)
        BY <1>1, <2>2, <2>4 DEF Calling
      <4>2. i < at[u] + 1 => Settled(s)
        BY <2>1, <2>2, <4>1
      <4>. QED  BY <2>1, <4>2, SlotStays
    <3>4. ASSUME i = at[u] + 1 PROVE Calling(s, Idle)'
      <4>1. Waiting(s)
        BY <1>2, <2>1, <2>2, <3>4, UnseenWaits
      <4>2. Calling(s, Idle)
        BY <4>1, IdleIs DEF Calling
      <4>. QED  BY <1>1, <2>1, <4>2, CallStays
    <3>. QED  BY <2>1, <3>1, <3>2, <3>3, <3>4 DEF Stage
  <2>. QED  BY <2>3, <2>4
<1>. QED  BY <1>1, <1>2, <1>5, <1>7, <1>8, <1>9
          DEF TallyInv, TallyAssumption, FeedAssumption, SkippedAssumption, ShapesAssumption

LEMMA NothingMoves ==
  ASSUME TallyInv, UNCHANGED <<phase, at, call, tally, pending, rows, status, given>>,
         shutting' \in BOOLEAN, shutting => shutting'
  PROVE  TallyInv'
<1>1. UNCHANGED <<phase, at, call, tally, pending, rows, status, given>> /\ shutting' \in BOOLEAN
      /\ (shutting => shutting')
  OBVIOUS
<1>2. TallyAssumption /\ Types
  BY DEF TallyInv
<1>3. Types'
  BY <1>1, <1>2 DEF Types, pending
<1>4. \A u \in Slots : SameAt(u)
  BY <1>1 DEF SameAt, pending
<1>5. ASSUME NEW u \in Slots
      PROVE  Sound(u)' /\ (phase = "exiting" => Settled(u)') /\ (phase = "done" => Rowed(u)')
  <2>1. SameAt(u) /\ Sound(u) /\ (phase = "exiting" => Settled(u)) /\ (phase = "done" => Rowed(u))
    BY <1>4 DEF TallyInv
  <2>. QED  BY <2>1, SlotStays
<1>6. ASSUME phase = "streaming", NEW u \in Threads, NEW i \in DOMAIN Feed[u] PROVE Stage(u, i)'
  <2> PICK s, c : s = Feed[u][i] /\ c = call[u]
    OBVIOUS
  <2>1. Stage(u, i) /\ s \in Slots /\ SameAt(s)
    BY <1>1, <1>2, <1>4, <1>6, FeedIs DEF TallyInv
  <2>2. /\ i > at[u] => Unseen(s)
        /\ i < at[u] => Settled(s)
        /\ i = at[u] => Calling(s, c)
    BY <2>1 DEF Stage
  <2>3. /\ i > at[u] => Unseen(s)'
        /\ i < at[u] => Settled(s)'
    BY <2>1, <2>2, SlotStays
  <2>4. i = at[u] => Calling(s, c)'
    BY <1>1, <2>1, <2>2, CallStays
  <2>. QED  BY <1>1, <2>3, <2>4 DEF Stage
<1>7. phase = "streaming" => \A u \in Threads : call'[u].of # "none" => at'[u] <= Len(Feed[u])
  BY <1>1 DEF TallyInv
<1>. QED  BY <1>1, <1>2, <1>3, <1>5, <1>6, <1>7
          DEF TallyInv, TallyAssumption, FeedAssumption, SkippedAssumption, ShapesAssumption

LEMMA CtrlCKeeps == TallyInv /\ CtrlC => TallyInv'
  BY NothingMoves DEF CtrlC

LEMMA OverKeeps == TallyInv /\ UNCHANGED vars => TallyInv'
<1> SUFFICES ASSUME TallyInv, UNCHANGED vars PROVE TallyInv'
  OBVIOUS
<1>1. shutting \in BOOLEAN
  BY DEF TallyInv, Types
<1>. QED  BY <1>1, NothingMoves DEF vars

LEMMA StreamsEndKeeps == TallyInv /\ StreamsEnd => TallyInv'
<1> SUFFICES ASSUME TallyInv, StreamsEnd PROVE TallyInv'
  OBVIOUS
<1>1. /\ phase = "streaming" /\ phase' = "exiting" /\ \A t \in Threads : call[t].of = "none"
      /\ UNCHANGED <<shutting, at, call, tally, pending, rows, status, given>>
  BY DEF StreamsEnd
<1>2. TallyAssumption /\ Types /\ MaxTxs \in Nat
  BY DEF TallyInv, TallyAssumption, SkippedAssumption
<1>3. Types'
  BY <1>1, <1>2 DEF Types, pending
<1>4. ASSUME NEW s \in Slots PROVE Sound(s)' /\ Settled(s)'
  <2>1. PICK t \in Threads : \E i \in DOMAIN Feed[t] : s = Feed[t][i]
    BY DEF Slots
  <2>2. PICK i \in DOMAIN Feed[t] : s = Feed[t][i]
    BY <2>1
  <2>3. Sound(s) /\ SameAt(s)
    BY <1>1 DEF TallyInv, SameAt, pending
  <2>4. Stage(t, i) /\ at[t] \in Nat /\ i \in Nat
    BY <1>1, <1>2, FeedIs DEF TallyInv, Types
  <2>5. /\ i > at[t] => Unseen(s)
        /\ i < at[t] => Settled(s)
        /\ i = at[t] => Waiting(s)
    BY <1>1, <2>2, <2>4 DEF Stage, Calling
  <2>6. Settled(s)
    BY <1>2, <2>3, <2>4, <2>5, UnseenWaits DEF Settled, Waiting
  <2>. QED  BY <2>3, <2>6, SlotStays
<1>. QED  BY <1>1, <1>2, <1>3, <1>4
          DEF TallyInv, TallyAssumption, FeedAssumption, SkippedAssumption, ShapesAssumption

LEMMA OnExitKeeps == TallyInv /\ OnExit => TallyInv'
<1> SUFFICES ASSUME TallyInv, OnExit PROVE TallyInv'
  OBVIOUS
<1>1. /\ phase = "exiting" /\ phase' = "done"
      /\ programs' = [s \in Slots |-> Nothing] /\ instructions' = [s \in Slots |-> NoEvent]
      /\ mentions' = [s \in Slots |-> Nothing]
      /\ UNCHANGED <<shutting, at, call, tally, status, given>>
  BY DEF OnExit
<1>2. /\ rows' = [p \in Plugins |-> [s \in Slots |-> rows'[p][s]]]
      /\ \A s \in Slots : /\ rows'[1][s] = rows[1][s] \cup DrainPrograms(s)
                          /\ rows'[2][s] = rows[2][s] \cup DrainInstructions(s)
                          /\ rows'[3][s] = rows[3][s] \cup DrainMentions(s)
  BY DEF OnExit, Plugins
<1>3. TallyAssumption /\ Types /\ \A s \in Slots : Sound(s) /\ Settled(s)
  BY <1>1 DEF TallyInv
<1>4. Types'
  <2>1. ASSUME NEW s \in Slots PROVE rows'[2][s] \subseteq SlotRows
    <3>1. rows[2][s] \subseteq SlotRows /\ instructions[s] \in Events
      BY <1>3 DEF Types
    <3>2. Row(FALSE, instructions[s]) \in SlotRows
      BY <3>1, SlotRowIs
    <3>3. DrainInstructions(s) \subseteq SlotRows
      BY <3>2 DEF DrainInstructions, InstructionRows
    <3>. QED  BY <1>2, <3>1, <3>3
  <2>2. instructions' \in [Slots -> Events]
    BY <1>1, NoEventIs
  <2>3. programs' = [s \in Slots |-> programs'[s]] /\ mentions' = [s \in Slots |-> mentions'[s]]
    BY <1>1
  <2>. QED  BY <1>1, <1>2, <1>3, <2>1, <2>2, <2>3 DEF Types
<1>5. 1 \in Plugins /\ 2 \in Plugins /\ 3 \in Plugins /\ \A p \in Plugins : p \in {1, 2, 3}
  BY DEF Plugins
<1>6. ASSUME NEW s \in Slots PROVE Sound(s)' /\ Rowed(s)'
  <2>1. Sound(s) /\ Settled(s) /\ Types /\ instructions[s] \in Events /\ given[s] \in Seq(Shapes)
    BY <1>3 DEF Types
  <2>2. CASE Taken(s)
    <3>1. Empty(s) /\ Rowed(s)
      BY <2>2 DEF Taken
    <3>2. DrainPrograms(s) = {} /\ DrainInstructions(s) = {} /\ DrainMentions(s) = {}
      BY <3>1 DEF Empty, DrainPrograms, ProgramRows, DrainInstructions, InstructionRows, DrainMentions, MentionRows
    <3>3. SameAt(s)
      BY <1>1, <1>2, <1>5, <3>1, <3>2 DEF SameAt, Empty
    <3>. QED  BY <2>1, <3>1, <3>3, SlotStays
  <2>3. CASE Kept(s)
    <3>1. /\ rows[1][s] = {} /\ rows[2][s] = {} /\ rows[3][s] = {} /\ status[s] = {}
          /\ Counted(s) = Len(given[s]) /\ (given[s] # <<>> => mentions[s] # Nothing)
      BY <1>5, <2>3 DEF Kept, Clean
    <3>2. /\ rows'[1][s] = {Row(FALSE, b) : b \in ProgramRows(s)}
          /\ rows'[2][s] = {Row(FALSE, b) : b \in InstructionRows(s)}
          /\ rows'[3][s] = {Row(FALSE, b) : b \in MentionRows(s)}
      BY <1>2, <3>1 DEF DrainPrograms, DrainInstructions, DrainMentions
    <3>3. ASSUME NEW r \in rows'[1][s] PROVE r = Row(FALSE, programs[s]) /\ r.dated = FALSE
      <4>1. PICK b \in ProgramRows(s) : r = Row(FALSE, b)
        BY <3>2, <3>3
      <4>2. b = programs[s]
        BY <4>1 DEF ProgramRows
      <4>. QED  BY <4>1, <4>2, RowIs
    <3>4. ASSUME NEW r \in rows'[2][s]
          PROVE  r = Row(FALSE, instructions[s]) /\ r.dated = FALSE /\ r.body = instructions[s]
      <4>1. PICK b \in InstructionRows(s) : r = Row(FALSE, b)
        BY <3>2, <3>4
      <4>2. b = instructions[s]
        BY <4>1 DEF InstructionRows
      <4>. QED  BY <4>1, <4>2, RowIs
    <3>5. ASSUME NEW r \in rows'[3][s] PROVE r = Row(FALSE, mentions[s]) /\ r.dated = FALSE
      <4>1. PICK b \in MentionRows(s) : r = Row(FALSE, b)
        BY <3>2, <3>5
      <4>2. b = mentions[s]
        BY <4>1 DEF MentionRows
      <4>. QED  BY <4>1, <4>2, RowIs
    <3>6. ASSUME NEW p \in Plugins PROVE \A r, q \in rows'[p][s] : r.dated = FALSE /\ r = q
      <4>1. CASE p = 1
        BY <3>3, <4>1
      <4>2. CASE p = 2
        BY <3>4, <4>2
      <4>3. CASE p = 3
        BY <3>5, <4>3
      <4>. QED  BY <1>5, <4>1, <4>2, <4>3
    <3>7. Sound(s)'
      <4>1. Empty(s)'
        BY <1>1 DEF Empty
      <4>2. \E d \in BOOLEAN : \A p \in Plugins : \A r \in rows'[p][s] : r.dated = d
        BY <3>6
      <4>3. status'[s] = {} /\ Len(given[s]) <= MaxTxs /\ (s \in Skipped => given[s] = <<>>)
        BY <1>1, <2>1, <3>1 DEF Sound
      <4>4. \A r \in rows'[2][s] : r.body.voteTxs + r.body.otherTxs = Len(given'[s])
        BY <1>1, <3>1, <3>4 DEF Counted
      <4>. QED  BY <1>1, <3>6, <4>1, <4>2, <4>3, <4>4 DEF Sound
    <3>8. Rowed(s)'
      <4> SUFFICES ASSUME given[s] # <<>> PROVE rows'[2][s] # {} /\ rows'[3][s] # {}
        BY <1>1 DEF Rowed
      <4>1. Counted(s) # 0
        BY <2>1, <3>1
      <4>2. instructions[s] \in InstructionRows(s) /\ mentions[s] \in MentionRows(s)
        BY <3>1, <4>1, NoEventIs DEF Counted, InstructionRows, MentionRows
      <4>3. Row(FALSE, instructions[s]) \in rows'[2][s] /\ Row(FALSE, mentions[s]) \in rows'[3][s]
        BY <3>2, <4>2
      <4>. QED  BY <4>3
    <3>. QED  BY <3>7, <3>8
  <2>. QED  BY <2>1, <2>2, <2>3 DEF Settled
<1>. QED  BY <1>1, <1>3, <1>4, <1>6
          DEF TallyInv, TallyAssumption, FeedAssumption, SkippedAssumption, ShapesAssumption

LEMMA TallyStep == TallyInv /\ [Next]_vars => TallyInv'
<1> SUFFICES ASSUME TallyInv, [Next]_vars PROVE TallyInv'
  OBVIOUS
<1>1. ASSUME NEW t \in Threads, Receive(t) PROVE TallyInv'
  BY <1>1, ReceiveKeeps
<1>2. ASSUME NEW t \in Threads, OnTransaction(t) PROVE TallyInv'
  <2> PICK s : s = Slot(t)
    OBVIOUS
  <2>1. phase = "streaming" /\ call[t].of = "transaction"
    BY <1>2 DEF OnTransaction
  <2>2. call[t].plugin \in {1, 2, 3}
    BY <2>1, TransactionIs DEF Plugins
  <2>3. Ignoring(call[t].plugin) => call[t].plugin = 1
    BY DEF Ignoring
  <2>. QED  BY <1>2, <2>2, <2>3, IgnoreTransactionKeeps, FirstPluginKeeps, SecondPluginKeeps, ThirdPluginKeeps
<1>3. ASSUME NEW t \in Threads, Close(t) PROVE TallyInv'
  BY <1>3, CloseKeeps
<1>4. ASSUME NEW t \in Threads, OnBlock(t) PROVE TallyInv'
  <2> PICK s : s = Slot(t)
    OBVIOUS
  <2>1. call[t].plugin \in {1, 2, 3}
    BY <1>4 DEF OnBlock, Plugins
  <2>2. Ignoring(call[t].plugin) => call[t].plugin = 1
    BY DEF Ignoring
  <2>. QED  BY <1>4, <2>1, <2>2, IgnoreBlockKeeps, SkippedBlockKeeps, BlockProgramsKeeps, BlockInstructionsKeeps,
               BlockMentionsKeeps
<1>5. ASSUME NEW t \in Threads, OnStatus(t) PROVE TallyInv'
  BY <1>5, OnStatusKeeps
<1>6. ASSUME NEW t \in Threads, Return(t) PROVE TallyInv'
  BY <1>6, ReturnKeeps
<1>. QED  BY <1>1, <1>2, <1>3, <1>4, <1>5, <1>6, CtrlCKeeps, StreamsEndKeeps, OnExitKeeps, OverKeeps DEF Next, Over

\* The inductive invariant of the plugins' tallies.
THEOREM TallyInvariant == TallyAssumption /\ Spec => []TallyInv
<1>1. TallyAssumption /\ Init => TallyInv
  BY TalliesStart
<1>2. TallyInv /\ [Next]_vars => TallyInv'
  BY TallyStep
<1>. QED  BY <1>1, <1>2, PTL DEF Spec

LEMMA OneAtMost ==
  ASSUME NEW S, \A r, q \in S : r = q
  PROVE  Cardinality(S) <= 1
<1>1. CASE S = {}
  BY <1>1, FS_EmptySet
<1>2. CASE S # {}
  <2>1. PICK x : x \in S
    BY <1>2
  <2>2. S = {x}
    BY <2>1
  <2>3. Cardinality({x}) = 1
    BY FS_Singleton
  <2>. QED  BY <2>2, <2>3
<1>. QED  BY <1>1, <1>2

\* Every variable keeps its type. Of each slot every plugin has at most one row, and
\* there is at most one status.
THEOREM TallyTypes == TallyAssumption /\ Spec => []TypeOK
<1>1. ASSUME TallyInv PROVE TypeOK
  <2>1. TallyAssumption /\ Types /\ (\A s \in Slots : Sound(s)) /\ MaxTxs \in Nat
    BY <1>1 DEF TallyInv, TallyAssumption, SkippedAssumption
  <2>2. \A t \in Threads : call[t].of \in {"none", "transaction", "block"}
    BY <2>1, IdleIs DEF Types, Calls
  <2>3. /\ \A p \in Plugins : \A s \in Slots : Cardinality(rows[p][s]) <= 1
        /\ \A s \in Slots : Cardinality(status[s]) <= 1
    BY <2>1, OneAtMost DEF Sound
  <2>4. given \in [Slots -> UNION {[1 .. n -> Shapes] : n \in 0 .. MaxTxs}]
    <3>1. ASSUME NEW s \in Slots PROVE given[s] \in UNION {[1 .. n -> Shapes] : n \in 0 .. MaxTxs}
      <4>1. given[s] \in Seq(Shapes) /\ Len(given[s]) <= MaxTxs
        BY <2>1 DEF Types, Sound
      <4>2. PICK n : n = Len(given[s])
        OBVIOUS
      <4>3. given[s] \in [1 .. n -> Shapes] /\ n \in 0 .. MaxTxs
        BY <2>1, <4>1, <4>2
      <4>. QED  BY <4>3
    <3>2. given = [s \in Slots |-> given[s]]
      BY <2>1 DEF Types
    <3>. QED  BY <3>1, <3>2
  <2>. QED  BY <2>1, <2>2, <2>3, <2>4 DEF TypeOK, Types, TallyRecords, Events
<1>. QED  BY <1>1, TallyInvariant, PTL

\* Of a slot, either every plugin's row carries the block time or none does: a shutdown
\* does not come between the plugins of one callback.
THEOREM RowsDatedTogether == TallyAssumption /\ Spec => []DatedTogether
<1>1. ASSUME TallyInv PROVE DatedTogether
  <2> SUFFICES ASSUME NEW s \in Slots, NEW p \in Plugins, NEW q \in Plugins, Body(p, s) # {}, Body(q, s) # {}
               PROVE  {r.dated : r \in rows[p][s]} = {r.dated : r \in rows[q][s]}
    BY DEF DatedTogether
  <2>1. PICK d \in BOOLEAN : \A o \in Plugins : \A r \in rows[o][s] : r.dated = d
    BY <1>1 DEF TallyInv, Sound
  <2>2. rows[p][s] # {} /\ rows[q][s] # {}
    BY DEF Body
  <2>3. {r.dated : r \in rows[p][s]} = {d} /\ {r.dated : r \in rows[q][s]} = {d}
    BY <2>1, <2>2
  <2>. QED  BY <2>3
<1>. QED  BY <1>1, TallyInvariant, PTL

\* The status of a slot counts the transactions its rows count, which carry the block
\* time, and its votes are among those with a vote instruction.
THEOREM StatusMatchesRows == TallyAssumption /\ Spec => []StatusAgrees
<1>1. ASSUME TallyInv PROVE StatusAgrees
  <2>1. \A s \in Slots : Sound(s)
    BY <1>1 DEF TallyInv
  <2>. QED  BY <2>1 DEF StatusAgrees, Sound, Agrees
<1>. QED  BY <1>1, TallyInvariant, PTL

\* A slot's row counts every transaction that the plugins were given, none twice, and
\* at the end a slot with a transaction has its rows, whether the block was reported
\* or Ctrl-C stopped the run in the middle of it.
THEOREM NoTransactionLost == TallyAssumption /\ Spec => []EveryTransaction
<1>1. ASSUME TallyInv PROVE EveryTransaction
  <2> SUFFICES ASSUME NEW s \in Slots
               PROVE  /\ \A b \in Body(2, s) : b.voteTxs + b.otherTxs = Len(given[s])
                      /\ phase = "done" /\ given[s] # <<>> => Body(2, s) # {} /\ Body(3, s) # {}
    BY DEF EveryTransaction
  <2>1. Sound(s) /\ (phase = "done" => Rowed(s))
    BY <1>1 DEF TallyInv
  <2>2. \A b \in Body(2, s) : b.voteTxs + b.otherTxs = Len(given[s])
    BY <2>1 DEF Sound, Body
  <2>3. \A p : rows[p][s] # {} => Body(p, s) # {}
    BY DEF Body
  <2>. QED  BY <2>1, <2>2, <2>3 DEF Rowed
<1>. QED  BY <1>1, TallyInvariant, PTL

-----------------------------------------------------------------------------
(* The logs.                                                               *)

Complaint(q) == <<Helper!Pid(q), Helper!Conflict>>
Logs == {<<>>, <<Helper!Ready>>, <<Helper!Conflict>>} \cup {Complaint(q) : q \in Runs}
Complains(log) == log = <<Helper!Conflict>> \/ \E q \in Runs : log = Complaint(q)

\* What the monitor makes of a log.
LEMMA LogLines ==
  ASSUME NEW log \in Logs, log # <<>>
  PROVE  /\ Head(log).kind = "ready" => log = <<Helper!Ready>>
         /\ Head(log).kind = "pid" => \E q \in Runs : log = Complaint(q)
         /\ Head(log).kind = "conflict" => log = <<Helper!Conflict>>
<1>1. CASE log = <<Helper!Ready>> \/ log = <<Helper!Conflict>>
  BY <1>1 DEF Helper!Ready, Helper!Conflict
<1>2. CASE \E q \in Runs : log = Complaint(q)
  BY <1>2 DEF Complaint, Helper!Pid, Helper!Conflict
<1>. QED  BY <1>1, <1>2 DEF Logs

LEMMA LogsDiffer ==
  /\ <<Helper!Ready>> # <<>> /\ <<Helper!Conflict>> # <<>> /\ <<Helper!Ready>> # <<Helper!Conflict>>
  /\ \A q : Complaint(q) # <<>> /\ Complaint(q) # <<Helper!Ready>> /\ Complaint(q) # <<Helper!Conflict>>
  /\ \A p, q : Complaint(p) = Complaint(q) => p = q
<1>1. <<Helper!Ready>> # <<>> /\ <<Helper!Conflict>> # <<>> /\ <<Helper!Ready>> # <<Helper!Conflict>>
  BY DEF Helper!Ready, Helper!Conflict
<1>2. \A q : Complaint(q) # <<>> /\ Complaint(q) # <<Helper!Ready>> /\ Complaint(q) # <<Helper!Conflict>>
  BY DEF Complaint, Helper!Ready, Helper!Conflict, Helper!Pid
<1>3. \A p, q : Complaint(p) = Complaint(q) => p = q
  BY DEF Complaint, Helper!Pid
<1>. QED  BY <1>1, <1>2, <1>3

LEMMA LogsGrow ==
  /\ Append(<<>>, Helper!Ready) = <<Helper!Ready>> /\ Append(<<>>, Helper!Conflict) = <<Helper!Conflict>>
  /\ \A q : <<>> \o <<Helper!Pid(q), Helper!Conflict>> = Complaint(q)
  BY DEF Complaint

LEMMA LogsShrink ==
  /\ Tail(<<Helper!Ready>>) = <<>> /\ Tail(<<Helper!Conflict>>) = <<>>
  /\ \A q : Tail(Complaint(q)) = <<Helper!Conflict>> /\ Head(Complaint(q)).pid = q
  BY DEF Complaint, Helper!Pid
-----------------------------------------------------------------------------
(* What is so of every run.                                                *)

HelperKinds ==
  /\ helperPhase \in [Runs -> Helper!Phases]
  /\ server \in [Runs -> Helper!States]
  /\ lines \in [Runs -> Logs]
  /\ monitor \in [Runs -> {"none", "watching", "gone"}]
  /\ other \in [Runs -> Runs \cup {Helper!Nobody}]
  /\ sent \in [Runs -> BOOLEAN]
  /\ task \in [Runs -> Helper!Tasks]
  /\ cell \in [Helper!Hosts -> Runs \cup {Helper!Nobody}]

\* Nothing has been heard of the server.
Silent(r) == lines[r] = <<>> /\ ~sent[r] /\ other[r] = Helper!Nobody

\* How far the server of a run has come, what its log holds, what was made of it.
Course(r) ==
  /\ helperPhase[r] = "idle" => server[r] = "none"
  /\ server[r] = "none" => helperPhase[r] = "idle" /\ Silent(r)
  /\ server[r] = "booting" => helperPhase[r] = "starting" /\ monitor[r] = "watching" /\ Silent(r)
  /\ server[r] = "refused" => helperPhase[r] \in {"starting", "failed"} /\ ~sent[r] /\ lines[r] # <<Helper!Ready>>
  /\ Complains(lines[r]) =>
       /\ server[r] \in {"refused", "dead"} /\ helperPhase[r] = "starting"
       /\ monitor[r] = "watching" /\ ~sent[r] /\ lines[r] # Complaint(r)
  /\ other[r] # Helper!Nobody =>
       other[r] # r /\ server[r] \in {"refused", "dead"} /\ ~sent[r] /\ lines[r] # <<Helper!Ready>>
  /\ sent[r] => lines[r] = <<>>
  /\ helperPhase[r] \in {"running", "stopping", "joining", "done", "aborted"} => sent[r]
  /\ task[r] = "none" <=> helperPhase[r] \in {"idle", "starting", "failed"}
  /\ task[r] = "finished" => server[r] = "dead"

HelperInv == Helper!HostAssumption /\ HelperKinds /\ \A r \in Runs : Course(r)

LEMMA HelperStarts == Helper!HostAssumption /\ Helper!Init => HelperInv
<1> SUFFICES ASSUME Helper!HostAssumption, Helper!Init PROVE HelperInv
  OBVIOUS
<1>1. HelperKinds
  BY DEF Helper!Init, HelperKinds, Helper!Phases, Helper!States, Helper!Tasks, Logs, Helper!Ended
<1>2. ASSUME NEW r \in Runs PROVE Course(r)
  BY <1>2, LogsDiffer DEF Helper!Init, Course, Silent, Complains
<1>. QED  BY <1>1, <1>2 DEF HelperInv

\* A run that a step leaves alone.
LEMMA Untouched ==
  ASSUME NEW p \in Runs, Course(p), helperPhase'[p] = helperPhase[p], server'[p] = server[p], lines'[p] = lines[p],
         monitor'[p] = monitor[p], other'[p] = other[p], sent'[p] = sent[p], task'[p] = task[p]
  PROVE  Course(p)'
  BY DEF Course, Silent

LEMMA BootKeeps ==
  ASSUME HelperInv, NEW r \in Runs, Helper!Boot(r)
  PROVE  HelperInv'
<1>1. HelperKinds /\ Course(r) /\ server[r] = "booting" /\ lines[r] = <<>>
  BY DEF HelperInv, Helper!Boot, Course, Silent
<1>2. lines' = [lines EXCEPT ![r] = <<Helper!Ready>>]
  BY <1>1, LogsGrow DEF Helper!Boot, HelperKinds
<1>3. HelperKinds'
  BY <1>1, <1>2 DEF Helper!Boot, HelperKinds, Helper!runner, Helper!watch, Helper!States, Logs
<1>4. Course(r)'
  BY <1>1, <1>2, LogsDiffer DEF Helper!Boot, HelperKinds, Course, Silent, Complains, Helper!runner, Helper!watch
<1>5. ASSUME NEW p \in Runs, p # r PROVE Course(p)'
  BY <1>1, <1>2, <1>5, Untouched DEF Helper!Boot, HelperKinds, HelperInv, Helper!runner, Helper!watch
<1>. QED  BY <1>3, <1>4, <1>5 DEF HelperInv

LEMMA RefuseKeeps ==
  ASSUME HelperInv, NEW r \in Runs, Helper!Refuse(r)
  PROVE  HelperInv'
<1>1. HelperKinds /\ Course(r) /\ server[r] = "booting" /\ lines[r] = <<>>
  BY DEF HelperInv, Helper!Refuse, Course, Silent
<1>2. PICK log \in Logs : lines' = [lines EXCEPT ![r] = log] /\ Complains(log) /\ log # Complaint(r)
  <2>1. PICK q \in Runs :
          /\ Helper!Holds(q)
          /\ \/ lines' = [lines EXCEPT ![r] = Complaint(q)]
             \/ lines' = [lines EXCEPT ![r] = <<Helper!Conflict>>]
    BY <1>1, LogsGrow DEF Helper!Refuse, HelperKinds
  <2>2. q # r
    BY <1>1, <2>1 DEF Helper!Holds
  <2>3. Complaint(q) \in Logs /\ Complains(Complaint(q)) /\ Complaint(q) # Complaint(r)
    BY <2>2, LogsDiffer DEF Logs, Complains
  <2>4. <<Helper!Conflict>> \in Logs /\ Complains(<<Helper!Conflict>>) /\ <<Helper!Conflict>> # Complaint(r)
    BY LogsDiffer DEF Logs, Complains
  <2>. QED  BY <2>1, <2>3, <2>4
<1>3. HelperKinds'
  BY <1>1, <1>2 DEF Helper!Refuse, HelperKinds, Helper!runner, Helper!watch, Helper!States
<1>4. log # <<>> /\ log # <<Helper!Ready>>
  BY <1>2, LogsDiffer DEF Complains
<1>5. Course(r)'
  BY <1>1, <1>2, <1>4 DEF Helper!Refuse, HelperKinds, Course, Silent, Helper!runner, Helper!watch
<1>6. ASSUME NEW p \in Runs, p # r PROVE Course(p)'
  BY <1>1, <1>2, <1>6, Untouched DEF Helper!Refuse, HelperKinds, HelperInv, Helper!runner, Helper!watch
<1>. QED  BY <1>3, <1>5, <1>6 DEF HelperInv

LEMMA ServerEndKeeps ==
  ASSUME HelperInv, NEW r \in Runs, Helper!Exit(r) \/ Helper!Die(r)
  PROVE  HelperInv'
<1>1. HelperKinds /\ Course(r) /\ server[r] # "none" /\ server' = [server EXCEPT ![r] = "dead"]
      /\ UNCHANGED <<Helper!runner, lines, Helper!watch>>
  BY DEF HelperInv, Helper!Exit, Helper!Die
<1>2. HelperKinds'
  BY <1>1 DEF HelperKinds, Helper!runner, Helper!watch, Helper!States
<1>3. Course(r)'
  BY <1>1, LogsDiffer DEF HelperKinds, Course, Silent, Complains, Helper!runner, Helper!watch
<1>4. ASSUME NEW p \in Runs, p # r PROVE Course(p)'
  BY <1>1, <1>4, Untouched DEF HelperKinds, HelperInv, Helper!runner, Helper!watch
<1>. QED  BY <1>2, <1>3, <1>4 DEF HelperInv

LEMMA SeesReadyKeeps ==
  ASSUME HelperInv, NEW r \in Runs, Helper!SeesReady(r)
  PROVE  HelperInv'
<1>1. HelperKinds /\ Course(r) /\ lines[r] \in Logs /\ lines[r] # <<>> /\ Head(lines[r]).kind = "ready"
  BY DEF HelperInv, Helper!SeesReady, Helper!Line, HelperKinds
<1>2. lines[r] = <<Helper!Ready>>
  BY <1>1, LogLines
<1>3. lines' = [lines EXCEPT ![r] = <<>>]
  BY <1>1, <1>2, LogsShrink DEF Helper!SeesReady, Helper!Line, HelperKinds
<1>4. HelperKinds'
  BY <1>1, <1>3 DEF Helper!SeesReady, HelperKinds, Helper!runner, Logs
<1>5. Course(r)'
  BY <1>1, <1>2, <1>3, LogsDiffer DEF Helper!SeesReady, HelperKinds, Course, Silent, Complains, Helper!runner
<1>6. ASSUME NEW p \in Runs, p # r PROVE Course(p)'
  BY <1>1, <1>3, <1>6, Untouched DEF Helper!SeesReady, HelperKinds, HelperInv, Helper!runner
<1>. QED  BY <1>4, <1>5, <1>6 DEF HelperInv

LEMMA SeesPidKeeps ==
  ASSUME HelperInv, NEW r \in Runs, Helper!SeesPid(r)
  PROVE  /\ HelperInv'
         /\ \E q \in Runs \ {r} :
              /\ lines[r] = Complaint(q)
              /\ lines' = [lines EXCEPT ![r] = <<Helper!Conflict>>]
              /\ other' = [other EXCEPT ![r] = q]
<1>1. HelperKinds /\ Course(r) /\ lines[r] \in Logs /\ lines[r] # <<>> /\ Head(lines[r]).kind = "pid"
  BY DEF HelperInv, Helper!SeesPid, Helper!Line, HelperKinds
<1>2. PICK q \in Runs : lines[r] = Complaint(q)
  BY <1>1, LogLines
<1>3. lines' = [lines EXCEPT ![r] = <<Helper!Conflict>>] /\ other' = [other EXCEPT ![r] = q]
  BY <1>1, <1>2, LogsShrink DEF Helper!SeesPid, Helper!Line, HelperKinds, Helper!Named
<1>4. q # r
  BY <1>1, <1>2 DEF Course, Complains
<1>5. HelperKinds'
  BY <1>1, <1>3 DEF Helper!SeesPid, HelperKinds, Helper!runner, Logs
<1>6. Course(r)'
  BY <1>1, <1>2, <1>3, <1>4, LogsDiffer DEF Helper!SeesPid, HelperKinds, Course, Silent, Complains, Helper!runner
<1>7. ASSUME NEW p \in Runs, p # r PROVE Course(p)'
  BY <1>1, <1>3, <1>7, Untouched DEF Helper!SeesPid, HelperKinds, HelperInv, Helper!runner
<1>. QED  BY <1>2, <1>3, <1>4, <1>5, <1>6, <1>7 DEF HelperInv

\* SIGTERM.
LEMMA Signalled ==
  ASSUME HelperKinds, NEW q \in Runs, NEW p \in Runs, server' = Helper!Term(q)
  PROVE  /\ server' \in [Runs -> Helper!States]
         /\ server'[p] # server[p] => p = q /\ server[p] \in {"booting", "serving"} /\ server'[p] = "dying"
         /\ server[q] \in {"booting", "serving"} => server'[q] = "dying"
  BY DEF HelperKinds, Helper!Term, Helper!States

LEMMA SignalledCourse ==
  ASSUME HelperKinds, NEW p \in Runs, Course(p), server[p] \in {"booting", "serving"}, server'[p] = "dying",
         helperPhase'[p] = helperPhase[p] \/ (helperPhase[p] = "stopping" /\ helperPhase'[p] = "joining"),
         lines'[p] = lines[p], monitor'[p] = monitor[p], other'[p] = other[p], sent'[p] = sent[p], task'[p] = task[p]
  PROVE  Course(p)'
  BY LogsDiffer DEF Course, Silent, Complains

LEMMA SeesConflictIs ==
  ASSUME HelperInv, NEW r \in Runs, Helper!SeesConflict(r)
  PROVE  /\ lines[r] = <<Helper!Conflict>> /\ Complains(lines[r])
         /\ lines' = [lines EXCEPT ![r] = <<>>]
         /\ server' = server \/ \E q \in Runs \ {r} : q \in Helper!Owners(r) /\ server' = Helper!Term(q)
<1>1. HelperKinds /\ Course(r) /\ lines[r] \in Logs /\ lines[r] # <<>> /\ Head(lines[r]).kind = "conflict"
  BY DEF HelperInv, Helper!SeesConflict, Helper!Line, HelperKinds
<1>2. lines[r] = <<Helper!Conflict>>
  BY <1>1, LogLines
<1>3. lines' = [lines EXCEPT ![r] = <<>>]
  BY <1>1, <1>2, LogsShrink DEF Helper!SeesConflict, Helper!Line, HelperKinds
<1>4. Helper!Owners(r) \subseteq Runs \ {r}
  BY <1>1 DEF Helper!Owners, Helper!Found, HelperKinds, Course
<1>. QED  BY <1>2, <1>3, <1>4 DEF Complains, Helper!SeesConflict

LEMMA SeesConflictKeeps ==
  ASSUME HelperInv, NEW r \in Runs, Helper!SeesConflict(r)
  PROVE  HelperInv'
<1>1. HelperKinds /\ Course(r) /\ UNCHANGED <<helperPhase, task, cell, other, sent>>
      /\ monitor' = [monitor EXCEPT ![r] = "gone"]
  BY DEF HelperInv, Helper!SeesConflict, Helper!runner, Helper!AfterKill
<1>2. lines[r] = <<Helper!Conflict>> /\ Complains(lines[r]) /\ lines' = [lines EXCEPT ![r] = <<>>]
  BY SeesConflictIs
<1>3. /\ server' \in [Runs -> Helper!States]
      /\ server'[r] = server[r]
      /\ \A p \in Runs : server'[p] # server[p] => server[p] \in {"booting", "serving"} /\ server'[p] = "dying"
  <2>1. CASE server' = server
    BY <1>1, <2>1 DEF HelperKinds
  <2>2. CASE \E q \in Runs \ {r} : q \in Helper!Owners(r) /\ server' = Helper!Term(q)
    BY <1>1, <2>2, Signalled
  <2>. QED  BY <2>1, <2>2, SeesConflictIs
<1>4. HelperKinds'
  BY <1>1, <1>2, <1>3 DEF HelperKinds, Logs
<1>5. Course(r)'
  BY <1>1, <1>2, <1>3, LogsDiffer DEF HelperKinds, Course, Silent, Complains
<1>6. ASSUME NEW p \in Runs, p # r PROVE Course(p)'
  <2>1. /\ Course(p) /\ helperPhase'[p] = helperPhase[p] /\ lines'[p] = lines[p] /\ monitor'[p] = monitor[p]
        /\ other'[p] = other[p] /\ sent'[p] = sent[p] /\ task'[p] = task[p]
    BY <1>1, <1>2, <1>6 DEF HelperInv, HelperKinds
  <2>2. CASE server'[p] = server[p]
    BY <2>1, <2>2, Untouched
  <2>3. CASE server'[p] # server[p]
    <3>1. server[p] \in {"booting", "serving"} /\ server'[p] = "dying"
      BY <1>3, <2>3
    <3>. QED  BY <1>1, <2>1, <3>1, SignalledCourse
  <2>. QED  BY <2>2, <2>3
<1>. QED  BY <1>4, <1>5, <1>6 DEF HelperInv

LEMMA LaunchKeeps ==
  ASSUME HelperInv, NEW r \in Runs, Helper!Launch(r)
  PROVE  HelperInv'
<1>1. HelperKinds /\ Course(r) /\ helperPhase[r] = "idle" /\ server[r] = "none" /\ Silent(r)
  BY DEF HelperInv, Helper!Launch, Course
<1>2. HelperKinds'
  BY <1>1 DEF Helper!Launch, HelperKinds, Helper!Phases, Helper!States
<1>3. Course(r)'
  BY <1>1, LogsDiffer DEF Helper!Launch, HelperKinds, Course, Silent, Complains
<1>4. ASSUME NEW p \in Runs, p # r PROVE Course(p)'
  BY <1>1, <1>4, Untouched DEF Helper!Launch, HelperKinds, HelperInv
<1>. QED  BY <1>2, <1>3, <1>4 DEF HelperInv

\* Steps of run and of its task that signal nobody.
LEMMA RunnerKeeps ==
  ASSUME HelperInv, NEW r \in Runs,
         Helper!ReceiveReady(r) \/ Helper!ReceiveNone(r) \/ Helper!RunReturns(r) \/ Helper!Join(r) \/ Helper!Abort(r)
  PROVE  HelperInv'
<1>1. HelperKinds /\ Course(r) /\ UNCHANGED <<server, lines, other, sent, cell>>
  BY DEF HelperInv, Helper!ReceiveReady, Helper!ReceiveNone, Helper!RunReturns, Helper!Join, Helper!Abort, Helper!watch
<1>2. HelperKinds'
  BY <1>1 DEF Helper!ReceiveReady, Helper!ReceiveNone, Helper!RunReturns, Helper!Join, Helper!Abort, HelperKinds,
     Helper!Phases, Helper!Ended, Helper!Tasks, Helper!watch
<1>3. Course(r)'
  <2>1. CASE Helper!ReceiveReady(r)
    BY <1>1, <2>1, LogsDiffer DEF Helper!ReceiveReady, HelperKinds, Course, Silent, Complains, Helper!watch
  <2>2. CASE Helper!ReceiveNone(r)
    BY <1>1, <2>2, LogsDiffer DEF Helper!ReceiveNone, HelperKinds, Course, Silent, Complains, Helper!watch
  <2>3. CASE Helper!RunReturns(r) \/ Helper!Join(r)
    BY <1>1, <2>3, LogsDiffer DEF Helper!RunReturns, Helper!Join, HelperKinds, Course, Silent, Complains, Helper!watch
  <2>4. CASE Helper!Abort(r)
    BY <1>1, <2>4, LogsDiffer DEF Helper!Abort, HelperKinds, Course, Silent, Complains, Helper!watch
  <2>. QED  BY <2>1, <2>2, <2>3, <2>4
<1>4. ASSUME NEW p \in Runs, p # r PROVE Course(p)'
  <2>1. Course(p) /\ helperPhase'[p] = helperPhase[p] /\ monitor'[p] = monitor[p] /\ task'[p] = task[p]
    BY <1>1, <1>4 DEF HelperInv, Helper!ReceiveReady, Helper!ReceiveNone, Helper!RunReturns, Helper!Join,
       Helper!Abort, HelperKinds, Helper!watch
  <2>. QED  BY <1>1, <2>1, Untouched
<1>. QED  BY <1>2, <1>3, <1>4 DEF HelperInv

LEMMA TaskKeeps ==
  ASSUME HelperInv, NEW r \in Runs, Helper!Task(r)
  PROVE  HelperInv'
<1>1. HelperKinds /\ Course(r) /\ UNCHANGED <<helperPhase, server, lines, Helper!watch>>
  BY DEF HelperInv, Helper!Task, Helper!PollTask, Helper!TaskEnds
<1>2. PICK t \in {"waiting", "panicked", "finished"} :
        /\ task' = [task EXCEPT ![r] = t]
        /\ task[r] \in {"spawned", "waiting"}
        /\ t = "finished" => server[r] = "dead"
  BY DEF Helper!Task, Helper!PollTask, Helper!TaskEnds
<1>3. cell' \in [Helper!Hosts -> Runs \cup {Helper!Nobody}]
  <2>1. Host[r] \in Helper!Hosts
    BY DEF Helper!Hosts
  <2>. QED  BY <1>1, <2>1 DEF Helper!Task, Helper!PollTask, Helper!TaskEnds, HelperKinds
<1>4. HelperKinds'
  BY <1>1, <1>2, <1>3 DEF HelperKinds, Helper!Tasks, Helper!watch
<1>5. Course(r)'
  BY <1>1, <1>2 DEF HelperKinds, Course, Silent, Helper!watch
<1>6. ASSUME NEW p \in Runs, p # r PROVE Course(p)'
  BY <1>1, <1>2, <1>6, Untouched DEF HelperInv, HelperKinds, Helper!watch
<1>. QED  BY <1>4, <1>5, <1>6 DEF HelperInv

\* stop signals some run's server, or none.
LEMMA StopSignals ==
  ASSUME HelperInv, NEW r \in Runs, Helper!Stop(r)
  PROVE  \/ server' = server
         \/ cell[Host[r]] \in Runs /\ server' = Helper!Term(cell[Host[r]])
<1>1. Host[r] \in Helper!Hosts
  BY DEF Helper!Hosts
<1>. QED  BY <1>1 DEF Helper!Stop, Helper!Kill, HelperInv, HelperKinds

LEMMA StopKeeps ==
  ASSUME HelperInv, NEW r \in Runs, Helper!Stop(r)
  PROVE  HelperInv'
<1>1. /\ HelperKinds /\ helperPhase[r] = "stopping" /\ helperPhase' = [helperPhase EXCEPT ![r] = "joining"]
      /\ UNCHANGED <<lines, Helper!watch, task, cell>>
  BY DEF HelperInv, Helper!Stop
<1>2. /\ server' \in [Runs -> Helper!States]
      /\ \A p \in Runs : server'[p] # server[p] => server[p] \in {"booting", "serving"} /\ server'[p] = "dying"
  <2>1. CASE server' = server
    BY <1>1, <2>1 DEF HelperKinds
  <2>2. CASE cell[Host[r]] \in Runs /\ server' = Helper!Term(cell[Host[r]])
    BY <1>1, <2>2, Signalled
  <2>. QED  BY <2>1, <2>2, StopSignals
<1>3. HelperKinds'
  BY <1>1, <1>2 DEF HelperKinds, Helper!Phases, Helper!watch
<1>4. ASSUME NEW p \in Runs PROVE Course(p)'
  <2>1. /\ Course(p) /\ lines'[p] = lines[p] /\ monitor'[p] = monitor[p]
        /\ other'[p] = other[p] /\ sent'[p] = sent[p] /\ task'[p] = task[p]
    BY <1>1 DEF HelperInv, HelperKinds, Helper!watch
  <2>2. helperPhase'[p] = helperPhase[p] \/ (helperPhase[p] = "stopping" /\ helperPhase'[p] = "joining")
    BY <1>1 DEF HelperKinds
  <2>3. CASE server'[p] = server[p]
    BY <2>1, <2>2, <2>3 DEF Course, Silent
  <2>4. CASE server'[p] # server[p]
    BY <1>1, <1>2, <2>1, <2>2, <2>4, SignalledCourse
  <2>. QED  BY <2>3, <2>4
<1>. QED  BY <1>3, <1>4 DEF HelperInv

LEMMA HelperKept == HelperInv /\ [Helper!Next]_(Helper!vars) => HelperInv'
<1> SUFFICES ASSUME HelperInv, [Helper!Next]_(Helper!vars) PROVE HelperInv'
  OBVIOUS
<1>1. ASSUME NEW r \in Runs, Helper!Server(r) \/ Helper!Die(r) PROVE HelperInv'
  BY <1>1, BootKeeps, RefuseKeeps, ServerEndKeeps DEF Helper!Server
<1>2. ASSUME NEW r \in Runs, Helper!Monitor(r) PROVE HelperInv'
  BY <1>2, SeesReadyKeeps, SeesPidKeeps, SeesConflictKeeps DEF Helper!Monitor
<1>3. ASSUME NEW r \in Runs, Helper!Runner(r) \/ Helper!Task(r) \/ Helper!Launch(r) \/ Helper!Abort(r) PROVE HelperInv'
  BY <1>3, RunnerKeeps, StopKeeps, TaskKeeps, LaunchKeeps DEF Helper!Runner
<1>4. ASSUME UNCHANGED Helper!vars PROVE HelperInv'
  BY <1>4 DEF Helper!vars, HelperInv, HelperKinds, Course, Silent
<1>. QED  BY <1>1, <1>2, <1>3, <1>4 DEF Helper!Next, Helper!Quiet

\* The inductive invariant of all runs of the helper.
THEOREM HelperInvariant == Helper!HostAssumption /\ Helper!Spec => []HelperInv
<1>1. Helper!HostAssumption /\ Helper!Init => HelperInv
  BY HelperStarts
<1>2. HelperInv /\ [Helper!Next]_(Helper!vars) => HelperInv'
  BY HelperKept
<1>. QED  BY <1>1, <1>2, PTL DEF Helper!Spec

\* Every variable keeps its type: a log names servers of runs only, so that what is
\* killed is one of them.
THEOREM HelperTypes == Helper!HostAssumption /\ Helper!Spec => []Helper!TypeOK
<1>1. ASSUME HelperInv PROVE Helper!TypeOK
  <2>1. Logs \subseteq Seq({Helper!Ready, Helper!Conflict} \cup {Helper!Pid(r) : r \in Runs})
    <3> DEFINE L == {Helper!Ready, Helper!Conflict} \cup {Helper!Pid(r) : r \in Runs}
    <3>1. <<>> \in Seq(L) /\ <<Helper!Ready>> \in Seq(L) /\ <<Helper!Conflict>> \in Seq(L)
      OBVIOUS
    <3>2. ASSUME NEW q \in Runs PROVE Complaint(q) \in Seq(L)
      <4>1. Helper!Pid(q) \in L /\ Helper!Conflict \in L
        OBVIOUS
      <4> HIDE DEF L
      <4>. QED  BY <4>1 DEF Complaint
    <3>. QED  BY <3>1, <3>2 DEF Logs
  <2>. QED  BY <1>1, <2>1 DEF HelperInv, HelperKinds, Helper!TypeOK
<1>. QED  BY <1>1, HelperInvariant, PTL

-----------------------------------------------------------------------------
(* Runs in processes of their own.                                         *)

OwnProcess == \A p, q \in Runs : Host[p] = Host[q] => p = q

\* CLICKHOUSE_PROCESS of the process of a run is set by the task of that run.
CellOf(r) ==
  /\ cell[Host[r]] \in {Helper!Nobody, r}
  /\ cell[Host[r]] = r <=> task[r] \in {"waiting", "finished"}
  /\ task[r] # "panicked"
  /\ helperPhase[r] = "done" => task[r] = "finished"
  /\ Prompt => /\ helperPhase[r] \in {"stopping", "joining"} => task[r] # "spawned"
               /\ helperPhase[r] = "joining" => server[r] \in {"dying", "dead"}

OwnInv == OwnProcess /\ HelperInv /\ \A r \in Runs : CellOf(r)

LEMMA OwnStarts == Helper!HostAssumption /\ OwnProcess /\ Helper!Init => OwnInv
<1> SUFFICES ASSUME Helper!HostAssumption, OwnProcess, Helper!Init PROVE OwnInv
  OBVIOUS
<1>1. ASSUME NEW r \in Runs PROVE CellOf(r)
  <2>1. Host[r] \in Helper!Hosts /\ r # Helper!Nobody
    BY DEF Helper!Hosts, Helper!HostAssumption
  <2>. QED  BY <2>1 DEF Helper!Init, CellOf
<1>. QED  BY <1>1, HelperStarts DEF OwnInv

\* A server that is ending or gone stays so.
LEMMA EndIsFinal ==
  ASSUME HelperInv, [Helper!Next]_(Helper!vars), NEW p \in Runs, server[p] \in {"dying", "dead"}
  PROVE  server'[p] \in {"dying", "dead"}
<1> USE DEF HelperInv, HelperKinds
<1>1. ASSUME NEW r \in Runs, Helper!Server(r) \/ Helper!Die(r) PROVE server'[p] \in {"dying", "dead"}
  BY <1>1 DEF Helper!Server, Helper!Boot, Helper!Refuse, Helper!Exit, Helper!Die
<1>2. ASSUME NEW q \in Runs, server' = Helper!Term(q) PROVE server'[p] \in {"dying", "dead"}
  BY <1>2 DEF Helper!Term
<1>3. ASSUME NEW r \in Runs, Helper!Monitor(r) PROVE server'[p] \in {"dying", "dead"}
  BY <1>2, <1>3, SeesConflictIs DEF Helper!Monitor, Helper!SeesReady, Helper!SeesPid
<1>4. ASSUME NEW r \in Runs, Helper!Launch(r) PROVE server'[p] \in {"dying", "dead"}
  BY <1>4 DEF Helper!Launch, Course
<1>5. ASSUME NEW r \in Runs, Helper!Stop(r) PROVE server'[p] \in {"dying", "dead"}
  BY <1>2, <1>5, StopSignals
<1>6. ASSUME NEW r \in Runs, Helper!ReceiveReady(r) \/ Helper!ReceiveNone(r) \/ Helper!RunReturns(r)
             \/ Helper!Join(r) \/ Helper!Abort(r) \/ Helper!Task(r)
      PROVE  server'[p] \in {"dying", "dead"}
  BY <1>6 DEF Helper!ReceiveReady, Helper!ReceiveNone, Helper!RunReturns, Helper!Join, Helper!Abort, Helper!Task,
     Helper!PollTask, Helper!TaskEnds
<1>7. ASSUME UNCHANGED Helper!vars PROVE server'[p] \in {"dying", "dead"}
  BY <1>7 DEF Helper!vars
<1>. QED  BY <1>1, <1>3, <1>4, <1>5, <1>6, <1>7 DEF Helper!Next, Helper!Quiet, Helper!Runner

\* A step that changes neither phase, task nor cell of a run.
LEMMA CellUntouched ==
  ASSUME HelperInv, [Helper!Next]_(Helper!vars), NEW p \in Runs, CellOf(p),
         helperPhase'[p] = helperPhase[p], task'[p] = task[p], cell'[Host[p]] = cell[Host[p]]
  PROVE  CellOf(p)'
  BY EndIsFinal DEF CellOf

LEMMA OwnKept == OwnInv /\ [Helper!Next]_(Helper!vars) => OwnInv'
<1> SUFFICES ASSUME OwnInv, [Helper!Next]_(Helper!vars) PROVE OwnInv'
  OBVIOUS
<1>1. HelperInv /\ HelperInv' /\ HelperKinds
  BY HelperKept DEF OwnInv, HelperInv
<1>2. ASSUME NEW r \in Runs PROVE Host[r] \in Helper!Hosts /\ r # Helper!Nobody
  BY <1>1 DEF HelperInv, Helper!HostAssumption, Helper!Hosts
<1> SUFFICES ASSUME NEW p \in Runs PROVE CellOf(p)'
  BY <1>1 DEF OwnInv
<1>3. CellOf(p) /\ Course(p)
  BY <1>1 DEF OwnInv, HelperInv
<1>4. CASE helperPhase'[p] = helperPhase[p] /\ task'[p] = task[p] /\ cell'[Host[p]] = cell[Host[p]]
  BY <1>1, <1>3, <1>4, CellUntouched
<1>5. CASE Helper!ReceiveReady(p) \/ Helper!ReceiveNone(p) \/ Helper!Launch(p) \/ Helper!Abort(p)
  BY <1>1, <1>2, <1>3, <1>5 DEF Helper!ReceiveReady, Helper!ReceiveNone, Helper!Launch, Helper!Abort, HelperKinds,
     CellOf, Course
<1>6. CASE Helper!RunReturns(p) \/ Helper!Join(p)
  BY <1>1, <1>2, <1>3, <1>6 DEF Helper!RunReturns, Helper!Join, Helper!Joined, HelperKinds, CellOf, Course
<1>7. CASE Helper!Task(p)
  BY <1>1, <1>2, <1>3, <1>7 DEF Helper!Task, Helper!PollTask, Helper!TaskEnds, HelperKinds, CellOf, Course,
     Helper!Active, Helper!Ended
<1>8. CASE Helper!Stop(p)
  <2>1. helperPhase[p] = "stopping" /\ helperPhase' = [helperPhase EXCEPT ![p] = "joining"] /\ UNCHANGED <<task, cell>>
    BY <1>8 DEF Helper!Stop
  <2>2. ASSUME Prompt PROVE server'[p] \in {"dying", "dead"}
    <3>1. cell[Host[p]] = p
      BY <1>3, <2>1, <2>2 DEF CellOf, Course, OwnInv, HelperKinds, Helper!Tasks, HelperInv
    <3>2. server' = Helper!Term(p)
      BY <1>2, <1>8, <3>1 DEF Helper!Stop, Helper!Kill
    <3>3. server[p] \in {"serving", "dying", "dead"}
      BY <1>1, <1>3, <2>1 DEF Course, HelperKinds, Helper!States
    <3>. QED  BY <1>1, <3>2, <3>3 DEF Helper!Term, HelperKinds
  <2>. QED  BY <1>1, <1>2, <1>3, <2>1, <2>2 DEF CellOf, HelperKinds
<1>9. ASSUME NEW r \in Runs, r # p,
             Helper!ReceiveReady(r) \/ Helper!ReceiveNone(r) \/ Helper!Launch(r) \/ Helper!Abort(r)
               \/ Helper!RunReturns(r) \/ Helper!Join(r) \/ Helper!Task(r) \/ Helper!Stop(r)
      PROVE  helperPhase'[p] = helperPhase[p] /\ task'[p] = task[p] /\ cell'[Host[p]] = cell[Host[p]]
  <2>1. Host[r] # Host[p]
    BY <1>9 DEF OwnInv, OwnProcess
  <2>2. helperPhase'[p] = helperPhase[p]
    BY <1>1, <1>9 DEF Helper!ReceiveReady, Helper!ReceiveNone, Helper!Launch, Helper!Abort, Helper!RunReturns,
       Helper!Join, Helper!Task, Helper!PollTask, Helper!TaskEnds, Helper!Stop, HelperKinds
  <2>3. task'[p] = task[p]
    BY <1>1, <1>9 DEF Helper!ReceiveReady, Helper!ReceiveNone, Helper!Launch, Helper!Abort, Helper!RunReturns,
       Helper!Join, Helper!Task, Helper!PollTask, Helper!TaskEnds, Helper!Stop, HelperKinds
  <2>4. cell'[Host[p]] = cell[Host[p]]
    BY <1>1, <1>2, <1>9, <2>1
    DEF Helper!ReceiveReady, Helper!ReceiveNone, Helper!Launch, Helper!Abort, Helper!RunReturns, Helper!Join,
      Helper!Task, Helper!PollTask, Helper!TaskEnds, Helper!Stop, HelperKinds
  <2>. QED  BY <2>2, <2>3, <2>4
<1>10. ASSUME NEW r \in Runs, Helper!Server(r) \/ Helper!Die(r) \/ Helper!Monitor(r) PROVE UNCHANGED Helper!runner
  BY <1>10 DEF Helper!Server, Helper!Boot, Helper!Refuse, Helper!Exit, Helper!Die, Helper!Monitor,
     Helper!SeesReady, Helper!SeesPid, Helper!SeesConflict
<1>11. CASE UNCHANGED Helper!runner
  BY <1>4, <1>11 DEF Helper!runner
<1>12. UNCHANGED Helper!vars => UNCHANGED Helper!runner
  BY DEF Helper!vars, Helper!runner
<1>. QED  BY <1>4, <1>5, <1>6, <1>7, <1>8, <1>9, <1>10, <1>11, <1>12 DEF Helper!Next, Helper!Quiet, Helper!Runner

\* And of runs each in a process of its own: the cell of the process names its server.
THEOREM OwnInvariant == Helper!HostAssumption /\ OwnProcess /\ Helper!Spec => []OwnInv
<1>1. Helper!HostAssumption /\ OwnProcess /\ Helper!Init => OwnInv
  BY OwnStarts
<1>2. OwnInv /\ [Helper!Next]_(Helper!vars) => OwnInv'
  BY OwnKept
<1>. QED  BY <1>1, <1>2, PTL DEF Helper!Spec

\* run returns only after the ClickHouse server it started is gone, whether or not the server
\* crashed and whatever other processes do meanwhile (src/lib.rs: stop, handle.await).
THEOREM RunsLeaveNothing == Helper!HostAssumption /\ OwnProcess /\ Helper!Spec => []Helper!NothingLeftRunning
<1>1. OwnInv => Helper!NothingLeftRunning
  BY DEF OwnInv, HelperInv, CellOf, Course, Helper!NothingLeftRunning
<1>. QED  BY <1>1, OwnInvariant, PTL

\* With the task polled in time, stop reaches the server of its run (clickhouse.rs:300).
THEOREM StopsReachServer ==
  ASSUME Prompt
  PROVE  Helper!HostAssumption /\ OwnProcess /\ Helper!Spec => []Helper!StopReachesServer
<1>1. OwnInv => Helper!StopReachesServer
  BY DEF OwnInv, CellOf, Helper!StopReachesServer
<1>. QED  BY <1>1, OwnInvariant, PTL

-----------------------------------------------------------------------------
(* One process at a time.                                                  *)

Alone == \A p, q \in Runs : Helper!Active(p) /\ Helper!Active(q) => p = q
Sole == \A p, q \in Runs : Helper!Holds(p) /\ Helper!Holds(q) => p = q

\* What the status file names is the one server that serves.
Way(r) ==
  /\ \A q \in Runs : lines[r] = Complaint(q) => \A p \in Runs : server[p] = "serving" => p = q
  /\ other[r] # Helper!Nobody /\ helperPhase[r] = "starting" => \A p \in Runs : server[p] = "serving" => p = other[r]

SingleInv == ~Overlap /\ HelperInv /\ Alone /\ Sole /\ \A r \in Runs : Way(r)

LEMMA SingleStarts == Helper!HostAssumption /\ ~Overlap /\ Helper!Init => SingleInv
<1> SUFFICES ASSUME Helper!HostAssumption, ~Overlap, Helper!Init PROVE SingleInv
  OBVIOUS
<1>1. Alone /\ Sole
  BY DEF Alone, Sole, Helper!Active, Helper!Ended, Helper!Holds, Helper!Init
<1>2. ASSUME NEW r \in Runs PROVE Way(r)
  BY LogsDiffer DEF Helper!Init, Way
<1>. QED  BY <1>1, <1>2, HelperStarts DEF SingleInv

\* A server boots, or has a quarrel to report, under an active run.
LEMMA BootingIsActive ==
  ASSUME HelperInv, NEW r \in Runs, server[r] = "booting" \/ Complains(lines[r]) \/ helperPhase[r] = "starting"
  PROVE  Helper!Active(r) /\ helperPhase[r] = "starting"
  BY DEF HelperInv, Course, Helper!Active, Helper!Ended

LEMMA AloneKept == SingleInv /\ [Helper!Next]_(Helper!vars) => Alone'
<1> SUFFICES ASSUME SingleInv, [Helper!Next]_(Helper!vars) PROVE Alone'
  OBVIOUS
<1> USE DEF SingleInv, HelperInv, HelperKinds
<1>1. ASSUME NEW r \in Runs, Helper!Launch(r) PROVE Alone'
  <2>1. \A q \in Runs : ~Helper!Active(q)
    BY <1>1 DEF Helper!Launch
  <2>. QED  BY <1>1, <2>1 DEF Helper!Launch, Alone, Helper!Active
<1>2. CASE \A q \in Runs : Helper!Active(q)' => Helper!Active(q)
  BY <1>2 DEF Alone
<1>3. CASE UNCHANGED helperPhase
  BY <1>2, <1>3 DEF Helper!Active
<1>4. ASSUME NEW r \in Runs, Helper!ReceiveReady(r) \/ Helper!ReceiveNone(r) \/ Helper!RunReturns(r)
             \/ Helper!Stop(r) \/ Helper!Join(r) \/ Helper!Abort(r),
             NEW q \in Runs
      PROVE  Helper!Active(q)' => Helper!Active(q)
  BY <1>4 DEF Helper!Active, Helper!Ended, Helper!ReceiveReady, Helper!ReceiveNone, Helper!RunReturns, Helper!Stop,
     Helper!Join, Helper!Abort
<1>5. ASSUME NEW r \in Runs, Helper!Server(r) \/ Helper!Die(r) \/ Helper!Monitor(r) \/ Helper!Task(r)
      PROVE  UNCHANGED helperPhase
  BY <1>5 DEF Helper!Server, Helper!Boot, Helper!Refuse, Helper!Exit, Helper!Die, Helper!Monitor, Helper!SeesReady,
     Helper!SeesPid, Helper!SeesConflict, Helper!Task, Helper!PollTask, Helper!TaskEnds, Helper!runner
<1>6. UNCHANGED Helper!vars => UNCHANGED helperPhase
  BY DEF Helper!vars
<1>. QED  BY <1>1, <1>2, <1>3, <1>4, <1>5, <1>6 DEF Helper!Next, Helper!Quiet, Helper!Runner

\* A server is signalled by a run that is not waiting for its own to boot.
LEMMA SignalFindsNoneBooting ==
  ASSUME SingleInv, NEW r \in Runs, Helper!SeesConflict(r) \/ Helper!Stop(r), NEW p \in Runs
  PROVE  server[p] # "booting"
<1> SUFFICES ASSUME server[p] = "booting" PROVE FALSE
  OBVIOUS
<1>1. Helper!Active(p) /\ helperPhase[p] = "starting"
  BY BootingIsActive DEF SingleInv
<1>2. CASE Helper!Stop(r)
  <2>1. Helper!Active(r)
    BY <1>2 DEF Helper!Stop, Helper!Active, Helper!Ended
  <2>. QED  BY <1>1, <1>2, <2>1 DEF SingleInv, Alone, Helper!Stop
<1>3. CASE Helper!SeesConflict(r)
  <2>1. Complains(lines[r])
    BY <1>3, SeesConflictIs DEF SingleInv
  <2>2. Helper!Active(r)
    BY <2>1, BootingIsActive DEF SingleInv
  <2>3. p = r
    BY <1>1, <2>2 DEF SingleInv, Alone
  <2>. QED  BY <2>1, <2>3 DEF SingleInv, HelperInv, Course
<1>. QED  BY <1>2, <1>3

\* Only Boot makes a server one that holds the directory, and none does then.
LEMMA HoldsOnly ==
  ASSUME SingleInv, [Helper!Next]_(Helper!vars), NEW p \in Runs
  PROVE  /\ Helper!Holds(p)' => Helper!Holds(p) \/ Helper!Boot(p)
         /\ server'[p] = "serving" => server[p] = "serving" \/ Helper!Boot(p)
<1> USE DEF SingleInv, HelperInv, HelperKinds
<1>1. ASSUME NEW r \in Runs, Helper!Server(r) \/ Helper!Die(r) \/ Helper!Launch(r), ~Helper!Boot(p)
      PROVE  (Helper!Holds(p)' => Helper!Holds(p)) /\ (server'[p] = "serving" => server[p] = "serving")
  <2>1. CASE Helper!Boot(r)
    <3>1. r # p
      BY <1>1, <2>1
    <3>. QED  BY <2>1, <3>1 DEF Helper!Boot, Helper!Holds
  <2>2. CASE Helper!Refuse(r) \/ Helper!Exit(r) \/ Helper!Die(r) \/ Helper!Launch(r)
    BY <2>2 DEF Helper!Refuse, Helper!Exit, Helper!Die, Helper!Launch, Helper!Holds
  <2>. QED  BY <1>1, <2>1, <2>2 DEF Helper!Server
<1>2. ASSUME NEW r \in Runs, Helper!SeesConflict(r) \/ Helper!Stop(r), NEW q, server' = Helper!Term(q)
      PROVE  (Helper!Holds(p)' => Helper!Holds(p)) /\ (server'[p] = "serving" => server[p] = "serving")
  <2>1. server[p] # "booting"
    BY <1>2, SignalFindsNoneBooting
  <2>. QED  BY <1>2, <2>1 DEF Helper!Term, Helper!Holds
<1>3. ASSUME UNCHANGED server
      PROVE  (Helper!Holds(p)' => Helper!Holds(p)) /\ (server'[p] = "serving" => server[p] = "serving")
  BY <1>3 DEF Helper!Holds
<1>4. ASSUME NEW r \in Runs, Helper!Monitor(r)
      PROVE  (Helper!Holds(p)' => Helper!Holds(p)) /\ (server'[p] = "serving" => server[p] = "serving")
  <2>1. CASE Helper!SeesReady(r) \/ Helper!SeesPid(r)
    BY <1>3, <2>1 DEF Helper!SeesReady, Helper!SeesPid
  <2>2. CASE Helper!SeesConflict(r)
    <3>1. UNCHANGED server \/ \E q : server' = Helper!Term(q)
      BY <2>2, SeesConflictIs
    <3>. QED  BY <1>2, <1>3, <2>2, <3>1
  <2>. QED  BY <1>4, <2>1, <2>2 DEF Helper!Monitor
<1>5. ASSUME NEW r \in Runs, Helper!Stop(r)
      PROVE  (Helper!Holds(p)' => Helper!Holds(p)) /\ (server'[p] = "serving" => server[p] = "serving")
  <2>1. UNCHANGED server \/ \E q : server' = Helper!Term(q)
    BY <1>5, StopSignals
  <2>. QED  BY <1>2, <1>3, <1>5, <2>1
<1>6. ASSUME NEW r \in Runs, Helper!ReceiveReady(r) \/ Helper!ReceiveNone(r) \/ Helper!RunReturns(r)
             \/ Helper!Join(r) \/ Helper!Abort(r) \/ Helper!Task(r)
      PROVE  UNCHANGED server
  BY <1>6 DEF Helper!ReceiveReady, Helper!ReceiveNone, Helper!RunReturns, Helper!Join, Helper!Abort, Helper!Task,
     Helper!PollTask, Helper!TaskEnds
<1>7. UNCHANGED Helper!vars => UNCHANGED server
  BY DEF Helper!vars
<1>. QED  BY <1>1, <1>3, <1>4, <1>5, <1>6, <1>7 DEF Helper!Next, Helper!Quiet, Helper!Runner

LEMMA SoleKept == SingleInv /\ [Helper!Next]_(Helper!vars) => Sole'
<1> SUFFICES ASSUME SingleInv, [Helper!Next]_(Helper!vars), NEW p \in Runs, NEW q \in Runs, Helper!Holds(p)',
                    Helper!Holds(q)'
             PROVE  p = q
  BY DEF Sole
<1>1. CASE Helper!Boot(p)
  <2>1. ~Helper!Holds(q) /\ server' = [server EXCEPT ![p] = "serving"]
    BY <1>1 DEF Helper!Boot
  <2>. QED  BY <2>1 DEF Helper!Holds
<1>2. CASE Helper!Boot(q)
  <2>1. ~Helper!Holds(p) /\ server' = [server EXCEPT ![q] = "serving"]
    BY <1>2 DEF Helper!Boot
  <2>. QED  BY <2>1 DEF Helper!Holds
<1>. QED  BY <1>1, <1>2, HoldsOnly DEF SingleInv, Sole

\* While a run has a server in its way none begins to serve.
LEMMA NoneBoots ==
  ASSUME SingleInv, NEW r \in Runs, NEW p \in Runs, Helper!Boot(p),
         Complains(lines[r]) \/ (other[r] # Helper!Nobody /\ helperPhase[r] = "starting")
  PROVE  FALSE
<1>1. server[p] = "booting"
  BY DEF Helper!Boot
<1>2. Helper!Active(p) /\ Helper!Active(r)
  BY <1>1, BootingIsActive DEF SingleInv
<1>3. p = r
  BY <1>2 DEF SingleInv, Alone
<1>. QED  BY <1>1, <1>3 DEF SingleInv, HelperInv, Course

\* A log comes to name a server when the one it is of is refused.
LEMMA ComplaintsAreNew ==
  ASSUME HelperInv, [Helper!Next]_(Helper!vars), NEW r \in Runs, NEW q \in Runs, lines'[r] = Complaint(q),
         lines[r] # Complaint(q)
  PROVE  Helper!Refuse(r) /\ Helper!Holds(q)
<1> USE DEF HelperInv, HelperKinds
<1>1. ASSUME NEW p \in Runs, Helper!Boot(p) PROVE FALSE
  <2>1. Silent(p)
    BY <1>1 DEF Helper!Boot, Course
  <2>2. lines' = [lines EXCEPT ![p] = <<Helper!Ready>>]
    BY <1>1, <2>1, LogsGrow DEF Helper!Boot, Silent
  <2>. QED  BY <2>2, LogsDiffer
<1>2. ASSUME NEW p \in Runs, Helper!Refuse(p) PROVE Helper!Refuse(r) /\ Helper!Holds(q)
  <2>1. Silent(p)
    BY <1>2 DEF Helper!Refuse, Course
  <2>2. PICK h \in Runs :
          /\ Helper!Holds(h)
          /\ lines' = [lines EXCEPT ![p] = Complaint(h)] \/ lines' = [lines EXCEPT ![p] = <<Helper!Conflict>>]
    BY <1>2, <2>1, LogsGrow DEF Helper!Refuse, Silent
  <2>. QED  BY <1>2, <2>2, LogsDiffer
<1>3. ASSUME NEW p \in Runs, Helper!SeesReady(p) PROVE FALSE
  <2>1. lines[p] = <<Helper!Ready>>
    BY <1>3, LogLines DEF Helper!SeesReady, Helper!Line
  <2>2. lines' = [lines EXCEPT ![p] = <<>>]
    BY <1>3, <2>1, LogsShrink DEF Helper!SeesReady, Helper!Line
  <2>. QED  BY <2>2, LogsDiffer
<1>4. ASSUME NEW p \in Runs, Helper!SeesPid(p) PROVE FALSE
  <2>1. lines' = [lines EXCEPT ![p] = <<Helper!Conflict>>]
    BY <1>4, SeesPidKeeps
  <2>. QED  BY <2>1, LogsDiffer
<1>5. ASSUME NEW p \in Runs, Helper!SeesConflict(p) PROVE FALSE
  <2>1. lines' = [lines EXCEPT ![p] = <<>>]
    BY <1>5, SeesConflictIs
  <2>. QED  BY <2>1, LogsDiffer
<1>6. ASSUME NEW p \in Runs, Helper!Exit(p) \/ Helper!Die(p) \/ Helper!Runner(p) \/ Helper!Task(p)
             \/ Helper!Launch(p) \/ Helper!Abort(p) PROVE UNCHANGED lines
  BY <1>6 DEF Helper!Exit, Helper!Die, Helper!Runner, Helper!ReceiveReady, Helper!ReceiveNone, Helper!RunReturns,
     Helper!Stop, Helper!Join, Helper!Task, Helper!PollTask, Helper!TaskEnds, Helper!Launch, Helper!Abort
<1>7. UNCHANGED Helper!vars => UNCHANGED lines
  BY DEF Helper!vars
<1>. QED  BY <1>1, <1>2, <1>3, <1>4, <1>5, <1>6, <1>7 DEF Helper!Next, Helper!Quiet, Helper!Server, Helper!Monitor

\* A run learns the owner from its log only, and starts only once.
LEMMA OwnersAreRead ==
  ASSUME HelperInv, [Helper!Next]_(Helper!vars), NEW r \in Runs
  PROVE  /\ other'[r] # other[r] => Helper!SeesPid(r)
         /\ helperPhase'[r] = "starting" => helperPhase[r] = "starting" \/ Helper!Launch(r)
<1> USE DEF HelperInv, HelperKinds
<1>1. ASSUME NEW p \in Runs, Helper!Server(p) \/ Helper!Die(p) \/ Helper!Monitor(p) PROVE UNCHANGED helperPhase
  BY <1>1 DEF Helper!Server, Helper!Boot, Helper!Refuse, Helper!Exit, Helper!Die, Helper!Monitor, Helper!SeesReady,
     Helper!SeesPid, Helper!SeesConflict, Helper!runner
<1>2. ASSUME NEW p \in Runs, Helper!Server(p) \/ Helper!Die(p) \/ Helper!Monitor(p), other'[r] # other[r]
      PROVE  Helper!SeesPid(r)
  BY <1>2 DEF Helper!Server, Helper!Boot, Helper!Refuse, Helper!Exit, Helper!Die, Helper!Monitor, Helper!SeesReady,
     Helper!SeesPid, Helper!SeesConflict, Helper!watch
<1>3. ASSUME NEW p \in Runs, Helper!Runner(p) \/ Helper!Task(p) \/ Helper!Launch(p) \/ Helper!Abort(p)
      PROVE  UNCHANGED other
  BY <1>3 DEF Helper!Runner, Helper!ReceiveReady, Helper!ReceiveNone, Helper!RunReturns, Helper!Stop, Helper!Join,
     Helper!Task, Helper!PollTask, Helper!TaskEnds, Helper!Launch, Helper!Abort, Helper!watch
<1>4. ASSUME NEW p \in Runs, Helper!Runner(p) \/ Helper!Task(p) \/ Helper!Launch(p) \/ Helper!Abort(p),
             helperPhase'[r] = "starting"
      PROVE  helperPhase[r] = "starting" \/ Helper!Launch(r)
  BY <1>4 DEF Helper!Runner, Helper!ReceiveReady, Helper!ReceiveNone, Helper!RunReturns, Helper!Stop, Helper!Join,
     Helper!Task, Helper!PollTask, Helper!TaskEnds, Helper!Launch, Helper!Abort
<1>5. UNCHANGED Helper!vars => UNCHANGED helperPhase /\ UNCHANGED other
  BY DEF Helper!vars
<1>. QED  BY <1>1, <1>2, <1>3, <1>4, <1>5 DEF Helper!Next, Helper!Quiet

LEMMA WayKept ==
  ASSUME SingleInv, [Helper!Next]_(Helper!vars), NEW r \in Runs
  PROVE  Way(r)'
<1>1. HelperInv /\ Course(r) /\ Way(r)
  BY DEF SingleInv, HelperInv
<1>2. ASSUME NEW q \in Runs, lines[r] = Complaint(q), NEW p \in Runs, server'[p] = "serving" PROVE p = q
  <2>1. Complains(lines[r])
    BY <1>2 DEF Complains
  <2>2. server[p] = "serving"
    BY <1>2, <2>1, HoldsOnly, NoneBoots
  <2>. QED  BY <1>1, <1>2, <2>2 DEF Way
<1>3. ASSUME NEW q \in Runs, lines'[r] = Complaint(q), lines[r] # Complaint(q), NEW p \in Runs, server'[p] = "serving"
      PROVE  p = q
  <2>1. Helper!Refuse(r) /\ Helper!Holds(q)
    BY <1>1, <1>3, ComplaintsAreNew
  <2>2. server' = [server EXCEPT ![r] = "refused"] /\ server \in [Runs -> Helper!States]
    BY <1>1, <2>1 DEF Helper!Refuse, HelperInv, HelperKinds
  <2>3. Helper!Holds(p)
    BY <1>3, <2>2 DEF Helper!Holds
  <2>. QED  BY <2>1, <2>3 DEF SingleInv, Sole
<1>4. ASSUME other'[r] # Helper!Nobody, helperPhase'[r] = "starting", NEW p \in Runs, server'[p] = "serving"
      PROVE  p = other'[r]
  <2>1. CASE Helper!SeesPid(r)
    <3>1. PICK q \in Runs : lines[r] = Complaint(q) /\ other' = [other EXCEPT ![r] = q]
      BY <1>1, <2>1, SeesPidKeeps
    <3>2. other'[r] = q
      BY <1>1, <3>1 DEF HelperInv, HelperKinds
    <3>. QED  BY <1>2, <1>4, <3>1, <3>2
  <2>2. CASE ~Helper!SeesPid(r)
    <3>1. other'[r] = other[r] /\ (helperPhase[r] = "starting" \/ Helper!Launch(r))
      BY <1>1, <1>4, <2>2, OwnersAreRead
    <3>2. helperPhase[r] = "starting"
      BY <1>1, <1>4, <3>1 DEF Helper!Launch, Course
    <3>3. server[p] = "serving"
      BY <1>4, <3>1, <3>2, HoldsOnly, NoneBoots
    <3>. QED  BY <1>1, <1>4, <3>1, <3>2, <3>3 DEF Way
  <2>. QED  BY <2>1, <2>2
<1>. QED  BY <1>2, <1>3, <1>4 DEF Way, Complaint, Helper!Pid

LEMMA SingleKept == SingleInv /\ [Helper!Next]_(Helper!vars) => SingleInv'
<1> SUFFICES ASSUME SingleInv, [Helper!Next]_(Helper!vars) PROVE SingleInv'
  OBVIOUS
<1>. QED  BY HelperKept, AloneKept, SoleKept, WayKept DEF SingleInv

\* Only the line about a conflict, or the end of its process, ends a monitor.
LEMMA MonitorsEnd ==
  ASSUME HelperInv, [Helper!Next]_(Helper!vars), NEW r \in Runs, helperPhase[r] = "starting",
         monitor[r] = "watching", monitor'[r] = "gone"
  PROVE  Helper!SeesConflict(r)
<1> USE DEF HelperInv, HelperKinds
<1>1. ASSUME NEW p \in Runs, Helper!Server(p) \/ Helper!Die(p) \/ Helper!Monitor(p) PROVE Helper!SeesConflict(r)
  BY <1>1 DEF Helper!Server, Helper!Boot, Helper!Refuse, Helper!Exit, Helper!Die, Helper!Monitor, Helper!SeesReady,
     Helper!SeesPid, Helper!SeesConflict, Helper!watch
<1>2. ASSUME NEW p \in Runs, Helper!Runner(p) \/ Helper!Task(p) PROVE FALSE
  BY <1>2 DEF Helper!Runner, Helper!ReceiveReady, Helper!ReceiveNone, Helper!RunReturns, Helper!Stop, Helper!Join,
     Helper!Task, Helper!PollTask, Helper!TaskEnds, Helper!watch
<1>3. ASSUME NEW p \in Runs, Helper!Launch(p) \/ Helper!Abort(p) PROVE FALSE
  BY <1>3 DEF Helper!Launch, Helper!Abort
<1>4. ~UNCHANGED Helper!vars
  BY DEF Helper!vars
<1>. QED  BY <1>1, <1>2, <1>3, <1>4 DEF Helper!Next, Helper!Quiet

LEMMA StartsClear == SingleInv /\ [Helper!Next]_(Helper!vars) => Helper!FailedStartClears
<1> SUFFICES ASSUME SingleInv, [Helper!Next]_(Helper!vars),
                    NEW r \in Runs, helperPhase[r] = "starting", monitor[r] = "watching", monitor'[r] = "gone",
                    NEW p \in Runs, server'[p] = "serving"
             PROVE  other[r] = Helper!Nobody /\ \E q \in Runs \ {r} : helperPhase[q] = "failed" /\ server[q] = "refused"
  BY DEF Helper!FailedStartClears
<1>1. HelperInv /\ Course(r) /\ Way(r) /\ HelperKinds
  BY DEF SingleInv, HelperInv
<1>2. Helper!SeesConflict(r)
  BY <1>1, MonitorsEnd
<1>3. lines[r] = <<Helper!Conflict>> /\ Complains(lines[r])
  BY <1>1, <1>2, SeesConflictIs
<1>4. server[p] = "serving" /\ p # r
  BY <1>1, <1>3, HoldsOnly, NoneBoots DEF Course
<1>5. PICK q \in Runs \ {r} : q \in Helper!Owners(r) /\ server' = Helper!Term(q)
  <2>1. Helper!Owners(r) # {}
    BY <1>1, <1>4 DEF Helper!Owners, Helper!Found, Helper!Exists
  <2>2. \E q \in Helper!Owners(r) : server' = Helper!Term(q)
    BY <1>2, <2>1 DEF Helper!SeesConflict
  <2>3. Helper!Owners(r) \subseteq Runs \ {r}
    BY <1>1 DEF Helper!Owners, Helper!Found, HelperKinds, Course
  <2>. QED  BY <2>2, <2>3
<1>6. p # q
  BY <1>1, <1>4, <1>5 DEF Helper!Term, HelperKinds
<1>7. other[r] = Helper!Nobody
  <2> SUFFICES ASSUME other[r] # Helper!Nobody PROVE FALSE
    OBVIOUS
  <2>1. p = other[r]
    BY <1>1, <1>4 DEF Way
  <2>. QED  BY <1>5, <1>6, <2>1 DEF Helper!Owners
<1>8. Helper!Exists(q) /\ ~Helper!Holds(q)
  <2>1. Helper!Holds(p)
    BY <1>4 DEF Helper!Holds
  <2>2. ~Helper!Holds(q)
    BY <1>6, <2>1 DEF SingleInv, Sole
  <2>. QED  BY <1>5, <1>7, <2>2 DEF Helper!Owners, Helper!Found
<1>9. ~Helper!Active(q)
  BY <1>1, <1>5, BootingIsActive DEF SingleInv, Alone
<1>10. server[q] = "refused"
  BY <1>1, <1>8, <1>9, BootingIsActive DEF Helper!Exists, Helper!Holds
<1>11. helperPhase[q] = "failed"
  BY <1>1, <1>9, <1>10, BootingIsActive DEF HelperInv, Course
<1>. QED  BY <1>5, <1>7, <1>10, <1>11

LEMMA OrphansEnd == SingleInv /\ [Helper!Next]_(Helper!vars) => Helper!OnlyOrphansKilled
<1> SUFFICES ASSUME SingleInv, [Helper!Next]_(Helper!vars), NEW p \in Runs, server[p] # "dying", server'[p] = "dying"
             PROVE  helperPhase[p] \in Helper!Ended \cup {"stopping"}
  BY DEF Helper!OnlyOrphansKilled
<1> USE DEF HelperInv, HelperKinds
<1>1. HelperInv /\ Course(p)
  BY DEF SingleInv
<1>2. ASSUME NEW r \in Runs, Helper!Server(r) \/ Helper!Die(r) \/ Helper!SeesReady(r) \/ Helper!SeesPid(r) PROVE FALSE
  BY <1>1, <1>2 DEF Helper!Server, Helper!Boot, Helper!Refuse, Helper!Exit, Helper!Die, Helper!SeesReady, Helper!SeesPid
<1>3. ASSUME NEW r \in Runs, Helper!ReceiveReady(r) \/ Helper!ReceiveNone(r) \/ Helper!RunReturns(r)
             \/ Helper!Join(r) \/ Helper!Task(r) \/ Helper!Launch(r) \/ Helper!Abort(r)
      PROVE  FALSE
  BY <1>1, <1>3 DEF Helper!ReceiveReady, Helper!ReceiveNone, Helper!RunReturns, Helper!Join, Helper!Task,
     Helper!PollTask, Helper!TaskEnds, Helper!Launch, Helper!Abort
<1>4. ASSUME NEW r \in Runs, NEW q \in Runs, server' = Helper!Term(q), Helper!Active(r),
             p = r => helperPhase[r] = "stopping"
      PROVE  helperPhase[p] \in Helper!Ended \cup {"stopping"}
  <2>1. server[p] \in {"booting", "serving"}
    BY <1>1, <1>4, Signalled
  <2>2. helperPhase[p] # "idle"
    BY <1>1, <2>1 DEF Course
  <2>3. CASE Helper!Active(p)
    BY <1>4, <2>3 DEF SingleInv, Alone
  <2>4. CASE ~Helper!Active(p)
    BY <1>1, <2>2, <2>4 DEF Helper!Active
  <2>. QED  BY <2>3, <2>4
<1>5. ASSUME NEW r \in Runs, Helper!SeesConflict(r) PROVE helperPhase[p] \in Helper!Ended \cup {"stopping"}
  <2>1. Complains(lines[r]) /\ (server' = server \/ \E q \in Runs \ {r} : server' = Helper!Term(q))
    BY <1>1, <1>5, SeesConflictIs
  <2>2. PICK q \in Runs \ {r} : server' = Helper!Term(q)
    BY <2>1
  <2>3. Helper!Active(r)
    BY <1>1, <2>1, BootingIsActive
  <2>4. p = q
    BY <1>1, <2>2, Signalled
  <2>. QED  BY <1>4, <2>2, <2>3, <2>4
<1>6. ASSUME NEW r \in Runs, Helper!Stop(r) PROVE helperPhase[p] \in Helper!Ended \cup {"stopping"}
  <2>1. helperPhase[r] = "stopping" /\ Helper!Active(r)
    BY <1>6 DEF Helper!Stop, Helper!Active, Helper!Ended
  <2>2. server' = server \/ \E q \in Runs : server' = Helper!Term(q)
    BY <1>1, <1>6, StopSignals
  <2>. QED  BY <1>4, <2>1, <2>2
<1>7. ~UNCHANGED Helper!vars
  BY DEF Helper!vars
<1>. QED  BY <1>2, <1>3, <1>5, <1>6, <1>7 DEF Helper!Next, Helper!Quiet, Helper!Runner, Helper!Monitor

\* A start that fails has dealt with the server in its way, unless that of an earlier failed
\* start, which has yet to exit, was found in its stead (clickhouse.rs:256), as long as no
\* process starts while another one is working.
THEOREM FailedStartsClear ==
  Helper!HostAssumption /\ ~Overlap /\ Helper!Spec => [][Helper!FailedStartClears]_(Helper!vars)
<1>1. Helper!HostAssumption /\ ~Overlap /\ Helper!Init => SingleInv
  BY SingleStarts
<1>2. SingleInv /\ [Helper!Next]_(Helper!vars) => SingleInv' /\ Helper!FailedStartClears
  BY SingleKept, StartsClear
<1>. QED  BY <1>1, <1>2, PTL DEF Helper!Spec

\* And a server is signalled when its own run stops it or after its run has ended, never
\* under a run that is using it (clickhouse.rs:46).
THEOREM OrphansOnlyKilled ==
  Helper!HostAssumption /\ ~Overlap /\ Helper!Spec => [][Helper!OnlyOrphansKilled]_(Helper!vars)
<1>1. Helper!HostAssumption /\ ~Overlap /\ Helper!Init => SingleInv
  BY SingleStarts
<1>2. SingleInv /\ [Helper!Next]_(Helper!vars) => SingleInv' /\ Helper!OnlyOrphansKilled
  BY SingleKept, OrphansEnd
<1>. QED  BY <1>1, <1>2, PTL DEF Helper!Spec

=============================================================================
