--------------------------- MODULE GeyserFirehose ---------------------------
(***************************************************************************)
(* firehose_geyser of jetstreamer-firehose (firehose.rs): OS threads       *)
(* replay their parts of the range to the notifiers of the loaded Geyser   *)
(* plugins, each restarting from the failed slot after every error; when   *)
(* all of them returned, the plugins are told to unload.                   *)
(*                                                                         *)
(* Data: every block holds the nodes of Shape, an entry closes over one    *)
(* transaction; block hashes are left out, and so is the backoff, which    *)
(* only delays a restart here.                                             *)
(***************************************************************************)
EXTENDS Integers, Sequences, FiniteSets

CONSTANTS
  FirstSlot, EndSlot,  \* the range is FirstSlot .. EndSlot - 1
  EpochLen,
  Archive,             \* Archive[e]: the blocks of epoch e in stream order
  N,                   \* threads
  Notifiers,           \* the notifiers the plugins provide
  MaxFaults

NotifierKinds == {"entry", "block"}   \* there is always one for transactions
Shape == <<"tx", "entry", "tx", "entry", "rewards", "block">>
TxsPerBlock == 2

RangeAssumption ==
  /\ FirstSlot \in Nat /\ EndSlot \in Nat /\ FirstSlot < EndSlot
  /\ EpochLen \in Nat \ {0} /\ N \in Nat \ {0}
  /\ Notifiers \subseteq NotifierKinds /\ MaxFaults \in Nat

EpochOf(s) == s \div EpochLen
EpochFirst(e) == e * EpochLen
EpochLast(e) == e * EpochLen + (EpochLen - 1)

Slots == FirstSlot .. (EndSlot - 1)
Lowest == EpochOf(FirstSlot)
Top == EpochOf(EndSlot - 1)
Present == UNION {{Archive[e][i] : i \in 1 .. Len(Archive[e])} : e \in Lowest .. Top}
Wanted == Slots \cap Present

Threads == 0 .. (N - 1)
NoSlot == -1

ArchiveAssumption == \A e \in Lowest .. Top : Archive[e] \in Seq({s \in Nat : EpochOf(s) = e})

Max2(a, b) == IF a < b THEN b ELSE a
Min2(a, b) == IF a < b THEN a ELSE b
Dec(n) == Max2(n - 1, 0)   \* saturating_sub(1)

\* generate_subranges: the remainder goes to the first threads.
SlotsPer == (EndSlot - FirstSlot) \div N
Rest == (EndSlot - FirstSlot) % N
Extra(i) == IF i < Rest THEN 1 ELSE 0
Subrange(i) ==
  LET start == FirstSlot + i * SlotsPer + Min2(i, Rest)
  IN  [start |-> start, end |-> start + SlotsPer + Extra(i)]

VARIABLES
  th,        \* the locals of every thread
  faults,    \* faults so far, and the errors counted by error_counts
  finished,  \* firehose_geyser returned
  \* history: calls of the notifiers
  nodes,     \* what the last attempt at a block notified of its nodes
  roots,     \* SlotNotification::Root sent by slot
  metas,     \* calls of the block metadata notifier by slot
  unloaded   \* "unload" was sent

calls == <<nodes, roots, metas>>
vars == <<th, faults, finished, calls, unloaded>>

NextPresent(after, last) ==
  LET S == {s \in Present : after < s /\ s <= last}
  IN  IF S = {} THEN NoSlot ELSE CHOOSE s \in S : \A r \in S : s <= r

\* The pass of a thread that starts (again) at slot.
NewPass(end, slot, c) ==
  [pc |-> "epoch", start |-> slot, end |-> end, counted |-> c,
   epoch |-> EpochOf(slot), last |-> 0, pos |-> 0, cur |-> NoSlot,
   node |-> 0, ran |-> 0, skip |-> 1]

Init ==
  /\ th = [t \in Threads |-> LET r == Subrange(t) IN NewPass(r.end, r.start, Dec(r.start))]
  /\ faults = 0
  /\ finished = FALSE
  /\ nodes = [s \in Slots |-> <<>>]
  /\ roots = [s \in Slots |-> 0]
  /\ metas = [s \in Slots |-> 0]
  /\ unloaded = FALSE

Set(t, r) == th' = [th EXCEPT ![t] = r]
At(t, p) == th[t].pc = p

-----------------------------------------------------------------------------
(* The error path.                                                         *)

\* (Mutant: at the failed slot, counted or not.)
ResumeSlot_Failed(slot, c) == slot
ResumeSlot(slot, c) == IF slot <= c THEN c + 1 ELSE slot

\* skip_until_index is cleared on every restart.  (Mutant: the first block goes
\* on behind the node that failed.)
SkipUntil_Kept(t) == Max2(1, th[t].node)
SkipUntil(t) == 1

Restart(t, slot) ==
  Set(t, [NewPass(th[t].end, ResumeSlot(slot, th[t].counted), th[t].counted)
            EXCEPT !.skip = SkipUntil(t)])

Fault == faults < MaxFaults /\ faults' = faults + 1

Current(t) == IF th[t].cur = NoSlot THEN th[t].start ELSE th[t].cur
AfterCurrent(t) == IF th[t].cur = NoSlot THEN th[t].start ELSE th[t].cur + 1

-----------------------------------------------------------------------------
(* The epochs of a pass: EpochOf(start) .. EpochOf(end - 1).               *)

LocalStart(t) == Max2(th[t].start, EpochFirst(th[t].epoch))
LocalLast(t) == Min2(Dec(th[t].end), EpochLast(th[t].epoch))
EpochLeft(t) == At(t, "epoch") /\ th[t].epoch <= EpochOf(th[t].end - 1)

PassEnds(t) ==
  /\ At(t, "epoch")
  /\ ~EpochLeft(t)
  /\ Set(t, [th[t] EXCEPT !.pc = "returned"])
  /\ UNCHANGED <<faults, finished, calls, unloaded>>

\* The stream is opened and its header read before the overlap is looked at.
SkipEpoch(t) ==
  /\ EpochLeft(t)
  /\ LocalStart(t) > LocalLast(t)
  /\ Set(t, [th[t] EXCEPT !.epoch = @ + 1])
  /\ UNCHANGED <<faults, finished, calls, unloaded>>

PositionOf(e, s) ==
  LET b == NextPresent(s - 1, EpochLast(e))
  IN  IF s = EpochFirst(e) THEN 1
      ELSE IF b = NoSlot THEN Len(Archive[e]) + 1
      ELSE CHOOSE i \in 1 .. Len(Archive[e]) : Archive[e][i] = b

OpenEpoch(t) ==
  /\ EpochLeft(t)
  /\ LocalStart(t) <= LocalLast(t)
  /\ Set(t, [th[t] EXCEPT !.pc = "loop", !.counted = Dec(LocalStart(t)), !.last = LocalLast(t),
                          !.pos = PositionOf(th[t].epoch, LocalStart(t)), !.cur = NoSlot])
  /\ UNCHANGED <<faults, finished, calls, unloaded>>

OpenFails(t) ==
  /\ EpochLeft(t)
  /\ Fault
  /\ Restart(t, Current(t))
  /\ UNCHANGED <<finished, calls, unloaded>>

SeekFails(t) ==
  /\ EpochLeft(t)
  /\ LocalStart(t) <= LocalLast(t) /\ LocalStart(t) > EpochFirst(th[t].epoch)
  /\ Fault
  /\ Set(t, NewPass(th[t].end, LocalStart(t), LocalStart(t) - 1))
  /\ UNCHANGED <<finished, calls, unloaded>>

-----------------------------------------------------------------------------
(* The blocks of an epoch.                                                 *)

Stream(t) == Archive[th[t].epoch]
AtBlock(t) == At(t, "loop") /\ th[t].pos <= Len(Stream(t))
Ahead(t) == Stream(t)[th[t].pos]

ReadFails(t) ==
  /\ At(t, "loop")
  /\ Fault
  /\ \E slot \in {Current(t), AfterCurrent(t)} : Restart(t, slot)
  /\ UNCHANGED <<finished, calls, unloaded>>

\* (Mutant: a clean end of the stream is taken at its word.)
Unread_TrustEof(t) == NoSlot
Unread(t) == NextPresent(th[t].counted, th[t].last)

\* The stream ends, at its end or in front of a block.
StreamEnds(t) ==
  /\ At(t, "loop")
  /\ \/ th[t].pos > Len(Stream(t)) /\ UNCHANGED faults
     \/ AtBlock(t) /\ Fault
  /\ IF Unread(t) = NoSlot
     THEN Set(t, [th[t] EXCEPT !.pc = "epoch", !.epoch = @ + 1])
     ELSE Restart(t, th[t].counted + 1)
  /\ UNCHANGED <<finished, calls, unloaded>>

\* A block behind the local slice: the range goes on in the next epoch, if at all.
PastSlice(t) ==
  /\ AtBlock(t)
  /\ Ahead(t) > th[t].last
  /\ Set(t, [th[t] EXCEPT !.pc = "epoch", !.epoch = @ + 1])
  /\ UNCHANGED <<faults, finished, calls, unloaded>>

\* A block in front of the slice, or one that was counted: nothing is kept of it
\* but, of the second kind, the current slot.
PassOver(t) ==
  /\ AtBlock(t)
  /\ Ahead(t) <= th[t].last
  /\ Ahead(t) < LocalStart(t) \/ Ahead(t) <= th[t].counted
  /\ Set(t, [th[t] EXCEPT !.pos = @ + 1, !.cur = IF Ahead(t) < LocalStart(t) THEN @ ELSE Ahead(t)])
  /\ UNCHANGED <<faults, finished, calls, unloaded>>

NoneRan(t) == 0

TakeBlock(t) ==
  /\ AtBlock(t)
  /\ LocalStart(t) <= Ahead(t) /\ Ahead(t) <= th[t].last
  /\ Ahead(t) > th[t].counted
  /\ Set(t, [th[t] EXCEPT !.pc = "nodes", !.pos = @ + 1, !.cur = Ahead(t), 
                          !.node = th[t].skip, !.skip = 1, !.ran = NoneRan(t)])
  /\ nodes' = [nodes EXCEPT ![Ahead(t)] = <<>>]
  /\ UNCHANGED <<faults, finished, roots, metas, unloaded>>

-----------------------------------------------------------------------------
(* The nodes of a block.                                                   *)

AtNode(t, n) == At(t, "nodes") /\ Shape[th[t].node] = n

OnTransaction(t) ==
  /\ AtNode(t, "tx")
  /\ nodes' = [nodes EXCEPT ![th[t].cur] = Append(@, "tx")]
  /\ Set(t, [th[t] EXCEPT !.node = @ + 1])
  /\ UNCHANGED <<faults, finished, roots, metas, unloaded>>

OnEntry(t) ==
  /\ AtNode(t, "entry")
  /\ nodes' = IF "entry" \in Notifiers
              THEN [nodes EXCEPT ![th[t].cur] = Append(@, <<"entry", th[t].ran>>)] ELSE nodes
  /\ Set(t, [th[t] EXCEPT !.node = @ + 1, !.ran = @ + 1])
  /\ UNCHANGED <<faults, finished, roots, metas, unloaded>>

OnRewards(t) ==
  /\ AtNode(t, "rewards")
  /\ Set(t, [th[t] EXCEPT !.node = @ + 1])
  /\ UNCHANGED <<faults, finished, calls, unloaded>>

\* A transaction or the rewards do not decode.
NodeFails(t) ==
  /\ AtNode(t, "tx") \/ AtNode(t, "rewards")
  /\ Fault
  /\ Restart(t, th[t].cur)
  /\ UNCHANGED <<finished, calls, unloaded>>

\* The last slot of the range ends the thread.
RangeDone(t) == th[t].cur = th[t].end - 1

OnBlock(t) ==
  /\ AtNode(t, "block")
  /\ roots' = [roots EXCEPT ![th[t].cur] = @ + 1]
  /\ IF "block" \in Notifiers
     THEN metas' = [metas EXCEPT ![th[t].cur] = @ + 1]
     ELSE UNCHANGED metas
  /\ Set(t, [th[t] EXCEPT !.pc = IF RangeDone(t) THEN "returned" ELSE "loop",
                          !.counted = th[t].cur, !.node = 0])
  /\ UNCHANGED <<faults, finished, nodes, unloaded>>

-----------------------------------------------------------------------------
\* Every thread is joined, then the plugins unload.
\* (Mutant: the first thread is joined only.)
Joined_First == At(0, "returned")
Joined == \A t \in Threads : At(t, "returned")

Finish ==
  /\ ~finished
  /\ Joined
  /\ finished' = TRUE
  /\ unloaded' = ("block" \in Notifiers)
  /\ UNCHANGED <<th, faults, calls>>

Thread(t) ==
  \/ PassEnds(t) \/ SkipEpoch(t) \/ OpenEpoch(t) \/ OpenFails(t) \/ SeekFails(t)
  \/ ReadFails(t) \/ StreamEnds(t) \/ PastSlice(t) \/ PassOver(t) \/ TakeBlock(t)
  \/ OnTransaction(t) \/ OnEntry(t) \/ OnRewards(t) \/ NodeFails(t) \/ OnBlock(t)

Next == Finish \/ (\E t \in Threads : Thread(t)) \/ (finished /\ UNCHANGED vars)
Spec == Init /\ [][Next]_vars

\* Every OS thread runs.
FairSpec == Spec /\ WF_vars(Finish) /\ \A t \in Threads : WF_vars(Thread(t))

-----------------------------------------------------------------------------
TypeOK ==
  /\ \A t \in Threads :
       /\ th[t].pc \in {"epoch", "loop", "nodes", "returned"}
       /\ th[t].start \in FirstSlot .. EndSlot /\ th[t].end \in FirstSlot .. EndSlot
       /\ th[t].counted \in Nat /\ th[t].cur \in Slots \cup {NoSlot}
       /\ th[t].ran \in 0 .. TxsPerBlock
  /\ faults \in 0 .. MaxFaults
  /\ roots \in [Slots -> Nat] /\ metas \in [Slots -> Nat]
  /\ finished \in BOOLEAN /\ unloaded \in BOOLEAN

\* "the thread will restart from the last processed slot on recoverable errors
\* to maintain coverage": every block of the range is announced.
\* (Does not hold: README, Disagreements.)
Coverage == finished => \A s \in Wanted : roots[s] > 0

\* Blocks that another block of their epoch overtook in the stream.
Overtaken ==
  {s \in Present : \E i, j \in 1 .. Len(Archive[EpochOf(s)]) :
     i < j /\ Archive[EpochOf(s)][i] > s /\ Archive[EpochOf(s)][j] = s}

\* Blocks that overtook another one: a seek to the slot of that one stands behind
\* them. (A seek to the first slot of an epoch stands in front of all blocks.)
Overtaking ==
  {s \in Present : \E i, j \in 1 .. Len(Archive[EpochOf(s)]) :
     /\ i < j /\ Archive[EpochOf(s)][i] = s /\ Archive[EpochOf(s)][j] < s
     /\ Archive[EpochOf(s)][j] # EpochFirst(EpochOf(s))}

\* A block out of order costs no block that is in order with the others of its epoch
\* (the genesis block apart, whose slot counts as done from the beginning).
OthersCovered ==
  finished => \A s \in Wanted \ (Overtaken \cup Overtaking \cup {0}) : roots[s] = 1

\* Before a block is announced its transactions and entries were notified, every
\* one once and in order, the entries with the index of their first transaction,
\* also when an earlier attempt at the block failed in the middle.
BlockComplete ==
  \A s \in Slots : roots[s] > 0 =>
    nodes[s] = IF "entry" \in Notifiers THEN <<"tx", <<"entry", 0>>, "tx", <<"entry", 1>>>>
               ELSE <<"tx", "tx">>

Delivery == INSTANCE GeyserDelivery WITH metas <- [s \in Wanted |-> metas[s]]
Announcing == INSTANCE GeyserDelivery WITH
  metas <- [s \in Wanted |-> roots[s]], unloaded <- finished
\* The plugins get what GeyserDelivery promises, and so does the receiver of
\* the slot notifications, with the return of firehose_geyser for the unload.
DeliversMetadata == Delivery!Spec
AnnouncesRoots == Announcing!Spec
=============================================================================
