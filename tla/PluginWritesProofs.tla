------------------------- MODULE PluginWritesProofs -------------------------
(***************************************************************************)
(* Proofs about PluginWrites: its types, that the drain at the end of a    *)
(* run covers every write (DrainSafe), that it keeps the promise of        *)
(* RowSink (DropsNothing), and what the rows count (UninterruptedRunWrites,*)
(* RowsCountOnce), for every number of threads, slots, blocks,             *)
(* transactions, faults and runs.                                          *)
(***************************************************************************)
EXTENDS PluginWrites, FiniteSetTheorems, TLAPS

Mid == {"collected", "counted", "returned"}
Batched == {"flush", "rows"}

\* The counter counts the tasks.
Counter == inFlight = Cardinality(tasks)

\* What the spawned tasks look like.
Shapes ==
  \A w \in tasks :
    /\ w.kind \in {"events", "status"} => w.slots = {w.key} /\ w.count > 0
    /\ w.kind \in Batched => w.key <= reported

\* No two flushes are the same.
Unique ==
  \A v, w \in tasks : v.kind \in Batched /\ w.kind \in Batched /\ v.key = w.key => v = w

\* A slot's events and status are spawned while its thread is at it.
Past ==
  \A w \in tasks, t \in Threads : w.key \in SlotsOf(t) =>
    /\ w.kind = "events" => w.key < at[t] \/ (w.key = at[t] /\ pc[t] \in Mid)
    /\ w.kind = "status" => w.key < at[t] \/ (w.key = at[t] /\ pc[t] = "returned")

\* A thread inside a batch: the block is not behind it, and what it collected
\* for the block is still there.
Inside(t) ==
  \E b \in Blocks :
    /\ Batch(t, b) /\ at[t] <= b
    /\ pc[t] # "returned" \/ at[t] < b => tally[b] > 0
    /\ (pc[t] = "batch" \/ at[t] < b) /\ ~shutting => pending[b] > 0

Place(t) ==
  pc[t] # "ended" =>
    /\ Lo[t] <= next[t] /\ next[t] <= at[t]
    /\ pc[t] \in Mid => seen[t] = TxCount
    /\ seen[t] > 0 => Inside(t)
    /\ pc[t] = "batch" /\ seen[t] = 0 => at[t] = next[t]

\* The rows of a slot are in the table or in somebody's hands.
SlotKept(s) == s \in slotRows \/ s \in buffer \/ \E w \in tasks : w.kind = "rows" /\ s \in w.slots
StatusKept(s) == statusRows[s] > 0 \/ \E w \in tasks : w.kind = "status" /\ w.key = s
EventKept(s) == eventRows[s] > 0 \/ \E w \in tasks : w.kind = "events" /\ w.key = s

Conserved ==
  /\ \A s \in accepted : SlotKept(s) /\ StatusKept(s) /\ EventKept(s)
  /\ \A t \in Threads : pc[t] \in {"collected", "counted"} /\ at[t] \in Blocks =>
       SlotKept(at[t]) /\ EventKept(at[t])

\* Callbacks, then tasks, then the buffer come to rest.
Quiet ==
  /\ phase \notin {"streaming", "aborted"} => \A t \in Threads : pc[t] = "ended"
  /\ phase \in {"exiting", "backfilling", "done"} => buffer = {}

\* No row without a transaction is written.
Positive == \A s \in Slots : 0 \notin undated[s]

Threading == \A t \in Threads : Place(t)

WritesInv ==
  /\ TypeOK /\ Counter /\ Shapes /\ Unique /\ Past
  /\ Threading /\ Conserved /\ Quiet /\ Positive /\ DrainCoversWrites

-----------------------------------------------------------------------------
\* Each slot is one thread's.
LEMMA OwnSlots ==
  /\ \A t \in Threads : SlotsOf(t) \subseteq Slots /\ SlotsOf(t) \subseteq Nat
  /\ \A t, u \in Threads, s \in Nat : s \in SlotsOf(t) /\ s \in SlotsOf(u) => t = u
  /\ Slots \subseteq Nat /\ Blocks \subseteq Slots
  /\ \A t \in Threads : Lo[t] \in Nat /\ Hi[t] \in Nat
<1>1. \A t \in Threads : Lo[t] \in Nat /\ Hi[t] \in Nat
  BY RangesAssumption
<1>2. \A t \in Threads : SlotsOf(t) \subseteq Slots /\ SlotsOf(t) \subseteq Nat
  BY <1>1 DEF SlotsOf, Slots
<1>3. \A t, u \in Threads, s \in Nat : s \in SlotsOf(t) /\ s \in SlotsOf(u) => t = u
  BY RangesAssumption
<1>4. Slots \subseteq Nat
  BY <1>2 DEF Slots
<1> QED BY <1>1, <1>2, <1>3, <1>4, BlocksAssumption

\* A spawned task that is not yet there is counted.
LEMMA SpawnCounts ==
  ASSUME TypeOK, Counter, NEW w \in Tasks, w \notin tasks, Spawn({w})
  PROVE  /\ tasks' = tasks \cup {w} /\ tasks' \subseteq Tasks /\ IsFiniteSet(tasks')
         /\ inFlight' \in Nat /\ Counter'
<1>1. tasks' = tasks \cup {w} /\ inFlight' = inFlight + Cardinality({w})
  BY DEF Spawn
<1>2. Cardinality({w}) = 1
  BY FS_Singleton
<1>3. IsFiniteSet(tasks \cup {w}) /\ Cardinality(tasks \cup {w}) = Cardinality(tasks) + 1
  BY FS_AddElement DEF TypeOK
<1> QED BY <1>1, <1>2, <1>3 DEF TypeOK, Counter

LEMMA SpawnsNothing ==
  ASSUME TypeOK, Spawn({})
  PROVE  tasks' = tasks /\ inFlight' = inFlight
<1>1. Cardinality({}) = 0
  BY FS_EmptySet
<1> QED BY <1>1 DEF Spawn, TypeOK

\* A task that ends is no longer counted.
LEMMA FinishCounts ==
  ASSUME TypeOK, Counter, NEW w \in tasks, Finished(w)
  PROVE  /\ tasks' = tasks \ {w} /\ tasks' \subseteq Tasks /\ IsFiniteSet(tasks')
         /\ inFlight' \in Nat /\ Counter'
<1>1. tasks' = tasks \ {w} /\ inFlight' = inFlight - 1
  BY DEF Finished
<1>2. IsFiniteSet(tasks \ {w}) /\ Cardinality(tasks \ {w}) = Cardinality(tasks) - 1
  BY FS_RemoveElement DEF TypeOK
<1>3. Cardinality(tasks \ {w}) \in Nat
  BY <1>2, FS_CardinalityType
<1> QED BY <1>1, <1>2, <1>3 DEF TypeOK, Counter

\* Callbacks run only while the firehose does.
LEMMA CallbacksStream ==
  ASSUME WritesInv, Alive, NEW t \in Threads, pc[t] # "ended"
  PROVE  phase = "streaming"
BY DEF WritesInv, Quiet, Alive, TypeOK, Phases

\* The block of a batch is in the thread's range.
LEMMA BatchSlot ==
  ASSUME TypeOK, NEW t \in Threads, Lo[t] <= next[t], NEW b, b \in Remaining(t)
  PROVE  b \in SlotsOf(t) /\ b \in Nat /\ b \in Slots
<1>1. b \in Nat /\ Lo[t] \in Nat /\ Hi[t] \in Nat /\ next[t] \in Nat
  BY OwnSlots DEF TypeOK, Remaining
<1> QED BY <1>1, OwnSlots DEF Remaining, SlotsOf

\* Where a thread inside a batch stands.
LEMMA InsideSlot ==
  ASSUME TypeOK, NEW t \in Threads, Place(t), pc[t] # "ended", seen[t] > 0
  PROVE  at[t] \in SlotsOf(t) /\ at[t] \in Nat /\ at[t] \in Slots
<1>1. PICK b \in Blocks : Batch(t, b) /\ at[t] <= b
  BY DEF Place, Inside
<1>2. b \in SlotsOf(t) /\ b \in Nat
  BY <1>1, BatchSlot DEF Place, Batch
<1>3. at[t] \in Nat /\ Lo[t] \in Nat /\ Hi[t] \in Nat /\ next[t] \in Nat
  BY OwnSlots DEF TypeOK
<1>4. at[t] \in SlotsOf(t)
  BY <1>1, <1>2, <1>3 DEF SlotsOf, Place
<1> QED BY <1>3, <1>4, OwnSlots

\* A block a thread inside a batch stands at is the block of the batch.
LEMMA AtBlock ==
  ASSUME TypeOK, NEW t \in Threads, Place(t), pc[t] # "ended", seen[t] > 0,
         at[t] \in Blocks, NEW b \in Blocks, Batch(t, b), at[t] <= b
  PROVE  at[t] = b
<1>1. at[t] \in Nat /\ b \in Nat /\ Hi[t] \in Nat /\ next[t] \in Nat
  BY OwnSlots DEF TypeOK
<1>2. b < Hi[t] /\ next[t] <= at[t]
  BY DEF Batch, Remaining, Place
<1>3. at[t] \in Remaining(t)
  BY <1>1, <1>2 DEF Remaining
<1> QED BY <1>1, <1>3 DEF Batch

-----------------------------------------------------------------------------
\* What another thread's step leaves alone keeps a thread's place.
LEMMA BystanderPlace ==
  ASSUME TypeOK, NEW u \in Threads, Place(u),
         pc'[u] = pc[u], next'[u] = next[u], at'[u] = at[u], seen'[u] = seen[u],
         shutting => shutting',
         \A s \in SlotsOf(u) :
           (tally[s] > 0 => tally'[s] > 0) /\ (pending[s] > 0 => pending'[s] > 0)
  PROVE  Place(u)'
<1>1. Remaining(u)' = Remaining(u)
  BY DEF Remaining
<1>2. ASSUME pc[u] # "ended", seen[u] > 0 PROVE Inside(u)'
  <2>1. PICK b \in Blocks : /\ Batch(u, b) /\ at[u] <= b
                            /\ pc[u] # "returned" \/ at[u] < b => tally[b] > 0
                            /\ (pc[u] = "batch" \/ at[u] < b) /\ ~shutting => pending[b] > 0
    BY <1>2 DEF Place, Inside
  <2>2. b \in SlotsOf(u)
    BY <2>1, <1>2, BatchSlot DEF Place, Batch
  <2>3. Batch(u, b)'
    BY <1>1, <2>1 DEF Batch
  <2> QED BY <2>1, <2>2, <2>3 DEF Inside
<1> QED BY <1>2 DEF Place, Mid

\* Rows stay kept while the tables, the buffer and the tasks only grow.
LEMMA KeptGrows ==
  ASSUME UNCHANGED <<slotRows, statusRows, eventRows>>, buffer \subseteq buffer', tasks \subseteq tasks'
  PROVE  \A s : /\ SlotKept(s) => SlotKept(s)'
                /\ StatusKept(s) => StatusKept(s)'
                /\ EventKept(s) => EventKept(s)'
BY DEF SlotKept, StatusKept, EventKept

\* on_transaction adds to what is collected for the block.
LEMMA OnTransactionKeeps ==
  ASSUME WritesInv, NEW t \in Threads, OnTransaction(t)
  PROVE  WritesInv'
<1> USE DEF WritesInv
<1>1. PICK b \in Blocks :
        /\ pc[t] = "batch" /\ Batch(t, b) /\ seen[t] < TxCount
        /\ seen' = [seen EXCEPT ![t] = @ + 1]
        /\ tally' = [tally EXCEPT ![b] = @ + 1]
        /\ pending' = IF shutting THEN pending ELSE [pending EXCEPT ![b] = @ + 1]
        /\ UNCHANGED <<phase, pc, next, at, flags, buffer, reported, writes, tables, history, session, faults>>
  BY DEF OnTransaction
<1>2. b \in Slots /\ b \in Nat /\ Lo[t] <= next[t] /\ next[t] <= at[t]
  BY <1>1, OwnSlots DEF Threading, Place
<1>3. seen'[t] \in 0 .. TxCount /\ seen'[t] > 0
  BY <1>1, CountsAssumption DEF TypeOK
<1>4. tally' \in [Slots -> Nat] /\ pending' \in [Slots -> Nat]
  BY <1>1, <1>2 DEF TypeOK
<1>5. tally'[b] > 0 /\ (~shutting => pending'[b] > 0)
  BY <1>1, <1>2 DEF TypeOK
<1>6. \A s \in Slots : (tally[s] > 0 => tally'[s] > 0) /\ (pending[s] > 0 => pending'[s] > 0)
  BY <1>1, <1>2 DEF TypeOK
<1>7. TypeOK'
  <2>1. seen' \in [Threads -> 0 .. TxCount]
    BY <1>1, <1>3 DEF TypeOK
  <2> QED BY <1>1, <1>4, <2>1 DEF TypeOK, flags, writes, tables, history, session
<1>8. at[t] <= b
  <2>1. CASE seen[t] = 0
    BY <2>1, <1>1 DEF Threading, Place, Batch, Remaining
  <2>2. CASE seen[t] > 0
    <3>1. PICK c \in Blocks : Batch(t, c) /\ at[t] <= c
      BY <2>2, <1>1 DEF Threading, Place, Inside
    <3>2. b <= c /\ c <= b
      BY <1>1, <3>1 DEF Batch
    <3>3. c = b
      BY <3>2, <1>2, OwnSlots
    <3> QED BY <3>1, <3>3
  <2> QED BY <2>1, <2>2 DEF TypeOK
<1>9. Place(t)'
  <2>1. Batch(t, b)' /\ pc'[t] = "batch" /\ at'[t] = at[t] /\ next'[t] = next[t] /\ shutting' = shutting
    BY <1>1 DEF Batch, Remaining, flags
  <2>2. Inside(t)'
    BY <2>1, <1>8, <1>5 DEF Inside
  <2> QED BY <2>1, <2>2, <1>2, <1>3 DEF Place, Mid
<1>10. ASSUME NEW u \in Threads, u # t PROVE Place(u)'
  <2>1. pc'[u] = pc[u] /\ next'[u] = next[u] /\ at'[u] = at[u] /\ seen'[u] = seen[u] /\ shutting' = shutting
    BY <1>1, <1>10 DEF TypeOK, flags
  <2>2. SlotsOf(u) \subseteq Slots
    BY OwnSlots
  <2> QED BY <2>1, <2>2, <1>6, BystanderPlace DEF Threading
<1>11. Conserved'
  <2>1. UNCHANGED <<slotRows, statusRows, eventRows, buffer, tasks, accepted, pc, at>>
    BY <1>1 DEF writes, tables, history
  <2> QED BY <2>1, KeptGrows DEF Conserved
<1>12. Counter' /\ Shapes' /\ Unique' /\ Past' /\ Quiet' /\ Positive' /\ DrainCoversWrites'
  BY <1>1 DEF Counter, Shapes, Unique, Past, Quiet, Positive, DrainCoversWrites, writes, tables
<1> QED BY <1>7, <1>9, <1>10, <1>11, <1>12 DEF Threading

\* A retried batch starts at its first transaction; what was collected stays.
LEMMA RetryBatchKeeps ==
  ASSUME WritesInv, NEW t \in Threads, RetryBatch(t)
  PROVE  WritesInv'
<1> USE DEF WritesInv
<1>1. PICK b \in Blocks :
        /\ pc[t] = "batch" /\ at[t] = next[t] /\ faults' = faults + 1
        /\ seen' = [seen EXCEPT ![t] = 0]
        /\ replayed' = replayed \cup {b}
        /\ UNCHANGED <<phase, pc, next, at, flags, memory, writes, tables, accepted, session>>
  BY DEF RetryBatch, Fault
<1>2. TypeOK'
  <2>1. seen' \in [Threads -> 0 .. TxCount]
    BY <1>1, CountsAssumption DEF TypeOK
  <2>2. replayed' \subseteq Slots
    BY <1>1, OwnSlots DEF TypeOK
  <2> QED BY <1>1, <2>1, <2>2 DEF TypeOK, flags, writes, tables, memory, session
<1>3. Place(t)'
  BY <1>1 DEF Threading, Place, Mid, TypeOK
<1>4. ASSUME NEW u \in Threads, u # t PROVE Place(u)'
  BY <1>1, <1>4, BystanderPlace DEF TypeOK, flags, memory, Threading
<1>5. Conserved'
  <2>1. UNCHANGED <<slotRows, statusRows, eventRows, buffer, tasks, accepted, pc, at>>
    BY <1>1 DEF writes, tables, memory
  <2> QED BY <2>1, KeptGrows DEF Conserved
<1>6. Counter' /\ Shapes' /\ Unique' /\ Past' /\ Quiet' /\ Positive' /\ DrainCoversWrites'
  BY <1>1 DEF Counter, Shapes, Unique, Past, Quiet, Positive, DrainCoversWrites, writes, tables, memory
<1> QED BY <1>2, <1>3, <1>4, <1>5, <1>6 DEF Threading

\* A thread at the end of a batch stands in its own range.
LEMMA AtEnd ==
  ASSUME WritesInv, NEW t \in Threads, pc[t] # "ended", seen[t] = TxCount
  PROVE  /\ at[t] \in SlotsOf(t) /\ at[t] \in Nat /\ at[t] \in Slots
         /\ seen[t] > 0 /\ Place(t) /\ Inside(t)
<1> USE DEF WritesInv
<1>1. seen[t] > 0
  BY CountsAssumption
<1> QED BY <1>1, InsideSlot DEF Threading, Place

\* A spawned task changes nothing for the tasks there are.
LEMMA PastGrows ==
  ASSUME TypeOK, Past, NEW w \in Tasks, tasks' = tasks \cup {w}, at' = at,
         NEW t \in Threads,
         \A u \in Threads : u # t => pc'[u] = pc[u],
         pc[t] \in Mid => pc'[t] \in Mid,
         pc[t] # "returned",
         \A u \in Threads : w.key \in SlotsOf(u) =>
           /\ w.kind = "events" => w.key < at[u] \/ (w.key = at[u] /\ pc'[u] \in Mid)
           /\ w.kind = "status" => w.key < at[u] \/ (w.key = at[u] /\ pc'[u] = "returned")
  PROVE  Past'
<1>1. ASSUME NEW v \in tasks', NEW u \in Threads, v.key \in SlotsOf(u)
      PROVE  /\ v.kind = "events" => v.key < at[u] \/ (v.key = at[u] /\ pc'[u] \in Mid)
             /\ v.kind = "status" => v.key < at[u] \/ (v.key = at[u] /\ pc'[u] = "returned")
  <2>1. CASE v = w
    BY <2>1, <1>1
  <2>2. CASE v \in tasks
    BY <2>2, <1>1 DEF Past
  <2> QED BY <2>1, <2>2
<1> QED BY <1>1 DEF Past, SlotsOf

\* on_block for a block: the plugin's events go to a task, the slot to the buffer.
LEMMA OnBlockTakes ==
  ASSUME WritesInv, NEW t \in Threads, pc[t] = "batch", seen[t] = TxCount, ~shutting,
         at[t] \in Blocks, phase = "streaming",
         pending' = [pending EXCEPT ![at[t]] = 0],
         buffer' = buffer \cup {at[t]},
         Spawn({Event(c, pending[c]) : c \in {c \in {at[t]} : pending[c] > 0}}),
         Go(t, "collected"),
         UNCHANGED <<phase, next, at, seen, flags, tally, reported, tables, history, session, faults>>
  PROVE  WritesInv'
<1> USE DEF WritesInv
<1> DEFINE s == at[t]
<1> DEFINE w == Event(s, pending[s])
<1>1. s \in SlotsOf(t) /\ s \in Nat /\ s \in Slots /\ seen[t] > 0 /\ Place(t)
  BY AtEnd
<1>2. PICK b \in Blocks : /\ Batch(t, b) /\ s <= b
                          /\ tally[b] > 0 /\ pending[b] > 0
  BY <1>1 DEF Place, Inside
<1>3. s = b
  BY <1>1, <1>2, AtBlock
<1>4. pending[s] > 0 /\ tally[s] > 0 /\ pending[s] \in Nat
  BY <1>1, <1>2, <1>3 DEF TypeOK
<1>5. {Event(c, pending[c]) : c \in {c \in {s} : pending[c] > 0}} = {w}
  BY <1>4
<1>6. w \in Tasks /\ w.kind = "events" /\ w.key = s /\ w.slots = {s} /\ w.count = pending[s]
  BY <1>1, <1>4 DEF Event, Tasks
<1>7. w \notin tasks
  BY <1>1, <1>6 DEF Past, Mid
<1>8. tasks' = tasks \cup {w} /\ tasks' \subseteq Tasks /\ IsFiniteSet(tasks') /\ inFlight' \in Nat /\ Counter'
  <2>1. Spawn({w})
    BY <1>5
  <2> HIDE DEF w
  <2> QED BY <2>1, <1>6, <1>7, SpawnCounts
<1> HIDE DEF w
<1>9. pc' = [pc EXCEPT ![t] = "collected"] /\ pc'[t] = "collected"
  BY DEF Go, TypeOK
<1>10. TypeOK'
  BY <1>1, <1>8, <1>9 DEF TypeOK, PCs, flags, tables, history, session
<1>11. Shapes' /\ Unique'
  <2>1. w.kind \notin Batched /\ reported' = reported
    BY <1>6 DEF Batched
  <2>2. Shapes'
    BY <1>4, <1>6, <1>8, <2>1 DEF Shapes
  <2> QED BY <2>1, <2>2, <1>8 DEF Unique
<1>12. Past'
  <2>1. \A u \in Threads : w.key \in SlotsOf(u) => u = t
    BY <1>1, <1>6, OwnSlots
  <2>2. \A u \in Threads : u # t => pc'[u] = pc[u]
    BY <1>9 DEF TypeOK
  <2> QED BY <2>1, <2>2, <1>6, <1>8, <1>9, PastGrows DEF Mid
<1>13. Place(t)'
  <2>1. Batch(t, b)' /\ at'[t] = b /\ tally'[b] > 0
    BY <1>2, <1>3 DEF Batch, Remaining
  <2>2. Inside(t)'
    BY <2>1, <1>1, <1>3, <1>9 DEF Inside
  <2> QED BY <2>2, <1>1, <1>9 DEF Place, Mid
<1>14. ASSUME NEW u \in Threads, u # t PROVE Place(u)'
  <2>1. s \notin SlotsOf(u)
    BY <1>1, <1>14, OwnSlots
  <2>2. \A c \in SlotsOf(u) : pending'[c] = pending[c]
    BY <2>1, OwnSlots DEF TypeOK
  <2>3. pc'[u] = pc[u]
    BY <1>9, <1>14 DEF TypeOK
  <2> QED BY <2>2, <2>3, BystanderPlace DEF Threading, flags
<1>15. Conserved'
  <2>1. tasks \subseteq tasks' /\ buffer \subseteq buffer' /\ UNCHANGED <<slotRows, statusRows, eventRows, accepted, at>>
    BY <1>8 DEF tables, history
  <2>2. SlotKept(s)' /\ EventKept(s)'
    BY <1>6, <1>8 DEF SlotKept, EventKept
  <2>3. \A u \in Threads : u # t => pc'[u] = pc[u]
    BY <1>9 DEF TypeOK
  <2>4. \A c : /\ SlotKept(c) => SlotKept(c)'
               /\ StatusKept(c) => StatusKept(c)'
               /\ EventKept(c) => EventKept(c)'
    BY <2>1, KeptGrows
  <2>5. ASSUME NEW u \in Threads, pc'[u] \in {"collected", "counted"}, at[u] \in Blocks
        PROVE  SlotKept(at[u])' /\ EventKept(at[u])'
    <3>1. CASE u = t
      BY <2>2, <3>1
    <3>2. CASE u # t
      BY <2>3, <2>4, <2>5, <3>2 DEF Conserved
    <3> QED BY <3>1, <3>2
  <2>6. \A c \in accepted : SlotKept(c)' /\ StatusKept(c)' /\ EventKept(c)'
    BY <2>4 DEF Conserved
  <2> QED BY <2>1, <2>5, <2>6 DEF Conserved, SlotKept, EventKept
<1>16. Quiet' /\ Positive' /\ DrainCoversWrites'
  BY DEF Quiet, Positive, DrainCoversWrites, tables
<1> QED BY <1>8, <1>10, <1>11, <1>12, <1>13, <1>14, <1>15, <1>16 DEF Threading

\* A step inside on_block that spawns nothing: on_block ignores the slot, reports
\* a skipped one, or counts a slot that is not due for a flush.
LEMMA MidStep ==
  ASSUME WritesInv, NEW t \in Threads, seen[t] = TxCount, phase = "streaming",
         pc[t] \in {"batch", "collected", "counted"}, NEW l \in Mid, Go(t, l),
         at[t] \in Blocks => \/ pc[t] = "batch" /\ l = "returned" /\ shutting
                             \/ pc[t] = "collected" /\ l = "counted",
         reported' \in Nat, reported <= reported',
         tally' = tally \/ (at[t] \notin Blocks /\ tally' = [tally EXCEPT ![at[t]] = 0]),
         UNCHANGED <<phase, next, at, seen, flags, pending, buffer, writes, tables, history,
                     session, faults>>
  PROVE  WritesInv'
<1> USE DEF WritesInv
<1> DEFINE s == at[t]
<1>1. s \in SlotsOf(t) /\ s \in Nat /\ s \in Slots /\ seen[t] > 0 /\ Place(t)
  BY AtEnd
<1>2. PICK b \in Blocks : /\ Batch(t, b) /\ s <= b
                          /\ pc[t] # "returned" \/ s < b => tally[b] > 0
                          /\ (pc[t] = "batch" \/ s < b) /\ ~shutting => pending[b] > 0
  BY <1>1 DEF Place, Inside
<1>3. pc' = [pc EXCEPT ![t] = l] /\ pc'[t] = l
  BY DEF Go, TypeOK
<1>4. b \in Nat /\ tally[b] > 0 /\ tally'[b] > 0
  <2>1. b \in Nat /\ b \in Slots /\ tally[b] > 0
    BY <1>2, OwnSlots
  <2> QED BY <2>1 DEF TypeOK
<1>5. TypeOK'
  <2>1. pc' \in [Threads -> PCs]
    BY <1>3 DEF TypeOK, PCs, Mid
  <2>2. tally' \in [Slots -> Nat]
    BY <1>1 DEF TypeOK
  <2> QED BY <2>1, <2>2 DEF TypeOK, flags, writes, tables, history, session
<1>6. Shapes' /\ Unique' /\ Counter'
  <2>1. \A w \in tasks : w.kind \in Batched => w.key \in Nat /\ w.key <= reported'
    BY DEF Shapes, TypeOK, Tasks
  <2> QED BY <2>1 DEF Shapes, Unique, Counter, writes
<1>7. Past'
  BY <1>3 DEF Past, SlotsOf, writes, TypeOK, Mid
<1>8. Place(t)'
  <2>1. Batch(t, b)' /\ at'[t] = s /\ next'[t] = next[t] /\ seen'[t] = seen[t]
    BY <1>2 DEF Batch, Remaining
  <2>2. ASSUME s < b, ~shutting PROVE pending[b] > 0
    BY <1>2, <2>2
  <2>3. CASE s \in Blocks
    <3>1. s = b
      BY <1>1, <1>2, <2>3, AtBlock
    <3>2. (l = "returned" /\ shutting) \/ (l = "counted" /\ ~(s < b))
      BY <2>3, <3>1, <1>1
    <3>3. Inside(t)'
      BY <2>1, <3>1, <3>2, <1>1, <1>3, <1>4 DEF Inside, flags
    <3> QED BY <2>1, <3>3, <1>1, <1>3 DEF Place, Mid
  <2>4. CASE s \notin Blocks
    <3>1. s < b
      BY <2>4, <1>1, <1>2, <1>4
    <3>2. Inside(t)'
      BY <2>1, <2>2, <3>1, <1>2, <1>3, <1>4 DEF Inside, flags
    <3> QED BY <2>1, <3>2, <1>1, <1>3 DEF Place, Mid
  <2> QED BY <2>3, <2>4
<1>9. ASSUME NEW u \in Threads, u # t PROVE Place(u)'
  <2>1. s \notin SlotsOf(u)
    BY <1>1, <1>9, OwnSlots
  <2>2. \A c \in SlotsOf(u) : tally'[c] = tally[c]
    BY <2>1, OwnSlots DEF TypeOK
  <2>3. pc'[u] = pc[u]
    BY <1>3, <1>9 DEF TypeOK
  <2> QED BY <2>2, <2>3, BystanderPlace DEF Threading, flags
<1>10. Conserved'
  <2>1. UNCHANGED <<slotRows, statusRows, eventRows, buffer, tasks, accepted, at>>
    BY DEF writes, tables, history
  <2>2. \A u \in Threads : u # t => pc'[u] = pc[u]
    BY <1>3 DEF TypeOK
  <2>3. pc'[t] \in {"collected", "counted"} /\ at[t] \in Blocks => pc[t] = "collected"
    BY <1>3
  <2>4. \A c : SlotKept(c)' = SlotKept(c) /\ StatusKept(c)' = StatusKept(c) /\ EventKept(c)' = EventKept(c)
    BY <2>1 DEF SlotKept, StatusKept, EventKept
  <2>5. \A u \in Threads : pc'[u] \in {"collected", "counted"} /\ at[u] \in Blocks =>
          SlotKept(at[u]) /\ EventKept(at[u])
    BY <2>2, <2>3 DEF Conserved
  <2>6. \A c \in accepted : SlotKept(c)' /\ StatusKept(c)' /\ EventKept(c)'
    BY <2>4 DEF Conserved
  <2> QED BY <2>1, <2>4, <2>5, <2>6 DEF Conserved, SlotKept, EventKept
<1>11. Quiet' /\ Positive' /\ DrainCoversWrites'
  BY DEF Quiet, Positive, DrainCoversWrites, tables
<1> QED BY <1>5, <1>6, <1>7, <1>8, <1>9, <1>10, <1>11 DEF Threading

LEMMA OnBlockKeeps ==
  ASSUME WritesInv, NEW t \in Threads, OnBlock(t)
  PROVE  WritesInv'
<1>1. phase = "streaming" /\ pc[t] = "batch" /\ seen[t] = TxCount
  BY CallbacksStream DEF OnBlock
<1>2. reported \in Nat /\ reported <= reported
  BY DEF WritesInv, TypeOK
<1>3. CASE shutting /\ Go(t, "returned") /\ UNCHANGED <<pending, buffer, writes>>
  <2>1. UNCHANGED <<phase, next, at, seen, flags, tally, reported, tables, history, session, faults>>
    BY DEF OnBlock
  <2> QED BY <1>1, <1>2, <1>3, <2>1, MidStep DEF Mid
<1>4. CASE ~shutting /\ at[t] \notin Blocks
  <2>1. Go(t, "collected") /\ UNCHANGED <<pending, buffer, writes>>
    BY <1>4 DEF OnBlock, Ignoring
  <2>2. UNCHANGED <<phase, next, at, seen, flags, tally, reported, tables, history, session, faults>>
    BY DEF OnBlock
  <2> QED BY <1>1, <1>2, <1>4, <2>1, <2>2, MidStep DEF Mid
<1>5. CASE ~shutting /\ at[t] \in Blocks
  <2>1. /\ pending' = [pending EXCEPT ![at[t]] = 0] /\ buffer' = buffer \cup {at[t]}
        /\ Spawn({Event(c, pending[c]) : c \in {c \in {at[t]} : pending[c] > 0}})
        /\ Go(t, "collected")
    BY <1>5 DEF OnBlock, Ignoring
  <2>2. UNCHANGED <<phase, next, at, seen, flags, tally, reported, tables, history, session, faults>>
    BY DEF OnBlock
  <2> QED BY <1>1, <1>5, <2>1, <2>2, OnBlockTakes
<1> QED BY <1>3, <1>4, <1>5 DEF OnBlock, Ignoring

\* What a thread inside on_block spawns besides events: its place moves to l.
LEMMA SpawnStep ==
  ASSUME WritesInv, NEW t \in Threads, seen[t] = TxCount, phase = "streaming",
         pc[t] \in {"collected", "counted"}, NEW l \in {"counted", "returned"}, Go(t, l),
         pc[t] = "collected" => l = "counted",
         NEW w \in Tasks, w \notin tasks, Spawn({w}),
         UNCHANGED <<next, at>>
  PROVE  /\ tasks' = tasks \cup {w} /\ tasks' \subseteq Tasks /\ IsFiniteSet(tasks')
         /\ inFlight' \in Nat /\ Counter'
         /\ pc' = [pc EXCEPT ![t] = l] /\ pc'[t] = l /\ pc' \in [Threads -> PCs]
         /\ \A u \in Threads : u # t => pc'[u] = pc[u]
         /\ (w.kind = "status" => w.key = at[t] /\ l = "returned") /\ w.kind # "events" => Past'
<1>1. pc' = [pc EXCEPT ![t] = l] /\ pc'[t] = l /\ pc' \in [Threads -> PCs]
  BY DEF Go, WritesInv, TypeOK, PCs
<1>2. \A u \in Threads : u # t => pc'[u] = pc[u]
  BY <1>1 DEF WritesInv, TypeOK
<1>3. tasks' = tasks \cup {w} /\ tasks' \subseteq Tasks /\ IsFiniteSet(tasks') /\ inFlight' \in Nat /\ Counter'
  BY SpawnCounts DEF WritesInv
<1>4. ASSUME w.kind = "status" => w.key = at[t] /\ l = "returned", w.kind # "events"
      PROVE  Past'
  <2>1. at[t] \in SlotsOf(t) /\ at[t] \in Nat
    BY AtEnd
  <2>2. \A u \in Threads : w.kind = "status" /\ w.key \in SlotsOf(u) => u = t
    BY <1>4, <2>1, OwnSlots
  <2> QED BY <1>1, <1>2, <1>3, <1>4, <2>2, PastGrows DEF WritesInv, Mid
<1> QED BY <1>1, <1>2, <1>3, <1>4

\* The flush of every FlushInterval-th slot.
LEMMA FlushSpawned ==
  ASSUME WritesInv, NEW t \in Threads, CountSlot(t), Spawn({Flush(reported + 1)})
  PROVE  WritesInv'
<1> USE DEF WritesInv
<1> DEFINE w == Flush(reported + 1)
<1>1. pc[t] = "collected" /\ reported' = reported + 1 /\ Go(t, "counted") /\
      UNCHANGED <<phase, next, at, seen, flags, tally, pending, buffer, tables, history, session, faults>>
  BY DEF CountSlot
<1>2. phase = "streaming" /\ seen[t] = TxCount /\ Place(t) /\ Inside(t) /\ at[t] \in Nat
  <2>1. phase = "streaming"
    BY <1>1, CallbacksStream DEF CountSlot
  <2>2. seen[t] = TxCount
    BY <1>1 DEF Threading, Place, Mid
  <2> QED BY <1>1, <2>1, <2>2, AtEnd
<1>3. w \in Tasks /\ w.kind = "flush" /\ w.key = reported + 1
  BY DEF Flush, Tasks, TypeOK
<1>4. reported \in Nat /\ \A v \in tasks : v.kind \in Batched => v.key <= reported /\ v.key \in Nat
  BY DEF Shapes, TypeOK, Tasks
<1>5. w \notin tasks
  BY <1>3, <1>4 DEF Batched
<1> HIDE DEF w
<1>6. /\ tasks' = tasks \cup {w} /\ tasks' \subseteq Tasks /\ IsFiniteSet(tasks')
      /\ inFlight' \in Nat /\ Counter' /\ pc' = [pc EXCEPT ![t] = "counted"] /\ pc'[t] = "counted"
      /\ pc' \in [Threads -> PCs] /\ Past'
      /\ \A u \in Threads : u # t => pc'[u] = pc[u]
  <2>1. Spawn({w})
    BY DEF w
  <2> QED BY <1>1, <1>2, <1>3, <1>5, <2>1, SpawnStep
<1>7. TypeOK'
  BY <1>1, <1>4, <1>6 DEF TypeOK, flags, tables, history, session
<1>8. Shapes' /\ Unique'
  <2>1. ASSUME NEW v \in tasks'
        PROVE  /\ v.kind \in {"events", "status"} => v.slots = {v.key} /\ v.count > 0
               /\ v.kind \in Batched => v.key <= reported'
    BY <2>1, <1>1, <1>3, <1>4, <1>6 DEF Shapes, Batched
  <2>2. \A v \in tasks : v.kind \in Batched => v.key # w.key
    BY <1>3, <1>4
  <2> QED BY <2>1, <2>2, <1>6 DEF Shapes, Unique
<1>9. Place(t)'
  <2>1. Inside(t)'
    BY <1>1, <1>2, <1>6 DEF Inside, Batch, Remaining, flags
  <2> QED BY <2>1, <1>1, <1>2, <1>6 DEF Place, Mid
<1>10. ASSUME NEW u \in Threads, u # t PROVE Place(u)'
  BY <1>1, <1>6, <1>10, BystanderPlace DEF Threading, flags
<1>11. Conserved'
  <2>1. UNCHANGED <<slotRows, statusRows, eventRows, buffer, accepted, at>> /\ tasks \subseteq tasks'
    BY <1>1, <1>6 DEF tables, history
  <2>2. \A c : /\ SlotKept(c) => SlotKept(c)'
               /\ StatusKept(c) => StatusKept(c)'
               /\ EventKept(c) => EventKept(c)'
    BY <2>1, KeptGrows
  <2>3. \A u \in Threads : pc'[u] \in {"collected", "counted"} => pc[u] \in {"collected", "counted"}
    BY <1>1, <1>6
  <2>4. \A u \in Threads : pc'[u] \in {"collected", "counted"} /\ at[u] \in Blocks =>
          SlotKept(at[u])' /\ EventKept(at[u])'
    BY <2>1, <2>2, <2>3 DEF Conserved, SlotKept, EventKept
  <2>5. \A c \in accepted : SlotKept(c)' /\ StatusKept(c)' /\ EventKept(c)'
    BY <2>2 DEF Conserved
  <2> QED BY <2>1, <2>4, <2>5 DEF Conserved, SlotKept, EventKept
<1>12. Quiet' /\ Positive' /\ DrainCoversWrites'
  BY <1>1, <1>2 DEF Quiet, Positive, DrainCoversWrites, tables
<1> QED BY <1>6, <1>7, <1>8, <1>9, <1>10, <1>11, <1>12 DEF Threading

LEMMA CountSlotKeeps ==
  ASSUME WritesInv, NEW t \in Threads, CountSlot(t)
  PROVE  WritesInv'
<1>1. CASE Spawn({Flush(reported + 1)})
  BY <1>1, FlushSpawned
<1>2. CASE UNCHANGED writes
  <2>1. pc[t] = "collected" /\ reported' = reported + 1 /\ Go(t, "counted") /\
        UNCHANGED <<phase, next, at, seen, flags, tally, pending, buffer, tables, history, session, faults>>
    BY DEF CountSlot
  <2>2. phase = "streaming" /\ seen[t] = TxCount
    BY <2>1, CallbacksStream DEF CountSlot, WritesInv, Threading, Place, Mid
  <2>3. reported' \in Nat /\ reported <= reported'
    BY <2>1 DEF WritesInv, TypeOK
  <2> QED BY <1>2, <2>1, <2>2, <2>3, MidStep DEF Mid
<1> QED BY <1>1, <1>2 DEF CountSlot

\* The status of a block is spawned; the run has taken the block on.
LEMMA StatusSpawned ==
  ASSUME WritesInv, NEW t \in Threads, RecordStatus(t), at[t] \in Blocks
  PROVE  WritesInv'
<1> USE DEF WritesInv
<1> DEFINE s == at[t]
<1> DEFINE w == Status(s, tally[s])
<1>1. /\ pc[t] = "counted" /\ tally' = [tally EXCEPT ![s] = 0] /\ Go(t, "returned")
      /\ Spawn({w}) /\ accepted' = accepted \cup {s}
      /\ UNCHANGED <<phase, next, at, seen, flags, pending, buffer, reported, tables, replayed, session, faults>>
  BY DEF RecordStatus
<1>2. /\ phase = "streaming" /\ seen[t] = TxCount /\ Place(t) /\ s \in SlotsOf(t)
      /\ s \in Nat /\ s \in Slots /\ seen[t] > 0
  <2>1. phase = "streaming"
    BY <1>1, CallbacksStream DEF RecordStatus
  <2>2. seen[t] = TxCount
    BY <1>1 DEF Threading, Place, Mid
  <2> QED BY <1>1, <2>1, <2>2, AtEnd
<1>3. PICK b \in Blocks : Batch(t, b) /\ s <= b /\ tally[b] > 0
  BY <1>1, <1>2 DEF Place, Inside
<1>4. s = b
  BY <1>1, <1>2, <1>3, AtBlock
<1>5. w \in Tasks /\ w.kind = "status" /\ w.key = s /\ w.slots = {s} /\ w.count > 0
  BY <1>2, <1>3, <1>4 DEF Status, Tasks, TypeOK
<1>6. w \notin tasks
  BY <1>1, <1>2, <1>5 DEF Past
<1> HIDE DEF w
<1>7. /\ tasks' = tasks \cup {w} /\ tasks' \subseteq Tasks /\ IsFiniteSet(tasks')
      /\ inFlight' \in Nat /\ Counter' /\ pc' = [pc EXCEPT ![t] = "returned"] /\ pc'[t] = "returned"
      /\ pc' \in [Threads -> PCs] /\ Past'
      /\ \A u \in Threads : u # t => pc'[u] = pc[u]
  BY <1>1, <1>2, <1>5, <1>6, SpawnStep
<1>8. TypeOK'
  <2>1. tally' \in [Slots -> Nat]
    BY <1>1, <1>2 DEF TypeOK
  <2>2. accepted' \subseteq Slots
    BY <1>1, <1>2 DEF TypeOK
  <2> QED BY <1>1, <1>7, <2>1, <2>2 DEF TypeOK, flags, tables, session
<1>9. Shapes' /\ Unique'
  <2>1. w.kind \notin Batched /\ reported' = reported
    BY <1>1, <1>5 DEF Batched
  <2>2. Shapes'
    BY <1>5, <1>7, <2>1 DEF Shapes
  <2> QED BY <2>1, <2>2, <1>7 DEF Unique
<1>10. Place(t)'
  <2>1. Batch(t, b)' /\ at'[t] = b /\ ~(b < b)
    BY <1>1, <1>2, <1>3, <1>4 DEF Batch, Remaining
  <2>2. Inside(t)'
    BY <2>1, <1>2, <1>4, <1>7 DEF Inside
  <2> QED BY <2>2, <1>1, <1>2, <1>7 DEF Place, Mid
<1>11. ASSUME NEW u \in Threads, u # t PROVE Place(u)'
  <2>1. s \notin SlotsOf(u)
    BY <1>2, <1>11, OwnSlots
  <2>2. \A c \in SlotsOf(u) : tally'[c] = tally[c]
    BY <1>1, <2>1, OwnSlots DEF TypeOK
  <2> QED BY <1>1, <1>7, <1>11, <2>2, BystanderPlace DEF Threading, flags
<1>12. Conserved'
  <2>1. UNCHANGED <<slotRows, statusRows, eventRows, buffer, at>> /\ tasks \subseteq tasks'
    BY <1>1, <1>7 DEF tables
  <2>2. \A c : /\ SlotKept(c) => SlotKept(c)'
               /\ StatusKept(c) => StatusKept(c)'
               /\ EventKept(c) => EventKept(c)'
    BY <2>1, KeptGrows
  <2>3. StatusKept(s)'
    <3>1. w \in tasks' /\ w.kind = "status" /\ w.key = s
      BY <1>5, <1>7
    <3>2. s' = s
      BY <2>1
    <3> QED BY <3>1, <3>2 DEF StatusKept
  <2>4. SlotKept(s) /\ EventKept(s)
    BY <1>1 DEF Conserved
  <2>5. \A u \in Threads : pc'[u] \in {"collected", "counted"} => pc[u] = pc'[u]
    BY <1>7
  <2>6. \A u \in Threads : pc'[u] \in {"collected", "counted"} /\ at[u] \in Blocks =>
          SlotKept(at[u])' /\ EventKept(at[u])'
    BY <2>1, <2>2, <2>5 DEF Conserved, SlotKept, EventKept
  <2>7. \A c \in accepted' : SlotKept(c)' /\ StatusKept(c)' /\ EventKept(c)'
    BY <1>1, <2>2, <2>3, <2>4 DEF Conserved
  <2> QED BY <2>1, <2>6, <2>7 DEF Conserved, SlotKept, EventKept
<1>13. Quiet' /\ Positive' /\ DrainCoversWrites'
  BY <1>1, <1>2 DEF Quiet, Positive, DrainCoversWrites, tables
<1> QED BY <1>7, <1>8, <1>9, <1>10, <1>11, <1>12, <1>13 DEF Threading

LEMMA RecordStatusKeeps ==
  ASSUME WritesInv, NEW t \in Threads, RecordStatus(t)
  PROVE  WritesInv'
<1>1. CASE at[t] \in Blocks
  BY <1>1, StatusSpawned
<1>2. CASE at[t] \notin Blocks
  <2>1. /\ pc[t] = "counted" /\ tally' = [tally EXCEPT ![at[t]] = 0] /\ Go(t, "returned")
        /\ UNCHANGED <<phase, next, at, seen, flags, pending, buffer, reported, writes, tables,
                       history, session, faults>>
    BY <1>2 DEF RecordStatus, history
  <2>2. phase = "streaming" /\ seen[t] = TxCount
    BY <2>1, CallbacksStream DEF RecordStatus, WritesInv, Threading, Place, Mid
  <2>3. reported' \in Nat /\ reported <= reported'
    BY <2>1 DEF WritesInv, TypeOK
  <2> QED BY <1>2, <2>1, <2>2, <2>3, MidStep DEF Mid
<1> QED BY <1>1, <1>2

\* The thread moves to the next slot, behind the block to the next batch.
LEMMA ReturnKeeps ==
  ASSUME WritesInv, NEW t \in Threads, Return(t)
  PROVE  WritesInv'
<1> USE DEF WritesInv
<1> DEFINE s == at[t]
<1>1. /\ pc[t] = "returned" /\ at' = [at EXCEPT ![t] = @ + 1] /\ Go(t, "batch")
      /\ UNCHANGED <<phase, flags, memory, writes, tables, history, session, faults>>
  BY DEF Return
<1>2. phase = "streaming" /\ seen[t] = TxCount /\ Place(t) /\ s \in Nat /\ seen[t] > 0
  <2>1. phase = "streaming"
    BY <1>1, CallbacksStream DEF Return
  <2>2. seen[t] = TxCount
    BY <1>1 DEF Threading, Place, Mid
  <2> QED BY <1>1, <2>1, <2>2, AtEnd
<1>3. PICK b \in Blocks : /\ Batch(t, b) /\ s <= b
                          /\ s < b => tally[b] > 0 /\ (~shutting => pending[b] > 0)
  BY <1>1, <1>2 DEF Place, Inside
<1>4. b \in Nat /\ Lo[t] \in Nat /\ next[t] \in Nat /\ Lo[t] <= next[t] /\ next[t] <= s
  BY <1>1, <1>2, OwnSlots DEF TypeOK, Place
<1>5. /\ pc' = [pc EXCEPT ![t] = "batch"] /\ pc'[t] = "batch" /\ at'[t] = s + 1
      /\ at' \in [Threads -> Nat] /\ pc' \in [Threads -> PCs]
      /\ \A u \in Threads : u # t => pc'[u] = pc[u] /\ at'[u] = at[u]
  BY <1>1, <1>2 DEF Go, TypeOK, PCs
<1>6. ASSUME s \in Blocks
      PROVE  TypeOK' /\ Place(t)' /\ \A u \in Threads : u # t => next'[u] = next[u] /\ seen'[u] = seen[u]
  <2>1. next' = [next EXCEPT ![t] = s + 1] /\ seen' = [seen EXCEPT ![t] = 0]
    BY <1>6 DEF Return
  <2>2. next' \in [Threads -> Nat] /\ next'[t] = s + 1 /\ seen' \in [Threads -> 0 .. TxCount] /\ seen'[t] = 0
    BY <2>1, <1>2, CountsAssumption DEF TypeOK
  <2>3. TypeOK'
    BY <1>1, <1>5, <2>2 DEF TypeOK, flags, memory, writes, tables, history, session
  <2>4. Place(t)'
    BY <1>4, <1>5, <2>2, <1>2 DEF Place, Mid
  <2>5. \A u \in Threads : u # t => next'[u] = next[u] /\ seen'[u] = seen[u]
    BY <2>1 DEF TypeOK
  <2> QED BY <2>3, <2>4, <2>5
<1>7. ASSUME s \notin Blocks
      PROVE  TypeOK' /\ Place(t)' /\ \A u \in Threads : u # t => next'[u] = next[u] /\ seen'[u] = seen[u]
  <2>1. next' = next /\ seen' = seen
    BY <1>7 DEF Return
  <2>2. s < b
    BY <1>2, <1>3, <1>4, <1>7
  <2>3. TypeOK'
    BY <1>1, <1>5, <2>1 DEF TypeOK, flags, memory, writes, tables, history, session
  <2>4. Batch(t, b)' /\ at'[t] <= b /\ tally' = tally /\ pending' = pending /\ shutting' = shutting
    BY <1>1, <1>2, <1>3, <1>4, <1>5, <2>1, <2>2 DEF Batch, Remaining, memory, flags
  <2>5. Inside(t)'
    BY <2>2, <2>4, <1>3 DEF Inside
  <2>6. Place(t)'
    BY <1>2, <1>4, <1>5, <2>1, <2>5 DEF Place, Mid
  <2> QED BY <2>1, <2>3, <2>6
<1>8. TypeOK' /\ Place(t)' /\ \A u \in Threads : u # t => next'[u] = next[u] /\ seen'[u] = seen[u]
  BY <1>6, <1>7
<1>9. ASSUME NEW u \in Threads, u # t PROVE Place(u)'
  BY <1>1, <1>5, <1>8, <1>9, BystanderPlace DEF Threading, flags, memory
<1>10. Past'
  <2>1. tasks' = tasks /\ \A w \in tasks : w.key \in Nat
    BY <1>1 DEF writes, TypeOK, Tasks
  <2>2. ASSUME NEW w \in tasks, NEW u \in Threads, w.key \in SlotsOf(u)
        PROVE  /\ w.kind = "events" => w.key < at'[u] \/ (w.key = at'[u] /\ pc'[u] \in Mid)
               /\ w.kind = "status" => w.key < at'[u] \/ (w.key = at'[u] /\ pc'[u] = "returned")
    <3>1. CASE u = t
      BY <3>1, <2>1, <2>2, <1>2, <1>5 DEF Past
    <3>2. CASE u # t
      BY <3>2, <2>2, <1>5 DEF Past
    <3> QED BY <3>1, <3>2
  <2> QED BY <2>1, <2>2 DEF Past, SlotsOf
<1>11. Conserved'
  <2>1. UNCHANGED <<slotRows, statusRows, eventRows, buffer, tasks, accepted>>
    BY <1>1 DEF writes, tables, memory, history
  <2>2. \A c : SlotKept(c)' = SlotKept(c) /\ StatusKept(c)' = StatusKept(c) /\ EventKept(c)' = EventKept(c)
    BY <2>1 DEF SlotKept, StatusKept, EventKept
  <2>3. \A u \in Threads : pc'[u] \in {"collected", "counted"} => pc'[u] = pc[u] /\ at'[u] = at[u]
    BY <1>5
  <2>4. \A u \in Threads : pc'[u] \in {"collected", "counted"} /\ at'[u] \in Blocks =>
          SlotKept(at[u]) /\ EventKept(at[u]) /\ at'[u] = at[u]
    BY <2>3 DEF Conserved
  <2>5. \A c \in accepted : SlotKept(c)' /\ StatusKept(c)' /\ EventKept(c)'
    BY <2>2 DEF Conserved
  <2> QED BY <2>1, <2>2, <2>4, <2>5 DEF Conserved, SlotKept, EventKept
<1>12. Counter' /\ Shapes' /\ Unique' /\ Quiet' /\ Positive' /\ DrainCoversWrites'
  BY <1>1, <1>2 DEF Counter, Shapes, Unique, Quiet, Positive, DrainCoversWrites, writes, tables, memory
<1> QED BY <1>8, <1>9, <1>10, <1>11, <1>12 DEF Threading

\* A thread ends between two batches.
LEMMA EndKeeps ==
  ASSUME WritesInv, NEW t \in Threads, phase = "streaming", pc[t] = "batch", Go(t, "ended"),
         next' \in [Threads -> Nat], \A u \in Threads : u # t => next'[u] = next[u],
         UNCHANGED <<phase, at, seen, flags, memory, writes, tables, history, session, faults>>
  PROVE  WritesInv'
<1> USE DEF WritesInv
<1>1. /\ pc'[t] = "ended" /\ pc' \in [Threads -> PCs]
      /\ \A u \in Threads : u # t => pc'[u] = pc[u]
  BY DEF Go, TypeOK, PCs
<1>2. TypeOK'
  BY <1>1 DEF TypeOK, flags, memory, writes, tables, history, session
<1>3. Place(t)'
  BY <1>1 DEF Place
<1>4. ASSUME NEW u \in Threads, u # t PROVE Place(u)'
  BY <1>1, <1>4, BystanderPlace DEF Threading, flags, memory
<1>5. Past'
  BY <1>1 DEF Past, SlotsOf, writes, Mid
<1>6. Conserved'
  <2>1. UNCHANGED <<slotRows, statusRows, eventRows, buffer, tasks, accepted, at>>
    BY DEF writes, tables, memory, history
  <2>2. \A u \in Threads : pc'[u] \in {"collected", "counted"} => pc'[u] = pc[u]
    BY <1>1
  <2> QED BY <2>1, <2>2 DEF Conserved, SlotKept, StatusKept, EventKept
<1>7. Counter' /\ Shapes' /\ Unique' /\ Quiet' /\ Positive' /\ DrainCoversWrites'
  BY DEF Counter, Shapes, Unique, Quiet, Positive, DrainCoversWrites, writes, tables, memory
<1> QED BY <1>2, <1>3, <1>4, <1>5, <1>6, <1>7 DEF Threading

LEMMA CompleteKeeps ==
  ASSUME WritesInv, NEW t \in Threads, Complete(t)
  PROVE  WritesInv'
<1>1. phase = "streaming"
  BY CallbacksStream DEF Complete
<1>2. next' \in [Threads -> Nat] /\ \A u \in Threads : u # t => next'[u] = next[u]
  BY OwnSlots DEF Complete, WritesInv, TypeOK
<1> QED BY <1>1, <1>2, EndKeeps DEF Complete

LEMMA PollShutdownKeeps ==
  ASSUME WritesInv, NEW t \in Threads, PollShutdown(t)
  PROVE  WritesInv'
<1>1. phase = "streaming"
  BY CallbacksStream DEF PollShutdown
<1>2. next' \in [Threads -> Nat] /\ \A u \in Threads : u # t => next'[u] = next[u]
  BY DEF PollShutdown, WritesInv, TypeOK
<1> QED BY <1>1, <1>2, EndKeeps DEF PollShutdown

-----------------------------------------------------------------------------
(* Tasks.                                                                  *)

\* What a step of a task or of the main task means for the threads: nothing.
LEMMA ThreadsRest ==
  ASSUME WritesInv, UNCHANGED <<pc, next, at, seen, tally>>, shutting => shutting',
         \/ UNCHANGED pending
         \/ \A t \in Threads : pc[t] = "ended"
  PROVE  Threading'
<1>1. ASSUME NEW u \in Threads PROVE Place(u)'
  <2>1. CASE UNCHANGED pending
    BY <2>1, BystanderPlace DEF WritesInv, Threading
  <2>2. CASE pc[u] = "ended"
    BY <2>2 DEF Place
  <2> QED BY <2>1, <2>2
<1> QED BY <1>1 DEF Threading

\* An attempt puts a task's rows into its table.
LEMMA InsertRows ==
  ASSUME WritesInv, NEW w \in tasks, w.kind # "flush", Insert(w)
  PROVE  /\ slotRows' \subseteq Slots /\ slotRows \subseteq slotRows'
         /\ statusRows' \in [Slots -> Nat] /\ eventRows' \in [Slots -> Nat] /\ undated' = undated
         /\ \A s \in Slots : (statusRows[s] > 0 => statusRows'[s] > 0) /\ (eventRows[s] > 0 => eventRows'[s] > 0)
         /\ w.kind = "rows" => w.slots \subseteq slotRows'
         /\ w.kind = "status" /\ w.key \in Slots => statusRows'[w.key] > 0
         /\ w.kind = "events" /\ w.key \in Slots => eventRows'[w.key] > 0
<1>1. /\ w.kind \in {"events", "status", "rows"} /\ w.slots \subseteq Slots /\ w.count \in Nat
      /\ w.kind \in {"events", "status"} => w.slots = {w.key} /\ w.count > 0
  BY DEF WritesInv, TypeOK, Tasks, Shapes
<1>2. RowsOf(w) = w.slots /\ undated' = undated
  BY DEF RowsOf, Insert
<1>3. CASE w.kind = "rows"
  <2>1. slotRows' = slotRows \cup w.slots /\ statusRows' = statusRows /\ eventRows' = eventRows
    BY <1>2, <1>3 DEF Insert
  <2> QED BY <1>1, <1>2, <1>3, <2>1 DEF WritesInv, TypeOK
<1>4. CASE w.kind = "status"
  <2>1. /\ slotRows' = slotRows /\ eventRows' = eventRows
        /\ statusRows' = [s \in Slots |-> IF s \in w.slots THEN w.count ELSE statusRows[s]]
    BY <1>2, <1>4 DEF Insert
  <2> QED BY <1>1, <1>2, <1>4, <2>1 DEF WritesInv, TypeOK
<1>5. CASE w.kind = "events"
  <2>1. /\ slotRows' = slotRows /\ statusRows' = statusRows
        /\ eventRows' = [s \in Slots |-> IF s \in w.slots THEN w.count ELSE eventRows[s]]
    BY <1>2, <1>5 DEF Insert
  <2> QED BY <1>1, <1>2, <1>5, <2>1 DEF WritesInv, TypeOK
<1> QED BY <1>1, <1>3, <1>4, <1>5

\* So nothing is lost, whether the task then ends or tries again.
LEMMA InsertConserves ==
  ASSUME WritesInv, NEW w \in tasks, w.kind # "flush", Insert(w),
         tasks \ {w} \subseteq tasks', UNCHANGED <<buffer, pc, at, accepted>>
  PROVE  Conserved'
<1>1. ASSUME NEW s \in Slots
      PROVE  /\ SlotKept(s) => SlotKept(s)'
             /\ StatusKept(s) => StatusKept(s)'
             /\ EventKept(s) => EventKept(s)'
  <2>1. s \in slotRows => s \in slotRows'
    BY InsertRows
  <2>2. (statusRows[s] > 0 => statusRows'[s] > 0) /\ (eventRows[s] > 0 => eventRows'[s] > 0)
    BY InsertRows
  <2>3. w.kind = "rows" /\ s \in w.slots => s \in slotRows'
    BY InsertRows
  <2>4. w.kind = "status" /\ w.key = s => statusRows'[s] > 0
    BY InsertRows
  <2>5. w.kind = "events" /\ w.key = s => eventRows'[s] > 0
    BY InsertRows
  <2>6. \A v \in tasks : v # w => v \in tasks'
    OBVIOUS
  <2>7. SlotKept(s) => SlotKept(s)'
    BY <2>1, <2>3, <2>6 DEF SlotKept
  <2>8. StatusKept(s) => StatusKept(s)'
    BY <2>2, <2>4, <2>6 DEF StatusKept
  <2>9. EventKept(s) => EventKept(s)'
    BY <2>2, <2>5, <2>6 DEF EventKept
  <2> QED BY <2>7, <2>8, <2>9
<1>2. accepted \subseteq Slots /\ Blocks \subseteq Slots
  BY OwnSlots DEF WritesInv, TypeOK
<1>3. \A s \in accepted' : SlotKept(s)' /\ StatusKept(s)' /\ EventKept(s)'
  BY <1>1, <1>2 DEF WritesInv, Conserved
<1>4. \A t \in Threads : pc'[t] \in {"collected", "counted"} /\ at[t] \in Blocks =>
        SlotKept(at[t])' /\ EventKept(at[t])'
  BY <1>1, <1>2 DEF WritesInv, Conserved, SlotKept, EventKept
<1> QED BY <1>3, <1>4 DEF Conserved, SlotKept, EventKept

LEMMA WriteSucceedsKeeps ==
  ASSUME WritesInv, NEW w \in tasks, WriteSucceeds(w)
  PROVE  WritesInv'
<1> USE DEF WritesInv
<1>1. /\ w.kind # "flush" /\ Insert(w) /\ Finished(w)
      /\ UNCHANGED <<phase, thread, flags, memory, history, session, faults>>
  BY DEF WriteSucceeds
<1>2. tasks' = tasks \ {w} /\ tasks' \subseteq Tasks /\ IsFiniteSet(tasks') /\ inFlight' \in Nat /\ Counter'
  BY <1>1, FinishCounts
<1>3. TypeOK'
  BY <1>1, <1>2, InsertRows DEF TypeOK, thread, flags, memory, history, session
<1>4. Conserved'
  BY <1>1, <1>2, InsertConserves DEF thread, memory, history
<1>5. Threading'
  BY <1>1, ThreadsRest DEF thread, flags, memory
<1>6. Shapes' /\ Unique' /\ Past'
  BY <1>1, <1>2 DEF Shapes, Unique, Past, SlotsOf, thread, memory
<1>7. undated' = undated
  BY <1>1, InsertRows
<1>8. Quiet' /\ Positive' /\ DrainCoversWrites'
  BY <1>1, <1>2, <1>7 DEF Quiet, Positive, DrainCoversWrites, thread, memory
<1> QED BY <1>2, <1>3, <1>4, <1>5, <1>6, <1>8

LEMMA WriteUnackedKeeps ==
  ASSUME WritesInv, NEW w \in tasks, WriteUnacked(w)
  PROVE  WritesInv'
<1> USE DEF WritesInv
<1>1. /\ w.kind # "flush" /\ Insert(w) /\ faults' = faults + 1
      /\ UNCHANGED <<phase, thread, flags, memory, writes, history, session>>
  BY DEF WriteUnacked, Fault
<1>2. TypeOK'
  BY <1>1, InsertRows DEF TypeOK, thread, flags, memory, writes, history, session
<1>3. Conserved'
  BY <1>1, InsertConserves DEF thread, memory, writes, history
<1>4. Threading'
  BY <1>1, ThreadsRest DEF thread, flags, memory
<1>5. undated' = undated
  BY <1>1, InsertRows
<1>6. Counter' /\ Shapes' /\ Unique' /\ Past' /\ Quiet' /\ Positive' /\ DrainCoversWrites'
  BY <1>1, <1>5 DEF Counter, Shapes, Unique, Past, SlotsOf, Quiet, Positive, DrainCoversWrites,
                    thread, memory, writes
<1> QED BY <1>2, <1>3, <1>4, <1>6

\* A flush takes what is in the buffer, or ends.
LEMMA DrainBufferKeeps ==
  ASSUME WritesInv, NEW w \in tasks, DrainBuffer(w)
  PROVE  WritesInv'
<1> USE DEF WritesInv
<1> DEFINE d == Drained(w, buffer)
<1>1. /\ w.kind = "flush" /\ buffer' = {}
      /\ UNCHANGED <<phase, thread, flags, tally, pending, reported, tables, history, session, faults>>
  BY DEF DrainBuffer
<1>2. d \in Tasks /\ d.kind = "rows" /\ d.key = w.key /\ d.slots = buffer
  BY DEF Drained, TypeOK, Tasks
<1>3. d \notin tasks
  BY <1>1, <1>2 DEF Unique, Batched
<1> HIDE DEF d
<1>4. \/ buffer = {} /\ Finished(w)
      \/ tasks' = (tasks \ {w}) \cup {d} /\ inFlight' = inFlight
  BY DEF DrainBuffer, d
<1>5. /\ tasks' \subseteq Tasks /\ IsFiniteSet(tasks') /\ inFlight' \in Nat /\ Counter'
      /\ tasks \ {w} \subseteq tasks' /\ tasks' \subseteq (tasks \ {w}) \cup {d}
      /\ buffer # {} => d \in tasks'
  <2>1. CASE buffer = {} /\ Finished(w)
    BY <2>1, FinishCounts
  <2>2. CASE tasks' = (tasks \ {w}) \cup {d} /\ inFlight' = inFlight
    <3>1. IsFiniteSet(tasks \ {w}) /\ Cardinality(tasks \ {w}) = Cardinality(tasks) - 1
      BY FS_RemoveElement DEF TypeOK
    <3>2. IsFiniteSet(tasks') /\ Cardinality(tasks') = Cardinality(tasks \ {w}) + 1
      BY <2>2, <1>3, <3>1, FS_AddElement
    <3>3. Cardinality(tasks) \in Nat
      BY FS_CardinalityType DEF TypeOK
    <3> QED BY <2>2, <3>1, <3>2, <3>3, <1>2 DEF Counter, TypeOK
  <2> QED BY <1>4, <2>1, <2>2
<1>6. TypeOK'
  BY <1>1, <1>5 DEF TypeOK, thread, flags, tables, history, session
<1>7. Shapes' /\ Unique' /\ Past'
  <2>1. \A v \in tasks' : v \in tasks \/ v = d
    BY <1>5
  <2>2. Shapes'
    BY <2>1, <1>1, <1>2 DEF Shapes, Batched
  <2>3. \A v \in tasks' : v.kind \in Batched /\ v.key = w.key => v = d
    BY <1>1, <1>2, <1>5 DEF Unique, Batched
  <2>4. Unique'
    BY <2>1, <2>3, <1>2 DEF Unique
  <2>5. Past'
    BY <2>1, <1>1, <1>2 DEF Past, SlotsOf, thread
  <2> QED BY <2>2, <2>4, <2>5
<1>8. Conserved'
  <2>1. UNCHANGED <<slotRows, statusRows, eventRows, accepted, pc, at>>
    BY <1>1 DEF tables, thread, history
  <2>2. \A v \in tasks : v.kind # "flush" => v \in tasks'
    BY <1>1, <1>5
  <2>3. \A c : /\ SlotKept(c) => SlotKept(c)'
               /\ StatusKept(c) => StatusKept(c)'
               /\ EventKept(c) => EventKept(c)'
    BY <2>1, <2>2, <1>2, <1>5 DEF SlotKept, StatusKept, EventKept
  <2>4. \A c \in accepted : SlotKept(c)' /\ StatusKept(c)' /\ EventKept(c)'
    BY <2>3 DEF Conserved
  <2>5. \A t \in Threads : pc'[t] \in {"collected", "counted"} /\ at[t] \in Blocks =>
          SlotKept(at[t])' /\ EventKept(at[t])'
    BY <2>1, <2>3 DEF Conserved, SlotKept, EventKept
  <2> QED BY <2>1, <2>4, <2>5 DEF Conserved, SlotKept, EventKept
<1>9. Threading'
  BY <1>1, ThreadsRest DEF thread, flags
<1>10. Quiet' /\ Positive' /\ DrainCoversWrites'
  BY <1>1 DEF Quiet, Positive, DrainCoversWrites, thread, tables
<1> QED BY <1>5, <1>6, <1>7, <1>8, <1>9, <1>10

-----------------------------------------------------------------------------
(* PluginRunner::run and the world outside.                                *)

\* A step of the main task: tables grow, the buffer and what is pending may be
\* emptied once nobody uses them.
LEMMA MainStep ==
  ASSUME WritesInv, UNCHANGED <<thread, tally, reported, writes, statusRows, history, session>>,
         phase' \in Phases, faults' \in Nat,
         shutting' \in BOOLEAN, signalled' \in BOOLEAN, shutting => shutting',
         UNCHANGED buffer \/ (buffer' = {} /\ buffer \subseteq slotRows'),
         pending' \in [Slots -> Nat], UNCHANGED pending \/ phase # "streaming",
         phase = "aborted" => UNCHANGED pending,
         slotRows \subseteq slotRows', slotRows' \subseteq Slots,
         eventRows' \in [Slots -> Nat], \A s \in Slots : eventRows[s] > 0 => eventRows'[s] > 0,
         undated' \in [Slots -> SUBSET Nat], Positive',
         Quiet', DrainCoversWrites'
  PROVE  WritesInv'
<1> USE DEF WritesInv
<1>1. TypeOK'
  BY DEF TypeOK, thread, writes, history, session
<1>2. Threading'
  <2>1. UNCHANGED pending \/ \A t \in Threads : pc[t] = "ended"
    BY DEF Quiet, TypeOK, Phases
  <2> QED BY <2>1, ThreadsRest DEF thread
<1>3. Counter' /\ Shapes' /\ Unique' /\ Past'
  BY DEF Counter, Shapes, Unique, Past, SlotsOf, thread, writes
<1>4. Conserved'
  <2>1. UNCHANGED <<pc, at, tasks, accepted>>
    BY DEF thread, writes, history
  <2>2. \A s \in Slots : /\ SlotKept(s) => SlotKept(s)'
                         /\ StatusKept(s) => StatusKept(s)'
                         /\ EventKept(s) => EventKept(s)'
    BY <2>1 DEF SlotKept, StatusKept, EventKept
  <2>3. accepted \subseteq Slots /\ Blocks \subseteq Slots
    BY OwnSlots DEF TypeOK
  <2>4. \A s \in accepted : SlotKept(s)' /\ StatusKept(s)' /\ EventKept(s)'
    BY <2>2, <2>3 DEF Conserved
  <2>5. \A t \in Threads : pc[t] \in {"collected", "counted"} /\ at[t] \in Blocks =>
          SlotKept(at[t])' /\ EventKept(at[t])'
    BY <2>1, <2>2, <2>3 DEF Conserved, SlotKept, EventKept
  <2> QED BY <2>1, <2>4, <2>5 DEF Conserved, SlotKept, EventKept
<1> QED BY <1>1, <1>2, <1>3, <1>4

\* Ctrl-C and the steps of the main task before its last writes.
LEMMA SignalsKeep ==
  ASSUME WritesInv, CtrlC \/ Broadcast \/ FirehoseReturns \/ DrainOutstanding
  PROVE  WritesInv'
<1> USE DEF WritesInv
<1>1. /\ UNCHANGED <<thread, memory, writes, tables, history, session>>
      /\ faults' \in Nat /\ shutting' \in BOOLEAN /\ signalled' \in BOOLEAN
      /\ (shutting => shutting')
  <2>1. CASE CtrlC
    BY <2>1 DEF CtrlC, Fault, TypeOK
  <2>2. CASE Broadcast
    BY <2>2 DEF Broadcast, TypeOK
  <2>3. CASE FirehoseReturns \/ DrainOutstanding
    BY <2>3 DEF FirehoseReturns, DrainOutstanding, TypeOK, flags
  <2> QED BY <2>1, <2>2, <2>3
<1>2. phase' \in Phases /\ Quiet'
  BY <1>1 DEF CtrlC, Broadcast, FirehoseReturns, DrainOutstanding, TypeOK, Phases, Quiet, thread, memory
<1>3. DrainCoversWrites'
  <2>1. CASE DrainOutstanding
    <3>1. tasks = {}
      BY <2>1, FS_EmptySet DEF DrainOutstanding, Counter, TypeOK
    <3> QED BY <3>1, <1>1 DEF DrainCoversWrites, writes
  <2>2. CASE CtrlC \/ Broadcast \/ FirehoseReturns
    BY <2>2, <1>1 DEF CtrlC, Broadcast, FirehoseReturns, DrainCoversWrites, writes
  <2> QED BY <2>1, <2>2
<1>4. /\ UNCHANGED <<thread, tally, reported, writes, statusRows, history, session>>
      /\ UNCHANGED <<buffer, pending, slotRows, eventRows, undated>>
  BY <1>1 DEF memory, tables
<1>5. /\ UNCHANGED buffer /\ UNCHANGED pending
      /\ pending' \in [Slots -> Nat]
      /\ slotRows \subseteq slotRows' /\ slotRows' \subseteq Slots
      /\ eventRows' \in [Slots -> Nat] /\ undated' \in [Slots -> SUBSET Nat]
      /\ \A s \in Slots : eventRows[s] > 0 => eventRows'[s] > 0
  BY <1>4 DEF TypeOK
<1>6. Positive'
  BY <1>4 DEF Positive
<1> QED BY <1>1, <1>2, <1>3, <1>4, <1>5, <1>6, MainStep

\* The process exits.
LEMMA ExitKeeps ==
  ASSUME WritesInv, Exit
  PROVE  WritesInv'
<1> USE DEF WritesInv
<1>1. /\ phase' = "aborted" /\ faults' = faults + 1
      /\ UNCHANGED <<thread, flags, memory, writes, tables, history, session>>
  BY DEF Exit, Fault
<1>2. Quiet' /\ Positive' /\ DrainCoversWrites' /\ TypeOK
  BY <1>1 DEF Quiet, Positive, DrainCoversWrites, tables
<1> QED BY <1>1, <1>2, MainStep DEF TypeOK, Phases, flags, memory, tables

LEMMA FinalFlushKeeps ==
  ASSUME WritesInv, FinalFlush
  PROVE  WritesInv'
<1> USE DEF WritesInv
<1>1. /\ phase = "flushing" /\ slotRows' = slotRows \cup buffer
      /\ (buffer' = {} /\ phase' = "exiting") \/ (buffer' = buffer /\ phase' = phase)
      /\ UNCHANGED <<thread, flags, tally, pending, reported, writes, statusRows, eventRows, undated,
                     history, session>>
  BY DEF FinalFlush, Leftover
<1>2. faults' \in Nat
  BY DEF FinalFlush, Fault, TypeOK
<1>3. slotRows \subseteq slotRows' /\ buffer \subseteq slotRows' /\ slotRows' \subseteq Slots
  BY <1>1 DEF TypeOK
<1>4. Quiet' /\ Positive' /\ DrainCoversWrites' /\ TypeOK /\ phase' \in Phases
  BY <1>1 DEF Quiet, Positive, DrainCoversWrites, Phases, thread, writes
<1> QED BY <1>1, <1>2, <1>3, <1>4, MainStep DEF TypeOK, flags

LEMMA ExitFlushKeeps ==
  ASSUME WritesInv, ExitFlush
  PROVE  WritesInv'
<1> USE DEF WritesInv
<1>1. /\ phase = "exiting"
      /\ undated' = [s \in Slots |-> IF pending[s] > 0 THEN undated[s] \cup {pending[s]} ELSE undated[s]]
      /\ (pending' = Absent /\ phase' = "backfilling") \/ (pending' = pending /\ phase' = phase)
      /\ UNCHANGED <<thread, flags, tally, buffer, reported, writes, slotRows, statusRows, eventRows,
                     history, session>>
  BY DEF ExitFlush
<1>2. faults' \in Nat
  BY DEF ExitFlush, Fault, TypeOK
<1>3. undated' \in [Slots -> SUBSET Nat] /\ Positive'
  BY <1>1 DEF TypeOK, Positive
<1>4. pending' \in [Slots -> Nat]
  BY <1>1 DEF TypeOK, Absent
<1>5. Quiet' /\ DrainCoversWrites' /\ TypeOK /\ phase' \in Phases
  BY <1>1 DEF Quiet, DrainCoversWrites, Phases, thread, writes
<1> QED BY <1>1, <1>2, <1>3, <1>4, <1>5, MainStep DEF TypeOK, flags

\* The backfill takes no dated row away.
LEMMA BackfillRows ==
  ASSUME WritesInv, Backfill
  PROVE  eventRows' \in [Slots -> Nat] /\ \A s \in Slots : eventRows[s] > 0 => eventRows'[s] > 0
<1> USE DEF WritesInv
<1>1. PICK dated \in [Datable -> UNION {undated[s] : s \in Datable}] :
        /\ \A s \in Datable : dated[s] \in undated[s]
        /\ eventRows' = [s \in Slots |-> IF s \in Datable THEN dated[s] ELSE eventRows[s]]
  BY DEF Backfill
<1>2. ASSUME NEW s \in Datable PROVE dated[s] \in Nat /\ dated[s] # 0
  BY <1>1, <1>2 DEF TypeOK, Positive, Datable
<1>3. \A s \in Datable : dated[s] \in Nat /\ dated[s] > 0
  BY <1>2
<1> QED BY <1>1, <1>3 DEF TypeOK

LEMMA BackfillKeeps ==
  ASSUME WritesInv, Backfill
  PROVE  WritesInv'
<1> USE DEF WritesInv
<1>1. /\ phase = "backfilling" /\ phase' \in {"done", "backfilling"}
      /\ UNCHANGED <<thread, flags, memory, writes, slotRows, statusRows, undated, history, session>>
  BY DEF Backfill
<1>2. faults' \in Nat
  BY DEF Backfill, Fault, TypeOK
<1>3. eventRows' \in [Slots -> Nat] /\ \A s \in Slots : eventRows[s] > 0 => eventRows'[s] > 0
  BY BackfillRows
<1>4. Quiet' /\ Positive' /\ DrainCoversWrites' /\ TypeOK /\ phase' \in Phases
  BY <1>1 DEF Quiet, Positive, DrainCoversWrites, Phases, thread, memory, writes
<1> QED BY <1>1, <1>2, <1>3, <1>4, MainStep DEF TypeOK, flags, memory

LEMMA MergeKeeps ==
  ASSUME WritesInv, NEW s \in Slots, Merge(s)
  PROVE  WritesInv'
<1> USE DEF WritesInv
<1>1. UNCHANGED <<phase, thread, flags, memory, writes, slotRows, statusRows, eventRows,
                  history, session, faults>>
  BY DEF Merge
<1>2. undated' \in [Slots -> SUBSET Nat] /\ Positive'
  <2>1. CASE undated' = [undated EXCEPT ![s] = {}]
    BY <2>1 DEF TypeOK, Positive
  <2>2. CASE \E n \in undated[s] : undated' = [undated EXCEPT ![s] = {n}]
    BY <2>2 DEF TypeOK, Positive
  <2> QED BY <2>1, <2>2 DEF Merge
<1>3. Quiet' /\ DrainCoversWrites' /\ TypeOK
  BY <1>1 DEF Quiet, DrainCoversWrites, thread, memory, writes
<1> QED BY <1>1, <1>2, <1>3, MainStep DEF TypeOK, flags, memory

-----------------------------------------------------------------------------
(* A process that starts.                                                  *)

LEMMA StartPlaces ==
  ASSUME NEW from \in Nat, NEW t \in Threads
  PROVE  StartOf(from)[t] \in Nat /\ Lo[t] <= StartOf(from)[t]
<1>1. Lo[t] \in Nat /\ Hi[t] \in Nat /\ Lo[t] < Hi[t]
  BY RangesAssumption
<1> QED BY <1>1 DEF StartOf

LEMMA InitHolds == Init => WritesInv
<1> SUFFICES ASSUME Init PROVE WritesInv
  OBVIOUS
<1>1. StartOf(0) \in [Threads -> Nat]
  BY StartPlaces DEF StartOf
<1>2. TypeOK
  <2>1. 0 \in 0 .. TxCount /\ IsFiniteSet({}) /\ Absent \in [Slots -> Nat]
    BY CountsAssumption, FS_EmptySet DEF Absent
  <2>2. /\ phase \in Phases /\ pc \in [Threads -> PCs]
        /\ seen \in [Threads -> 0 .. TxCount] /\ undated \in [Slots -> SUBSET Nat]
    BY <2>1 DEF Init, Phases, PCs
  <2> QED BY <1>1, <2>1, <2>2 DEF Init, TypeOK
<1>3. Counter
  BY FS_EmptySet DEF Init, Counter
<1>4. Shapes /\ Unique /\ Past
  BY DEF Init, Shapes, Unique, Past
<1>5. Threading
  BY <1>1, StartPlaces DEF Init, Threading, Place, Mid, TypeOK
<1>6. Conserved
  BY DEF Init, Conserved
<1>7. Quiet /\ Positive /\ DrainCoversWrites
  BY DEF Init, Quiet, Positive, DrainCoversWrites
<1> QED BY <1>2, <1>3, <1>4, <1>5, <1>6, <1>7 DEF WritesInv

LEMMA RerunKeeps ==
  ASSUME WritesInv, Rerun
  PROVE  WritesInv'
<1> USE DEF WritesInv
<1>1. PICK from \in Nat : Restart(from)
  BY OwnSlots DEF Rerun
<1>2. /\ UNCHANGED <<tables, faults>> /\ runs' \in Nat
  BY DEF Rerun, TypeOK
<1>3. StartOf(from) \in [Threads -> Nat]
  BY StartPlaces DEF StartOf
<1>4. TypeOK'
  <2>1. 0 \in 0 .. TxCount /\ IsFiniteSet({}) /\ Absent \in [Slots -> Nat]
    BY CountsAssumption, FS_EmptySet DEF Absent
  <2> QED BY <1>1, <1>2, <1>3, <2>1 DEF Restart, TypeOK, Phases, PCs, tables
<1>5. Counter'
  BY <1>1, FS_EmptySet DEF Restart, Counter
<1>6. Shapes' /\ Unique' /\ Past'
  BY <1>1 DEF Restart, Shapes, Unique, Past
<1>7. Threading'
  BY <1>1, <1>3, StartPlaces DEF Restart, Threading, Place, Mid
<1>8. Conserved'
  BY <1>1 DEF Restart, Conserved
<1>9. Quiet' /\ Positive' /\ DrainCoversWrites'
  BY <1>1, <1>2 DEF Restart, Quiet, Positive, DrainCoversWrites, tables
<1> QED BY <1>4, <1>5, <1>6, <1>7, <1>8, <1>9

-----------------------------------------------------------------------------
LEMMA StutterKeeps == WritesInv /\ UNCHANGED vars => WritesInv'
<1> SUFFICES ASSUME WritesInv, UNCHANGED vars PROVE WritesInv'
  OBVIOUS
<1> USE DEF WritesInv, vars
<1>1. Positive' /\ Quiet' /\ DrainCoversWrites' /\ TypeOK
  BY DEF Positive, Quiet, DrainCoversWrites, tables, thread, memory, writes
<1> QED BY <1>1, MainStep DEF TypeOK, thread, flags, memory, writes, tables, history, session

LEMMA StepKeeps == WritesInv /\ [Next]_vars => WritesInv'
<1> SUFFICES ASSUME WritesInv, [Next]_vars PROVE WritesInv'
  OBVIOUS
<1>1. ASSUME NEW t \in Threads, Callback(t) \/ RetryBatch(t) PROVE WritesInv'
  BY <1>1, OnTransactionKeeps, RetryBatchKeeps, OnBlockKeeps, CountSlotKeeps, RecordStatusKeeps,
     ReturnKeeps, CompleteKeeps, PollShutdownKeeps DEF Callback
<1>2. ASSUME NEW w \in tasks, DrainBuffer(w) \/ WriteSucceeds(w) \/ WriteExhausted(w) \/ WriteUnacked(w)
      PROVE  WritesInv'
  BY <1>2, DrainBufferKeeps, WriteSucceedsKeeps, WriteUnackedKeeps, ExitKeeps DEF WriteExhausted
<1>3. CASE RunStep \/ CtrlC
  BY <1>3, SignalsKeep, FinalFlushKeeps, ExitFlushKeeps, BackfillKeeps, ExitKeeps
  DEF RunStep, MainExhausted
<1>4. ASSUME NEW s \in Slots, Merge(s) PROVE WritesInv'
  BY <1>4, MergeKeeps
<1>5. CASE Rerun
  BY <1>5, RerunKeeps
<1>6. CASE Terminated \/ UNCHANGED vars
  BY <1>6, StutterKeeps DEF Terminated
<1> QED BY <1>1, <1>2, <1>3, <1>4, <1>5, <1>6 DEF Next, WriteStep

\* The invariant of which the theorems are consequences.
THEOREM WritesInvariant == Spec => []WritesInv
<1> QED BY InitHolds, StepKeeps, PTL DEF Spec

\* Type correctness of PluginWrites: in particular the number of writes in flight
\* never drops below zero.
THEOREM TypesKept == Spec => []TypeOK
<1>1. WritesInv => TypeOK
  BY DEF WritesInv
<1> QED BY <1>1, WritesInvariant, PTL

\* lib.rs:1106: past drain_outstanding_writes no write task is left that the end of
\* the runtime could cancel.
THEOREM DrainSafe == Spec => []DrainCoversWrites
<1>1. WritesInv => DrainCoversWrites
  BY DEF WritesInv
<1> QED BY <1>1, WritesInvariant, PTL

-----------------------------------------------------------------------------
(* The promise of RowSink.                                                 *)

\* While the run lives, blocks are taken on and rows stay.
LEMMA ProgressStep ==
  ASSUME Alive, Alive',
         accepted' = accepted \/ \E s \in Slots : accepted' = accepted \cup {s},
         \A s \in accepted : Written(s) => Written(s)'
  PROVE  Sink!Next
<1>1. accepted' \in {accepted} \cup {accepted \cup {s} : s \in Slots} /\ accepted \subseteq accepted'
  OBVIOUS
<1>2. {s \in accepted : Written(s)} \subseteq {s \in accepted : Written(s)}'
  BY <1>1
<1>3. {s \in accepted : Written(s)}' \subseteq accepted'
  OBVIOUS
<1> QED BY <1>1, <1>2, <1>3 DEF Sink!Next, Sink!Progress, Alive

\* Steps that leave the tables, but for the undated rows, alone.
LEMMA TablesRest ==
  ASSUME UNCHANGED <<slotRows, statusRows, eventRows>>
  PROVE  \A s : Written(s)' = Written(s)
BY DEF Written

LEMMA CallbackProgress ==
  ASSUME WritesInv, NEW t \in Threads, Callback(t) \/ RetryBatch(t)
  PROVE  Sink!Next
<1>1. UNCHANGED <<phase, tables>> /\ Alive
  BY DEF Callback, OnTransaction, OnBlock, CountSlot, RecordStatus, Return, Complete, PollShutdown,
     RetryBatch, thread, memory, writes
<1>2. accepted' = accepted \/ \E s \in Slots : accepted' = accepted \cup {s}
  <2>1. CASE RecordStatus(t)
    BY <2>1, OwnSlots DEF RecordStatus
  <2>2. CASE OnTransaction(t) \/ OnBlock(t) \/ CountSlot(t) \/ RetryBatch(t)
    BY <2>2 DEF OnTransaction, OnBlock, CountSlot, RetryBatch, history
  <2>3. CASE Return(t) \/ Complete(t) \/ PollShutdown(t)
    BY <2>3 DEF Return, Complete, PollShutdown, history
  <2> QED BY <2>1, <2>2, <2>3 DEF Callback
<1> QED BY <1>1, <1>2, TablesRest, ProgressStep DEF tables, Alive

LEMMA WriteProgress ==
  ASSUME WritesInv, NEW w \in tasks, DrainBuffer(w) \/ WriteSucceeds(w) \/ WriteUnacked(w)
  PROVE  Sink!Next
<1>1. UNCHANGED <<phase, accepted>> /\ Alive
  BY DEF DrainBuffer, WriteSucceeds, WriteUnacked, history
<1>2. \A s \in accepted : Written(s) => Written(s)'
  <2>1. CASE DrainBuffer(w)
    BY <2>1, TablesRest DEF DrainBuffer, tables
  <2>2. CASE WriteSucceeds(w) \/ WriteUnacked(w)
    <3>1. w.kind # "flush" /\ Insert(w)
      BY <2>2 DEF WriteSucceeds, WriteUnacked
    <3>2. accepted \subseteq Slots
      BY DEF WritesInv, TypeOK
    <3> QED BY <3>1, <3>2, InsertRows DEF Written
  <2> QED BY <2>1, <2>2
<1> QED BY <1>1, <1>2, ProgressStep DEF Alive

LEMMA AbortStep ==
  ASSUME Alive, Exit
  PROVE  Sink!Next
<1>1. phase' = "aborted" /\ UNCHANGED <<accepted, tables>>
  BY DEF Exit, history
<1>2. UNCHANGED {s \in accepted : Written(s)}
  BY <1>1 DEF Written, tables
<1> QED BY <1>1, <1>2 DEF Sink!Next, Sink!Abort, Alive

LEMMA MainProgress ==
  ASSUME WritesInv,
         CtrlC \/ Broadcast \/ FirehoseReturns \/ DrainOutstanding \/ FinalFlush \/ ExitFlush
  PROVE  Sink!Next
<1>1. accepted' = accepted /\ Alive /\ Alive'
  BY DEF CtrlC, Broadcast, FirehoseReturns, DrainOutstanding, FinalFlush, ExitFlush, Alive, history
<1>2. slotRows \subseteq slotRows' /\ UNCHANGED <<statusRows, eventRows>>
  BY DEF CtrlC, Broadcast, FirehoseReturns, DrainOutstanding, FinalFlush, ExitFlush, tables
<1>3. \A s \in accepted : Written(s) => Written(s)'
  BY <1>2 DEF Written
<1> QED BY <1>1, <1>3, ProgressStep

\* When the tasks and the buffer are empty, what is accepted is written.
LEMMA AllWritten ==
  ASSUME WritesInv, phase = "backfilling"
  PROVE  \A s \in accepted : Written(s)
<1>1. tasks = {} /\ buffer = {}
  BY DEF WritesInv, DrainCoversWrites, Quiet
<1> QED BY <1>1 DEF WritesInv, Conserved, SlotKept, StatusKept, EventKept, Written

\* The last step of a run finishes it only with everything written.
LEMMA BackfillFinishes ==
  ASSUME WritesInv, Backfill
  PROVE  Sink!Next
<1>1. /\ phase = "backfilling" /\ phase' \in {"done", "backfilling"}
      /\ UNCHANGED <<accepted, slotRows, statusRows>>
  BY DEF Backfill, history
<1>2. \A s \in accepted : Written(s)
  BY <1>1, AllWritten
<1>3. \A s \in accepted : Written(s)'
  <2>1. accepted \subseteq Slots
    BY DEF WritesInv, TypeOK
  <2>2. \A s \in accepted : eventRows[s] > 0 => eventRows'[s] > 0
    BY <2>1, BackfillRows
  <2> QED BY <1>1, <1>2, <2>2 DEF Written
<1>4. CASE phase' = "backfilling"
  BY <1>1, <1>2, <1>3, <1>4, ProgressStep DEF Alive
<1>5. CASE phase' = "done"
  <2>1. {s \in accepted : Written(s)} = accepted /\ {s \in accepted : Written(s)}' = accepted
    BY <1>1, <1>2, <1>3
  <2> QED BY <1>1, <1>5, <2>1 DEF Sink!Next, Sink!Finish
<1> QED BY <1>1, <1>4, <1>5

LEMMA RestartStep ==
  ASSUME Rerun
  PROVE  Sink!Next
<1>1. ~Alive /\ phase' = "streaming" /\ accepted' = {}
  BY DEF Rerun, Restart
<1> QED BY <1>1 DEF Sink!Next, Sink!Restart, Alive

LEMMA MergeStutters ==
  ASSUME NEW s \in Slots, Merge(s)
  PROVE  UNCHANGED Sink!vars
<1>1. UNCHANGED <<phase, accepted, slotRows, statusRows, eventRows>>
  BY DEF Merge, history
<1> QED BY <1>1 DEF Sink!vars, Written

LEMMA SinkStep == WritesInv /\ [Next]_vars => [Sink!Next]_(Sink!vars)
<1> SUFFICES ASSUME WritesInv, [Next]_vars PROVE Sink!Next \/ UNCHANGED Sink!vars
  OBVIOUS
<1>1. ASSUME NEW t \in Threads, Callback(t) \/ RetryBatch(t) PROVE Sink!Next
  BY <1>1, CallbackProgress
<1>2. ASSUME NEW w \in tasks, DrainBuffer(w) \/ WriteSucceeds(w) \/ WriteExhausted(w) \/ WriteUnacked(w)
      PROVE  Sink!Next
  BY <1>2, WriteProgress, AbortStep DEF WriteExhausted
<1>3. CASE MainExhausted
  BY <1>3, AbortStep DEF MainExhausted, Alive
<1>4. CASE RunStep \/ CtrlC
  BY <1>3, <1>4, MainProgress, BackfillFinishes DEF RunStep
<1>5. ASSUME NEW s \in Slots, Merge(s) PROVE UNCHANGED Sink!vars
  BY <1>5, MergeStutters
<1>6. CASE Rerun
  BY <1>6, RestartStep
<1>7. CASE Terminated \/ UNCHANGED vars
  <2>1. UNCHANGED <<phase, accepted, slotRows, statusRows, eventRows>>
    BY <1>7 DEF Terminated, vars, history, tables
  <2> QED BY <2>1 DEF Sink!vars, Written
<1> QED BY <1>1, <1>2, <1>4, <1>5, <1>6, <1>7 DEF Next, WriteStep

\* lib.rs:32-43 "Write Durability": whatever is interleaved, retried, interrupted or
\* started again, a run finishes only when all rows of each block it accepted are in
\* the tables, and otherwise it aborts.
THEOREM DropsNothing == Spec => NothingDropped
<1>1. Init => Sink!Init
  BY DEF Init, Sink!Init
<1>2. WritesInv /\ [Next]_vars => [Sink!Next]_(Sink!vars)
  BY SinkStep
<1> QED BY <1>1, <1>2, WritesInvariant, PTL DEF Spec, NothingDropped, Sink!Spec

-----------------------------------------------------------------------------
(***************************************************************************)
(* The numbers that are written.  A run that nobody interrupts has complete *)
(* rows of every block when the plugin exits, whatever runs came before it *)
(* (UninterruptedRunWrites); in a first run each row counts the            *)
(* transactions of its block once (RowsCountOnce).                         *)
(***************************************************************************)

\* Thread t reports slot s, or has reported it.
Reached(t, s) == s < at[t] \/ (s = at[t] /\ pc[t] \in Mid)
\* Thread t is behind the report of slot s.
Behind(t, s) == s < at[t] \/ (s = at[t] /\ pc[t] = "returned")
\* Thread t is in the middle of the report of slot s.
Reporting(t, s) == s = at[t] /\ pc[t] \in {"collected", "counted"}

\* The transactions thread t has delivered of block s.
Delivered(t, s) == IF Batch(t, s) THEN seen[t] ELSE 0

\* The blocks of thread t no retry has counted twice.
Clean(t) == {s \in Blocks \ replayed : s \in SlotsOf(t)}

\* What is collected for a block is what was delivered of it; the report takes the
\* events and leaves the tally.
Collects(t) ==
  \A s \in Clean(t) :
    /\ pc[t] # "ended" /\ ~Reached(t, s) =>
         /\ tally[s] = Delivered(t, s)
         /\ ~shutting => pending[s] = Delivered(t, s)
    /\ Reporting(t, s) => tally[s] = TxCount

\* A write of events or of a status carries the whole block.
WritesWhole ==
  \A w \in tasks : w.kind \in {"events", "status"} /\ w.key \in Blocks \ replayed => w.count = TxCount

CollectInv == (\A t \in Threads : Collects(t)) /\ WritesWhole

\* Until the plugin exits, the events of a block it took on are in the table, or in
\* a task that carries all of them.
Earlier == {"streaming", "draining", "flushing", "exiting"}
EventsWhole(s) == eventRows[s] = TxCount \/ \E w \in tasks : w.kind = "events" /\ w.key = s
EventsKept ==
  phase \in Earlier =>
    \A t \in Threads : \A s \in Clean(t) : s \in accepted \/ Reporting(t, s) => EventsWhole(s)

\* Without an interrupt, a thread of a run over the whole range has left no block out.
Takes(t) ==
  Uninterrupted => \A s \in Blocks : s \in SlotsOf(t) /\ (Behind(t, s) \/ pc[t] = "ended") => s \in accepted
TakesAll == (signalled => shutting) /\ \A t \in Threads : Takes(t)

CompleteInv == CollectInv /\ EventsKept /\ TakesAll

\* A slot whose status is written, or will be, is behind its thread; nothing is left
\* pending for it.
HasStatus(s) == statusRows[s] > 0 \/ \E w \in tasks : w.kind = "status" /\ w.key = s
Settled(s) ==
  HasStatus(s) =>
    /\ \A t \in Threads : s \in SlotsOf(t) => Behind(t, s)
    /\ pending[s] = 0 /\ undated[s] = {}
Emptied == \A t \in Threads, s \in Blocks : Reporting(t, s) => pending[s] = 0

\* The plugin's table holds no undated row before the exit of the first run.
Undated == phase \in {"streaming", "draining", "flushing"} => \A s \in Slots : undated[s] = {}

\* The rows of a block count its transactions.
RowsExact ==
  \A s \in Blocks \ replayed : statusRows[s] \in {0, TxCount} /\ eventRows[s] \in {0, TxCount}

FirstRunInv ==
  /\ MaxRuns = 1 /\ runs = 1
  /\ \A s \in Slots : Settled(s)
  /\ Emptied /\ Undated /\ RowsExact

-----------------------------------------------------------------------------
(* What the steps of the callbacks have in common.                         *)

\* A thread reads one batch at a time.
LEMMA OneBatch ==
  ASSUME NEW t \in Threads, NEW b \in Blocks, NEW c \in Blocks, Batch(t, b), Batch(t, c)
  PROVE  b = c
<1>1. b \in Nat /\ c \in Nat
  BY OwnSlots
<1>2. b <= c /\ c <= b
  BY DEF Batch
<1> QED BY <1>1, <1>2

\* The slots of a thread are not another's.
LEMMA NotMine ==
  ASSUME NEW t \in Threads, NEW u \in Threads, u # t, NEW s \in SlotsOf(t)
  PROVE  s \notin SlotsOf(u)
BY OwnSlots

\* What leaves a thread and its slots alone keeps what it has collected.
LEMMA CollectsRests ==
  ASSUME NEW u \in Threads, Collects(u),
         pc'[u] = pc[u], next'[u] = next[u], at'[u] = at[u], seen'[u] = seen[u],
         shutting => shutting', replayed \subseteq replayed',
         \A s \in SlotsOf(u) : tally'[s] = tally[s] /\ (~shutting => pending'[s] = pending[s])
  PROVE  Collects(u)'
<1>1. \A s : Batch(u, s)' = Batch(u, s) /\ Delivered(u, s)' = Delivered(u, s)
  BY DEF Batch, Remaining, Delivered
<1>2. \A s : Reached(u, s)' = Reached(u, s) /\ Reporting(u, s)' = Reporting(u, s)
  BY DEF Reached, Reporting
<1>3. ASSUME NEW s \in Clean(u)'
      PROVE  s \in Clean(u) /\ tally'[s] = tally[s] /\ (~shutting => pending'[s] = pending[s])
  BY <1>3 DEF Clean, SlotsOf
<1> QED BY <1>1, <1>2, <1>3 DEF Collects

\* A step of thread t at its slot: the report goes on, what is collected for other
\* slots stays.
LEMMA MidCollects ==
  ASSUME WritesInv, \A u \in Threads : Collects(u), NEW t \in Threads,
         pc[t] \in {"batch", "collected", "counted"}, seen[t] = TxCount, NEW l \in Mid, Go(t, l),
         pc[t] # "batch" => l # "collected",
         tally' = tally \/ (l = "returned" /\ tally' = [tally EXCEPT ![at[t]] = 0]),
         pending' = pending \/ pending' = [pending EXCEPT ![at[t]] = 0],
         UNCHANGED <<next, at, seen, shutting, replayed>>
  PROVE  /\ \A u \in Threads : Collects(u)'
         /\ at[t] \in Clean(t) /\ pc[t] = "batch" => tally[at[t]] = TxCount /\ (~shutting => pending[at[t]] = TxCount)
<1> USE DEF WritesInv
<1> DEFINE a == at[t]
<1>1. a \in SlotsOf(t) /\ a \in Nat /\ a \in Slots /\ Place(t) /\ seen[t] > 0
  BY AtEnd
<1>2. pc'[t] = l /\ \A u \in Threads : u # t => pc'[u] = pc[u]
  BY DEF Go, TypeOK
<1>3. \A s \in Slots : s # a => tally'[s] = tally[s] /\ pending'[s] = pending[s]
  BY <1>1 DEF TypeOK
<1>4. ASSUME a \in Clean(t), pc[t] = "batch"
      PROVE  tally[a] = TxCount /\ (~shutting => pending[a] = TxCount)
  <2>1. a \in Blocks
    BY <1>4 DEF Clean
  <2>2. PICK b \in Blocks : Batch(t, b) /\ a <= b
    BY <1>1, <1>4 DEF Place, Inside
  <2>3. Batch(t, a)
    BY <1>1, <1>4, <2>1, <2>2, AtBlock
  <2>4. ~Reached(t, a) /\ pc[t] # "ended"
    BY <1>1, <1>4 DEF Reached, Mid
  <2> QED BY <1>4, <2>3, <2>4 DEF Collects, Delivered
<1>5. Collects(t)'
  <2>1. \A s : Batch(t, s)' = Batch(t, s) /\ Delivered(t, s)' = Delivered(t, s)
    BY DEF Batch, Remaining, Delivered
  <2>2. ASSUME NEW s \in Clean(t), ~Reached(t, s)'
        PROVE  s # a /\ ~Reached(t, s) /\ s \in Slots
    BY <1>1, <1>2, <2>2, OwnSlots DEF Reached, Clean
  <2>3. ASSUME NEW s \in Clean(t), Reporting(t, s)' PROVE tally'[s] = TxCount
    <3>1. s = a /\ l # "returned" /\ tally' = tally
      BY <1>2, <2>3 DEF Reporting
    <3>2. CASE pc[t] = "batch"
      BY <1>4, <3>1, <3>2, <2>3
    <3>3. CASE pc[t] # "batch"
      <4>1. Reporting(t, s)
        BY <3>1, <3>3 DEF Reporting
      <4> QED BY <4>1, <3>1 DEF Collects
    <3> QED BY <3>2, <3>3
  <2>4. Clean(t)' = Clean(t)
    BY DEF Clean, SlotsOf
  <2>5. pc[t] # "ended" /\ shutting' = shutting
    OBVIOUS
  <2>6. ASSUME NEW s \in Clean(t), ~Reached(t, s)'
        PROVE  tally'[s] = Delivered(t, s) /\ (~shutting => pending'[s] = Delivered(t, s))
    BY <2>2, <2>5, <2>6, <1>3 DEF Collects
  <2> QED BY <2>1, <2>3, <2>4, <2>5, <2>6 DEF Collects
<1>6. ASSUME NEW u \in Threads, u # t PROVE Collects(u)'
  <2>1. \A s \in SlotsOf(u) : s # a /\ s \in Slots
    BY <1>1, <1>6, NotMine, OwnSlots
  <2> QED BY <1>2, <1>3, <1>6, <2>1, CollectsRests
<1> QED BY <1>4, <1>5, <1>6

\* The tasks stay whole while only whole ones come.
LEMMA WholeGrows ==
  ASSUME WritesWhole, replayed \subseteq replayed',
         \A w \in tasks' \ tasks :
           w.kind \in {"events", "status"} /\ w.key \in Blocks \ replayed => w.count = TxCount
  PROVE  WritesWhole'
BY DEF WritesWhole

-----------------------------------------------------------------------------
(* The callbacks collect.                                                  *)

LEMMA OnTransactionCollects ==
  ASSUME WritesInv, CollectInv, NEW t \in Threads, OnTransaction(t)
  PROVE  CollectInv'
<1> USE DEF WritesInv, CollectInv
<1>1. PICK b \in Blocks :
        /\ pc[t] = "batch" /\ Batch(t, b) /\ seen[t] < TxCount
        /\ seen' = [seen EXCEPT ![t] = @ + 1]
        /\ tally' = [tally EXCEPT ![b] = @ + 1]
        /\ pending' = IF shutting THEN pending ELSE [pending EXCEPT ![b] = @ + 1]
        /\ UNCHANGED <<phase, pc, next, at, flags, buffer, reported, writes, tables, history, session, faults>>
  BY DEF OnTransaction
<1>2. b \in SlotsOf(t) /\ b \in Slots
  BY <1>1, BatchSlot DEF Threading, Place, Batch
<1>3. \A s \in Slots : s # b => tally'[s] = tally[s] /\ pending'[s] = pending[s]
  BY <1>1, <1>2 DEF TypeOK
<1>4. tally'[b] = tally[b] + 1 /\ (~shutting => pending'[b] = pending[b] + 1)
  BY <1>1, <1>2 DEF TypeOK
<1>5. Collects(t)'
  <2>1. \A s : Batch(t, s)' = Batch(t, s) /\ Reached(t, s)' = Reached(t, s) /\ ~Reporting(t, s)'
    BY <1>1 DEF Batch, Remaining, Reached, Reporting
  <2>2. Clean(t)' = Clean(t) /\ shutting' = shutting /\ pc' = pc
    BY <1>1 DEF Clean, SlotsOf, history, flags
  <2>3. seen'[t] = seen[t] + 1
    BY <1>1 DEF TypeOK
  <2>4. ASSUME NEW s \in Clean(t), ~Reached(t, s)
        PROVE  tally'[s] = Delivered(t, s)' /\ (~shutting => pending'[s] = Delivered(t, s)')
    <3>1. tally[s] = Delivered(t, s) /\ (~shutting => pending[s] = Delivered(t, s))
      BY <1>1, <2>4 DEF Collects
    <3>2. CASE s = b
      <4>1. Delivered(t, s) = seen[t] /\ Delivered(t, s)' = seen[t] + 1
        BY <1>1, <2>1, <2>3, <3>2 DEF Delivered
      <4> QED BY <1>4, <3>1, <3>2, <4>1
    <3>3. CASE s # b
      <4>1. ~Batch(t, s) /\ s \in Slots
        BY <1>1, <3>3, OneBatch, OwnSlots DEF Clean
      <4>2. Delivered(t, s) = 0 /\ Delivered(t, s)' = 0
        BY <2>1, <4>1 DEF Delivered
      <4> QED BY <1>3, <3>1, <3>3, <4>1, <4>2
    <3> QED BY <3>2, <3>3
  <2> QED BY <2>1, <2>2, <2>4 DEF Collects
<1>6. ASSUME NEW u \in Threads, u # t PROVE Collects(u)'
  <2>1. \A s \in SlotsOf(u) : s # b /\ s \in Slots
    BY <1>2, <1>6, NotMine, OwnSlots
  <2>2. seen'[u] = seen[u]
    BY <1>1, <1>6 DEF TypeOK
  <2> QED BY <1>1, <1>3, <2>1, <2>2, CollectsRests DEF flags, history
<1>7. WritesWhole'
  BY <1>1, WholeGrows DEF writes, history
<1> QED BY <1>5, <1>6, <1>7

\* What a retried batch delivered again no longer counts.
LEMMA RetryBatchCollects ==
  ASSUME WritesInv, CollectInv, NEW t \in Threads, RetryBatch(t)
  PROVE  CollectInv'
<1> USE DEF WritesInv, CollectInv
<1>1. PICK b \in Blocks :
        /\ pc[t] = "batch" /\ Batch(t, b)
        /\ seen' = [seen EXCEPT ![t] = 0]
        /\ replayed' = replayed \cup {b}
        /\ UNCHANGED <<phase, pc, next, at, flags, memory, writes, tables, accepted, session>>
  BY DEF RetryBatch
<1>2. Collects(t)'
  <2>1. \A s : Batch(t, s)' = Batch(t, s) /\ Reached(t, s)' = Reached(t, s) /\ ~Reporting(t, s)'
    BY <1>1 DEF Batch, Remaining, Reached, Reporting
  <2>2. seen'[t] = 0
    BY <1>1 DEF TypeOK
  <2>3. ASSUME NEW s \in Clean(t)'
        PROVE  s \in Clean(t) /\ ~Batch(t, s)
    <3>1. s \in Clean(t) /\ s # b /\ s \in Blocks
      BY <1>1, <2>3 DEF Clean, SlotsOf
    <3> QED BY <1>1, <3>1, OneBatch
  <2>4. \A s \in Clean(t)' : Delivered(t, s) = 0 /\ Delivered(t, s)' = 0
    BY <2>1, <2>3 DEF Delivered
  <2> QED BY <1>1, <2>1, <2>3, <2>4 DEF Collects, memory, flags
<1>3. ASSUME NEW u \in Threads, u # t PROVE Collects(u)'
  <2>1. seen'[u] = seen[u]
    BY <1>1, <1>3 DEF TypeOK
  <2> QED BY <1>1, <2>1, CollectsRests DEF flags, memory
<1>4. WritesWhole'
  BY <1>1, WholeGrows DEF writes
<1> QED BY <1>2, <1>3, <1>4

\* A thread at its slot between the steps of a report.
LEMMA MidSeen ==
  ASSUME WritesInv, NEW t \in Threads, pc[t] \in Mid
  PROVE  seen[t] = TxCount
BY DEF WritesInv, Threading, Place, Mid

\* The events of a block are those of all its transactions.
LEMMA OnBlockCollects ==
  ASSUME WritesInv, CollectInv, NEW t \in Threads, OnBlock(t)
  PROVE  CollectInv'
<1> USE DEF WritesInv, CollectInv
<1> DEFINE a == at[t]
           due == {Event(c, pending[c]) : c \in {c \in {a} : pending[c] > 0}}
<1>1. /\ pc[t] = "batch" /\ seen[t] = TxCount
      /\ UNCHANGED <<phase, next, at, seen, flags, tally, reported, tables, history, session, faults>>
  BY DEF OnBlock
<1>2. PICK l \in Mid : /\ Go(t, l)
                       /\ pending' = pending \/ pending' = [pending EXCEPT ![a] = 0]
                       /\ UNCHANGED writes \/ (~shutting /\ a \in Blocks /\ Spawn(due))
  BY DEF OnBlock, Ignoring, Mid
<1>3. /\ \A u \in Threads : Collects(u)'
      /\ a \in Clean(t) => tally[a] = TxCount /\ (~shutting => pending[a] = TxCount)
  BY <1>1, <1>2, MidCollects DEF flags, history
<1>4. ASSUME NEW w \in tasks' \ tasks, w.key \in Blocks \ replayed PROVE w.count = TxCount
  <2>1. ~shutting /\ w = Event(a, pending[a])
    BY <1>2, <1>4 DEF writes, Spawn
  <2>2. w.key = a /\ w.count = pending[a] /\ a \in SlotsOf(t)
    BY <2>1, <1>1, AtEnd DEF Event
  <2> QED BY <1>3, <1>4, <2>1, <2>2 DEF Clean
<1>5. WritesWhole'
  BY <1>1, <1>4, WholeGrows DEF history
<1> QED BY <1>3, <1>5

LEMMA CountSlotCollects ==
  ASSUME WritesInv, CollectInv, NEW t \in Threads, CountSlot(t)
  PROVE  CollectInv'
<1> USE DEF WritesInv, CollectInv
<1>1. /\ pc[t] = "collected" /\ Go(t, "counted")
      /\ Spawn({Flush(reported + 1)}) \/ UNCHANGED writes
      /\ UNCHANGED <<phase, next, at, seen, flags, tally, pending, buffer, tables, history, session, faults>>
  BY DEF CountSlot
<1>2. \A u \in Threads : Collects(u)'
  BY <1>1, MidSeen, MidCollects DEF flags, history, Mid
<1>3. \A w \in tasks' \ tasks : w.kind = "flush"
  BY <1>1 DEF writes, Spawn, Flush
<1>4. WritesWhole'
  BY <1>1, <1>3, WholeGrows DEF history
<1> QED BY <1>2, <1>4

\* The status of a block counts all its transactions.
LEMMA RecordStatusCollects ==
  ASSUME WritesInv, CollectInv, NEW t \in Threads, RecordStatus(t)
  PROVE  CollectInv'
<1> USE DEF WritesInv, CollectInv
<1> DEFINE a == at[t]
<1>1. /\ pc[t] = "counted" /\ Go(t, "returned") /\ tally' = [tally EXCEPT ![a] = 0]
      /\ (a \in Blocks /\ Spawn({Status(a, tally[a])})) \/ UNCHANGED writes
      /\ UNCHANGED <<phase, next, at, seen, flags, pending, buffer, reported, tables,
                     replayed, session, faults>>
  BY DEF RecordStatus
<1>2. \A u \in Threads : Collects(u)'
  BY <1>1, MidSeen, MidCollects DEF flags, Mid
<1>3. ASSUME NEW w \in tasks' \ tasks, w.key \in Blocks \ replayed PROVE w.count = TxCount
  <2>1. w = Status(a, tally[a])
    BY <1>1, <1>3 DEF writes, Spawn
  <2>2. w.key = a /\ w.count = tally[a] /\ a \in SlotsOf(t)
    BY <2>1, <1>1, MidSeen, AtEnd DEF Status, Mid
  <2>3. a \in Clean(t) /\ Reporting(t, a)
    BY <1>1, <1>3, <2>2 DEF Clean, Reporting
  <2> QED BY <2>2, <2>3 DEF Collects
<1>4. WritesWhole'
  BY <1>1, <1>3, WholeGrows
<1> QED BY <1>2, <1>4

\* The next batch starts with nothing.
LEMMA ReturnCollects ==
  ASSUME WritesInv, CollectInv, NEW t \in Threads, Return(t)
  PROVE  CollectInv'
<1> USE DEF WritesInv, CollectInv
<1> DEFINE a == at[t]
<1>1. /\ pc[t] = "returned" /\ at' = [at EXCEPT ![t] = @ + 1] /\ pc' = [pc EXCEPT ![t] = "batch"]
      /\ UNCHANGED <<phase, flags, memory, writes, tables, history, session, faults>>
  BY DEF Return, Go
<1>2. a \in SlotsOf(t) /\ a \in Nat /\ Place(t) /\ seen[t] > 0
  BY <1>1, MidSeen, AtEnd DEF Mid
<1>3. at'[t] = a + 1 /\ pc'[t] = "batch"
  BY <1>1 DEF TypeOK
<1>4. \A s \in Nat : ~Reached(t, s)' => s > a /\ ~Reached(t, s)
  BY <1>1, <1>2, <1>3 DEF Reached
<1>5. \A s \in Clean(t)' : s \in Clean(t) /\ s \in Nat /\ s \in Blocks
  BY <1>1, OwnSlots DEF Clean, SlotsOf, history
<1>6. ASSUME NEW s \in Clean(t)', ~Reached(t, s)'
      PROVE  Delivered(t, s)' = Delivered(t, s)
  <2>1. CASE a \in Blocks
    <3>1. seen'[t] = 0
      BY <2>1 DEF Return, TypeOK
    <3>2. PICK b \in Blocks : Batch(t, b) /\ a <= b
      BY <1>1, <1>2 DEF Place, Inside
    <3>3. Batch(t, a)
      BY <1>1, <1>2, <2>1, <3>2, AtBlock
    <3>4. ~Batch(t, s)
      BY <1>4, <1>5, <1>6, <2>1, <3>3, OneBatch
    <3> QED BY <3>1, <3>4 DEF Delivered
  <2>2. CASE a \notin Blocks
    BY <2>2 DEF Return, Delivered, Batch, Remaining
  <2> QED BY <2>1, <2>2
<1>7. Collects(t)'
  <2>1. \A s : ~Reporting(t, s)'
    BY <1>3 DEF Reporting
  <2>2. tally' = tally /\ pending' = pending /\ shutting' = shutting /\ pc[t] # "ended"
    BY <1>1 DEF memory, flags
  <2> QED BY <1>4, <1>5, <1>6, <2>1, <2>2 DEF Collects
<1>8. ASSUME NEW u \in Threads, u # t PROVE Collects(u)'
  <2>1. pc'[u] = pc[u] /\ at'[u] = at[u]
    BY <1>1, <1>8 DEF TypeOK
  <2>2. next'[u] = next[u] /\ seen'[u] = seen[u]
    BY <1>8 DEF TypeOK, Return
  <2> QED BY <1>1, <2>1, <2>2, CollectsRests DEF flags, memory, history
<1>9. WritesWhole'
  BY <1>1, WholeGrows DEF writes, history
<1> QED BY <1>7, <1>8, <1>9

\* A thread that has ended collects nothing more.
LEMMA EndedCollects ==
  ASSUME NEW t \in Threads, pc'[t] = "ended"
  PROVE  Collects(t)'
BY DEF Collects, Reporting

LEMMA EndCollects ==
  ASSUME WritesInv, CollectInv, NEW t \in Threads, Complete(t) \/ PollShutdown(t)
  PROVE  CollectInv'
<1> USE DEF WritesInv, CollectInv
<1>1. /\ pc' = [pc EXCEPT ![t] = "ended"]
      /\ UNCHANGED <<at, seen, flags, memory, writes, history>>
  BY DEF Complete, PollShutdown, Go
<1>2. Collects(t)'
  BY <1>1, EndedCollects DEF TypeOK
<1>3. ASSUME NEW u \in Threads, u # t PROVE Collects(u)'
  <2>1. pc'[u] = pc[u] /\ next'[u] = next[u]
    BY <1>1, <1>3 DEF TypeOK, Complete, PollShutdown
  <2> QED BY <1>1, <2>1, CollectsRests DEF flags, memory, history
<1>4. WritesWhole'
  BY <1>1, WholeGrows DEF writes, history
<1> QED BY <1>2, <1>3, <1>4

-----------------------------------------------------------------------------
(* The other steps leave alone what is collected.                          *)

LEMMA AllRest ==
  ASSUME CollectInv, UNCHANGED <<thread, tally, pending, replayed>>, shutting => shutting',
         \A w \in tasks' \ tasks : w.kind = "rows"
  PROVE  CollectInv'
<1>1. \A u \in Threads : Collects(u)'
  BY CollectsRests DEF CollectInv, thread
<1>2. WritesWhole'
  BY WholeGrows DEF CollectInv
<1> QED BY <1>1, <1>2 DEF CollectInv

LEMMA WriteCollects ==
  ASSUME WritesInv, CollectInv, NEW w \in tasks,
         DrainBuffer(w) \/ WriteSucceeds(w) \/ WriteUnacked(w) \/ WriteExhausted(w)
  PROVE  CollectInv'
<1>1. UNCHANGED <<thread, tally, pending, replayed, shutting>>
  BY DEF DrainBuffer, WriteSucceeds, WriteUnacked, WriteExhausted, Exit, memory, history, flags
<1>2. \A v \in tasks' \ tasks : v.kind = "rows"
  <2>1. CASE DrainBuffer(w)
    <3>1. w \in Tasks
      BY DEF WritesInv, TypeOK
    <3>2. Drained(w, buffer).kind = "rows"
      BY <3>1 DEF Drained, Tasks
    <3> QED BY <2>1, <3>2 DEF DrainBuffer, Finished
  <2>2. CASE WriteSucceeds(w) \/ WriteUnacked(w) \/ WriteExhausted(w)
    BY <2>2 DEF WriteSucceeds, WriteUnacked, WriteExhausted, Exit, Finished, writes
  <2> QED BY <2>1, <2>2
<1> QED BY <1>1, <1>2, AllRest

LEMMA MainCollects ==
  ASSUME WritesInv, CollectInv, RunStep \/ CtrlC
  PROVE  CollectInv'
<1>1. UNCHANGED <<thread, tasks, replayed>> /\ (shutting => shutting')
  BY DEF RunStep, CtrlC, Broadcast, FirehoseReturns, DrainOutstanding, FinalFlush, ExitFlush, Backfill,
     MainExhausted, Exit, history, writes, flags
<1>2. CASE ExitFlush
  <2>1. \A t \in Threads : pc'[t] = "ended"
    BY <1>1, <1>2 DEF WritesInv, Quiet, ExitFlush, thread
  <2>2. \A t \in Threads : Collects(t)'
    BY <2>1, EndedCollects
  <2>3. WritesWhole'
    BY <1>1, WholeGrows DEF CollectInv
  <2> QED BY <2>2, <2>3 DEF CollectInv
<1>3. CASE ~ExitFlush
  <2>1. UNCHANGED <<tally, pending>>
    BY <1>3 DEF RunStep, CtrlC, Broadcast, FirehoseReturns, DrainOutstanding, FinalFlush, Backfill,
       MainExhausted, Exit, memory
  <2> QED BY <1>1, <2>1, AllRest
<1> QED BY <1>2, <1>3

\* A new process starts with nothing.
LEMMA FreshCollects ==
  ASSUME tally = Absent, pending = Absent, tasks = {}, \A t \in Threads : seen[t] = 0 /\ pc[t] = "batch"
  PROVE  CollectInv
<1>1. ASSUME NEW t \in Threads PROVE Collects(t)
  <2>1. \A s : Delivered(t, s) = 0 /\ ~Reporting(t, s)
    BY DEF Delivered, Reporting
  <2>2. \A s \in Clean(t) : tally[s] = 0 /\ pending[s] = 0
    BY OwnSlots DEF Clean, Absent
  <2> QED BY <2>1, <2>2 DEF Collects
<1> QED BY <1>1 DEF CollectInv, WritesWhole

LEMMA FreshCollectsAfter ==
  ASSUME tally' = Absent, pending' = Absent, tasks' = {}, \A t \in Threads : seen'[t] = 0 /\ pc'[t] = "batch"
  PROVE  CollectInv'
<1>1. ASSUME NEW t \in Threads PROVE Collects(t)'
  <2>1. \A s : Delivered(t, s)' = 0 /\ ~Reporting(t, s)'
    BY DEF Delivered, Reporting
  <2>2. \A s \in Clean(t)' : tally'[s] = 0 /\ pending'[s] = 0
    BY OwnSlots DEF Clean, Absent
  <2> QED BY <2>1, <2>2 DEF Collects
<1> QED BY <1>1 DEF CollectInv, WritesWhole

LEMMA InitCollects == Init => CollectInv
<1> SUFFICES ASSUME Init PROVE CollectInv
  OBVIOUS
<1> QED BY FreshCollects DEF Init

LEMMA StepCollects == WritesInv /\ CollectInv /\ [Next]_vars => CollectInv'
<1> SUFFICES ASSUME WritesInv, CollectInv, [Next]_vars PROVE CollectInv'
  OBVIOUS
<1>1. ASSUME NEW t \in Threads, Callback(t) \/ RetryBatch(t) PROVE CollectInv'
  BY <1>1, OnTransactionCollects, RetryBatchCollects, OnBlockCollects, CountSlotCollects,
     RecordStatusCollects, ReturnCollects, EndCollects DEF Callback
<1>2. ASSUME NEW w \in tasks, DrainBuffer(w) \/ WriteSucceeds(w) \/ WriteExhausted(w) \/ WriteUnacked(w)
      PROVE  CollectInv'
  BY <1>2, WriteCollects
<1>3. CASE RunStep \/ CtrlC
  BY <1>3, MainCollects
<1>4. ASSUME NEW s \in Slots, Merge(s) PROVE CollectInv'
  BY <1>4, AllRest DEF Merge, memory, writes, history, flags
<1>5. CASE Rerun
  BY <1>5, FreshCollectsAfter DEF Rerun, Restart
<1>6. CASE Terminated \/ UNCHANGED vars
  BY <1>6, AllRest DEF Terminated, vars, memory, writes, history, flags
<1> QED BY <1>1, <1>2, <1>3, <1>4, <1>5, <1>6 DEF Next, WriteStep

-----------------------------------------------------------------------------
(* The events of the blocks taken on.                                      *)

LEMMA EventsStep ==
  ASSUME EventsKept, phase' \in Earlier => phase \in Earlier, replayed \subseteq replayed',
         \A s \in Blocks \ replayed : EventsWhole(s) => EventsWhole(s)',
         \A t \in Threads : \A s \in Clean(t) :
           s \in accepted' \/ Reporting(t, s)' => s \in accepted \/ Reporting(t, s) \/ EventsWhole(s)'
  PROVE  EventsKept'
<1>1. ASSUME phase' \in Earlier, NEW t \in Threads, NEW s \in Clean(t)', s \in accepted' \/ Reporting(t, s)'
      PROVE  EventsWhole(s)'
  <2>1. s \in Clean(t) /\ s \in Blocks \ replayed
    BY <1>1 DEF Clean, SlotsOf
  <2>2. CASE s \in accepted \/ Reporting(t, s)
    BY <1>1, <2>1, <2>2 DEF EventsKept
  <2>3. CASE EventsWhole(s)'
    BY <2>3
  <2> QED BY <1>1, <2>1, <2>2, <2>3
<1> QED BY <1>1 DEF EventsKept

\* Tasks and rows that only come.
LEMMA WholeStays ==
  ASSUME eventRows' = eventRows, tasks \subseteq tasks'
  PROVE  \A s : EventsWhole(s) => EventsWhole(s)'
BY DEF EventsWhole

LEMMA CallbackEvents ==
  ASSUME WritesInv, CollectInv, EventsKept, NEW t \in Threads, Callback(t) \/ RetryBatch(t)
  PROVE  EventsKept'
<1> USE DEF WritesInv
<1>1. /\ UNCHANGED <<phase, tables>> /\ replayed \subseteq replayed' /\ tasks \subseteq tasks'
      /\ pc[t] # "ended" /\ \A u \in Threads : u # t => pc'[u] = pc[u] /\ at'[u] = at[u]
  <2>1. CASE OnTransaction(t) \/ RetryBatch(t) \/ OnBlock(t)
    BY <2>1 DEF OnTransaction, RetryBatch, OnBlock, Spawn, Go, TypeOK, thread, writes, history, memory
  <2>2. CASE CountSlot(t) \/ RecordStatus(t) \/ Return(t)
    BY <2>2 DEF CountSlot, RecordStatus, Return, Spawn, Go, TypeOK, thread, writes, history, memory
  <2>3. CASE Complete(t) \/ PollShutdown(t)
    BY <2>3 DEF Complete, PollShutdown, Go, TypeOK, thread, writes, history, memory
  <2> QED BY <2>1, <2>2, <2>3 DEF Callback
<1>2. \A s : EventsWhole(s) => EventsWhole(s)'
  BY <1>1, WholeStays DEF tables
<1>3. \A u \in Threads : u # t => \A s : Reporting(u, s)' = Reporting(u, s)
  BY <1>1 DEF Reporting
<1>4. ASSUME NEW s \in Clean(t), Reporting(t, s)'
      PROVE  Reporting(t, s) \/ EventsWhole(s)'
  <2>1. CASE OnBlock(t)
    <3>1. pc[t] = "batch" /\ seen[t] = TxCount /\ at' = at /\ s \in Blocks
      BY <2>1, <1>4 DEF OnBlock, Clean
    <3>2. s = at[t] /\ pc'[t] # "returned"
      BY <3>1, <1>4 DEF Reporting
    <3>3. ~shutting /\ pending' = [pending EXCEPT ![s] = 0] /\
          Spawn({Event(c, pending[c]) : c \in {c \in {s} : pending[c] > 0}}) /\ Go(t, "collected")
      BY <2>1, <3>1, <3>2 DEF OnBlock, Go, TypeOK, Ignoring
    <3>4. pending[s] = TxCount
      BY <2>1, <3>1, <3>2, <3>3, <1>4, MidCollects DEF OnBlock, CollectInv, Mid, flags, history
    <3>5. Event(s, pending[s]) \in tasks'
      BY <3>3, <3>4, CountsAssumption DEF Spawn
    <3> QED BY <3>5 DEF EventsWhole, Event
  <2>2. CASE CountSlot(t)
    <3>1. at' = at /\ pc[t] = "collected"
      BY <2>2 DEF CountSlot
    <3> QED BY <1>4, <3>1 DEF Reporting
  <2>3. CASE RecordStatus(t) \/ Return(t) \/ Complete(t) \/ PollShutdown(t)
    <3>1. pc'[t] \notin {"collected", "counted"}
      BY <2>3 DEF RecordStatus, Return, Complete, PollShutdown, Go, TypeOK
    <3> QED BY <1>4, <3>1 DEF Reporting
  <2>4. CASE OnTransaction(t) \/ RetryBatch(t)
    <3>1. UNCHANGED <<pc, at>>
      BY <2>4 DEF OnTransaction, RetryBatch
    <3> QED BY <1>4, <3>1 DEF Reporting
  <2> QED BY <2>1, <2>2, <2>3, <2>4 DEF Callback
<1>5. ASSUME NEW u \in Threads, NEW s \in Clean(u), s \in accepted', s \notin accepted
      PROVE  Reporting(u, s)
  <2>1. RecordStatus(t)
    BY <1>5 DEF Callback, OnTransaction, RetryBatch, OnBlock, CountSlot, Return, Complete, PollShutdown, history
  <2>2. s = at[t] /\ pc[t] = "counted"
    BY <2>1, <1>5 DEF RecordStatus
  <2>3. u = t
    BY <2>2, MidSeen, AtEnd, <1>5, OwnSlots DEF Clean, Mid
  <2> QED BY <2>2, <2>3 DEF Reporting
<1>6. \A u \in Threads : \A s \in Clean(u) :
        s \in accepted' \/ Reporting(u, s)' => s \in accepted \/ Reporting(u, s) \/ EventsWhole(s)'
  BY <1>3, <1>4, <1>5
<1> QED BY <1>1, <1>2, <1>6, EventsStep

\* A write that reaches the plugin's table brings the whole block.
LEMMA WriteEvents ==
  ASSUME WritesInv, CollectInv, EventsKept, NEW w \in tasks,
         DrainBuffer(w) \/ WriteSucceeds(w) \/ WriteUnacked(w)
  PROVE  EventsKept'
<1> USE DEF WritesInv
<1>1. UNCHANGED <<phase, pc, at, accepted, replayed>>
  BY DEF DrainBuffer, WriteSucceeds, WriteUnacked, thread, history
<1>2. \A v \in tasks : v.kind = "events" /\ v # w => v \in tasks'
  BY DEF DrainBuffer, WriteSucceeds, WriteUnacked, Finished, writes
<1>3. ASSUME NEW s \in Blocks \ replayed, EventsWhole(s)
      PROVE  EventsWhole(s)'
  <2>1. CASE w.kind = "events" /\ w.key = s
    <3>1. Insert(w)
      BY <2>1 DEF DrainBuffer, WriteSucceeds, WriteUnacked
    <3>2. w.slots = {s} /\ w.count = TxCount
      BY <2>1, <1>3 DEF Shapes, CollectInv, WritesWhole
    <3>3. eventRows'[s] = TxCount
      BY <2>1, <3>1, <3>2, <1>3, OwnSlots DEF Insert, RowsOf
    <3> QED BY <3>3 DEF EventsWhole
  <2>2. CASE ~(w.kind = "events" /\ w.key = s)
    <3>1. eventRows'[s] = eventRows[s]
      <4>1. CASE DrainBuffer(w) \/ w.kind # "events"
        BY <4>1 DEF DrainBuffer, WriteSucceeds, WriteUnacked, Insert, tables
      <4>2. CASE ~DrainBuffer(w) /\ w.kind = "events"
        <5>1. Insert(w) /\ s \notin w.slots /\ s \in Slots
          BY <2>2, <4>2, <1>3, OwnSlots DEF WriteSucceeds, WriteUnacked, Shapes
        <5> QED BY <4>2, <5>1 DEF Insert, RowsOf
      <4> QED BY <4>1, <4>2
    <3>2. (\E v \in tasks : v.kind = "events" /\ v.key = s) =>
          (\E v \in tasks' : v.kind = "events" /\ v.key = s)
      BY <1>2, <2>2
    <3> QED BY <1>3, <3>1, <3>2 DEF EventsWhole
  <2> QED BY <2>1, <2>2
<1>4. \A t \in Threads : \A s : Reporting(t, s)' = Reporting(t, s)
  BY <1>1 DEF Reporting
<1> QED BY <1>1, <1>3, <1>4, EventsStep

LEMMA StepEvents == WritesInv /\ CollectInv /\ EventsKept /\ [Next]_vars => EventsKept'
<1> SUFFICES ASSUME WritesInv, CollectInv, EventsKept, [Next]_vars PROVE EventsKept'
  OBVIOUS
<1>1. ASSUME UNCHANGED <<pc, at, accepted, replayed, tasks>>,
             phase' \in Earlier => phase \in Earlier /\ eventRows' = eventRows
      PROVE  EventsKept'
  <2>1. CASE phase' \in Earlier
    <3>1. \A t \in Threads : \A s : Reporting(t, s)' = Reporting(t, s)
      BY <1>1 DEF Reporting
    <3>2. \A s : EventsWhole(s) => EventsWhole(s)'
      BY <1>1, <2>1, WholeStays
    <3> QED BY <1>1, <2>1, <3>1, <3>2, EventsStep
  <2>2. CASE phase' \notin Earlier
    BY <2>2 DEF EventsKept
  <2> QED BY <2>1, <2>2
<1>2. ASSUME NEW t \in Threads, Callback(t) \/ RetryBatch(t) PROVE EventsKept'
  BY <1>2, CallbackEvents
<1>3. ASSUME NEW w \in tasks, DrainBuffer(w) \/ WriteSucceeds(w) \/ WriteUnacked(w) PROVE EventsKept'
  BY <1>3, WriteEvents
<1>4. ASSUME Exit PROVE EventsKept'
  BY <1>1, <1>4 DEF Exit, Earlier, thread, history, writes
<1>5. CASE CtrlC \/ Broadcast \/ FirehoseReturns \/ DrainOutstanding \/ FinalFlush \/ ExitFlush
  BY <1>1, <1>5 DEF CtrlC, Broadcast, FirehoseReturns, DrainOutstanding, FinalFlush, ExitFlush,
     Earlier, thread, history, writes, tables
<1>6. CASE Backfill
  BY <1>1, <1>6 DEF Backfill, Earlier, thread, history, writes
<1>7. ASSUME NEW s \in Slots, Merge(s) PROVE EventsKept'
  BY <1>1, <1>7 DEF Merge, thread, history, writes
<1>8. CASE Rerun
  <2>1. accepted' = {} /\ \A t \in Threads : pc'[t] = "batch"
    BY <1>8 DEF Rerun, Restart
  <2> QED BY <2>1 DEF EventsKept, Reporting
<1>9. CASE Terminated \/ UNCHANGED vars
  BY <1>1, <1>9 DEF Terminated, vars, thread, history, writes, tables
<1> QED BY <1>2, <1>3, <1>4, <1>5, <1>6, <1>7, <1>8, <1>9
    DEF Next, WriteStep, RunStep, WriteExhausted, MainExhausted

-----------------------------------------------------------------------------
(* No block is left out.                                                   *)

LEMMA TakesStep ==
  ASSUME TakesAll, shutting => shutting', signalled' => shutting', resumed' = resumed,
         accepted \subseteq accepted',
         \A u \in Threads : \A s \in Blocks :
           /\ ~shutting' /\ s \in SlotsOf(u)
           /\ Behind(u, s)' \/ pc'[u] = "ended"
           => Behind(u, s) \/ pc[u] = "ended" \/ s \in accepted'
  PROVE  TakesAll'
<1>1. ASSUME NEW u \in Threads, Uninterrupted', NEW s \in Blocks, s \in SlotsOf(u),
             Behind(u, s)' \/ pc'[u] = "ended"
      PROVE  s \in accepted'
  <2>1. Uninterrupted /\ ~shutting'
    BY <1>1 DEF Uninterrupted
  <2>2. Behind(u, s) \/ pc[u] = "ended" \/ s \in accepted'
    BY <1>1, <2>1
  <2> QED BY <1>1, <2>1, <2>2 DEF TakesAll, Takes
<1> QED BY <1>1 DEF TakesAll, Takes, SlotsOf

LEMMA CallbackTakes ==
  ASSUME WritesInv, TakesAll, NEW t \in Threads, Callback(t) \/ RetryBatch(t)
  PROVE  TakesAll'
<1> USE DEF WritesInv
<1>1. /\ UNCHANGED <<flags, session>> /\ accepted \subseteq accepted'
      /\ pc[t] # "ended" /\ \A u \in Threads : u # t => pc'[u] = pc[u] /\ at'[u] = at[u]
  <2>1. CASE OnTransaction(t) \/ RetryBatch(t) \/ OnBlock(t)
    BY <2>1 DEF OnTransaction, RetryBatch, OnBlock, Go, TypeOK, history
  <2>2. CASE CountSlot(t) \/ RecordStatus(t) \/ Return(t)
    BY <2>2 DEF CountSlot, RecordStatus, Return, Go, TypeOK, history
  <2>3. CASE Complete(t) \/ PollShutdown(t)
    BY <2>3 DEF Complete, PollShutdown, Go, TypeOK, history
  <2> QED BY <2>1, <2>2, <2>3 DEF Callback
<1>2. ASSUME NEW u \in Threads, u # t
      PROVE  pc'[u] = pc[u] /\ \A s : Behind(u, s)' = Behind(u, s)
  BY <1>1, <1>2 DEF Behind
<1>3. ASSUME NEW s \in Blocks, s \in SlotsOf(t), ~shutting, Behind(t, s)' \/ pc'[t] = "ended"
      PROVE  Behind(t, s) \/ s \in accepted'
  <2>1. s \in Nat /\ at[t] \in Nat /\ next[t] \in Nat
    BY OwnSlots DEF TypeOK
  <2>2. CASE OnBlock(t)
    <3>1. at' = at /\ pc'[t] = "collected"
      BY <1>3, <2>2 DEF OnBlock, Go, Ignoring, TypeOK
    <3> QED BY <1>3, <3>1 DEF Behind
  <2>3. CASE CountSlot(t)
    <3>1. at' = at /\ pc'[t] = "counted"
      BY <2>3 DEF CountSlot, Go, TypeOK
    <3> QED BY <1>3, <3>1 DEF Behind
  <2>4. CASE RecordStatus(t)
    <3>1. at' = at /\ pc'[t] = "returned" /\ (at[t] \in Blocks => at[t] \in accepted')
      BY <2>4 DEF RecordStatus, Go, TypeOK
    <3> QED BY <1>3, <3>1 DEF Behind
  <2>5. CASE Return(t)
    <3>1. at'[t] = at[t] + 1 /\ pc'[t] = "batch" /\ pc[t] = "returned"
      BY <2>5 DEF Return, Go, TypeOK
    <3>2. s < at[t] + 1
      BY <1>3, <3>1 DEF Behind
    <3> QED BY <2>1, <3>1, <3>2 DEF Behind
  <2>6. CASE Complete(t)
    <3>1. s \notin Remaining(t) /\ s < Hi[t]
      BY <1>3, <2>6, OwnSlots DEF Complete, SlotsOf
    <3>2. s < next[t] /\ next[t] <= at[t]
      BY <1>1, <1>3, <2>1, <3>1 DEF Remaining, Threading, Place
    <3> QED BY <2>1, <3>2 DEF Behind
  <2>7. CASE PollShutdown(t)
    BY <1>3, <2>7 DEF PollShutdown, TakesAll
  <2>8. CASE OnTransaction(t) \/ RetryBatch(t)
    <3>1. UNCHANGED <<pc, at>>
      BY <2>8 DEF OnTransaction, RetryBatch
    <3> QED BY <1>1, <1>3, <3>1 DEF Behind
  <2> QED BY <2>2, <2>3, <2>4, <2>5, <2>6, <2>7, <2>8 DEF Callback
<1>4. /\ shutting' = shutting /\ resumed' = resumed /\ (signalled' => shutting')
  BY <1>1 DEF flags, session, TakesAll
<1>5. \A u \in Threads : \A s \in Blocks :
        /\ ~shutting' /\ s \in SlotsOf(u)
        /\ Behind(u, s)' \/ pc'[u] = "ended"
        => Behind(u, s) \/ pc[u] = "ended" \/ s \in accepted'
  BY <1>2, <1>3, <1>4
<1> QED BY <1>1, <1>4, <1>5, TakesStep

\* A run over the whole range starts with the first slot of each thread.
LEMMA StartTakes ==
  ASSUME NEW t \in Threads, NEW s \in SlotsOf(t)
  PROVE  ~(s < StartOf(0)[t])
<1>1. Lo[t] \in Nat /\ s \in Nat /\ Lo[t] <= s /\ StartOf(0)[t] = Lo[t]
  BY OwnSlots DEF SlotsOf, StartOf
<1> QED BY <1>1

LEMMA InitTakes == Init => TakesAll
<1> SUFFICES ASSUME Init PROVE TakesAll
  OBVIOUS
<1>1. ASSUME NEW t \in Threads, NEW s \in SlotsOf(t) PROVE ~Behind(t, s) /\ pc[t] # "ended"
  BY <1>1, StartTakes DEF Init, Behind
<1> QED BY <1>1 DEF TakesAll, Takes, Init

LEMMA RerunTakes ==
  ASSUME Rerun
  PROVE  TakesAll'
<1>1. PICK from : Restart(from)
  BY DEF Rerun
<1>2. ASSUME NEW t \in Threads, NEW s \in SlotsOf(t), Uninterrupted'
      PROVE  ~Behind(t, s)' /\ pc'[t] # "ended"
  <2>1. from = 0
    BY <1>1, <1>2 DEF Restart, Uninterrupted
  <2> QED BY <1>1, <1>2, <2>1, StartTakes DEF Restart, Behind
<1> QED BY <1>1, <1>2 DEF TakesAll, Takes, Restart, SlotsOf

LEMMA StepTakes == WritesInv /\ TakesAll /\ [Next]_vars => TakesAll'
<1> SUFFICES ASSUME WritesInv, TakesAll, [Next]_vars PROVE TakesAll'
  OBVIOUS
<1>1. ASSUME UNCHANGED <<pc, at, accepted, resumed>>, shutting => shutting', signalled' => shutting'
      PROVE  TakesAll'
  <2>1. \A u, s : Behind(u, s)' = Behind(u, s)
    BY <1>1 DEF Behind
  <2> QED BY <1>1, <2>1, TakesStep
<1>2. signalled => shutting
  BY DEF TakesAll
<1>3. ASSUME NEW t \in Threads, Callback(t) \/ RetryBatch(t) PROVE TakesAll'
  BY <1>3, CallbackTakes
<1>4. ASSUME NEW w \in tasks, DrainBuffer(w) \/ WriteSucceeds(w) \/ WriteUnacked(w) PROVE TakesAll'
  BY <1>1, <1>2, <1>4 DEF DrainBuffer, WriteSucceeds, WriteUnacked, thread, flags, history, session
<1>5. CASE CtrlC \/ Broadcast
  BY <1>1, <1>5 DEF CtrlC, Broadcast, thread, history, session
<1>6. CASE FirehoseReturns \/ DrainOutstanding \/ FinalFlush \/ ExitFlush \/ Backfill
  BY <1>1, <1>2, <1>6 DEF FirehoseReturns, DrainOutstanding, FinalFlush, ExitFlush, Backfill,
     thread, flags, history, session
<1>7. ASSUME Exit PROVE TakesAll'
  BY <1>1, <1>2, <1>7 DEF Exit, thread, flags, history, session
<1>8. ASSUME NEW s \in Slots, Merge(s) PROVE TakesAll'
  BY <1>1, <1>2, <1>8 DEF Merge, thread, flags, history, session
<1>9. CASE Rerun
  BY <1>9, RerunTakes
<1>10. CASE Terminated \/ UNCHANGED vars
  BY <1>1, <1>2, <1>10 DEF Terminated, vars, thread, flags, history, session
<1> QED BY <1>3, <1>4, <1>5, <1>6, <1>7, <1>8, <1>9, <1>10
    DEF Next, WriteStep, RunStep, WriteExhausted, MainExhausted

-----------------------------------------------------------------------------
LEMMA InitCompletes == Init => CompleteInv
<1> SUFFICES ASSUME Init PROVE CompleteInv
  OBVIOUS
<1>1. EventsKept
  BY DEF Init, EventsKept, Reporting
<1> QED BY <1>1, InitCollects, InitTakes DEF CompleteInv

LEMMA StepCompletes == WritesInv /\ CompleteInv /\ [Next]_vars => CompleteInv'
BY StepCollects, StepEvents, StepTakes DEF CompleteInv

\* Whatever happens, a run collects each block once and keeps its events.
THEOREM CompleteInvariant == Spec => []CompleteInv
<1> QED BY InitCompletes, StepCompletes, WritesInvariant, PTL DEF Spec

\* When the plugin exits, the tables hold whatever an uninterrupted run took on.
LEMMA CompleteAtExit ==
  ASSUME WritesInv, CompleteInv, phase = "exiting", Uninterrupted
  PROVE  AllComplete
<1>1. ASSUME NEW s \in Blocks \ replayed PROVE Written(s) /\ eventRows[s] = TxCount
  <2>1. PICK t \in Threads : s \in SlotsOf(t)
    BY OwnSlots DEF Slots
  <2>2. pc[t] = "ended" /\ tasks = {} /\ buffer = {}
    BY DEF WritesInv, Quiet, DrainCoversWrites
  <2>3. s \in accepted
    BY <2>1, <2>2 DEF CompleteInv, TakesAll, Takes
  <2>4. SlotKept(s) /\ StatusKept(s) /\ EventKept(s)
    BY <2>3 DEF WritesInv, Conserved
  <2>5. Written(s)
    BY <2>2, <2>4 DEF SlotKept, StatusKept, EventKept, Written
  <2>6. s \in Clean(t)
    BY <2>1 DEF Clean
  <2>7. EventsWhole(s)
    BY <2>3, <2>6 DEF CompleteInv, EventsKept, Earlier
  <2> QED BY <2>2, <2>5, <2>7 DEF EventsWhole
<1> QED BY <1>1 DEF AllComplete

\* A run over the whole range that nobody interrupts has complete rows of every block
\* in the tables when on_exit is called, whatever aborted, interrupted or resumed runs
\* came before it and whatever acknowledgments are lost.
THEOREM UninterruptedRunWrites == Spec => []CompleteBeforeExit
<1>1. WritesInv /\ CompleteInv => CompleteBeforeExit
  BY CompleteAtExit DEF CompleteBeforeExit
<1> QED BY <1>1, WritesInvariant, CompleteInvariant, PTL

-----------------------------------------------------------------------------
(* The rows of a first run.                                                *)

\* A thread that reads a batch is not past its block.
LEMMA AtBatch ==
  ASSUME TypeOK, NEW t \in Threads, Place(t), pc[t] = "batch", NEW b \in Blocks, Batch(t, b)
  PROVE  at[t] <= b
<1>1. CASE seen[t] = 0
  BY <1>1 DEF Place, Batch, Remaining
<1>2. CASE seen[t] > 0
  <2>1. PICK c \in Blocks : Batch(t, c) /\ at[t] <= c
    BY <1>2 DEF Place, Inside
  <2> QED BY <2>1, OneBatch
<1> QED BY <1>1, <1>2 DEF TypeOK

LEMMA SettledStep ==
  ASSUME FirstRunInv, NEW s \in Slots, HasStatus(s)' => HasStatus(s),
         \A t \in Threads : s \in SlotsOf(t) /\ Behind(t, s) => Behind(t, s)',
         HasStatus(s) /\ pending[s] = 0 /\ undated[s] = {} => pending'[s] = 0 /\ undated'[s] = {}
  PROVE  Settled(s)'
BY DEF FirstRunInv, Settled, SlotsOf

\* Tables and tasks in which no status is new.
LEMMA NoStatus ==
  ASSUME statusRows' = statusRows, \A w \in tasks' \ tasks : w.kind # "status"
  PROVE  \A s : HasStatus(s)' => HasStatus(s)
BY DEF HasStatus

\* Steps of a callback that count nothing.
LEMMA RowsRest ==
  ASSUME FirstRunInv, UNCHANGED <<statusRows, eventRows, runs>>, replayed \subseteq replayed',
         \A s \in Slots : Settled(s)', Emptied', Undated'
  PROVE  FirstRunInv'
BY DEF FirstRunInv, RowsExact

LEMMA CallbackRows ==
  ASSUME WritesInv, CollectInv, FirstRunInv, NEW t \in Threads, Callback(t) \/ RetryBatch(t)
  PROVE  FirstRunInv'
<1> USE DEF WritesInv
<1>1. /\ UNCHANGED <<phase, tables, session>> /\ replayed \subseteq replayed'
      /\ pc[t] # "ended" /\ phase = "streaming"
      /\ \A u \in Threads : u # t => pc'[u] = pc[u] /\ at'[u] = at[u]
  <2>1. CASE OnTransaction(t) \/ RetryBatch(t) \/ OnBlock(t)
    BY <2>1, CallbacksStream DEF OnTransaction, RetryBatch, OnBlock, Go, TypeOK, history
  <2>2. CASE CountSlot(t) \/ RecordStatus(t) \/ Return(t)
    BY <2>2, CallbacksStream DEF CountSlot, RecordStatus, Return, Go, TypeOK, history
  <2>3. CASE Complete(t) \/ PollShutdown(t)
    BY <2>3, CallbacksStream DEF Complete, PollShutdown, Go, TypeOK, history
  <2> QED BY <2>1, <2>2, <2>3 DEF Callback
<1>2. Undated' /\ \A s \in Slots : undated[s] = {} /\ undated'[s] = {}
  BY <1>1 DEF FirstRunInv, Undated, tables
<1>3. ASSUME NEW s \in SlotsOf(t), Behind(t, s) PROVE Behind(t, s)'
  <2>1. s \in Nat /\ at[t] \in Nat
    BY OwnSlots DEF TypeOK
  <2>2. CASE Return(t)
    <3>1. at'[t] = at[t] + 1
      BY <2>2 DEF Return, TypeOK
    <3> QED BY <1>3, <2>1, <3>1 DEF Behind
  <2>3. CASE ~Return(t)
    <3>1. at' = at
      BY <2>3 DEF Callback, OnTransaction, RetryBatch, OnBlock, CountSlot, RecordStatus, Complete, PollShutdown
    <3>2. pc[t] # "returned"
      BY <2>3 DEF Callback, OnTransaction, RetryBatch, OnBlock, CountSlot, RecordStatus, Complete, PollShutdown
    <3> QED BY <1>3, <3>1, <3>2 DEF Behind
  <2> QED BY <2>2, <2>3
<1>4. ASSUME NEW u \in Threads, NEW s \in SlotsOf(u), Behind(u, s) PROVE Behind(u, s)'
  BY <1>1, <1>3, <1>4 DEF Behind
<1>5. ASSUME NEW s \in Slots, pending[s] = 0, pending'[s] # 0
      PROVE  s \in SlotsOf(t) /\ ~Behind(t, s) /\ ~HasStatus(s) /\ pc[t] = "batch" /\ pc' = pc
  <2>1. OnTransaction(t)
    BY <1>5 DEF Callback, RetryBatch, OnBlock, CountSlot, RecordStatus, Return, Complete,
       PollShutdown, memory, TypeOK
  <2>2. PICK b \in Blocks : /\ pc[t] = "batch" /\ Batch(t, b) /\ pc' = pc
                            /\ pending' = IF shutting THEN pending ELSE [pending EXCEPT ![b] = @ + 1]
    BY <2>1 DEF OnTransaction
  <2>3. s = b
    BY <1>5, <2>2 DEF TypeOK
  <2>4. at[t] <= s /\ s \in SlotsOf(t) /\ s \in Nat /\ at[t] \in Nat
    BY <2>2, <2>3, AtBatch, BatchSlot DEF Threading, Place, Batch, TypeOK
  <2>5. ~Behind(t, s)
    BY <2>2, <2>4 DEF Behind
  <2>6. ~HasStatus(s)
    BY <2>4, <2>5 DEF FirstRunInv, Settled
  <2> QED BY <2>2, <2>4, <2>5, <2>6
<1>6. ASSUME NEW s \in Slots, HasStatus(s)' => HasStatus(s) PROVE Settled(s)'
  BY <1>2, <1>4, <1>5, <1>6, SettledStep
<1>7. ASSUME NEW s \in Slots PROVE Settled(s)'
  <2>1. CASE ~RecordStatus(t)
    <3>1. \A w \in tasks' \ tasks : w.kind # "status"
      BY <2>1 DEF Callback, RetryBatch, OnTransaction, OnBlock, CountSlot, Return, Complete,
         PollShutdown, writes, Spawn, Event, Flush
    <3> QED BY <1>1, <1>6, <3>1, NoStatus DEF tables
  <2>2. CASE RecordStatus(t)
    <3>1. /\ pc[t] = "counted" /\ pc'[t] = "returned" /\ UNCHANGED <<at, pending>>
          /\ tasks' = tasks \/ (at[t] \in Blocks /\ tasks' = tasks \cup {Status(at[t], tally[at[t]])})
      BY <2>2 DEF RecordStatus, Go, Spawn, TypeOK, writes
    <3>2. CASE s = at[t] /\ s \in Blocks
      <4>1. s \in SlotsOf(t) /\ s \in Nat
        BY <3>1, <3>2, MidSeen, AtEnd DEF Mid
      <4>2. Behind(t, s)' /\ Reporting(t, s)
        BY <3>1, <3>2 DEF Behind, Reporting
      <4>3. \A u \in Threads : s \in SlotsOf(u) => u = t
        BY <4>1, OwnSlots
      <4>4. pending'[s] = 0
        BY <3>1, <3>2, <4>2 DEF FirstRunInv, Emptied
      <4> QED BY <1>2, <4>2, <4>3, <4>4 DEF Settled, SlotsOf
    <3>3. CASE ~(s = at[t] /\ s \in Blocks)
      <4>1. HasStatus(s)' => HasStatus(s)
        BY <1>1, <3>1, <3>3 DEF HasStatus, Status, tables
      <4> QED BY <1>6, <4>1
    <3> QED BY <3>2, <3>3
  <2> QED BY <2>1, <2>2
<1>8. ASSUME NEW u \in Threads, NEW s \in Blocks, Reporting(u, s)'
      PROVE  pending'[s] = 0
  <2>1. s \in Slots /\ s \in Nat
    BY OwnSlots
  <2>2. CASE Reporting(u, s)
    <3>1. pending[s] = 0 /\ s \in SlotsOf(u) /\ pc[u] # "batch"
      BY <2>2, MidSeen, AtEnd DEF FirstRunInv, Emptied, Reporting, Mid
    <3> QED BY <1>5, <2>1, <3>1, OwnSlots
  <2>3. CASE ~Reporting(u, s)
    <3>1. u = t
      BY <1>1, <1>8, <2>3 DEF Reporting
    <3>2. OnBlock(t)
      BY <1>8, <2>3, <3>1 DEF Callback, RetryBatch, OnTransaction, CountSlot, RecordStatus, Return,
         Complete, PollShutdown, Go, TypeOK, Reporting
    <3>3. s = at[t] /\ pc'[t] # "returned"
      BY <1>8, <3>1, <3>2 DEF OnBlock, Reporting
    <3>4. pending' = [pending EXCEPT ![s] = 0]
      BY <3>2, <3>3 DEF OnBlock, Go, TypeOK
    <3> QED BY <2>1, <3>4 DEF TypeOK
  <2> QED BY <2>2, <2>3
<1> QED BY <1>1, <1>2, <1>7, <1>8, RowsRest DEF Emptied, tables, session

\* A write brings the rows of a whole block.
LEMMA WriteRows ==
  ASSUME WritesInv, CollectInv, FirstRunInv, NEW w \in tasks,
         DrainBuffer(w) \/ WriteSucceeds(w) \/ WriteUnacked(w)
  PROVE  FirstRunInv'
<1> USE DEF WritesInv
<1>1. UNCHANGED <<phase, pc, at, pending, undated, replayed, runs>>
  BY DEF DrainBuffer, WriteSucceeds, WriteUnacked, Insert, thread, memory, history, session, tables
<1>2. \A v \in tasks' \ tasks : v.kind = "rows"
  <2>1. Drained(w, buffer).kind = "rows"
    BY DEF Drained, Tasks, TypeOK
  <2> QED BY <2>1 DEF DrainBuffer, WriteSucceeds, WriteUnacked, Finished, writes
<1>3. ASSUME NEW s \in Slots
      PROVE  /\ statusRows'[s] = statusRows[s] \/ (w.kind = "status" /\ w.key = s /\ statusRows'[s] = w.count)
             /\ eventRows'[s] = eventRows[s] \/ (w.kind = "events" /\ w.key = s /\ eventRows'[s] = w.count)
  <2>1. CASE DrainBuffer(w)
    BY <2>1 DEF DrainBuffer, tables
  <2>2. CASE WriteSucceeds(w) \/ WriteUnacked(w)
    <3>1. Insert(w)
      BY <2>2 DEF WriteSucceeds, WriteUnacked
    <3>2. w.kind \in {"events", "status"} => w.slots = {w.key}
      BY DEF Shapes
    <3> QED BY <3>1, <3>2 DEF Insert, RowsOf
  <2> QED BY <2>1, <2>2
<1>4. ASSUME NEW s \in Slots PROVE Settled(s)'
  <2>1. HasStatus(s)' => HasStatus(s)
    BY <1>2, <1>3 DEF HasStatus
  <2>2. \A t \in Threads : Behind(t, s)' = Behind(t, s)
    BY <1>1 DEF Behind
  <2> QED BY <1>1, <2>1, <2>2, SettledStep
<1>5. Emptied' /\ Undated'
  BY <1>1 DEF FirstRunInv, Emptied, Undated, Reporting
<1>6. RowsExact'
  <2>1. ASSUME NEW s \in Blocks \ replayed, w.kind \in {"events", "status"}, w.key = s
        PROVE  w.count = TxCount
    BY <2>1 DEF CollectInv, WritesWhole
  <2>2. Blocks \subseteq Slots
    BY OwnSlots
  <2>3. ASSUME NEW s \in Blocks \ replayed
        PROVE  statusRows'[s] \in {0, TxCount} /\ eventRows'[s] \in {0, TxCount}
    BY <1>3, <2>1, <2>2, <2>3 DEF FirstRunInv, RowsExact
  <2> QED BY <1>1, <2>3 DEF RowsExact
<1> QED BY <1>1, <1>4, <1>5, <1>6 DEF FirstRunInv

\* The exit writes undated rows only of slots without a status, so the backfill, which
\* needs the status, dates none of them.
LEMMA ExitRows ==
  ASSUME WritesInv, FirstRunInv, ExitFlush \/ Backfill
  PROVE  FirstRunInv'
<1> USE DEF WritesInv
<1>1. UNCHANGED <<thread, tasks, statusRows, replayed, runs>> /\ phase' \notin {"streaming", "draining", "flushing"}
  BY DEF ExitFlush, Backfill, writes, tables, history, session
<1>2. ASSUME NEW s \in Slots, pending[s] = 0
      PROVE  pending'[s] = 0 /\ undated'[s] = undated[s]
  <2>1. CASE ExitFlush
    <3>1. pending' = Absent \/ pending' = pending
      BY <2>1 DEF ExitFlush
    <3>2. undated' = [c \in Slots |-> IF pending[c] > 0 THEN undated[c] \cup {pending[c]} ELSE undated[c]]
      BY <2>1 DEF ExitFlush
    <3> QED BY <1>2, <3>1, <3>2 DEF Absent
  <2>2. CASE Backfill
    BY <1>2, <2>2 DEF Backfill, memory
  <2> QED BY <2>1, <2>2
<1>3. ASSUME NEW s \in Slots PROVE Settled(s)'
  <2>1. HasStatus(s)' = HasStatus(s)
    BY <1>1 DEF HasStatus
  <2>2. \A t \in Threads : Behind(t, s)' = Behind(t, s)
    BY <1>1 DEF Behind, thread
  <2> QED BY <1>2, <2>1, <2>2, SettledStep
<1>4. Emptied'
  <2>1. \A t \in Threads, s \in Blocks : Reporting(t, s)' = Reporting(t, s)
    BY <1>1 DEF Reporting, thread
  <2> QED BY <1>2, <2>1, OwnSlots DEF FirstRunInv, Emptied
<1>5. ASSUME NEW s \in Blocks \ replayed
      PROVE  eventRows'[s] \in {0, TxCount}
  <2>1. s \in Slots /\ eventRows[s] \in {0, TxCount}
    BY OwnSlots DEF FirstRunInv, RowsExact
  <2>2. CASE ExitFlush
    BY <2>1, <2>2 DEF ExitFlush
  <2>3. CASE Backfill
    <3>1. s \notin Datable
      BY <2>1 DEF FirstRunInv, Settled, HasStatus, Datable
    <3>2. eventRows'[s] = eventRows[s]
      BY <2>1, <2>3, <3>1 DEF Backfill
    <3> QED BY <2>1, <3>2
  <2> QED BY <2>2, <2>3
<1>6. RowsExact'
  BY <1>1, <1>5 DEF FirstRunInv, RowsExact
<1> QED BY <1>1, <1>3, <1>4, <1>6 DEF FirstRunInv, Undated

LEMMA InitRows == MaxRuns = 1 /\ Init => FirstRunInv
<1> SUFFICES ASSUME MaxRuns = 1, Init PROVE FirstRunInv
  OBVIOUS
<1>1. \A s \in Slots : Settled(s) /\ undated[s] = {} /\ statusRows[s] = 0 /\ eventRows[s] = 0
  BY DEF Init, Settled, HasStatus, Absent
<1>2. Emptied
  BY DEF Init, Emptied, Reporting
<1>3. RowsExact
  BY <1>1, OwnSlots DEF RowsExact
<1> QED BY <1>1, <1>2, <1>3 DEF Init, FirstRunInv, Undated

LEMMA StepRows == WritesInv /\ CollectInv /\ FirstRunInv /\ [Next]_vars => FirstRunInv'
<1> SUFFICES ASSUME WritesInv, CollectInv, FirstRunInv, [Next]_vars PROVE FirstRunInv'
  OBVIOUS
<1>1. ASSUME UNCHANGED <<pc, at, pending, tasks, statusRows, eventRows, replayed, runs>>,
             \A s \in Slots : undated[s] = {} => undated'[s] = {},
             phase' \in {"streaming", "draining", "flushing"} => phase \in {"streaming", "draining", "flushing"}
      PROVE  FirstRunInv'
  <2>1. \A t \in Threads, s \in Slots : Behind(t, s)' = Behind(t, s)
    BY <1>1 DEF Behind
  <2>2. \A s \in Slots : HasStatus(s)' = HasStatus(s)
    BY <1>1 DEF HasStatus
  <2>3. \A s \in Slots : Settled(s)'
    BY <1>1, <2>1, <2>2, SettledStep
  <2>4. Emptied' /\ Undated'
    BY <1>1 DEF FirstRunInv, Emptied, Undated, Reporting
  <2> QED BY <1>1, <2>3, <2>4, RowsRest
<1>2. ASSUME NEW t \in Threads, Callback(t) \/ RetryBatch(t) PROVE FirstRunInv'
  BY <1>2, CallbackRows
<1>3. ASSUME NEW w \in tasks, DrainBuffer(w) \/ WriteSucceeds(w) \/ WriteUnacked(w) PROVE FirstRunInv'
  BY <1>3, WriteRows
<1>4. CASE CtrlC \/ Broadcast \/ FirehoseReturns \/ DrainOutstanding \/ FinalFlush
  BY <1>1, <1>4 DEF CtrlC, Broadcast, FirehoseReturns, DrainOutstanding, FinalFlush,
     thread, memory, writes, tables, history, session
<1>5. CASE ExitFlush \/ Backfill
  BY <1>5, ExitRows
<1>6. ASSUME Exit PROVE FirstRunInv'
  BY <1>1, <1>6 DEF Exit, thread, memory, writes, tables, history, session
<1>7. ASSUME NEW s \in Slots, Merge(s) PROVE FirstRunInv'
  <2>1. undated[s] # {} /\ \A c \in Slots : c # s => undated'[c] = undated[c]
    BY <1>7 DEF Merge, WritesInv, TypeOK
  <2>2. \A c \in Slots : undated[c] = {} => undated'[c] = {}
    BY <2>1
  <2> QED BY <1>1, <1>7, <2>2 DEF Merge, thread, memory, writes, history, session
<1>8. CASE Rerun
  BY <1>8 DEF Rerun, FirstRunInv
<1>9. CASE Terminated \/ UNCHANGED vars
  BY <1>1, <1>9 DEF Terminated, vars, thread, memory, writes, tables, history, session
<1> QED BY <1>2, <1>3, <1>4, <1>5, <1>6, <1>7, <1>8, <1>9
    DEF Next, WriteStep, RunStep, WriteExhausted, MainExhausted

\* In one run of the program the dated rows of a block count its transactions once,
\* whatever is interleaved, interrupted or left unacknowledged; only a batch that was
\* retried may be counted more than once.  (A second run breaks this: run interrupt.)
THEOREM RowsCountOnce == MaxRuns = 1 /\ Spec => []CountsExact
<1>1. CollectInv /\ FirstRunInv => CountsExact
  BY DEF CollectInv, WritesWhole, FirstRunInv, RowsExact, CountsExact
<1>2. CompleteInv => CollectInv
  BY DEF CompleteInv
<1> QED BY <1>1, <1>2, InitRows, StepRows, WritesInvariant, CompleteInvariant, PTL DEF Spec
=============================================================================
