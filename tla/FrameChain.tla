------------------------------ MODULE FrameChain ------------------------------
(***************************************************************************)
(* A block as a batch of CAR nodes: NodeReader::read_until_block collects  *)
(* them (node_reader.rs), NodesWithCids finds them by their identifiers    *)
(* and puts the chunks of a long payload together again (node.rs,          *)
(* dataframe.rs), and the firehose takes a batch without a block for the   *)
(* end of the stream (firehose.rs).                                        *)
(*                                                                         *)
(* The archive splits a payload into chunks: the first one is inside the   *)
(* transaction, each next list names at most FanOut further frames, and    *)
(* the last of them carries the list that goes on.  What arrives may be    *)
(* damaged once: cut off, or with a frame lost, altered or of another kind.*)
(***************************************************************************)
EXTENDS Integers, SequencesExt

CONSTANTS
  Payloads,  \* the payload of each transaction: the number of its chunks
  Blocks,    \* the transactions of each block, in the order of the archive
  FanOut,    \* links of a next list
  Hashes,    \* what the first frame may say of the payload: crc, fnv or none
  Damages    \* the kinds of damage

FrameAssumption == FanOut \in Nat \ {0} /\ Hashes \subseteq {"crc", "fnv", "none"}
DamageAssumption == Damages \subseteq {"none", "cut", "lost", "altered", "mistyped"}

VARIABLES
  damage,  \* the kind of damage of this stream
  stream,  \* the nodes that arrive
  at,      \* nodes read so far
  nodes,   \* the batch: NodesWithCids
  index,   \* position by identifier
  pc,      \* "reading", "read", "scanning", "walking", "ended", "truncated", "error"
  item,    \* the node of the batch that is handled
  data,    \* the chunks put together
  links,   \* next_arr: the list being walked, empty for none
  link,    \* position in it
  onward,  \* next_segment: the list of the frame seen last
  built    \* history: the payloads handed on, by transaction

walk == <<data, links, link, onward>>
vars == <<damage, stream, at, nodes, index, pc, item, walk, built>>

-----------------------------------------------------------------------------
(* The archive.                                                            *)

Chunks(tx) == [i \in 1 .. Payloads[tx] |-> <<tx, i>>]

\* The frames a frame links to.
NextOf(tx, i) ==
  LET n == Payloads[tx]
      last == IF i + FanOut < n THEN i + FanOut ELSE n
  IN IF (i - 1) % FanOut = 0 THEN [j \in 1 .. last - i |-> <<tx, i + j>>] ELSE <<>>

Node(kind, cid, hash, chunk, next) ==
  [kind |-> kind, cid |-> cid, hash |-> hash, chunk |-> chunk, next |-> next]
Frame(tx, i) == Node("frame", <<tx, i>>, <<>>, <<tx, i>>, NextOf(tx, i))

\* A checksum tells two payloads apart.
Checksum(alg, payload) == <<alg, payload>>
NoHash == <<>>
HashOf(alg, tx) == IF alg = "none" THEN NoHash ELSE Checksum(alg, Chunks(tx))
Transaction(tx, alg) == Node("transaction", <<tx, 1>>, HashOf(alg, tx), <<tx, 1>>, NextOf(tx, 1))

\* The nodes of a block: every frame before what links to it.
NodesOf(tx, alg) == Reverse([i \in 1 .. Payloads[tx] - 1 |-> Frame(tx, i + 1)]) \o <<Transaction(tx, alg)>>
BlockNode(b) == Node("block", <<b, 0>>, NoHash, <<>>, <<>>)
NodesOfBlock(b, alg) ==
  FlattenSeq([i \in DOMAIN Blocks[b] |-> NodesOf(Blocks[b][i], alg)]) \o <<BlockNode(b)>>

\* Behind the last block come the subset and the epoch.
Archive(alg) ==
  FlattenSeq([b \in DOMAIN Blocks |-> NodesOfBlock(b, alg)])
    \o <<Node("subset", <<0, 1>>, NoHash, <<>>, <<>>), Node("epoch", <<0, 2>>, NoHash, <<>>, <<>>)>>

Damaged(s, kind, i) ==
  CASE kind = "none"     -> s
    [] kind = "cut"      -> SubSeq(s, 1, i - 1)
    [] kind = "lost"     -> RemoveAt(s, i)
    [] kind = "altered"  -> [s EXCEPT ![i].chunk = <<0, 0>>]
    [] kind = "mistyped" -> [s EXCEPT ![i].kind = "entry"]

Init ==
  /\ damage \in Damages
  /\ \E alg \in Hashes :
       \E i \in DOMAIN Archive(alg) :
         /\ damage \in {"lost", "altered", "mistyped"} => Archive(alg)[i].kind = "frame"
         /\ damage = "none" => i = 1
         /\ stream = Damaged(Archive(alg), damage, i)
  /\ at = 0 /\ nodes = <<>> /\ index = [c \in {} |-> 0]
  /\ pc = "reading" /\ item = 0
  /\ data = <<>> /\ links = <<>> /\ link = 1 /\ onward = <<>>
  /\ built = [tx \in {} |-> <<>>]

-----------------------------------------------------------------------------
(* The batch.                                                              *)

\* push: a node with an identifier seen before takes its place in the index.
Push(n) ==
  /\ nodes' = Append(nodes, n)
  /\ index' = [c \in DOMAIN index \cup {n.cid} |-> IF c = n.cid THEN Len(nodes) + 1 ELSE index[c]]

\* read_until_block.  (Mutant: it goes on behind a block.)
Stops_Late(n) == n.kind = "epoch"
Stops(n) == n.kind = "block"

ReadNode ==
  /\ pc = "reading" /\ at < Len(stream)
  /\ LET n == stream[at + 1] IN
       /\ Push(n)
       /\ pc' = IF Stops(n) THEN "read" ELSE "reading"
  /\ at' = at + 1
  /\ UNCHANGED <<damage, stream, item, walk, built>>

\* The end of the data, or of the connection in the middle of a node.
ReadEof ==
  /\ pc = "reading" /\ at = Len(stream)
  /\ pc' = "read"
  /\ UNCHANGED <<damage, stream, at, nodes, index, item, walk, built>>

\* next_present_slot: a block the index knows and the thread has not had.
Handled(b) == \A i \in DOMAIN Blocks[b] : Blocks[b][i] \in DOMAIN built
Missing == \E b \in DOMAIN Blocks : ~Handled(b)

\* A batch that is empty, or does not end with its block.
StreamEnded == nodes = <<>> \/ Last(nodes).kind # "block"

\* What an end of the stream is taken for.  (Mutant: for the epoch's end.)
EndOf_Trusting == "ended"
EndOf == IF Missing THEN "truncated" ELSE "ended"

Batch ==
  /\ pc = "read"
  /\ pc' = IF StreamEnded THEN EndOf ELSE "scanning"
  /\ item' = 1
  /\ UNCHANGED <<damage, stream, at, nodes, index, walk, built>>

\* The node behind the handled one.  (Mutant: it is handled again.)
After_Again(i) == i
After(i) == i + 1

\* The nodes of the batch one after the other; behind the last one the next batch.
Scan ==
  /\ pc = "scanning"
  /\ \/ /\ item > Len(nodes)
        /\ nodes' = <<>> /\ index' = [c \in {} |-> 0]
        /\ pc' = "reading"
        /\ UNCHANGED <<item, walk>>
     \/ /\ item <= Len(nodes) /\ nodes[item].kind = "transaction"
        /\ data' = <<nodes[item].chunk>> /\ links' = nodes[item].next /\ link' = 1 /\ onward' = <<>>
        /\ pc' = "walking"
        /\ UNCHANGED <<nodes, index, item>>
     \/ /\ item <= Len(nodes) /\ nodes[item].kind # "transaction"
        /\ item' = After(item)
        /\ UNCHANGED <<nodes, index, pc, walk>>
  /\ UNCHANGED <<damage, stream, at, built>>

-----------------------------------------------------------------------------
(* reassemble_dataframes.                                                  *)

Fail == pc' = "error" /\ UNCHANGED <<item, walk, built>>

\* What the list's frames hand over as the next list: the last one's.
\* (Mutant: the first one's.)
Onward_First(n) == IF link = 1 THEN n.next ELSE onward
Onward(n) == n.next

Follow ==
  /\ pc = "walking" /\ link <= Len(links)
  /\ \/ links[link] \notin DOMAIN index /\ Fail
     \/ /\ links[link] \in DOMAIN index
        /\ LET n == nodes[index[links[link]]] IN
             \/ n.kind # "frame" /\ Fail
             \/ /\ n.kind = "frame"
                /\ data' = Append(data, n.chunk)
                /\ onward' = Onward(n)
                /\ link' = link + 1
                /\ UNCHANGED <<pc, item, links, built>>
  /\ UNCHANGED <<damage, stream, at, nodes, index>>

\* The list is done: the last frame's list, if it has one.
NextSegment ==
  /\ pc = "walking" /\ links # <<>> /\ link > Len(links)
  /\ links' = onward /\ link' = 1 /\ onward' = <<>>
  /\ UNCHANGED <<damage, stream, at, nodes, index, pc, item, data, built>>

\* verify_hash: CRC64 or else the legacy FNV.
Verified(n) == n.hash = NoHash \/ n.hash \in {Checksum("crc", data), Checksum("fnv", data)}

Deliver ==
  LET n == nodes[item] IN
  /\ pc = "walking" /\ links = <<>>
  /\ \/ ~Verified(n) /\ Fail
     \/ /\ Verified(n)
        /\ built' = [tx \in DOMAIN built \cup {n.cid[1]} |-> IF tx = n.cid[1] THEN data ELSE built[tx]]
        /\ item' = After(item) /\ pc' = "scanning"
        /\ UNCHANGED walk
  /\ UNCHANGED <<damage, stream, at, nodes, index>>

Over == pc \in {"ended", "truncated", "error"} /\ UNCHANGED vars

Step == ReadNode \/ ReadEof \/ Batch \/ Scan \/ Follow \/ NextSegment \/ Deliver
Next == Step \/ Over

Spec == Init /\ [][Next]_vars

\* The thread goes on while there is something to read or to put together.
FairSpec == Spec /\ WF_vars(Step)

-----------------------------------------------------------------------------
(* Properties.                                                             *)

\* Every variable keeps its type; the index points at the node of its identifier
\* and knows every node of the batch.
TypeOK ==
  /\ pc \in {"reading", "read", "scanning", "walking", "ended", "truncated", "error"}
  /\ at \in 0 .. Len(stream) /\ item \in Nat /\ link \in 1 .. Len(links) + 1
  /\ \A c \in DOMAIN index : index[c] \in DOMAIN nodes /\ nodes[index[c]].cid = c
  /\ \A i \in DOMAIN nodes : nodes[i].cid \in DOMAIN index

\* A payload that is handed on is the one the archive holds, every chunk in its
\* place, whatever happened to the stream; only an altered frame of a payload
\* without a checksum goes unnoticed.
PayloadExact ==
  \A tx \in DOMAIN built :
    \/ built[tx] = Chunks(tx)
    \/ damage = "altered" /\ \E i \in DOMAIN stream : stream[i].cid = <<tx, 1>> /\ stream[i].hash = NoHash

\* An undamaged archive is read to its end without an error.
GoodArchiveReads == damage = "none" => pc \notin {"truncated", "error"}

\* Only a stream of which every block was handled ends: one that is cut anywhere,
\* also just behind a block, counts as truncated.
EndsComplete == pc = "ended" => ~Missing

Settled == pc \in {"ended", "truncated", "error"}

\* Every stream comes to an end or an error.
Settles == <>Settled
=============================================================================
