--------------------------- MODULE EpochReader ---------------------------
(***************************************************************************)
(* The bytes of an epoch's archive on their way to a block: the streams of *)
(* jetstreamer-firehose/src/epochs.rs (a windowed download that cannot     *)
(* seek, and a reader over range requests that reconnects), the buffer     *)
(* over them, and the reader of node_reader.rs that turns bytes into the   *)
(* nodes of one block.  Connections fail, and bodies end early.            *)
(*                                                                         *)
(* A unit stands for the bytes that are read with one read_exact: the size *)
(* and the body of the header, and then of each section.                   *)
(***************************************************************************)
EXTENDS Integers, Sequences, FiniteSets, FiniteSetsExt, SequencesExt

CONSTANTS
    Sections,     \* the sections of the archive, each [slot, kind]; the last
                  \* ones belong to no slot
    Capacity,     \* of the buffer, in units
    Sequential,   \* whether the run asks for windowed downloads
    MaxFaults     \* bound: errors, early ends, and openings that fall back

NoSlot == -1
Slots == {Sections[i].slot : i \in {j \in DOMAIN Sections : Sections[j].kind = "block"}}

ReaderAssumption ==
    Capacity \in Nat \ {0} /\ Sequential \in BOOLEAN /\ MaxFaults \in Nat

(* An archive has its slots in order, and the block of a slot behind the    *)
(* rest of it.                                                              *)
OneSlot(s) ==
    /\ s.kind = "tail" <=> s.slot = NoSlot
    /\ s.kind = "entry" => s.slot \in Slots
InOrder(s, later) ==
    \/ later.kind = "tail"
    \/ s.kind = "entry" /\ s.slot <= later.slot
    \/ s.kind = "block" /\ s.slot < later.slot
LayoutAssumption ==
    /\ Sections \in Seq([slot : Nat \cup {NoSlot}, kind : {"entry", "block", "tail"}])
    /\ Slots # {} /\ \A i \in DOMAIN Sections : OneSlot(Sections[i])
    /\ \A i, j \in DOMAIN Sections : i < j => InOrder(Sections[i], Sections[j])

(* Units count from 0: the header, then two for each section.               *)
ArchiveLen == 2 + 2 * Len(Sections)
Unit(i) == IF i < 2 THEN <<0, i>> ELSE <<i \div 2, i % 2>>
NodesOf(s) == {i \in DOMAIN Sections : Sections[i].slot = s}
OffsetOf(s) == 2 * Min(NodesOf(s))
FirstSlot == Min(Slots)

VARIABLES
    stream,     \* "closed", "windowed" or "ranges"
    position,   \* what the stream takes for its place in the archive
    conn,       \* the connection: none, pending, or open, and its next unit
    buffer,     \* the units of BufReader that were not taken yet
    header,     \* whether the header was read
    reading,    \* what the node reader is at, and the nodes it has
    want,       \* the next slot the thread needs
    got,        \* what the thread was handed: a sequence of batches
    faults
vars == <<stream, position, conn, buffer, header, reading, want, got, faults>>

NoConn == [state |-> "none", at |-> 0]
Pending(i) == [state |-> "pending", at |-> i]
Idle == [at |-> "idle", section |-> 0, nodes |-> <<>>]

Init ==
    /\ stream = "closed" /\ position = 0 /\ conn = NoConn /\ buffer = <<>>
    /\ header = FALSE /\ reading = Idle
    /\ want = FirstSlot /\ got = <<>> /\ faults = 0

Fault == faults < MaxFaults /\ faults' = faults + 1

(* A windowed download only when the whole epoch is read; when it cannot be *)
(* set up, the stream is seekable.                                          *)
Windowed_Always == Sequential
Windowed == Sequential /\ want = FirstSlot

Opened(kind) ==
    /\ stream' = kind /\ position' = 0 /\ buffer' = <<>> /\ header' = FALSE
    /\ conn' = Pending(0)
    /\ reading' = [Idle EXCEPT !.at = "header_size"]

Open ==
    /\ stream = "closed" /\ want # NoSlot
    /\ \/ ~Windowed /\ Opened("ranges") /\ UNCHANGED faults
       \/ Windowed /\ Opened("windowed") /\ UNCHANGED faults
       \/ Windowed /\ Opened("ranges") /\ Fault
    /\ UNCHANGED <<want, got>>

Closed ==
    /\ stream' = "closed" /\ position' = 0 /\ conn' = NoConn /\ buffer' = <<>>
    /\ header' = FALSE /\ reading' = Idle

(* A seek of the thread, once the header is read: to the place of the slot  *)
(* it needs, unless that is where the epoch starts.  The range stream takes *)
(* its new place, drops its connection and schedules another; the windowed  *)
(* one refuses.                                                             *)
SeekTo_KeepsConn(i) == position' = Min({i, ArchiveLen}) /\ UNCHANGED conn
SeekTo(i) ==
    /\ position' = Min({i, ArchiveLen})
    /\ conn' = Pending(position')

Refused == reading' = [reading EXCEPT !.at = "failed"] /\ UNCHANGED <<position, conn, buffer>>

Seek ==
    /\ reading.at = "ready" /\ want > FirstSlot
    /\ IF stream = "windowed" THEN Refused
       ELSE /\ SeekTo(OffsetOf(want)) /\ buffer' = <<>>
            /\ reading' = [reading EXCEPT !.at = "size"]
    /\ UNCHANGED <<stream, header, want, got, faults>>

NoSeek ==
    /\ reading.at = "ready" /\ want = FirstSlot
    /\ reading' = [reading EXCEPT !.at = "size"]
    /\ UNCHANGED <<stream, position, conn, buffer, header, want, got, faults>>

Reads == reading.at \in {"header_size", "header", "size", "body"}
Starved == Reads /\ buffer = <<>>

(* The buffer is filled from the stream: at its end there is nothing more,  *)
(* without a connection one is scheduled at the position.                   *)
AtEnd ==
    /\ Starved /\ position >= ArchiveLen
    /\ reading' = [reading EXCEPT !.at = "eof"]
    /\ UNCHANGED <<stream, position, conn, buffer, header, want, got, faults>>

Schedule ==
    /\ Starved /\ position < ArchiveLen /\ conn.state = "none"
    /\ conn' = Pending(position)
    /\ UNCHANGED <<stream, position, buffer, header, reading, want, got, faults>>

Connect ==
    /\ Starved /\ position < ArchiveLen /\ conn.state = "pending"
    /\ \/ conn' = [conn EXCEPT !.state = "open"] /\ UNCHANGED <<reading, faults>>
       \/ Fault /\ conn' = NoConn /\ reading' = [reading EXCEPT !.at = "failed"]
    /\ UNCHANGED <<stream, position, buffer, header, want, got>>

Advance(n) == position' = position + n

(* A read of the connection: some units, an error, or nothing although the  *)
(* archive goes on, which a reader cannot tell from its end.                *)
Receive ==
    /\ Starved /\ position < ArchiveLen /\ conn.state = "open"
    /\ \/ /\ \E n \in 1..Min({Capacity, ArchiveLen - conn.at}) :
               /\ buffer' = [i \in 1..n |-> Unit(conn.at + i - 1)]
               /\ Advance(n)
               /\ conn' = [conn EXCEPT !.at = @ + n]
          /\ UNCHANGED <<reading, faults>>
       \/ /\ Fault
          /\ \E how \in {"eof", "failed"} : reading' = [reading EXCEPT !.at = how]
          /\ UNCHANGED <<buffer, position, conn>>
    /\ UNCHANGED <<stream, header, want, got>>

(* One read_exact of the header, which is read once and kept.               *)
TakeHeader ==
    IF reading.at = "header_size" THEN reading' = [reading EXCEPT !.at = "header"] /\ UNCHANGED header
    ELSE reading' = [reading EXCEPT !.at = "ready"] /\ header' = TRUE

(* A body that is not the one of its size does not parse.                   *)
Parses(u) == u = <<reading.section, 1>>

(* One read_exact of a section: its size, then its body.                    *)
TakeSection(u) ==
    IF reading.at = "size"
      THEN reading' = [reading EXCEPT !.at = IF u[2] = 0 THEN "body" ELSE "failed",
                                      !.section = u[1]]
      ELSE reading' =
             IF Parses(u)
               THEN [reading EXCEPT !.nodes = Append(@, u[1]),
                       !.at = IF Sections[u[1]].kind = "block" THEN "batch" ELSE "size"]
               ELSE [reading EXCEPT !.at = "failed"]

Take ==
    /\ Reads /\ buffer # <<>>
    /\ buffer' = Tail(buffer)
    /\ \/ reading.at \in {"header_size", "header"} /\ TakeHeader
       \/ reading.at \in {"size", "body"} /\ TakeSection(Head(buffer)) /\ UNCHANGED header
    /\ UNCHANGED <<stream, position, conn, want, got, faults>>

After(s) == LET later == {t \in Slots : t > s} IN IF later = {} THEN NoSlot ELSE Min(later)

(* read_until_block returns the nodes up to a block.                        *)
Deliver ==
    /\ reading.at = "batch"
    /\ got' = Append(got, reading.nodes)
    /\ want' = After(Sections[Last(reading.nodes)].slot)
    /\ reading' = [Idle EXCEPT !.at = "size"]
    /\ UNCHANGED <<stream, position, conn, buffer, header, faults>>

(* An early or real end breaks the loop of read_until_block as well; what   *)
(* it hands out then has no block, and the thread looks whether a slot is   *)
(* still missing.  An error drops the stream.                               *)
End ==
    /\ reading.at \in {"eof", "failed"}
    /\ Closed
    /\ UNCHANGED <<want, got, faults>>

Over == stream = "closed" /\ want = NoSlot /\ UNCHANGED vars
Step == Open \/ Seek \/ NoSeek \/ AtEnd \/ Schedule \/ Connect \/ Receive \/ Take
        \/ Deliver \/ End
Next == Step \/ Over
Spec == Init /\ [][Next]_vars
(* A task is polled until it is done; requests fail only so often.          *)
FairSpec == Spec /\ WF_vars(Step)
-----------------------------------------------------------------------------
(* Types: an open connection stands where the stream takes itself to be.    *)
TypeOK ==
    /\ stream \in {"closed", "windowed", "ranges"}
    /\ position \in 0..ArchiveLen /\ conn.at \in 0..ArchiveLen
    /\ Len(buffer) <= Capacity
    /\ conn.state = "open" => conn.at = position
    /\ reading.at \in {"ready", "size", "body", "batch"} => (header /\ stream # "closed")

(* A batch with a block is all of one slot: every section of it, in the     *)
(* order of the archive and of no other slot, and the batches come in the   *)
(* order of the slots without a gap, whatever connections were lost on the  *)
(* way (node_reader.rs read_until_block, epochs.rs S3SeekableReader).       *)
WholeSlots ==
    \A i \in DOMAIN got :
        LET s == Sections[Last(got[i])].slot
        IN /\ Range(got[i]) = NodesOf(s)
           /\ \A j, k \in DOMAIN got[i] : j < k => got[i][j] < got[i][k]
           /\ s = IF i = 1 THEN FirstSlot ELSE After(Sections[Last(got[i - 1])].slot)

(* The stream that cannot seek is never asked to: it is only opened where   *)
(* no seek follows (firehose.rs use_sequential_stream).                     *)
NeverRefused == ~(stream = "windowed" /\ reading.at = "ready" /\ want > FirstSlot)

Delivered == want = NoSlot /\ Len(got) = Cardinality(Slots)

(* Every slot of the epoch is handed to the thread once connections stop    *)
(* failing.                                                                 *)
AllDelivered == <>Delivered
=============================================================================
