------------------------------ MODULE MCArchive ------------------------------
(*****************************************************************************)
(* The parts that read the archive: the slot index and its caches, the two   *)
(* lookups behind it, the compact index files, the fetches and permits of the*)
(* remote backends, the epoch stream with the node reader on it, the varint  *)
(* decoders and the frame chains. Each keeps its own state, so that a        *)
(* behaviour is one of one part, chosen at the start.                        *)
(*****************************************************************************)
EXTENDS Integers, Sequences, TLC

VARIABLES
  part,  \* the part that this behaviour is about
  remote, ranges, epochs, entries, indexAt, forced, calls, indexFaults,
  present, entry, slot, candidate, lookupStep, lookupResult, lookupFaults,
  kind, head, tree, size, key, compactStep, compactIndex, compactResult,
  remoteNow, remoteLast, remoteGate, backend, ranged, fetch, sent, requests,
  answer,
  seekNow, seekLast, seekGate, reader, timer, permits, seeks, sought,
  streamStream, position, conn, buffer, header, reading, want, got,
  streamFaults,
  decoder, input, read, x, varintResult,
  damage, framesStream, framesAt, nodes, framesIndex, pc, item, data, links,
  link, onward, built

indexVars == <<remote, ranges, epochs, entries, indexAt, forced, calls,
            indexFaults>>
lookupVars == <<present, entry, slot, candidate, lookupStep, lookupResult,
            lookupFaults>>
compactVars == <<kind, head, tree, size, key, compactStep, compactIndex,
            compactResult>>
remoteVars == <<remoteNow, remoteLast, remoteGate, backend, ranged, fetch,
            sent, requests, answer>>
seekVars == <<seekNow, seekLast, seekGate, reader, timer, permits, seeks,
            sought>>
streamVars == <<streamStream, position, conn, buffer, header, reading, want,
            got, streamFaults>>
varintVars == <<decoder, input, read, x, varintResult>>
framesVars == <<damage, framesStream, framesAt, nodes, framesIndex, pc, item,
            data, links, link, onward, built>>
all == <<part, indexVars, lookupVars, compactVars, remoteVars, seekVars, streamVars, varintVars, framesVars>>

-----------------------------------------------------------------------------
(* The instances.                                                          *)

\* IndexCache: epochs of two slots, of which one may be skipped.
File(k, places) == [kind |-> k, slots |-> places]
Both(f, p, q) == (f :> p) @@ ((f + 1) :> q)
\* Epoch 0 is first cut short, then has wrong offsets, then is right; epoch 1 lacks
\* its last slot.
Repaired == (0 :> << File("short", Both(0, "absent", "absent")),
                     File("ranges", Both(0, "absent", "wrong")),
                     File("ranges", Both(0, "absent", "here")) >>)
         @@ (1 :> << File("ranges", Both(2, "here", "absent")) >>)
\* Epoch 0 has no slot yet, then all; epoch 1 only the old kind of index.
Filled == (0 :> << File("ranges", Both(0, "absent", "absent")),
                   File("ranges", Both(0, "here", "here")) >>)
       @@ (1 :> << File("none", Both(2, "absent", "absent")),
                   File("legacy", Both(2, "here", "absent")) >>)
\* Only slots are moved: the first index has wrong offsets.
Moved == (0 :> << File("ranges", Both(0, "wrong", "wrong")),
                  File("ranges", Both(0, "here", "here")) >>)
WantsSolo == 1 :> {0, 1, 3}
WantsAll == 1 :> {0} @@ 2 :> {1, 3}
WantsOwn == 1 :> {0} @@ 2 :> {1}

\* CompactIndex: up to five keys, two of which collide; headers that are regular, of
\* the wrong kind, version or value size, or longer than the first fetch.
Hashes64 == "a" :> 0 @@ "b" :> 3 @@ "c" :> 6 @@ "d" :> 9 @@ "x" :> 12
EntryHashes == "a" :> 1 @@ "b" :> 3 @@ "c" :> 5 @@ "d" :> 7 @@ "x" :> 3
Regular == [magic |-> TRUE, len |-> 13, version |-> 1, buckets |-> 1,
            valueSize |-> 2, kind |-> "unnamed", pairs |-> <<>>]
Named(k) == [Regular EXCEPT !.kind = k, !.len = 13 + 5, !.pairs = <<2, 1>>]
RegularHeads == {Regular, Named("slot"), Named("unnamed"),
                 [Named("cid") EXCEPT !.buckets = 2],
                 [Named("unnamed") EXCEPT !.buckets = 3],
                 [Regular EXCEPT !.magic = FALSE], [Regular EXCEPT !.version = 2],
                 [Named("unnamed") EXCEPT !.valueSize = 1],
                 [Named("slot") EXCEPT !.len = 13 + 3],
                 [Named("unnamed") EXCEPT !.len = 13 + 20, !.pairs = <<9, 8>>]}

\* EpochReader: three slots of one to three sections, one slot skipped between them,
\* and one section behind the last block.
S(s, k) == [slot |-> s, kind |-> k]
ReaderSections == << S(1, "entry"), S(1, "block"), S(2, "block"),
                     S(4, "entry"), S(4, "entry"), S(4, "block"), S(-1, "tail") >>

Solo == INSTANCE IndexCache WITH Callers <- {1}, EpochLen <- 2,
  Published <- Repaired, Wants <- WantsSolo,
  Probes <- {<<0, 2>>, <<0, 1>>, <<2, 3>>, <<3, 3>>}, MaxCalls <- 3,
  MaxFaults <- 1, at <- indexAt, faults <- indexFaults
Shared == INSTANCE IndexCache WITH Callers <- {1, 2}, EpochLen <- 2,
  Published <- Filled, Wants <- WantsAll, Probes <- {<<0, 2>>}, MaxCalls <- 1,
  MaxFaults <- 0, at <- indexAt, faults <- indexFaults
Settle == INSTANCE IndexCache WITH Callers <- {1, 2}, EpochLen <- 2,
  Published <- Moved, Wants <- WantsOwn, Probes <- {}, MaxCalls <- 2,
  MaxFaults <- 1, at <- indexAt, faults <- indexFaults
Lookup == INSTANCE SlotLookup WITH First <- 4, Last <- 7, Lengths <- {2, 3},
  BlockSize <- 1, DataStart <- 2, MaxFaults <- 1, step <- lookupStep,
  result <- lookupResult, faults <- lookupFaults
Compact == INSTANCE CompactIndex WITH Keys <- {"a", "b", "c", "d", "x"},
  Hash64 <- Hashes64, EntryHash <- EntryHashes, Heads <- RegularHeads,
  Missing <- {0, 1, 6, 30}, Prefetch <- 28, ValueSize <- 2,
  step <- compactStep, index <- compactIndex, result <- compactResult
Fetch == INSTANCE RemoteFetch WITH Clients <- {1, 2}, Spacing <- 2,
  Sleeps <- FALSE, MaxTime <- 4, BaseDelay <- 1, Wanted <- 2,
  Backends <- {"http", "s3"}, MaxRetries <- 2, now <- remoteNow,
  last <- remoteLast, gate <- remoteGate
Retries == INSTANCE RemoteFetch WITH Clients <- {1}, Spacing <- 2,
  Sleeps <- FALSE, MaxTime <- 8, BaseDelay <- 1, Wanted <- 2,
  Backends <- {"http", "s3"}, MaxRetries <- 2, now <- remoteNow,
  last <- remoteLast, gate <- remoteGate
Permits == INSTANCE SeekPermits WITH Clients <- {1, 2}, Spacing <- 2,
  Sleeps <- TRUE, MaxTime <- 4, Primes <- {1}, OpTimeout <- 1, now <- seekNow,
  last <- seekLast, gate <- seekGate
Ranges == INSTANCE EpochReader WITH Sections <- ReaderSections, Capacity <- 3,
  Sequential <- FALSE, MaxFaults <- 3, stream <- streamStream,
  faults <- streamFaults
Windowed == INSTANCE EpochReader WITH Sections <- ReaderSections,
  Capacity <- 3, Sequential <- TRUE, MaxFaults <- 3, stream <- streamStream,
  faults <- streamFaults
Decoders == INSTANCE Varint WITH Group <- 2, MaxLen <- 3, MaxBytes <- 4,
  result <- varintResult
Frames == INSTANCE FrameChain WITH Payloads <- <<1, 6, 2, 4>>,
  Blocks <- <<<<1, 2, 2>>, <<3, 4>>>>, FanOut <- 2,
  Hashes <- {"crc", "fnv", "none"},
  Damages <- {"none", "cut", "lost", "altered", "mistyped"},
  stream <- framesStream, at <- framesAt, index <- framesIndex

-----------------------------------------------------------------------------
(* One part runs; the variables of the others are not used.                *)

NoIndex == /\ remote = 0 /\ ranges = 0 /\ epochs = 0 /\ entries = 0
           /\ indexAt = 0 /\ forced = 0 /\ calls = 0 /\ indexFaults = 0
NoLookup == /\ present = 0 /\ entry = 0 /\ slot = 0 /\ candidate = 0
            /\ lookupStep = 0 /\ lookupResult = 0 /\ lookupFaults = 0
NoCompact == /\ kind = 0 /\ head = 0 /\ tree = 0 /\ size = 0 /\ key = 0
             /\ compactStep = 0 /\ compactIndex = 0 /\ compactResult = 0
NoRemote == /\ remoteNow = 0 /\ remoteLast = 0 /\ remoteGate = 0
            /\ backend = 0 /\ ranged = 0 /\ fetch = 0 /\ sent = 0
            /\ requests = 0 /\ answer = 0
NoSeek == /\ seekNow = 0 /\ seekLast = 0 /\ seekGate = 0 /\ reader = 0
          /\ timer = 0 /\ permits = 0 /\ seeks = 0
          /\ sought = 0
NoStream == /\ streamStream = 0 /\ position = 0 /\ conn = 0 /\ buffer = 0
            /\ header = 0 /\ reading = 0 /\ want = 0 /\ got = 0
            /\ streamFaults = 0
NoVarint == /\ decoder = 0 /\ input = 0 /\ read = 0 /\ x = 0
            /\ varintResult = 0
NoFrames == /\ damage = 0 /\ framesStream = 0 /\ framesAt = 0 /\ nodes = 0
            /\ framesIndex = 0 /\ pc = 0 /\ item = 0 /\ data = 0 /\ links = 0
            /\ link = 0 /\ onward = 0 /\ built = 0

Parts == {"solo", "shared", "settle", "lookup", "compact", "fetch", "retries",
          "permits", "ranges", "windowed", "varint", "frames"}

PartInit ==
  /\ part \in Parts
  /\ CASE part = "solo" -> Solo!Init
       [] part = "shared" -> Shared!Init
       [] part = "settle" -> Settle!Init
       [] OTHER -> NoIndex
  /\ IF part = "lookup" THEN Lookup!Init ELSE NoLookup
  /\ IF part = "compact" THEN Compact!Init ELSE NoCompact
  /\ CASE part = "fetch" -> Fetch!Init
       [] part = "retries" -> Retries!Init
       [] OTHER -> NoRemote
  /\ IF part = "permits" THEN Permits!Init ELSE NoSeek
  /\ CASE part = "ranges" -> Ranges!Init
       [] part = "windowed" -> Windowed!Init
       [] OTHER -> NoStream
  /\ IF part = "varint" THEN Decoders!Init ELSE NoVarint
  /\ IF part = "frames" THEN Frames!Init ELSE NoFrames

PartNext ==
  /\ UNCHANGED part
  /\ CASE part = "solo" -> Solo!Next
       [] part = "shared" -> Shared!Next
       [] part = "settle" -> Settle!Next
       [] OTHER -> UNCHANGED indexVars
  /\ IF part = "lookup" THEN Lookup!Next ELSE UNCHANGED lookupVars
  /\ IF part = "compact" THEN Compact!Next ELSE UNCHANGED compactVars
  /\ CASE part = "fetch" -> Fetch!Next
       [] part = "retries" -> Retries!Next
       [] OTHER -> UNCHANGED remoteVars
  /\ IF part = "permits" THEN Permits!Next ELSE UNCHANGED seekVars
  /\ CASE part = "ranges" -> Ranges!Next
       [] part = "windowed" -> Windowed!Next
       [] OTHER -> UNCHANGED streamVars
  /\ IF part = "varint" THEN Decoders!Next ELSE UNCHANGED varintVars
  /\ IF part = "frames" THEN Frames!Next ELSE UNCHANGED framesVars

ASSUME ArchiveAssumptions ==
  /\ Solo!IndexAssumption /\ Shared!IndexAssumption /\ Settle!IndexAssumption
  /\ Lookup!LookupAssumption /\ Compact!CompactAssumption
  /\ Fetch!GateAssumption /\ Retries!GateAssumption /\ Permits!GateAssumption
  /\ Ranges!ReaderAssumption /\ Ranges!LayoutAssumption
  /\ Windowed!ReaderAssumption /\ Windowed!LayoutAssumption
  /\ Decoders!VarintAssumption
  /\ Frames!FrameAssumption /\ Frames!DamageAssumption

\* What each part's scheduling justifies: FairSpec of IndexCache, EpochReader and
\* FrameChain.
PartSpec ==
  /\ PartInit /\ [][PartNext]_all
  /\ \A c \in 1 .. 2 : WF_indexVars(part = "settle" /\ Settle!Step(c))
  /\ WF_indexVars(part = "settle" /\ Settle!Publish(0))
  /\ WF_streamVars(part = "windowed" /\ Windowed!Step)
  /\ WF_framesVars(part = "frames" /\ Frames!Step)

-----------------------------------------------------------------------------
(* Properties: each part is stated and explained in the part's module.     *)

\* Every variable of every part keeps its type.
PartTypeOK ==
  /\ part = "shared" => Shared!TypeOK
  /\ part = "lookup" => Lookup!TypeOK
  /\ part = "compact" => Compact!TypeOK
  /\ part = "fetch" => Fetch!TypeOK
  /\ part = "permits" => Permits!TypeOK
  /\ part = "ranges" => Ranges!TypeOK
  /\ part = "varint" => Decoders!TypeOK
  /\ part = "frames" => Frames!TypeOK

\* The slot index while its files are replaced: once an epoch was invalidated, a lookup
\* that starts afterwards returns no range of an older index (one caller); a seek stays
\* in its epoch and passes only over slots that some index lacks; a probe names the
\* first slot of its interval that is there (two callers).
IndexAnswers ==
  /\ part = "solo" =>
       Solo!FreshAfterInvalidate /\ Solo!SeekPassesOnlyAbsent /\ Solo!ProbeSound
  /\ part = "shared" => Shared!SeekPassesOnlyAbsent /\ Shared!ProbeSound

\* The legacy lookup finds what the slot-ranges file has, or takes its entry for
\* implausible; a key that was written is found in whichever bucket and place of the
\* search tree it is; a file that is cut short gives an error, never another answer.
LookupsAgree ==
  /\ part = "lookup" => Lookup!LegacyAgrees
  /\ part = "compact" => Compact!FindsWritten /\ Compact!CutIsError

\* The stamps of two permits of a gate are never closer together than its spacing,
\* whichever way its clients wait, give up and retry; and the retries of a fetch wait
\* twice as long each time.
PermitsSpaced ==
  [][/\ part = "fetch" => Fetch!PermitsSpaced
     /\ part = "permits" => Permits!PermitsSpaced
     /\ part = "retries" => Retries!BacksOff]_all

\* However late a permit is used, no more requests are sent over HTTP, and no more seeks,
\* than intervals have passed at their gate; a retry passes the gate again, a permit that
\* was lost with its reader is not replaced.
RateKept ==
  /\ part = "fetch" => Fetch!RateKept
  /\ part = "permits" => Permits!RateKept

\* No seek is sent without a permit of its own, and waiting for one does not count into
\* the timeout of the seek; a stream that cannot seek is never asked to; a range that
\* is answered has exactly the bytes that were asked for.
RequestsRight ==
  /\ part = "permits" => Permits!SeekHasPermit /\ Permits!PacingIsUntimed
  /\ part = "windowed" => Windowed!NeverRefused
  /\ part = "fetch" => Fetch!RangesExact

\* What is read is what the archive holds, however the connection is lost or the
\* stream damaged: a batch is all of one slot and no slot is missing between two; an
\* integer is decoded to its value, and by the stream's decoder only if it fits; a
\* payload that is handed on is whole, an undamaged archive gives no error, and a stream
\* that lacks a block does not count as ended.
ReadsExact ==
  /\ part = "ranges" => Ranges!WholeSlots
  /\ part = "windowed" => Windowed!WholeSlots
  /\ part = "varint" => Decoders!DecodesWhatFits /\ Decoders!StreamIsExact
  /\ part = "frames" =>
       Frames!PayloadExact /\ Frames!GoodArchiveReads /\ Frames!EndsComplete

\* Every seek and every probe of the index ends once a good index is published; every
\* slot of an epoch is delivered once connections stop failing; every stream of frames
\* comes to an end or an error.
Settles ==
  /\ \A c \in 1 .. 2 :
       part = "settle" /\ Settle!Busy(c) ~> part = "settle" /\ ~Settle!Busy(c)
  /\ <>(part = "windowed" => Windowed!Delivered)
  /\ <>(part = "frames" => Frames!Settled)
=============================================================================
