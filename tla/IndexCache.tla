---------------------------- MODULE IndexCache ----------------------------
(***************************************************************************)
(* The slot index as its callers share it (jetstreamer-firehose/src/index.rs *)
(* and the seeks of node_reader.rs): a map of ranges per slot, a map of     *)
(* once-cells per epoch, the load of an epoch's index with its fallback to  *)
(* the legacy files, the invalidation a failed thread does, and the two     *)
(* loops on top: the seek to the first slot present at or after a slot, and *)
(* the probe for the next present slot that the coverage checks use.        *)
(*                                                                          *)
(* The index files of an epoch are published in versions; a version says    *)
(* which kind of file there is and where each slot is: nowhere, at its      *)
(* place, or at an offset that lands in the middle of the stream.  A range  *)
(* is the version it was read from.                                         *)
(***************************************************************************)
EXTENDS Integers, Sequences, FiniteSets, FiniteSetsExt, TLC

CONSTANTS
    Callers,      \* the threads that share the index
    EpochLen,     \* slots per epoch
    Published,    \* [epochs -> sequence of versions, each [kind, slots]]
    Wants,        \* the slots each caller seeks
    Probes,       \* the <<after, up_to_inclusive>> pairs that are probed
    MaxCalls,     \* bound: seeks and probes per caller
    MaxFaults     \* bound: network errors and timeouts altogether

Epochs == DOMAIN Published
FirstOf(e) == e * EpochLen
LastOf(e) == FirstOf(e) + EpochLen - 1
Slots == UNION {FirstOf(e)..LastOf(e) : e \in Epochs}
EpochOf(s) == s \div EpochLen
Versions(e) == DOMAIN Published[e]
Where(s, v) == Published[EpochOf(s)][v].slots[s]
Nothing == 0
Unknown == -1
(* Arcs of epoch entries: each caller holds one at most, and the map one    *)
(* per epoch.                                                               *)
EntryIds == 1..(Cardinality(Callers) + Cardinality(Epochs))

Kinds == {"ranges", "legacy", "none", "short"}
Places == {"here", "wrong", "absent"}

IndexAssumption ==
    /\ EpochLen \in Nat \ {0}
    /\ IsFiniteSet(Callers) /\ Nothing \notin Callers
    /\ IsFiniteSet(Epochs) /\ \E n \in Epochs : n \in Nat /\ Epochs = 0..n
    /\ \A e \in Epochs :
         /\ Published[e] \in Seq([kind : Kinds, slots : [FirstOf(e)..LastOf(e) -> Places]])
         /\ Published[e] # << >>
    /\ Wants \in [Callers -> SUBSET Slots]
    /\ Probes \subseteq Slots \X Slots
    /\ MaxCalls \in Nat /\ MaxFaults \in Nat

VARIABLES
    remote,    \* the version of each epoch that is on the server
    ranges,    \* SLOT_OFFSET_RESULT_CACHE: version of the cached range
    epochs,    \* EPOCH_CACHE: the entry of each epoch
    entries,   \* the entries: version in the cell, caller that fills it
    at,        \* what each caller does: step, slots, entry and version held
    forced,    \* version that the last invalidation of an epoch asks for
    calls, faults
vars == <<remote, ranges, epochs, entries, at, forced, calls, faults>>

Free == [version |-> Nothing, loader |-> Nothing]
Idle == [step |-> "idle", want |-> 0, probe |-> <<0, 0>>, cur |-> 0, mode |-> "seek",
         entry |-> Nothing, got |-> Nothing, need |-> Nothing]

Init ==
    /\ remote = [e \in Epochs |-> 1]
    /\ ranges = [s \in Slots |-> Nothing]
    /\ epochs = [e \in Epochs |-> Nothing]
    /\ entries = [i \in EntryIds |-> Free]
    /\ at = [c \in Callers |-> Idle]
    /\ forced = [e \in Epochs |-> Nothing]
    /\ calls = [c \in Callers |-> 0]
    /\ faults = 0

Go(c, step) == at' = [at EXCEPT ![c].step = step]
Here(c) == EpochOf(at[c].cur)

(* A seek looks its slot up first; need is what an invalidation that is     *)
(* over by now has asked for.                                               *)
LookUp(c, s, mode) ==
    at' = [at EXCEPT ![c].step = "cached", ![c].cur = s, ![c].mode = mode,
                     ![c].entry = Nothing, ![c].need = forced[EpochOf(s)]]

Seek(c, s) ==
    /\ at[c].step = "idle" /\ calls[c] < MaxCalls
    /\ calls' = [calls EXCEPT ![c] = @ + 1]
    /\ at' = [at EXCEPT ![c] = [Idle EXCEPT !.step = "cached", !.want = s,
                                            !.cur = s, !.need = forced[EpochOf(s)]]]
    /\ UNCHANGED <<remote, ranges, epochs, entries, forced, faults>>

(* The cache of ranges is read twice, without a lock over both reads.       *)
Cached(c) ==
    /\ at[c].step = "cached"
    /\ at' = IF ranges[at[c].cur] # Nothing
               THEN [at EXCEPT ![c].step = "found", ![c].got = ranges[at[c].cur]]
               ELSE [at EXCEPT ![c].step = "again"]
    /\ UNCHANGED <<remote, ranges, epochs, entries, forced, calls, faults>>

CachedAgain(c) ==
    /\ at[c].step = "again"
    /\ at' = IF ranges[at[c].cur] # Nothing
               THEN [at EXCEPT ![c].step = "outer", ![c].got = ranges[at[c].cur]]
               ELSE [at EXCEPT ![c].step = "entry"]
    /\ UNCHANGED <<remote, ranges, epochs, entries, forced, calls, faults>>

Held == {at[c].entry : c \in Callers} \cup {epochs[e] : e \in Epochs}

(* The entry of the epoch, or a fresh one.                                  *)
TakeEntry(c) ==
    /\ at[c].step = "entry"
    /\ LET id == IF epochs[Here(c)] # Nothing THEN epochs[Here(c)]
                 ELSE Min(EntryIds \ Held)
       IN /\ epochs' = [epochs EXCEPT ![Here(c)] = id]
          /\ entries' = IF id = epochs[Here(c)] THEN entries
                        ELSE [entries EXCEPT ![id] = Free]
          /\ at' = [at EXCEPT ![c].step = "cell", ![c].entry = id]
    /\ UNCHANGED <<remote, ranges, forced, calls, faults>>

Ready(id) == entries[id].version # Nothing
Filling(id) == entries[id].loader # Nothing

(* get_or_try_init: a full cell is read, an empty one is filled by one      *)
(* caller while the others wait.                                            *)
ReadCell(c) ==
    /\ at[c].step = "cell" /\ Ready(at[c].entry)
    /\ Go(c, "lookup")
    /\ UNCHANGED <<remote, ranges, epochs, entries, forced, calls, faults>>

FillCell(c) ==
    /\ at[c].step = "cell" /\ ~Ready(at[c].entry) /\ ~Filling(at[c].entry)
    /\ entries' = [entries EXCEPT ![at[c].entry].loader = c]
    /\ Go(c, "ranges")
    /\ UNCHANGED <<remote, ranges, epochs, forced, calls, faults>>

Kind(e) == Published[e][remote[e]].kind

Loaded_KeepsLoader(c) ==
    /\ entries' = [entries EXCEPT ![at[c].entry].version = remote[Here(c)]]
    /\ Go(c, "lookup")

Loaded(c) ==
    /\ entries' = [entries EXCEPT ![at[c].entry] =
                     [version |-> remote[Here(c)], loader |-> Nothing]]
    /\ Go(c, "lookup")

Abandon(c) ==
    entries' = IF at[c].entry # Nothing /\ entries[at[c].entry].loader = c
                 THEN [entries EXCEPT ![at[c].entry].loader = Nothing]
                 ELSE entries

(* A lookup that failed: a seek reports the error, and its thread clears    *)
(* the epoch; a probe answers that it does not know.                        *)
Failed(c) ==
    at' = IF at[c].mode = "probe"
            THEN [at EXCEPT ![c].step = "answer", ![c].got = Unknown, ![c].entry = Nothing]
            ELSE [at EXCEPT ![c].step = "drop", ![c].entry = Nothing]

(* The slot-ranges file is read whole; only a missing one falls back to     *)
(* the legacy indexes.                                                      *)
LoadRanges(c) ==
    /\ at[c].step = "ranges"
    /\ \/ Kind(Here(c)) = "ranges" /\ Loaded(c)
       \/ Kind(Here(c)) \in {"legacy", "none"} /\ Go(c, "legacy") /\ UNCHANGED entries
       \/ Kind(Here(c)) = "short" /\ Failed(c) /\ Abandon(c)
    /\ UNCHANGED <<remote, ranges, epochs, forced, calls, faults>>

LoadLegacy(c) ==
    /\ at[c].step = "legacy"
    /\ \/ Kind(Here(c)) = "legacy" /\ Loaded(c)
       \/ Kind(Here(c)) # "legacy" /\ Failed(c) /\ Abandon(c)
    /\ UNCHANGED <<remote, ranges, epochs, forced, calls, faults>>

(* An error of the network while an index is fetched; a legacy index is     *)
(* also asked for every range.                                              *)
Fetching(c) ==
    \/ at[c].step \in {"ranges", "legacy"}
    \/ /\ at[c].step = "lookup" /\ at[c].mode # "probe"
       /\ Published[Here(c)][entries[at[c].entry].version].kind = "legacy"
NetworkError(c) ==
    /\ Fetching(c) /\ faults < MaxFaults
    /\ faults' = faults + 1
    /\ Failed(c) /\ Abandon(c)
    /\ UNCHANGED <<remote, ranges, epochs, forced, calls>>

(* The caller's timeout drops a seek where it awaits: a load it had begun   *)
(* is given up, the cell stays empty for the next waiter, nothing is        *)
(* invalidated, and the thread seeks again.                                 *)
TimeOut(c) ==
    /\ (at[c].step = "cell" \/ Fetching(c))
    /\ at[c].mode # "probe" /\ faults < MaxFaults
    /\ faults' = faults + 1
    /\ LookUp(c, at[c].want, "seek") /\ Abandon(c)
    /\ UNCHANGED <<remote, ranges, epochs, forced, calls>>

Index(c) == entries[at[c].entry].version

Beyond_NextEpoch(c) ==
    LET a == at[c] IN
    CASE a.mode = "seek" /\ a.cur + 1 \in Slots -> LookUp(c, a.cur + 1, "seek")
      [] a.mode = "tail" /\ a.cur > FirstOf(Here(c)) -> LookUp(c, a.cur - 1, "tail")
      [] OTHER -> Failed(c)

(* The slot is not in the index: a seek goes on to the next slot of the     *)
(* epoch, and at its end back from the slot it wants to the last one        *)
(* present before it; an epoch without any is an error of the index.        *)
Beyond(c) ==
    LET a == at[c] IN
    CASE a.mode = "seek" /\ a.cur < LastOf(Here(c)) -> LookUp(c, a.cur + 1, "seek")
      [] a.mode = "seek" /\ a.cur = LastOf(Here(c)) /\ a.want > FirstOf(Here(c))
           -> LookUp(c, a.want - 1, "tail")
      [] a.mode = "tail" /\ a.cur > FirstOf(Here(c)) -> LookUp(c, a.cur - 1, "tail")
      [] OTHER -> Failed(c)

LookupRange(c) ==
    /\ at[c].step = "lookup" /\ at[c].mode # "probe"
    /\ IF Where(at[c].cur, Index(c)) = "absent" THEN Beyond(c)
       ELSE at' = [at EXCEPT ![c].step = "insert", ![c].got = Index(c),
                             ![c].entry = Nothing]
    /\ UNCHANGED <<remote, ranges, epochs, entries, forced, calls, faults>>

(* The range is cached twice: by get_range and by slot_to_range.            *)
Insert(c) ==
    /\ at[c].step \in {"insert", "outer"}
    /\ ranges' = [ranges EXCEPT ![at[c].cur] = at[c].got]
    /\ Go(c, IF at[c].step = "insert" THEN "outer" ELSE "found")
    /\ UNCHANGED <<remote, epochs, entries, forced, calls, faults>>

(* The seek has its offset; what is read there is the slot, or bytes that   *)
(* do not parse ("Unknown CID version"), which also clears the epoch.       *)
Read(c) ==
    /\ at[c].step = "found"
    /\ at' = IF Where(at[c].cur, at[c].got) = "wrong"
               THEN [at EXCEPT ![c].step = "drop"]
               ELSE [at EXCEPT ![c] = Idle]
    /\ UNCHANGED <<remote, ranges, epochs, entries, forced, calls, faults>>

Drop_KeepsEntry(c) ==
    /\ at[c].step = "drop"
    /\ at' = [at EXCEPT ![c].step = "sweep", ![c].cur = FirstOf(EpochOf(at[c].want))]
    /\ UNCHANGED <<remote, ranges, epochs, entries, forced, calls, faults>>

(* invalidate_epoch: the entry goes first, then the ranges of the epoch,    *)
(* shard by shard; then the thread seeks again.                             *)
Drop(c) ==
    /\ at[c].step = "drop"
    /\ epochs' = [epochs EXCEPT ![EpochOf(at[c].want)] = Nothing]
    /\ at' = [at EXCEPT ![c].step = "sweep", ![c].cur = FirstOf(EpochOf(at[c].want))]
    /\ UNCHANGED <<remote, ranges, entries, forced, calls, faults>>

Sweep(c) ==
    /\ at[c].step = "sweep"
    /\ ranges' = [ranges EXCEPT ![at[c].cur] = Nothing]
    /\ IF at[c].cur < LastOf(Here(c))
         THEN at' = [at EXCEPT ![c].cur = @ + 1] /\ UNCHANGED forced
         ELSE /\ forced' = [forced EXCEPT ![Here(c)] = remote[Here(c)]]
              /\ Go(c, "retry")
    /\ UNCHANGED <<remote, epochs, entries, calls, faults>>

Retry(c) ==
    /\ at[c].step = "retry"
    /\ LookUp(c, at[c].want, "seek")
    /\ UNCHANGED <<remote, ranges, epochs, entries, forced, calls, faults>>

(* next_present_slot(after, up_to_inclusive): the entries are shared with   *)
(* the seeks, the cache of ranges is not read.                              *)
Probe(c, p) ==
    /\ at[c].step = "idle" /\ calls[c] < MaxCalls
    /\ calls' = [calls EXCEPT ![c] = @ + 1]
    /\ at' = [at EXCEPT ![c] =
         IF p[1] + 1 > p[2]
           THEN [Idle EXCEPT !.step = "answer", !.mode = "probe", !.probe = p, !.got = Unknown]
           ELSE [Idle EXCEPT !.step = "entry", !.mode = "probe", !.probe = p, !.cur = p[1] + 1]]
    /\ UNCHANGED <<remote, ranges, epochs, entries, forced, faults>>

PresentIn_Inclusive(lo, hi, v) == {s \in (lo - 1)..hi : s \in Slots /\ Where(s, v) # "absent"}
PresentIn(lo, hi, v) == {s \in lo..hi : Where(s, v) # "absent"}

(* The rest of the epoch is scanned in the index in memory.  A legacy index *)
(* answers nothing; an epoch without a match passes to the next one.        *)
ScanEpoch(c) ==
    /\ at[c].step = "lookup" /\ at[c].mode = "probe"
    /\ LET e == Here(c)
           hi == at[c].probe[2]
           hits == PresentIn(at[c].cur, Min({hi, LastOf(e)}), Index(c))
           Answer(r) == [at EXCEPT ![c].step = "answer", ![c].got = r, ![c].entry = Nothing]
       IN at' = CASE Published[e][Index(c)].kind = "legacy" -> Answer(Unknown)
                  [] Published[e][Index(c)].kind # "legacy" /\ hits # {} -> Answer(Min(hits))
                  [] OTHER -> IF LastOf(e) + 1 > hi THEN Answer(Unknown)
                              ELSE [at EXCEPT ![c].step = "entry", ![c].cur = LastOf(e) + 1,
                                              ![c].entry = Nothing]
    /\ UNCHANGED <<remote, ranges, epochs, entries, forced, calls, faults>>

Answered(c) ==
    /\ at[c].step = "answer"
    /\ at' = [at EXCEPT ![c] = Idle]
    /\ UNCHANGED <<remote, ranges, epochs, entries, forced, calls, faults>>

(* The server's files are completed or replaced.                            *)
Publish(e) ==
    /\ remote[e] + 1 \in Versions(e)
    /\ remote' = [remote EXCEPT ![e] = @ + 1]
    /\ UNCHANGED <<ranges, epochs, entries, at, forced, calls, faults>>

Step(c) ==
    \/ Cached(c) \/ CachedAgain(c) \/ TakeEntry(c) \/ ReadCell(c) \/ FillCell(c)
    \/ LoadRanges(c) \/ LoadLegacy(c) \/ LookupRange(c) \/ Insert(c) \/ Read(c)
    \/ Drop(c) \/ Sweep(c) \/ Retry(c) \/ ScanEpoch(c) \/ Answered(c)
Call(c) == (\E s \in Wants[c] : Seek(c, s)) \/ (\E p \in Probes : Probe(c, p))
Rest == (\A c \in Callers : at[c].step = "idle" /\ calls[c] = MaxCalls) /\ UNCHANGED vars
Next ==
    \/ \E c \in Callers : Step(c) \/ Call(c) \/ NetworkError(c) \/ TimeOut(c)
    \/ \E e \in Epochs : Publish(e)
    \/ Rest

(* Threads run, and a bad index is replaced some day.                       *)
Spec == Init /\ [][Next]_vars
FairSpec ==
    /\ Spec
    /\ \A c \in Callers : WF_vars(Step(c))
    /\ \A e \in Epochs : WF_vars(Publish(e))

-----------------------------------------------------------------------------
Steps == {"idle", "cached", "again", "entry", "cell", "ranges", "legacy", "lookup",
          "insert", "outer", "found", "drop", "sweep", "retry", "answer"}

(* Types: caches hold versions, callers hold entries, and a cell is never   *)
(* both full and being filled (index.rs EPOCH_CACHE, OnceCell).             *)
TypeOK ==
    /\ \A e \in Epochs : remote[e] \in Versions(e) /\ epochs[e] \in EntryIds \cup {Nothing}
    /\ \A s \in Slots : ranges[s] \in Versions(EpochOf(s)) \cup {Nothing}
    /\ \A i \in EntryIds : entries[i].version = Nothing \/ entries[i].loader = Nothing
    /\ \A c \in Callers : /\ at[c].step \in Steps
                          /\ at[c].mode \in {"seek", "tail", "probe"}
                          /\ at[c].cur \in Slots
                          /\ at[c].entry \in EntryIds \cup {Nothing}

AbsentOnce(s) == \E v \in 1..remote[EpochOf(s)] : Where(s, v) = "absent"

(* A seek ends in the epoch it was asked for, since the reader has no other *)
(* stream, and passes over a slot only when an index that was published so  *)
(* far does not have it: forward from the slot it wants, or, past the end   *)
(* of the epoch, back to the last slot before it (node_reader.rs            *)
(* seek_to_slot_inner, seek_to_epoch_tail).                                 *)
SeekPassesOnlyAbsent ==
    \A c \in Callers : at[c].step = "found" =>
        LET a == at[c]
            e == EpochOf(a.want)
            Passed == IF a.mode = "seek" THEN a.want..(a.cur - 1)
                      ELSE (a.cur + 1)..LastOf(e)
        IN EpochOf(a.cur) = e /\ \A s \in Passed : AbsentOnce(s)

(* A probe that names a slot names one in its interval that some published  *)
(* index has, and every slot before it is missing from one; the coverage    *)
(* checks report what a probe names as lost (index.rs next_present_slot).   *)
ProbeSound ==
    \A c \in Callers : (at[c].step = "answer" /\ at[c].got # Unknown) =>
        LET p == at[c].probe
            n == at[c].got
        IN /\ n \in (p[1] + 1)..p[2]
           /\ \E v \in 1..remote[EpochOf(n)] : Where(n, v) # "absent"
           /\ \A s \in (p[1] + 1)..(n - 1) : AbsentOnce(s)

(* Once an epoch was invalidated, a lookup that starts afterwards does not  *)
(* return a range of an older index (index.rs invalidate_epoch).            *)
FreshAfterInvalidate ==
    \A c \in Callers : at[c].step = "found" => at[c].got >= at[c].need

Busy(c) == at[c].step # "idle"

(* Every seek and every probe ends, whatever index was published first,     *)
(* once the index is good: no caller waits for a load that was given up,    *)
(* and none goes on with a bad index for ever.                              *)
Settles == \A c \in Callers : Busy(c) ~> ~Busy(c)
=============================================================================
