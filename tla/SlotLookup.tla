---------------------------- MODULE SlotLookup ----------------------------
(***************************************************************************)
(* Where the data of a slot lies in the archive of its epoch, as the two   *)
(* kinds of index answer it (jetstreamer-firehose/src/index.rs): the       *)
(* slot-ranges file, one record per slot, and the legacy pair of compact   *)
(* indexes, which only knows the section of the block that ends the slot's *)
(* data and has to find the end of the previous present slot.  Lookups of  *)
(* absent slots in the legacy pair may answer with the entry of another    *)
(* slot, since it stores truncated hashes.                                 *)
(***************************************************************************)
EXTENDS Integers, FiniteSets

CONSTANTS
    First, Last,   \* the slots of the epoch
    Lengths,       \* how many bytes the data of a present slot may take
    BlockSize,     \* how many of them are the section of its block
    DataStart,     \* size of the archive's header
    MaxFaults      \* bound: network errors

Slots == First..Last

LookupAssumption ==
    /\ First \in Nat /\ Last \in Nat /\ First <= Last
    /\ BlockSize \in Nat \ {0} /\ DataStart \in Nat
    /\ Lengths \subseteq {n \in Nat : n >= BlockSize}
    /\ MaxFaults \in Nat

VARIABLES
    present,    \* the slots that were not skipped, with the bytes of each
    entry,      \* the slot whose entry a legacy lookup of a slot hits, or none
    slot,       \* the slot that is looked up
    candidate,  \* where the scan for the previous slot is
    step,       \* "begin", "scan", "done"
    result,     \* a range, or why there is none
    faults
vars == <<present, entry, slot, candidate, step, result, faults>>

NotFound == [kind |-> "not found"]
FormatError == [kind |-> "format"]
FetchError == [kind |-> "network"]
Extent(offset, length) == [kind |-> "range", offset |-> offset, length |-> length]
None == First - 1

(* The archive: the data of the present slots follow each other.  A byte of *)
(* a slot is the slot with the byte's number in it.                         *)
Bytes(q) == {q} \X (1..present[q])
BytesBefore(s) == UNION {Bytes(q) : q \in {p \in DOMAIN present : p < s}}
StartOf(s) == DataStart + Cardinality(BytesBefore(s))
EndOf(s) == StartOf(s) + present[s]

(* The record of a slot in the slot-ranges file; a skipped slot has length  *)
(* zero there.                                                              *)
Record(s) == IF s \in DOMAIN present THEN <<StartOf(s), present[s]>> ELSE <<0, 0>>

RangesLookup(s) ==
    CASE s \notin Slots -> FormatError
      [] s \in Slots /\ Record(s)[2] = 0 -> NotFound
      [] OTHER -> Extent(Record(s)[1], Record(s)[2])

(* The slot-to-cid index and the cid-to-offset-and-size index together: the *)
(* section of the block of the entry that the lookup of a slot hits.        *)
Section(s) == [offset |-> EndOf(entry[s]) - BlockSize, size |-> BlockSize]
SectionEnd(s) == Section(s).offset + Section(s).size

Init ==
    /\ present \in UNION {[P -> Lengths] : P \in (SUBSET Slots) \ {{}}}
    /\ entry \in {f \in [Slots -> DOMAIN present \cup {None}] :
                    \A s \in DOMAIN present : f[s] = s}
    /\ slot \in Slots \cup {First - 1, Last + 1}
    /\ candidate = slot
    /\ step = "begin"
    /\ result = NotFound
    /\ faults = 0

Done(r) == step' = "done" /\ result' = r /\ UNCHANGED candidate

(* lookup_range of the legacy pair: its own entry first.                    *)
Begin ==
    /\ step = "begin"
    /\ CASE slot \notin Slots -> Done(FormatError)
         [] slot \in Slots /\ entry[slot] = None -> Done(NotFound)
         [] OTHER -> step' = "scan" /\ UNCHANGED <<candidate, result>>
    /\ UNCHANGED <<present, entry, slot, faults>>

Answer(start, end) ==
    IF end < start THEN Done(FormatError) ELSE Done(Extent(start, end - start))

Implausible_Never(s, end) == FALSE
Implausible(s, end) == SectionEnd(s) > end

(* The scan back over the slots before it; an entry that ends behind the    *)
(* slot's own block is taken for a skipped slot.                            *)
Scan ==
    /\ step = "scan"
    /\ LET end == SectionEnd(slot)
           prev == candidate - 1
       IN CASE candidate = First -> Answer(DataStart, end)
            [] candidate # First /\ (entry[prev] = None \/ Implausible(prev, end))
                 -> candidate' = prev /\ UNCHANGED <<step, result>>
            [] OTHER -> Answer(SectionEnd(prev), end)
    /\ UNCHANGED <<present, entry, slot, faults>>

(* Sections are fetched on demand: an error that is not "not found" ends    *)
(* the lookup.                                                              *)
Fail ==
    /\ step \in {"begin", "scan"} /\ faults < MaxFaults
    /\ slot \in Slots
    /\ \/ step = "begin" /\ entry[slot] # None
       \/ step = "scan" /\ candidate # First /\ entry[candidate - 1] # None
    /\ faults' = faults + 1
    /\ Done(FetchError)
    /\ UNCHANGED <<present, entry, slot>>

Over == step = "done" /\ UNCHANGED vars
Next == Begin \/ Scan \/ Fail \/ Over
Spec == Init /\ [][Next]_vars
-----------------------------------------------------------------------------
ArchiveEnd == StartOf(Last + 1)

(* Types: the scan stays in the epoch, a result is one of the four, and a   *)
(* range lies in the archive.                                               *)
TypeOK ==
    /\ DOMAIN present \subseteq Slots /\ DOMAIN present # {}
    /\ step \in {"begin", "scan", "done"}
    /\ candidate \in (First - 1)..(Last + 1)
    /\ result.kind \in {"not found", "format", "network", "range"}
    /\ result.kind = "range" => /\ result.offset >= DataStart /\ result.length >= 0
                                /\ result.offset + result.length <= ArchiveEnd

(* An entry that can be told from the slot's own data: hit by a skipped     *)
(* slot, it ends behind the slot that is looked up.                         *)
ToldApart ==
    /\ slot \in Slots => entry[slot] \in {slot, None}
    /\ \A s \in Slots \ DOMAIN present :
         s < slot => (entry[s] = None \/ entry[s] > slot)

(* Both kinds of index answer alike, skipped slots and foreign slots        *)
(* included, as long as a skipped slot's lookup hits nothing or an entry    *)
(* that cannot precede the slot (index.rs LegacyEpochIndexes::lookup_range  *)
(* "derives the same range that the slot-ranges index encodes").            *)
LegacyAgrees ==
    (step = "done" /\ result # FetchError /\ ToldApart) => result = RangesLookup(slot)

(* Whatever the skipped slots before it hit, the range of a present slot    *)
(* never begins behind the slot's data, which a reader would then miss.     *)
(* (Does not hold: README, Disagreements.)                                  *)
StartsInTime ==
    (step = "done" /\ result.kind = "range" /\ slot \in DOMAIN present)
        => result.offset <= StartOf(slot)
=============================================================================
