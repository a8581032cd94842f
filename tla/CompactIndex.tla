--------------------------- MODULE CompactIndex ---------------------------
(***************************************************************************)
(* A compact index file as the legacy lookups read it                      *)
(* (jetstreamer-firehose/src/index.rs SlotCidIndex, CidOffsetIndex): its   *)
(* header with the metadata pairs, the bucket a key hashes to, the header  *)
(* of the bucket, and the search in the bucket, whose entries are laid out *)
(* as an implicit search tree by their truncated hashes.  The slot index   *)
(* is read whole and kept in memory; of the cid index only the header is   *)
(* fetched first, and each bucket when it is needed.  Who writes the files *)
(* is not part of this program; a file may be shorter than it should be.   *)
(***************************************************************************)
EXTENDS Integers, Sequences, FiniteSets, FiniteSetsExt, SequencesExt

CONSTANTS
    Keys,        \* the keys that are looked up
    Hash64,      \* [Keys -> Nat], the hash that picks the bucket
    EntryHash,   \* [Keys -> Nat], the hash that is searched for, truncated
    Heads,       \* the headers: fields as they stand in the file
    Missing,     \* how many bytes a file may lack at its end
    Prefetch,    \* HTTP_PREFETCH_BYTES
    ValueSize    \* of the offset-and-size values

Fixed == 12         \* magic and the length of the header
Fields == 13        \* value size, number of buckets, version
BucketHeaderSize == 16
HashLen == 3

CompactAssumption ==
    /\ Hash64 \in [Keys -> Nat] /\ EntryHash \in [Keys -> Nat]
    /\ Missing \subseteq Nat /\ Prefetch \in Nat /\ ValueSize \in Nat

VARIABLES
    kind,    \* "slot" or "cid": which of the two indexes
    head,    \* the header of the file
    tree,    \* the entries of each bucket, in the order of the file
    size,    \* bytes of the file that are there
    key,     \* the key that is looked up
    step, index, result
vars == <<kind, head, tree, size, key, step, index, result>>

HeaderSize(h) == Fixed + h.len
Stride(h) == HashLen + h.valueSize

(* bucket_hash: reduces the hash to a bucket, mixing once where the range   *)
(* is not a multiple of the number of buckets.                              *)
Mix(u) == (u * 5 + 3) % 16
BucketHash(k, n) ==
    LET h == Hash64[k]
        u == h % n
    IN (IF (h - u) \div n < u THEN Mix(u) ELSE u) % n

(* What the writer made: the keys of a bucket as a search tree in an array, *)
(* the children of i being 2i + 1 and 2i + 2.                               *)
RECURSIVE Root(_, _, _)
Root(i, j, side) ==
    IF j < side THEN FALSE ELSE j = side \/ Root(i, (j - 1) \div 2, side)
LeftOf(i, j) == Root(i, j, 2 * i + 1)
RightOf(i, j) == Root(i, j, 2 * i + 2)
IsTree(s) ==
    \A i, j \in 0..(Len(s) - 1) :
        /\ LeftOf(i, j) => EntryHash[s[j + 1]] < EntryHash[s[i + 1]]
        /\ RightOf(i, j) => EntryHash[s[j + 1]] > EntryHash[s[i + 1]]
Orders(K) == {s \in [1..Cardinality(K) -> K] :
                {s[i] : i \in DOMAIN s} = K /\ IsTree(s)}
Distinct(K) == \A a, b \in K : EntryHash[a] = EntryHash[b] => a = b

Written(h, K) ==
    IF h.buckets = 0 THEN {[b \in {} |-> <<>>]}
    ELSE {t \in [0..(h.buckets - 1) -> UNION {Orders(B) : B \in SUBSET K}] :
            \A b \in DOMAIN t :
                LET B == {k \in K : BucketHash(k, h.buckets) = b}
                IN Distinct(B) /\ t[b] \in Orders(B)}

Before(t, b) == MapThenSumSet(LAMBDA c : Len(t[c]), {c \in DOMAIN t : c < b})
DataStart(h, t, b) == HeaderSize(h) + h.buckets * BucketHeaderSize + Before(t, b) * Stride(h)
FileSize(h, t) == DataStart(h, t, h.buckets)

Init ==
    /\ kind \in {"slot", "cid"}
    /\ head \in Heads
    /\ tree \in UNION {Written(head, K) : K \in SUBSET Keys}
    /\ \E m \in Missing : size = Max({FileSize(head, tree) - m, 0})
    /\ key \in Keys
    /\ step = "open" /\ index = 0 /\ result = "none"

Done(r) == step' = "done" /\ result' = r /\ UNCHANGED index

(* parse_metadata: each pair is a length and its bytes, twice; what the     *)
(* lengths promise has to be there.                                         *)
MetadataOk(h) ==
    FoldLeft(LAMBDA left, n : IF left = -1 \/ left < 1 + n THEN -1 ELSE left - 1 - n,
             h.len - Fields - 1, h.pairs) # -1
EmptyMetadata(h) == h.len = Fields

(* parse_compact_index_header over the bytes at hand.  Nothing checks that  *)
(* the length of the header covers its fixed fields before they are sliced. *)
Parse_Unchecked(h, have) == IF have < Fixed THEN "error" ELSE "ok"
Parse(h, have) ==
    CASE have < Fixed \/ ~h.magic -> "error"
      [] OTHER ->
           CASE have < HeaderSize(h) -> "error"
             [] have >= HeaderSize(h) /\ have < Fixed + Fields -> "panic"
             [] OTHER ->
                  CASE h.version # 1 -> "error"
                    [] h.version = 1 /\ h.len < Fields -> "panic"
                    [] OTHER ->
                         IF /\ EmptyMetadata(h) \/ MetadataOk(h)
                            /\ kind = "cid" => h.valueSize = ValueSize
                            /\ h.kind \in {kind, "unnamed"}
                         THEN "ok" ELSE "error"

(* The slot index parses the whole file; the cid index a first piece, and   *)
(* once more a longer one when the header is longer.                        *)
Fetched ==
    LET first == Min({size, Prefetch})
    IN CASE kind = "slot" -> size
         [] kind = "cid" /\ (first < Fixed \/ first >= HeaderSize(head)) -> first
         [] OTHER -> Min({size, HeaderSize(head)})

Open ==
    /\ step = "open"
    /\ IF Parse(head, Fetched) = "ok" THEN step' = "bucket" /\ UNCHANGED <<index, result>>
       ELSE Done(Parse(head, Fetched))
    /\ UNCHANGED <<kind, head, tree, size, key>>

Bucket == BucketHash(key, head.buckets)

HeaderEnd(b) == HeaderSize(head) + (b + 1) * BucketHeaderSize
DataEnd(b) == DataStart(head, tree, b) + Len(tree[b]) * Stride(head)

(* load_bucket: the header of the bucket and all of its entries have to be  *)
(* in the file in memory, or come back whole from the two fetches, of which *)
(* the second is not made for an empty bucket.                              *)
SlotBucketLoads(b) == HeaderEnd(b) <= size /\ DataEnd(b) <= size
RemoteBucketLoads(b) == HeaderEnd(b) <= size /\ (tree[b] = <<>> \/ DataEnd(b) <= size)

(* An index of no buckets divides by zero.                                  *)
LoadBucket ==
    /\ step = "bucket"
    /\ IF head.buckets = 0 THEN Done("panic")
       ELSE IF (IF kind = "slot" THEN SlotBucketLoads(Bucket) ELSE RemoteBucketLoads(Bucket))
            THEN step' = "search" /\ UNCHANGED <<index, result>>
            ELSE Done("error")
    /\ UNCHANGED <<kind, head, tree, size, key>>

Child_SameSide(i, h) == 2 * i + 1
Child(i, h) == 2 * i + 1 + (IF h < EntryHash[key] THEN 1 ELSE 0)

(* One round of the search.                                                 *)
Search ==
    /\ step = "search"
    /\ LET bucket == tree[Bucket]
       IN IF index >= Len(bucket) THEN Done("none")
          ELSE IF EntryHash[bucket[index + 1]] = EntryHash[key]
               THEN Done(bucket[index + 1])
               ELSE /\ index' = Child(index, EntryHash[bucket[index + 1]])
                    /\ UNCHANGED <<step, result>>
    /\ UNCHANGED <<kind, head, tree, size, key>>

Over == step = "done" /\ UNCHANGED vars
Next == Open \/ LoadBucket \/ Search \/ Over
Spec == Init /\ [][Next]_vars
-----------------------------------------------------------------------------
InFile == UNION {{tree[b][i] : i \in DOMAIN tree[b]} : b \in DOMAIN tree}

(* Types: and past the header, the header is in the file.                   *)
TypeOK ==
    /\ step \in {"bucket", "search"} => HeaderSize(head) <= size
    /\ kind \in {"slot", "cid"} /\ head \in Heads /\ key \in Keys
    /\ size \in 0..FileSize(head, tree)
    /\ step \in {"open", "bucket", "search", "done"}
    /\ index \in Nat
    /\ result \in {"none", "error", "panic"} \cup InFile

(* What is in the index is found, with its own value: a lookup of a key     *)
(* that was written never says "none", and what a lookup returns is the     *)
(* entry of the key or, for a key that was not written, one that collides   *)
(* with it in its bucket (index.rs lookup of SlotBucketData and             *)
(* RemoteBucketData).                                                       *)
FindsWritten ==
    step = "done" =>
        /\ key \in InFile => result \in {key, "error", "panic"}
        /\ result \in InFile => /\ EntryHash[result] = EntryHash[key]
                                /\ BucketHash(result, head.buckets) = Bucket

(* A file that lacks bytes of the header, or of the bucket that is asked    *)
(* for, or has another kind, is an error and never an answer.               *)
CutIsError ==
    (step = "done" /\ result \in {"none"} \cup InFile) =>
        /\ (tree[Bucket] # <<>> => size >= DataEnd(Bucket))
        /\ head.magic /\ head.version = 1 /\ head.kind \in {kind, "unnamed"}

(* A header that is not well formed is reported, it does not stop the       *)
(* thread (index.rs IndexFormatError, "Index payload was malformed").       *)
(* (Does not hold: README, Disagreements.)                                  *)
MalformedIsReported == result # "panic"
=============================================================================
