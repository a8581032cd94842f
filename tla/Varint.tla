------------------------------ MODULE Varint ------------------------------
(***************************************************************************)
(* The two decoders of variable-length integers: read_uvarint, byte by     *)
(* byte from a stream (jetstreamer-firehose/src/node_reader.rs), for the   *)
(* sizes of the archive's sections, and decode_varint over a buffer        *)
(* (index.rs), for the size of its header.  A byte carries Group bits of   *)
(* the value, low group first, and says whether another follows.  The code *)
(* has groups of 7 bits in integers of 64, so that one bit of the last     *)
(* byte is left; any Width that is one more than a multiple of Group has   *)
(* the same edge.                                                          *)
(***************************************************************************)
EXTENDS Integers, Sequences

CONSTANTS
    Group,     \* bits of the value in a byte: 7
    MaxLen,    \* MAX_VARINT_LEN_64: 10
    MaxBytes   \* bound: bytes of the input

VarintAssumption == Group \in Nat \ {0} /\ MaxLen \in Nat \ {0} /\ MaxBytes \in Nat

Base == 2 ^ Group
Width == Group * (MaxLen - 1) + 1
Bytes == 0..(2 * Base - 1)
More(b) == b >= Base

VARIABLES
    decoder,  \* "stream" or "buffer"
    input,    \* the bytes
    read,     \* how many were read
    x,        \* the value so far
    result
vars == <<decoder, input, read, x, result>>

Pending == [kind |-> "pending"]
Error == [kind |-> "error"]
Value(v) == [kind |-> "value", value |-> v, length |-> read + 1]

Init ==
    /\ decoder \in {"stream", "buffer"}
    /\ input \in UNION {[1..n -> Bytes] : n \in 0..MaxBytes}
    /\ read = 0 /\ x = 0 /\ result = Pending

Shift == Group * read
Add(b) == (x + (b % Base) * 2 ^ Shift) % 2 ^ Width
Overflows_Never(b) == FALSE
Overflows(b) == read = MaxLen - 1 /\ b > 1

(* A last byte; only the decoder of the stream looks whether it still fits. *)
LastByte ==
    /\ result = Pending /\ read < Len(input) /\ ~More(input[read + 1])
    /\ LET b == input[read + 1]
       IN result' = IF decoder = "stream" /\ Overflows(b) THEN Error ELSE Value(Add(b))
    /\ UNCHANGED <<decoder, input, read, x>>

TooLong_Early(shift) == shift >= Width - 1
TooLong(shift) == shift > Width - 1

MoreBytes ==
    /\ result = Pending /\ read < Len(input) /\ More(input[read + 1])
    /\ x' = Add(input[read + 1])
    /\ read' = read + 1
    /\ result' = IF TooLong(Shift + Group) THEN Error ELSE Pending
    /\ UNCHANGED <<decoder, input>>

(* The stream or the buffer ends within the number.                         *)
Ends ==
    /\ result = Pending /\ read = Len(input)
    /\ result' = Error
    /\ UNCHANGED <<decoder, input, read, x>>

Over == result # Pending /\ UNCHANGED vars
Next == LastByte \/ MoreBytes \/ Ends \/ Over
Spec == Init /\ [][Next]_vars
-----------------------------------------------------------------------------
(* The number that the bytes up to the first last one mean, without bounds. *)
Terminated == \E n \in DOMAIN input : ~More(input[n])
Length == CHOOSE n \in DOMAIN input :
              ~More(input[n]) /\ \A m \in 1..(n - 1) : More(input[m])
Meant ==
    LET sum[n \in 0..Len(input)] ==
          IF n = 0 THEN 0 ELSE sum[n - 1] + (input[n] % Base) * 2 ^ (Group * (n - 1))
    IN sum[Length]

TypeOK ==
    /\ read \in 0..MaxLen /\ x \in 0..(2 ^ Width - 1)
    /\ result.kind \in {"pending", "error", "value"}

(* Both decoders return what the bytes mean, and how many there were, for   *)
(* every number that fits the width and no more bytes than allowed.         *)
DecodesWhatFits ==
    (result # Pending /\ Terminated) =>
        ((Length <= MaxLen /\ Meant < 2 ^ Width)
            => result = [kind |-> "value", value |-> Meant, length |-> Length])

(* The stream's decoder never returns another number than the bytes mean:   *)
(* what does not fit, is too long or is cut off is an error.                *)
StreamIsExact ==
    (decoder = "stream" /\ result.kind = "value") =>
        Terminated /\ result.value = Meant /\ result.length = Length
=============================================================================
