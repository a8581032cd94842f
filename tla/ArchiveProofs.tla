--------------------------- MODULE ArchiveProofs ---------------------------
(***************************************************************************)
(* Proofs about the archive: the gate that paces the requests to it and    *)
(* its two users, the fetch of an index file and the seek of a reader, for *)
(* every number of clients, spacing, timeout and number of retries; where  *)
(* the two kinds of index find a slot, for every layout of an epoch; what  *)
(* the reader of an epoch hands over, for every archive, buffer and number *)
(* of faults; and what the shared slot index answers, for every number of  *)
(* callers and epochs and whatever versions of their files are published.  *)
(***************************************************************************)
EXTENDS HitGate, IndexCache, Sequences, FiniteSetsExt, FiniteSetTheorems, FunctionTheorems, WellFoundedInduction, TLAPS

CONSTANTS MaxRetries, BaseDelay, Backends, Wanted, Primes, OpTimeout
VARIABLES backend, ranged, fetch, sent, requests, answer, reader, timer, permits, seeks, sought

Fetch == INSTANCE RemoteFetch
Seeks == INSTANCE SeekPermits

CONSTANTS First, Last, Lengths, BlockSize, DataStart
VARIABLES present, entry, slot, candidate, step, result, lookupFaults

Lookup == INSTANCE SlotLookup WITH faults <- lookupFaults

CONSTANTS Sections, Capacity, Sequential
VARIABLES stream, position, conn, buffer, header, reading, want, got, readFaults

Reader == INSTANCE EpochReader WITH faults <- readFaults

-----------------------------------------------------------------------------
(* The least of a set of numbers.                                          *)

LEMMA LessRelation == IsWellFoundedOn({p \in Nat \X Nat : p[1] < p[2]}, Nat)
  BY NatLessThanWellFounded DEF OpToRel

\* Min of a set of numbers that is not empty is its least member.
LEMMA MinIs ==
  ASSUME NEW T \in SUBSET Nat, T # {}
  PROVE  Min(T) \in T /\ \A y \in T : Min(T) <= y
<1> DEFINE R == {p \in Nat \X Nat : p[1] < p[2]}
<1>1. PICK x \in T : \A y \in T : ~(<<y, x>> \in R)
  <2> HIDE DEF R
  <2> QED BY LessRelation, WFMin DEF R
<1>2. ASSUME NEW y \in T PROVE x <= y
  <2>1. y \in Nat /\ x \in Nat /\ <<y, x>> \notin R
    BY <1>1
  <2>2. ~(y < x)
    BY <2>1
  <2> QED BY <2>1, <2>2
<1> QED BY <1>2 DEF Min

-----------------------------------------------------------------------------
(* The gate.                                                               *)

GateSteps == {"outside", "clock", "stamp", "swap", "granted"}
GateRecords == [step : GateSteps, seen : 0 .. now, stamp : 0 .. now, wake : Nat]

\* A client that is about to swap has seen a clock an interval behind its stamp.
Ripe(c) == gate[c].step = "swap" => gate[c].stamp + Spacing <= gate[c].seen

GateInv ==
  /\ GateAssumption
  /\ now \in 0 .. MaxTime /\ last \in 0 .. now
  /\ gate \in [Clients -> GateRecords]
  /\ \A c \in Clients : Ripe(c)

\* What a client may do at the gate, alone or with a step of its own.
AtGate(c) == Enter(c) \/ Wait(c) \/ Leave(c) \/ Cancel(c)

LEMMA GateStarts == GateAssumption /\ GateInit => GateInv
<1> SUFFICES ASSUME GateAssumption, GateInit PROVE GateInv
  OBVIOUS
<1>1. Outside \in GateRecords
  BY DEF GateInit, GateRecords, GateSteps, Outside
<1>2. now \in 0 .. MaxTime /\ last \in 0 .. now
  BY DEF GateInit, GateAssumption
<1>. QED  BY <1>1, <1>2 DEF GateInit, GateInv, Ripe, Outside

\* A client's entry may be replaced by another one that is well formed.
LEMMA GateUpdate ==
  ASSUME GateInv, UNCHANGED now, NEW c \in Clients, NEW r \in GateRecords, gate' = [gate EXCEPT ![c] = r],
         r.step = "swap" => r.stamp + Spacing <= r.seen, last' \in 0 .. now
  PROVE  GateInv'
<1>1. gate' \in [Clients -> GateRecords] /\ GateRecords' = GateRecords
  BY DEF GateInv, GateRecords
<1>2. \A d \in Clients : d # c => gate'[d] = gate[d]
  BY DEF GateInv
<1>3. gate'[c] = r
  BY DEF GateInv
<1>4. \A d \in Clients : Ripe(d)'
  BY <1>2, <1>3 DEF GateInv, Ripe
<1>. QED  BY <1>1, <1>4 DEF GateInv, GateAssumption

\* The entries that a step makes of one that is well formed.
LEMMA GateEntries ==
  ASSUME GateInv, NEW g \in GateRecords, NEW w \in Nat
  PROVE  /\ Outside \in GateRecords
         /\ [Outside EXCEPT !.step = "granted"] \in GateRecords
         /\ [g EXCEPT !.step = "clock"] \in GateRecords
         /\ [g EXCEPT !.seen = now, !.step = "stamp"] \in GateRecords
         /\ [g EXCEPT !.step = "swap", !.stamp = last] \in GateRecords
         /\ [g EXCEPT !.step = "clock", !.wake = w] \in GateRecords
<1>1. /\ now \in 0 .. now /\ last \in 0 .. now /\ 0 \in 0 .. now /\ 0 \in Nat
      /\ {"outside", "clock", "stamp", "swap", "granted"} = GateSteps
  BY DEF GateInv, GateAssumption, GateSteps
<1> DEFINE T == 0 .. now
<1>2. now \in T /\ last \in T /\ 0 \in T /\ g \in [step : GateSteps, seen : T, stamp : T, wake : Nat]
  BY <1>1 DEF GateRecords
<1> HIDE DEF T
<1>3. [g EXCEPT !.seen = now, !.step = "stamp"] \in [step : GateSteps, seen : T, stamp : T, wake : Nat]
  BY <1>1, <1>2
<1>4. [g EXCEPT !.step = "swap", !.stamp = last] \in [step : GateSteps, seen : T, stamp : T, wake : Nat]
  BY <1>1, <1>2
<1>5. [g EXCEPT !.step = "clock", !.wake = w] \in [step : GateSteps, seen : T, stamp : T, wake : Nat]
  BY <1>1, <1>2
<1>6. [g EXCEPT !.step = "clock"] \in [step : GateSteps, seen : T, stamp : T, wake : Nat]
  BY <1>1, <1>2
<1>7. /\ Outside \in [step : GateSteps, seen : T, stamp : T, wake : Nat]
      /\ [Outside EXCEPT !.step = "granted"] \in [step : GateSteps, seen : T, stamp : T, wake : Nat]
  BY <1>1, <1>2 DEF Outside
<1>. QED  BY <1>3, <1>4, <1>5, <1>6, <1>7 DEF T, GateRecords

\* Each step at the gate keeps it, and stamps a permit only an interval behind the last.
LEMMA GateStep ==
  ASSUME GateInv, NEW c \in Clients, AtGate(c)
  PROVE  GateInv' /\ PermitsSpaced
<1>0. /\ now \in Nat /\ last \in 0 .. now /\ last \in Nat /\ last <= now /\ Spacing \in Nat \ {0}
      /\ gate[c] \in GateRecords
      /\ gate[c].seen \in 0 .. now /\ gate[c].stamp \in 0 .. now
  BY DEF GateInv, GateRecords, GateAssumption
<1>1. UNCHANGED now
  BY DEF AtGate, Enter, Wait, ReadClock, ReadStamp, Swap, Leave, Cancel
<1>2. \A r \in GateRecords :
        gate' = [gate EXCEPT ![c] = r] /\ UNCHANGED last
          /\ (r.step = "swap" => r.stamp + Spacing <= r.seen) => GateInv' /\ PermitsSpaced
  BY <1>0, <1>1, GateUpdate DEF PermitsSpaced
<1>3. CASE Enter(c)
  <2>1. [gate[c] EXCEPT !.step = "clock"].step = "clock"
    BY <1>0 DEF GateRecords
  <2>2. gate' = [gate EXCEPT ![c] = [gate[c] EXCEPT !.step = "clock"]] /\ UNCHANGED last
    BY <1>3 DEF Enter
  <2>. QED  BY <1>0, <1>2, <2>1, <2>2, GateEntries
<1>4. CASE Leave(c) \/ Cancel(c)
  <2>1. gate' = [gate EXCEPT ![c] = Outside] /\ UNCHANGED last /\ Outside.step # "swap"
    BY <1>4 DEF Leave, Cancel, Outside
  <2>. QED  BY <1>0, <1>2, <2>1, GateEntries
<1>5. CASE ReadClock(c)
  <2>1. [gate[c] EXCEPT !.seen = now, !.step = "stamp"].step = "stamp"
    BY <1>0 DEF GateRecords
  <2>2. gate' = [gate EXCEPT ![c] = [gate[c] EXCEPT !.seen = now, !.step = "stamp"]] /\ UNCHANGED last
    BY <1>5 DEF ReadClock
  <2>. QED  BY <1>0, <1>2, <2>1, <2>2, GateEntries
<1>6. CASE ReadStamp(c)
  <2> DEFINE since == Monus(gate[c].seen, last)
             w == IF Sleeps THEN now + Spacing - since ELSE now
  <2>1. since \in Nat /\ UNCHANGED last
    BY <1>0, <1>6 DEF Monus, ReadStamp
  <2>2. CASE since < Spacing
    <3>1. w \in Nat
      BY <1>0, <2>1, <2>2
    <3>2. gate' = [gate EXCEPT ![c] = [gate[c] EXCEPT !.step = "clock", !.wake = w]]
      BY <1>6, <2>2 DEF ReadStamp
    <3>3. [gate[c] EXCEPT !.step = "clock", !.wake = w].step = "clock"
      BY <1>0 DEF GateRecords
    <3> HIDE DEF w
    <3>. QED  BY <1>0, <1>2, <2>1, <3>1, <3>2, <3>3, GateEntries
  <2>3. CASE ~(since < Spacing)
    <3>1. last + Spacing <= gate[c].seen
      BY <1>0, <2>3 DEF Monus
    <3>2. gate' = [gate EXCEPT ![c] = [gate[c] EXCEPT !.step = "swap", !.stamp = last]]
      BY <1>6, <2>3 DEF ReadStamp
    <3>3. /\ [gate[c] EXCEPT !.step = "swap", !.stamp = last].stamp = last
          /\ [gate[c] EXCEPT !.step = "swap", !.stamp = last].seen = gate[c].seen
      BY <1>0 DEF GateRecords
    <3>. QED  BY <1>0, <1>2, <2>1, <3>1, <3>2, <3>3, GateEntries
  <2>. QED  BY <2>2, <2>3
<1>7. CASE Swap(c)
  <2>1. gate[c].stamp + Spacing <= gate[c].seen
    BY <1>7 DEF Swap, GateInv, Ripe
  <2>2. CASE StillLast(c)
    <3>1. gate' = [gate EXCEPT ![c] = [Outside EXCEPT !.step = "granted"]]
      BY <1>7, <2>2 DEF Swap
    <3>2. last' = gate[c].seen /\ last = gate[c].stamp
      BY <1>7, <2>2 DEF Swap, StillLast
    <3>3. [Outside EXCEPT !.step = "granted"].step = "granted"
      BY DEF Outside
    <3>4. [Outside EXCEPT !.step = "granted"] \in GateRecords
      BY <1>0, GateEntries
    <3>. QED  BY <1>0, <1>1, <2>1, <3>1, <3>2, <3>3, <3>4, GateUpdate DEF PermitsSpaced
  <2>3. CASE ~StillLast(c)
    <3> DEFINE w == IF Sleeps THEN now + Spacing ELSE now
    <3>1. w \in Nat
      BY <1>0
    <3>2. gate' = [gate EXCEPT ![c] = [gate[c] EXCEPT !.step = "clock", !.wake = w]] /\ UNCHANGED last
      BY <1>7, <2>3 DEF Swap
    <3>3. [gate[c] EXCEPT !.step = "clock", !.wake = w].step = "clock"
      BY <1>0 DEF GateRecords
    <3> HIDE DEF w
    <3>. QED  BY <1>0, <1>2, <3>1, <3>2, <3>3, GateEntries
  <2>. QED  BY <2>2, <2>3
<1>. QED  BY <1>3, <1>4, <1>5, <1>6, <1>7 DEF AtGate, Wait

\* Time passes, or something happens elsewhere.
LEMMA GateElsewhere ==
  ASSUME GateInv, GateTick \/ UNCHANGED gateVars
  PROVE  GateInv' /\ PermitsSpaced
<1>1. CASE GateTick
  <2>1. now' \in 0 .. MaxTime /\ last' \in 0 .. now' /\ now' = now + 1 /\ now \in Nat
    BY <1>1 DEF GateTick, GateInv, GateAssumption
  <2>2. GateRecords \subseteq GateRecords'
    BY <2>1 DEF GateRecords
  <2>. QED  BY <1>1, <2>1, <2>2 DEF GateInv, Ripe, GateTick, PermitsSpaced, GateAssumption
<1>2. CASE UNCHANGED gateVars
  BY <1>2 DEF gateVars, GateInv, Ripe, PermitsSpaced, GateAssumption, GateRecords
<1>. QED  BY <1>1, <1>2

LEMMA GateTypes == GateInv => GateTypeOK
BY DEF GateInv, GateTypeOK, GateRecords, GateSteps

\* What the step of a client at the gate means for the permits: it takes none and gives none
\* up, or the swap stamps one an interval behind the last, or the client goes on with it.
LEMMA GateTakes ==
  ASSUME GateInv, NEW c \in Clients, AtGate(c)
  PROVE  /\ \A d \in Clients : d # c => gate'[d] = gate[d]
         /\ \/ UNCHANGED last /\ gate[c].step # "granted" /\ gate'[c].step # "granted"
            \/ last' >= last + Spacing /\ gate[c].step = "swap" /\ gate'[c].step = "granted"
            \/ UNCHANGED last /\ Leave(c) /\ gate[c].step = "granted" /\ gate'[c].step = "outside"
<1>1. gate \in [Clients -> GateRecords]
  BY DEF GateInv
<1>2. \A d \in Clients : d # c => gate'[d] = gate[d]
  BY <1>1 DEF AtGate, Enter, Wait, ReadClock, ReadStamp, Swap, Leave, Cancel
<1>3. CASE Enter(c) \/ ReadClock(c) \/ ReadStamp(c) \/ Cancel(c)
  BY <1>1, <1>2, <1>3 DEF Enter, ReadClock, ReadStamp, Cancel, GateRecords, Outside
<1>4. CASE Leave(c)
  BY <1>1, <1>2, <1>4 DEF Leave, GateRecords, Outside
<1>5. CASE Swap(c)
  <2>1. CASE StillLast(c)
    <3>1. gate[c].stamp + Spacing <= gate[c].seen /\ last = gate[c].stamp /\ last' = gate[c].seen
      BY <1>5, <2>1 DEF Swap, StillLast, GateInv, Ripe
    <3>2. gate'[c].step = "granted" /\ gate[c].step = "swap"
      BY <1>1, <1>5, <2>1 DEF Swap, Outside
    <3>. QED  BY <1>2, <3>1, <3>2
  <2>2. CASE ~StillLast(c)
    BY <1>1, <1>2, <1>5, <2>2 DEF Swap, GateRecords
  <2>. QED  BY <2>1, <2>2
<1>. QED  BY <1>3, <1>4, <1>5 DEF AtGate, Wait

\* n requests that were sent and those whose permits S are still to be used fit into the
\* time up to the stamp l.
Within(n, S, l) == (n + Cardinality(S)) * Spacing <= l

\* A permit may be lost, one may be taken an interval later, and one may be used.
LEMMA Budgets ==
  ASSUME NEW S, IsFiniteSet(S), NEW n \in Nat, NEW l \in Int, Spacing \in Nat, Within(n, S, l)
  PROVE  /\ \A T \in SUBSET S, m \in Int : l <= m => Within(n, T, m)
         /\ \A x : \A m \in Int : l + Spacing <= m => Within(n, S \cup {x}, m)
         /\ \A x \in S : Within(n + 1, S \ {x}, l)
         /\ n * Spacing <= l
<1>1. Cardinality(S) \in Nat /\ (n + Cardinality(S)) * Spacing <= l
  BY FS_CardinalityType DEF Within
<1>2. \A i, j \in Nat : i <= j => i * Spacing <= j * Spacing
  OBVIOUS
<1>3. \A i \in Nat : (i + 1) * Spacing = i * Spacing + Spacing /\ i * Spacing \in Nat
  OBVIOUS
<1>4. ASSUME NEW T \in SUBSET S, NEW m \in Int, l <= m PROVE Within(n, T, m)
  <2>1. Cardinality(T) \in Nat /\ Cardinality(T) <= Cardinality(S)
    BY FS_Subset, FS_CardinalityType
  <2>2. n + Cardinality(T) \in Nat /\ n + Cardinality(S) \in Nat /\ n + Cardinality(T) <= n + Cardinality(S)
    BY <1>1, <2>1
  <2>3. (n + Cardinality(T)) * Spacing <= (n + Cardinality(S)) * Spacing
    BY <1>2, <2>2
  <2>. QED  BY <1>1, <1>3, <1>4, <2>2, <2>3 DEF Within
<1>5. ASSUME NEW x, NEW m \in Int, l + Spacing <= m PROVE Within(n, S \cup {x}, m)
  <2> DEFINE i == n + Cardinality(S)
  <2>1. i \in Nat /\ i * Spacing <= l
    BY <1>1
  <2>2. n + Cardinality(S \cup {x}) = i \/ n + Cardinality(S \cup {x}) = i + 1
    <3>1. Cardinality(S \cup {x}) = Cardinality(S) \/ Cardinality(S \cup {x}) = Cardinality(S) + 1
      BY FS_AddElement
    <3>. QED  BY <1>1, <3>1
  <2> HIDE DEF i
  <2>3. i * Spacing \in Nat /\ (i + 1) * Spacing = i * Spacing + Spacing
    BY <1>3, <2>1
  <2>4. i * Spacing <= m /\ (i + 1) * Spacing <= m
    BY <1>5, <2>1, <2>3
  <2>. QED  BY <2>2, <2>4 DEF Within
<1>6. ASSUME NEW x \in S PROVE Within(n + 1, S \ {x}, l)
  <2>1. Cardinality(S \ {x}) = Cardinality(S) - 1
    BY FS_RemoveElement
  <2>2. (n + 1) + Cardinality(S \ {x}) = n + Cardinality(S)
    BY <1>1, <2>1
  <2>. QED  BY <1>1, <2>2 DEF Within
<1>7. n * Spacing <= l
  <2>1. n <= n + Cardinality(S) /\ n + Cardinality(S) \in Nat
    BY <1>1
  <2>. QED  BY <1>1, <1>2, <1>3, <2>1
<1>. QED  BY <1>4, <1>5, <1>6, <1>7

-----------------------------------------------------------------------------
(* The seeks of the readers.                                               *)

\* SeekPermits and RemoteFetch extend HitGate: their gate is this one.
LEMMA SeeksGate ==
  /\ Seeks!GateInit <=> GateInit
  /\ Seeks!GateTypeOK <=> GateTypeOK
  /\ Seeks!PermitsSpaced <=> PermitsSpaced
  /\ Seeks!GateTick <=> GateTick
  /\ Seeks!gateVars = gateVars
  /\ \A c : /\ Seeks!Enter(c) <=> Enter(c)
            /\ Seeks!Wait(c) <=> Wait(c)
            /\ Seeks!Leave(c) <=> Leave(c)
            /\ Seeks!Cancel(c) <=> Cancel(c)
BY DEF Seeks!GateInit, GateInit, Seeks!GateTypeOK, GateTypeOK, Seeks!PermitsSpaced, PermitsSpaced,
  Seeks!GateTick, GateTick, Seeks!gateVars, gateVars, Seeks!Enter, Enter, Seeks!Wait, Wait,
  Seeks!ReadClock, ReadClock, Seeks!ReadStamp, ReadStamp, Seeks!Swap, Swap, Seeks!Leave, Leave,
  Seeks!Cancel, Cancel, Seeks!Outside, Outside, Seeks!Monus, Monus, Seeks!StillLast, StillLast

ReaderSteps == {"opened", "priming", "index", "waiting", "seek", "reading"}

\* A permit that was taken and not yet used for a seek.
Holds(c) == reader[c].primed \/ reader[c].step = "seek"

\* A reader is at the gate only while it primes or waits for a permit of its own; one
\* that takes its permit ahead holds it from then on until it seeks or is dropped.
SeekKept(c) ==
  /\ timer[c] <= now
  /\ reader[c].primed => reader[c].step = "index"
  /\ gate[c].step # "outside" => reader[c].step \in {"priming", "waiting"}
  /\ c \in Primes => reader[c].step # "waiting" /\ (reader[c].step = "index" => reader[c].primed)
  /\ seeks[c] <= permits[c] /\ (Holds(c) => seeks[c] < permits[c])

SeekInv ==
  /\ GateInv
  /\ reader \in [Clients -> [step : ReaderSteps, primed : BOOLEAN]]
  /\ timer \in [Clients -> Nat] /\ permits \in [Clients -> Nat] /\ seeks \in [Clients -> Nat]
  /\ \A c \in Clients : SeekKept(c)

LEMMA SeekStarts == GateAssumption /\ Seeks!Init => SeekInv
<1> SUFFICES ASSUME GateAssumption, Seeks!Init PROVE SeekInv
  OBVIOUS
<1>1. GateInv /\ gate = [c \in Clients |-> Outside] /\ now = 0
  BY GateStarts, SeeksGate DEF Seeks!Init, GateInit
<1>. QED  BY <1>1 DEF Seeks!Init, Seeks!Fresh, SeekInv, SeekKept, Holds, ReaderSteps, Outside

\* The step of one client leaves the others where they are.
LEMMA SeekOthers ==
  ASSUME SeekInv, NEW c \in Clients, AtGate(c) \/ UNCHANGED gateVars, NEW r \in [step : ReaderSteps, primed : BOOLEAN],
         reader' = [reader EXCEPT ![c] = r], NEW n \in Nat, timer' = [timer EXCEPT ![c] = n],
         NEW p \in Nat, permits' = [permits EXCEPT ![c] = p], NEW q \in Nat, seeks' = [seeks EXCEPT ![c] = q],
         SeekKept(c)'
  PROVE  SeekInv' /\ PermitsSpaced
<1>1. GateInv' /\ PermitsSpaced /\ now' = now
  BY GateStep, GateElsewhere DEF SeekInv, AtGate, Enter, Wait, ReadClock, ReadStamp, Swap, Leave, Cancel, gateVars
<1>2. \A d \in Clients : d # c => gate'[d] = gate[d]
  BY DEF SeekInv, GateInv, AtGate, Enter, Wait, ReadClock, ReadStamp, Swap, Leave, Cancel, gateVars
<1>3. \A d \in Clients : d # c => SeekKept(d)'
  BY <1>1, <1>2 DEF SeekInv, SeekKept, Holds
<1>. QED  BY <1>1, <1>3 DEF SeekInv

\* The gate's step of a client that goes, leaves, or waits on.
LEMMA GateMoves ==
  ASSUME GateInv, NEW c \in Clients
  PROVE  /\ Wait(c) => gate[c].step # "outside"
         /\ Leave(c) \/ Cancel(c) => gate'[c].step = "outside"
         /\ AtGate(c) \/ UNCHANGED gateVars => now' = now
BY DEF GateInv, Wait, ReadClock, ReadStamp, Swap, Leave, Cancel, AtGate, Enter, gateVars, Outside

SeekStates == [step : ReaderSteps, primed : BOOLEAN]

\* The entries that a step makes of a reader's, and the counters of one client.
LEMMA SeekEntries ==
  ASSUME SeekInv, NEW c \in Clients
  PROVE  /\ reader[c] \in SeekStates /\ Seeks!Fresh \in SeekStates
         /\ [step |-> "seek", primed |-> FALSE] \in SeekStates
         /\ \A s \in ReaderSteps : [reader[c] EXCEPT !.step = s] \in SeekStates
                                    /\ [reader[c] EXCEPT !.step = s].step = s
                                    /\ [reader[c] EXCEPT !.step = s].primed = reader[c].primed
         /\ reader = [reader EXCEPT ![c] = reader[c]]
         /\ timer = [timer EXCEPT ![c] = timer[c]] /\ timer[c] \in Nat
         /\ permits = [permits EXCEPT ![c] = permits[c]] /\ permits[c] \in Nat
         /\ seeks = [seeks EXCEPT ![c] = seeks[c]] /\ seeks[c] \in Nat
         /\ now \in Nat
<1>1. reader[c] \in SeekStates
  BY DEF SeekInv, SeekStates
<1>2. \A s \in ReaderSteps : [reader[c] EXCEPT !.step = s] \in SeekStates
                              /\ [reader[c] EXCEPT !.step = s].step = s
                              /\ [reader[c] EXCEPT !.step = s].primed = reader[c].primed
  BY <1>1 DEF SeekStates
<1>3. Seeks!Fresh \in SeekStates /\ [step |-> "seek", primed |-> FALSE] \in SeekStates
  BY DEF Seeks!Fresh, SeekStates, ReaderSteps
<1>4. reader = [reader EXCEPT ![c] = reader[c]]
  BY DEF SeekInv
<1>5. timer = [timer EXCEPT ![c] = timer[c]] /\ timer[c] \in Nat
  BY DEF SeekInv
<1>6. permits = [permits EXCEPT ![c] = permits[c]] /\ permits[c] \in Nat
  BY DEF SeekInv
<1>7. seeks = [seeks EXCEPT ![c] = seeks[c]] /\ seeks[c] \in Nat
  BY DEF SeekInv
<1>8. now \in Nat
  BY DEF SeekInv, GateInv, GateAssumption
<1>. QED  BY <1>1, <1>2, <1>3, <1>4, <1>5, <1>6, <1>7, <1>8

\* Each step of a client keeps what the permits rest on.
LEMMA SeekClient ==
  ASSUME SeekInv, NEW c \in Clients,
         \/ Seeks!Prime(c) \/ Seeks!PrimeEnds(c) \/ Seeks!SeekUnprimed(c) \/ Seeks!OffsetKnown(c)
         \/ Seeks!WaitEnds(c) \/ Seeks!Waits(c) \/ Seeks!Seek(c) \/ Seeks!Drop(c) \/ Seeks!TimeOut(c)
  PROVE  SeekInv' /\ PermitsSpaced
<1>g. GateInv /\ SeekKept(c)
  BY DEF SeekInv
<1> DEFINE R(r, n, p, q) == /\ reader' = [reader EXCEPT ![c] = r] /\ timer' = [timer EXCEPT ![c] = n]
                            /\ permits' = [permits EXCEPT ![c] = p] /\ seeks' = [seeks EXCEPT ![c] = q]
<1>o. \A r \in SeekStates, n \in Nat, p \in Nat, q \in Nat :
        R(r, n, p, q) /\ (AtGate(c) \/ UNCHANGED gateVars) /\ SeekKept(c)' => SeekInv' /\ PermitsSpaced
  BY SeekOthers DEF SeekStates
<1>v. \A r \in SeekStates, n \in Nat, p \in Nat, q \in Nat :
        R(r, n, p, q) => reader'[c] = r /\ timer'[c] = n /\ permits'[c] = p /\ seeks'[c] = q
  BY DEF SeekInv
<1> HIDE DEF R
<1>1. CASE Seeks!Prime(c)
  <2> DEFINE r == [reader[c] EXCEPT !.step = "priming"]
  <2>1. AtGate(c) /\ reader[c].step = "opened" /\ c \in Primes
    BY <1>1, SeeksGate DEF Seeks!Prime, AtGate
  <2>2. r \in SeekStates /\ r.step = "priming" /\ r.primed = reader[c].primed
    BY SeekEntries DEF ReaderSteps
  <2>3. R(r, timer[c], permits[c], seeks[c])
    BY <1>1, SeekEntries DEF R, Seeks!Prime
  <2> HIDE DEF r
  <2>4. SeekKept(c)'
    BY <1>g, <1>v, <2>1, <2>2, <2>3, GateMoves, SeekEntries DEF SeekKept, Holds
  <2>. QED  BY <1>o, <2>1, <2>2, <2>3, <2>4, SeekEntries
<1>2. CASE Seeks!PrimeEnds(c)
  <2> DEFINE r == [reader[c] EXCEPT !.primed = TRUE, !.step = "index"]
  <2>1. AtGate(c) /\ Leave(c)
    BY <1>2, SeeksGate DEF Seeks!PrimeEnds, AtGate
  <2>2. r \in SeekStates /\ r.step = "index" /\ r.primed = TRUE
    BY SeekEntries DEF SeekStates, ReaderSteps
  <2>3. R(r, now, permits[c] + 1, seeks[c])
    BY <1>2, SeekEntries DEF R, Seeks!PrimeEnds, Seeks!Primed
  <2> HIDE DEF r
  <2>4. SeekKept(c)'
    <3>1. permits[c] + 1 \in Nat /\ permits[c] \in Nat /\ seeks[c] \in Nat /\ now \in Nat
      BY SeekEntries
    <3>2. reader'[c] = r /\ timer'[c] = now /\ permits'[c] = permits[c] + 1 /\ seeks'[c] = seeks[c]
      BY <1>v, <2>2, <2>3, <3>1
    <3>3. now' = now /\ gate'[c].step = "outside"
      BY <1>g, <2>1, GateMoves
    <3>. QED  BY <1>g, <2>2, <3>1, <3>2, <3>3 DEF SeekKept, Holds
  <2>5. permits[c] + 1 \in Nat
    BY SeekEntries
  <2>. QED  BY <1>o, <2>1, <2>2, <2>3, <2>4, <2>5, SeekEntries
<1>3. CASE Seeks!SeekUnprimed(c)
  <2> DEFINE r == [reader[c] EXCEPT !.step = "index"]
  <2>1. UNCHANGED gateVars /\ reader[c].step = "opened" /\ c \notin Primes
    BY <1>3 DEF Seeks!SeekUnprimed, Seeks!gateVars, gateVars
  <2>2. r \in SeekStates /\ r.step = "index" /\ r.primed = reader[c].primed
    BY SeekEntries DEF ReaderSteps
  <2>3. R(r, now, permits[c], seeks[c])
    BY <1>3, SeekEntries DEF R, Seeks!SeekUnprimed
  <2> HIDE DEF r
  <2>4. SeekKept(c)'
    BY <1>g, <1>v, <2>1, <2>2, <2>3, SeekEntries DEF SeekKept, Holds, gateVars
  <2>. QED  BY <1>o, <2>1, <2>2, <2>3, <2>4, SeekEntries
<1>4. CASE Seeks!OffsetKnown(c)
  <2>1. CASE reader[c].primed
    <3> DEFINE r == [step |-> "seek", primed |-> FALSE]
    <3>1. UNCHANGED gateVars /\ R(r, timer[c], permits[c], seeks[c])
      BY <1>4, <2>1, SeekEntries DEF Seeks!OffsetKnown, Seeks!Taken, R, Seeks!gateVars, gateVars
    <3>2. r \in SeekStates /\ r.step = "seek" /\ r.primed = FALSE
      BY SeekEntries
    <3> HIDE DEF r
    <3>3. SeekKept(c)'
      BY <1>g, <1>v, <2>1, <3>1, <3>2, SeekEntries DEF SeekKept, Holds, gateVars
    <3>. QED  BY <1>o, <3>1, <3>2, <3>3, SeekEntries
  <2>2. CASE ~reader[c].primed
    <3> DEFINE r == [reader[c] EXCEPT !.step = "waiting"]
    <3>1. AtGate(c) /\ Enter(c) /\ reader[c].step = "index" /\ R(r, timer[c], permits[c], seeks[c])
      BY <1>4, <2>2, SeekEntries, SeeksGate DEF Seeks!OffsetKnown, AtGate, R
    <3>2. r \in SeekStates /\ r.step = "waiting" /\ r.primed = reader[c].primed
      BY SeekEntries DEF ReaderSteps
    <3> HIDE DEF r
    <3>3. SeekKept(c)'
      BY <1>g, <1>v, <2>2, <3>1, <3>2, SeekEntries, GateMoves DEF SeekKept, Holds
    <3>. QED  BY <1>o, <3>1, <3>2, <3>3, SeekEntries
  <2>. QED  BY <2>1, <2>2
<1>5. CASE Seeks!WaitEnds(c)
  <2> DEFINE r == [reader[c] EXCEPT !.step = "seek"]
  <2>1. AtGate(c) /\ Leave(c) /\ reader[c].step = "waiting"
    BY <1>5, SeeksGate DEF Seeks!WaitEnds, AtGate
  <2>2. r \in SeekStates /\ r.step = "seek" /\ r.primed = reader[c].primed
    BY SeekEntries DEF ReaderSteps
  <2>3. R(r, timer[c], permits[c] + 1, seeks[c])
    BY <1>5, SeekEntries DEF R, Seeks!WaitEnds
  <2> HIDE DEF r
  <2>4. SeekKept(c)'
    <3>1. permits[c] + 1 \in Nat /\ permits[c] \in Nat /\ seeks[c] \in Nat /\ timer[c] \in Nat
      BY SeekEntries
    <3>2. reader'[c] = r /\ timer'[c] = timer[c] /\ permits'[c] = permits[c] + 1 /\ seeks'[c] = seeks[c]
      BY <1>v, <2>2, <2>3, <3>1
    <3>3. now' = now /\ gate'[c].step = "outside"
      BY <1>g, <2>1, GateMoves
    <3>. QED  BY <1>g, <2>1, <2>2, <3>1, <3>2, <3>3 DEF SeekKept, Holds
  <2>5. permits[c] + 1 \in Nat
    BY SeekEntries
  <2>. QED  BY <1>o, <2>1, <2>2, <2>3, <2>4, <2>5, SeekEntries
<1>6. CASE Seeks!Waits(c)
  <2>1. AtGate(c) /\ Wait(c) /\ R(reader[c], timer[c], permits[c], seeks[c])
    BY <1>6, SeekEntries, SeeksGate DEF Seeks!Waits, AtGate, R
  <2>2. SeekKept(c)'
    BY <1>g, <1>v, <2>1, SeekEntries, GateMoves DEF SeekKept, Holds
  <2>. QED  BY <1>o, <2>1, <2>2, SeekEntries
<1>7. CASE Seeks!Seek(c)
  <2> DEFINE r == [reader[c] EXCEPT !.step = "reading"]
  <2>1. UNCHANGED gateVars /\ reader[c].step = "seek" /\ R(r, timer[c], permits[c], seeks[c] + 1)
    BY <1>7, SeekEntries DEF Seeks!Seek, R, Seeks!gateVars, gateVars
  <2>2. r \in SeekStates /\ r.step = "reading" /\ r.primed = reader[c].primed
    BY SeekEntries DEF ReaderSteps
  <2> HIDE DEF r
  <2>3. SeekKept(c)'
    BY <1>g, <1>v, <2>1, <2>2, SeekEntries DEF SeekKept, Holds, gateVars
  <2>. QED  BY <1>o, <2>1, <2>2, <2>3, SeekEntries
<1>8. CASE Seeks!Drop(c) \/ Seeks!TimeOut(c)
  <2>1. R(Seeks!Fresh, timer[c], permits[c], seeks[c])
    BY <1>8, SeekEntries DEF Seeks!Drop, Seeks!TimeOut, Seeks!Closed, R
  <2>2. Cancel(c) \/ (UNCHANGED gateVars /\ gate[c].step = "outside")
    BY <1>8, <1>g, SeeksGate DEF Seeks!Drop, Seeks!TimeOut, SeekKept, Seeks!gateVars, gateVars
  <2>3. SeekKept(c)'
    BY <1>g, <1>v, <2>1, <2>2, SeekEntries, GateMoves DEF SeekKept, Holds, gateVars, AtGate, Seeks!Fresh
  <2>. QED  BY <1>o, <2>1, <2>2, <2>3, SeekEntries DEF AtGate
<1>. QED  BY <1>1, <1>2, <1>3, <1>4, <1>5, <1>6, <1>7, <1>8

LEMMA SeekStep == SeekInv /\ [Seeks!Next]_(Seeks!vars) => SeekInv' /\ PermitsSpaced
<1> SUFFICES ASSUME SeekInv, [Seeks!Next]_(Seeks!vars) PROVE SeekInv' /\ PermitsSpaced
  OBVIOUS
<1>1. CASE Seeks!Tick \/ Seeks!Over \/ UNCHANGED Seeks!vars
  <2>1. GateTick \/ UNCHANGED gateVars
    BY <1>1, SeeksGate DEF Seeks!Tick, Seeks!Over, Seeks!vars, gateVars
  <2>2. UNCHANGED <<reader, timer, permits, seeks>>
    BY <1>1 DEF Seeks!Tick, Seeks!Over, Seeks!vars
  <2>3. GateInv' /\ PermitsSpaced
    BY <2>1, GateElsewhere DEF SeekInv
  <2>4. now' \in Nat /\ now \in Nat /\ now <= now' /\ UNCHANGED gate
    BY <2>1 DEF GateTick, gateVars, SeekInv, GateInv, GateAssumption
  <2>. QED  BY <2>2, <2>3, <2>4 DEF SeekInv, SeekKept, Holds
<1>. QED  BY <1>1, SeekClient DEF Seeks!Next

\* Whatever the number of threads, the spacing and the timeout of a seek, the seek gate and
\* the readers that use it (node_reader.rs prime_seek_permit, seek_to_offset) keep to the
\* states that the model has for them.
THEOREM SeekTypes == GateAssumption /\ Seeks!Spec => [](Seeks!TypeOK)
<1>1. GateAssumption /\ Seeks!Init => SeekInv
  BY SeekStarts
<1>2. SeekInv /\ [Seeks!Next]_(Seeks!vars) => SeekInv'
  BY SeekStep
<1>3. SeekInv => Seeks!TypeOK
  <2> SUFFICES ASSUME SeekInv PROVE Seeks!TypeOK
    OBVIOUS
  <2>1. Seeks!GateTypeOK
    BY GateTypes, SeeksGate DEF SeekInv
  <2>2. ASSUME NEW c \in Clients PROVE timer[c] \in 0 .. now
    BY DEF SeekInv, SeekKept, GateInv, GateAssumption
  <2>. QED  BY <2>1, <2>2 DEF Seeks!TypeOK, SeekInv, SeekKept, ReaderSteps
<1>. QED  BY <1>1, <1>2, <1>3, PTL DEF Seeks!Spec

\* The stamps of two permits of the seeks are at least an interval apart, whoever asks, is
\* dropped or times out at the gate meanwhile (node_reader.rs wait_for_seek_hit_slot).
THEOREM SeekStampsSpaced == GateAssumption /\ Seeks!Spec => [][Seeks!PermitsSpaced]_(Seeks!vars)
<1>1. GateAssumption /\ Seeks!Init => SeekInv
  BY SeekStarts
<1>2. SeekInv /\ [Seeks!Next]_(Seeks!vars) => SeekInv' /\ Seeks!PermitsSpaced
  BY SeekStep, SeeksGate
<1>. QED  BY <1>1, <1>2, PTL DEF Seeks!Spec

\* The clients that were given a permit and have not used it for a seek nor lost it.
InHand == {c \in Clients : gate[c].step = "granted" \/ Holds(c)}

SeekBudget == sought \in Nat /\ Within(sought, InHand, last)

\* Apart from the seek itself, a client only comes by a permit when one is stamped.
LEMMA PermitMoves ==
  ASSUME SeekInv, NEW c \in Clients,
         \/ Seeks!Prime(c) \/ Seeks!PrimeEnds(c) \/ Seeks!SeekUnprimed(c) \/ Seeks!OffsetKnown(c)
         \/ Seeks!WaitEnds(c) \/ Seeks!Waits(c) \/ Seeks!Drop(c) \/ Seeks!TimeOut(c)
  PROVE  /\ UNCHANGED sought
         /\ \/ UNCHANGED last /\ InHand' \subseteq InHand
            \/ last' >= last + Spacing /\ InHand' \subseteq InHand \cup {c}
<1>1. GateInv /\ SeekKept(c) /\ reader \in [Clients -> SeekStates]
  BY DEF SeekInv, SeekStates
<1>2. ASSUME \A d \in Clients : d # c => gate'[d] = gate[d] /\ reader'[d] = reader[d]
      PROVE  /\ InHand' \subseteq InHand \cup {c}
             /\ ((gate'[c].step = "granted" \/ Holds(c)') => (gate[c].step = "granted" \/ Holds(c)))
                  => InHand' \subseteq InHand
  BY <1>2 DEF InHand, Holds
<1>3. CASE Seeks!Prime(c) \/ Seeks!Waits(c)
  <2>1. AtGate(c) /\ ~Leave(c) /\ UNCHANGED sought
    BY <1>3, SeeksGate DEF Seeks!Prime, Seeks!Waits, AtGate, Enter, Wait, ReadClock, ReadStamp, Swap, Leave
  <2>2. /\ \A d \in Clients : d # c => reader'[d] = reader[d]
        /\ Holds(c)' => Holds(c)
    BY <1>1, <1>3 DEF Seeks!Prime, Seeks!Waits, Holds, SeekStates
  <2>. QED  BY <1>1, <1>2, <2>1, <2>2, GateTakes
<1>4. CASE Seeks!PrimeEnds(c) \/ Seeks!WaitEnds(c)
  <2>1. Leave(c) /\ UNCHANGED sought /\ \A d \in Clients : d # c => reader'[d] = reader[d]
    BY <1>1, <1>4, SeeksGate DEF Seeks!PrimeEnds, Seeks!WaitEnds, Seeks!Primed
  <2>2. /\ gate[c].step = "granted" /\ UNCHANGED last
        /\ \A d \in Clients : d # c => gate'[d] = gate[d]
    BY <1>1, <2>1 DEF Leave, GateInv
  <2>. QED  BY <1>2, <2>1, <2>2
<1>5. CASE Seeks!SeekUnprimed(c)
  <2>1. UNCHANGED <<sought, gate, last>> /\ reader' = [reader EXCEPT ![c].step = "index"]
    BY <1>5 DEF Seeks!SeekUnprimed, Seeks!gateVars
  <2>2. (\A d \in Clients : d # c => reader'[d] = reader[d]) /\ (Holds(c)' => Holds(c))
    BY <1>1, <2>1 DEF Holds, SeekStates
  <2>. QED  BY <1>2, <2>1, <2>2
<1>6. CASE Seeks!OffsetKnown(c)
  <2>1. CASE reader[c].primed
    <3>1. UNCHANGED <<sought, gate, last>> /\ \A d \in Clients : d # c => reader'[d] = reader[d]
      BY <1>1, <1>6, <2>1 DEF Seeks!OffsetKnown, Seeks!Taken, Seeks!gateVars
    <3>. QED  BY <1>2, <2>1, <3>1 DEF Holds
  <2>2. CASE ~reader[c].primed
    <3>1. Enter(c) /\ UNCHANGED sought /\ reader' = [reader EXCEPT ![c].step = "waiting"]
      BY <1>6, <2>2, SeeksGate DEF Seeks!OffsetKnown
    <3>2. /\ UNCHANGED last /\ gate'[c].step = "clock"
          /\ \A d \in Clients : d # c => gate'[d] = gate[d] /\ reader'[d] = reader[d]
      BY <1>1, <3>1 DEF Enter, GateInv, GateRecords
    <3>3. ~Holds(c)'
      BY <1>1, <2>2, <3>1 DEF Holds, SeekStates
    <3>. QED  BY <1>2, <3>1, <3>2, <3>3
  <2>. QED  BY <2>1, <2>2
<1>7. CASE Seeks!Drop(c) \/ Seeks!TimeOut(c)
  <2>1. UNCHANGED sought /\ reader' = [reader EXCEPT ![c] = Seeks!Fresh]
    BY <1>7 DEF Seeks!Drop, Seeks!TimeOut, Seeks!Closed
  <2>2. Cancel(c) \/ UNCHANGED <<gate, last>>
    BY <1>7, SeeksGate DEF Seeks!Drop, Seeks!TimeOut, Seeks!gateVars
  <2>3. /\ UNCHANGED last /\ (gate'[c].step = "granted" => gate[c].step = "granted")
        /\ \A d \in Clients : d # c => gate'[d] = gate[d] /\ reader'[d] = reader[d]
    BY <1>1, <2>1, <2>2 DEF Cancel, GateInv, Outside
  <2>4. ~Holds(c)'
    BY <1>1, <2>1 DEF Holds, Seeks!Fresh
  <2>. QED  BY <1>2, <2>1, <2>3, <2>4
<1>. QED  BY <1>3, <1>4, <1>5, <1>6, <1>7

LEMMA InHandFinite ==
  ASSUME SeekInv
  PROVE  /\ IsFiniteSet(InHand) /\ Spacing \in Nat
         /\ now \in Int /\ last \in Int /\ last <= now
<1>1. IsFiniteSet(Clients) /\ InHand \in SUBSET Clients
  BY DEF SeekInv, GateInv, GateAssumption, InHand
<1>. QED  BY <1>1, FS_Subset DEF SeekInv, GateInv, GateAssumption

LEMMA SeekBudgetStep == SeekInv /\ SeekBudget /\ [Seeks!Next]_(Seeks!vars) => SeekBudget'
<1> SUFFICES ASSUME SeekInv, SeekBudget, [Seeks!Next]_(Seeks!vars) PROVE SeekBudget'
  OBVIOUS
<1>1. SeekInv' /\ last' \in Int
  BY SeekStep, InHandFinite DEF SeekInv, GateInv
<1>2. sought \in Nat /\ Within(sought, InHand, last)
  BY DEF SeekBudget
<1>3. ASSUME NEW c \in Clients, Seeks!Seek(c) PROVE SeekBudget'
  <2>1. SeekKept(c) /\ reader \in [Clients -> SeekStates]
    BY DEF SeekInv, SeekStates
  <2>2. /\ UNCHANGED <<gate, last>> /\ sought' = sought + 1 /\ reader[c].step = "seek"
        /\ reader' = [reader EXCEPT ![c].step = "reading"]
    BY <1>3 DEF Seeks!Seek, Seeks!gateVars
  <2>3. gate[c].step # "granted" /\ ~Holds(c)' /\ \A d \in Clients : d # c => reader'[d] = reader[d]
    BY <2>1, <2>2 DEF SeekKept, Holds, SeekStates
  <2>4. c \in InHand /\ InHand' = InHand \ {c}
    BY <2>2, <2>3 DEF InHand, Holds
  <2>5. Within(sought + 1, InHand \ {c}, last)
    BY <1>2, <2>4, InHandFinite, Budgets
  <2>. QED  BY <1>2, <2>2, <2>4, <2>5 DEF SeekBudget, Within
<1>4. ASSUME NEW c \in Clients,
             \/ Seeks!Prime(c) \/ Seeks!PrimeEnds(c) \/ Seeks!SeekUnprimed(c) \/ Seeks!OffsetKnown(c)
             \/ Seeks!WaitEnds(c) \/ Seeks!Waits(c) \/ Seeks!Drop(c) \/ Seeks!TimeOut(c)
      PROVE  SeekBudget'
  <2>1. UNCHANGED sought
    BY <1>4, PermitMoves
  <2>2. CASE UNCHANGED last /\ InHand' \subseteq InHand
    <3>1. Within(sought, InHand', last)
      BY <1>2, <2>2, InHandFinite, Budgets
    <3>. QED  BY <1>2, <2>1, <2>2, <3>1 DEF SeekBudget, Within
  <2>3. CASE last' >= last + Spacing /\ InHand' \subseteq InHand \cup {c}
    <3>1. Within(sought, InHand \cup {c}, last')
      BY <1>1, <1>2, <2>3, InHandFinite, Budgets
    <3>2. IsFiniteSet(InHand \cup {c})
      BY InHandFinite, FS_AddElement
    <3>3. Within(sought, InHand', last')
      BY <1>1, <1>2, <2>3, <3>1, <3>2, InHandFinite, Budgets
    <3>. QED  BY <1>2, <2>1, <3>3 DEF SeekBudget, Within
  <2>. QED  BY <1>4, <2>2, <2>3, PermitMoves
<1>5. CASE Seeks!Tick \/ Seeks!Over \/ UNCHANGED Seeks!vars
  <2>1. UNCHANGED <<gate, last, reader, sought>>
    BY <1>5 DEF Seeks!Tick, Seeks!GateTick, Seeks!Over, Seeks!vars
  <2>. QED  BY <1>2, <2>1 DEF SeekBudget, InHand, Holds, Within
<1>. QED  BY <1>3, <1>4, <1>5 DEF Seeks!Next

\* No more seeks were sent, by all readers together, than intervals have passed since the
\* gate's clock started: each uses a permit of its own, which may have been taken ahead and
\* may come late, and those that are lost with their reader are not used by another one
\* (node_reader.rs prime_seek_permit, seek_to_offset, wait_for_seek_hit_slot).
THEOREM SeekRateKept == GateAssumption /\ Seeks!Spec => [](Seeks!RateKept)
<1>1. GateAssumption /\ Seeks!Init => SeekInv /\ SeekBudget
  <2> SUFFICES ASSUME GateAssumption, Seeks!Init PROVE SeekInv /\ SeekBudget
    OBVIOUS
  <2>1. sought = 0 /\ last = 0 /\ gate = [c \in Clients |-> Outside] /\ reader = [c \in Clients |-> Seeks!Fresh]
    BY SeeksGate DEF Seeks!Init, GateInit
  <2>2. InHand = {}
    BY <2>1 DEF InHand, Holds, Outside, Seeks!Fresh
  <2>3. Within(0, {}, 0)
    BY FS_EmptySet DEF Within, GateAssumption
  <2>. QED  BY <2>1, <2>2, <2>3, SeekStarts DEF SeekBudget
<1>2. SeekInv /\ SeekBudget /\ [Seeks!Next]_(Seeks!vars) => SeekInv' /\ SeekBudget'
  BY SeekStep, SeekBudgetStep
<1>3. SeekInv /\ SeekBudget => Seeks!RateKept
  <2> SUFFICES ASSUME SeekInv, SeekBudget PROVE Seeks!RateKept
    OBVIOUS
  <2>1. sought * Spacing <= last /\ sought \in Nat
    BY InHandFinite, Budgets DEF SeekBudget
  <2>2. sought * Spacing \in Int
    BY <2>1, InHandFinite
  <2>. QED  BY <2>1, <2>2, InHandFinite DEF Seeks!RateKept
<1>. QED  BY <1>1, <1>2, <1>3, PTL DEF Seeks!Spec

\* No reader seeks more often than it was permitted to: a permit that was taken ahead is used
\* by one seek, and lost with the reader that held it (node_reader.rs seek_to_offset).
THEOREM SeeksPermitted == GateAssumption /\ Seeks!Spec => [](Seeks!SeekHasPermit)
<1>1. GateAssumption /\ Seeks!Init => SeekInv
  BY SeekStarts
<1>2. SeekInv /\ [Seeks!Next]_(Seeks!vars) => SeekInv'
  BY SeekStep
<1>3. SeekInv => Seeks!SeekHasPermit
  BY DEF SeekInv, SeekKept, Seeks!SeekHasPermit
<1>. QED  BY <1>1, <1>2, <1>3, PTL DEF Seeks!Spec

\* A thread that takes its permit ahead waits at the gate only before its timeout starts
\* (firehose.rs, where the reader is primed before the timed seek).
THEOREM SeeksUntimed ==
  ASSUME Primes \subseteq Clients
  PROVE  GateAssumption /\ Seeks!Spec => [](Seeks!PacingIsUntimed)
<1>1. GateAssumption /\ Seeks!Init => SeekInv
  BY SeekStarts
<1>2. SeekInv /\ [Seeks!Next]_(Seeks!vars) => SeekInv'
  BY SeekStep
<1>3. SeekInv => Seeks!PacingIsUntimed
  <2> SUFFICES ASSUME SeekInv, NEW c \in Primes, gate[c].step # "outside"
               PROVE  reader[c].step = "priming"
    BY DEF Seeks!PacingIsUntimed
  <2>1. c \in Clients /\ SeekKept(c)
    BY DEF SeekInv
  <2>. QED  BY <2>1 DEF SeekKept
<1>. QED  BY <1>1, <1>2, <1>3, PTL DEF Seeks!Spec

-----------------------------------------------------------------------------
(* The fetch of an index file, or of a range of one.                       *)

LEMMA FetchGate ==
  /\ Fetch!GateInit <=> GateInit
  /\ Fetch!GateTypeOK <=> GateTypeOK
  /\ Fetch!PermitsSpaced <=> PermitsSpaced
  /\ Fetch!GateTick <=> GateTick
  /\ \A c : /\ Fetch!Enter(c) <=> Enter(c)
            /\ Fetch!Wait(c) <=> Wait(c)
            /\ Fetch!Leave(c) <=> Leave(c)
            /\ Fetch!Cancel(c) <=> Cancel(c)
BY DEF Fetch!GateInit, GateInit, Fetch!GateTypeOK, GateTypeOK, Fetch!PermitsSpaced, PermitsSpaced,
  Fetch!GateTick, GateTick, Fetch!Enter, Enter, Fetch!Wait, Wait,
  Fetch!ReadClock, ReadClock, Fetch!ReadStamp, ReadStamp, Fetch!Swap, Swap, Fetch!Leave, Leave,
  Fetch!Cancel, Cancel, Fetch!Outside, Outside, Fetch!Monus, Monus, Fetch!StillLast, StillLast

FetchAssumption == GateAssumption /\ MaxRetries \in Nat /\ BaseDelay \in Nat

FetchSteps == {"gate", "response", "body", "end"}
Answers == {"none", "network", "busy", "not found", "status", "format", "whole", "other"}
FetchStates == [step : FetchSteps, attempt : 0 .. MaxRetries, wake : Int]
Requests == [count : Nat, at : Nat]

\* The requests of a client are its attempts, a client goes to the gate when its delay is
\* over, and the delay it still waits for began no earlier than its last request.
FetchKept(c) ==
  /\ sent[c].count = fetch[c].attempt + (IF fetch[c].step = "gate" THEN 0 ELSE 1)
  /\ sent[c].at <= now
  /\ gate[c].step # "outside" => fetch[c].step = "gate" /\ now >= fetch[c].wake
  /\ backend[c] # "http" => fetch[c].attempt = 0 /\ gate[c].step = "outside"
  /\ fetch[c].step = "gate" /\ fetch[c].attempt > 0
       => fetch[c].wake >= sent[c].at + Fetch!Delay(fetch[c].attempt - 1)
  /\ ranged[c] => answer[c] # "other"

FetchInv ==
  /\ GateInv /\ FetchAssumption
  /\ ranged \in [Clients -> BOOLEAN]
  /\ fetch \in [Clients -> FetchStates] /\ sent \in [Clients -> Requests]
  /\ answer \in [Clients -> Answers]
  /\ \A c \in Clients : FetchKept(c)

\* The delay is an integer, and doubles with each attempt up to the tenth.
LEMMA Delays ==
  ASSUME BaseDelay \in Nat, NEW a \in Nat
  PROVE  /\ Fetch!Delay(a) \in Int
         /\ a <= 10 => Fetch!Delay(a) = BaseDelay * 2 ^ a
<1> DEFINE m == Min({a, 10})
<1>1. m \in Nat /\ (a <= 10 => m = a)
  <2>1. \E x \in {a, 10} : \A y \in {a, 10} : x <= y
    OBVIOUS
  <2>2. m \in {a, 10} /\ \A y \in {a, 10} : m <= y
    BY <2>1 DEF Min
  <2>. QED  BY <2>2
<1> HIDE DEF m
<1>2. 2 ^ m \in Int
  BY <1>1
<1>3. BaseDelay * 2 ^ m \in Int
  BY <1>2
<1>4. Fetch!Delay(a) = BaseDelay * 2 ^ m
  BY DEF Fetch!Delay, m, Min, Fetch!Min
<1>. QED  BY <1>1, <1>3, <1>4

LEMMA FetchStarts == FetchAssumption /\ Fetch!Init => FetchInv
<1> SUFFICES ASSUME FetchAssumption, Fetch!Init PROVE FetchInv
  OBVIOUS
<1>1. GateInv /\ gate = [c \in Clients |-> Outside] /\ now = 0
  BY GateStarts, FetchGate DEF Fetch!Init, GateInit, FetchAssumption
<1>2. Fetch!Fetching \in FetchStates /\ [count |-> 0, at |-> 0] \in Requests
  BY DEF Fetch!Fetching, FetchStates, FetchSteps, Requests, FetchAssumption
<1>3. /\ fetch \in [Clients -> FetchStates] /\ sent \in [Clients -> Requests]
      /\ answer \in [Clients -> Answers] /\ ranged \in [Clients -> BOOLEAN]
  BY <1>2 DEF Fetch!Init, Answers
<1>4. ASSUME NEW c \in Clients PROVE FetchKept(c)
  BY <1>1 DEF FetchKept, Fetch!Init, Fetch!Fetching, Outside
<1>. QED  BY <1>1, <1>3, <1>4 DEF FetchInv

\* The step of one client leaves the others where they are.
LEMMA FetchOthers ==
  ASSUME FetchInv, NEW c \in Clients, AtGate(c) \/ UNCHANGED gateVars, UNCHANGED <<backend, ranged>>,
         NEW f \in FetchStates, fetch' = [fetch EXCEPT ![c] = f],
         NEW s \in Requests, sent' = [sent EXCEPT ![c] = s],
         NEW a \in Answers, answer' = [answer EXCEPT ![c] = a],
         FetchKept(c)'
  PROVE  FetchInv' /\ PermitsSpaced
<1>1. GateInv' /\ PermitsSpaced /\ now' = now
  BY GateStep, GateElsewhere DEF FetchInv, AtGate, Enter, Wait, ReadClock, ReadStamp, Swap, Leave, Cancel, gateVars
<1>2. \A d \in Clients : d # c => gate'[d] = gate[d]
  BY DEF FetchInv, GateInv, AtGate, Enter, Wait, ReadClock, ReadStamp, Swap, Leave, Cancel, gateVars
<1>3. \A d \in Clients : d # c => fetch'[d] = fetch[d] /\ sent'[d] = sent[d] /\ answer'[d] = answer[d]
  BY DEF FetchInv
<1>4. ASSUME NEW d \in Clients, d # c PROVE FetchKept(d)'
  <2>1. /\ FetchKept(d) /\ gate'[d] = gate[d] /\ fetch'[d] = fetch[d] /\ sent'[d] = sent[d]
        /\ answer'[d] = answer[d] /\ backend'[d] = backend[d] /\ ranged'[d] = ranged[d]
    BY <1>2, <1>3, <1>4 DEF FetchInv
  <2>. QED  BY <1>1, <2>1 DEF FetchKept, Fetch!Delay
<1>5. /\ fetch' \in [Clients -> FetchStates] /\ sent' \in [Clients -> Requests]
      /\ answer' \in [Clients -> Answers] /\ ranged' \in [Clients -> BOOLEAN]
  BY DEF FetchInv
<1>. QED  BY <1>1, <1>4, <1>5 DEF FetchInv, FetchAssumption, GateAssumption

LEMMA FetchEntries ==
  ASSUME FetchInv, NEW c \in Clients
  PROVE  /\ fetch[c] \in FetchStates /\ fetch[c].attempt \in 0 .. MaxRetries /\ fetch[c].wake \in Int
         /\ sent[c] \in Requests /\ sent[c].count \in Nat /\ sent[c].at \in Nat
         /\ answer[c] \in Answers
         /\ \A s \in FetchSteps : /\ [fetch[c] EXCEPT !.step = s] \in FetchStates
                                  /\ [fetch[c] EXCEPT !.step = s].step = s
                                  /\ [fetch[c] EXCEPT !.step = s].attempt = fetch[c].attempt
                                  /\ [fetch[c] EXCEPT !.step = s].wake = fetch[c].wake
         /\ fetch = [fetch EXCEPT ![c] = fetch[c]] /\ sent = [sent EXCEPT ![c] = sent[c]]
         /\ answer = [answer EXCEPT ![c] = answer[c]]
         /\ now \in Nat
<1>1. fetch[c] \in FetchStates /\ fetch = [fetch EXCEPT ![c] = fetch[c]]
  BY DEF FetchInv
<1>2. /\ sent[c] \in Requests /\ sent = [sent EXCEPT ![c] = sent[c]]
      /\ answer[c] \in Answers /\ answer = [answer EXCEPT ![c] = answer[c]]
  BY DEF FetchInv
<1>3. \A s \in FetchSteps : /\ [fetch[c] EXCEPT !.step = s] \in FetchStates
                            /\ [fetch[c] EXCEPT !.step = s].step = s
                            /\ [fetch[c] EXCEPT !.step = s].attempt = fetch[c].attempt
                            /\ [fetch[c] EXCEPT !.step = s].wake = fetch[c].wake
  BY <1>1 DEF FetchStates
<1>4. now \in Nat
  BY DEF FetchInv, GateInv, GateAssumption
<1>. QED  BY <1>1, <1>2, <1>3, <1>4 DEF FetchStates, Requests

\* A client that tries again waits for its delay from now on; one that does not is at its end.
LEMMA Retries ==
  ASSUME FetchInv, NEW c \in Clients, NEW e \in Answers \ {"other"}, Fetch!RetryOr(c, e),
         fetch[c].step \in {"response", "body"}, UNCHANGED <<gateVars, backend, ranged, sent>>
  PROVE  FetchInv' /\ PermitsSpaced
<1>1. FetchKept(c) /\ FetchAssumption
  BY DEF FetchInv
<1>2. gate[c].step = "outside" /\ sent[c].count = fetch[c].attempt + 1
  BY <1>1, FetchEntries DEF FetchKept
<1>3. gate' = gate /\ now' = now /\ backend' = backend /\ ranged' = ranged /\ sent' = sent
  BY DEF gateVars
<1>4. CASE Fetch!TriesAgain(c)
  <2> DEFINE a == fetch[c].attempt
             f == [step |-> "gate", attempt |-> a + 1, wake |-> now + Fetch!Delay(a)]
  <2>1. fetch' = [fetch EXCEPT ![c] = f] /\ answer' = answer
    BY <1>4 DEF Fetch!RetryOr
  <2>2. a \in Nat /\ a + 1 \in 0 .. MaxRetries /\ backend[c] = "http"
    BY <1>1, <1>4, FetchEntries DEF Fetch!TriesAgain, FetchAssumption
  <2>3. Fetch!Delay(a) \in Int
    BY <1>1, <2>2, Delays DEF FetchAssumption
  <2>4. now + Fetch!Delay(a) \in Int /\ "gate" \in FetchSteps
    <3>1. now \in Int
      BY FetchEntries
    <3>. QED  BY <2>3, <3>1 DEF FetchSteps
  <2>5. f \in FetchStates
    BY <2>2, <2>4 DEF FetchStates
  <2>6. fetch'[c] = f
    BY <2>1 DEF FetchInv
  <2>7. f.wake >= sent[c].at + Fetch!Delay(a)
    BY <1>1, <2>3, FetchEntries DEF FetchKept
  <2>8. f.attempt - 1 = a /\ f.step = "gate" /\ f.attempt = a + 1
    BY <2>2
  <2> HIDE DEF f
  <2>9. fetch'[c].wake >= sent'[c].at + Fetch!Delay(fetch'[c].attempt - 1)
    BY <1>3, <2>6, <2>7, <2>8
  <2> HIDE DEF a
  <2>10. /\ sent'[c].count = fetch'[c].attempt + 0 /\ fetch'[c].step = "gate" /\ sent'[c].at <= now'
         /\ gate'[c].step = "outside" /\ backend'[c] = "http" /\ (ranged'[c] => answer'[c] # "other")
    BY <1>1, <1>2, <1>3, <2>1, <2>2, <2>6, <2>8 DEF FetchKept, a
  <2>11. FetchKept(c)'
    BY <2>9, <2>10 DEF FetchKept, Fetch!Delay
  <2>. QED  BY <2>1, <2>5, <2>11, FetchOthers, FetchEntries
<1>5. CASE ~Fetch!TriesAgain(c)
  <2> DEFINE f == [fetch[c] EXCEPT !.step = "end"]
  <2>1. fetch' = [fetch EXCEPT ![c] = f] /\ answer' = [answer EXCEPT ![c] = e]
    BY <1>5 DEF Fetch!RetryOr, Fetch!Ends
  <2>2. f \in FetchStates /\ f.step = "end" /\ f.attempt = fetch[c].attempt
    BY FetchEntries DEF FetchSteps
  <2> HIDE DEF f
  <2>3. fetch'[c] = f /\ answer'[c] = e
    BY <2>1 DEF FetchInv
  <2>4. FetchKept(c)'
    BY <1>1, <1>2, <1>3, <2>2, <2>3, FetchEntries DEF FetchKept
  <2>. QED  BY <2>1, <2>2, <2>4, FetchOthers, FetchEntries
<1>. QED  BY <1>4, <1>5

\* A fetch that ends has no answer of another length when its range has to be exact.
LEMMA FetchEnds ==
  ASSUME FetchInv, NEW c \in Clients, NEW e \in Answers, Fetch!Ends(c, e), ranged[c] => e # "other",
         fetch[c].step \in {"response", "body"}, UNCHANGED <<gateVars, backend, ranged, sent>>
  PROVE  FetchInv' /\ PermitsSpaced
<1>1. FetchKept(c)
  BY DEF FetchInv
<1>2. gate[c].step = "outside" /\ sent[c].count = fetch[c].attempt + 1
  BY <1>1, FetchEntries DEF FetchKept
<1>3. gate' = gate /\ now' = now /\ backend' = backend /\ ranged' = ranged /\ sent' = sent
  BY DEF gateVars
<1> DEFINE f == [fetch[c] EXCEPT !.step = "end"]
<1>4. fetch' = [fetch EXCEPT ![c] = f] /\ answer' = [answer EXCEPT ![c] = e]
  BY DEF Fetch!Ends
<1>5. f \in FetchStates /\ f.step = "end" /\ f.attempt = fetch[c].attempt
  BY FetchEntries DEF FetchSteps
<1> HIDE DEF f
<1>6. fetch'[c] = f /\ answer'[c] = e
  BY <1>4 DEF FetchInv
<1>7. FetchKept(c)'
  BY <1>1, <1>2, <1>3, <1>5, <1>6, FetchEntries DEF FetchKept
<1>. QED  BY <1>4, <1>5, <1>7, FetchOthers, FetchEntries

\* What a step of the fetch may do: a request that follows another one has waited.
Backed(c) ==
  sent'[c].count > sent[c].count /\ sent[c].count > 0
    => now >= sent[c].at + Fetch!Delay(sent[c].count - 1)

LEMMA FetchSends ==
  ASSUME FetchInv, NEW c \in Clients, Fetch!Send(c)
  PROVE  FetchInv' /\ PermitsSpaced /\ \A d \in Clients : Backed(d)
<1>1. FetchKept(c)
  BY DEF FetchInv
<1> DEFINE f == [fetch[c] EXCEPT !.step = "response"]
           s == [count |-> sent[c].count + 1, at |-> now]
<1>2. /\ fetch' = [fetch EXCEPT ![c] = f] /\ sent' = [sent EXCEPT ![c] = s] /\ fetch[c].step = "gate"
      /\ UNCHANGED <<backend, ranged, answer>>
  BY DEF Fetch!Send, Fetch!Sent
<1>3. /\ f \in FetchStates /\ f.step = "response" /\ f.attempt = fetch[c].attempt
      /\ s \in Requests /\ s.count = sent[c].count + 1 /\ s.at = now
  <2>1. f \in FetchStates /\ f.step = "response" /\ f.attempt = fetch[c].attempt
    BY FetchEntries DEF FetchSteps
  <2>2. sent[c].count + 1 \in Nat /\ now \in Nat
    BY FetchEntries
  <2>3. s \in Requests
    BY <2>2 DEF Requests
  <2>. QED  BY <2>1, <2>3
<1> HIDE DEF f, s
<1>4. fetch'[c] = f /\ sent'[c] = s /\ \A d \in Clients : d # c => sent'[d] = sent[d]
  BY <1>2 DEF FetchInv
<1>5. \/ Leave(c) /\ gate[c].step = "granted"
      \/ backend[c] = "s3" /\ UNCHANGED gateVars
  BY FetchGate DEF Fetch!Send, Fetch!gateVars, gateVars, Leave
<1>6. (AtGate(c) \/ UNCHANGED gateVars) /\ now' = now
  BY <1>5, GateMoves DEF AtGate, FetchInv
<1>7. CASE Leave(c) /\ gate[c].step = "granted"
  <2>1. gate'[c].step = "outside" /\ now >= fetch[c].wake
    BY <1>1, <1>7, GateMoves DEF FetchKept, FetchInv
  <2>2. FetchKept(c)'
    BY <1>1, <1>2, <1>3, <1>4, <1>6, <2>1, FetchEntries DEF FetchKept
  <2>3. Backed(c)
    <3>1. ASSUME sent[c].count > 0 PROVE now >= sent[c].at + Fetch!Delay(sent[c].count - 1)
      <4>1. sent[c].count = fetch[c].attempt /\ fetch[c].attempt > 0
        BY <1>1, <1>2, <3>1, FetchEntries DEF FetchKept
      <4>2. fetch[c].wake >= sent[c].at + Fetch!Delay(fetch[c].attempt - 1)
        BY <1>1, <1>2, <4>1 DEF FetchKept
      <4>3. fetch[c].attempt - 1 \in Nat /\ BaseDelay \in Nat
        BY <4>1, FetchEntries DEF FetchInv, FetchAssumption
      <4>4. Fetch!Delay(fetch[c].attempt - 1) \in Int
        BY <4>3, Delays
      <4> DEFINE d == Fetch!Delay(fetch[c].attempt - 1)
      <4>5. d \in Int /\ fetch[c].wake >= sent[c].at + d /\ d = Fetch!Delay(sent[c].count - 1)
        BY <4>1, <4>2, <4>4
      <4> HIDE DEF d
      <4>6. now >= sent[c].at + d
        BY <2>1, <4>5, FetchEntries
      <4>. QED  BY <4>5, <4>6
    <3>. QED  BY <3>1 DEF Backed
  <2>4. FetchInv' /\ PermitsSpaced
    BY <1>2, <1>3, <1>6, <2>2, FetchOthers, FetchEntries
  <2>5. ASSUME NEW d \in Clients, d # c PROVE Backed(d)
    BY <1>4, <2>5 DEF Backed, FetchInv, Requests
  <2>. QED  BY <2>3, <2>4, <2>5
<1>8. CASE backend[c] = "s3" /\ UNCHANGED gateVars
  <2>1. fetch[c].attempt = 0 /\ sent[c].count = 0 /\ gate' = gate
    BY <1>1, <1>2, <1>8, FetchEntries DEF FetchKept, gateVars
  <2>2. fetch[c].step = "gate" /\ gate[c].step = "outside" /\ ~(backend[c] = "http")
    BY <1>1, <1>2, <1>8 DEF FetchKept
  <2>3. FetchKept(c)'
    BY <1>1, <1>2, <1>3, <1>4, <1>6, <2>1, <2>2, FetchEntries DEF FetchKept
  <2>4. FetchInv' /\ PermitsSpaced
    BY <1>2, <1>3, <1>6, <2>3, FetchOthers, FetchEntries
  <2>5. ASSUME NEW d \in Clients PROVE Backed(d)
    BY <1>4, <2>1, <2>5 DEF Backed, FetchInv, Requests
  <2>. QED  BY <2>4, <2>5
<1>. QED  BY <1>5, <1>7, <1>8

\* Each step of a client keeps what the answers and the delays rest on.
LEMMA FetchClient ==
  ASSUME FetchInv, NEW c \in Clients,
         \/ Fetch!Ask(c) \/ Fetch!Waits(c) \/ Fetch!Send(c) \/ Fetch!NoResponse(c)
         \/ Fetch!Refused(c) \/ Fetch!Body(c) \/ Fetch!BodyFails(c) \/ Fetch!BodyEnds(c)
  PROVE  FetchInv' /\ PermitsSpaced /\ \A d \in Clients : Backed(d)
<1>1. FetchKept(c) /\ GateInv
  BY DEF FetchInv
<1>2. CASE UNCHANGED sent
  <2>1. ASSUME NEW d \in Clients PROVE Backed(d)
    BY <1>2, <2>1 DEF Backed, FetchInv, Requests
  <2>2. CASE Fetch!Ask(c)
    <3>1. Enter(c) /\ now >= fetch[c].wake /\ fetch[c].step = "gate" /\ backend[c] = "http"
      BY <2>2, FetchGate DEF Fetch!Ask
    <3>2. UNCHANGED <<backend, ranged, fetch, sent, answer>> /\ AtGate(c) /\ now' = now
      BY <2>2, <3>1 DEF Fetch!Ask, AtGate, Enter
    <3>3. FetchKept(c)'
      BY <1>1, <3>1, <3>2 DEF FetchKept, Fetch!Delay
    <3>. QED  BY <2>1, <3>2, <3>3, FetchOthers, FetchEntries
  <2>3. CASE Fetch!Waits(c)
    <3>1. UNCHANGED <<backend, ranged, fetch, sent, answer>> /\ AtGate(c) /\ Wait(c)
      BY <2>3, FetchGate DEF Fetch!Waits, AtGate
    <3>2. now' = now /\ gate[c].step # "outside"
      BY <1>1, <3>1, GateMoves
    <3>3. FetchKept(c)'
      BY <1>1, <3>1, <3>2 DEF FetchKept, Fetch!Delay
    <3>. QED  BY <2>1, <3>1, <3>3, FetchOthers, FetchEntries
  <2>4. CASE Fetch!NoResponse(c)
    <3>1. PICK e \in {"network", "busy"} : Fetch!RetryOr(c, e)
      BY <2>4 DEF Fetch!NoResponse
    <3>2. e \in Answers \ {"other"}
      BY DEF Answers
    <3>3. fetch[c].step \in {"response", "body"} /\ UNCHANGED <<gateVars, backend, ranged, sent>>
      BY <2>4 DEF Fetch!NoResponse, Fetch!gateVars, gateVars
    <3>. QED  BY <2>1, <3>1, <3>2, <3>3, Retries
  <2>5. CASE Fetch!BodyFails(c)
    <3>1. "network" \in Answers \ {"other"}
      BY DEF Answers
    <3>2. fetch[c].step \in {"response", "body"} /\ UNCHANGED <<gateVars, backend, ranged, sent>>
      BY <2>5 DEF Fetch!BodyFails, Fetch!gateVars, gateVars
    <3>. QED  BY <2>1, <2>5, <3>1, <3>2, Retries DEF Fetch!BodyFails
  <2>6. CASE Fetch!Refused(c)
    <3>1. PICK e \in {"not found", "status"} :
            Fetch!Ends(c, IF backend[c] = "s3" /\ ranged[c] THEN "status" ELSE e)
      BY <2>6 DEF Fetch!Refused
    <3>2. fetch[c].step \in {"response", "body"} /\ UNCHANGED <<gateVars, backend, ranged, sent>>
      BY <2>6 DEF Fetch!Refused, Fetch!gateVars, gateVars
    <3>3. PICK a \in Answers \ {"other"} : Fetch!Ends(c, a)
      BY <3>1 DEF Answers
    <3>. QED  BY <2>1, <3>2, <3>3, FetchEnds
  <2>7. CASE Fetch!BodyEnds(c)
    <3>1. PICK b \in {Wanted - 1, Wanted, Wanted + 1} :
            Fetch!Ends(c, IF Fetch!Exact(c, b) THEN (IF b = Wanted THEN "whole" ELSE "other") ELSE "format")
      BY <2>7 DEF Fetch!BodyEnds
    <3>2. fetch[c].step \in {"response", "body"} /\ UNCHANGED <<gateVars, backend, ranged, sent>>
      BY <2>7 DEF Fetch!BodyEnds, Fetch!gateVars, gateVars
    <3>3. PICK a \in Answers : Fetch!Ends(c, a) /\ (ranged[c] => a # "other")
      BY <3>1 DEF Answers, Fetch!Exact
    <3>. QED  BY <2>1, <3>2, <3>3, FetchEnds
  <2>8. CASE Fetch!Body(c)
    <3> DEFINE f == [fetch[c] EXCEPT !.step = "body"]
    <3>1. /\ fetch' = [fetch EXCEPT ![c] = f] /\ fetch[c].step = "response"
          /\ UNCHANGED <<gateVars, backend, ranged, sent, answer>>
      BY <2>8 DEF Fetch!Body, Fetch!gateVars, gateVars
    <3>2. f \in FetchStates /\ f.step = "body" /\ f.attempt = fetch[c].attempt
      BY FetchEntries DEF FetchSteps
    <3> HIDE DEF f
    <3>3. fetch'[c] = f
      BY <3>1 DEF FetchInv
    <3>4. FetchKept(c)'
      BY <1>1, <3>1, <3>2, <3>3, FetchEntries DEF FetchKept, gateVars
    <3>. QED  BY <2>1, <3>1, <3>2, <3>4, FetchOthers, FetchEntries
  <2>9. ~Fetch!Send(c)
    <3> SUFFICES ASSUME Fetch!Send(c) PROVE FALSE
      OBVIOUS
    <3>1. sent'[c] = [count |-> sent[c].count + 1, at |-> now]
      BY DEF Fetch!Send, Fetch!Sent, FetchInv
    <3>. QED  BY <1>2, <3>1, FetchEntries
  <2>. QED  BY <2>2, <2>3, <2>4, <2>5, <2>6, <2>7, <2>8, <2>9
<1>3. CASE Fetch!Send(c)
  BY <1>3, FetchSends
<1>. QED  BY <1>2, <1>3 DEF Fetch!Ask, Fetch!Waits, Fetch!NoResponse, Fetch!Refused, Fetch!Body,
            Fetch!BodyFails, Fetch!BodyEnds

LEMMA FetchStep ==
  FetchInv /\ [Fetch!Next]_(Fetch!vars) => FetchInv' /\ PermitsSpaced /\ \A d \in Clients : Backed(d)
<1> SUFFICES ASSUME FetchInv, [Fetch!Next]_(Fetch!vars)
             PROVE  FetchInv' /\ PermitsSpaced /\ \A d \in Clients : Backed(d)
  OBVIOUS
<1>1. CASE Fetch!Tick \/ Fetch!Over \/ UNCHANGED Fetch!vars
  <2>1. GateTick \/ UNCHANGED gateVars
    BY <1>1, FetchGate DEF Fetch!Tick, Fetch!Over, Fetch!vars, gateVars
  <2>2. UNCHANGED <<backend, ranged, fetch, sent, answer>>
    BY <1>1 DEF Fetch!Tick, Fetch!Over, Fetch!vars
  <2>3. GateInv' /\ PermitsSpaced
    BY <2>1, GateElsewhere DEF FetchInv
  <2>4. now' \in Nat /\ now \in Nat /\ now <= now' /\ UNCHANGED gate
    BY <2>1 DEF GateTick, gateVars, FetchInv, GateInv, GateAssumption
  <2>5. ASSUME NEW d \in Clients PROVE FetchKept(d)'
    <3>1. FetchKept(d) /\ fetch[d].wake \in Int /\ sent[d].at \in Nat
      BY FetchEntries DEF FetchInv
    <3>. QED  BY <2>2, <2>4, <3>1 DEF FetchKept, Fetch!Delay
  <2>6. ASSUME NEW d \in Clients PROVE Backed(d)
    BY <2>2, FetchEntries DEF Backed
  <2>. QED  BY <2>2, <2>3, <2>5, <2>6 DEF FetchInv, FetchAssumption, GateAssumption
<1>. QED  BY <1>1, FetchClient DEF Fetch!Next

\* Whatever the number of clients, the spacing and the retries, a fetch of an index keeps to
\* its states: in particular it sends one request per attempt, and never more attempts than
\* retries allow (index.rs fetch_full, fetch_http_range).
THEOREM FetchTypes == FetchAssumption /\ Fetch!Spec => [](Fetch!TypeOK)
<1>1. FetchAssumption /\ Fetch!Init => FetchInv
  BY FetchStarts
<1>2. FetchInv /\ [Fetch!Next]_(Fetch!vars) => FetchInv'
  BY FetchStep
<1>3. FetchInv => Fetch!TypeOK
  <2> SUFFICES ASSUME FetchInv PROVE Fetch!TypeOK
    OBVIOUS
  <2>1. Fetch!GateTypeOK
    BY GateTypes, FetchGate DEF FetchInv
  <2>. QED  BY <2>1 DEF Fetch!TypeOK, FetchInv, FetchKept, FetchStates, FetchSteps, Answers
<1>. QED  BY <1>1, <1>2, <1>3, PTL DEF Fetch!Spec

\* The clients that have a permit and have not sent their request yet.
Granted == {c \in Clients : gate[c].step = "granted"}

FetchBudget == requests \in Nat /\ Within(requests, Granted, last)

LEMMA FetchBudgetStep ==
  FetchInv /\ FetchBudget /\ [Fetch!Next]_(Fetch!vars) => FetchBudget'
<1> SUFFICES ASSUME FetchInv, FetchBudget, [Fetch!Next]_(Fetch!vars) PROVE FetchBudget'
  OBVIOUS
<1>1. /\ IsFiniteSet(Granted) /\ Granted \subseteq Clients
      /\ Spacing \in Nat /\ last \in Int /\ GateInv
  <2>1. IsFiniteSet(Clients) /\ Granted \in SUBSET Clients
    BY DEF FetchInv, GateInv, GateAssumption, Granted
  <2>. QED  BY <2>1, FS_Subset DEF FetchInv, GateInv, GateAssumption
<1>2. requests \in Nat /\ Within(requests, Granted, last)
  BY DEF FetchBudget
<1>3. CASE UNCHANGED <<requests, gate, last>>
  BY <1>2, <1>3 DEF FetchBudget, Granted, Within
<1>4. ASSUME NEW c \in Clients, AtGate(c), ~Leave(c), UNCHANGED requests PROVE FetchBudget'
  <2>1. CASE UNCHANGED last /\ Granted' = Granted
    BY <1>2, <1>4, <2>1 DEF FetchBudget, Within
  <2>2. CASE last' >= last + Spacing /\ Granted' = Granted \cup {c}
    <3>1. last' \in Int
      BY <1>1, <1>4, GateStep DEF GateInv
    <3>2. Within(requests, Granted \cup {c}, last')
      BY <1>1, <1>2, <2>2, <3>1, Budgets
    <3>. QED  BY <1>2, <1>4, <2>2, <3>2 DEF FetchBudget, Within
  <2>. QED  BY <1>1, <1>4, <2>1, <2>2, GateTakes DEF Granted
<1>5. ASSUME NEW c \in Clients, Fetch!Send(c) PROVE FetchBudget'
  <2>1. \/ Leave(c)
        \/ backend[c] = "s3" /\ UNCHANGED gateVars
    BY <1>5, FetchGate DEF Fetch!Send, Fetch!gateVars, gateVars
  <2>2. requests' = requests + (IF backend[c] = "http" THEN 1 ELSE 0)
    BY <1>5 DEF Fetch!Send, Fetch!Sent
  <2>3. CASE backend[c] = "s3" /\ UNCHANGED gateVars
    BY <1>2, <1>3, <2>2, <2>3 DEF gateVars
  <2>4. CASE Leave(c)
    <3>1. /\ gate[c].step = "granted" /\ gate'[c].step = "outside" /\ UNCHANGED last
          /\ \A d \in Clients : d # c => gate'[d] = gate[d]
      BY <1>1, <2>4 DEF Leave, GateInv, Outside
    <3>2. backend[c] = "http"
      BY <3>1 DEF FetchInv, FetchKept
    <3>3. c \in Granted /\ Granted' = Granted \ {c}
      BY <3>1 DEF Granted
    <3>4. Within(requests + 1, Granted \ {c}, last)
      BY <1>1, <1>2, <3>3, Budgets
    <3>. QED  BY <1>2, <2>2, <3>1, <3>2, <3>3, <3>4 DEF FetchBudget, Within
  <2>. QED  BY <2>1, <2>3, <2>4
<1>6. ASSUME NEW c \in Clients, Fetch!Ask(c) \/ Fetch!Waits(c) PROVE FetchBudget'
  <2>1. Enter(c) \/ Wait(c)
    BY <1>6, FetchGate DEF Fetch!Ask, Fetch!Waits
  <2>2. AtGate(c) /\ ~Leave(c) /\ UNCHANGED requests
    BY <1>6, <2>1 DEF AtGate, Fetch!Ask, Fetch!Waits, Enter, Wait, ReadClock, ReadStamp, Swap, Leave
  <2>. QED  BY <1>4, <2>2
<1>7. ASSUME NEW c \in Clients, \/ Fetch!NoResponse(c) \/ Fetch!Refused(c) \/ Fetch!Body(c)
                                \/ Fetch!BodyFails(c) \/ Fetch!BodyEnds(c)
      PROVE  FetchBudget'
  BY <1>3, <1>7 DEF Fetch!NoResponse, Fetch!Refused, Fetch!Body, Fetch!BodyFails, Fetch!BodyEnds, Fetch!gateVars
<1>8. CASE Fetch!Tick \/ Fetch!Over \/ UNCHANGED Fetch!vars
  BY <1>3, <1>8 DEF Fetch!Tick, Fetch!GateTick, Fetch!Over, Fetch!vars
<1>. QED  BY <1>5, <1>6, <1>7, <1>8 DEF Fetch!Next

\* The stamps of two permits of the fetches are at least an interval apart (index.rs
\* wait_for_remote_hit_slot). It says nothing of S3, which takes no permits.
THEOREM FetchStampsSpaced == FetchAssumption /\ Fetch!Spec => [][Fetch!PermitsSpaced]_(Fetch!vars)
<1>1. FetchAssumption /\ Fetch!Init => FetchInv
  BY FetchStarts
<1>2. FetchInv /\ [Fetch!Next]_(Fetch!vars) => FetchInv' /\ Fetch!PermitsSpaced
  BY FetchStep, FetchGate
<1>. QED  BY <1>1, <1>2, PTL DEF Fetch!Spec

\* No more requests were sent over HTTP, by all clients together and retries included, than
\* intervals have passed since the gate's clock started. A client that is delayed behind
\* its stamp sends late and maybe together with others, but each request uses up a permit of
\* its own (index.rs fetch_full, fetch_http_range, wait_for_remote_hit_slot).
THEOREM FetchRateKept == FetchAssumption /\ Fetch!Spec => [](Fetch!RateKept)
<1>1. FetchAssumption /\ Fetch!Init => FetchInv /\ FetchBudget
  <2> SUFFICES ASSUME FetchAssumption, Fetch!Init PROVE FetchInv /\ FetchBudget
    OBVIOUS
  <2>1. requests = 0 /\ last = 0 /\ gate = [c \in Clients |-> Outside]
    BY FetchGate DEF Fetch!Init, GateInit
  <2>2. Granted = {}
    BY <2>1 DEF Granted, Outside
  <2>3. Within(0, {}, 0)
    BY FS_EmptySet DEF Within, FetchAssumption, GateAssumption
  <2>. QED  BY <2>1, <2>2, <2>3, FetchStarts DEF FetchBudget
<1>2. FetchInv /\ FetchBudget /\ [Fetch!Next]_(Fetch!vars) => FetchInv' /\ FetchBudget'
  BY FetchStep, FetchBudgetStep
<1>3. FetchInv /\ FetchBudget => Fetch!RateKept
  <2> SUFFICES ASSUME FetchInv, FetchBudget PROVE Fetch!RateKept
    OBVIOUS
  <2>1. IsFiniteSet(Granted)
    <3>1. IsFiniteSet(Clients) /\ Granted \in SUBSET Clients
      BY DEF FetchInv, GateInv, GateAssumption, Granted
    <3>. QED  BY <3>1, FS_Subset
  <2>2. last \in Int /\ now \in Int /\ last <= now /\ Spacing \in Nat
    BY DEF FetchInv, GateInv, GateAssumption
  <2>3. requests * Spacing <= last /\ requests \in Nat
    BY <2>1, <2>2, Budgets DEF FetchBudget
  <2>4. requests * Spacing \in Int
    BY <2>2, <2>3
  <2>. QED  BY <2>2, <2>3, <2>4 DEF Fetch!RateKept
<1>. QED  BY <1>1, <1>2, <1>3, PTL DEF Fetch!Spec

\* A request that follows another one of the same fetch has waited for the delay, which doubles
\* with each attempt; the delay is doubled ten times at most, so this needs a bound on the
\* retries, which are ten in the program (index.rs FETCH_RANGE_MAX_RETRIES).
THEOREM FetchesBackOff ==
  ASSUME MaxRetries <= 11
  PROVE  FetchAssumption /\ Fetch!Spec => [][Fetch!BacksOff]_(Fetch!vars)
<1>1. FetchAssumption /\ Fetch!Init => FetchInv
  BY FetchStarts
<1>2. FetchInv /\ [Fetch!Next]_(Fetch!vars) => FetchInv' /\ Fetch!BacksOff
  <2> SUFFICES ASSUME FetchInv, [Fetch!Next]_(Fetch!vars) PROVE FetchInv' /\ Fetch!BacksOff
    OBVIOUS
  <2>1. FetchInv' /\ \A d \in Clients : Backed(d)
    BY FetchStep
  <2>2. ASSUME NEW c \in Clients, sent'[c].count > sent[c].count, sent[c].count > 0
        PROVE  now >= sent[c].at + BaseDelay * 2 ^ (sent[c].count - 1)
    <3>1. now >= sent[c].at + Fetch!Delay(sent[c].count - 1)
      BY <2>1, <2>2 DEF Backed
    <3>2. sent[c].count - 1 \in Nat /\ sent[c].count - 1 <= 10 /\ BaseDelay \in Nat
      <4>1. FetchKept(c)' /\ sent'[c].count \in Nat /\ sent[c].count \in Nat /\ fetch'[c].attempt \in 0 .. MaxRetries
        BY <2>1 DEF FetchInv, FetchStates, Requests
      <4>. QED  BY <2>2, <4>1 DEF FetchKept, FetchInv, FetchAssumption
    <3>. QED  BY <3>1, <3>2, Delays
  <2>. QED  BY <2>1, <2>2 DEF Fetch!BacksOff
<1>. QED  BY <1>1, <1>2, PTL DEF Fetch!Spec

\* A range that has to be exact is delivered exact or not at all; the buckets of an index are
\* cut from it without another look at its length (index.rs fetch_http_range, fetch_s3_range).
THEOREM FetchesExact == FetchAssumption /\ Fetch!Spec => [](Fetch!RangesExact)
<1>1. FetchAssumption /\ Fetch!Init => FetchInv
  BY FetchStarts
<1>2. FetchInv /\ [Fetch!Next]_(Fetch!vars) => FetchInv'
  BY FetchStep
<1>3. FetchInv => Fetch!RangesExact
  BY DEF FetchInv, FetchKept, Fetch!RangesExact
<1>. QED  BY <1>1, <1>2, <1>3, PTL DEF Fetch!Spec

-----------------------------------------------------------------------------
(* The two kinds of index.                                                 *)

LEMMA LookupCounts == \A S : Lookup!Cardinality(S) = Cardinality(S)
  BY DEF Lookup!Cardinality, Cardinality

\* What a lookup does not change.
Layout ==
  /\ Lookup!LookupAssumption
  /\ DOMAIN present \subseteq Lookup!Slots /\ DOMAIN present # {}
  /\ \A s \in DOMAIN present : present[s] \in Nat /\ present[s] >= BlockSize
  /\ \A s \in Lookup!Slots : entry[s] \in DOMAIN present \cup {Lookup!None}
  /\ \A s \in DOMAIN present : entry[s] = s
  /\ slot \in Lookup!Slots \cup {First - 1, Last + 1}

LEMMA Numbers ==
  ASSUME Layout
  PROVE  /\ First \in Nat /\ Last \in Nat /\ First <= Last /\ BlockSize \in Nat /\ BlockSize > 0 /\ DataStart \in Nat
         /\ Lookup!Slots \subseteq Nat /\ Lookup!Slots = First .. Last /\ Lookup!None = First - 1
         /\ Lookup!None \notin Lookup!Slots
  BY DEF Layout, Lookup!LookupAssumption, Lookup!Slots, Lookup!None

LEMMA RowCounted ==
  ASSUME NEW x, NEW T, IsFiniteSet(T), Cardinality(T) \in Nat
  PROVE  IsFiniteSet({x} \X T) /\ Cardinality({x} \X T) = Cardinality(T)
<1>1. IsFiniteSet({x}) /\ Cardinality({x}) = 1
  BY FS_Singleton
<1>2. IsFiniteSet({x} \X T) /\ Cardinality({x} \X T) = Cardinality({x}) * Cardinality(T)
  BY <1>1, FS_Product
<1>. QED  BY <1>1, <1>2

LEMMA BytesCounted ==
  ASSUME Layout, NEW q \in DOMAIN present
  PROVE  IsFiniteSet(Lookup!Bytes(q)) /\ Cardinality(Lookup!Bytes(q)) = present[q]
<1>1. present[q] \in Nat
  BY DEF Layout
<1>2. IsFiniteSet(1 .. present[q]) /\ Cardinality(1 .. present[q]) = present[q]
  BY <1>1, FS_Interval
<1>. QED  BY <1>1, <1>2, RowCounted DEF Lookup!Bytes

LEMMA BytesFinite ==
  ASSUME Layout, NEW s
  PROVE  IsFiniteSet(Lookup!BytesBefore(s)) /\ Cardinality(Lookup!BytesBefore(s)) \in Nat
<1> DEFINE Early == {p \in DOMAIN present : p < s}
           Rows == {Lookup!Bytes(q) : q \in Early}
           f == [q \in Early |-> Lookup!Bytes(q)]
<1>1. IsFiniteSet(First .. Last) /\ Early \subseteq First .. Last
  <2>1. First \in Int /\ Last \in Int
    BY Numbers
  <2>2. IsFiniteSet(First .. Last)
    BY <2>1, FS_Interval
  <2>. QED  BY <2>2, Numbers DEF Layout
<1>2. IsFiniteSet(Early)
  BY <1>1, FS_Subset
<1>3. f \in Surjection(Early, Rows)
  BY Fun_IsSurj
<1>4. IsFiniteSet(Rows)
  BY <1>2, <1>3, FS_Surjection
<1>5. \A R \in Rows : IsFiniteSet(R)
  BY BytesCounted
<1>6. IsFiniteSet(UNION Rows)
  <2> HIDE DEF Rows
  <2>. QED  BY <1>4, <1>5, FS_UNION
<1>7. Lookup!BytesBefore(s) = UNION Rows
  BY DEF Lookup!BytesBefore
<1>. QED  BY <1>6, <1>7, FS_CardinalityType

LEMMA Starts ==
  ASSUME Layout, NEW s
  PROVE  Lookup!StartOf(s) \in Nat /\ Lookup!StartOf(s) >= DataStart
         /\ Lookup!StartOf(s) = DataStart + Cardinality(Lookup!BytesBefore(s))
  BY BytesFinite, LookupCounts, Numbers DEF Lookup!StartOf

\* A slot that was skipped takes no room, and a present one its bytes.
LEMMA NextStart ==
  ASSUME Layout, NEW s \in Int
  PROVE  Lookup!StartOf(s + 1) = IF s \in DOMAIN present THEN Lookup!StartOf(s) + present[s] ELSE Lookup!StartOf(s)
<1> DEFINE E == {p \in DOMAIN present : p < s}
           Through == {p \in DOMAIN present : p < s + 1}
<1>1. DOMAIN present \subseteq Int
  BY Numbers DEF Layout
<1>2. CASE s \notin DOMAIN present
  <2>1. E = Through
    BY <1>1, <1>2
  <2>. QED  BY <1>2, <2>1 DEF Lookup!StartOf, Lookup!BytesBefore
<1>3. CASE s \in DOMAIN present
  <2>1. Through = E \cup {s}
    BY <1>1, <1>3
  <2>2. Lookup!BytesBefore(s + 1) = Lookup!BytesBefore(s) \cup Lookup!Bytes(s)
    <3> HIDE DEF E, Through
    <3>1. Lookup!BytesBefore(s + 1) = UNION {Lookup!Bytes(q) : q \in Through}
      BY DEF Lookup!BytesBefore, Through
    <3>2. Lookup!BytesBefore(s) = UNION {Lookup!Bytes(q) : q \in E}
      BY DEF Lookup!BytesBefore, E
    <3>3. {Lookup!Bytes(q) : q \in Through} = {Lookup!Bytes(q) : q \in E} \cup {Lookup!Bytes(s)}
      BY <2>1
    <3>. QED  BY <3>1, <3>2, <3>3
  <2>3. Lookup!BytesBefore(s) \cap Lookup!Bytes(s) = {}
    <3> SUFFICES ASSUME NEW b, b \in Lookup!BytesBefore(s), b \in Lookup!Bytes(s) PROVE FALSE
      OBVIOUS
    <3>1. PICK q \in E : b \in Lookup!Bytes(q)
      BY DEF Lookup!BytesBefore
    <3>2. b[1] = q /\ b[1] = s
      BY <3>1 DEF Lookup!Bytes
    <3>. QED  BY <1>1, <3>1, <3>2
  <2>4. Cardinality(Lookup!BytesBefore(s + 1)) = Cardinality(Lookup!BytesBefore(s)) + present[s] - Cardinality({})
    BY <1>3, <2>2, <2>3, BytesCounted, BytesFinite, FS_Union
  <2>. QED  BY <1>3, <2>4, BytesFinite, Starts, FS_EmptySet, Numbers DEF Layout
<1>. QED  BY <1>2, <1>3

LEMMA StartsGrow ==
  ASSUME Layout, NEW r \in Int, NEW s \in Int, r <= s
  PROVE  Lookup!StartOf(r) <= Lookup!StartOf(s)
<1>1. {p \in DOMAIN present : p < r} \subseteq {p \in DOMAIN present : p < s}
  BY Numbers DEF Layout
<1>2. Lookup!BytesBefore(r) \subseteq Lookup!BytesBefore(s)
  BY <1>1 DEF Lookup!BytesBefore
<1>3. Cardinality(Lookup!BytesBefore(r)) <= Cardinality(Lookup!BytesBefore(s))
  BY <1>2, BytesFinite, FS_Subset
<1>. QED  BY <1>3, BytesFinite, Starts, Numbers

LEMMA EndIsNextStart ==
  ASSUME Layout, NEW s \in DOMAIN present
  PROVE  /\ Lookup!EndOf(s) = Lookup!StartOf(s + 1) /\ Lookup!EndOf(s) \in Nat
         /\ Lookup!EndOf(s) >= Lookup!StartOf(s) + BlockSize /\ Lookup!EndOf(s) <= Lookup!ArchiveEnd
<1>1. s \in Nat /\ s \in Int /\ s + 1 <= Last + 1 /\ present[s] \in Nat /\ present[s] >= BlockSize
  BY Numbers DEF Layout
<1>2. Lookup!EndOf(s) = Lookup!StartOf(s + 1) /\ Lookup!EndOf(s) = Lookup!StartOf(s) + present[s]
  BY <1>1, NextStart DEF Lookup!EndOf
<1>3. Lookup!StartOf(s + 1) <= Lookup!StartOf(Last + 1)
  BY <1>1, StartsGrow, Numbers
<1>. QED  BY <1>1, <1>2, <1>3, Starts, Numbers DEF Lookup!ArchiveEnd

LEMMA FirstStart == ASSUME Layout PROVE Lookup!StartOf(First) = DataStart
<1>1. {p \in DOMAIN present : p < First} = {}
  BY Numbers DEF Layout
<1>2. Lookup!BytesBefore(First) = {}
  BY <1>1 DEF Lookup!BytesBefore
<1>3. Cardinality(Lookup!BytesBefore(First)) = 0
  BY <1>2, FS_EmptySet
<1>4. Lookup!StartOf(First) = DataStart + Cardinality(Lookup!BytesBefore(First))
  BY Starts
<1>. QED  BY <1>3, <1>4, Numbers

\* The section of a block ends where the data of its slot ends.
LEMMA SectionEnds ==
  ASSUME Layout, NEW s \in Lookup!Slots, entry[s] # Lookup!None
  PROVE  entry[s] \in DOMAIN present /\ Lookup!SectionEnd(s) = Lookup!EndOf(entry[s])
<1>1. entry[s] \in DOMAIN present
  BY DEF Layout
<1>. QED  BY <1>1, EndIsNextStart, Numbers DEF Lookup!SectionEnd, Lookup!Section

\* The result so far, and where the scan is: under ToldApart nothing present lies between.
InArchive(r) ==
  r.kind = "range" => r.offset >= DataStart /\ r.length >= 0 /\ r.offset + r.length <= Lookup!ArchiveEnd

Scanning ==
  /\ slot \in Lookup!Slots /\ entry[slot] # Lookup!None
  /\ candidate \in First .. slot
  /\ Lookup!ToldApart => Lookup!StartOf(candidate) = Lookup!StartOf(slot)

LookupInv ==
  /\ Layout
  /\ step \in {"begin", "scan", "done"}
  /\ result.kind \in {"not found", "format", "network", "range"} /\ InArchive(result)
  /\ step = "begin" => candidate = slot
  /\ step = "scan" => Scanning
  /\ candidate \in (First - 1) .. (Last + 1)
  /\ Lookup!LegacyAgrees

LEMMA LookupStarts == ASSUME Lookup!LookupAssumption, Lookup!Init PROVE LookupInv
<1>1. PICK P \in (SUBSET Lookup!Slots) \ {{}} : present \in [P -> Lengths]
  BY DEF Lookup!Init
<1>2. DOMAIN present = P /\ \A s \in P : present[s] \in Lengths
  BY <1>1
<1>3. \A n \in Lengths : n \in Nat /\ n >= BlockSize
  BY DEF Lookup!LookupAssumption
<1>4. /\ \A s \in Lookup!Slots : entry[s] \in DOMAIN present \cup {Lookup!None}
      /\ \A s \in DOMAIN present : entry[s] = s
  BY DEF Lookup!Init
<1>5. Layout
  BY <1>1, <1>2, <1>3, <1>4 DEF Layout, Lookup!Init
<1>6. candidate = slot /\ step = "begin" /\ result = Lookup!NotFound
  BY DEF Lookup!Init
<1>7. candidate \in (First - 1) .. (Last + 1)
  BY <1>5, <1>6, Numbers DEF Layout
<1>8. result.kind = "not found"
  BY <1>6 DEF Lookup!NotFound
<1>. QED  BY <1>5, <1>6, <1>7, <1>8 DEF LookupInv, InArchive, Lookup!LegacyAgrees

LEMMA LayoutStays ==
  ASSUME Layout, UNCHANGED <<present, entry, slot>>
  PROVE  /\ Layout' /\ Lookup!ToldApart' = Lookup!ToldApart /\ Lookup!ArchiveEnd' = Lookup!ArchiveEnd
         /\ \A s : Lookup!StartOf(s)' = Lookup!StartOf(s)
         /\ Lookup!RangesLookup(slot)' = Lookup!RangesLookup(slot)
<1>1. \A s : Lookup!StartOf(s)' = Lookup!StartOf(s)
  BY DEF Lookup!StartOf, Lookup!BytesBefore, Lookup!Bytes
<1>2. Lookup!ArchiveEnd' = Lookup!ArchiveEnd
  BY <1>1 DEF Lookup!ArchiveEnd
<1>3. Layout' /\ Lookup!ToldApart' = Lookup!ToldApart
  BY DEF Layout, Lookup!LookupAssumption, Lookup!ToldApart
<1>4. Lookup!RangesLookup(slot)' = Lookup!RangesLookup(slot)
  BY <1>1 DEF Lookup!RangesLookup, Lookup!Record, Lookup!Extent, Lookup!FormatError, Lookup!NotFound
<1>. QED  BY <1>2, <1>3, <1>1, <1>4

\* A lookup ends with a range in the archive or with none, and with the right one.
LEMMA LookupEnds ==
  ASSUME LookupInv, UNCHANGED <<present, entry, slot>>, NEW r, Lookup!Done(r),
         r.kind \in {"not found", "format", "network", "range"}, InArchive(r),
         r # Lookup!FetchError /\ Lookup!ToldApart => r = Lookup!RangesLookup(slot)
  PROVE  LookupInv'
<1>1. step' = "done" /\ result' = r /\ candidate' = candidate
  BY DEF Lookup!Done
<1>2. Layout' /\ Lookup!ToldApart' = Lookup!ToldApart /\ Lookup!ArchiveEnd' = Lookup!ArchiveEnd
  BY LayoutStays DEF LookupInv
<1>3. Lookup!RangesLookup(slot)' = Lookup!RangesLookup(slot)
  BY LayoutStays DEF LookupInv
<1>4. Lookup!LegacyAgrees'
  BY <1>1, <1>2, <1>3 DEF Lookup!LegacyAgrees, Lookup!FetchError
<1>5. InArchive(result)'
  BY <1>1, <1>2 DEF InArchive
<1>. QED  BY <1>1, <1>2, <1>4, <1>5 DEF LookupInv

\* The range of a present slot.
LEMMA RangeOf ==
  ASSUME Layout, slot \in DOMAIN present
  PROVE  Lookup!RangesLookup(slot) = Lookup!Extent(Lookup!StartOf(slot), present[slot])
<1>1. slot \in Lookup!Slots /\ present[slot] \in Nat /\ present[slot] > 0
  BY Numbers DEF Layout
<1>2. Lookup!Record(slot) = <<Lookup!StartOf(slot), present[slot]>>
  BY DEF Lookup!Record
<1>. QED  BY <1>1, <1>2 DEF Lookup!RangesLookup

\* What a scan that stops somewhere answers.
LEMMA AnswerRight ==
  ASSUME LookupInv, step = "scan", UNCHANGED <<present, entry, slot>>,
         NEW start \in Nat, start >= DataStart, Lookup!Answer(start, Lookup!SectionEnd(slot)),
         Lookup!ToldApart => start = Lookup!StartOf(slot)
  PROVE  LookupInv'
<1>1. /\ Layout /\ slot \in Lookup!Slots /\ entry[slot] # Lookup!None
  BY DEF LookupInv, Scanning
<1> DEFINE end == Lookup!SectionEnd(slot)
<1>2. end \in Nat /\ end <= Lookup!ArchiveEnd /\ entry[slot] \in DOMAIN present /\ end = Lookup!EndOf(entry[slot])
  BY <1>1, SectionEnds, EndIsNextStart
<1>3. ASSUME Lookup!ToldApart
      PROVE  /\ slot \in DOMAIN present /\ end = Lookup!StartOf(slot) + present[slot]
             /\ start = Lookup!StartOf(slot) /\ present[slot] \in Nat
  <2>1. entry[slot] = slot
    BY <1>1, <1>3 DEF Lookup!ToldApart
  <2>. QED  BY <1>1, <1>2, <1>3, <2>1 DEF Lookup!EndOf, Layout
<1> HIDE DEF end
<1>4. CASE end < start
  <2>1. Lookup!Done(Lookup!FormatError)
    BY <1>4 DEF Lookup!Answer, end
  <2>2. ~Lookup!ToldApart
    BY <1>2, <1>3, <1>4
  <2>3. Lookup!FormatError.kind = "format" /\ InArchive(Lookup!FormatError)
    BY DEF Lookup!FormatError, InArchive
  <2>. QED  BY <2>1, <2>2, <2>3, LookupEnds
<1>5. CASE ~(end < start)
  <2> DEFINE r == Lookup!Extent(start, end - start)
  <2>1. Lookup!Done(r)
    BY <1>5 DEF Lookup!Answer, end
  <2>2. r.kind = "range" /\ r.offset = start /\ r.length = end - start
    BY DEF Lookup!Extent
  <2>3. InArchive(r)
    <3>1. Lookup!ArchiveEnd \in Nat
      BY <1>1, Starts DEF Lookup!ArchiveEnd
    <3>2. end - start >= 0 /\ start + (end - start) <= Lookup!ArchiveEnd
      BY <1>2, <1>5, <3>1
    <3>. QED  BY <2>2, <3>2 DEF InArchive
  <2>4. Lookup!ToldApart => r = Lookup!RangesLookup(slot)
    <3> SUFFICES ASSUME Lookup!ToldApart PROVE r = Lookup!RangesLookup(slot)
      OBVIOUS
    <3>1. end - start = present[slot]
      BY <1>2, <1>3
    <3>. QED  BY <1>1, <1>3, <3>1, RangeOf
  <2> HIDE DEF r
  <2>. QED  BY <2>1, <2>2, <2>3, <2>4, LookupEnds
<1>. QED  BY <1>4, <1>5

LEMMA BeginKeeps == ASSUME LookupInv, Lookup!Begin PROVE LookupInv'
<1>1. step = "begin" /\ UNCHANGED <<present, entry, slot, lookupFaults>> /\ Layout
  BY DEF Lookup!Begin, LookupInv
<1>2. CASE slot \notin Lookup!Slots
  <2>1. Lookup!Done(Lookup!FormatError) /\ Lookup!RangesLookup(slot) = Lookup!FormatError
    BY <1>2 DEF Lookup!Begin, Lookup!RangesLookup
  <2>2. Lookup!FormatError.kind = "format" /\ InArchive(Lookup!FormatError)
    BY DEF Lookup!FormatError, InArchive
  <2>. QED  BY <1>1, <2>1, <2>2, LookupEnds
<1>3. CASE slot \in Lookup!Slots /\ entry[slot] = Lookup!None
  <2>1. Lookup!Done(Lookup!NotFound)
    BY <1>3 DEF Lookup!Begin
  <2>2. slot \notin DOMAIN present
    BY <1>1, <1>3, Numbers DEF Layout
  <2>3. Lookup!RangesLookup(slot) = Lookup!NotFound
    BY <1>3, <2>2 DEF Lookup!RangesLookup, Lookup!Record
  <2>4. Lookup!NotFound.kind = "not found" /\ InArchive(Lookup!NotFound)
    BY DEF Lookup!NotFound, InArchive
  <2>. QED  BY <1>1, <2>1, <2>3, <2>4, LookupEnds
<1>4. CASE slot \in Lookup!Slots /\ entry[slot] # Lookup!None
  <2>1. step' = "scan" /\ UNCHANGED <<candidate, result>>
    BY <1>4 DEF Lookup!Begin
  <2>2. candidate = slot /\ candidate \in First .. slot
    <3>1. candidate = slot
      BY <1>1 DEF LookupInv
    <3>2. slot \in First .. Last /\ First \in Nat
      BY <1>1, <1>4, Numbers
    <3>. QED  BY <3>1, <3>2
  <2>3. Scanning
    BY <1>4, <2>2 DEF Scanning
  <2>4. Scanning'
    BY <1>1, <2>1, <2>2, <2>3, LayoutStays DEF Scanning, Lookup!Slots, Lookup!None
  <2>5. Layout' /\ InArchive(result)'
    BY <1>1, <2>1, LayoutStays DEF LookupInv, InArchive
  <2>. QED  BY <1>1, <2>1, <2>4, <2>5 DEF LookupInv, Lookup!LegacyAgrees
<1>. QED  BY <1>2, <1>3, <1>4

\* The scan passes a slot only if nothing of it lies before the slot that is looked up, and
\* stops only at one that does.
LEMMA ScanKeeps == ASSUME LookupInv, Lookup!Scan PROVE LookupInv'
<1> DEFINE end == Lookup!SectionEnd(slot)
           before == candidate - 1
<1>1. /\ step = "scan" /\ UNCHANGED <<present, entry, slot, lookupFaults>> /\ Layout /\ Scanning
      /\ slot \in Lookup!Slots /\ candidate \in First .. slot
  BY DEF Lookup!Scan, LookupInv, Scanning
<1>2. CASE candidate = First
  <2>1. Lookup!Answer(DataStart, end)
    BY <1>2 DEF Lookup!Scan
  <2>. QED  BY <1>1, <1>2, <2>1, AnswerRight, FirstStart, Numbers DEF Scanning
<1>3. CASE candidate # First
  <2>1. /\ before \in Lookup!Slots /\ before \in Nat /\ before + 1 = candidate /\ before < slot
        /\ before \in First .. slot /\ slot \in Nat
    BY <1>1, <1>3, Numbers
  <2>2. ASSUME Lookup!ToldApart
        PROVE  /\ slot \in DOMAIN present /\ end = Lookup!EndOf(slot) /\ end = Lookup!StartOf(slot + 1)
               /\ end >= Lookup!StartOf(slot) + BlockSize /\ Lookup!StartOf(candidate) = Lookup!StartOf(slot)
               /\ end \in Nat
    <3>1. entry[slot] = slot
      BY <1>1, <2>2 DEF Lookup!ToldApart, Scanning
    <3>. QED  BY <1>1, <2>2, <3>1, SectionEnds, EndIsNextStart DEF Scanning
  <2>3. ASSUME Lookup!ToldApart, before \in DOMAIN present
        PROVE  /\ entry[before] # Lookup!None /\ ~Lookup!Implausible(before, end)
               /\ Lookup!SectionEnd(before) = Lookup!StartOf(slot)
    <3>1. entry[before] = before /\ entry[before] # Lookup!None
      BY <1>1, <2>1, <2>3, Numbers DEF Layout
    <3>2. Lookup!SectionEnd(before) = Lookup!StartOf(slot)
      BY <1>1, <2>1, <2>2, <2>3, <3>1, SectionEnds, EndIsNextStart
    <3>3. ~(Lookup!SectionEnd(before) > end)
      BY <1>1, <2>2, <2>3, <3>2, Starts, Numbers
    <3>. QED  BY <3>1, <3>2, <3>3 DEF Lookup!Implausible
  <2>4. ASSUME Lookup!ToldApart, before \notin DOMAIN present
        PROVE  /\ entry[before] = Lookup!None \/ Lookup!Implausible(before, end)
               /\ Lookup!StartOf(before) = Lookup!StartOf(slot)
    <3>1. Lookup!StartOf(before) = Lookup!StartOf(slot)
      BY <1>1, <2>1, <2>2, <2>4, NextStart
    <3>2. entry[before] = Lookup!None \/ entry[before] > slot
      BY <2>1, <2>4 DEF Lookup!ToldApart
    <3>3. ASSUME entry[before] # Lookup!None PROVE Lookup!SectionEnd(before) > end
      <4> DEFINE e == entry[before]
      <4>1. e \in DOMAIN present /\ e \in Nat /\ Lookup!SectionEnd(before) = Lookup!EndOf(e)
        BY <1>1, <2>1, <3>3, SectionEnds, Numbers DEF Layout
      <4>2. slot + 1 <= e
        BY <2>1, <3>2, <3>3, <4>1
      <4>3. Lookup!EndOf(e) >= Lookup!StartOf(e) + BlockSize /\ Lookup!EndOf(e) \in Nat
        BY <1>1, <4>1, EndIsNextStart
      <4>4. Lookup!StartOf(slot + 1) <= Lookup!StartOf(e)
        BY <1>1, <2>1, <4>1, <4>2, StartsGrow
      <4>5. Lookup!StartOf(e) \in Nat /\ BlockSize > 0 /\ BlockSize \in Nat
        BY <1>1, Starts, Numbers
      <4>6. end = Lookup!StartOf(slot + 1) /\ end \in Nat
        BY <2>2, <2>4
      <4> HIDE DEF e, end
      <4>. QED  BY <4>1, <4>3, <4>4, <4>5, <4>6
    <3>. QED  BY <3>1, <3>3 DEF Lookup!Implausible
  <2>5. CASE entry[before] = Lookup!None \/ Lookup!Implausible(before, end)
    <3>1. candidate' = before /\ UNCHANGED <<step, result>>
      BY <1>3, <2>5 DEF Lookup!Scan
    <3>2. Lookup!ToldApart => Lookup!StartOf(before) = Lookup!StartOf(slot)
      BY <2>3, <2>4, <2>5
    <3>3. Scanning'
      BY <1>1, <2>1, <3>1, <3>2, LayoutStays DEF Scanning, Lookup!Slots, Lookup!None
    <3>4. Layout' /\ InArchive(result)'
      BY <1>1, <3>1, LayoutStays DEF LookupInv, InArchive
    <3>5. candidate' \in (First - 1) .. (Last + 1)
      BY <1>1, <2>1, <3>1, Numbers
    <3>. QED  BY <1>1, <3>1, <3>3, <3>4, <3>5 DEF LookupInv, Lookup!LegacyAgrees
  <2>6. CASE ~(entry[before] = Lookup!None \/ Lookup!Implausible(before, end))
    <3>1. Lookup!Answer(Lookup!SectionEnd(before), end)
      BY <1>3, <2>6 DEF Lookup!Scan
    <3>2. Lookup!ToldApart => Lookup!SectionEnd(before) = Lookup!StartOf(slot)
      BY <2>3, <2>4, <2>6
    <3>3. Lookup!SectionEnd(before) \in Nat /\ Lookup!SectionEnd(before) >= DataStart
      <4>1. entry[before] \in DOMAIN present /\ Lookup!SectionEnd(before) = Lookup!EndOf(entry[before])
        BY <1>1, <2>1, <2>6, SectionEnds
      <4>2. Lookup!EndOf(entry[before]) \in Nat /\ Lookup!EndOf(entry[before]) = Lookup!StartOf(entry[before] + 1)
        BY <1>1, <4>1, EndIsNextStart
      <4>. QED  BY <1>1, <4>1, <4>2, Starts
    <3>. QED  BY <1>1, <3>1, <3>2, <3>3, AnswerRight
  <2>. QED  BY <2>5, <2>6
<1>. QED  BY <1>2, <1>3

LEMMA LookupNext == ASSUME LookupInv, [Lookup!Next]_(Lookup!vars) PROVE LookupInv'
<1>1. CASE UNCHANGED Lookup!vars
  <2>1. UNCHANGED <<present, entry, slot, candidate, step, result>>
    BY <1>1 DEF Lookup!vars
  <2>2. /\ Layout' /\ Lookup!ToldApart' = Lookup!ToldApart /\ Lookup!ArchiveEnd' = Lookup!ArchiveEnd
        /\ Lookup!StartOf(candidate)' = Lookup!StartOf(candidate) /\ Lookup!StartOf(slot)' = Lookup!StartOf(slot)
        /\ Lookup!RangesLookup(slot)' = Lookup!RangesLookup(slot)
    BY <2>1, LayoutStays DEF LookupInv
  <2>3. InArchive(result)' /\ (step = "scan" => Scanning')
    BY <2>1, <2>2 DEF LookupInv, InArchive, Scanning, Lookup!Slots, Lookup!None
  <2>4. Lookup!LegacyAgrees'
    BY <2>1, <2>2 DEF LookupInv, Lookup!LegacyAgrees, Lookup!FetchError
  <2>. QED  BY <2>1, <2>2, <2>3, <2>4 DEF LookupInv
<1>2. CASE Lookup!Fail
  <2>1. Lookup!Done(Lookup!FetchError) /\ UNCHANGED <<present, entry, slot>>
    BY <1>2 DEF Lookup!Fail
  <2>2. Lookup!FetchError.kind = "network" /\ InArchive(Lookup!FetchError)
    BY DEF Lookup!FetchError, InArchive
  <2>. QED  BY <2>1, <2>2, LookupEnds
<1>. QED  BY <1>1, <1>2, BeginKeeps, ScanKeeps DEF Lookup!Next, Lookup!Over

\* The legacy pair of indexes answers with the range that the slot-ranges index has, for
\* skipped and foreign slots too, unless an entry of another slot looks like the slot's own; and
\* what it answers lies in the archive (LegacyEpochIndexes::lookup_range).
THEOREM IndexesAgree ==
  Lookup!LookupAssumption /\ Lookup!Spec => [](Lookup!TypeOK /\ Lookup!LegacyAgrees)
<1>1. Lookup!LookupAssumption /\ Lookup!Init => LookupInv
  BY LookupStarts
<1>2. LookupInv /\ [Lookup!Next]_(Lookup!vars) => LookupInv'
  BY LookupNext
<1>3. LookupInv => Lookup!TypeOK /\ Lookup!LegacyAgrees
  BY DEF LookupInv, Layout, InArchive, Lookup!TypeOK
<1>. QED  BY <1>1, <1>2, <1>3, PTL DEF Lookup!Spec

-----------------------------------------------------------------------------
(* The reader of an epoch.                                                 *)

LEMMA ReaderMin ==
  ASSUME NEW T \in SUBSET Nat, T # {}
  PROVE  Reader!Min(T) \in T /\ \A y \in T : Reader!Min(T) <= y
<1>1. Reader!Min(T) = Min(T)
  BY DEF Reader!Min, Min
<1>. QED  BY <1>1, MinIs

Count == Len(Sections)

\* The sections of a slot run from the first of them to its block.
FirstNodeOf(s) == Reader!Min(Reader!NodesOf(s))
BlockOf(s) == CHOOSE i \in 1 .. Count : Sections[i].kind = "block" /\ Sections[i].slot = s

LEMMA ArchiveTypes ==
  ASSUME Reader!LayoutAssumption
  PROVE  /\ Count \in Nat /\ DOMAIN Sections = 1 .. Count
         /\ \A i \in 1 .. Count : /\ Sections[i].kind \in {"entry", "block", "tail"}
                                  /\ Sections[i].kind # "tail" => Sections[i].slot \in Reader!Slots
                                  /\ Sections[i].kind = "tail" <=> Sections[i].slot = Reader!NoSlot
         /\ Reader!Slots \in SUBSET Nat /\ Reader!Slots # {} /\ Reader!NoSlot \notin Nat
<1>1. /\ Count \in Nat /\ DOMAIN Sections = 1 .. Count
      /\ \A i \in 1 .. Count : Sections[i] \in [slot : Nat \cup {Reader!NoSlot}, kind : {"entry", "block", "tail"}]
  <2> DEFINE U == [slot : Nat \cup {Reader!NoSlot}, kind : {"entry", "block", "tail"}]
  <2>1. Sections \in Seq(U)
    BY DEF Reader!LayoutAssumption
  <2> HIDE DEF U
  <2>2. /\ Len(Sections) \in Nat /\ DOMAIN Sections = 1 .. Len(Sections)
        /\ \A i \in 1 .. Len(Sections) : Sections[i] \in U
    BY <2>1
  <2>. QED  BY <2>2 DEF Count, U
<1>2. \A i \in 1 .. Count : Sections[i].kind = "tail" <=> Sections[i].slot = Reader!NoSlot
  BY <1>1 DEF Reader!LayoutAssumption, Reader!OneSlot
<1>3. \A i \in 1 .. Count : Sections[i].kind # "tail" => Sections[i].slot \in Reader!Slots
  BY <1>1 DEF Reader!LayoutAssumption, Reader!OneSlot, Reader!Slots
<1>4. Reader!Slots \in SUBSET Nat
  BY <1>1, <1>2 DEF Reader!Slots
<1>5. Reader!Slots # {} /\ Reader!NoSlot \notin Nat
  BY DEF Reader!LayoutAssumption, Reader!NoSlot
<1>. QED  BY <1>1, <1>2, <1>3, <1>4, <1>5

LEMMA ArchiveOrder ==
  ASSUME Reader!LayoutAssumption, NEW i \in 1 .. Count, NEW j \in 1 .. Count, i < j
  PROVE  /\ Sections[i].kind = "tail" => Sections[j].kind = "tail"
         /\ Sections[j].kind # "tail" => Sections[i].slot <= Sections[j].slot
         /\ Sections[j].kind # "tail" /\ Sections[i].kind = "block" => Sections[i].slot < Sections[j].slot
<1>1. Reader!InOrder(Sections[i], Sections[j])
  BY ArchiveTypes DEF Reader!LayoutAssumption
<1>2. Sections[j].kind # "tail" => Sections[i].slot \in Nat /\ Sections[j].slot \in Nat
  BY <1>1, ArchiveTypes DEF Reader!InOrder
<1>. QED  BY <1>1, <1>2 DEF Reader!InOrder

LEMMA SlotRuns ==
  ASSUME Reader!LayoutAssumption, NEW s \in Reader!Slots
  PROVE  /\ s \in Nat /\ BlockOf(s) \in 1 .. Count
         /\ Sections[BlockOf(s)].kind = "block" /\ Sections[BlockOf(s)].slot = s
         /\ FirstNodeOf(s) \in 1 .. BlockOf(s) /\ Reader!NodesOf(s) = FirstNodeOf(s) .. BlockOf(s)
         /\ \A i \in FirstNodeOf(s) .. BlockOf(s) : Sections[i].kind = "block" => i = BlockOf(s)
<1> DEFINE b == BlockOf(s)
           f == FirstNodeOf(s)
<1>1. \E i \in 1 .. Count : Sections[i].kind = "block" /\ Sections[i].slot = s
  BY ArchiveTypes DEF Reader!Slots
<1>2. b \in 1 .. Count /\ Sections[b].kind = "block" /\ Sections[b].slot = s
  BY <1>1 DEF BlockOf
<1>3. Reader!NodesOf(s) \in SUBSET (1 .. Count) /\ b \in Reader!NodesOf(s) /\ Reader!NodesOf(s) \in SUBSET Nat
  BY <1>2, ArchiveTypes DEF Reader!NodesOf
<1>4. f \in Reader!NodesOf(s) /\ \A i \in Reader!NodesOf(s) : f <= i
  BY <1>3, ReaderMin DEF FirstNodeOf
<1>5. s \in Nat /\ Count \in Nat
  BY ArchiveTypes
<1>6. f \in 1 .. Count /\ Sections[f].slot = s /\ f <= b
  BY <1>3, <1>4, ArchiveTypes DEF Reader!NodesOf
<1> HIDE DEF b, f
<1>7. ASSUME NEW i \in Reader!NodesOf(s) PROVE i \in f .. b
  <2>1. i \in 1 .. Count /\ Sections[i].slot = s /\ Sections[i].kind # "tail"
    BY <1>3, <1>5, ArchiveTypes DEF Reader!NodesOf
  <2>2. ~(b < i)
    BY <1>2, <1>5, <2>1, ArchiveOrder
  <2>. QED  BY <1>2, <1>4, <1>6, <2>1, <2>2
<1>8. ASSUME NEW i \in f .. b
      PROVE  i \in Reader!NodesOf(s) /\ (Sections[i].kind = "block" => i = b)
  <2>1. i \in 1 .. Count
    BY <1>2, <1>5, <1>6
  <2>2. CASE i = b
    BY <1>3, <2>2
  <2>3. CASE i < b
    <3>1. Sections[i].kind # "tail" /\ Sections[i].slot <= s /\ (Sections[i].kind = "block" => Sections[i].slot < s)
      BY <1>2, <2>1, <2>3, ArchiveOrder
    <3>2. s <= Sections[i].slot
      <4>1. CASE f = i
        BY <1>5, <1>6, <4>1
      <4>2. CASE f < i
        BY <1>6, <2>1, <3>1, <4>2, ArchiveOrder
      <4>. QED  BY <1>6, <2>1, <4>1, <4>2
    <3>3. Sections[i].slot \in Nat
      BY <2>1, <3>1, ArchiveTypes
    <3>4. Sections[i].slot = s /\ Sections[i].kind # "block"
      BY <1>5, <3>1, <3>2, <3>3
    <3>. QED  BY <2>1, <3>4, ArchiveTypes DEF Reader!NodesOf
  <2>. QED  BY <1>2, <1>6, <2>1, <2>2, <2>3
<1>9. f \in 1 .. b
  BY <1>2, <1>6
<1>. QED  BY <1>2, <1>5, <1>7, <1>8, <1>9 DEF b, f

\* Behind a slot's block comes the next slot, or nothing but the tail.
LEMMA SlotsFollow ==
  ASSUME Reader!LayoutAssumption, NEW s \in Reader!Slots
  PROVE  LET t == Reader!After(s)
         IN  \/ t \in Reader!Slots /\ FirstNodeOf(t) = BlockOf(s) + 1
             \/ t = Reader!NoSlot /\ \A i \in BlockOf(s) + 1 .. Count : Sections[i].kind = "tail"
<1> DEFINE Later == {t \in Reader!Slots : t > s}
           b == BlockOf(s)
<1>1. Count \in Nat /\ s \in Nat /\ b \in 1 .. Count /\ Sections[b].kind = "block" /\ Sections[b].slot = s
  BY ArchiveTypes, SlotRuns
<1>2. ASSUME NEW i \in b + 1 .. Count, Sections[i].kind # "tail" PROVE Sections[i].slot \in Later
  <2>1. i \in 1 .. Count /\ b < i
    BY <1>1
  <2>2. s < Sections[i].slot /\ Sections[i].slot \in Reader!Slots
    BY <1>1, <1>2, <2>1, ArchiveOrder, ArchiveTypes
  <2>. QED  BY <1>1, <2>2, ArchiveTypes
<1>3. CASE Later = {}
  <2>1. Reader!After(s) = Reader!NoSlot
    BY <1>3 DEF Reader!After
  <2>. QED  BY <1>2, <1>3, <2>1
<1>4. CASE Later # {}
  <2> DEFINE t == Reader!After(s)
             f == FirstNodeOf(t)
  <2>1. Later \in SUBSET Nat
    BY ArchiveTypes
  <2>2. t = Reader!Min(Later)
    BY <1>4 DEF Reader!After
  <2>3. t \in Later /\ \A u \in Later : t <= u
    <3> HIDE DEF Later, t
    <3>. QED  BY <1>4, <2>1, <2>2, ReaderMin
  <2>4. t \in Reader!Slots /\ t > s /\ t \in Nat
    BY <2>1, <2>3
  <2> HIDE DEF t
  <2>5. f \in 1 .. Count /\ f \in Reader!NodesOf(t) /\ Sections[f].slot = t /\ Sections[f].kind # "tail"
    <3>1. f \in Reader!NodesOf(t) /\ f \in 1 .. Count
      BY <1>1, <2>4, SlotRuns
    <3>. QED  BY <2>4, <3>1, ArchiveTypes DEF Reader!NodesOf
  <2> HIDE DEF b, f
  <2>6. b < f
    <3>1. f # b
      BY <1>1, <2>4, <2>5
    <3>2. ~(f < b)
      BY <1>1, <2>4, <2>5, ArchiveOrder
    <3>. QED  BY <1>1, <2>5, <3>1, <3>2
  <2>7. ~(b + 1 < f)
    <3> SUFFICES ASSUME b + 1 < f PROVE FALSE
      OBVIOUS
    <3> DEFINE n == b + 1
    <3>1. n \in 1 .. Count /\ n < f /\ n \in b + 1 .. Count
      BY <1>1, <2>5
    <3> HIDE DEF n
    <3>2. Sections[n].kind # "tail" /\ Sections[n].slot <= t
      BY <2>5, <3>1, ArchiveOrder
    <3>3. Sections[n].slot \in Later
      BY <1>2, <3>1, <3>2 DEF b
    <3>4. Sections[n].slot = t
      BY <2>1, <2>3, <2>4, <3>2, <3>3
    <3>5. n \in Reader!NodesOf(t)
      BY <3>1, <3>4, ArchiveTypes DEF Reader!NodesOf
    <3>6. n >= f
      BY <2>4, <3>5, SlotRuns DEF f
    <3>. QED  BY <1>1, <2>5, <3>1, <3>6
  <2>8. f = b + 1
    BY <1>1, <2>5, <2>6, <2>7
  <2>. QED  BY <2>4, <2>8 DEF b, f, t
<1>. QED  BY <1>3, <1>4

LEMMA FirstIsFirst ==
  ASSUME Reader!LayoutAssumption
  PROVE  Reader!FirstSlot \in Reader!Slots /\ FirstNodeOf(Reader!FirstSlot) = 1
<1> DEFINE s == Reader!FirstSlot
           f == FirstNodeOf(s)
<1>1. s \in Reader!Slots /\ \A t \in Reader!Slots : s <= t
  BY ArchiveTypes, ReaderMin DEF Reader!FirstSlot
<1> HIDE DEF s
<1>2. f \in 1 .. Count /\ f \in Reader!NodesOf(s) /\ Count \in Nat /\ s \in Nat
  BY <1>1, SlotRuns, ArchiveTypes
<1>3. Sections[f].slot = s /\ Sections[f].kind # "tail"
  BY <1>1, <1>2, ArchiveTypes DEF Reader!NodesOf
<1> HIDE DEF f
<1>4. ~(1 < f)
  <2> SUFFICES ASSUME 1 < f PROVE FALSE
    OBVIOUS
  <2>1. 1 \in 1 .. Count
    BY <1>2
  <2>2. Sections[1].kind # "tail" /\ Sections[1].slot <= s
    BY <1>2, <1>3, <2>1, ArchiveOrder
  <2>3. Sections[1].slot \in Reader!Slots /\ Sections[1].slot \in Nat
    BY <2>1, <2>2, ArchiveTypes
  <2>4. Sections[1].slot = s
    BY <1>1, <1>2, <2>2, <2>3
  <2>5. 1 \in Reader!NodesOf(s)
    BY <2>1, <2>4, ArchiveTypes DEF Reader!NodesOf
  <2>6. f <= 1
    BY <1>1, <2>5, SlotRuns DEF f
  <2>. QED  BY <1>2, <2>6
<1>5. f = 1
  BY <1>2, <1>4
<1>. QED  BY <1>1, <1>5 DEF f, s

\* The reader's place is the next unit it takes: what the stream gave and the buffer does not hold.
Place == position - Len(buffer)

ReaderPlaces == {"idle", "header_size", "header", "ready", "size", "body", "batch", "eof", "failed"}
Opening == {"header_size", "header", "ready"}
InSections == {"size", "body", "batch"}

\* The buffer holds the units in front of the stream's position, and a connection goes on behind them.
Buffered ==
  /\ position \in 0 .. Reader!ArchiveLen
  /\ buffer \in Seq(Nat \X Nat) /\ Len(buffer) <= Capacity /\ Len(buffer) <= position
  /\ \A i \in 1 .. Len(buffer) : buffer[i] = Reader!Unit(Place + i - 1)

Connected ==
  /\ conn \in [state : {"none", "pending", "open"}, at : 0 .. Reader!ArchiveLen]
  /\ conn.state # "none" => conn.at = position

\* In front of section k, the sections of the wanted slot before it are taken.
AtSection(k) ==
  /\ k \in 1 .. Count + 1
  /\ Place = IF reading.at = "body" THEN 2 * k + 1 ELSE 2 * k
  /\ reading.at = "body" => k \in 1 .. Count /\ reading.section = k
  /\ want \in Reader!Slots =>
       /\ FirstNodeOf(want) <= k /\ Len(reading.nodes) = k - FirstNodeOf(want)
       /\ \A n \in 1 .. Len(reading.nodes) : reading.nodes[n] = FirstNodeOf(want) + n - 1
       /\ IF reading.at = "batch" THEN k = BlockOf(want) + 1 ELSE k <= BlockOf(want)
  /\ want = Reader!NoSlot => reading.at # "batch" /\ \A i \in k .. Count : Sections[i].kind = "tail"

\* Whether the stream can seek is decided before a slot is wanted that needs it.
Placed ==
  /\ reading \in [at : ReaderPlaces, section : Nat, nodes : Seq(1 .. Count)]
  /\ stream \in {"closed", "windowed", "ranges"} /\ header \in BOOLEAN
  /\ want \in Reader!Slots \cup {Reader!NoSlot}
  /\ reading.at = "idle" <=> stream = "closed"
  /\ reading.at \in {"ready"} \cup InSections => header
  /\ reading.at \in Opening =>
       /\ Place = CASE reading.at = "header_size" -> 0 [] reading.at = "header" -> 1 [] OTHER -> 2
       /\ reading.nodes = <<>> /\ want \in Reader!Slots
       /\ stream = "windowed" => want = Reader!FirstSlot
  /\ reading.at \in InSections => \E k \in 1 .. Count + 1 : AtSection(k)

\* The batches so far, and that the next one is of the slot that follows.
Handed ==
  /\ got \in Seq(Seq(1 .. Count))
  /\ Reader!WholeSlots
  /\ want = IF got = <<>> THEN Reader!FirstSlot
            ELSE Reader!After(Sections[Reader!Last(got[Len(got)])].slot)

Assumed == Reader!ReaderAssumption /\ Reader!LayoutAssumption

ReaderInv == Assumed /\ Buffered /\ Connected /\ Placed /\ Handed

LEMMA ReaderBounds ==
  ASSUME Assumed
  PROVE  /\ Capacity \in Nat /\ Capacity > 0 /\ Count \in Nat
         /\ Reader!ArchiveLen = 2 + 2 * Count /\ Reader!ArchiveLen \in Nat
  BY ArchiveTypes DEF Assumed, Reader!ReaderAssumption, Reader!ArchiveLen, Count

LEMMA ReaderStarts == ASSUME Assumed, Reader!Init PROVE ReaderInv
<1>1. /\ stream = "closed" /\ position = 0 /\ conn = [state |-> "none", at |-> 0] /\ buffer = <<>>
      /\ header = FALSE /\ reading = [at |-> "idle", section |-> 0, nodes |-> <<>>]
      /\ want = Reader!FirstSlot /\ got = <<>>
  BY DEF Reader!Init, Reader!NoConn, Reader!Idle
<1>2. Buffered /\ Connected
  BY <1>1, ReaderBounds DEF Buffered, Connected, Place
<1>3. Placed
  <2>1. reading.at = "idle" /\ reading \in [at : ReaderPlaces, section : Nat, nodes : Seq(1 .. Count)]
    BY <1>1 DEF ReaderPlaces
  <2>2. want \in Reader!Slots
    BY <1>1, FirstIsFirst DEF Assumed
  <2>. QED  BY <1>1, <2>1, <2>2 DEF Placed, Opening, InSections
<1>4. Handed
  BY <1>1 DEF Handed, Reader!WholeSlots
<1>. QED  BY <1>2, <1>3, <1>4 DEF ReaderInv

\* The batches are only added to.
LEMMA HandedStays ==
  ASSUME ReaderInv, UNCHANGED <<got, want>>
  PROVE  Assumed' /\ Handed'
  BY DEF ReaderInv, Handed, Assumed, Reader!WholeSlots, Reader!ReaderAssumption, Reader!LayoutAssumption

LEMMA StillPlaced ==
  ASSUME ReaderInv, UNCHANGED <<stream, header, reading, want>>, Place' = Place
  PROVE  Placed'
<1>1. \A k : AtSection(k) => AtSection(k)'
  BY DEF AtSection
<1>. QED  BY <1>1 DEF ReaderInv, Placed

\* A reader that saw an end or an error waits for the stream to be closed.
LEMMA GivesUp ==
  ASSUME ReaderInv, NEW how \in {"eof", "failed"}, reading' = [reading EXCEPT !.at = how], reading.at # "idle",
         UNCHANGED <<stream, header, want>>
  PROVE  Placed'
<1>1. reading'.at = how /\ reading' \in [at : ReaderPlaces, section : Nat, nodes : Seq(1 .. Count)]
  BY DEF ReaderInv, Placed, ReaderPlaces
<1>. QED  BY <1>1 DEF ReaderInv, Placed, Opening, InSections

LEMMA OpenKeeps == ASSUME ReaderInv, Reader!Open PROVE ReaderInv'
<1>1. want # Reader!NoSlot /\ UNCHANGED <<want, got>> /\ stream = "closed"
  BY DEF Reader!Open
<1>2. PICK kind \in {"windowed", "ranges"} :
        Reader!Opened(kind) /\ (kind = "windowed" => want = Reader!FirstSlot)
  BY DEF Reader!Open, Reader!Windowed
<1>3. /\ stream' = kind /\ position' = 0 /\ buffer' = <<>> /\ header' = FALSE
      /\ conn' = [state |-> "pending", at |-> 0]
      /\ reading' = [at |-> "header_size", section |-> 0, nodes |-> <<>>]
  BY <1>2 DEF Reader!Opened, Reader!Pending, Reader!Idle
<1>4. position' = 0 /\ Len(buffer') = 0 /\ buffer' = <<>>
  BY <1>3
<1>5. want \in Reader!Slots
  BY <1>1 DEF ReaderInv, Placed
<1>6. Place' = 0
  BY <1>4 DEF Place
<1>8. Buffered'
  <2>1. buffer' \in Seq(Nat \X Nat)
    BY <1>4
  <2>. QED  BY <1>4, <2>1, ReaderBounds DEF ReaderInv, Buffered
<1>9. Connected'
  <2>1. conn' = [state |-> "pending", at |-> 0]
    BY <1>3
  <2>2. 0 \in 0 .. Reader!ArchiveLen
    BY ReaderBounds DEF ReaderInv
  <2>3. conn' \in [state : {"none", "pending", "open"}, at : 0 .. Reader!ArchiveLen] /\ conn'.at = 0
    BY <2>1, <2>2
  <2>. QED  BY <1>4, <2>3 DEF Connected
<1>7. Placed'
  <2>1. /\ reading'.at = "header_size" /\ reading'.nodes = <<>>
        /\ reading' \in [at : ReaderPlaces, section : Nat, nodes : Seq(1 .. Count)]
    <3>1. reading' = [at |-> "header_size", section |-> 0, nodes |-> <<>>]
      BY <1>3
    <3>2. <<>> \in Seq(1 .. Count) /\ 0 \in Nat /\ "header_size" \in ReaderPlaces
      BY DEF ReaderPlaces
    <3>. QED  BY <3>1, <3>2
  <2>2. kind # "closed" /\ kind \in {"closed", "windowed", "ranges"}
    OBVIOUS
  <2>. QED  BY <1>1, <1>2, <1>3, <1>5, <1>6, <2>1, <2>2 DEF Placed, Opening, InSections
<1>. QED  BY <1>1, <1>8, <1>9, <1>7, HandedStays DEF ReaderInv

LEMMA SeekKeeps == ASSUME ReaderInv, Reader!Seek PROVE ReaderInv'
<1>1. /\ reading.at = "ready" /\ want > Reader!FirstSlot /\ UNCHANGED <<stream, header, want, got, readFaults>>
  BY DEF Reader!Seek
<1>2. want \in Reader!Slots /\ reading.nodes = <<>> /\ header /\ stream # "closed"
      /\ (stream = "windowed" => want = Reader!FirstSlot)
  BY <1>1 DEF ReaderInv, Placed, Opening, InSections
<1>3. want \in Nat /\ Reader!FirstSlot \in Nat
  BY <1>2, FirstIsFirst, SlotRuns DEF ReaderInv, Assumed
<1>4. stream # "windowed"
  BY <1>1, <1>2, <1>3
<1> DEFINE f == FirstNodeOf(want)
<1>5. f \in 1 .. BlockOf(want) /\ BlockOf(want) \in 1 .. Count /\ Count \in Nat /\ Reader!ArchiveLen = 2 + 2 * Count
  BY <1>2, SlotRuns, ReaderBounds DEF ReaderInv, Assumed
<1> HIDE DEF f
<1>6. Reader!Min({2 * f, Reader!ArchiveLen}) = 2 * f
  <2>1. {2 * f, Reader!ArchiveLen} \in SUBSET Nat /\ 2 * f < Reader!ArchiveLen
    BY <1>5
  <2>2. /\ Reader!Min({2 * f, Reader!ArchiveLen}) \in {2 * f, Reader!ArchiveLen}
        /\ Reader!Min({2 * f, Reader!ArchiveLen}) <= 2 * f
    BY <2>1, ReaderMin
  <2>. QED  BY <1>5, <2>1, <2>2
<1>7. /\ position' = 2 * f /\ conn' = [state |-> "pending", at |-> position'] /\ buffer' = <<>>
      /\ reading' = [reading EXCEPT !.at = "size"]
  BY <1>1, <1>4, <1>6 DEF Reader!Seek, Reader!SeekTo, Reader!OffsetOf, Reader!Pending, f, FirstNodeOf
<1>8. Buffered' /\ Connected'
  BY <1>5, <1>7, ReaderBounds DEF ReaderInv, Buffered, Connected, Place
<1>9. Place' = 2 * f
  BY <1>5, <1>7 DEF Place
<1>10. /\ reading'.at = "size" /\ reading'.nodes = <<>> /\ Len(reading'.nodes) = 0
       /\ reading' \in [at : ReaderPlaces, section : Nat, nodes : Seq(1 .. Count)]
  BY <1>2, <1>7 DEF ReaderInv, Placed, ReaderPlaces
<1>11. AtSection(f)'
  BY <1>1, <1>2, <1>3, <1>5, <1>9, <1>10, ArchiveTypes DEF AtSection, f, ReaderInv, Assumed
<1>12. Placed'
  <2>1. f' = f /\ f' \in 1 .. Count + 1
    BY <1>1, <1>5 DEF f, FirstNodeOf
  <2>2. \E k \in 1 .. Count + 1 : AtSection(k)'
    BY <1>11, <2>1
  <2>3. stream' \in {"closed", "windowed", "ranges"} /\ header' = TRUE /\ stream' # "closed"
        /\ want' \in Reader!Slots \cup {Reader!NoSlot}
    BY <1>1, <1>2 DEF ReaderInv, Placed
  <2>. QED  BY <1>10, <2>2, <2>3 DEF Placed, Opening, InSections
<1>. QED  BY <1>1, <1>8, <1>12, HandedStays DEF ReaderInv

\* The first slot begins behind the header.
LEMMA NoSeekKeeps == ASSUME ReaderInv, Reader!NoSeek PROVE ReaderInv'
<1>1. /\ reading.at = "ready" /\ want = Reader!FirstSlot /\ reading' = [reading EXCEPT !.at = "size"]
      /\ UNCHANGED <<stream, position, conn, buffer, header, want, got>>
  BY DEF Reader!NoSeek
<1>2. /\ reading.nodes = <<>> /\ Place = 2 /\ header /\ stream # "closed"
  BY <1>1 DEF ReaderInv, Placed, Opening, InSections
<1>3. /\ want \in Reader!Slots /\ FirstNodeOf(want) = 1 /\ BlockOf(want) \in 1 .. Count
      /\ Count \in Nat /\ want # Reader!NoSlot
  BY <1>1, FirstIsFirst, SlotRuns, ReaderBounds, ArchiveTypes DEF ReaderInv, Assumed
<1>4. /\ reading'.at = "size" /\ reading'.nodes = <<>> /\ Len(reading'.nodes) = 0
      /\ reading' \in [at : ReaderPlaces, section : Nat, nodes : Seq(1 .. Count)]
  BY <1>1, <1>2 DEF ReaderInv, Placed, ReaderPlaces
<1>5. Place' = 2
  BY <1>1, <1>2 DEF Place
<1>6. AtSection(1)'
  BY <1>1, <1>3, <1>4, <1>5 DEF AtSection
<1>7. Placed'
  BY <1>1, <1>2, <1>3, <1>4, <1>6 DEF ReaderInv, Placed, Opening, InSections
<1>8. Buffered' /\ Connected'
  BY <1>1 DEF ReaderInv, Buffered, Connected, Place
<1>. QED  BY <1>1, <1>7, <1>8, HandedStays DEF ReaderInv

LEMMA StreamKeeps ==
  ASSUME ReaderInv, Reader!AtEnd \/ Reader!Schedule \/ Reader!Connect
  PROVE  ReaderInv'
<1>1. UNCHANGED <<stream, position, buffer, header, want, got>> /\ Place' = Place
  BY DEF Reader!AtEnd, Reader!Schedule, Reader!Connect, Place
<1>2. Buffered'
  BY <1>1 DEF ReaderInv, Buffered
<1>3. \/ conn' = conn \/ conn' = [state |-> "pending", at |-> position] \/ conn' = [state |-> "none", at |-> 0]
      \/ conn.state = "pending" /\ conn' = [conn EXCEPT !.state = "open"]
  BY DEF Reader!AtEnd, Reader!Schedule, Reader!Connect, Reader!Pending, Reader!NoConn
<1>4. Connected'
  BY <1>1, <1>3, ReaderBounds DEF ReaderInv, Buffered, Connected
<1>5. reading.at # "idle"
  BY DEF Reader!AtEnd, Reader!Schedule, Reader!Connect, Reader!Starved, Reader!Reads
<1>6. reading' = reading \/ \E how \in {"eof", "failed"} : reading' = [reading EXCEPT !.at = how]
  BY DEF Reader!AtEnd, Reader!Schedule, Reader!Connect
<1>7. Placed'
  BY <1>1, <1>5, <1>6, StillPlaced, GivesUp
<1>. QED  BY <1>1, <1>2, <1>4, <1>7, HandedStays DEF ReaderInv

LEMMA UnitTypes == \A i \in Nat : Reader!Unit(i) \in Nat \X Nat
<1> SUFFICES ASSUME NEW i \in Nat PROVE Reader!Unit(i) \in Nat \X Nat
  OBVIOUS
<1>1. i \div 2 \in Nat /\ i % 2 \in Nat
  BY Z3
<1>. QED  BY <1>1 DEF Reader!Unit

\* What taking a unit and adding a section leave of a sequence.
LEMMA TailIs ==
  ASSUME NEW U, NEW s \in Seq(U), s # <<>>
  PROVE  /\ Len(s) \in Nat /\ Len(s) > 0 /\ Head(s) = s[1] /\ Len(Tail(s)) = Len(s) - 1 /\ Tail(s) \in Seq(U)
         /\ \A i \in 1 .. Len(s) - 1 : Tail(s)[i] = s[i + 1]
  OBVIOUS

LEMMA AppendIs ==
  ASSUME NEW U, NEW s \in Seq(U), NEW e \in U
  PROVE  /\ Len(s) \in Nat /\ Len(Append(s, e)) = Len(s) + 1 /\ Append(s, e) \in Seq(U)
         /\ DOMAIN s = 1 .. Len(s) /\ DOMAIN Append(s, e) = 1 .. Len(s) + 1
         /\ \A i \in 1 .. Len(s) + 1 : Append(s, e)[i] = IF i = Len(s) + 1 THEN e ELSE s[i]
  OBVIOUS

LEMMA Filled ==
  ASSUME NEW U, NEW n \in Nat, NEW f \in [1 .. n -> U]
  PROVE  f \in Seq(U) /\ Len(f) = n
  OBVIOUS

\* What a read of the connection brings goes on behind the reader's place.
LEMMA ReceiveKeeps == ASSUME ReaderInv, Reader!Receive PROVE ReaderInv'
<1>1. /\ reading.at # "idle" /\ buffer = <<>> /\ position < Reader!ArchiveLen /\ conn.state = "open"
      /\ UNCHANGED <<stream, header, want, got>>
  BY DEF Reader!Receive, Reader!Starved, Reader!Reads
<1>2. /\ conn.at = position /\ position \in Nat /\ Len(buffer) = 0 /\ Place = position
      /\ Capacity \in Nat /\ Capacity > 0 /\ Reader!ArchiveLen \in Nat
  BY <1>1, ReaderBounds DEF ReaderInv, Connected, Buffered, Place
<1>3. CASE /\ UNCHANGED <<buffer, position, conn>>
           /\ \E how \in {"eof", "failed"} : reading' = [reading EXCEPT !.at = how]
  <2>1. Buffered' /\ Connected'
    BY <1>3 DEF ReaderInv, Buffered, Connected, Place
  <2>. QED  BY <1>1, <1>3, <2>1, GivesUp, HandedStays DEF ReaderInv
<1>4. ASSUME NEW n \in 1 .. Reader!Min({Capacity, Reader!ArchiveLen - conn.at}),
             buffer' = [i \in 1 .. n |-> Reader!Unit(conn.at + i - 1)], Reader!Advance(n),
             conn' = [conn EXCEPT !.at = @ + n], reading' = reading
      PROVE  ReaderInv'
  <2> DEFINE free == Reader!ArchiveLen - conn.at
  <2>1. free \in Nat /\ {Capacity, free} \in SUBSET Nat
    BY <1>1, <1>2
  <2>2. /\ Reader!Min({Capacity, free}) \in {Capacity, free}
        /\ Reader!Min({Capacity, free}) <= Capacity /\ Reader!Min({Capacity, free}) <= free
    BY <2>1, ReaderMin
  <2>3. n \in Nat /\ n <= Capacity /\ n <= Reader!ArchiveLen - position
    BY <1>2, <2>1, <2>2
  <2>4. position' = position + n
    BY <1>4 DEF Reader!Advance
  <2> DEFINE filled == [i \in 1 .. n |-> Reader!Unit(conn.at + i - 1)]
  <2>5. filled \in [1 .. n -> Nat \X Nat]
    <3>1. \A i \in 1 .. n : conn.at + i - 1 \in Nat
      BY <1>2, <2>3
    <3>2. \A i \in 1 .. n : Reader!Unit(conn.at + i - 1) \in Nat \X Nat
      BY <3>1, UnitTypes
    <3>. QED  BY <3>2
  <2>6. \A i \in 1 .. n : filled[i] = Reader!Unit(position + i - 1)
    BY <1>2
  <2>7. buffer' = filled
    BY <1>4
  <2> HIDE DEF filled
  <2>8. buffer' \in Seq(Nat \X Nat) /\ Len(buffer') = n
    BY <2>3, <2>5, <2>7, Filled
  <2>9. Place' = position
    BY <1>2, <2>3, <2>4, <2>8 DEF Place
  <2>10. Buffered'
    <3>1. position' \in 0 .. Reader!ArchiveLen /\ n <= position'
      BY <1>2, <2>3, <2>4
    <3>2. \A i \in 1 .. n : buffer'[i] = Reader!Unit(Place' + i - 1)
      BY <2>6, <2>7, <2>9
    <3>. QED  BY <2>3, <2>8, <3>1, <3>2 DEF Buffered
  <2>11. Connected'
    <3>1. conn'.at = position' /\ position' \in 0 .. Reader!ArchiveLen
      BY <1>2, <1>4, <2>3, <2>4 DEF ReaderInv, Connected
    <3>. QED  BY <1>4, <3>1 DEF ReaderInv, Connected
  <2>. QED  BY <1>1, <1>2, <1>4, <2>9, <2>10, <2>11, StillPlaced, HandedStays DEF ReaderInv
<1>. QED  BY <1>3, <1>4 DEF Reader!Receive

\* One unit is taken.
LEMMA UnitTaken ==
  ASSUME ReaderInv, Reader!Take
  PROVE  /\ Place' = Place + 1 /\ Place \in Nat /\ Place < Reader!ArchiveLen /\ Head(buffer) = Reader!Unit(Place)
         /\ Buffered' /\ Connected' /\ reading.at \in {"header_size", "header", "size", "body"}
<1>1. buffer # <<>> /\ buffer' = Tail(buffer) /\ UNCHANGED <<position, conn>>
      /\ reading.at \in {"header_size", "header", "size", "body"}
  BY DEF Reader!Take, Reader!Reads
<1>2. buffer \in Seq(Nat \X Nat) /\ position \in Nat /\ position <= Reader!ArchiveLen /\ Reader!ArchiveLen \in Nat
  BY ReaderBounds DEF ReaderInv, Buffered
<1>3. /\ Len(buffer) \in Nat /\ Len(buffer) > 0 /\ Head(buffer) = buffer[1] /\ Len(buffer') = Len(buffer) - 1
      /\ buffer' \in Seq(Nat \X Nat) /\ \A i \in 1 .. Len(buffer) - 1 : buffer'[i] = buffer[i + 1]
  BY <1>1, <1>2, TailIs
<1>4. Place' = Place + 1 /\ Place \in Nat /\ Place < Reader!ArchiveLen
  <2>1. Len(buffer) <= position
    BY DEF ReaderInv, Buffered
  <2>2. Place = position - Len(buffer) /\ Place' = position - (Len(buffer) - 1)
    BY <1>1, <1>3 DEF Place
  <2>. QED  BY <1>2, <1>3, <2>1, <2>2
<1>5. Head(buffer) = Reader!Unit(Place)
  <2>1. buffer[1] = Reader!Unit(Place + 1 - 1)
    BY <1>3 DEF ReaderInv, Buffered
  <2>. QED  BY <1>3, <1>4, <2>1
<1>6. Buffered'
  <2>1. ASSUME NEW i \in 1 .. Len(buffer') PROVE buffer'[i] = Reader!Unit(Place' + i - 1)
    <3>1. i + 1 \in 1 .. Len(buffer) /\ i \in 1 .. Len(buffer) - 1
      BY <1>3
    <3>2. buffer[i + 1] = Reader!Unit(Place + (i + 1) - 1)
      BY <3>1 DEF ReaderInv, Buffered
    <3>3. Place + (i + 1) - 1 = Place' + i - 1
      BY <1>4
    <3>. QED  BY <1>3, <3>1, <3>2, <3>3
  <2>2. Len(buffer') <= Capacity /\ Len(buffer') <= position'
    <3>1. Len(buffer) <= Capacity /\ Len(buffer) <= position /\ Capacity \in Nat
      BY ReaderBounds DEF ReaderInv, Buffered
    <3> DEFINE len == Len(buffer)
    <3>2. len \in Nat /\ len > 0 /\ len <= Capacity /\ len <= position /\ position \in Nat /\ Capacity \in Nat
      BY <1>2, <1>3, <3>1
    <3>3. len - 1 <= Capacity /\ len - 1 <= position
      <4> HIDE DEF len
      <4>. QED  BY <3>2
    <3>. QED  BY <1>1, <1>3, <3>3
  <2>3. position' \in 0 .. Reader!ArchiveLen
    BY <1>1 DEF ReaderInv, Buffered
  <2>. QED  BY <1>3, <2>1, <2>2, <2>3 DEF Buffered
<1>7. Connected'
  BY <1>1 DEF ReaderInv, Connected
<1>. QED  BY <1>1, <1>4, <1>5, <1>6, <1>7

LEMMA HeaderKeeps ==
  ASSUME ReaderInv, Reader!Take, reading.at \in {"header_size", "header"}
  PROVE  Placed'
<1>1. Reader!TakeHeader /\ UNCHANGED <<stream, want>>
  BY DEF Reader!Take
<1>2. /\ reading.nodes = <<>> /\ want \in Reader!Slots /\ (stream = "windowed" => want = Reader!FirstSlot)
      /\ stream # "closed" /\ stream \in {"closed", "windowed", "ranges"}
      /\ Place = IF reading.at = "header_size" THEN 0 ELSE 1
  BY DEF ReaderInv, Placed, Opening
<1>3. Place' = Place + 1
  BY UnitTaken
<1>4. CASE reading.at = "header_size"
  <2>1. reading' = [reading EXCEPT !.at = "header"] /\ header' = header
    BY <1>1, <1>4 DEF Reader!TakeHeader
  <2>2. /\ reading'.at = "header" /\ reading'.nodes = <<>>
        /\ reading' \in [at : ReaderPlaces, section : Nat, nodes : Seq(1 .. Count)]
    BY <1>2, <2>1 DEF ReaderInv, Placed, ReaderPlaces
  <2>3. header' \in BOOLEAN /\ Place' = 1
    <3>1. header \in BOOLEAN
      BY DEF ReaderInv, Placed
    <3>2. Place = 0 /\ Place \in Nat /\ Place' = Place + 1
      BY <1>2, <1>4, UnitTaken
    <3>3. Place' = 1
      BY <3>2
    <3>. QED  BY <2>1, <3>1, <3>3
  <2>. QED  BY <1>1, <1>2, <2>2, <2>3 DEF Placed, Opening, InSections
<1>5. CASE reading.at = "header"
  <2>1. reading' = [reading EXCEPT !.at = "ready"] /\ header' = TRUE
    BY <1>1, <1>5 DEF Reader!TakeHeader
  <2>2. /\ reading'.at = "ready" /\ reading'.nodes = <<>>
        /\ reading' \in [at : ReaderPlaces, section : Nat, nodes : Seq(1 .. Count)]
    BY <1>2, <2>1 DEF ReaderInv, Placed, ReaderPlaces
  <2>3. Place' = 2
    BY <1>2, <1>3, <1>5
  <2>. QED  BY <1>1, <1>2, <2>1, <2>2, <2>3 DEF Placed, Opening, InSections
<1>. QED  BY <1>4, <1>5

\* The two units of a section follow each other.
LEMMA SectionUnits ==
  ASSUME NEW k \in Nat, k > 0
  PROVE  Reader!Unit(2 * k) = <<k, 0>> /\ Reader!Unit(2 * k + 1) = <<k, 1>>
<1>1. (2 * k) \div 2 = k /\ (2 * k) % 2 = 0 /\ (2 * k + 1) \div 2 = k /\ (2 * k + 1) % 2 = 1
  BY Z3
<1>2. ~(2 * k < 2) /\ ~(2 * k + 1 < 2)
  OBVIOUS
<1>. QED  BY <1>1, <1>2 DEF Reader!Unit

\* A section is taken in the right order, and the block of the slot is the last one.
LEMMA SectionKeeps ==
  ASSUME ReaderInv, Reader!Take, reading.at \in {"size", "body"}
  PROVE  Placed'
<1>1. Reader!TakeSection(Head(buffer)) /\ UNCHANGED <<stream, header, want>>
  BY DEF Reader!Take
<1>2. /\ header /\ stream # "closed" /\ stream \in {"closed", "windowed", "ranges"} /\ header \in BOOLEAN
      /\ reading \in [at : ReaderPlaces, section : Nat, nodes : Seq(1 .. Count)]
      /\ want \in Reader!Slots \cup {Reader!NoSlot}
  BY DEF ReaderInv, Placed, InSections
<1>3. PICK k \in 1 .. Count + 1 : AtSection(k)
  BY DEF ReaderInv, Placed, InSections
<1>4. /\ Place' = Place + 1 /\ Place \in Nat /\ Place < Reader!ArchiveLen /\ Head(buffer) = Reader!Unit(Place)
      /\ Count \in Nat /\ Reader!ArchiveLen = 2 + 2 * Count /\ k \in Nat /\ k > 0
  <2>1. Count \in Nat /\ Reader!ArchiveLen = 2 + 2 * Count
    BY ReaderBounds DEF ReaderInv
  <2>2. k \in Nat /\ k > 0
    BY <1>3, <2>1
  <2>3. Place' = Place + 1 /\ Place \in Nat /\ Place < Reader!ArchiveLen /\ Head(buffer) = Reader!Unit(Place)
    BY UnitTaken
  <2>. QED  BY <2>1, <2>2, <2>3
<1>5. ASSUME reading'.at \in InSections, NEW j \in 1 .. Count + 1, AtSection(j)',
             reading' \in [at : ReaderPlaces, section : Nat, nodes : Seq(1 .. Count)]
      PROVE  Placed'
  <2>1. \E i \in 1 .. Count + 1 : AtSection(i)'
    BY <1>5
  <2>. QED  BY <1>1, <1>2, <1>5, <2>1 DEF Placed, InSections, Opening
<1>6. CASE reading.at = "size"
  <2>1. Place = 2 * k
    BY <1>3, <1>6 DEF AtSection
  <2>2. Head(buffer) = <<k, 0>> /\ k \in 1 .. Count
    <3>1. k <= Count
      BY <1>4, <2>1
    <3>2. k \in 1 .. Count
      BY <1>4, <3>1
    <3>3. Head(buffer) = Reader!Unit(2 * k)
      BY <1>4, <2>1
    <3>. QED  BY <1>4, <3>2, <3>3, SectionUnits
  <2> DEFINE u == Head(buffer)
  <2>3. reading' = [reading EXCEPT !.at = "body", !.section = k]
    <3>1. u[1] = k /\ u[2] = 0
      BY <2>2
    <3> HIDE DEF u
    <3>2. Reader!TakeSection(u)
      BY <1>1 DEF u
    <3>. QED  BY <1>6, <3>1, <3>2 DEF Reader!TakeSection
  <2>4. /\ reading'.at = "body" /\ reading'.section = k /\ reading'.nodes = reading.nodes
        /\ reading' \in [at : ReaderPlaces, section : Nat, nodes : Seq(1 .. Count)]
    BY <1>2, <1>4, <2>3 DEF ReaderPlaces
  <2>5. AtSection(k)'
    BY <1>1, <1>3, <1>4, <1>6, <2>1, <2>2, <2>4 DEF AtSection
  <2>. QED  BY <1>3, <1>5, <2>4, <2>5 DEF InSections
<1>7. CASE reading.at = "body"
  <2>1. Place = 2 * k + 1 /\ reading.section = k /\ k \in 1 .. Count
    BY <1>3, <1>7 DEF AtSection
  <2>2. Head(buffer) = <<k, 1>>
    BY <1>4, <2>1, SectionUnits
  <2> DEFINE to == IF Sections[k].kind = "block" THEN "batch" ELSE "size"
  <2>3. reading' = [reading EXCEPT !.nodes = Append(@, k), !.at = to]
    <3> DEFINE u == Head(buffer)
    <3>1. u[1] = k /\ u = <<reading.section, 1>>
      BY <2>1, <2>2
    <3> HIDE DEF u
    <3>2. Reader!TakeSection(u)
      BY <1>1 DEF u
    <3>3. reading' = [reading EXCEPT !.nodes = Append(@, u[1]),
                                     !.at = IF Sections[u[1]].kind = "block" THEN "batch" ELSE "size"]
      BY <1>7, <3>1, <3>2 DEF Reader!TakeSection, Reader!Parses
    <3>. QED  BY <3>1, <3>3
  <2>4. /\ reading'.at = to /\ reading'.nodes = Append(reading.nodes, k)
        /\ reading' \in [at : ReaderPlaces, section : Nat, nodes : Seq(1 .. Count)]
    <3>1. to \in ReaderPlaces /\ Append(reading.nodes, k) \in Seq(1 .. Count)
      BY <1>2, <2>1, AppendIs DEF ReaderPlaces
    <3> HIDE DEF to
    <3>. QED  BY <1>2, <2>3, <3>1
  <2>5. Place' = 2 * (k + 1) /\ k + 1 \in 1 .. Count + 1
    BY <1>4, <2>1
  <2>6. /\ reading.nodes \in Seq(1 .. Count) /\ Len(reading'.nodes) = Len(reading.nodes) + 1
        /\ \A n \in 1 .. Len(reading'.nodes) :
             reading'.nodes[n] = IF n = Len(reading.nodes) + 1 THEN k ELSE reading.nodes[n]
    BY <1>2, <2>1, <2>4, AppendIs
  <2>7. ASSUME want \in Reader!Slots
        PROVE  /\ FirstNodeOf(want) <= k + 1 /\ Len(reading'.nodes) = (k + 1) - FirstNodeOf(want)
               /\ \A n \in 1 .. Len(reading'.nodes) : reading'.nodes[n] = FirstNodeOf(want) + n - 1
               /\ IF to = "batch" THEN k + 1 = BlockOf(want) + 1 ELSE k + 1 <= BlockOf(want)
    <3>1. /\ FirstNodeOf(want) <= k /\ Len(reading.nodes) = k - FirstNodeOf(want) /\ k <= BlockOf(want)
          /\ \A n \in 1 .. Len(reading.nodes) : reading.nodes[n] = FirstNodeOf(want) + n - 1
      BY <1>3, <1>7, <2>7 DEF AtSection
    <3>2. /\ FirstNodeOf(want) \in Nat /\ BlockOf(want) \in Nat /\ Sections[BlockOf(want)].kind = "block"
          /\ \A i \in FirstNodeOf(want) .. BlockOf(want) : Sections[i].kind = "block" => i = BlockOf(want)
      BY <2>7, SlotRuns, <1>4 DEF ReaderInv, Assumed
    <3>3. Sections[k].kind = "block" <=> k = BlockOf(want)
      BY <1>4, <3>1, <3>2
    <3>4. Len(reading'.nodes) = (k + 1) - FirstNodeOf(want) /\ FirstNodeOf(want) <= k + 1
      BY <1>4, <2>6, <3>1, <3>2
    <3>5. ASSUME NEW n \in 1 .. Len(reading'.nodes) PROVE reading'.nodes[n] = FirstNodeOf(want) + n - 1
      <4>1. CASE n = Len(reading.nodes) + 1
        BY <1>4, <2>6, <3>1, <3>2, <4>1
      <4>2. CASE n # Len(reading.nodes) + 1
        <5>1. n \in 1 .. Len(reading.nodes)
          BY <2>6, <4>2
        <5>. QED  BY <2>6, <3>1, <4>2, <5>1
      <4>. QED  BY <4>1, <4>2
    <3>. QED  BY <1>4, <3>1, <3>2, <3>3, <3>4, <3>5
  <2>8. ASSUME want = Reader!NoSlot
        PROVE  to # "batch" /\ \A i \in k + 1 .. Count : Sections[i].kind = "tail"
    <3>1. \A i \in k .. Count : Sections[i].kind = "tail"
      BY <1>3, <2>8 DEF AtSection
    <3>. QED  BY <1>4, <2>1, <3>1
  <2>9. to # "body" /\ to \in InSections
    BY DEF InSections
  <2> HIDE DEF to
  <2>10. AtSection(k + 1)'
    <3>1. want' = want /\ Count \in Nat
      BY <1>1, <1>4
    <3> DEFINE m == k + 1
    <3>2. m \in 1 .. Count + 1 /\ reading'.at # "body" /\ Place' = 2 * m
      BY <2>4, <2>5, <2>9
    <3>3. want' \in Reader!Slots =>
            /\ FirstNodeOf(want') <= m /\ Len(reading'.nodes) = m - FirstNodeOf(want')
            /\ \A n \in 1 .. Len(reading'.nodes) : reading'.nodes[n] = FirstNodeOf(want') + n - 1
            /\ IF reading'.at = "batch" THEN m = BlockOf(want') + 1 ELSE m <= BlockOf(want')
      <4> SUFFICES ASSUME want \in Reader!Slots
                   PROVE  /\ FirstNodeOf(want) <= m /\ Len(reading'.nodes) = m - FirstNodeOf(want)
                          /\ \A n \in 1 .. Len(reading'.nodes) : reading'.nodes[n] = FirstNodeOf(want) + n - 1
                          /\ IF reading'.at = "batch" THEN m = BlockOf(want) + 1 ELSE m <= BlockOf(want)
        BY <3>1
      <4>1. reading'.at = to
        BY <2>4
      <4>. QED  BY <2>7, <4>1
    <3>4. want' = Reader!NoSlot =>
            reading'.at # "batch" /\ \A i \in m .. Count : Sections[i].kind = "tail"
      BY <2>4, <2>8, <3>1
    <3> HIDE DEF m
    <3>5. AtSection(m)'
      BY <3>2, <3>3, <3>4 DEF AtSection
    <3>. QED  BY <3>5 DEF m
  <2>. QED  BY <1>5, <2>4, <2>5, <2>9, <2>10
<1>. QED  BY <1>6, <1>7

LEMMA TakeKeeps == ASSUME ReaderInv, Reader!Take PROVE ReaderInv'
<1>1. UNCHANGED <<want, got>>
  BY DEF Reader!Take
<1>. QED  BY <1>1, UnitTaken, HeaderKeeps, SectionKeeps, HandedStays DEF ReaderInv

\* A batch is handed over once the block is taken: all of its slot.
LEMMA DeliverKeeps == ASSUME ReaderInv, Reader!Deliver PROVE ReaderInv'
<1> DEFINE nodes == reading.nodes
           b == BlockOf(want)
           f == FirstNodeOf(want)
<1>1. /\ reading.at = "batch" /\ got' = Append(got, nodes)
      /\ want' = Reader!After(Sections[Reader!Last(nodes)].slot)
      /\ reading' = [at |-> "size", section |-> 0, nodes |-> <<>>]
      /\ UNCHANGED <<stream, position, conn, buffer, header>>
  BY DEF Reader!Deliver, Reader!Idle
<1>2. /\ header /\ stream # "closed" /\ stream \in {"closed", "windowed", "ranges"} /\ header \in BOOLEAN
      /\ nodes \in Seq(1 .. Count) /\ want \in Reader!Slots \cup {Reader!NoSlot}
  BY <1>1 DEF ReaderInv, Placed, InSections
<1>3. PICK k \in 1 .. Count + 1 : AtSection(k)
  BY <1>1 DEF ReaderInv, Placed, InSections
<1>4. want \in Reader!Slots /\ Reader!LayoutAssumption
  BY <1>1, <1>2, <1>3 DEF AtSection, ReaderInv, Assumed
<1>5. /\ k = b + 1 /\ Len(nodes) = k - f /\ f <= k /\ Place = 2 * k
      /\ \A n \in 1 .. Len(nodes) : nodes[n] = f + n - 1
  BY <1>1, <1>3, <1>4 DEF AtSection
<1>6. /\ b \in 1 .. Count /\ f \in 1 .. b /\ Count \in Nat /\ Sections[b].slot = want
      /\ Reader!NodesOf(want) = f .. b /\ want \in Nat
  BY <1>4, SlotRuns, ArchiveTypes
<1> HIDE DEF nodes, b, f
<1>7. Len(nodes) = b - f + 1 /\ Len(nodes) \in Nat /\ Len(nodes) > 0
  BY <1>5, <1>6
<1>8. Reader!Last(nodes) = b
  <2>1. Reader!Last(nodes) = nodes[Len(nodes)]
    BY DEF Reader!Last
  <2>2. nodes[Len(nodes)] = f + Len(nodes) - 1
    BY <1>5, <1>7
  <2>3. f + (b - f + 1) - 1 = b
    BY <1>6
  <2>. QED  BY <1>7, <2>1, <2>2, <2>3
<1>9. want' = Reader!After(want) /\ Sections[Reader!Last(nodes)].slot = want
  BY <1>1, <1>6, <1>8
<1>10. Place' = 2 * k /\ Buffered' /\ Connected'
  BY <1>1, <1>5 DEF ReaderInv, Buffered, Connected, Place
<1>11. \/ want' \in Reader!Slots /\ FirstNodeOf(want') = k
       \/ want' = Reader!NoSlot /\ \A i \in k .. Count : Sections[i].kind = "tail"
  BY <1>4, <1>5, <1>9, SlotsFollow DEF b
<1>12. /\ reading'.at = "size" /\ reading'.nodes = <<>> /\ Len(reading'.nodes) = 0
       /\ reading' \in [at : ReaderPlaces, section : Nat, nodes : Seq(1 .. Count)]
  <2>1. <<>> \in Seq(1 .. Count) /\ 0 \in Nat /\ "size" \in ReaderPlaces
    BY DEF ReaderPlaces
  <2>. QED  BY <1>1, <2>1
<1>13. AtSection(k)'
  <2>1. CASE want' \in Reader!Slots
    <3>1. FirstNodeOf(want') = k /\ k <= BlockOf(want') /\ want' # Reader!NoSlot
      BY <1>4, <1>11, <2>1, SlotRuns, ArchiveTypes
    <3>. QED  BY <1>3, <1>10, <1>12, <3>1 DEF AtSection
  <2>2. CASE want' = Reader!NoSlot
    BY <1>3, <1>4, <1>10, <1>11, <1>12, <2>2, ArchiveTypes DEF AtSection
  <2>. QED  BY <1>11, <2>1, <2>2
<1>14. Placed'
  <2>1. \E i \in 1 .. Count + 1 : AtSection(i)'
    BY <1>3, <1>13
  <2>. QED  BY <1>1, <1>2, <1>11, <1>12, <2>1 DEF Placed, InSections, Opening
<1>15. /\ got \in Seq(Seq(1 .. Count)) /\ got' \in Seq(Seq(1 .. Count)) /\ Len(got) \in Nat /\ Len(got') = Len(got) + 1
       /\ \A i \in 1 .. Len(got) + 1 : got'[i] = IF i = Len(got) + 1 THEN nodes ELSE got[i]
       /\ DOMAIN got' = 1 .. Len(got) + 1 /\ DOMAIN got = 1 .. Len(got)
  <2>1. got \in Seq(Seq(1 .. Count)) /\ nodes \in Seq(1 .. Count)
    BY <1>2 DEF ReaderInv, Handed, nodes
  <2>2. got' = Append(got, nodes)
    BY <1>1 DEF nodes
  <2> DEFINE U == Seq(1 .. Count)
  <2> HIDE DEF U
  <2>3. got \in Seq(U) /\ nodes \in U
    BY <2>1 DEF U
  <2>4. /\ Len(got) \in Nat /\ Len(got') = Len(got) + 1 /\ got' \in Seq(U)
        /\ DOMAIN got = 1 .. Len(got) /\ DOMAIN got' = 1 .. Len(got) + 1
        /\ \A i \in 1 .. Len(got) + 1 : got'[i] = IF i = Len(got) + 1 THEN nodes ELSE got[i]
    BY <2>2, <2>3, AppendIs
  <2>. QED  BY <2>1, <2>4 DEF U
<1>16. /\ Reader!Range(nodes) = Reader!NodesOf(want)
       /\ \A i, j \in DOMAIN nodes : i < j => nodes[i] < nodes[j]
  <2>1. DOMAIN nodes = 1 .. b - f + 1
    BY <1>2, <1>7 DEF nodes
  <2>2. Reader!Range(nodes) = {nodes[n] : n \in 1 .. b - f + 1}
    BY <2>1 DEF Reader!Range
  <2>3. \A n \in 1 .. b - f + 1 : nodes[n] = f + n - 1
    BY <1>5, <1>7
  <2>4. ASSUME NEW i \in f .. b PROVE \E n \in 1 .. b - f + 1 : nodes[n] = i
    <3>1. i - f + 1 \in 1 .. b - f + 1 /\ f + (i - f + 1) - 1 = i
      BY <1>6
    <3>. QED  BY <2>3, <3>1
  <2>5. \A n \in 1 .. b - f + 1 : nodes[n] \in f .. b
    BY <1>6, <2>3
  <2>6. Reader!Range(nodes) = f .. b
    BY <2>2, <2>4, <2>5
  <2>. QED  BY <1>6, <2>1, <2>3, <2>6
<1>17. Reader!WholeSlots'
  <2> SUFFICES ASSUME NEW i \in DOMAIN got'
               PROVE  LET s == Sections[Reader!Last(got'[i])].slot
                      IN /\ Reader!Range(got'[i]) = Reader!NodesOf(s)
                         /\ \A j, n \in DOMAIN got'[i] : j < n => got'[i][j] < got'[i][n]
                         /\ s = IF i = 1 THEN Reader!FirstSlot
                                ELSE Reader!After(Sections[Reader!Last(got'[i - 1])].slot)
    BY DEF Reader!WholeSlots
  <2>1. CASE i = Len(got) + 1
    <3>1. got'[i] = nodes /\ Sections[Reader!Last(got'[i])].slot = want
      BY <1>9, <1>15, <2>1
    <3>2. want = IF i = 1 THEN Reader!FirstSlot ELSE Reader!After(Sections[Reader!Last(got'[i - 1])].slot)
      <4>1. CASE i = 1
        BY <1>15, <2>1, <4>1 DEF ReaderInv, Handed
      <4>2. CASE i # 1
        <5>1. got # <<>> /\ i - 1 = Len(got) /\ i - 1 \in 1 .. Len(got) + 1 /\ i - 1 # Len(got) + 1
          <6>1. Len(got) \in Nat /\ i = Len(got) + 1
            BY <1>15, <2>1
          <6>2. Len(got) # 0
            BY <4>2, <6>1
          <6>3. got # <<>>
            BY <6>2
          <6>. QED  BY <6>1, <6>2, <6>3
        <5>2. got'[i - 1] = got[Len(got)]
          BY <1>15, <5>1
        <5>. QED  BY <4>2, <5>1, <5>2 DEF ReaderInv, Handed
      <4>. QED  BY <4>1, <4>2
    <3>. QED  BY <1>16, <3>1, <3>2
  <2>2. CASE i # Len(got) + 1
    <3>1. i \in 1 .. Len(got) /\ got'[i] = got[i] /\ (i # 1 => got'[i - 1] = got[i - 1])
      BY <1>15, <2>2
    <3>. QED  BY <1>15, <3>1 DEF ReaderInv, Handed, Reader!WholeSlots
  <2>. QED  BY <2>1, <2>2
<1>18. Handed'
  <2>1. got' # <<>> /\ got'[Len(got')] = nodes
    BY <1>15
  <2>. QED  BY <1>9, <1>15, <1>17, <2>1 DEF Handed
<1>. QED  BY <1>10, <1>14, <1>18 DEF ReaderInv, Assumed, Reader!ReaderAssumption, Reader!LayoutAssumption

LEMMA EndKeeps == ASSUME ReaderInv, Reader!End PROVE ReaderInv'
<1>1. /\ stream' = "closed" /\ position' = 0 /\ buffer' = <<>> /\ header' = FALSE
      /\ UNCHANGED <<want, got>>
  BY DEF Reader!End, Reader!Closed
<1>2. conn' = [state |-> "none", at |-> 0] /\ reading' = [at |-> "idle", section |-> 0, nodes |-> <<>>]
  BY DEF Reader!End, Reader!Closed, Reader!NoConn, Reader!Idle
<1>3. 0 \in 0 .. Reader!ArchiveLen /\ 0 <= Capacity
  BY ReaderBounds DEF ReaderInv
<1>4. Buffered'
  <2>1. buffer' \in Seq(Nat \X Nat) /\ Len(buffer') = 0
    BY <1>1
  <2>. QED  BY <1>1, <1>3, <2>1 DEF Buffered
<1>5. Connected'
  BY <1>2, <1>3 DEF Connected
<1>6. reading'.at = "idle" /\ reading' \in [at : ReaderPlaces, section : Nat, nodes : Seq(1 .. Count)]
  <2>1. <<>> \in Seq(1 .. Count) /\ 0 \in Nat /\ "idle" \in ReaderPlaces
    BY DEF ReaderPlaces
  <2>. QED  BY <1>2, <2>1
<1>7. Placed'
  BY <1>1, <1>6 DEF ReaderInv, Placed, Opening, InSections
<1>. QED  BY <1>1, <1>4, <1>5, <1>7, HandedStays DEF ReaderInv

LEMMA ReaderNext == ASSUME ReaderInv, [Reader!Next]_(Reader!vars) PROVE ReaderInv'
<1>1. CASE UNCHANGED Reader!vars
  <2>1. UNCHANGED <<stream, position, conn, buffer, header, reading, want, got>>
    BY <1>1 DEF Reader!vars
  <2>2. Buffered' /\ Connected' /\ Place' = Place
    BY <2>1 DEF ReaderInv, Buffered, Connected, Place
  <2>. QED  BY <2>1, <2>2, StillPlaced, HandedStays DEF ReaderInv
<1>. QED  BY <1>1, OpenKeeps, SeekKeeps, NoSeekKeeps, StreamKeeps, ReceiveKeeps, TakeKeeps, DeliverKeeps, EndKeeps
          DEF Reader!Next, Reader!Step, Reader!Over

\* A batch with a block is all of one slot in the order of the archive, and the batches follow
\* each other without a gap from the first slot on, for every archive, size of the buffer and
\* number of faults (read_until_block, S3SeekableReader, RipgetEpochReader).
THEOREM BatchesAreWhole == Assumed /\ Reader!Spec => []Reader!WholeSlots
<1>1. Assumed /\ Reader!Init => ReaderInv
  BY ReaderStarts
<1>2. ReaderInv /\ [Reader!Next]_(Reader!vars) => ReaderInv'
  BY ReaderNext
<1>3. ReaderInv => Reader!WholeSlots
  BY DEF ReaderInv, Handed
<1>. QED  BY <1>1, <1>2, <1>3, PTL DEF Reader!Spec

\* The types, an open connection stands where the stream takes itself to be, and the stream that
\* cannot seek is never asked to (use_sequential_stream).
THEOREM NeverSoughtInVain == Assumed /\ Reader!Spec => [](Reader!TypeOK /\ Reader!NeverRefused)
<1>1. Assumed /\ Reader!Init => ReaderInv
  BY ReaderStarts
<1>2. ReaderInv /\ [Reader!Next]_(Reader!vars) => ReaderInv'
  BY ReaderNext
<1>3. ReaderInv => Reader!TypeOK
  <2> SUFFICES ASSUME ReaderInv PROVE Reader!TypeOK
    OBVIOUS
  <2>1. stream \in {"closed", "windowed", "ranges"} /\ position \in 0 .. Reader!ArchiveLen
        /\ conn.at \in 0 .. Reader!ArchiveLen /\ Len(buffer) <= Capacity
        /\ (conn.state = "open" => conn.at = position)
    BY DEF ReaderInv, Buffered, Connected, Placed
  <2>2. reading.at \in {"ready", "size", "body", "batch"} => header /\ stream # "closed"
    BY DEF ReaderInv, Placed, InSections
  <2>. QED  BY <2>1, <2>2 DEF Reader!TypeOK
<1>4. ReaderInv => Reader!NeverRefused
  <2> SUFFICES ASSUME ReaderInv, stream = "windowed", reading.at = "ready", want > Reader!FirstSlot PROVE FALSE
    BY DEF Reader!NeverRefused
  <2>1. want = Reader!FirstSlot /\ Reader!FirstSlot \in Nat
    BY FirstIsFirst, SlotRuns DEF ReaderInv, Placed, Opening, Assumed
  <2>. QED  BY <2>1
<1>. QED  BY <1>1, <1>2, <1>3, <1>4, PTL DEF Reader!Spec

-----------------------------------------------------------------------------
(* The invariant, over the record a of a caller.                           *)

Using == {"cell", "ranges", "legacy", "lookup"}
Seeking == {"cached", "again", "insert", "outer", "found"}

Records ==
  [step : Steps, want : Slots, probe : Slots \X Slots, cur : Slots, mode : {"seek", "tail", "probe"},
   entry : EntryIds \cup {Nothing}, got : Int, need : Nat]

\* Some index that was published so far does not have the slot.
Absent(s, rem) == \E v \in 1 .. rem[EpochOf(s)] : Where(s, v) = "absent"

\* A seek stays in its epoch and has passed over absent slots only.
Sought(a, rem) ==
  a.mode # "probe" /\ a.step \in Seeking \cup Using \cup {"entry"} =>
    /\ EpochOf(a.cur) = EpochOf(a.want)
    /\ a.mode = "seek" => a.want <= a.cur /\ \A s \in a.want .. (a.cur - 1) : Absent(s, rem)
    /\ a.mode = "tail" => \A s \in (a.cur + 1) .. LastOf(EpochOf(a.want)) : Absent(s, rem)

\* So has a probe, through any number of epochs.
Probed(a, rem) ==
  /\ a.mode = "probe" /\ a.step \in Using \cup {"entry"} =>
       /\ a.probe[1] < a.cur /\ a.cur <= a.probe[2]
       /\ \A s \in (a.probe[1] + 1) .. (a.cur - 1) : Absent(s, rem)
  /\ a.step = "answer" /\ a.got # Unknown =>
       /\ a.got \in (a.probe[1] + 1) .. a.probe[2]
       /\ \E v \in 1 .. rem[EpochOf(a.got)] : Where(a.got, v) # "absent"
       /\ \A s \in (a.probe[1] + 1) .. (a.got - 1) : Absent(s, rem)

Local(a, rem, ent) ==
  /\ a.entry # Nothing <=> a.step \in Using
  /\ a.step \in Seeking \cup {"drop", "sweep", "retry"} => a.mode # "probe"
  /\ a.step \in {"insert", "outer", "found"} => a.got \in 1 .. rem[EpochOf(a.cur)]
  /\ a.step = "sweep" => EpochOf(a.cur) = EpochOf(a.want)
  /\ a.step = "lookup" => ent[a.entry].version # Nothing
  /\ Sought(a, rem) /\ Probed(a, rem)

Cells == [version : Nat, loader : Callers \cup {Nothing}]

\* An entry is of one epoch: the one under which the map has it, and for which every caller
\* that holds it has taken it.
Uses(id, e) ==
  /\ \A c \in Callers : at[c].entry = id => EpochOf(at[c].cur) = e
  /\ \A f \in Epochs : epochs[f] = id => f = e
  /\ entries[id].version <= remote[e]

IndexInv ==
  /\ IndexAssumption
  /\ remote \in [Epochs -> Nat] /\ \A e \in Epochs : remote[e] \in Versions(e)
  /\ ranges \in [Slots -> Nat] /\ \A s \in Slots : ranges[s] <= remote[EpochOf(s)]
  /\ epochs \in [Epochs -> EntryIds \cup {Nothing}]
  /\ entries \in [EntryIds -> Cells]
  /\ \A i \in EntryIds : entries[i].version = Nothing \/ entries[i].loader = Nothing
  /\ at \in [Callers -> Records]
  /\ forced \in [Epochs -> Nat]
  /\ \A c \in Callers : Local(at[c], remote, entries)
  /\ \A id \in EntryIds : \E e \in Epochs : Uses(id, e)

\* The index of a single caller: nothing in it is older than what was asked for.
FreshRanges == \A s \in Slots : ranges[s] # Nothing => forced[EpochOf(s)] <= ranges[s]
FreshEntries ==
  \A e \in Epochs : epochs[e] # Nothing /\ entries[epochs[e]].version # Nothing =>
    forced[e] <= entries[epochs[e]].version
FreshCaller(a, ent, eps, rng) ==
  /\ a.entry # Nothing /\ ent[a.entry].version # Nothing => forced[EpochOf(a.cur)] <= ent[a.entry].version
  /\ a.mode # "probe" /\ a.step \in Seeking \cup Using \cup {"entry"} => a.need <= forced[EpochOf(a.cur)]
  /\ a.step \in {"insert", "outer", "found"} => forced[EpochOf(a.cur)] <= a.got
  /\ a.step = "sweep" => /\ eps[EpochOf(a.cur)] = Nothing
                         /\ \A s \in FirstOf(EpochOf(a.cur)) .. (a.cur - 1) : rng[s] = Nothing

FreshInv ==
  /\ IndexInv
  /\ \A e \in Epochs : forced[e] <= remote[e]
  /\ FreshRanges /\ FreshEntries
  /\ \A c \in Callers : FreshCaller(at[c], entries, epochs, ranges)

-----------------------------------------------------------------------------
(* Epochs and their slots.                                                 *)

\* An epoch holds the slots from its first to its last.
LEMMA EpochHolds ==
  ASSUME EpochLen \in Nat \ {0}, NEW s \in Nat
  PROVE  /\ EpochOf(s) \in Nat /\ FirstOf(EpochOf(s)) \in Nat
         /\ FirstOf(EpochOf(s)) <= s /\ s <= LastOf(EpochOf(s))
  BY Z3 DEF EpochOf, FirstOf, LastOf

LEMMA EpochIs ==
  ASSUME EpochLen \in Nat \ {0}, NEW e \in Nat, NEW s \in Nat, FirstOf(e) <= s, s <= LastOf(e)
  PROVE  EpochOf(s) = e
  BY Z3 DEF EpochOf, FirstOf, LastOf

LEMMA EpochNext ==
  ASSUME EpochLen \in Nat \ {0}, NEW e \in Nat
  PROVE  /\ FirstOf(e) \in Nat /\ LastOf(e) \in Nat /\ FirstOf(e) <= LastOf(e)
         /\ FirstOf(e + 1) = LastOf(e) + 1
  BY Z3 DEF FirstOf, LastOf

LEMMA EpochMonotone ==
  ASSUME EpochLen \in Nat \ {0}, NEW s \in Nat, NEW t \in Nat, s <= t
  PROVE  EpochOf(s) <= EpochOf(t)
  BY Z3 DEF EpochOf

\* The slots are those of the epochs, from 0 on.
LEMMA SlotsAre ==
  ASSUME IndexAssumption
  PROVE  /\ EpochLen \in Nat \ {0} /\ Epochs \subseteq Nat /\ Slots \subseteq Nat /\ 0 \in Slots
         /\ \A s \in Slots : EpochOf(s) \in Epochs
         /\ \A s \in Nat : EpochOf(s) \in Epochs => s \in Slots
         /\ \A s \in Slots, r \in Nat : r <= s => r \in Slots
         /\ \A e \in Epochs, s \in Nat : FirstOf(e) <= s /\ s <= LastOf(e) => s \in Slots /\ EpochOf(s) = e
<1>1. EpochLen \in Nat \ {0}
  BY DEF IndexAssumption
<1>2. PICK n \in Epochs : n \in Nat /\ Epochs = 0 .. n
  BY DEF IndexAssumption
<1>3. ASSUME NEW s \in Slots PROVE s \in Nat /\ EpochOf(s) \in Epochs
  <2>1. PICK e \in Epochs : s \in FirstOf(e) .. LastOf(e)
    BY DEF Slots
  <2>4. e \in Nat
    BY <1>2
  <2>2. FirstOf(e) \in Nat /\ LastOf(e) \in Nat
    BY <1>1, <2>4, EpochNext
  <2>3. s \in Nat /\ EpochOf(s) = e
    BY <1>1, <2>1, <2>2, <2>4, EpochIs
  <2>. QED  BY <2>3
<1>4. ASSUME NEW s \in Nat, EpochOf(s) \in Epochs PROVE s \in Slots
  <2>1. FirstOf(EpochOf(s)) <= s /\ s <= LastOf(EpochOf(s)) /\ EpochOf(s) \in Nat
    BY <1>1, EpochHolds
  <2>2. FirstOf(EpochOf(s)) \in Nat /\ LastOf(EpochOf(s)) \in Nat
    BY <1>1, <2>1, EpochNext
  <2>3. s \in FirstOf(EpochOf(s)) .. LastOf(EpochOf(s))
    BY <2>1, <2>2
  <2>. QED  BY <1>4, <2>3 DEF Slots
<1>5. ASSUME NEW s \in Slots, NEW r \in Nat, r <= s PROVE r \in Slots
  <2>1. EpochOf(r) <= EpochOf(s) /\ EpochOf(r) \in Nat /\ EpochOf(s) \in 0 .. n
    BY <1>1, <1>2, <1>3, <1>5, EpochMonotone, EpochHolds
  <2>2. EpochOf(r) \in Epochs
    BY <1>2, <2>1
  <2>. QED  BY <1>4, <2>2
<1>6. 0 \in Slots
  <2>1. EpochOf(0) \in Nat /\ EpochOf(0) = 0
    BY <1>1, Z3 DEF EpochOf
  <2>. QED  BY <1>2, <1>4, <2>1
<1>7. ASSUME NEW e \in Epochs, NEW s \in Nat, FirstOf(e) <= s, s <= LastOf(e) PROVE s \in Slots /\ EpochOf(s) = e
  <2>1. EpochOf(s) = e
    BY <1>1, <1>2, <1>7, EpochIs
  <2>. QED  BY <1>4, <2>1
<1>. QED  BY <1>1, <1>2, <1>3, <1>4, <1>5, <1>6, <1>7

\* A slot of an epoch is between its first and its last.
LEMMA SlotHolds ==
  ASSUME IndexAssumption, NEW s \in Slots
  PROVE  /\ s \in Nat /\ EpochOf(s) \in Epochs /\ EpochOf(s) \in Nat
         /\ FirstOf(EpochOf(s)) \in Nat /\ LastOf(EpochOf(s)) \in Nat
         /\ FirstOf(EpochOf(s)) <= s /\ s <= LastOf(EpochOf(s))
  BY SlotsAre, EpochHolds, EpochNext

\* A caller without an entry and an epoch without one leave an entry free.
LEMMA EntryFree ==
  ASSUME IndexInv, NEW c \in Callers, at[c].entry = Nothing, NEW e \in Epochs, epochs[e] = Nothing
  PROVE  Min(EntryIds \ Held) \in EntryIds \ Held
<1> DEFINE A == Callers \ {c}
           B == Epochs \ {e}
           f == [d \in A |-> at[d].entry]
           g == [i \in B |-> epochs[i]]
           F == {f[d] : d \in A}
           G == {g[i] : i \in B}
           n == Cardinality(Callers)
           m == Cardinality(Epochs)
<1>1. IsFiniteSet(Callers) /\ IsFiniteSet(Epochs) /\ n \in Nat /\ m \in Nat
  BY FS_CardinalityType DEF IndexInv, IndexAssumption
<1>2. /\ IsFiniteSet(A) /\ Cardinality(A) = n - 1 /\ IsFiniteSet(B) /\ Cardinality(B) = m - 1
  BY <1>1, FS_RemoveElement
<1>3. f \in Surjection(A, F) /\ g \in Surjection(B, G)
  BY DEF Surjection
<1>8. EntryIds = 1 .. (n + m)
  BY DEF EntryIds
<1> HIDE DEF f, g, A, B, F, G, n, m
<1>4. IsFiniteSet(F) /\ Cardinality(F) <= n - 1 /\ IsFiniteSet(G) /\ Cardinality(G) <= m - 1
  BY <1>2, <1>3, FS_Surjection
<1>5. IsFiniteSet(F \cup G) /\ Cardinality(F \cup G) <= n + m - 2 /\ Cardinality(F \cup G) \in Nat
  <2>1. IsFiniteSet(F \cap G) /\ Cardinality(F \cap G) \in Nat /\ IsFiniteSet(F \cup G)
        /\ Cardinality(F \cup G) = Cardinality(F) + Cardinality(G) - Cardinality(F \cap G)
    BY <1>4, FS_Union, FS_Intersection, FS_CardinalityType
  <2>2. Cardinality(F) \in Nat /\ Cardinality(G) \in Nat /\ Cardinality(F \cup G) \in Nat
    BY <1>4, <2>1, FS_CardinalityType
  <2>. QED  BY <1>1, <1>4, <2>1, <2>2
<1>6. IsFiniteSet(EntryIds) /\ Cardinality(EntryIds) = n + m /\ EntryIds \subseteq Nat \ {0}
  <2>1. n + m \in Int /\ 1 \in Int
    BY <1>1
  <2>2. IsFiniteSet(1 .. (n + m)) /\ Cardinality(1 .. (n + m)) = IF 1 > n + m THEN 0 ELSE (n + m) - 1 + 1
    BY <2>1, FS_Interval
  <2>. QED  BY <1>1, <1>8, <2>2
<1>7. EntryIds \ Held # {}
  <2> SUFFICES ASSUME EntryIds \subseteq Held PROVE FALSE
    OBVIOUS
  <2>1. EntryIds \subseteq F \cup G
    <3>1. Held \subseteq F \cup G \cup {Nothing}
      BY DEF Held, F, G, f, g, A, B
    <3>. QED  BY <1>6, <3>1 DEF Nothing
  <2>2. n + m <= n + m - 2
    <3>1. Cardinality(EntryIds) <= Cardinality(F \cup G)
      BY <1>5, <2>1, FS_Subset
    <3>. QED  BY <1>1, <1>5, <1>6, <3>1
  <2>. QED  BY <1>1, <2>2
<1>. QED  BY <1>6, <1>7, MinIs

-----------------------------------------------------------------------------
(* Steps.                                                                  *)

LEMMA VersionsAre ==
  ASSUME IndexAssumption, NEW e \in Epochs
  PROVE  Versions(e) = 1 .. Len(Published[e]) /\ Len(Published[e]) \in Nat
<1> DEFINE V == [kind : Kinds, slots : [FirstOf(e) .. LastOf(e) -> Places]]
<1>1. Published[e] \in Seq(V)
  BY DEF IndexAssumption
<1> HIDE DEF V
<1>. QED  BY <1>1 DEF Versions

\* What is published is a version, and so is every one before it.
LEMMA RemoteIs ==
  ASSUME IndexInv, NEW e \in Epochs
  PROVE  remote[e] \in Nat \ {0}
  BY VersionsAre DEF IndexInv

\* A slot that was absent stays so among the indexes that were published.
LEMMA AbsentStays ==
  ASSUME IndexAssumption, NEW rem \in [Epochs -> Nat], NEW rex \in [Epochs -> Nat],
         \A e \in Epochs : rem[e] <= rex[e], NEW s \in Slots, Absent(s, rem)
  PROVE  Absent(s, rex)
<1>1. EpochOf(s) \in Epochs
  BY SlotsAre
<1>. QED  BY <1>1 DEF Absent

LEMMA LocalStays ==
  ASSUME IndexAssumption, NEW rem \in [Epochs -> Nat], NEW rex \in [Epochs -> Nat],
         \A e \in Epochs : rem[e] <= rex[e], NEW ent, NEW a \in Records, Local(a, rem, ent)
  PROVE  Local(a, rex, ent)
<1>1. /\ a.want \in Slots /\ a.cur \in Slots /\ a.probe[1] \in Slots /\ a.probe[2] \in Slots /\ Slots \subseteq Nat
      /\ EpochOf(a.cur) \in Epochs /\ EpochOf(a.want) \in Epochs /\ a.got \in Int
  BY SlotsAre DEF Records
<1>2. rem[EpochOf(a.cur)] <= rex[EpochOf(a.cur)] /\ rem[EpochOf(a.cur)] \in Nat /\ rex[EpochOf(a.cur)] \in Nat
  BY <1>1
<1>6. /\ a.want \in Nat /\ a.cur \in Nat /\ a.probe[1] \in Nat /\ a.probe[2] \in Nat
      /\ LastOf(EpochOf(a.want)) \in Nat /\ FirstOf(EpochOf(a.want)) \in Nat
      /\ FirstOf(EpochOf(a.cur)) <= a.cur
  BY <1>1, SlotHolds
<1>3. \A s \in Nat : s <= a.cur \/ s <= a.probe[2] => s \in Slots
  BY <1>1, SlotsAre
<1>4. Sought(a, rex)
  <2> SUFFICES ASSUME a.mode # "probe", a.step \in Seeking \cup Using \cup {"entry"}
               PROVE  /\ EpochOf(a.cur) = EpochOf(a.want)
                      /\ a.mode = "seek" => a.want <= a.cur /\ \A s \in a.want .. (a.cur - 1) : Absent(s, rex)
                      /\ a.mode = "tail" => \A s \in (a.cur + 1) .. LastOf(EpochOf(a.want)) : Absent(s, rex)
    BY DEF Sought
  <2>1. ASSUME a.mode = "seek", NEW s \in a.want .. (a.cur - 1) PROVE Absent(s, rex)
    <3>2. s \in Nat /\ s <= a.cur
      BY <1>6, <2>1
    <3>1. s \in Slots /\ Absent(s, rem)
      BY <1>3, <2>1, <3>2 DEF Local, Sought
    <3>. QED  BY <3>1, AbsentStays
  <2>2. ASSUME a.mode = "tail", NEW s \in (a.cur + 1) .. LastOf(EpochOf(a.want)) PROVE Absent(s, rex)
    <3>1. Absent(s, rem) /\ EpochOf(a.cur) = EpochOf(a.want)
      BY <2>2 DEF Local, Sought
    <3>2. s \in Nat /\ FirstOf(EpochOf(a.want)) <= s /\ s <= LastOf(EpochOf(a.want))
      BY <1>6, <2>2, <3>1
    <3>3. s \in Slots
      BY <1>1, <3>2, SlotsAre
    <3>. QED  BY <3>1, <3>3, AbsentStays
  <2>. QED  BY <2>1, <2>2 DEF Local, Sought
<1>5. Probed(a, rex)
  <2>1. ASSUME a.mode = "probe", a.step \in Using \cup {"entry"}, NEW s \in (a.probe[1] + 1) .. (a.cur - 1)
        PROVE  Absent(s, rex)
    <3>2. s \in Nat /\ s <= a.cur
      BY <1>6, <2>1
    <3>1. s \in Slots /\ Absent(s, rem)
      BY <1>3, <2>1, <3>2 DEF Local, Probed
    <3>. QED  BY <3>1, AbsentStays
  <2>2. ASSUME a.step = "answer", a.got # Unknown
        PROVE  /\ a.got \in (a.probe[1] + 1) .. a.probe[2]
               /\ \E v \in 1 .. rex[EpochOf(a.got)] : Where(a.got, v) # "absent"
               /\ \A s \in (a.probe[1] + 1) .. (a.got - 1) : Absent(s, rex)
    <3>1. a.got \in (a.probe[1] + 1) .. a.probe[2]
      BY <2>2 DEF Local, Probed
    <3>2. PICK v \in 1 .. rem[EpochOf(a.got)] : Where(a.got, v) # "absent"
      BY <2>2 DEF Local, Probed
    <3>7. a.got \in Nat /\ a.got <= a.probe[2]
      BY <1>6, <3>1
    <3>3. a.got \in Slots
      BY <1>3, <3>7
    <3>4. EpochOf(a.got) \in Epochs
      BY <3>3, SlotsAre
    <3>5. v \in 1 .. rex[EpochOf(a.got)]
      BY <3>2, <3>4
    <3>6. ASSUME NEW s \in (a.probe[1] + 1) .. (a.got - 1) PROVE Absent(s, rex)
      <4>2. s \in Nat /\ s <= a.probe[2]
        BY <1>6, <3>6, <3>7
      <4>1. s \in Slots /\ Absent(s, rem)
        BY <1>3, <2>2, <3>6, <4>2 DEF Local, Probed
      <4>. QED  BY <4>1, AbsentStays
    <3>. QED  BY <3>1, <3>2, <3>5, <3>6
  <2>. QED  BY <2>1, <2>2 DEF Local, Probed
<1>. QED  BY <1>1, <1>2, <1>4, <1>5 DEF Local

\* The step of a caller that keeps its entry or gives it back, and may fill it.
LEMMA CallerKept ==
  ASSUME IndexInv, NEW c \in Callers, NEW r \in Records, at' = [at EXCEPT ![c] = r],
         UNCHANGED remote, epochs' \in [Epochs -> EntryIds \cup {Nothing}],
         \A e \in Epochs : epochs'[e] = epochs[e] \/ epochs'[e] = Nothing,
         ranges' \in [Slots -> Nat], \A s \in Slots : ranges'[s] <= remote[EpochOf(s)],
         forced' \in [Epochs -> Nat],
         entries' \in [EntryIds -> Cells],
         \A i \in EntryIds : entries'[i].version = Nothing \/ entries'[i].loader = Nothing,
         \A i \in EntryIds : \/ entries'[i].version = entries[i].version
                             \/ i = at[c].entry /\ entries'[i].version = remote[EpochOf(at[c].cur)],
         r.entry = Nothing \/ (r.entry = at[c].entry /\ EpochOf(r.cur) = EpochOf(at[c].cur)),
         Local(r, remote, entries')
  PROVE  IndexInv'
<1>1. /\ IndexAssumption /\ at \in [Callers -> Records] /\ at[c] \in Records
      /\ EpochOf(at[c].cur) \in Epochs /\ remote[EpochOf(at[c].cur)] \in Nat \ {0} /\ Nothing \notin EntryIds
  <2>1. IndexAssumption /\ at \in [Callers -> Records] /\ at[c].cur \in Slots
    BY DEF IndexInv, Records
  <2>2. EpochOf(at[c].cur) \in Epochs
    BY <2>1, SlotsAre
  <2>. QED  BY <2>1, <2>2, RemoteIs DEF EntryIds, Nothing
<1>2. at' \in [Callers -> Records] /\ at'[c] = r /\ \A d \in Callers : d # c => at'[d] = at[d]
  BY <1>1
<1>3. \A d \in Callers : Local(at'[d], remote, entries')
  <2> SUFFICES ASSUME NEW d \in Callers, d # c PROVE Local(at[d], remote, entries')
    BY <1>2
  <2>1. Local(at[d], remote, entries) /\ at[d].entry \in EntryIds \cup {Nothing}
    BY DEF IndexInv, Records
  <2>2. at[d].step = "lookup" => entries'[at[d].entry].version # Nothing
    BY <1>1, <2>1 DEF Local, Using, Nothing
  <2>. QED  BY <2>1, <2>2 DEF Local
<1>4. ASSUME NEW id \in EntryIds PROVE \E e \in Epochs : Uses(id, e)'
  <2>1. PICK e \in Epochs : Uses(id, e)
    BY DEF IndexInv
  <2>2. at[c].entry = id => EpochOf(at[c].cur) = e
    BY <2>1 DEF Uses
  <2>3. ASSUME NEW d \in Callers, at'[d].entry = id PROVE EpochOf(at'[d].cur) = e
    BY <1>1, <1>2, <2>1, <2>3 DEF Uses
  <2>4. entries'[id].version <= remote[e]
    <3>1. remote[e] \in Nat /\ entries[id].version <= remote[e]
      BY <2>1 DEF IndexInv, Uses
    <3>. QED  BY <2>2, <3>1
  <2>5. \A f \in Epochs : epochs'[f] = id => f = e
    BY <1>1, <2>1 DEF Uses
  <2>. QED  BY <2>3, <2>4, <2>5 DEF Uses
<1>. QED  BY <1>1, <1>2, <1>3, <1>4 DEF IndexInv

\* The same where the entries and ranges stay.
LEMMA CallerMoves ==
  ASSUME IndexInv, NEW c \in Callers, NEW r \in Records, at' = [at EXCEPT ![c] = r],
         UNCHANGED <<remote, ranges, epochs, entries>>, forced' \in [Epochs -> Nat],
         r.entry = Nothing \/ (r.entry = at[c].entry /\ EpochOf(r.cur) = EpochOf(at[c].cur)),
         Local(r, remote, entries)
  PROVE  IndexInv'
<1>1. /\ ranges' \in [Slots -> Nat] /\ \A s \in Slots : ranges'[s] <= remote[EpochOf(s)]
      /\ entries' \in [EntryIds -> Cells]
      /\ \A i \in EntryIds : entries'[i].version = Nothing \/ entries'[i].loader = Nothing
      /\ \A i \in EntryIds : entries'[i].version = entries[i].version
      /\ Local(r, remote, entries')
      /\ epochs' \in [Epochs -> EntryIds \cup {Nothing}] /\ \A e \in Epochs : epochs'[e] = epochs[e]
  BY DEF IndexInv
<1>. QED  BY <1>1, CallerKept

\* Another version of the files of an epoch.
LEMMA PublishKept == ASSUME IndexInv, NEW e \in Epochs, Publish(e) PROVE IndexInv'
<1>1. /\ remote[e] + 1 \in Versions(e) /\ remote' = [remote EXCEPT ![e] = @ + 1]
      /\ UNCHANGED <<ranges, epochs, entries, at, forced>>
  BY DEF Publish
<1>2. remote' \in [Epochs -> Nat] /\ \A f \in Epochs : remote[f] <= remote'[f] /\ remote'[f] \in Versions(f)
  BY <1>1 DEF IndexInv
<1>3. \A c \in Callers : Local(at[c], remote', entries)
  BY <1>2, LocalStays DEF IndexInv
<1>4. \A s \in Slots : ranges[s] <= remote'[EpochOf(s)]
  <2>1. \A s \in Slots : EpochOf(s) \in Epochs
    BY SlotsAre DEF IndexInv
  <2>. QED  BY <1>2, <2>1 DEF IndexInv
<1>5. \A id \in EntryIds : \E f \in Epochs : Uses(id, f)'
  <2> SUFFICES ASSUME NEW id \in EntryIds PROVE \E f \in Epochs : Uses(id, f)'
    OBVIOUS
  <2>1. PICK f \in Epochs : Uses(id, f)
    BY DEF IndexInv
  <2>2. entries[id].version <= remote'[f]
    <3>1. entries[id].version \in Nat /\ remote[f] \in Nat /\ remote'[f] \in Nat
      BY <1>2 DEF IndexInv, Cells
    <3>. QED  BY <1>2, <2>1, <3>1 DEF Uses
  <2>. QED  BY <1>1, <2>1, <2>2 DEF Uses
<1>. QED  BY <1>1, <1>2, <1>3, <1>4, <1>5 DEF IndexInv

-----------------------------------------------------------------------------
(* One step of a caller at a time.                                         *)

LEMMA CallerIs ==
  ASSUME IndexInv, NEW c \in Callers
  PROVE  /\ IndexAssumption /\ at \in [Callers -> Records] /\ at[c] \in Records
         /\ Local(at[c], remote, entries)
         /\ at[c].cur \in Slots /\ EpochOf(at[c].cur) \in Epochs
         /\ at[c].want \in Slots /\ EpochOf(at[c].want) \in Epochs
         /\ remote[EpochOf(at[c].cur)] \in Nat \ {0}
         /\ forced \in [Epochs -> Nat] /\ Nothing \notin EntryIds
<1>1. /\ IndexAssumption /\ at \in [Callers -> Records] /\ at[c] \in Records
      /\ Local(at[c], remote, entries) /\ forced \in [Epochs -> Nat]
  BY DEF IndexInv
<1>2. /\ at[c].cur \in Slots /\ at[c].want \in Slots
      /\ EpochOf(at[c].cur) \in Epochs /\ EpochOf(at[c].want) \in Epochs
  BY <1>1, SlotsAre DEF Records
<1>. QED  BY <1>1, <1>2, RemoteIs DEF EntryIds, Nothing

LEMMA UnknownIs == Unknown \in Int /\ Unknown \notin Nat
  BY DEF Unknown

\* A record that is not in the middle of anything.
LEMMA IdleLocal ==
  ASSUME IndexAssumption, NEW rem, NEW ent
  PROVE  Idle \in Records /\ Local(Idle, rem, ent)
<1>1. 0 \in Slots
  BY SlotsAre
<1>2. Idle \in Records
  BY <1>1 DEF Idle, Records, Steps, Nothing
<1>. QED  BY <1>2 DEF Idle, Local, Sought, Probed, Using, Seeking, Nothing

\* A lookup of a slot of the epoch that was asked for, past absent slots only.
LEMMA LookUpMoves ==
  ASSUME IndexInv, NEW c \in Callers, NEW s \in Slots, NEW mode \in {"seek", "tail"}, LookUp(c, s, mode),
         EpochOf(s) = EpochOf(at[c].want),
         mode = "seek" => at[c].want <= s /\ \A t \in at[c].want .. (s - 1) : Absent(t, remote),
         mode = "tail" => \A t \in (s + 1) .. LastOf(EpochOf(at[c].want)) : Absent(t, remote)
  PROVE  \E r \in Records : /\ at' = [at EXCEPT ![c] = r] /\ r.entry = Nothing /\ r.step = "cached"
                            /\ Local(r, remote, entries) /\ Local(r, remote, entries')
<1> DEFINE r == [at[c] EXCEPT !.step = "cached", !.cur = s, !.mode = mode, !.entry = Nothing,
                              !.need = forced[EpochOf(s)]]
<1>1. at \in [Callers -> Records] /\ at[c] \in Records /\ forced[EpochOf(s)] \in Nat
  BY CallerIs
<1>2. at' = [at EXCEPT ![c] = r]
  BY <1>1 DEF LookUp
<1>3. /\ r \in Records /\ r.step = "cached" /\ r.cur = s /\ r.mode = mode /\ r.entry = Nothing
      /\ r.want = at[c].want
  BY <1>1 DEF Records, Steps
<1> HIDE DEF r
<1>4. Local(r, remote, entries) /\ Local(r, remote, entries')
  BY <1>3 DEF Local, Sought, Probed, Using, Seeking, Nothing
<1>. QED  BY <1>2, <1>3, <1>4

\* A lookup that fails.
LEMMA FailedMoves ==
  ASSUME IndexInv, NEW c \in Callers, Failed(c)
  PROVE  \E r \in Records : /\ at' = [at EXCEPT ![c] = r] /\ r.entry = Nothing /\ r.step \in {"answer", "drop"}
                            /\ Local(r, remote, entries) /\ Local(r, remote, entries')
<1>1. at \in [Callers -> Records] /\ at[c] \in Records
  BY CallerIs
<1>2. CASE at[c].mode = "probe"
  <2> DEFINE r == [at[c] EXCEPT !.step = "answer", !.got = Unknown, !.entry = Nothing]
  <2>1. at' = [at EXCEPT ![c] = r]
    BY <1>1, <1>2 DEF Failed
  <2>2. r \in Records /\ r.step = "answer" /\ r.got = Unknown /\ r.entry = Nothing
    BY <1>1, UnknownIs DEF Records, Steps
  <2> HIDE DEF r
  <2>3. Local(r, remote, entries) /\ Local(r, remote, entries')
    BY <2>2 DEF Local, Sought, Probed, Using, Seeking, Nothing
  <2>. QED  BY <2>1, <2>2, <2>3
<1>3. CASE at[c].mode # "probe"
  <2> DEFINE r == [at[c] EXCEPT !.step = "drop", !.entry = Nothing]
  <2>1. at' = [at EXCEPT ![c] = r]
    BY <1>1, <1>3 DEF Failed
  <2>2. r \in Records /\ r.step = "drop" /\ r.entry = Nothing /\ r.mode # "probe"
    BY <1>1, <1>3 DEF Records, Steps
  <2> HIDE DEF r
  <2>3. Local(r, remote, entries) /\ Local(r, remote, entries')
    BY <2>2 DEF Local, Sought, Probed, Using, Seeking, Nothing
  <2>. QED  BY <2>1, <2>2, <2>3
<1>. QED  BY <1>2, <1>3

\* A call begins: the slot itself is the first to look up.
LEMMA SearchKept == ASSUME IndexInv, NEW c \in Callers, NEW s \in Wants[c], Seek(c, s) PROVE IndexInv'
<1> DEFINE r == [Idle EXCEPT !.step = "cached", !.want = s, !.cur = s, !.need = forced[EpochOf(s)]]
<1>1. /\ s \in Slots /\ EpochOf(s) \in Epochs /\ s \in Nat /\ forced \in [Epochs -> Nat]
      /\ Idle \in Records /\ IndexAssumption
  BY CallerIs, SlotsAre, IdleLocal DEF IndexAssumption
<1>2. at' = [at EXCEPT ![c] = r] /\ UNCHANGED <<remote, ranges, epochs, entries, forced>>
  BY DEF Seek
<1>3. /\ r \in Records /\ r.step = "cached" /\ r.want = s /\ r.cur = s /\ r.entry = Nothing /\ r.mode = "seek"
  BY <1>1 DEF Records, Steps, Idle
<1> HIDE DEF r
<1>4. Local(r, remote, entries)
  BY <1>1, <1>3 DEF Local, Sought, Probed, Using, Seeking, Nothing
<1>. QED  BY <1>1, <1>2, <1>3, <1>4, CallerMoves

LEMMA ProbeKept == ASSUME IndexInv, NEW c \in Callers, NEW p \in Probes, Probe(c, p) PROVE IndexInv'
<1>1. /\ p \in Slots \X Slots /\ p[1] \in Slots /\ p[2] \in Slots /\ p[1] \in Nat /\ p[2] \in Nat
      /\ forced \in [Epochs -> Nat] /\ Idle \in Records /\ IndexAssumption
  BY CallerIs, SlotsAre, IdleLocal DEF IndexAssumption
<1>2. UNCHANGED <<remote, ranges, epochs, entries, forced>>
  BY DEF Probe
<1>3. CASE p[1] + 1 > p[2]
  <2> DEFINE r == [Idle EXCEPT !.step = "answer", !.mode = "probe", !.probe = p, !.got = Unknown]
  <2>1. at' = [at EXCEPT ![c] = r]
    BY <1>3, CallerIs DEF Probe
  <2>2. r \in Records /\ r.step = "answer" /\ r.got = Unknown /\ r.entry = Nothing
    BY <1>1, UnknownIs DEF Records, Steps, Idle
  <2> HIDE DEF r
  <2>3. Local(r, remote, entries)
    BY <2>2 DEF Local, Sought, Probed, Using, Seeking, Nothing
  <2>. QED  BY <1>1, <1>2, <2>1, <2>2, <2>3, CallerMoves
<1>4. CASE ~(p[1] + 1 > p[2])
  <2> DEFINE r == [Idle EXCEPT !.step = "entry", !.mode = "probe", !.probe = p, !.cur = p[1] + 1]
  <2>1. at' = [at EXCEPT ![c] = r]
    BY <1>4, CallerIs DEF Probe
  <2>4. p[1] + 1 \in Slots /\ p[1] + 1 <= p[2]
    BY <1>1, <1>4, SlotsAre
  <2>2. /\ r \in Records /\ r.step = "entry" /\ r.mode = "probe" /\ r.probe = p /\ r.cur = p[1] + 1
        /\ r.entry = Nothing
    BY <1>1, <2>4 DEF Records, Steps, Idle
  <2> HIDE DEF r
  <2>3. Local(r, remote, entries)
    BY <1>1, <2>2, <2>4 DEF Local, Sought, Probed, Using, Seeking, Nothing
  <2>. QED  BY <1>1, <1>2, <2>1, <2>2, <2>3, CallerMoves
<1>. QED  BY <1>3, <1>4

\* The cache of ranges, read first without and then with the lock on the epoch.
LEMMA CachedKept == ASSUME IndexInv, NEW c \in Callers, Cached(c) \/ CachedAgain(c) PROVE IndexInv'
<1> DEFINE a == at[c]
           then == IF at[c].step = "cached" THEN "found" ELSE "outer"
           hit == [at[c] EXCEPT !.step = then, !.got = ranges[at[c].cur]]
           miss == [at[c] EXCEPT !.step = IF at[c].step = "cached" THEN "again" ELSE "entry"]
<1>1. /\ at \in [Callers -> Records] /\ a \in Records /\ Local(a, remote, entries) /\ a.cur \in Slots
      /\ ranges[a.cur] \in Nat /\ ranges[a.cur] <= remote[EpochOf(a.cur)] /\ forced \in [Epochs -> Nat]
  BY CallerIs DEF IndexInv
<1>2. /\ a.step \in {"cached", "again"} /\ UNCHANGED <<remote, ranges, epochs, entries, forced>>
      /\ at' = IF ranges[a.cur] # Nothing THEN [at EXCEPT ![c] = hit] ELSE [at EXCEPT ![c] = miss]
  BY <1>1 DEF Cached, CachedAgain
<1>3. a.mode # "probe" /\ a.entry = Nothing
  BY <1>1, <1>2 DEF Local, Seeking, Using
<1>4. CASE ranges[a.cur] # Nothing
  <2>4. then \in {"found", "outer"} /\ then \in Steps
    BY DEF Steps
  <2> HIDE DEF then
  <2>5. ranges[a.cur] \in Int
    BY <1>1
  <2>1. /\ hit \in Records /\ hit.step \in {"found", "outer"} /\ hit.got = ranges[a.cur] /\ hit.cur = a.cur
        /\ hit.want = a.want /\ hit.mode = a.mode /\ hit.entry = Nothing
    BY <1>1, <1>3, <2>4, <2>5 DEF Records
  <2>3. ranges[a.cur] \in 1 .. remote[EpochOf(a.cur)]
    BY <1>1, <1>4, CallerIs DEF Nothing
  <2> HIDE DEF hit
  <2>2. Local(hit, remote, entries)
    BY <1>1, <1>2, <1>3, <2>1, <2>3 DEF Local, Sought, Probed, Using, Seeking
  <2>. QED  BY <1>1, <1>2, <1>4, <2>1, <2>2, CallerMoves
<1>5. CASE ranges[a.cur] = Nothing
  <2>1. /\ miss \in Records /\ miss.step \in {"again", "entry"} /\ miss.cur = a.cur
        /\ miss.want = a.want /\ miss.mode = a.mode /\ miss.entry = Nothing
    BY <1>1, <1>2, <1>3 DEF Records, Steps
  <2> HIDE DEF miss
  <2>2. Local(miss, remote, entries)
    BY <1>1, <1>2, <1>3, <2>1 DEF Local, Sought, Probed, Using, Seeking
  <2>. QED  BY <1>1, <1>2, <1>5, <2>1, <2>2, CallerMoves
<1>. QED  BY <1>4, <1>5

\* A full cell is read.
LEMMA ReadCellKept == ASSUME IndexInv, NEW c \in Callers, ReadCell(c) PROVE IndexInv'
<1> DEFINE r == [at[c] EXCEPT !.step = "lookup"]
<1>1. at \in [Callers -> Records] /\ at[c] \in Records /\ Local(at[c], remote, entries) /\ forced \in [Epochs -> Nat]
  BY CallerIs
<1>2. /\ at[c].step = "cell" /\ entries[at[c].entry].version # Nothing
      /\ UNCHANGED <<remote, ranges, epochs, entries, forced>> /\ at' = [at EXCEPT ![c] = r]
  BY <1>1 DEF ReadCell, Go, Ready
<1>3. /\ r \in Records /\ r.step = "lookup" /\ r.cur = at[c].cur /\ r.want = at[c].want /\ r.mode = at[c].mode
      /\ r.entry = at[c].entry /\ r.probe = at[c].probe
  BY <1>1 DEF Records, Steps
<1> HIDE DEF r
<1>4. Local(r, remote, entries)
  BY <1>1, <1>2, <1>3 DEF Local, Sought, Probed, Using, Seeking
<1>. QED  BY <1>1, <1>2, <1>3, <1>4, CallerMoves

\* A call is over.
LEMMA AnsweredKept == ASSUME IndexInv, NEW c \in Callers, Answered(c) PROVE IndexInv'
<1>1. at' = [at EXCEPT ![c] = Idle] /\ UNCHANGED <<remote, ranges, epochs, entries, forced>>
  BY DEF Answered
<1>. QED  BY <1>1, CallerIs, IdleLocal, CallerMoves DEF Idle

LEMMA ReadKept == ASSUME IndexInv, NEW c \in Callers, Read(c) PROVE IndexInv'
<1> DEFINE r == [at[c] EXCEPT !.step = "drop"]
<1>1. at \in [Callers -> Records] /\ at[c] \in Records /\ Local(at[c], remote, entries) /\ forced \in [Epochs -> Nat]
  BY CallerIs
<1>2. /\ at[c].step = "found" /\ UNCHANGED <<remote, ranges, epochs, entries, forced>>
      /\ at' = [at EXCEPT ![c] = r] \/ at' = [at EXCEPT ![c] = Idle]
  BY <1>1 DEF Read
<1>3. CASE at' = [at EXCEPT ![c] = Idle]
  BY <1>1, <1>2, <1>3, CallerIs, IdleLocal, CallerMoves DEF Idle
<1>4. CASE at' = [at EXCEPT ![c] = r]
  <2>1. /\ r \in Records /\ r.step = "drop" /\ r.mode = at[c].mode /\ r.entry = at[c].entry /\ r.cur = at[c].cur
    BY <1>1 DEF Records, Steps
  <2> HIDE DEF r
  <2>2. Local(r, remote, entries)
    BY <1>1, <1>2, <2>1 DEF Local, Sought, Probed, Using, Seeking
  <2>. QED  BY <1>1, <1>2, <1>4, <2>1, <2>2, CallerMoves
<1>. QED  BY <1>2, <1>3, <1>4

\* The seek starts over at the slot it wants.
LEMMA RetryKept == ASSUME IndexInv, NEW c \in Callers, Retry(c) PROVE IndexInv'
<1>1. LookUp(c, at[c].want, "seek") /\ UNCHANGED <<remote, ranges, epochs, entries, forced>>
  BY DEF Retry
<1>2. at[c].want \in Slots /\ at[c].want \in Nat /\ forced \in [Epochs -> Nat]
  BY CallerIs, SlotHolds
<1>3. \A t \in at[c].want .. (at[c].want - 1) : FALSE
  BY <1>2
<1>4. PICK r \in Records : /\ at' = [at EXCEPT ![c] = r] /\ r.entry = Nothing
                           /\ Local(r, remote, entries)
  BY <1>1, <1>2, <1>3, LookUpMoves
<1>. QED  BY <1>1, <1>2, <1>4, CallerMoves

\* What is read from the cell of an entry is a version that was published.
LEMMA IndexIs ==
  ASSUME IndexInv, NEW c \in Callers, at[c].step = "lookup"
  PROVE  Index(c) \in 1 .. remote[Here(c)]
<1> DEFINE a == at[c]
<1>1. /\ a \in Records /\ Local(a, remote, entries) /\ remote[EpochOf(a.cur)] \in Nat
  BY CallerIs
<1>2. a.entry \in EntryIds
  BY <1>1 DEF Local, Using, Records
<1>3. PICK f \in Epochs : Uses(a.entry, f)
  BY <1>2 DEF IndexInv
<1>4. f = EpochOf(a.cur) /\ Index(c) \in Nat /\ Index(c) # 0 /\ Index(c) <= remote[f]
  BY <1>1, <1>2, <1>3 DEF Uses, Index, IndexInv, Cells, Local, Nothing
<1>. QED  BY <1>1, <1>4 DEF Here

\* Where the lookup goes when the index does not have the slot.
LEMMA BeyondMoves ==
  ASSUME IndexInv, NEW c \in Callers, at[c].step = "lookup", at[c].mode # "probe",
         Where(at[c].cur, Index(c)) = "absent", Beyond(c)
  PROVE  \E r \in Records : at' = [at EXCEPT ![c] = r] /\ r.entry = Nothing /\ Local(r, remote, entries)
<1> DEFINE a == at[c]
           e == EpochOf(a.want)
<1>1. /\ IndexAssumption /\ a \in Records /\ Local(a, remote, entries) /\ a.cur \in Slots /\ a.want \in Slots
  BY CallerIs
<1>2. EpochOf(a.cur) = e
  BY <1>1 DEF Local, Sought, Using
<1>3. /\ a.cur \in Nat /\ a.want \in Nat /\ e \in Epochs /\ e \in Nat /\ FirstOf(e) \in Nat /\ LastOf(e) \in Nat
      /\ FirstOf(e) <= a.cur /\ a.cur <= LastOf(e) /\ FirstOf(e) <= a.want /\ a.want <= LastOf(e)
  BY <1>1, <1>2, SlotHolds
<1>4. Absent(a.cur, remote)
  <2>1. Index(c) \in 1 .. remote[e]
    BY <1>2, IndexIs DEF Here
  <2>. QED  BY <1>2, <2>1 DEF Absent
<1>5. \A s \in Nat : FirstOf(e) <= s /\ s <= LastOf(e) => s \in Slots /\ EpochOf(s) = e
  BY <1>1, <1>3, SlotsAre
<1>6. CASE a.mode = "seek" /\ a.cur < LastOf(e)
  <2> DEFINE s == a.cur + 1
  <2>1. LookUp(c, s, "seek")
    BY <1>2, <1>3, <1>6 DEF Beyond, Here
  <2>2. s \in Slots /\ EpochOf(s) = e /\ a.want <= a.cur
    BY <1>1, <1>3, <1>5, <1>6 DEF Local, Sought, Using
  <2>3. \A t \in a.want .. (s - 1) : Absent(t, remote)
    <3>1. \A t \in a.want .. (a.cur - 1) : Absent(t, remote)
      BY <1>1, <1>6 DEF Local, Sought, Using
    <3>. QED  BY <1>3, <1>4, <3>1
  <2>4. a.want <= s
    BY <1>3, <2>2
  <2> HIDE DEF s
  <2>. QED  BY <2>1, <2>2, <2>3, <2>4, LookUpMoves
<1>7. CASE a.mode = "seek" /\ a.cur = LastOf(e) /\ a.want > FirstOf(e)
  <2>1. LookUp(c, a.want - 1, "tail")
    BY <1>2, <1>3, <1>7 DEF Beyond, Here
  <2>2. a.want - 1 \in Slots /\ EpochOf(a.want - 1) = e
    BY <1>3, <1>5, <1>7
  <2>3. \A t \in (a.want - 1 + 1) .. LastOf(e) : Absent(t, remote)
    <3>1. \A t \in a.want .. (a.cur - 1) : Absent(t, remote)
      BY <1>1, <1>7 DEF Local, Sought, Using
    <3>. QED  BY <1>3, <1>4, <1>7, <3>1
  <2>. QED  BY <2>1, <2>2, <2>3, LookUpMoves
<1>8. CASE a.mode = "tail" /\ a.cur > FirstOf(e)
  <2>1. LookUp(c, a.cur - 1, "tail")
    BY <1>2, <1>8 DEF Beyond, Here
  <2>2. a.cur - 1 \in Slots /\ EpochOf(a.cur - 1) = e
    BY <1>3, <1>5, <1>8
  <2>3. \A t \in (a.cur - 1 + 1) .. LastOf(e) : Absent(t, remote)
    <3>1. \A t \in (a.cur + 1) .. LastOf(e) : Absent(t, remote)
      BY <1>1, <1>8 DEF Local, Sought, Using
    <3>. QED  BY <1>3, <1>4, <3>1
  <2>. QED  BY <2>1, <2>2, <2>3, LookUpMoves
<1>9. CASE /\ ~(a.mode = "seek" /\ a.cur < LastOf(e))
           /\ ~(a.mode = "seek" /\ a.cur = LastOf(e) /\ a.want > FirstOf(e))
           /\ ~(a.mode = "tail" /\ a.cur > FirstOf(e))
  <2>1. Failed(c)
    BY <1>2, <1>9 DEF Beyond, Here
  <2>. QED  BY <2>1, FailedMoves
<1>. QED  BY <1>6, <1>7, <1>8, <1>9

LEMMA LookupRangeKept == ASSUME IndexInv, NEW c \in Callers, LookupRange(c) PROVE IndexInv'
<1> DEFINE a == at[c]
<1>1. /\ at \in [Callers -> Records] /\ a \in Records /\ Local(a, remote, entries) /\ forced \in [Epochs -> Nat]
      /\ IndexAssumption /\ EpochOf(a.cur) \in Epochs
  BY CallerIs
<1>2. /\ a.step = "lookup" /\ a.mode # "probe" /\ UNCHANGED <<remote, ranges, epochs, entries, forced>>
  BY DEF LookupRange
<1>3. CASE Where(a.cur, Index(c)) = "absent"
  <2>1. Beyond(c)
    BY <1>3 DEF LookupRange
  <2>2. PICK r \in Records : at' = [at EXCEPT ![c] = r] /\ r.entry = Nothing /\ Local(r, remote, entries)
    BY <1>2, <1>3, <2>1, BeyondMoves
  <2>. QED  BY <1>1, <1>2, <2>2, CallerMoves
<1>4. CASE Where(a.cur, Index(c)) # "absent"
  <2> DEFINE r == [at[c] EXCEPT !.step = "insert", !.got = Index(c), !.entry = Nothing]
  <2>1. at' = [at EXCEPT ![c] = r]
    BY <1>1, <1>4 DEF LookupRange
  <2>4. Index(c) \in 1 .. remote[EpochOf(a.cur)]
    BY <1>2, IndexIs DEF Here
  <2>5. Index(c) \in 1 .. remote[EpochOf(a.cur)] /\ Index(c) \in Int
    BY <2>4
  <2>6. /\ r \in Records /\ r.step = "insert" /\ r.got = Index(c) /\ r.entry = Nothing
        /\ r.cur = a.cur /\ r.want = a.want /\ r.mode = a.mode
    BY <1>1, <2>5 DEF Records, Steps
  <2> HIDE DEF r
  <2>7. Local(r, remote, entries)
    BY <1>1, <1>2, <2>5, <2>6 DEF Local, Sought, Probed, Using, Seeking
  <2>. QED  BY <1>1, <1>2, <2>1, <2>6, <2>7, CallerMoves
<1>. QED  BY <1>3, <1>4

\* The range that was found is cached.
LEMMA InsertKept == ASSUME IndexInv, NEW c \in Callers, Insert(c) PROVE IndexInv'
<1> DEFINE a == at[c]
           then == IF at[c].step = "insert" THEN "outer" ELSE "found"
           r == [at[c] EXCEPT !.step = then]
<1>1. /\ at \in [Callers -> Records] /\ a \in Records /\ Local(a, remote, entries) /\ forced \in [Epochs -> Nat]
      /\ IndexAssumption /\ a.cur \in Slots /\ remote[EpochOf(a.cur)] \in Nat /\ EpochOf(a.cur) \in Epochs
  BY CallerIs
<1>2. /\ a.step \in {"insert", "outer"} /\ UNCHANGED <<remote, epochs, entries, forced>>
      /\ ranges' = [ranges EXCEPT ![a.cur] = a.got] /\ at' = [at EXCEPT ![c] = r]
  BY <1>1 DEF Insert, Go
<1>3. a.mode # "probe" /\ a.entry = Nothing /\ a.got \in 1 .. remote[EpochOf(a.cur)]
  BY <1>1, <1>2 DEF Local, Seeking, Using
<1>4. then \in {"outer", "found"} /\ then \in Steps
  BY DEF Steps
<1> HIDE DEF then
<1>5. /\ r \in Records /\ r.step = then /\ r.got = a.got /\ r.entry = Nothing
      /\ r.cur = a.cur /\ r.want = a.want /\ r.mode = a.mode
  BY <1>1, <1>3, <1>4 DEF Records
<1> HIDE DEF r
<1>6. Local(r, remote, entries)
  BY <1>1, <1>2, <1>3, <1>4, <1>5 DEF Local, Sought, Probed, Using, Seeking
<1>7. ranges' \in [Slots -> Nat] /\ \A s \in Slots : ranges'[s] <= remote[EpochOf(s)]
  <2>1. a.got \in Nat /\ a.got <= remote[EpochOf(a.cur)]
    BY <1>1, <1>3
  <2>. QED  BY <1>1, <1>2, <2>1 DEF IndexInv
<1>8. /\ epochs' \in [Epochs -> EntryIds \cup {Nothing}] /\ \A e \in Epochs : epochs'[e] = epochs[e]
      /\ entries' \in [EntryIds -> Cells] /\ Local(r, remote, entries')
      /\ \A i \in EntryIds : /\ entries'[i].version = entries[i].version
                             /\ entries'[i].version = Nothing \/ entries'[i].loader = Nothing
  BY <1>2, <1>6 DEF IndexInv
<1>. QED  BY <1>1, <1>2, <1>5, <1>7, <1>8, CallerKept

\* The map forgets the entry of the epoch.
LEMMA DropKept == ASSUME IndexInv, NEW c \in Callers, Drop(c) PROVE IndexInv'
<1> DEFINE a == at[c]
           e == EpochOf(a.want)
           r == [at[c] EXCEPT !.step = "sweep", !.cur = FirstOf(EpochOf(at[c].want))]
<1>1. /\ at \in [Callers -> Records] /\ a \in Records /\ Local(a, remote, entries) /\ forced \in [Epochs -> Nat]
      /\ IndexAssumption /\ a.want \in Slots /\ e \in Epochs
  BY CallerIs
<1>2. /\ a.step = "drop" /\ UNCHANGED <<remote, ranges, entries, forced>>
      /\ epochs' = [epochs EXCEPT ![e] = Nothing] /\ at' = [at EXCEPT ![c] = r]
  BY <1>1 DEF Drop
<1>3. a.mode # "probe" /\ a.entry = Nothing
  BY <1>1, <1>2 DEF Local, Seeking, Using
<1>4. FirstOf(e) \in Slots /\ EpochOf(FirstOf(e)) = e
  <2>1. e \in Nat /\ FirstOf(e) \in Nat /\ LastOf(e) \in Nat /\ FirstOf(e) <= LastOf(e)
    BY <1>1, SlotsAre, EpochNext
  <2>. QED  BY <1>1, <2>1, SlotsAre
<1>5. /\ r \in Records /\ r.step = "sweep" /\ r.cur = FirstOf(e) /\ r.entry = Nothing
      /\ r.want = a.want /\ r.mode = a.mode
  BY <1>1, <1>3, <1>4 DEF Records, Steps
<1> HIDE DEF r
<1>6. Local(r, remote, entries)
  BY <1>1, <1>3, <1>4, <1>5 DEF Local, Sought, Probed, Using, Seeking
<1>7. /\ epochs' \in [Epochs -> EntryIds \cup {Nothing}]
      /\ \A f \in Epochs : epochs'[f] = epochs[f] \/ epochs'[f] = Nothing
  BY <1>1, <1>2 DEF IndexInv
<1>8. /\ ranges' \in [Slots -> Nat] /\ \A s \in Slots : ranges'[s] <= remote[EpochOf(s)]
      /\ entries' \in [EntryIds -> Cells] /\ Local(r, remote, entries')
      /\ \A i \in EntryIds : /\ entries'[i].version = entries[i].version
                             /\ entries'[i].version = Nothing \/ entries'[i].loader = Nothing
  BY <1>2, <1>6 DEF IndexInv
<1>. QED  BY <1>1, <1>2, <1>5, <1>7, <1>8, CallerKept

\* The ranges of the epoch are removed, one after the other.
LEMMA SweepKept == ASSUME IndexInv, NEW c \in Callers, Sweep(c) PROVE IndexInv'
<1> DEFINE a == at[c]
           e == EpochOf(a.cur)
<1>1. /\ at \in [Callers -> Records] /\ a \in Records /\ Local(a, remote, entries) /\ forced \in [Epochs -> Nat]
      /\ IndexAssumption /\ a.cur \in Slots /\ e \in Epochs /\ remote[e] \in Nat
  BY CallerIs
<1>2. /\ a.step = "sweep" /\ UNCHANGED <<remote, epochs, entries>> /\ ranges' = [ranges EXCEPT ![a.cur] = Nothing]
  BY DEF Sweep
<1>3. a.mode # "probe" /\ a.entry = Nothing /\ e = EpochOf(a.want)
  BY <1>1, <1>2 DEF Local, Seeking, Using
<1>4. /\ a.cur \in Nat /\ e \in Nat /\ LastOf(e) \in Nat /\ FirstOf(e) \in Nat /\ FirstOf(e) <= a.cur
  BY <1>1, SlotHolds
<1>5. \E r \in Records : at' = [at EXCEPT ![c] = r] /\ r.entry = Nothing /\ Local(r, remote, entries)
  <2>1. CASE a.cur < LastOf(e)
    <3> DEFINE r == [at[c] EXCEPT !.cur = at[c].cur + 1]
    <3>1. at' = [at EXCEPT ![c] = r]
      BY <1>1, <2>1 DEF Sweep, Here
    <3>2. a.cur + 1 \in Slots /\ EpochOf(a.cur + 1) = e
      <4>1. a.cur + 1 \in Nat /\ FirstOf(e) <= a.cur + 1 /\ a.cur + 1 <= LastOf(e)
        BY <1>4, <2>1
      <4>. QED  BY <1>1, <4>1, SlotsAre
    <3>3. /\ r \in Records /\ r.step = "sweep" /\ r.cur = a.cur + 1 /\ r.entry = Nothing
          /\ r.want = a.want /\ r.mode = a.mode
      BY <1>1, <1>2, <1>3, <3>2 DEF Records
    <3> HIDE DEF r
    <3>4. Local(r, remote, entries)
      BY <1>1, <1>3, <3>2, <3>3 DEF Local, Sought, Probed, Using, Seeking
    <3>. QED  BY <3>1, <3>3, <3>4
  <2>2. CASE ~(a.cur < LastOf(e))
    <3> DEFINE r == [at[c] EXCEPT !.step = "retry"]
    <3>1. at' = [at EXCEPT ![c] = r]
      BY <1>1, <2>2 DEF Sweep, Here, Go
    <3>3. r \in Records /\ r.step = "retry" /\ r.entry = Nothing /\ r.mode = a.mode
      BY <1>1, <1>2, <1>3 DEF Records, Steps
    <3> HIDE DEF r
    <3>4. Local(r, remote, entries)
      BY <1>1, <1>3, <3>3 DEF Local, Sought, Probed, Using, Seeking
    <3>. QED  BY <3>1, <3>3, <3>4
  <2>. QED  BY <2>1, <2>2
<1>6. forced' \in [Epochs -> Nat]
  BY <1>1 DEF Sweep, Here
<1>7. ranges' \in [Slots -> Nat] /\ \A s \in Slots : ranges'[s] <= remote[EpochOf(s)]
  <2>1. 0 <= remote[e]
    BY <1>1
  <2>. QED  BY <1>1, <1>2, <2>1 DEF IndexInv, Nothing
<1>8. /\ epochs' \in [Epochs -> EntryIds \cup {Nothing}] /\ \A f \in Epochs : epochs'[f] = epochs[f]
      /\ entries' \in [EntryIds -> Cells] /\ entries' = entries
      /\ \A i \in EntryIds : /\ entries'[i].version = entries[i].version
                             /\ entries'[i].version = Nothing \/ entries'[i].loader = Nothing
  BY <1>2 DEF IndexInv
<1>9. PICK r \in Records : at' = [at EXCEPT ![c] = r] /\ r.entry = Nothing /\ Local(r, remote, entries)
  BY <1>5
<1>10. Local(r, remote, entries')
  BY <1>8, <1>9
<1>. QED  BY <1>2, <1>6, <1>7, <1>8, <1>9, <1>10, CallerKept

-----------------------------------------------------------------------------
(* The cells of the entries.                                               *)

\* The cell of an entry is filled by a caller that holds the entry.
LEMMA FillCellKept == ASSUME IndexInv, NEW c \in Callers, FillCell(c) PROVE IndexInv'
<1> DEFINE a == at[c]
           r == [at[c] EXCEPT !.step = "ranges"]
<1>1. /\ at \in [Callers -> Records] /\ a \in Records /\ Local(a, remote, entries) /\ forced \in [Epochs -> Nat]
  BY CallerIs
<1>2. /\ a.step = "cell" /\ entries[a.entry].version = Nothing
      /\ UNCHANGED <<remote, ranges, epochs, forced>>
      /\ entries' = [entries EXCEPT ![a.entry].loader = c] /\ at' = [at EXCEPT ![c] = r]
  BY <1>1 DEF FillCell, Go, Ready
<1>3. /\ r \in Records /\ r.step = "ranges" /\ r.cur = a.cur /\ r.want = a.want /\ r.mode = a.mode
      /\ r.entry = a.entry /\ r.probe = a.probe
  BY <1>1 DEF Records, Steps
<1> HIDE DEF r
<1>4. Local(r, remote, entries')
  BY <1>1, <1>2, <1>3 DEF Local, Sought, Probed, Using, Seeking
<1>5. /\ entries' \in [EntryIds -> Cells]
      /\ \A i \in EntryIds : /\ entries'[i].version = entries[i].version
                             /\ entries'[i].version = Nothing \/ entries'[i].loader = Nothing
  BY <1>2 DEF IndexInv, Cells
<1>6. /\ epochs' \in [Epochs -> EntryIds \cup {Nothing}] /\ \A f \in Epochs : epochs'[f] = epochs[f]
      /\ ranges' \in [Slots -> Nat] /\ \A s \in Slots : ranges'[s] <= remote[EpochOf(s)]
  BY <1>2 DEF IndexInv
<1>. QED  BY <1>1, <1>2, <1>3, <1>4, <1>5, <1>6, CallerKept

\* A load that is over has the version that is published.
LEMMA LoadedKept ==
  ASSUME IndexInv, NEW c \in Callers, at[c].step \in {"ranges", "legacy"}, Loaded(c),
         UNCHANGED <<remote, ranges, epochs, forced>>
  PROVE  IndexInv'
<1> DEFINE a == at[c]
           r == [at[c] EXCEPT !.step = "lookup"]
<1>1. /\ at \in [Callers -> Records] /\ a \in Records /\ Local(a, remote, entries) /\ forced \in [Epochs -> Nat]
      /\ remote[EpochOf(a.cur)] \in Nat \ {0}
  BY CallerIs
<1>2. /\ entries' = [entries EXCEPT ![a.entry] = [version |-> remote[EpochOf(a.cur)], loader |-> Nothing]]
      /\ at' = [at EXCEPT ![c] = r]
  BY <1>1 DEF Loaded, Go, Here
<1>3. /\ r \in Records /\ r.step = "lookup" /\ r.cur = a.cur /\ r.want = a.want /\ r.mode = a.mode
      /\ r.entry = a.entry /\ r.probe = a.probe
  BY <1>1 DEF Records, Steps
<1> HIDE DEF r
<1>4. a.entry \in EntryIds
  BY <1>1 DEF Local, Using, Records
<1>5. /\ entries' \in [EntryIds -> Cells]
      /\ \A i \in EntryIds : /\ entries'[i].version = Nothing \/ entries'[i].loader = Nothing
                             /\ \/ entries'[i].version = entries[i].version
                                \/ i = a.entry /\ entries'[i].version = remote[EpochOf(a.cur)]
      /\ entries'[a.entry].version # Nothing
  BY <1>1, <1>2, <1>4 DEF IndexInv, Cells, Nothing
<1>6. Local(r, remote, entries')
  BY <1>1, <1>3, <1>5 DEF Local, Sought, Probed, Using, Seeking
<1>7. /\ epochs' \in [Epochs -> EntryIds \cup {Nothing}] /\ \A f \in Epochs : epochs'[f] = epochs[f]
      /\ ranges' \in [Slots -> Nat] /\ \A s \in Slots : ranges'[s] <= remote[EpochOf(s)]
  BY DEF IndexInv
<1>. QED  BY <1>1, <1>2, <1>3, <1>5, <1>6, <1>7, CallerKept

\* A load that was given up leaves its cell empty.
LEMMA Abandoned ==
  ASSUME IndexInv, NEW c \in Callers, Abandon(c)
  PROVE  /\ entries' \in [EntryIds -> Cells]
         /\ \A i \in EntryIds : /\ entries'[i].version = entries[i].version
                                /\ entries'[i].version = Nothing \/ entries'[i].loader = Nothing
  BY DEF IndexInv, Abandon, Cells

LEMMA AbandonKept ==
  ASSUME IndexInv, NEW c \in Callers, NEW r \in Records, at' = [at EXCEPT ![c] = r], r.entry = Nothing,
         Local(r, remote, entries'), Abandon(c), UNCHANGED <<remote, ranges, epochs, forced>>
  PROVE  IndexInv'
<1>1. /\ epochs' \in [Epochs -> EntryIds \cup {Nothing}] /\ \A f \in Epochs : epochs'[f] = epochs[f]
      /\ ranges' \in [Slots -> Nat] /\ \A s \in Slots : ranges'[s] <= remote[EpochOf(s)]
      /\ forced' \in [Epochs -> Nat]
  BY DEF IndexInv
<1>. QED  BY <1>1, Abandoned, CallerKept

LEMMA FailedKept ==
  ASSUME IndexInv, NEW c \in Callers, Failed(c), Abandon(c), UNCHANGED <<remote, ranges, epochs, forced>>
  PROVE  IndexInv'
  BY FailedMoves, AbandonKept

\* The files of the epoch are read, the legacy ones where there is no other.
LEMMA LoadKept == ASSUME IndexInv, NEW c \in Callers, LoadRanges(c) \/ LoadLegacy(c) PROVE IndexInv'
<1>1. at[c].step \in {"ranges", "legacy"} /\ UNCHANGED <<remote, ranges, epochs, forced>>
  BY DEF LoadRanges, LoadLegacy
<1>2. \/ Loaded(c)
      \/ Failed(c) /\ Abandon(c)
      \/ at[c].step = "ranges" /\ Go(c, "legacy") /\ UNCHANGED entries
  <2>1. CASE LoadRanges(c)
    BY <2>1, Zenon DEF LoadRanges
  <2>2. CASE LoadLegacy(c)
    BY <2>2, Zenon DEF LoadLegacy
  <2>. QED  BY <2>1, <2>2
<1>3. CASE at[c].step = "ranges" /\ Go(c, "legacy") /\ UNCHANGED entries
  <2> DEFINE r == [at[c] EXCEPT !.step = "legacy"]
  <2>1. /\ at \in [Callers -> Records] /\ at[c] \in Records /\ Local(at[c], remote, entries)
        /\ forced \in [Epochs -> Nat]
    BY CallerIs
  <2>2. at' = [at EXCEPT ![c] = r]
    BY <1>3, <2>1 DEF Go
  <2>3. /\ r \in Records /\ r.step = "legacy" /\ r.cur = at[c].cur /\ r.want = at[c].want /\ r.mode = at[c].mode
        /\ r.entry = at[c].entry /\ r.probe = at[c].probe
    BY <2>1 DEF Records, Steps
  <2> HIDE DEF r
  <2>4. Local(r, remote, entries)
    BY <1>3, <2>1, <2>3 DEF Local, Sought, Probed, Using, Seeking
  <2>. QED  BY <1>1, <1>3, <2>1, <2>2, <2>3, <2>4, CallerMoves
<1>. QED  BY <1>1, <1>2, <1>3, LoadedKept, FailedKept

LEMMA NetworkErrorKept == ASSUME IndexInv, NEW c \in Callers, NetworkError(c) PROVE IndexInv'
  BY FailedKept DEF NetworkError

\* A timeout gives up the load, if there is one, and starts over.
LEMMA TimeOutKept == ASSUME IndexInv, NEW c \in Callers, TimeOut(c) PROVE IndexInv'
<1>1. LookUp(c, at[c].want, "seek") /\ Abandon(c) /\ UNCHANGED <<remote, ranges, epochs, forced>>
  BY DEF TimeOut
<1>2. at[c].want \in Slots /\ at[c].want \in Nat
  BY CallerIs, SlotHolds
<1>3. \A t \in at[c].want .. (at[c].want - 1) : FALSE
  BY <1>2
<1>4. PICK r \in Records : /\ at' = [at EXCEPT ![c] = r] /\ r.entry = Nothing
                           /\ Local(r, remote, entries')
  BY <1>1, <1>2, <1>3, LookUpMoves
<1>. QED  BY <1>1, <1>4, AbandonKept

\* The rest of an epoch is scanned: the first slot that is there, or none.
LEMMA ScanEpochKept == ASSUME IndexInv, NEW c \in Callers, ScanEpoch(c) PROVE IndexInv'
<1> DEFINE a == at[c]
           e == EpochOf(at[c].cur)
           v == Index(c)
           lo == at[c].probe[1] + 1
           hi == at[c].probe[2]
           m == Min({at[c].probe[2], LastOf(EpochOf(at[c].cur))})
           hits == PresentIn(at[c].cur, Min({at[c].probe[2], LastOf(EpochOf(at[c].cur))}), Index(c))
           Answer(n) == [at[c] EXCEPT !.step = "answer", !.got = n, !.entry = Nothing]
           more == [at[c] EXCEPT !.step = "entry", !.cur = LastOf(EpochOf(at[c].cur)) + 1, !.entry = Nothing]
<1>1. /\ at \in [Callers -> Records] /\ a \in Records /\ Local(a, remote, entries) /\ forced \in [Epochs -> Nat]
      /\ IndexAssumption /\ a.cur \in Slots /\ e \in Epochs
  BY CallerIs
<1>2. /\ a.step = "lookup" /\ a.mode = "probe" /\ UNCHANGED <<remote, ranges, epochs, entries, forced>>
  BY DEF ScanEpoch
<1>3. \/ at' = [at EXCEPT ![c] = Answer(Unknown)]
      \/ hits # {} /\ at' = [at EXCEPT ![c] = Answer(Min(hits))]
      \/ hits = {} /\ ~(LastOf(e) + 1 > hi) /\ at' = [at EXCEPT ![c] = more]
  BY <1>1 DEF ScanEpoch, Here
<1>4. /\ a.probe \in Slots \X Slots /\ lo \in Nat /\ lo > 0 /\ hi \in Slots /\ hi \in Nat /\ a.cur \in Nat
      /\ LastOf(e) \in Nat /\ FirstOf(e) \in Nat /\ FirstOf(e) <= a.cur /\ a.cur <= LastOf(e)
  <2>1. a.probe \in Slots \X Slots /\ a.probe[1] \in Nat /\ hi \in Slots /\ hi \in Nat
    BY <1>1, SlotsAre DEF Records
  <2>. QED  BY <1>1, <2>1, SlotHolds
<1>5. lo <= a.cur /\ a.cur <= hi /\ \A s \in lo .. (a.cur - 1) : Absent(s, remote)
  <2>1. a.probe[1] < a.cur /\ a.cur <= hi /\ \A s \in lo .. (a.cur - 1) : Absent(s, remote)
    BY <1>1, <1>2 DEF Local, Probed, Using
  <2>2. a.probe[1] \in Nat
    BY <1>1, SlotsAre DEF Records
  <2>. QED  BY <1>4, <2>1, <2>2
<1>6. m \in {hi, LastOf(e)} /\ m <= hi /\ m <= LastOf(e) /\ m \in Nat
  <2> DEFINE T == {hi, LastOf(e)}
  <2>1. T \in SUBSET Nat /\ T # {} /\ hi \in T /\ LastOf(e) \in T
    BY <1>4
  <2> HIDE DEF T
  <2>2. Min(T) \in T /\ \A y \in T : Min(T) <= y
    BY <2>1, MinIs
  <2>3. Min(T) \in Nat /\ Min(T) <= hi /\ Min(T) <= LastOf(e)
    BY <2>1, <2>2
  <2>. QED  BY <2>2, <2>3 DEF T
<1>7. v \in 1 .. remote[e]
  BY <1>2, IndexIs DEF Here
<1>8. \A s \in a.cur .. m : s \in Slots /\ EpochOf(s) = e /\ s \in Nat
  <2>1. \A s \in a.cur .. m : s \in Nat /\ FirstOf(e) <= s /\ s <= LastOf(e)
    BY <1>4, <1>6
  <2>. QED  BY <1>1, <2>1, SlotsAre
<1>9. hits \in SUBSET Nat /\ hits = {s \in a.cur .. m : Where(s, v) # "absent"}
  BY <1>4, <1>6 DEF PresentIn
<1>10. \A s \in a.cur .. m : s \notin hits => Absent(s, remote)
  BY <1>7, <1>8, <1>9 DEF Absent
<1> HIDE DEF hits, m, v
<1>11. CASE at' = [at EXCEPT ![c] = Answer(Unknown)]
  <2> DEFINE r == Answer(Unknown)
  <2>1. r \in Records /\ r.step = "answer" /\ r.got = Unknown /\ r.entry = Nothing
    BY <1>1, UnknownIs DEF Records, Steps
  <2>3. at' = [at EXCEPT ![c] = r]
    BY <1>11
  <2> HIDE DEF r
  <2>2. Local(r, remote, entries)
    BY <2>1 DEF Local, Sought, Probed, Using, Seeking, Nothing
  <2>. QED  BY <1>1, <1>2, <2>1, <2>2, <2>3, CallerMoves
<1>12. CASE hits # {} /\ at' = [at EXCEPT ![c] = Answer(Min(hits))]
  <2> DEFINE n == Min(hits)
             r == Answer(n)
  <2>3. at' = [at EXCEPT ![c] = r]
    BY <1>12
  <2>1. n \in hits /\ \A y \in hits : n <= y
    BY <1>9, <1>12, MinIs
  <2> HIDE DEF n
  <2>2. n \in a.cur .. m /\ n \in Nat /\ n \in Int /\ EpochOf(n) = e /\ Where(n, v) # "absent"
    BY <1>8, <1>9, <2>1
  <2>4. n \in lo .. hi
    BY <1>4, <1>5, <1>6, <2>2
  <2>5. ASSUME NEW s \in lo .. (n - 1) PROVE Absent(s, remote)
    <3>1. s \in lo .. (a.cur - 1) \/ (s \in a.cur .. m /\ s < n /\ s \in Nat)
      BY <1>4, <1>6, <2>2, <2>5
    <3>2. s < n /\ s \in Nat => s \notin hits
      BY <2>1, <2>2
    <3>. QED  BY <1>5, <1>10, <3>1, <3>2
  <2>6. r \in Records /\ r.step = "answer" /\ r.got = n /\ r.entry = Nothing /\ r.probe = a.probe
    BY <1>1, <2>2 DEF Records, Steps
  <2>8. \E w \in 1 .. remote[EpochOf(n)] : Where(n, w) # "absent"
    BY <1>7, <2>2
  <2> HIDE DEF r
  <2>7. Local(r, remote, entries)
    BY <2>4, <2>5, <2>6, <2>8 DEF Local, Sought, Probed, Using, Seeking, Nothing
  <2>. QED  BY <1>1, <1>2, <2>3, <2>6, <2>7, CallerMoves
<1>13. CASE hits = {} /\ ~(LastOf(e) + 1 > hi) /\ at' = [at EXCEPT ![c] = more]
  <2> DEFINE z == LastOf(e) + 1
  <2>1. z <= hi /\ m = LastOf(e) /\ z \in Nat
    BY <1>4, <1>6, <1>13
  <2>2. z \in Slots
    BY <1>1, <1>4, <2>1, SlotsAre
  <2>3. ASSUME NEW s \in lo .. (z - 1) PROVE Absent(s, remote)
    <3>1. s \in lo .. (a.cur - 1) \/ s \in a.cur .. m
      BY <1>4, <2>1, <2>3
    <3>. QED  BY <1>5, <1>10, <1>13, <3>1
  <2>4. /\ more \in Records /\ more.step = "entry" /\ more.cur = z /\ more.entry = Nothing
        /\ more.probe = a.probe /\ more.mode = "probe"
    BY <1>1, <1>2, <2>2 DEF Records, Steps
  <2>5. a.probe[1] < z
    <3>1. a.probe[1] \in Nat
      BY <1>1, SlotsAre DEF Records
    <3>. QED  BY <1>4, <1>5, <3>1
  <2>7. at' = [at EXCEPT ![c] = more]
    BY <1>13
  <2> HIDE DEF more, z
  <2>6. Local(more, remote, entries)
    BY <2>1, <2>3, <2>4, <2>5, Zenon DEF Local, Sought, Probed, Using, Seeking, Nothing
  <2>. QED  BY <1>1, <1>2, <2>4, <2>6, <2>7, CallerMoves
<1>. QED  BY <1>3, <1>11, <1>12, <1>13

\* The entry of the epoch is taken, or a fresh one that nobody else holds.
LEMMA TakeEntryKept == ASSUME IndexInv, NEW c \in Callers, TakeEntry(c) PROVE IndexInv'
<1> DEFINE a == at[c]
           e == EpochOf(at[c].cur)
           id == IF epochs[EpochOf(at[c].cur)] # Nothing THEN epochs[EpochOf(at[c].cur)]
                 ELSE Min(EntryIds \ Held)
           r == [at[c] EXCEPT !.step = "cell", !.entry = id]
<1>1. /\ at \in [Callers -> Records] /\ a \in Records /\ Local(a, remote, entries) /\ forced \in [Epochs -> Nat]
      /\ IndexAssumption /\ a.cur \in Slots /\ e \in Epochs /\ Nothing \notin EntryIds
      /\ epochs \in [Epochs -> EntryIds \cup {Nothing}] /\ entries \in [EntryIds -> Cells]
      /\ remote[e] \in Nat
  BY CallerIs DEF IndexInv
<1>2. /\ a.step = "entry" /\ UNCHANGED <<remote, ranges, forced>>
      /\ epochs' = [epochs EXCEPT ![e] = id]
      /\ entries' = IF id = epochs[e] THEN entries ELSE [entries EXCEPT ![id] = Free]
      /\ at' = [at EXCEPT ![c] = r]
  BY <1>1 DEF TakeEntry, Here
<1>3. a.entry = Nothing
  BY <1>1, <1>2 DEF Local, Using
<1>4. id \in EntryIds /\ (id = epochs[e] \/ (epochs[e] = Nothing /\ id \notin Held))
  <2>1. CASE epochs[e] # Nothing
    BY <1>1, <2>1
  <2>2. CASE epochs[e] = Nothing
    BY <1>1, <1>3, <2>2, EntryFree
  <2>. QED  BY <2>1, <2>2
<1> HIDE DEF id
<1>5. /\ r \in Records /\ r.step = "cell" /\ r.cur = a.cur /\ r.want = a.want /\ r.mode = a.mode
      /\ r.entry = id /\ r.probe = a.probe
  BY <1>1, <1>4 DEF Records, Steps
<1> HIDE DEF r
<1>6. Local(r, remote, entries')
  BY <1>1, <1>2, <1>4, <1>5 DEF Local, Sought, Probed, Using, Seeking
<1>7. /\ entries' \in [EntryIds -> Cells]
      /\ \A i \in EntryIds : entries'[i].version = Nothing \/ entries'[i].loader = Nothing
      /\ \A i \in EntryIds : i # id \/ id = epochs[e] => entries'[i] = entries[i]
      /\ id # epochs[e] => entries'[id] = Free
  <2>1. Free \in Cells
    BY DEF Free, Cells, Nothing
  <2>. QED  BY <1>1, <1>2, <1>4, <2>1 DEF IndexInv, Free
<1>8. \A d \in Callers : d # c /\ at[d].entry = id => id = epochs[e]
  BY <1>4 DEF Held
<1>9. \A d \in Callers : Local(at'[d], remote, entries')
  <2> SUFFICES ASSUME NEW d \in Callers, d # c PROVE Local(at[d], remote, entries')
    BY <1>1, <1>2, <1>6
  <2>1. Local(at[d], remote, entries) /\ at[d].entry \in EntryIds \cup {Nothing}
    BY <1>1 DEF IndexInv, Records
  <2>2. at[d].step = "lookup" => entries'[at[d].entry].version # Nothing
    <3> SUFFICES ASSUME at[d].step = "lookup" PROVE entries'[at[d].entry].version # Nothing
      OBVIOUS
    <3>1. at[d].entry \in EntryIds /\ entries[at[d].entry].version # Nothing
      BY <2>1 DEF Local, Using
    <3>. QED  BY <1>7, <1>8, <3>1
  <2>. QED  BY <2>1, <2>2 DEF Local
<1>10. epochs' \in [Epochs -> EntryIds \cup {Nothing}]
  BY <1>1, <1>2, <1>4
<1>11. ASSUME NEW i \in EntryIds PROVE \E f \in Epochs : Uses(i, f)'
  <2>1. PICK f \in Epochs : Uses(i, f)
    BY DEF IndexInv
  <2>2. CASE i # id
    <3>1. \A d \in Callers : at'[d].entry = i => EpochOf(at'[d].cur) = f
      BY <1>1, <1>2, <1>5, <2>1, <2>2 DEF Uses
    <3>2. \A g \in Epochs : epochs'[g] = i => g = f
      BY <1>1, <1>2, <2>1, <2>2 DEF Uses
    <3>. QED  BY <1>2, <1>7, <2>1, <2>2, <3>1, <3>2 DEF Uses
  <2>3. CASE i = id /\ id = epochs[e]
    <3>1. f = e
      BY <1>1, <2>1, <2>3 DEF Uses
    <3>2. \A d \in Callers : at'[d].entry = i => EpochOf(at'[d].cur) = f
      BY <1>1, <1>2, <1>5, <2>1, <3>1 DEF Uses
    <3>3. \A g \in Epochs : epochs'[g] = i => g = f
      BY <1>1, <1>2, <2>1, <2>3 DEF Uses
    <3>. QED  BY <1>2, <1>7, <2>1, <2>3, <3>2, <3>3 DEF Uses
  <2>4. CASE i = id /\ id # epochs[e]
    <3>1. \A d \in Callers : at'[d].entry = i => EpochOf(at'[d].cur) = e
      BY <1>1, <1>2, <1>5, <1>8, <2>4
    <3>2. \A g \in Epochs : epochs'[g] = i => g = e
      BY <1>1, <1>2, <1>4, <2>4 DEF Held
    <3>3. entries'[i].version <= remote[e]
      BY <1>1, <1>7, <2>4 DEF Free, Nothing
    <3>. QED  BY <1>1, <1>2, <3>1, <3>2, <3>3 DEF Uses
  <2>. QED  BY <2>2, <2>3, <2>4
<1>12. at' \in [Callers -> Records]
  BY <1>1, <1>2, <1>5
<1>. QED  BY <1>1, <1>2, <1>7, <1>9, <1>10, <1>11, <1>12 DEF IndexInv

-----------------------------------------------------------------------------
(* The invariant holds.                                                    *)

LEMMA IndexInit == ASSUME IndexAssumption, Init PROVE IndexInv
<1>1. PICK n \in Epochs : n \in Nat /\ Epochs = 0 .. n
  BY DEF IndexAssumption
<1>2. \A e \in Epochs : remote[e] = 1 /\ remote[e] \in Versions(e)
  <2> SUFFICES ASSUME NEW e \in Epochs PROVE 1 \in Versions(e)
    BY DEF Init
  <2>1. /\ Versions(e) = 1 .. Len(Published[e]) /\ Len(Published[e]) \in Nat /\ Published[e] # << >>
        /\ Published[e] \in Seq([kind : Kinds, slots : [FirstOf(e) .. LastOf(e) -> Places]])
    BY VersionsAre DEF IndexAssumption
  <2>2. Len(Published[e]) # 0
    <3> DEFINE V == [kind : Kinds, slots : [FirstOf(e) .. LastOf(e) -> Places]]
    <3>1. Published[e] \in Seq(V)
      BY <2>1
    <3> HIDE DEF V
    <3>. QED  BY <2>1, <3>1
  <2>. QED  BY <2>1, <2>2
<1>3. /\ remote \in [Epochs -> Nat] /\ epochs \in [Epochs -> EntryIds \cup {Nothing}] /\ ranges \in [Slots -> Nat]
      /\ forced \in [Epochs -> Nat]
  BY DEF Init, Nothing
<1>4. \A s \in Slots : ranges[s] <= remote[EpochOf(s)]
  BY <1>2, SlotsAre DEF Init, Nothing
<1>5. /\ entries \in [EntryIds -> Cells]
      /\ \A i \in EntryIds : entries[i] = Free /\ entries[i].version = Nothing
  BY DEF Init, Free, Cells, Nothing
<1>6. /\ at \in [Callers -> Records] /\ \A c \in Callers : at[c] = Idle /\ Local(at[c], remote, entries)
  BY IdleLocal DEF Init
<1>7. ASSUME NEW id \in EntryIds PROVE Uses(id, n)
  <2>1. id # Nothing
    BY DEF EntryIds, Nothing
  <2>2. entries[id].version <= remote[n]
    BY <1>2, <1>5 DEF Nothing
  <2>3. \A f \in Epochs : epochs[f] = Nothing
    BY DEF Init
  <2>. QED  BY <1>6, <2>1, <2>2, <2>3 DEF Uses, Idle
<1>. QED  BY <1>2, <1>3, <1>4, <1>5, <1>6, <1>7 DEF IndexInv

LEMMA IndexStays == ASSUME IndexInv, UNCHANGED vars PROVE IndexInv'
<1>1. UNCHANGED <<remote, ranges, epochs, entries, at, forced>>
  BY DEF vars
<1>2. \A id \in EntryIds : \E e \in Epochs : Uses(id, e)'
  BY <1>1 DEF IndexInv, Uses
<1>. QED  BY <1>1, <1>2 DEF IndexInv

LEMMA IndexNext == ASSUME IndexInv, [Next]_vars PROVE IndexInv'
<1>1. CASE UNCHANGED vars
  BY <1>1, IndexStays
<1>2. CASE Rest
  BY <1>2, IndexStays DEF Rest
<1>3. ASSUME NEW e \in Epochs, Publish(e) PROVE IndexInv'
  BY <1>3, PublishKept
<1>4. ASSUME NEW c \in Callers, Call(c) PROVE IndexInv'
  BY <1>4, SearchKept, ProbeKept DEF Call
<1>5. ASSUME NEW c \in Callers, NetworkError(c) \/ TimeOut(c) PROVE IndexInv'
  BY <1>5, NetworkErrorKept, TimeOutKept
<1>6. ASSUME NEW c \in Callers, Step(c) PROVE IndexInv'
  BY <1>6, CachedKept, TakeEntryKept, ReadCellKept, FillCellKept, LoadKept, LookupRangeKept, InsertKept,
     ReadKept, DropKept, SweepKept, RetryKept, ScanEpochKept, AnsweredKept DEF Step
<1>. QED  BY <1>1, <1>2, <1>3, <1>4, <1>5, <1>6, Zenon DEF Next

\* The invariant of the index, in every behaviour.
THEOREM IndexInvariant == IndexAssumption /\ Spec => []IndexInv
<1>1. IndexAssumption /\ Init => IndexInv
  BY IndexInit
<1>2. IndexInv /\ [Next]_vars => IndexInv'
  BY IndexNext
<1>. QED  BY <1>1, <1>2, PTL DEF Spec

\* The caches hold versions that exist, the callers entries, and no cell is both full and
\* being filled (EPOCH_CACHE and its OnceCell).
THEOREM IndexTypes == IndexAssumption /\ Spec => []TypeOK
<1>1. ASSUME IndexInv PROVE TypeOK
  <2>1. \A e \in Epochs : remote[e] \in Versions(e) /\ epochs[e] \in EntryIds \cup {Nothing}
    BY <1>1 DEF IndexInv
  <2>2. ASSUME NEW s \in Slots PROVE ranges[s] \in Versions(EpochOf(s)) \cup {Nothing}
    <3>1. EpochOf(s) \in Epochs
      BY <1>1, SlotsAre DEF IndexInv
    <3>2. /\ ranges[s] \in Nat /\ ranges[s] <= remote[EpochOf(s)] /\ remote[EpochOf(s)] \in Versions(EpochOf(s))
          /\ Versions(EpochOf(s)) = 1 .. Len(Published[EpochOf(s)]) /\ Len(Published[EpochOf(s)]) \in Nat
      BY <1>1, <3>1, VersionsAre DEF IndexInv
    <3>. QED  BY <3>2 DEF Nothing
  <2>3. \A c \in Callers : /\ at[c].step \in Steps /\ at[c].mode \in {"seek", "tail", "probe"}
                           /\ at[c].cur \in Slots /\ at[c].entry \in EntryIds \cup {Nothing}
    BY <1>1 DEF IndexInv, Records
  <2>. QED  BY <1>1, <2>1, <2>2, <2>3 DEF IndexInv, TypeOK
<1>. QED  BY <1>1, IndexInvariant, PTL

\* A seek ends in its epoch and passes over a slot only where an index that was published so
\* far does not have it (seek_to_slot_inner, seek_to_epoch_tail).
THEOREM SeeksPassOnlyAbsent == IndexAssumption /\ Spec => []SeekPassesOnlyAbsent
<1>1. ASSUME IndexInv PROVE SeekPassesOnlyAbsent
  <2> SUFFICES ASSUME NEW c \in Callers, at[c].step = "found"
               PROVE  /\ EpochOf(at[c].cur) = EpochOf(at[c].want)
                      /\ \A s \in IF at[c].mode = "seek" THEN at[c].want .. (at[c].cur - 1)
                                  ELSE (at[c].cur + 1) .. LastOf(EpochOf(at[c].want)) : AbsentOnce(s)
    BY DEF SeekPassesOnlyAbsent
  <2>1. Local(at[c], remote, entries) /\ at[c].mode \in {"seek", "tail", "probe"}
    BY <1>1 DEF IndexInv, Records
  <2>2. at[c].mode # "probe" /\ Sought(at[c], remote)
    BY <2>1 DEF Local, Seeking
  <2>. QED  BY <2>1, <2>2 DEF Sought, Seeking, Absent, AbsentOnce
<1>. QED  BY <1>1, IndexInvariant, PTL

\* What a probe names is in its interval and in some published index, and every slot before it
\* is missing from one (next_present_slot).
THEOREM ProbesSound == IndexAssumption /\ Spec => []ProbeSound
<1>1. ASSUME IndexInv PROVE ProbeSound
  <2> SUFFICES ASSUME NEW c \in Callers, at[c].step = "answer", at[c].got # Unknown
               PROVE  /\ at[c].got \in (at[c].probe[1] + 1) .. at[c].probe[2]
                      /\ \E v \in 1 .. remote[EpochOf(at[c].got)] : Where(at[c].got, v) # "absent"
                      /\ \A s \in (at[c].probe[1] + 1) .. (at[c].got - 1) : AbsentOnce(s)
    BY DEF ProbeSound
  <2>1. Local(at[c], remote, entries)
    BY <1>1 DEF IndexInv
  <2>. QED  BY <2>1 DEF Local, Probed, Absent, AbsentOnce
<1>. QED  BY <1>1, IndexInvariant, PTL

-----------------------------------------------------------------------------
(* What an invalidation promises to a thread that has the index to itself. *)

\* The frame of a step that forgets nothing it was asked for.
LEMMA FreshKept ==
  ASSUME FreshInv, NEW c \in Callers, Callers = {c}, IndexInv', UNCHANGED <<remote, forced>>,
         \A s \in Slots : \/ ranges'[s] = ranges[s] \/ ranges'[s] = Nothing
                          \/ forced[EpochOf(s)] <= ranges'[s],
         FreshEntries', FreshCaller(at'[c], entries', epochs', ranges')
  PROVE  FreshInv'
<1>1. FreshRanges'
  BY DEF FreshInv, FreshRanges
<1>2. \A d \in Callers : FreshCaller(at[d], entries, epochs, ranges)'
  BY DEF FreshCaller
<1>3. (\A e \in Epochs : forced[e] <= remote[e])'
  BY DEF FreshInv
<1>. QED  BY <1>1, <1>2, <1>3 DEF FreshInv

\* No version of an entry changes, and the map takes none.
LEMMA FreshMoves ==
  ASSUME FreshInv, NEW c \in Callers, Callers = {c}, IndexInv', UNCHANGED <<remote, forced, ranges>>,
         \A e \in Epochs : epochs'[e] = epochs[e] \/ epochs'[e] = Nothing,
         \A i \in EntryIds : entries'[i].version = entries[i].version,
         FreshCaller(at'[c], entries', epochs', ranges')
  PROVE  FreshInv'
<1>1. FreshEntries'
  BY DEF FreshInv, FreshEntries, IndexInv
<1>. QED  BY <1>1, FreshKept

LEMMA FreshIs ==
  ASSUME FreshInv, NEW c \in Callers
  PROVE  /\ IndexInv /\ FreshCaller(at[c], entries, epochs, ranges) /\ Local(at[c], remote, entries)
         /\ at \in [Callers -> Records] /\ at[c] \in Records /\ at[c].cur \in Slots
         /\ EpochOf(at[c].cur) \in Epochs /\ EpochOf(at[c].want) \in Epochs
         /\ forced \in [Epochs -> Nat] /\ Nothing \notin EntryIds
  BY CallerIs DEF FreshInv

\* A lookup that begins asks for what the last invalidation has asked for.
LEMMA LookUpFresh ==
  ASSUME FreshInv, NEW c \in Callers, NEW s \in Slots, NEW mode \in {"seek", "tail"}, LookUp(c, s, mode),
         NEW ent, NEW eps, NEW rng
  PROVE  FreshCaller(at'[c], ent, eps, rng)
<1>1. at \in [Callers -> Records] /\ at[c] \in Records /\ EpochOf(s) \in Epochs /\ forced[EpochOf(s)] \in Nat
  BY FreshIs, SlotsAre DEF IndexInv
<1>2. /\ at'[c].step = "cached" /\ at'[c].cur = s /\ at'[c].entry = Nothing
      /\ at'[c].need = forced[EpochOf(s)]
  BY <1>1 DEF LookUp, Records
<1>3. forced[EpochOf(s)] <= forced[EpochOf(s)]
  BY <1>1
<1>. QED  BY <1>2, <1>3 DEF FreshCaller

\* A lookup that failed holds nothing.
LEMMA FailedFresh ==
  ASSUME FreshInv, NEW c \in Callers, Failed(c), NEW ent, NEW eps, NEW rng
  PROVE  FreshCaller(at'[c], ent, eps, rng)
<1>1. at \in [Callers -> Records] /\ at[c] \in Records
  BY FreshIs
<1>2. at'[c].entry = Nothing /\ at'[c].step \in {"answer", "drop"}
  BY <1>1 DEF Failed, Records
<1>. QED  BY <1>2 DEF FreshCaller, Seeking, Using

LEMMA IdleFresh ==
  ASSUME NEW ent, NEW eps, NEW rng
  PROVE  FreshCaller(Idle, ent, eps, rng)
  BY DEF FreshCaller, Idle, Seeking, Using

LEMMA SeekFresh == ASSUME FreshInv, NEW c \in Callers, Callers = {c}, NEW s \in Wants[c], Seek(c, s) PROVE FreshInv'
<1>1. s \in Slots /\ at \in [Callers -> Records] /\ EpochOf(s) \in Epochs /\ forced[EpochOf(s)] \in Nat
  BY FreshIs, SlotsAre DEF IndexInv, IndexAssumption
<1>2. UNCHANGED <<remote, ranges, epochs, entries, forced>>
  BY DEF Seek
<1>3. /\ at'[c].step = "cached" /\ at'[c].cur = s /\ at'[c].entry = Nothing
      /\ at'[c].need = forced[EpochOf(s)]
  BY <1>1 DEF Seek, Idle
<1>4. forced[EpochOf(s)] <= forced[EpochOf(s)]
  BY <1>1
<1>5. FreshCaller(at'[c], entries', epochs', ranges')
  BY <1>3, <1>4 DEF FreshCaller
<1>. QED  BY <1>2, <1>5, SearchKept, FreshMoves DEF FreshInv

LEMMA ProbeFresh == ASSUME FreshInv, NEW c \in Callers, Callers = {c}, NEW p \in Probes, Probe(c, p) PROVE FreshInv'
<1>2. UNCHANGED <<remote, ranges, epochs, entries, forced>>
  BY DEF Probe
<1>3. at'[c].entry = Nothing /\ at'[c].mode = "probe" /\ at'[c].step \in {"answer", "entry"}
  BY FreshIs DEF Probe, Idle
<1>5. FreshCaller(at'[c], entries', epochs', ranges')
  BY <1>3 DEF FreshCaller
<1>. QED  BY <1>2, <1>5, ProbeKept, FreshMoves DEF FreshInv

LEMMA CachedFresh ==
  ASSUME FreshInv, NEW c \in Callers, Callers = {c}, Cached(c) \/ CachedAgain(c)
  PROVE  FreshInv'
<1> DEFINE a == at[c]
<1>1. /\ a \in Records /\ at \in [Callers -> Records] /\ FreshCaller(a, entries, epochs, ranges)
      /\ a.cur \in Slots /\ IndexInv /\ Local(a, remote, entries)
  BY FreshIs
<1>2. /\ a.step \in {"cached", "again"} /\ UNCHANGED <<remote, ranges, epochs, entries, forced>>
      /\ \/ /\ ranges[a.cur] # Nothing /\ at'[c].got = ranges[a.cur]
            /\ at'[c].step \in {"found", "outer"}
         \/ at'[c].step \in {"again", "entry"}
      /\ at'[c].cur = a.cur /\ at'[c].need = a.need /\ at'[c].entry = a.entry
  BY <1>1 DEF Cached, CachedAgain, Records
<1>3. a.mode # "probe" /\ a.entry = Nothing
  BY <1>1, <1>2 DEF Local, Seeking, Using
<1>4. ranges[a.cur] # Nothing => forced[EpochOf(a.cur)] <= ranges[a.cur]
  BY <1>1 DEF FreshInv, FreshRanges
<1>5. FreshCaller(at'[c], entries', epochs', ranges')
  BY <1>1, <1>2, <1>3, <1>4 DEF FreshCaller, Seeking
<1>. QED  BY <1>1, <1>2, <1>5, CachedKept, FreshMoves

LEMMA ReadCellFresh == ASSUME FreshInv, NEW c \in Callers, Callers = {c}, ReadCell(c) PROVE FreshInv'
<1> DEFINE a == at[c]
<1>1. /\ a \in Records /\ at \in [Callers -> Records] /\ FreshCaller(a, entries, epochs, ranges) /\ IndexInv
  BY FreshIs
<1>2. /\ a.step = "cell" /\ UNCHANGED <<remote, ranges, epochs, entries, forced>>
      /\ at'[c].step = "lookup" /\ at'[c].mode = a.mode
      /\ at'[c].cur = a.cur /\ at'[c].need = a.need /\ at'[c].entry = a.entry
  BY <1>1 DEF ReadCell, Go, Records
<1>5. FreshCaller(at'[c], entries', epochs', ranges')
  BY <1>1, <1>2 DEF FreshCaller, Seeking, Using
<1>. QED  BY <1>1, <1>2, <1>5, ReadCellKept, FreshMoves

LEMMA AnsweredFresh ==
  ASSUME FreshInv, NEW c \in Callers, Callers = {c}, Answered(c) \/ Read(c)
  PROVE  FreshInv'
<1>1. IndexInv /\ at \in [Callers -> Records] /\ Local(at[c], remote, entries)
  BY FreshIs
<1>2. UNCHANGED <<remote, ranges, epochs, entries, forced>>
  BY DEF Answered, Read
<1>3. \/ at'[c] = Idle
      \/ at[c].step = "found" /\ at'[c].step = "drop" /\ at'[c].entry = at[c].entry
  BY <1>1 DEF Answered, Read, Records
<1>4. FreshCaller(at'[c], entries', epochs', ranges')
  <2>1. CASE at'[c] = Idle
    BY <2>1, IdleFresh
  <2>2. CASE at[c].step = "found" /\ at'[c].step = "drop" /\ at'[c].entry = at[c].entry
    BY <1>1, <2>2 DEF FreshCaller, Local, Seeking, Using
  <2>. QED  BY <1>3, <2>1, <2>2
<1>. QED  BY <1>1, <1>2, <1>4, AnsweredKept, ReadKept, FreshMoves

LEMMA RetryFresh == ASSUME FreshInv, NEW c \in Callers, Callers = {c}, Retry(c) PROVE FreshInv'
<1>1. LookUp(c, at[c].want, "seek") /\ UNCHANGED <<remote, ranges, epochs, entries, forced>> /\ at[c].want \in Slots
  BY FreshIs DEF Retry, Records
<1>. QED  BY <1>1, LookUpFresh, RetryKept, FreshMoves DEF FreshInv

LEMMA LookupRangeFresh == ASSUME FreshInv, NEW c \in Callers, Callers = {c}, LookupRange(c) PROVE FreshInv'
<1> DEFINE a == at[c]
<1>1. /\ a \in Records /\ at \in [Callers -> Records] /\ FreshCaller(a, entries, epochs, ranges) /\ IndexInv
      /\ Local(a, remote, entries) /\ IndexAssumption /\ Nothing \notin EntryIds
  BY FreshIs DEF IndexInv
<1>2. a.step = "lookup" /\ a.mode # "probe" /\ UNCHANGED <<remote, ranges, epochs, entries, forced>>
  BY DEF LookupRange
<1>3. FreshCaller(at'[c], entries', epochs', ranges')
  <2>1. CASE Where(a.cur, Index(c)) = "absent"
    <3>1. Beyond(c)
      BY <2>1 DEF LookupRange
    <3>2. EpochOf(a.cur) = EpochOf(a.want)
      BY <1>1, <1>2 DEF Local, Sought, Using
    <3>3. /\ a.cur \in Nat /\ a.want \in Nat /\ EpochOf(a.want) \in Epochs
          /\ FirstOf(EpochOf(a.want)) \in Nat /\ LastOf(EpochOf(a.want)) \in Nat
          /\ FirstOf(EpochOf(a.want)) <= a.cur /\ a.cur <= LastOf(EpochOf(a.want))
          /\ FirstOf(EpochOf(a.want)) <= a.want /\ a.want <= LastOf(EpochOf(a.want))
      BY <1>1, <3>2, SlotHolds DEF Records
    <3>4. \A s \in Nat : FirstOf(EpochOf(a.want)) <= s /\ s <= LastOf(EpochOf(a.want)) => s \in Slots
      BY <1>1, <3>3, SlotsAre
    <3>5. \/ Failed(c)
          \/ \E s \in Slots, mode \in {"seek", "tail"} : LookUp(c, s, mode)
      <4>1. CASE a.mode = "seek" /\ a.cur < LastOf(EpochOf(a.cur))
        BY <3>1, <3>2, <3>3, <3>4, <4>1 DEF Beyond, Here
      <4>2. CASE a.mode = "seek" /\ a.cur = LastOf(EpochOf(a.cur)) /\ a.want > FirstOf(EpochOf(a.cur))
        BY <3>1, <3>2, <3>3, <3>4, <4>2 DEF Beyond, Here
      <4>3. CASE a.mode = "tail" /\ a.cur > FirstOf(EpochOf(a.cur))
        BY <3>1, <3>2, <3>3, <3>4, <4>3 DEF Beyond, Here
      <4>4. CASE /\ ~(a.mode = "seek" /\ a.cur < LastOf(EpochOf(a.cur)))
                 /\ ~(a.mode = "seek" /\ a.cur = LastOf(EpochOf(a.cur)) /\ a.want > FirstOf(EpochOf(a.cur)))
                 /\ ~(a.mode = "tail" /\ a.cur > FirstOf(EpochOf(a.cur)))
        BY <3>1, <4>4 DEF Beyond, Here
      <4>. QED  BY <4>1, <4>2, <4>3, <4>4
    <3>. QED  BY <3>5, LookUpFresh, FailedFresh
  <2>2. CASE Where(a.cur, Index(c)) # "absent"
    <3>1. /\ at'[c].step = "insert" /\ at'[c].got = Index(c) /\ at'[c].entry = Nothing
          /\ at'[c].cur = a.cur /\ at'[c].need = a.need
      BY <1>1, <2>2 DEF LookupRange, Records
    <3>2. a.entry # Nothing /\ entries[a.entry].version # Nothing
      BY <1>1, <1>2 DEF Local, Using
    <3>3. a.need <= forced[EpochOf(a.cur)] /\ forced[EpochOf(a.cur)] <= Index(c)
      BY <1>1, <1>2, <3>2 DEF FreshCaller, Using, Index
    <3>. QED  BY <3>1, <3>3 DEF FreshCaller
  <2>. QED  BY <2>1, <2>2
<1>. QED  BY <1>1, <1>2, <1>3, LookupRangeKept, FreshMoves

\* What is cached is as new as what was read.
LEMMA InsertFresh == ASSUME FreshInv, NEW c \in Callers, Callers = {c}, Insert(c) PROVE FreshInv'
<1> DEFINE a == at[c]
<1>1. /\ a \in Records /\ at \in [Callers -> Records] /\ FreshCaller(a, entries, epochs, ranges) /\ IndexInv
      /\ Local(a, remote, entries) /\ a.cur \in Slots
  BY FreshIs
<1>2. /\ a.step \in {"insert", "outer"} /\ UNCHANGED <<remote, epochs, entries, forced>>
      /\ ranges' = [ranges EXCEPT ![a.cur] = a.got]
      /\ at'[c].step \in {"outer", "found"} /\ at'[c].mode = a.mode /\ at'[c].got = a.got
      /\ at'[c].cur = a.cur /\ at'[c].need = a.need /\ at'[c].entry = a.entry
  BY <1>1 DEF Insert, Go, Records
<1>3. a.mode # "probe" /\ a.entry = Nothing /\ forced[EpochOf(a.cur)] <= a.got /\ a.need <= forced[EpochOf(a.cur)]
  BY <1>1, <1>2 DEF Local, Seeking, Using, FreshCaller
<1>4. \A s \in Slots : ranges'[s] = ranges[s] \/ forced[EpochOf(s)] <= ranges'[s]
  BY <1>2, <1>3 DEF FreshInv, IndexInv
<1>5. FreshCaller(at'[c], entries', epochs', ranges')
  BY <1>2, <1>3 DEF FreshCaller
<1>6. FreshEntries'
  BY <1>2 DEF FreshInv, FreshEntries
<1>. QED  BY <1>1, <1>2, <1>4, <1>5, <1>6, InsertKept, FreshKept

\* After the entry is gone the ranges of the epoch go, the first one first.
LEMMA DropFresh == ASSUME FreshInv, NEW c \in Callers, Callers = {c}, Drop(c) PROVE FreshInv'
<1> DEFINE a == at[c]
           e == EpochOf(a.want)
<1>1. /\ a \in Records /\ at \in [Callers -> Records] /\ IndexInv /\ Local(a, remote, entries)
      /\ e \in Epochs /\ IndexAssumption
  BY FreshIs DEF IndexInv
<1>2. /\ a.step = "drop" /\ UNCHANGED <<remote, ranges, entries, forced>>
      /\ epochs' = [epochs EXCEPT ![e] = Nothing]
      /\ at'[c].step = "sweep" /\ at'[c].cur = FirstOf(e) /\ at'[c].entry = a.entry
  BY <1>1 DEF Drop, Records
<1>3. a.entry = Nothing
  BY <1>1, <1>2 DEF Local, Using
<1>4. EpochOf(FirstOf(e)) = e /\ FirstOf(e) \in Nat
  <2>1. e \in Nat /\ FirstOf(e) \in Nat /\ LastOf(e) \in Nat /\ FirstOf(e) <= LastOf(e)
    BY <1>1, SlotsAre, EpochNext
  <2>. QED  BY <1>1, <2>1, SlotsAre
<1>5. epochs'[e] = Nothing /\ \A f \in Epochs : epochs'[f] = epochs[f] \/ epochs'[f] = Nothing
  BY <1>1, <1>2 DEF IndexInv
<1>6. FreshCaller(at'[c], entries', epochs', ranges')
  <2>1. \A s \in FirstOf(e) .. (FirstOf(e) - 1) : FALSE
    BY <1>4
  <2>. QED  BY <1>2, <1>3, <1>4, <1>5, <2>1 DEF FreshCaller, Seeking, Using
<1>. QED  BY <1>1, <1>2, <1>5, <1>6, DropKept, FreshMoves

\* When the last range is gone, everything that is older is.
LEMMA SweepFresh == ASSUME FreshInv, NEW c \in Callers, Callers = {c}, Sweep(c) PROVE FreshInv'
<1> DEFINE a == at[c]
           e == EpochOf(a.cur)
<1>1. /\ a \in Records /\ at \in [Callers -> Records] /\ FreshCaller(a, entries, epochs, ranges) /\ IndexInv
      /\ Local(a, remote, entries) /\ a.cur \in Slots /\ e \in Epochs /\ IndexAssumption
      /\ forced \in [Epochs -> Nat] /\ ranges \in [Slots -> Nat] /\ remote[e] \in Nat
  BY FreshIs DEF IndexInv
<1>2. /\ a.step = "sweep" /\ UNCHANGED <<remote, epochs, entries>> /\ ranges' = [ranges EXCEPT ![a.cur] = Nothing]
  BY DEF Sweep
<1>3. a.entry = Nothing /\ epochs[e] = Nothing /\ \A s \in FirstOf(e) .. (a.cur - 1) : ranges[s] = Nothing
  BY <1>1, <1>2 DEF Local, Using, FreshCaller
<1>4. /\ a.cur \in Nat /\ e \in Nat /\ LastOf(e) \in Nat /\ FirstOf(e) \in Nat /\ FirstOf(e) <= a.cur
      /\ a.cur <= LastOf(e)
  BY <1>1, SlotHolds
<1>5. IndexInv'
  BY <1>1, SweepKept
<1>6. CASE a.cur < LastOf(e)
  <2> DEFINE z == a.cur + 1
  <2>1. /\ at'[c].step = "sweep" /\ at'[c].cur = z /\ at'[c].entry = Nothing /\ forced' = forced
    BY <1>1, <1>2, <1>3, <1>6 DEF Sweep, Here, Records
  <2>2. EpochOf(z) = e
    <3>1. z \in Nat /\ FirstOf(e) <= z /\ z <= LastOf(e)
      BY <1>4, <1>6
    <3>. QED  BY <1>1, <3>1, SlotsAre
  <2>3. ASSUME NEW s \in FirstOf(e) .. (z - 1) PROVE ranges'[s] = Nothing
    <3>1. s \in FirstOf(e) .. (a.cur - 1) \/ s = a.cur
      BY <1>4, <2>3
    <3>2. s \in Slots
      <4>1. s \in Nat /\ s <= a.cur
        BY <1>4, <2>3
      <4>. QED  BY <1>1, <4>1, SlotsAre
    <3>. QED  BY <1>1, <1>2, <1>3, <3>1, <3>2
  <2> HIDE DEF z
  <2>4. FreshCaller(at'[c], entries', epochs', ranges')
    BY <1>2, <1>3, <2>1, <2>2, <2>3 DEF FreshCaller, Seeking, Using
  <2>5. FreshEntries'
    BY <1>2, <2>1 DEF FreshInv, FreshEntries
  <2>6. \A s \in Slots : ranges'[s] = ranges[s] \/ ranges'[s] = Nothing
    BY <1>1, <1>2
  <2>. QED  BY <1>2, <1>5, <2>1, <2>4, <2>5, <2>6, FreshKept
<1>7. CASE ~(a.cur < LastOf(e))
  <2>1. /\ at'[c].step = "retry" /\ at'[c].entry = Nothing
        /\ forced' = [forced EXCEPT ![e] = remote[e]]
    BY <1>1, <1>2, <1>3, <1>7 DEF Sweep, Here, Go, Records
  <2>2. (\A f \in Epochs : forced[f] <= remote[f])'
    BY <1>1, <1>2, <2>1 DEF FreshInv
  <2>3. FreshRanges'
    <3> SUFFICES ASSUME NEW s \in Slots, ranges'[s] # Nothing PROVE forced'[EpochOf(s)] <= ranges'[s]
      BY DEF FreshRanges
    <3>1. s # a.cur /\ ranges'[s] = ranges[s]
      BY <1>1, <1>2
    <3>2. EpochOf(s) # e
      <4> SUFFICES ASSUME EpochOf(s) = e PROVE FALSE
        OBVIOUS
      <4>1. s \in Nat /\ FirstOf(e) <= s /\ s <= LastOf(e)
        BY <1>1, SlotHolds
      <4>2. s \in FirstOf(e) .. (a.cur - 1)
        BY <1>4, <1>7, <3>1, <4>1
      <4>. QED  BY <1>3, <3>1, <4>2
    <3>3. EpochOf(s) \in Epochs
      BY <1>1, SlotsAre
    <3>. QED  BY <1>1, <2>1, <3>1, <3>2, <3>3 DEF FreshInv, FreshRanges
  <2>4. FreshEntries'
    BY <1>1, <1>2, <1>3, <2>1 DEF FreshInv, FreshEntries
  <2>5. \A d \in Callers : FreshCaller(at[d], entries, epochs, ranges)'
    BY <2>1 DEF FreshCaller, Seeking, Using
  <2>. QED  BY <1>5, <2>2, <2>3, <2>4, <2>5 DEF FreshInv
<1>. QED  BY <1>6, <1>7

LEMMA FillCellFresh == ASSUME FreshInv, NEW c \in Callers, Callers = {c}, FillCell(c) PROVE FreshInv'
<1> DEFINE a == at[c]
<1>1. /\ a \in Records /\ at \in [Callers -> Records] /\ FreshCaller(a, entries, epochs, ranges) /\ IndexInv
  BY FreshIs
<1>2. /\ a.step = "cell" /\ UNCHANGED <<remote, ranges, epochs, forced>>
      /\ entries' = [entries EXCEPT ![a.entry].loader = c]
      /\ at'[c].step = "ranges" /\ at'[c].mode = a.mode
      /\ at'[c].cur = a.cur /\ at'[c].need = a.need /\ at'[c].entry = a.entry
  BY <1>1 DEF FillCell, Go, Records
<1>3. \A i \in EntryIds : entries'[i].version = entries[i].version
  BY <1>1, <1>2 DEF IndexInv, Cells
<1>4. a.entry \in EntryIds \cup {Nothing}
  BY <1>1 DEF Records
<1>5. FreshCaller(at'[c], entries', epochs', ranges')
  BY <1>1, <1>2, <1>3, <1>4 DEF FreshCaller, Seeking, Using
<1>. QED  BY <1>1, <1>2, <1>3, <1>5, FillCellKept, FreshMoves

\* What is loaded is as new as anything that was asked for.
LEMMA LoadedFresh ==
  ASSUME FreshInv, NEW c \in Callers, Callers = {c}, at[c].step \in {"ranges", "legacy"}, Loaded(c),
         UNCHANGED <<remote, ranges, epochs, forced>>
  PROVE  FreshInv'
<1> DEFINE a == at[c]
           e == EpochOf(at[c].cur)
<1>1. /\ a \in Records /\ at \in [Callers -> Records] /\ FreshCaller(a, entries, epochs, ranges) /\ IndexInv
      /\ Local(a, remote, entries) /\ e \in Epochs /\ entries \in [EntryIds -> Cells]
  BY FreshIs DEF IndexInv
<1>2. /\ entries' = [entries EXCEPT ![a.entry] = [version |-> remote[e], loader |-> Nothing]]
      /\ at'[c].step = "lookup" /\ at'[c].mode = a.mode
      /\ at'[c].cur = a.cur /\ at'[c].need = a.need /\ at'[c].entry = a.entry
  BY <1>1 DEF Loaded, Go, Here, Records
<1>3. a.entry \in EntryIds
  BY <1>1 DEF Local, Using, Records
<1>4. forced[e] <= remote[e]
  BY <1>1 DEF FreshInv
<1>5. FreshCaller(at'[c], entries', epochs', ranges')
  <2>1. entries'[a.entry].version = remote[e]
    BY <1>1, <1>2, <1>3
  <2>. QED  BY <1>1, <1>2, <1>4, <2>1 DEF FreshCaller, Seeking, Using
<1>6. FreshEntries'
  <2> SUFFICES ASSUME NEW f \in Epochs, epochs[f] # Nothing, entries'[epochs[f]].version # Nothing
               PROVE  forced[f] <= entries'[epochs[f]].version
    BY DEF FreshEntries
  <2>1. epochs[f] \in EntryIds
    BY <1>1 DEF IndexInv
  <2>2. CASE epochs[f] = a.entry
    <3>1. PICK g \in Epochs : Uses(a.entry, g)
      BY <1>1, <1>3 DEF IndexInv
    <3>2. f = e
      BY <2>2, <3>1 DEF Uses
    <3>. QED  BY <1>1, <1>2, <1>3, <1>4, <2>2, <3>2
  <2>3. CASE epochs[f] # a.entry
    BY <1>1, <1>2, <2>1, <2>3 DEF FreshInv, FreshEntries
  <2>. QED  BY <2>2, <2>3
<1>. QED  BY <1>1, <1>5, <1>6, LoadedKept, FreshKept

LEMMA FailedKeepsFresh ==
  ASSUME FreshInv, NEW c \in Callers, Callers = {c}, Failed(c), Abandon(c),
         UNCHANGED <<remote, ranges, epochs, forced>>
  PROVE  FreshInv'
<1>1. FreshCaller(at'[c], entries', epochs', ranges')
  BY FailedFresh
<1>. QED  BY <1>1, Abandoned, FailedKept, FreshMoves DEF FreshInv

LEMMA LoadFresh ==
  ASSUME FreshInv, NEW c \in Callers, Callers = {c}, LoadRanges(c) \/ LoadLegacy(c)
  PROVE  FreshInv'
<1>1. at[c].step \in {"ranges", "legacy"} /\ UNCHANGED <<remote, ranges, epochs, forced>>
  BY DEF LoadRanges, LoadLegacy
<1>2. \/ Loaded(c)
      \/ Failed(c) /\ Abandon(c)
      \/ at[c].step = "ranges" /\ Go(c, "legacy") /\ UNCHANGED entries
  <2>1. CASE LoadRanges(c)
    BY <2>1, Zenon DEF LoadRanges
  <2>2. CASE LoadLegacy(c)
    BY <2>2, Zenon DEF LoadLegacy
  <2>. QED  BY <2>1, <2>2
<1>3. CASE at[c].step = "ranges" /\ Go(c, "legacy") /\ UNCHANGED entries
  <2>1. at \in [Callers -> Records] /\ at[c] \in Records /\ FreshCaller(at[c], entries, epochs, ranges) /\ IndexInv
    BY FreshIs
  <2>2. /\ at'[c].step = "legacy" /\ at'[c].mode = at[c].mode
        /\ at'[c].cur = at[c].cur /\ at'[c].need = at[c].need /\ at'[c].entry = at[c].entry
    BY <1>3, <2>1 DEF Go, Records
  <2>3. FreshCaller(at'[c], entries', epochs', ranges')
    BY <1>1, <1>3, <2>1, <2>2 DEF FreshCaller, Seeking, Using
  <2>. QED  BY <1>1, <1>3, <2>1, <2>3, LoadKept, FreshMoves
<1>. QED  BY <1>1, <1>2, <1>3, LoadedFresh, FailedKeepsFresh

LEMMA NetworkErrorFresh == ASSUME FreshInv, NEW c \in Callers, Callers = {c}, NetworkError(c) PROVE FreshInv'
  BY FailedKeepsFresh DEF NetworkError

LEMMA TimeOutFresh == ASSUME FreshInv, NEW c \in Callers, Callers = {c}, TimeOut(c) PROVE FreshInv'
<1>1. LookUp(c, at[c].want, "seek") /\ Abandon(c) /\ UNCHANGED <<remote, ranges, epochs, forced>>
      /\ at[c].want \in Slots /\ IndexInv
  BY FreshIs DEF TimeOut, Records
<1>2. FreshCaller(at'[c], entries', epochs', ranges')
  BY <1>1, LookUpFresh
<1>. QED  BY <1>1, <1>2, Abandoned, TimeOutKept, FreshMoves

LEMMA ScanEpochFresh == ASSUME FreshInv, NEW c \in Callers, Callers = {c}, ScanEpoch(c) PROVE FreshInv'
<1>1. at \in [Callers -> Records] /\ at[c] \in Records /\ IndexInv
  BY FreshIs
<1>2. at[c].mode = "probe" /\ UNCHANGED <<remote, ranges, epochs, entries, forced>>
  BY DEF ScanEpoch
<1>3. at'[c].entry = Nothing /\ at'[c].mode = "probe" /\ at'[c].step \in {"answer", "entry"}
  <2> DEFINE Answer(n) == [at EXCEPT ![c].step = "answer", ![c].got = n, ![c].entry = Nothing]
             more == [at EXCEPT ![c].step = "entry", ![c].cur = LastOf(Here(c)) + 1, ![c].entry = Nothing]
  <2>1. (\E n : at' = Answer(n)) \/ at' = more
    BY DEF ScanEpoch
  <2>2. ASSUME NEW n, at' = Answer(n) PROVE <1>3!:
    BY <1>1, <1>2, <2>2 DEF Records
  <2>3. CASE at' = more
    BY <1>1, <1>2, <2>3 DEF Records
  <2>. QED  BY <2>1, <2>2, <2>3
<1>4. FreshCaller(at'[c], entries', epochs', ranges')
  BY <1>3 DEF FreshCaller
<1>. QED  BY <1>1, <1>2, <1>4, ScanEpochKept, FreshMoves

\* A fresh entry is empty; the one of the map is as new as was asked for.
LEMMA TakeEntryFresh == ASSUME FreshInv, NEW c \in Callers, Callers = {c}, TakeEntry(c) PROVE FreshInv'
<1> DEFINE a == at[c]
           e == EpochOf(at[c].cur)
           id == IF epochs[EpochOf(at[c].cur)] # Nothing THEN epochs[EpochOf(at[c].cur)]
                 ELSE Min(EntryIds \ Held)
<1>1. /\ at \in [Callers -> Records] /\ a \in Records /\ Local(a, remote, entries) /\ IndexInv
      /\ FreshCaller(a, entries, epochs, ranges) /\ e \in Epochs /\ Nothing \notin EntryIds
      /\ epochs \in [Epochs -> EntryIds \cup {Nothing}] /\ entries \in [EntryIds -> Cells]
  BY FreshIs DEF IndexInv
<1>2. /\ a.step = "entry" /\ UNCHANGED <<remote, ranges, forced>>
      /\ epochs' = [epochs EXCEPT ![e] = id]
      /\ entries' = IF id = epochs[e] THEN entries ELSE [entries EXCEPT ![id] = Free]
      /\ at'[c].step = "cell" /\ at'[c].mode = a.mode /\ at'[c].entry = id
      /\ at'[c].cur = a.cur /\ at'[c].need = a.need
  BY <1>1 DEF TakeEntry, Here, Records
<1>3. a.entry = Nothing
  BY <1>1, <1>2 DEF Local, Using
<1>4. id \in EntryIds /\ (id = epochs[e] \/ (epochs[e] = Nothing /\ id \notin Held))
  <2>1. CASE epochs[e] # Nothing
    BY <1>1, <2>1
  <2>2. CASE epochs[e] = Nothing
    BY <1>1, <1>3, <2>2, EntryFree
  <2>. QED  BY <2>1, <2>2
<1> HIDE DEF id
<1>5. CASE id = epochs[e]
  <2>1. epochs' = epochs /\ entries' = entries /\ id # Nothing
    BY <1>1, <1>2, <1>4, <1>5
  <2>2. FreshEntries'
    BY <1>2, <2>1 DEF FreshInv, FreshEntries
  <2>3. entries[id].version # Nothing => forced[e] <= entries[id].version
    BY <1>1, <1>5, <2>1 DEF FreshInv, FreshEntries
  <2>4. FreshCaller(at'[c], entries', epochs', ranges')
    BY <1>1, <1>2, <2>1, <2>3 DEF FreshCaller, Seeking, Using
  <2>. QED  BY <1>1, <1>2, <2>2, <2>4, TakeEntryKept, FreshKept
<1>6. CASE id # epochs[e]
  <2>1. entries' = [entries EXCEPT ![id] = Free] /\ entries'[id].version = Nothing /\ id \notin Held
    BY <1>1, <1>2, <1>4, <1>6 DEF Free
  <2>2. FreshEntries'
    <3> SUFFICES ASSUME NEW f \in Epochs, epochs'[f] # Nothing, entries'[epochs'[f]].version # Nothing
                 PROVE  forced[f] <= entries'[epochs'[f]].version
      BY <1>2 DEF FreshEntries
    <3>1. f # e /\ epochs'[f] = epochs[f] /\ epochs[f] \in EntryIds
      BY <1>1, <1>2, <2>1
    <3>2. entries'[epochs[f]] = entries[epochs[f]]
      BY <1>1, <2>1, <3>1 DEF Held
    <3>. QED  BY <3>1, <3>2 DEF FreshInv, FreshEntries
  <2>3. FreshCaller(at'[c], entries', epochs', ranges')
    BY <1>1, <1>2, <2>1 DEF FreshCaller, Seeking, Using
  <2>. QED  BY <1>1, <1>2, <2>2, <2>3, TakeEntryKept, FreshKept
<1>. QED  BY <1>5, <1>6

LEMMA PublishFresh == ASSUME FreshInv, NEW e \in Epochs, Publish(e) PROVE FreshInv'
<1>1. remote' = [remote EXCEPT ![e] = @ + 1] /\ UNCHANGED <<ranges, epochs, entries, at, forced>>
  BY DEF Publish
<1>2. (\A f \in Epochs : forced[f] <= remote[f])'
  BY <1>1 DEF FreshInv, IndexInv
<1>3. FreshRanges' /\ FreshEntries' /\ \A d \in Callers : FreshCaller(at[d], entries, epochs, ranges)'
  BY <1>1 DEF FreshInv, FreshRanges, FreshEntries, FreshCaller
<1>. QED  BY <1>2, <1>3, PublishKept DEF FreshInv

LEMMA FreshStays == ASSUME FreshInv, UNCHANGED vars PROVE FreshInv'
<1>1. UNCHANGED <<remote, ranges, epochs, entries, at, forced>>
  BY DEF vars
<1>2. FreshRanges' /\ FreshEntries' /\ \A d \in Callers : FreshCaller(at[d], entries, epochs, ranges)'
  BY <1>1 DEF FreshInv, FreshRanges, FreshEntries, FreshCaller
<1>3. (\A f \in Epochs : forced[f] <= remote[f])'
  BY <1>1 DEF FreshInv
<1>. QED  BY <1>2, <1>3, IndexStays DEF FreshInv

LEMMA FreshInit == ASSUME IndexAssumption, Init PROVE FreshInv
<1>1. FreshRanges /\ FreshEntries
  BY DEF Init, FreshRanges, FreshEntries
<1>2. \A c \in Callers : FreshCaller(at[c], entries, epochs, ranges)
  BY IdleFresh DEF Init
<1>3. \A e \in Epochs : forced[e] <= remote[e]
  BY DEF Init, Nothing
<1>. QED  BY <1>1, <1>2, <1>3, IndexInit DEF FreshInv

LEMMA FreshNext == ASSUME FreshInv, NEW c \in Callers, Callers = {c}, [Next]_vars PROVE FreshInv'
<1>1. CASE UNCHANGED vars
  BY <1>1, FreshStays
<1>2. CASE Rest
  BY <1>2, FreshStays DEF Rest
<1>3. ASSUME NEW e \in Epochs, Publish(e) PROVE FreshInv'
  BY <1>3, PublishFresh
<1>4. ASSUME Call(c) PROVE FreshInv'
  BY <1>4, SeekFresh, ProbeFresh DEF Call
<1>5. ASSUME NetworkError(c) \/ TimeOut(c) PROVE FreshInv'
  BY <1>5, NetworkErrorFresh, TimeOutFresh
<1>6. ASSUME Step(c) PROVE FreshInv'
  BY <1>6, CachedFresh, TakeEntryFresh, ReadCellFresh, FillCellFresh, LoadFresh, LookupRangeFresh, InsertFresh,
     AnsweredFresh, DropFresh, SweepFresh, RetryFresh, ScanEpochFresh DEF Step
<1>7. \A d \in Callers : d = c
  OBVIOUS
<1>. QED  BY <1>1, <1>2, <1>3, <1>4, <1>5, <1>6, <1>7, Zenon DEF Next

\* For a thread that has the index to itself: once it has invalidated an epoch, what a seek
\* that begins afterwards finds is no older than the files were then (invalidate_epoch).
\* A second thread that holds the older index can cache its range behind the invalidation.
THEOREM InvalidationIsFresh ==
  ASSUME NEW c \in Callers, Callers = {c}
  PROVE  IndexAssumption /\ Spec => []FreshAfterInvalidate
<1>1. IndexAssumption /\ Init => FreshInv
  BY FreshInit
<1>2. FreshInv /\ [Next]_vars => FreshInv'
  BY FreshNext
<1>3. ASSUME FreshInv PROVE FreshAfterInvalidate
  <2> SUFFICES ASSUME NEW d \in Callers, at[d].step = "found" PROVE at[d].got >= at[d].need
    BY DEF FreshAfterInvalidate
  <2>1. FreshCaller(at[d], entries, epochs, ranges) /\ Local(at[d], remote, entries) /\ at[d] \in Records
        /\ forced[EpochOf(at[d].cur)] \in Nat
    BY <1>3, FreshIs
  <2>2. at[d].need <= forced[EpochOf(at[d].cur)] /\ forced[EpochOf(at[d].cur)] <= at[d].got
    BY <2>1 DEF FreshCaller, Local, Seeking
  <2>3. at[d].need \in Nat /\ at[d].got \in Int
    BY <2>1 DEF Records
  <2>. QED  BY <2>1, <2>2, <2>3
<1>. QED  BY <1>1, <1>2, <1>3, PTL DEF Spec
=============================================================================
