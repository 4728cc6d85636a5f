--------------------------- MODULE InflateProofs ---------------------------
(***************************************************************************)
(* The decompression loop keeps to its limit for every limit, chunk size   *)
(* and stream, and returns all of a stream that fits.                      *)
(***************************************************************************)
EXTENDS Inflate, TLAPS

\* While the loop runs everything read is kept, and is within the stream and the limit.
IInv ==
    /\ TypeOK
    /\ total <= stream.cut /\ stream.cut <= stream.length
    /\ pc \in {"start", "misset"} => total = 0 /\ kept = 0
    /\ pc \in {"read", "done", "damaged"} => kept = total /\ total <= limit
    /\ pc = "done" => total = stream.cut
    /\ pc = "overlong" => kept <= limit /\ total = limit + 1

\* The initial states satisfy the invariant.
LEMMA InitIInv == Init => IInv
<1> SUFFICES ASSUME Init PROVE IInv
  OBVIOUS
<1>1. PICK length \in Lengths : \E cut \in 0..length, damaged \in BOOLEAN :
          stream = [length |-> length, cut |-> cut, damaged |-> damaged]
  BY DEF Init
<1>2. length \in Nat
  BY InflateAssumption
<1> QED
  BY <1>1, <1>2 DEF Init, IInv, TypeOK

\* A read asks for at least one byte and at most one more than remains.
LEMMA ReadSizeBounds == ASSUME IInv, pc = "read" PROVE ReadSize \in Nat \ {0} /\ ReadSize <= limit - total + 1
  BY InflateAssumption DEF IInv, TypeOK, ReadSize, Smaller, Larger

\* Each step keeps the invariant.
LEMMA NextIInv == ASSUME IInv, [Next]_vars PROVE IInv'
<1>1. CASE Start
  <2>1. pc' \in {"read", "misset"} /\ limit' \in Nat /\ (pc' = "read" => limit' > 0)
    BY <1>1, InflateAssumption DEF Start, IInv, TypeOK
  <2>2. total = 0 /\ kept = 0 /\ UNCHANGED <<stream, setting, total, kept>>
    BY <1>1 DEF Start, IInv
  <2>3. CASE pc' = "read"
    BY <2>1, <2>2, <2>3 DEF IInv, TypeOK
  <2>4. CASE pc' = "misset"
    BY <2>1, <2>2, <2>4 DEF IInv, TypeOK
  <2> QED
    BY <2>1, <2>3, <2>4
<1>2. CASE Read
  <2>1. PICK n \in 1..Smaller(ReadSize, stream.cut - total) : Take(n)
    BY <1>2 DEF Read
  <2>2. pc = "read" /\ UNCHANGED <<stream, setting, limit>>
    BY <1>2 DEF Read
  <2>3. n \in Nat /\ n <= limit - total + 1 /\ total + n <= stream.cut
    BY <2>1, <2>2, ReadSizeBounds DEF Smaller, IInv, TypeOK
  <2>4. total \in Nat /\ limit \in Nat /\ kept = total /\ kept <= limit /\ limit > 0
    BY <2>2 DEF IInv, TypeOK
  <2> QED
    BY <2>1, <2>2, <2>3, <2>4 DEF Take, IInv, TypeOK
<1>3. CASE End
  <2>1. total = stream.cut
    BY <1>3, ReadSizeBounds DEF End
  <2> QED
    BY <1>3, <2>1 DEF End, IInv, TypeOK
<1>4. CASE Damaged
  BY <1>4 DEF Damaged, IInv, TypeOK
<1>5. CASE UNCHANGED vars
  BY <1>5 DEF vars, IInv, TypeOK
<1> QED
  BY <1>1, <1>2, <1>3, <1>4, <1>5 DEF Next

\* The invariant holds in every state of the loop.
LEMMA IInvAlways == Spec => []IInv
  BY InitIInv, NextIInv, PTL DEF Spec

\* Bytes are only read under a limit that is one (compression.py,
\* max_decompressed_bytes and read_limited), whatever the setting.
THEOREM LimitIsOne == Spec => []TypeOK
<1>1. IInv => TypeOK
  BY DEF IInv
<1> QED
  BY <1>1, IInvAlways, PTL

\* The decompression loop (compression.py) never keeps more than the limit nor
\* reads past it by more than one byte.
THEOREM InflateIsBounded == Spec => []OutputIsBounded
<1>1. IInv => OutputIsBounded
  BY DEF IInv, TypeOK, OutputIsBounded
<1> QED
  BY <1>1, IInvAlways, PTL

\* The loop returns all it was given, and refuses for its length only what is
\* too long.
THEOREM InflateIsExact == Spec => []OutcomeIsExact
<1>1. IInv => OutcomeIsExact
  BY DEF IInv, TypeOK, OutcomeIsExact
<1> QED
  BY <1>1, IInvAlways, PTL
=============================================================================
