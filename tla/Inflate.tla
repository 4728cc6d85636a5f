------------------------------ MODULE Inflate ------------------------------
(***************************************************************************)
(* decompress_payload (compression.py): a zstd stream is read in chunks    *)
(* until it ends or has given more than the limit allows.  The library may *)
(* give less than it is asked for; a stream that was cut short ends like a *)
(* whole one, a damaged one raises.  Bytes are counted, not looked at.     *)
(***************************************************************************)
EXTENDS Integers

CONSTANTS
    Unset,      \* the environment variable is not set
    NoNumber,   \* it is set to something that is no number
    Settings,   \* its values in this run
    Lengths,    \* lengths of what was compressed
    Chunk,      \* the most that is read at once (1 MiB)
    Default     \* the limit without a setting (64 MiB)

ASSUME InflateAssumption ==
    /\ Settings \subseteq Int \cup {Unset, NoNumber} /\ Unset \notin Int /\ NoNumber \notin Int
    /\ Unset # NoNumber
    /\ Lengths \subseteq Nat /\ Chunk \in Nat \ {0} /\ Default \in Nat \ {0}

VARIABLES
    stream,     \* what the payload holds: its length, where it was cut, whether it is damaged there
    setting,    \* the environment variable
    pc,         \* "start", "read", "done" or why it failed
    limit,      \* max_output_size, once it is known
    total,      \* bytes read
    kept        \* bytes in the list of chunks

vars == <<stream, setting, pc, limit, total, kept>>

Init ==
    /\ \E length \in Lengths : \E cut \in 0..length, damaged \in BOOLEAN :
         stream = [length |-> length, cut |-> cut, damaged |-> damaged]
    /\ setting \in Settings
    /\ pc = "start" /\ limit = 0 /\ total = 0 /\ kept = 0

Smaller(a, b) == IF a < b THEN a ELSE b
Larger(a, b)  == IF a < b THEN b ELSE a

\* Mutant of Start: a limit of zero or less is let through.
StartUnchecked ==
    /\ pc = "start" /\ setting # NoNumber /\ pc' = "read"
    /\ limit' = IF setting = Unset THEN Default ELSE setting
    /\ UNCHANGED <<stream, setting, total, kept>>

\* _zstd_max_output_size.
Start ==
    /\ pc = "start"
    /\ \/ setting = Unset /\ pc' = "read" /\ limit' = Default
       \/ setting \in Nat \ {0} /\ pc' = "read" /\ limit' = setting
       \/ setting \notin (Nat \ {0}) \cup {Unset} /\ pc' = "misset" /\ UNCHANGED limit
    /\ UNCHANGED <<stream, setting, total, kept>>

\* Mutant of ReadSize: nothing is asked for when nothing remains.
ReadSizeRemaining == Smaller(Chunk, limit - total)

\* Mutant of ReadSize: the size of a read does not depend on what remains.
ReadSizeChunk == Chunk

\* One byte more than remains, to notice a stream that is too long.
ReadSize == Smaller(Chunk, Larger(limit - total + 1, 1))

\* Mutant of Take: a stream that just reaches the limit is refused.
TakeStrict(n) ==
    /\ total' = total + n
    /\ IF total + n >= limit THEN pc' = "overlong" /\ UNCHANGED kept
                             ELSE kept' = kept + n /\ UNCHANGED pc

Take(n) ==
    /\ total' = total + n
    /\ IF total + n > limit THEN pc' = "overlong" /\ UNCHANGED kept
                            ELSE kept' = kept + n /\ UNCHANGED pc

Read ==
    /\ pc = "read"
    /\ \E n \in 1..Smaller(ReadSize, stream.cut - total) : Take(n)
    /\ UNCHANGED <<stream, setting, limit>>

\* Mutant of End: an empty chunk is no reason to stop.
EndReadAgain == pc = "read" /\ total = stream.cut /\ UNCHANGED vars

\* An empty chunk: the stream has ended, or nothing was asked for.
End ==
    /\ pc = "read" /\ (ReadSize = 0 \/ (total = stream.cut /\ ~stream.damaged))
    /\ pc' = "done"
    /\ UNCHANGED <<stream, setting, limit, total, kept>>

Damaged ==
    /\ pc = "read" /\ ReadSize > 0 /\ total = stream.cut /\ stream.damaged
    /\ pc' = "damaged"
    /\ UNCHANGED <<stream, setting, limit, total, kept>>

Next == Start \/ Read \/ End \/ Damaged

Spec == Init /\ [][Next]_vars

\* Each call of the library returns, and the loop has no other way to wait.
FairSpec == Spec /\ WF_vars(Next)

-----------------------------------------------------------------------------
\* Properties.

\* The type invariant; bytes are read only under a limit that is one.
TypeOK ==
    /\ stream \in [length : Nat, cut : Nat, damaged : BOOLEAN] /\ setting \in Settings
    /\ pc \in {"start", "read", "done", "misset", "overlong", "damaged"}
    /\ limit \in Nat /\ total \in Nat /\ kept \in Nat
    /\ pc \notin {"start", "misset"} => limit > 0

\* However short the reads are, no more than the limit is kept, and no more than
\* one byte over it is ever decompressed.
OutputIsBounded == pc \notin {"start", "misset"} => kept <= limit /\ total <= limit + 1

\* What is returned is all the stream gave, the limit never cuts it short unseen,
\* and only a payload longer than the limit is refused for its length.
OutcomeIsExact ==
    /\ pc = "done" => total = stream.cut /\ kept = total
    /\ pc = "overlong" => stream.length > limit

\* The loop ends.
LoopEnds == <>(pc \notin {"start", "read"})
=============================================================================
