------------------------------ MODULE Fetcher -------------------------------
(***************************************************************************)
(* fetch_capsule and stream_fetch_capsule (fetcher.py) against a server    *)
(* that may answer wrongly, drop the connection or publish another body    *)
(* than the one whose digest the caller has, with the file the first saves *)
(* to and resumes from.  The caller tries again after a failure, and may   *)
(* later fetch another capsule to the same path, as a second ingest into   *)
(* the same directory does.                                                *)
(*                                                                         *)
(* Bytes come in chunks; a digest is the sequence of chunks it is of.      *)
(***************************************************************************)
EXTENDS Integers, Sequences, SequencesExt

CONSTANTS
    None,
    Bodies,         \* what the server may publish
    ErrorPage,      \* the body of an HTTP error reply
    MaxBytes,       \* max_download_bytes, in chunks
    BufferSize,     \* chunks the file object may hold back from the disk
    MaxFaults,      \* bound: how often each kind of fault may happen
    MaxHandoffs     \* bound on the capsules fetched to the one path

\* The chunks bytes are made of.
Pieces == UNION { Range(body) : body \in Bodies \cup {ErrorPage} }

\* An error reply, a connection lost, a process killed.
Kinds == {"error", "drop", "crash"}

ASSUME FetcherAssumption ==
    /\ \A body \in Bodies \cup {ErrorPage} : body \in Seq(Pieces)
    /\ None \notin Seq(Pieces)
    /\ MaxBytes \in Nat \ {0} /\ BufferSize \in Nat
    /\ MaxFaults \in [Kinds -> Nat] /\ MaxHandoffs \in Nat \ {0}

VARIABLES
    served,     \* what the server publishes
    ranges,     \* whether it announces and honours byte ranges
    want,       \* expected_sha256, or None
    mode,       \* fetch_capsule, with or without resumable, or stream_fetch_capsule
    pc,         \* where the call is
    file,       \* the file at save_path, None before there is one
    buffer,     \* written to the open file object, not yet on disk
    pending,    \* the rest of the response
    given,      \* what the iterator has handed out
    result,     \* what the last successful call returned
    faults, handoffs

vars == <<served, ranges, want, mode, pc, file, buffer, pending, given, result, faults, handoffs>>
server == <<served, ranges, want, mode, handoffs>>

Init ==
    /\ served \in Bodies /\ ranges \in BOOLEAN
    /\ want \in Bodies \cup {None} /\ mode \in {"plain", "resumable", "stream"}
    /\ pc = "idle" /\ file = None /\ buffer = <<>> /\ pending = <<>>
    /\ given = <<>> /\ result = None
    /\ faults = [kind \in Kinds |-> 0] /\ handoffs = 1

Fault(kind) == faults[kind] < MaxFaults[kind] /\ faults' = [faults EXCEPT ![kind] = @ + 1]

Fits(data)   == Len(data) <= MaxBytes
Wanted(data) == want \in {None, data}

\* The call goes on at place and touches nothing else.
Goto(place) == pc' = place /\ UNCHANGED <<file, buffer, pending, given, result>>

\* Mutant of Call: the existence of the file is not looked at.
CallResumesAlways ==
    /\ pc \in {"idle", "failed"}
    /\ pc' = (CASE mode = "stream" -> "open" [] mode = "resumable" -> "head" [] OTHER -> "get")
    /\ given' = <<>> /\ UNCHANGED <<file, buffer, pending, result>>
    /\ UNCHANGED server /\ UNCHANGED faults

\* The caller fetches, for the first time or after a failure.
Call ==
    /\ pc \in {"idle", "failed"}
    /\ pc' = (CASE mode = "stream" -> "open"
                [] mode = "resumable" /\ file # None -> "head"
                [] OTHER -> "get")
    /\ given' = <<>> /\ UNCHANGED <<file, buffer, pending, result>>
    /\ UNCHANGED server /\ UNCHANGED faults

-----------------------------------------------------------------------------
\* The plain download: size, then digest, then the file.

GetReplies ==
    /\ pc = "get"
    /\ IF Fits(served) /\ Wanted(served)
       THEN pc' = "save" /\ pending' = served /\ UNCHANGED <<file, buffer, given, result>>
       ELSE Goto("failed")
    /\ UNCHANGED server /\ UNCHANGED faults

\* raise_for_status, or a transport error.
GetFails ==
    /\ pc = "get" /\ (Fault("error") \/ Fault("drop"))
    /\ Goto("failed") /\ UNCHANGED server

\* Mutant of Save: a file that is there is kept.
SaveIfAbsent ==
    /\ pc = "save"
    /\ file' = (IF file = None THEN pending ELSE file)
    /\ result' = pending /\ pending' = <<>> /\ pc' = "returned"
    /\ UNCHANGED <<buffer, given>> /\ UNCHANGED server /\ UNCHANGED faults

Save ==
    /\ pc = "save"
    /\ file' = pending /\ result' = pending /\ pending' = <<>> /\ pc' = "returned"
    /\ UNCHANGED <<buffer, given>> /\ UNCHANGED server /\ UNCHANGED faults

-----------------------------------------------------------------------------
\* _fetch_resumable.

HeadReplies ==
    /\ pc = "head"
    /\ Goto(IF ranges THEN "stream" ELSE "full")
    /\ UNCHANGED server /\ UNCHANGED faults

\* Any other status than 200 is taken for a server without ranges.
HeadErrs ==
    /\ pc = "head" /\ Fault("error")
    /\ Goto("full") /\ UNCHANGED server

\* Mutants of StreamReplies: the whole body is appended; 416 is an error.
StreamRepliesFromStart ==
    /\ pc = "stream"
    /\ IF Len(file) < Len(served)
       THEN /\ pc' = "append" /\ pending' = served
            /\ UNCHANGED <<file, buffer, given, result>>
       ELSE Goto("check")
    /\ UNCHANGED server /\ UNCHANGED faults

StreamRepliesNoRestFails ==
    /\ pc = "stream"
    /\ IF Len(file) < Len(served)
       THEN /\ pc' = "append" /\ pending' = SubSeq(served, Len(file) + 1, Len(served))
            /\ UNCHANGED <<file, buffer, given, result>>
       ELSE Goto("failed")
    /\ UNCHANGED server /\ UNCHANGED faults

\* The range request from the size of the file on: 206 with the rest, or 416
\* when there is no rest.
StreamReplies ==
    /\ pc = "stream"
    /\ IF Len(file) < Len(served)
       THEN /\ pc' = "append" /\ pending' = SubSeq(served, Len(file) + 1, Len(served))
            /\ UNCHANGED <<file, buffer, given, result>>
       ELSE Goto("check")
    /\ UNCHANGED server /\ UNCHANGED faults

StreamErrs ==
    /\ pc = "stream" /\ Fault("error")
    /\ Goto("full") /\ UNCHANGED server

\* f.write(chunk): the file object hands over what it holds once it is full.  The
\* size is checked on what has reached the disk; leaving the block flushes.
AppendChunk ==
    /\ pc = "append" /\ pending # <<>>
    /\ LET held   == Append(buffer, Head(pending))
           onDisk == IF Len(held) > BufferSize THEN file \o held ELSE file
           rest   == IF Len(held) > BufferSize THEN <<>> ELSE held
       IN IF Fits(onDisk)
          THEN /\ file' = onDisk /\ buffer' = rest
               /\ pending' = Tail(pending) /\ UNCHANGED pc
          ELSE /\ file' = onDisk \o rest /\ buffer' = <<>>
               /\ pending' = <<>> /\ pc' = "failed"
    /\ UNCHANGED <<given, result>> /\ UNCHANGED server /\ UNCHANGED faults

AppendEnd ==
    /\ pc = "append" /\ pending = <<>>
    /\ file' = file \o buffer /\ buffer' = <<>> /\ pc' = "check"
    /\ UNCHANGED <<pending, given, result>> /\ UNCHANGED server /\ UNCHANGED faults

\* The fallback: the body of whatever reply, error pages included, replaces the file.
Store(body) ==
    IF Fits(body)
    THEN pending' = body /\ pc' = "replace" /\ UNCHANGED <<file, buffer, given, result>>
    ELSE Goto("failed")

FullReplies == pc = "full" /\ Store(served) /\ UNCHANGED server /\ UNCHANGED faults
FullErrs    == pc = "full" /\ Fault("error") /\ Store(ErrorPage) /\ UNCHANGED server

Replace ==
    /\ pc = "replace"
    /\ file' = pending /\ pending' = <<>> /\ pc' = "check"
    /\ UNCHANGED <<buffer, given, result>> /\ UNCHANGED server /\ UNCHANGED faults

\* The digest of the file as it now is; it stays there whatever the outcome.
Check ==
    /\ pc = "check"
    /\ IF Wanted(file)
       THEN pc' = "returned" /\ result' = file /\ UNCHANGED <<file, buffer, pending, given>>
       ELSE Goto("failed")
    /\ UNCHANGED server /\ UNCHANGED faults

-----------------------------------------------------------------------------
\* stream_fetch_capsule: each chunk is handed out before the digest is known.

OpenReplies ==
    /\ pc = "open" /\ pc' = "yield" /\ pending' = served
    /\ UNCHANGED <<file, buffer, given, result>> /\ UNCHANGED server /\ UNCHANGED faults

OpenFails ==
    /\ pc = "open" /\ (Fault("error") \/ Fault("drop"))
    /\ Goto("failed") /\ UNCHANGED server

\* Mutant of YieldChunk: the size is checked before the chunk is counted.
YieldChunkUncounted ==
    /\ pc = "yield" /\ pending # <<>>
    /\ IF Fits(given)
       THEN given' = Append(given, Head(pending)) /\ pending' = Tail(pending) /\ UNCHANGED pc
       ELSE pc' = "failed" /\ pending' = <<>> /\ UNCHANGED given
    /\ UNCHANGED <<file, buffer, result>> /\ UNCHANGED server /\ UNCHANGED faults

YieldChunk ==
    /\ pc = "yield" /\ pending # <<>>
    /\ IF Fits(Append(given, Head(pending)))
       THEN given' = Append(given, Head(pending)) /\ pending' = Tail(pending) /\ UNCHANGED pc
       ELSE pc' = "failed" /\ pending' = <<>> /\ UNCHANGED given
    /\ UNCHANGED <<file, buffer, result>> /\ UNCHANGED server /\ UNCHANGED faults

\* Mutant of YieldEnd: the digest of what was handed out is not compared.
YieldEndUnchecked ==
    /\ pc = "yield" /\ pending = <<>>
    /\ pc' = "returned" /\ result' = given
    /\ UNCHANGED <<file, buffer, pending, given>> /\ UNCHANGED server /\ UNCHANGED faults

\* The digest of all chunks; those of a body that was not wanted are out already.
YieldEnd ==
    /\ pc = "yield" /\ pending = <<>>
    /\ IF Wanted(given) THEN pc' = "returned" /\ result' = given ELSE pc' = "failed" /\ UNCHANGED result
    /\ UNCHANGED <<file, buffer, pending, given>> /\ UNCHANGED server /\ UNCHANGED faults

-----------------------------------------------------------------------------
\* Faults of the connection and the process, and the next capsule.

\* A dropped connection raises; closing the file flushes it.
Drop ==
    /\ pc \in {"head", "stream", "append", "full", "yield"} /\ Fault("drop")
    /\ pc' = "failed"
    /\ file' = IF pc = "append" THEN file \o buffer ELSE file
    /\ buffer' = <<>> /\ pending' = <<>>
    /\ UNCHANGED <<given, result>> /\ UNCHANGED server

\* A kill loses what is not on disk, and may cut a whole-file write short.
Kill ==
    /\ pc \notin {"idle", "failed", "returned"} /\ Fault("crash")
    /\ pc' = "idle" /\ buffer' = <<>> /\ pending' = <<>> /\ given' = <<>>
    /\ \/ UNCHANGED file
       \/ /\ pc \in {"save", "replace"}
          /\ \E n \in 0..Len(pending) : file' = SubSeq(pending, 1, n)
    /\ UNCHANGED result /\ UNCHANGED server

\* Another capsule is published and one is asked for, the same or not; the
\* descriptor of the one asked for may give a digest.
NewHandoff ==
    /\ pc = "returned" /\ handoffs < MaxHandoffs
    /\ served' \in Bodies /\ want' \in Bodies \cup {None}
    /\ handoffs' = handoffs + 1
    /\ Goto("idle")
    /\ UNCHANGED <<ranges, mode, faults>>

Rest == pc = "returned" /\ handoffs = MaxHandoffs /\ UNCHANGED vars

Resuming == \/ HeadReplies \/ StreamReplies \/ AppendChunk \/ AppendEnd
            \/ FullReplies \/ Replace \/ Check
Streaming == OpenReplies \/ YieldChunk \/ YieldEnd
Failing  == GetFails \/ OpenFails \/ HeadErrs \/ StreamErrs \/ FullErrs \/ Drop \/ Kill
Progress == Call \/ GetReplies \/ Save \/ Resuming \/ Streaming

Next == Progress \/ Failing \/ NewHandoff \/ Rest

Spec == Init /\ [][Next]_vars

\* Requests are answered or time out, and the caller keeps trying.
FairSpec == Spec /\ WF_vars(Progress)

-----------------------------------------------------------------------------
\* The type of every variable; a call that resumes has a file to resume from.
TypeOK ==
    /\ served \in Bodies /\ ranges \in BOOLEAN /\ want \in Bodies \cup {None}
    /\ mode \in {"plain", "resumable", "stream"}
    /\ pc \in {"idle", "get", "save", "head", "stream", "append", "full", "replace",
              "check", "open", "yield", "returned", "failed"}
    /\ file \in Seq(Pieces) \cup {None} /\ result \in Seq(Pieces) \cup {None}
    /\ buffer \in Seq(Pieces) /\ pending \in Seq(Pieces) /\ given \in Seq(Pieces)
    /\ pc \in {"head", "stream", "append", "full", "replace", "check"} => file # None
    /\ faults \in [Kinds -> Nat] /\ handoffs \in 1..MaxHandoffs

\* A call with a digest returns those bytes or raises, plain, resumed or streamed,
\* whatever the file held before and whichever body the server published: neither
\* another body nor bytes pieced together from two are returned.
ReturnedIsWanted == (pc = "returned" /\ want # None) => result = want

\* What a returned call leaves at save_path is what it returned.
FileIsResult == (pc = "returned" /\ mode # "stream") => file = result

\* No call returns more than max_download_bytes.
WithinLimit == pc = "returned" => Fits(result)

\* As long as the server publishes one body and answers no request with an error,
\* the file is the beginning of that body: appending goes on exactly where the
\* last attempt stopped.
ResumeKeepsPrefix ==
    (handoffs = 1 /\ faults["error"] = 0 /\ file # None) => IsPrefix(file \o buffer, served)

\* The chunks an iterator has handed out before the digest is known are the
\* beginning of what is published, while it goes on and however it ends (returned,
\* over the limit, dropped, or with the wrong digest), and never more than the
\* limit.  Between two calls only the limit is left to say of them.
StreamIsPrefix == mode = "stream" => Fits(given) /\ (pc # "idle" => IsPrefix(given, served))

\* A failed call is followed by one that returns, when the server publishes what
\* is wanted within the limit: the first capsule of its path, with no error reply.
RetrySucceeds ==
    (pc = "failed" /\ want = served /\ Fits(served) /\ handoffs = 1)
        ~> (pc = "returned" \/ faults["error"] > 0)

\* A failed call is followed by one that returns, whatever the server replied before.
EveryRetrySucceeds == (pc = "failed" /\ want = served /\ Fits(served)) ~> (pc = "returned")
=============================================================================
