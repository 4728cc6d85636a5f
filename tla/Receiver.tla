------------------------------ MODULE Receiver ------------------------------
(***************************************************************************)
(* ingest_messages (receiver.py) with the scanner it runs first: one run   *)
(* of the receiver over a list of messages, step by step.                  *)
(*                                                                         *)
(* The scan reads all messages joined; then, message by message, capsule   *)
(* blocks are extracted, verified and unpacked, and reference descriptors  *)
(* are checked, fetched, verified and unpacked.  Every verification reads  *)
(* the clock itself.  A run may be killed at any step, and another run     *)
(* may then be started over the same output directory.                     *)
(***************************************************************************)
EXTENDS Messages

CONSTANTS
    Jobs,       \* the calls a run may be started with: messages and options
    MaxRuns     \* bound on the runs over one output directory

Job == [msgs : Seq(Seq(Tokens)), opts : Options]

ASSUME ReceiverAssumption ==
    /\ MaxRuns \in Nat
    /\ \A j \in Jobs :
        /\ j \in Job /\ j.msgs # <<>>
        /\ \A k \in DOMAIN j.msgs : \A i \in DOMAIN j.msgs[k] : WellFormedToken(j.msgs[k][i])

VARIABLES
    now,        \* the clock
    runs,       \* runs started so far
    job,        \* the call being served
    pc,         \* where in ingest_messages the run is
    scan,       \* the scanner: offset, counts and trust verdicts seen
    m,          \* index of the message
    off,        \* search offset in its text
    blocks,     \* capsule blocks extracted from it
    next,       \* index in the message of the next block, or of the next reference
    task,       \* the capsule being unpacked
    malformed,  \* malformed_blocks
    inline,     \* inline_capsules
    refs,       \* references
    disk        \* files under the output directory; "by" is a ghost: the capsule each came from

vars == <<now, runs, job, pc, scan, m, off, blocks, next, task, malformed, inline, refs, disk>>

Opts == job.opts
Msg  == job.msgs[m]
Text == FlattenSeq(job.msgs)    \* the joined text the scanner reads

-----------------------------------------------------------------------------
\* Unpacking: why a write fails.

FilesIn(dir) == { f.path : f \in { g \in disk : g.dir = dir } }

WriteErrors(file, dir) ==
       Raises(~file.encoded, "OTHER")
    \o Raises(~file.metaOk, "UNPACK_FAILED")
    \o Raises(Unsafe(file.path), "UNPACK_FAILED")
    \o Raises(Blocked(FilesIn(dir) \ {Parts(file.path)}, Parts(file.path)), "OTHER")

\* _classify_ingest_exception names what it does not recognise by the context.
InlineReason(error) == IF error = "OTHER" THEN "UNKNOWN_ERROR" ELSE error
RefReason(error)    == IF error = "OTHER" THEN "UNPACK_FAILED" ELSE error

-----------------------------------------------------------------------------
IdleTask == [kind |-> "none", dir |-> <<"none", 0, 0>>, capsule |-> Garbled, entry |-> 1, files |-> <<>>]
StartScan == [off |-> 1, valid |-> 0, invalid |-> 0, trust |-> {}, encrypted |-> FALSE]

\* The state every run starts from, before the first marker is looked for.
StartOf(j) == IF j.opts.scan THEN "scan" ELSE "extract"

Init ==
    /\ now = 0 /\ runs = 1
    /\ job \in Jobs
    /\ pc = StartOf(job)
    /\ scan = StartScan
    /\ m = 1 /\ off = 1 /\ blocks = <<>> /\ next = 1 /\ task = IdleTask
    /\ malformed = 0 /\ inline = <<>> /\ refs = <<>>
    /\ disk = {}

-----------------------------------------------------------------------------
\* The scanner's loop (scanner.py).  A step is one begin marker.

ScanKey == IF Opts.encKey = Bad THEN None ELSE Opts.encKey

\* Checks before the encryption test; the trust check is for Ed25519 only.
ScanHeaderErrors(c) ==
       ParseErrors(c) \o MetadataErrors(c, Opts.policy)
    \o (IF c.sig = "ed25519" THEN TrustErrors(c, Opts, now) ELSE <<>>)

ScanPayloadErrors(c) ==
    PayloadErrors(c, ScanKey) \o SizeErrors(c, Opts.policy) \o ManifestErrors(c)

\* The trust verdict is noted once the metadata passed.
ScanTrust(c) ==
    IF ParseErrors(c) \o MetadataErrors(c, Opts.policy) = <<>>
    THEN {SignatureTrust(c, Opts, now).status} ELSE {}

Scanned(c, to) ==
    LET sealed == ScanHeaderErrors(c) = <<>> /\ c.enc # None /\ ScanKey = None
        good   == ScanHeaderErrors(c) \o ScanPayloadErrors(c) = <<>>
    IN [ off       |-> to,
         valid     |-> scan.valid + (IF good THEN 1 ELSE 0),
         invalid   |-> scan.invalid + (IF good \/ sealed THEN 0 ELSE 1),
         trust     |-> scan.trust \cup ScanTrust(c),
         encrypted |-> scan.encrypted \/ sealed ]

unscanned == <<now, runs, job, m, off, blocks, next, task, malformed, inline, refs, disk>>

ScanBlock ==
    /\ pc = "scan" /\ Begins(Text, scan.off) # {}
    /\ LET b == First(Begins(Text, scan.off))
           e == First(Ends(Text, b))
       IN /\ Ends(Text, b) # {}
          /\ scan' = Scanned(BlockCapsule(Text, b, e), e + 1)
    /\ UNCHANGED pc /\ UNCHANGED unscanned

ScanMalformed ==
    /\ pc = "scan" /\ Begins(Text, scan.off) # {}
    /\ LET b == First(Begins(Text, scan.off))
       IN /\ Ends(Text, b) = {}
          /\ scan' = [scan EXCEPT !.off = b + 1, !.invalid = @ + 1]
    /\ UNCHANGED pc /\ UNCHANGED unscanned

ScanEnd ==
    /\ pc = "scan" /\ Begins(Text, scan.off) = {}
    /\ pc' = "extract"
    /\ UNCHANGED scan /\ UNCHANGED unscanned

\* _risk_level.  The trust reasons other than "revoked" do not contain the word
\* it looks for, so only that verdict counts.
RiskLevel ==
    IF \/ scan.invalid > 0
       \/ "revoked" \in scan.trust
       \/ \E i \in DOMAIN Text : Text[i].look = "invisible"
    THEN "high"
    ELSE IF scan.encrypted \/ \E i \in DOMAIN Text : Dense(Text[i]) THEN "medium"
    ELSE "low"

-----------------------------------------------------------------------------
\* _extract_inline_capsule_blocks: a step is one begin marker of the message.

ExtractBlock ==
    /\ pc = "extract" /\ Begins(Msg, off) # {}
    /\ LET b == First(Begins(Msg, off))
           e == First(Ends(Msg, b))
       IN /\ Ends(Msg, b) # {}
          /\ blocks' = Append(blocks, BlockCapsule(Msg, b, e))
          /\ off' = e + 1
    /\ UNCHANGED <<now, runs, job, pc, scan, m, next, task, malformed, inline, refs, disk>>

\* Mutant of ExtractMalformed: an unclosed marker ends the search.
ExtractMalformedGivesUp ==
    /\ pc = "extract" /\ Begins(Msg, off) # {}
    /\ Ends(Msg, First(Begins(Msg, off))) = {}
    /\ off' = Len(Msg) + 1
    /\ malformed' = malformed + 1
    /\ UNCHANGED <<now, runs, job, pc, scan, m, blocks, next, task, inline, refs, disk>>

ExtractMalformed ==
    /\ pc = "extract" /\ Begins(Msg, off) # {}
    /\ LET b == First(Begins(Msg, off))
       IN /\ Ends(Msg, b) = {}
          /\ off' = b + 1
    /\ malformed' = malformed + 1
    /\ UNCHANGED <<now, runs, job, pc, scan, m, blocks, next, task, inline, refs, disk>>

ExtractEnd ==
    /\ pc = "extract" /\ Begins(Msg, off) = {}
    /\ pc' = "inline" /\ off' = 1
    /\ UNCHANGED <<now, runs, job, scan, m, blocks, next, task, malformed, inline, refs, disk>>

-----------------------------------------------------------------------------
\* The loop over the blocks of the message.

InlineResult(c, status, reason, files) ==
    [msg |-> m, capsule |-> c, status |-> status, reason |-> reason, files |-> files]

\* Mutant of TaskFor: one directory for all items of a message.
TaskForMessage(kind, n, c) ==
    [kind |-> kind, dir |-> <<kind, m, 1>>, capsule |-> c, entry |-> 1, files |-> <<>>]

\* The n-th item of its kind in the message unpacks into a directory of its own.
TaskFor(kind, n, c) ==
    [kind |-> kind, dir |-> <<kind, m, n>>, capsule |-> c, entry |-> 1, files |-> <<>>]

\* Mutant of RejectBlock: a block that fails is dropped.
RejectBlockSilently ==
    /\ pc = "inline" /\ next <= Len(blocks)
    /\ VerifyErrors(blocks[next], Opts, now) # <<>>
    /\ next' = next + 1
    /\ UNCHANGED <<now, runs, job, pc, scan, m, off, blocks, task, malformed, inline, refs, disk>>

RejectBlock ==
    /\ pc = "inline" /\ next <= Len(blocks)
    /\ LET errors == VerifyErrors(blocks[next], Opts, now)
       IN /\ errors # <<>>
          /\ inline' = Append(inline,
                 InlineResult(blocks[next], "invalid", InlineReason(Head(errors)), <<>>))
    /\ next' = next + 1
    /\ UNCHANGED <<now, runs, job, pc, scan, m, off, blocks, task, malformed, refs, disk>>

\* Mutant of VerifyBlock: unpacking does not wait for the verdict.
VerifyBlockUnread ==
    /\ pc = "inline" /\ next <= Len(blocks)
    /\ task' = TaskFor("inline", next, blocks[next])
    /\ pc' = "write"
    /\ UNCHANGED <<now, runs, job, scan, m, off, blocks, next, malformed, inline, refs, disk>>

VerifyBlock ==
    /\ pc = "inline" /\ next <= Len(blocks)
    /\ VerifyErrors(blocks[next], Opts, now) = <<>>
    /\ task' = TaskFor("inline", next, blocks[next])
    /\ pc' = "write"
    /\ UNCHANGED <<now, runs, job, scan, m, off, blocks, next, malformed, inline, refs, disk>>

InlineEnd ==
    /\ pc = "inline" /\ next > Len(blocks)
    /\ pc' = "detect" /\ next' = 1
    /\ UNCHANGED <<now, runs, job, scan, m, off, blocks, task, malformed, inline, refs, disk>>

-----------------------------------------------------------------------------
\* unpack_payload: a step is one file.

\* Mutant of SetRef: the result is written to the first reference.
SetFirstRef(changed) == refs' = [refs EXCEPT ![1] = changed]

SetRef(changed) == refs' = [refs EXCEPT ![Len(refs)] = changed]

\* The error the next step of the unpacking raises, if any.
UnpackErrors ==
    LET files == FilesToWrite(task.capsule)
    IN IF NotABundle(task.capsule) THEN <<"UNPACK_FAILED">>
       ELSE IF task.entry > Len(files) THEN <<>>
       ELSE WriteErrors(files[task.entry], task.dir)

NextFile == FilesToWrite(task.capsule)[task.entry]

\* write_bytes on the target of the next file replaces what was there.
Put(data) ==
    LET path == Parts(NextFile.path)
    IN disk' = { f \in disk : f.dir # task.dir \/ f.path # path }
               \cup {[dir |-> task.dir, path |-> path, data |-> data, by |-> task.capsule]}

WriteFile ==
    /\ pc = "write" /\ UnpackErrors = <<>>
    /\ task.entry <= Len(FilesToWrite(task.capsule))
    /\ Put(NextFile.data)
    /\ task' = [task EXCEPT !.entry = @ + 1, !.files = Append(@, Parts(NextFile.path))]
    /\ UNCHANGED <<now, runs, job, pc, scan, m, off, blocks, next, malformed, inline, refs>>

\* The process is killed inside write_bytes: the file is there, cut short.
TornWrite ==
    /\ pc = "write" /\ UnpackErrors = <<>> /\ runs < MaxRuns
    /\ task.entry <= Len(FilesToWrite(task.capsule))
    /\ Put(Bad)
    /\ pc' = "down"
    /\ UNCHANGED <<now, runs, job, scan, m, off, blocks, next, task, malformed, inline, refs>>

\* The item is reported and the loop it belongs to goes on.
Finish(inlineResult, refResult) ==
    /\ IF task.kind = "inline"
       THEN /\ inline' = Append(inline, inlineResult)
            /\ next' = next + 1 /\ pc' = "inline" /\ UNCHANGED refs
       ELSE /\ SetRef(refResult)
            /\ pc' = "detect" /\ UNCHANGED <<inline, next>>
    /\ task' = IdleTask
    /\ UNCHANGED <<now, runs, job, scan, m, off, blocks, malformed, disk>>

\* Mutant of UnpackFails: the failed block is not reported.
UnpackFailsUnreported ==
    /\ pc = "write" /\ UnpackErrors # <<>>
    /\ task' = IdleTask
    /\ IF task.kind = "inline" THEN next' = next + 1 /\ pc' = "inline"
       ELSE pc' = "detect" /\ UNCHANGED next
    /\ UNCHANGED <<now, runs, job, scan, m, off, blocks, malformed, inline, refs, disk>>

\* A failed write leaves the earlier files where they are and reports none.
UnpackFails ==
    /\ pc = "write" /\ UnpackErrors # <<>>
    /\ LET error == Head(UnpackErrors)
       IN Finish(InlineResult(task.capsule, "invalid", InlineReason(error), <<>>),
                 [refs[Len(refs)] EXCEPT !.status = "failed", !.reason = RefReason(error)])

UnpackDone ==
    /\ pc = "write" /\ UnpackErrors = <<>>
    /\ task.entry > Len(FilesToWrite(task.capsule))
    /\ Finish(InlineResult(task.capsule, "unpacked", "none", task.files),
              [refs[Len(refs)] EXCEPT !.status = "unpacked", !.files = task.files])

-----------------------------------------------------------------------------
\* The loop over the reference descriptors of the message.

RefResult(d, status, reason) ==
    [msg |-> m, ref |-> d, status |-> status, reason |-> reason, fetched |-> FALSE, files |-> <<>>]

\* The next descriptor is reported with this status, and the loop goes on at place.
Detect(status, reason, place) ==
    /\ refs' = Append(refs, RefResult(Msg[First(References(Msg, off))].ref, status, reason))
    /\ off' = First(References(Msg, off)) + 1
    /\ next' = next + 1
    /\ pc' = place
    /\ UNCHANGED <<now, runs, job, scan, m, blocks, task, malformed, inline, disk>>

RejectReference ==
    /\ pc = "detect" /\ References(Msg, off) # {}
    /\ ~Msg[First(References(Msg, off))].ref.valid
    /\ Detect("invalid", "REFERENCE_DESCRIPTOR_INVALID", "detect")

SkipReference ==
    /\ pc = "detect" /\ References(Msg, off) # {}
    /\ Msg[First(References(Msg, off))].ref.valid /\ ~Opts.fetch
    /\ Detect("skipped", "none", "detect")

DetectReference ==
    /\ pc = "detect" /\ References(Msg, off) # {}
    /\ Msg[First(References(Msg, off))].ref.valid /\ Opts.fetch
    /\ Detect("detected", "none", "fetch")

Current == refs[Len(refs)]

\* A step on the current reference only.
OnReference(changed, place) ==
    /\ SetRef(changed) /\ pc' = place
    /\ UNCHANGED <<now, runs, job, scan, m, off, blocks, next, task, malformed, inline, disk>>

\* Mutant of FetchFails: what is refused or fails is tried again, without end.
FetchRetriesForever == pc = "fetch" /\ OnReference(Current, "fetch")

\* fetch_capsule raises: the address is refused, the transfer fails (an HTTP
\* error, a timeout, a size limit), or the bytes do not have the digest.
FetchFails ==
    /\ pc = "fetch"
    /\ \E reason \in IF Current.ref.uri = "blocked" THEN {"FETCH_BLOCKED_BY_POLICY"}
                     ELSE {"REFERENCE_TRANSPORT_ERROR", "REFERENCE_CAPSULE_HASH_MISMATCH"} :
            OnReference([Current EXCEPT !.status = "failed", !.reason = reason], "detect")

\* It returns the bytes that have the descriptor's digest.  They may still not
\* be text, which counts as fetched and failed.
FetchReturns ==
    /\ pc = "fetch" /\ Current.ref.uri = "public"
    /\ IF Current.ref.capsule = Bad
       THEN OnReference([Current EXCEPT !.fetched = TRUE, !.status = "failed",
                                        !.reason = "REFERENCE_TRANSPORT_ERROR"], "detect")
       ELSE OnReference([Current EXCEPT !.fetched = TRUE, !.status = "fetched"], "match")

\* Mutant of MatchErrors: only the fetched text is parsed.
MatchErrorsOfText(d) == ParseErrors(d.capsule)

\* The descriptor's payload digest against the one in the fetched headers.
MatchErrors(d) ==
       ParseErrors(d.capsule)
    \o Raises(d.capsule.claim # d.payload, "REFERENCE_PAYLOAD_HASH_MISMATCH")

MatchReference ==
    /\ pc = "match"
    /\ LET errors == MatchErrors(Current.ref)
       IN IF errors = <<>> THEN OnReference(Current, "unpack")
          ELSE OnReference([Current EXCEPT !.status = "failed", !.reason = Head(errors)], "detect")

\* Mutant of RejectFetched: the reason code stays as it was.
RejectFetchedUnexplained ==
    /\ pc = "unpack"
    /\ VerifyErrors(Current.ref.capsule, Opts, now) # <<>>
    /\ OnReference([Current EXCEPT !.status = "failed"], "detect")

RejectFetched ==
    /\ pc = "unpack"
    /\ LET errors == VerifyErrors(Current.ref.capsule, Opts, now)
       IN /\ errors # <<>>
          /\ OnReference([Current EXCEPT !.status = "failed", !.reason = RefReason(Head(errors))],
                         "detect")

\* Mutant of VerifyFetched: the fetched text is unpacked before it is verified.
VerifyFetchedUnread ==
    /\ pc = "unpack"
    /\ task' = TaskFor("reference", next - 1, Current.ref.capsule)
    /\ pc' = "write"
    /\ UNCHANGED <<now, runs, job, scan, m, off, blocks, next, malformed, inline, refs, disk>>

VerifyFetched ==
    /\ pc = "unpack"
    /\ VerifyErrors(Current.ref.capsule, Opts, now) = <<>>
    /\ task' = TaskFor("reference", next - 1, Current.ref.capsule)
    /\ pc' = "write"
    /\ UNCHANGED <<now, runs, job, scan, m, off, blocks, next, malformed, inline, refs, disk>>

\* Mutant of NextMessage: the end of the messages is not looked at.
NextMessageOverEnd ==
    /\ pc = "detect" /\ References(Msg, off) = {}
    /\ m' = m + 1 /\ pc' = "extract" /\ off' = 1 /\ blocks' = <<>> /\ next' = 1
    /\ UNCHANGED <<now, runs, job, scan, task, malformed, inline, refs, disk>>

NextMessage ==
    /\ pc = "detect" /\ References(Msg, off) = {} /\ m < Len(job.msgs)
    /\ m' = m + 1 /\ pc' = "extract" /\ off' = 1 /\ blocks' = <<>> /\ next' = 1
    /\ UNCHANGED <<now, runs, job, scan, task, malformed, inline, refs, disk>>

Done ==
    /\ pc = "detect" /\ References(Msg, off) = {} /\ m = Len(job.msgs)
    /\ pc' = "done"
    /\ UNCHANGED <<now, runs, job, scan, m, off, blocks, next, task, malformed, inline, refs, disk>>

-----------------------------------------------------------------------------
\* The environment: time passes, the process is killed, the caller starts over.

Tick ==
    /\ now < MaxTime /\ now' = now + 1
    /\ UNCHANGED <<runs, job, pc, scan, m, off, blocks, next, task, malformed, inline, refs, disk>>

Crash ==
    /\ pc \notin {"done", "down"} /\ runs < MaxRuns
    /\ pc' = "down"
    /\ UNCHANGED <<now, runs, job, scan, m, off, blocks, next, task, malformed, inline, refs, disk>>

\* Mutant of Restart: the lists of the report are those of the call before.
RestartKeepsReport ==
    /\ pc \in {"done", "down"} /\ runs < MaxRuns
    /\ runs' = runs + 1
    /\ job' \in Jobs
    /\ pc' = StartOf(job')
    /\ scan' = StartScan /\ task' = IdleTask
    /\ m' = 1 /\ off' = 1 /\ blocks' = <<>> /\ next' = 1
    /\ malformed' = 0
    /\ UNCHANGED <<now, inline, refs, disk>>

Restart ==
    /\ pc \in {"done", "down"} /\ runs < MaxRuns
    /\ runs' = runs + 1
    /\ job' \in Jobs
    /\ pc' = StartOf(job')
    /\ scan' = StartScan /\ task' = IdleTask
    /\ m' = 1 /\ off' = 1 /\ blocks' = <<>> /\ next' = 1
    /\ malformed' = 0 /\ inline' = <<>> /\ refs' = <<>>
    /\ UNCHANGED <<now, disk>>

Scanning   == ScanBlock \/ ScanMalformed \/ ScanEnd
Extracting == ExtractBlock \/ ExtractMalformed \/ ExtractEnd
InlineLoop == RejectBlock \/ VerifyBlock \/ InlineEnd
Unpacking  == WriteFile \/ UnpackFails \/ UnpackDone
RefLoop    == \/ RejectReference \/ SkipReference \/ DetectReference
              \/ FetchFails \/ FetchReturns \/ MatchReference
              \/ RejectFetched \/ VerifyFetched \/ NextMessage

Step == Scanning \/ Extracting \/ InlineLoop \/ Unpacking \/ RefLoop \/ Done

\* Nothing more happens to a finished run.
Rest == pc = "done" /\ runs = MaxRuns /\ UNCHANGED vars

Next == Step \/ Rest \/ Tick \/ TornWrite \/ Crash \/ Restart

Spec == Init /\ [][Next]_vars

\* The run is one thread that nothing blocks: a fetch ends by its timeout.
FairSpec == Spec /\ WF_vars(Step)
=============================================================================
