--------------------------- MODULE ReceiverProps ---------------------------
(***************************************************************************)
(* What an ingest run promises.  The properties are stated from the side   *)
(* of the reader of its report: they do not mention the order of the       *)
(* checks, and count and name things without the code's loops.             *)
(***************************************************************************)
EXTENDS Receiver, Acceptance

FileData == Blobs \cup Contents \cup {Bad}
Dirs     == {"none", "inline", "reference"} \X Nat \X Nat

\* The reason codes an item may carry; "none" where the report has null.
ReportReasons ==
    (Reasons \ {"OTHER"}) \cup
    { "none", "UNKNOWN_ERROR", "REFERENCE_DESCRIPTOR_INVALID", "FETCH_BLOCKED_BY_POLICY",
      "REFERENCE_TRANSPORT_ERROR", "REFERENCE_CAPSULE_HASH_MISMATCH", "REFERENCE_PAYLOAD_HASH_MISMATCH" }

InlineResults ==
    [ msg : Nat, capsule : Capsules, status : {"unpacked", "invalid"},
      reason : ReportReasons, files : Seq(PathStrings) ]

RefResults ==
    [ msg : Nat, ref : Descriptors,
      status : {"detected", "invalid", "skipped", "failed", "fetched", "unpacked"},
      reason : ReportReasons, fetched : BOOLEAN, files : Seq(PathStrings) ]

Places == {"scan", "extract", "inline", "write", "detect", "fetch", "match", "unpack", "done", "down"}

\* The type of every variable, and the place in the lists a step relies on.
TypeOK ==
    /\ now \in Times /\ runs \in Nat /\ job \in Job /\ pc \in Places
    /\ scan \in [off : Nat, valid : Nat, invalid : Nat, trust : SUBSET TrustStatuses, encrypted : BOOLEAN]
    /\ m \in DOMAIN job.msgs /\ off \in Nat \ {0} /\ next \in Nat \ {0}
    /\ blocks \in Seq(Capsules)
    /\ task \in [kind : {"none", "inline", "reference"}, dir : Dirs, capsule : Capsules,
                 entry : Nat \ {0}, files : Seq(PathStrings)]
    /\ malformed \in Nat /\ inline \in Seq(InlineResults) /\ refs \in Seq(RefResults)
    /\ disk \subseteq [dir : Dirs, path : PathStrings, data : FileData, by : Capsules]

-----------------------------------------------------------------------------
Accepted(result) == result.status = "unpacked"

\* Every accepted capsule, inline or fetched, met the whole policy at some time
\* of the run: signature, registry, hash, size, types and manifest together.
AcceptedIsVerified ==
    /\ \A i \in DOMAIN inline : Accepted(inline[i]) => PassedBy(inline[i].capsule, Opts, now)
    /\ \A i \in DOMAIN refs : Accepted(refs[i]) => PassedBy(refs[i].ref.capsule, Opts, now)

\* An accepted reference was fetched, with both digests of its descriptor.
AcceptedIsWhatWasReferenced ==
    \A i \in DOMAIN refs : Accepted(refs[i]) =>
        /\ refs[i].fetched /\ refs[i].ref.valid /\ refs[i].ref.uri = "public"
        /\ refs[i].ref.capsule # Bad
        /\ refs[i].ref.capsule.content = refs[i].ref.payload

-----------------------------------------------------------------------------
\* The report of a finished run against its messages.

Spot(kind) ==
    UNION { {k} \X { i \in DOMAIN job.msgs[k] : job.msgs[k][i].kind = kind } : k \in DOMAIN job.msgs }

\* Begin markers that no end marker follows in their message.
Unclosed == { p \in Spot("begin") : ~\E q \in Spot("end") : q[1] = p[1] /\ q[2] > p[2] }

\* End markers that close a block: a begin marker comes since the last end marker.
Closing == { q \in Spot("end") : \E p \in Spot("begin") :
               /\ p[1] = q[1] /\ p[2] < q[2]
               /\ ~\E r \in Spot("end") : r[1] = p[1] /\ p[2] < r[2] /\ r[2] < q[2] }

FinalStatuses == {"invalid", "skipped", "failed", "unpacked"}

Having(list, statuses) == { i \in DOMAIN list : list[i].status \in statuses }

\* No item is lost because of another: a finished run reports every closed block,
\* every unclosed begin marker and every descriptor, each with a final status.
EverythingReported ==
    pc = "done" =>
        /\ Len(inline) = Cardinality(Closing)
        /\ malformed = Cardinality(Unclosed)
        /\ Len(refs) = Cardinality(Spot("reference"))
        /\ \A i \in DOMAIN refs : refs[i].status \in FinalStatuses

HasFailures ==
    \/ malformed # 0
    \/ \E i \in DOMAIN inline : inline[i].status = "invalid"
    \/ \E i \in DOMAIN refs : refs[i].status \in {"invalid", "failed"}

\* _ingest_disposition.
Disposition ==
    IF HasFailures \/ (Opts.scan /\ RiskLevel = "high") THEN "block"
    ELSE IF Opts.scan /\ RiskLevel = "medium" THEN "review"
    ELSE "allow"

\* The scanner and the receiver read the messages twice, at different times and
\* the scanner with all messages joined.  Whenever the report does not block, the
\* two agree on how many capsules are good.
CleanReportAgrees ==
    (pc = "done" /\ Opts.scan /\ Disposition # "block") =>
        /\ scan.invalid = 0
        /\ scan.valid = Cardinality(Having(inline, {"unpacked"}))

\* An inline capsule may be accepted although the registry does not trust its
\* signer, when the policy does not require the registry.  The report then never
\* allows the handoff, and blocks it if the key is revoked.
Doubted(c) ==
    /\ c.sig = "ed25519"
    /\ \A t \in 0..now : SignatureTrust(c, Opts, t).status \notin {"trusted", "none"}

DoubtfulSignerIsFlagged ==
    (pc = "done" /\ Opts.scan) =>
        \A i \in DOMAIN inline : Accepted(inline[i]) /\ Doubted(inline[i].capsule) =>
            /\ Disposition # "allow"
            /\ SignatureTrust(inline[i].capsule, Opts, now).status = "revoked" => Disposition = "block"

\* rejected_reasons_by_type adds up to what was rejected, and no accepted item
\* carries a reason.
ReasonsAddUp ==
    pc = "done" =>
        /\ \A i \in DOMAIN inline : inline[i].reason = "none" <=> Accepted(inline[i])
        /\ \A i \in DOMAIN refs : refs[i].reason = "none" <=> refs[i].status \in {"unpacked", "skipped"}

\* A final status never changes within a run.
StatusIsFinal ==
    [][ runs' = runs =>
          /\ \A i \in DOMAIN inline : i \in DOMAIN inline' /\ inline'[i] = inline[i]
          /\ \A i \in DOMAIN refs : refs[i].status \in FinalStatuses =>
                i \in DOMAIN refs' /\ refs'[i] = refs[i] ]_vars

-----------------------------------------------------------------------------
\* The files on disk.

InlineDir(k) == <<"inline", inline[k].msg, Cardinality({ j \in 1..k : inline[j].msg = inline[k].msg })>>
RefDir(k)    == <<"reference", refs[k].msg, Cardinality({ j \in 1..k : refs[j].msg = refs[k].msg })>>

\* A reported file is on disk in the directory of its item, with bytes of the
\* capsule of that item, whatever earlier runs left there.
Holds(dir, c, path) ==
    \E f \in disk : f.dir = dir /\ f.path = path /\ f.by = c /\ f.data # Bad

ReportedFilesAreThere ==
    /\ \A k \in DOMAIN inline : \A i \in DOMAIN inline[k].files :
         Holds(InlineDir(k), inline[k].capsule, inline[k].files[i])
    /\ \A k \in DOMAIN refs : \A i \in DOMAIN refs[k].files :
         Holds(RefDir(k), refs[k].ref.capsule, refs[k].files[i])

\* Nothing reaches the disk before its capsule passed: every file holds bytes of
\* a capsule that met, at some time, a policy the receiver may be run with (that
\* of one of the Jobs), rejected items included.
OnlyVerifiedBytes ==
    \A f \in disk :
        /\ \E j \in Jobs : PassedBy(f.by, j.opts, now)
        /\ f.data \in {Bad} \cup FileContents(f.by)

\* After one run that was not killed, a file no item reports comes from a bundle
\* that failed half way, and the report counts that failure.
OrphansAreReported ==
    (pc = "done" /\ runs = 1) =>
        \A f \in disk :
            \/ \E k \in DOMAIN inline : \E i \in DOMAIN inline[k].files :
                  f.dir = InlineDir(k) /\ f.path = inline[k].files[i]
            \/ \E k \in DOMAIN refs : \E i \in DOMAIN refs[k].files :
                  f.dir = RefDir(k) /\ f.path = refs[k].files[i]
            \/ Disposition = "block" /\ Len(FilesToWrite(f.by)) > 1

\* Every capsule file named in the manifest of an accepted item is unpacked with
\* the digest the manifest gives.
ManifestFilesAreThere ==
    \A k \in DOMAIN inline : (Accepted(inline[k]) /\ inline[k].capsule.manifest # None) =>
        \A i \in DOMAIN inline[k].capsule.manifest :
            \E f \in disk :
                /\ f.dir = InlineDir(k)
                /\ f.path = Parts(inline[k].capsule.manifest[i].path)
                /\ f.data = inline[k].capsule.manifest[i].sha

-----------------------------------------------------------------------------
\* What the steps of the receiver are to its caller.

AcceptedCapsules ==
    { inline[i].capsule : i \in Having(inline, {"unpacked"}) }
    \cup { refs[i].ref.capsule : i \in Having(refs, {"unpacked"}) }

Outcome ==
    CASE pc = "done" -> Disposition
      [] pc = "down" -> "killed"
      [] OTHER       -> "running"

CallOptions == { j.opts : j \in Jobs }

Abstract == INSTANCE Ingest WITH
    Calls    <- CallOptions,
    opts     <- Opts,
    admitted <- IF pc = "write" THEN {task.capsule} ELSE {},
    accepted <- AcceptedCapsules,
    failed   <- HasFailures,
    outcome  <- Outcome,
    stored   <- { [place |-> <<f.dir, f.path>>, data |-> f.data, by |-> f.by] : f \in disk }

\* Every step of the receiver, scanner, loops, fetches, kills and restarts
\* included, is one the caller of the abstract receiver may see, or none.
ImplementsIngest == Abstract!Spec

\* A run that is not killed ends with a report.
RunEnds == (pc = "scan" \/ pc = "extract") ~> (pc \in {"done", "down"})
=============================================================================
