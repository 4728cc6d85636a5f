------------------------------- MODULE Ingest -------------------------------
(***************************************************************************)
(* The receiver as its caller may think of it.  There are no loops, no     *)
(* phases and no order of checks: a capsule that passes is admitted, only  *)
(* files of an admitted capsule are stored, and only an admitted capsule   *)
(* is accepted.  A failure is never taken back within a call, and a call   *)
(* in which something failed ends in a block.                              *)
(***************************************************************************)
EXTENDS Acceptance

CONSTANT Calls      \* the options a call may be made with

VARIABLES
    now,            \* the clock
    opts,           \* the options of the call being served
    admitted,       \* the capsule being unpacked, as a set of at most one
    accepted,       \* the capsules accepted in this call
    failed,         \* something in this call was rejected
    outcome,        \* "running", "killed", or the disposition of the report
    stored          \* files: their place, what they hold, whose they are

vars == <<now, opts, admitted, accepted, failed, outcome, stored>>

Init ==
    /\ now = 0 /\ opts \in Calls
    /\ admitted = {} /\ accepted = {} /\ failed = FALSE /\ outcome = "running"
    /\ stored = {}

\* Verification is a test of the whole policy at one moment.
Admit ==
    /\ outcome = "running" /\ admitted = {}
    /\ \E c \in admitted' : admitted' = {c} /\ Passes(c, opts, now)
    /\ UNCHANGED <<now, opts, accepted, failed, outcome, stored>>

\* A file replaces what was at its place.
Replaces(f) == stored' = { g \in stored : g.place # f.place } \cup {f}

StoreFile ==
    /\ outcome = "running"
    /\ \E f \in stored' : f.by \in admitted /\ f.data \in FileContents(f.by) /\ Replaces(f)
    /\ UNCHANGED <<now, opts, admitted, accepted, failed, outcome>>

Accept ==
    /\ outcome = "running" /\ admitted # {}
    /\ accepted' = accepted \cup admitted /\ admitted' = {}
    /\ UNCHANGED <<now, opts, failed, outcome, stored>>

\* An item is rejected, before or while it is unpacked.
Reject ==
    /\ outcome = "running"
    /\ failed' = TRUE /\ admitted' = {}
    /\ UNCHANGED <<now, opts, accepted, outcome, stored>>

Report ==
    /\ outcome = "running" /\ admitted = {}
    /\ outcome' \in {"allow", "review", "block"}
    /\ failed => outcome' = "block"
    /\ UNCHANGED <<now, opts, admitted, accepted, failed, stored>>

\* A kill may leave one file cut short.
Killed ==
    /\ outcome = "running"
    /\ outcome' = "killed" /\ admitted' = {}
    /\ stored' # stored => \E f \in stored' : f.by \in admitted /\ f.data = Bad /\ Replaces(f)
    /\ UNCHANGED <<now, opts, accepted, failed>>

\* Another call over the files of the calls before.
NewCall ==
    /\ outcome # "running"
    /\ opts' \in Calls
    /\ admitted' = {} /\ accepted' = {} /\ failed' = FALSE /\ outcome' = "running"
    /\ UNCHANGED <<now, stored>>

Tick == now' \in Times /\ now' > now /\ UNCHANGED <<opts, admitted, accepted, failed, outcome, stored>>

Next == Admit \/ StoreFile \/ Accept \/ Reject \/ Report \/ Killed \/ NewCall \/ Tick

Spec == Init /\ [][Next]_vars
=============================================================================
