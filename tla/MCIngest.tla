------------------------------ MODULE MCIngest ------------------------------
(* Three families of jobs: one capsule against every option, messages cut up   *)
(* and spliced, and reference descriptors of every kind.                       *)
EXTENDS MCGate, MCSplice, MCRefs

IngestJobs == GateJobs \cup SpliceJobs \cup RefJobs
=============================================================================
