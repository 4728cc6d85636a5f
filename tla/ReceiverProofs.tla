--------------------------- MODULE ReceiverProofs ---------------------------
(***************************************************************************)
(* What an ingest run accepts, writes and decides, for any messages,       *)
(* capsules, registries, policies and number of runs, and that it is, step *)
(* by step, the receiver its caller may think of.                          *)
(***************************************************************************)
EXTENDS ReceiverProps, VerifyProofs, FiniteSetTheorems

-----------------------------------------------------------------------------
\* The messages and the blocks cut from them.

LEMMA JobTyped ==
    ASSUME job \in Jobs, m \in DOMAIN job.msgs
    PROVE  /\ Opts \in Options /\ Msg \in Seq(Tokens)
           /\ \A i \in DOMAIN Msg : WellFormedToken(Msg[i])
<1>1. job \in Job /\ \A k \in DOMAIN job.msgs : \A i \in DOMAIN job.msgs[k] : WellFormedToken(job.msgs[k][i])
  BY ReceiverAssumption
<1>2. job.msgs \in Seq(Seq(Tokens)) /\ job.opts \in Options
  BY <1>1 DEF Job
<1> QED
  BY <1>1, <1>2 DEF Opts, Msg

LEMMA GarbledTyped == Garbled \in Capsules
<1>1. <<>> \in Seq(BundleEntry)
  OBVIOUS
<1>2. Garbled.content \in Contents /\ Garbled.claim = Garbled.content
  BY <1>1 DEF Garbled, Contents
<1> QED
  BY <1>2 DEF Garbled, Capsules, KnownCodecs, SigModes, ContentTypes

LEMMA BlockTyped ==
    ASSUME NEW text \in Seq(Tokens), NEW b \in Nat \ {0}, NEW e \in 1..Len(text)
    PROVE  BlockCapsule(text, b, e) \in Capsules
<1> DEFINE inner == (b + 1)..(e - 1)
           body == text[b + 1].capsule
           signer == IF body.signedBy = None THEN None ELSE Bad
           spoiled == [body EXCEPT !.decodes = FALSE, !.signedBy = signer]
<1>1. CASE b + 1 \notin inner \/ body = None \/ \E i \in inner : text[i].kind = "begin"
  BY <1>1, GarbledTyped DEF BlockCapsule
<1>2. CASE b + 1 \in inner /\ body # None /\ ~\E i \in inner : text[i].kind = "begin"
  <2>1. text[b + 1] \in Tokens
    BY <1>2
  <2>2. body \in Capsules
    BY <1>2, <2>1 DEF Tokens
  <2>3. signer \in Keys \cup Secrets \cup {None, Bad}
    OBVIOUS
  <2>4. spoiled \in Capsules
    <3> HIDE DEF body, signer
    <3> QED
      BY <2>2, <2>3 DEF Capsules
  <2>5. spoiled = [body EXCEPT !.decodes = FALSE, !.signedBy = IF @ = None THEN None ELSE Bad]
    BY <2>2 DEF Capsules
  <2> QED
    BY <1>2, <2>2, <2>4, <2>5 DEF BlockCapsule
<1> QED
  BY <1>1, <1>2

LEMMA NextReference ==
    ASSUME job \in Jobs, m \in DOMAIN job.msgs, off \in Nat \ {0}, References(Msg, off) # {}
    PROVE  LET i == First(References(Msg, off))
           IN i \in Nat \ {0} /\ Msg[i].ref \in Descriptors
<1> DEFINE S == References(Msg, off)
<1>1. Msg \in Seq(Tokens)
  BY JobTyped
<1>2. S # {} /\ S \in SUBSET Nat /\ \A i \in S : i \in 1..Len(Msg) /\ i \in Nat \ {0} /\ Msg[i].kind = "reference"
  BY <1>1 DEF References
<1>3. First(S) \in S
  <2> HIDE DEF S
  <2> QED
    BY <1>2, FirstIsLeast
<1>4. \A i \in 1..Len(Msg) : Msg[i] \in Tokens /\ WellFormedToken(Msg[i])
  BY <1>1, JobTyped
<1>5. \A i \in S : Msg[i].ref \in Descriptors
  BY <1>2, <1>4 DEF WellFormedToken, Tokens
<1> QED
  BY <1>2, <1>3, <1>5

LEMMA NextMarkers ==
    ASSUME job \in Jobs, m \in DOMAIN job.msgs, off \in Nat \ {0}, Begins(Msg, off) # {}
    PROVE  LET b == First(Begins(Msg, off))
               e == First(Ends(Msg, b))
           IN /\ b \in Nat \ {0}
              /\ Ends(Msg, b) # {} => e \in 1..Len(Msg)
<1> DEFINE b == First(Begins(Msg, off))
<1>1. Msg \in Seq(Tokens)
  BY JobTyped
<1>2. Begins(Msg, off) \in SUBSET Nat /\ \A i \in Begins(Msg, off) : i \in Nat \ {0}
  BY <1>1 DEF Begins
<1>3. b \in Nat \ {0}
  BY <1>2, FirstIsLeast
<1> HIDE DEF b
<1>4. Ends(Msg, b) \in SUBSET Nat /\ Ends(Msg, b) \subseteq 1..Len(Msg)
  BY <1>1, <1>3 DEF Ends
<1>5. Ends(Msg, b) # {} => First(Ends(Msg, b)) \in 1..Len(Msg)
  BY <1>4, FirstIsLeast
<1> QED
  BY <1>3, <1>5 DEF b

-----------------------------------------------------------------------------
\* The shape of the state the induction needs.  X is any set that holds the parts
\* of the results whose type plays no role in it: file lists, messages, reasons.

InlineRecords(X) == [msg : X, capsule : Capsules \cup {Bad}, status : X, reason : X, files : X]
RefRecords(X) ==
    [msg : X, ref : Descriptors, status : X, reason : X, fetched : BOOLEAN, files : X]
Tasks(X) ==
    [kind : {"none", "inline", "reference"}, dir : X, capsule : Capsules \cup {Bad}, entry : X, files : X]

Shaped(X, in, rs, t) == in \in Seq(InlineRecords(X)) /\ rs \in Seq(RefRecords(X)) /\ t \in Tasks(X)

Shape ==
    /\ now \in Times /\ job \in Jobs /\ m \in DOMAIN job.msgs
    /\ off \in Nat \ {0} /\ next \in Nat \ {0}
    /\ blocks \in Seq(Capsules)
    /\ \E X : Shaped(X, inline, refs, task)
    /\ pc \in {"fetch", "match", "unpack"} => refs # <<>>
    /\ pc = "write" => task.kind \in {"inline", "reference"}
    /\ pc = "write" /\ task.kind = "reference" => refs # <<>>

LEMMA ShapeGrows ==
    ASSUME NEW X, NEW Y, X \subseteq Y, NEW in, NEW rs, NEW t, Shaped(X, in, rs, t)
    PROVE  Shaped(Y, in, rs, t)
<1>1. /\ InlineRecords(X) \subseteq InlineRecords(Y)
      /\ RefRecords(X) \subseteq RefRecords(Y)
      /\ Tasks(X) \subseteq Tasks(Y)
  BY DEF InlineRecords, RefRecords, Tasks
<1>2. in \in Seq(InlineRecords(Y)) /\ rs \in Seq(RefRecords(Y))
  BY <1>1, SeqMonotonic DEF Shaped
<1> QED
  BY <1>1, <1>2 DEF Shaped

LEMMA IdleTyped == \E X : IdleTask \in Tasks(X)
<1> DEFINE X == {<<"none", 0, 0>>, 1, <<>>}
<1>1. IdleTask \in Tasks(X)
  BY GarbledTyped DEF IdleTask, Tasks
<1> QED
  BY <1>1

\* The last reference is replaced.
LEMMA RefReplaced ==
    ASSUME NEW X, refs \in Seq(RefRecords(X)), refs # <<>>, NEW changed \in RefRecords(X), SetRef(changed)
    PROVE  /\ refs' \in Seq(RefRecords(X)) /\ Len(refs') = Len(refs) /\ refs'[Len(refs)] = changed
           /\ \A i \in 1..Len(refs) : i # Len(refs) => refs'[i] = refs[i]
<1>1. Len(refs) \in 1..Len(refs)
  BY EmptySeq
<1> QED
  BY <1>1, ExceptSeq DEF SetRef

LEMMA ShapeInit == Init => Shape
<1> SUFFICES ASSUME Init PROVE Shape
  OBVIOUS
<1>1. PICK X : IdleTask \in Tasks(X)
  BY IdleTyped
<1>2. Shaped(X, <<>>, <<>>, IdleTask)
  BY <1>1 DEF Shaped
<1>3. job.msgs # <<>> /\ job.msgs \in Seq(Seq(Tokens))
  BY ReceiverAssumption DEF Init, Job
<1>4. m \in DOMAIN job.msgs
  BY <1>3, EmptySeq DEF Init
<1>5. now \in Times
  BY TrustAssumption DEF Init, Times
<1> QED
  BY <1>2, <1>4, <1>5 DEF Init, Shape, StartOf

LEMMA CurrentTyped ==
    ASSUME NEW X, refs \in Seq(RefRecords(X)), refs # <<>>
    PROVE  Current \in RefRecords(X)
  BY EmptySeq DEF Current

LEMMA ShapeDetect ==
    ASSUME Shape, References(Msg, off) # {}, NEW status, NEW reason,
           NEW place \in {"detect", "fetch"}, Detect(status, reason, place)
    PROVE  Shape'
<1>1. PICK X : Shaped(X, inline, refs, task)
  BY DEF Shape
<1> DEFINE i == First(References(Msg, off))
           added == RefResult(Msg[i].ref, status, reason)
           Y == X \cup {m, status, reason, <<>>}
<1>2. i \in Nat \ {0} /\ Msg[i].ref \in Descriptors
  BY NextReference DEF Shape
<1>3. added \in RefRecords(Y)
  BY <1>2 DEF RefRecords, RefResult
<1>4. Shaped(Y, inline, refs, task)
  BY <1>1, ShapeGrows
<1>5. refs' = Append(refs, added) /\ inline' = inline /\ task' = task
  BY DEF Detect
<1> HIDE DEF added, Y, i
<1>6. refs' \in Seq(RefRecords(Y)) /\ refs' # <<>>
  BY <1>3, <1>4, <1>5, AppendProperties DEF Shaped
<1>7. Shaped(Y, inline', refs', task')
  BY <1>4, <1>5, <1>6 DEF Shaped
<1>8. off' = i + 1 /\ next' = next + 1 /\ pc' = place /\ UNCHANGED <<now, job, m, blocks>>
  BY DEF Detect, i
<1> QED
  BY <1>2, <1>6, <1>7, <1>8 DEF Shape

\* A step that leaves the results and the task alone.
LEMMA ShapeQuiet ==
    ASSUME Shape, UNCHANGED <<now, job, m, inline, refs, task>>,
           off' \in Nat \ {0}, next' \in Nat \ {0}, blocks' \in Seq(Capsules),
           pc' = pc \/ pc' \notin {"fetch", "match", "unpack", "write"}
    PROVE  Shape'
<1>1. PICK X : Shaped(X, inline, refs, task)
  BY DEF Shape
<1>2. Shaped(X, inline', refs', task')
  BY <1>1
<1> QED
  BY <1>2 DEF Shape

LEMMA ShapeScanning == ASSUME Shape, Scanning PROVE Shape'
<1>1. UNCHANGED <<now, job, m, off, blocks, next, inline, refs, task>> /\ (pc' = pc \/ pc' = "extract")
  BY Zenon DEF Scanning, ScanBlock, ScanMalformed, ScanEnd, unscanned
<1> QED
  BY <1>1, ShapeQuiet DEF Shape

LEMMA ShapeExtracting == ASSUME Shape, Extracting PROVE Shape'
<1>1. UNCHANGED <<now, job, m, next, inline, refs, task>> /\ (pc' = pc \/ pc' = "inline")
  BY Zenon DEF Extracting, ExtractBlock, ExtractMalformed, ExtractEnd
<1>2. CASE ExtractBlock
  <2> DEFINE b == First(Begins(Msg, off))
             e == First(Ends(Msg, b))
  <2>1. b \in Nat \ {0} /\ e \in 1..Len(Msg)
    BY <1>2, NextMarkers DEF ExtractBlock, Shape
  <2>2. BlockCapsule(Msg, b, e) \in Capsules
    BY <2>1, JobTyped, BlockTyped DEF Shape
  <2>3. off' = e + 1 /\ blocks' = Append(blocks, BlockCapsule(Msg, b, e))
    BY <1>2 DEF ExtractBlock
  <2> HIDE DEF b, e
  <2>4. off' \in Nat \ {0} /\ blocks' \in Seq(Capsules)
    BY <2>1, <2>2, <2>3, JobTyped, AppendProperties DEF Shape
  <2> QED
    BY <1>1, <2>4, ShapeQuiet DEF Shape
<1>3. CASE ExtractMalformed
  <2>1. off' \in Nat \ {0} /\ blocks' = blocks
    BY <1>3, NextMarkers DEF ExtractMalformed, Shape
  <2> QED
    BY <1>1, <2>1, ShapeQuiet DEF Shape
<1>4. CASE ExtractEnd
  BY <1>1, <1>4, ShapeQuiet DEF ExtractEnd, Shape
<1> QED
  BY <1>2, <1>3, <1>4 DEF Extracting

\* The task a verified capsule becomes.
LEMMA TaskTyped ==
    ASSUME Shape, NEW kind \in {"inline", "reference"}, NEW n, NEW c \in Capsules \cup {Bad},
           task' = TaskFor(kind, n, c), kind = "reference" => refs # <<>>,
           UNCHANGED <<now, job, m, off, blocks, next, inline, refs>>, pc' = "write"
    PROVE  Shape'
<1>1. PICK X : Shaped(X, inline, refs, task)
  BY DEF Shape
<1> DEFINE Y == X \cup {<<kind, m, n>>, 1, <<>>}
<1>2. Shaped(Y, inline, refs, task)
  BY <1>1, ShapeGrows
<1>3. task' \in Tasks(Y) /\ task'.kind = kind
  BY DEF TaskFor, Tasks
<1> HIDE DEF Y
<1>4. Shaped(Y, inline', refs', task')
  BY <1>2, <1>3 DEF Shaped
<1> QED
  BY <1>3, <1>4 DEF Shape

\* An inline result of any kind is appended.
LEMMA ShapeInlineResult ==
    ASSUME Shape, NEW c \in Capsules \cup {Bad}, NEW status, NEW reason, NEW files,
           inline' = Append(inline, InlineResult(c, status, reason, files)),
           task' \in {task, IdleTask}, next' = next + 1, pc' = "inline",
           UNCHANGED <<now, job, m, off, blocks, refs>>
    PROVE  Shape'
<1>1. PICK X : Shaped(X, inline, refs, task)
  BY DEF Shape
<1>2. PICK Z : IdleTask \in Tasks(Z)
  BY IdleTyped
<1> DEFINE Y == X \cup Z \cup {m, status, reason, files}
           added == InlineResult(c, status, reason, files)
<1>3. Shaped(Y, inline, refs, task)
  BY <1>1, ShapeGrows
<1>4. added \in InlineRecords(Y)
  BY DEF InlineRecords, InlineResult
<1>5. IdleTask \in Tasks(Y)
  BY <1>2 DEF Tasks
<1> HIDE DEF Y, added
<1>6. inline' \in Seq(InlineRecords(Y))
  <2>1. inline \in Seq(InlineRecords(Y)) /\ inline' = Append(inline, added)
    BY <1>3 DEF Shaped, added
  <2> QED
    BY <2>1, <1>4, AppendProperties
<1>7. Shaped(Y, inline', refs', task')
  BY <1>3, <1>5, <1>6 DEF Shaped
<1> QED
  BY <1>7 DEF Shape

LEMMA ShapeInlineLoop == ASSUME Shape, InlineLoop PROVE Shape'
<1>1. CASE RejectBlock
  <2>1. blocks[next] \in Capsules
    BY <1>1 DEF RejectBlock, Shape
  <2>2. PICK reason : inline' = Append(inline, InlineResult(blocks[next], "invalid", reason, <<>>))
    BY <1>1 DEF RejectBlock
  <2>3. /\ task' \in {task, IdleTask} /\ pc' = "inline" /\ next' = next + 1
        /\ UNCHANGED <<now, job, m, off, blocks, refs>>
    BY <1>1 DEF RejectBlock
  <2> QED
    BY <2>1, <2>2, <2>3, ShapeInlineResult
<1>2. CASE VerifyBlock
  <2>1. blocks[next] \in Capsules
    BY <1>2 DEF VerifyBlock, Shape
  <2> QED
    BY <1>2, <2>1, TaskTyped DEF VerifyBlock
<1>3. CASE InlineEnd
  BY <1>3, ShapeQuiet DEF InlineEnd, Shape
<1> QED
  BY <1>1, <1>2, <1>3 DEF InlineLoop

\* The last reference replaced by a record of its own shape, and the task dropped.
LEMMA ShapeRefResult ==
    ASSUME Shape, refs # <<>>, NEW Z, NEW changed \in RefRecords(Z), SetRef(changed),
           task' \in {task, IdleTask}, pc' \in {"detect", "match", "unpack"},
           UNCHANGED <<now, job, m, off, blocks, next, inline>>
    PROVE  Shape'
<1>1. PICK X : Shaped(X, inline, refs, task)
  BY DEF Shape
<1>2. PICK W : IdleTask \in Tasks(W)
  BY IdleTyped
<1> DEFINE Y == X \cup Z \cup W
<1>3. Shaped(Y, inline, refs, task)
  BY <1>1, ShapeGrows
<1>4. changed \in RefRecords(Y) /\ IdleTask \in Tasks(Y)
  BY <1>2 DEF RefRecords, Tasks
<1> HIDE DEF Y
<1>5. refs' \in Seq(RefRecords(Y)) /\ refs' # <<>>
  BY <1>3, <1>4, RefReplaced, EmptySeq DEF Shaped
<1>6. Shaped(Y, inline', refs', task')
  BY <1>3, <1>4, <1>5 DEF Shaped
<1> QED
  BY <1>5, <1>6 DEF Shape

\* A record for the current reference, with what is reported of it changed.
ForCurrent(changed, status, fetched) ==
    /\ \E Z : changed \in RefRecords(Z)
    /\ changed.ref = Current.ref /\ changed.status = status /\ changed.fetched = fetched

LEMMA Reworded ==
    ASSUME Shape, refs # <<>>, NEW status, NEW reason, NEW files
    PROVE  /\ ForCurrent(Current, Current.status, Current.fetched)
           /\ ForCurrent([Current EXCEPT !.status = status, !.reason = reason], status, Current.fetched)
           /\ ForCurrent([Current EXCEPT !.fetched = TRUE, !.status = status, !.reason = reason],
                         status, TRUE)
           /\ ForCurrent([Current EXCEPT !.fetched = TRUE, !.status = status], status, TRUE)
           /\ ForCurrent([Current EXCEPT !.status = status, !.files = files], status, Current.fetched)
<1>1. PICK X : refs \in Seq(RefRecords(X))
  BY DEF Shape, Shaped
<1> DEFINE Z == X \cup {status, reason, files}
<1>2. Current \in RefRecords(X)
  BY <1>1, CurrentTyped
<1>3. /\ Current \in RefRecords(Z)
      /\ [Current EXCEPT !.status = status, !.reason = reason] \in RefRecords(Z)
      /\ [Current EXCEPT !.fetched = TRUE, !.status = status, !.reason = reason] \in RefRecords(Z)
      /\ [Current EXCEPT !.fetched = TRUE, !.status = status] \in RefRecords(Z)
      /\ [Current EXCEPT !.status = status, !.files = files] \in RefRecords(Z)
  BY <1>2 DEF RefRecords
<1> HIDE DEF Z
<1> QED
  BY <1>2, <1>3 DEF RefRecords, ForCurrent

\* What a step on the current reference does, whichever step it is.
LEMMA ReferenceSteps ==
    ASSUME Shape, NEW changed, NEW status, NEW fetched, NEW place, refs # <<>>,
           ForCurrent(changed, status, fetched), OnReference(changed, place),
           place \in {"detect", "match", "unpack"}
    PROVE  Shape'
<1>1. PICK Z : changed \in RefRecords(Z)
  BY DEF ForCurrent
<1> QED
  BY <1>1, ShapeRefResult DEF OnReference

LEMMA ShapeRefLoop == ASSUME Shape, RefLoop PROVE Shape'
<1>1. CASE RejectReference
  BY <1>1, ShapeDetect DEF RejectReference
<1>2. CASE SkipReference
  BY <1>2, ShapeDetect DEF SkipReference
<1>3. CASE DetectReference
  BY <1>3, ShapeDetect DEF DetectReference
<1>4. CASE FetchFails
  <2>1. PICK reason : OnReference([Current EXCEPT !.status = "failed", !.reason = reason], "detect")
    BY <1>4 DEF FetchFails
  <2>2. refs # <<>>
    BY <1>4 DEF FetchFails, Shape
  <2> QED
    BY <2>1, <2>2, Reworded, ReferenceSteps
<1>5. CASE FetchReturns
  <2>1. refs # <<>>
    BY <1>5 DEF FetchReturns, Shape
  <2>2. CASE Current.ref.capsule = Bad
    <3>1. OnReference([Current EXCEPT !.fetched = TRUE, !.status = "failed",
                                      !.reason = "REFERENCE_TRANSPORT_ERROR"], "detect")
      BY <1>5, <2>2 DEF FetchReturns
    <3> QED
      BY <2>1, <3>1, Reworded, ReferenceSteps
  <2>3. CASE Current.ref.capsule # Bad
    <3>1. OnReference([Current EXCEPT !.fetched = TRUE, !.status = "fetched"], "match")
      BY <1>5, <2>3 DEF FetchReturns
    <3> QED
      BY <2>1, <3>1, Reworded, ReferenceSteps
  <2> QED
    BY <2>2, <2>3
<1>6. CASE MatchReference
  <2>1. refs # <<>>
    BY <1>6 DEF MatchReference, Shape
  <2>2. CASE MatchErrors(Current.ref) = <<>>
    <3>1. OnReference(Current, "unpack")
      BY <1>6, <2>2 DEF MatchReference
    <3> QED
      BY <2>1, <3>1, Reworded, ReferenceSteps
  <2>3. CASE MatchErrors(Current.ref) # <<>>
    <3>1. PICK reason : OnReference([Current EXCEPT !.status = "failed", !.reason = reason], "detect")
      BY <1>6, <2>3 DEF MatchReference
    <3> QED
      BY <2>1, <3>1, Reworded, ReferenceSteps
  <2> QED
    BY <2>2, <2>3
<1>7. CASE RejectFetched
  <2>1. PICK reason : OnReference([Current EXCEPT !.status = "failed", !.reason = reason], "detect")
    BY <1>7 DEF RejectFetched
  <2>2. refs # <<>>
    BY <1>7 DEF RejectFetched, Shape
  <2> QED
    BY <2>1, <2>2, Reworded, ReferenceSteps
<1>8. CASE VerifyFetched
  <2>1. refs # <<>>
    BY <1>8 DEF VerifyFetched, Shape
  <2>2. PICK X : refs \in Seq(RefRecords(X))
    BY DEF Shape, Shaped
  <2>3. Current.ref.capsule \in Capsules \cup {Bad}
    BY <2>1, <2>2, CurrentTyped DEF RefRecords, Descriptors
  <2> QED
    BY <1>8, <2>1, <2>3, TaskTyped DEF VerifyFetched
<1>9. CASE NextMessage
  <2>1. m + 1 \in DOMAIN job.msgs
    <3>1. job.msgs \in Seq(Seq(Tokens))
      BY ReceiverAssumption DEF Shape, Job
    <3> QED
      BY <1>9, <3>1 DEF NextMessage, Shape
  <2>2. PICK X : Shaped(X, inline, refs, task)
    BY DEF Shape
  <2>3. Shaped(X, inline', refs', task')
    BY <1>9, <2>2 DEF NextMessage
  <2> QED
    BY <1>9, <2>1, <2>3 DEF NextMessage, Shape
<1> QED
  BY <1>1, <1>2, <1>3, <1>4, <1>5, <1>6, <1>7, <1>8, <1>9 DEF RefLoop

LEMMA ShapeUnpacking == ASSUME Shape, Unpacking PROVE Shape'
<1>1. PICK X : Shaped(X, inline, refs, task)
  BY DEF Shape
<1>2. CASE WriteFile
  <2> DEFINE files == Append(task.files, Parts(NextFile.path))
             Y == X \cup {task.entry + 1, files}
  <2>1. task' = [task EXCEPT !.entry = task.entry + 1, !.files = files]
    BY <1>1, <1>2 DEF WriteFile, Shaped, Tasks
  <2>2. Shaped(Y, inline, refs, task)
    BY <1>1, ShapeGrows
  <2>3. task' \in Tasks(Y) /\ task'.kind = task.kind
    <3> HIDE DEF files
    <3> QED
      BY <2>1, <2>2 DEF Shaped, Tasks
  <2> HIDE DEF Y
  <2>4. UNCHANGED <<now, job, pc, m, off, blocks, next, inline, refs>>
    BY <1>2 DEF WriteFile
  <2>5. Shaped(Y, inline', refs', task')
    BY <2>2, <2>3, <2>4 DEF Shaped
  <2> QED
    BY <2>3, <2>4, <2>5 DEF Shape
<1>3. ASSUME pc = "write", NEW status, NEW reason, NEW files, NEW changed,
             NEW s, NEW f, task.kind = "reference" => ForCurrent(changed, s, f),
             Finish(InlineResult(task.capsule, status, reason, files), changed)
      PROVE  Shape'
  <2>1. CASE task.kind = "inline"
    <3>1. task.capsule \in Capsules \cup {Bad}
      BY <1>1 DEF Shaped, Tasks
    <3>2. /\ inline' = Append(inline, InlineResult(task.capsule, status, reason, files))
          /\ task' \in {task, IdleTask} /\ next' = next + 1 /\ pc' = "inline"
          /\ UNCHANGED <<now, job, m, off, blocks, refs>>
      BY <1>3, <2>1 DEF Finish
    <3> QED
      BY <3>1, <3>2, ShapeInlineResult
  <2>2. CASE task.kind = "reference"
    <3>1. refs # <<>>
      BY <1>3, <2>2 DEF Shape
    <3>2. PICK Z : changed \in RefRecords(Z)
      BY <1>3, <2>2 DEF ForCurrent
    <3>3. /\ SetRef(changed) /\ task' \in {task, IdleTask} /\ pc' = "detect"
          /\ UNCHANGED <<now, job, m, off, blocks, next, inline>>
      BY <1>3, <2>2 DEF Finish
    <3> QED
      BY <3>1, <3>2, <3>3, ShapeRefResult
  <2> QED
    BY <1>3, <2>1, <2>2 DEF Shape
<1>4. CASE UnpackFails
  <2>1. PICK error : Finish(InlineResult(task.capsule, "invalid", InlineReason(error), <<>>),
                            [Current EXCEPT !.status = "failed", !.reason = RefReason(error)])
    BY <1>4 DEF UnpackFails, Current
  <2>2. pc = "write" /\ (task.kind = "reference" => refs # <<>>)
    BY <1>4 DEF UnpackFails, Shape
  <2>3. task.kind = "reference" =>
          ForCurrent([Current EXCEPT !.status = "failed", !.reason = RefReason(error)], "failed", Current.fetched)
    BY <2>2, Reworded
  <2> QED
    BY <1>3, <2>1, <2>2, <2>3
<1>5. CASE UnpackDone
  <2>1. Finish(InlineResult(task.capsule, "unpacked", "none", task.files),
               [Current EXCEPT !.status = "unpacked", !.files = task.files])
    BY <1>5 DEF UnpackDone, Current
  <2>2. pc = "write" /\ (task.kind = "reference" => refs # <<>>)
    BY <1>5 DEF UnpackDone, Shape
  <2>3. task.kind = "reference" =>
          ForCurrent([Current EXCEPT !.status = "unpacked", !.files = task.files], "unpacked", Current.fetched)
    BY <2>2, Reworded
  <2> QED
    BY <1>3, <2>1, <2>2, <2>3
<1> QED
  BY <1>2, <1>4, <1>5 DEF Unpacking

\* Every run starts from the state of the first one, apart from clock and disk.
LEMMA ShapeRestart == ASSUME Shape, Restart PROVE Shape'
<1>1. PICK X : IdleTask \in Tasks(X)
  BY IdleTyped
<1>2. Shaped(X, inline', refs', task')
  BY <1>1 DEF Restart, Shaped
<1>3. job' \in Jobs /\ job'.msgs # <<>> /\ job'.msgs \in Seq(Seq(Tokens))
  BY ReceiverAssumption DEF Restart, Job
<1>4. m' \in DOMAIN job'.msgs
  BY <1>3, EmptySeq DEF Restart
<1> QED
  BY <1>2, <1>3, <1>4 DEF Restart, Shape, StartOf

LEMMA ShapeStep == Shape /\ [Next]_vars => Shape'
<1> SUFFICES ASSUME Shape, [Next]_vars PROVE Shape'
  OBVIOUS
<1>1. CASE Step
  <2>1. CASE Done
    BY <2>1, ShapeQuiet DEF Done, Shape
  <2> QED
    BY <1>1, <2>1, ShapeScanning, ShapeExtracting, ShapeInlineLoop, ShapeUnpacking, ShapeRefLoop
       DEF Step
<1>2. CASE Tick
  <2>1. now' \in Times
    BY <1>2, TrustAssumption DEF Tick, Shape, Times
  <2>2. PICK X : Shaped(X, inline, refs, task)
    BY DEF Shape
  <2>3. Shaped(X, inline', refs', task')
    BY <1>2, <2>2 DEF Tick
  <2> QED
    BY <1>2, <2>1, <2>3 DEF Tick, Shape
<1>3. CASE TornWrite
  BY <1>3, ShapeQuiet DEF TornWrite, Shape
<1>4. CASE Crash
  BY <1>4, ShapeQuiet DEF Crash, Shape
<1>5. CASE Rest \/ UNCHANGED vars
  BY <1>5, ShapeQuiet DEF Rest, vars, Shape
<1> QED
  BY <1>1, <1>2, <1>3, <1>4, <1>5, ShapeRestart DEF Next

-----------------------------------------------------------------------------
\* What is accepted, and what is known of an item on the way there.

Fetched(x) == x.fetched /\ x.ref.valid /\ x.ref.uri = "public" /\ x.ref.capsule # Bad

GoodBlock(x, o, t) == Accepted(x) => PassedBy(x.capsule, o, t)

GoodReference(x, o, t) ==
    Accepted(x) => /\ Fetched(x) /\ x.ref.capsule.content = x.ref.payload
                   /\ PassedBy(x.ref.capsule, o, t)

OnTheWay ==
    /\ pc = "fetch" => Current.ref.valid
    /\ pc \in {"match", "unpack"} => Fetched(Current)
    /\ pc = "unpack" => Current.ref.capsule.claim = Current.ref.payload
    /\ pc = "write" => PassedBy(task.capsule, Opts, now)
    /\ pc = "write" /\ task.kind = "reference" =>
          /\ Fetched(Current) /\ task.capsule = Current.ref.capsule
          /\ Current.ref.capsule.claim = Current.ref.payload

Items ==
    /\ \A i \in DOMAIN inline : GoodBlock(inline[i], Opts, now)
    /\ \A i \in DOMAIN refs : GoodReference(refs[i], Opts, now)
    /\ OnTheWay

\* An item stays good as time passes.
LEMMA GoodLater ==
    ASSUME NEW x, NEW o, NEW t \in Nat
    PROVE  /\ GoodBlock(x, o, t) => GoodBlock(x, o, t + 1)
           /\ GoodReference(x, o, t) => GoodReference(x, o, t + 1)
           /\ \A c : PassedBy(c, o, t) => PassedBy(c, o, t + 1)
<1>1. \A c : PassedBy(c, o, t) => PassedBy(c, o, t + 1)
  <2> SUFFICES ASSUME NEW c, PassedBy(c, o, t) PROVE PassedBy(c, o, t + 1)
    OBVIOUS
  <2>1. PICK s \in 0..t : Passes(c, o, s)
    BY DEF PassedBy
  <2>2. s \in 0..(t + 1)
    OBVIOUS
  <2> QED
    BY <2>1, <2>2 DEF PassedBy
<1> QED
  BY <1>1 DEF GoodBlock, GoodReference

\* What passes when it is checked has passed by now.
LEMMA PassedNow ==
    ASSUME Shape, NEW c \in Capsules, VerifyErrors(c, Opts, now) = <<>>
    PROVE  PassedBy(c, Opts, now)
<1>1. Opts \in Options /\ now \in Times /\ now \in 0..now
  BY JobTyped, TrustAssumption DEF Shape, Times
<1>2. Passes(c, Opts, now)
  BY <1>1, VerifySound
<1> QED
  BY <1>1, <1>2 DEF PassedBy

LEMMA ItemsInit == Init => Items
  BY DEF Init, Items, OnTheWay, StartOf

\* A step that leaves the results, the task and the clock alone.
LEMMA ItemsQuiet ==
    ASSUME Items, UNCHANGED <<now, job, inline, refs, task>>,
           pc' = pc \/ pc' \notin {"fetch", "match", "unpack", "write"}
    PROVE  Items'
  BY DEF Items, OnTheWay, Opts, Current

\* The current reference is reported anew.
LEMMA ItemsReference ==
    ASSUME Shape, Items, refs # <<>>, NEW changed, NEW status, NEW fetched,
           ForCurrent(changed, status, fetched), SetRef(changed), UNCHANGED <<now, job, inline>>,
           GoodReference(changed, Opts, now),
           pc' \in {"detect", "match", "unpack"},
           pc' \in {"match", "unpack"} => Fetched(changed),
           pc' = "unpack" => changed.ref.capsule.claim = changed.ref.payload
    PROVE  Items'
<1>1. PICK Z : changed \in RefRecords(Z)
  BY DEF ForCurrent
<1>2. PICK X : refs \in Seq(RefRecords(X))
  BY DEF Shape, Shaped
<1> DEFINE Y == X \cup Z
<1>3. refs \in Seq(RefRecords(Y)) /\ changed \in RefRecords(Y)
  <2>1. RefRecords(X) \subseteq RefRecords(Y) /\ RefRecords(Z) \subseteq RefRecords(Y)
    BY DEF RefRecords
  <2> QED
    BY <1>1, <1>2, <2>1, SeqMonotonic
<1> HIDE DEF Y
<1>4. /\ refs' \in Seq(RefRecords(Y)) /\ Len(refs') = Len(refs) /\ refs'[Len(refs)] = changed
      /\ \A i \in 1..Len(refs) : i # Len(refs) => refs'[i] = refs[i]
  BY <1>3, RefReplaced
<1>5. DOMAIN refs' = 1..Len(refs) /\ DOMAIN refs = 1..Len(refs)
  BY <1>3, <1>4, LenProperties
<1>6. Current' = changed
  BY <1>4 DEF Current
<1>7. \A i \in DOMAIN refs' : GoodReference(refs'[i], Opts', now')
  BY <1>4, <1>5 DEF Items, Opts
<1>8. \A i \in DOMAIN inline' : GoodBlock(inline'[i], Opts', now')
  BY DEF Items, Opts
<1> QED
  BY <1>6, <1>7, <1>8 DEF Items, OnTheWay

\* A new reference is reported, and nothing is accepted yet.
LEMMA ItemsDetect ==
    ASSUME Shape, Items, References(Msg, off) # {}, NEW status, NEW reason, NEW place,
           status # "unpacked", Detect(status, reason, place),
           place \in {"detect", "fetch"},
           place = "fetch" => Msg[First(References(Msg, off))].ref.valid
    PROVE  Items'
<1> DEFINE d == Msg[First(References(Msg, off))].ref
           added == RefResult(d, status, reason)
<1>1. PICK X : refs \in Seq(RefRecords(X))
  BY DEF Shape, Shaped
<1> DEFINE Y == X \cup {m, status, reason, <<>>}
<1>2. added \in RefRecords(Y) /\ added.status = status /\ added.ref = d
  BY NextReference DEF Shape, RefRecords, RefResult
<1>3. refs \in Seq(RefRecords(Y))
  <2>1. RefRecords(X) \subseteq RefRecords(Y)
    BY DEF RefRecords
  <2> QED
    BY <1>1, <2>1, SeqMonotonic
<1>4. refs' = Append(refs, added) /\ pc' = place /\ UNCHANGED <<now, job, inline, task>>
  BY DEF Detect
<1>5. place = "fetch" => added.ref.valid
  BY <1>2
<1> HIDE DEF added, Y, d
<1>6. /\ Len(refs') = Len(refs) + 1 /\ refs'[Len(refs')] = added
      /\ DOMAIN refs' = 1..(Len(refs) + 1) /\ DOMAIN refs = 1..Len(refs)
      /\ \A i \in 1..Len(refs) : refs'[i] = refs[i]
  BY <1>2, <1>3, <1>4, AppendProperties, LenProperties
<1>7. \A i \in DOMAIN refs' : GoodReference(refs'[i], Opts', now')
  <2>1. GoodReference(added, Opts, now)
    BY <1>2 DEF GoodReference, Accepted
  <2>2. Len(refs) \in Nat /\ refs'[Len(refs) + 1] = added
    BY <1>3, <1>6, LenProperties
  <2> QED
    BY <1>4, <1>6, <2>1, <2>2 DEF Items, Opts
<1>8. Current' = added
  BY <1>6 DEF Current
<1> QED
  BY <1>4, <1>5, <1>7, <1>8 DEF Items, OnTheWay, Opts

\* A new inline result.
LEMMA ItemsInlineResult ==
    ASSUME Shape, Items, NEW c \in Capsules \cup {Bad}, NEW status, NEW reason, NEW files,
           inline' = Append(inline, InlineResult(c, status, reason, files)),
           UNCHANGED <<now, job, refs>>, pc' = "inline",
           status = "unpacked" => PassedBy(c, Opts, now)
    PROVE  Items'
<1> DEFINE added == InlineResult(c, status, reason, files)
<1>1. PICK X : inline \in Seq(InlineRecords(X))
  BY DEF Shape, Shaped
<1> DEFINE Y == X \cup {m, status, reason, files}
<1>2. added \in InlineRecords(Y) /\ added.status = status /\ added.capsule = c
  BY DEF InlineRecords, InlineResult
<1>3. inline \in Seq(InlineRecords(Y))
  <2>1. InlineRecords(X) \subseteq InlineRecords(Y)
    BY DEF InlineRecords
  <2> QED
    BY <1>1, <2>1, SeqMonotonic
<1>4. inline' = Append(inline, added)
  OBVIOUS
<1> HIDE DEF added, Y
<1>5. /\ DOMAIN inline' = 1..(Len(inline) + 1) /\ DOMAIN inline = 1..Len(inline)
      /\ inline'[Len(inline) + 1] = added /\ Len(inline) \in Nat
      /\ \A i \in 1..Len(inline) : inline'[i] = inline[i]
  BY <1>2, <1>3, <1>4, AppendProperties, LenProperties
<1>6. GoodBlock(added, Opts, now)
  BY <1>2 DEF GoodBlock, Accepted
<1>7. \A i \in DOMAIN inline' : GoodBlock(inline'[i], Opts', now')
  BY <1>5, <1>6 DEF Items, Opts
<1> QED
  BY <1>7 DEF Items, OnTheWay, Opts

LEMMA ItemsInlineLoop == ASSUME Shape, Items, InlineLoop PROVE Items'
<1>1. CASE RejectBlock
  <2>1. blocks[next] \in Capsules
    BY <1>1 DEF RejectBlock, Shape
  <2>2. PICK reason : inline' = Append(inline, InlineResult(blocks[next], "invalid", reason, <<>>))
    BY <1>1 DEF RejectBlock
  <2>3. pc' = "inline" /\ UNCHANGED <<now, job, refs>>
    BY <1>1 DEF RejectBlock
  <2>4. "invalid" # "unpacked"
    OBVIOUS
  <2> QED
    BY <2>1, <2>2, <2>3, <2>4, ItemsInlineResult
<1>2. CASE VerifyBlock
  <2>1. blocks[next] \in Capsules
    BY <1>2 DEF VerifyBlock, Shape
  <2>2. PassedBy(blocks[next], Opts, now)
    BY <1>2, <2>1, PassedNow DEF VerifyBlock
  <2>3. task'.capsule = blocks[next] /\ task'.kind = "inline" /\ pc' = "write"
        /\ UNCHANGED <<now, job, inline, refs>>
    BY <1>2 DEF VerifyBlock, TaskFor
  <2> QED
    BY <2>2, <2>3 DEF Items, OnTheWay, Opts
<1>3. CASE InlineEnd
  BY <1>3, ItemsQuiet DEF InlineEnd
<1> QED
  BY <1>1, <1>2, <1>3 DEF InlineLoop

LEMMA ItemsUnpacking == ASSUME Shape, Items, Unpacking PROVE Items'
<1>1. PICK X : Shaped(X, inline, refs, task)
  BY DEF Shape
<1>2. pc = "write" /\ PassedBy(task.capsule, Opts, now) /\ task.capsule \in Capsules \cup {Bad}
  BY <1>1 DEF Unpacking, WriteFile, UnpackFails, UnpackDone, Items, OnTheWay, Shaped, Tasks
<1>3. CASE WriteFile
  <2>1. task'.capsule = task.capsule /\ task'.kind = task.kind
    BY <1>1, <1>3 DEF WriteFile, Shaped, Tasks
  <2>2. UNCHANGED <<now, job, pc, inline, refs>>
    BY <1>3 DEF WriteFile
  <2> QED
    BY <2>1, <2>2 DEF Items, OnTheWay, Opts, Current
<1>4. ASSUME NEW status, NEW reason, NEW files, NEW changed, NEW s, NEW f,
             Finish(InlineResult(task.capsule, status, reason, files), changed),
             task.kind = "reference" => ForCurrent(changed, s, f) /\ GoodReference(changed, Opts, now)
      PROVE  Items'
  <2>1. CASE task.kind = "inline"
    <3>1. /\ inline' = Append(inline, InlineResult(task.capsule, status, reason, files))
          /\ pc' = "inline" /\ UNCHANGED <<now, job, refs>>
      BY <1>4, <2>1 DEF Finish
    <3> QED
      BY <1>2, <3>1, ItemsInlineResult
  <2>2. CASE task.kind = "reference"
    <3>1. SetRef(changed) /\ pc' = "detect" /\ UNCHANGED <<now, job, inline>>
      BY <1>4, <2>2 DEF Finish
    <3>2. refs # <<>>
      BY <1>2, <2>2 DEF Shape
    <3> QED
      BY <1>4, <2>2, <3>1, <3>2, ItemsReference
  <2> QED
    BY <1>2, <2>1, <2>2 DEF Shape
<1>5. task.kind = "reference" =>
        /\ refs # <<>> /\ Fetched(Current) /\ task.capsule = Current.ref.capsule
        /\ Current.ref.capsule.claim = Current.ref.payload
  BY <1>2 DEF Items, OnTheWay, Shape
<1>6. CASE UnpackFails
  <2>1. PICK error : Finish(InlineResult(task.capsule, "invalid", InlineReason(error), <<>>),
                            [Current EXCEPT !.status = "failed", !.reason = RefReason(error)])
    BY <1>6 DEF UnpackFails, Current
  <2> DEFINE changed == [Current EXCEPT !.status = "failed", !.reason = RefReason(error)]
  <2>2. task.kind = "reference" => ForCurrent(changed, "failed", Current.fetched)
    BY <1>5, Reworded
  <2> HIDE DEF changed
  <2>3. task.kind = "reference" => GoodReference(changed, Opts, now)
    BY <2>2 DEF ForCurrent, GoodReference, Accepted
  <2> QED
    BY <1>4, <2>1, <2>2, <2>3 DEF changed
<1>7. CASE UnpackDone
  <2> DEFINE changed == [Current EXCEPT !.status = "unpacked", !.files = task.files]
  <2>1. Finish(InlineResult(task.capsule, "unpacked", "none", task.files), changed)
    BY <1>7 DEF UnpackDone, Current
  <2>2. task.kind = "reference" => ForCurrent(changed, "unpacked", Current.fetched)
    BY <1>5, Reworded
  <2> HIDE DEF changed
  <2>3. PassedBy(task.capsule, Opts, now) => task.capsule.content = task.capsule.claim
    BY DEF PassedBy, Passes, Intact
  <2>4. task.kind = "reference" => GoodReference(changed, Opts, now)
    BY <1>2, <1>5, <2>2, <2>3 DEF ForCurrent, GoodReference, Fetched
  <2> QED
    BY <1>4, <2>1, <2>2, <2>4
<1> QED
  BY <1>3, <1>6, <1>7 DEF Unpacking

\* No error in the comparison with the descriptor: the headers claim its digest.
LEMMA MatchSound ==
    ASSUME NEW d, MatchErrors(d) = <<>>
    PROVE  d.capsule.claim = d.payload
<1> DEFINE r == "REFERENCE_PAYLOAD_HASH_MISMATCH"
           S == Reasons \cup {r}
           e == Raises(d.capsule.claim # d.payload, r)
<1>1. ParseErrors(d.capsule) \in Seq(S)
  <2>1. <<"CAPSULE_PARSE_ERROR">> \in Seq(S) /\ <<>> \in Seq(S)
    BY Codes, SeqMonotonic
  <2> QED
    BY <2>1 DEF ParseErrors, Raises
<1>2. MatchErrors(d) = ParseErrors(d.capsule) \o e
  BY Zenon DEF MatchErrors
<1>3. r \in S
  OBVIOUS
<1> HIDE DEF r, S
<1>4. e \in Seq(S) /\ (e = <<>> => d.capsule.claim = d.payload)
  BY <1>3 DEF Raises
<1> HIDE DEF e
<1> QED
  BY <1>1, <1>2, <1>4, ConcatEqualIffEmpty

LEMMA ItemsRefLoop == ASSUME Shape, Items, RefLoop PROVE Items'
<1>1. CASE RejectReference \/ SkipReference
  <2>1. PICK status, reason : Detect(status, reason, "detect") /\ status # "unpacked"
    BY <1>1 DEF RejectReference, SkipReference
  <2>2. References(Msg, off) # {}
    BY <1>1 DEF RejectReference, SkipReference
  <2> QED
    BY <2>1, <2>2, ItemsDetect
<1>2. CASE DetectReference
  <2>1. "detected" # "unpacked"
    OBVIOUS
  <2> QED
    BY <1>2, <2>1, ItemsDetect DEF DetectReference
<1>3. ASSUME NEW changed, NEW status, NEW fetched, NEW place \in {"detect", "match", "unpack"},
             refs # <<>>, status # "unpacked", ForCurrent(changed, status, fetched),
             OnReference(changed, place),
             place # "detect" => Fetched(changed),
             place = "unpack" => changed.ref.capsule.claim = changed.ref.payload
      PROVE  Items'
  <2>1. GoodReference(changed, Opts, now)
    BY <1>3 DEF ForCurrent, GoodReference, Accepted
  <2>2. SetRef(changed) /\ pc' = place /\ UNCHANGED <<now, job, inline>>
    BY <1>3 DEF OnReference
  <2> QED
    BY <1>3, <2>1, <2>2, ItemsReference
<1>4. ASSUME NEW reason, refs # <<>>,
             OnReference([Current EXCEPT !.status = "failed", !.reason = reason], "detect")
      PROVE  Items'
  <2>1. ForCurrent([Current EXCEPT !.status = "failed", !.reason = reason], "failed", Current.fetched)
    BY <1>4, Reworded
  <2>2. "failed" # "unpacked"
    OBVIOUS
  <2> QED
    BY <1>3, <1>4, <2>1, <2>2
<1>5. pc \in {"fetch", "match", "unpack"} => refs # <<>>
  BY DEF Shape
<1>6. CASE FetchFails
  BY <1>4, <1>5, <1>6 DEF FetchFails
<1>7. CASE FetchReturns
  <2>1. CASE Current.ref.capsule = Bad
    <3> DEFINE changed == [Current EXCEPT !.fetched = TRUE, !.status = "failed",
                                          !.reason = "REFERENCE_TRANSPORT_ERROR"]
    <3>1. OnReference(changed, "detect") /\ refs # <<>>
      BY <1>5, <1>7, <2>1 DEF FetchReturns
    <3>2. ForCurrent(changed, "failed", TRUE) /\ "failed" # "unpacked"
      BY <3>1, Reworded
    <3> HIDE DEF changed
    <3> QED
      BY <1>3, <3>1, <3>2
  <2>2. CASE Current.ref.capsule # Bad
    <3> DEFINE changed == [Current EXCEPT !.fetched = TRUE, !.status = "fetched"]
    <3>1. OnReference(changed, "match") /\ refs # <<>>
      BY <1>5, <1>7, <2>2 DEF FetchReturns
    <3>2. ForCurrent(changed, "fetched", TRUE) /\ "fetched" # "unpacked"
      BY <3>1, Reworded
    <3> HIDE DEF changed
    <3>3. Fetched(changed)
      BY <1>7, <2>2, <3>2 DEF FetchReturns, ForCurrent, Fetched, Items, OnTheWay
    <3> QED
      BY <1>3, <3>1, <3>2, <3>3
  <2> QED
    BY <2>1, <2>2
<1>8. CASE MatchReference
  <2>1. CASE MatchErrors(Current.ref) = <<>>
    <3>1. OnReference(Current, "unpack") /\ refs # <<>> /\ pc = "match"
      BY <1>5, <1>8, <2>1 DEF MatchReference
    <3>2. ForCurrent(Current, Current.status, Current.fetched)
      BY <3>1, Reworded
    <3>3. Current.ref.capsule.claim = Current.ref.payload
      BY <2>1, MatchSound
    <3>4. PICK X : refs \in Seq(RefRecords(X))
      BY DEF Shape, Shaped
    <3>5. Len(refs) \in DOMAIN refs
      BY <3>1, <3>4, EmptySeq
    <3>6. GoodReference(Current, Opts, now) /\ Fetched(Current)
      BY <3>1, <3>5 DEF Items, OnTheWay, Current
    <3>7. SetRef(Current) /\ pc' = "unpack" /\ UNCHANGED <<now, job, inline>>
      BY <3>1 DEF OnReference
    <3> QED
      BY <3>1, <3>2, <3>3, <3>6, <3>7, ItemsReference
  <2>2. CASE MatchErrors(Current.ref) # <<>>
    BY <1>4, <1>5, <1>8, <2>2 DEF MatchReference
  <2> QED
    BY <2>1, <2>2
<1>9. CASE RejectFetched
  BY <1>4, <1>5, <1>9 DEF RejectFetched
<1>10. CASE VerifyFetched
  <2>1. refs # <<>> /\ pc = "unpack" /\ VerifyErrors(Current.ref.capsule, Opts, now) = <<>>
    BY <1>5, <1>10 DEF VerifyFetched
  <2>2. PICK X : refs \in Seq(RefRecords(X))
    BY DEF Shape, Shaped
  <2>3. Fetched(Current) /\ Current.ref.capsule.claim = Current.ref.payload
    BY <2>1 DEF Items, OnTheWay
  <2>4. Current.ref.capsule \in Capsules
    BY <2>1, <2>2, <2>3, CurrentTyped DEF RefRecords, Descriptors, Fetched
  <2>5. PassedBy(Current.ref.capsule, Opts, now)
    BY <2>1, <2>4, PassedNow
  <2>6. /\ task'.capsule = Current.ref.capsule /\ pc' = "write"
        /\ UNCHANGED <<now, job, inline, refs>>
    BY <1>10 DEF VerifyFetched, TaskFor
  <2> QED
    BY <2>3, <2>5, <2>6 DEF Items, OnTheWay, Opts, Current
<1>11. CASE NextMessage
  BY <1>11, ItemsQuiet DEF NextMessage
<1> QED
  BY <1>1, <1>2, <1>6, <1>7, <1>8, <1>9, <1>10, <1>11 DEF RefLoop

LEMMA ItemsStep == Shape /\ Items /\ [Next]_vars => Items'
<1> SUFFICES ASSUME Shape, Items, [Next]_vars PROVE Items'
  OBVIOUS
<1>1. CASE Step
  <2>1. CASE Scanning
    <3>1. UNCHANGED <<now, job, inline, refs, task>> /\ (pc' = pc \/ pc' = "extract")
      BY <2>1, Zenon DEF Scanning, ScanBlock, ScanMalformed, ScanEnd, unscanned
    <3> QED
      BY <3>1, ItemsQuiet
  <2>2. CASE Extracting
    <3>1. UNCHANGED <<now, job, inline, refs, task>> /\ (pc' = pc \/ pc' = "inline")
      BY <2>2, Zenon DEF Extracting, ExtractBlock, ExtractMalformed, ExtractEnd
    <3> QED
      BY <3>1, ItemsQuiet
  <2>3. CASE Done
    BY <2>3, ItemsQuiet DEF Done
  <2> QED
    BY <1>1, <2>1, <2>2, <2>3, ItemsInlineLoop, ItemsUnpacking, ItemsRefLoop DEF Step
<1>2. CASE Tick
  <2>1. now \in Nat /\ now' = now + 1 /\ UNCHANGED <<job, pc, task, inline, refs>>
    BY <1>2, TrustAssumption DEF Tick, Shape, Times
  <2>2. /\ \A i \in DOMAIN inline' : GoodBlock(inline'[i], Opts', now')
        /\ \A i \in DOMAIN refs' : GoodReference(refs'[i], Opts', now')
    BY <2>1, GoodLater DEF Items, Opts
  <2>3. OnTheWay'
    BY <2>1, GoodLater DEF Items, OnTheWay, Opts, Current
  <2> QED
    BY <2>2, <2>3 DEF Items
<1>3. CASE TornWrite
  BY <1>3, ItemsQuiet DEF TornWrite
<1>4. CASE Crash
  BY <1>4, ItemsQuiet DEF Crash
<1>5. CASE Restart
  BY <1>5 DEF Restart, Items, OnTheWay, StartOf
<1>6. CASE Rest \/ UNCHANGED vars
  BY <1>6, ItemsQuiet DEF Rest, vars
<1> QED
  BY <1>1, <1>2, <1>3, <1>4, <1>5, <1>6 DEF Next

\* Shape is inductive, and with it Items.
LEMMA ItemsAlways == Spec => [](Shape /\ Items)
<1>1. Init => Shape /\ Items
  BY ShapeInit, ItemsInit
<1>2. Shape /\ Items /\ [Next]_vars => (Shape /\ Items)'
  BY ShapeStep, ItemsStep
<1> QED
  BY <1>1, <1>2, PTL DEF Spec

\* Whatever the messages hold, and whatever happens between the steps, a capsule
\* ingest_messages accepts met the whole policy at some time of the run: it is
\* intact, admitted by every rule, and signed by someone the options let sign.
THEOREM OnlyVerifiedIsAccepted == Spec => []AcceptedIsVerified
<1>1. Shape /\ Items => AcceptedIsVerified
  BY DEF Items, GoodBlock, GoodReference, AcceptedIsVerified
<1> QED
  BY <1>1, ItemsAlways, PTL

\* An accepted reference was fetched from an address the policy allows, and both
\* digests of its descriptor are those of what was unpacked.
THEOREM OnlyReferencedIsAccepted == Spec => []AcceptedIsWhatWasReferenced
<1>1. Shape /\ Items => AcceptedIsWhatWasReferenced
  BY DEF Items, GoodReference, Fetched, AcceptedIsWhatWasReferenced
<1> QED
  BY <1>1, ItemsAlways, PTL

-----------------------------------------------------------------------------
\* The files on disk.

\* A file of a capsule that met the options of some call by the time t.
GoodFile(f, t) ==
    /\ \E j \in Jobs : PassedBy(f.by, j.opts, t)
    /\ f.data \in {Bad} \cup FileContents(f.by)

OnDisk ==
    /\ pc = "write" => task.capsule \in Capsules /\ task.entry \in Nat \ {0}
    /\ \A f \in disk : GoodFile(f, now)

LEMMA NextFileIsContent ==
    ASSUME NEW c \in Capsules, NEW i \in Nat \ {0}, i <= Len(FilesToWrite(c))
    PROVE  FilesToWrite(c)[i].data \in FileContents(c)
<1>1. c.content.entries \in Seq(BundleEntry)
  BY DEF Capsules, Contents
<1>2. i \in DOMAIN FilesToWrite(c)
  <2>1. CASE c.ctype = "bundle"
    BY <1>1, <2>1, LenProperties DEF FilesToWrite
  <2>2. CASE c.ctype # "bundle"
    BY <2>2 DEF FilesToWrite
  <2> QED
    BY <2>1, <2>2
<1> QED
  BY <1>2 DEF FileContents

\* A step that writes no file and takes on no capsule.
LEMMA OnDiskQuiet ==
    ASSUME OnDisk, UNCHANGED <<now, disk>>, pc' # "write" \/ UNCHANGED <<pc, task>>
    PROVE  OnDisk'
  BY DEF OnDisk, GoodFile

\* What is written is a file of the capsule being unpacked.
LEMMA OnDiskPut ==
    ASSUME Shape, Items, OnDisk, pc = "write", NEW data, Put(data), now' = now,
           data \in {Bad} \cup FileContents(task.capsule)
    PROVE  \A f \in disk' : GoodFile(f, now')
<1>1. PassedBy(task.capsule, job.opts, now) /\ job \in Jobs
  BY DEF Items, OnTheWay, Shape, Opts
<1>2. SUFFICES ASSUME NEW f \in disk', f \notin disk
      PROVE  GoodFile(f, now)
  BY DEF OnDisk, GoodFile
<1>3. f.by = task.capsule /\ f.data = data
  BY <1>2 DEF Put
<1> QED
  BY <1>1, <1>3 DEF GoodFile

LEMMA OnDiskStep == Shape /\ Items /\ OnDisk /\ [Next]_vars => OnDisk'
<1> SUFFICES ASSUME Shape, Items, OnDisk, [Next]_vars PROVE OnDisk'
  OBVIOUS
<1>1. CASE Scanning
  <2>1. UNCHANGED <<now, disk>> /\ (UNCHANGED <<pc, task>> \/ pc' = "extract")
    BY <1>1, Zenon DEF Scanning, ScanBlock, ScanMalformed, ScanEnd, unscanned
  <2> QED
    BY <2>1, OnDiskQuiet
<1>2. CASE Extracting
  <2>1. UNCHANGED <<now, disk>> /\ (UNCHANGED <<pc, task>> \/ pc' = "inline")
    BY <1>2, Zenon DEF Extracting, ExtractBlock, ExtractMalformed, ExtractEnd
  <2> QED
    BY <2>1, OnDiskQuiet
<1>3. CASE InlineLoop
  <2>1. CASE RejectBlock
    <3>1. pc' = "inline" \/ UNCHANGED <<pc, task>>
      BY <2>1 DEF RejectBlock
    <3> QED
      BY <2>1, <3>1, OnDiskQuiet DEF RejectBlock
  <2>2. CASE VerifyBlock
    <3>1. blocks[next] \in Capsules
      BY <2>2 DEF VerifyBlock, Shape
    <3>2. task'.capsule = blocks[next] /\ task'.entry = 1 /\ UNCHANGED <<now, disk>>
      BY <2>2 DEF VerifyBlock, TaskFor
    <3> QED
      BY <3>1, <3>2 DEF OnDisk, GoodFile
  <2>3. CASE InlineEnd
    BY <2>3, OnDiskQuiet DEF InlineEnd
  <2> QED
    BY <1>3, <2>1, <2>2, <2>3 DEF InlineLoop
<1>4. CASE Unpacking
  <2>1. CASE WriteFile
    <3>1. /\ pc = "write" /\ Put(NextFile.data) /\ UNCHANGED <<now, pc>>
          /\ task.entry <= Len(FilesToWrite(task.capsule))
          /\ task' = [task EXCEPT !.entry = @ + 1, !.files = Append(@, Parts(NextFile.path))]
      BY <2>1 DEF WriteFile
    <3>2. task.capsule \in Capsules /\ task.entry \in Nat \ {0}
      BY <3>1 DEF OnDisk
    <3>3. NextFile.data \in FileContents(task.capsule)
      BY <3>1, <3>2, NextFileIsContent DEF NextFile
    <3>4. PICK X : task \in Tasks(X)
      BY DEF Shape, Shaped
    <3>5. task'.capsule = task.capsule /\ task'.entry = task.entry + 1
      BY <3>1, <3>4 DEF Tasks
    <3>6. \A f \in disk' : GoodFile(f, now')
      BY <3>1, <3>3, OnDiskPut
    <3> QED
      BY <3>2, <3>5, <3>6 DEF OnDisk
  <2>2. CASE UnpackFails \/ UnpackDone
    <3>1. pc' \in {"inline", "detect"} /\ UNCHANGED <<now, disk>>
      BY <2>2, Zenon DEF UnpackFails, UnpackDone, Finish
    <3> QED
      BY <3>1, OnDiskQuiet
  <2> QED
    BY <1>4, <2>1, <2>2 DEF Unpacking
<1>5. CASE RefLoop
  <2>1. CASE RefLoop /\ ~VerifyFetched
    <3>1. UNCHANGED <<now, disk>> /\ pc' # "write"
      BY <2>1, Zenon DEF RefLoop, RejectReference, SkipReference, DetectReference, Detect, FetchFails,
           FetchReturns, MatchReference, RejectFetched, NextMessage, OnReference
    <3> QED
      BY <3>1, OnDiskQuiet
  <2>2. CASE VerifyFetched
    <3>1. refs # <<>> /\ pc = "unpack" /\ Current.ref.capsule # Bad
      BY <2>2 DEF VerifyFetched, Shape, Items, OnTheWay, Fetched
    <3>2. PICK X : refs \in Seq(RefRecords(X))
      BY DEF Shape, Shaped
    <3>3. Current.ref.capsule \in Capsules
      BY <3>1, <3>2, CurrentTyped DEF RefRecords, Descriptors
    <3>4. task'.capsule = Current.ref.capsule /\ task'.entry = 1 /\ UNCHANGED <<now, disk>>
      BY <2>2 DEF VerifyFetched, TaskFor
    <3> QED
      BY <3>3, <3>4 DEF OnDisk, GoodFile
  <2> QED
    BY <1>5, <2>1, <2>2
<1>6. CASE Tick
  <2>1. now \in Nat /\ now' = now + 1 /\ UNCHANGED <<pc, task, disk>>
    BY <1>6, TrustAssumption DEF Tick, Shape, Times
  <2>2. ASSUME NEW f \in disk PROVE GoodFile(f, now + 1)
    <3>1. PICK j \in Jobs : PassedBy(f.by, j.opts, now)
      BY <2>2 DEF OnDisk, GoodFile
    <3>2. PassedBy(f.by, j.opts, now + 1)
      BY <2>1, <3>1, GoodLater
    <3> QED
      BY <2>2, <3>2 DEF OnDisk, GoodFile
  <2> QED
    BY <2>1, <2>2 DEF OnDisk
<1>7. CASE TornWrite
  <2>1. pc = "write" /\ Put(Bad) /\ pc' = "down" /\ UNCHANGED now
    BY <1>7 DEF TornWrite
  <2>2. \A f \in disk' : GoodFile(f, now')
    BY <2>1, OnDiskPut
  <2> QED
    BY <2>1, <2>2 DEF OnDisk
<1>8. CASE Done \/ Crash \/ Restart \/ Rest \/ UNCHANGED vars
  <2>1. UNCHANGED <<now, disk>> /\ (UNCHANGED <<pc, task>> \/ pc' \in {"done", "down", "scan", "extract"})
    BY <1>8 DEF Done, Crash, Restart, StartOf, Rest, vars
  <2> QED
    BY <2>1, OnDiskQuiet
<1> QED
  BY <1>1, <1>2, <1>3, <1>4, <1>5, <1>6, <1>7, <1>8 DEF Next, Step

\* Whatever an ingest run is given, and wherever it is killed, every file it
\* leaves, those of rejected items too, holds bytes of a capsule that met a
\* policy a run may be called with (receiver.py: unpacking waits for the verdict).
THEOREM OnlyVerifiedIsWritten == Spec => []OnlyVerifiedBytes
<1>1. Init => OnDisk
  BY DEF Init, OnDisk, StartOf
<1>2. OnDisk => OnlyVerifiedBytes
  BY DEF OnDisk, GoodFile, OnlyVerifiedBytes
<1> QED
  BY <1>1, <1>2, OnDiskStep, ItemsAlways, PTL DEF Spec

-----------------------------------------------------------------------------
\* The reports of single items.

\* An inline item is reported once, with its verdict.
SettledBlock(x) == x.status \in {"unpacked", "invalid"} /\ (x.reason = "none" <=> Accepted(x))

\* A reference has its verdict, or is still on its way to one.
SettledReference(x) ==
    x.status \in FinalStatuses /\ (x.reason = "none" <=> x.status \in {"unpacked", "skipped"})

OpenReference(x) == x.status \in {"detected", "fetched"} /\ x.reason = "none"

\* The places where the last reference is on its way.
AtReference == pc \in {"fetch", "match", "unpack"} \/ (pc = "write" /\ task.kind = "reference")

Settled ==
    /\ runs \in Nat
    /\ \A i \in DOMAIN inline : SettledBlock(inline[i])
    /\ \A i \in DOMAIN refs : i # Len(refs) => SettledReference(refs[i])
    /\ AtReference => OpenReference(Current)
    /\ ~AtReference /\ pc # "down" => \A i \in DOMAIN refs : SettledReference(refs[i])

\* What a step of a run keeps of the report.
Kept ==
    /\ \A i \in DOMAIN inline : i \in DOMAIN inline' /\ inline'[i] = inline[i]
    /\ \A i \in DOMAIN refs : refs[i].status \in FinalStatuses => i \in DOMAIN refs' /\ refs'[i] = refs[i]

\* The code a rejection is reported with is never the one that says it was none.
LEMMA ReasonGiven ==
    ASSUME NEW S, "none" \notin S, NEW errors \in Seq(S), errors # <<>>
    PROVE  InlineReason(Head(errors)) # "none" /\ RefReason(Head(errors)) # "none"
<1>1. Head(errors) \in S
  BY HeadTailProperties
<1> QED
  BY <1>1 DEF InlineReason, RefReason

LEMMA VerifyReason ==
    ASSUME NEW c \in Capsules, NEW o, NEW t, VerifyErrors(c, o, t) # <<>>
    PROVE  /\ InlineReason(Head(VerifyErrors(c, o, t))) # "none"
           /\ RefReason(Head(VerifyErrors(c, o, t))) # "none"
<1>1. VerifyErrors(c, o, t) \in Seq(Reasons)
  BY VerifyParts
<1>2. "none" \notin Reasons
  BY DEF Reasons
<1> QED
  BY <1>1, <1>2, ReasonGiven

LEMMA UnpackListed == UnpackErrors \in Seq(Reasons)
<1>1. \A file, dir : WriteErrors(file, dir) \in Seq(Reasons)
  <2> SUFFICES ASSUME NEW file, NEW dir PROVE WriteErrors(file, dir) \in Seq(Reasons)
    OBVIOUS
  <2> DEFINE e1 == Raises(~file.encoded, "OTHER")
             e2 == Raises(~file.metaOk, "UNPACK_FAILED")
             e3 == Raises(Unsafe(file.path), "UNPACK_FAILED")
             e4 == Raises(Blocked(FilesIn(dir) \ {Parts(file.path)}, Parts(file.path)), "OTHER")
  <2>1. "UNPACK_FAILED" \in Reasons /\ "OTHER" \in Reasons
    BY DEF Reasons
  <2>2. /\ e1 \in Seq(Reasons) /\ e2 \in Seq(Reasons)
        /\ e3 \in Seq(Reasons) /\ e4 \in Seq(Reasons)
    BY <2>1 DEF Raises
  <2>3. WriteErrors(file, dir) = e1 \o e2 \o e3 \o e4
    BY Zenon DEF WriteErrors
  <2> HIDE DEF e1, e2, e3, e4
  <2> QED
    BY <2>2, <2>3, ConcatProperties
<1>2. <<"UNPACK_FAILED">> \in Seq(Reasons)
  BY DEF Reasons
<1> QED
  BY <1>1, <1>2 DEF UnpackErrors

LEMMA UnpackReason ==
    ASSUME UnpackErrors # <<>>
    PROVE  InlineReason(Head(UnpackErrors)) # "none" /\ RefReason(Head(UnpackErrors)) # "none"
<1>1. "none" \notin Reasons
  BY DEF Reasons
<1> QED
  BY <1>1, UnpackListed, ReasonGiven

\* A record for a reference, with what is reported of it.
Reports(x, status, reason) == (\E Z : x \in RefRecords(Z)) /\ x.status = status /\ x.reason = reason

\* The current reference with what is reported of it changed.
LEMMA Rewritten ==
    ASSUME Shape, refs # <<>>, NEW status, NEW reason, NEW files
    PROVE  /\ Reports(Current, Current.status, Current.reason)
           /\ Reports([Current EXCEPT !.status = status, !.reason = reason], status, reason)
           /\ Reports([Current EXCEPT !.fetched = TRUE, !.status = status, !.reason = reason], status, reason)
           /\ Reports([Current EXCEPT !.fetched = TRUE, !.status = status], status, Current.reason)
           /\ Reports([Current EXCEPT !.status = status, !.files = files], status, Current.reason)
<1>1. PICK X : refs \in Seq(RefRecords(X))
  BY DEF Shape, Shaped
<1>2. Current \in RefRecords(X)
  BY <1>1, CurrentTyped
<1> DEFINE Z == X \cup {status, reason, files}
<1>3. /\ [Current EXCEPT !.status = status, !.reason = reason] \in RefRecords(Z)
      /\ [Current EXCEPT !.fetched = TRUE, !.status = status, !.reason = reason] \in RefRecords(Z)
      /\ [Current EXCEPT !.fetched = TRUE, !.status = status] \in RefRecords(Z)
      /\ [Current EXCEPT !.status = status, !.files = files] \in RefRecords(Z)
  BY <1>2 DEF RefRecords
<1> HIDE DEF Z
<1> QED
  BY <1>2, <1>3 DEF RefRecords, Reports

\* A step that reports nothing.
LEMMA SettledQuiet ==
    ASSUME Settled, UNCHANGED <<runs, inline, refs>>,
           \/ UNCHANGED pc /\ task'.kind = task.kind
           \/ pc' = "down"
           \/ ~AtReference /\ pc # "down" /\ ~AtReference'
           \/ AtReference /\ AtReference'
    PROVE  Settled' /\ Kept
  BY DEF Settled, Kept, AtReference, Current

\* The list of references after the last one is replaced.
LEMMA LastReplaced ==
    ASSUME Shape, refs # <<>>, NEW changed, \E Z : changed \in RefRecords(Z), SetRef(changed)
    PROVE  /\ DOMAIN refs' = 1..Len(refs) /\ DOMAIN refs = 1..Len(refs) /\ Len(refs') = Len(refs)
           /\ Len(refs) \in 1..Len(refs) /\ refs'[Len(refs)] = changed
           /\ \A i \in 1..Len(refs) : i # Len(refs) => refs'[i] = refs[i]
<1>1. PICK Z : changed \in RefRecords(Z)
  OBVIOUS
<1>2. PICK X : refs \in Seq(RefRecords(X))
  BY DEF Shape, Shaped
<1> DEFINE Y == X \cup Z
<1>3. refs \in Seq(RefRecords(Y)) /\ changed \in RefRecords(Y)
  <2>1. RefRecords(X) \subseteq RefRecords(Y) /\ RefRecords(Z) \subseteq RefRecords(Y)
    BY DEF RefRecords
  <2> QED
    BY <1>1, <1>2, <2>1, SeqMonotonic
<1> HIDE DEF Y
<1>4. /\ refs' \in Seq(RefRecords(Y)) /\ Len(refs') = Len(refs) /\ refs'[Len(refs)] = changed
      /\ \A i \in 1..Len(refs) : i # Len(refs) => refs'[i] = refs[i]
  BY <1>3, RefReplaced
<1>5. DOMAIN refs' = 1..Len(refs) /\ DOMAIN refs = 1..Len(refs)
  BY <1>3, <1>4, LenProperties
<1>6. Len(refs) \in 1..Len(refs)
  BY <1>3, EmptySeq
<1> QED
  BY <1>4, <1>5, <1>6

\* The last reference is reported anew.
LEMMA SettledOnReference ==
    ASSUME Shape, Settled, AtReference, refs # <<>>, NEW changed, \E Z : changed \in RefRecords(Z),
           SetRef(changed), UNCHANGED <<runs, inline>>, pc' # "down",
           AtReference' => OpenReference(changed),
           ~AtReference' => SettledReference(changed)
    PROVE  Settled' /\ Kept
<1>1. /\ DOMAIN refs' = 1..Len(refs) /\ DOMAIN refs = 1..Len(refs) /\ Len(refs') = Len(refs)
      /\ refs'[Len(refs)] = changed
      /\ \A i \in 1..Len(refs) : i # Len(refs) => refs'[i] = refs[i]
  BY LastReplaced
<1>2. Current' = changed
  BY <1>1 DEF Current
<1>3. refs[Len(refs)].status \notin FinalStatuses
  BY DEF Settled, OpenReference, FinalStatuses, Current
<1>4. Kept
  BY <1>1, <1>3 DEF Kept
<1>5. Settled'
  BY <1>1, <1>2 DEF Settled
<1> QED
  BY <1>4, <1>5

\* A new reference is reported.
LEMMA SettledDetect ==
    ASSUME Shape, Settled, pc = "detect", NEW status, NEW reason, NEW place,
           Detect(status, reason, place),
           LET x == RefResult(Msg[First(References(Msg, off))].ref, status, reason)
           IN \/ place = "detect" /\ SettledReference(x)
              \/ place = "fetch" /\ OpenReference(x)
    PROVE  Settled' /\ Kept
<1> DEFINE added == RefResult(Msg[First(References(Msg, off))].ref, status, reason)
<1>1. PICK X : refs \in Seq(RefRecords(X))
  BY DEF Shape, Shaped
<1>2. refs' = Append(refs, added) /\ pc' = place /\ UNCHANGED <<runs, inline>>
  BY DEF Detect
<1>3. (place = "detect" /\ SettledReference(added)) \/ (place = "fetch" /\ OpenReference(added))
  OBVIOUS
<1> HIDE DEF added
<1>4. /\ DOMAIN refs' = 1..(Len(refs) + 1) /\ DOMAIN refs = 1..Len(refs) /\ Len(refs) \in Nat
      /\ Len(refs') = Len(refs) + 1 /\ refs'[Len(refs) + 1] = added
      /\ \A i \in 1..Len(refs) : refs'[i] = refs[i]
  <2>1. refs \in Seq(RefRecords(X) \cup {added}) /\ added \in RefRecords(X) \cup {added}
    BY <1>1, SeqMonotonic
  <2> QED
    BY <1>2, <2>1, AppendProperties, LenProperties
<1>5. Current' = added
  BY <1>4 DEF Current
<1>6. \A i \in DOMAIN refs : SettledReference(refs[i])
  BY DEF Settled, AtReference
<1>7. Kept
  BY <1>2, <1>4 DEF Kept
<1>8. Settled'
  BY <1>2, <1>3, <1>4, <1>5, <1>6 DEF Settled, AtReference
<1> QED
  BY <1>7, <1>8

\* A new inline item is reported.
LEMMA SettledInline ==
    ASSUME Shape, Settled, ~AtReference, pc # "down", NEW added, SettledBlock(added),
           inline' = Append(inline, added), UNCHANGED <<runs, refs>>, pc' = "inline"
    PROVE  Settled' /\ Kept
<1>1. PICK X : inline \in Seq(InlineRecords(X))
  BY DEF Shape, Shaped
<1>2. /\ DOMAIN inline' = 1..(Len(inline) + 1) /\ DOMAIN inline = 1..Len(inline)
      /\ inline'[Len(inline) + 1] = added /\ Len(inline) \in Nat
      /\ \A i \in 1..Len(inline) : inline'[i] = inline[i]
  <2>1. inline \in Seq(InlineRecords(X) \cup {added}) /\ added \in InlineRecords(X) \cup {added}
    BY <1>1, SeqMonotonic
  <2> QED
    BY <2>1, AppendProperties, LenProperties
<1>3. Kept
  BY <1>2 DEF Kept
<1>4. \A i \in DOMAIN inline' : SettledBlock(inline'[i])
  BY <1>2 DEF Settled
<1>5. Settled'
  BY <1>4 DEF Settled, AtReference
<1> QED
  BY <1>3, <1>5

LEMMA SettledInlineLoop == ASSUME Shape, Settled, InlineLoop PROVE Settled' /\ Kept
<1>1. CASE RejectBlock
  <2> DEFINE reason == InlineReason(Head(VerifyErrors(blocks[next], Opts, now)))
             added  == InlineResult(blocks[next], "invalid", reason, <<>>)
  <2>1. blocks[next] \in Capsules /\ VerifyErrors(blocks[next], Opts, now) # <<>>
    BY <1>1 DEF RejectBlock, Shape
  <2>2. reason # "none"
    BY <2>1, VerifyReason
  <2>3. /\ inline' = Append(inline, added) /\ UNCHANGED <<runs, refs, pc>> /\ pc = "inline"
    BY <1>1 DEF RejectBlock
  <2> HIDE DEF reason
  <2>4. SettledBlock(added)
    BY <2>2 DEF InlineResult, SettledBlock, Accepted
  <2>5. ~AtReference
    BY <2>3 DEF AtReference
  <2> HIDE DEF added
  <2> QED
    BY <2>3, <2>4, <2>5, SettledInline
<1>2. CASE VerifyBlock
  <2>1. pc = "inline" /\ pc' = "write" /\ task'.kind = "inline" /\ UNCHANGED <<runs, inline, refs>>
    BY <1>2 DEF VerifyBlock, TaskFor
  <2> QED
    BY <2>1, SettledQuiet DEF AtReference
<1>3. CASE InlineEnd
  <2>1. pc = "inline" /\ pc' = "detect" /\ UNCHANGED <<runs, inline, refs>>
    BY <1>3 DEF InlineEnd
  <2> QED
    BY <2>1, SettledQuiet DEF AtReference
<1> QED
  BY <1>1, <1>2, <1>3 DEF InlineLoop

LEMMA SettledUnpacking == ASSUME Shape, Settled, Unpacking PROVE Settled' /\ Kept
<1>1. CASE WriteFile
  <2>1. PICK X : task \in Tasks(X)
    BY DEF Shape, Shaped
  <2>2. task'.kind = task.kind /\ UNCHANGED <<runs, pc, inline, refs>>
    BY <1>1, <2>1 DEF WriteFile, Tasks
  <2> QED
    BY <2>2, SettledQuiet
<1>2. pc = "write" /\ (task.kind = "inline" \/ task.kind = "reference")
  BY DEF Unpacking, WriteFile, UnpackFails, UnpackDone, Shape
<1>3. ASSUME NEW added, NEW changed, Finish(added, changed),
             SettledBlock(added), task.kind = "reference" => SettledReference(changed),
             task.kind = "reference" => \E Z : changed \in RefRecords(Z)
      PROVE  Settled' /\ Kept
  <2>1. CASE task.kind = "inline"
    <3>1. inline' = Append(inline, added) /\ UNCHANGED <<runs, refs>> /\ pc' = "inline"
      BY <1>3, <2>1 DEF Finish
    <3>2. ~AtReference /\ pc # "down"
      BY <1>2, <2>1 DEF AtReference
    <3> QED
      BY <1>3, <3>1, <3>2, SettledInline
  <2>2. CASE task.kind = "reference"
    <3>1. SetRef(changed) /\ UNCHANGED <<runs, inline>> /\ pc' = "detect"
      BY <1>3, <2>2 DEF Finish
    <3>2. AtReference /\ ~AtReference' /\ refs # <<>>
      BY <1>2, <2>2, <3>1 DEF AtReference, Shape
    <3> QED
      BY <1>3, <2>2, <3>1, <3>2, SettledOnReference
  <2> QED
    BY <1>2, <2>1, <2>2
<1>4. task.kind = "reference" => refs # <<>> /\ OpenReference(Current)
  BY <1>2 DEF Settled, AtReference, Shape
<1>5. CASE UnpackFails
  <2> DEFINE error   == Head(UnpackErrors)
             added   == InlineResult(task.capsule, "invalid", InlineReason(error), <<>>)
             changed == [Current EXCEPT !.status = "failed", !.reason = RefReason(error)]
  <2>1. Finish(added, changed) /\ UnpackErrors # <<>>
    BY <1>5 DEF UnpackFails, Current
  <2>2. InlineReason(error) # "none" /\ RefReason(error) # "none"
    BY <2>1, UnpackReason
  <2> HIDE DEF error
  <2>3. SettledBlock(added)
    BY <2>2 DEF InlineResult, SettledBlock, Accepted
  <2>4. task.kind = "reference" =>
          Reports(changed, "failed", RefReason(error))
    BY <1>4, Rewritten
  <2> HIDE DEF changed
  <2>5. task.kind = "reference" => SettledReference(changed)
    BY <2>2, <2>4 DEF SettledReference, FinalStatuses, Reports
  <2> HIDE DEF added
  <2> QED
    BY <1>3, <2>1, <2>3, <2>4, <2>5 DEF Reports
<1>6. CASE UnpackDone
  <2> DEFINE added   == InlineResult(task.capsule, "unpacked", "none", task.files)
             changed == [Current EXCEPT !.status = "unpacked", !.files = task.files]
  <2>1. Finish(added, changed)
    BY <1>6 DEF UnpackDone, Current
  <2>2. SettledBlock(added)
    BY DEF InlineResult, SettledBlock, Accepted
  <2>3. task.kind = "reference" =>
          Reports(changed, "unpacked", Current.reason)
    BY <1>4, Rewritten
  <2> HIDE DEF changed
  <2>4. task.kind = "reference" => SettledReference(changed)
    BY <1>4, <2>3 DEF SettledReference, OpenReference, FinalStatuses, Reports
  <2> HIDE DEF added
  <2> QED
    BY <1>3, <2>1, <2>2, <2>3, <2>4 DEF Reports
<1> QED
  BY <1>1, <1>5, <1>6 DEF Unpacking

\* What the comparison with the descriptor reports.
LEMMA MatchReason ==
    ASSUME NEW d, MatchErrors(d) # <<>>
    PROVE  Head(MatchErrors(d)) \in {"CAPSULE_PARSE_ERROR", "REFERENCE_PAYLOAD_HASH_MISMATCH"}
<1> DEFINE p == "CAPSULE_PARSE_ERROR"
           r == "REFERENCE_PAYLOAD_HASH_MISMATCH"
           S == {p, r}
           e == Raises(d.capsule.claim # d.payload, r)
<1>1. ParseErrors(d.capsule) = Raises(~d.capsule.wellFormed, p)
  BY Zenon DEF ParseErrors
<1>2. MatchErrors(d) = ParseErrors(d.capsule) \o e
  BY Zenon DEF MatchErrors
<1> HIDE DEF p, r
<1>3. p \in S /\ r \in S
  OBVIOUS
<1> HIDE DEF S
<1>4. e \in Seq(S) /\ ParseErrors(d.capsule) \in Seq(S)
  BY <1>1, <1>3 DEF Raises
<1> HIDE DEF e
<1>5. MatchErrors(d) \in Seq(S)
  BY <1>2, <1>4, ConcatProperties
<1> QED
  BY <1>5, HeadTailProperties DEF S, p, r

LEMMA SettledRefLoop == ASSUME Shape, Items, Settled, RefLoop PROVE Settled' /\ Kept
<1> DEFINE new(status, reason) == RefResult(Msg[First(References(Msg, off))].ref, status, reason)
<1>1. CASE RejectReference
  <2>1. SettledReference(new("invalid", "REFERENCE_DESCRIPTOR_INVALID"))
    BY DEF RefResult, SettledReference, FinalStatuses
  <2> QED
    BY <1>1, <2>1, SettledDetect DEF RejectReference
<1>2. CASE SkipReference
  <2>1. SettledReference(new("skipped", "none"))
    BY DEF RefResult, SettledReference, FinalStatuses
  <2> QED
    BY <1>2, <2>1, SettledDetect DEF SkipReference
<1>3. CASE DetectReference
  <2>1. OpenReference(new("detected", "none"))
    BY DEF RefResult, OpenReference
  <2> QED
    BY <1>3, <2>1, SettledDetect DEF DetectReference
<1>4. pc \in {"fetch", "match", "unpack"} => AtReference /\ refs # <<>> /\ OpenReference(Current)
  BY DEF Settled, AtReference, Shape
<1>5. ASSUME pc \in {"fetch", "match", "unpack"}, NEW reason, reason # "none",
             OnReference([Current EXCEPT !.status = "failed", !.reason = reason], "detect")
      PROVE  Settled' /\ Kept
  <2> DEFINE changed == [Current EXCEPT !.status = "failed", !.reason = reason]
  <2>1. SetRef(changed) /\ UNCHANGED <<runs, inline>> /\ pc' = "detect"
    BY <1>5 DEF OnReference
  <2>2. Reports(changed, "failed", reason)
    BY <1>4, <1>5, Rewritten
  <2> HIDE DEF changed
  <2>3. SettledReference(changed) /\ ~AtReference'
    BY <1>5, <2>1, <2>2 DEF SettledReference, FinalStatuses, AtReference, Reports
  <2> QED
    BY <1>4, <1>5, <2>1, <2>2, <2>3, SettledOnReference DEF Reports
<1>6. CASE FetchFails
  <2>1. PICK reason \in {"FETCH_BLOCKED_BY_POLICY", "REFERENCE_TRANSPORT_ERROR",
                         "REFERENCE_CAPSULE_HASH_MISMATCH"} :
             OnReference([Current EXCEPT !.status = "failed", !.reason = reason], "detect")
    BY <1>6 DEF FetchFails
  <2>2. reason # "none" /\ pc = "fetch"
    BY <1>6, <2>1 DEF FetchFails
  <2> QED
    BY <1>5, <2>1, <2>2
<1>7. CASE FetchReturns
  <2>1. pc = "fetch"
    BY <1>7 DEF FetchReturns
  <2>2. CASE Current.ref.capsule = Bad
    <3> DEFINE changed == [Current EXCEPT !.fetched = TRUE, !.status = "failed",
                                          !.reason = "REFERENCE_TRANSPORT_ERROR"]
    <3>1. SetRef(changed) /\ UNCHANGED <<runs, inline>> /\ pc' = "detect"
      BY <1>7, <2>2 DEF FetchReturns, OnReference
    <3>2. Reports(changed, "failed", "REFERENCE_TRANSPORT_ERROR")
      BY <1>4, <2>1, Rewritten
    <3> HIDE DEF changed
    <3>3. SettledReference(changed) /\ ~AtReference'
      BY <3>1, <3>2 DEF SettledReference, FinalStatuses, AtReference, Reports
    <3> QED
      BY <1>4, <2>1, <3>1, <3>2, <3>3, SettledOnReference DEF Reports
  <2>3. CASE Current.ref.capsule # Bad
    <3> DEFINE changed == [Current EXCEPT !.fetched = TRUE, !.status = "fetched"]
    <3>1. SetRef(changed) /\ UNCHANGED <<runs, inline>> /\ pc' = "match"
      BY <1>7, <2>3 DEF FetchReturns, OnReference
    <3>2. Reports(changed, "fetched", Current.reason)
      BY <1>4, <2>1, Rewritten
    <3> HIDE DEF changed
    <3>3. OpenReference(changed) /\ AtReference'
      BY <1>4, <2>1, <3>1, <3>2 DEF OpenReference, AtReference, Reports
    <3> QED
      BY <1>4, <2>1, <3>1, <3>2, <3>3, SettledOnReference DEF Reports
  <2> QED
    BY <2>2, <2>3
<1>8. CASE MatchReference
  <2>1. pc = "match"
    BY <1>8 DEF MatchReference
  <2>2. CASE MatchErrors(Current.ref) = <<>>
    <3>1. SetRef(Current) /\ UNCHANGED <<runs, inline>> /\ pc' = "unpack"
      BY <1>8, <2>2 DEF MatchReference, OnReference
    <3>2. Reports(Current, Current.status, Current.reason)
      BY <1>4, <2>1, Rewritten
    <3>3. AtReference'
      BY <3>1 DEF AtReference
    <3> QED
      BY <1>4, <2>1, <3>1, <3>2, <3>3, SettledOnReference DEF Reports
  <2>3. CASE MatchErrors(Current.ref) # <<>>
    BY <1>5, <1>8, <2>1, <2>3, MatchReason DEF MatchReference
  <2> QED
    BY <2>2, <2>3
<1>9. CASE RejectFetched
  <2>1. pc = "unpack" /\ VerifyErrors(Current.ref.capsule, Opts, now) # <<>>
    BY <1>9 DEF RejectFetched
  <2>2. Current.ref.capsule \in Capsules
    <3>1. refs # <<>> /\ Current.ref.capsule # Bad
      BY <1>4, <2>1 DEF Items, OnTheWay, Fetched
    <3>2. PICK X : refs \in Seq(RefRecords(X))
      BY DEF Shape, Shaped
    <3> QED
      BY <3>1, <3>2, CurrentTyped DEF RefRecords, Descriptors
  <2>3. RefReason(Head(VerifyErrors(Current.ref.capsule, Opts, now))) # "none"
    BY <2>1, <2>2, VerifyReason
  <2> QED
    BY <1>5, <1>9, <2>1, <2>3 DEF RejectFetched
<1>10. CASE VerifyFetched
  <2>1. pc = "unpack" /\ pc' = "write" /\ task'.kind = "reference" /\ UNCHANGED <<runs, inline, refs>>
    BY <1>10 DEF VerifyFetched, TaskFor
  <2> QED
    BY <2>1, SettledQuiet DEF AtReference
<1>11. CASE NextMessage
  <2>1. pc = "detect" /\ pc' = "extract" /\ UNCHANGED <<runs, inline, refs>>
    BY <1>11 DEF NextMessage
  <2> QED
    BY <2>1, SettledQuiet DEF AtReference
<1> QED
  BY <1>1, <1>2, <1>3, <1>6, <1>7, <1>8, <1>9, <1>10, <1>11 DEF RefLoop

LEMMA SettledStep == Shape /\ Items /\ Settled /\ [Next]_vars => Settled' /\ (runs' = runs => Kept)
<1> SUFFICES ASSUME Shape, Items, Settled, [Next]_vars PROVE Settled' /\ (runs' = runs => Kept)
  OBVIOUS
<1>1. CASE Scanning
  <2>1. UNCHANGED <<runs, inline, refs>> /\ (UNCHANGED <<pc, task>> \/ (pc = "scan" /\ pc' = "extract"))
    BY <1>1, Zenon DEF Scanning, ScanBlock, ScanMalformed, ScanEnd, unscanned
  <2> QED
    BY <2>1, SettledQuiet DEF AtReference
<1>2. CASE Extracting
  <2>1. UNCHANGED <<runs, inline, refs>> /\ (UNCHANGED <<pc, task>> \/ (pc = "extract" /\ pc' = "inline"))
    BY <1>2, Zenon DEF Extracting, ExtractBlock, ExtractMalformed, ExtractEnd
  <2> QED
    BY <2>1, SettledQuiet DEF AtReference
<1>3. CASE Done
  <2>1. UNCHANGED <<runs, inline, refs>> /\ pc = "detect" /\ pc' = "done"
    BY <1>3 DEF Done
  <2> QED
    BY <2>1, SettledQuiet DEF AtReference
<1>4. CASE Tick \/ Rest \/ UNCHANGED vars
  <2>1. UNCHANGED <<runs, pc, inline, refs, task>>
    BY <1>4 DEF Tick, Rest, vars
  <2> QED
    BY <2>1, SettledQuiet
<1>5. CASE TornWrite \/ Crash
  <2>1. UNCHANGED <<runs, inline, refs>> /\ pc' = "down"
    BY <1>5 DEF TornWrite, Crash
  <2> QED
    BY <2>1, SettledQuiet
<1>6. CASE Restart
  <2>1. /\ runs' = runs + 1 /\ inline' = <<>> /\ refs' = <<>> /\ pc' \in {"scan", "extract"}
        /\ runs \in Nat
    BY <1>6 DEF Restart, StartOf, Settled
  <2> QED
    BY <2>1 DEF Settled, AtReference
<1> QED
  BY <1>1, <1>2, <1>3, <1>4, <1>5, <1>6, SettledInlineLoop, SettledUnpacking, SettledRefLoop
     DEF Next, Step

LEMMA SettledAlways == Spec => [](Shape /\ Items /\ Settled)
<1>1. Init => Settled
  BY DEF Init, Settled, AtReference, StartOf
<1> QED
  BY <1>1, SettledStep, ItemsAlways, PTL DEF Spec

\* In the report of a finished run an item has no reason code if and only if it
\* was accepted or skipped (receiver.py, the counts of rejected_reasons_by_type).
THEOREM RejectionsAreExplained == Spec => []ReasonsAddUp
<1>1. Settled => ReasonsAddUp
  BY DEF Settled, AtReference, SettledBlock, SettledReference, ReasonsAddUp
<1> QED
  BY <1>1, SettledAlways, PTL

\* No step of a run changes an item that has its verdict: the error path of one
\* item cannot rewrite the report of another.
THEOREM VerdictsAreFinal == Spec => StatusIsFinal
<1>1. Shape /\ Items /\ Settled /\ [Next]_vars =>
        [ runs' = runs =>
          /\ \A i \in DOMAIN inline : i \in DOMAIN inline' /\ inline'[i] = inline[i]
          /\ \A i \in DOMAIN refs : refs[i].status \in FinalStatuses =>
                i \in DOMAIN refs' /\ refs'[i] = refs[i] ]_vars
  BY SettledStep DEF Kept
<1> QED
  BY <1>1, SettledAlways, PTL DEF Spec, StatusIsFinal

-----------------------------------------------------------------------------
\* The refinement: each step of the receiver is one the caller may think of.

\* The abstract receiver's acceptance is that of verify_capsule.
LEMMA SamePolicy ==
    ASSUME NEW c, NEW o, NEW t
    PROVE  Abstract!Passes(c, o, t) <=> Passes(c, o, t)
<1>1. Abstract!Intact(c, o) <=> Intact(c, o)
  BY Zenon DEF Intact, Abstract!Intact, KnownCodecs, Abstract!KnownCodecs,
     ManifestMatches, Abstract!ManifestMatches, DistinctPaths, Abstract!DistinctPaths,
     SingleMatches, Abstract!SingleMatches, BundleMatches, Abstract!BundleMatches,
     PathsOf, Abstract!PathsOf, PayloadName, Abstract!PayloadName, SafeName, Abstract!SafeName,
     DefaultName, Abstract!DefaultName, Parts, FlattenSeq, Abstract!Parts, Abstract!FlattenSeq, Last, Abstract!Last
<1>2. Abstract!Admitted(c, o.policy) <=> Admitted(c, o.policy)
  BY Zenon DEF Admitted, Abstract!Admitted
<1>3. Abstract!Authentic(c, o, t) <=> Authentic(c, o, t)
  BY Zenon DEF Authentic, Abstract!Authentic, Vouches, Abstract!Vouches,
     Revoked, Abstract!Revoked, Expired, Abstract!Expired
<1> QED
  BY <1>1, <1>2, <1>3 DEF Passes, Abstract!Passes

LEMMA SameContents == ASSUME NEW c PROVE Abstract!FileContents(c) = FileContents(c)
  BY Zenon DEF FileContents, Abstract!FileContents, FilesToWrite, Abstract!FilesToWrite,
     PayloadName, Abstract!PayloadName, SafeName, Abstract!SafeName,
     DefaultName, Abstract!DefaultName, Parts, FlattenSeq, Abstract!Parts, Abstract!FlattenSeq, Last, Abstract!Last

\* Malformed blocks are counted.
Counted == malformed \in Nat

LEMMA CountedStep == Counted /\ [Next]_vars => Counted'
<1> SUFFICES ASSUME Counted, [Next]_vars PROVE Counted'
  OBVIOUS
<1>1. CASE ExtractMalformed \/ Restart
  BY <1>1 DEF ExtractMalformed, Restart, Counted
<1>2. CASE Scanning \/ ExtractBlock \/ ExtractEnd \/ InlineLoop \/ Unpacking \/ RefLoop
  <2>1. UNCHANGED malformed
    BY <1>2, Zenon DEF Scanning, ScanBlock, ScanMalformed, ScanEnd, unscanned, ExtractBlock, ExtractEnd,
         InlineLoop, RejectBlock, VerifyBlock, InlineEnd, Unpacking, WriteFile, UnpackFails, UnpackDone,
         Finish, RefLoop, RejectReference, SkipReference, DetectReference, Detect, FetchFails,
         FetchReturns, MatchReference, RejectFetched, VerifyFetched, NextMessage, OnReference
  <2> QED
    BY <2>1 DEF Counted
<1>3. CASE Done \/ Rest \/ Tick \/ TornWrite \/ Crash \/ UNCHANGED vars
  BY <1>3 DEF Done, Rest, Tick, TornWrite, Crash, vars, Counted
<1> QED
  BY <1>1, <1>2, <1>3 DEF Next, Step, Extracting

\* The places where a run is at work, apart from the writing of an item.
Working == pc \notin {"write", "done", "down"}

\* The verdicts of two reports are the same.
SameVerdicts == UNCHANGED <<AcceptedCapsules, HasFailures>>

LEMMA StepStutters ==
    ASSUME Working, Working', UNCHANGED <<now, job, disk>>, SameVerdicts
    PROVE  UNCHANGED Abstract!vars
  BY DEF Working, SameVerdicts, Abstract!vars, Opts, Outcome

\* An item is rejected, before it is unpacked or while it is.
LEMMA StepRejects ==
    ASSUME pc \notin {"done", "down"}, Working', UNCHANGED <<now, job, disk>>,
           UNCHANGED AcceptedCapsules, HasFailures'
    PROVE  Abstract!Reject
  BY DEF Working, Abstract!Reject, Opts, Outcome

\* A capsule that passes is taken on.
LEMMA StepAdmits ==
    ASSUME Shape, Working, pc' = "write", UNCHANGED <<now, job, inline, refs, malformed, disk>>,
           NEW c \in Capsules, task'.capsule = c, VerifyErrors(c, Opts, now) = <<>>
    PROVE  Abstract!Admit
<1>1. Opts \in Options /\ now \in Times
  BY JobTyped DEF Shape
<1>2. Abstract!Passes(c, Opts, now)
  BY <1>1, VerifySound, SamePolicy
<1>3. SameVerdicts
  BY DEF SameVerdicts, AcceptedCapsules, Having, HasFailures
<1> QED
  BY <1>2, <1>3 DEF Working, SameVerdicts, Abstract!Admit, Opts, Outcome

\* The item that was unpacked is accepted.
LEMMA StepAccepts ==
    ASSUME pc = "write", Working', UNCHANGED <<now, job, disk>>,
           AcceptedCapsules' = AcceptedCapsules \cup {task.capsule}, UNCHANGED HasFailures
    PROVE  Abstract!Accept
  BY DEF Working, Abstract!Accept, Opts, Outcome

\* What a new inline result does to the verdicts.
LEMMA VerdictsInline ==
    ASSUME Shape, NEW added, inline' = Append(inline, added), UNCHANGED <<refs, malformed>>
    PROVE  /\ added.status = "unpacked" => AcceptedCapsules' = AcceptedCapsules \cup {added.capsule}
           /\ added.status # "unpacked" => UNCHANGED AcceptedCapsules
           /\ added.status = "invalid" => HasFailures'
           /\ added.status # "invalid" => UNCHANGED HasFailures
<1>1. PICK X : inline \in Seq(InlineRecords(X))
  BY DEF Shape, Shaped
<1>2. /\ DOMAIN inline' = 1..(Len(inline) + 1) /\ DOMAIN inline = 1..Len(inline)
      /\ inline'[Len(inline) + 1] = added /\ Len(inline) \in Nat
      /\ \A i \in 1..Len(inline) : inline'[i] = inline[i]
  <2>1. inline \in Seq(InlineRecords(X) \cup {added}) /\ added \in InlineRecords(X) \cup {added}
    BY <1>1, SeqMonotonic
  <2> QED
    BY <2>1, AppendProperties, LenProperties
<1> DEFINE caps  == { inline[i].capsule : i \in Having(inline, {"unpacked"}) }
           caps1 == { inline'[i].capsule : i \in Having(inline', {"unpacked"}) }
<1>3. added.status = "unpacked" => caps1 = caps \cup {added.capsule}
  BY <1>2 DEF Having
<1>4. added.status # "unpacked" => caps1 = caps
  BY <1>2 DEF Having
<1>5. /\ added.status = "invalid" => HasFailures'
      /\ added.status # "invalid" => UNCHANGED HasFailures
  BY <1>2 DEF HasFailures
<1>6. { refs'[i].ref.capsule : i \in Having(refs', {"unpacked"}) }
        = { refs[i].ref.capsule : i \in Having(refs, {"unpacked"}) }
  BY DEF Having
<1> QED
  BY <1>3, <1>4, <1>5, <1>6 DEF AcceptedCapsules

\* What a new reference does to them: it is not accepted when it is detected.
LEMMA VerdictsDetect ==
    ASSUME Shape, NEW added, refs' = Append(refs, added), UNCHANGED <<inline, malformed>>,
           added.status # "unpacked"
    PROVE  /\ UNCHANGED AcceptedCapsules
           /\ added.status \in {"invalid", "failed"} => HasFailures'
           /\ added.status \notin {"invalid", "failed"} => UNCHANGED HasFailures
<1>1. PICK X : refs \in Seq(RefRecords(X))
  BY DEF Shape, Shaped
<1>2. /\ DOMAIN refs' = 1..(Len(refs) + 1) /\ DOMAIN refs = 1..Len(refs)
      /\ refs'[Len(refs) + 1] = added /\ Len(refs) \in Nat
      /\ \A i \in 1..Len(refs) : refs'[i] = refs[i]
  <2>1. refs \in Seq(RefRecords(X) \cup {added}) /\ added \in RefRecords(X) \cup {added}
    BY <1>1, SeqMonotonic
  <2> QED
    BY <2>1, AppendProperties, LenProperties
<1>3. { refs'[i].ref.capsule : i \in Having(refs', {"unpacked"}) }
        = { refs[i].ref.capsule : i \in Having(refs, {"unpacked"}) }
  BY <1>2 DEF Having
<1>4. { inline'[i].capsule : i \in Having(inline', {"unpacked"}) }
        = { inline[i].capsule : i \in Having(inline, {"unpacked"}) }
  BY DEF Having
<1>5. /\ added.status \in {"invalid", "failed"} => HasFailures'
      /\ added.status \notin {"invalid", "failed"} => UNCHANGED HasFailures
  BY <1>2 DEF HasFailures
<1> QED
  BY <1>3, <1>4, <1>5 DEF AcceptedCapsules

\* What the verdict on the last reference does to them.
LEMMA VerdictsReference ==
    ASSUME Shape, Settled, AtReference, refs # <<>>, NEW changed, \E Z : changed \in RefRecords(Z),
           SetRef(changed), UNCHANGED <<inline, malformed>>
    PROVE  /\ changed.status = "unpacked" =>
                AcceptedCapsules' = AcceptedCapsules \cup {changed.ref.capsule}
           /\ changed.status # "unpacked" => UNCHANGED AcceptedCapsules
           /\ changed.status \in {"invalid", "failed"} => HasFailures'
           /\ changed.status \notin {"invalid", "failed"} => UNCHANGED HasFailures
<1>1. /\ DOMAIN refs' = 1..Len(refs) /\ DOMAIN refs = 1..Len(refs)
      /\ Len(refs) \in 1..Len(refs) /\ refs'[Len(refs)] = changed
      /\ \A i \in 1..Len(refs) : i # Len(refs) => refs'[i] = refs[i]
  BY LastReplaced
<1>2. refs[Len(refs)].status \in {"detected", "fetched"}
  BY DEF Settled, OpenReference, Current
<1> DEFINE caps  == { refs[i].ref.capsule : i \in Having(refs, {"unpacked"}) }
           caps1 == { refs'[i].ref.capsule : i \in Having(refs', {"unpacked"}) }
<1>3. changed.status = "unpacked" => caps1 = caps \cup {changed.ref.capsule}
  <2> SUFFICES ASSUME changed.status = "unpacked" PROVE caps1 = caps \cup {changed.ref.capsule}
    OBVIOUS
  <2>1. PICK old : old = Having(refs, {"unpacked"})
    OBVIOUS
  <2>2. Having(refs', {"unpacked"}) = old \cup {Len(refs)}
    BY <1>1, <2>1 DEF Having
  <2>3. \A i \in old : refs'[i] = refs[i]
    BY <1>1, <1>2, <2>1 DEF Having
  <2>4. caps1 = { refs'[i].ref.capsule : i \in old } \cup { refs'[Len(refs)].ref.capsule }
    BY <2>2
  <2>5. { refs'[i].ref.capsule : i \in old } = { refs[i].ref.capsule : i \in old }
    BY <2>3
  <2> QED
    BY <1>1, <2>1, <2>4, <2>5
<1>4. changed.status # "unpacked" => caps1 = caps
  BY <1>1, <1>2 DEF Having
<1>5. { inline'[i].capsule : i \in Having(inline', {"unpacked"}) }
        = { inline[i].capsule : i \in Having(inline, {"unpacked"}) }
  BY DEF Having
<1>6. /\ changed.status \in {"invalid", "failed"} => HasFailures'
      /\ changed.status \notin {"invalid", "failed"} => UNCHANGED HasFailures
  BY <1>1, <1>2 DEF HasFailures
<1> QED
  BY <1>3, <1>4, <1>5, <1>6 DEF AcceptedCapsules

\* A step that changes no verdict and no file.
LEMMA QuietStutters ==
    ASSUME Working, Working', UNCHANGED <<now, job, malformed, inline, refs, disk>>
    PROVE  UNCHANGED Abstract!vars
<1>1. SameVerdicts
  BY DEF SameVerdicts, AcceptedCapsules, Having, HasFailures
<1> QED
  BY <1>1, StepStutters

LEMMA RefinesScanning == ASSUME Scanning PROVE UNCHANGED Abstract!vars
<1>1. /\ UNCHANGED <<now, job, malformed, inline, refs, disk>>
      /\ pc = "scan" /\ (pc' = pc \/ pc' = "extract")
  BY Zenon DEF Scanning, ScanBlock, ScanMalformed, ScanEnd, unscanned
<1> QED
  BY <1>1, QuietStutters DEF Working

LEMMA RefinesExtracting == ASSUME Counted, Extracting PROVE [Abstract!Reject]_(Abstract!vars)
<1>1. CASE ExtractMalformed
  <2>1. pc = "extract" /\ Working' /\ UNCHANGED <<now, job, inline, refs, disk>> /\ malformed' # 0
    BY <1>1 DEF ExtractMalformed, Counted, Working
  <2>2. UNCHANGED AcceptedCapsules /\ HasFailures'
    BY <2>1 DEF AcceptedCapsules, Having, HasFailures
  <2> QED
    BY <2>1, <2>2, StepRejects
<1>2. CASE ExtractBlock \/ ExtractEnd
  <2>1. /\ UNCHANGED <<now, job, malformed, inline, refs, disk>>
        /\ pc = "extract" /\ (pc' = pc \/ pc' = "inline")
    BY <1>2, Zenon DEF ExtractBlock, ExtractEnd
  <2> QED
    BY <2>1, QuietStutters DEF Working
<1> QED
  BY <1>1, <1>2 DEF Extracting

LEMMA RefinesInlineLoop ==
    ASSUME Shape, InlineLoop
    PROVE  [Abstract!Reject \/ Abstract!Admit]_(Abstract!vars)
<1>1. CASE RejectBlock
  <2> DEFINE reason == InlineReason(Head(VerifyErrors(blocks[next], Opts, now)))
             added  == InlineResult(blocks[next], "invalid", reason, <<>>)
  <2>1. /\ inline' = Append(inline, added) /\ pc = "inline" /\ Working'
        /\ UNCHANGED <<now, job, malformed, refs, disk>>
    BY <1>1 DEF RejectBlock, Working
  <2>2. added.status = "invalid"
    BY DEF InlineResult
  <2> HIDE DEF added
  <2>3. UNCHANGED AcceptedCapsules /\ HasFailures'
    BY <2>1, <2>2, VerdictsInline
  <2> QED
    BY <2>1, <2>3, StepRejects
<1>2. CASE VerifyBlock
  <2>1. blocks[next] \in Capsules
    BY <1>2 DEF VerifyBlock, Shape
  <2>2. /\ pc = "inline" /\ pc' = "write" /\ task'.capsule = blocks[next]
        /\ UNCHANGED <<now, job, inline, refs, malformed, disk>>
        /\ VerifyErrors(blocks[next], Opts, now) = <<>>
    BY <1>2 DEF VerifyBlock, TaskFor
  <2> QED
    BY <2>1, <2>2, StepAdmits DEF Working
<1>3. CASE InlineEnd
  <2>1. UNCHANGED <<now, job, malformed, inline, refs, disk>> /\ pc = "inline" /\ pc' = "detect"
    BY <1>3 DEF InlineEnd
  <2> QED
    BY <2>1, QuietStutters DEF Working
<1> QED
  BY <1>1, <1>2, <1>3 DEF InlineLoop

\* The files as the caller sees them.
Stored == { [place |-> <<f.dir, f.path>>, data |-> f.data, by |-> f.by] : f \in disk }

\* A file put in its place replaces, of the files stored, the one at that place.
LEMMA PutReplaces ==
    ASSUME NEW data, Put(data)
    PROVE  Stored' = { x \in Stored : x.place # <<task.dir, Parts(NextFile.path)>> }
                     \cup {[place |-> <<task.dir, Parts(NextFile.path)>>, data |-> data, by |-> task.capsule]}
<1> DEFINE d     == task.dir
           p     == Parts(NextFile.path)
           new   == [dir |-> d, path |-> p, data |-> data, by |-> task.capsule]
           abs(g) == [place |-> <<g.dir, g.path>>, data |-> g.data, by |-> g.by]
<1>1. disk' = { g \in disk : g.dir # d \/ g.path # p } \cup {new}
  BY DEF Put
<1> HIDE DEF p, d
<1>2. abs(new) = [place |-> <<d, p>>, data |-> data, by |-> task.capsule]
  OBVIOUS
<1>3. \A g : abs(g).place # <<d, p>> <=> (g.dir # d \/ g.path # p)
  OBVIOUS
<1>4. { abs(g) : g \in disk' } = { x \in { abs(g) : g \in disk } : x.place # <<d, p>> } \cup {abs(new)}
  <2> HIDE DEF new, abs
  <2> QED
    BY <1>1, <1>3
<1> QED
  BY <1>2, <1>4 DEF Stored, d, p

LEMMA RefinesUnpacking ==
    ASSUME Shape, Items, OnDisk, Settled, Unpacking
    PROVE  Abstract!StoreFile \/ Abstract!Accept \/ Abstract!Reject
<1>1. /\ pc = "write" /\ (task.kind = "inline" \/ task.kind = "reference")
      /\ task.kind = "reference" => refs # <<>> /\ AtReference /\ task.capsule = Current.ref.capsule
  BY DEF Unpacking, WriteFile, UnpackFails, UnpackDone, Shape, AtReference, Items, OnTheWay
<1>2. CASE WriteFile
  <2> DEFINE f == [place |-> <<task.dir, Parts(NextFile.path)>>, data |-> NextFile.data, by |-> task.capsule]
  <2>1. /\ Put(NextFile.data) /\ UNCHANGED <<now, pc, job, malformed, inline, refs>>
        /\ task.entry <= Len(FilesToWrite(task.capsule))
        /\ task' = [task EXCEPT !.entry = @ + 1, !.files = Append(@, Parts(NextFile.path))]
    BY <1>2 DEF WriteFile
  <2>2. PICK X : task \in Tasks(X)
    BY DEF Shape, Shaped
  <2>3. task'.capsule = task.capsule
    BY <2>1, <2>2 DEF Tasks
  <2>4. Stored' = { x \in Stored : x.place # f.place } \cup {f}
    BY <2>1, PutReplaces
  <2>5. NextFile.data \in Abstract!FileContents(task.capsule)
    BY <1>1, <2>1, NextFileIsContent, SameContents DEF OnDisk, NextFile
  <2>6. f.by = task.capsule /\ f.data = NextFile.data
    OBVIOUS
  <2> HIDE DEF f
  <2>7. SameVerdicts
    BY <2>1 DEF SameVerdicts, AcceptedCapsules, Having, HasFailures
  <2> QED
    <3>1. \E g \in Stored' :
             /\ g.by \in (IF pc = "write" THEN {task.capsule} ELSE {})
             /\ g.data \in Abstract!FileContents(g.by)
             /\ Stored' = { x \in Stored : x.place # g.place } \cup {g}
      BY <1>1, <2>4, <2>5, <2>6
    <3>2. Outcome = "running" /\ UNCHANGED <<Opts, Outcome>>
      BY <1>1, <2>1 DEF Opts, Outcome
    <3> QED
      BY <1>1, <2>1, <2>3, <2>7, <3>1, <3>2 DEF Abstract!StoreFile, Abstract!Replaces, Stored, SameVerdicts
<1>3. ASSUME NEW added, NEW changed, Finish(added, changed),
             task.kind = "reference" => \E Z : changed \in RefRecords(Z)
      PROVE  /\ Working' /\ UNCHANGED <<now, job, disk, malformed>>
             /\ \/ task.kind = "inline" /\ inline' = Append(inline, added) /\ UNCHANGED refs
                \/ task.kind = "reference" /\ SetRef(changed) /\ UNCHANGED inline
  BY <1>1, <1>3 DEF Finish, Working
<1>4. CASE UnpackFails
  <2> DEFINE error   == Head(UnpackErrors)
             added   == InlineResult(task.capsule, "invalid", InlineReason(error), <<>>)
             changed == [Current EXCEPT !.status = "failed", !.reason = RefReason(error)]
  <2>1. Finish(added, changed)
    BY <1>4 DEF UnpackFails, Current
  <2>2. added.status = "invalid"
    BY DEF InlineResult
  <2>3. task.kind = "reference" => (\E Z : changed \in RefRecords(Z)) /\ changed.status = "failed"
    BY <1>1, Rewritten DEF Reports
  <2> HIDE DEF added, changed
  <2>4. UNCHANGED AcceptedCapsules /\ HasFailures'
    <3>1. CASE task.kind = "inline"
      BY <1>3, <2>1, <2>2, <3>1, VerdictsInline
    <3>2. CASE task.kind = "reference"
      BY <1>1, <1>3, <2>1, <2>3, <3>2, VerdictsReference
    <3> QED
      BY <1>1, <3>1, <3>2
  <2> QED
    BY <1>1, <1>3, <2>1, <2>3, <2>4, StepRejects
<1>5. CASE UnpackDone
  <2> DEFINE added   == InlineResult(task.capsule, "unpacked", "none", task.files)
             changed == [Current EXCEPT !.status = "unpacked", !.files = task.files]
  <2>1. Finish(added, changed)
    BY <1>5 DEF UnpackDone, Current
  <2>2. added.status = "unpacked" /\ added.capsule = task.capsule
    BY DEF InlineResult
  <2>3. task.kind = "reference" =>
          (\E Z : changed \in RefRecords(Z)) /\ changed.status = "unpacked" /\ changed.ref = Current.ref
    <3>1. task.kind = "reference" => Reports(changed, "unpacked", Current.reason)
      BY <1>1, Rewritten
    <3>2. task.kind = "reference" => ForCurrent(changed, "unpacked", Current.fetched)
      BY <1>1, Reworded
    <3> QED
      BY <3>1, <3>2 DEF Reports, ForCurrent
  <2> HIDE DEF added, changed
  <2>4. AcceptedCapsules' = AcceptedCapsules \cup {task.capsule} /\ UNCHANGED HasFailures
    <3>1. CASE task.kind = "inline"
      BY <1>3, <2>1, <2>2, <3>1, VerdictsInline
    <3>2. CASE task.kind = "reference"
      BY <1>1, <1>3, <2>1, <2>3, <3>2, VerdictsReference
    <3> QED
      BY <1>1, <3>1, <3>2
  <2> QED
    BY <1>1, <1>3, <2>1, <2>3, <2>4, StepAccepts
<1> QED
  BY <1>2, <1>4, <1>5 DEF Unpacking

LEMMA RefinesRefLoop ==
    ASSUME Shape, Items, Settled, RefLoop
    PROVE  [Abstract!Reject \/ Abstract!Admit]_(Abstract!vars)
<1> DEFINE new(status, reason) == RefResult(Msg[First(References(Msg, off))].ref, status, reason)
<1>1. pc \in {"fetch", "match", "unpack"} => AtReference /\ refs # <<>> /\ Working
  BY DEF AtReference, Shape, Working
<1>2. CASE RejectReference
  <2> DEFINE added == new("invalid", "REFERENCE_DESCRIPTOR_INVALID")
  <2>1. /\ pc = "detect" /\ Working' /\ UNCHANGED <<now, job, disk, malformed, inline>>
        /\ refs' = Append(refs, added)
    BY <1>2 DEF RejectReference, Detect, Working
  <2>2. added.status = "invalid"
    BY DEF RefResult
  <2> HIDE DEF added
  <2>3. UNCHANGED AcceptedCapsules /\ HasFailures'
    BY <2>1, <2>2, VerdictsDetect
  <2> QED
    BY <2>1, <2>3, StepRejects
<1>3. ASSUME NEW status \in {"skipped", "detected"}, NEW place \in {"detect", "fetch"}, pc = "detect",
             Detect(status, "none", place)
      PROVE  UNCHANGED Abstract!vars
  <2> DEFINE added == new(status, "none")
  <2>1. /\ Working /\ Working' /\ UNCHANGED <<now, job, disk, malformed, inline>>
        /\ refs' = Append(refs, added)
    BY <1>3 DEF Detect, Working
  <2>2. added.status \notin {"unpacked", "invalid", "failed"}
    BY <1>3 DEF RefResult
  <2> HIDE DEF added
  <2>3. SameVerdicts
    BY <2>1, <2>2, VerdictsDetect DEF SameVerdicts
  <2> QED
    BY <2>1, <2>3, StepStutters
<1>4. CASE SkipReference
  BY <1>3, <1>4 DEF SkipReference
<1>5. CASE DetectReference
  BY <1>3, <1>5 DEF DetectReference
<1>6. ASSUME pc \in {"fetch", "match", "unpack"}, NEW changed, OnReference(changed, "detect"),
             \E Z : changed \in RefRecords(Z), changed.status = "failed"
      PROVE  Abstract!Reject
  <2>1. SetRef(changed) /\ Working' /\ UNCHANGED <<now, job, disk, malformed, inline>>
    BY <1>6 DEF OnReference, Working
  <2>2. UNCHANGED AcceptedCapsules /\ HasFailures'
    BY <1>1, <1>6, <2>1, VerdictsReference
  <2> QED
    BY <1>6, <2>1, <2>2, StepRejects
<1>7. ASSUME pc \in {"fetch", "match", "unpack"}, NEW reason,
             OnReference([Current EXCEPT !.status = "failed", !.reason = reason], "detect")
      PROVE  Abstract!Reject
  <2> DEFINE changed == [Current EXCEPT !.status = "failed", !.reason = reason]
  <2>1. (\E Z : changed \in RefRecords(Z)) /\ changed.status = "failed"
    BY <1>1, <1>7, Rewritten DEF Reports
  <2> HIDE DEF changed
  <2> QED
    BY <1>6, <1>7, <2>1 DEF changed
<1>8. ASSUME pc \in {"fetch", "match", "unpack"}, NEW changed, NEW place \in {"match", "unpack"},
             OnReference(changed, place), \E Z : changed \in RefRecords(Z),
             changed.status \in {"detected", "fetched"}
      PROVE  UNCHANGED Abstract!vars
  <2>1. SetRef(changed) /\ Working' /\ UNCHANGED <<now, job, disk, malformed, inline>>
    BY <1>8 DEF OnReference, Working
  <2>2. SameVerdicts
    BY <1>1, <1>8, <2>1, VerdictsReference DEF SameVerdicts
  <2> QED
    BY <1>1, <1>8, <2>1, <2>2, StepStutters
<1>9. CASE FetchFails
  BY <1>7, <1>9 DEF FetchFails
<1>10. CASE FetchReturns
  <2>1. CASE Current.ref.capsule = Bad
    <3> DEFINE changed == [Current EXCEPT !.fetched = TRUE, !.status = "failed",
                                          !.reason = "REFERENCE_TRANSPORT_ERROR"]
    <3>1. OnReference(changed, "detect") /\ pc = "fetch"
      BY <1>10, <2>1 DEF FetchReturns
    <3>2. (\E Z : changed \in RefRecords(Z)) /\ changed.status = "failed"
      BY <1>1, <3>1, Rewritten DEF Reports
    <3> HIDE DEF changed
    <3> QED
      BY <1>6, <3>1, <3>2
  <2>2. CASE Current.ref.capsule # Bad
    <3> DEFINE changed == [Current EXCEPT !.fetched = TRUE, !.status = "fetched"]
    <3>1. OnReference(changed, "match") /\ pc = "fetch"
      BY <1>10, <2>2 DEF FetchReturns
    <3>2. (\E Z : changed \in RefRecords(Z)) /\ changed.status = "fetched"
      BY <1>1, <3>1, Rewritten DEF Reports
    <3> HIDE DEF changed
    <3> QED
      BY <1>8, <3>1, <3>2
  <2> QED
    BY <2>1, <2>2
<1>11. CASE MatchReference
  <2>1. pc = "match"
    BY <1>11 DEF MatchReference
  <2>2. CASE MatchErrors(Current.ref) = <<>>
    <3>1. OnReference(Current, "unpack")
      BY <1>11, <2>2 DEF MatchReference
    <3>2. (\E Z : Current \in RefRecords(Z)) /\ Current.status \in {"detected", "fetched"}
      BY <1>1, <2>1, Rewritten DEF Reports, Settled, OpenReference
    <3> QED
      BY <1>8, <2>1, <3>1, <3>2
  <2>3. CASE MatchErrors(Current.ref) # <<>>
    BY <1>7, <1>11, <2>1, <2>3 DEF MatchReference
  <2> QED
    BY <2>2, <2>3
<1>12. CASE RejectFetched
  BY <1>7, <1>12 DEF RejectFetched
<1>13. CASE VerifyFetched
  <2>1. /\ pc = "unpack" /\ pc' = "write" /\ task'.capsule = Current.ref.capsule
        /\ VerifyErrors(Current.ref.capsule, Opts, now) = <<>>
        /\ UNCHANGED <<now, job, inline, refs, malformed, disk>>
    BY <1>13 DEF VerifyFetched, TaskFor
  <2>2. refs # <<>> /\ Current.ref.capsule # Bad
    BY <1>1, <2>1 DEF Items, OnTheWay, Fetched
  <2>3. PICK X : refs \in Seq(RefRecords(X))
    BY DEF Shape, Shaped
  <2>4. Current.ref.capsule \in Capsules
    BY <2>2, <2>3, CurrentTyped DEF RefRecords, Descriptors
  <2> QED
    BY <1>1, <2>1, <2>4, StepAdmits
<1>14. CASE NextMessage
  <2>1. UNCHANGED <<now, job, malformed, inline, refs, disk>> /\ pc = "detect" /\ pc' = "extract"
    BY <1>14 DEF NextMessage
  <2> QED
    BY <2>1, QuietStutters DEF Working
<1> QED
  BY <1>2, <1>4, <1>5, <1>9, <1>10, <1>11, <1>12, <1>13, <1>14 DEF RefLoop

\* A kill, inside the writing of a file or between two steps.
LEMMA RefinesKill == ASSUME TornWrite \/ Crash PROVE Abstract!Killed
<1>1. /\ pc \notin {"done", "down"} /\ pc' = "down"
      /\ UNCHANGED <<now, job, malformed, inline, refs>>
  BY DEF TornWrite, Crash
<1>2. UNCHANGED <<AcceptedCapsules, HasFailures, Opts>>
  BY <1>1 DEF AcceptedCapsules, Having, HasFailures, Opts
<1>3. Stored' # Stored =>
        \E g \in Stored' : /\ g.by \in (IF pc = "write" THEN {task.capsule} ELSE {}) /\ g.data = Bad
                           /\ Stored' = { x \in Stored : x.place # g.place } \cup {g}
  <2>1. CASE TornWrite
    <3> DEFINE f == [place |-> <<task.dir, Parts(NextFile.path)>>, data |-> Bad, by |-> task.capsule]
    <3>1. pc = "write" /\ Stored' = { x \in Stored : x.place # f.place } \cup {f}
      BY <2>1, PutReplaces DEF TornWrite
    <3>2. f.by = task.capsule /\ f.data = Bad
      OBVIOUS
    <3> HIDE DEF f
    <3> QED
      BY <3>1, <3>2
  <2>2. CASE Crash
    BY <2>2 DEF Crash, Stored
  <2> QED
    BY <2>1, <2>2
<1>4. Outcome = "running" /\ Outcome' = "killed"
  BY <1>1 DEF Outcome
<1> QED
  BY <1>1, <1>2, <1>3, <1>4 DEF Abstract!Killed, Abstract!Replaces, Stored

\* The report of a run in which something was rejected blocks the handoff.
LEMMA RefinesDone == ASSUME Done PROVE Abstract!Report
<1>1. pc = "detect" /\ pc' = "done" /\ UNCHANGED <<now, job, scan, malformed, inline, refs, disk>>
  BY DEF Done
<1>2. UNCHANGED <<AcceptedCapsules, HasFailures, Opts>>
  BY <1>1 DEF AcceptedCapsules, Having, HasFailures, Opts
<1>3. Disposition' \in {"allow", "review", "block"} /\ (HasFailures' => Disposition' = "block")
  BY DEF Disposition
<1>4. Outcome = "running" /\ Outcome' = Disposition'
  BY <1>1 DEF Outcome
<1> QED
  BY <1>1, <1>2, <1>3, <1>4 DEF Abstract!Report

LEMMA RefinesRestart == ASSUME Restart PROVE Abstract!NewCall
<1>1. /\ pc \in {"done", "down"} /\ job' \in Jobs /\ pc' \in {"scan", "extract"}
      /\ malformed' = 0 /\ inline' = <<>> /\ refs' = <<>> /\ UNCHANGED <<now, disk>>
  BY DEF Restart, StartOf
<1>2. AcceptedCapsules' = {} /\ HasFailures' = FALSE /\ Opts' \in CallOptions
  BY <1>1 DEF AcceptedCapsules, Having, HasFailures, Opts, CallOptions
<1>3. Outcome' = "running"
  BY <1>1 DEF Outcome
<1>4. Outcome # "running"
  BY <1>1 DEF Outcome, Disposition
<1> QED
  BY <1>1, <1>2, <1>3, <1>4 DEF Abstract!NewCall

LEMMA RefinesTick == ASSUME Shape, Tick PROVE Abstract!Tick
<1>1. now \in Nat /\ now' = now + 1 /\ now' \in Times
  BY TrustAssumption DEF Tick, Shape, Times
<1>2. UNCHANGED <<job, pc, scan, task, malformed, inline, refs, disk>>
  BY DEF Tick
<1>3. UNCHANGED <<AcceptedCapsules, HasFailures, Opts>>
  BY <1>2 DEF AcceptedCapsules, Having, HasFailures, Opts
<1>4. UNCHANGED Outcome
  BY <1>2 DEF Outcome, Disposition, RiskLevel, HasFailures, Opts, Text
<1> QED
  BY <1>1, <1>2, <1>3, <1>4 DEF Abstract!Tick, Times, Abstract!Times

LEMMA RefinesIdle == ASSUME UNCHANGED vars PROVE UNCHANGED Abstract!vars
<1>1. UNCHANGED <<now, job, pc, scan, task, malformed, inline, refs, disk>>
  BY DEF vars
<1>2. UNCHANGED <<AcceptedCapsules, HasFailures, Opts>>
  BY <1>1 DEF AcceptedCapsules, Having, HasFailures, Opts
<1>3. UNCHANGED Outcome
  BY <1>1 DEF Outcome, Disposition, RiskLevel, HasFailures, Opts, Text
<1> QED
  BY <1>1, <1>2, <1>3 DEF Abstract!vars

LEMMA RefinesInit == Init => Abstract!Init
  BY DEF Init, Abstract!Init, CallOptions, StartOf, AcceptedCapsules, Having, HasFailures, Outcome, Opts

LEMMA RefinesNext ==
    Shape /\ Items /\ OnDisk /\ Settled /\ Counted /\ [Next]_vars => [Abstract!Next]_(Abstract!vars)
<1> SUFFICES ASSUME Shape, Items, OnDisk, Settled, Counted, [Next]_vars
    PROVE  Abstract!Next \/ UNCHANGED Abstract!vars
  OBVIOUS
<1>1. CASE Scanning
  BY <1>1, RefinesScanning
<1>2. CASE Extracting
  BY <1>2, RefinesExtracting DEF Abstract!Next
<1>3. CASE InlineLoop
  BY <1>3, RefinesInlineLoop DEF Abstract!Next
<1>4. CASE Unpacking
  BY <1>4, RefinesUnpacking DEF Abstract!Next
<1>5. CASE RefLoop
  BY <1>5, RefinesRefLoop DEF Abstract!Next
<1>6. CASE Done
  BY <1>6, RefinesDone DEF Abstract!Next
<1>7. CASE Tick
  BY <1>7, RefinesTick DEF Abstract!Next
<1>8. CASE TornWrite \/ Crash
  BY <1>8, RefinesKill DEF Abstract!Next
<1>9. CASE Restart
  BY <1>9, RefinesRestart DEF Abstract!Next
<1>10. CASE Rest \/ UNCHANGED vars
  BY <1>10, RefinesIdle DEF Rest
<1> QED
  BY <1>1, <1>2, <1>3, <1>4, <1>5, <1>6, <1>7, <1>8, <1>9, <1>10 DEF Next, Step

\* ingest_messages, with its scanner, its loops, its kills and its restarts, is
\* the abstract receiver: it takes on what passes the whole policy at one moment,
\* stores files of that capsule only, never takes a failure back, and blocks
\* every handoff in which something failed.
THEOREM ReceiverRefinesIngest == Spec => ImplementsIngest
<1>1. Init => OnDisk /\ Counted
  BY DEF Init, OnDisk, Counted, StartOf
<1> QED
  BY <1>1, RefinesInit, RefinesNext, OnDiskStep, CountedStep, SettledAlways, PTL
     DEF Spec, ImplementsIngest, Abstract!Spec

-----------------------------------------------------------------------------
\* The type of every variable.

\* The sets TypeOK draws from.
Scans == [off : Nat, valid : Nat, invalid : Nat, trust : SUBSET TrustStatuses, encrypted : BOOLEAN]
TaskStates ==
    [ kind : {"none", "inline", "reference"}, dir : Dirs, capsule : Capsules,
      entry : Nat \ {0}, files : Seq(PathStrings) ]
DiskFiles == [dir : Dirs, path : PathStrings, data : FileData, by : Capsules]

\* What a step leaves to be shown of TypeOK when Shape is known to stay.
LEMMA TypesFrom ==
    ASSUME Shape', runs' \in Nat, pc' \in Places, malformed' \in Nat,
           scan' \in Scans, task' \in TaskStates,
           inline' \in Seq(InlineResults), refs' \in Seq(RefResults), disk' \subseteq DiskFiles
    PROVE  TypeOK'
<1>1. job' \in Job
  BY ReceiverAssumption DEF Shape
<1> QED
  BY <1>1 DEF Shape, TypeOK, Scans, TaskStates, DiskFiles

\* The first marker of its kind from a place on.
LEMMA FirstBegin ==
    ASSUME NEW text \in Seq(Tokens), NEW from \in Nat, Begins(text, from) # {}
    PROVE  \E b \in from..Len(text) :
             /\ b = First(Begins(text, from)) /\ text[b].kind = "begin"
             /\ \A i \in from..(b - 1) : text[i].kind # "begin"
<1> DEFINE S == Begins(text, from)
<1>1. S \in SUBSET Nat /\ \A i \in from..Len(text) : i \in S <=> text[i].kind = "begin"
  BY DEF Begins
<1>2. S \subseteq from..Len(text)
  BY DEF Begins
<1> HIDE DEF S
<1>3. First(S) \in S /\ \A j \in S : First(S) <= j
  BY <1>1, FirstIsLeast DEF S
<1> DEFINE b == First(S)
<1>4. b \in from..Len(text) /\ text[b].kind = "begin"
  BY <1>1, <1>2, <1>3
<1>5. \A i \in from..(b - 1) : text[i].kind # "begin"
  BY <1>1, <1>3, <1>4
<1> QED
  BY <1>4, <1>5 DEF S

LEMMA FirstEnd ==
    ASSUME NEW text \in Seq(Tokens), NEW from \in Nat, Ends(text, from) # {}
    PROVE  \E b \in from..Len(text) :
             /\ b = First(Ends(text, from)) /\ text[b].kind = "end"
             /\ \A i \in from..(b - 1) : text[i].kind # "end"
<1> DEFINE S == Ends(text, from)
<1>1. S \in SUBSET Nat /\ \A i \in from..Len(text) : i \in S <=> text[i].kind = "end"
  BY DEF Ends
<1>2. S \subseteq from..Len(text)
  BY DEF Ends
<1> HIDE DEF S
<1>3. First(S) \in S /\ \A j \in S : First(S) <= j
  BY <1>1, FirstIsLeast DEF S
<1> DEFINE b == First(S)
<1>4. b \in from..Len(text) /\ text[b].kind = "end"
  BY <1>1, <1>2, <1>3
<1>5. \A i \in from..(b - 1) : text[i].kind # "end"
  BY <1>1, <1>3, <1>4
<1> QED
  BY <1>4, <1>5 DEF S

LEMMA FirstReference ==
    ASSUME NEW text \in Seq(Tokens), NEW from \in Nat, References(text, from) # {}
    PROVE  \E b \in from..Len(text) :
             /\ b = First(References(text, from)) /\ text[b].kind = "reference"
             /\ \A i \in from..(b - 1) : text[i].kind # "reference"
<1> DEFINE S == References(text, from)
<1>1. S \in SUBSET Nat /\ \A i \in from..Len(text) : i \in S <=> text[i].kind = "reference"
  BY DEF References
<1>2. S \subseteq from..Len(text)
  BY DEF References
<1> HIDE DEF S
<1>3. First(S) \in S /\ \A j \in S : First(S) <= j
  BY <1>1, FirstIsLeast DEF S
<1> DEFINE b == First(S)
<1>4. b \in from..Len(text) /\ text[b].kind = "reference"
  BY <1>1, <1>2, <1>3
<1>5. \A i \in from..(b - 1) : text[i].kind # "reference"
  BY <1>1, <1>3, <1>4
<1> QED
  BY <1>4, <1>5 DEF S

LEMMA MessageIndex ==
    ASSUME Shape
    PROVE  m \in Nat \ {0} /\ Len(job.msgs) \in Nat /\ DOMAIN job.msgs = 1..Len(job.msgs)
<1>1. job.msgs \in Seq(Seq(Tokens))
  BY ReceiverAssumption DEF Shape, Job
<1> QED
  BY <1>1 DEF Shape

LEMMA TextTyped ==
    ASSUME job \in Jobs
    PROVE  Text \in Seq(Tokens)
<1>1. job.msgs \in Seq(Seq(Tokens))
  BY ReceiverAssumption DEF Job
<1> QED
  BY <1>1, FlattenTyped DEF Text

LEMMA TrustTyped ==
    ASSUME NEW c, NEW o, NEW t
    PROVE  SignatureTrust(c, o, t).status \in TrustStatuses
<1>1. \A key : KeyStatus(key, t) \in TrustStatuses
  BY DEF KeyStatus, TrustStatuses
<1>2. \A keys, id, fp : Resolve(keys, id, fp, t).status \in TrustStatuses
  BY <1>1 DEF Resolve, TrustStatuses
<1> QED
  BY <1>2 DEF SignatureTrust, TrustStatuses

LEMMA ScannedTyped ==
    ASSUME scan \in Scans, NEW c, NEW to \in Nat
    PROVE  Scanned(c, to) \in Scans
<1> DEFINE good   == ScanHeaderErrors(c) \o ScanPayloadErrors(c) = <<>>
           sealed == ScanHeaderErrors(c) = <<>> /\ c.enc # None /\ ScanKey = None
<1>1. ScanTrust(c) \subseteq TrustStatuses
  BY TrustTyped DEF ScanTrust
<1>2. scan.trust \cup ScanTrust(c) \in SUBSET TrustStatuses
  BY <1>1 DEF Scans
<1>3. Scanned(c, to) = [ off |-> to,
         valid     |-> scan.valid + (IF good THEN 1 ELSE 0),
         invalid   |-> scan.invalid + (IF good \/ sealed THEN 0 ELSE 1),
         trust     |-> scan.trust \cup ScanTrust(c),
         encrypted |-> scan.encrypted \/ sealed ]
  BY Zenon DEF Scanned
<1>4. sealed \in BOOLEAN /\ good \in BOOLEAN
  OBVIOUS
<1> HIDE DEF good, sealed
<1>5. scan.encrypted \/ sealed \in BOOLEAN
  BY <1>4 DEF Scans
<1> QED
  BY <1>2, <1>3, <1>5 DEF Scans

\* The scan after a step of the scanner.
LEMMA ScanTyped ==
    ASSUME Shape, scan \in Scans, Scanning
    PROVE  scan' \in Scans
<1>1. Text \in Seq(Tokens) /\ Len(Text) \in Nat /\ scan.off \in Nat
  BY TextTyped DEF Shape, Scans
<1>2. Begins(Text, scan.off) # {} =>
         /\ First(Begins(Text, scan.off)) \in Nat
         /\ Ends(Text, First(Begins(Text, scan.off))) # {} =>
               First(Ends(Text, First(Begins(Text, scan.off)))) \in Nat
  <2> SUFFICES ASSUME Begins(Text, scan.off) # {}
               PROVE  LET b == First(Begins(Text, scan.off))
                      IN b \in Nat /\ (Ends(Text, b) # {} => First(Ends(Text, b)) \in Nat)
    BY Zenon
  <2>1. PICK b \in scan.off..Len(Text) : b = First(Begins(Text, scan.off))
    BY <1>1, FirstBegin
  <2>2. b \in Nat
    BY <1>1
  <2>3. Ends(Text, b) # {} => \E e \in b..Len(Text) : e = First(Ends(Text, b))
    BY <1>1, <2>2, FirstEnd
  <2> QED
    BY <1>1, <2>1, <2>2, <2>3
<1>3. CASE ScanBlock
  <2>1. \E c : \E e \in Nat : scan' = Scanned(c, e + 1)
    BY <1>2, <1>3, Zenon DEF ScanBlock
  <2>2. \A e \in Nat : e + 1 \in Nat
    OBVIOUS
  <2> QED
    BY <1>2, <2>1, <2>2, ScannedTyped
<1>4. CASE ScanMalformed
  <2>1. PICK b \in Nat : scan' = [scan EXCEPT !.off = b + 1, !.invalid = @ + 1]
    BY <1>2, <1>4, Zenon DEF ScanMalformed
  <2>2. b + 1 \in Nat /\ scan.invalid + 1 \in Nat
    BY DEF Scans
  <2> QED
    BY <2>1, <2>2 DEF Scans
<1>5. CASE ScanEnd
  BY <1>5 DEF ScanEnd
<1> QED
  BY <1>3, <1>4, <1>5 DEF Scanning

FileEntries == [path : PathStrings, data : Blobs \cup Contents, encoded : BOOLEAN, metaOk : BOOLEAN]

LEMMA FilesTyped ==
    ASSUME NEW c \in Capsules
    PROVE  FilesToWrite(c) \in Seq(FileEntries)
<1>1. CASE c.ctype = "bundle"
  <2>1. c.content.entries \in Seq(BundleEntry) /\ BundleEntry \subseteq FileEntries
    BY DEF Capsules, Contents, BundleEntry, FileEntries
  <2> QED
    BY <1>1, <2>1, SeqMonotonic DEF FilesToWrite
<1>2. CASE c.ctype # "bundle"
  <2>1. PayloadName(c) \in PathStrings
    <3>1. DefaultName \in PathStrings
      BY DEF DefaultName, PathStrings, Names
    <3>2. ASSUME NEW path \in PathStrings PROVE SafeName(path) \in PathStrings
      <4>1. Parts(path) \in Seq(Names)
        BY PartsTyped DEF PathStrings
      <4>2. ASSUME NEW p \in Seq(Names), p # <<>> PROVE <<Last(p)>> \in Seq(Names)
        <5>1. p[Len(p)] \in Names
          BY <4>2, EmptySeq
        <5> QED
          BY <5>1 DEF Last
      <4> QED
        BY <3>1, <4>1, <4>2 DEF SafeName, PathStrings
    <3> QED
      BY <3>1, <3>2 DEF PayloadName, Capsules
  <2> DEFINE file == [path |-> PayloadName(c), data |-> c.content, encoded |-> TRUE, metaOk |-> TRUE]
  <2>2. file \in FileEntries
    BY <2>1 DEF FileEntries, Capsules
  <2>3. FilesToWrite(c) = <<file>>
    BY <1>2, Zenon DEF FilesToWrite
  <2> HIDE DEF file
  <2> QED
    BY <2>2, <2>3
<1> QED
  BY <1>1, <1>2

LEMMA NextFileTyped ==
    ASSUME task \in TaskStates, task.entry <= Len(FilesToWrite(task.capsule))
    PROVE  /\ NextFile \in FileEntries /\ Parts(NextFile.path) \in PathStrings
           /\ NextFile.data \in FileData /\ NextFile.data # Bad
<1>1. task.capsule \in Capsules /\ task.entry \in Nat \ {0}
  BY DEF TaskStates
<1>2. FilesToWrite(task.capsule) \in Seq(FileEntries)
  BY <1>1, FilesTyped
<1>3. NextFile \in FileEntries
  <2> DEFINE files == FilesToWrite(task.capsule)
  <2>1. files \in Seq(FileEntries) /\ task.entry \in 1..Len(files)
    BY <1>1, <1>2
  <2> HIDE DEF files
  <2>2. files[task.entry] \in FileEntries
    BY <2>1
  <2> QED
    BY <2>2, Zenon DEF NextFile, files
<1>4. NextFile.path \in PathStrings /\ NextFile.data \in Blobs \cup Contents
  BY <1>3 DEF FileEntries
<1> QED
  BY <1>3, <1>4, PartsTyped, CapsuleAssumption DEF FileData

LEMMA PutTyped ==
    ASSUME task \in TaskStates, disk \subseteq DiskFiles, NEW data \in FileData, Put(data),
           Parts(NextFile.path) \in PathStrings
    PROVE  disk' \subseteq DiskFiles
<1> DEFINE path == Parts(NextFile.path)
           new  == [dir |-> task.dir, path |-> path, data |-> data, by |-> task.capsule]
<1>1. disk' \subseteq disk \cup {new}
  BY DEF Put
<1>2. path \in PathStrings /\ task.dir \in Dirs /\ task.capsule \in Capsules
  BY DEF TaskStates
<1> HIDE DEF path
<1>3. new \in DiskFiles
  BY <1>2 DEF DiskFiles
<1> QED
  BY <1>1, <1>3

LEMMA IdleIsTask == IdleTask \in TaskStates
<1>1. <<"none", 0, 0>> \in Dirs /\ <<>> \in Seq(PathStrings)
  BY DEF Dirs
<1> QED
  BY <1>1, GarbledTyped DEF IdleTask, TaskStates

LEMMA TaskForTyped ==
    ASSUME Shape, NEW kind \in {"inline", "reference"}, NEW n \in Nat, NEW c \in Capsules
    PROVE  TaskFor(kind, n, c) \in TaskStates
<1>1. m \in Nat
  BY MessageIndex
<1>2. <<kind, m, n>> \in Dirs /\ <<>> \in Seq(PathStrings)
  BY <1>1 DEF Dirs
<1> QED
  BY <1>2 DEF TaskFor, TaskStates

LEMMA ReasonsAreCodes ==
    ASSUME NEW errors \in Seq(Reasons), errors # <<>>
    PROVE  InlineReason(Head(errors)) \in ReportReasons /\ RefReason(Head(errors)) \in ReportReasons
<1>1. Head(errors) \in Reasons
  BY HeadTailProperties
<1> QED
  BY <1>1 DEF InlineReason, RefReason, Reasons, ReportReasons

\* An item appended to the inline list, or a reference to the list of references.
LEMMA InlineTyped ==
    ASSUME Shape, inline \in Seq(InlineResults), NEW c \in Capsules,
           NEW status \in {"unpacked", "invalid"}, NEW reason \in ReportReasons, NEW files \in Seq(PathStrings)
    PROVE  Append(inline, InlineResult(c, status, reason, files)) \in Seq(InlineResults)
<1>1. m \in Nat
  BY MessageIndex
<1> DEFINE added == InlineResult(c, status, reason, files)
<1>2. added \in InlineResults
  BY <1>1 DEF InlineResult, InlineResults
<1> HIDE DEF added
<1> QED
  BY <1>2, AppendProperties DEF added

LEMMA RefReplacedTyped ==
    ASSUME refs \in Seq(RefResults), refs # <<>>, NEW changed \in RefResults, SetRef(changed)
    PROVE  refs' \in Seq(RefResults)
<1>1. Len(refs) \in 1..Len(refs)
  BY EmptySeq
<1> QED
  BY <1>1, ExceptSeq DEF SetRef

LEMMA CurrentRewritten ==
    ASSUME refs \in Seq(RefResults), refs # <<>>, NEW status \in {"failed", "fetched", "unpacked"},
           NEW reason \in ReportReasons, NEW files \in Seq(PathStrings)
    PROVE  /\ Current \in RefResults
           /\ [Current EXCEPT !.status = status, !.reason = reason] \in RefResults
           /\ [Current EXCEPT !.fetched = TRUE, !.status = status, !.reason = reason] \in RefResults
           /\ [Current EXCEPT !.fetched = TRUE, !.status = status] \in RefResults
           /\ [Current EXCEPT !.status = status, !.files = files] \in RefResults
<1>1. Current \in RefResults
  BY EmptySeq DEF Current
<1> QED
  BY <1>1 DEF RefResults

Typed == Shape /\ Items /\ OnDisk /\ TypeOK

\* A step that leaves the results, the task and the files alone.
LEMMA TypesQuiet ==
    ASSUME Typed, Shape', UNCHANGED <<runs, task, inline, refs, disk>>,
           scan' \in Scans, pc' \in Places, malformed' \in Nat
    PROVE  TypeOK'
  BY TypesFrom DEF Typed, TypeOK, TaskStates, DiskFiles

LEMMA TypesInlineLoop == ASSUME Typed, Shape', InlineLoop PROVE TypeOK'
<1>1. CASE RejectBlock
  <2> DEFINE errors == VerifyErrors(blocks[next], Opts, now)
  <2>1. blocks[next] \in Capsules
    BY <1>1 DEF RejectBlock, Typed, Shape
  <2>2. errors # <<>> /\ errors \in Seq(Reasons)
    BY <1>1, <2>1, VerifyParts, Zenon DEF RejectBlock
  <2>3. InlineReason(Head(errors)) \in ReportReasons
    BY <2>2, ReasonsAreCodes
  <2>4. inline' = Append(inline, InlineResult(blocks[next], "invalid", InlineReason(Head(errors)), <<>>))
    BY <1>1, Zenon DEF RejectBlock
  <2> HIDE DEF errors
  <2>5. inline' \in Seq(InlineResults)
    <3>1. <<>> \in Seq(PathStrings) /\ inline \in Seq(InlineResults)
      BY DEF Typed, TypeOK
    <3> QED
      BY <2>1, <2>3, <2>4, <3>1, InlineTyped DEF Typed
  <2>6. UNCHANGED <<runs, pc, scan, malformed, task, refs, disk>>
    BY <1>1 DEF RejectBlock
  <2> QED
    BY <2>5, <2>6, TypesFrom DEF Typed, TypeOK, Scans, TaskStates, DiskFiles
<1>2. CASE VerifyBlock
  <2>1. blocks[next] \in Capsules /\ next \in Nat
    BY <1>2 DEF VerifyBlock, Typed, Shape
  <2>2. task' \in TaskStates
    BY <1>2, <2>1, TaskForTyped DEF VerifyBlock, Typed
  <2>3. UNCHANGED <<runs, scan, malformed, inline, refs, disk>> /\ pc' = "write"
    BY <1>2 DEF VerifyBlock
  <2>4. pc' \in Places
    BY <2>3 DEF Places
  <2> QED
    BY <2>2, <2>3, <2>4, TypesFrom DEF Typed, TypeOK, Scans, DiskFiles
<1>3. CASE InlineEnd
  BY <1>3, TypesQuiet DEF InlineEnd, Typed, TypeOK, Places, Scans
<1> QED
  BY <1>1, <1>2, <1>3 DEF InlineLoop

LEMMA TypesUnpacking == ASSUME Typed, Shape', Unpacking PROVE TypeOK'
<1>1. task \in TaskStates /\ task.capsule \in Capsules /\ task.files \in Seq(PathStrings)
  BY DEF Typed, TypeOK, TaskStates
<1>2. disk \subseteq DiskFiles /\ inline \in Seq(InlineResults) /\ refs \in Seq(RefResults) /\ scan \in Scans
      /\ runs \in Nat /\ malformed \in Nat
  BY DEF Typed, TypeOK, DiskFiles, Scans
<1>3. CASE WriteFile
  <2>1. NextFile.data \in FileData /\ Parts(NextFile.path) \in PathStrings
    BY <1>1, <1>3, NextFileTyped DEF WriteFile
  <2>2. disk' \subseteq DiskFiles
    BY <1>1, <1>2, <1>3, <2>1, PutTyped DEF WriteFile
  <2>3. task' \in TaskStates
    <3> DEFINE files == Append(task.files, Parts(NextFile.path))
    <3>1. files \in Seq(PathStrings)
      BY <1>1, <2>1, AppendProperties
    <3>2. task' = [task EXCEPT !.entry = task.entry + 1, !.files = files]
      BY <1>1, <1>3 DEF WriteFile, TaskStates
    <3>3. task.entry + 1 \in Nat \ {0}
      BY <1>1 DEF TaskStates
    <3> HIDE DEF files
    <3> QED
      BY <1>1, <3>1, <3>2, <3>3 DEF TaskStates
  <2> QED
    BY <1>2, <1>3, <2>2, <2>3, TypesFrom DEF WriteFile, Typed, TypeOK
<1>4. ASSUME NEW status \in {"invalid", "unpacked"}, NEW reason \in ReportReasons,
             NEW files \in Seq(PathStrings), NEW changed,
             task.kind # "inline" => refs # <<>> /\ changed \in RefResults,
             Finish(InlineResult(task.capsule, status, reason, files), changed)
      PROVE  TypeOK'
  <2>1. /\ task' = IdleTask /\ UNCHANGED <<runs, scan, malformed, disk>>
        /\ pc' \in {"inline", "detect"}
    BY <1>4 DEF Finish
  <2>2. inline' \in Seq(InlineResults)
    <3>1. Append(inline, InlineResult(task.capsule, status, reason, files)) \in Seq(InlineResults)
      BY <1>1, <1>2, <1>4, InlineTyped DEF Typed
    <3> QED
      BY <1>2, <1>4, <3>1 DEF Finish
  <2>3. refs' \in Seq(RefResults)
    BY <1>2, <1>4, RefReplacedTyped DEF Finish
  <2>4. pc' \in Places
    BY <2>1 DEF Places
  <2> QED
    BY <1>2, <2>1, <2>2, <2>3, <2>4, IdleIsTask, TypesFrom
<1>5. pc = "write" /\ (task.kind # "inline" => refs # <<>>)
  BY DEF Unpacking, WriteFile, UnpackFails, UnpackDone, Typed, Shape
<1>6. CASE UnpackFails
  <2> DEFINE error == Head(UnpackErrors)
             changed == [Current EXCEPT !.status = "failed", !.reason = RefReason(error)]
  <2>1. /\ Finish(InlineResult(task.capsule, "invalid", InlineReason(error), <<>>), changed)
        /\ UnpackErrors # <<>>
    BY <1>6 DEF UnpackFails, Current
  <2>2. InlineReason(error) \in ReportReasons /\ RefReason(error) \in ReportReasons
    BY <2>1, UnpackListed, ReasonsAreCodes
  <2> HIDE DEF error
  <2>3. refs # <<>> => changed \in RefResults
    <3>1. <<>> \in Seq(PathStrings)
      OBVIOUS
    <3> QED
      BY <1>2, <2>2, <3>1, CurrentRewritten
  <2>4. <<>> \in Seq(PathStrings)
    OBVIOUS
  <2> HIDE DEF changed
  <2> QED
    BY <1>4, <1>5, <2>1, <2>2, <2>3, <2>4
<1>7. CASE UnpackDone
  <2> DEFINE changed == [Current EXCEPT !.status = "unpacked", !.files = task.files]
  <2>1. Finish(InlineResult(task.capsule, "unpacked", "none", task.files), changed)
    BY <1>7 DEF UnpackDone, Current
  <2>2. "none" \in ReportReasons
    BY DEF ReportReasons
  <2>3. refs # <<>> => changed \in RefResults
    BY <1>1, <1>2, <2>2, CurrentRewritten
  <2> HIDE DEF changed
  <2> QED
    BY <1>1, <1>4, <1>5, <2>1, <2>2, <2>3
<1> QED
  BY <1>3, <1>6, <1>7 DEF Unpacking

\* The current reference replaced, or a new one reported.
LEMMA TypesOnReference ==
    ASSUME Typed, Shape', refs # <<>>, NEW changed \in RefResults, NEW place \in Places,
           OnReference(changed, place)
    PROVE  TypeOK'
<1>1. refs' \in Seq(RefResults)
  BY RefReplacedTyped DEF OnReference, Typed, TypeOK
<1> QED
  BY <1>1, TypesFrom DEF OnReference, Typed, TypeOK, Scans, TaskStates, DiskFiles

LEMMA TypesDetect ==
    ASSUME Typed, Shape', References(Msg, off) # {}, NEW status \in {"invalid", "skipped", "detected"},
           NEW reason \in ReportReasons, NEW place \in Places, Detect(status, reason, place)
    PROVE  TypeOK'
<1> DEFINE added == RefResult(Msg[First(References(Msg, off))].ref, status, reason)
<1>1. Msg[First(References(Msg, off))].ref \in Descriptors
  BY NextReference DEF Typed, Shape
<1>2. m \in Nat /\ <<>> \in Seq(PathStrings)
  BY MessageIndex DEF Typed
<1>3. added \in RefResults
  BY <1>1, <1>2 DEF RefResult, RefResults
<1>4. refs' = Append(refs, added) /\ UNCHANGED <<runs, scan, malformed, task, inline, disk>> /\ pc' = place
  BY DEF Detect
<1> HIDE DEF added
<1>5. refs' \in Seq(RefResults)
  BY <1>3, <1>4, AppendProperties DEF Typed, TypeOK
<1> QED
  BY <1>4, <1>5, TypesFrom DEF Typed, TypeOK, Scans, TaskStates, DiskFiles

LEMMA TypesRefLoop == ASSUME Typed, Shape', OnDisk', RefLoop PROVE TypeOK'
<1>1. /\ {"detect", "fetch", "match", "unpack", "write", "extract"} \subseteq Places
      /\ {"none", "REFERENCE_DESCRIPTOR_INVALID", "FETCH_BLOCKED_BY_POLICY", "REFERENCE_TRANSPORT_ERROR",
          "REFERENCE_CAPSULE_HASH_MISMATCH", "REFERENCE_PAYLOAD_HASH_MISMATCH"} \subseteq ReportReasons
  BY DEF Places, ReportReasons
<1>2. <<>> \in Seq(PathStrings) /\ refs \in Seq(RefResults)
  BY DEF Typed, TypeOK
<1>3. CASE RejectReference
  BY <1>1, <1>3, TypesDetect DEF RejectReference
<1>4. CASE SkipReference
  BY <1>1, <1>4, TypesDetect DEF SkipReference
<1>5. CASE DetectReference
  BY <1>1, <1>5, TypesDetect DEF DetectReference
<1>6. ASSUME refs # <<>>, NEW reason \in ReportReasons,
             OnReference([Current EXCEPT !.status = "failed", !.reason = reason], "detect")
      PROVE  TypeOK'
  <2>1. [Current EXCEPT !.status = "failed", !.reason = reason] \in RefResults
    BY <1>2, <1>6, CurrentRewritten
  <2> QED
    BY <1>1, <1>6, <2>1, TypesOnReference
<1>7. CASE FetchFails
  <2>1. refs # <<>> /\ \E reason \in ReportReasons :
            OnReference([Current EXCEPT !.status = "failed", !.reason = reason], "detect")
    BY <1>1, <1>7 DEF FetchFails, Typed, Shape
  <2> QED
    BY <1>6, <2>1
<1>8. CASE FetchReturns
  <2>1. refs # <<>>
    BY <1>8 DEF FetchReturns, Typed, Shape
  <2>2. CASE Current.ref.capsule = Bad
    <3> DEFINE changed == [Current EXCEPT !.fetched = TRUE, !.status = "failed",
                                          !.reason = "REFERENCE_TRANSPORT_ERROR"]
    <3>1. OnReference(changed, "detect")
      BY <1>8, <2>2 DEF FetchReturns
    <3>2. changed \in RefResults
      BY <1>1, <1>2, <2>1, CurrentRewritten
    <3> HIDE DEF changed
    <3> QED
      BY <1>1, <2>1, <3>1, <3>2, TypesOnReference
  <2>3. CASE Current.ref.capsule # Bad
    <3> DEFINE changed == [Current EXCEPT !.fetched = TRUE, !.status = "fetched"]
    <3>1. OnReference(changed, "match")
      BY <1>8, <2>3 DEF FetchReturns
    <3>2. changed \in RefResults
      BY <1>1, <1>2, <2>1, CurrentRewritten
    <3> HIDE DEF changed
    <3> QED
      BY <1>1, <2>1, <3>1, <3>2, TypesOnReference
  <2> QED
    BY <2>2, <2>3
<1>9. CASE MatchReference
  <2>1. refs # <<>>
    BY <1>9 DEF MatchReference, Typed, Shape
  <2>2. CASE MatchErrors(Current.ref) = <<>>
    <3>1. OnReference(Current, "unpack")
      BY <1>9, <2>2 DEF MatchReference
    <3>2. Current \in RefResults
      BY <1>1, <1>2, <2>1, CurrentRewritten
    <3> QED
      BY <1>1, <2>1, <3>1, <3>2, TypesOnReference
  <2>3. CASE MatchErrors(Current.ref) # <<>>
    <3> DEFINE reason == Head(MatchErrors(Current.ref))
    <3>1. OnReference([Current EXCEPT !.status = "failed", !.reason = reason], "detect")
      BY <1>9, <2>3 DEF MatchReference
    <3>2. reason \in {"CAPSULE_PARSE_ERROR", "REFERENCE_PAYLOAD_HASH_MISMATCH"}
      BY <2>3, MatchReason
    <3>3. {"CAPSULE_PARSE_ERROR", "REFERENCE_PAYLOAD_HASH_MISMATCH"} \subseteq ReportReasons
      BY DEF ReportReasons, Reasons
    <3>4. reason \in ReportReasons
      BY <3>2, <3>3
    <3> HIDE DEF reason
    <3> QED
      BY <1>6, <2>1, <3>1, <3>4
  <2> QED
    BY <2>2, <2>3
<1>10. CASE RejectFetched
  <2> DEFINE errors == VerifyErrors(Current.ref.capsule, Opts, now)
  <2>1. /\ OnReference([Current EXCEPT !.status = "failed", !.reason = RefReason(Head(errors))], "detect")
        /\ errors # <<>> /\ refs # <<>>
    BY <1>10 DEF RejectFetched, Typed, Shape
  <2>2. Current.ref.capsule \in Capsules
    <3>1. Current.ref.capsule # Bad
      BY <1>10 DEF RejectFetched, Typed, Items, OnTheWay, Fetched
    <3>2. Current \in RefResults
      BY <1>2, <2>1, EmptySeq DEF Current
    <3> QED
      BY <3>1, <3>2 DEF RefResults, Descriptors
  <2>3. errors \in Seq(Reasons)
    BY <2>2, VerifyParts
  <2>4. RefReason(Head(errors)) \in ReportReasons
    BY <2>1, <2>3, ReasonsAreCodes
  <2> HIDE DEF errors
  <2> QED
    BY <1>6, <2>1, <2>4
<1>11. CASE VerifyFetched
  <2>1. task' = TaskFor("reference", next - 1, Current.ref.capsule) /\ pc' = "write"
        /\ UNCHANGED <<runs, scan, malformed, inline, refs, disk>>
    BY <1>11 DEF VerifyFetched
  <2>2. task'.capsule \in Capsules /\ next - 1 \in Nat
    BY <2>1 DEF OnDisk, Typed, Shape
  <2>3. Current.ref.capsule \in Capsules
    BY <2>1, <2>2 DEF TaskFor
  <2>4. task' \in TaskStates
    BY <2>1, <2>2, <2>3, TaskForTyped DEF Typed
  <2> QED
    BY <1>1, <2>1, <2>4, TypesFrom DEF Typed, TypeOK, Scans, DiskFiles
<1>12. CASE NextMessage
  BY <1>1, <1>12, TypesQuiet DEF NextMessage, Typed, TypeOK, Scans
<1> QED
  BY <1>3, <1>4, <1>5, <1>7, <1>8, <1>9, <1>10, <1>11, <1>12 DEF RefLoop

LEMMA TypesStep == Typed /\ [Next]_vars => Typed'
<1> SUFFICES ASSUME Typed, [Next]_vars PROVE Typed'
  OBVIOUS
<1>1. Shape' /\ Items' /\ OnDisk'
  BY ShapeStep, ItemsStep, OnDiskStep DEF Typed
<1>2. /\ task \in TaskStates /\ scan \in Scans /\ runs \in Nat /\ malformed \in Nat /\ pc \in Places
      /\ inline \in Seq(InlineResults) /\ refs \in Seq(RefResults) /\ disk \subseteq DiskFiles
  BY DEF Typed, TypeOK, TaskStates, Scans, DiskFiles
<1>3. {"scan", "extract", "inline", "done", "down"} \subseteq Places
  BY DEF Places
<1>4. CASE Scanning
  <2>1. UNCHANGED <<runs, task, inline, refs, disk, malformed>> /\ (pc' = pc \/ pc' = "extract")
    BY <1>4, Zenon DEF Scanning, ScanBlock, ScanMalformed, ScanEnd, unscanned
  <2>2. scan' \in Scans
    BY <1>2, <1>4, ScanTyped DEF Typed
  <2> QED
    BY <1>1, <1>2, <1>3, <2>1, <2>2, TypesQuiet DEF Typed
<1>5. CASE Extracting
  <2>1. /\ UNCHANGED <<runs, task, inline, refs, disk, scan>> /\ (pc' = pc \/ pc' = "inline")
        /\ malformed' = malformed \/ malformed' = malformed + 1
    BY <1>5, Zenon DEF Extracting, ExtractBlock, ExtractMalformed, ExtractEnd
  <2> QED
    BY <1>1, <1>2, <1>3, <2>1, TypesQuiet DEF Typed
<1>6. CASE InlineLoop
  BY <1>1, <1>6, TypesInlineLoop DEF Typed
<1>7. CASE Unpacking
  BY <1>1, <1>7, TypesUnpacking DEF Typed
<1>8. CASE RefLoop
  BY <1>1, <1>8, TypesRefLoop DEF Typed
<1>9. CASE Done \/ Tick \/ Crash \/ Rest \/ UNCHANGED vars
  <2>1. /\ UNCHANGED <<runs, task, inline, refs, disk, scan, malformed>>
        /\ pc' = pc \/ pc' = "done" \/ pc' = "down"
    BY <1>9 DEF Done, Tick, Crash, Rest, vars
  <2> QED
    BY <1>1, <1>2, <1>3, <2>1, TypesQuiet DEF Typed
<1>10. CASE TornWrite
  <2>1. Parts(NextFile.path) \in PathStrings /\ Bad \in FileData
    BY <1>2, <1>10, NextFileTyped DEF TornWrite, FileData
  <2>2. disk' \subseteq DiskFiles
    BY <1>2, <1>10, <2>1, PutTyped DEF TornWrite
  <2> QED
    BY <1>1, <1>2, <1>3, <1>10, <2>2, TypesFrom DEF TornWrite, Typed
<1>11. CASE Restart
  <2>1. /\ scan' = StartScan /\ task' = IdleTask /\ malformed' = 0 /\ inline' = <<>> /\ refs' = <<>>
        /\ runs' = runs + 1 /\ UNCHANGED disk /\ (pc' = "scan" \/ pc' = "extract")
    BY <1>11 DEF Restart, StartOf
  <2>2. StartScan \in Scans
    BY DEF StartScan, Scans
  <2> QED
    BY <1>1, <1>2, <1>3, <2>1, <2>2, IdleIsTask, TypesFrom DEF Typed
<1> QED
  BY <1>4, <1>5, <1>6, <1>7, <1>8, <1>9, <1>10, <1>11 DEF Next, Step

\* The types and what they rest on hold in every state.
LEMMA TypesAlways == Spec => []Typed
<1>1. Init => Typed
  <2> SUFFICES ASSUME Init PROVE Typed
    OBVIOUS
  <2>1. Shape /\ Items /\ OnDisk
    BY ShapeInit, ItemsInit DEF Init, OnDisk, StartOf
  <2>2. StartScan \in Scans /\ {"scan", "extract"} \subseteq Places
    BY DEF StartScan, Scans, Places
  <2>3. job \in Job
    BY ReceiverAssumption DEF Init
  <2>4. TypeOK
    BY <2>1, <2>2, <2>3, IdleIsTask DEF Init, StartOf, Shape, TypeOK, Scans, TaskStates
  <2> QED
    BY <2>1, <2>4 DEF Typed
<1> QED
  BY <1>1, TypesStep, PTL DEF Spec

\* Every result, task, file and count has its type whatever messages, capsules and
\* options a run is given, and every message index, block number and write target is
\* in range: no path that reaches the disk is anything but a list of names.
THEOREM IngestIsTyped == Spec => []TypeOK
<1>1. Typed => TypeOK
  BY DEF Typed
<1> QED
  BY <1>1, TypesAlways, PTL
=============================================================================
