---------------------------- MODULE IngestProofs ----------------------------
(***************************************************************************)
(* The report of an ingest run against the files on disk and against the   *)
(* messages, and the scanner's reading of the messages against the         *)
(* receiver's, for any calls, registries and interruptions.                *)
(***************************************************************************)
EXTENDS ReceiverProofs

-----------------------------------------------------------------------------
\* The directories of the items: counting the results of a message.

\* The items of a message, and the number of an item among those of its message.
Of(list, x)  == { j \in DOMAIN list : list[j].msg = x }
Nth(list, k) == Cardinality({ j \in 1..k : list[j].msg = list[k].msg })

LEMMA OfFinite ==
    ASSUME NEW S, NEW list \in Seq(S), NEW x
    PROVE  IsFiniteSet(Of(list, x)) /\ Cardinality(Of(list, x)) \in Nat
<1>1. Of(list, x) \subseteq 1..Len(list) /\ Len(list) \in Nat
  BY DEF Of
<1>2. IsFiniteSet(1..Len(list))
  BY <1>1, FS_Interval
<1> QED
  BY <1>1, <1>2, FS_Subset, FS_CardinalityType

\* The items of one message have different numbers.
LEMMA NumbersGrow ==
    ASSUME NEW S, NEW list \in Seq(S), NEW k \in 1..Len(list)
    PROVE  /\ Nth(list, k) \in Nat
           /\ Nth(list, k) <= Cardinality(Of(list, list[k].msg))
           /\ \A l \in Of(list, list[k].msg) : k < l => Nth(list, k) < Cardinality(Of(list, list[k].msg))
<1> DEFINE x == list[k].msg
           upTo == { j \in 1..k : list[j].msg = x }
<1>1. upTo \subseteq Of(list, x)
  BY DEF Of
<1>2. IsFiniteSet(Of(list, x)) /\ Cardinality(Of(list, x)) \in Nat
  BY OfFinite
<1>3. IsFiniteSet(upTo) /\ Cardinality(upTo) <= Cardinality(Of(list, x)) /\ Cardinality(upTo) \in Nat
  BY <1>1, <1>2, FS_Subset, FS_CardinalityType
<1>4. ASSUME NEW l \in Of(list, x), k < l PROVE Cardinality(upTo) # Cardinality(Of(list, x))
  <2>1. l \notin upTo
    BY <1>4
  <2> QED
    BY <1>1, <1>2, <1>3, <2>1, FS_Subset
<1>5. Nth(list, k) = Cardinality(upTo)
  BY DEF Nth
<1> HIDE DEF upTo
<1>6. \A l \in Of(list, x) : k < l => Cardinality(upTo) < Cardinality(Of(list, x))
  BY <1>2, <1>3, <1>4
<1> QED
  BY <1>3, <1>5, <1>6

\* What a list is after an item is added at its end.
LEMMA ListAppended ==
    ASSUME NEW S, NEW list \in Seq(S), NEW added \in S, NEW longer, longer = Append(list, added)
    PROVE  /\ DOMAIN longer = 1..(Len(list) + 1) /\ DOMAIN list = 1..Len(list) /\ Len(list) \in Nat
           /\ Len(longer) = Len(list) + 1 /\ longer[Len(list) + 1] = added
           /\ \A k \in 1..Len(list) : longer[k] = list[k]
  BY AppendProperties, LenProperties

\* A message with an item added has one item more.
LEMMA CountAppended ==
    ASSUME NEW S, NEW list \in Seq(S), NEW added \in S, NEW longer, longer = Append(list, added)
    PROVE  /\ Cardinality(Of(longer, added.msg)) = Cardinality(Of(list, added.msg)) + 1
           /\ Of(longer, added.msg) = Of(list, added.msg) \cup {Len(list) + 1}
<1> DEFINE new == Len(list) + 1
           mine == Of(list, added.msg)
<1>1. Of(longer, added.msg) = mine \cup {new} /\ new \notin mine
  BY ListAppended DEF Of
<1>2. IsFiniteSet(mine) /\ Cardinality(mine) \in Nat
  BY OfFinite
<1>3. Cardinality(mine \cup {new}) = Cardinality(mine) + 1
  <2> HIDE DEF mine, new
  <2> QED
    BY <1>1, <1>2, FS_AddElement
<1> QED
  BY <1>1, <1>3

\* An item added at the end takes the next number of its message; the others keep theirs.
LEMMA NumbersAppended ==
    ASSUME NEW S, NEW list \in Seq(S), NEW added \in S, NEW longer, longer = Append(list, added)
    PROVE  /\ \A k \in 1..Len(list) : Nth(longer, k) = Nth(list, k)
           /\ Nth(longer, Len(list) + 1) = Cardinality(Of(list, added.msg)) + 1
<1>1. /\ DOMAIN longer = 1..(Len(list) + 1) /\ DOMAIN list = 1..Len(list) /\ Len(list) \in Nat
      /\ longer[Len(list) + 1] = added
      /\ \A k \in 1..Len(list) : longer[k] = list[k]
  BY ListAppended
<1>2. ASSUME NEW k \in 1..Len(list) PROVE Nth(longer, k) = Nth(list, k)
  <2>1. { j \in 1..k : longer[j].msg = longer[k].msg } = { j \in 1..k : list[j].msg = list[k].msg }
    BY <1>1
  <2> QED
    BY <2>1 DEF Nth
<1> DEFINE new == Len(list) + 1
<1>3. { j \in 1..new : longer[j].msg = longer[new].msg } = Of(longer, added.msg)
  BY <1>1 DEF Of
<1>4. Nth(longer, new) = Cardinality(Of(longer, added.msg))
  BY <1>3, Zenon DEF Nth
<1>5. Cardinality(Of(longer, added.msg)) = Cardinality(Of(list, added.msg)) + 1
  BY CountAppended
<1> QED
  BY <1>2, <1>4, <1>5

-----------------------------------------------------------------------------
\* Where the items of a run are: how many of each kind the message has so far, and
\* the directory of the one being unpacked.

Numbered ==
    /\ \A k \in DOMAIN inline : inline[k].msg <= m
    /\ \A k \in DOMAIN refs : refs[k].msg <= m
    /\ pc \in {"scan", "extract"} => Of(inline, m) = {} /\ Of(refs, m) = {} /\ next = 1
    /\ pc = "inline" \/ (pc = "write" /\ task.kind = "inline") =>
         Cardinality(Of(inline, m)) = next - 1 /\ Of(refs, m) = {}
    /\ pc = "detect" \/ AtReference => Cardinality(Of(refs, m)) = next - 1
    /\ AtReference => Current.msg = m /\ Current.files = <<>>
    /\ pc = "write" =>
         task.dir = IF task.kind = "inline" THEN <<"inline", m, next>> ELSE <<"reference", m, next - 1>>

\* What an item was written to is there, as long as the item is on its way too.
Held ==
    /\ ReportedFilesAreThere
    /\ pc = "write" => \A i \in DOMAIN task.files : Holds(task.dir, task.capsule, task.files[i])

LEMMA DirsByNumber ==
    ASSUME NEW k
    PROVE  /\ InlineDir(k) = <<"inline", inline[k].msg, Nth(inline, k)>>
           /\ RefDir(k) = <<"reference", refs[k].msg, Nth(refs, k)>>
  BY DEF InlineDir, RefDir, Nth

\* The directory of the item being unpacked is that of no item reported with files.
LEMMA OwnDirectory ==
    ASSUME Typed, Settled, Numbered, pc = "write"
    PROVE  /\ \A k \in DOMAIN inline : InlineDir(k) # task.dir
           /\ \A k \in DOMAIN refs : refs[k].files # <<>> => RefDir(k) # task.dir
<1>0. task.kind = "inline" \/ task.kind = "reference"
  BY DEF Typed, Shape
<1>1. inline \in Seq(InlineResults) /\ refs \in Seq(RefResults) /\ m \in Nat /\ next \in Nat
      /\ DOMAIN inline = 1..Len(inline) /\ DOMAIN refs = 1..Len(refs) /\ Len(refs) \in Nat
  BY MessageIndex DEF Typed, TypeOK
<1>2. ASSUME NEW k \in DOMAIN inline PROVE InlineDir(k) # task.dir
  <2>1. CASE task.kind = "inline"
    <3>1. task.dir = <<"inline", m, next>> /\ Cardinality(Of(inline, m)) = next - 1
      BY <2>1 DEF Numbered
    <3>2. inline[k].msg = m => Nth(inline, k) \in Nat /\ Nth(inline, k) <= next - 1
      BY <1>1, <3>1, NumbersGrow
    <3>3. ~(inline[k].msg = m /\ Nth(inline, k) = next)
      BY <1>1, <3>2
    <3> QED
      BY <3>1, <3>3, DirsByNumber
  <2>2. CASE task.kind # "inline"
    <3>1. task.dir = <<"reference", m, next - 1>>
      BY <2>2 DEF Numbered
    <3> QED
      BY <3>1, DirsByNumber
  <2> QED
    BY <2>1, <2>2
<1>3. ASSUME NEW k \in DOMAIN refs, refs[k].files # <<>> PROVE RefDir(k) # task.dir
  <2>1. CASE task.kind = "inline"
    <3>1. task.dir = <<"inline", m, next>>
      BY <2>1 DEF Numbered
    <3> QED
      BY <3>1, DirsByNumber
  <2>2. CASE task.kind = "reference"
    <3>1. /\ task.dir = <<"reference", m, next - 1>> /\ Cardinality(Of(refs, m)) = next - 1
          /\ Current.msg = m /\ Current.files = <<>>
      BY <2>2 DEF Numbered, AtReference
    <3>2. k # Len(refs)
      BY <1>3, <3>1 DEF Current
    <3>3. k < Len(refs) /\ Len(refs) \in Of(refs, m)
      BY <1>1, <3>1, <3>2 DEF Of, Current
    <3>4. refs[k].msg = m => Nth(refs, k) \in Nat /\ Nth(refs, k) < next - 1
      BY <1>1, <3>1, <3>3, NumbersGrow
    <3>5. ~(refs[k].msg = m /\ Nth(refs, k) = next - 1)
      BY <1>1, <3>4
    <3> QED
      BY <3>1, <3>5, DirsByNumber
  <2> QED
    BY <1>0, <2>1, <2>2
<1> QED
  BY <1>2, <1>3

LEMMA NumberedInlineResult ==
    ASSUME Typed, Typed', Numbered, pc \in {"inline", "write"}, pc = "write" => task.kind = "inline",
           NEW c, NEW status, NEW reason, NEW files,
           inline' = Append(inline, InlineResult(c, status, reason, files)),
           next' = next + 1, pc' = "inline", UNCHANGED <<m, refs>>
    PROVE  Numbered'
<1> DEFINE added == InlineResult(c, status, reason, files)
<1>1. added.msg = m
  BY DEF InlineResult
<1>2. inline' = Append(inline, added)
  OBVIOUS
<1> HIDE DEF added
<1> DEFINE Y == InlineResults \cup {added}
<1>3. inline \in Seq(Y) /\ added \in Y
  BY SeqMonotonic DEF Typed, TypeOK
<1> HIDE DEF Y
<1>4. /\ \A k \in DOMAIN inline' : (k \in DOMAIN inline /\ inline'[k] = inline[k]) \/ inline'[k] = added
      /\ Cardinality(Of(inline', m)) = Cardinality(Of(inline, m)) + 1
  <2>1. /\ DOMAIN inline' = 1..(Len(inline) + 1) /\ DOMAIN inline = 1..Len(inline) /\ Len(inline) \in Nat
        /\ Len(inline') = Len(inline) + 1 /\ inline'[Len(inline) + 1] = added
        /\ \A k \in 1..Len(inline) : inline'[k] = inline[k]
    BY <1>2, <1>3, ListAppended
  <2>2. Cardinality(Of(inline', added.msg)) = Cardinality(Of(inline, added.msg)) + 1
    BY <1>2, <1>3, CountAppended
  <2> QED
    BY <1>1, <2>1, <2>2
<1>5. m \in Nat /\ next \in Nat
  BY MessageIndex DEF Typed, TypeOK
<1>6. Cardinality(Of(inline, m)) = next - 1 /\ Of(refs, m) = {}
  BY DEF Numbered
<1>7. Cardinality(Of(inline, m)') = next' - 1
  BY <1>4, <1>5, <1>6
<1>8. \A k \in DOMAIN inline' : inline'[k].msg <= m
  BY <1>1, <1>4, <1>5 DEF Numbered
<1> QED
  BY <1>6, <1>7, <1>8 DEF Numbered, AtReference

LEMMA NumberedReference ==
    ASSUME Typed, Numbered, AtReference, refs # <<>>, NEW changed, \E Z : changed \in RefRecords(Z),
           changed.msg = Current.msg, changed.files = Current.files \/ pc' = "detect",
           SetRef(changed), UNCHANGED <<m, next, inline>>, pc' \in {"detect", "match", "unpack"}
    PROVE  Numbered'
<1>1. /\ DOMAIN refs' = 1..Len(refs) /\ DOMAIN refs = 1..Len(refs) /\ Len(refs') = Len(refs)
      /\ Len(refs) \in 1..Len(refs) /\ refs'[Len(refs)] = changed
      /\ \A i \in 1..Len(refs) : i # Len(refs) => refs'[i] = refs[i]
  BY LastReplaced DEF Typed
<1>2. \A i \in 1..Len(refs) : refs'[i].msg = refs[i].msg
  BY <1>1 DEF Current
<1>3. Of(refs', m) = Of(refs, m)
  BY <1>1, <1>2 DEF Of
<1>4. Current' = changed
  BY <1>1 DEF Current
<1> QED
  BY <1>1, <1>2, <1>3, <1>4 DEF Numbered, AtReference

LEMMA NumberedDetect ==
    ASSUME Typed, Numbered, pc = "detect", NEW status, NEW reason, NEW place \in {"detect", "fetch"},
           Detect(status, reason, place)
    PROVE  Numbered'
<1> DEFINE added == RefResult(Msg[First(References(Msg, off))].ref, status, reason)
<1>1. added.msg = m /\ added.files = <<>>
  BY DEF RefResult
<1>2. refs' = Append(refs, added) /\ next' = next + 1 /\ pc' = place /\ UNCHANGED <<m, inline>>
  BY DEF Detect
<1> HIDE DEF added
<1> DEFINE Y == RefResults \cup {added}
<1>3. refs \in Seq(Y) /\ added \in Y
  BY SeqMonotonic DEF Typed, TypeOK
<1> HIDE DEF Y
<1>4. /\ \A k \in DOMAIN refs' : (k \in DOMAIN refs /\ refs'[k] = refs[k]) \/ refs'[k] = added
      /\ Cardinality(Of(refs', m)) = Cardinality(Of(refs, m)) + 1
      /\ refs'[Len(refs')] = added
  <2>1. /\ DOMAIN refs' = 1..(Len(refs) + 1) /\ DOMAIN refs = 1..Len(refs) /\ Len(refs) \in Nat
        /\ Len(refs') = Len(refs) + 1 /\ refs'[Len(refs) + 1] = added
        /\ \A k \in 1..Len(refs) : refs'[k] = refs[k]
    BY <1>2, <1>3, ListAppended
  <2>2. Cardinality(Of(refs', added.msg)) = Cardinality(Of(refs, added.msg)) + 1
    BY <1>2, <1>3, CountAppended
  <2> QED
    BY <1>1, <2>1, <2>2
<1>5. m \in Nat /\ next \in Nat
  BY MessageIndex DEF Typed, TypeOK
<1>6. Cardinality(Of(refs, m)') = next' - 1
  BY <1>2, <1>4, <1>5 DEF Numbered
<1>7. \A k \in DOMAIN refs' : refs'[k].msg <= m
  BY <1>1, <1>4, <1>5 DEF Numbered
<1>8. Current' = added
  BY <1>4 DEF Current
<1> QED
  BY <1>1, <1>2, <1>6, <1>7, <1>8 DEF Numbered, AtReference

\* A record for the item of the current reference, with these files.
Renews(changed, files) ==
    /\ \E Z : changed \in RefRecords(Z)
    /\ changed.msg = Current.msg /\ changed.ref = Current.ref /\ changed.files = files

LEMMA SameItem ==
    ASSUME Typed, refs # <<>>, NEW status, NEW reason, NEW files
    PROVE  /\ Renews(Current, Current.files)
           /\ Renews([Current EXCEPT !.status = status, !.reason = reason], Current.files)
           /\ Renews([Current EXCEPT !.fetched = TRUE, !.status = status, !.reason = reason], Current.files)
           /\ Renews([Current EXCEPT !.fetched = TRUE, !.status = status], Current.files)
           /\ Renews([Current EXCEPT !.status = status, !.files = files], files)
<1>1. PICK X : refs \in Seq(RefRecords(X))
  BY DEF Typed, Shape, Shaped
<1> DEFINE Z == X \cup {status, reason, files}
<1>2. Current \in RefRecords(X)
  BY <1>1, CurrentTyped
<1>3. /\ Current \in RefRecords(Z)
      /\ [Current EXCEPT !.status = status, !.reason = reason] \in RefRecords(Z)
      /\ [Current EXCEPT !.fetched = TRUE, !.status = status, !.reason = reason] \in RefRecords(Z)
      /\ [Current EXCEPT !.fetched = TRUE, !.status = status] \in RefRecords(Z)
      /\ [Current EXCEPT !.status = status, !.files = files] \in RefRecords(Z)
  BY <1>2 DEF RefRecords
<1> HIDE DEF Z
<1> QED
  BY <1>2, <1>3 DEF RefRecords, Renews

\* The steps of the loop over the references, by what they do to the report.
LEMMA RefLoopSteps ==
    ASSUME Typed, RefLoop
    PROVE  \/ pc = "detect" /\ \E status, reason : \E place \in {"detect", "fetch"} : Detect(status, reason, place)
           \/ /\ pc \in {"fetch", "match", "unpack"} /\ refs # <<>>
              /\ \E changed : \E place \in {"detect", "match", "unpack"} :
                   OnReference(changed, place) /\ Renews(changed, Current.files)
           \/ VerifyFetched
           \/ NextMessage
<1>1. CASE RejectReference \/ SkipReference \/ DetectReference
  BY <1>1 DEF RejectReference, SkipReference, DetectReference
<1>2. ASSUME pc \in {"fetch", "match", "unpack"}, NEW reason,
             OnReference([Current EXCEPT !.status = "failed", !.reason = reason], "detect")
      PROVE  /\ pc \in {"fetch", "match", "unpack"} /\ refs # <<>>
             /\ \E changed : \E place \in {"detect", "match", "unpack"} :
                  OnReference(changed, place) /\ Renews(changed, Current.files)
  <2> DEFINE changed == [Current EXCEPT !.status = "failed", !.reason = reason]
  <2>1. refs # <<>>
    BY <1>2 DEF Typed, Shape
  <2>2. OnReference(changed, "detect")
    BY <1>2
  <2>3. Renews(changed, Current.files)
    BY <2>1, SameItem
  <2> HIDE DEF changed
  <2> QED
    BY <1>2, <2>1, <2>2, <2>3
<1>3. CASE FetchFails
  <2>1. pc = "fetch" /\ \E reason : OnReference([Current EXCEPT !.status = "failed", !.reason = reason], "detect")
    BY <1>3 DEF FetchFails
  <2> QED
    BY <1>2, <2>1
<1>4. CASE FetchReturns
  <2>1. pc = "fetch" /\ refs # <<>>
    BY <1>4 DEF FetchReturns, Typed, Shape
  <2>2. CASE Current.ref.capsule = Bad
    <3> DEFINE changed == [Current EXCEPT !.fetched = TRUE, !.status = "failed",
                                          !.reason = "REFERENCE_TRANSPORT_ERROR"]
    <3>1. OnReference(changed, "detect")
      BY <1>4, <2>2 DEF FetchReturns
    <3>2. Renews(changed, Current.files)
      BY <2>1, SameItem
    <3> HIDE DEF changed
    <3> QED
      BY <2>1, <3>1, <3>2
  <2>3. CASE Current.ref.capsule # Bad
    <3> DEFINE changed == [Current EXCEPT !.fetched = TRUE, !.status = "fetched"]
    <3>1. OnReference(changed, "match")
      BY <1>4, <2>3 DEF FetchReturns
    <3>2. Renews(changed, Current.files)
      BY <2>1, SameItem
    <3> HIDE DEF changed
    <3> QED
      BY <2>1, <3>1, <3>2
  <2> QED
    BY <2>2, <2>3
<1>5. CASE MatchReference
  <2>1. pc = "match" /\ refs # <<>>
    BY <1>5 DEF MatchReference, Typed, Shape
  <2>2. CASE MatchErrors(Current.ref) = <<>>
    <3>1. OnReference(Current, "unpack")
      BY <1>5, <2>2 DEF MatchReference
    <3>2. Renews(Current, Current.files)
      BY <2>1, SameItem
    <3> QED
      BY <2>1, <3>1, <3>2
  <2>3. CASE MatchErrors(Current.ref) # <<>>
    <3>1. \E reason : OnReference([Current EXCEPT !.status = "failed", !.reason = reason], "detect")
      BY <1>5, <2>3 DEF MatchReference
    <3> QED
      BY <1>2, <2>1, <3>1
  <2> QED
    BY <2>2, <2>3
<1>6. CASE RejectFetched
  <2>1. pc = "unpack" /\ \E reason : OnReference([Current EXCEPT !.status = "failed", !.reason = reason], "detect")
    BY <1>6 DEF RejectFetched
  <2> QED
    BY <1>2, <2>1
<1> QED
  BY <1>1, <1>3, <1>4, <1>5, <1>6 DEF RefLoop

\* The steps of unpacking, by what they do to the report: the item is reported
\* with the files that were written or, after an error, with none.
LEMMA UnpackingSteps ==
    ASSUME Typed, Settled, Numbered, Unpacking
    PROVE  \/ WriteFile
           \/ /\ pc = "write"
              /\ \E status, reason, files, changed :
                   /\ Finish(InlineResult(task.capsule, status, reason, files), changed)
                   /\ task.kind = "reference" => Renews(changed, files)
                   /\ \/ files = <<>> /\ UnpackErrors # <<>> /\ status = "invalid"
                         /\ (task.kind = "reference" => changed.status = "failed")
                      \/ files = task.files /\ UnpackErrors = <<>>
                         /\ task.entry > Len(FilesToWrite(task.capsule))
                         /\ (task.kind = "reference" => changed.status = "unpacked")
<1>1. CASE WriteFile
  BY <1>1
<1>2. pc = "write" /\ task.kind = "reference" => refs # <<>> /\ Current.files = <<>>
  BY DEF Numbered, AtReference, Typed, Shape
<1>3. CASE UnpackFails
  <2> DEFINE error   == Head(UnpackErrors)
             changed == [Current EXCEPT !.status = "failed", !.reason = RefReason(error)]
  <2>1. /\ Finish(InlineResult(task.capsule, "invalid", InlineReason(error), <<>>), changed)
        /\ pc = "write" /\ UnpackErrors # <<>>
    BY <1>3 DEF UnpackFails, Current
  <2> HIDE DEF error
  <2>2. task.kind = "reference" => Renews(changed, <<>>) /\ Reports(changed, "failed", RefReason(error))
    <3> SUFFICES ASSUME task.kind = "reference" PROVE Renews(changed, <<>>) /\ Reports(changed, "failed", RefReason(error))
      OBVIOUS
    <3>1. refs # <<>> /\ Current.files = <<>>
      BY <1>2, <2>1
    <3>2. Renews(changed, Current.files)
      BY <3>1, SameItem
    <3>3. Reports(changed, "failed", RefReason(error))
      BY <3>1, Rewritten DEF Typed
    <3> QED
      BY <3>1, <3>2, <3>3
  <2> HIDE DEF changed
  <2>3. task.kind = "reference" => changed.status = "failed"
    BY <2>2 DEF Reports
  <2> QED
    BY <2>1, <2>2, <2>3
<1>4. CASE UnpackDone
  <2> DEFINE changed == [Current EXCEPT !.status = "unpacked", !.files = task.files]
  <2>1. /\ Finish(InlineResult(task.capsule, "unpacked", "none", task.files), changed)
        /\ pc = "write" /\ UnpackErrors = <<>> /\ task.entry > Len(FilesToWrite(task.capsule))
    BY <1>4 DEF UnpackDone, Current
  <2>2. task.kind = "reference" => Renews(changed, task.files) /\ Reports(changed, "unpacked", Current.reason)
    BY <1>2, <2>1, SameItem, Rewritten DEF Typed
  <2> HIDE DEF changed
  <2>3. task.kind = "reference" => changed.status = "unpacked"
    BY <2>2 DEF Reports
  <2> QED
    BY <2>1, <2>2, <2>3
<1> QED
  BY <1>1, <1>3, <1>4 DEF Unpacking

\* A step that reports nothing and does not go to another message.
LEMMA NumberedQuiet ==
    ASSUME Numbered, UNCHANGED <<m, inline, refs>>,
           \/ UNCHANGED <<pc, next>> /\ task'.kind = task.kind /\ task'.dir = task.dir
           \/ pc' = "down"
           \/ pc = "scan" /\ pc' = "extract" /\ UNCHANGED next
           \/ pc = "extract" /\ pc' = "inline" /\ UNCHANGED next
           \/ pc = "detect" /\ pc' = "done"
    PROVE  Numbered'
<1>1. UNCHANGED <<Of(inline, m), Of(refs, m), Current>>
  BY DEF Of, Current
<1>2. CASE pc = "extract" /\ pc' = "inline" /\ UNCHANGED next
  <2>1. Of(inline, m) = {} /\ Of(refs, m) = {} /\ next = 1
    BY <1>2 DEF Numbered
  <2>2. Cardinality(Of(inline, m)) = next - 1
    BY <2>1, FS_EmptySet
  <2> QED
    BY <1>1, <1>2, <2>1, <2>2 DEF Numbered, AtReference
<1>3. CASE UNCHANGED <<pc, next>> /\ task'.kind = task.kind /\ task'.dir = task.dir
  BY <1>1, <1>3 DEF Numbered, AtReference
<1>4. CASE ~(pc = "extract" /\ pc' = "inline" /\ UNCHANGED next)
           /\ ~(UNCHANGED <<pc, next>> /\ task'.kind = task.kind /\ task'.dir = task.dir)
  BY <1>1, <1>4 DEF Numbered, AtReference
<1> QED
  BY <1>2, <1>3, <1>4

LEMMA NumberedInlineLoop == ASSUME Typed, Typed', Numbered, InlineLoop PROVE Numbered'
<1>1. m \in Nat /\ next \in Nat
  BY MessageIndex DEF Typed, TypeOK
<1>2. CASE RejectBlock
  <2>1. \E c, reason : inline' = Append(inline, InlineResult(c, "invalid", reason, <<>>))
    BY <1>2 DEF RejectBlock
  <2>2. pc = "inline" /\ next' = next + 1 /\ UNCHANGED <<pc, m, refs>>
    BY <1>2 DEF RejectBlock
  <2> QED
    BY <2>1, <2>2, NumberedInlineResult
<1>3. CASE VerifyBlock
  <2>1. /\ pc = "inline" /\ pc' = "write" /\ UNCHANGED <<m, next, inline, refs>>
        /\ task'.kind = "inline" /\ task'.dir = <<"inline", m, next>>
    BY <1>3 DEF VerifyBlock, TaskFor
  <2> QED
    BY <2>1 DEF Numbered, AtReference
<1>4. CASE InlineEnd
  <2>1. pc = "inline" /\ pc' = "detect" /\ next' = 1 /\ UNCHANGED <<m, inline, refs>>
    BY <1>4 DEF InlineEnd
  <2>2. Of(refs, m) = {}
    BY <2>1 DEF Numbered
  <2>3. Cardinality(Of(refs, m)') = next' - 1
    BY <2>1, <2>2, FS_EmptySet
  <2> QED
    BY <2>1, <2>3 DEF Numbered, AtReference
<1> QED
  BY <1>2, <1>3, <1>4 DEF InlineLoop

LEMMA NumberedUnpacking == ASSUME Typed, Typed', Settled, Numbered, Unpacking PROVE Numbered'
<1>1. CASE WriteFile
  <2>1. task \in TaskStates
    BY DEF Typed, TypeOK, TaskStates
  <2>2. task'.kind = task.kind /\ task'.dir = task.dir /\ UNCHANGED <<m, pc, next, inline, refs>>
    BY <1>1, <2>1 DEF WriteFile, TaskStates
  <2> QED
    BY <2>2, NumberedQuiet
<1>2. ASSUME pc = "write", NEW status, NEW reason, NEW files, NEW changed,
             Finish(InlineResult(task.capsule, status, reason, files), changed),
             task.kind = "reference" => Renews(changed, files)
      PROVE  Numbered'
  <2>1. task.kind = "inline" \/ task.kind = "reference"
    BY <1>2 DEF Typed, Shape
  <2>2. CASE task.kind = "inline"
    <3>1. /\ inline' = Append(inline, InlineResult(task.capsule, status, reason, files))
          /\ next' = next + 1 /\ pc' = "inline" /\ UNCHANGED <<m, refs>>
      BY <1>2, <2>2 DEF Finish
    <3> QED
      BY <1>2, <2>2, <3>1, NumberedInlineResult
  <2>3. CASE task.kind = "reference"
    <3>1. SetRef(changed) /\ pc' = "detect" /\ UNCHANGED <<m, next, inline>>
      BY <1>2, <2>3 DEF Finish
    <3>2. AtReference /\ refs # <<>>
      BY <1>2, <2>3 DEF AtReference, Typed, Shape
    <3> QED
      BY <1>2, <2>3, <3>1, <3>2, NumberedReference DEF Renews
  <2> QED
    BY <2>1, <2>2, <2>3
<1> QED
  BY <1>1, <1>2, UnpackingSteps

LEMMA NumberedRefLoop == ASSUME Typed, Numbered, RefLoop PROVE Numbered'
<1>1. m \in Nat /\ next \in Nat
  BY MessageIndex DEF Typed, TypeOK
<1>2. ASSUME pc = "detect", NEW status, NEW reason, NEW place \in {"detect", "fetch"},
             Detect(status, reason, place)
      PROVE  Numbered'
  BY <1>2, NumberedDetect
<1>3. ASSUME pc \in {"fetch", "match", "unpack"}, refs # <<>>,
             NEW changed, NEW place \in {"detect", "match", "unpack"},
             OnReference(changed, place), Renews(changed, Current.files)
      PROVE  Numbered'
  <2>1. SetRef(changed) /\ pc' = place /\ UNCHANGED <<m, next, inline>>
    BY <1>3 DEF OnReference
  <2>2. AtReference /\ pc' \in {"detect", "match", "unpack"}
    BY <1>3, <2>1 DEF AtReference
  <2> QED
    BY <1>3, <2>1, <2>2, NumberedReference DEF Renews
<1>4. CASE VerifyFetched
  <2>1. /\ pc = "unpack" /\ pc' = "write" /\ UNCHANGED <<m, next, inline, refs>>
        /\ task'.kind = "reference" /\ task'.dir = <<"reference", m, next - 1>>
    BY <1>4 DEF VerifyFetched, TaskFor
  <2> QED
    BY <2>1 DEF Numbered, AtReference, Current
<1>5. CASE NextMessage
  <2>1. pc = "detect" /\ pc' = "extract" /\ m' = m + 1 /\ next' = 1 /\ UNCHANGED <<inline, refs>>
    BY <1>5 DEF NextMessage
  <2>0. inline \in Seq(InlineResults) /\ refs \in Seq(RefResults)
    BY DEF Typed, TypeOK
  <2>2. \A k \in DOMAIN inline : inline[k].msg \in Nat /\ inline[k].msg <= m
    <3>1. \A k \in DOMAIN inline : inline[k] \in InlineResults
      BY <2>0
    <3> QED
      BY <3>1 DEF InlineResults, Numbered
  <2>3. \A k \in DOMAIN refs : refs[k].msg \in Nat /\ refs[k].msg <= m
    <3>1. \A k \in DOMAIN refs : refs[k] \in RefResults
      BY <2>0
    <3> QED
      BY <3>1 DEF RefResults, Numbered
  <2>4. Of(inline, m + 1) = {} /\ Of(refs, m + 1) = {}
    BY <1>1, <2>2, <2>3 DEF Of
  <2>5. Of(inline, m)' = {} /\ Of(refs, m)' = {}
    BY <2>1, <2>4
  <2>6. (\A k \in DOMAIN inline : inline[k].msg <= m + 1) /\ \A k \in DOMAIN refs : refs[k].msg <= m + 1
    BY <1>1, <2>2, <2>3
  <2> QED
    BY <2>1, <2>5, <2>6 DEF Numbered, AtReference
<1> QED
  BY <1>2, <1>3, <1>4, <1>5, RefLoopSteps

LEMMA NumberedStep == Typed /\ Settled /\ Numbered /\ [Next]_vars => Numbered'
<1> SUFFICES ASSUME Typed, Settled, Numbered, [Next]_vars PROVE Numbered'
  OBVIOUS
<1>0. Typed'
  BY TypesStep
<1>1. CASE Scanning
  <2>1. UNCHANGED <<m, next, inline, refs>> /\ (UNCHANGED <<pc, task>> \/ (pc = "scan" /\ pc' = "extract"))
    BY <1>1, Zenon DEF Scanning, ScanBlock, ScanMalformed, ScanEnd, unscanned
  <2> QED
    BY <2>1, NumberedQuiet
<1>2. CASE Extracting
  <2>1. UNCHANGED <<m, next, inline, refs>> /\ (UNCHANGED <<pc, task>> \/ (pc = "extract" /\ pc' = "inline"))
    BY <1>2, Zenon DEF Extracting, ExtractBlock, ExtractMalformed, ExtractEnd
  <2> QED
    BY <2>1, NumberedQuiet
<1>3. CASE Done
  BY <1>3, NumberedQuiet DEF Done
<1>4. CASE Tick \/ Rest \/ UNCHANGED vars
  BY <1>4, NumberedQuiet DEF Tick, Rest, vars
<1>5. CASE TornWrite \/ Crash
  BY <1>5, NumberedQuiet DEF TornWrite, Crash
<1>6. CASE Restart
  <2>1. /\ inline' = <<>> /\ refs' = <<>> /\ m' = 1 /\ next' = 1 /\ (pc' = "scan" \/ pc' = "extract")
    BY <1>6 DEF Restart, StartOf
  <2> QED
    BY <2>1 DEF Numbered, AtReference, Of
<1> QED
  BY <1>0, <1>1, <1>2, <1>3, <1>4, <1>5, <1>6, NumberedInlineLoop, NumberedUnpacking, NumberedRefLoop
     DEF Next, Step

LEMMA NumberedInit == Init => Numbered
  BY DEF Init, StartOf, Numbered, AtReference, Of

\* The directory of an item with its verdict does not move as the report grows.
LEMMA DirsStay ==
    ASSUME Typed, Settled, Kept
    PROVE  /\ \A k \in DOMAIN inline :
                k \in DOMAIN inline' /\ inline'[k] = inline[k] /\ InlineDir(k)' = InlineDir(k)
           /\ \A k \in DOMAIN refs : refs[k].status \in FinalStatuses =>
                k \in DOMAIN refs' /\ refs'[k] = refs[k] /\ RefDir(k)' = RefDir(k)
<1>1. DOMAIN inline = 1..Len(inline) /\ DOMAIN refs = 1..Len(refs) /\ Len(inline) \in Nat /\ Len(refs) \in Nat
  BY LenProperties DEF Typed, TypeOK
<1>2. ASSUME NEW k \in DOMAIN inline PROVE InlineDir(k)' = InlineDir(k)
  <2>1. \A j \in 1..k : inline'[j] = inline[j]
    BY <1>1 DEF Kept
  <2>2. { j \in 1..k : inline'[j].msg = inline'[k].msg } = { j \in 1..k : inline[j].msg = inline[k].msg }
    BY <1>1, <2>1
  <2>3. inline'[k] = inline[k]
    BY DEF Kept
  <2> QED
    BY <2>2, <2>3 DEF InlineDir
<1>3. ASSUME NEW k \in DOMAIN refs, refs[k].status \in FinalStatuses PROVE RefDir(k)' = RefDir(k)
  <2>1. \A j \in 1..k : refs'[j] = refs[j]
    BY <1>1, <1>3 DEF Kept, Settled, SettledReference
  <2>2. { j \in 1..k : refs'[j].msg = refs'[k].msg } = { j \in 1..k : refs[j].msg = refs[k].msg }
    BY <1>1, <2>1
  <2>3. refs'[k] = refs[k]
    BY <1>3 DEF Kept
  <2> QED
    BY <2>2, <2>3 DEF RefDir
<1> QED
  BY <1>2, <1>3 DEF Kept

\* A step that adds no files to the report and removes none from the disk.
LEMMA HeldQuiet ==
    ASSUME Typed, Settled, Held, Kept, UNCHANGED disk,
           \A k \in DOMAIN inline' : k \notin DOMAIN inline => inline'[k].files = <<>>,
           \A k \in DOMAIN refs' :
               (k \in DOMAIN refs /\ refs[k].status \in FinalStatuses) \/ refs'[k].files = <<>>,
           pc' = "write" => UNCHANGED <<pc, task>> \/ task'.files = <<>>
    PROVE  Held'
<1>1. ASSUME NEW k \in DOMAIN inline', NEW i \in DOMAIN inline'[k].files
      PROVE  Holds(InlineDir(k), inline[k].capsule, inline[k].files[i])'
  <2>1. k \in DOMAIN inline /\ inline'[k] = inline[k] /\ InlineDir(k)' = InlineDir(k)
    BY <1>1, DirsStay
  <2> QED
    BY <2>1 DEF Held, ReportedFilesAreThere, Holds
<1>2. ASSUME NEW k \in DOMAIN refs', NEW i \in DOMAIN refs'[k].files
      PROVE  Holds(RefDir(k), refs[k].ref.capsule, refs[k].files[i])'
  <2>1. k \in DOMAIN refs /\ refs'[k] = refs[k] /\ RefDir(k)' = RefDir(k)
    BY <1>2, DirsStay
  <2> QED
    BY <2>1 DEF Held, ReportedFilesAreThere, Holds
<1>3. pc' = "write" => \A i \in DOMAIN task'.files : Holds(task.dir, task.capsule, task.files[i])'
  BY DEF Held, Holds
<1> QED
  BY <1>1, <1>2, <1>3 DEF Held, ReportedFilesAreThere

\* A file written for the capsule being unpacked replaces no file of an item.
LEMMA HeldPut ==
    ASSUME Typed, Settled, Numbered, Held, pc = "write", NEW data, Put(data), UNCHANGED <<inline, refs>>,
           \/ pc' # "write"
           \/ /\ data # Bad
              /\ UNCHANGED <<task.dir, task.capsule>>
              /\ task'.files = Append(task.files, Parts(NextFile.path))
    PROVE  Held'
<1> DEFINE p == Parts(NextFile.path)
<1>1. disk' = { f \in disk : f.dir # task.dir \/ f.path # p }
               \cup {[dir |-> task.dir, path |-> p, data |-> data, by |-> task.capsule]}
  BY DEF Put
<1> HIDE DEF p
<1>2. \A d, c, q : Holds(d, c, q) /\ (d # task.dir \/ q # p) =>
          \E f \in disk' : f.dir = d /\ f.path = q /\ f.by = c /\ f.data # Bad
  BY <1>1 DEF Holds
<1>3. ASSUME NEW k \in DOMAIN inline', NEW i \in DOMAIN inline'[k].files
      PROVE  Holds(InlineDir(k), inline[k].capsule, inline[k].files[i])'
  <2>1. InlineDir(k)' = InlineDir(k) /\ InlineDir(k) # task.dir
    BY OwnDirectory DEF InlineDir
  <2>2. Holds(InlineDir(k), inline[k].capsule, inline[k].files[i])
    BY DEF Held, ReportedFilesAreThere
  <2> QED
    BY <1>2, <2>1, <2>2 DEF Holds
<1>4. ASSUME NEW k \in DOMAIN refs', NEW i \in DOMAIN refs'[k].files
      PROVE  Holds(RefDir(k), refs[k].ref.capsule, refs[k].files[i])'
  <2>1. RefDir(k)' = RefDir(k) /\ RefDir(k) # task.dir
    BY OwnDirectory DEF RefDir
  <2>2. Holds(RefDir(k), refs[k].ref.capsule, refs[k].files[i])
    BY DEF Held, ReportedFilesAreThere
  <2> QED
    BY <1>2, <2>1, <2>2 DEF Holds
<1>5. ASSUME pc' = "write", NEW i \in DOMAIN task'.files
      PROVE  Holds(task.dir, task.capsule, task.files[i])'
  <2>1. /\ data # Bad /\ UNCHANGED <<task.dir, task.capsule>>
        /\ task'.files = Append(task.files, p)
    BY <1>5 DEF p
  <2>2. task.files \in Seq(PathStrings)
    BY DEF Typed, TypeOK
  <2>3. (i \in DOMAIN task.files /\ task'.files[i] = task.files[i]) \/ task'.files[i] = p
    BY <1>5, <2>1, <2>2
  <2>4. \E f \in disk' : f.dir = task.dir /\ f.path = p /\ f.by = task.capsule /\ f.data # Bad
    <3> DEFINE new == [dir |-> task.dir, path |-> p, data |-> data, by |-> task.capsule]
    <3>1. new.dir = task.dir /\ new.path = p /\ new.by = task.capsule /\ new.data # Bad
      BY <2>1
    <3>2. new \in disk'
      BY <1>1
    <3> HIDE DEF new
    <3> QED
      BY <3>1, <3>2
  <2>5. i \in DOMAIN task.files => Holds(task.dir, task.capsule, task.files[i])
    BY DEF Held
  <2>6. \E f \in disk' : f.dir = task.dir /\ f.path = task'.files[i] /\ f.by = task.capsule /\ f.data # Bad
    BY <1>2, <2>3, <2>4, <2>5
  <2> QED
    BY <2>1, <2>6 DEF Holds
<1> QED
  BY <1>3, <1>4, <1>5 DEF Held, ReportedFilesAreThere

\* The item that is reported has the directory its capsule was unpacked into.
LEMMA ReportedInline ==
    ASSUME Typed, Numbered, pc = "write", task.kind = "inline",
           NEW status, NEW reason, NEW files, NEW changed,
           Finish(InlineResult(task.capsule, status, reason, files), changed),
           NEW k, k = Len(inline) + 1
    PROVE  /\ UNCHANGED <<runs, malformed, disk, refs>> /\ pc' = "inline"
           /\ k \in DOMAIN inline' /\ \A j \in DOMAIN inline' : j \in DOMAIN inline \/ j = k
           /\ (inline[k].capsule)' = task.capsule /\ (inline[k].files)' = files
           /\ (inline[k].status)' = status /\ InlineDir(k)' = task.dir
<1> DEFINE added == InlineResult(task.capsule, status, reason, files)
           Y == InlineResults \cup {added}
<1>1. inline' = Append(inline, added) /\ UNCHANGED <<runs, malformed, disk, refs>> /\ pc' = "inline"
  BY DEF Finish
<1>2. added.msg = m /\ added.capsule = task.capsule /\ added.files = files /\ added.status = status
  BY DEF InlineResult
<1> HIDE DEF added
<1>3. inline \in Seq(Y) /\ added \in Y
  BY SeqMonotonic DEF Typed, TypeOK
<1> HIDE DEF Y
<1>4. /\ k \in DOMAIN inline' /\ \A j \in DOMAIN inline' : j \in DOMAIN inline \/ j = k
      /\ inline'[k] = added
  BY <1>1, <1>3, ListAppended
<1>5. Nth(inline', k) = Cardinality(Of(inline, added.msg)) + 1
  BY <1>1, <1>3, NumbersAppended
<1>6. task.dir = <<"inline", m, next>> /\ Cardinality(Of(inline, m)) = next - 1 /\ next \in Nat
  BY DEF Numbered, Typed, Shape
<1>7. InlineDir(k)' = <<"inline", inline'[k].msg, Nth(inline', k)>>
  BY DEF InlineDir, Nth
<1>8. InlineDir(k)' = task.dir
  BY <1>2, <1>4, <1>5, <1>6, <1>7
<1> QED
  BY <1>1, <1>2, <1>4, <1>8

LEMMA ReportedReference ==
    ASSUME Typed, Numbered, pc = "write", task.kind = "reference",
           NEW added, NEW files, NEW changed, Finish(added, changed), Renews(changed, files),
           NEW k, k = Len(refs)
    PROVE  /\ UNCHANGED <<runs, malformed, disk, inline>> /\ pc' = "detect"
           /\ k \in DOMAIN refs /\ DOMAIN refs' = DOMAIN refs
           /\ refs'[k] = changed /\ (refs[k].ref.capsule)' = task.capsule
           /\ (refs[k].files)' = files /\ RefDir(k)' = task.dir
<1>1. /\ SetRef(changed) /\ refs # <<>> /\ AtReference
      /\ UNCHANGED <<runs, malformed, disk, inline>> /\ pc' = "detect"
  BY DEF Finish, Typed, Shape, AtReference
<1>2. /\ DOMAIN refs' = 1..Len(refs) /\ DOMAIN refs = 1..Len(refs)
      /\ Len(refs) \in 1..Len(refs) /\ refs'[Len(refs)] = changed
      /\ \A j \in 1..Len(refs) : j # Len(refs) => refs'[j] = refs[j]
  BY <1>1, LastReplaced DEF Typed, Renews
<1>3. task.dir = <<"reference", m, next - 1>> /\ Cardinality(Of(refs, m)) = next - 1 /\ Current.msg = m
  BY <1>1 DEF Numbered
<1>4. changed.msg = m /\ changed.files = files /\ changed.ref = Current.ref
  BY <1>3 DEF Renews
<1>5. { j \in 1..k : refs'[j].msg = refs'[k].msg } = Of(refs, m)
  BY <1>2, <1>3, <1>4 DEF Of, Current
<1>6. RefDir(k)' = <<"reference", refs'[k].msg, Cardinality({ j \in 1..k : refs'[j].msg = refs'[k].msg })>>
  BY DEF RefDir
<1>7. RefDir(k)' = task.dir
  BY <1>2, <1>3, <1>4, <1>5, <1>6
<1>8. task.capsule = changed.ref.capsule
  BY <1>4 DEF Typed, Items, OnTheWay
<1> QED
  BY <1>1, <1>2, <1>4, <1>7, <1>8

LEMMA HeldFinish ==
    ASSUME Typed, Settled, Numbered, Held, Kept, pc = "write",
           NEW status, NEW reason, NEW files, NEW changed,
           Finish(InlineResult(task.capsule, status, reason, files), changed),
           task.kind = "reference" => Renews(changed, files),
           files = <<>> \/ files = task.files
    PROVE  Held'
<1>0. task.kind = "inline" \/ task.kind = "reference"
  BY DEF Typed, Shape
<1>1. UNCHANGED disk /\ pc' # "write"
  BY <1>0 DEF Finish
<1>2. \A d, c, q : Holds(d, c, q) => \E f \in disk' : f.dir = d /\ f.path = q /\ f.by = c /\ f.data # Bad
  BY <1>1 DEF Holds
<1>3. \A i \in DOMAIN files : \E f \in disk' :
        f.dir = task.dir /\ f.path = files[i] /\ f.by = task.capsule /\ f.data # Bad
  BY <1>2 DEF Held
<1>4. ASSUME NEW k \in DOMAIN inline', NEW i \in DOMAIN inline'[k].files
      PROVE  Holds(InlineDir(k), inline[k].capsule, inline[k].files[i])'
  <2>1. CASE k \in DOMAIN inline
    <3>1. inline'[k] = inline[k] /\ InlineDir(k)' = InlineDir(k)
      BY <2>1, DirsStay
    <3>2. Holds(InlineDir(k), inline[k].capsule, inline[k].files[i])
      BY <1>4, <2>1, <3>1 DEF Held, ReportedFilesAreThere
    <3> QED
      BY <1>2, <3>1, <3>2 DEF Holds
  <2>2. CASE k \notin DOMAIN inline
    <3>1. task.kind = "inline"
      BY <1>0, <2>2 DEF Finish
    <3>2. k = Len(inline) + 1
      BY <2>2, <3>1, ReportedInline
    <3>3. (inline[k].capsule)' = task.capsule /\ (inline[k].files)' = files /\ InlineDir(k)' = task.dir
      BY <3>1, <3>2, ReportedInline
    <3> QED
      BY <1>3, <3>3 DEF Holds
  <2> QED
    BY <2>1, <2>2
<1>5. ASSUME NEW k \in DOMAIN refs', NEW i \in DOMAIN refs'[k].files
      PROVE  Holds(RefDir(k), refs[k].ref.capsule, refs[k].files[i])'
  <2>1. CASE k \in DOMAIN refs /\ refs[k].status \in FinalStatuses
    <3>1. refs'[k] = refs[k] /\ RefDir(k)' = RefDir(k)
      BY <2>1, DirsStay
    <3>2. Holds(RefDir(k), refs[k].ref.capsule, refs[k].files[i])
      BY <1>5, <2>1, <3>1 DEF Held, ReportedFilesAreThere
    <3> QED
      BY <1>2, <3>1, <3>2 DEF Holds
  <2>2. CASE ~(k \in DOMAIN refs /\ refs[k].status \in FinalStatuses)
    <3>1. task.kind = "inline" => UNCHANGED refs /\ \A j \in DOMAIN refs : refs[j].status \in FinalStatuses
      BY DEF Finish, Settled, AtReference, SettledReference
    <3>2. task.kind = "reference" /\ k \in DOMAIN refs
      BY <1>0, <2>2, <3>1, ReportedReference
    <3>3. k = Len(refs)
      BY <2>2, <3>2 DEF Settled, SettledReference
    <3>4. (refs[k].ref.capsule)' = task.capsule /\ (refs[k].files)' = files /\ RefDir(k)' = task.dir
      BY <3>2, <3>3, ReportedReference
    <3> QED
      BY <1>3, <3>4 DEF Holds
  <2> QED
    BY <2>1, <2>2
<1> QED
  BY <1>1, <1>4, <1>5 DEF Held, ReportedFilesAreThere

LEMMA HeldRefLoop == ASSUME Typed, Settled, Numbered, Held, Kept, RefLoop PROVE Held'
<1>1. \A k \in DOMAIN refs : k # Len(refs) => refs[k].status \in FinalStatuses
  BY DEF Settled, SettledReference
<1>2. ASSUME pc = "detect", NEW status, NEW reason, NEW place \in {"detect", "fetch"},
             Detect(status, reason, place)
      PROVE  Held'
  <2> DEFINE added == RefResult(Msg[First(References(Msg, off))].ref, status, reason)
             Y == RefResults \cup {added}
  <2>1. added.files = <<>>
    BY DEF RefResult
  <2>2. refs' = Append(refs, added) /\ pc' # "write" /\ UNCHANGED <<inline, disk>>
    BY <1>2 DEF Detect
  <2> HIDE DEF added
  <2>3. refs \in Seq(Y) /\ added \in Y
    BY SeqMonotonic DEF Typed, TypeOK
  <2> HIDE DEF Y
  <2>4. \A k \in DOMAIN refs' : k \in DOMAIN refs \/ refs'[k] = added
    BY <2>2, <2>3, ListAppended
  <2>5. \A k \in DOMAIN refs : refs[k].status \in FinalStatuses
    BY <1>2 DEF Settled, AtReference, SettledReference
  <2> QED
    BY <2>1, <2>2, <2>4, <2>5, HeldQuiet
<1>3. ASSUME pc \in {"fetch", "match", "unpack"}, refs # <<>>,
             NEW changed, NEW place \in {"detect", "match", "unpack"},
             OnReference(changed, place), Renews(changed, Current.files)
      PROVE  Held'
  <2>1. SetRef(changed) /\ pc' # "write" /\ UNCHANGED <<inline, disk>>
    BY <1>3 DEF OnReference
  <2>2. changed.files = <<>>
    BY <1>3 DEF Renews, Numbered, AtReference
  <2>3. DOMAIN refs' = DOMAIN refs /\ refs'[Len(refs)] = changed
    BY <1>3, <2>1, LastReplaced DEF Typed, Renews
  <2>4. \A k \in DOMAIN refs' : (k \in DOMAIN refs /\ refs[k].status \in FinalStatuses) \/ refs'[k].files = <<>>
    BY <1>1, <2>2, <2>3
  <2> QED
    BY <2>1, <2>4, HeldQuiet
<1>4. CASE VerifyFetched
  <2>1. UNCHANGED <<inline, refs, disk>> /\ task'.files = <<>> /\ pc = "unpack"
    BY <1>4 DEF VerifyFetched, TaskFor
  <2>2. \A k \in DOMAIN refs : refs[k].status \in FinalStatuses \/ refs[k].files = <<>>
    BY <1>1, <2>1 DEF Numbered, AtReference, Current
  <2> QED
    BY <2>1, <2>2, HeldQuiet
<1>5. CASE NextMessage
  <2>1. pc = "detect" /\ pc' # "write" /\ UNCHANGED <<inline, refs, disk>>
    BY <1>5 DEF NextMessage
  <2>2. \A k \in DOMAIN refs : refs[k].status \in FinalStatuses
    BY <2>1 DEF Settled, AtReference, SettledReference
  <2> QED
    BY <2>1, <2>2, HeldQuiet
<1> QED
  BY <1>2, <1>3, <1>4, <1>5, RefLoopSteps

LEMMA HeldStep == Typed /\ Settled /\ Numbered /\ Held /\ [Next]_vars => Held'
<1> SUFFICES ASSUME Typed, Settled, Numbered, Held, [Next]_vars PROVE Held'
  OBVIOUS
<1>1. runs' = runs => Kept
  BY SettledStep DEF Typed
<1>2. ASSUME UNCHANGED <<inline, refs, disk>>, pc' = "write" => UNCHANGED <<pc, task>> \/ task'.files = <<>>
      PROVE  Held'
  <2>1. \A k : InlineDir(k)' = InlineDir(k) /\ RefDir(k)' = RefDir(k)
    BY <1>2 DEF InlineDir, RefDir
  <2>2. \A d, c, q : Holds(d, c, q) => \E f \in disk' : f.dir = d /\ f.path = q /\ f.by = c /\ f.data # Bad
    BY <1>2 DEF Holds
  <2>3. ASSUME NEW k \in DOMAIN inline', NEW i \in DOMAIN inline'[k].files
        PROVE  Holds(InlineDir(k), inline[k].capsule, inline[k].files[i])'
    <3>1. Holds(InlineDir(k), inline[k].capsule, inline[k].files[i])
      BY <1>2, <2>3 DEF Held, ReportedFilesAreThere
    <3> QED
      BY <1>2, <2>1, <2>2, <3>1 DEF Holds
  <2>4. ASSUME NEW k \in DOMAIN refs', NEW i \in DOMAIN refs'[k].files
        PROVE  Holds(RefDir(k), refs[k].ref.capsule, refs[k].files[i])'
    <3>1. Holds(RefDir(k), refs[k].ref.capsule, refs[k].files[i])
      BY <1>2, <2>4 DEF Held, ReportedFilesAreThere
    <3> QED
      BY <1>2, <2>1, <2>2, <3>1 DEF Holds
  <2>5. pc' = "write" => \A i \in DOMAIN task'.files : Holds(task.dir, task.capsule, task.files[i])'
    BY <1>2 DEF Held, Holds
  <2> QED
    BY <2>3, <2>4, <2>5 DEF Held, ReportedFilesAreThere
<1>3. CASE Scanning
  <2>1. UNCHANGED <<inline, refs, disk>> /\ (UNCHANGED <<pc, task>> \/ pc' = "extract")
    BY <1>3, Zenon DEF Scanning, ScanBlock, ScanMalformed, ScanEnd, unscanned
  <2> QED
    BY <1>2, <2>1
<1>4. CASE Extracting
  <2>1. UNCHANGED <<inline, refs, disk>> /\ (UNCHANGED <<pc, task>> \/ pc' = "inline")
    BY <1>4, Zenon DEF Extracting, ExtractBlock, ExtractMalformed, ExtractEnd
  <2> QED
    BY <1>2, <2>1
<1>5. CASE VerifyBlock \/ InlineEnd
  BY <1>2, <1>5 DEF VerifyBlock, InlineEnd, TaskFor
<1>6. CASE Done \/ Tick \/ Rest \/ Crash \/ UNCHANGED vars
  BY <1>2, <1>6 DEF Done, Tick, Rest, Crash, vars
<1>7. CASE RejectBlock
  <2>1. \E c, reason : inline' = Append(inline, InlineResult(c, "invalid", reason, <<>>))
    BY <1>7 DEF RejectBlock
  <2>2. pc = "inline" /\ UNCHANGED <<pc, runs, refs, disk>>
    BY <1>7 DEF RejectBlock
  <2>3. PICK added : inline' = Append(inline, added) /\ added.files = <<>>
    BY <2>1 DEF InlineResult
  <2>4. inline \in Seq(InlineResults \cup {added}) /\ added \in InlineResults \cup {added}
    BY SeqMonotonic DEF Typed, TypeOK
  <2>5. \A k \in DOMAIN inline' : k \in DOMAIN inline \/ inline'[k] = added
    BY <2>3, <2>4, ListAppended
  <2>6. \A k \in DOMAIN refs : refs[k].status \in FinalStatuses
    BY <2>2 DEF Settled, AtReference, SettledReference
  <2> QED
    BY <1>1, <2>2, <2>3, <2>5, <2>6, HeldQuiet
<1>8. CASE WriteFile
  <2>1. task \in TaskStates
    BY DEF Typed, TypeOK, TaskStates
  <2>2. /\ pc = "write" /\ Put(NextFile.data) /\ UNCHANGED <<inline, refs>>
        /\ task'.files = Append(task.files, Parts(NextFile.path)) /\ UNCHANGED <<task.dir, task.capsule>>
    BY <1>8, <2>1 DEF WriteFile, TaskStates
  <2>3. NextFile.data # Bad
    BY <1>8, <2>1, NextFileTyped DEF WriteFile
  <2> QED
    BY <2>2, <2>3, HeldPut
<1>9. CASE Unpacking /\ ~WriteFile
  <2>1. pc = "write" /\ \E status, reason, files, changed :
           /\ Finish(InlineResult(task.capsule, status, reason, files), changed)
           /\ task.kind = "reference" => Renews(changed, files)
           /\ files = <<>> \/ files = task.files
    BY <1>9, UnpackingSteps
  <2>2. runs' = runs
    BY <2>1 DEF Finish
  <2> QED
    BY <1>1, <2>1, <2>2, HeldFinish
<1>10. CASE RefLoop
  <2>1. runs' = runs
    BY <1>10, Zenon DEF RefLoop, RejectReference, SkipReference, DetectReference, Detect, FetchFails,
       FetchReturns, MatchReference, RejectFetched, OnReference, VerifyFetched, NextMessage
  <2> QED
    BY <1>1, <1>10, <2>1, HeldRefLoop
<1>11. CASE TornWrite
  BY <1>11, HeldPut DEF TornWrite
<1>12. CASE Restart
  <2>1. inline' = <<>> /\ refs' = <<>> /\ pc' # "write"
    BY <1>12 DEF Restart, StartOf
  <2> QED
    BY <2>1 DEF Held, ReportedFilesAreThere
<1> QED
  BY <1>3, <1>4, <1>5, <1>6, <1>7, <1>8, <1>9, <1>10, <1>11, <1>12 DEF Next, Step, InlineLoop

LEMMA PlacesAlways == Spec => [](Typed /\ Settled /\ Numbered /\ Held)
<1>1. Init => Numbered /\ Held
  BY NumberedInit DEF Init, StartOf, Held, ReportedFilesAreThere
<1> QED
  BY <1>1, NumberedStep, HeldStep, TypesAlways, SettledAlways, PTL DEF Spec

\* A file an item is reported with is on disk in the directory of that item, whole,
\* with bytes of its capsule: no later item and no earlier run replaced it, and no
\* two items of a run share a directory (receiver.py, the numbered output paths).
THEOREM ReportedFilesExist == Spec => []ReportedFilesAreThere
<1>1. Held => ReportedFilesAreThere
  BY DEF Held
<1> QED
  BY <1>1, PlacesAlways, PTL

-----------------------------------------------------------------------------
\* Where the files of a run that was not killed come from.

\* A file that the report names, or that it counts a half unpacked bundle for.
Recorded(f) ==
    \/ \E k \in DOMAIN inline : \E i \in DOMAIN inline[k].files :
          f.dir = InlineDir(k) /\ f.path = inline[k].files[i]
    \/ \E k \in DOMAIN refs : \E i \in DOMAIN refs[k].files :
          f.dir = RefDir(k) /\ f.path = refs[k].files[i]
    \/ HasFailures /\ Len(FilesToWrite(f.by)) > 1

\* A file of the capsule being unpacked.
Underway(f) ==
    /\ pc = "write" /\ f.dir = task.dir /\ f.by = task.capsule
    /\ \E i \in DOMAIN task.files : f.path = task.files[i]

Orphans ==
    /\ runs >= 1
    /\ runs = 1 /\ pc # "down" => \A f \in disk : Recorded(f) \/ Underway(f)
    /\ pc = "write" => /\ task.entry = Len(task.files) + 1
                       /\ NotABundle(task.capsule) => task.files = <<>>

\* What is recorded of a file stays recorded as the report grows.
LEMMA RecordedStays ==
    ASSUME Typed, Settled, Numbered, Kept, pc # "down", malformed # 0 => malformed' # 0, NEW f, Recorded(f)
    PROVE  Recorded(f)'
<1>1. ASSUME NEW k \in DOMAIN inline, NEW i \in DOMAIN inline[k].files,
             f.dir = InlineDir(k) /\ f.path = inline[k].files[i]
      PROVE  Recorded(f)'
  <2>1. k \in DOMAIN inline' /\ inline'[k] = inline[k] /\ InlineDir(k)' = InlineDir(k)
    BY DirsStay
  <2> QED
    BY <1>1, <2>1 DEF Recorded
<1>2. ASSUME NEW k \in DOMAIN refs, NEW i \in DOMAIN refs[k].files,
             f.dir = RefDir(k) /\ f.path = refs[k].files[i]
      PROVE  Recorded(f)'
  <2>1. refs[k].status \in FinalStatuses
    <3>1. CASE k = Len(refs) /\ AtReference
      BY <3>1 DEF Numbered, Current
    <3>2. CASE k # Len(refs) \/ ~AtReference
      BY <3>2 DEF Settled, SettledReference
    <3> QED
      BY <3>1, <3>2
  <2>2. k \in DOMAIN refs' /\ refs'[k] = refs[k] /\ RefDir(k)' = RefDir(k)
    BY <2>1, DirsStay
  <2> QED
    BY <1>2, <2>2 DEF Recorded
<1>3. HasFailures => HasFailures'
  BY DEF HasFailures, Kept, FinalStatuses
<1>4. CASE HasFailures /\ Len(FilesToWrite(f.by)) > 1
  BY <1>3, <1>4 DEF Recorded
<1> QED
  BY <1>1, <1>2, <1>4 DEF Recorded

\* A step that leaves the files on disk, and the capsule being unpacked, as they are.
LEMMA OrphansQuiet ==
    ASSUME Typed, Settled, Numbered, Orphans, Kept, UNCHANGED <<runs, disk>>,
           pc # "down" \/ pc' = "down", malformed # 0 => malformed' # 0,
           \/ UNCHANGED <<pc, task>>
           \/ pc # "write" /\ pc' # "write"
           \/ pc' = "down"
           \/ pc # "write" /\ task'.entry = 1 /\ task'.files = <<>>
    PROVE  Orphans'
<1>1. CASE pc' = "down"
  BY <1>1 DEF Orphans
<1>2. CASE pc' # "down"
  <2>1. runs' = 1 => \A f \in disk' : Recorded(f)' \/ Underway(f)
    BY <1>2, RecordedStays DEF Orphans
  <2>2. \A f : Underway(f) => Underway(f)'
    BY <1>2 DEF Underway
  <2>3. pc' = "write" => task'.entry = Len(task'.files) + 1 /\ (NotABundle(task'.capsule) => task'.files = <<>>)
    BY <1>2 DEF Orphans
  <2> QED
    BY <2>1, <2>2, <2>3 DEF Orphans
<1> QED
  BY <1>1, <1>2

LEMMA OrphansWrite ==
    ASSUME Typed, Settled, Numbered, Orphans, Kept, WriteFile
    PROVE  Orphans'
<1> DEFINE p == Parts(NextFile.path)
<1>0. PICK new : new = [dir |-> task.dir, path |-> p, data |-> NextFile.data, by |-> task.capsule]
  OBVIOUS
<1>1. task \in TaskStates /\ task.files \in Seq(PathStrings)
  BY DEF Typed, TypeOK, TaskStates
<1>2. /\ pc = "write" /\ UnpackErrors = <<>> /\ UNCHANGED <<runs, pc, malformed>>
      /\ disk' \subseteq disk \cup {new}
  BY <1>0, <1>1 DEF WriteFile, Put
<1>3. /\ task'.files = Append(task.files, p) /\ task'.entry = task.entry + 1
      /\ UNCHANGED <<task.dir, task.capsule>>
  BY <1>1 DEF WriteFile, TaskStates
<1>4. new.dir = task.dir /\ new.path = p /\ new.by = task.capsule
  BY <1>0
<1> HIDE DEF p
<1>5. /\ Len(task.files) + 1 \in DOMAIN task'.files /\ task'.files[Len(task.files) + 1] = p
      /\ \A i \in DOMAIN task.files : i \in DOMAIN task'.files /\ task'.files[i] = task.files[i]
      /\ Len(task'.files) = Len(task.files) + 1 /\ Len(task.files) \in Nat
  BY <1>1, <1>2, <1>3
<1>6. Underway(new)'
  BY <1>2, <1>3, <1>4, <1>5 DEF Underway
<1>7. \A f : Underway(f) => Underway(f)'
  BY <1>2, <1>3, <1>5 DEF Underway
<1>8. runs' = 1 => \A f \in disk' : Recorded(f)' \/ Underway(f)'
  BY <1>2, <1>6, <1>7, RecordedStays DEF Orphans
<1>9. ~NotABundle(task.capsule)
  BY <1>2 DEF UnpackErrors
<1>10. task'.entry = Len(task'.files) + 1 /\ ~NotABundle(task'.capsule)
  BY <1>2, <1>3, <1>5, <1>9 DEF Orphans
<1> QED
  BY <1>2, <1>8, <1>10 DEF Orphans

\* Once the item is reported its files are recorded: by name, or by the failure.
LEMMA OrphansFinish ==
    ASSUME Typed, Settled, Numbered, Orphans, Kept, Unpacking, ~WriteFile
    PROVE  Orphans'
<1>1. /\ pc = "write"
      /\ \E status, reason, files, changed :
           /\ Finish(InlineResult(task.capsule, status, reason, files), changed)
           /\ task.kind = "reference" => Renews(changed, files)
           /\ \/ files = <<>> /\ UnpackErrors # <<>> /\ status = "invalid"
                 /\ (task.kind = "reference" => changed.status = "failed")
              \/ files = task.files
  BY UnpackingSteps
<1>2. PICK status, reason, files, changed :
           /\ Finish(InlineResult(task.capsule, status, reason, files), changed)
           /\ task.kind = "reference" => Renews(changed, files)
           /\ \/ files = <<>> /\ UnpackErrors # <<>> /\ status = "invalid"
                 /\ (task.kind = "reference" => changed.status = "failed")
              \/ files = task.files
  BY <1>1
<1>3. task.kind = "inline" \/ task.kind = "reference"
  BY <1>1 DEF Typed, Shape
<1>4. UNCHANGED <<runs, malformed, disk>> /\ pc' # "write"
  BY <1>2, <1>3 DEF Finish
<1>5. ASSUME NEW f, Underway(f) PROVE Recorded(f)'
  <2>1. PICK i \in DOMAIN task.files : f.path = task.files[i]
    BY <1>5 DEF Underway
  <2>2. f.dir = task.dir /\ f.by = task.capsule
    BY <1>5 DEF Underway
  <2>3. CASE files = task.files
    <3>1. CASE task.kind = "inline"
      <4>0. PICK k : k = Len(inline) + 1
        OBVIOUS
      <4>1. k \in DOMAIN inline' /\ inline'[k].files = files /\ InlineDir(k)' = task.dir
        BY <1>1, <1>2, <4>0, <3>1, ReportedInline
      <4> QED
        BY <2>1, <2>2, <2>3, <4>1 DEF Recorded
    <3>2. CASE task.kind = "reference"
      <4>0. PICK k : k = Len(refs)
        OBVIOUS
      <4>1. k \in DOMAIN refs' /\ refs'[k].files = files /\ RefDir(k)' = task.dir
        BY <1>1, <1>2, <4>0, <3>2, ReportedReference
      <4> QED
        BY <2>1, <2>2, <2>3, <4>1 DEF Recorded
    <3> QED
      BY <1>3, <3>1, <3>2
  <2>4. CASE UnpackErrors # <<>> /\ status = "invalid" /\ (task.kind = "reference" => changed.status = "failed")
    <3>1. HasFailures'
      <4>1. CASE task.kind = "inline"
        <5>0. PICK k : k = Len(inline) + 1
          OBVIOUS
        <5>1. k \in DOMAIN inline' /\ inline'[k].status = "invalid"
          BY <1>1, <1>2, <2>4, <5>0, <4>1, ReportedInline
        <5> QED
          BY <5>1 DEF HasFailures
      <4>2. CASE task.kind = "reference"
        <5>0. PICK k : k = Len(refs)
          OBVIOUS
        <5>1. k \in DOMAIN refs' /\ refs'[k].status = "failed"
          BY <1>1, <1>2, <2>4, <5>0, <4>2, ReportedReference
        <5> QED
          BY <5>1 DEF HasFailures
      <4> QED
        BY <1>3, <4>1, <4>2
    <3>2. task.files # <<>> /\ Len(task.files) \in Nat /\ Len(task.files) >= 1
      BY <2>1 DEF Typed, TypeOK
    <3>3. ~NotABundle(task.capsule) /\ task.entry = Len(task.files) + 1
      BY <1>1, <3>2 DEF Orphans
    <3>4. task.entry <= Len(FilesToWrite(task.capsule))
      <4>1. ~(task.entry > Len(FilesToWrite(task.capsule)))
        BY <2>4, <3>3, Zenon DEF UnpackErrors
      <4>2. Len(FilesToWrite(task.capsule)) \in Nat
        BY FilesTyped DEF Typed, TypeOK
      <4> QED
        BY <3>2, <3>3, <4>1, <4>2
    <3>5. Len(FilesToWrite(f.by)) > 1
      <4>1. Len(FilesToWrite(task.capsule)) \in Nat
        BY FilesTyped DEF Typed, TypeOK
      <4> QED
        BY <2>2, <3>2, <3>3, <3>4, <4>1
    <3> QED
      BY <3>1, <3>5 DEF Recorded
  <2> QED
    BY <1>2, <2>3, <2>4
<1>6. \A f : Recorded(f) => Recorded(f)'
  BY <1>1, <1>4, RecordedStays
<1> QED
  BY <1>1, <1>4, <1>5, <1>6 DEF Orphans

LEMMA OrphansRefLoop == ASSUME Typed, Settled, Numbered, Orphans, Kept, RefLoop PROVE Orphans'
<1>1. CASE VerifyFetched
  <2>1. /\ pc = "unpack" /\ pc' = "write" /\ UNCHANGED <<runs, disk, malformed>>
        /\ task'.entry = 1 /\ task'.files = <<>>
    BY <1>1 DEF VerifyFetched, TaskFor
  <2> QED
    BY <2>1, OrphansQuiet
<1>2. CASE RefLoop /\ ~VerifyFetched
  <2>1. UNCHANGED <<runs, disk, malformed>> /\ pc \in {"detect", "fetch", "match", "unpack"}
        /\ pc' \in {"detect", "fetch", "match", "unpack", "extract"}
    BY <1>2, RefLoopSteps DEF Detect, OnReference, NextMessage
  <2> QED
    BY <2>1, OrphansQuiet
<1> QED
  BY <1>1, <1>2

LEMMA OrphansStep == Typed /\ Settled /\ Numbered /\ Orphans /\ [Next]_vars => Orphans'
<1> SUFFICES ASSUME Typed, Settled, Numbered, Orphans, [Next]_vars PROVE Orphans'
  OBVIOUS
<1>1. runs' = runs => Kept
  BY SettledStep DEF Typed
<1>2. malformed \in Nat
  BY DEF Typed, TypeOK
<1>3. CASE Scanning
  <2>1. pc = "scan" /\ UNCHANGED <<runs, disk, malformed>> /\ (UNCHANGED <<pc, task>> \/ pc' = "extract")
    BY <1>3, Zenon DEF Scanning, ScanBlock, ScanMalformed, ScanEnd, unscanned
  <2> QED
    BY <1>1, <2>1, OrphansQuiet
<1>4. CASE Extracting
  <2>1. /\ pc = "extract" /\ UNCHANGED <<runs, disk>> /\ (UNCHANGED <<pc, task>> \/ pc' = "inline")
        /\ malformed' = malformed \/ malformed' = malformed + 1
    BY <1>4, Zenon DEF Extracting, ExtractBlock, ExtractMalformed, ExtractEnd
  <2> QED
    BY <1>1, <1>2, <2>1, OrphansQuiet
<1>5. CASE RejectBlock \/ InlineEnd
  <2>1. pc = "inline" /\ UNCHANGED <<runs, disk, malformed>> /\ (pc' = "inline" \/ pc' = "detect")
    BY <1>5, Zenon DEF RejectBlock, InlineEnd
  <2> QED
    BY <1>1, <2>1, OrphansQuiet
<1>6. CASE VerifyBlock
  <2>1. /\ pc = "inline" /\ pc' = "write" /\ UNCHANGED <<runs, disk, malformed>>
        /\ task'.entry = 1 /\ task'.files = <<>>
    BY <1>6 DEF VerifyBlock, TaskFor
  <2> QED
    BY <1>1, <2>1, OrphansQuiet
<1>7. CASE WriteFile
  <2>1. runs' = runs
    BY <1>7 DEF WriteFile
  <2> QED
    BY <1>1, <1>7, <2>1, OrphansWrite
<1>8. CASE Unpacking /\ ~WriteFile
  <2>1. runs' = runs
    BY <1>8 DEF Unpacking, UnpackFails, UnpackDone, Finish
  <2> QED
    BY <1>1, <1>8, <2>1, OrphansFinish
<1>9. CASE RefLoop
  <2>1. runs' = runs
    BY <1>9, Zenon DEF RefLoop, RejectReference, SkipReference, DetectReference, Detect, FetchFails,
       FetchReturns, MatchReference, RejectFetched, OnReference, VerifyFetched, NextMessage
  <2> QED
    BY <1>1, <1>9, <2>1, OrphansRefLoop
<1>10. CASE Done
  BY <1>1, <1>10, OrphansQuiet DEF Done
<1>11. CASE Tick \/ Rest \/ UNCHANGED vars
  <2>1. UNCHANGED <<runs, disk, pc, task, malformed>>
    BY <1>11 DEF Tick, Rest, vars
  <2> QED
    BY <1>1, <2>1, OrphansQuiet
<1>12. CASE Crash
  BY <1>1, <1>12, OrphansQuiet DEF Crash
<1>13. CASE TornWrite
  BY <1>13 DEF TornWrite, Orphans
<1>14. CASE Restart
  <2>1. runs' = runs + 1 /\ (pc' = "scan" \/ pc' = "extract") /\ runs \in Nat
    BY <1>14 DEF Restart, StartOf, Typed, TypeOK
  <2> QED
    BY <2>1 DEF Orphans
<1> QED
  BY <1>3, <1>4, <1>5, <1>6, <1>7, <1>8, <1>9, <1>10, <1>11, <1>12, <1>13, <1>14 DEF Next, Step, InlineLoop

\* After one run that was not killed the report accounts for every file: it names
\* the file, or the file is of a bundle that failed half way and the report blocks
\* (receiver.py, the except branches that leave written files where they are).
THEOREM EveryFileIsAccountedFor == Spec => []OrphansAreReported
<1>1. Init => Orphans
  BY DEF Init, StartOf, Orphans
<1>2. Orphans => OrphansAreReported
  BY DEF Orphans, OrphansAreReported, Recorded, Underway, Disposition
<1> QED
  BY <1>1, <1>2, OrphansStep, PlacesAlways, PTL DEF Spec

-----------------------------------------------------------------------------
\* What a finished run reports against its messages.

\* The items of a set of places in the messages that come before a place.
Preceding(S, x, o) == { p \in S : p[1] < x \/ (p[1] = x /\ p[2] < o) }

Counts(n, T) == IsFiniteSet(T) /\ Cardinality(T) = n

Spots == (Nat \ {0}) \X (Nat \ {0})

\* Going on from one place to a later one passes the items in between: none, or one.
LEMMA PassNone ==
    ASSUME NEW S \in SUBSET Spots, NEW x \in Nat, NEW o \in Nat, NEW later \in Nat, o <= later,
           \A i \in o..(later - 1) : <<x, i>> \notin S
    PROVE  Preceding(S, x, later) = Preceding(S, x, o)
<1>1. \A p \in S : p = <<p[1], p[2]>> /\ p[1] \in Nat /\ p[2] \in Nat
  BY DEF Spots
<1>2. ASSUME NEW p \in S, p[1] = x PROVE p[2] < later <=> p[2] < o
  BY <1>1, <1>2
<1> QED
  BY <1>1, <1>2 DEF Preceding

LEMMA PassOne ==
    ASSUME NEW S \in SUBSET Spots, NEW x \in Nat, NEW o \in Nat, NEW later \in Nat,
           NEW i \in o..(later - 1), <<x, i>> \in S,
           \A j \in o..(later - 1) : j # i => <<x, j>> \notin S
    PROVE  /\ Preceding(S, x, later) = Preceding(S, x, o) \cup {<<x, i>>}
           /\ <<x, i>> \notin Preceding(S, x, o)
<1>1. \A p \in S : p = <<p[1], p[2]>> /\ p[1] \in Nat /\ p[2] \in Nat
  BY DEF Spots
<1>2. ASSUME NEW p \in S, p[1] = x PROVE p[2] < later <=> p[2] < o \/ p = <<x, i>>
  BY <1>1, <1>2
<1> QED
  BY <1>1, <1>2 DEF Preceding

\* Going on to the next message passes what is left of this one.
LEMMA PassMessage ==
    ASSUME NEW S \in SUBSET Spots, NEW x \in Nat, NEW o \in Nat,
           \A i \in Nat : o <= i => <<x, i>> \notin S
    PROVE  Preceding(S, x + 1, 1) = Preceding(S, x, o)
<1>1. \A p \in S : p = <<p[1], p[2]>> /\ p[1] \in Nat /\ p[2] \in Nat \ {0}
  BY DEF Spots
<1>2. ASSUME NEW p \in S, p[1] = x PROVE p[2] < o
  BY <1>1, <1>2
<1>3. ASSUME NEW p \in S
      PROVE  (p[1] < x + 1 \/ (p[1] = x + 1 /\ p[2] < 1)) <=> (p[1] < x \/ (p[1] = x /\ p[2] < o))
  BY <1>1, <1>2
<1> QED
  BY <1>3 DEF Preceding

LEMMA PassAll ==
    ASSUME NEW S \in SUBSET Spots, NEW x \in Nat, \A p \in S : p[1] <= x
    PROVE  Preceding(S, x + 1, 1) = S
  BY DEF Preceding, Spots

LEMMA PassedNothing ==
    ASSUME NEW S \in SUBSET Spots
    PROVE  Preceding(S, 1, 1) = {}
  BY DEF Preceding, Spots

LEMMA OneMore ==
    ASSUME NEW n \in Int, NEW T, NEW x, Counts(n, T), x \notin T
    PROVE  Counts(n + 1, T \cup {x})
  BY FS_AddElement DEF Counts

-----------------------------------------------------------------------------
\* What there is in a message.

LEMMA SpotHere ==
    ASSUME NEW kind, NEW k, NEW i
    PROVE  <<k, i>> \in Spot(kind) <=>
             k \in DOMAIN job.msgs /\ i \in DOMAIN job.msgs[k] /\ job.msgs[k][i].kind = kind
  BY DEF Spot

LEMMA SpotsTyped ==
    ASSUME job \in Jobs, NEW kind
    PROVE  /\ Spot(kind) \in SUBSET Spots
           /\ \A p \in Spot(kind) : p[1] \in DOMAIN job.msgs
<1>1. job.msgs \in Seq(Seq(Tokens))
  BY ReceiverAssumption DEF Job
<1>2. \A k \in DOMAIN job.msgs : k \in Nat \ {0} /\ DOMAIN job.msgs[k] \subseteq Nat \ {0}
  BY <1>1
<1> QED
  BY <1>2 DEF Spot, Spots

LEMMA MarkersTyped ==
    ASSUME job \in Jobs
    PROVE  /\ Closing \in SUBSET Spots /\ Unclosed \in SUBSET Spots
           /\ \A p \in Closing \cup Unclosed : p[1] \in DOMAIN job.msgs
  BY SpotsTyped DEF Closing, Unclosed

\* End markers that close a block, and begin markers that nothing closes, by message.
LEMMA ClosingIn ==
    ASSUME job \in Jobs, NEW k \in DOMAIN job.msgs, NEW i
    PROVE  <<k, i>> \in Closing <=>
             /\ i \in DOMAIN job.msgs[k] /\ job.msgs[k][i].kind = "end"
             /\ \E b \in DOMAIN job.msgs[k] :
                  /\ b < i /\ job.msgs[k][b].kind = "begin"
                  /\ \A r \in DOMAIN job.msgs[k] : b < r /\ r < i => job.msgs[k][r].kind # "end"
<1> DEFINE msg == job.msgs[k]
<1>1. \A kind, j : <<k, j>> \in Spot(kind) <=> j \in DOMAIN msg /\ msg[j].kind = kind
  BY SpotHere
<1>2. \A kind : \A p \in Spot(kind) : p = <<p[1], p[2]>>
  BY SpotsTyped DEF Spots
<1>3. <<k, i>>[1] = k /\ <<k, i>>[2] = i
  OBVIOUS
<1> HIDE DEF msg
<1>4. ASSUME <<k, i>> \in Closing
      PROVE  /\ i \in DOMAIN msg /\ msg[i].kind = "end"
             /\ \E b \in DOMAIN msg :
                  /\ b < i /\ msg[b].kind = "begin"
                  /\ \A r \in DOMAIN msg : b < r /\ r < i => msg[r].kind # "end"
  <2>1. PICK p \in Spot("begin") :
               /\ p[1] = k /\ p[2] < i
               /\ ~\E r \in Spot("end") : r[1] = p[1] /\ p[2] < r[2] /\ r[2] < i
    BY <1>3, <1>4 DEF Closing
  <2>2. p = <<k, p[2]>> /\ <<k, i>> \in Spot("end")
    BY <1>2, <1>4, <2>1 DEF Closing
  <2>3. \A r \in DOMAIN msg : msg[r].kind = "end" => <<k, r>> \in Spot("end") /\ <<k, r>>[1] = k /\ <<k, r>>[2] = r
    BY <1>1
  <2>4. PICK b : b = p[2]
    OBVIOUS
  <2>5. b \in DOMAIN msg /\ msg[b].kind = "begin" /\ b < i /\ i \in DOMAIN msg /\ msg[i].kind = "end"
    BY <1>1, <2>1, <2>2, <2>4
  <2>6. \A r \in DOMAIN msg : b < r /\ r < i => msg[r].kind # "end"
    BY <2>1, <2>3, <2>4
  <2> QED
    BY <2>5, <2>6
<1>5. ASSUME i \in DOMAIN msg, msg[i].kind = "end", NEW b \in DOMAIN msg, b < i, msg[b].kind = "begin",
             \A r \in DOMAIN msg : b < r /\ r < i => msg[r].kind # "end"
      PROVE  <<k, i>> \in Closing
  <2>1. <<k, i>> \in Spot("end") /\ <<k, b>> \in Spot("begin") /\ <<k, b>>[1] = k /\ <<k, b>>[2] = b
    BY <1>1, <1>5
  <2>2. \A r \in Spot("end") : r[1] = k => r[2] \in DOMAIN msg /\ msg[r[2]].kind = "end"
    BY <1>1, <1>2
  <2> QED
    BY <1>3, <1>5, <2>1, <2>2 DEF Closing
<1> QED
  BY <1>4, <1>5 DEF msg

LEMMA UnclosedIn ==
    ASSUME job \in Jobs, NEW k \in DOMAIN job.msgs, NEW i
    PROVE  <<k, i>> \in Unclosed <=>
             /\ i \in DOMAIN job.msgs[k] /\ job.msgs[k][i].kind = "begin"
             /\ \A r \in DOMAIN job.msgs[k] : i < r => job.msgs[k][r].kind # "end"
<1> DEFINE msg == job.msgs[k]
<1>1. \A kind, j : <<k, j>> \in Spot(kind) <=> j \in DOMAIN msg /\ msg[j].kind = kind
  BY SpotHere
<1>2. \A p \in Spot("end") : p = <<p[1], p[2]>>
  BY SpotsTyped DEF Spots
<1>3. \A j : <<k, j>>[1] = k /\ <<k, j>>[2] = j
  OBVIOUS
<1> HIDE DEF msg
<1>4. (\E q \in Spot("end") : q[1] = k /\ q[2] > i) <=> (\E r \in DOMAIN msg : i < r /\ msg[r].kind = "end")
  <2>1. ASSUME NEW q \in Spot("end"), q[1] = k, q[2] > i PROVE \E r \in DOMAIN msg : i < r /\ msg[r].kind = "end"
    BY <1>1, <1>2, <2>1
  <2>2. ASSUME NEW r \in DOMAIN msg, i < r, msg[r].kind = "end" PROVE \E q \in Spot("end") : q[1] = k /\ q[2] > i
    BY <1>1, <1>3, <2>2
  <2> QED
    BY <2>1, <2>2
<1> QED
  BY <1>1, <1>3, <1>4 DEF Unclosed, msg

\* The same of the message being searched.
LEMMA ClosingHere ==
    ASSUME job \in Jobs, m \in DOMAIN job.msgs, NEW i
    PROVE  <<m, i>> \in Closing <=>
             /\ i \in DOMAIN Msg /\ Msg[i].kind = "end"
             /\ \E b \in DOMAIN Msg :
                  /\ b < i /\ Msg[b].kind = "begin"
                  /\ \A r \in DOMAIN Msg : b < r /\ r < i => Msg[r].kind # "end"
  BY ClosingIn DEF Msg

LEMMA UnclosedHere ==
    ASSUME job \in Jobs, m \in DOMAIN job.msgs, NEW i
    PROVE  <<m, i>> \in Unclosed <=>
             /\ i \in DOMAIN Msg /\ Msg[i].kind = "begin"
             /\ \A r \in DOMAIN Msg : i < r => Msg[r].kind # "end"
  BY UnclosedIn DEF Msg

-----------------------------------------------------------------------------
\* A begin marker a search went past has its end marker behind the search too, or
\* it has none.
SearchedIn(text, o) ==
    \A i \in DOMAIN text : text[i].kind = "begin" /\ i < o =>
        \/ \E r \in DOMAIN text : i < r /\ r < o /\ text[r].kind = "end"
        \/ \A r \in DOMAIN text : i < r => text[r].kind # "end"

Searched == SearchedIn(Msg, off)

Tallied ==
    /\ pc \in {"scan", "extract"} =>
         /\ Counts(Len(inline) + Len(blocks), Preceding(Closing, m, off))
         /\ Counts(malformed, Preceding(Unclosed, m, off))
         /\ Counts(Len(refs), Preceding(Spot("reference"), m, 1))
         /\ Searched
    /\ pc = "inline" \/ (pc = "write" /\ task.kind = "inline") =>
         /\ Counts(Len(inline) + Len(blocks) + 1 - next, Preceding(Closing, m + 1, 1))
         /\ Counts(malformed, Preceding(Unclosed, m + 1, 1))
         /\ Counts(Len(refs), Preceding(Spot("reference"), m, off))
         /\ next <= Len(blocks) + 1 /\ (pc = "write" => next <= Len(blocks))
    /\ pc = "detect" \/ AtReference =>
         /\ Counts(Len(inline), Preceding(Closing, m + 1, 1))
         /\ Counts(malformed, Preceding(Unclosed, m + 1, 1))
         /\ Counts(Len(refs), Preceding(Spot("reference"), m, off))
    /\ pc = "done" =>
         Counts(Len(inline), Closing) /\ Counts(malformed, Unclosed) /\ Counts(Len(refs), Spot("reference"))

\* An end marker closes a block only if a begin marker comes after the search offset.
LEMMA NotYetClosing ==
    ASSUME Shape, Searched, NEW j \in Nat, off <= j, \A i \in off..j : i \in DOMAIN Msg => Msg[i].kind # "begin"
    PROVE  <<m, j>> \notin Closing
<1>1. SUFFICES ASSUME <<m, j>> \in Closing PROVE FALSE
  OBVIOUS
<1>2. Msg \in Seq(Tokens) /\ off \in Nat
  BY JobTyped DEF Shape
<1>3. PICK b \in DOMAIN Msg :
        /\ b < j /\ Msg[b].kind = "begin"
        /\ \A r \in DOMAIN Msg : b < r /\ r < j => Msg[r].kind # "end"
  BY <1>1, ClosingHere DEF Shape
<1>4. j \in DOMAIN Msg /\ Msg[j].kind = "end"
  BY <1>1, ClosingHere DEF Shape
<1>5. b < off
  BY <1>2, <1>3
<1>6. CASE \E r \in DOMAIN Msg : b < r /\ r < off /\ Msg[r].kind = "end"
  BY <1>2, <1>3, <1>6
<1>7. CASE \A r \in DOMAIN Msg : b < r => Msg[r].kind # "end"
  BY <1>3, <1>4, <1>7
<1> QED
  BY <1>3, <1>5, <1>6, <1>7 DEF Searched, SearchedIn

LEMMA TalliedBlock ==
    ASSUME Typed, Tallied, ExtractBlock
    PROVE  Tallied'
<1>1. Shape /\ Searched /\ pc = "extract" /\ off \in Nat /\ m \in Nat /\ m \in DOMAIN job.msgs /\ job \in Jobs
  BY MessageIndex DEF ExtractBlock, Tallied, Typed, Shape
<1>2. Msg \in Seq(Tokens) /\ DOMAIN Msg = 1..Len(Msg) /\ Len(Msg) \in Nat
  BY <1>1, JobTyped
<1>3. PICK b \in off..Len(Msg) :
         /\ b = First(Begins(Msg, off)) /\ Msg[b].kind = "begin"
         /\ \A i \in off..(b - 1) : Msg[i].kind # "begin"
  BY <1>1, <1>2, FirstBegin DEF ExtractBlock
<1>4. /\ Ends(Msg, b) # {}
      /\ blocks' = Append(blocks, BlockCapsule(Msg, b, First(Ends(Msg, b)))) /\ off' = First(Ends(Msg, b)) + 1
  BY <1>3, Zenon DEF ExtractBlock
<1>5. PICK e \in b..Len(Msg) :
         /\ e = First(Ends(Msg, b)) /\ Msg[e].kind = "end"
         /\ \A i \in b..(e - 1) : Msg[i].kind # "end"
  <2>1. b \in Nat
    BY <1>1, <1>3
  <2> QED
    BY <1>2, <1>4, <2>1, FirstEnd
<1>6. b < e /\ b \in DOMAIN Msg /\ e \in DOMAIN Msg /\ b \in Nat /\ e \in Nat
  BY <1>1, <1>2, <1>3, <1>5 DEF Typed, Shape
<1>7. <<m, e>> \in Closing
  <2>1. \A r \in DOMAIN Msg : b < r /\ r < e => Msg[r].kind # "end"
    BY <1>2, <1>5, <1>6
  <2> QED
    BY <1>1, <1>3, <1>5, <1>6, <2>1, ClosingHere
<1>8. ASSUME NEW j \in off..((e + 1) - 1), j # e PROVE <<m, j>> \notin Closing
  <2>1. CASE j < b
    BY <1>1, <1>3, <1>6, <2>1, NotYetClosing
  <2>2. CASE b <= j
    BY <1>1, <1>5, <1>6, <1>8, <2>2, ClosingHere
  <2> QED
    BY <1>1, <1>6, <2>1, <2>2
<1>9. ASSUME NEW j \in off..((e + 1) - 1) PROVE <<m, j>> \notin Unclosed
  <2>1. CASE j < b
    BY <1>1, <1>3, <1>6, <2>1, UnclosedHere
  <2>2. CASE j = e
    BY <1>1, <1>5, <2>2, UnclosedHere
  <2>3. CASE j < e
    BY <1>1, <1>5, <1>6, <2>3, UnclosedHere
  <2> QED
    BY <1>1, <1>6, <2>1, <2>2, <2>3
<1>10. /\ Preceding(Closing, m, e + 1) = Preceding(Closing, m, off) \cup {<<m, e>>}
       /\ <<m, e>> \notin Preceding(Closing, m, off)
  <2>1. e + 1 \in Nat /\ e \in off..((e + 1) - 1)
    BY <1>1, <1>3, <1>5, <1>6
  <2>2. Closing \in SUBSET Spots
    BY <1>1, MarkersTyped
  <2> QED
    BY <1>1, <1>7, <1>8, <2>1, <2>2, PassOne
<1>11. Preceding(Unclosed, m, e + 1) = Preceding(Unclosed, m, off)
  BY <1>1, <1>3, <1>6, <1>9, PassNone, MarkersTyped
<1>12. UNCHANGED <<job, m, inline, refs, malformed, pc>> /\ off' = e + 1
  BY <1>4, <1>5 DEF ExtractBlock
<1>13. Len(inline') + Len(blocks') = Len(inline) + Len(blocks) + 1 /\ Len(inline) + Len(blocks) \in Int
  BY <1>4, <1>12 DEF Typed, TypeOK
<1>14. Counts(Len(inline) + Len(blocks) + 1, Preceding(Closing, m, e + 1))
  <2>1. Counts(Len(inline) + Len(blocks), Preceding(Closing, m, off))
    BY <1>1 DEF Tallied
  <2> QED
    BY <1>10, <1>13, <2>1, OneMore
<1>15. UNCHANGED <<Msg, Closing, Unclosed, Spot("reference")>>
  BY <1>12 DEF Msg, Closing, Unclosed, Spot
<1>16. Searched'
  <2>1. ASSUME NEW i \in DOMAIN Msg, Msg[i].kind = "begin", i < e + 1
        PROVE  \E r \in DOMAIN Msg : i < r /\ r < e + 1 /\ Msg[r].kind = "end"
    BY <1>2, <1>5, <1>6, <2>1
  <2> QED
    BY <1>12, <1>15, <2>1 DEF Searched, SearchedIn
<1> QED
  BY <1>1, <1>11, <1>12, <1>13, <1>14, <1>15, <1>16 DEF Tallied, AtReference

LEMMA TalliedMalformed ==
    ASSUME Typed, Tallied, ExtractMalformed
    PROVE  Tallied'
<1>1. Shape /\ Searched /\ pc = "extract" /\ off \in Nat /\ m \in Nat /\ m \in DOMAIN job.msgs /\ job \in Jobs
  BY MessageIndex DEF ExtractMalformed, Tallied, Typed, Shape
<1>2. Msg \in Seq(Tokens) /\ DOMAIN Msg = 1..Len(Msg) /\ Len(Msg) \in Nat
  BY <1>1, JobTyped
<1>3. PICK b \in off..Len(Msg) :
         /\ b = First(Begins(Msg, off)) /\ Msg[b].kind = "begin"
         /\ \A i \in off..(b - 1) : Msg[i].kind # "begin"
  BY <1>1, <1>2, FirstBegin DEF ExtractMalformed
<1>4. Ends(Msg, b) = {} /\ off' = b + 1 /\ malformed' = malformed + 1
  BY <1>3, Zenon DEF ExtractMalformed
<1>5. b \in Nat /\ b \in DOMAIN Msg
  BY <1>1, <1>2, <1>3 DEF Typed, Shape
<1>6. \A r \in DOMAIN Msg : b < r => Msg[r].kind # "end"
  BY <1>2, <1>4, <1>5 DEF Ends
<1>7. <<m, b>> \in Unclosed
  BY <1>1, <1>3, <1>5, <1>6, UnclosedHere
<1>8. ASSUME NEW j \in off..((b + 1) - 1), j # b PROVE <<m, j>> \notin Unclosed
  BY <1>1, <1>3, <1>5, <1>8, UnclosedHere
<1>9. ASSUME NEW j \in off..((b + 1) - 1) PROVE <<m, j>> \notin Closing
  <2>1. CASE j < b
    BY <1>1, <1>3, <1>5, <2>1, NotYetClosing
  <2>2. CASE j = b
    BY <1>1, <1>3, <2>2, ClosingHere
  <2> QED
    BY <1>1, <1>5, <2>1, <2>2
<1>10. b + 1 \in Nat /\ b \in off..((b + 1) - 1) /\ off <= b + 1
  BY <1>1, <1>3, <1>5
<1>11. Closing \in SUBSET Spots /\ Unclosed \in SUBSET Spots
  BY <1>1, MarkersTyped
<1>12. /\ Preceding(Unclosed, m, b + 1) = Preceding(Unclosed, m, off) \cup {<<m, b>>}
       /\ <<m, b>> \notin Preceding(Unclosed, m, off)
  BY <1>1, <1>7, <1>8, <1>10, <1>11, PassOne
<1>13. Preceding(Closing, m, b + 1) = Preceding(Closing, m, off)
  BY <1>1, <1>9, <1>10, <1>11, PassNone
<1>14. UNCHANGED <<job, m, inline, refs, blocks, pc>> /\ off' = b + 1
  BY <1>4 DEF ExtractMalformed
<1>15. Counts(malformed', Preceding(Unclosed, m, b + 1))
  <2>1. Counts(malformed, Preceding(Unclosed, m, off)) /\ malformed \in Int
    BY <1>1 DEF Tallied, Typed, TypeOK
  <2>2. Counts(malformed + 1, Preceding(Unclosed, m, b + 1))
    BY <1>12, <2>1, OneMore
  <2> QED
    BY <1>4, <2>2
<1>16. UNCHANGED <<Msg, Closing, Unclosed, Spot("reference")>>
  BY <1>14 DEF Msg, Closing, Unclosed, Spot
<1>17. Searched'
  <2>1. ASSUME NEW i \in DOMAIN Msg, Msg[i].kind = "begin", i < b + 1
        PROVE  \/ \E r \in DOMAIN Msg : i < r /\ r < b + 1 /\ Msg[r].kind = "end"
               \/ \A r \in DOMAIN Msg : i < r => Msg[r].kind # "end"
    <3>1. CASE i < off
      BY <1>1, <1>2, <1>3, <1>5, <2>1, <3>1 DEF Searched, SearchedIn
    <3>2. CASE off <= i
      BY <1>1, <1>2, <1>3, <1>5, <1>6, <2>1, <3>2
    <3> QED
      BY <1>1, <1>2, <3>1, <3>2
  <2> QED
    BY <1>14, <1>16, <2>1 DEF Searched, SearchedIn
<1> QED
  BY <1>1, <1>13, <1>14, <1>15, <1>16, <1>17 DEF Tallied, AtReference

LEMMA TalliedExtractEnd ==
    ASSUME Typed, Numbered, Tallied, ExtractEnd
    PROVE  Tallied'
<1>1. Shape /\ Searched /\ pc = "extract" /\ off \in Nat /\ m \in Nat /\ m \in DOMAIN job.msgs /\ job \in Jobs
  BY MessageIndex DEF ExtractEnd, Tallied, Typed, Shape
<1>2. Msg \in Seq(Tokens) /\ DOMAIN Msg = 1..Len(Msg) /\ Len(Msg) \in Nat
  BY <1>1, JobTyped
<1>3. /\ Begins(Msg, off) = {} /\ pc' = "inline" /\ off' = 1
      /\ UNCHANGED <<job, m, inline, refs, blocks, next, malformed>>
  BY DEF ExtractEnd
<1>4. \A i \in DOMAIN Msg : off <= i => Msg[i].kind # "begin"
  BY <1>1, <1>2, <1>3 DEF Begins
<1>5. \A j \in Nat : off <= j => <<m, j>> \notin Closing
  BY <1>1, <1>4, NotYetClosing
<1>6. \A j \in Nat : off <= j => <<m, j>> \notin Unclosed
  BY <1>1, <1>4, UnclosedHere
<1>7. Closing \in SUBSET Spots /\ Unclosed \in SUBSET Spots
  BY <1>1, MarkersTyped
<1>8. Preceding(Closing, m + 1, 1) = Preceding(Closing, m, off)
  BY <1>1, <1>5, <1>7, PassMessage
<1>9. Preceding(Unclosed, m + 1, 1) = Preceding(Unclosed, m, off)
  BY <1>1, <1>6, <1>7, PassMessage
<1>10. UNCHANGED <<Closing, Unclosed, Spot("reference")>>
  BY <1>3 DEF Closing, Unclosed, Spot
<1>11. /\ next = 1 /\ Len(inline) + Len(blocks) + 1 - next = Len(inline) + Len(blocks)
       /\ next <= Len(blocks) + 1
  BY <1>1 DEF Numbered, Typed, TypeOK
<1> QED
  BY <1>1, <1>3, <1>8, <1>9, <1>10, <1>11 DEF Tallied, AtReference

\* A block of the message reported.
LEMMA TalliedInlineResult ==
    ASSUME Typed, Tallied, pc \in {"inline", "write"}, pc = "write" => task.kind = "inline",
           next <= Len(blocks), NEW added, inline' = Append(inline, added),
           next' = next + 1, pc' = "inline", UNCHANGED <<job, m, off, refs, blocks, malformed>>
    PROVE  Tallied'
<1>1. Len(inline') = Len(inline) + 1 /\ Len(inline) \in Nat /\ Len(blocks) \in Nat /\ next \in Nat
  <2>1. inline \in Seq(InlineResults \cup {added}) /\ added \in InlineResults \cup {added}
    BY SeqMonotonic DEF Typed, TypeOK
  <2> QED
    BY <2>1, ListAppended DEF Typed, TypeOK
<1>2. Len(inline') + Len(blocks') + 1 - next' = Len(inline) + Len(blocks) + 1 - next
  BY <1>1
<1>3. UNCHANGED <<Closing, Unclosed, Spot("reference")>>
  BY DEF Closing, Unclosed, Spot
<1> QED
  BY <1>1, <1>2, <1>3 DEF Tallied, AtReference

LEMMA TalliedInlineEnd ==
    ASSUME Typed, Tallied, InlineEnd
    PROVE  Tallied'
<1>1. /\ pc = "inline" /\ next > Len(blocks) /\ pc' = "detect"
      /\ UNCHANGED <<job, m, off, inline, refs, blocks, malformed>>
  BY DEF InlineEnd
<1>2. Len(inline) + Len(blocks) + 1 - next = Len(inline)
  <2>1. Len(inline) \in Nat /\ Len(blocks) \in Nat /\ next \in Nat
    BY DEF Typed, TypeOK
  <2>2. next <= Len(blocks) + 1
    BY <1>1 DEF Tallied
  <2> QED
    BY <1>1, <2>1, <2>2
<1>3. UNCHANGED <<Closing, Unclosed, Spot("reference")>>
  BY <1>1 DEF Closing, Unclosed, Spot
<1> QED
  BY <1>1, <1>2, <1>3 DEF Tallied, AtReference

LEMMA TalliedDetect ==
    ASSUME Typed, Tallied, pc = "detect", References(Msg, off) # {},
           NEW status, NEW reason, NEW place \in {"detect", "fetch"}, Detect(status, reason, place)
    PROVE  Tallied'
<1>1. off \in Nat /\ m \in Nat /\ m \in DOMAIN job.msgs /\ job \in Jobs
  BY MessageIndex DEF Typed, Shape
<1>2. Msg \in Seq(Tokens) /\ DOMAIN Msg = 1..Len(Msg) /\ Len(Msg) \in Nat
  BY <1>1, JobTyped
<1>3. PICK i \in off..Len(Msg) :
         /\ i = First(References(Msg, off)) /\ Msg[i].kind = "reference"
         /\ \A j \in off..(i - 1) : Msg[j].kind # "reference"
  BY <1>1, <1>2, FirstReference
<1>4. i \in Nat /\ i \in DOMAIN Msg
  BY <1>1, <1>2, <1>3 DEF Typed, Shape
<1>5. PICK added : refs' = Append(refs, added) /\ off' = i + 1 /\ pc' = place
                   /\ UNCHANGED <<job, m, inline, malformed>>
  BY <1>3, Zenon DEF Detect
<1>6. Len(refs') = Len(refs) + 1 /\ Len(refs) \in Nat
  <2>1. refs \in Seq(RefResults \cup {added}) /\ added \in RefResults \cup {added}
    BY SeqMonotonic DEF Typed, TypeOK
  <2> QED
    BY <1>5, <2>1, ListAppended
<1>7. \A j : <<m, j>> \in Spot("reference") <=> j \in DOMAIN Msg /\ Msg[j].kind = "reference"
  BY <1>1, SpotHere DEF Msg
<1>8. \A j \in off..((i + 1) - 1) : j # i => <<m, j>> \notin Spot("reference")
  BY <1>1, <1>3, <1>4, <1>7
<1>9. /\ i + 1 \in Nat /\ i \in off..((i + 1) - 1) /\ <<m, i>> \in Spot("reference")
      /\ Spot("reference") \in SUBSET Spots
  BY <1>1, <1>3, <1>4, <1>7, SpotsTyped
<1>10. /\ Preceding(Spot("reference"), m, i + 1) = Preceding(Spot("reference"), m, off) \cup {<<m, i>>}
       /\ <<m, i>> \notin Preceding(Spot("reference"), m, off)
  BY <1>1, <1>8, <1>9, PassOne
<1>11. Counts(Len(refs) + 1, Preceding(Spot("reference"), m, i + 1))
  <2>1. Counts(Len(refs), Preceding(Spot("reference"), m, off)) /\ Len(refs) \in Int
    BY <1>6 DEF Tallied
  <2>2. Counts(Len(refs) + 1, Preceding(Spot("reference"), m, off) \cup {<<m, i>>})
    BY <1>10, <2>1, OneMore
  <2> QED
    BY <1>10, <2>2
<1>12. UNCHANGED <<Closing, Unclosed, Spot("reference")>>
  BY <1>5 DEF Closing, Unclosed, Spot
<1>13. /\ Counts(Len(inline), Preceding(Closing, m + 1, 1))
       /\ Counts(malformed, Preceding(Unclosed, m + 1, 1))
  BY DEF Tallied
<1>14. pc' = "detect" \/ pc' = "fetch"
  BY <1>5
<1> QED
  BY <1>5, <1>6, <1>11, <1>12, <1>13, <1>14 DEF Tallied, AtReference

\* The current reference reported anew, or its capsule taken on to be unpacked.
LEMMA TalliedOnReference ==
    ASSUME Tallied, AtReference, Len(refs') = Len(refs), pc' = "detect" \/ AtReference',
           UNCHANGED <<job, m, off, inline, malformed>>
    PROVE  Tallied'
<1>1. UNCHANGED <<Closing, Unclosed, Spot("reference")>>
  BY DEF Closing, Unclosed, Spot
<1>2. /\ Counts(Len(inline), Preceding(Closing, m + 1, 1))
      /\ Counts(malformed, Preceding(Unclosed, m + 1, 1))
      /\ Counts(Len(refs), Preceding(Spot("reference"), m, off))
  BY DEF Tallied
<1>3. /\ Counts(Len(inline), Preceding(Closing, m + 1, 1))'
      /\ Counts(malformed, Preceding(Unclosed, m + 1, 1))'
      /\ Counts(Len(refs), Preceding(Spot("reference"), m, off))'
  BY <1>1, <1>2 DEF Preceding
<1>4. pc' = "detect" \/ pc' \in {"fetch", "match", "unpack"} \/ (pc' = "write" /\ task'.kind = "reference")
  BY DEF AtReference
<1> QED
  BY <1>3, <1>4 DEF Tallied, AtReference

\* The message has no more references.
LEMMA ReferencesDone ==
    ASSUME Typed, Tallied, pc = "detect", References(Msg, off) = {}
    PROVE  /\ Counts(Len(inline), Preceding(Closing, m + 1, 1))
           /\ Counts(malformed, Preceding(Unclosed, m + 1, 1))
           /\ Counts(Len(refs), Preceding(Spot("reference"), m + 1, 1))
<1>1. off \in Nat /\ m \in Nat /\ m \in DOMAIN job.msgs /\ job \in Jobs
  BY MessageIndex DEF Typed, Shape
<1>2. Msg \in Seq(Tokens) /\ DOMAIN Msg = 1..Len(Msg) /\ Len(Msg) \in Nat
  BY <1>1, JobTyped
<1>3. \A i \in DOMAIN Msg : off <= i => Msg[i].kind # "reference"
  BY <1>1, <1>2 DEF References
<1>4. \A i \in Nat : off <= i => <<m, i>> \notin Spot("reference")
  BY <1>1, <1>3, SpotHere DEF Msg
<1>5. Preceding(Spot("reference"), m + 1, 1) = Preceding(Spot("reference"), m, off)
  <2>1. Spot("reference") \in SUBSET Spots
    BY <1>1, SpotsTyped
  <2> QED
    BY <1>1, <1>4, <2>1, PassMessage
<1> QED
  BY <1>5 DEF Tallied

LEMMA TalliedNextMessage ==
    ASSUME Typed, Tallied, NextMessage
    PROVE  Tallied'
<1>1. /\ pc = "detect" /\ References(Msg, off) = {}
      /\ m' = m + 1 /\ pc' = "extract" /\ off' = 1 /\ blocks' = <<>>
      /\ UNCHANGED <<job, malformed, inline, refs>>
  BY DEF NextMessage
<1>2. UNCHANGED <<Closing, Unclosed, Spot("reference")>>
  BY <1>1 DEF Closing, Unclosed, Spot
<1>3. Len(inline') + Len(blocks') = Len(inline)
  BY <1>1 DEF Typed, TypeOK
<1>4. Searched'
  <2>1. job.msgs \in Seq(Seq(Tokens)) /\ m + 1 \in 1..Len(job.msgs)
    BY MessageIndex, ReceiverAssumption DEF NextMessage, Typed, Shape, Job
  <2>2. Msg' = job.msgs[m + 1]
    BY <1>1 DEF Msg
  <2>3. \A i \in DOMAIN Msg' : ~(i < 1)
    BY <2>1, <2>2
  <2> QED
    BY <1>1, <2>3 DEF Searched, SearchedIn
<1>5. /\ Counts(Len(inline), Preceding(Closing, m + 1, 1))
      /\ Counts(malformed, Preceding(Unclosed, m + 1, 1))
      /\ Counts(Len(refs), Preceding(Spot("reference"), m + 1, 1))
  BY <1>1, ReferencesDone
<1> QED
  BY <1>1, <1>2, <1>3, <1>4, <1>5 DEF Tallied, AtReference

LEMMA TalliedDone ==
    ASSUME Typed, Tallied, Done
    PROVE  Tallied'
<1>1. /\ pc = "detect" /\ References(Msg, off) = {} /\ m = Len(job.msgs) /\ pc' = "done"
      /\ UNCHANGED <<job, malformed, inline, refs>>
  BY DEF Done
<1>2. UNCHANGED <<Closing, Unclosed, Spot("reference")>>
  BY <1>1 DEF Closing, Unclosed, Spot
<1>3. m \in Nat /\ job \in Jobs /\ DOMAIN job.msgs = 1..m
  BY <1>1, MessageIndex DEF Typed, Shape
<1>4. /\ Preceding(Closing, m + 1, 1) = Closing /\ Preceding(Unclosed, m + 1, 1) = Unclosed
      /\ Preceding(Spot("reference"), m + 1, 1) = Spot("reference")
  <2>1. /\ Closing \in SUBSET Spots /\ \A p \in Closing : p[1] <= m
        /\ Unclosed \in SUBSET Spots /\ \A p \in Unclosed : p[1] <= m
    BY <1>3, MarkersTyped
  <2>2. Spot("reference") \in SUBSET Spots /\ \A p \in Spot("reference") : p[1] <= m
    BY <1>3, SpotsTyped
  <2> QED
    BY <1>3, <2>1, <2>2, PassAll
<1> QED
  BY <1>1, <1>2, <1>4, ReferencesDone DEF Tallied, AtReference

LEMMA TalliedUnpacking ==
    ASSUME Typed, Settled, Numbered, Tallied, Unpacking
    PROVE  Tallied'
<1>1. CASE WriteFile
  <2>1. /\ pc = "write" /\ UNCHANGED <<job, pc, m, off, blocks, next, malformed, inline, refs>>
        /\ task'.kind = task.kind
    <3>1. /\ pc = "write" /\ UNCHANGED <<job, pc, m, off, blocks, next, malformed, inline, refs>>
          /\ task' = [task EXCEPT !.entry = @ + 1, !.files = Append(@, Parts(NextFile.path))]
      BY <1>1, Zenon DEF WriteFile
    <3>2. task \in TaskStates
      BY DEF Typed, TypeOK, TaskStates
    <3> QED
      BY <3>1, <3>2 DEF TaskStates
  <2>2. UNCHANGED <<Closing, Unclosed, Spot("reference")>>
    BY <2>1 DEF Closing, Unclosed, Spot
  <2> QED
    BY <2>1, <2>2 DEF Tallied, AtReference
<1>2. ASSUME pc = "write", NEW status, NEW reason, NEW files, NEW changed,
             Finish(InlineResult(task.capsule, status, reason, files), changed),
             task.kind = "reference" => Renews(changed, files)
      PROVE  Tallied'
  <2>1. CASE task.kind = "inline"
    <3>1. PICK added : added = InlineResult(task.capsule, status, reason, files)
      OBVIOUS
    <3>2. /\ inline' = Append(inline, added) /\ next' = next + 1 /\ pc' = "inline"
          /\ UNCHANGED <<job, m, off, refs, blocks, malformed>>
      BY <1>2, <2>1, <3>1 DEF Finish
    <3>3. next <= Len(blocks)
      BY <1>2, <2>1 DEF Tallied
    <3> QED
      BY <1>2, <2>1, <3>2, <3>3, TalliedInlineResult
  <2>2. CASE task.kind = "reference"
    <3>1. /\ SetRef(changed) /\ pc' = "detect" /\ UNCHANGED <<job, m, off, inline, malformed>>
      BY <1>2, <2>2 DEF Finish
    <3>2. refs # <<>> /\ Shape /\ \E Z : changed \in RefRecords(Z)
      BY <1>2, <2>2 DEF Typed, Shape, Renews
    <3>3. Len(refs') = Len(refs)
      BY <3>1, <3>2, LastReplaced
    <3> QED
      BY <1>2, <2>2, <3>1, <3>3, TalliedOnReference DEF AtReference
  <2> QED
    BY <1>2, <2>1, <2>2 DEF Typed, Shape
<1> QED
  BY <1>1, <1>2, UnpackingSteps

LEMMA TalliedRefLoop ==
    ASSUME Typed, Tallied, RefLoop
    PROVE  Tallied'
<1>1. CASE RejectReference \/ SkipReference \/ DetectReference
  BY <1>1, TalliedDetect DEF RejectReference, SkipReference, DetectReference
<1>2. ASSUME pc \in {"fetch", "match", "unpack"}, refs # <<>>,
             NEW changed, NEW place \in {"detect", "match", "unpack"},
             OnReference(changed, place), Renews(changed, Current.files)
      PROVE  Tallied'
  <2>1. Len(refs') = Len(refs)
    BY <1>2, LastReplaced DEF OnReference, Typed, Renews
  <2>2. UNCHANGED <<job, m, off, inline, malformed>> /\ pc' = place
    BY <1>2 DEF OnReference
  <2> QED
    BY <1>2, <2>1, <2>2, TalliedOnReference DEF AtReference
<1>3. CASE VerifyFetched
  <2>1. /\ pc = "unpack" /\ pc' = "write" /\ task'.kind = "reference"
        /\ UNCHANGED <<job, m, off, refs, inline, malformed>>
    BY <1>3 DEF VerifyFetched, TaskFor
  <2> QED
    BY <2>1, TalliedOnReference DEF AtReference
<1>4. CASE NextMessage
  BY <1>4, TalliedNextMessage
<1>5. pc = "detect" /\ RefLoop => RejectReference \/ SkipReference \/ DetectReference \/ NextMessage
  BY DEF RefLoop, FetchFails, FetchReturns, MatchReference, RejectFetched, VerifyFetched
<1> QED
  BY <1>1, <1>2, <1>3, <1>4, <1>5, RefLoopSteps

LEMMA TalliedInlineLoop ==
    ASSUME Typed, Tallied, InlineLoop
    PROVE  Tallied'
<1>1. CASE RejectBlock
  <2>1. PICK added : inline' = Append(inline, added)
    BY <1>1 DEF RejectBlock
  <2> QED
    BY <1>1, <2>1, TalliedInlineResult DEF RejectBlock
<1>2. CASE VerifyBlock
  <2>1. /\ pc = "inline" /\ next <= Len(blocks) /\ pc' = "write" /\ task'.kind = "inline"
        /\ UNCHANGED <<job, m, off, blocks, next, refs, inline, malformed>>
    BY <1>2 DEF VerifyBlock, TaskFor
  <2>2. UNCHANGED <<Closing, Unclosed, Spot("reference")>>
    BY <2>1 DEF Closing, Unclosed, Spot
  <2> QED
    BY <2>1, <2>2 DEF Tallied, AtReference
<1> QED
  BY <1>1, <1>2, TalliedInlineEnd DEF InlineLoop

\* Nothing of a call's messages comes before their start.
LEMMA NothingBefore ==
    ASSUME NEW j \in Jobs
    PROVE  /\ \A kind : UNION { {k} \X { i \in DOMAIN j.msgs[k] : j.msgs[k][i].kind = kind } : k \in DOMAIN j.msgs }
                          \in SUBSET Spots
           /\ \A i \in DOMAIN j.msgs[1] : ~(i < 1)
<1>1. j.msgs \in Seq(Seq(Tokens)) /\ j.msgs # <<>>
  BY ReceiverAssumption DEF Job
<1>2. \A k \in DOMAIN j.msgs : k \in Nat \ {0} /\ DOMAIN j.msgs[k] \subseteq Nat \ {0}
  BY <1>1
<1>3. 1 \in DOMAIN j.msgs
  BY <1>1, EmptySeq
<1> QED
  BY <1>2, <1>3 DEF Spots

LEMMA NothingListed == Counts(0, {}) /\ Counts(Len(<<>>), {}) /\ Counts(Len(<<>>) + Len(<<>>), {})
  BY FS_EmptySet DEF Counts

LEMMA TalliedStep == Typed /\ Settled /\ Numbered /\ Tallied /\ [Next]_vars => Tallied'
<1> SUFFICES ASSUME Typed, Settled, Numbered, Tallied, [Next]_vars PROVE Tallied'
  OBVIOUS
<1>1. ASSUME UNCHANGED <<job, m, off, blocks, next, task, malformed, inline, refs>>,
             pc' = pc \/ (pc = "scan" /\ pc' = "extract") \/ pc' = "down"
      PROVE  Tallied'
  <2>1. UNCHANGED <<Closing, Unclosed, Spot("reference"), Msg>>
    BY <1>1 DEF Closing, Unclosed, Spot, Msg
  <2>2. UNCHANGED Searched
    BY <1>1, <2>1 DEF Searched, SearchedIn
  <2> QED
    BY <1>1, <2>1, <2>2 DEF Tallied, AtReference
<1>2. CASE Scanning
  <2>1. /\ UNCHANGED <<job, m, off, blocks, next, task, malformed, inline, refs>>
        /\ pc' = pc \/ (pc = "scan" /\ pc' = "extract")
    BY <1>2, Zenon DEF Scanning, ScanBlock, ScanMalformed, ScanEnd, unscanned
  <2> QED
    BY <1>1, <2>1
<1>3. CASE Tick \/ Rest \/ TornWrite \/ Crash \/ UNCHANGED vars
  BY <1>1, <1>3 DEF Tick, Rest, TornWrite, Crash, vars
<1>4. CASE Extracting
  BY <1>4, TalliedBlock, TalliedMalformed, TalliedExtractEnd DEF Extracting
<1>5. CASE Restart
  <2>1. /\ job' \in Jobs /\ m' = 1 /\ off' = 1 /\ blocks' = <<>> /\ malformed' = 0 /\ inline' = <<>> /\ refs' = <<>>
        /\ pc' = "scan" \/ pc' = "extract"
    BY <1>5 DEF Restart, StartOf
  <2>2. Spot("begin")' \in SUBSET Spots /\ Spot("end")' \in SUBSET Spots /\ Spot("reference")' \in SUBSET Spots
    BY <2>1, NothingBefore DEF Spot
  <2>3. Closing' \in SUBSET Spots /\ Unclosed' \in SUBSET Spots
    BY <2>2 DEF Closing, Unclosed
  <2>4. /\ Preceding(Closing', 1, 1) = {} /\ Preceding(Unclosed', 1, 1) = {}
        /\ Preceding(Spot("reference")', 1, 1) = {}
    BY <2>2, <2>3, PassedNothing
  <2>5. Searched'
    BY <2>1, NothingBefore DEF Searched, SearchedIn, Msg
  <2>6. /\ Counts(Len(inline) + Len(blocks), Preceding(Closing, m, off))'
        /\ Counts(malformed, Preceding(Unclosed, m, off))'
        /\ Counts(Len(refs), Preceding(Spot("reference"), m, 1))'
    BY <2>1, <2>4, NothingListed
  <2> QED
    BY <2>1, <2>5, <2>6 DEF Tallied, AtReference
<1> QED
  BY <1>1, <1>2, <1>3, <1>4, <1>5, TalliedInlineLoop, TalliedUnpacking, TalliedRefLoop, TalliedDone DEF Next, Step

LEMMA TalliedInit == Init => Tallied
<1> SUFFICES ASSUME Init PROVE Tallied
  OBVIOUS
<1>1. /\ job \in Jobs /\ m = 1 /\ off = 1 /\ blocks = <<>> /\ malformed = 0 /\ inline = <<>> /\ refs = <<>>
      /\ pc = "scan" \/ pc = "extract"
  BY DEF Init, StartOf
<1>2. Closing \in SUBSET Spots /\ Unclosed \in SUBSET Spots /\ Spot("reference") \in SUBSET Spots
  BY <1>1, MarkersTyped, SpotsTyped
<1>3. Preceding(Closing, 1, 1) = {} /\ Preceding(Unclosed, 1, 1) = {} /\ Preceding(Spot("reference"), 1, 1) = {}
  BY <1>2, PassedNothing
<1>4. Searched
  BY <1>1, NothingBefore DEF Searched, SearchedIn, Msg
<1>5. /\ Counts(Len(inline) + Len(blocks), Preceding(Closing, m, off))
      /\ Counts(malformed, Preceding(Unclosed, m, off))
      /\ Counts(Len(refs), Preceding(Spot("reference"), m, 1))
  BY <1>1, <1>3, NothingListed
<1> QED
  BY <1>1, <1>4, <1>5 DEF Tallied, AtReference

\* No item of the messages is lost because of another: a finished run reports every
\* closed block, counts every begin marker that nothing closes, and reports every
\* descriptor with a final status, whatever failed in between (receiver.py, the
\* loops over messages, blocks and references, which go on after each failure).
THEOREM NothingIsLost == Spec => []EverythingReported
<1>1. Tallied /\ Settled => EverythingReported
  BY DEF Tallied, Settled, SettledReference, AtReference, EverythingReported, Counts
<1> QED
  BY <1>1, TalliedInit, TalliedStep, PlacesAlways, PTL DEF Spec

\* A begin marker that opens a block of a text, and the end marker that closes it.
Encloses(text, b, e) ==
    /\ b \in DOMAIN text /\ text[b].kind = "begin"
    /\ e \in DOMAIN text /\ text[e].kind = "end" /\ b < e
    /\ \A i \in DOMAIN text : b < i /\ i < e => text[i].kind # "end"
    /\ \A i \in DOMAIN text : i < b /\ text[i].kind = "begin" =>
         \E r \in DOMAIN text : i < r /\ r < b /\ text[r].kind = "end"

\* What is found from an offset on: the next block, a marker nothing closes, or nothing.
LEMMA BlockFound ==
    ASSUME NEW text \in Seq(Tokens), NEW o \in Nat \ {0}, SearchedIn(text, o),
           NEW b \in o..Len(text), text[b].kind = "begin", \A i \in o..(b - 1) : text[i].kind # "begin",
           NEW e \in b..Len(text), text[e].kind = "end", \A i \in b..(e - 1) : text[i].kind # "end"
    PROVE  /\ Encloses(text, b, e) /\ SearchedIn(text, e + 1) /\ o <= e /\ e \in Nat
           /\ \A x, y : Encloses(text, x, y) /\ y < e + 1 => y < o \/ (x = b /\ y = e)
<1>1. DOMAIN text = 1..Len(text) /\ Len(text) \in Nat
  OBVIOUS
<1>2. b \in DOMAIN text /\ e \in DOMAIN text /\ b < e /\ o <= e /\ e \in Nat /\ b \in Nat /\ o \in Nat
  BY <1>1
<1>3. \A i \in DOMAIN text : b < i /\ i < e => text[i].kind # "end"
  BY <1>1, <1>2
<1>4. ASSUME NEW i \in DOMAIN text, i < b, text[i].kind = "begin"
      PROVE  \E r \in DOMAIN text : i < r /\ r < o /\ text[r].kind = "end"
  <2>1. i < o
    BY <1>1, <1>2, <1>4
  <2>2. ~\A r \in DOMAIN text : i < r => text[r].kind # "end"
    BY <1>1, <1>2, <1>4
  <2> QED
    BY <1>4, <2>1, <2>2 DEF SearchedIn
<1>5. Encloses(text, b, e)
  <2>1. ASSUME NEW i \in DOMAIN text, i < b, text[i].kind = "begin"
        PROVE  \E r \in DOMAIN text : i < r /\ r < b /\ text[r].kind = "end"
    <3>1. PICK r \in DOMAIN text : i < r /\ r < o /\ text[r].kind = "end"
      BY <1>4, <2>1
    <3>2. r < b
      BY <1>1, <1>2, <3>1
    <3> QED
      BY <3>1, <3>2
  <2> QED
    BY <1>2, <1>3, <2>1 DEF Encloses
<1>6. SearchedIn(text, e + 1)
  <2> SUFFICES ASSUME NEW i \in DOMAIN text, text[i].kind = "begin", i < e + 1
               PROVE  \E r \in DOMAIN text : i < r /\ r < e + 1 /\ text[r].kind = "end"
    BY DEF SearchedIn
  <2>1. i < e /\ e < e + 1
    BY <1>1, <1>2
  <2> QED
    BY <1>2, <2>1
<1>7. ASSUME NEW x, NEW y, Encloses(text, x, y), y < e + 1 PROVE y < o \/ (x = b /\ y = e)
  <2>1. /\ x \in DOMAIN text /\ text[x].kind = "begin" /\ y \in DOMAIN text /\ text[y].kind = "end" /\ x < y
        /\ \A i \in DOMAIN text : x < i /\ i < y => text[i].kind # "end"
        /\ x \in Nat /\ y \in Nat
    BY <1>1, <1>7 DEF Encloses
  <2>2. CASE x < b
    <3>1. PICK r \in DOMAIN text : x < r /\ r < o /\ text[r].kind = "end"
      BY <1>4, <2>1, <2>2
    <3>2. ~(r < y)
      BY <2>1, <3>1
    <3> QED
      BY <1>1, <1>2, <2>1, <3>1, <3>2
  <2>3. CASE x = b
    <3>1. ~(e < y) /\ ~(y < e)
      BY <1>1, <1>2, <1>3, <1>7, <2>1, <2>3
    <3> QED
      BY <1>2, <2>1, <2>3, <3>1
  <2>4. CASE b < x
    <3>1. x < e
      BY <1>2, <1>7, <2>1
    <3>2. PICK r \in DOMAIN text : b < r /\ r < x /\ text[r].kind = "end"
      BY <1>2, <1>7, <2>1, <2>4 DEF Encloses
    <3>3. r < e
      BY <1>1, <1>2, <2>1, <3>1, <3>2
    <3> QED
      BY <1>3, <3>2, <3>3
  <2> QED
    BY <1>2, <2>1, <2>2, <2>3, <2>4
<1> QED
  BY <1>2, <1>5, <1>6, <1>7

LEMMA MarkerUnclosed ==
    ASSUME NEW text \in Seq(Tokens), NEW o \in Nat \ {0}, SearchedIn(text, o),
           NEW b \in o..Len(text), text[b].kind = "begin", \A i \in o..(b - 1) : text[i].kind # "begin",
           \A i \in DOMAIN text : b < i => text[i].kind # "end"
    PROVE  /\ SearchedIn(text, b + 1)
           /\ \A x, y : Encloses(text, x, y) /\ y < b + 1 => y < o
<1>1. DOMAIN text = 1..Len(text) /\ Len(text) \in Nat /\ b \in DOMAIN text /\ b \in Nat /\ o \in Nat
  OBVIOUS
<1>2. SearchedIn(text, b + 1)
  <2> SUFFICES ASSUME NEW i \in DOMAIN text, text[i].kind = "begin", i < b + 1
               PROVE  \/ \E r \in DOMAIN text : i < r /\ r < b + 1 /\ text[r].kind = "end"
                      \/ \A r \in DOMAIN text : i < r => text[r].kind # "end"
    BY DEF SearchedIn
  <2>1. CASE i < o
    <3>1. CASE \E r \in DOMAIN text : i < r /\ r < o /\ text[r].kind = "end"
      <4>1. PICK r \in DOMAIN text : i < r /\ r < o /\ text[r].kind = "end"
        BY <3>1
      <4>2. r < b + 1
        BY <1>1, <4>1
      <4> QED
        BY <4>1, <4>2
    <3> QED
      BY <2>1, <3>1 DEF SearchedIn
  <2>2. CASE o <= i
    <3>1. i = b
      BY <1>1, <2>2
    <3> QED
      BY <3>1
  <2> QED
    BY <1>1, <2>1, <2>2
<1>3. ASSUME NEW x, NEW y, Encloses(text, x, y), y < b + 1 PROVE y < o
  <2>1. /\ x \in DOMAIN text /\ text[x].kind = "begin" /\ y \in DOMAIN text /\ text[y].kind = "end" /\ x < y
        /\ \A i \in DOMAIN text : x < i /\ i < y => text[i].kind # "end"
        /\ x \in Nat /\ y \in Nat
    BY <1>1, <1>3 DEF Encloses
  <2>2. x < o
    BY <1>1, <1>3, <2>1
  <2>3. PICK r \in DOMAIN text : x < r /\ r < o /\ text[r].kind = "end"
    BY <2>1, <2>2 DEF SearchedIn
  <2>4. ~(r < y)
    BY <2>1, <2>3
  <2> QED
    BY <1>1, <2>1, <2>3, <2>4
<1> QED
  BY <1>2, <1>3

LEMMA BlocksOver ==
    ASSUME NEW text \in Seq(Tokens), NEW o \in Nat \ {0}, SearchedIn(text, o), Begins(text, o) = {}
    PROVE  \A x, y : Encloses(text, x, y) => y < o
<1> SUFFICES ASSUME NEW x, NEW y, Encloses(text, x, y) PROVE y < o
  OBVIOUS
<1>1. DOMAIN text = 1..Len(text) /\ Len(text) \in Nat /\ o \in Nat
  OBVIOUS
<1>2. /\ x \in DOMAIN text /\ text[x].kind = "begin" /\ y \in DOMAIN text /\ text[y].kind = "end" /\ x < y
      /\ \A i \in DOMAIN text : x < i /\ i < y => text[i].kind # "end"
      /\ x \in Nat /\ y \in Nat
  BY <1>1 DEF Encloses
<1>3. x < o
  BY <1>1, <1>2 DEF Begins
<1>4. PICK r \in DOMAIN text : x < r /\ r < o /\ text[r].kind = "end"
  BY <1>2, <1>3 DEF SearchedIn
<1>5. ~(r < y)
  BY <1>2, <1>4
<1> QED
  BY <1>1, <1>2, <1>4, <1>5

-----------------------------------------------------------------------------
\* The messages in the joined text the scanner reads.

\* Where each of the first n sequences starts in the text they are joined to.
Laid(seqs, n, text, at) ==
    /\ at \in [1..n -> Nat]
    /\ \A k \in 1..n : at[k] + Len(seqs[k]) <= Len(text)
    /\ \A k \in 1..n : \A i \in 1..Len(seqs[k]) : text[at[k] + i] = seqs[k][i]
    /\ \A p \in 1..Len(text) : \E k \in 1..n : \E i \in 1..Len(seqs[k]) : p = at[k] + i
    /\ \A j, k \in 1..n : j < k => at[j] + Len(seqs[j]) <= at[k]

LEMMA Shifted ==
    ASSUME NEW a \in Nat, NEW l \in Nat, NEW b \in Nat, a + l <= b, NEW r \in 1..l
    PROVE  a + r \in 1..b /\ \A i \in Nat \ {0} : a + r < b + i
  OBVIOUS

LEMMA StillWithin ==
    ASSUME NEW a \in Nat, NEW l \in Nat, NEW b \in Nat, NEW more \in Nat, a + l <= b
    PROVE  a + l <= b + more
  OBVIOUS

LEMMA LaidNext ==
    ASSUME NEW S, NEW seqs \in Seq(Seq(S)), NEW n \in Nat, n + 1 <= Len(seqs),
           NEW text \in Seq(S), NEW at, Laid(seqs, n, text, at)
    PROVE  \E new : Laid(seqs, n + 1, text \o seqs[n + 1], new)
<1> DEFINE all == text \o seqs[n + 1]
           new == [k \in 1..(n + 1) |-> IF k = n + 1 THEN Len(text) ELSE at[k]]
<1>1. /\ seqs[n + 1] \in Seq(S) /\ Len(text) \in Nat /\ Len(seqs[n + 1]) \in Nat
      /\ \A k \in 1..n : seqs[k] \in Seq(S) /\ Len(seqs[k]) \in Nat
  OBVIOUS
<1>2. /\ Len(all) = Len(text) + Len(seqs[n + 1])
      /\ \A p \in 1..Len(text) : all[p] = text[p]
      /\ \A i \in 1..Len(seqs[n + 1]) : all[Len(text) + i] = seqs[n + 1][i]
  BY <1>1
<1>3. /\ new[n + 1] = Len(text) /\ \A k \in 1..n : new[k] = at[k] /\ at[k] \in Nat
      /\ new \in [1..(n + 1) -> Nat]
  BY <1>1 DEF Laid
<1> HIDE DEF all, new
<1>4. \A k \in 1..(n + 1) : k = n + 1 \/ k \in 1..n
  OBVIOUS
<1>5. \A k \in 1..(n + 1) : new[k] + Len(seqs[k]) <= Len(all)
  <2>1. ASSUME NEW k \in 1..n PROVE new[k] + Len(seqs[k]) <= Len(all)
    <3>1. at[k] + Len(seqs[k]) <= Len(text) /\ at[k] \in Nat /\ new[k] = at[k] /\ Len(seqs[k]) \in Nat
      BY <1>1, <1>3 DEF Laid
    <3>2. at[k] + Len(seqs[k]) <= Len(text) + Len(seqs[n + 1])
      BY <1>1, <3>1, StillWithin
    <3> QED
      BY <1>2, <3>1, <3>2
  <2>2. new[n + 1] + Len(seqs[n + 1]) <= Len(all)
    BY <1>1, <1>2, <1>3
  <2> QED
    BY <1>4, <2>1, <2>2
<1>6. ASSUME NEW k \in 1..(n + 1), NEW i \in 1..Len(seqs[k]) PROVE all[new[k] + i] = seqs[k][i]
  <2>1. CASE k = n + 1
    BY <1>2, <1>3, <2>1
  <2>2. CASE k \in 1..n
    <3>0. at[k] + Len(seqs[k]) <= Len(text) /\ at[k] \in Nat /\ Len(seqs[k]) \in Nat
      BY <1>1, <1>3, <2>2 DEF Laid
    <3>1. at[k] + i \in 1..Len(text)
      BY <1>1, <3>0, Shifted
    <3> QED
      BY <1>2, <1>3, <2>2, <3>1 DEF Laid
  <2> QED
    BY <1>4, <2>1, <2>2
<1>7. ASSUME NEW p \in 1..Len(all) PROVE \E k \in 1..(n + 1) : \E i \in 1..Len(seqs[k]) : p = new[k] + i
  <2>1. CASE p <= Len(text)
    <3>1. p \in 1..Len(text)
      BY <1>1, <2>1
    <3>2. PICK k \in 1..n : \E i \in 1..Len(seqs[k]) : p = at[k] + i
      BY <3>1 DEF Laid
    <3>3. k \in 1..(n + 1) /\ new[k] = at[k]
      BY <1>3
    <3> QED
      BY <3>2, <3>3, Zenon
  <2>2. CASE Len(text) < p
    <3>1. p - Len(text) \in 1..Len(seqs[n + 1]) /\ p = Len(text) + (p - Len(text))
      BY <1>1, <1>2, <2>2
    <3>2. n + 1 \in 1..(n + 1)
      OBVIOUS
    <3> QED
      BY <1>3, <3>1, <3>2
  <2>3. p <= Len(text) \/ Len(text) < p
    BY <1>1
  <2> QED
    BY <2>1, <2>2, <2>3
<1>8. ASSUME NEW j \in 1..(n + 1), NEW k \in 1..(n + 1), j < k PROVE new[j] + Len(seqs[j]) <= new[k]
  <2>1. j \in 1..n
    BY <1>8
  <2>2. CASE k = n + 1
    BY <1>3, <2>1, <2>2 DEF Laid
  <2>3. CASE k \in 1..n
    BY <1>3, <1>8, <2>1, <2>3 DEF Laid
  <2> QED
    BY <1>4, <2>2, <2>3
<1> QED
  BY <1>3, <1>5, <1>6, <1>7, <1>8 DEF Laid, all

LEMMA LaidOut ==
    ASSUME NEW S, NEW seqs \in Seq(Seq(S)), seqs # <<>>
    PROVE  \E at : Laid(seqs, Len(seqs), FlattenSeq(seqs), at)
<1>1. PICK f \in [1..Len(seqs) -> Seq(S)] : Joins(seqs, Len(seqs), f) /\ FlattenSeq(seqs) = f[Len(seqs)]
  BY FlattenJoins
<1>2. Len(seqs) \in Nat /\ Len(seqs) # 0
  BY EmptySeq
<1> DEFINE Q == { n \in Nat : n = 0 \/ \E at : Laid(seqs, n, f[n], at) }
<1>3. ASSUME NEW n \in 0..(Len(seqs) - 1), n \in Q PROVE n + 1 \in Q
  <2>1. n \in Nat /\ n + 1 \in 1..Len(seqs) /\ n + 1 <= Len(seqs)
    BY <1>2
  <2>2. CASE n = 0
    <3>0. 1 \in 1..Len(seqs)
      BY <2>1, <2>2
    <3>1. f[1] = seqs[1] /\ seqs[1] \in Seq(S)
      BY <1>1, <3>0 DEF Joins
    <3>2. Laid(seqs, 0, <<>>, [k \in 1..0 |-> 0])
      BY DEF Laid
    <3>3. <<>> \in Seq(S) /\ <<>> \o seqs[1] = seqs[1]
      BY <3>1
    <3>4. PICK new : Laid(seqs, 0 + 1, <<>> \o seqs[0 + 1], new)
      BY <2>1, <2>2, <3>2, <3>3, LaidNext
    <3>5. Laid(seqs, 1, f[1], new)
      BY <3>1, <3>3, <3>4
    <3> QED
      BY <2>2, <3>5
  <2>3. CASE n # 0
    <3>1. f[n + 1] = f[n] \o seqs[n + 1] /\ f[n] \in Seq(S)
      <4>1. n + 1 # 1 /\ (n + 1) - 1 = n /\ n \in 1..Len(seqs)
        BY <2>1, <2>3
      <4> QED
        BY <1>1, <2>1, <4>1 DEF Joins
    <3>2. PICK at : Laid(seqs, n, f[n], at)
      BY <1>3, <2>3
    <3>3. PICK new : Laid(seqs, n + 1, f[n] \o seqs[n + 1], new)
      BY <2>1, <3>1, <3>2, LaidNext
    <3>4. Laid(seqs, n + 1, f[n + 1], new) /\ n + 1 \in Nat
      BY <2>1, <3>1, <3>3
    <3> QED
      BY <3>4
  <2> QED
    BY <2>2, <2>3
<1>4. 0 \in Q
  OBVIOUS
<1> HIDE DEF Q
<1>5. \A n \in 0..Len(seqs) : n \in Q
  BY <1>2, <1>3, <1>4, UpTo
<1>6. Len(seqs) \in Q
  BY <1>2, <1>5
<1> QED
  BY <1>1, <1>2, <1>6 DEF Q

\* Every begin marker of a message has an end marker after it in that message.
AllClosed(seqs) ==
    \A k \in 1..Len(seqs) : \A i \in 1..Len(seqs[k]) : seqs[k][i].kind = "begin" =>
        \E r \in 1..Len(seqs[k]) : i < r /\ seqs[k][r].kind = "end"

\* A place of a message, in the joined text.
Pos(at, k, i) == at[k] + i

\* Places of the joined text come in the order of the messages.
LEMMA InOrder ==
    ASSUME NEW seqs \in Seq(Seq(Tokens)), NEW text \in Seq(Tokens), NEW at, Laid(seqs, Len(seqs), text, at)
    PROVE  /\ \A k \in 1..Len(seqs) : \A i \in 1..Len(seqs[k]) :
                /\ Pos(at, k, i) \in 1..Len(text) /\ text[Pos(at, k, i)] = seqs[k][i]
                /\ \A j \in 1..Len(seqs) : \A r \in 1..Len(seqs[j]) :
                     /\ j < k => Pos(at, j, r) < Pos(at, k, i)
                     /\ j = k => (Pos(at, j, r) < Pos(at, k, i) <=> r < i)
           /\ \A p \in 1..Len(text) : \E k \in 1..Len(seqs) : \E i \in 1..Len(seqs[k]) : p = Pos(at, k, i)
<1>1. Len(text) \in Nat /\ \A k \in 1..Len(seqs) : at[k] \in Nat /\ Len(seqs[k]) \in Nat
  BY DEF Laid
<1>2. ASSUME NEW k \in 1..Len(seqs), NEW i \in 1..Len(seqs[k])
      PROVE  /\ Pos(at, k, i) \in 1..Len(text) /\ text[Pos(at, k, i)] = seqs[k][i]
             /\ \A j \in 1..Len(seqs) : \A r \in 1..Len(seqs[j]) :
                  /\ j < k => Pos(at, j, r) < Pos(at, k, i)
                  /\ j = k => (Pos(at, j, r) < Pos(at, k, i) <=> r < i)
  <2>1. at[k] + Len(seqs[k]) <= Len(text) /\ text[at[k] + i] = seqs[k][i]
    BY DEF Laid
  <2>2. at[k] + i \in 1..Len(text) /\ i \in Nat \ {0}
    <3>1. at[k] \in Nat /\ Len(seqs[k]) \in Nat /\ Len(text) \in Nat
      BY <1>1
    <3>2. at[k] + i \in 1..Len(text)
      BY <2>1, <3>1, Shifted
    <3> QED
      BY <3>1, <3>2
  <2>3. ASSUME NEW j \in 1..Len(seqs), NEW r \in 1..Len(seqs[j]), j < k PROVE at[j] + r < at[k] + i
    <3>1. at[j] + Len(seqs[j]) <= at[k]
      BY <2>3 DEF Laid
    <3> QED
      BY <1>1, <2>2, <3>1, Shifted
  <2>4. ASSUME NEW r \in 1..Len(seqs[k]) PROVE at[k] + r < at[k] + i <=> r < i
    BY <1>1
  <2> QED
    BY <2>1, <2>2, <2>3, <2>4 DEF Pos
<1>3. \A p \in 1..Len(text) : \E k \in 1..Len(seqs) : \E i \in 1..Len(seqs[k]) : p = Pos(at, k, i)
  BY DEF Laid, Pos
<1> QED
  BY <1>2, <1>3

\* A block of a message is the same block of the joined text, if no marker before it
\* is left open.
LEMMA BlockInText ==
    ASSUME NEW seqs \in Seq(Seq(Tokens)), NEW text \in Seq(Tokens), NEW at, Laid(seqs, Len(seqs), text, at),
           AllClosed(seqs), NEW k \in 1..Len(seqs), NEW x, NEW y, Encloses(seqs[k], x, y)
    PROVE  Encloses(text, Pos(at, k, x), Pos(at, k, y))
<1>1. DOMAIN seqs[k] = 1..Len(seqs[k]) /\ DOMAIN text = 1..Len(text) /\ Len(text) \in Nat
  OBVIOUS
<1>2. /\ x \in 1..Len(seqs[k]) /\ seqs[k][x].kind = "begin" /\ y \in 1..Len(seqs[k]) /\ seqs[k][y].kind = "end"
      /\ x < y
      /\ \A i \in 1..Len(seqs[k]) : x < i /\ i < y => seqs[k][i].kind # "end"
      /\ \A i \in 1..Len(seqs[k]) : i < x /\ seqs[k][i].kind = "begin" =>
           \E r \in 1..Len(seqs[k]) : i < r /\ r < x /\ seqs[k][r].kind = "end"
  BY <1>1 DEF Encloses
<1>3. \A j \in 1..Len(seqs) : \A i \in 1..Len(seqs[j]) :
         Pos(at, j, i) \in 1..Len(text) /\ text[Pos(at, j, i)] = seqs[j][i]
  BY InOrder
<1>4. \A j, l \in 1..Len(seqs) : j < l =>
         \A r \in 1..Len(seqs[j]) : \A i \in 1..Len(seqs[l]) : Pos(at, j, r) < Pos(at, l, i)
  BY InOrder
<1>5. \A j \in 1..Len(seqs) : \A r, i \in 1..Len(seqs[j]) : Pos(at, j, r) < Pos(at, j, i) <=> r < i
  BY InOrder
<1>6. \A q \in 1..Len(text) : \E j \in 1..Len(seqs) : \E i \in 1..Len(seqs[j]) : q = Pos(at, j, i)
  BY InOrder
<1> DEFINE b == Pos(at, k, x)
           e == Pos(at, k, y)
<1>7. /\ b \in 1..Len(text) /\ text[b].kind = "begin" /\ e \in 1..Len(text) /\ text[e].kind = "end" /\ b < e
  BY <1>2, <1>3, <1>5
<1>8. ASSUME NEW q \in 1..Len(text), b < q, q < e PROVE text[q].kind # "end"
  <2>1. PICK j \in 1..Len(seqs) : \E i \in 1..Len(seqs[j]) : q = Pos(at, j, i)
    BY <1>6
  <2>2. PICK i \in 1..Len(seqs[j]) : q = Pos(at, j, i)
    BY <2>1
  <2>3. j < k => q < b
    BY <1>2, <1>4, <2>2
  <2>4. k < j => e < q
    BY <1>2, <1>4, <2>2
  <2>5. j = k
    <3> HIDE DEF b, e
    <3> QED
      BY <1>7, <1>8, <2>3, <2>4
  <2>6. x < i /\ i < y
    BY <1>2, <1>5, <1>8, <2>2, <2>5
  <2> QED
    BY <1>2, <1>3, <2>2, <2>5, <2>6
<1>9. ASSUME NEW q \in 1..Len(text), q < b, text[q].kind = "begin"
      PROVE  \E r \in 1..Len(text) : q < r /\ r < b /\ text[r].kind = "end"
  <2>1. PICK j \in 1..Len(seqs) : \E i \in 1..Len(seqs[j]) : q = Pos(at, j, i)
    BY <1>6
  <2>2. PICK i \in 1..Len(seqs[j]) : q = Pos(at, j, i)
    BY <2>1
  <2>3. k < j => b < q
    BY <1>2, <1>4, <2>2
  <2>4. seqs[j][i].kind = "begin"
    BY <1>3, <1>9, <2>2
  <2>5. CASE j < k
    <3>1. PICK r \in 1..Len(seqs[j]) : i < r /\ seqs[j][r].kind = "end"
      BY <2>4 DEF AllClosed
    <3>2. Pos(at, j, r) \in 1..Len(text) /\ text[Pos(at, j, r)].kind = "end"
      BY <1>3, <3>1
    <3>3. q < Pos(at, j, r)
      BY <1>5, <2>2, <3>1
    <3>4. Pos(at, j, r) < b
      BY <1>2, <1>4, <2>5
    <3> QED
      BY <3>2, <3>3, <3>4
  <2>6. CASE j = k
    <3>1. i < x
      BY <1>2, <1>5, <1>9, <2>2, <2>6
    <3>2. PICK r \in 1..Len(seqs[k]) : i < r /\ r < x /\ seqs[k][r].kind = "end"
      BY <1>2, <2>2, <2>4, <2>6, <3>1
    <3>3. Pos(at, k, r) \in 1..Len(text) /\ text[Pos(at, k, r)].kind = "end"
      BY <1>3, <3>2
    <3>4. q < Pos(at, k, r) /\ Pos(at, k, r) < b
      BY <1>2, <1>5, <2>2, <2>6, <3>2
    <3> QED
      BY <3>3, <3>4
  <2> HIDE DEF b
  <2>7. j < k \/ j = k
    BY <1>7, <1>9, <2>3
  <2> QED
    BY <2>5, <2>6, <2>7
<1> QED
  BY <1>1, <1>7, <1>8, <1>9 DEF Encloses

LEMMA SameCapsule ==
    ASSUME NEW seqs \in Seq(Seq(Tokens)), NEW text \in Seq(Tokens), NEW at, Laid(seqs, Len(seqs), text, at),
           NEW k \in 1..Len(seqs), NEW x, NEW y, Encloses(seqs[k], x, y)
    PROVE  BlockCapsule(text, Pos(at, k, x), Pos(at, k, y)) = BlockCapsule(seqs[k], x, y)
<1>1. /\ x \in 1..Len(seqs[k]) /\ y \in 1..Len(seqs[k]) /\ x < y /\ Len(seqs[k]) \in Nat /\ at[k] \in Nat
  <2>1. DOMAIN seqs[k] = 1..Len(seqs[k]) /\ Len(seqs[k]) \in Nat
    OBVIOUS
  <2> QED
    BY <2>1 DEF Encloses, Laid
<1>2. \A i \in 1..Len(seqs[k]) : text[at[k] + i] = seqs[k][i]
  BY DEF Laid
<1>3. PICK a \in Nat : a = at[k]
  BY <1>1
<1>4. PICK l \in Nat : l = Len(seqs[k])
  BY <1>1
<1>5. PICK msg : msg = seqs[k]
  OBVIOUS
<1>6. /\ x \in 1..l /\ y \in 1..l /\ x < y /\ \A i \in 1..l : text[a + i] = msg[i]
  BY <1>1, <1>2, <1>3, <1>4, <1>5
<1>7. BlockCapsule(text, a + x, a + y) = BlockCapsule(msg, x, y)
  <2>1. x \in Nat /\ y \in Nat /\ x + 1 \in 1..l /\ (a + x) + 1 = a + (x + 1)
    BY <1>6
  <2>2. text[(a + x) + 1] = msg[x + 1]
    BY <1>6, <2>1
  <2>3. ((a + x) + 1 \in ((a + x) + 1)..((a + y) - 1)) <=> (x + 1 \in (x + 1)..(y - 1))
    BY <2>1
  <2>4. ASSUME NEW p \in ((a + x) + 1)..((a + y) - 1)
        PROVE  p - a \in (x + 1)..(y - 1) /\ text[p] = msg[p - a]
    <3>1. p - a \in (x + 1)..(y - 1) /\ p - a \in 1..l /\ a + (p - a) = p
      BY <1>6, <2>1
    <3> QED
      BY <1>6, <3>1
  <2>5. ASSUME NEW i \in (x + 1)..(y - 1)
        PROVE  a + i \in ((a + x) + 1)..((a + y) - 1) /\ text[a + i] = msg[i]
    <3>1. i \in 1..l /\ a + i \in ((a + x) + 1)..((a + y) - 1)
      BY <1>6, <2>1
    <3> QED
      BY <1>6, <3>1
  <2>6. (\E p \in ((a + x) + 1)..((a + y) - 1) : text[p].kind = "begin")
          <=> (\E i \in (x + 1)..(y - 1) : msg[i].kind = "begin")
    BY <2>4, <2>5
  <2>7. a + y = (a + x) + 2 <=> y = x + 2
    BY <2>1
  <2> QED
    BY <2>2, <2>3, <2>6, <2>7, Zenon DEF BlockCapsule
<1> QED
  BY <1>3, <1>5, <1>7 DEF Pos

\* Every block of the joined text is one of a message.
LEMMA BlockOfMessage ==
    ASSUME NEW seqs \in Seq(Seq(Tokens)), NEW text \in Seq(Tokens), NEW at, Laid(seqs, Len(seqs), text, at),
           AllClosed(seqs), NEW b, NEW e, Encloses(text, b, e)
    PROVE  \E k \in 1..Len(seqs) : \E x, y \in 1..Len(seqs[k]) :
              Encloses(seqs[k], x, y) /\ b = Pos(at, k, x) /\ e = Pos(at, k, y)
<1>1. DOMAIN text = 1..Len(text) /\ Len(text) \in Nat /\ \A k \in 1..Len(seqs) : DOMAIN seqs[k] = 1..Len(seqs[k])
  OBVIOUS
<1>2. /\ b \in 1..Len(text) /\ text[b].kind = "begin" /\ e \in 1..Len(text) /\ text[e].kind = "end" /\ b < e
      /\ \A i \in 1..Len(text) : b < i /\ i < e => text[i].kind # "end"
      /\ \A i \in 1..Len(text) : i < b /\ text[i].kind = "begin" =>
           \E r \in 1..Len(text) : i < r /\ r < b /\ text[r].kind = "end"
  BY <1>1 DEF Encloses
<1>3. \A j \in 1..Len(seqs) : \A i \in 1..Len(seqs[j]) :
         Pos(at, j, i) \in 1..Len(text) /\ text[Pos(at, j, i)] = seqs[j][i]
  BY InOrder
<1>4. \A j, l \in 1..Len(seqs) : j < l =>
         \A r \in 1..Len(seqs[j]) : \A i \in 1..Len(seqs[l]) : Pos(at, j, r) < Pos(at, l, i)
  BY InOrder
<1>5. \A j \in 1..Len(seqs) : \A r, i \in 1..Len(seqs[j]) : Pos(at, j, r) < Pos(at, j, i) <=> r < i
  BY InOrder
<1>6. \A q \in 1..Len(text) : \E j \in 1..Len(seqs) : \E i \in 1..Len(seqs[j]) : q = Pos(at, j, i)
  BY InOrder
<1>7. PICK k \in 1..Len(seqs) : \E i \in 1..Len(seqs[k]) : b = Pos(at, k, i)
  BY <1>2, <1>6
<1>8. PICK x \in 1..Len(seqs[k]) : b = Pos(at, k, x)
  BY <1>7
<1>9. PICK j \in 1..Len(seqs) : \E i \in 1..Len(seqs[j]) : e = Pos(at, j, i)
  BY <1>2, <1>6
<1>10. PICK y \in 1..Len(seqs[j]) : e = Pos(at, j, y)
  BY <1>9
<1>11. seqs[k][x].kind = "begin" /\ seqs[j][y].kind = "end"
  BY <1>2, <1>3, <1>8, <1>10
<1>12. ~(j < k)
  <2>1. j < k => e < b
    BY <1>4, <1>8, <1>10
  <2> QED
    BY <1>1, <1>2, <2>1
<1>13. ASSUME k < j PROVE FALSE
  <2>1. PICK r \in 1..Len(seqs[k]) : x < r /\ seqs[k][r].kind = "end"
    BY <1>11 DEF AllClosed
  <2>2. Pos(at, k, r) \in 1..Len(text) /\ text[Pos(at, k, r)].kind = "end"
    BY <1>3, <2>1
  <2>3. b < Pos(at, k, r)
    BY <1>5, <1>8, <2>1
  <2>4. Pos(at, k, r) < e
    BY <1>4, <1>10, <1>13
  <2> QED
    BY <1>2, <2>2, <2>3, <2>4
<1>14. j = k
  BY <1>12, <1>13
<1>15. x < y
  BY <1>2, <1>5, <1>8, <1>10, <1>14
<1>16. ASSUME NEW i \in 1..Len(seqs[k]), x < i, i < y PROVE seqs[k][i].kind # "end"
  <2>1. Pos(at, k, i) \in 1..Len(text) /\ text[Pos(at, k, i)] = seqs[k][i]
    BY <1>3
  <2>2. b < Pos(at, k, i) /\ Pos(at, k, i) < e
    BY <1>5, <1>8, <1>10, <1>14, <1>16
  <2> QED
    BY <1>2, <2>1, <2>2
<1>17. ASSUME NEW i \in 1..Len(seqs[k]), i < x, seqs[k][i].kind = "begin"
       PROVE  \E r \in 1..Len(seqs[k]) : i < r /\ r < x /\ seqs[k][r].kind = "end"
  <2>1. Pos(at, k, i) \in 1..Len(text) /\ text[Pos(at, k, i)].kind = "begin"
    BY <1>3, <1>17
  <2>2. Pos(at, k, i) < b
    BY <1>5, <1>8, <1>17
  <2>3. PICK s \in 1..Len(text) : Pos(at, k, i) < s /\ s < b /\ text[s].kind = "end"
    BY <1>2, <2>1, <2>2
  <2>4. PICK l \in 1..Len(seqs) : \E r \in 1..Len(seqs[l]) : s = Pos(at, l, r)
    BY <1>6
  <2>5. PICK r \in 1..Len(seqs[l]) : s = Pos(at, l, r)
    BY <2>4
  <2>6. (l < k => s < Pos(at, k, i)) /\ (k < l => b < s)
    BY <1>4, <1>8, <2>5
  <2>7. l = k
    BY <1>1, <1>2, <2>1, <2>3, <2>6
  <2>8. i < r /\ r < x
    BY <1>5, <1>8, <2>3, <2>5, <2>7
  <2> QED
    BY <1>3, <2>3, <2>5, <2>7, <2>8
<1>18. Encloses(seqs[k], x, y)
  BY <1>1, <1>11, <1>14, <1>15, <1>16, <1>17 DEF Encloses
<1> QED
  BY <1>8, <1>10, <1>14, <1>18

-----------------------------------------------------------------------------
\* What the scanner found.

\* The errors the scanner collects are lists of reasons, empty only if no part raises.
LEMMA HeaderListed ==
    ASSUME NEW c
    PROVE  /\ ScanHeaderErrors(c) \in Seq(Reasons)
           /\ ScanHeaderErrors(c) = <<>> => ParseErrors(c) \o MetadataErrors(c, Opts.policy) = <<>>
<1> DEFINE e1 == ParseErrors(c)
           e2 == MetadataErrors(c, Opts.policy)
           e3 == IF c.sig = "ed25519" THEN TrustErrors(c, Opts, now) ELSE <<>>
<1>1. e1 \in Seq(Reasons)
  BY Codes DEF Raises, ParseErrors
<1>2. e2 \in Seq(Reasons) /\ e3 \in Seq(Reasons)
  BY MetadataSound, TrustSound, Codes
<1>3. ScanHeaderErrors(c) = e1 \o e2 \o e3
  BY Zenon DEF ScanHeaderErrors
<1> HIDE DEF e1, e2, e3
<1>4. ScanHeaderErrors(c) \in Seq(Reasons) /\ (ScanHeaderErrors(c) = <<>> => e1 \o e2 = <<>>)
  BY <1>1, <1>2, <1>3, NoneInEither
<1> QED
  BY <1>4 DEF e1, e2

LEMMA EmptyParts ==
    ASSUME NEW c
    PROVE  ScanHeaderErrors(c) # <<>> => ScanHeaderErrors(c) \o ScanPayloadErrors(c) # <<>>
<1> DEFINE e1 == PayloadErrors(c, ScanKey)
           e2 == SizeErrors(c, Opts.policy)
           e3 == ManifestErrors(c)
<1>1. e1 \in Seq(Reasons) /\ e2 \in Seq(Reasons) /\ e3 \in Seq(Reasons)
  BY PayloadSound, Codes DEF Raises, SizeErrors, ManifestErrors
<1>2. ScanPayloadErrors(c) = e1 \o e2 \o e3
  BY Zenon DEF ScanPayloadErrors
<1> HIDE DEF e1, e2, e3
<1>3. ScanPayloadErrors(c) \in Seq(Reasons)
  BY <1>1, <1>2, NoneInEither
<1> QED
  BY <1>3, HeaderListed, NoneInEither

\* A scanned capsule is counted as invalid, or its trust verdict is noted.
Noted(c) == scan.invalid > 0 \/ \E t \in 0..now : SignatureTrust(c, Opts, t).status \in scan.trust

\* A capsule the scanner has no key for.
Shut(c) == c.enc # None /\ ScanKey = None

\* The end markers of the blocks behind an offset of the scan.
Seen(o) == { y \in DOMAIN Text : y < o /\ \E x : Encloses(Text, x, y) }

ScanSound ==
    Opts.scan =>
      /\ scan.off \in Nat \ {0} /\ SearchedIn(Text, scan.off)
      /\ \A x, y : Encloses(Text, x, y) /\ y < scan.off => Noted(BlockCapsule(Text, x, y))
      /\ scan.invalid = 0 /\ (\A x, y : Encloses(Text, x, y) => ~Shut(BlockCapsule(Text, x, y))) =>
            Counts(scan.valid, Seen(scan.off))
      /\ pc \notin {"scan", "down"} => Begins(Text, scan.off) = {}

LEMMA ScanBlockSound ==
    ASSUME Typed, ScanSound, ScanBlock
    PROVE  ScanSound'
<1>1. UNCHANGED <<now, job, pc>> /\ pc = "scan" /\ Begins(Text, scan.off) # {}
  BY DEF ScanBlock, unscanned
<1>2. UNCHANGED <<Opts, Text, ScanKey>>
  BY <1>1 DEF Opts, Text, ScanKey
<1>3. SUFFICES ASSUME Opts.scan
               PROVE  /\ scan'.off \in Nat \ {0} /\ SearchedIn(Text, scan'.off)
                      /\ \A x, y : Encloses(Text, x, y) /\ y < scan'.off => Noted(BlockCapsule(Text, x, y))'
                      /\ scan'.invalid = 0 /\ (\A x, y : Encloses(Text, x, y) => ~Shut(BlockCapsule(Text, x, y))) =>
                           Counts(scan'.valid, Seen(scan'.off))
  BY <1>1, <1>2 DEF ScanSound, Seen, Shut
<1>4. Text \in Seq(Tokens) /\ scan.off \in Nat \ {0} /\ SearchedIn(Text, scan.off) /\ DOMAIN Text = 1..Len(Text)
      /\ Len(Text) \in Nat
  <2>1. Text \in Seq(Tokens)
    BY TextTyped DEF Typed, Shape
  <2> QED
    BY <1>3, <2>1 DEF ScanSound
<1>5. PICK b \in scan.off..Len(Text) :
         /\ b = First(Begins(Text, scan.off)) /\ Text[b].kind = "begin"
         /\ \A i \in scan.off..(b - 1) : Text[i].kind # "begin"
  BY <1>1, <1>4, FirstBegin
<1>6. Ends(Text, b) # {} /\ scan' = Scanned(BlockCapsule(Text, b, First(Ends(Text, b))), First(Ends(Text, b)) + 1)
  BY <1>5, Zenon DEF ScanBlock
<1>7. PICK e \in b..Len(Text) :
         /\ e = First(Ends(Text, b)) /\ Text[e].kind = "end"
         /\ \A i \in b..(e - 1) : Text[i].kind # "end"
  <2>1. b \in Nat
    BY <1>4, <1>5
  <2> QED
    BY <1>4, <1>6, <2>1, FirstEnd
<1>8. /\ Encloses(Text, b, e) /\ SearchedIn(Text, e + 1) /\ scan.off <= e /\ e \in Nat
      /\ \A x, y : Encloses(Text, x, y) /\ y < e + 1 => y < scan.off \/ (x = b /\ y = e)
  <2>1. PICK text \in Seq(Tokens) : text = Text
    BY <1>4
  <2>2. PICK o \in Nat \ {0} : o = scan.off
    BY <1>4
  <2>3. /\ SearchedIn(text, o) /\ b \in o..Len(text) /\ text[b].kind = "begin"
        /\ \A i \in o..(b - 1) : text[i].kind # "begin"
        /\ e \in b..Len(text) /\ text[e].kind = "end" /\ \A i \in b..(e - 1) : text[i].kind # "end"
    BY <1>4, <1>5, <1>7, <2>1, <2>2
  <2>4. /\ Encloses(text, b, e) /\ SearchedIn(text, e + 1) /\ o <= e /\ e \in Nat
        /\ \A x, y : Encloses(text, x, y) /\ y < e + 1 => y < o \/ (x = b /\ y = e)
    BY <2>3, BlockFound
  <2> QED
    BY <2>1, <2>2, <2>4
<1>9. PICK c : c = BlockCapsule(Text, b, e)
  OBVIOUS
<1>10. PICK sealed : sealed = (ScanHeaderErrors(c) = <<>> /\ c.enc # None /\ ScanKey = None)
  OBVIOUS
<1>11. PICK good : good = (ScanHeaderErrors(c) \o ScanPayloadErrors(c) = <<>>)
  OBVIOUS
<1>12. scan' = [ off       |-> e + 1,
                 valid     |-> scan.valid + (IF good THEN 1 ELSE 0),
                 invalid   |-> scan.invalid + (IF good \/ sealed THEN 0 ELSE 1),
                 trust     |-> scan.trust \cup ScanTrust(c),
                 encrypted |-> scan.encrypted \/ sealed ]
  BY <1>6, <1>7, <1>9, <1>10, <1>11 DEF Scanned
<1>13. scan.valid \in Nat /\ scan.invalid \in Nat
  BY DEF Typed, TypeOK
<1>14. ScanHeaderErrors(c) = <<>> => SignatureTrust(c, Opts, now).status \in ScanTrust(c)
  BY HeaderListed DEF ScanTrust
<1>15. ASSUME ScanHeaderErrors(c) # <<>> PROVE ~good /\ ~sealed
  BY <1>10, <1>11, <1>15, EmptyParts
<1>16. Noted(c)'
  <2>1. CASE ScanHeaderErrors(c) # <<>>
    BY <1>12, <1>13, <1>15, <2>1 DEF Noted
  <2>2. CASE ScanHeaderErrors(c) = <<>>
    <3>1. SignatureTrust(c, Opts, now).status \in scan'.trust
      BY <1>12, <1>14, <2>2
    <3>2. now \in 0..now
      BY DEF Typed, Shape, Times
    <3> QED
      BY <1>1, <1>2, <3>1, <3>2 DEF Noted
  <2> QED
    BY <2>1, <2>2
<1>17. ASSUME NEW x, NEW y, Encloses(Text, x, y), y < e + 1 PROVE Noted(BlockCapsule(Text, x, y))'
  <2>1. CASE y < scan.off
    <3>1. Noted(BlockCapsule(Text, x, y))
      BY <1>3, <1>17, <2>1 DEF ScanSound
    <3>2. scan.trust \subseteq scan'.trust /\ (scan.invalid > 0 => scan'.invalid > 0)
      BY <1>12, <1>13
    <3> QED
      BY <1>1, <1>2, <3>1, <3>2 DEF Noted
  <2>2. CASE x = b /\ y = e
    BY <1>2, <1>9, <1>16, <2>2
  <2> QED
    BY <1>8, <1>17, <2>1, <2>2
<1>18. ASSUME scan'.invalid = 0, \A x, y : Encloses(Text, x, y) => ~Shut(BlockCapsule(Text, x, y))
       PROVE  Counts(scan'.valid, Seen(e + 1))
  <2>1. ~sealed
    BY <1>8, <1>9, <1>10, <1>18 DEF Shut
  <2>2. good /\ scan.invalid = 0
    BY <1>12, <1>13, <1>18, <2>1
  <2>3. scan'.valid = scan.valid + 1
    BY <1>12, <2>2
  <2>4. Counts(scan.valid, Seen(scan.off))
    BY <1>3, <1>18, <2>2 DEF ScanSound
  <2>5. Seen(e + 1) = Seen(scan.off) \cup {e} /\ e \notin Seen(scan.off)
    <3>1. e \in DOMAIN Text /\ e < e + 1 /\ ~(e < scan.off)
      BY <1>4, <1>8 DEF Encloses
    <3>2. \A y \in DOMAIN Text : y < scan.off => y < e + 1
      BY <1>4, <1>8
    <3> QED
      BY <1>8, <3>1, <3>2 DEF Seen
  <2> QED
    BY <1>13, <2>3, <2>4, <2>5, OneMore
<1>19. scan'.off = e + 1
  BY <1>12
<1> QED
  BY <1>8, <1>17, <1>18, <1>19

LEMMA ScanMalformedSound ==
    ASSUME Typed, ScanSound, ScanMalformed
    PROVE  ScanSound'
<1>1. UNCHANGED <<now, job, pc>> /\ pc = "scan" /\ Begins(Text, scan.off) # {}
  BY DEF ScanMalformed, unscanned
<1>2. UNCHANGED <<Opts, Text, ScanKey>>
  BY <1>1 DEF Opts, Text, ScanKey
<1>3. SUFFICES ASSUME Opts.scan
               PROVE  scan'.off \in Nat \ {0} /\ SearchedIn(Text, scan'.off) /\ scan'.invalid > 0
  <2>1. scan'.invalid > 0 => scan'.invalid # 0 /\ \A c : Noted(c)'
    BY DEF Noted
  <2> QED
    BY <1>1, <1>2, <2>1 DEF ScanSound
<1>4. Text \in Seq(Tokens) /\ scan.off \in Nat \ {0} /\ SearchedIn(Text, scan.off) /\ DOMAIN Text = 1..Len(Text)
      /\ Len(Text) \in Nat
  <2>1. Text \in Seq(Tokens)
    BY TextTyped DEF Typed, Shape
  <2> QED
    BY <1>3, <2>1 DEF ScanSound
<1>5. PICK b \in scan.off..Len(Text) :
         /\ b = First(Begins(Text, scan.off)) /\ Text[b].kind = "begin"
         /\ \A i \in scan.off..(b - 1) : Text[i].kind # "begin"
  BY <1>1, <1>4, FirstBegin
<1>6. Ends(Text, b) = {} /\ scan' = [scan EXCEPT !.off = b + 1, !.invalid = @ + 1]
  BY <1>5, Zenon DEF ScanMalformed
<1>7. scan \in Scans
  BY DEF Typed, TypeOK, Scans
<1>8. scan'.off = b + 1 /\ scan'.invalid > 0 /\ b + 1 \in Nat \ {0}
  BY <1>4, <1>5, <1>6, <1>7 DEF Scans
<1>9. SearchedIn(Text, b + 1)
  <2>1. PICK text \in Seq(Tokens) : text = Text
    BY <1>4
  <2>2. PICK o \in Nat \ {0} : o = scan.off
    BY <1>4
  <2>3. /\ SearchedIn(text, o) /\ b \in o..Len(text) /\ text[b].kind = "begin"
        /\ \A i \in o..(b - 1) : text[i].kind # "begin"
    BY <1>4, <1>5, <2>1, <2>2
  <2>4. \A i \in DOMAIN text : b < i => text[i].kind # "end"
    BY <1>6, <2>1, <2>3 DEF Ends
  <2>5. SearchedIn(text, b + 1)
    BY <2>3, <2>4, MarkerUnclosed
  <2> QED
    BY <2>1, <2>5
<1> QED
  BY <1>8, <1>9

\* A step that leaves the scanner alone.
LEMMA ScanQuiet ==
    ASSUME Typed, ScanSound, UNCHANGED <<job, scan>>, now' \in Times, now <= now',
           pc' \notin {"scan", "down"} => (pc \notin {"scan", "down"} \/ Begins(Text, scan.off) = {})
    PROVE  ScanSound'
<1>1. UNCHANGED <<Opts, Text, ScanKey>>
  BY DEF Opts, Text, ScanKey
<1>2. ASSUME NEW c, Noted(c) PROVE Noted(c)'
  <2>1. \A t \in 0..now : t \in 0..now'
    BY DEF Typed, Shape, Times
  <2> QED
    BY <1>1, <1>2, <2>1 DEF Noted
<1> QED
  BY <1>1, <1>2 DEF ScanSound, Seen, Shut

LEMMA ScanFresh ==
    ASSUME NEW text \in Seq(Tokens)
    PROVE  SearchedIn(text, 1) /\ \A x, y : Encloses(text, x, y) => ~(y < 1)
  BY DEF SearchedIn, Encloses

LEMMA ScanInit == Init => ScanSound
<1> SUFFICES ASSUME Init PROVE ScanSound
  OBVIOUS
<1>1. Text \in Seq(Tokens) /\ scan.off = 1 /\ scan.valid = 0 /\ (Opts.scan => pc = "scan")
  BY TextTyped DEF Init, StartScan, StartOf, Opts
<1>2. SearchedIn(Text, 1) /\ \A x, y : Encloses(Text, x, y) => ~(y < 1)
  BY <1>1, ScanFresh
<1>3. Seen(1) = {}
  BY <1>2 DEF Seen
<1>4. Counts(scan.valid, Seen(scan.off))
  BY <1>1, <1>3, NothingListed
<1>5. SearchedIn(Text, scan.off) /\ \A x, y : Encloses(Text, x, y) => ~(y < scan.off)
  BY <1>1, <1>2
<1>6. scan.off \in Nat \ {0} /\ (Opts.scan => pc = "scan")
  BY <1>1
<1> QED
  BY <1>4, <1>5, <1>6 DEF ScanSound

LEMMA ScanStep == Typed /\ ScanSound /\ [Next]_vars => ScanSound'
<1> SUFFICES ASSUME Typed, ScanSound, [Next]_vars PROVE ScanSound'
  OBVIOUS
<1>1. now \in Times /\ now \in Nat
  BY DEF Typed, Shape, Times
<1>2. CASE ScanEnd
  BY <1>1, <1>2, ScanQuiet DEF ScanEnd, unscanned
<1>3. CASE Extracting \/ InlineLoop \/ Unpacking \/ RefLoop \/ Done \/ Rest \/ TornWrite \/ Crash \/ UNCHANGED vars
  <2>1. UNCHANGED <<job, scan, now>> /\ (pc' \notin {"scan", "down"} => pc \notin {"scan", "down"})
    <3>1. CASE Extracting
      BY <3>1, Zenon DEF Extracting, ExtractBlock, ExtractMalformed, ExtractEnd
    <3>2. CASE InlineLoop
      BY <3>2 DEF InlineLoop, RejectBlock, VerifyBlock, InlineEnd
    <3>3. CASE Unpacking
      BY <3>3 DEF Unpacking, WriteFile, UnpackFails, UnpackDone, Finish
    <3>4. CASE RefLoop
      BY <3>4 DEF RefLoop, RejectReference, SkipReference, DetectReference, Detect, FetchFails, FetchReturns,
                  OnReference, MatchReference, RejectFetched, VerifyFetched, NextMessage
    <3> QED
      BY <1>3, <3>1, <3>2, <3>3, <3>4 DEF Done, Rest, TornWrite, Crash, vars
  <2>2. now' \in Times /\ now <= now'
    BY <1>1, <2>1
  <2> QED
    BY <2>1, <2>2, ScanQuiet
<1>4. CASE Tick
  <2>1. UNCHANGED <<job, scan, pc>> /\ now' \in Times /\ now <= now'
    BY <1>1, <1>4, TrustAssumption DEF Tick, Times
  <2> QED
    BY <2>1, ScanQuiet
<1>5. CASE Restart
  <2>1. job' \in Jobs /\ scan'.off = 1 /\ scan'.valid = 0 /\ (Opts'.scan => pc' = "scan")
    BY <1>5 DEF Restart, StartScan, StartOf, Opts
  <2>2. Text' \in Seq(Tokens)
    <3>1. job'.msgs \in Seq(Seq(Tokens))
      BY <2>1, ReceiverAssumption DEF Job
    <3> QED
      BY <3>1, FlattenTyped DEF Text
  <2>3. SearchedIn(Text', 1) /\ \A x, y : Encloses(Text', x, y) => ~(y < 1)
    BY <2>2, ScanFresh
  <2>4. Seen(1)' = {}
    BY <2>3 DEF Seen
  <2> QED
    BY <2>1, <2>3, <2>4, NothingListed DEF ScanSound
<1> QED
  BY <1>2, <1>3, <1>4, <1>5, ScanBlockSound, ScanMalformedSound DEF Next, Step, Scanning

-----------------------------------------------------------------------------
\* What the receiver found, block by block.

Checked(c, o, by)     == \E t \in 0..by : VerifyErrors(c, o, t) = <<>>
BlockOf(msg, c)       == \E x, y : Encloses(msg, x, y) /\ c = BlockCapsule(msg, x, y)
Listed(list, c)       == \E i \in DOMAIN list : list[i].capsule = c
Waiting(list, from, c) == \E i \in from..Len(list) : list[i] = c

InlineStage == pc = "inline" \/ (pc = "write" /\ task.kind = "inline")
BlocksDone  == pc \in {"detect", "done"} \/ AtReference

\* What is reported and what waits to be are blocks of the messages, and what is
\* accepted was checked.
Found ==
    /\ \A i \in DOMAIN inline :
         /\ \E k \in DOMAIN job.msgs : BlockOf(job.msgs[k], inline[i].capsule)
         /\ Accepted(inline[i]) => Checked(inline[i].capsule, Opts, now)
    /\ \A i \in DOMAIN blocks : \E k \in DOMAIN job.msgs : BlockOf(job.msgs[k], blocks[i])
    /\ InlineStage /\ pc = "write" => task.capsule = blocks[next] /\ Checked(task.capsule, Opts, now)

\* The blocks of the messages before are reported, those of this one are or wait.
Gathered ==
    /\ \A k \in DOMAIN job.msgs : k < m => \A c : BlockOf(job.msgs[k], c) => Listed(inline, c)
    /\ pc \in {"scan", "extract"} =>
         /\ SearchedIn(Msg, off)
         /\ \A x, y : Encloses(Msg, x, y) /\ y < off => Waiting(blocks, 1, BlockCapsule(Msg, x, y))
    /\ InlineStage => \A c : BlockOf(Msg, c) => Listed(inline, c) \/ Waiting(blocks, next, c)
    /\ BlocksDone => \A c : BlockOf(Msg, c) => Listed(inline, c)

\* What was checked stays checked.
LEMMA CheckedLater ==
    ASSUME NEW c, NEW o, NEW s \in Nat, NEW t \in Nat, s <= t, Checked(c, o, s)
    PROVE  Checked(c, o, t)
  BY DEF Checked

\* A step that finds and reports no block.
LEMMA FoundQuiet ==
    ASSUME Typed, Found, UNCHANGED <<job, blocks, inline>>, now' \in Times, now <= now',
           InlineStage' /\ pc' = "write" =>
             InlineStage /\ pc = "write" /\ next' = next /\ task'.capsule = task.capsule
    PROVE  Found'
<1>1. now \in Nat /\ now' \in Nat /\ UNCHANGED Opts
  BY DEF Typed, Shape, Times, Opts
<1>2. \A c : Checked(c, Opts, now) => Checked(c, Opts, now')
  BY <1>1, CheckedLater
<1> QED
  BY <1>1, <1>2 DEF Found

LEMMA GatheredQuiet ==
    ASSUME Gathered, UNCHANGED <<job, m, blocks, inline>>,
           pc' \in {"scan", "extract"} => pc \in {"scan", "extract"} /\ off' = off,
           InlineStage' => InlineStage /\ next' = next, BlocksDone' => BlocksDone
    PROVE  Gathered'
<1>1. UNCHANGED Msg
  BY DEF Msg
<1> QED
  BY <1>1 DEF Gathered

\* One more block waits.
LEMMA OneWaits ==
    ASSUME NEW list \in Seq(Capsules), NEW new \in Capsules
    PROVE  /\ Waiting(Append(list, new), 1, new)
           /\ \A c : Waiting(list, 1, c) => Waiting(Append(list, new), 1, c)
           /\ \A i \in DOMAIN Append(list, new) :
                (i \in DOMAIN list /\ Append(list, new)[i] = list[i]) \/ Append(list, new)[i] = new
<1>1. /\ Len(Append(list, new)) = Len(list) + 1 /\ Len(list) \in Nat
      /\ DOMAIN Append(list, new) = 1..(Len(list) + 1) /\ DOMAIN list = 1..Len(list)
      /\ \A i \in 1..Len(list) : Append(list, new)[i] = list[i]
      /\ Append(list, new)[Len(list) + 1] = new
  OBVIOUS
<1>2. Waiting(Append(list, new), 1, new)
  <2>1. Len(list) + 1 \in 1..(Len(list) + 1)
    BY <1>1
  <2> QED
    BY <1>1, <2>1 DEF Waiting
<1>3. ASSUME NEW c, Waiting(list, 1, c) PROVE Waiting(Append(list, new), 1, c)
  <2>1. PICK i \in 1..Len(list) : list[i] = c
    BY <1>3 DEF Waiting
  <2>2. i \in 1..(Len(list) + 1)
    BY <1>1
  <2> QED
    BY <1>1, <2>1, <2>2 DEF Waiting
<1>4. ASSUME NEW i \in 1..(Len(list) + 1) PROVE i \in 1..Len(list) \/ i = Len(list) + 1
  BY <1>1
<1> QED
  BY <1>1, <1>2, <1>3, <1>4

LEMMA FoundBlock ==
    ASSUME Typed, Found, Gathered, ExtractBlock
    PROVE  Found' /\ Gathered'
<1>1. Shape /\ pc = "extract" /\ pc' = "extract" /\ off \in Nat \ {0} /\ m \in DOMAIN job.msgs /\ job \in Jobs
  BY DEF ExtractBlock, Typed, Shape
<1>2. Msg \in Seq(Tokens) /\ DOMAIN Msg = 1..Len(Msg) /\ Len(Msg) \in Nat /\ blocks \in Seq(Capsules)
  BY <1>1, JobTyped DEF Shape
<1>3. PICK b \in off..Len(Msg) :
         /\ b = First(Begins(Msg, off)) /\ Msg[b].kind = "begin"
         /\ \A i \in off..(b - 1) : Msg[i].kind # "begin"
  BY <1>1, <1>2, FirstBegin DEF ExtractBlock
<1>4. /\ Ends(Msg, b) # {}
      /\ blocks' = Append(blocks, BlockCapsule(Msg, b, First(Ends(Msg, b)))) /\ off' = First(Ends(Msg, b)) + 1
  BY <1>3, Zenon DEF ExtractBlock
<1>5. PICK e \in b..Len(Msg) :
         /\ e = First(Ends(Msg, b)) /\ Msg[e].kind = "end"
         /\ \A i \in b..(e - 1) : Msg[i].kind # "end"
  <2>1. b \in Nat
    BY <1>1, <1>3
  <2> QED
    BY <1>2, <1>4, <2>1, FirstEnd
<1>6. PICK msg \in Seq(Tokens) : msg = Msg
  BY <1>2
<1>7. PICK o \in Nat \ {0} : o = off
  BY <1>1
<1>8. /\ SearchedIn(msg, o) /\ b \in o..Len(msg) /\ msg[b].kind = "begin"
      /\ \A i \in o..(b - 1) : msg[i].kind # "begin"
      /\ e \in b..Len(msg) /\ msg[e].kind = "end" /\ \A i \in b..(e - 1) : msg[i].kind # "end"
  BY <1>1, <1>3, <1>5, <1>6, <1>7 DEF Gathered
<1>9. /\ Encloses(msg, b, e) /\ SearchedIn(msg, e + 1)
      /\ \A x, y : Encloses(msg, x, y) /\ y < e + 1 => y < o \/ (x = b /\ y = e)
  BY <1>8, BlockFound
<1>10. PICK new \in Capsules : new = BlockCapsule(msg, b, e)
  <2>1. BlockCapsule(msg, b, e) \in Capsules
    BY <1>1, <1>2, <1>6, <1>8, BlockTyped
  <2> QED
    BY <2>1
<1>11. blocks' = Append(blocks, new) /\ off' = e + 1
  BY <1>4, <1>5, <1>6, <1>10
<1>12. /\ Waiting(blocks', 1, new)
       /\ \A c : Waiting(blocks, 1, c) => Waiting(blocks', 1, c)
       /\ \A i \in DOMAIN blocks' : (i \in DOMAIN blocks /\ blocks'[i] = blocks[i]) \/ blocks'[i] = new
  BY <1>2, <1>11, OneWaits
<1>13. UNCHANGED <<now, job, m, inline, pc, Opts, Msg>> /\ ~InlineStage' /\ ~BlocksDone'
  BY <1>1 DEF ExtractBlock, Opts, Msg, InlineStage, BlocksDone, AtReference
<1>14. BlockOf(job.msgs[m], new)
  BY <1>6, <1>9, <1>10 DEF BlockOf, Msg
<1>15. Found'
  <2>1. \A i \in DOMAIN blocks' : \E k \in DOMAIN job.msgs : BlockOf(job.msgs[k], blocks'[i])
    BY <1>1, <1>12, <1>14 DEF Found
  <2> QED
    BY <1>13, <2>1 DEF Found
<1>16. ASSUME NEW x, NEW y, Encloses(Msg, x, y), y < e + 1 PROVE Waiting(blocks', 1, BlockCapsule(Msg, x, y))
  <2>1. CASE y < off
    BY <1>1, <1>12, <1>16, <2>1 DEF Gathered
  <2>2. CASE x = b /\ y = e
    BY <1>6, <1>10, <1>12, <2>2
  <2> QED
    BY <1>6, <1>7, <1>9, <1>16, <2>1, <2>2
<1>17. Gathered'
  BY <1>6, <1>9, <1>11, <1>13, <1>16 DEF Gathered
<1> QED
  BY <1>15, <1>17

LEMMA FoundMalformed ==
    ASSUME Typed, Found, Gathered, ExtractMalformed
    PROVE  Found' /\ Gathered'
<1>1. Shape /\ pc = "extract" /\ pc' = "extract" /\ off \in Nat \ {0} /\ m \in DOMAIN job.msgs /\ job \in Jobs
  BY DEF ExtractMalformed, Typed, Shape
<1>2. Msg \in Seq(Tokens) /\ DOMAIN Msg = 1..Len(Msg) /\ Len(Msg) \in Nat
  BY <1>1, JobTyped DEF Shape
<1>3. PICK b \in off..Len(Msg) :
         /\ b = First(Begins(Msg, off)) /\ Msg[b].kind = "begin"
         /\ \A i \in off..(b - 1) : Msg[i].kind # "begin"
  BY <1>1, <1>2, FirstBegin DEF ExtractMalformed
<1>4. Ends(Msg, b) = {} /\ off' = b + 1
  BY <1>3, Zenon DEF ExtractMalformed
<1>6. PICK msg \in Seq(Tokens) : msg = Msg
  BY <1>2
<1>7. PICK o \in Nat \ {0} : o = off
  BY <1>1
<1>8. /\ SearchedIn(msg, o) /\ b \in o..Len(msg) /\ msg[b].kind = "begin"
      /\ \A i \in o..(b - 1) : msg[i].kind # "begin"
  BY <1>1, <1>3, <1>6, <1>7 DEF Gathered
<1>9. \A i \in DOMAIN msg : b < i => msg[i].kind # "end"
  BY <1>4, <1>6, <1>8 DEF Ends
<1>10. SearchedIn(msg, b + 1) /\ \A x, y : Encloses(msg, x, y) /\ y < b + 1 => y < o
  BY <1>8, <1>9, MarkerUnclosed
<1>11. UNCHANGED <<now, job, m, blocks, inline, pc, Opts, Msg>> /\ ~InlineStage' /\ ~BlocksDone'
  BY <1>1 DEF ExtractMalformed, Opts, Msg, InlineStage, BlocksDone, AtReference
<1>12. Found'
  BY <1>11 DEF Found
<1>13. Gathered'
  BY <1>1, <1>4, <1>6, <1>7, <1>10, <1>11 DEF Gathered
<1> QED
  BY <1>12, <1>13

\* All blocks of the message wait to be verified.
LEMMA FoundAll ==
    ASSUME Typed, Numbered, Found, Gathered, ExtractEnd
    PROVE  Found' /\ Gathered'
<1>1. Shape /\ pc = "extract" /\ off \in Nat \ {0} /\ job \in Jobs /\ Begins(Msg, off) = {} /\ next = 1
  BY DEF ExtractEnd, Typed, Shape, Numbered
<1>2. Msg \in Seq(Tokens)
  BY <1>1, JobTyped DEF Shape
<1>3. /\ pc' = "inline" /\ UNCHANGED <<now, job, m, inline, blocks, next, Opts, Msg>>
      /\ ~BlocksDone' /\ ~(pc' \in {"scan", "extract"})
  BY DEF ExtractEnd, Opts, Msg, BlocksDone, AtReference
<1>4. \A x, y : Encloses(Msg, x, y) => y < off
  <2>1. PICK msg \in Seq(Tokens) : msg = Msg
    BY <1>2
  <2>2. PICK o \in Nat \ {0} : o = off
    BY <1>1
  <2>3. SearchedIn(msg, o) /\ Begins(msg, o) = {}
    BY <1>1, <2>1, <2>2 DEF Gathered
  <2>4. \A x, y : Encloses(msg, x, y) => y < o
    BY <2>3, BlocksOver
  <2> QED
    BY <2>1, <2>2, <2>4
<1>5. \A c : BlockOf(Msg, c) => Waiting(blocks, next, c)
  BY <1>1, <1>4 DEF Gathered, BlockOf
<1>6. Found'
  BY <1>3 DEF Found
<1> QED
  BY <1>3, <1>5, <1>6 DEF Gathered

\* One more item is listed.
LEMMA OneListed ==
    ASSUME NEW S, NEW list \in Seq(S), NEW added \in S
    PROVE  /\ Listed(Append(list, added), added.capsule)
           /\ \A c : Listed(list, c) => Listed(Append(list, added), c)
           /\ \A i \in DOMAIN Append(list, added) :
                (i \in DOMAIN list /\ Append(list, added)[i] = list[i]) \/ Append(list, added)[i] = added
<1>1. /\ Len(list) \in Nat /\ DOMAIN Append(list, added) = 1..(Len(list) + 1) /\ DOMAIN list = 1..Len(list)
      /\ \A i \in 1..Len(list) : Append(list, added)[i] = list[i]
      /\ Append(list, added)[Len(list) + 1] = added
  OBVIOUS
<1>2. Len(list) + 1 \in 1..(Len(list) + 1) /\ \A i \in 1..Len(list) : i \in 1..(Len(list) + 1)
  BY <1>1
<1>3. Listed(Append(list, added), added.capsule)
  BY <1>1, <1>2 DEF Listed
<1>4. ASSUME NEW c, Listed(list, c) PROVE Listed(Append(list, added), c)
  BY <1>1, <1>2, <1>4 DEF Listed
<1>5. ASSUME NEW i \in 1..(Len(list) + 1) PROVE i \in 1..Len(list) \/ i = Len(list) + 1
  BY <1>1
<1> QED
  BY <1>1, <1>3, <1>4, <1>5

LEMMA OneLess ==
    ASSUME NEW list, Len(list) \in Nat, NEW n \in Nat, NEW c, Waiting(list, n, c)
    PROVE  list[n] = c \/ Waiting(list, n + 1, c)
<1>1. PICK i \in n..Len(list) : list[i] = c
  BY DEF Waiting
<1>2. i = n \/ i \in (n + 1)..Len(list)
  OBVIOUS
<1> QED
  BY <1>1, <1>2 DEF Waiting

\* The next block of the message reported.
LEMMA FoundResult ==
    ASSUME Typed, Found, Gathered, InlineStage, next \in DOMAIN blocks,
           NEW added, added.capsule = blocks[next], Accepted(added) => Checked(blocks[next], Opts, now),
           inline' = Append(inline, added), next' = next + 1, pc' = "inline", UNCHANGED <<now, job, m, blocks>>
    PROVE  Found' /\ Gathered'
<1>1. UNCHANGED <<Opts, Msg>> /\ InlineStage' /\ ~BlocksDone' /\ ~(pc' \in {"scan", "extract", "write"})
  BY DEF Opts, Msg, InlineStage, BlocksDone, AtReference
<1>2. /\ Listed(inline', blocks[next])
      /\ \A c : Listed(inline, c) => Listed(inline', c)
      /\ \A i \in DOMAIN inline' : (i \in DOMAIN inline /\ inline'[i] = inline[i]) \/ inline'[i] = added
  <2>1. inline \in Seq(InlineResults \cup {added}) /\ added \in InlineResults \cup {added}
    BY SeqMonotonic DEF Typed, TypeOK
  <2> QED
    BY <2>1, OneListed
<1>3. Found'
  <2>1. \E k \in DOMAIN job.msgs : BlockOf(job.msgs[k], blocks[next])
    BY DEF Found
  <2>2. ASSUME NEW i \in DOMAIN inline'
        PROVE  /\ \E k \in DOMAIN job.msgs : BlockOf(job.msgs[k], inline'[i].capsule)
               /\ Accepted(inline'[i]) => Checked(inline'[i].capsule, Opts, now)
    <3>1. CASE i \in DOMAIN inline /\ inline'[i] = inline[i]
      BY <3>1 DEF Found
    <3>2. CASE inline'[i] = added
      BY <2>1, <3>2
    <3> QED
      BY <1>2, <3>1, <3>2
  <2> QED
    BY <1>1, <2>2 DEF Found
<1>4. ASSUME NEW c, BlockOf(Msg, c) PROVE Listed(inline', c) \/ Waiting(blocks, next + 1, c)
  <2>1. Len(blocks) \in Nat /\ next \in Nat
    BY DEF Typed, TypeOK
  <2>2. Listed(inline, c) \/ Waiting(blocks, next, c)
    BY <1>4 DEF Gathered
  <2> QED
    BY <1>2, <2>1, <2>2, OneLess
<1>5. Gathered'
  BY <1>1, <1>2, <1>4 DEF Gathered
<1> QED
  BY <1>3, <1>5

LEMMA FoundInlineLoop ==
    ASSUME Typed, Found, Gathered, InlineLoop
    PROVE  Found' /\ Gathered'
<1>1. next \in Nat \ {0} /\ Len(blocks) \in Nat /\ DOMAIN blocks = 1..Len(blocks)
  BY DEF Typed, TypeOK
<1>2. CASE RejectBlock
  <2>1. PICK reason : inline' = Append(inline, InlineResult(blocks[next], "invalid", reason, <<>>))
    BY <1>2, Zenon DEF RejectBlock
  <2>2. PICK added : added = InlineResult(blocks[next], "invalid", reason, <<>>)
    OBVIOUS
  <2>3. added.capsule = blocks[next] /\ ~Accepted(added)
    BY <2>2 DEF InlineResult, Accepted
  <2>4. pc = "inline" /\ pc' = "inline" /\ next <= Len(blocks) /\ next' = next + 1 /\ UNCHANGED <<now, job, m, blocks>>
    BY <1>2 DEF RejectBlock
  <2>5. InlineStage /\ next \in DOMAIN blocks
    BY <1>1, <2>4 DEF InlineStage
  <2> QED
    BY <2>1, <2>2, <2>3, <2>4, <2>5, FoundResult
<1>3. CASE VerifyBlock
  <2>1. /\ pc = "inline" /\ pc' = "write" /\ task'.kind = "inline" /\ task'.capsule = blocks[next]
        /\ VerifyErrors(blocks[next], Opts, now) = <<>>
        /\ UNCHANGED <<now, job, m, blocks, next, inline, Opts, Msg>>
    BY <1>3 DEF VerifyBlock, TaskFor, Opts, Msg
  <2>2. InlineStage /\ InlineStage' /\ ~BlocksDone' /\ ~(pc' \in {"scan", "extract"})
    BY <2>1 DEF InlineStage, BlocksDone, AtReference
  <2>3. Checked(blocks[next], Opts, now)
    <3>1. now \in 0..now
      BY DEF Typed, Shape, Times
    <3> QED
      BY <2>1, <3>1 DEF Checked
  <2>4. Found'
    BY <2>1, <2>3 DEF Found
  <2> QED
    BY <2>1, <2>2, <2>4 DEF Gathered
<1>4. CASE InlineEnd
  <2>1. /\ pc = "inline" /\ pc' = "detect" /\ next > Len(blocks) /\ UNCHANGED <<now, job, m, blocks, inline, Opts, Msg>>
    BY <1>4 DEF InlineEnd, Opts, Msg
  <2>2. InlineStage /\ ~InlineStage' /\ ~(pc' \in {"scan", "extract"})
    BY <2>1 DEF InlineStage
  <2>3. \A c : ~Waiting(blocks, next, c)
    BY <1>1, <2>1 DEF Waiting
  <2>4. Found'
    BY <2>1, <2>2 DEF Found
  <2> QED
    BY <2>1, <2>2, <2>3, <2>4 DEF Gathered
<1> QED
  BY <1>2, <1>3, <1>4 DEF InlineLoop

LEMMA FoundUnpacking ==
    ASSUME Typed, Settled, Numbered, Tallied, Found, Gathered, Unpacking
    PROVE  Found' /\ Gathered'
<1>0. now' = now /\ now \in Times /\ now <= now
  <2>1. now' = now
    BY Zenon DEF Unpacking, WriteFile, UnpackFails, UnpackDone, Finish
  <2> QED
    BY <2>1 DEF Typed, Shape, Times
<1>1. CASE WriteFile
  <2>1. /\ pc = "write" /\ UNCHANGED <<job, pc, m, off, blocks, next, inline>>
        /\ task'.kind = task.kind /\ task'.capsule = task.capsule
    <3>1. /\ pc = "write" /\ UNCHANGED <<job, pc, m, off, blocks, next, inline>>
          /\ task' = [task EXCEPT !.entry = @ + 1, !.files = Append(@, Parts(NextFile.path))]
      BY <1>1, Zenon DEF WriteFile
    <3>2. task \in TaskStates
      BY DEF Typed, TypeOK, TaskStates
    <3> QED
      BY <3>1, <3>2 DEF TaskStates
  <2>2. (InlineStage' <=> InlineStage) /\ (BlocksDone' <=> BlocksDone)
    BY <2>1 DEF InlineStage, BlocksDone, AtReference
  <2> QED
    BY <1>0, <2>1, <2>2, FoundQuiet, GatheredQuiet
<1>2. ASSUME pc = "write", NEW status, NEW reason, NEW files, NEW changed,
             Finish(InlineResult(task.capsule, status, reason, files), changed)
      PROVE  Found' /\ Gathered'
  <2>1. CASE task.kind = "inline"
    <3>1. PICK added : added = InlineResult(task.capsule, status, reason, files)
      OBVIOUS
    <3>2. /\ inline' = Append(inline, added) /\ next' = next + 1 /\ pc' = "inline"
          /\ UNCHANGED <<now, job, m, blocks>>
      BY <1>2, <2>1, <3>1 DEF Finish
    <3>3. next \in DOMAIN blocks
      BY <1>2, <2>1 DEF Tallied, Typed, TypeOK
    <3>4. InlineStage /\ added.capsule = blocks[next] /\ Checked(blocks[next], Opts, now)
      BY <1>2, <2>1, <3>1 DEF InlineStage, Found, InlineResult
    <3> QED
      BY <3>2, <3>3, <3>4, FoundResult
  <2>2. CASE task.kind = "reference"
    <3>1. pc' = "detect" /\ UNCHANGED <<job, m, blocks, next, inline>>
      BY <1>2, <2>2 DEF Finish
    <3>2. BlocksDone /\ ~InlineStage'
      BY <1>2, <2>2, <3>1 DEF BlocksDone, InlineStage, AtReference
    <3> QED
      BY <1>0, <3>1, <3>2, FoundQuiet, GatheredQuiet
  <2> QED
    BY <1>2, <2>1, <2>2 DEF Typed, Shape
<1> QED
  BY <1>1, <1>2, UnpackingSteps

LEMMA FoundNextMessage ==
    ASSUME Typed, Found, Gathered, NextMessage
    PROVE  Found' /\ Gathered'
<1>1. /\ pc = "detect" /\ pc' = "extract" /\ m' = m + 1 /\ off' = 1 /\ blocks' = <<>>
      /\ UNCHANGED <<now, job, inline, Opts>> /\ m < Len(job.msgs)
  BY DEF NextMessage, Opts
<1>2. BlocksDone /\ ~BlocksDone' /\ ~InlineStage'
  BY <1>1 DEF BlocksDone, InlineStage, AtReference
<1>3. job.msgs \in Seq(Seq(Tokens)) /\ m \in Nat /\ m + 1 \in DOMAIN job.msgs /\ DOMAIN job.msgs \subseteq Nat
  BY <1>1, MessageIndex, ReceiverAssumption DEF Typed, Shape, Job
<1>4. Msg' \in Seq(Tokens) /\ Msg' = job.msgs[m + 1]
  BY <1>1, <1>3 DEF Msg
<1>5. SearchedIn(Msg', 1) /\ \A x, y : Encloses(Msg', x, y) => ~(y < 1)
  BY <1>4, ScanFresh
<1>6. ASSUME NEW k \in DOMAIN job.msgs, k < m + 1, NEW c, BlockOf(job.msgs[k], c) PROVE Listed(inline, c)
  <2>1. CASE k = m
    BY <1>2, <1>6, <2>1 DEF Gathered, Msg
  <2>2. CASE k < m
    BY <1>6, <2>2 DEF Gathered
  <2> QED
    BY <1>3, <1>6, <2>1, <2>2
<1>7. Found'
  BY <1>1, <1>2 DEF Found
<1> QED
  BY <1>1, <1>2, <1>5, <1>6, <1>7 DEF Gathered

LEMMA FoundRefLoop ==
    ASSUME Typed, Found, Gathered, RefLoop
    PROVE  Found' /\ Gathered'
<1>1. now \in Times /\ now <= now
  BY DEF Typed, Shape, Times
<1>2. ASSUME UNCHANGED <<now, job, m, blocks, inline>>, BlocksDone, ~InlineStage', ~(pc' \in {"scan", "extract"})
      PROVE  Found' /\ Gathered'
  <2>1. now' \in Times /\ now <= now'
    BY <1>1, <1>2
  <2> QED
    BY <1>2, <2>1, FoundQuiet, GatheredQuiet
<1>3. ASSUME pc = "detect", NEW status, NEW reason, NEW place \in {"detect", "fetch"}, Detect(status, reason, place)
      PROVE  Found' /\ Gathered'
  <2>1. UNCHANGED <<now, job, m, blocks, inline>> /\ pc' = place
    BY <1>3 DEF Detect
  <2> QED
    BY <1>2, <1>3, <2>1 DEF BlocksDone, InlineStage
<1>4. ASSUME pc \in {"fetch", "match", "unpack"}, NEW changed, NEW place \in {"detect", "match", "unpack"},
             OnReference(changed, place)
      PROVE  Found' /\ Gathered'
  <2>1. UNCHANGED <<now, job, m, blocks, inline>> /\ pc' = place
    BY <1>4 DEF OnReference
  <2> QED
    BY <1>2, <1>4, <2>1 DEF BlocksDone, InlineStage, AtReference
<1>5. CASE VerifyFetched
  <2>1. UNCHANGED <<now, job, m, blocks, inline>> /\ pc = "unpack" /\ pc' = "write" /\ task'.kind = "reference"
    BY <1>5 DEF VerifyFetched, TaskFor
  <2> QED
    BY <1>2, <2>1 DEF BlocksDone, InlineStage, AtReference
<1> QED
  BY <1>3, <1>4, <1>5, RefLoopSteps, FoundNextMessage

LEMMA FoundStep == Typed /\ Settled /\ Numbered /\ Tallied /\ Found /\ Gathered /\ [Next]_vars => Found' /\ Gathered'
<1> SUFFICES ASSUME Typed, Settled, Numbered, Tallied, Found, Gathered, [Next]_vars PROVE Found' /\ Gathered'
  OBVIOUS
<1>1. now \in Times /\ now \in Nat
  BY DEF Typed, Shape, Times
<1>2. ASSUME UNCHANGED <<job, m, off, blocks, next, task, inline>>, now' \in Times, now <= now',
             pc' = pc \/ (pc = "scan" /\ pc' = "extract") \/ (pc = "detect" /\ pc' = "done") \/ pc' = "down"
      PROVE  Found' /\ Gathered'
  <2>1. (InlineStage' => InlineStage) /\ (InlineStage' /\ pc' = "write" => pc = "write") /\ (BlocksDone' => BlocksDone)
        /\ (pc' \in {"scan", "extract"} => pc \in {"scan", "extract"})
    BY <1>2 DEF InlineStage, BlocksDone, AtReference
  <2>2. task'.capsule = task.capsule
    BY <1>2
  <2> QED
    BY <1>2, <2>1, <2>2, FoundQuiet, GatheredQuiet
<1>3. CASE Scanning
  <2>1. /\ UNCHANGED <<now, job, m, off, blocks, next, task, inline>>
        /\ pc' = pc \/ (pc = "scan" /\ pc' = "extract")
    BY <1>3, Zenon DEF Scanning, ScanBlock, ScanMalformed, ScanEnd, unscanned
  <2>2. now' \in Times /\ now <= now'
    BY <1>1, <2>1
  <2> QED
    BY <1>2, <2>1, <2>2
<1>4. CASE Rest \/ TornWrite \/ Crash \/ Done \/ UNCHANGED vars
  <2>1. /\ UNCHANGED <<now, job, m, off, blocks, next, task, inline>>
        /\ pc' = pc \/ (pc = "detect" /\ pc' = "done") \/ pc' = "down"
    BY <1>4 DEF Rest, TornWrite, Crash, Done, vars
  <2>2. now' \in Times /\ now <= now'
    BY <1>1, <2>1
  <2> QED
    BY <1>2, <2>1, <2>2
<1>5. CASE Tick
  <2>1. UNCHANGED <<job, m, off, blocks, next, task, inline, pc>> /\ now' \in Times /\ now <= now'
    BY <1>1, <1>5, TrustAssumption DEF Tick, Times
  <2> QED
    BY <1>2, <2>1
<1>6. CASE Extracting
  BY <1>6, FoundBlock, FoundMalformed, FoundAll DEF Extracting
<1>7. CASE Restart
  <2>1. /\ job' \in Jobs /\ m' = 1 /\ off' = 1 /\ blocks' = <<>> /\ inline' = <<>> /\ (pc' = "scan" \/ pc' = "extract")
    BY <1>7 DEF Restart, StartOf
  <2>2. job'.msgs \in Seq(Seq(Tokens)) /\ job'.msgs # <<>> /\ DOMAIN job'.msgs \subseteq Nat \ {0}
    BY <2>1, ReceiverAssumption DEF Job
  <2>3. Msg' \in Seq(Tokens)
    <3>1. 1 \in DOMAIN job'.msgs
      BY <2>2, EmptySeq
    <3> QED
      BY <2>1, <2>2, <3>1 DEF Msg
  <2>4. SearchedIn(Msg', 1) /\ \A x, y : Encloses(Msg', x, y) => ~(y < 1)
    BY <2>3, ScanFresh
  <2>5. ~InlineStage' /\ ~BlocksDone' /\ \A k \in DOMAIN job'.msgs : ~(k < 1)
    BY <2>1, <2>2 DEF InlineStage, BlocksDone, AtReference
  <2>6. DOMAIN blocks' = {} /\ DOMAIN inline' = {}
    BY <2>1
  <2>7. Found'
    BY <2>5, <2>6 DEF Found
  <2> QED
    BY <2>1, <2>4, <2>5, <2>7 DEF Gathered
<1> QED
  BY <1>3, <1>4, <1>5, <1>6, <1>7, FoundInlineLoop, FoundUnpacking, FoundRefLoop DEF Next, Step

LEMMA FoundInit == Init => Found /\ Gathered
<1> SUFFICES ASSUME Init PROVE Found /\ Gathered
  OBVIOUS
<1>1. /\ job \in Jobs /\ m = 1 /\ off = 1 /\ blocks = <<>> /\ inline = <<>> /\ (pc = "scan" \/ pc = "extract")
  BY DEF Init, StartOf
<1>2. job.msgs \in Seq(Seq(Tokens)) /\ job.msgs # <<>> /\ DOMAIN job.msgs \subseteq Nat \ {0}
  BY <1>1, ReceiverAssumption DEF Job
<1>3. Msg \in Seq(Tokens)
  <2>1. 1 \in DOMAIN job.msgs
    BY <1>2, EmptySeq
  <2> QED
    BY <1>1, <1>2, <2>1 DEF Msg
<1>4. SearchedIn(Msg, 1) /\ \A x, y : Encloses(Msg, x, y) => ~(y < 1)
  BY <1>3, ScanFresh
<1>5. ~InlineStage /\ ~BlocksDone /\ \A k \in DOMAIN job.msgs : ~(k < 1)
  BY <1>1, <1>2 DEF InlineStage, BlocksDone, AtReference
<1>6. DOMAIN blocks = {} /\ DOMAIN inline = {}
  BY <1>1
<1>7. Found
  BY <1>5, <1>6 DEF Found
<1> QED
  BY <1>1, <1>4, <1>5, <1>7 DEF Gathered

\* Everything the conclusions rest on.
LEMMA ReadingsAlways == Spec => [](Typed /\ Settled /\ Tallied /\ ScanSound /\ Found /\ Gathered)
<1>1. Init => Tallied /\ ScanSound /\ Found /\ Gathered
  BY TalliedInit, ScanInit, FoundInit
<1>2. Typed /\ Settled /\ Numbered /\ Tallied /\ ScanSound /\ Found /\ Gathered /\ [Next]_vars
        => Tallied' /\ ScanSound' /\ Found' /\ Gathered'
  BY TalliedStep, ScanStep, FoundStep
<1> QED
  BY <1>1, <1>2, PlacesAlways, PTL DEF Spec

\* A closed block is one that a search finds: it opens at the first marker no end
\* marker comes after before it closes.
LEMMA OpensAt ==
    ASSUME NEW text \in Seq(Tokens), NEW y \in DOMAIN text, text[y].kind = "end",
           NEW b \in DOMAIN text, b < y, text[b].kind = "begin",
           \A r \in DOMAIN text : b < r /\ r < y => text[r].kind # "end"
    PROVE  \E x : Encloses(text, x, y)
<1>1. DOMAIN text = 1..Len(text) /\ Len(text) \in Nat /\ y \in Nat /\ b \in Nat
  OBVIOUS
<1> DEFINE S == { i \in DOMAIN text : i < y /\ text[i].kind = "begin" /\
                      \A r \in DOMAIN text : i < r /\ r < y => text[r].kind # "end" }
<1>2. S \in SUBSET Nat /\ b \in S
  BY <1>1
<1>3. PICK x \in S : \A j \in S : x <= j
  <2> HIDE DEF S
  <2> QED
    BY <1>2, FirstIsLeast
<1>4. x \in DOMAIN text /\ x < y /\ text[x].kind = "begin" /\ \A r \in DOMAIN text : x < r /\ r < y => text[r].kind # "end"
  BY <1>3
<1>5. ASSUME NEW i \in DOMAIN text, i < x, text[i].kind = "begin"
      PROVE  \E r \in DOMAIN text : i < r /\ r < x /\ text[r].kind = "end"
  <2>1. i \notin S
    <3>1. i \in S => x <= i
      BY <1>3
    <3> QED
      BY <1>1, <1>4, <1>5, <3>1
  <2>2. i < y
    BY <1>1, <1>4, <1>5
  <2>3. PICK r \in DOMAIN text : i < r /\ r < y /\ text[r].kind = "end"
    BY <1>5, <2>1, <2>2
  <2>4. ~(x < r) /\ r # x
    BY <1>4, <2>3
  <2> QED
    BY <1>1, <1>4, <2>3, <2>4
<1> QED
  BY <1>4, <1>5 DEF Encloses

\* No marker is left open when none is counted as malformed.
LEMMA NoneUnclosed ==
    ASSUME Typed, Tallied, pc = "done", malformed = 0
    PROVE  job.msgs \in Seq(Seq(Tokens)) /\ AllClosed(job.msgs)
<1>1. Unclosed = {}
  BY FS_EmptySet DEF Tallied, Counts
<1>2. job.msgs \in Seq(Seq(Tokens)) /\ job \in Jobs
  BY ReceiverAssumption DEF Typed, Shape, Job
<1>3. /\ DOMAIN job.msgs = 1..Len(job.msgs)
      /\ \A k \in DOMAIN job.msgs : DOMAIN job.msgs[k] = 1..Len(job.msgs[k])
  BY <1>2
<1>4. ASSUME NEW k \in DOMAIN job.msgs, NEW i \in DOMAIN job.msgs[k], job.msgs[k][i].kind = "begin"
      PROVE  \E r \in DOMAIN job.msgs[k] : i < r /\ job.msgs[k][r].kind = "end"
  <2>1. <<k, i>> \notin Unclosed
    BY <1>1
  <2> QED
    BY <1>2, <1>4, <2>1, UnclosedIn
<1> QED
  BY <1>2, <1>3, <1>4 DEF AllClosed

-----------------------------------------------------------------------------
\* Signers the registry doubts.

LEMMA JobMessages ==
    ASSUME Typed
    PROVE  /\ job.msgs \in Seq(Seq(Tokens)) /\ job.msgs # <<>> /\ Text \in Seq(Tokens)
           /\ \A k \in DOMAIN job.msgs : \A i \in DOMAIN job.msgs[k] : WellFormedToken(job.msgs[k][i])
           /\ DOMAIN job.msgs = 1..Len(job.msgs) /\ DOMAIN Text = 1..Len(Text) /\ Len(Text) \in Nat
           /\ \A k \in DOMAIN job.msgs : DOMAIN job.msgs[k] = 1..Len(job.msgs[k])
<1>1. /\ job.msgs \in Seq(Seq(Tokens)) /\ job.msgs # <<>>
      /\ \A k \in DOMAIN job.msgs : \A i \in DOMAIN job.msgs[k] : WellFormedToken(job.msgs[k][i])
  BY ReceiverAssumption DEF Typed, Shape, Job
<1>2. Text \in Seq(Tokens)
  BY TextTyped DEF Typed, Shape
<1> QED
  BY <1>1, <1>2

\* The body of a signed block is a token that looks dense.
LEMMA SignedIsDense ==
    ASSUME NEW msg \in Seq(Tokens), \A i \in DOMAIN msg : WellFormedToken(msg[i]),
           NEW x, NEW y, Encloses(msg, x, y), NEW c, c = BlockCapsule(msg, x, y),
           c.sig = "ed25519", c.signedBy # None
    PROVE  \E i \in DOMAIN msg : Dense(msg[i])
<1>1. DOMAIN msg = 1..Len(msg) /\ Len(msg) \in Nat
  OBVIOUS
<1>2. x \in 1..Len(msg) /\ y \in 1..Len(msg)
  BY <1>1 DEF Encloses
<1>3. Garbled.sig # "ed25519"
  BY DEF Garbled
<1> DEFINE inner == (x + 1)..(y - 1)
           body == msg[x + 1].capsule
<1>4. x + 1 \in inner /\ body # None /\ ~\E i \in inner : msg[i].kind = "begin"
  BY <1>3, Zenon DEF BlockCapsule
<1>5. x + 1 \in DOMAIN msg
  BY <1>1, <1>2, <1>4
<1>6. msg[x + 1] \in Tokens
  BY <1>5
<1>7. msg[x + 1].kind = "body" /\ body \in Capsules
  BY <1>4, <1>5, <1>6 DEF WellFormedToken, Tokens
<1>8. c = body \/ c = [body EXCEPT !.decodes = FALSE, !.signedBy = IF @ = None THEN None ELSE Bad]
  BY <1>4, Zenon DEF BlockCapsule
<1>9. body.sig = "ed25519" /\ body.signedBy # None
  <2> HIDE DEF body
  <2>1. CASE c = body
    BY <2>1
  <2>2. CASE c = [body EXCEPT !.decodes = FALSE, !.signedBy = IF @ = None THEN None ELSE Bad]
    BY <1>7, <2>2 DEF Capsules
  <2> QED
    BY <1>8, <2>1, <2>2
<1> QED
  BY <1>5, <1>7, <1>9 DEF Dense

LEMMA CheckedSigner ==
    ASSUME NEW c \in Capsules, NEW o, NEW by, Checked(c, o, by)
    PROVE  /\ c.sig = "ed25519" => c.signedBy # None
           /\ c.enc # None => o.encKey = c.enc /\ o.encKey # Bad
<1>1. PICK t \in 0..by : VerifyErrors(c, o, t) = <<>>
  BY DEF Checked
<1>2. SignatureErrors(c, o, t) = <<>> /\ PayloadErrors(c, o.encKey) = <<>> /\ o.encKey # Bad
  BY <1>1, VerifyParts
<1>3. ASSUME c.sig = "ed25519" PROVE c.signedBy # None
  <2>1. Ed25519Errors(c, VerifyKey(c, o, t)) = <<>>
    BY <1>2, <1>3 DEF SignatureErrors
  <2>2. c.signedBy \in Keys
    BY <2>1, Ed25519Sound
  <2> QED
    BY <2>2, TrustAssumption
<1>4. c.enc # None => o.encKey = c.enc
  BY <1>2, PayloadSound
<1> QED
  BY <1>2, <1>3, <1>4

\* A revoked key is revoked at any time.
LEMMA RevokedAnyTime ==
    ASSUME NEW c, NEW o, NEW s, NEW t, SignatureTrust(c, o, s).status = "revoked"
    PROVE  SignatureTrust(c, o, t).status = "revoked"
<1>1. \A key : KeyStatus(key, s) = "revoked" => KeyStatus(key, t) = "revoked"
  BY DEF KeyStatus
<1>2. \A keys, id, fp : Resolve(keys, id, fp, s).status = "revoked" => Resolve(keys, id, fp, t).status = "revoked"
  BY <1>1 DEF Resolve
<1> QED
  BY <1>2 DEF SignatureTrust

\* If no marker is left open, the blocks of the joined text are those of the messages.
LEMMA SameBlocks ==
    ASSUME NEW seqs \in Seq(Seq(Tokens)), seqs # <<>>, AllClosed(seqs), NEW c
    PROVE  BlockOf(FlattenSeq(seqs), c) <=> \E k \in DOMAIN seqs : BlockOf(seqs[k], c)
<1>1. PICK text \in Seq(Tokens) : text = FlattenSeq(seqs)
  BY FlattenTyped
<1>2. PICK at : Laid(seqs, Len(seqs), text, at)
  BY <1>1, LaidOut
<1>3. DOMAIN seqs = 1..Len(seqs)
  OBVIOUS
<1>4. ASSUME NEW k \in 1..Len(seqs), BlockOf(seqs[k], c) PROVE BlockOf(text, c)
  <2>1. PICK x, y : Encloses(seqs[k], x, y) /\ c = BlockCapsule(seqs[k], x, y)
    BY <1>4 DEF BlockOf
  <2>2. Encloses(text, Pos(at, k, x), Pos(at, k, y))
    BY <1>2, <2>1, BlockInText
  <2>3. BlockCapsule(text, Pos(at, k, x), Pos(at, k, y)) = c
    BY <1>2, <2>1, SameCapsule
  <2> QED
    BY <2>2, <2>3 DEF BlockOf
<1>5. ASSUME BlockOf(text, c) PROVE \E k \in 1..Len(seqs) : BlockOf(seqs[k], c)
  <2>1. PICK b, e : Encloses(text, b, e) /\ c = BlockCapsule(text, b, e)
    BY <1>5 DEF BlockOf
  <2>2. PICK k \in 1..Len(seqs) : \E x, y \in 1..Len(seqs[k]) :
            Encloses(seqs[k], x, y) /\ b = Pos(at, k, x) /\ e = Pos(at, k, y)
    BY <1>2, <2>1, BlockOfMessage
  <2>3. PICK x, y : Encloses(seqs[k], x, y) /\ b = Pos(at, k, x) /\ e = Pos(at, k, y)
    BY <2>2
  <2>4. BlockCapsule(text, b, e) = BlockCapsule(seqs[k], x, y)
    BY <1>2, <2>3, SameCapsule
  <2> QED
    BY <2>1, <2>3, <2>4 DEF BlockOf
<1> QED
  BY <1>1, <1>3, <1>4, <1>5

\* The scanner went through the whole text.
LEMMA ScannedAll ==
    ASSUME Typed, ScanSound, pc = "done", Opts.scan
    PROVE  \A x, y : Encloses(Text, x, y) => y < scan.off
<1>1. Text \in Seq(Tokens)
  BY JobMessages
<1>2. scan.off \in Nat \ {0} /\ SearchedIn(Text, scan.off) /\ Begins(Text, scan.off) = {}
  BY DEF ScanSound
<1>3. PICK text \in Seq(Tokens) : text = Text
  BY <1>1
<1>4. PICK o \in Nat \ {0} : o = scan.off
  BY <1>2
<1>5. \A x, y : Encloses(text, x, y) => y < o
  BY <1>2, <1>3, <1>4, BlocksOver
<1> QED
  BY <1>3, <1>4, <1>5

\* Whatever the receiver found, the scanner counted as invalid or asked about its
\* signer, unless a marker was left open.
LEMMA BlockScanned ==
    ASSUME Typed, Tallied, ScanSound, pc = "done", Opts.scan, malformed = 0,
           NEW k \in DOMAIN job.msgs, NEW c, BlockOf(job.msgs[k], c)
    PROVE  Noted(c)
<1>1. job.msgs \in Seq(Seq(Tokens)) /\ job.msgs # <<>> /\ AllClosed(job.msgs)
  BY JobMessages, NoneUnclosed
<1>2. PICK seqs : seqs = job.msgs
  OBVIOUS
<1>3. BlockOf(Text, c)
  BY <1>1, <1>2, SameBlocks DEF Text
<1>4. PICK x, y : Encloses(Text, x, y) /\ c = BlockCapsule(Text, x, y)
  BY <1>3 DEF BlockOf
<1> QED
  BY <1>4, ScannedAll DEF ScanSound

\* A token of a message is one of the joined text.
LEMMA TokenInText ==
    ASSUME Typed, NEW k \in DOMAIN job.msgs, NEW i \in DOMAIN job.msgs[k]
    PROVE  \E p \in DOMAIN Text : Text[p] = job.msgs[k][i]
<1>1. PICK seqs : seqs = job.msgs
  OBVIOUS
<1>2. /\ seqs \in Seq(Seq(Tokens)) /\ seqs # <<>> /\ DOMAIN seqs = 1..Len(seqs)
      /\ DOMAIN seqs[k] = 1..Len(seqs[k]) /\ Text = FlattenSeq(seqs)
  BY <1>1, JobMessages DEF Text
<1>3. PICK text \in Seq(Tokens) : text = FlattenSeq(seqs)
  BY <1>2, FlattenTyped
<1>4. PICK at : Laid(seqs, Len(seqs), text, at)
  BY <1>2, <1>3, LaidOut
<1>5. k \in 1..Len(seqs) /\ i \in 1..Len(seqs[k])
  BY <1>1, <1>2
<1>6. Pos(at, k, i) \in 1..Len(text) /\ text[Pos(at, k, i)] = seqs[k][i]
  BY <1>2, <1>4, <1>5, InOrder
<1> QED
  BY <1>1, <1>2, <1>3, <1>6

\* When the scan is on, an accepted capsule whose signer the registry does not vouch
\* for keeps the report from allowing the handoff, and blocks it if the key is
\* revoked, for any messages and registry (receiver.py _ingest_disposition, scanner.py
\* _risk_level): the scanner, which reads the joined text at other times, saw the
\* signature and asked the registry about the same capsule.
THEOREM DoubtIsReported == Spec => []DoubtfulSignerIsFlagged
<1>1. ASSUME Typed, Settled, Tallied, ScanSound, Found, Gathered PROVE DoubtfulSignerIsFlagged
  <2> SUFFICES ASSUME pc = "done", Opts.scan, NEW i \in DOMAIN inline, Accepted(inline[i]),
                      Doubted(inline[i].capsule)
               PROVE  /\ Disposition # "allow"
                      /\ SignatureTrust(inline[i].capsule, Opts, now).status = "revoked" => Disposition = "block"
    BY DEF DoubtfulSignerIsFlagged
  <2>1. PICK c : c = inline[i].capsule
    OBVIOUS
  <2>2. c \in Capsules /\ c.sig = "ed25519"
    <3>1. inline \in Seq(InlineResults)
      BY <1>1 DEF Typed, TypeOK
    <3>2. inline[i] \in InlineResults
      BY <3>1
    <3>3. inline[i].capsule \in Capsules
      BY <3>2 DEF InlineResults
    <3> QED
      BY <2>1, <3>3 DEF Doubted
  <2>3. PICK k \in DOMAIN job.msgs : BlockOf(job.msgs[k], c)
    BY <1>1, <2>1 DEF Found
  <2>4. c.signedBy # None
    <3>1. Checked(c, Opts, now)
      BY <1>1, <2>1 DEF Found
    <3> QED
      BY <2>2, <3>1, CheckedSigner
  <2>5. \E p \in DOMAIN Text : Dense(Text[p])
    <3>1. PICK x, y : Encloses(job.msgs[k], x, y) /\ c = BlockCapsule(job.msgs[k], x, y)
      BY <2>3 DEF BlockOf
    <3>2. job.msgs[k] \in Seq(Tokens) /\ \A j \in DOMAIN job.msgs[k] : WellFormedToken(job.msgs[k][j])
      BY <1>1, JobMessages
    <3>3. PICK msg : msg = job.msgs[k]
      OBVIOUS
    <3>4. PICK j \in DOMAIN msg : Dense(msg[j])
      BY <2>2, <2>4, <3>1, <3>2, <3>3, SignedIsDense
    <3>5. PICK p \in DOMAIN Text : Text[p] = msg[j]
      BY <1>1, <3>3, <3>4, TokenInText
    <3> QED
      BY <3>4, <3>5
  <2>6. RiskLevel \in {"high", "medium"}
    BY <2>5 DEF RiskLevel
  <2>7. Disposition # "allow"
    BY <2>6 DEF Disposition
  <2>8. ASSUME SignatureTrust(c, Opts, now).status = "revoked", ~HasFailures PROVE RiskLevel = "high"
    <3>1. malformed = 0
      BY <2>8 DEF HasFailures
    <3>2. Noted(c)
      BY <1>1, <2>3, <3>1, BlockScanned
    <3>3. scan.invalid > 0 \/ "revoked" \in scan.trust
      BY <2>8, <3>2, RevokedAnyTime DEF Noted
    <3> QED
      BY <3>3 DEF RiskLevel
  <2>9. SignatureTrust(c, Opts, now).status = "revoked" => Disposition = "block"
    BY <2>8 DEF Disposition
  <2> QED
    BY <2>1, <2>7, <2>9
<1> QED
  BY <1>1, ReadingsAlways, PTL

-----------------------------------------------------------------------------
\* The blocks of the messages and of the joined text, counted.

\* The end markers that close a block, by message and place.
Closers(seqs) == { p \in Spots : p[1] \in 1..Len(seqs) /\ \E x : Encloses(seqs[p[1]], x, p[2]) }

\* The end markers that close a block of one text.
ClosersIn(text) == { y \in DOMAIN text : \E x : Encloses(text, x, y) }

LEMMA CloserInText ==
    ASSUME NEW seqs \in Seq(Seq(Tokens)), NEW text \in Seq(Tokens), NEW at, Laid(seqs, Len(seqs), text, at),
           AllClosed(seqs), NEW p \in Closers(seqs)
    PROVE  Pos(at, p[1], p[2]) \in ClosersIn(text)
<1>1. PICK x : p[1] \in 1..Len(seqs) /\ Encloses(seqs[p[1]], x, p[2])
  BY DEF Closers
<1>2. Encloses(text, Pos(at, p[1], x), Pos(at, p[1], p[2]))
  BY <1>1, BlockInText
<1> QED
  BY <1>2 DEF ClosersIn, Encloses

\* Different closers are different places of the joined text.
LEMMA CloserApart ==
    ASSUME NEW seqs \in Seq(Seq(Tokens)), NEW text \in Seq(Tokens), NEW at, Laid(seqs, Len(seqs), text, at),
           NEW p \in Closers(seqs), NEW q \in Closers(seqs), Pos(at, p[1], p[2]) = Pos(at, q[1], q[2])
    PROVE  p = q
<1>1. PICK k \in Nat, i \in Nat : p = <<k, i>>
  BY DEF Closers, Spots
<1>2. PICK j \in Nat, r \in Nat : q = <<j, r>>
  BY DEF Closers, Spots
<1>3. k \in 1..Len(seqs) /\ i \in 1..Len(seqs[k]) /\ j \in 1..Len(seqs) /\ r \in 1..Len(seqs[j])
  <2>1. \A h \in 1..Len(seqs) : DOMAIN seqs[h] = 1..Len(seqs[h])
    OBVIOUS
  <2>2. k \in 1..Len(seqs) /\ \E x : Encloses(seqs[k], x, i)
    BY <1>1 DEF Closers
  <2>3. j \in 1..Len(seqs) /\ \E x : Encloses(seqs[j], x, r)
    BY <1>2 DEF Closers
  <2>4. i \in DOMAIN seqs[k] /\ r \in DOMAIN seqs[j]
    BY <2>2, <2>3 DEF Encloses
  <2> QED
    BY <2>1, <2>2, <2>3, <2>4
<1>4. Pos(at, k, i) = Pos(at, j, r) /\ Pos(at, k, i) \in Nat
  BY <1>1, <1>2, <1>3, InOrder
<1>5. ~(j < k) /\ ~(k < j)
  <2>1. j < k => Pos(at, j, r) < Pos(at, k, i)
    BY <1>3, InOrder
  <2>2. k < j => Pos(at, k, i) < Pos(at, j, r)
    BY <1>3, InOrder
  <2> QED
    BY <1>4, <2>1, <2>2
<1>6. j = k
  BY <1>5
<1>7. ~(r < i) /\ ~(i < r)
  <2>1. r < i => Pos(at, j, r) < Pos(at, k, i)
    BY <1>3, <1>6, InOrder
  <2>2. i < r => Pos(at, k, i) < Pos(at, j, r)
    BY <1>3, <1>6, InOrder
  <2> QED
    BY <1>4, <2>1, <2>2
<1>8. i = r
  BY <1>7
<1> QED
  BY <1>1, <1>2, <1>6, <1>8

LEMMA CloserOfMessage ==
    ASSUME NEW seqs \in Seq(Seq(Tokens)), NEW text \in Seq(Tokens), NEW at, Laid(seqs, Len(seqs), text, at),
           AllClosed(seqs), NEW y \in ClosersIn(text)
    PROVE  \E p \in Closers(seqs) : Pos(at, p[1], p[2]) = y
<1>1. PICK x : Encloses(text, x, y)
  BY DEF ClosersIn
<1>2. PICK k \in 1..Len(seqs) : \E b, e \in 1..Len(seqs[k]) :
          Encloses(seqs[k], b, e) /\ x = Pos(at, k, b) /\ y = Pos(at, k, e)
  BY <1>1, BlockOfMessage
<1>3. PICK b, e \in 1..Len(seqs[k]) : Encloses(seqs[k], b, e) /\ y = Pos(at, k, e)
  BY <1>2
<1>4. k \in Nat \ {0} /\ e \in Nat \ {0}
  BY <1>2, <1>3
<1>5. <<k, e>> \in Closers(seqs)
  BY <1>2, <1>3, <1>4 DEF Closers, Spots
<1> QED
  BY <1>3, <1>5

\* Joining the messages neither makes nor hides a block, when none is left open.
LEMMA SameNumber ==
    ASSUME NEW seqs \in Seq(Seq(Tokens)), seqs # <<>>, AllClosed(seqs), NEW n, Counts(n, Closers(seqs))
    PROVE  Counts(n, ClosersIn(FlattenSeq(seqs)))
<1>1. PICK text \in Seq(Tokens) : text = FlattenSeq(seqs)
  BY FlattenTyped
<1>2. PICK at : Laid(seqs, Len(seqs), text, at)
  BY <1>1, LaidOut
<1> DEFINE S == Closers(seqs)
           T == ClosersIn(text)
           place == [p \in S |-> Pos(at, p[1], p[2])]
<1>3. \A p \in S : place[p] \in T
  BY <1>2, CloserInText
<1>4. \A p, q \in S : place[p] = place[q] => p = q
  BY <1>2, CloserApart
<1>5. \A y \in T : \E p \in S : place[p] = y
  <2> SUFFICES ASSUME NEW y \in T PROVE \E p \in S : place[p] = y
    OBVIOUS
  <2>1. PICK p \in S : Pos(at, p[1], p[2]) = y
    BY <1>2, CloserOfMessage
  <2> QED
    BY <2>1
<1>6. place \in [S -> T]
  BY <1>3
<1> HIDE DEF S, T, place
<1>7. place \in Bijection(S, T)
  BY <1>4, <1>5, <1>6 DEF Bijection, Injection, Surjection, IsInjective
<1>8. ExistsBijection(S, T)
  BY <1>7 DEF ExistsBijection
<1>9. IsFiniteSet(S) /\ Cardinality(S) = n
  BY DEF Counts, S
<1>10. IsFiniteSet(T) /\ Cardinality(T) = n
  BY <1>8, <1>9, FS_Bijection
<1> QED
  BY <1>1, <1>10 DEF Counts, T

-----------------------------------------------------------------------------
\* The report of a run that is done covers every message.

Finished == pc = "done" => m = Len(job.msgs)

LEMMA FinishedStep ==
    ASSUME Typed, Finished, [Next]_vars
    PROVE  Finished'
<1>1. CASE Scanning
  BY <1>1, Zenon DEF Scanning, ScanBlock, ScanMalformed, ScanEnd, Finished
<1>2. CASE Extracting
  BY <1>2, Zenon DEF Extracting, ExtractBlock, ExtractMalformed, ExtractEnd, Finished
<1>3. CASE InlineLoop
  BY <1>3, Zenon DEF InlineLoop, RejectBlock, VerifyBlock, InlineEnd, Finished
<1>4. CASE Unpacking
  BY <1>4 DEF Unpacking, WriteFile, UnpackFails, UnpackDone, Finish, Finished
<1>5. CASE RefLoop
  BY <1>5 DEF RefLoop, RejectReference, SkipReference, DetectReference, Detect, FetchFails, FetchReturns,
       MatchReference, RejectFetched, VerifyFetched, NextMessage, OnReference, Finished
<1>6. CASE Done \/ Rest \/ Tick \/ TornWrite \/ Crash \/ UNCHANGED vars
  BY <1>6 DEF Done, Rest, Tick, TornWrite, Crash, vars, Finished
<1>7. CASE Restart
  BY <1>7 DEF Restart, StartOf, Finished
<1> QED
  BY <1>1, <1>2, <1>3, <1>4, <1>5, <1>6, <1>7 DEF Next, Step

\* What the receiver reports of a run that is done: every block of every message.
LEMMA AllListed ==
    ASSUME Typed, Gathered, Finished, pc = "done", NEW k \in DOMAIN job.msgs, NEW c, BlockOf(job.msgs[k], c)
    PROVE  Listed(inline, c)
<1>1. k \in Nat /\ m \in Nat /\ m = Len(job.msgs) /\ k <= m
  BY JobMessages DEF Finished
<1>2. CASE k < m
  BY <1>2 DEF Gathered
<1>3. CASE k = m
  BY <1>3 DEF Gathered, BlocksDone, Msg
<1> QED
  BY <1>1, <1>2, <1>3

\* Where every block is accepted, the scanner has the key of each that is encrypted.
LEMMA NoneShut ==
    ASSUME Typed, Tallied, Found, Gathered, Finished, pc = "done", malformed = 0,
           \A i \in DOMAIN inline : Accepted(inline[i])
    PROVE  \A x, y : Encloses(Text, x, y) => ~Shut(BlockCapsule(Text, x, y))
<1> SUFFICES ASSUME NEW x, NEW y, Encloses(Text, x, y) PROVE ~Shut(BlockCapsule(Text, x, y))
  OBVIOUS
<1>1. PICK c : c = BlockCapsule(Text, x, y)
  OBVIOUS
<1>2. BlockOf(Text, c)
  BY <1>1 DEF BlockOf
<1>3. job.msgs # <<>> /\ job.msgs \in Seq(Seq(Tokens)) /\ AllClosed(job.msgs)
  BY JobMessages, NoneUnclosed
<1>4. PICK seqs : seqs = job.msgs
  OBVIOUS
<1>5. PICK k \in DOMAIN job.msgs : BlockOf(job.msgs[k], c)
  BY <1>2, <1>3, <1>4, SameBlocks DEF Text
<1>6. PICK i \in DOMAIN inline : inline[i].capsule = c
  BY <1>5, AllListed DEF Listed
<1>7. Checked(c, Opts, now)
  BY <1>6 DEF Found
<1>8. c \in Capsules
  <2>1. inline \in Seq(InlineResults)
    BY DEF Typed, TypeOK
  <2>2. inline[i] \in InlineResults
    BY <1>6, <2>1
  <2> QED
    BY <1>6, <2>2 DEF InlineResults
<1>9. c.enc # None => Opts.encKey = c.enc /\ Opts.encKey # Bad
  BY <1>7, <1>8, CheckedSigner
<1> QED
  BY <1>1, <1>9 DEF Shut, ScanKey

\* The blocks counted for the report are the closers of the messages.
LEMMA ClosersHere ==
    ASSUME Typed
    PROVE  Closing = Closers(job.msgs)
<1>1. /\ job.msgs \in Seq(Seq(Tokens)) /\ DOMAIN job.msgs = 1..Len(job.msgs)
      /\ \A k \in DOMAIN job.msgs : job.msgs[k] \in Seq(Tokens)
      /\ job \in Jobs
  BY JobMessages DEF Typed, Shape
<1>2. Closing \subseteq Spots
  BY <1>1, SpotsTyped DEF Closing
<1>3. ASSUME NEW k \in DOMAIN job.msgs, NEW i \in Nat
      PROVE  <<k, i>> \in Closing <=> \E x : Encloses(job.msgs[k], x, i)
  <2>1. PICK msg \in Seq(Tokens) : msg = job.msgs[k]
    BY <1>1
  <2>2. ASSUME <<k, i>> \in Closing PROVE \E x : Encloses(msg, x, i)
    <3>0. /\ i \in DOMAIN job.msgs[k] /\ job.msgs[k][i].kind = "end"
          /\ \E b \in DOMAIN job.msgs[k] :
               /\ b < i /\ job.msgs[k][b].kind = "begin"
               /\ \A r \in DOMAIN job.msgs[k] : b < r /\ r < i => job.msgs[k][r].kind # "end"
      <4>1. job \in Jobs
        BY <1>1
      <4> QED
        BY <1>3, <2>2, <4>1, ClosingIn
    <3>1. /\ i \in DOMAIN msg /\ msg[i].kind = "end"
          /\ \E b \in DOMAIN msg : b < i /\ msg[b].kind = "begin"
                /\ \A r \in DOMAIN msg : b < r /\ r < i => msg[r].kind # "end"
      BY <2>1, <3>0
    <3>2. PICK b \in DOMAIN msg : b < i /\ msg[b].kind = "begin"
                /\ \A r \in DOMAIN msg : b < r /\ r < i => msg[r].kind # "end"
      BY <3>1
    <3> QED
      BY <3>1, <3>2, OpensAt
  <2>3. ASSUME NEW x, Encloses(msg, x, i) PROVE <<k, i>> \in Closing
    <3>1. /\ i \in DOMAIN msg /\ msg[i].kind = "end"
          /\ \E b \in DOMAIN msg : b < i /\ msg[b].kind = "begin"
                /\ \A r \in DOMAIN msg : b < r /\ r < i => msg[r].kind # "end"
      BY <2>3 DEF Encloses
    <3>2. /\ i \in DOMAIN job.msgs[k] /\ job.msgs[k][i].kind = "end"
          /\ \E b \in DOMAIN job.msgs[k] :
               /\ b < i /\ job.msgs[k][b].kind = "begin"
               /\ \A r \in DOMAIN job.msgs[k] : b < r /\ r < i => job.msgs[k][r].kind # "end"
      BY <2>1, <3>1
    <3>3. job \in Jobs
      BY <1>1
    <3> QED
      BY <1>3, <3>2, <3>3, ClosingIn
  <2> QED
    BY <2>1, <2>2, <2>3
<1>4. \A p \in Spots : p \in Closing => p[1] \in DOMAIN job.msgs
  BY <1>1, SpotsTyped DEF Closing
<1>5. ASSUME NEW p \in Spots PROVE p \in Closing <=> p \in Closers(job.msgs)
  <2>1. PICK k \in Nat, i \in Nat : p = <<k, i>>
    BY <1>5 DEF Spots
  <2>2. p[1] = k /\ p[2] = i
    BY <2>1
  <2>3. k \in DOMAIN job.msgs => (<<k, i>> \in Closing <=> \E x : Encloses(job.msgs[k], x, i))
    BY <1>3
  <2>4. p \in Closers(job.msgs) <=> k \in DOMAIN job.msgs /\ \E x : Encloses(job.msgs[k], x, i)
    BY <1>1, <1>5, <2>2 DEF Closers
  <2>5. p \in Closing => k \in DOMAIN job.msgs
    BY <1>4, <1>5, <2>2
  <2> QED
    BY <2>1, <2>3, <2>4, <2>5
<1>6. Closers(job.msgs) \subseteq Spots
  BY DEF Closers
<1> QED
  BY <1>2, <1>5, <1>6

\* When the scan is on and the report does not block the handoff, the scanner found
\* as many valid capsules as the receiver accepted and no invalid one, for any
\* messages and options (receiver.py, scanner.py): joining the messages, the other
\* order of the checks and the later clock make no difference to the count.
THEOREM CleanReportsAgree == Spec => []CleanReportAgrees
<1>1. ASSUME Typed, Settled, Tallied, ScanSound, Found, Gathered, Finished PROVE CleanReportAgrees
  <2> SUFFICES ASSUME pc = "done", Opts.scan, Disposition # "block"
               PROVE  scan.invalid = 0 /\ scan.valid = Cardinality(Having(inline, {"unpacked"}))
    BY DEF CleanReportAgrees
  <2>1. ~HasFailures /\ RiskLevel # "high"
    BY DEF Disposition
  <2>2. malformed = 0 /\ \A i \in DOMAIN inline : inline[i].status # "invalid"
    BY <2>1 DEF HasFailures
  <2>3. scan.invalid = 0
    <3>1. ~(scan.invalid > 0)
      BY <2>1 DEF RiskLevel
    <3>2. scan.invalid \in Nat
      BY <1>1 DEF Typed, TypeOK
    <3> QED
      BY <3>1, <3>2
  <2>4. \A i \in DOMAIN inline : Accepted(inline[i])
    BY <1>1, <2>2 DEF Settled, SettledBlock, Accepted
  <2>5. Having(inline, {"unpacked"}) = DOMAIN inline
    BY <2>4 DEF Having, Accepted
  <2>6. Cardinality(Having(inline, {"unpacked"})) = Len(inline)
    <3>1. inline \in Seq(InlineResults)
      BY <1>1 DEF Typed, TypeOK
    <3>2. DOMAIN inline = 1..Len(inline) /\ Len(inline) \in Nat
      BY <3>1
    <3>3. PICK n \in Nat : n = Len(inline)
      BY <3>2
    <3>4. Cardinality(1..n) = (IF 1 > n THEN 0 ELSE n - 1 + 1)
      BY FS_Interval
    <3>5. Cardinality(1..n) = n
      BY <3>4
    <3> QED
      BY <2>5, <3>2, <3>3, <3>5
  <2>7. Counts(scan.valid, ClosersIn(Text))
    <3>1. \A x, y : Encloses(Text, x, y) => ~Shut(BlockCapsule(Text, x, y))
      BY <1>1, <2>2, <2>4, NoneShut
    <3>2. Counts(scan.valid, Seen(scan.off))
      BY <1>1, <2>3, <3>1 DEF ScanSound
    <3>3. Seen(scan.off) = ClosersIn(Text)
      BY <1>1, ScannedAll DEF Seen, ClosersIn
    <3> QED
      BY <3>2, <3>3
  <2>8. Counts(Len(inline), ClosersIn(Text))
    <3>1. Counts(Len(inline), Closers(job.msgs))
      BY <1>1, ClosersHere DEF Tallied
    <3>2. job.msgs # <<>> /\ job.msgs \in Seq(Seq(Tokens)) /\ AllClosed(job.msgs)
      BY <1>1, <2>2, JobMessages, NoneUnclosed
    <3>3. PICK seqs : seqs = job.msgs
      OBVIOUS
    <3>4. PICK n : n = Len(inline)
      OBVIOUS
    <3>5. Counts(n, ClosersIn(FlattenSeq(seqs)))
      BY <3>1, <3>2, <3>3, <3>4, SameNumber
    <3> QED
      BY <3>3, <3>4, <3>5 DEF Text
  <2>9. scan.valid = Len(inline)
    BY <2>7, <2>8 DEF Counts
  <2> QED
    BY <2>3, <2>6, <2>9
<1>2. Init => Finished
  BY DEF Init, StartOf, Finished
<1>3. Typed /\ Finished /\ [Next]_vars => Finished'
  BY FinishedStep
<1> QED
  BY <1>1, <1>2, <1>3, ReadingsAlways, PTL DEF Spec
=============================================================================
