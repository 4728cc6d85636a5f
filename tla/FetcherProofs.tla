--------------------------- MODULE FetcherProofs ---------------------------
(***************************************************************************)
(* What a fetch returns and what it leaves on disk, for any bodies, limits *)
(* and number of faults.                                                   *)
(***************************************************************************)
EXTENDS Fetcher, SequenceTheorems, TLAPS

-----------------------------------------------------------------------------
\* A download is only saved once it has the digest.
ReturnInv ==
    /\ pc = "save" => Wanted(pending)
    /\ pc = "returned" => Wanted(result) /\ (mode # "stream" => file = result)
    /\ pc \in {"open", "yield"} => mode = "stream"

LEMMA ReturnAlways == Spec => []ReturnInv
<1>1. Init => ReturnInv
  BY DEF Init, ReturnInv
<1>2. ReturnInv /\ [Next]_vars => ReturnInv'
  <2> SUFFICES ASSUME ReturnInv, [Next]_vars PROVE ReturnInv'
    OBVIOUS
  <2> USE DEF ReturnInv, Wanted, Goto, server
  <2>1. CASE Call
    BY <2>1 DEF Call
  <2>2. CASE GetReplies
    BY <2>2 DEF GetReplies
  <2>3. CASE Save
    BY <2>3 DEF Save
  <2>4. CASE Resuming
    BY <2>4 DEF Resuming, HeadReplies, StreamReplies, AppendChunk, AppendEnd, FullReplies,
                Store, Replace, Check
  <2>5. CASE GetFails \/ OpenFails \/ HeadErrs \/ StreamErrs \/ FullErrs
    BY <2>5 DEF GetFails, OpenFails, HeadErrs, StreamErrs, FullErrs, Store
  <2>6. CASE Drop \/ Kill
    BY <2>6 DEF Drop, Kill
  <2>7. CASE NewHandoff
    BY <2>7 DEF NewHandoff
  <2>8. CASE Rest \/ UNCHANGED vars
    BY <2>8 DEF Rest, vars
  <2>9. CASE Streaming
    BY <2>9 DEF Streaming, OpenReplies, YieldChunk, YieldEnd
  <2> QED
    BY <2>1, <2>2, <2>3, <2>4, <2>5, <2>6, <2>7, <2>8, <2>9 DEF Next, Progress, Failing
<1> QED
  BY <1>1, <1>2, PTL DEF Spec

\* fetch_capsule, resuming or not, and stream_fetch_capsule return the bytes with
\* the digest they were given, or raise, whatever the file held and whichever body
\* the server publishes, the wanted one or another.
THEOREM ReturnedBytes == Spec => []ReturnedIsWanted
<1>1. ReturnInv => ReturnedIsWanted
  BY DEF ReturnInv, ReturnedIsWanted, Wanted
<1> QED
  BY <1>1, ReturnAlways, PTL

\* A call of fetch_capsule that returns leaves at save_path just what it returned.
THEOREM SavedBytes == Spec => []FileIsResult
<1>1. ReturnInv => FileIsResult
  BY DEF ReturnInv, FileIsResult
<1> QED
  BY <1>1, ReturnAlways, PTL

-----------------------------------------------------------------------------
\* The types of the file, what is on its way to it, and what it comes from.
BytesOK ==
    /\ served \in Seq(Pieces)
    /\ file \in Seq(Pieces) \cup {None}
    /\ buffer \in Seq(Pieces) /\ pending \in Seq(Pieces) /\ given \in Seq(Pieces)
    /\ handoffs \in Nat \ {0}
    /\ pc \in {"head", "stream", "append", "full", "replace", "check"} => file # None

LEMMA Pages == None \notin Seq(Pieces) /\ Bodies \subseteq Seq(Pieces) /\ ErrorPage \in Seq(Pieces)
  BY FetcherAssumption

LEMMA BytesInit == Init => BytesOK
  BY Pages DEF Init, BytesOK

LEMMA BytesStep == BytesOK /\ [Next]_vars => BytesOK'
<1> SUFFICES ASSUME BytesOK, [Next]_vars PROVE BytesOK'
  OBVIOUS
<1> USE Pages DEF BytesOK, Goto, server
<1>0. \A x, y \in Seq(Pieces) : x \o y \in Seq(Pieces)
  BY ConcatProperties
<1>1. CASE Call
  BY <1>1 DEF Call
<1>2. CASE GetReplies \/ Save
  <2>1. CASE GetReplies
    BY <2>1 DEF GetReplies
  <2>2. CASE Save
    BY <2>2 DEF Save
  <2> QED
    BY <1>2, <2>1, <2>2
<1>3. CASE HeadReplies \/ HeadErrs \/ GetFails \/ StreamErrs \/ OpenFails
  BY <1>3 DEF HeadReplies, HeadErrs, GetFails, StreamErrs, OpenFails
<1>4. CASE StreamReplies
  <2>1. SubSeq(served, Len(file) + 1, Len(served)) \in Seq(Pieces)
    BY <1>4 DEF StreamReplies
  <2> QED
    BY <1>4, <2>1 DEF StreamReplies
<1>5. CASE AppendChunk
  <2>1. Append(buffer, Head(pending)) \in Seq(Pieces) /\ Tail(pending) \in Seq(Pieces)
    BY <1>5 DEF AppendChunk
  <2>2. file \in Seq(Pieces) /\ <<>> \in Seq(Pieces)
    BY <1>5 DEF AppendChunk
  <2>3. \A held, rest \in Seq(Pieces) : file \o held \in Seq(Pieces) /\ (file \o held) \o rest \in Seq(Pieces)
    BY <1>0, <2>2
  <2>4. file' \in Seq(Pieces) /\ buffer' \in Seq(Pieces) /\ pending' \in Seq(Pieces)
    BY <1>5, <2>1, <2>2, <2>3 DEF AppendChunk
  <2> QED
    BY <1>5, <2>4 DEF AppendChunk
<1>6. CASE AppendEnd
  BY <1>0, <1>6 DEF AppendEnd
<1>7. CASE FullReplies \/ FullErrs \/ Replace \/ Check
  <2>1. CASE FullReplies \/ FullErrs
    BY <2>1 DEF FullReplies, FullErrs, Store
  <2>2. CASE Replace
    BY <2>2 DEF Replace
  <2>3. CASE Check
    BY <2>3 DEF Check
  <2> QED
    BY <1>7, <2>1, <2>2, <2>3
<1>8. CASE Drop
  BY <1>0, <1>8 DEF Drop
<1>9. CASE Kill
  <2>1. \A n \in 0..Len(pending) : SubSeq(pending, 1, n) \in Seq(Pieces)
    OBVIOUS
  <2> QED
    <3>1. file' \in Seq(Pieces) \cup {None}
      BY <1>9, <2>1 DEF Kill
    <3> QED
      BY <1>9, <3>1 DEF Kill
<1>10. CASE NewHandoff
  BY <1>10 DEF NewHandoff
<1>11. CASE Rest \/ UNCHANGED vars
  BY <1>11 DEF Rest, vars
<1>12. CASE Streaming
  <2>1. CASE OpenReplies \/ YieldEnd
    BY <2>1 DEF OpenReplies, YieldEnd
  <2>2. CASE YieldChunk
    <3>1. Append(given, Head(pending)) \in Seq(Pieces) /\ Tail(pending) \in Seq(Pieces) /\ <<>> \in Seq(Pieces)
      BY <2>2 DEF YieldChunk
    <3> QED
      BY <2>2, <3>1 DEF YieldChunk
  <2> QED
    BY <1>12, <2>1, <2>2 DEF Streaming
<1> QED
  BY <1>1, <1>2, <1>3, <1>4, <1>5, <1>6, <1>7, <1>8, <1>9, <1>10, <1>11, <1>12
  DEF Next, Progress, Failing, Resuming

-----------------------------------------------------------------------------
\* A beginning, element by element.
Starts(d, t) == Len(d) <= Len(t) /\ \A i \in 1..Len(d) : d[i] = t[i]

LEMMA StartsIsPrefix ==
    ASSUME NEW d \in Seq(Pieces), NEW t \in Seq(Pieces), Starts(d, t)
    PROVE  IsPrefix(d, t)
  BY SubSeqFull DEF Starts, IsPrefix

LEMMA StartsOneLonger ==
    ASSUME NEW d \in Seq(Pieces), NEW t \in Seq(Pieces), Starts(d, t), Len(d) < Len(t)
    PROVE  Starts(Append(d, t[Len(d) + 1]), t)
  BY DEF Starts

LEMMA StartsCut ==
    ASSUME NEW t \in Seq(Pieces), NEW n \in 0..Len(t)
    PROVE  Starts(SubSeq(t, 1, n), t)
  BY DEF Starts

\* What the file and its buffer hold is a beginning of what is served, and what is
\* still to come continues it.
PrefixInv ==
    /\ BytesOK
    /\ handoffs = 1 /\ faults["error"] = 0 /\ file # None => Starts(file \o buffer, served)
    /\ pc = "append" => pending = SubSeq(served, Len(file) + Len(buffer) + 1, Len(served))
    /\ pc # "append" => buffer = <<>>
    /\ pc = "save" \/ (pc = "replace" /\ faults["error"] = 0) => pending = served
    /\ faults \in [Kinds -> Nat]

LEMMA AppendKeepsPrefix == PrefixInv /\ AppendChunk => PrefixInv'
<1> SUFFICES ASSUME PrefixInv, AppendChunk PROVE PrefixInv'
  OBVIOUS
<1> DEFINE n    == Len(file) + Len(buffer)
           h    == Head(pending)
           held == Append(buffer, h)
<1>1. BytesOK'
  BY BytesStep DEF PrefixInv, Next, Progress, Resuming
<1>2. /\ file \in Seq(Pieces) /\ buffer \in Seq(Pieces) /\ served \in Seq(Pieces)
      /\ pending \in Seq(Pieces) /\ pending = SubSeq(served, n + 1, Len(served)) /\ pending # <<>>
      /\ file # None /\ UNCHANGED <<served, handoffs, faults>>
  BY Pages DEF PrefixInv, BytesOK, AppendChunk, server
<1>3. n < Len(served) /\ h = served[n + 1] /\ Tail(pending) = SubSeq(served, n + 2, Len(served))
  <2>1. n < Len(served)
    BY <1>2
  <2>2. n + 1 \in 1..Len(served) /\ Len(served) \in (n + 1)..Len(served)
    BY <1>2, <2>1
  <2>3. n \in Nat /\ (n + 1) + 1 = n + 2
    BY <1>2
  <2> HIDE DEF n
  <2>4. /\ Head(SubSeq(served, n + 1, Len(served))) = served[n + 1]
        /\ Tail(SubSeq(served, n + 1, Len(served))) = SubSeq(served, (n + 1) + 1, Len(served))
    BY <1>2, <2>2, HeadTailOfSubSeq
  <2> QED
    BY <1>2, <2>1, <2>3, <2>4
<1>4. held \in Seq(Pieces) /\ Len(held) = Len(buffer) + 1 /\ <<>> \in Seq(Pieces)
  BY <1>2
<1>5. /\ file' \o buffer' = file \o held
      /\ pc' = "append" => pending' = Tail(pending) /\ Len(file') + Len(buffer') = n + 1
      /\ pc' # "append" => buffer' = <<>>
      /\ pc' \in {"append", "failed"}
  <2>1. file \o held \in Seq(Pieces) /\ Len(file \o held) = n + 1
    BY <1>2, <1>4
  <2>2. (file \o held) \o <<>> = file \o held /\ Len(<<>>) = 0 /\ Len(file) + Len(held) = n + 1
    BY <1>2, <1>4, <2>1, ConcatEmptySeq
  <2>3. \/ file' = file \o held /\ buffer' = <<>> /\ pending' = Tail(pending) /\ pc' = "append"
        \/ file' = file /\ buffer' = held /\ pending' = Tail(pending) /\ pc' = "append"
        \/ file' = (file \o held) \o <<>> /\ buffer' = <<>> /\ pc' = "failed"
        \/ file' = file \o held /\ buffer' = <<>> /\ pc' = "failed"
    BY DEF AppendChunk
  <2>4. n + 1 + 0 = n + 1
    BY <1>2
  <2> HIDE DEF held, n
  <2> QED
    BY <2>1, <2>2, <2>3, <2>4
<1>6. handoffs' = 1 /\ faults'["error"] = 0 /\ file' # None => Starts(file' \o buffer', served')
  <2> SUFFICES ASSUME handoffs = 1, faults["error"] = 0 PROVE Starts(file \o held, served)
    BY <1>2, <1>5
  <2>1. Starts(file \o buffer, served) /\ file \o buffer \in Seq(Pieces) /\ Len(file \o buffer) = n
    BY <1>2 DEF PrefixInv
  <2>2. file \o held = Append(file \o buffer, h)
    BY <1>2, <1>3
  <2> HIDE DEF n
  <2> QED
    BY <1>2, <1>3, <2>1, <2>2, StartsOneLonger
<1>7. pc' = "append" => pending' = SubSeq(served', Len(file') + Len(buffer') + 1, Len(served'))
  <2> SUFFICES ASSUME pc' = "append" PROVE pending' = SubSeq(served, n + 2, Len(served))
    <3>1. pc' = "append" => Len(file') + Len(buffer') + 1 = n + 2
      BY <1>2, <1>5
    <3> QED
      BY <1>2, <3>1
  <2> QED
    BY <1>3, <1>5
<1> QED
  BY <1>1, <1>2, <1>5, <1>6, <1>7 DEF PrefixInv

\* A fault is counted; once there was an error reply the count is never 0 again.
LEMMA FaultCounts ==
    ASSUME faults \in [Kinds -> Nat], NEW kind \in Kinds, Fault(kind)
    PROVE  /\ faults' \in [Kinds -> Nat]
           /\ faults'["error"] = 0 => faults["error"] = 0 /\ kind # "error"
  BY FetcherAssumption DEF Fault, Kinds

LEMMA FaultStep ==
    ASSUME faults \in [Kinds -> Nat], [Next]_vars
    PROVE  /\ faults' \in [Kinds -> Nat]
           /\ faults'["error"] = 0 => faults["error"] = 0 /\ ~(HeadErrs \/ StreamErrs \/ FullErrs)
<1> DEFINE Errs == HeadErrs \/ StreamErrs \/ FullErrs
<1>1. CASE UNCHANGED faults /\ ~Errs
  BY <1>1
<1>2. CASE Errs
  <2>1. Fault("error") /\ "error" \in Kinds
    BY <1>2 DEF HeadErrs, StreamErrs, FullErrs, Kinds
  <2> QED
    BY <2>1, FaultCounts
<1>3. CASE ~Errs /\ \E kind \in Kinds : Fault(kind)
  <2> HIDE DEF Errs
  <2> QED
    BY <1>3, FaultCounts DEF Errs
<1>4. Progress \/ NewHandoff \/ Rest \/ UNCHANGED vars => UNCHANGED faults
  BY DEF Progress, Resuming, Streaming, Call, GetReplies, Save, HeadReplies, StreamReplies, AppendChunk,
         AppendEnd, FullReplies, Replace, Check, OpenReplies, YieldChunk, YieldEnd, NewHandoff, Rest, vars
<1>5. Failing /\ ~Errs => \E kind \in Kinds : Fault(kind)
  BY DEF Failing, GetFails, OpenFails, Drop, Kill, Kinds
<1> QED
  BY <1>1, <1>2, <1>3, <1>4, <1>5 DEF Next

\* Against a server that publishes one body and has answered no request with an
\* error, the file is at every moment a beginning of that body, whatever
\* connections drop and whenever the process is killed.
THEOREM ResumeContinues == Spec => []ResumeKeepsPrefix
<1>1. Init => PrefixInv
  BY BytesInit DEF Init, PrefixInv
<1>2. PrefixInv /\ [Next]_vars => PrefixInv'
  <2> SUFFICES ASSUME PrefixInv, [Next]_vars PROVE PrefixInv'
    OBVIOUS
  <2>0. BytesOK /\ BytesOK'
    BY BytesStep DEF PrefixInv
  <2>1. /\ faults' \in [Kinds -> Nat]
        /\ faults'["error"] = 0 => faults["error"] = 0 /\ ~(HeadErrs \/ StreamErrs \/ FullErrs)
    BY FaultStep DEF PrefixInv
  <2>2. CASE Call
    BY <2>0, <2>1, <2>2 DEF PrefixInv, Call, Goto, server
  <2>3. CASE GetReplies \/ GetFails \/ OpenFails
    BY <2>0, <2>1, <2>3 DEF PrefixInv, GetReplies, GetFails, OpenFails, Goto, server
  <2>4. CASE Save \/ Replace
    <3>1. /\ faults["error"] = 0 => file' = served
          /\ buffer' = <<>> /\ UNCHANGED <<served, faults>>
          /\ pc' \in {"returned", "check"} /\ served \in Seq(Pieces)
      BY <2>0, <2>4 DEF PrefixInv, BytesOK, Save, Replace, server
    <3>2. served \o <<>> = served /\ Starts(served, served)
      BY <3>1, ConcatEmptySeq DEF Starts
    <3> QED
      BY <2>0, <2>1, <3>1, <3>2 DEF PrefixInv
  <2>5. CASE HeadReplies \/ HeadErrs \/ StreamErrs \/ FullErrs \/ Check
    <3>1. CASE HeadReplies \/ Check
      BY <2>0, <2>1, <3>1 DEF PrefixInv, HeadReplies, Check, Goto, server
    <3>2. CASE HeadErrs \/ StreamErrs \/ FullErrs
      <4>1. pc' \in {"full", "replace", "failed"} /\ UNCHANGED buffer /\ pc # "append" /\ faults'["error"] # 0
        BY <2>1, <3>2 DEF HeadErrs, StreamErrs, FullErrs, Store, Goto
      <4> QED
        BY <2>0, <2>1, <4>1 DEF PrefixInv
    <3> QED
      BY <2>5, <3>1, <3>2
  <2>6. CASE StreamReplies
    <3>1. Len(<<>>) = 0 /\ file \in Seq(Pieces) /\ buffer = <<>>
      BY <2>0, <2>1, <2>6 DEF PrefixInv, BytesOK, StreamReplies
    <3>2. Len(file) + Len(buffer) + 1 = Len(file) + 1
      BY <3>1
    <3> QED
      BY <2>0, <2>1, <2>6, <3>2 DEF PrefixInv, StreamReplies, Goto, server
  <2>7. CASE AppendChunk
    BY <2>7, AppendKeepsPrefix
  <2>8. CASE AppendEnd \/ Drop
    <3>1. \/ pc = "append" /\ file' = file \o buffer
          \/ pc # "append" /\ file' = file
      BY <2>8 DEF AppendEnd, Drop
    <3>2. buffer' = <<>> /\ served' = served /\ handoffs' = handoffs /\ pc' \in {"check", "failed"}
      BY <2>8 DEF AppendEnd, Drop, server
    <3>3. file # None => file' \o buffer' = file \o buffer
      <4> SUFFICES ASSUME file # None PROVE file' \o <<>> = file \o buffer
        BY <3>2
      <4>1. file \in Seq(Pieces) /\ file \o buffer \in Seq(Pieces)
        BY <2>0, <2>1, ConcatProperties DEF BytesOK
      <4>2. CASE pc = "append"
        BY <3>1, <4>1, <4>2, ConcatEmptySeq
      <4>3. CASE pc # "append"
        BY <3>1, <4>3 DEF PrefixInv
      <4> QED
        BY <4>2, <4>3
    <3>4. file' # None => file # None
      BY <2>0, <2>1, <3>1 DEF BytesOK
    <3> QED
      BY <2>0, <2>1, <3>2, <3>3, <3>4 DEF PrefixInv
  <2>9. CASE FullReplies
    BY <2>0, <2>1, <2>9 DEF PrefixInv, FullReplies, Store, Goto, server
  <2>10. CASE Kill
    <3>1. buffer' = <<>> /\ served' = served /\ handoffs' = handoffs /\ pc' = "idle"
      BY <2>10 DEF Kill, server
    <3>2. SUFFICES ASSUME handoffs = 1, faults["error"] = 0, file' # None PROVE Starts(file' \o <<>>, served)
      BY <2>0, <2>1, <3>1 DEF PrefixInv
    <3>3. CASE file' = file
      <4>1. file \in Seq(Pieces) /\ buffer \in Seq(Pieces) /\ served \in Seq(Pieces)
        BY <2>0, <2>1, <3>2, <3>3 DEF BytesOK
      <4>2. Starts(file \o buffer, served)
        BY <2>1, <3>2, <3>3 DEF PrefixInv
      <4>3. file' \o <<>> = file
        BY <3>3, <4>1, ConcatEmptySeq
      <4>4. Len(file) \in Nat /\ Len(buffer) \in Nat /\ Len(file \o buffer) = Len(file) + Len(buffer)
        BY <4>1
      <4>5. \A i \in 1..Len(file) : (file \o buffer)[i] = file[i]
        BY <4>1
      <4> QED
        BY <4>2, <4>3, <4>4, <4>5, <4>1 DEF Starts
    <3>4. CASE file' # file
      <4>1. pc \in {"save", "replace"} /\ \E n \in 0..Len(pending) : file' = SubSeq(pending, 1, n)
        BY <2>10, <3>4 DEF Kill
      <4>2. PICK n \in 0..Len(served) : file' = SubSeq(served, 1, n)
        BY <2>1, <3>2, <4>1 DEF PrefixInv
      <4>3. served \in Seq(Pieces) /\ file' \in Seq(Pieces)
        BY <2>0, <2>1, <3>2 DEF BytesOK
      <4>4. file' \o <<>> = file'
        BY <4>3, ConcatEmptySeq
      <4> QED
        BY <4>2, <4>3, <4>4, StartsCut
    <3> QED
      BY <3>3, <3>4
  <2>11. CASE NewHandoff
    <3>1. handoffs' # 1
      BY <2>0, <2>1, <2>11 DEF BytesOK, NewHandoff
    <3> QED
      BY <2>0, <2>1, <2>11, <3>1 DEF PrefixInv, NewHandoff, Goto
  <2>12. CASE Rest \/ UNCHANGED vars
    BY <2>12 DEF Rest, vars, PrefixInv, BytesOK
  <2>13. CASE Streaming
    BY <2>0, <2>1, <2>13 DEF PrefixInv, Streaming, OpenReplies, YieldChunk, YieldEnd, server
  <2> QED
    BY <2>2, <2>3, <2>4, <2>5, <2>6, <2>7, <2>8, <2>9, <2>10, <2>11, <2>12, <2>13
    DEF Next, Progress, Failing, Resuming
<1>3. PrefixInv => ResumeKeepsPrefix
  <2> SUFFICES ASSUME PrefixInv, handoffs = 1, faults["error"] = 0, file # None PROVE IsPrefix(file \o buffer, served)
    BY DEF ResumeKeepsPrefix
  <2>1. file \o buffer \in Seq(Pieces) /\ served \in Seq(Pieces) /\ Starts(file \o buffer, served)
    BY ConcatProperties DEF PrefixInv, BytesOK
  <2> QED
    BY <2>1, StartsIsPrefix
<1> QED
  BY <1>1, <1>2, <1>3, PTL DEF Spec

-----------------------------------------------------------------------------
\* What BytesOK leaves out of the types.
OthersOK ==
    /\ served \in Bodies /\ ranges \in BOOLEAN /\ want \in Bodies \cup {None}
    /\ mode \in {"plain", "resumable", "stream"}
    /\ pc \in {"idle", "get", "save", "head", "stream", "append", "full", "replace",
              "check", "open", "yield", "returned", "failed"}
    /\ result \in Seq(Pieces) \cup {None}
    /\ faults \in [Kinds -> Nat] /\ handoffs \in 1..MaxHandoffs

LEMMA OthersStep == BytesOK /\ OthersOK /\ [Next]_vars => OthersOK'
<1> SUFFICES ASSUME BytesOK, OthersOK, [Next]_vars PROVE OthersOK'
  OBVIOUS
<1> USE DEF OthersOK, Goto, server
<1>1. faults' \in [Kinds -> Nat]
  BY FaultStep
<1>2. CASE Call
  BY <1>1, <1>2 DEF Call
<1>3. CASE GetReplies \/ Save \/ GetFails
  BY <1>1, <1>3 DEF GetReplies, Save, GetFails, BytesOK
<1>4. CASE HeadReplies \/ HeadErrs \/ StreamReplies \/ StreamErrs
  BY <1>1, <1>4 DEF HeadReplies, HeadErrs, StreamReplies, StreamErrs
<1>5. CASE AppendChunk \/ AppendEnd
  <2>1. UNCHANGED <<result, served, ranges, want, mode, handoffs>> /\ pc' \in {"append", "failed", "check"}
    BY <1>5 DEF AppendChunk, AppendEnd
  <2> QED
    BY <1>1, <2>1
<1>6. CASE FullReplies \/ FullErrs
  BY <1>1, <1>6 DEF FullReplies, FullErrs, Store
<1>7. CASE Replace \/ Check
  BY <1>1, <1>7 DEF Replace, Check, BytesOK
<1>8. CASE OpenReplies \/ OpenFails
  BY <1>1, <1>8 DEF OpenReplies, OpenFails
<1>9. CASE YieldChunk \/ YieldEnd
  BY <1>1, <1>9 DEF YieldChunk, YieldEnd, BytesOK
<1>10. CASE Drop \/ Kill
  BY <1>1, <1>10 DEF Drop, Kill
<1>11. CASE NewHandoff
  BY <1>1, <1>11, FetcherAssumption DEF NewHandoff
<1>12. CASE Rest \/ UNCHANGED vars
  BY <1>12 DEF Rest, vars
<1> QED
  BY <1>2, <1>3, <1>4, <1>5, <1>6, <1>7, <1>8, <1>9, <1>10, <1>11, <1>12
  DEF Next, Progress, Failing, Resuming, Streaming

LEMMA TypesAlways == Spec => [](BytesOK /\ OthersOK)
<1>1. Init => OthersOK
  BY FetcherAssumption DEF Init, OthersOK
<1> QED
  BY <1>1, BytesInit, BytesStep, OthersStep, PTL DEF Spec

\* The type invariant: a call that resumes a download always has a file to resume.
THEOREM FetchIsTyped == Spec => []TypeOK
<1>1. BytesOK /\ OthersOK => TypeOK
  BY DEF BytesOK, OthersOK, TypeOK
<1> QED
  BY <1>1, TypesAlways, PTL

\* From the start of a call to the next capsule, what was handed out begins what is
\* served; while chunks are handed out, the rest of the body is still to come.
StreamInv ==
    /\ pc # "idle" => Starts(given, served)
    /\ pc = "yield" => pending = SubSeq(served, Len(given) + 1, Len(served))
    /\ pc = "open" => given = <<>>
    /\ Fits(given)

LEMMA YieldKeepsPrefix == BytesOK /\ StreamInv /\ YieldChunk => StreamInv'
<1> SUFFICES ASSUME BytesOK, StreamInv, YieldChunk PROVE StreamInv'
  OBVIOUS
<1>1. /\ given \in Seq(Pieces) /\ served \in Seq(Pieces) /\ pending # <<>>
      /\ pending = SubSeq(served, Len(given) + 1, Len(served)) /\ Starts(given, served)
      /\ UNCHANGED served
  BY DEF BytesOK, StreamInv, YieldChunk, server
<1>2. CASE Fits(Append(given, Head(pending)))
  <2>1. given' = Append(given, Head(pending)) /\ pending' = Tail(pending) /\ pc' = "yield"
    BY <1>2 DEF YieldChunk
  <2> DEFINE n == Len(given)
  <2>2. n \in Nat /\ n < Len(served)
    BY <1>1
  <2>3. n + 1 \in 1..Len(served) /\ Len(served) \in (n + 1)..Len(served)
    BY <1>1, <2>2
  <2>4. /\ Head(SubSeq(served, n + 1, Len(served))) = served[n + 1]
        /\ Tail(SubSeq(served, n + 1, Len(served))) = SubSeq(served, (n + 1) + 1, Len(served))
    <3> HIDE DEF n
    <3> QED
      BY <1>1, <2>3, HeadTailOfSubSeq
  <2>5. Starts(given', served) /\ Len(given') = n + 1
    BY <1>1, <2>1, <2>2, <2>4, StartsOneLonger
  <2>6. pending' = SubSeq(served, Len(given') + 1, Len(served))
    BY <1>1, <2>1, <2>4, <2>5
  <2>7. Fits(given')
    BY <1>2, <2>1
  <2> QED
    BY <1>1, <2>1, <2>5, <2>6, <2>7 DEF StreamInv
<1>3. CASE ~Fits(Append(given, Head(pending)))
  <2>1. pc' = "failed" /\ UNCHANGED <<given, served>> /\ Fits(given)
    BY <1>1, <1>3 DEF YieldChunk, StreamInv
  <2> QED
    BY <1>1, <2>1 DEF StreamInv, Starts, Fits
<1> QED
  BY <1>2, <1>3

\* What stream_fetch_capsule hands out is the beginning of what is published, and
\* never more than the limit, however the stream ends.
THEOREM StreamHandsOutPrefix == Spec => []StreamIsPrefix
<1>1. Init => StreamInv
  BY FetcherAssumption DEF Init, StreamInv, Fits
<1>2. BytesOK /\ StreamInv /\ [Next]_vars => StreamInv'
  <2> SUFFICES ASSUME BytesOK, StreamInv, [Next]_vars PROVE StreamInv'
    OBVIOUS
  <2>1. Len(<<>>) = 0 /\ Fits(<<>>)
    BY FetcherAssumption DEF Fits
  <2>2. CASE OpenReplies
    <3>1. pc' = "yield" /\ pending' = served /\ UNCHANGED <<given, served>>
      BY <2>2 DEF OpenReplies, server
    <3>2. given = <<>>
      BY <2>2 DEF OpenReplies, StreamInv
    <3> QED
      BY <2>1, <3>1, <3>2 DEF StreamInv, Starts, BytesOK
  <2>3. CASE YieldChunk
    BY <2>3, YieldKeepsPrefix
  <2>4. CASE Kill \/ Call
    <3>1. given' = <<>> /\ pc' # "yield" /\ UNCHANGED served
      BY <2>4 DEF Kill, Call, server
    <3> QED
      BY <2>1, <3>1 DEF StreamInv, Starts, BytesOK
  <2>5. CASE UNCHANGED <<given, served, pending, pc>>
    BY <2>5 DEF StreamInv, Fits
  <2>6. CASE UNCHANGED <<given, served>> /\ pc # "idle" /\ pc' \notin {"open", "yield"}
    BY <2>6 DEF StreamInv, Fits
  <2>7. CASE NewHandoff
    BY <2>7 DEF NewHandoff, Goto, StreamInv, Fits
  <2>8. Rest \/ UNCHANGED vars => UNCHANGED <<given, served, pending, pc>>
    BY DEF Rest, vars
  <2>9. Resuming \/ GetReplies \/ Save \/ YieldEnd \/ GetFails \/ OpenFails \/ HeadErrs \/ StreamErrs
           \/ FullErrs \/ Drop
        => UNCHANGED <<given, served>> /\ pc # "idle" /\ pc' \notin {"open", "yield"}
    BY DEF Resuming, HeadReplies, StreamReplies, AppendChunk, AppendEnd, FullReplies, Replace, Check,
           GetReplies, Save, YieldEnd, GetFails, OpenFails, HeadErrs, StreamErrs, FullErrs, Drop,
           Store, Goto, server
  <2> QED
    BY <2>2, <2>3, <2>4, <2>5, <2>6, <2>7, <2>8, <2>9 DEF Next, Progress, Failing, Streaming
<1>3. BytesOK /\ StreamInv => StreamIsPrefix
  BY StartsIsPrefix DEF BytesOK, StreamInv, StreamIsPrefix
<1> QED
  BY <1>1, <1>2, <1>3, TypesAlways, PTL DEF Spec
=============================================================================
