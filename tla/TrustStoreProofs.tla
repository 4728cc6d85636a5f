--------------------------- MODULE TrustStoreProofs ---------------------------
(***************************************************************************)
(* What a receiver can load from the registry file, for any number of      *)
(* commands and kills and any snapshots.                                   *)
(***************************************************************************)
EXTENDS TrustStore, TLAPS

\* The snapshot passed verification at some time up to the present.
WasAdmitted(s) ==
    /\ s \in Snapshots
    /\ \E operation \in Operations, t \in 0..now : Admitted(s, operation, t)

CommandOK(w) ==
    /\ phase[w] # "idle" =>
         job[w].snapshot \in Snapshots /\ job[w].operation \in Operations
    /\ phase[w] \in {"verified", "opened", "returned"} => WasAdmitted(job[w].snapshot)
    /\ alone[w] /\ phase[w] = "opened" => file = Empty
    /\ alone[w] /\ phase[w] = "returned" => Document(job[w].snapshot) \in file.docs

StoreInv ==
    /\ now \in Nat
    /\ phase \in [Workers -> {"idle", "read", "verified", "opened", "returned"}]
    /\ job = [w \in Workers |-> job[w]] /\ alone \in [Workers -> BOOLEAN]
    /\ \A doc \in file.docs : \E s \in Snapshots : WasAdmitted(s) /\ doc = Document(s)
    /\ \A w \in Workers : CommandOK(w)

\* What a key says survives the way into the registry file and back, whether it
\* was given inline or by the path of a key file.
LEMMA RoundTrip ==
    ASSUME NEW m PROVE TrustedKeyOf(MappingOf(TrustedKeyOf(m))) = TrustedKeyOf(m)
  BY DEF TrustedKeyOf, MappingOf

LEMMA SameRegistry ==
    ASSUME NEW s PROVE RegistryOf(Document(s).keys) = RegistryOf(s.keys)
<1> DEFINE mapped == [i \in DOMAIN s.keys |-> MappingOf(RegistryOf(s.keys)[i])]
<1>1. Document(s).keys = mapped
  BY DEF Document
<1>2. DOMAIN RegistryOf(mapped) = DOMAIN s.keys /\ DOMAIN RegistryOf(s.keys) = DOMAIN s.keys
  BY DEF RegistryOf
<1>3. ASSUME NEW i \in DOMAIN s.keys PROVE RegistryOf(mapped)[i] = RegistryOf(s.keys)[i]
  BY RoundTrip DEF RegistryOf
<1>4. RegistryOf(mapped) = [i \in DOMAIN s.keys |-> RegistryOf(mapped)[i]]
  BY DEF RegistryOf
<1>5. RegistryOf(s.keys) = [i \in DOMAIN s.keys |-> RegistryOf(s.keys)[i]]
  BY DEF RegistryOf
<1> HIDE DEF mapped
<1> QED
  BY <1>1, <1>3, <1>4, <1>5

\* The keys of an admitted snapshot load again from the registry file.
LEMMA DocumentLoads ==
    ASSUME NEW s, NEW operation, NEW t, Admitted(s, operation, t)
    PROVE  \A i \in DOMAIN Document(s).keys : KeyLoads(Document(s).keys[i])
<1> SUFFICES ASSUME NEW i \in DOMAIN Document(s).keys PROVE KeyLoads(Document(s).keys[i])
  OBVIOUS
<1>1. i \in DOMAIN s.keys /\ Document(s).keys[i] = MappingOf(TrustedKeyOf(s.keys[i]))
  BY DEF Document, RegistryOf
<1>2. KeyLoads(s.keys[i])
  BY <1>1 DEF Admitted
<1> QED
  BY <1>1, <1>2 DEF KeyLoads, MappingOf, TrustedKeyOf

\* What was verified stays verified as the clock goes on.
LEMMA AdmittedStays ==
    ASSUME now \in Nat, now' = now \/ now' = now + 1, NEW s, WasAdmitted(s)
    PROVE  WasAdmitted(s)'
<1>1. s \in Snapshots
  BY DEF WasAdmitted
<1>2. PICK operation \in Operations, t \in 0..now : Admitted(s, operation, t)
  BY DEF WasAdmitted
<1>3. t \in 0..now'
  BY <1>2
<1> QED
  BY <1>1, <1>2, <1>3 DEF WasAdmitted, Admitted

LEMMA StoreInit == Init => StoreInv
  BY DEF Init, StoreInv, CommandOK, Empty, NoJob

\* A command that stays in its phase, with its job, and does not lose its claim to
\* the file keeps what is known of it.
LEMMA Untouched ==
    ASSUME StoreInv, NEW w \in Workers, now' = now \/ now' = now + 1,
           phase'[w] = phase[w], job'[w] = job[w],
           alone'[w] => alone[w] /\ file' = file
    PROVE  CommandOK(w)'
<1>1. CommandOK(w) /\ now \in Nat
  BY DEF StoreInv
<1>2. phase[w] \in {"verified", "opened", "returned"} => WasAdmitted(job[w].snapshot)'
  <2>1. CASE phase[w] \in {"verified", "opened", "returned"}
    BY <1>1, <2>1, AdmittedStays DEF CommandOK, WasAdmitted, Admitted
  <2> QED
    BY <2>1
<1> QED
  BY <1>1, <1>2 DEF CommandOK, Document, WasAdmitted, Admitted

\* The document in the file comes from a verified snapshot after a step that writes
\* nothing, or nothing readable, or the document of a verified snapshot.
LEMMA FileStays ==
    ASSUME StoreInv, now' = now \/ now' = now + 1, NEW s,
           WasAdmitted(s) \/ (file.docs)' \subseteq file.docs,
           (file.docs)' \subseteq file.docs \cup {Document(s)}
    PROVE  \A doc \in (file.docs)' : \E x \in Snapshots : WasAdmitted(x)' /\ doc = Document(x)
<1> SUFFICES ASSUME NEW doc \in (file.docs)'
             PROVE  \E x \in Snapshots : WasAdmitted(x)' /\ doc = Document(x)
  OBVIOUS
<1>1. PICK x \in Snapshots : WasAdmitted(x) /\ doc = Document(x)
  <2>1. CASE doc \in file.docs
    BY <2>1 DEF StoreInv
  <2>2. CASE doc \notin file.docs
    <3>1. WasAdmitted(s) /\ doc = Document(s)
      BY <2>2
    <3> QED
      BY <3>1 DEF WasAdmitted
  <2> QED
    BY <2>1, <2>2
<1>2. WasAdmitted(x)'
  BY <1>1, AdmittedStays DEF StoreInv, WasAdmitted, Admitted
<1> QED
  BY <1>1, <1>2

LEMMA StoreStep == StoreInv /\ [Next]_vars => StoreInv'
<1> SUFFICES ASSUME StoreInv, [Next]_vars PROVE StoreInv'
  OBVIOUS
<1> USE StoreAssumption
<1>1. ASSUME NEW w \in Workers, Call(w) PROVE StoreInv'
  <2>1. PICK s \in Snapshots, operation \in Operations : CallWith(w, s, operation)
    BY <1>1 DEF Call
  <2>2. CommandOK(w)'
    BY <2>1 DEF CallWith, CommandOK, StoreInv
  <2>3. ASSUME NEW v \in Workers \ {w} PROVE CommandOK(v)'
    BY <2>1, Untouched DEF CallWith, StoreInv
  <2>4. \A doc \in (file.docs)' : \E x \in Snapshots : WasAdmitted(x)' /\ doc = Document(x)
    BY <2>1, FileStays DEF CallWith
  <2> QED
    BY <2>1, <2>2, <2>3, <2>4 DEF CallWith, StoreInv, WasAdmitted, Admitted, Document
<1>2. ASSUME NEW w \in Workers, Verify(w) PROVE StoreInv'
  <2>1. WasAdmitted(job[w].snapshot)
    <3>1. job[w].snapshot \in Snapshots /\ job[w].operation \in Operations /\ now \in 0..now
      BY <1>2 DEF Verify, StoreInv, CommandOK
    <3> QED
      BY <1>2, <3>1 DEF Verify, WasAdmitted
  <2>2. CommandOK(w)'
    BY <1>2, <2>1 DEF Verify, CommandOK, StoreInv, WasAdmitted, Admitted
  <2>3. ASSUME NEW v \in Workers \ {w} PROVE CommandOK(v)'
    BY <1>2, Untouched DEF Verify, StoreInv
  <2>4. \A doc \in (file.docs)' : \E x \in Snapshots : WasAdmitted(x)' /\ doc = Document(x)
    BY <1>2, FileStays DEF Verify
  <2> QED
    BY <1>2, <2>2, <2>3, <2>4 DEF Verify, StoreInv, WasAdmitted, Admitted, Document
<1>3. ASSUME NEW w \in Workers, Refuse(w) PROVE StoreInv'
  <2>1. CommandOK(w)'
    BY <1>3 DEF Refuse, CommandOK, StoreInv
  <2>2. ASSUME NEW v \in Workers \ {w} PROVE CommandOK(v)'
    BY <1>3, Untouched DEF Refuse, StoreInv
  <2>3. \A doc \in (file.docs)' : \E x \in Snapshots : WasAdmitted(x)' /\ doc = Document(x)
    BY <1>3, FileStays DEF Refuse
  <2> QED
    BY <1>3, <2>1, <2>2, <2>3 DEF Refuse, StoreInv, WasAdmitted, Admitted, Document
<1>4. ASSUME NEW w \in Workers, Open(w) PROVE StoreInv'
  <2>1. CommandOK(w)'
    BY <1>4 DEF Open, CommandOK, StoreInv, WasAdmitted, Admitted
  <2>2. ASSUME NEW v \in Workers \ {w} PROVE CommandOK(v)'
    BY <1>4, Untouched DEF Open, StoreInv
  <2>3. (file.docs)' = {}
    BY <1>4 DEF Open, Empty
  <2> QED
    BY <1>4, <2>1, <2>2, <2>3 DEF Open, StoreInv
<1>5. ASSUME NEW w \in Workers, Write(w) PROVE StoreInv'
  <2> DEFINE s == job[w].snapshot
  <2>1. CommandOK(w) /\ s \in Snapshots /\ s.size \in Nat \ {0} /\ WasAdmitted(s)
    BY <1>5 DEF Write, StoreInv, CommandOK, Snapshot
  <2>2. file' = Written({Document(s)}, s.size)
    BY <1>5 DEF Write
  <2>3. alone[w] => (file.docs)' = {Document(s)}
    BY <1>5, <2>1, <2>2 DEF Write, CommandOK, Written, Empty
  <2>4. (file.docs)' \subseteq file.docs \cup {Document(s)}
    BY <2>2 DEF Written
  <2>5. WasAdmitted(s)'
    BY <1>5, <2>1, AdmittedStays DEF Write, StoreInv
  <2>6. CommandOK(w)'
    BY <1>5, <2>1, <2>3, <2>5 DEF Write, Disturbed, CommandOK, StoreInv, Document, WasAdmitted, Admitted
  <2>7. ASSUME NEW v \in Workers \ {w} PROVE CommandOK(v)'
    BY <1>5, Untouched DEF Write, Disturbed, StoreInv
  <2>8. \A doc \in (file.docs)' : \E x \in Snapshots : WasAdmitted(x)' /\ doc = Document(x)
    BY <1>5, <2>1, <2>4, FileStays DEF Write
  <2> QED
    BY <1>5, <2>6, <2>7, <2>8 DEF Write, Disturbed, StoreInv, WasAdmitted, Admitted, Document
<1>6. ASSUME NEW w \in Workers, Kill(w) PROVE StoreInv'
  <2>1. (file.docs)' \subseteq file.docs
    BY <1>6 DEF Kill, Written
  <2>2. CommandOK(w)'
    BY <1>6 DEF Kill, CommandOK, StoreInv
  <2>3. ASSUME NEW v \in Workers \ {w} PROVE CommandOK(v)'
    BY <1>6, Untouched DEF Kill, Disturbed, StoreInv
  <2>4. \A doc \in (file.docs)' : \E x \in Snapshots : WasAdmitted(x)' /\ doc = Document(x)
    BY <1>6, <2>1, FileStays DEF Kill
  <2> QED
    BY <1>6, <2>2, <2>3, <2>4 DEF Kill, Disturbed, StoreInv, WasAdmitted, Admitted, Document
<1>7. ASSUME Tick \/ UNCHANGED vars PROVE StoreInv'
  <2>1. now' = now \/ now' = now + 1
    BY <1>7 DEF Tick, vars
  <2>2. ASSUME NEW v \in Workers PROVE CommandOK(v)'
    BY <1>7, <2>1, Untouched DEF Tick, vars
  <2>3. \A doc \in (file.docs)' : \E x \in Snapshots : WasAdmitted(x)' /\ doc = Document(x)
    BY <1>7, <2>1, FileStays DEF Tick, vars
  <2>4. now' \in Nat /\ UNCHANGED <<phase, job, alone>>
    BY <1>7, <2>1 DEF Tick, vars, StoreInv
  <2> QED
    BY <2>2, <2>3, <2>4 DEF StoreInv, WasAdmitted, Admitted, Document
<1> QED
  BY <1>1, <1>2, <1>3, <1>4, <1>5, <1>6, <1>7 DEF Next, Run

\* A registry that loads from the file is, look-up by look-up, that of a snapshot
\* that was verified, in date and signed by a root key.
LEMMA StoreLoads == StoreInv => LoadedIsAdmitted
<1> SUFFICES ASSUME StoreInv, NEW doc \in file.docs, Loads(doc)
             PROVE  \E s \in Snapshots, operation \in Operations, t \in 0..now :
                      /\ Admitted(s, operation, t)
                      /\ <<doc.issuer, doc.sequence>> = <<s.issuer, s.sequence>>
                      /\ \A id \in KeyIds \cup {None}, key \in Keys \cup {None}, time \in Times :
                           Resolve(RegistryOf(doc.keys), id, key, time)
                               = Resolve(RegistryOf(s.keys), id, key, time)
  BY DEF LoadedIsAdmitted
<1>1. PICK s \in Snapshots : WasAdmitted(s) /\ doc = Document(s)
  BY DEF StoreInv
<1>2. PICK operation \in Operations, t \in 0..now : Admitted(s, operation, t)
  BY <1>1 DEF WasAdmitted
<1>3. RegistryOf(doc.keys) = RegistryOf(s.keys)
  BY <1>1, SameRegistry
<1>4. doc.issuer = s.issuer /\ doc.sequence = s.sequence
  BY <1>1 DEF Document
<1> QED
  BY <1>2, <1>3, <1>4

\* What a command reported, when no other touched the file since it opened it.
LEMMA StoreInstalls == StoreInv => SuccessIsInstalled
<1> SUFFICES ASSUME StoreInv, NEW w \in Workers, phase[w] = "returned", alone[w]
             PROVE  Loads(Document(job[w].snapshot))
  BY DEF SuccessIsInstalled
<1>1. Document(job[w].snapshot) \in file.docs /\ WasAdmitted(job[w].snapshot)
  BY DEF StoreInv, CommandOK
<1>2. PICK operation \in Operations, t \in 0..now : Admitted(job[w].snapshot, operation, t)
  BY <1>1 DEF WasAdmitted
<1> QED
  BY <1>1, <1>2, DocumentLoads DEF Loads

\* No interleaving of commands, no kill and no snapshot makes a receiver load keys
\* that no root key signed, or lose a revocation on the way.
THEOREM LoadedWasSigned == Spec => []LoadedIsAdmitted
  BY StoreInit, StoreStep, StoreLoads, PTL DEF Spec

\* An undisturbed command that reports success has installed its snapshot whole.
THEOREM ReportedIsInstalled == Spec => []SuccessIsInstalled
  BY StoreInit, StoreStep, StoreInstalls, PTL DEF Spec

FileType == [size : Nat, docs : {{}} \cup { {Document(s)} : s \in Snapshots }]

LEMMA WrittenIsFile ==
    ASSUME file \in FileType, NEW n \in Nat,
           NEW docs \in {{}} \cup { {Document(s)} : s \in Snapshots }
    PROVE  Written(docs, n) \in FileType
<1>1. file.size \in Nat
  BY DEF FileType
<1>2. (IF n < file.size THEN file.size ELSE n) \in Nat
  BY <1>1
<1>3. (IF n < file.size THEN {} ELSE docs) \in {{}} \cup { {Document(s)} : s \in Snapshots }
  OBVIOUS
<1> QED
  BY <1>2, <1>3 DEF Written, FileType

LEMMA TypeStep == TypeOK /\ [Next]_vars => TypeOK'
<1> SUFFICES ASSUME TypeOK, [Next]_vars PROVE TypeOK'
  OBVIOUS
<1> USE StoreAssumption
<1>0. file \in FileType
  BY DEF TypeOK, FileType
<1>1. Empty \in FileType /\ NoJob \in [snapshot : Snapshots \cup {None}, operation : Operations \cup {None}]
  BY DEF Empty, FileType, NoJob
<1>2. ASSUME NEW w \in Workers PROVE Disturbed(w) \in [Workers -> BOOLEAN]
  BY DEF Disturbed, TypeOK
<1>3. ASSUME NEW w \in Workers, Call(w) PROVE TypeOK'
  <2>1. PICK s \in Snapshots, operation \in Operations : CallWith(w, s, operation)
    BY <1>3 DEF Call
  <2> QED
    BY <2>1 DEF CallWith, TypeOK
<1>4. ASSUME NEW w \in Workers, Verify(w) PROVE TypeOK'
  BY <1>4 DEF Verify, TypeOK
<1>5. ASSUME NEW w \in Workers, Refuse(w) PROVE TypeOK'
  BY <1>1, <1>5 DEF Refuse, TypeOK
<1>6. ASSUME NEW w \in Workers, Open(w) PROVE TypeOK'
  BY <1>1, <1>6 DEF Open, TypeOK, FileType
<1>7. ASSUME NEW w \in Workers, Write(w) PROVE TypeOK'
  <2> DEFINE s == job[w].snapshot
  <2>1. s \in Snapshots /\ s.size \in Nat
    BY <1>7 DEF Write, TypeOK, Snapshot
  <2>2. file' \in FileType
    BY <1>0, <1>7, <2>1, WrittenIsFile DEF Write
  <2> QED
    BY <1>2, <1>7, <2>2 DEF Write, TypeOK, FileType
<1>8. ASSUME NEW w \in Workers, Kill(w) PROVE TypeOK'
  <2>1. file' \in FileType /\ alone' \in [Workers -> BOOLEAN]
    <3>1. CASE UNCHANGED <<file, alone>>
      BY <1>0, <3>1 DEF TypeOK
    <3>2. CASE /\ \E n \in 1..(job[w].snapshot.size - 1) : file' = Written({}, n)
               /\ alone' = Disturbed(w)
      <4>1. PICK n \in 1..(job[w].snapshot.size - 1) : file' = Written({}, n)
        BY <3>2
      <4>2. n \in Nat
        OBVIOUS
      <4> QED
        BY <1>0, <1>2, <3>2, <4>1, <4>2, WrittenIsFile
    <3> QED
      BY <1>8, <3>1, <3>2 DEF Kill
  <2>2. kills' \in 0..MaxKills
    BY <1>8 DEF Kill, TypeOK
  <2>3. /\ phase' = [phase EXCEPT ![w] = "idle"] /\ job' = [job EXCEPT ![w] = NoJob]
        /\ now' = now
    BY <1>8 DEF Kill
  <2> QED
    BY <1>1, <2>1, <2>2, <2>3 DEF TypeOK, FileType
<1>9. CASE Tick
  BY <1>9, TrustAssumption DEF Tick, TypeOK, Times
<1>10. CASE UNCHANGED vars
  BY <1>10 DEF vars, TypeOK
<1> QED
  BY <1>3, <1>4, <1>5, <1>6, <1>7, <1>8, <1>9, <1>10 DEF Next, Run

\* The type invariant: the file holds no document or that of one snapshot, and a
\* command at work has a snapshot.
THEOREM StoreIsTyped == Spec => []TypeOK
<1>1. Init => TypeOK
  BY StoreAssumption, TrustAssumption DEF Init, TypeOK, Empty, NoJob, Times
<1> QED
  BY <1>1, TypeStep, PTL DEF Spec
=============================================================================
