--------------------------- MODULE HandoverProofs ----------------------------
(***************************************************************************)
(* What keys generate leaves in its two files, what a reader accepts, and  *)
(* which bytes it writes, for any packs, edits, readers and keys.          *)
(***************************************************************************)
EXTENDS Handover, VerifyProofs

-----------------------------------------------------------------------------
\* The key files.

\* Of a command that never shared its time with another: what it has found or
\* written so far is still there.
AloneOK(k) ==
    /\ phase[k] \in {"private", "publicOpen"} => private = k
    /\ (phase[k] = "done" /\ last = k) => private = k /\ public = k
    /\ k \notin force =>
         /\ phase[k] = "checked" => private = None
         /\ phase[k] = "privateOpen" => private = Bad
         /\ phase[k] \in {"checked", "privateOpen", "private"} => public = None
         /\ phase[k] = "publicOpen" => public = Bad

KeyInv ==
    /\ phase \in [Drawn -> {"idle", "refused", "checked", "privateOpen", "private", "publicOpen", "done", "killed"}]
    /\ force \subseteq Drawn
    /\ last \in Drawn \cup {None}
    /\ \A j, k \in Working : j # k => k \in mixed
    /\ \A k \in Drawn : k \notin mixed => AloneOK(k)

LEMMA KeyNames == None \notin Keys /\ Bad \notin Keys /\ None # Bad /\ Drawn \subseteq Keys /\ Made \subseteq Keys
  BY TrustAssumption, KeyFilesAssumption

LEMMA KeysAtFirst == KeyInit => KeyInv
  BY KeyNames DEF KeyInit, KeyInv, Working, AloneOK

\* A command that takes no step keeps what it relies on: it is at rest, or it has
\* met the one that takes it.
LEMMA OthersKeep ==
    ASSUME KeyInv, NEW j \in Drawn, NEW k \in Drawn \ {j}, k \notin mixed',
           phase'[k] = phase[k], mixed \subseteq mixed', force' \subseteq force \cup {j},
           force \subseteq force', j \in Working \/ UNCHANGED <<private, public, last>>,
           last' = j \/ UNCHANGED <<private, public, last>>
    PROVE  AloneOK(k)'
<1>1. AloneOK(k) /\ (k \in force <=> k \in force')
  BY DEF KeyInv
<1>2. CASE UNCHANGED <<private, public, last>>
  BY <1>1, <1>2 DEF AloneOK
<1>3. CASE j \in Working /\ last' = j
  <2>1. k \notin Working
    BY <1>3 DEF KeyInv
  <2>2. phase[k] \notin {"checked", "privateOpen", "private", "publicOpen"}
    BY <2>1 DEF Working
  <2> QED
    BY <1>3, <2>2 DEF AloneOK
<1> QED
  BY <1>2, <1>3

LEMMA EnterMixes ==
    ASSUME KeyInv, NEW k \in Drawn, NEW place, Enter(k, place),
           place \in {"refused", "checked", "privateOpen", "private", "publicOpen", "done", "killed"},
           place = "checked" \/ k \in Working \/ place = "refused"
    PROVE  /\ phase' \in [Drawn -> {"idle", "refused", "checked", "privateOpen", "private", "publicOpen", "done", "killed"}]
           /\ phase'[k] = place /\ \A j \in Drawn \ {k} : phase'[j] = phase[j]
           /\ mixed \subseteq mixed'
           /\ \A i, j \in Working' : i # j => j \in mixed'
<1>1. /\ phase' \in [Drawn -> {"idle", "refused", "checked", "privateOpen", "private", "publicOpen", "done", "killed"}]
      /\ phase'[k] = place /\ \A j \in Drawn \ {k} : phase'[j] = phase[j]
      /\ mixed \subseteq mixed'
  BY DEF Enter, KeyInv
<1>2. ASSUME NEW i \in Working', NEW j \in Working', i # j PROVE j \in mixed'
  <2>1. i \in Drawn /\ j \in Drawn
    BY DEF Working
  <2>2. CASE i \in Working /\ j \in Working
    BY <1>1, <1>2, <2>2 DEF KeyInv
  <2>3. CASE i \notin Working \/ j \notin Working
    <3>1. (i # k => i \in Working) /\ (j # k => j \in Working)
      BY <1>1, <2>1 DEF Working
    <3>2. place = "checked" /\ (Working \ {k}) # {} /\ k \in {i, j}
      BY <1>1, <1>2, <2>1, <2>3, <3>1 DEF Working
    <3> QED
      BY <3>1, <3>2 DEF Enter
  <2> QED
    BY <2>2, <2>3
<1> QED
  BY <1>1, <1>2

LEMMA KeyStepOK == ASSUME KeyInv, NEW k \in Drawn, KeyStep(k) \/ KillKeys(k) PROVE KeyInv'
<1> USE KeyNames
<1>1. CASE Check(k)
  <2> DEFINE place == IF k \in force' \/ (private = None /\ public = None) THEN "checked" ELSE "refused"
  <2>1. Enter(k, place) /\ place \in {"checked", "refused"} /\ UNCHANGED <<private, public, last>>
    BY <1>1 DEF Check
  <2>2. force' \subseteq force \cup {k} /\ force \subseteq force' /\ force' \subseteq Drawn
    BY <1>1 DEF Check, KeyInv
  <2> HIDE DEF place
  <2>3. /\ phase' \in [Drawn -> {"idle", "refused", "checked", "privateOpen", "private", "publicOpen", "done", "killed"}]
        /\ phase'[k] = place /\ \A j \in Drawn \ {k} : phase'[j] = phase[j]
        /\ mixed \subseteq mixed' /\ \A i, j \in Working' : i # j => j \in mixed'
    BY <2>1, EnterMixes
  <2>4. AloneOK(k)'
    BY <2>1, <2>3 DEF AloneOK, place
  <2>5. ASSUME NEW j \in Drawn \ {k}, j \notin mixed' PROVE AloneOK(j)'
    BY <2>1, <2>2, <2>3, <2>5, OthersKeep
  <2> QED
    BY <2>1, <2>2, <2>3, <2>4, <2>5 DEF KeyInv
<1>2. ASSUME NEW place \in {"privateOpen", "private", "publicOpen", "done", "killed"},
             k \in Working, Enter(k, place), UNCHANGED force,
             last' = k \/ UNCHANGED <<private, public, last>>,
             k \notin mixed' => AloneOK(k)'
      PROVE  KeyInv'
  <2>1. /\ phase' \in [Drawn -> {"idle", "refused", "checked", "privateOpen", "private", "publicOpen", "done", "killed"}]
        /\ phase'[k] = place /\ \A j \in Drawn \ {k} : phase'[j] = phase[j]
        /\ mixed \subseteq mixed' /\ \A i, j \in Working' : i # j => j \in mixed'
    BY <1>2, EnterMixes
  <2>2. ASSUME NEW j \in Drawn \ {k}, j \notin mixed' PROVE AloneOK(j)'
    BY <1>2, <2>1, <2>2, OthersKeep
  <2> QED
    BY <1>2, <2>1, <2>2 DEF KeyInv
<1>3. CASE OpenPrivate(k)
  <2>1. k \in Working /\ Enter(k, "privateOpen") /\ last' = k /\ UNCHANGED force
    BY <1>3 DEF OpenPrivate, Working
  <2>2. k \notin mixed' => AloneOK(k)'
    BY <1>3 DEF OpenPrivate, Enter, KeyInv, AloneOK
  <2> QED
    BY <1>2, <2>1, <2>2
<1>4. CASE WritePrivate(k)
  <2>1. k \in Working /\ Enter(k, "private") /\ last' = k /\ UNCHANGED force
    BY <1>4 DEF WritePrivate, Working
  <2>2. k \notin mixed' => AloneOK(k)'
    BY <1>4 DEF WritePrivate, Enter, KeyInv, AloneOK
  <2> QED
    BY <1>2, <2>1, <2>2
<1>5. CASE OpenPublic(k)
  <2>1. k \in Working /\ Enter(k, "publicOpen") /\ last' = k /\ UNCHANGED force
    BY <1>5 DEF OpenPublic, Working
  <2>2. k \notin mixed' => AloneOK(k)'
    BY <1>5 DEF OpenPublic, Enter, KeyInv, AloneOK
  <2> QED
    BY <1>2, <2>1, <2>2
<1>6. CASE WritePublic(k)
  <2>1. k \in Working /\ Enter(k, "done") /\ last' = k /\ UNCHANGED force
    BY <1>6 DEF WritePublic, Working
  <2>2. k \notin mixed' => AloneOK(k)'
    BY <1>6 DEF WritePublic, Enter, KeyInv, AloneOK
  <2> QED
    BY <1>2, <2>1, <2>2
<1>7. CASE KillKeys(k)
  <2>1. k \in Working /\ Enter(k, "killed") /\ UNCHANGED <<private, public, last, force>>
    BY <1>7 DEF KillKeys
  <2>2. k \notin mixed' => AloneOK(k)'
    BY <1>7 DEF KillKeys, Enter, KeyInv, AloneOK
  <2> QED
    BY <1>2, <2>1, <2>2
<1> QED
  BY <1>1, <1>3, <1>4, <1>5, <1>6, <1>7 DEF KeyStep

\* A step of the specification leaves the key files alone or is one of Keygen.
LEMMA KeyOrNot == [Next]_vars => UNCHANGED keyVars \/ \E k \in Drawn : KeyStep(k) \/ KillKeys(k)
  BY Zenon DEF Next, vars, EditTree, StartPack, ReadNext, PackEnds, Seal, OpenOut, WriteOut, Alter,
     StartRead, CheckRead, ReadAgain, Unpack, Keygen

LEMMA KeysAlways == Spec => []KeyInv
<1>1. Init => KeyInv
  BY KeysAtFirst DEF Init
<1>2. KeyInv /\ [Next]_vars => KeyInv'
  <2> SUFFICES ASSUME KeyInv, [Next]_vars PROVE KeyInv'
    OBVIOUS
  <2>1. CASE UNCHANGED keyVars
    BY <2>1 DEF keyVars, KeyInv, AloneOK, Working
  <2> QED
    BY <2>1, KeyOrNot, KeyStepOK
<1> QED
  BY <1>1, <1>2, PTL DEF Spec

\* A command of keys generate that no other met leaves a private key and its public
\* key, whatever the files held and however many commands ran before.
THEOREM KeysComeInPairs == Spec => []PairIsWhole
<1>1. KeyInv => PairIsWhole
  BY DEF KeyInv, AloneOK, PairIsWhole
<1> QED
  BY <1>1, KeysAlways, PTL

\* Only --force, or two commands at work together, replaces a key that is in place.
THEOREM NoKeyIsLost == Spec => KeysAreKept
<1>1. ASSUME KeyInv, NEW k \in Drawn, KeyStep(k) \/ KillKeys(k) PROVE NoneIsLost
  <2> SUFFICES ASSUME k \notin force, k \notin mixed PROVE NoneIsLost
    <3>1. last' = k \/ UNCHANGED <<private, public>>
      BY <1>1 DEF KeyStep, Check, OpenPrivate, WritePrivate, OpenPublic, WritePublic, KillKeys
    <3> QED
      BY <3>1 DEF NoneIsLost
  <2>1. AloneOK(k)
    BY <1>1 DEF KeyInv
  <2>2. CASE Check(k) \/ KillKeys(k)
    BY <2>2 DEF NoneIsLost, Check, KillKeys
  <2>3. CASE OpenPrivate(k)
    BY <2>1, <2>3, KeyNames DEF NoneIsLost, OpenPrivate, AloneOK
  <2>4. CASE WritePrivate(k)
    BY <2>1, <2>4, KeyNames DEF NoneIsLost, WritePrivate, AloneOK
  <2>5. CASE OpenPublic(k)
    BY <2>1, <2>5, KeyNames DEF NoneIsLost, OpenPublic, AloneOK
  <2>6. CASE WritePublic(k)
    BY <2>1, <2>6, KeyNames DEF NoneIsLost, WritePublic, AloneOK
  <2> QED
    BY <1>1, <2>2, <2>3, <2>4, <2>5, <2>6 DEF KeyStep
<1>2. KeyInv /\ [Next]_vars => [NoneIsLost]_keyVars
  BY <1>1, KeyOrNot
<1> QED
  BY <1>2, KeysAlways, PTL DEF Spec, KeysAreKept

-----------------------------------------------------------------------------
\* The checks of the commands.

\* What every reader checks but the signature and its trust.
RestIsClear(c, o) ==
    /\ c.wellFormed /\ MetadataErrors(c, o.policy) = <<>>
    /\ PayloadErrors(c, o.encKey) = <<>> /\ SizeErrors(c, o.policy) = <<>> /\ ManifestErrors(c) = <<>>

IsClear(c, o, t) ==
    RestIsClear(c, o) /\ o.encKey # Bad /\ SignatureErrors(c, o, t) = <<>> /\ TrustErrors(c, o, t) = <<>>

LEMMA RestIsList ==
    ASSUME NEW c, NEW o
    PROVE  /\ ParseErrors(c) \in Seq(Reasons) /\ (ParseErrors(c) = <<>> <=> c.wellFormed)
           /\ SizeErrors(c, o.policy) \in Seq(Reasons) /\ ManifestErrors(c) \in Seq(Reasons)
           /\ MetadataErrors(c, o.policy) \in Seq(Reasons) /\ PayloadErrors(c, o.encKey) \in Seq(Reasons)
           /\ Raises(o.encKey = Bad, "OTHER") \in Seq(Reasons)
           /\ Raises(o.encKey = Bad, "OTHER") = <<>> <=> o.encKey # Bad
<1>1. ParseErrors(c) \in Seq(Reasons) /\ (ParseErrors(c) = <<>> <=> c.wellFormed)
  BY Codes DEF ParseErrors, Raises
<1>2. SizeErrors(c, o.policy) \in Seq(Reasons) /\ ManifestErrors(c) \in Seq(Reasons)
  BY Codes DEF SizeErrors, ManifestErrors, Raises
<1>3. /\ Raises(o.encKey = Bad, "OTHER") \in Seq(Reasons)
      /\ Raises(o.encKey = Bad, "OTHER") = <<>> <=> o.encKey # Bad
  BY Codes DEF Raises
<1> QED
  BY <1>1, <1>2, <1>3, MetadataSound, PayloadSound

LEMMA SameSignatureTrust ==
    ASSUME NEW c, NEW o, NEW t PROVE CommandTrust(c, o, t) = SignatureTrust(c, o, t)
<1>1. CASE c.sig # "ed25519"
  BY <1>1 DEF CommandTrust, SignatureTrust
<1>2. CASE c.sig = "ed25519" /\ o.registry # None
  BY <1>2, Zenon DEF CommandTrust, SignatureTrust
<1>3. CASE c.sig = "ed25519" /\ o.registry = None
  BY <1>3 DEF CommandTrust, SignatureTrust
<1> QED
  BY <1>1, <1>2, <1>3

LEMMA SameTrustErrors ==
    ASSUME NEW c, NEW o, NEW t PROVE CommandTrustErrors(c, o, t) = TrustErrors(c, o, t)
  BY SameSignatureTrust, Zenon DEF CommandTrustErrors, TrustErrors

LEMMA SignatureIsList ==
    ASSUME NEW c, c.sig \in SigModes, NEW o, NEW t
    PROVE  /\ SignatureErrors(c, o, t) \in Seq(Reasons)
           /\ CommandSignatureErrors(c, o, t) = SignatureErrors(c, o, t)
<1>1. CASE c.sig = "none"
  BY <1>1, Codes DEF SignatureErrors, CommandSignatureErrors
<1>2. CASE c.sig = "hmac-sha256"
  BY <1>2, HmacSound DEF SignatureErrors, CommandSignatureErrors
<1>3. CASE c.sig = "ed25519"
  <2>1. SignatureErrors(c, o, t) = Ed25519Errors(c, VerifyKey(c, o, t))
    BY <1>3 DEF SignatureErrors
  <2>2. CommandSignatureErrors(c, o, t) =
          Ed25519Errors(c, IF o.edPub # None THEN o.edPub
                           ELSE IF CommandTrust(c, o, t).pub # None THEN CommandTrust(c, o, t).pub ELSE c.inlineKey)
    BY <1>3 DEF CommandSignatureErrors
  <2>3. CommandSignatureErrors(c, o, t) = Ed25519Errors(c, VerifyKey(c, o, t))
    BY <2>2, SameSignatureTrust DEF VerifyKey
  <2> QED
    BY <2>1, <2>3, Ed25519Sound
<1>4. CASE c.sig = "other"
  BY <1>4, Codes DEF SignatureErrors, CommandSignatureErrors
<1> QED
  BY <1>1, <1>2, <1>3, <1>4 DEF SigModes

LEMMA VerifyIsClear ==
    ASSUME NEW c, c.sig \in SigModes, NEW o, NEW t
    PROVE  VerifyErrors(c, o, t) = <<>> <=> IsClear(c, o, t)
<1> DEFINE e1 == ParseErrors(c)
           e2 == MetadataErrors(c, o.policy)
           e3 == SignatureErrors(c, o, t)
           e4 == TrustErrors(c, o, t)
           e5 == Raises(o.encKey = Bad, "OTHER")
           e6 == PayloadErrors(c, o.encKey)
           e7 == SizeErrors(c, o.policy)
           e8 == ManifestErrors(c)
<1>1. /\ e1 \in Seq(Reasons) /\ e2 \in Seq(Reasons) /\ e3 \in Seq(Reasons) /\ e4 \in Seq(Reasons)
      /\ e5 \in Seq(Reasons) /\ e6 \in Seq(Reasons) /\ e7 \in Seq(Reasons) /\ e8 \in Seq(Reasons)
      /\ (e1 = <<>> <=> c.wellFormed) /\ (e5 = <<>> <=> o.encKey # Bad)
  BY RestIsList, SignatureIsList, TrustSound
<1>2. VerifyErrors(c, o, t) = e1 \o e2 \o e3 \o e4 \o e5 \o e6 \o e7 \o e8
  BY Zenon DEF VerifyErrors
<1>3. IsClear(c, o, t) <=> c.wellFormed /\ e2 = <<>> /\ e6 = <<>> /\ e7 = <<>> /\ e8 = <<>>
                           /\ o.encKey # Bad /\ e3 = <<>> /\ e4 = <<>>
  BY Zenon DEF IsClear, RestIsClear
<1> HIDE DEF e1, e2, e3, e4, e5, e6, e7, e8
<1>4. /\ e1 \o e2 \o e3 \o e4 \in Seq(Reasons)
      /\ e1 \o e2 \o e3 \o e4 = <<>> <=> e1 = <<>> /\ e2 = <<>> /\ e3 = <<>> /\ e4 = <<>>
  BY <1>1, NoneInEither
<1>5. VerifyErrors(c, o, t) = <<>> <=>
        e1 \o e2 \o e3 \o e4 = <<>> /\ e5 = <<>> /\ e6 = <<>> /\ e7 = <<>> /\ e8 = <<>>
  BY <1>1, <1>2, <1>4, NoneInEither
<1> QED
  BY <1>1, <1>3, <1>4, <1>5

LEMMA CommandIsClear ==
    ASSUME NEW c, c.sig \in SigModes, NEW o, NEW t
    PROVE  CommandErrors(c, o, t) = <<>> <=> IsClear(c, o, t)
<1> DEFINE e1 == Raises(o.encKey = Bad, "OTHER")
           e2 == ParseErrors(c)
           e3 == MetadataErrors(c, o.policy)
           e4 == SignatureErrors(c, o, t)
           e5 == TrustErrors(c, o, t)
           e6 == PayloadErrors(c, o.encKey)
           e7 == SizeErrors(c, o.policy)
           e8 == ManifestErrors(c)
<1>1. /\ e1 \in Seq(Reasons) /\ e2 \in Seq(Reasons) /\ e3 \in Seq(Reasons) /\ e4 \in Seq(Reasons)
      /\ e5 \in Seq(Reasons) /\ e6 \in Seq(Reasons) /\ e7 \in Seq(Reasons) /\ e8 \in Seq(Reasons)
      /\ (e2 = <<>> <=> c.wellFormed) /\ (e1 = <<>> <=> o.encKey # Bad)
  BY RestIsList, SignatureIsList, TrustSound
<1>2. CommandErrors(c, o, t) = e1 \o e2 \o e3 \o e4 \o e5 \o e6 \o e7 \o e8
  BY SignatureIsList, SameTrustErrors, Zenon DEF CommandErrors
<1>3. IsClear(c, o, t) <=> c.wellFormed /\ e3 = <<>> /\ e6 = <<>> /\ e7 = <<>> /\ e8 = <<>>
                           /\ o.encKey # Bad /\ e4 = <<>> /\ e5 = <<>>
  BY Zenon DEF IsClear, RestIsClear
<1> HIDE DEF e1, e2, e3, e4, e5, e6, e7, e8
<1>4. /\ e1 \o e2 \o e3 \o e4 \in Seq(Reasons)
      /\ e1 \o e2 \o e3 \o e4 = <<>> <=> e1 = <<>> /\ e2 = <<>> /\ e3 = <<>> /\ e4 = <<>>
  BY <1>1, NoneInEither
<1>5. CommandErrors(c, o, t) = <<>> <=>
        e1 \o e2 \o e3 \o e4 = <<>> /\ e5 = <<>> /\ e6 = <<>> /\ e7 = <<>> /\ e8 = <<>>
  BY <1>1, <1>2, <1>4, NoneInEither
<1> QED
  BY <1>1, <1>3, <1>4, <1>5

\* The commands verify and unpack refuse exactly the capsules that verify_capsule
\* refuses, whatever the options, registry and keys, in another order of checks.
THEOREM CommandsCheckTheSame ==
    ASSUME NEW c, c.sig \in SigModes, NEW o, NEW t
    PROVE  CommandErrors(c, o, t) = <<>> <=> VerifyErrors(c, o, t) = <<>>
  BY VerifyIsClear, CommandIsClear

\* An entry that the registry resolves a fingerprint to has no other key than the
\* one with that fingerprint.
LEMMA ResolvedIsTheKey ==
    ASSUME NEW keys \in Registry, NEW keyId, NEW fp, fp # None, NEW t
    PROVE  Resolve(keys, keyId, fp, t).pub \in {None, fp}
<1> DEFINE found == Matching(keys, keyId, fp)
           i     == First(found)
<1>1. keys \in Seq(TrustedKey)
  BY DEF Registry
<1>2. found \in SUBSET Nat /\ found \subseteq DOMAIN keys
  BY <1>1 DEF Matching
<1>3. CASE found = {}
  BY <1>3 DEF Resolve
<1>4. CASE found # {}
  <2>1. i \in found
    <3> HIDE DEF found
    <3> QED
      BY <1>2, <1>4, FirstIsLeast
  <2>2. keys[i].fp = fp /\ keys[i].pub \in {None, keys[i].fp}
    BY <1>2, <2>1 DEF Matching, Registry
  <2>3. Resolve(keys, keyId, fp, t).pub = keys[i].pub
    BY <1>4 DEF Resolve
  <2> QED
    BY <2>2, <2>3
<1> QED
  BY <1>3, <1>4

LEMMA GoodSignature ==
    ASSUME NEW c, NEW key, key \in Keys, c.fp = key, c.signedBy = key
    PROVE  Ed25519Errors(c, key) = <<>>
<1>1. Raises(key \notin Keys \/ c.fp # key \/ c.signedBy = None, "OTHER") = <<>>
  BY KeyNames DEF Raises
<1>2. Raises(c.signedBy # key, "SIGNATURE_UNTRUSTED") = <<>>
  BY DEF Raises
<1>3. Ed25519Errors(c, key) = <<>> \o <<>>
  BY <1>1, <1>2, Zenon DEF Ed25519Errors
<1> QED
  BY <1>3

LEMMA InspectIsClear ==
    ASSUME NEW c, c.sig = "ed25519", NEW o, NEW t,
           SignatureChecked(c, o, t), InspectErrors(c, o, t) = <<>>
    PROVE  /\ RestIsClear(c, o) /\ TrustErrors(c, o, t) = <<>>
           /\ Ed25519Errors(c, InspectKey(c, o, t)) = <<>>
<1> DEFINE e1 == ParseErrors(c)
           e2 == MetadataErrors(c, o.policy)
           e3 == Ed25519Errors(c, InspectKey(c, o, t))
           e4 == TrustErrors(c, o, t)
           e5 == PayloadErrors(c, o.encKey)
           e6 == SizeErrors(c, o.policy)
           e7 == ManifestErrors(c)
<1>1. /\ e1 \in Seq(Reasons) /\ e2 \in Seq(Reasons) /\ e3 \in Seq(Reasons) /\ e4 \in Seq(Reasons)
      /\ e5 \in Seq(Reasons) /\ e6 \in Seq(Reasons) /\ e7 \in Seq(Reasons)
      /\ (e1 = <<>> <=> c.wellFormed)
  BY RestIsList, Ed25519Sound, TrustSound
<1>2. (IF ~SignatureChecked(c, o, t) THEN <<>>
       ELSE IF c.sig = "ed25519" THEN Ed25519Errors(c, InspectKey(c, o, t)) ELSE HmacErrors(c, o)) = e3
  BY Zenon
<1>3. (IF c.sig = "ed25519" THEN CommandTrustErrors(c, o, t) ELSE <<>>) = e4
  BY SameTrustErrors, Zenon
<1>4. InspectErrors(c, o, t) = e1 \o e2 \o e3 \o e4 \o e5 \o e6 \o e7
  BY <1>2, <1>3, Zenon DEF InspectErrors
<1>5. RestIsClear(c, o) <=> c.wellFormed /\ e2 = <<>> /\ e5 = <<>> /\ e6 = <<>> /\ e7 = <<>>
  BY Zenon DEF RestIsClear
<1> HIDE DEF e1, e2, e3, e4, e5, e6, e7
<1>6. /\ e1 \o e2 \o e3 \o e4 \in Seq(Reasons)
      /\ e1 \o e2 \o e3 \o e4 = <<>> <=> e1 = <<>> /\ e2 = <<>> /\ e3 = <<>> /\ e4 = <<>>
  BY <1>1, NoneInEither
<1>7. e1 \o e2 \o e3 \o e4 = <<>> /\ e5 = <<>> /\ e6 = <<>> /\ e7 = <<>>
  <2> DEFINE front == e1 \o e2 \o e3 \o e4
  <2>1. front \o e5 \o e6 \o e7 = <<>>
    BY <1>4
  <2> HIDE DEF front
  <2>2. front \o e5 \in Seq(Reasons) /\ (front \o e5 = <<>> <=> front = <<>> /\ e5 = <<>>)
    BY <1>1, <1>6, NoneInEither DEF front
  <2> QED
    BY <1>1, <2>1, <2>2, NoneInEither DEF front
<1> QED
  BY <1>1, <1>5, <1>6, <1>7 DEF e3, e4

\* inspect may check an Ed25519 signature with the key in the capsule where
\* verify_capsule takes the registry's: both are the key of the fingerprint.
LEMMA InspectedIsVerified ==
    ASSUME NEW c, c.sig = "ed25519", NEW o, o.registry \in Registry \cup {None}, o.encKey # Bad, NEW t,
           SignatureChecked(c, o, t), InspectErrors(c, o, t) = <<>>
    PROVE  VerifyErrors(c, o, t) = <<>>
<1> DEFINE key == InspectKey(c, o, t)
           pub == SignatureTrust(c, o, t).pub
<1>1. key \in Keys /\ c.fp = key /\ c.signedBy = key
  BY InspectIsClear, Ed25519Sound
<1>2. c.fp # None
  BY <1>1, KeyNames
<1>3. pub \in {None, c.fp}
  <2>1. CASE o.registry = None
    BY <2>1 DEF SignatureTrust
  <2>2. CASE o.registry # None
    <3>1. SignatureTrust(c, o, t) = Resolve(o.registry, c.keyId, c.fp, t)
      BY <2>2, Zenon DEF SignatureTrust
    <3> QED
      BY <1>2, <2>2, <3>1, ResolvedIsTheKey
  <2> QED
    BY <2>1, <2>2
<1>4. VerifyKey(c, o, t) = key
  <2>1. key = IF o.edPub # None THEN o.edPub ELSE IF c.inlineKey # None THEN c.inlineKey ELSE pub
    BY SameSignatureTrust DEF InspectKey
  <2>2. VerifyKey(c, o, t) = IF o.edPub # None THEN o.edPub ELSE IF pub # None THEN pub ELSE c.inlineKey
    BY Zenon DEF VerifyKey
  <2> HIDE DEF key, pub
  <2> QED
    BY <1>1, <1>2, <1>3, <2>1, <2>2
<1>5. SignatureErrors(c, o, t) = <<>>
  <2>1. SignatureErrors(c, o, t) = Ed25519Errors(c, VerifyKey(c, o, t))
    BY DEF SignatureErrors
  <2> HIDE DEF key
  <2> QED
    BY <1>1, <1>4, <2>1, GoodSignature
<1>6. IsClear(c, o, t)
  BY <1>5, InspectIsClear DEF IsClear
<1> QED
  BY <1>6, VerifyIsClear DEF SigModes

-----------------------------------------------------------------------------
\* Envelopes.

HeaderNames ==
    { "codec", "content_type", "capsule_manifest", "payload_sha256", "compression", "encryption",
      "encryption_key_id", "encryption_nonce", "encryption_tag", "signature", "signature_key_id",
      "signature_public_key_fingerprint", "signature_public_key", "signature_value", "created_by", "filename" }

Shaped(e) ==
    /\ e = [headers |-> e.headers, payload |-> e.payload]
    /\ e.headers = [name \in HeaderNames |-> e.headers[name]]
    /\ e.headers.signature \in SigModes

\* A signature in the envelope is over it; a sealed payload is sealed under its headers.
Vouched(e) == e.headers.signature_value = None \/ e.headers.signature_value.over = SignedBytes(e)

SealedAsSaid(e) ==
    \/ e.headers.encryption = "none" /\ e.payload.key = None
    \/ /\ e.payload.key # None /\ e.headers.encryption_tag = e.payload
       /\ e.payload.aad = AssociatedData(e.headers)

TextOK(e) == Shaped(e) /\ Vouched(e) /\ SealedAsSaid(e)

WasWritten(e) == \E text : TextOK(text) /\ e = ReadBack(text)

\* A change of one header leaves the others, and the payload.
LEMMA OneHeader ==
    ASSUME NEW e, Shaped(e), NEW name \in HeaderNames, NEW value,
           name = "signature" => value \in SigModes
    PROVE  /\ Shaped([e EXCEPT !.headers[name] = value])
           /\ [e EXCEPT !.headers[name] = value].payload = e.payload
           /\ [e EXCEPT !.headers[name] = value].headers[name] = value
           /\ \A other \in HeaderNames \ {name} :
                [e EXCEPT !.headers[name] = value].headers[other] = e.headers[other]
<1> DEFINE f == [e EXCEPT !.headers[name] = value]
<1>1. f = [headers |-> [e.headers EXCEPT ![name] = value], payload |-> e.payload]
  BY DEF Shaped
<1>2. DOMAIN e.headers = HeaderNames
  BY DEF Shaped
<1> HIDE DEF f
<1>3. f.headers = [e.headers EXCEPT ![name] = value] /\ f.payload = e.payload
  BY <1>1
<1>4. f.headers = [n \in HeaderNames |-> f.headers[n]]
  BY <1>2, <1>3
<1>5. f.headers[name] = value /\ \A other \in HeaderNames \ {name} : f.headers[other] = e.headers[other]
  BY <1>2, <1>3
<1>6. "signature" \in HeaderNames
  BY DEF HeaderNames
<1>7. f.headers["signature"] \in SigModes
  BY <1>5, <1>6 DEF Shaped
<1>8. Shaped(f)
  BY <1>1, <1>3, <1>4, <1>7 DEF Shaped
<1> QED
  BY <1>3, <1>5, <1>8 DEF f

\* Envelopes with the same headers and payload are the same.
LEMMA SameEnvelope ==
    ASSUME NEW e, NEW f, Shaped(e), Shaped(f), e.payload = f.payload,
           \A name \in HeaderNames : e.headers[name] = f.headers[name]
    PROVE  e = f
<1>1. e.headers = f.headers
  BY DEF Shaped
<1> QED
  BY <1>1 DEF Shaped

LEMMA TrimTwice == ASSUME NEW text PROVE Trim(Trim(text)) = Trim(text)
  BY EnvelopeAssumption DEF Trim

TrimName(name) == IF name = None THEN None ELSE << Trim(name[1]) >>

LEMMA NameTwice == ASSUME NEW name PROVE TrimName(TrimName(name)) = TrimName(name)
  BY TrimTwice DEF TrimName

\* What parsing changes of an envelope.
LEMMA ReadBackIs ==
    ASSUME NEW e, Shaped(e)
    PROVE  /\ Shaped(ReadBack(e)) /\ ReadBack(e).payload = e.payload
           /\ ReadBack(e).headers["created_by"] = Trim(e.headers["created_by"])
           /\ ReadBack(e).headers["filename"] = TrimName(e.headers["filename"])
           /\ \A name \in HeaderNames \ {"created_by", "filename"} :
                ReadBack(e).headers[name] = e.headers[name]
<1> DEFINE f == [e EXCEPT !.headers["created_by"] = Trim(e.headers["created_by"])]
           g == [f EXCEPT !.headers["filename"] = TrimName(f.headers["filename"])]
<1>0. "created_by" \in HeaderNames /\ "filename" \in HeaderNames
  BY DEF HeaderNames
<1>1. ReadBack(e) = g
  BY DEF ReadBack, TrimName, Shaped
<1>2. /\ Shaped(f) /\ f.payload = e.payload /\ f.headers["created_by"] = Trim(e.headers["created_by"])
      /\ \A other \in HeaderNames \ {"created_by"} : f.headers[other] = e.headers[other]
  BY <1>0, OneHeader
<1> HIDE DEF f
<1>3. /\ Shaped(g) /\ g.payload = f.payload /\ g.headers["filename"] = TrimName(f.headers["filename"])
      /\ \A other \in HeaderNames \ {"filename"} : g.headers[other] = f.headers[other]
  BY <1>0, <1>2, OneHeader
<1> HIDE DEF g
<1> QED
  BY <1>0, <1>1, <1>2, <1>3

LEMMA ReadBackTwice == ASSUME NEW e, Shaped(e) PROVE ReadBack(ReadBack(e)) = ReadBack(e)
<1>1. Shaped(ReadBack(e)) /\ Shaped(ReadBack(ReadBack(e)))
  BY ReadBackIs
<1>2. ReadBack(ReadBack(e)).payload = ReadBack(e).payload
  BY <1>1, ReadBackIs
<1>3. ASSUME NEW name \in HeaderNames
      PROVE  ReadBack(ReadBack(e)).headers[name] = ReadBack(e).headers[name]
  <2>1. CASE name = "created_by"
    BY <1>1, <2>1, ReadBackIs, TrimTwice
  <2>2. CASE name = "filename"
    BY <1>1, <2>2, ReadBackIs, NameTwice
  <2>3. CASE name \in HeaderNames \ {"created_by", "filename"}
    BY <1>1, <2>3, ReadBackIs
  <2> QED
    BY <2>1, <2>2, <2>3
<1> QED
  BY <1>1, <1>2, <1>3, SameEnvelope

\* What the digests and signatures are made over depends on the headers they name.
LEMMA SameSignedBytes ==
    ASSUME NEW e, NEW f, Shaped(e), Shaped(f), e.payload = f.payload,
           \A name \in HeaderNames \ {"signature_value"} : e.headers[name] = f.headers[name]
    PROVE  SignedBytes(e) = SignedBytes(f)
<1>1. DOMAIN e.headers = HeaderNames /\ DOMAIN f.headers = HeaderNames
  BY DEF Shaped
<1>2. [name \in DOMAIN e.headers \ {"signature_value"} |-> e.headers[name]]
        = [name \in DOMAIN f.headers \ {"signature_value"} |-> f.headers[name]]
  BY <1>1
<1> QED
  BY <1>2 DEF SignedBytes

LEMMA SameAssociatedData ==
    ASSUME NEW e, NEW f, Shaped(e), Shaped(f),
           \A name \in HeaderNames \ AddedLater : e.headers[name] = f.headers[name]
    PROVE  AssociatedData(e.headers) = AssociatedData(f.headers)
<1>1. DOMAIN e.headers = HeaderNames /\ DOMAIN f.headers = HeaderNames
  BY DEF Shaped
<1> QED
  BY <1>1 DEF AssociatedData

LEMMA SameBytesSameEnvelope ==
    ASSUME NEW e, NEW f, Shaped(e), Shaped(f), SignedBytes(e) = SignedBytes(f),
           e.headers.signature_value = f.headers.signature_value
    PROVE  e = f
<1> DEFINE he == [name \in HeaderNames \ {"signature_value"} |-> e.headers[name]]
           hf == [name \in HeaderNames \ {"signature_value"} |-> f.headers[name]]
<1>1. /\ SignedBytes(e).headers = he /\ SignedBytes(e).payload = e.payload
      /\ SignedBytes(f).headers = hf /\ SignedBytes(f).payload = f.payload
  <2>1. DOMAIN e.headers = HeaderNames /\ DOMAIN f.headers = HeaderNames
    BY DEF Shaped
  <2> QED
    BY <2>1 DEF SignedBytes
<1> HIDE DEF he, hf
<1>2. he = hf /\ e.payload = f.payload
  BY <1>1
<1>3. ASSUME NEW name \in HeaderNames PROVE e.headers[name] = f.headers[name]
  <2>1. CASE name = "signature_value"
    BY <2>1
  <2>2. CASE name # "signature_value"
    <3>1. he[name] = e.headers[name] /\ hf[name] = f.headers[name]
      BY <2>2 DEF he, hf
    <3> QED
      BY <1>2, <3>1
  <2> QED
    BY <2>1, <2>2
<1> QED
  BY <1>2, <1>3, SameEnvelope

LEMMA SameDataSameHeaders ==
    ASSUME NEW e, NEW f, Shaped(e), Shaped(f), AssociatedData(e.headers) = AssociatedData(f.headers)
    PROVE  \A name \in HeaderNames \ AddedLater : e.headers[name] = f.headers[name]
<1>1. DOMAIN e.headers = HeaderNames /\ DOMAIN f.headers = HeaderNames
  BY DEF Shaped
<1>2. /\ AssociatedData(e.headers) = [name \in HeaderNames \ AddedLater |-> e.headers[name]]
      /\ AssociatedData(f.headers) = [name \in HeaderNames \ AddedLater |-> f.headers[name]]
  BY <1>1 DEF AssociatedData
<1> QED
  BY <1>2

\* build_envelope seals under the headers of the envelope it returns, and signs nothing.
LEMMA BuiltIsText ==
    ASSUME NEW packed, NEW call, NEW nonce
    PROVE  LET built == BuildEnvelope(packed, call, nonce)
           IN Shaped(built) /\ SealedAsSaid(built) /\ built.headers.signature_value = None
<1> DEFINE plain  == PlainHeaders(packed, call)
           sealed == [plain EXCEPT !.encryption = "aes-256-gcm", !.encryption_key_id = call.encryption_key_id]
           box    == Text(packed, call, nonce, AssociatedData(sealed))
           open   == [headers |-> plain, payload |-> Text(packed, call, None, None)]
           closed == [ headers |-> [sealed EXCEPT !.encryption_nonce = nonce, !.encryption_tag = box],
                       payload |-> box ]
           built  == BuildEnvelope(packed, call, nonce)
<1>1. built = IF call.encryption_key = None THEN open ELSE closed
  BY Zenon DEF BuildEnvelope
<1>2. /\ plain = [name \in HeaderNames |-> plain[name]] /\ plain.signature = "none"
      /\ plain.signature_value = None /\ plain.encryption = "none"
  BY DEF PlainHeaders, HeaderNames
<1>3. CASE call.encryption_key = None
  <2>1. Shaped(open)
    BY <1>2 DEF Shaped, SigModes
  <2>2. SealedAsSaid(open)
    BY <1>2, <1>3 DEF SealedAsSaid, Text
  <2> QED
    BY <1>1, <1>2, <1>3, <2>1, <2>2
<1>4. CASE call.encryption_key # None
  <2> HIDE DEF plain
  <2>1. "encryption_nonce" \in HeaderNames /\ "encryption_tag" \in HeaderNames
        /\ "encryption" \in HeaderNames /\ "encryption_key_id" \in HeaderNames
    BY DEF HeaderNames
  <2>2. /\ sealed = [name \in HeaderNames |-> sealed[name]]
        /\ sealed["signature"] = "none" /\ sealed["signature_value"] = None
    <3>1. DOMAIN plain = HeaderNames
      BY <1>2
    <3>2. "signature" \in HeaderNames /\ "signature_value" \in HeaderNames
      BY DEF HeaderNames
    <3>3. DOMAIN sealed = HeaderNames
      BY <3>1
    <3>4. sealed = [name \in HeaderNames |-> sealed[name]]
      BY <3>1
    <3> QED
      BY <1>2, <3>1, <3>2, <3>4
  <2>3. box.key # None /\ box.aad = AssociatedData(sealed)
    BY <1>4 DEF Text
  <2> HIDE DEF sealed, box
  <2>4. /\ closed.headers = [name \in HeaderNames |-> closed.headers[name]]
        /\ closed.headers["signature"] = "none" /\ closed.headers["signature_value"] = None
        /\ closed.headers["encryption_tag"] = box /\ closed.payload = box
        /\ \A name \in HeaderNames \ AddedLater : closed.headers[name] = sealed[name]
    <3>1. DOMAIN sealed = HeaderNames
      BY <2>2
    <3>2. "signature" \in HeaderNames /\ "signature_value" \in HeaderNames
      BY DEF HeaderNames
    <3>3. \A name \in HeaderNames \ AddedLater : name # "encryption_nonce" /\ name # "encryption_tag"
      BY DEF AddedLater
    <3>4. closed.headers = [sealed EXCEPT !.encryption_nonce = nonce, !.encryption_tag = box] /\ closed.payload = box
      OBVIOUS
    <3> HIDE DEF closed
    <3>5. closed.headers = [name \in HeaderNames |-> closed.headers[name]]
      BY <3>1, <3>4
    <3> QED
      BY <2>1, <2>2, <3>1, <3>2, <3>3, <3>4, <3>5
  <2>5. AssociatedData(closed.headers) = AssociatedData(sealed)
    <3>1. DOMAIN closed.headers = HeaderNames /\ DOMAIN sealed = HeaderNames
      BY <2>2, <2>4
    <3> HIDE DEF closed
    <3> QED
      BY <2>4, <3>1 DEF AssociatedData
  <2>6. Shaped(closed)
    BY <2>4 DEF Shaped, SigModes
  <2> HIDE DEF closed
  <2>7. SealedAsSaid(closed)
    BY <2>3, <2>4, <2>5 DEF SealedAsSaid
  <2> QED
    BY <1>1, <1>4, <2>4, <2>6, <2>7
<1> QED
  BY <1>3, <1>4

\* Signing keeps the payload and what it was sealed under, and the signature is
\* over the envelope that carries it.
LEMMA WithValueIsText ==
    ASSUME NEW e, Shaped(e), SealedAsSaid(e), NEW key PROVE TextOK(WithValue(e, key))
<1> DEFINE value == [key |-> key, over |-> SignedBytes(e)]
           f == [e EXCEPT !.headers["signature_value"] = value]
<1>1. WithValue(e, key) = f
  BY DEF WithValue
<1>2. "signature_value" \in HeaderNames /\ "encryption" \in HeaderNames /\ "encryption_tag" \in HeaderNames
      /\ "signature_value" \in AddedLater
  BY DEF HeaderNames, AddedLater
<1>3. value.over = SignedBytes(e)
  OBVIOUS
<1> HIDE DEF value
<1>4. /\ Shaped(f) /\ f.payload = e.payload /\ f.headers["signature_value"] = value
      /\ \A name \in HeaderNames \ {"signature_value"} : f.headers[name] = e.headers[name]
  BY <1>2, OneHeader
<1> HIDE DEF f
<1>5. SignedBytes(f) = SignedBytes(e)
  BY <1>4, SameSignedBytes
<1>6. AssociatedData(f.headers) = AssociatedData(e.headers)
  BY <1>2, <1>4, SameAssociatedData
<1>7. Vouched(f)
  BY <1>3, <1>4, <1>5 DEF Vouched
<1>8. f.headers["encryption"] = e.headers["encryption"] /\ f.headers["encryption_tag"] = e.headers["encryption_tag"]
  BY <1>2, <1>4
<1>9. SealedAsSaid(f)
  BY <1>4, <1>6, <1>8 DEF SealedAsSaid
<1> QED
  BY <1>1, <1>4, <1>7, <1>9 DEF TextOK

LEMMA LaterHeader ==
    ASSUME NEW e, Shaped(e), SealedAsSaid(e), NEW value,
           NEW name \in {"signature", "signature_key_id", "signature_public_key_fingerprint", "signature_public_key"},
           name = "signature" => value \in SigModes
    PROVE  LET f == [e EXCEPT !.headers[name] = value] IN Shaped(f) /\ SealedAsSaid(f)
<1> DEFINE f == [e EXCEPT !.headers[name] = value]
<1>1. /\ name \in HeaderNames /\ name \in AddedLater /\ name # "encryption" /\ name # "encryption_tag"
      /\ "encryption" \in HeaderNames /\ "encryption_tag" \in HeaderNames
  BY DEF HeaderNames, AddedLater
<1>2. /\ Shaped(f) /\ f.payload = e.payload
      /\ \A other \in HeaderNames \ {name} : f.headers[other] = e.headers[other]
  BY <1>1, OneHeader
<1> HIDE DEF f
<1>3. AssociatedData(f.headers) = AssociatedData(e.headers)
  BY <1>1, <1>2, SameAssociatedData
<1>4. f.headers["encryption"] = e.headers["encryption"] /\ f.headers["encryption_tag"] = e.headers["encryption_tag"]
  BY <1>1, <1>2
<1>5. SealedAsSaid(f)
  BY <1>2, <1>3, <1>4 DEF SealedAsSaid
<1> QED
  BY <1>2, <1>5 DEF f

LEMMA SignedIsText ==
    ASSUME NEW e, Shaped(e), SealedAsSaid(e), e.headers.signature_value = None,
           NEW call \in PackCall, NEW key
    PROVE  TextOK(Signed(e, call, key))
<1>1. call.mode \in {"none", "hmac-sha256", "ed25519"}
  BY DEF PackCall
<1>2. CASE call.mode = "none"
  BY <1>2 DEF Signed, TextOK, Vouched
<1>3. CASE call.mode = "hmac-sha256"
  <2> DEFINE f == [e EXCEPT !.headers["signature"] = "hmac-sha256"]
             g == [f EXCEPT !.headers["signature_key_id"] = call.key_id]
  <2>1. Signed(e, call, key) = SignEnvelope(e, call.sign_key, call.key_id)
    BY <1>3 DEF Signed
  <2>2. Signed(e, call, key) = WithValue(g, call.sign_key)
    BY <2>1 DEF SignEnvelope, Shaped
  <2>3. Shaped(f) /\ SealedAsSaid(f)
    BY LaterHeader DEF SigModes
  <2> HIDE DEF f
  <2>4. Shaped(g) /\ SealedAsSaid(g)
    BY <2>3, LaterHeader
  <2> HIDE DEF g
  <2> QED
    BY <2>2, <2>4, WithValueIsText
<1>4. CASE call.mode = "ed25519"
  <2> DEFINE inlined == IF call.inline THEN key ELSE None
             f == [e EXCEPT !.headers["signature"] = "ed25519"]
             g == [f EXCEPT !.headers["signature_key_id"] = call.key_id]
             h == [g EXCEPT !.headers["signature_public_key_fingerprint"] = key]
             i == [h EXCEPT !.headers["signature_public_key"] = inlined]
  <2>1. Signed(e, call, key) = SignEnvelopeEd25519(e, key, call.key_id, call.inline)
    BY <1>4 DEF Signed
  <2>2. Signed(e, call, key) = WithValue(i, key)
    BY <2>1 DEF SignEnvelopeEd25519, Shaped
  <2> HIDE DEF inlined
  <2>3. Shaped(f) /\ SealedAsSaid(f)
    BY LaterHeader DEF SigModes
  <2> HIDE DEF f
  <2>4. Shaped(g) /\ SealedAsSaid(g)
    BY <2>3, LaterHeader
  <2> HIDE DEF g
  <2>5. Shaped(h) /\ SealedAsSaid(h)
    BY <2>4, LaterHeader
  <2> HIDE DEF h
  <2>6. Shaped(i) /\ SealedAsSaid(i)
    BY <2>5, LaterHeader
  <2> HIDE DEF i
  <2> QED
    BY <2>2, <2>6, WithValueIsText
<1> QED
  BY <1>1, <1>2, <1>3, <1>4

-----------------------------------------------------------------------------
\* Capsule files.

\* What holds of any envelope that a reader may find, when S are the envelopes
\* that were written.
FileOK(e, S) ==
    /\ Shaped(e) /\ ReadBack(e) = e
    /\ e.headers.signature_value = None \/ \E s \in S : s.headers.signature_value = e.headers.signature_value
    /\ e.payload = Bad \/ \E s \in S : s.payload = e.payload
    /\ e.headers.encryption = "none" \/ e.headers.encryption_tag.key # None

\* A signature that checks out was made over this very envelope.
LEMMA SignedWasWritten ==
    ASSUME NEW S, \A s \in S : WasWritten(s), NEW e, FileOK(e, S), Signer(e) \notin {None, Bad}
    PROVE  e \in S
<1>1. e.headers.signature_value # None /\ e.headers.signature_value.over = SignedBytes(e)
  BY DEF Signer
<1>2. PICK s \in S : s.headers.signature_value = e.headers.signature_value
  BY <1>1 DEF FileOK
<1>3. PICK text : TextOK(text) /\ s = ReadBack(text)
  BY <1>2 DEF WasWritten
<1>4. text.headers["signature_value"] = s.headers["signature_value"]
  <2>1. "signature_value" \in HeaderNames \ {"created_by", "filename"}
    BY DEF HeaderNames
  <2> QED
    BY <1>3, <2>1, ReadBackIs DEF TextOK
<1>5. SignedBytes(text) = SignedBytes(e)
  BY <1>1, <1>2, <1>3, <1>4 DEF TextOK, Vouched
<1>6. text = e
  BY <1>2, <1>3, <1>4, <1>5, SameBytesSameEnvelope DEF TextOK, FileOK
<1> QED
  BY <1>2, <1>3, <1>6 DEF FileOK

\* A payload that opens was sealed under these headers.
LEMMA SealedWasWritten ==
    ASSUME NEW S, \A s \in S : WasWritten(s), NEW e, FileOK(e, S),
           e.headers.encryption # "none", Sealer(e) # Bad
    PROVE  \E s \in S : /\ s.payload = e.payload
                        /\ \A name \in DOMAIN e.headers \ AddedLater : s.headers[name] = e.headers[name]
<1>1. e.payload # Bad /\ e.headers.encryption_tag = e.payload /\ e.payload.aad = AssociatedData(e.headers)
  BY DEF Sealer
<1>2. e.payload.key # None
  BY <1>1 DEF FileOK
<1>3. PICK s \in S : s.payload = e.payload
  BY <1>1 DEF FileOK
<1>4. PICK text : TextOK(text) /\ s = ReadBack(text)
  BY <1>3 DEF WasWritten
<1>5. text.payload = e.payload
  BY <1>3, <1>4, ReadBackIs DEF TextOK
<1>6. AssociatedData(text.headers) = AssociatedData(e.headers)
  BY <1>1, <1>2, <1>4, <1>5 DEF TextOK, SealedAsSaid
<1>7. \A name \in HeaderNames \ AddedLater : text.headers[name] = e.headers[name]
  BY <1>4, <1>6, SameDataSameHeaders DEF TextOK, FileOK
<1>8. ASSUME NEW name \in HeaderNames \ AddedLater PROVE s.headers[name] = e.headers[name]
  <2>1. e.headers["created_by"] = Trim(e.headers["created_by"]) /\ e.headers["filename"] = TrimName(e.headers["filename"])
    BY ReadBackIs DEF FileOK
  <2>2. CASE name \in {"created_by", "filename"}
    BY <1>4, <1>7, <2>1, <2>2, ReadBackIs DEF TextOK
  <2>3. CASE name \notin {"created_by", "filename"}
    BY <1>4, <1>7, <2>3, ReadBackIs DEF TextOK
  <2> QED
    BY <2>2, <2>3
<1>9. DOMAIN e.headers = HeaderNames
  BY DEF FileOK, Shaped
<1> QED
  BY <1>3, <1>8, <1>9

LEMMA TrimmedIsRead ==
    ASSUME NEW e, Shaped(e), Trim(e.headers["created_by"]) = e.headers["created_by"],
           TrimName(e.headers["filename"]) = e.headers["filename"]
    PROVE  ReadBack(e) = e
<1>1. Shaped(ReadBack(e)) /\ ReadBack(e).payload = e.payload
  BY ReadBackIs
<1>2. ASSUME NEW name \in HeaderNames PROVE ReadBack(e).headers[name] = e.headers[name]
  <2>1. CASE name \in {"created_by", "filename"}
    BY <2>1, ReadBackIs
  <2>2. CASE name \notin {"created_by", "filename"}
    BY <2>2, ReadBackIs
  <2> QED
    BY <2>1, <2>2
<1> QED
  BY <1>1, <1>2, SameEnvelope

LEMMA WrittenIsFileOK ==
    ASSUME NEW S, NEW e \in S, WasWritten(e) PROVE FileOK(e, S)
<1>1. PICK text : TextOK(text) /\ e = ReadBack(text)
  BY DEF WasWritten
<1>2. Shaped(e) /\ ReadBack(e) = e /\ e.payload = text.payload
  BY <1>1, ReadBackIs, ReadBackTwice DEF TextOK
<1>3. "encryption" \in HeaderNames \ {"created_by", "filename"}
      /\ "encryption_tag" \in HeaderNames \ {"created_by", "filename"}
  BY DEF HeaderNames
<1>4. e.headers["encryption"] = text.headers["encryption"] /\ e.headers["encryption_tag"] = text.headers["encryption_tag"]
  BY <1>1, <1>3, ReadBackIs DEF TextOK
<1>5. e.headers["encryption"] = "none" \/ e.headers["encryption_tag"].key # None
  BY <1>1, <1>4 DEF TextOK, SealedAsSaid
<1> QED
  BY <1>2, <1>5 DEF FileOK

LEMMA MoreWritten ==
    ASSUME NEW e, NEW S, FileOK(e, S), NEW R, S \subseteq R PROVE FileOK(e, R)
  BY DEF FileOK

LEMMA HeaderEdit ==
    ASSUME NEW e, NEW S, FileOK(e, S), NEW name \in HeaderNames \ {"encryption", "encryption_tag"}, NEW value,
           name = "signature" => value \in SigModes, name = "signature_value" => value = None,
           name = "created_by" => Trim(value) = value, name = "filename" => TrimName(value) = value
    PROVE  FileOK([e EXCEPT !.headers[name] = value], S)
<1> DEFINE f == [e EXCEPT !.headers[name] = value]
<1>0. /\ "encryption" \in HeaderNames \ {name} /\ "encryption_tag" \in HeaderNames \ {name}
      /\ "created_by" \in HeaderNames /\ "filename" \in HeaderNames /\ "signature_value" \in HeaderNames
  BY DEF HeaderNames
<1>1. /\ Shaped(f) /\ f.payload = e.payload /\ f.headers[name] = value
      /\ \A other \in HeaderNames \ {name} : f.headers[other] = e.headers[other]
  BY OneHeader DEF FileOK
<1>2. e.headers["created_by"] = Trim(e.headers["created_by"]) /\ e.headers["filename"] = TrimName(e.headers["filename"])
  BY ReadBackIs DEF FileOK
<1> HIDE DEF f
<1>3. Trim(f.headers["created_by"]) = f.headers["created_by"] /\ TrimName(f.headers["filename"]) = f.headers["filename"]
  BY <1>0, <1>1, <1>2
<1>4. ReadBack(f) = f
  BY <1>1, <1>3, TrimmedIsRead
<1>5. f.headers["encryption"] = e.headers["encryption"] /\ f.headers["encryption_tag"] = e.headers["encryption_tag"]
  BY <1>0, <1>1
<1>6. f.headers["signature_value"] \in {None, e.headers["signature_value"]}
  BY <1>0, <1>1
<1> QED
  BY <1>1, <1>4, <1>5, <1>6 DEF FileOK, f

LEMMA PayloadEdit ==
    ASSUME NEW e, NEW S, FileOK(e, S), NEW value, value = Bad \/ \E s \in S : s.payload = value
    PROVE  FileOK([e EXCEPT !.payload = value], S)
<1> DEFINE f == [e EXCEPT !.payload = value]
<1>1. f = [headers |-> e.headers, payload |-> value]
  BY DEF FileOK, Shaped
<1> HIDE DEF f
<1>2. f.headers = e.headers /\ f.payload = value
  BY <1>1
<1>3. Shaped(f)
  BY <1>1, <1>2 DEF FileOK, Shaped
<1>4. e.headers["created_by"] = Trim(e.headers["created_by"]) /\ e.headers["filename"] = TrimName(e.headers["filename"])
  BY ReadBackIs DEF FileOK
<1>5. ReadBack(f) = f
  BY <1>2, <1>3, <1>4, TrimmedIsRead
<1> QED
  BY <1>2, <1>3, <1>5 DEF FileOK, f

LEMMA EditedIsFile ==
    ASSUME NEW e, NEW S, FileOK(e, S), NEW f \in Edits(e) PROVE FileOK(f, S)
<1> DEFINE ctype == IF e.headers["content_type"] = "single" THEN "bundle" ELSE "single"
           zip   == IF e.headers["compression"] = "none" THEN "zstd" ELSE "none"
           bare  == [e EXCEPT !.headers["signature"] = "none"]
<1>1. {"content_type", "compression", "signature", "signature_value", "created_by", "filename"}
        \subseteq HeaderNames \ {"encryption", "encryption_tag"}
  BY DEF HeaderNames
<1>2. CASE f = [e EXCEPT !.payload = Bad]
  BY <1>2, PayloadEdit
<1>3. CASE f = [e EXCEPT !.headers["content_type"] = ctype]
  BY <1>1, <1>3, HeaderEdit
<1>4. CASE f = [e EXCEPT !.headers["compression"] = zip]
  BY <1>1, <1>4, HeaderEdit
<1>5. CASE f = [bare EXCEPT !.headers["signature_value"] = None]
  <2>1. FileOK(bare, S)
    BY <1>1, HeaderEdit DEF SigModes
  <2> HIDE DEF bare
  <2> QED
    BY <1>1, <1>5, <2>1, HeaderEdit
<1>6. CASE \E author \in Authors : f = [e EXCEPT !.headers["created_by"] = Trim(author)]
  BY <1>1, <1>6, HeaderEdit, TrimTwice
<1>7. CASE f = [e EXCEPT !.headers["filename"] = << Trim("other") >>]
  <2>1. TrimName(<< Trim("other") >>) = << Trim("other") >>
    BY TrimTwice DEF TrimName
  <2> QED
    BY <1>1, <1>7, <2>1, HeaderEdit
<1>8. \/ f = [e EXCEPT !.payload = Bad]
      \/ f = [e EXCEPT !.headers["content_type"] = ctype]
      \/ f = [e EXCEPT !.headers["compression"] = zip]
      \/ f = [bare EXCEPT !.headers["signature_value"] = None]
      \/ \E author \in Authors : f = [e EXCEPT !.headers["created_by"] = Trim(author)]
      \/ f = [e EXCEPT !.headers["filename"] = << Trim("other") >>]
  BY DEF Edits, FileOK, Shaped
<1> QED
  BY <1>2, <1>3, <1>4, <1>5, <1>6, <1>7, <1>8

LEMMA MixedIsFile ==
    ASSUME NEW e, NEW S, FileOK(e, S), NEW s \in S, FileOK(s, S) PROVE FileOK(Mixed(e, s), S)
<1> DEFINE e1 == [e EXCEPT !.payload = s.payload]
           e2 == [e1 EXCEPT !.headers["payload_sha256"] = s.headers["payload_sha256"]]
           e3 == [e2 EXCEPT !.headers["capsule_manifest"] = s.headers["capsule_manifest"]]
           e4 == [e3 EXCEPT !.headers["content_type"] = s.headers["content_type"]]
           e5 == [e4 EXCEPT !.headers["filename"] = s.headers["filename"]]
<1>1. Mixed(e, s) = e5
  BY DEF Mixed, FileOK, Shaped
<1>2. {"payload_sha256", "capsule_manifest", "content_type", "filename"} \subseteq HeaderNames \ {"encryption", "encryption_tag"}
  BY DEF HeaderNames
<1>3. TrimName(s.headers["filename"]) = s.headers["filename"]
  BY ReadBackIs DEF FileOK
<1>4. FileOK(e1, S)
  BY PayloadEdit
<1> HIDE DEF e1
<1>5. FileOK(e2, S)
  BY <1>2, <1>4, HeaderEdit
<1> HIDE DEF e2
<1>6. FileOK(e3, S)
  BY <1>2, <1>5, HeaderEdit
<1> HIDE DEF e3
<1>7. FileOK(e4, S)
  BY <1>2, <1>6, HeaderEdit
<1> HIDE DEF e4
<1>8. FileOK(e5, S)
  BY <1>2, <1>3, <1>7, HeaderEdit
<1> QED
  BY <1>1, <1>8

-----------------------------------------------------------------------------
\* The state of packer and reader.

PackOK ==
    /\ pack = [ pc |-> pack.pc, call |-> pack.call, listed |-> pack.listed,
                entries |-> pack.entries, text |-> pack.text, key |-> pack.key ]
    /\ pack.pc # "idle" => pack.call \in PackCall
    /\ pack.pc \in {"sealed", "opened"} => TextOK(pack.text)

FilesOK ==
    /\ \A e \in Sources : WasWritten(e)
    /\ file \in {None, Bad} \/ FileOK(file, Sources)
    /\ reader.first \in {None, Bad} \/ FileOK(reader.first, Sources)

\* A reader that has not failed has found no error in what it read first.
ReaderOK ==
    /\ reader = [ pc |-> reader.pc, call |-> reader.call, opts |-> reader.opts, at |-> reader.at,
                  first |-> reader.first, second |-> reader.second, errors |-> reader.errors, files |-> reader.files ]
    /\ reader.pc \in {"idle", "check", "again", "write", "done"}
    /\ reader.pc # "idle" => reader.call \in ReadCall /\ reader.opts.registry \in Registry \cup {None}
    /\ (reader.pc \in {"again", "write"} \/ Passed) =>
         ReadErrors(reader.call.kind, reader.first, reader.opts, reader.at) = <<>>
    /\ reader.pc \in {"again", "write"} => reader.call.kind # "inspect"

HandInv == left \in Budget /\ PackOK /\ FilesOK /\ ReaderOK

LEMMA HandInit == Init => HandInv
<1> SUFFICES ASSUME Init PROVE HandInv
  OBVIOUS
<1>1. left \in Budget
  BY HandoverAssumption DEF Init
<1>2. PackOK
  BY DEF Init, NoPack, PackOK
<1>3. FilesOK
  BY DEF Init, NoReader, FilesOK, Sources
<1>4. ReaderOK
  BY DEF Init, NoReader, ReaderOK, Passed
<1> QED
  BY <1>1, <1>2, <1>3, <1>4 DEF HandInv

LEMMA SpendKeeps ==
    ASSUME left \in Budget, NEW what \in {"edits", "packs", "kills", "changes", "reads", "keys"}, Spend(what)
    PROVE  left' \in Budget
<1>1. left[what] \in Nat /\ left[what] > 0 /\ left' = [left EXCEPT ![what] = left[what] - 1]
  BY DEF Budget, Spend
<1>2. left[what] - 1 \in Nat
  BY <1>1
<1> QED
  BY <1>1, <1>2 DEF Budget

LEMMA PackStep == ASSUME HandInv, [Next]_vars PROVE left' \in Budget /\ PackOK'
<1> USE DEF HandInv
<1>1. ASSUME NEW call \in left.packCalls, StartPack(call) PROVE left' \in Budget /\ PackOK'
  <2>1. call \in PackCall
    BY DEF Budget
  <2>2. PICK listed \in SUBSET There :
               pack' = [NoPack EXCEPT !.pc = "walk", !.call = call, !.listed = listed]
    BY <1>1 DEF StartPack
  <2>3. PackOK'
    BY <2>1, <2>2 DEF PackOK, NoPack
  <2> QED
    BY <1>1, <2>3, SpendKeeps DEF StartPack
<1>2. CASE ReadNext
  BY <1>2 DEF ReadNext, Reads, Walking, PackOK
<1>3. CASE PackEnds
  <2>1. PackOK'
    BY <1>3 DEF PackEnds, PackOK, NoPack
  <2>2. left' \in Budget
    BY <1>3, SpendKeeps DEF PackEnds
  <2> QED
    BY <2>1, <2>2
<1>4. CASE Seal
  <2> DEFINE packed == Packed(pack.call.source, pack.entries)
             built  == BuildEnvelope(packed, pack.call, left.packs)
  <2>1. pack.pc = "walk" /\ pack.call \in PackCall
    BY <1>4 DEF Seal, Walked, PackOK
  <2>2. pack' = [pack EXCEPT !.pc = "sealed", !.key = private, !.text = Signed(built, pack.call, private)]
    BY <1>4 DEF Seal
  <2>3. Shaped(built) /\ SealedAsSaid(built) /\ built.headers.signature_value = None
    BY BuiltIsText
  <2> HIDE DEF built
  <2>4. TextOK(Signed(built, pack.call, private))
    BY <2>1, <2>3, SignedIsText
  <2>5. /\ pack' = [ pc |-> "sealed", call |-> pack.call, listed |-> pack.listed, entries |-> pack.entries,
                     text |-> Signed(built, pack.call, private), key |-> private ]
    BY <2>2 DEF PackOK
  <2>6. PackOK'
    BY <2>1, <2>4, <2>5 DEF PackOK
  <2> QED
    BY <1>4, <2>6 DEF Seal
<1>5. CASE OpenOut
  BY <1>5 DEF OpenOut, PackOK
<1>6. CASE WriteOut
  BY <1>6 DEF WriteOut, PackOK, NoPack
<1>7. ASSUME UNCHANGED pack, UNCHANGED left PROVE left' \in Budget /\ PackOK'
  BY <1>7 DEF PackOK
<1>8. ASSUME UNCHANGED pack, NEW what \in {"edits", "packs", "kills", "changes", "reads", "keys"}, Spend(what)
      PROVE  left' \in Budget /\ PackOK'
  BY <1>8, SpendKeeps DEF PackOK
<1>9. CASE EditTree
  BY <1>8, <1>9 DEF EditTree
<1>10. CASE Alter
  BY <1>8, <1>10 DEF Alter
<1>11. ASSUME NEW call \in left.readCalls, StartRead(call) PROVE left' \in Budget /\ PackOK'
  BY <1>8, <1>11 DEF StartRead
<1>12. ASSUME NEW t \in Times, CheckRead(t) PROVE left' \in Budget /\ PackOK'
  BY <1>7, <1>12 DEF CheckRead
<1>13. CASE ReadAgain \/ Unpack \/ Keygen
  BY <1>7, <1>13 DEF ReadAgain, Unpack, Keygen
<1>14. CASE UNCHANGED vars
  BY <1>7, <1>14 DEF vars
<1> QED
  BY <1>1, <1>2, <1>3, <1>4, <1>5, <1>6, <1>9, <1>10, <1>11, <1>12, <1>13, <1>14, Zenon DEF Next

LEMMA FilesStep == ASSUME HandInv, [Next]_vars PROVE FilesOK'
<1> USE DEF HandInv
<1>1. CASE UNCHANGED <<file, sent>> /\ (UNCHANGED (reader.first) \/ reader'.first \in {None, Bad} \/ reader'.first = file)
  BY <1>1 DEF FilesOK, Sources
<1>2. CASE OpenOut
  BY <1>2 DEF OpenOut, FilesOK, Sources
<1>3. CASE WriteOut
  <2>1. TextOK(pack.text) /\ file' = ReadBack(pack.text) /\ UNCHANGED reader
    BY <1>3 DEF WriteOut, PackOK
  <2>2. Sources' = Sources \cup {file'}
    <3> DEFINE new == [read |-> file', call |-> pack.call, key |-> pack.key, entries |-> pack.entries]
    <3>1. sent' = sent \cup {new} /\ new.read = file'
      BY <1>3 DEF WriteOut
    <3> HIDE DEF new
    <3> QED
      BY <3>1 DEF Sources
  <2>3. WasWritten(file')
    BY <2>1 DEF WasWritten
  <2>4. \A e \in Sources' : WasWritten(e)
    BY <2>2, <2>3 DEF FilesOK
  <2>5. FileOK(file', Sources')
    BY <2>2, <2>3, WrittenIsFileOK
  <2>6. reader.first \in {None, Bad} \/ FileOK(reader.first, Sources')
    BY <2>2, MoreWritten DEF FilesOK
  <2> QED
    BY <2>1, <2>4, <2>5, <2>6 DEF FilesOK
<1>4. CASE Alter
  <2>1. file \notin {None, Bad} /\ UNCHANGED <<sent, reader>>
    BY <1>4 DEF Alter
  <2>2. FileOK(file, Sources) /\ Sources' = Sources /\ \A e \in Sources : FileOK(e, Sources)
    BY <2>1, WrittenIsFileOK DEF FilesOK, Sources
  <2>3. file' \in Edits(file) \/ file' = None \/ file' \in Sources \/ \E s \in sent : file' = Mixed(file, s.read)
    BY <1>4, Zenon DEF Alter, Sources
  <2>4. ASSUME file' \in Edits(file) PROVE FileOK(file', Sources')
    BY <2>2, <2>4, EditedIsFile
  <2>5. ASSUME \E s \in sent : file' = Mixed(file, s.read) PROVE FileOK(file', Sources')
    <3>1. PICK s \in sent : file' = Mixed(file, s.read)
      BY <2>5
    <3>2. s.read \in Sources
      BY DEF Sources
    <3> QED
      BY <2>2, <3>1, <3>2, MixedIsFile
  <2>6. file' = None \/ FileOK(file', Sources')
    BY <2>2, <2>3, <2>4, <2>5
  <2> QED
    BY <2>1, <2>2, <2>6 DEF FilesOK
<1>5. ASSUME NEW call \in left.readCalls, StartRead(call) PROVE FilesOK'
  <2>1. UNCHANGED <<file, sent>> /\ reader'.first = file
    BY <1>5 DEF StartRead, NoReader
  <2> QED
    BY <1>1, <2>1
<1>6. ASSUME NEW t \in Times, CheckRead(t) PROVE FilesOK'
  <2>1. UNCHANGED <<file, sent>> /\ reader'.first = reader.first
    BY <1>6 DEF CheckRead, ReaderOK
  <2> QED
    BY <1>1, <2>1
<1>7. CASE ReadAgain
  <2>1. UNCHANGED <<file, sent>> /\ reader'.first = reader.first
    BY <1>7 DEF ReadAgain, ReaderOK
  <2> QED
    BY <1>1, <2>1
<1>8. CASE Unpack
  <2>1. UNCHANGED <<file, sent>> /\ reader'.first = reader.first
    BY <1>8 DEF Unpack, ReaderOK
  <2> QED
    BY <1>1, <2>1
<1>9. CASE UNCHANGED <<file, sent, reader>>
  BY <1>1, <1>9
<1>10. EditTree \/ ReadNext \/ PackEnds \/ Seal \/ Keygen \/ UNCHANGED vars \/ (\E call \in left.packCalls : StartPack(call))
         => UNCHANGED <<file, sent, reader>>
  BY Zenon DEF EditTree, ReadNext, PackEnds, Seal, Keygen, vars, StartPack
<1> QED
  BY <1>2, <1>3, <1>4, <1>5, <1>6, <1>7, <1>8, <1>9, <1>10, Zenon DEF Next

LEMMA ReaderStep == ASSUME HandInv, [Next]_vars PROVE ReaderOK'
<1> USE DEF HandInv
<1>1. ASSUME NEW call \in left.readCalls, StartRead(call) PROVE ReaderOK'
  <2>1. call \in ReadCall /\ call.opts.registry \in Registry \cup {None}
    BY DEF Budget, ReadCall, Options
  <2> QED
    BY <1>1, <2>1 DEF StartRead, NoReader, ReaderOK, Passed
<1>2. ASSUME NEW t \in Times, CheckRead(t) PROVE ReaderOK'
  <2> DEFINE o == IF reader.call.ownKey
                  THEN [reader.opts EXCEPT !.edPub = IF public \in Keys THEN public ELSE Bad] ELSE reader.opts
             errs == ReadErrors(reader.call.kind, reader.first, o, t)
             place == IF errs # <<>> \/ reader.call.kind \notin {"unpack", "unpack_capsule"} THEN "done"
                      ELSE IF reader.call.kind = "unpack_capsule" THEN "again" ELSE "write"
  <2>1. reader.pc = "check" /\ reader' = [reader EXCEPT !.opts = o, !.at = t, !.errors = errs,
                                                        !.second = reader.first, !.pc = place]
    BY <1>2, Zenon DEF CheckRead
  <2>2. o.registry \in Registry \cup {None}
    <3>1. reader.opts.registry \in Registry \cup {None}
      BY <2>1 DEF ReaderOK
    <3>2. o.registry = reader.opts.registry
      BY DEF ReaderOK
    <3> QED
      BY <3>1, <3>2
  <2>3. place \in {"done", "again", "write"} /\ (place # "done" => errs = <<>> /\ reader.call.kind # "inspect")
    OBVIOUS
  <2>4. errs = ReadErrors(reader.call.kind, reader.first, o, t)
    OBVIOUS
  <2> HIDE DEF o, errs, place
  <2>5. reader' = [ pc |-> place, call |-> reader.call, opts |-> o, at |-> t, first |-> reader.first,
                    second |-> reader.first, errors |-> errs, files |-> reader.files ]
    BY <2>1 DEF ReaderOK
  <2>6. reader.call \in ReadCall
    BY <2>1 DEF ReaderOK
  <2> QED
    BY <2>2, <2>3, <2>4, <2>5, <2>6 DEF ReaderOK, Passed
<1>3. CASE ReadAgain
  <2> DEFINE errs == IF file = None THEN <<"OTHER">> ELSE Raises(file = Bad, "CAPSULE_PARSE_ERROR")
             place == IF file \in {None, Bad} THEN "done" ELSE "write"
  <2>1. reader.pc = "again" /\ reader' = [reader EXCEPT !.second = file, !.errors = errs, !.pc = place]
    BY <1>3, Zenon DEF ReadAgain
  <2>2. place \in {"done", "write"}
    OBVIOUS
  <2> HIDE DEF errs, place
  <2>3. reader' = [ pc |-> place, call |-> reader.call, opts |-> reader.opts, at |-> reader.at, first |-> reader.first,
                    second |-> file, errors |-> errs, files |-> reader.files ]
    BY <2>1 DEF ReaderOK
  <2> QED
    BY <2>1, <2>2, <2>3 DEF ReaderOK, Passed
<1>4. CASE Unpack
  <2> DEFINE c == ToUnpack(reader.first, reader.second)
             errs == Raises(NotABundle(c), "UNPACK_FAILED")
             files == IF NotABundle(c) THEN <<>> ELSE FilesToWrite(c)
  <2>1. reader.pc = "write" /\ reader' = [reader EXCEPT !.pc = "done", !.errors = errs, !.files = files]
    BY <1>4, Zenon DEF Unpack
  <2> HIDE DEF errs, files
  <2>2. reader' = [ pc |-> "done", call |-> reader.call, opts |-> reader.opts, at |-> reader.at, first |-> reader.first,
                    second |-> reader.second, errors |-> errs, files |-> files ]
    BY <2>1 DEF ReaderOK
  <2> QED
    BY <2>1, <2>2 DEF ReaderOK, Passed
<1>5. CASE UNCHANGED reader
  BY <1>5 DEF ReaderOK, Passed
<1>6. EditTree \/ ReadNext \/ PackEnds \/ Seal \/ OpenOut \/ WriteOut \/ Alter \/ Keygen \/ UNCHANGED vars
        \/ (\E call \in left.packCalls : StartPack(call))
        => UNCHANGED reader
  BY Zenon DEF EditTree, ReadNext, PackEnds, Seal, OpenOut, WriteOut, Alter, Keygen, vars, StartPack
<1> QED
  BY <1>1, <1>2, <1>3, <1>4, <1>5, <1>6, Zenon DEF Next

LEMMA HandAlways == Spec => []HandInv
<1>1. HandInv /\ [Next]_vars => HandInv'
  BY PackStep, FilesStep, ReaderStep DEF HandInv
<1> QED
  BY <1>1, HandInit, PTL DEF Spec

LEMMA SomethingWasRead ==
    ASSUME NEW kind, NEW text, NEW o, NEW t, ReadErrors(kind, text, o, t) = <<>>
    PROVE  text \notin {None, Bad}
  BY Codes, KeyNames DEF ReadErrors

\* What follows from the absence of errors for the reader that saw none.
LEMMA ClearWasWritten ==
    ASSUME NEW S, \A s \in S : WasWritten(s), NEW e, FileOK(e, S), NEW o, NEW t, IsClear(View(e), o, t)
    PROVE  /\ e.headers.signature # "none" => e \in S
           /\ e.headers.encryption # "none" =>
                \E s \in S : /\ s.payload = e.payload
                             /\ \A name \in DOMAIN e.headers \ AddedLater : s.headers[name] = e.headers[name]
<1> DEFINE c == View(e)
<1>1. c.sig = e.headers.signature /\ c.signedBy = Signer(e) /\ c.enc = Sealer(e)
  BY DEF View
<1> HIDE DEF c
<1>2. c.sig \in SigModes
  BY <1>1 DEF FileOK, Shaped
<1>3. SignatureErrors(c, o, t) = <<>> /\ PayloadErrors(c, o.encKey) = <<>> /\ o.encKey # Bad
  BY DEF IsClear, RestIsClear, c
<1>4. ASSUME c.sig # "none" PROVE c.signedBy \notin {None, Bad}
  <2>1. CASE c.sig = "hmac-sha256"
    <3>1. HmacErrors(c, o) = <<>>
      BY <1>3, <2>1 DEF SignatureErrors
    <3> QED
      BY <3>1, HmacSound
  <2>2. CASE c.sig = "ed25519"
    <3>1. Ed25519Errors(c, VerifyKey(c, o, t)) = <<>>
      BY <1>3, <2>2 DEF SignatureErrors
    <3> QED
      BY <3>1, Ed25519Sound, KeyNames
  <2>3. CASE c.sig = "other"
    BY <1>3, <2>3, Codes DEF SignatureErrors
  <2> QED
    BY <1>2, <1>4, <2>1, <2>2, <2>3 DEF SigModes
<1>5. c.enc # Bad
  BY <1>3, PayloadSound, KeyNames
<1>6. e.headers.signature # "none" => e \in S
  BY <1>1, <1>4, SignedWasWritten
<1>7. e.headers.encryption # "none" =>
        \E s \in S : /\ s.payload = e.payload
                     /\ \A name \in DOMAIN e.headers \ AddedLater : s.headers[name] = e.headers[name]
  BY <1>1, <1>5, SealedWasWritten
<1> QED
  BY <1>6, <1>7

LEMMA PassedIsClear ==
    ASSUME HandInv, Passed, reader.call.kind # "inspect"
    PROVE  /\ FileOK(reader.first, Sources)
           /\ IsClear(View(reader.first), reader.opts, reader.at)
<1> DEFINE c == View(reader.first)
<1>1. ReadErrors(reader.call.kind, reader.first, reader.opts, reader.at) = <<>>
  BY DEF HandInv, ReaderOK
<1>2. FileOK(reader.first, Sources) /\ reader.first \notin {None, Bad}
  BY <1>1, SomethingWasRead DEF HandInv, FilesOK
<1>3. reader.call.kind \in {"verify_capsule", "unpack_capsule", "verify", "unpack"}
  BY DEF HandInv, ReaderOK, Passed, ReadCall
<1>4. c.sig \in SigModes
  BY <1>2 DEF View, FileOK, Shaped
<1> HIDE DEF c
<1>5. VerifyErrors(c, reader.opts, reader.at) = <<>> \/ CommandErrors(c, reader.opts, reader.at) = <<>>
  BY <1>1, <1>2, <1>3 DEF ReadErrors, c
<1> QED
  BY <1>2, <1>4, <1>5, VerifyIsClear, CommandIsClear DEF c

\* Whatever was edited, mixed or replaced on the way, and whichever command or
\* function read it: a capsule accepted for its signature is one that was packed, and
\* a payload that opened was sealed with the headers it came with.
THEOREM OnlyPackedIsAccepted == Spec => []AcceptedWasPacked
<1>1. HandInv => AcceptedWasPacked
  <2> SUFFICES ASSUME HandInv, Passed, reader.call.kind # "inspect" PROVE AcceptedWasPacked
    BY DEF AcceptedWasPacked
  <2> DEFINE e == reader.first
  <2>1. \A s \in Sources : WasWritten(s)
    BY DEF HandInv, FilesOK
  <2>2. /\ e.headers.signature # "none" => e \in Sources
        /\ e.headers.encryption # "none" =>
             \E s \in Sources : /\ s.payload = e.payload
                                /\ \A name \in DOMAIN e.headers \ AddedLater : s.headers[name] = e.headers[name]
    BY <2>1, PassedIsClear, ClearWasWritten
  <2> HIDE DEF e
  <2>3. AcceptedWasPacked <=>
          /\ e.headers.signature # "none" => e \in Sources
          /\ e.headers.encryption # "none" =>
             \E s \in Sources : /\ s.payload = e.payload
                                /\ \A name \in DOMAIN e.headers \ AddedLater : s.headers[name] = e.headers[name]
    BY Zenon DEF AcceptedWasPacked, e
  <2> QED
    BY <2>2, <2>3
<1> QED
  BY <1>1, HandAlways, PTL

\* A capsule that inspect shows with a verified Ed25519 signature and no fault is
\* accepted by verify_capsule, although inspect looks for the key in another order.
THEOREM InspectedIsAccepted == Spec => []InspectionAgrees
<1>1. HandInv => InspectionAgrees
  <2> SUFFICES ASSUME HandInv, Passed, reader.call.kind = "inspect",
                      View(reader.first).sig = "ed25519",
                      SignatureChecked(View(reader.first), reader.opts, reader.at), reader.opts.encKey # Bad
               PROVE  VerifyErrors(View(reader.first), reader.opts, reader.at) = <<>>
    BY Zenon DEF InspectionAgrees
  <2>1. ReadErrors("inspect", reader.first, reader.opts, reader.at) = <<>>
    BY DEF HandInv, ReaderOK
  <2>2. reader.first \notin {None, Bad}
    BY <2>1, SomethingWasRead
  <2>3. InspectErrors(View(reader.first), reader.opts, reader.at) = <<>>
    BY <2>1, <2>2 DEF ReadErrors
  <2>4. reader.opts.registry \in Registry \cup {None}
    BY DEF HandInv, ReaderOK, Passed
  <2> QED
    BY <2>3, <2>4, InspectedIsVerified
<1> QED
  BY <1>1, HandAlways, PTL

LEMMA UnpackedContent ==
    ASSUME NEW first, NEW second,
           NEW i \in DOMAIN FilesToWrite(ToUnpack(first, second))
    PROVE  LET content == View(first).content
               data    == FilesToWrite(ToUnpack(first, second))[i].data
           IN data = content \/ \E j \in DOMAIN content.entries : data = content.entries[j].data
<1>1. ToUnpack(first, second).content = View(first).content
  BY DEF ToUnpack, View
<1> QED
  BY <1>1 DEF FilesToWrite

\* unpack_capsule parses the file a second time: every byte it writes is of the
\* payload it verified, whatever stands in the file by then.
THEOREM WrittenIsVerified == Spec => []FilesAreOfThePayload
<1>1. Init => FilesAreOfThePayload
  BY DEF Init, NoReader, FilesAreOfThePayload
<1>2. HandInv /\ FilesAreOfThePayload /\ [Next]_vars => FilesAreOfThePayload'
  <2> SUFFICES ASSUME HandInv, FilesAreOfThePayload, [Next]_vars PROVE FilesAreOfThePayload'
    OBVIOUS
  <2>1. CASE reader'.files = <<>>
    BY <2>1 DEF FilesAreOfThePayload
  <2>2. CASE reader'.files = reader.files /\ reader'.first = reader.first
    BY <2>2 DEF FilesAreOfThePayload
  <2>3. CASE reader'.files = FilesToWrite(ToUnpack(reader.first, reader.second)) /\ reader'.first = reader.first
    BY <2>3, UnpackedContent DEF FilesAreOfThePayload
  <2>4. ASSUME NEW call \in left.readCalls, StartRead(call) PROVE reader'.files = <<>>
    BY <2>4 DEF StartRead, NoReader
  <2>5. ASSUME NEW t \in Times, CheckRead(t) PROVE reader'.files = reader.files /\ reader'.first = reader.first
    BY <2>5 DEF CheckRead, HandInv, ReaderOK
  <2>6. ReadAgain => reader'.files = reader.files /\ reader'.first = reader.first
    BY DEF ReadAgain, HandInv, ReaderOK
  <2>7. ASSUME Unpack
        PROVE  /\ reader'.first = reader.first
               /\ reader'.files \in {<<>>, FilesToWrite(ToUnpack(reader.first, reader.second))}
    BY <2>7 DEF Unpack, HandInv, ReaderOK
  <2>8. EditTree \/ ReadNext \/ PackEnds \/ Seal \/ OpenOut \/ WriteOut \/ Alter \/ Keygen \/ UNCHANGED vars
          \/ (\E call \in left.packCalls : StartPack(call))
          => UNCHANGED reader
    BY Zenon DEF EditTree, ReadNext, PackEnds, Seal, OpenOut, WriteOut, Alter, Keygen, vars, StartPack
  <2>9. UNCHANGED reader => reader'.files = reader.files /\ reader'.first = reader.first
    OBVIOUS
  <2> QED
    BY <2>1, <2>2, <2>3, <2>4, <2>5, <2>6, <2>7, <2>8, <2>9 DEF Next
<1> QED
  BY <1>1, <1>2, HandAlways, PTL DEF Spec

-----------------------------------------------------------------------------
\* What a pack is: every header and the payload of what pack writes.

\* None and Bad stand for no record and no sequence.
NoFunction(x) == x # [i \in DOMAIN x |-> x[i]]

\* What build_envelope leaves in an envelope, signed or not.
BuiltOK(e, packed, call) ==
    /\ Shaped(e) /\ SealedAsSaid(e)
    /\ e.payload = [ zip |-> call.compression # "none", of |-> packed.payload, key |-> call.encryption_key,
                     nonce |-> e.payload.nonce, aad |-> e.payload.aad ]
    /\ e.headers["codec"] = "base64" /\ e.headers["content_type"] = packed.content_type
    /\ e.headers["capsule_manifest"] = packed.manifest_files /\ e.headers["payload_sha256"] = packed.payload
    /\ e.headers["compression"] = call.compression
    /\ (e.headers["encryption"] = "none") <=> (call.encryption_key = None)
    /\ call.encryption_key # None => e.payload.nonce = e.headers["encryption_nonce"]
    /\ e.headers["created_by"] = call.created_by /\ e.headers["filename"] = packed.filename

LEMMA BuiltHeaders ==
    ASSUME NEW packed, NEW call, NEW nonce
    PROVE  LET built == BuildEnvelope(packed, call, nonce)
           IN /\ BuiltOK(built, packed, call) /\ built.headers["signature"] = "none"
              /\ built.headers["signature_value"] = None /\ built.headers["signature_public_key"] = None
<1> DEFINE plain  == PlainHeaders(packed, call)
           sealed == [plain EXCEPT !.encryption = "aes-256-gcm", !.encryption_key_id = call.encryption_key_id]
           box    == Text(packed, call, nonce, AssociatedData(sealed))
           open   == [headers |-> plain, payload |-> Text(packed, call, None, None)]
           closed == [ headers |-> [sealed EXCEPT !.encryption_nonce = nonce, !.encryption_tag = box],
                       payload |-> box ]
           built  == BuildEnvelope(packed, call, nonce)
<1>1. built = IF call.encryption_key = None THEN open ELSE closed
  BY Zenon DEF BuildEnvelope
<1>2. Shaped(built) /\ SealedAsSaid(built) /\ built.headers.signature_value = None
  BY BuiltIsText
<1>3. /\ plain = [name \in HeaderNames |-> plain[name]] /\ plain["signature"] = "none"
      /\ plain["signature_value"] = None /\ plain["signature_public_key"] = None /\ plain["encryption"] = "none"
      /\ plain["codec"] = "base64" /\ plain["content_type"] = packed.content_type
      /\ plain["capsule_manifest"] = packed.manifest_files /\ plain["payload_sha256"] = packed.payload
      /\ plain["compression"] = call.compression
      /\ plain["created_by"] = call.created_by /\ plain["filename"] = packed.filename
  BY DEF PlainHeaders, HeaderNames
<1>4. CASE call.encryption_key = None
  <2>1. built.headers = plain /\ built.payload = Text(packed, call, None, None)
    BY <1>1, <1>4
  <2>2. built.payload = [ zip |-> call.compression # "none", of |-> packed.payload, key |-> call.encryption_key,
                          nonce |-> None, aad |-> None ]
    BY <2>1 DEF Text
  <2> HIDE DEF built, plain
  <2> QED
    BY <1>2, <1>3, <1>4, <2>1, <2>2 DEF BuiltOK, built
<1>5. CASE call.encryption_key # None
  <2> HIDE DEF plain
  <2>1. /\ sealed = [plain EXCEPT !["encryption"] = "aes-256-gcm", !["encryption_key_id"] = call.encryption_key_id]
    OBVIOUS
  <2> HIDE DEF sealed
  <2>2. DOMAIN plain = HeaderNames
    BY <1>3
  <2>3. "encryption" \in HeaderNames /\ "encryption_nonce" \in HeaderNames
    BY DEF HeaderNames
  <2>4. sealed["encryption"] = "aes-256-gcm" /\ DOMAIN sealed = HeaderNames
    BY <2>1, <2>2, <2>3
  <2>5. \A name \in HeaderNames \ {"encryption", "encryption_key_id"} : sealed[name] = plain[name]
    BY <2>1, <2>2
  <2> HIDE DEF box
  <2> HIDE DEF built
  <2>12. built = closed
    BY <1>1, <1>5, Zenon
  <2>6. built.headers = [sealed EXCEPT !["encryption_nonce"] = nonce, !["encryption_tag"] = box] /\ built.payload = box
    BY <2>12
  <2>7. /\ built.headers["encryption_nonce"] = nonce
        /\ \A name \in HeaderNames \ {"encryption_nonce", "encryption_tag"} : built.headers[name] = sealed[name]
    BY <2>3, <2>4, <2>6
  <2>8. {"codec", "content_type", "capsule_manifest", "payload_sha256", "compression", "created_by", "filename",
         "signature", "signature_value", "signature_public_key"}
           \subseteq HeaderNames \ {"encryption", "encryption_key_id", "encryption_nonce", "encryption_tag"}
    BY DEF HeaderNames
  <2>9. \A name \in {"codec", "content_type", "capsule_manifest", "payload_sha256", "compression", "created_by",
                     "filename", "signature", "signature_value", "signature_public_key"} :
           built.headers[name] = plain[name]
    BY <2>5, <2>7, <2>8
  <2>10. built.headers["encryption"] = "aes-256-gcm"
    BY <2>3, <2>4, <2>7
  <2>11. built.payload = [ zip |-> call.compression # "none", of |-> packed.payload, key |-> call.encryption_key,
                          nonce |-> nonce, aad |-> AssociatedData(sealed) ]
    BY <2>6 DEF Text, box
  <2> QED
    BY <1>2, <1>3, <1>5, <2>7, <2>9, <2>10, <2>11 DEF BuiltOK, built
<1> QED
  BY <1>4, <1>5

SetHeader(e, name, value) == [e EXCEPT !.headers[name] = value]

\* Signing leaves all that as it is.
LEMMA LaterIsBuilt ==
    ASSUME NEW e, NEW packed, NEW call, BuiltOK(e, packed, call), NEW value,
           NEW name \in {"signature", "signature_key_id", "signature_public_key_fingerprint", "signature_public_key",
                         "signature_value"},
           name = "signature" => value \in SigModes
    PROVE  /\ BuiltOK(SetHeader(e, name, value), packed, call)
           /\ SetHeader(e, name, value).headers[name] = value
           /\ \A other \in HeaderNames \ {name} : SetHeader(e, name, value).headers[other] = e.headers[other]
<1> DEFINE f == [e EXCEPT !.headers[name] = value]
<1>1. /\ name \in HeaderNames /\ name \in AddedLater /\ name # "encryption_nonce"
      /\ {"encryption", "encryption_tag", "encryption_nonce", "codec", "content_type", "capsule_manifest",
          "payload_sha256", "compression", "created_by", "filename"} \subseteq HeaderNames \ {name}
  BY DEF HeaderNames, AddedLater
<1>2. /\ Shaped(f) /\ f.payload = e.payload /\ f.headers[name] = value
      /\ \A other \in HeaderNames \ {name} : f.headers[other] = e.headers[other]
  BY <1>1, OneHeader DEF BuiltOK
<1> HIDE DEF f
<1>3. AssociatedData(f.headers) = AssociatedData(e.headers)
  BY <1>1, <1>2, SameAssociatedData DEF BuiltOK
<1>4. SealedAsSaid(f)
  BY <1>1, <1>2, <1>3 DEF SealedAsSaid, BuiltOK
<1> QED
  BY <1>1, <1>2, <1>4 DEF BuiltOK, f, SetHeader

SignKey(call, key) == IF call.mode = "hmac-sha256" THEN call.sign_key ELSE key

\* What a signature adds to an envelope.
SignedOK(e, call, key) ==
    /\ e.headers["signature"] = call.mode
    /\ call.mode = "none" => e.headers["signature_value"] = None
    /\ call.mode # "none" => e.headers["signature_value"] = [key |-> SignKey(call, key), over |-> SignedBytes(e)]
    /\ call.mode = "ed25519" => /\ e.headers["signature_public_key_fingerprint"] = key
                                /\ e.headers["signature_public_key"] \in {None, key}

LEMMA WithValueIsSigned ==
    ASSUME NEW e, NEW packed, NEW call, BuiltOK(e, packed, call), NEW key
    PROVE  /\ BuiltOK(WithValue(e, key), packed, call)
           /\ WithValue(e, key).headers["signature_value"] = [key |-> key, over |-> SignedBytes(WithValue(e, key))]
           /\ \A name \in HeaderNames \ {"signature_value"} :
                WithValue(e, key).headers[name] = e.headers[name]
<1> DEFINE value == [key |-> key, over |-> SignedBytes(e)]
           f == SetHeader(e, "signature_value", value)
<1>1. WithValue(e, key) = f
  BY DEF WithValue, SetHeader
<1> HIDE DEF value
<1>2. /\ BuiltOK(f, packed, call) /\ f.headers["signature_value"] = value
      /\ \A name \in HeaderNames \ {"signature_value"} : f.headers[name] = e.headers[name]
  BY LaterIsBuilt
<1> HIDE DEF f
<1>3. SignedBytes(f) = SignedBytes(e)
  <2>1. f.payload = e.payload
    BY <1>1 DEF WithValue, BuiltOK, Shaped
  <2> QED
    BY <1>2, <2>1, SameSignedBytes DEF BuiltOK
<1> QED
  BY <1>1, <1>2, <1>3 DEF value

LEMMA SignedHeaders ==
    ASSUME NEW e, NEW packed, NEW call \in PackCall, BuiltOK(e, packed, call), NEW key,
           e.headers["signature"] = "none", e.headers["signature_value"] = None
    PROVE  BuiltOK(Signed(e, call, key), packed, call) /\ SignedOK(Signed(e, call, key), call, key)
<1>0. {"signature", "signature_key_id", "signature_public_key_fingerprint", "signature_public_key"}
        \subseteq HeaderNames \ {"signature_value"}
  BY DEF HeaderNames
<1>1. call.mode \in {"none", "hmac-sha256", "ed25519"}
  BY DEF PackCall
<1>2. CASE call.mode = "none"
  BY <1>2 DEF Signed, SignedOK
<1>3. CASE call.mode = "hmac-sha256"
  <2> DEFINE f == SetHeader(e, "signature", "hmac-sha256")
             g == SetHeader(f, "signature_key_id", call.key_id)
             h == WithValue(g, call.sign_key)
  <2>1. Signed(e, call, key) = SignEnvelope(e, call.sign_key, call.key_id)
    BY <1>3 DEF Signed
  <2>2. Signed(e, call, key) = h
    BY <2>1 DEF SignEnvelope, Shaped, BuiltOK, SetHeader
  <2>3. BuiltOK(f, packed, call) /\ f.headers["signature"] = "hmac-sha256"
    BY LaterIsBuilt DEF SigModes
  <2> HIDE DEF f
  <2>4. BuiltOK(g, packed, call) /\ g.headers["signature"] = "hmac-sha256"
    BY <1>0, <2>3, LaterIsBuilt
  <2> HIDE DEF g
  <2>5. /\ BuiltOK(h, packed, call) /\ h.headers["signature"] = "hmac-sha256"
        /\ h.headers["signature_value"] = [key |-> call.sign_key, over |-> SignedBytes(h)]
    BY <1>0, <2>4, WithValueIsSigned
  <2> HIDE DEF h
  <2> QED
    BY <1>3, <2>2, <2>5 DEF SignedOK, SignKey
<1>4. CASE call.mode = "ed25519"
  <2> DEFINE inlined == IF call.inline THEN key ELSE None
             f == SetHeader(e, "signature", "ed25519")
             g == SetHeader(f, "signature_key_id", call.key_id)
             h == SetHeader(g, "signature_public_key_fingerprint", key)
             i == SetHeader(h, "signature_public_key", inlined)
             j == WithValue(i, key)
  <2>1. Signed(e, call, key) = SignEnvelopeEd25519(e, key, call.key_id, call.inline)
    BY <1>4 DEF Signed
  <2>2. Signed(e, call, key) = j
    BY <2>1 DEF SignEnvelopeEd25519, Shaped, BuiltOK, SetHeader
  <2>3. inlined \in {None, key}
    OBVIOUS
  <2> HIDE DEF inlined
  <2>4. BuiltOK(f, packed, call) /\ f.headers["signature"] = "ed25519"
    BY LaterIsBuilt DEF SigModes
  <2> HIDE DEF f
  <2>5. BuiltOK(g, packed, call) /\ g.headers["signature"] = "ed25519"
    BY <1>0, <2>4, LaterIsBuilt
  <2> HIDE DEF g
  <2>6. BuiltOK(h, packed, call) /\ h.headers["signature"] = "ed25519"
        /\ h.headers["signature_public_key_fingerprint"] = key
    BY <1>0, <2>5, LaterIsBuilt
  <2> HIDE DEF h
  <2>7. BuiltOK(i, packed, call) /\ i.headers["signature"] = "ed25519"
        /\ i.headers["signature_public_key_fingerprint"] = key /\ i.headers["signature_public_key"] = inlined
    <3>1. BuiltOK(i, packed, call) /\ i.headers["signature_public_key"] = inlined
      BY <2>6, LaterIsBuilt
    <3>2. \A other \in HeaderNames \ {"signature_public_key"} : i.headers[other] = h.headers[other]
      BY <2>6, LaterIsBuilt
    <3> HIDE DEF i
    <3> QED
      BY <1>0, <2>6, <3>1, <3>2
  <2> HIDE DEF i
  <2>8. /\ BuiltOK(j, packed, call) /\ j.headers["signature"] = "ed25519"
        /\ j.headers["signature_public_key_fingerprint"] = key /\ j.headers["signature_public_key"] = inlined
        /\ j.headers["signature_value"] = [key |-> key, over |-> SignedBytes(j)]
    BY <1>0, <2>7, WithValueIsSigned
  <2> HIDE DEF j
  <2> QED
    BY <1>4, <2>2, <2>3, <2>8 DEF SignedOK, SignKey
<1> QED
  BY <1>1, <1>2, <1>3, <1>4

\* A pack as a reader that knows its keys sees it.
LEMMA PackedView ==
    ASSUME NEW e, NEW packed, NEW call \in PackCall, NEW key, NoFunction(None), NoFunction(Bad),
           BuiltOK(e, packed, call), SignedOK(e, call, key)
    PROVE  LET c == View(e)
           IN /\ c.wellFormed /\ c.codec = "base64" /\ c.decodes /\ c.unzips
              /\ c.content = packed.payload /\ c.claim = packed.payload /\ c.manifest = packed.manifest_files
              /\ c.ctype = packed.content_type /\ c.filename = packed.filename
              /\ c.enc = call.encryption_key /\ c.sig = call.mode
              /\ c.signedBy = IF call.mode = "none" THEN None ELSE SignKey(call, key)
              /\ call.mode = "ed25519" => c.fp = key /\ c.inlineKey \in {None, key}
<1> DEFINE c == View(e)
           h == e.headers
<1>1. /\ c.wellFormed /\ c.codec = h.codec /\ c.ctype = h.content_type /\ c.filename = h.filename
      /\ c.sig = h.signature /\ c.fp = h.signature_public_key_fingerprint /\ c.inlineKey = h.signature_public_key
      /\ c.signedBy = Signer(e) /\ c.enc = Sealer(e) /\ c.claim = h.payload_sha256 /\ c.manifest = h.capsule_manifest
  BY DEF View
<1>2. /\ c.decodes = (e.payload # Bad)
      /\ c.unzips = (h.compression = "none" \/ (AsSaid(e) /\ e.payload.zip))
      /\ c.content = IF AsSaid(e) /\ (e.payload.zip => h.compression # "none") THEN e.payload.of ELSE Scrambled
  BY DEF View
<1>3. e.payload # Bad
  <2>1. e.payload = [i \in DOMAIN e.payload |-> e.payload[i]]
    BY DEF BuiltOK
  <2> QED
    BY <2>1 DEF NoFunction
<1>4. /\ e.payload.zip = (call.compression # "none") /\ e.payload.of = packed.payload
      /\ e.payload.key = call.encryption_key
  BY DEF BuiltOK
<1>5. AsSaid(e)
  BY <1>3, <1>4 DEF AsSaid, BuiltOK
<1>6. Signer(e) = IF call.mode = "none" THEN None ELSE SignKey(call, key)
  <2>1. CASE call.mode = "none"
    BY <2>1 DEF SignedOK, Signer
  <2>2. CASE call.mode # "none"
    <3> DEFINE value == [key |-> SignKey(call, key), over |-> SignedBytes(e)]
    <3>1. value = [i \in DOMAIN value |-> value[i]] /\ value.key = SignKey(call, key) /\ value.over = SignedBytes(e)
      OBVIOUS
    <3>2. h.signature_value = value
      BY <2>2 DEF SignedOK
    <3> HIDE DEF value
    <3> QED
      BY <2>2, <3>1, <3>2 DEF NoFunction, Signer
  <2> QED
    BY <2>1, <2>2
<1>7. Sealer(e) = call.encryption_key
  <2>1. CASE call.encryption_key = None
    BY <2>1 DEF BuiltOK, Sealer
  <2>2. CASE call.encryption_key # None
    <3>1. h.encryption # "none" /\ e.payload.nonce = h.encryption_nonce
      BY <2>2 DEF BuiltOK
    <3>2. h.encryption_tag = e.payload /\ e.payload.aad = AssociatedData(h)
      BY <3>1 DEF BuiltOK, SealedAsSaid
    <3> QED
      BY <1>3, <1>4, <3>1, <3>2 DEF Sealer
  <2> QED
    BY <2>1, <2>2
<1> HIDE DEF c
<1>8. c.unzips
  BY <1>2, <1>4, <1>5 DEF BuiltOK
<1>9. c.content = packed.payload
  BY <1>2, <1>4, <1>5 DEF BuiltOK
<1>10. /\ c.codec = "base64" /\ c.claim = packed.payload /\ c.manifest = packed.manifest_files
       /\ c.ctype = packed.content_type /\ c.filename = packed.filename /\ c.sig = call.mode
       /\ call.mode = "ed25519" => c.fp = key /\ c.inlineKey \in {None, key}
  BY <1>1 DEF BuiltOK, SignedOK
<1> QED
  BY <1>1, <1>2, <1>3, <1>6, <1>7, <1>8, <1>9, <1>10 DEF c

\* Checks that find nothing.

LEMMA MetadataClear ==
    ASSUME NEW c, NEW o, NEW t, c.codec = "base64", Admitted(c, o.policy), c.sig = "none" => o.policy.allowUnsigned
    PROVE  MetadataErrors(c, o.policy) = <<>>
<1> DEFINE p == o.policy
           e1 == Raises(p.requireKnownCodec /\ c.codec \notin KnownCodecs, "POLICY_BLOCK")
           e2 == Raises(~p.allowUnsigned /\ c.sig = "none", "SIGNATURE_REQUIRED")
           e3 == Raises(p.requiredModes # {} /\ c.sig \notin p.requiredModes, "SIGNATURE_REQUIRED")
           e4 == Raises(~p.allowInlineKeys /\ c.inlineKey # None, "SIGNATURE_UNTRUSTED")
           e5 == Raises(p.trustedKeyIds # {} /\ c.keyId \notin p.trustedKeyIds, "POLICY_BLOCK")
           e6 == Raises(p.trustedFps # {} /\ c.fp \notin p.trustedFps, "POLICY_BLOCK")
           e7 == Raises(c.ctype \notin p.allowedTypes, "POLICY_BLOCK")
<1>1. e1 = <<>> /\ e2 = <<>> /\ e3 = <<>> /\ e4 = <<>> /\ e5 = <<>> /\ e6 = <<>> /\ e7 = <<>>
  BY DEF Raises, Admitted, KnownCodecs
<1>2. MetadataErrors(c, p) = e1 \o e2 \o e3 \o e4 \o e5 \o e6 \o e7
  BY Zenon DEF MetadataErrors
<1> HIDE DEF e1, e2, e3, e4, e5, e6, e7, p
<1>3. MetadataErrors(c, p) = <<>> \o <<>> \o <<>> \o <<>> \o <<>> \o <<>> \o <<>>
  BY <1>1, <1>2
<1> QED
  BY <1>3 DEF p

LEMMA PayloadClear ==
    ASSUME NEW c, NEW key, c.codec = "base64", c.decodes, c.unzips, c.claim = c.content,
           c.enc # Bad, c.enc = key \/ c.enc = None
    PROVE  PayloadErrors(c, key) = <<>>
<1> DEFINE e1 == Raises(c.enc # None /\ key = None, "ENCRYPTION_KEY_MISSING")
           e2 == Raises(c.enc = Bad \/ c.codec \notin KnownCodecs \/ ~c.decodes, "OTHER")
           e3 == Raises(c.enc # None /\ c.enc # key, "DECRYPTION_FAILED")
           e4 == Raises(~c.unzips, "OTHER")
           e5 == Raises(c.claim # c.content, "PAYLOAD_HASH_MISMATCH")
<1>1. e1 = <<>> /\ e2 = <<>> /\ e3 = <<>> /\ e4 = <<>> /\ e5 = <<>>
  BY DEF Raises, KnownCodecs
<1>2. PayloadErrors(c, key) = e1 \o e2 \o e3 \o e4 \o e5
  BY Zenon DEF PayloadErrors
<1> HIDE DEF e1, e2, e3, e4, e5
<1>3. PayloadErrors(c, key) = <<>> \o <<>> \o <<>> \o <<>> \o <<>>
  BY <1>1, <1>2
<1> QED
  BY <1>3

LEMMA HmacClear ==
    ASSUME NEW c, NEW o, o.keyEnv \notin {None, Bad}, c.signedBy = o.keyEnv
    PROVE  HmacErrors(c, o) = <<>>
<1>1. /\ Raises(o.keyEnv = None, "SIGNATURE_REQUIRED") = <<>>
      /\ Raises(o.keyEnv = Bad \/ c.signedBy = None, "OTHER") = <<>>
      /\ Raises(c.signedBy # o.keyEnv, "SIGNATURE_UNTRUSTED") = <<>>
  BY DEF Raises
<1>2. HmacErrors(c, o) = <<>> \o <<>> \o <<>>
  BY <1>1, Zenon DEF HmacErrors
<1> QED
  BY <1>2

LEMMA TrustClear ==
    ASSUME NEW c, NEW o, NEW t, ~o.policy.requireRegistry
    PROVE  TrustErrors(c, o, t) = <<>>
<1>1. \A reason : Raises(FALSE, reason) = <<>>
  BY DEF Raises
<1>2. TrustErrors(c, o, t) = <<>> \o <<>>
  BY <1>1 DEF TrustErrors, Raises
<1> QED
  BY <1>2

-----------------------------------------------------------------------------
\* What a pack is made from.

EntriesOK(entries) ==
    /\ entries \in Seq(BundleEntry) /\ DistinctPaths(entries)
    /\ \A i \in DOMAIN entries : entries[i].path \in Files /\ entries[i].encoded /\ entries[i].metaOk

OneFile(entries) == Len(entries) = 1 /\ SafeName(entries[1].path) = entries[1].path

IsPack(call, entries, key, text) ==
    /\ call \in PackCall /\ EntriesOK(entries)
    /\ call.source = "file" => OneFile(entries)
    /\ call.mode = "ed25519" => key \in Keys
    /\ \E nonce : text = Signed(BuildEnvelope(Packed(call.source, entries), call, nonce), call, key)

\* No name has blanks around it.
NoBlanks ==
    /\ \A author \in Authors : Trim(author) = author
    /\ \A path \in Files : Trim(path[1]) = path[1]

LEMMA PackedManifest ==
    ASSUME NoFunction(None), NEW source \in {"file", "directory"}, NEW entries, EntriesOK(entries),
           source = "file" => OneFile(entries), NEW c,
           c.manifest = Packed(source, entries).manifest_files, c.filename = Packed(source, entries).filename,
           c.ctype = Packed(source, entries).content_type, c.content = Packed(source, entries).payload
    PROVE  /\ ManifestErrors(c) = <<>> /\ ~NotABundle(c) /\ c.manifest # None
           /\ c.content.size \in Nat
           /\ Len(FilesToWrite(c)) = Len(entries)
           /\ \A i \in DOMAIN entries :
                /\ FilesToWrite(c)[i].path = entries[i].path
                /\ FilesToWrite(c)[i].data = IF source = "file" THEN FileContent(entries[i].data) ELSE entries[i].data
<1>1. CASE source = "file"
  <2> DEFINE path == entries[1].path
             data == FileContent(entries[1].data)
  <2>1. /\ c.content = data /\ c.ctype = "single" /\ c.filename = path /\ c.manifest = << Line(path, data) >>
    BY <1>1 DEF Packed
  <2>2. SafeName(path) = path /\ path \in Seq(Names) /\ Len(entries) = 1 /\ DOMAIN entries = {1}
    <3>1. OneFile(entries) /\ entries \in Seq(BundleEntry)
      BY <1>1 DEF EntriesOK
    <3> HIDE DEF path
    <3>2. Len(entries) = 1 /\ DOMAIN entries = {1}
      BY <3>1 DEF OneFile
    <3>3. entries[1] \in BundleEntry
      BY <3>1, <3>2
    <3>4. entries[1].path \in PathStrings /\ SafeName(entries[1].path) = entries[1].path
      BY <3>1, <3>3 DEF OneFile, BundleEntry
    <3> QED
      BY <3>2, <3>4 DEF path, PathStrings
  <2>3. path # None
    <3>1. path = [i \in DOMAIN path |-> path[i]]
      BY <2>2
    <3> QED
      BY <3>1 DEF NoFunction
  <2>4. PayloadName(c) = path
    BY <2>1, <2>2, <2>3 DEF PayloadName
  <2>5. data.size = 1 /\ Line(path, data).path = path /\ Line(path, data).sha = data /\ Line(path, data).bytesOk
    BY DEF FileContent, Line
  <2> HIDE DEF path, data
  <2>6. c.manifest # None
    <3>1. << Line(path, data) >> = [i \in DOMAIN << Line(path, data) >> |-> << Line(path, data) >>[i]]
      OBVIOUS
    <3> QED
      BY <2>1, <3>1 DEF NoFunction
  <2>7. ManifestMatches(c)
    BY <2>1, <2>4, <2>5 DEF ManifestMatches, SingleMatches, DistinctPaths
  <2>8. ManifestErrors(c) = <<>> /\ ~NotABundle(c)
    BY <2>1, <2>7 DEF ManifestErrors, Raises, NotABundle
  <2>9. FilesToWrite(c) = << [path |-> path, data |-> data, encoded |-> TRUE, metaOk |-> TRUE] >>
    BY <2>1, <2>4 DEF FilesToWrite
  <2> QED
    BY <1>1, <2>1, <2>2, <2>5, <2>6, <2>8, <2>9 DEF path, data
<1>2. CASE source = "directory"
  <2> DEFINE lines == [i \in DOMAIN entries |-> Line(entries[i].path, entries[i].data)]
  <2>1. /\ c.content = [bundle |-> TRUE, size |-> Len(entries), entries |-> entries]
        /\ c.ctype = "bundle" /\ c.manifest = lines
    BY <1>2 DEF Packed
  <2>2. /\ entries \in Seq(BundleEntry) /\ DistinctPaths(entries)
        /\ \A i \in DOMAIN entries : entries[i].encoded /\ entries[i].metaOk
    BY DEF EntriesOK
  <2>3. /\ DOMAIN lines = DOMAIN entries
        /\ \A i \in DOMAIN entries : lines[i].path = entries[i].path /\ lines[i].sha = entries[i].data /\ lines[i].bytesOk
    BY DEF Line
  <2>4. c.manifest # None
    BY <2>1 DEF NoFunction
  <2> HIDE DEF lines
  <2>5. DistinctPaths(c.manifest)
    BY <2>1, <2>2, <2>3 DEF DistinctPaths
  <2>6. PathsOf(c.manifest) = PathsOf(entries)
    BY <2>1, <2>3 DEF PathsOf
  <2>7. c.content.bundle /\ c.content.entries = entries /\ c.content.size = Len(entries)
    BY <2>1
  <2>8. BundleMatches(c)
    BY <2>1, <2>2, <2>3, <2>6, <2>7 DEF BundleMatches, DistinctPaths
  <2>9. ManifestErrors(c) = <<>> /\ ~NotABundle(c)
    BY <2>1, <2>5, <2>7, <2>8 DEF ManifestErrors, Raises, ManifestMatches, NotABundle
  <2>10. FilesToWrite(c) = entries
    BY <2>1, <2>7 DEF FilesToWrite
  <2> QED
    BY <1>2, <2>2, <2>4, <2>7, <2>9, <2>10
<1> QED
  BY <1>1, <1>2

-----------------------------------------------------------------------------
\* A pack passes every check of a reader that its packer's options fit.

LEMMA PackIsBuilt ==
    ASSUME NEW call, NEW entries, NEW key, NEW text, IsPack(call, entries, key, text)
    PROVE  BuiltOK(text, Packed(call.source, entries), call) /\ SignedOK(text, call, key)
<1>1. PICK nonce : text = Signed(BuildEnvelope(Packed(call.source, entries), call, nonce), call, key)
  BY DEF IsPack
<1> DEFINE packed == Packed(call.source, entries)
           built  == BuildEnvelope(packed, call, nonce)
<1>2. BuiltOK(built, packed, call) /\ built.headers["signature"] = "none" /\ built.headers["signature_value"] = None
  BY BuiltHeaders
<1>3. call \in PackCall
  BY DEF IsPack
<1> HIDE DEF built, packed
<1>4. BuiltOK(Signed(built, call, key), packed, call) /\ SignedOK(Signed(built, call, key), call, key)
  BY <1>2, <1>3, SignedHeaders
<1> QED
  BY <1>1, <1>4 DEF built, packed

\* Nothing that packing writes is lost in parsing.
LEMMA PackIsRead ==
    ASSUME NoBlanks, NEW call, NEW entries, NEW key, NEW text, IsPack(call, entries, key, text)
    PROVE  ReadBack(text) = text
<1>1. BuiltOK(text, Packed(call.source, entries), call) /\ call \in PackCall
  BY PackIsBuilt DEF IsPack
<1>2. Trim(text.headers["created_by"]) = text.headers["created_by"]
  BY <1>1 DEF BuiltOK, PackCall, NoBlanks
<1>3. TrimName(text.headers["filename"]) = text.headers["filename"]
  <2> DEFINE path == entries[1].path
  <2>1. text.headers["filename"] = IF call.source = "file" THEN path ELSE None
    BY <1>1 DEF BuiltOK, Packed
  <2>2. CASE call.source = "file"
    <3>1. OneFile(entries) /\ EntriesOK(entries)
      BY <2>2 DEF IsPack
    <3>2. 1 \in DOMAIN entries
      BY <3>1 DEF OneFile, EntriesOK
    <3>3. path \in Files /\ SafeName(path) = path
      BY <3>1, <3>2 DEF OneFile, EntriesOK
    <3> HIDE DEF path
    <3>4. path = << path[1] >>
      <4>1. SafeName(path) = <<"payload.bin">> \/ SafeName(path) = << Last(Parts(path)) >>
        BY DEF SafeName, DefaultName
      <4> QED
        BY <3>3, <4>1
    <3>5. Trim(path[1]) = path[1]
      BY <3>3 DEF NoBlanks
    <3> QED
      BY <2>1, <2>2, <3>4, <3>5 DEF TrimName
  <2>3. CASE call.source # "file"
    BY <2>1, <2>3 DEF TrimName
  <2> QED
    BY <2>2, <2>3
<1> QED
  BY <1>1, <1>2, <1>3, TrimmedIsRead DEF BuiltOK

\* No check of any reader finds a fault in a pack, given the options that fit it.
LEMMA PackIsClear ==
    ASSUME NoFunction(None), NoFunction(Bad), NoBlanks, NEW s, NEW text, NEW o \in Options, NEW t,
           IsPack(s.call, s.entries, s.key, text), s.read = ReadBack(text), Fits(s, o, t)
    PROVE  /\ IsClear(View(s.read), o, t) /\ InspectErrors(View(s.read), o, t) = <<>>
<1> DEFINE call == s.call
           packed == Packed(call.source, s.entries)
           c == View(s.read)
<1>1. call \in PackCall /\ EntriesOK(s.entries) /\ (call.source = "file" => OneFile(s.entries))
      /\ (call.mode = "ed25519" => s.key \in Keys)
  BY DEF IsPack
<1>2. /\ call.source \in {"file", "directory"} /\ call.mode \in {"none", "hmac-sha256", "ed25519"}
      /\ call.encryption_key \in Secrets \cup {None} /\ call.sign_key \in Secrets \cup {None}
      /\ call.mode = "hmac-sha256" => call.sign_key # None
  BY <1>1 DEF PackCall
<1>3. s.read = text /\ BuiltOK(text, packed, call) /\ SignedOK(text, call, s.key)
  BY PackIsRead, PackIsBuilt
<1>4. /\ c.wellFormed /\ c.codec = "base64" /\ c.decodes /\ c.unzips
      /\ c.content = packed.payload /\ c.claim = packed.payload /\ c.manifest = packed.manifest_files
      /\ c.ctype = packed.content_type /\ c.filename = packed.filename
      /\ c.enc = call.encryption_key /\ c.sig = call.mode
      /\ c.signedBy = IF call.mode = "none" THEN None ELSE SignKey(call, s.key)
      /\ call.mode = "ed25519" => c.fp = s.key /\ c.inlineKey \in {None, s.key}
  BY <1>1, <1>3, PackedView
<1>5. /\ Admitted(c, o.policy)
      /\ o.encKey = call.encryption_key \/ (call.encryption_key = None /\ o.encKey # Bad)
      /\ call.mode = "none" => Authentic(c, o, t)
      /\ call.mode = "hmac-sha256" => o.keyEnv = call.sign_key /\ ~o.policy.requireRegistry
      /\ call.mode = "ed25519" => VerifyKey(c, o, t) = s.key /\ TrustErrors(c, o, t) = <<>>
  BY DEF Fits
<1>6. ManifestErrors(c) = <<>> /\ c.content.size \in Nat
  <2> HIDE DEF c
  <2> QED
    BY <1>1, <1>2, <1>4, PackedManifest
<1> HIDE DEF c, call, packed
<1>7. call.mode = "none" => o.policy.allowUnsigned /\ ~o.policy.requireRegistry
  BY <1>4, <1>5 DEF Authentic
<1>8. MetadataErrors(c, o.policy) = <<>>
  BY <1>4, <1>5, <1>7, MetadataClear
<1>9. o.encKey # Bad /\ PayloadErrors(c, o.encKey) = <<>>
  <2>1. o.encKey # Bad /\ c.enc # Bad /\ (c.enc = o.encKey \/ c.enc = None)
    BY <1>2, <1>4, <1>5, TrustAssumption, EnvelopeAssumption
  <2> QED
    BY <1>4, <2>1, PayloadClear
<1>10. SizeErrors(c, o.policy) = <<>>
  <2>1. c.content.size <= o.policy.maxPayload /\ o.policy.maxPayload \in Nat
    BY <1>5 DEF Admitted, Options, Policies
  <2> QED
    BY <1>6, <2>1 DEF SizeErrors, Raises
<1>11. call.mode = "hmac-sha256" => HmacErrors(c, o) = <<>>
  <2> SUFFICES ASSUME call.mode = "hmac-sha256" PROVE HmacErrors(c, o) = <<>>
    OBVIOUS
  <2>1. o.keyEnv = call.sign_key /\ call.sign_key \in Secrets /\ c.signedBy = call.sign_key
    BY <1>2, <1>4, <1>5 DEF SignKey
  <2> QED
    BY <2>1, HmacClear, EnvelopeAssumption
<1>12. call.mode = "ed25519" => Ed25519Errors(c, s.key) = <<>> /\ c.inlineKey \in {None, s.key} /\ VerifyKey(c, o, t) = s.key
  <2> SUFFICES ASSUME call.mode = "ed25519"
               PROVE Ed25519Errors(c, s.key) = <<>> /\ c.inlineKey \in {None, s.key} /\ VerifyKey(c, o, t) = s.key
    OBVIOUS
  <2>1. s.key \in Keys /\ c.fp = s.key /\ c.signedBy = s.key /\ c.inlineKey \in {None, s.key}
    BY <1>1, <1>4 DEF SignKey, call
  <2> QED
    BY <1>5, <2>1, GoodSignature
<1>13. TrustErrors(c, o, t) = <<>>
  BY <1>2, <1>5, <1>7, TrustClear
<1>14. SignatureErrors(c, o, t) = <<>>
  BY <1>2, <1>4, <1>11, <1>12 DEF SignatureErrors
<1>15. IsClear(c, o, t)
  BY <1>4, <1>6, <1>8, <1>9, <1>10, <1>13, <1>14 DEF IsClear, RestIsClear
<1>16. InspectErrors(c, o, t) = <<>>
  <2> DEFINE checked == IF ~SignatureChecked(c, o, t) THEN <<>>
                        ELSE IF c.sig = "ed25519" THEN Ed25519Errors(c, InspectKey(c, o, t)) ELSE HmacErrors(c, o)
             trusted == IF c.sig = "ed25519" THEN CommandTrustErrors(c, o, t) ELSE <<>>
  <2>1. checked = <<>>
    <3>1. CASE ~SignatureChecked(c, o, t)
      BY <3>1
    <3>2. CASE SignatureChecked(c, o, t) /\ call.mode = "hmac-sha256"
      BY <1>4, <1>11, <3>2
    <3>3. CASE SignatureChecked(c, o, t) /\ call.mode = "ed25519"
      <4>1. InspectKey(c, o, t) # None
        BY <1>4, <3>3 DEF SignatureChecked
      <4>2. InspectKey(c, o, t) = s.key
        <5>1. CASE o.edPub # None
          BY <1>12, <3>3, <5>1 DEF InspectKey, VerifyKey
        <5>2. CASE o.edPub = None /\ c.inlineKey # None
          BY <1>12, <3>3, <5>2 DEF InspectKey
        <5>3. CASE o.edPub = None /\ c.inlineKey = None
          <6>1. InspectKey(c, o, t) = SignatureTrust(c, o, t).pub
            BY <5>3, SameSignatureTrust DEF InspectKey
          <6>2. VerifyKey(c, o, t) = SignatureTrust(c, o, t).pub
            BY <4>1, <5>3, <6>1 DEF VerifyKey
          <6> QED
            BY <1>12, <3>3, <6>1, <6>2
        <5> QED
          BY <5>1, <5>2, <5>3
      <4> QED
        BY <1>4, <1>12, <3>3, <4>2
    <3>4. call.mode = "none" => ~SignatureChecked(c, o, t)
      BY <1>4 DEF SignatureChecked
    <3> QED
      BY <1>2, <3>1, <3>2, <3>3, <3>4
  <2>2. trusted = <<>>
    BY <1>13, SameTrustErrors
  <2>3. ParseErrors(c) = <<>>
    BY <1>4 DEF ParseErrors, Raises
  <2>4. InspectErrors(c, o, t) = ParseErrors(c) \o MetadataErrors(c, o.policy) \o checked \o trusted
                                 \o PayloadErrors(c, o.encKey) \o SizeErrors(c, o.policy) \o ManifestErrors(c)
    BY Zenon DEF InspectErrors
  <2> HIDE DEF checked, trusted
  <2>5. InspectErrors(c, o, t) = <<>> \o <<>> \o <<>> \o <<>> \o <<>> \o <<>> \o <<>>
    BY <1>6, <1>8, <1>9, <1>10, <2>1, <2>2, <2>3, <2>4
  <2> QED
    BY <2>5
<1> QED
  BY <1>15, <1>16 DEF c

-----------------------------------------------------------------------------
\* The walk of the packer.

\* Between the listing and the last reading: what was read is a bundle of listed
\* files, each read once.
WalkOK ==
    /\ tree \in [Files -> Blobs \cup {None}]
    /\ pack.pc \in {"idle", "walk", "sealed", "opened"} /\ pack.call \in PackCall \cup {None}
    /\ pack.listed \subseteq DOMAIN Listing /\ EntriesOK(pack.entries)
    /\ pack.pc = "walk" =>
         /\ \A i \in pack.listed, j \in DOMAIN pack.entries : pack.entries[j].path # Listing[i]
         /\ pack.call.source = "file" =>
              \/ pack.entries = <<>> /\ \E i \in DOMAIN Listing : pack.listed = {i} /\ SafeName(Listing[i]) = Listing[i]
              \/ pack.listed = {} /\ OneFile(pack.entries)
    /\ pack.pc \in {"sealed", "opened"} => IsPack(pack.call, pack.entries, pack.key, pack.text)

SentOK == \A s \in sent : \E text : IsPack(s.call, s.entries, s.key, text) /\ s.read = ReadBack(text)

LEMMA ListingIs == Listing \in Seq(PathStrings) /\ \A i, j \in DOMAIN Listing : Listing[i] = Listing[j] => i = j
  BY HandoverAssumption

LEMMA EmptyWalk == EntriesOK(<<>>)
  BY DEF EntriesOK, DistinctPaths

LEMMA WalkInit == Init => WalkOK /\ SentOK
<1> SUFFICES ASSUME Init PROVE WalkOK /\ SentOK
  OBVIOUS
<1>1. /\ tree \in [Files -> Blobs] /\ pack.pc = "idle" /\ pack.call = None /\ pack.listed = {} /\ pack.entries = <<>>
      /\ sent = {}
  BY DEF Init, NoPack
<1> QED
  BY <1>1, EmptyWalk DEF WalkOK, SentOK

\* One more entry, of a path not read before.
LEMMA OneMoreEntry ==
    ASSUME NEW entries, EntriesOK(entries), NEW path \in Files, NEW data \in Blobs,
           \A j \in DOMAIN entries : entries[j].path # path
    PROVE  LET new == [path |-> path, data |-> data, encoded |-> TRUE, metaOk |-> TRUE]
           IN /\ EntriesOK(Append(entries, new)) /\ Len(Append(entries, new)) = Len(entries) + 1
              /\ Append(entries, new)[Len(entries) + 1] = new
              /\ DOMAIN Append(entries, new) = DOMAIN entries \cup {Len(entries) + 1}
              /\ \A j \in DOMAIN entries : Append(entries, new)[j] = entries[j]
<1> DEFINE new  == [path |-> path, data |-> data, encoded |-> TRUE, metaOk |-> TRUE]
           more == Append(entries, new)
<1>1. path \in PathStrings
  BY ListingIs DEF Files
<1>2. new \in BundleEntry /\ new.path = path /\ new.encoded /\ new.metaOk
  BY <1>1 DEF BundleEntry
<1>3. entries \in Seq(BundleEntry)
  BY DEF EntriesOK
<1> HIDE DEF new
<1>4. /\ more \in Seq(BundleEntry) /\ Len(more) = Len(entries) + 1 /\ more[Len(entries) + 1] = new
      /\ DOMAIN more = DOMAIN entries \cup {Len(entries) + 1}
      /\ \A j \in DOMAIN entries : more[j] = entries[j]
  BY <1>2, <1>3
<1> HIDE DEF more
<1>5. DistinctPaths(more)
  <2> SUFFICES ASSUME NEW i \in DOMAIN more, NEW j \in DOMAIN more, more[i].path = more[j].path PROVE i = j
    BY DEF DistinctPaths
  <2> QED
    BY <1>2, <1>4 DEF EntriesOK, DistinctPaths
<1>6. \A i \in DOMAIN more : more[i].path \in Files /\ more[i].encoded /\ more[i].metaOk
  BY <1>2, <1>4 DEF EntriesOK
<1> QED
  BY <1>4, <1>5, <1>6 DEF EntriesOK, more, new

LEMMA WalkStep == ASSUME HandInv, WalkOK, SentOK, [Next]_vars PROVE WalkOK' /\ SentOK'
<1> USE DEF HandInv
<1>1. CASE EditTree
  <2>1. tree' \in [Files -> Blobs \cup {None}] /\ UNCHANGED <<pack, sent>>
    BY <1>1 DEF EditTree, WalkOK
  <2> QED
    BY <2>1 DEF WalkOK, SentOK
<1>2. ASSUME NEW call \in left.packCalls, StartPack(call) PROVE WalkOK' /\ SentOK'
  <2>1. call \in PackCall
    BY DEF Budget
  <2>2. PICK listed \in SUBSET There :
             /\ IF call.source = "file"
                THEN \E i \in There : SafeName(Listing[i]) = Listing[i] /\ listed = {i}
                ELSE listed = There
             /\ pack' = [NoPack EXCEPT !.pc = "walk", !.call = call, !.listed = listed]
    BY <1>2 DEF StartPack
  <2>3. /\ pack'.pc = "walk" /\ pack'.call = call /\ pack'.listed = listed /\ pack'.entries = <<>>
        /\ UNCHANGED <<tree, sent>>
    BY <1>2, <2>2 DEF StartPack, NoPack
  <2>4. There \subseteq DOMAIN Listing
    BY DEF There
  <2> QED
    BY <2>1, <2>2, <2>3, <2>4, EmptyWalk DEF WalkOK, SentOK
<1>3. CASE ReadNext
  <2> DEFINE i    == First(pack.listed)
             path == Listing[i]
             data == tree[path]
             new  == [path |-> path, data |-> data, encoded |-> TRUE, metaOk |-> TRUE]
  <2>1. pack.pc = "walk" /\ pack.listed # {} /\ tree[NextPath] # None /\ Reads(NextPath, tree[NextPath])
        /\ UNCHANGED <<tree, sent>>
    BY <1>3 DEF ReadNext, Walking
  <2>2. NextPath = path
    BY DEF NextPath
  <2>3. i \in pack.listed /\ i \in DOMAIN Listing
    <3>1. DOMAIN Listing \subseteq Nat /\ pack.listed \subseteq DOMAIN Listing
      BY ListingIs DEF WalkOK
    <3> QED
      BY <2>1, <3>1, FirstIsLeast
  <2>4. path \in Files /\ data \in Blobs
    BY <2>1, <2>2, <2>3 DEF Files, WalkOK
  <2>5. \A j \in DOMAIN pack.entries : pack.entries[j].path # path
    BY <2>1, <2>3 DEF WalkOK
  <2>6. /\ pack'.pc = "walk" /\ pack'.call = pack.call /\ pack'.listed = pack.listed \ {i}
        /\ pack'.entries = Append(pack.entries, new)
    BY <2>1, <2>2 DEF Reads, PackOK
  <2> DEFINE more == Append(pack.entries, new)
  <2>7. /\ EntriesOK(more) /\ Len(more) = Len(pack.entries) + 1 /\ more[Len(pack.entries) + 1] = new
        /\ DOMAIN more = DOMAIN pack.entries \cup {Len(pack.entries) + 1}
        /\ \A j \in DOMAIN pack.entries : more[j] = pack.entries[j]
    <3> HIDE DEF path, data
    <3> QED
      BY <2>4, <2>5, OneMoreEntry DEF WalkOK
  <2>8. new.path = path
    OBVIOUS
  <2> HIDE DEF more, new, path, data, i
  <2>9. \A k \in pack'.listed, j \in DOMAIN more : more[j].path # Listing[k]
    <3> SUFFICES ASSUME NEW k \in pack'.listed, NEW j \in DOMAIN more PROVE more[j].path # Listing[k]
      OBVIOUS
    <3>1. k \in pack.listed /\ k # i /\ k \in DOMAIN Listing
      BY <2>6 DEF WalkOK
    <3>2. path # Listing[k]
      BY <2>3, <3>1, ListingIs DEF path
    <3> QED
      BY <2>1, <2>7, <2>8, <3>1, <3>2 DEF WalkOK
  <2>10. pack.call.source = "file" => pack'.listed = {} /\ OneFile(more)
    <3> SUFFICES ASSUME pack.call.source = "file" PROVE pack'.listed = {} /\ OneFile(more)
      OBVIOUS
    <3>1. PICK k \in DOMAIN Listing : pack.entries = <<>> /\ pack.listed = {k} /\ SafeName(Listing[k]) = Listing[k]
      BY <2>1 DEF WalkOK
    <3>2. k = i /\ Len(pack.entries) = 0
      BY <2>3, <3>1
    <3> QED
      BY <2>6, <2>7, <2>8, <3>1, <3>2 DEF OneFile, path
  <2>11. pack'.entries = more
    BY <2>6 DEF more
  <2>12. WalkOK'
    BY <2>1, <2>6, <2>7, <2>9, <2>10, <2>11 DEF WalkOK
  <2> QED
    BY <2>1, <2>12 DEF SentOK
<1>4. CASE PackEnds
  <2>1. /\ pack'.pc = "idle" /\ pack'.call = None /\ pack'.listed = {} /\ pack'.entries = <<>> /\ UNCHANGED <<tree, sent>>
    BY <1>4 DEF PackEnds, NoPack
  <2> QED
    BY <2>1, EmptyWalk DEF WalkOK, SentOK
<1>5. CASE Seal
  <2> DEFINE packed == Packed(pack.call.source, pack.entries)
             built  == BuildEnvelope(packed, pack.call, left.packs)
             text   == Signed(built, pack.call, private)
  <2>1. /\ pack.pc = "walk" /\ pack.listed = {} /\ (pack.call.mode = "ed25519" => private \in Keys)
        /\ UNCHANGED <<tree, sent>>
    BY <1>5 DEF Seal, Walked
  <2>2. pack' = [pack EXCEPT !.pc = "sealed", !.key = private, !.text = text]
    BY <1>5 DEF Seal
  <2>3. \E nonce : text = Signed(BuildEnvelope(packed, pack.call, nonce), pack.call, private)
    OBVIOUS
  <2> HIDE DEF text
  <2>4. /\ pack'.pc = "sealed" /\ pack'.call = pack.call /\ pack'.listed = pack.listed
        /\ pack'.entries = pack.entries /\ pack'.key = private /\ pack'.text = text
    BY <2>2 DEF PackOK
  <2>5. pack.call.source = "file" => OneFile(pack.entries)
    BY <2>1 DEF WalkOK
  <2>6. pack.call \in PackCall /\ EntriesOK(pack.entries)
    BY <2>1 DEF WalkOK, PackOK
  <2>7. IsPack(pack.call, pack.entries, private, text)
    BY <2>1, <2>3, <2>5, <2>6 DEF IsPack
  <2>8. WalkOK'
    BY <2>1, <2>4, <2>7 DEF WalkOK
  <2> QED
    BY <2>1, <2>8 DEF SentOK
<1>6. CASE OpenOut
  <2>1. /\ pack.pc = "sealed" /\ pack'.pc = "opened" /\ pack'.call = pack.call /\ pack'.listed = pack.listed
        /\ pack'.entries = pack.entries /\ pack'.key = pack.key /\ pack'.text = pack.text /\ UNCHANGED <<tree, sent>>
    BY <1>6 DEF OpenOut, PackOK
  <2> QED
    BY <2>1 DEF WalkOK, SentOK
<1>7. CASE WriteOut
  <2> DEFINE new == [read |-> file', call |-> pack.call, key |-> pack.key, entries |-> pack.entries]
  <2>1. /\ pack.pc = "opened" /\ pack'.pc = "idle" /\ pack'.call = None /\ pack'.listed = {} /\ pack'.entries = <<>>
        /\ UNCHANGED tree /\ file' = ReadBack(pack.text) /\ sent' = sent \cup {new}
    BY <1>7 DEF WriteOut, NoPack
  <2>2. IsPack(pack.call, pack.entries, pack.key, pack.text)
    BY <2>1 DEF WalkOK
  <2>3. new.call = pack.call /\ new.key = pack.key /\ new.entries = pack.entries /\ new.read = ReadBack(pack.text)
    BY <2>1
  <2> HIDE DEF new
  <2>4. SentOK'
    BY <2>1, <2>2, <2>3 DEF SentOK
  <2>5. WalkOK'
    BY <2>1, EmptyWalk DEF WalkOK
  <2> QED
    BY <2>4, <2>5
<1>8. CASE UNCHANGED <<tree, pack, sent>>
  BY <1>8 DEF WalkOK, SentOK
<1>9. Alter \/ (\E call \in left.readCalls : StartRead(call)) \/ (\E t \in Times : CheckRead(t)) \/ ReadAgain \/ Unpack
        \/ Keygen \/ UNCHANGED vars
        => UNCHANGED <<tree, pack, sent>>
  BY Zenon DEF Alter, StartRead, CheckRead, ReadAgain, Unpack, Keygen, vars
<1> QED
  BY <1>1, <1>2, <1>3, <1>4, <1>5, <1>6, <1>7, <1>8, <1>9, Zenon DEF Next

LEMMA WalkAlways == Spec => [](WalkOK /\ SentOK)
<1>1. HandInv /\ WalkOK /\ SentOK /\ [Next]_vars => (WalkOK /\ SentOK)'
  BY WalkStep
<1> QED
  BY <1>1, WalkInit, HandAlways, PTL DEF Spec

-----------------------------------------------------------------------------
\* The answers of the readers.

LEMMA VerifyIsList ==
    ASSUME NEW c, c.sig \in SigModes, NEW o, NEW t
    PROVE  /\ VerifyErrors(c, o, t) \in Seq(Reasons) /\ CommandErrors(c, o, t) \in Seq(Reasons)
           /\ InspectErrors(c, o, t) \in Seq(Reasons)
<1> DEFINE e1 == ParseErrors(c)
           e2 == MetadataErrors(c, o.policy)
           e3 == SignatureErrors(c, o, t)
           e4 == TrustErrors(c, o, t)
           e5 == Raises(o.encKey = Bad, "OTHER")
           e6 == PayloadErrors(c, o.encKey)
           e7 == SizeErrors(c, o.policy)
           e8 == ManifestErrors(c)
           checked == IF ~SignatureChecked(c, o, t) THEN <<>>
                      ELSE IF c.sig = "ed25519" THEN Ed25519Errors(c, InspectKey(c, o, t)) ELSE HmacErrors(c, o)
           trusted == IF c.sig = "ed25519" THEN CommandTrustErrors(c, o, t) ELSE <<>>
<1>1. /\ e1 \in Seq(Reasons) /\ e2 \in Seq(Reasons) /\ e3 \in Seq(Reasons) /\ e4 \in Seq(Reasons)
      /\ e5 \in Seq(Reasons) /\ e6 \in Seq(Reasons) /\ e7 \in Seq(Reasons) /\ e8 \in Seq(Reasons)
  BY RestIsList, SignatureIsList, TrustSound
<1>2. checked \in Seq(Reasons)
  BY Ed25519Sound, HmacSound
<1>3. trusted \in Seq(Reasons)
  BY SameTrustErrors, TrustSound
<1>4. VerifyErrors(c, o, t) = e1 \o e2 \o e3 \o e4 \o e5 \o e6 \o e7 \o e8
  BY Zenon DEF VerifyErrors
<1>5. CommandErrors(c, o, t) = e5 \o e1 \o e2 \o e3 \o e4 \o e6 \o e7 \o e8
  BY SignatureIsList, SameTrustErrors, Zenon DEF CommandErrors
<1>6. InspectErrors(c, o, t) = e1 \o e2 \o checked \o trusted \o e6 \o e7 \o e8
  BY Zenon DEF InspectErrors
<1> HIDE DEF e1, e2, e3, e4, e5, e6, e7, e8, checked, trusted
<1>7. \A a, b \in Seq(Reasons) : a \o b \in Seq(Reasons)
  OBVIOUS
<1>8. e1 \o e2 \o e3 \o e4 \o e5 \o e6 \o e7 \o e8 \in Seq(Reasons)
  BY <1>1, <1>7
<1>9. e5 \o e1 \o e2 \o e3 \o e4 \o e6 \o e7 \o e8 \in Seq(Reasons)
  BY <1>1, <1>7
<1>10. e1 \o e2 \o checked \o trusted \o e6 \o e7 \o e8 \in Seq(Reasons)
  BY <1>1, <1>2, <1>3, <1>7
<1> QED
  BY <1>4, <1>5, <1>6, <1>8, <1>9, <1>10

LEMMA ReadIsList ==
    ASSUME NEW kind \in {"verify_capsule", "unpack_capsule", "verify", "unpack", "inspect"},
           NEW text, text \in {None, Bad} \/ Shaped(text), NEW o, NEW t
    PROVE  ReadErrors(kind, text, o, t) \in Seq(Reasons)
<1>1. CASE text \in {None, Bad}
  BY <1>1, Codes DEF ReadErrors
<1>2. CASE text \notin {None, Bad}
  <2>1. View(text).sig \in SigModes
    BY <1>2 DEF View, Shaped
  <2> DEFINE c == View(text)
  <2>2. /\ VerifyErrors(c, o, t) \in Seq(Reasons) /\ CommandErrors(c, o, t) \in Seq(Reasons)
        /\ InspectErrors(c, o, t) \in Seq(Reasons)
    BY <2>1, VerifyIsList
  <2> HIDE DEF c
  <2> QED
    BY <1>2, <2>2 DEF ReadErrors, c
<1> QED
  BY <1>1, <1>2

\* Where the answer of a reader comes from, and the files it has written.
Answered ==
    \/ /\ reader.errors = ReadErrors(reader.call.kind, reader.first, reader.opts, reader.at)
       /\ reader.files = <<>>
    \/ /\ ReadErrors(reader.call.kind, reader.first, reader.opts, reader.at) = <<>>
       /\ reader.call.kind = "unpack_capsule" /\ reader.second \in {None, Bad} /\ reader.files = <<>>
    \/ /\ ReadErrors(reader.call.kind, reader.first, reader.opts, reader.at) = <<>>
       /\ reader.call.kind = "unpack" => reader.second = reader.first
       /\ reader.call.kind \in {"unpack", "unpack_capsule"}
       /\ LET c == ToUnpack(reader.first, reader.second)
          IN /\ reader.errors = Raises(NotABundle(c), "UNPACK_FAILED")
             /\ reader.files = IF NotABundle(c) THEN <<>> ELSE FilesToWrite(c)

AnswerOK ==
    /\ reader.at \in Times /\ reader.errors \in Seq(Reasons)
    /\ reader.opts \in Options \cup {None} /\ (reader.pc # "idle" => reader.opts \in Options)
    /\ reader.pc # "done" => reader.files = <<>>
    /\ reader.pc \in {"again", "write"} => reader.call.kind \in {"unpack", "unpack_capsule"}
    /\ (reader.pc = "write" /\ reader.call.kind = "unpack") => reader.second = reader.first
    /\ reader.pc = "again" => reader.call.kind = "unpack_capsule"
    /\ reader.pc = "done" => Answered

LEMMA AnswerInit == Init => AnswerOK
<1> SUFFICES ASSUME Init PROVE AnswerOK
  OBVIOUS
<1>1. 0 \in Times
  BY TrustAssumption DEF Times
<1> QED
  BY <1>1 DEF Init, NoReader, AnswerOK

LEMMA AnswerStep == ASSUME HandInv, AnswerOK, [Next]_vars PROVE AnswerOK'
<1> USE DEF HandInv
<1>1. ASSUME NEW call \in left.readCalls, StartRead(call) PROVE AnswerOK'
  <2>1. call.opts \in Options
    BY DEF Budget, ReadCall
  <2>2. /\ reader'.pc = "check" /\ reader'.at = 0 /\ reader'.errors = <<>> /\ reader'.opts = call.opts
        /\ reader'.files = <<>>
    BY <1>1 DEF StartRead, NoReader
  <2>3. 0 \in Times
    BY TrustAssumption DEF Times
  <2> QED
    BY <2>1, <2>2, <2>3 DEF AnswerOK
<1>2. ASSUME NEW t \in Times, CheckRead(t) PROVE AnswerOK'
  <2> DEFINE o == IF reader.call.ownKey
                  THEN [reader.opts EXCEPT !.edPub = IF public \in Keys THEN public ELSE Bad] ELSE reader.opts
             kind == reader.call.kind
             errs == ReadErrors(kind, reader.first, o, t)
             place == IF errs # <<>> \/ reader.call.kind \notin {"unpack", "unpack_capsule"} THEN "done"
                      ELSE IF reader.call.kind = "unpack_capsule" THEN "again" ELSE "write"
  <2>1. reader.pc = "check" /\ reader' = [reader EXCEPT !.opts = o, !.at = t, !.errors = errs,
                                                        !.second = reader.first, !.pc = place]
    BY <1>2, Zenon DEF CheckRead
  <2>2. o \in Options
    <3>1. reader.opts \in Options
      BY <2>1 DEF AnswerOK
    <3>2. (IF public \in Keys THEN public ELSE Bad) \in Keys \cup {None, Bad}
      OBVIOUS
    <3> QED
      BY <3>1, <3>2 DEF Options
  <2>3. kind \in {"verify_capsule", "unpack_capsule", "verify", "unpack", "inspect"}
    BY <2>1 DEF ReaderOK, ReadCall
  <2>4. errs \in Seq(Reasons)
    <3>1. reader.first \in {None, Bad} \/ Shaped(reader.first)
      BY DEF FilesOK, FileOK
    <3> HIDE DEF o, kind
    <3> QED
      BY <2>3, <3>1, ReadIsList
  <2>5. /\ place \in {"done", "again", "write"} /\ (place # "done" => errs = <<>> /\ kind \in {"unpack", "unpack_capsule"})
        /\ (place = "again" => kind = "unpack_capsule")
    OBVIOUS
  <2>6. errs = ReadErrors(kind, reader.first, o, t) /\ kind = reader.call.kind
    OBVIOUS
  <2> HIDE DEF o, errs, place, kind
  <2>7. /\ reader'.pc = place /\ reader'.call = reader.call /\ reader'.opts = o /\ reader'.at = t
        /\ reader'.first = reader.first /\ reader'.second = reader.first /\ reader'.errors = errs
        /\ reader'.files = <<>>
    BY <2>1 DEF ReaderOK, AnswerOK
  <2>8. Answered'
    BY <2>6, <2>7 DEF Answered
  <2> QED
    BY <2>2, <2>4, <2>5, <2>6, <2>7, <2>8 DEF AnswerOK
<1>3. CASE ReadAgain
  <2> DEFINE errs == IF file = None THEN <<"OTHER">> ELSE Raises(file = Bad, "CAPSULE_PARSE_ERROR")
             place == IF file \in {None, Bad} THEN "done" ELSE "write"
  <2>1. reader.pc = "again" /\ reader' = [reader EXCEPT !.second = file, !.errors = errs, !.pc = place]
    BY <1>3, Zenon DEF ReadAgain
  <2>2. place \in {"done", "write"} /\ (place = "done" => file \in {None, Bad})
    OBVIOUS
  <2>3. errs \in Seq(Reasons)
    BY Codes DEF Raises
  <2> HIDE DEF errs, place
  <2>4. /\ reader'.pc = place /\ reader'.call = reader.call /\ reader'.opts = reader.opts /\ reader'.at = reader.at
        /\ reader'.first = reader.first /\ reader'.second = file /\ reader'.errors = errs /\ reader'.files = reader.files
    BY <2>1 DEF ReaderOK
  <2>5. reader.call.kind = "unpack_capsule" /\ reader.files = <<>>
        /\ ReadErrors(reader.call.kind, reader.first, reader.opts, reader.at) = <<>>
    BY <2>1 DEF ReaderOK, AnswerOK
  <2>6. place = "done" => Answered'
    BY <2>2, <2>4, <2>5 DEF Answered
  <2> QED
    BY <2>1, <2>2, <2>3, <2>4, <2>5, <2>6 DEF AnswerOK
<1>4. CASE Unpack
  <2> DEFINE c == ToUnpack(reader.first, reader.second)
             errs == Raises(NotABundle(c), "UNPACK_FAILED")
             files == IF NotABundle(c) THEN <<>> ELSE FilesToWrite(c)
  <2>1. reader.pc = "write" /\ reader' = [reader EXCEPT !.pc = "done", !.errors = errs, !.files = files]
    BY <1>4, Zenon DEF Unpack
  <2>2. errs \in Seq(Reasons)
    <3>1. "UNPACK_FAILED" \in Reasons
      BY DEF Reasons
    <3> QED
      BY <3>1, Codes, OneReason DEF Raises
  <2>3. errs = Raises(NotABundle(ToUnpack(reader.first, reader.second)), "UNPACK_FAILED")
        /\ files = IF NotABundle(ToUnpack(reader.first, reader.second)) THEN <<>>
                   ELSE FilesToWrite(ToUnpack(reader.first, reader.second))
    BY Zenon
  <2> HIDE DEF errs, files
  <2>4. /\ reader'.pc = "done" /\ reader'.call = reader.call /\ reader'.opts = reader.opts /\ reader'.at = reader.at
        /\ reader'.first = reader.first /\ reader'.second = reader.second /\ reader'.errors = errs /\ reader'.files = files
    BY <2>1 DEF ReaderOK
  <2>5. /\ ReadErrors(reader.call.kind, reader.first, reader.opts, reader.at) = <<>>
        /\ reader.call.kind \in {"unpack", "unpack_capsule"}
        /\ reader.call.kind = "unpack" => reader.second = reader.first
    BY <2>1 DEF ReaderOK, AnswerOK
  <2>6. Answered'
    BY <2>3, <2>4, <2>5 DEF Answered
  <2> QED
    BY <2>1, <2>2, <2>4, <2>6 DEF AnswerOK
<1>5. CASE UNCHANGED reader
  BY <1>5 DEF AnswerOK, Answered
<1>6. EditTree \/ ReadNext \/ PackEnds \/ Seal \/ OpenOut \/ WriteOut \/ Alter \/ Keygen \/ UNCHANGED vars
        \/ (\E call \in left.packCalls : StartPack(call))
        => UNCHANGED reader
  BY Zenon DEF EditTree, ReadNext, PackEnds, Seal, OpenOut, WriteOut, Alter, Keygen, vars, StartPack
<1> QED
  BY <1>1, <1>2, <1>3, <1>4, <1>5, <1>6, Zenon DEF Next

LEMMA AnswerAlways == Spec => []AnswerOK
<1>1. HandInv /\ AnswerOK /\ [Next]_vars => AnswerOK'
  BY AnswerStep
<1> QED
  BY <1>1, AnswerInit, HandAlways, PTL DEF Spec

\* The key files hold keys, or nothing, or nothing whole.
KeysTyped ==
    private \in Made \cup Drawn \cup {None, Bad} /\ public \in Made \cup Drawn \cup {None, Bad}

LEMMA KeysTypedAlways == Spec => []KeysTyped
<1>1. Init => KeysTyped
  BY DEF Init, KeyInit, KeysTyped
<1>2. KeysTyped /\ [Next]_vars => KeysTyped'
  <2> SUFFICES ASSUME KeysTyped, [Next]_vars PROVE KeysTyped'
    OBVIOUS
  <2>1. CASE UNCHANGED keyVars
    BY <2>1 DEF keyVars, KeysTyped
  <2>2. ASSUME NEW k \in Drawn, KeyStep(k) \/ KillKeys(k) PROVE KeysTyped'
    BY <2>2 DEF KeysTyped, KeyStep, Check, OpenPrivate, WritePrivate, OpenPublic, WritePublic, KillKeys
  <2> QED
    BY <2>1, <2>2, KeyOrNot
<1> QED
  BY <1>1, <1>2, PTL DEF Spec

\* Every variable keeps to its type.
THEOREM HandoverIsTyped == Spec => []TypeOK
<1>1. HandInv /\ WalkOK /\ AnswerOK /\ KeysTyped => TypeOK
  <2> SUFFICES ASSUME HandInv, WalkOK, AnswerOK, KeysTyped PROVE TypeOK
    OBVIOUS
  <2>1. \A i \in DOMAIN pack.entries : pack.entries[i] \in BundleEntry
    BY DEF WalkOK, EntriesOK
  <2>2. \A i \in DOMAIN reader.errors : reader.errors[i] \in Reasons
    BY DEF AnswerOK
  <2>3. reader.pc \in {"idle", "check", "again", "write", "done"}
    BY DEF HandInv, ReaderOK
  <2> QED
    BY <2>1, <2>2, <2>3 DEF TypeOK, WalkOK, AnswerOK, KeysTyped
<1> QED
  BY <1>1, HandAlways, WalkAlways, AnswerAlways, KeysTypedAlways, PTL

-----------------------------------------------------------------------------
\* What the readers make of a pack.

LEMMA SameUnpack == ASSUME NEW e PROVE ToUnpack(e, e) = View(e)
<1> DEFINE v == View(e)
<1>1. v = [i \in DOMAIN v |-> v[i]] /\ v.ctype = e.headers.content_type /\ v.filename = e.headers.filename
  BY DEF View
<1>2. ToUnpack(e, e) = [v EXCEPT !.ctype = e.headers.content_type, !.filename = e.headers.filename]
  BY Zenon DEF ToUnpack
<1> HIDE DEF v
<1>3. [v EXCEPT !.ctype = v.ctype, !.filename = v.filename] = v
  BY <1>1
<1> QED
  BY <1>1, <1>2, <1>3 DEF v

LEMMA SomeEnvelope ==
    ASSUME NoFunction(None), NoFunction(Bad), NEW e, Shaped(e) PROVE e \notin {None, Bad}
<1> DEFINE f == [headers |-> e.headers, payload |-> e.payload]
<1>1. f = [i \in DOMAIN f |-> f[i]]
  OBVIOUS
<1>2. e = f
  BY DEF Shaped
<1> HIDE DEF f
<1> QED
  BY <1>1, <1>2 DEF NoFunction

\* An accepted capsule with a manifest can be unpacked.
LEMMA ClearIsBundle ==
    ASSUME NEW c, ManifestErrors(c) = <<>>, c.manifest # None PROVE ~NotABundle(c)
<1>1. ManifestMatches(c)
  BY Codes DEF ManifestErrors, Raises
<1> QED
  BY <1>1 DEF ManifestMatches, BundleMatches, NotABundle

\* The answer to a capsule in which the checks find nothing.
LEMMA ClearAnswer ==
    ASSUME HandInv, AnswerOK, reader.pc = "done", reader.first \notin {None, Bad},
           ReadErrors(reader.call.kind, reader.first, reader.opts, reader.at) = <<>>,
           reader.second = reader.first, ~NotABundle(View(reader.first))
    PROVE  reader.errors = <<>>
<1>1. Answered
  BY DEF AnswerOK
<1>2. ToUnpack(reader.first, reader.second) = View(reader.first)
  BY SameUnpack
<1> QED
  BY <1>1, <1>2 DEF Answered, Raises

\* Every pack has a manifest, and one that its payload agrees with.
LEMMA PackHasManifest ==
    ASSUME NoFunction(None), NEW call, NEW entries, NEW key, NEW text, IsPack(call, entries, key, text)
    PROVE  Packed(call.source, entries).manifest_files # None
<1> DEFINE packed == Packed(call.source, entries)
           c == [ manifest |-> packed.manifest_files, filename |-> packed.filename,
                  ctype |-> packed.content_type, content |-> packed.payload ]
<1>1. /\ call.source \in {"file", "directory"} /\ EntriesOK(entries)
      /\ call.source = "file" => OneFile(entries)
  BY DEF IsPack, PackCall
<1>2. /\ c.manifest = packed.manifest_files /\ c.filename = packed.filename
      /\ c.ctype = packed.content_type /\ c.content = packed.payload
  OBVIOUS
<1> HIDE DEF c
<1> QED
  BY <1>1, <1>2, PackedManifest

LEMMA PackedIsCleared ==
    ASSUME NoFunction(None), NoFunction(Bad), NoBlanks, HandInv, SentOK, AnswerOK,
           NEW s \in sent, reader.pc = "done", reader.first = s.read, reader.second = s.read,
           Fits(s, reader.opts, reader.at)
    PROVE  reader.errors = <<>>
<1> DEFINE e == reader.first
           o == reader.opts
           t == reader.at
           kind == reader.call.kind
           c == View(e)
<1>1. PICK text : IsPack(s.call, s.entries, s.key, text) /\ s.read = ReadBack(text)
  BY DEF SentOK
<1>2. o \in Options /\ kind \in {"verify_capsule", "unpack_capsule", "verify", "unpack", "inspect"}
  BY DEF AnswerOK, HandInv, ReaderOK, ReadCall
<1>3. IsClear(c, o, t) /\ InspectErrors(c, o, t) = <<>>
  BY <1>1, <1>2, PackIsClear
<1>4. Shaped(e)
  <2>1. e = text
    BY <1>1, PackIsRead
  <2>2. BuiltOK(text, Packed(s.call.source, s.entries), s.call)
    BY <1>1, PackIsBuilt
  <2>3. Shaped(text)
    BY <2>2, Zenon DEF BuiltOK
  <2> QED
    BY <2>1, <2>3
<1>5. e \notin {None, Bad}
  BY <1>4, SomeEnvelope
<1>6. c.sig \in SigModes
  BY <1>4 DEF View, Shaped
<1>7. VerifyErrors(c, o, t) = <<>> /\ CommandErrors(c, o, t) = <<>>
  <2> HIDE DEF c
  <2> QED
    BY <1>3, <1>6, VerifyIsClear, CommandIsClear
<1>8. ReadErrors(kind, e, o, t) = <<>>
  <2> HIDE DEF o, t, kind, e
  <2> QED
    BY <1>2, <1>3, <1>5, <1>7 DEF ReadErrors
<1>9. ~NotABundle(c)
  <2>1. ManifestErrors(c) = <<>>
    BY <1>3, Zenon DEF IsClear, RestIsClear
  <2>2. c.manifest # None
    <3> DEFINE packed == Packed(s.call.source, s.entries)
    <3>1. e = text /\ BuiltOK(text, packed, s.call)
      BY <1>1, PackIsRead, PackIsBuilt
    <3>2. c.manifest = packed.manifest_files /\ c.filename = packed.filename /\ c.ctype = packed.content_type
      BY <3>1 DEF View, BuiltOK
    <3> HIDE DEF c, packed
    <3>3. packed.manifest_files # None
      BY <1>1, PackHasManifest DEF packed
    <3> QED
      BY <3>2, <3>3
  <2> HIDE DEF c
  <2> QED
    BY <2>1, <2>2, ClearIsBundle
<1> QED
  BY <1>5, <1>8, <1>9, ClearAnswer

\* What was packed is accepted by every command and function that is given the keys
\* and the policy of its packer, however its directory changed while it was walked;
\* where no name or author has blanks around it.
THEOREM PackedAlwaysAccepted ==
    ASSUME NoFunction(None), NoFunction(Bad), NoBlanks PROVE Spec => []PackedIsAccepted
<1>1. HandInv /\ SentOK /\ AnswerOK => PackedIsAccepted
  BY PackedIsCleared DEF PackedIsAccepted
<1>2. Spec => [](WalkOK /\ SentOK)
  BY WalkAlways
<1> QED
  BY <1>1, <1>2, HandAlways, AnswerAlways, PTL

\* Unpacking a capsule that was not touched gives back the files that were read, under
\* their names and with their contents, for any directory and any options of pack.
THEOREM UnpackedIsWhatWasPacked ==
    ASSUME NoFunction(None), NoFunction(Bad), NoBlanks PROVE Spec => []UnpackedIsPacked
<1>1. SentOK /\ AnswerOK => UnpackedIsPacked
  <2> SUFFICES ASSUME SentOK, AnswerOK, NEW s \in sent,
                      reader.files # <<>>, reader.first = s.read, reader.second = s.read
               PROVE  /\ Len(reader.files) = Len(s.entries)
                      /\ \A i \in DOMAIN s.entries :
                           /\ reader.files[i].path = s.entries[i].path
                           /\ reader.files[i].data = IF s.call.source = "file" THEN FileContent(s.entries[i].data)
                                                     ELSE s.entries[i].data
    BY DEF UnpackedIsPacked
  <2> DEFINE c == View(s.read)
             packed == Packed(s.call.source, s.entries)
  <2>1. PICK text : IsPack(s.call, s.entries, s.key, text) /\ s.read = ReadBack(text)
    BY DEF SentOK
  <2>2. /\ s.call.source \in {"file", "directory"} /\ s.call \in PackCall /\ EntriesOK(s.entries)
        /\ s.call.source = "file" => OneFile(s.entries)
    BY <2>1 DEF IsPack, PackCall
  <2>3. s.read = text /\ BuiltOK(text, packed, s.call) /\ SignedOK(text, s.call, s.key)
    BY <2>1, PackIsRead, PackIsBuilt
  <2>4. /\ c.manifest = packed.manifest_files /\ c.filename = packed.filename
        /\ c.ctype = packed.content_type /\ c.content = packed.payload
    BY <2>2, <2>3, PackedView
  <2>5. reader.files = FilesToWrite(c)
    <3>1. reader.pc = "done" /\ Answered
      BY DEF AnswerOK
    <3>2. ToUnpack(reader.first, reader.second) = c
      BY SameUnpack
    <3> HIDE DEF c
    <3> QED
      BY <3>1, <3>2 DEF Answered
  <2> HIDE DEF c
  <2>6. /\ Len(FilesToWrite(c)) = Len(s.entries)
        /\ \A i \in DOMAIN s.entries :
             /\ FilesToWrite(c)[i].path = s.entries[i].path
             /\ FilesToWrite(c)[i].data = IF s.call.source = "file" THEN FileContent(s.entries[i].data)
                                          ELSE s.entries[i].data
    BY <2>2, <2>4, PackedManifest
  <2> QED
    BY <2>5, <2>6
<1>2. Spec => [](WalkOK /\ SentOK)
  BY WalkAlways
<1> QED
  BY <1>1, <1>2, AnswerAlways, PTL

-----------------------------------------------------------------------------
\* Every capsule on its way has a manifest.

HasManifest(e) == e.headers["capsule_manifest"] # None

ListsOK ==
    /\ file \in {None, Bad} \/ HasManifest(file)
    /\ reader.first \in {None, Bad} \/ HasManifest(reader.first)

LEMMA SentHasManifest ==
    ASSUME NoFunction(None), NEW s, \E text : IsPack(s.call, s.entries, s.key, text) /\ s.read = ReadBack(text)
    PROVE  HasManifest(s.read)
<1> DEFINE packed == Packed(s.call.source, s.entries)
<1>1. PICK text : IsPack(s.call, s.entries, s.key, text) /\ s.read = ReadBack(text)
  OBVIOUS
<1>2. packed.manifest_files # None
  BY <1>1, PackHasManifest
<1>3. BuiltOK(text, packed, s.call)
  BY <1>1, PackIsBuilt
<1> HIDE DEF packed
<1>4. Shaped(text) /\ text.headers["capsule_manifest"] = packed.manifest_files
  BY <1>3 DEF BuiltOK
<1>5. "capsule_manifest" \in HeaderNames \ {"created_by", "filename"}
  BY DEF HeaderNames
<1>6. s.read.headers["capsule_manifest"] = text.headers["capsule_manifest"]
  BY <1>1, <1>4, <1>5, ReadBackIs
<1> QED
  BY <1>2, <1>4, <1>6 DEF HasManifest

LEMMA EditKeepsManifest ==
    ASSUME NEW e, Shaped(e), HasManifest(e), NEW f \in Edits(e) PROVE HasManifest(f)
<1>1. ASSUME NEW g, Shaped(g), HasManifest(g), NEW value,
             NEW name \in {"content_type", "compression", "signature", "signature_value", "created_by", "filename"},
             name = "signature" => value \in SigModes
      PROVE  Shaped([g EXCEPT !.headers[name] = value]) /\ HasManifest([g EXCEPT !.headers[name] = value])
  <2>1. name \in HeaderNames /\ "capsule_manifest" \in HeaderNames \ {name}
    BY DEF HeaderNames
  <2> QED
    BY <1>1, <2>1, OneHeader DEF HasManifest
<1> DEFINE ctype == IF e.headers["content_type"] = "single" THEN "bundle" ELSE "single"
           zip   == IF e.headers["compression"] = "none" THEN "zstd" ELSE "none"
           bare  == [e EXCEPT !.headers["signature"] = "none"]
<1>2. \/ f = [e EXCEPT !.payload = Bad]
      \/ f = [e EXCEPT !.headers["content_type"] = ctype]
      \/ f = [e EXCEPT !.headers["compression"] = zip]
      \/ f = [bare EXCEPT !.headers["signature_value"] = None]
      \/ \E author \in Authors : f = [e EXCEPT !.headers["created_by"] = Trim(author)]
      \/ f = [e EXCEPT !.headers["filename"] = << Trim("other") >>]
  BY DEF Edits, Shaped
<1>3. Shaped(bare) /\ HasManifest(bare)
  BY <1>1 DEF SigModes
<1>4. HasManifest([e EXCEPT !.payload = Bad])
  BY DEF HasManifest, Shaped
<1> HIDE DEF ctype, zip, bare
<1>5. HasManifest([e EXCEPT !.headers["content_type"] = ctype]) /\ HasManifest([e EXCEPT !.headers["compression"] = zip])
  BY <1>1
<1>6. HasManifest([bare EXCEPT !.headers["signature_value"] = None])
  BY <1>1, <1>3
<1>7. \A value : HasManifest([e EXCEPT !.headers["created_by"] = value]) /\ HasManifest([e EXCEPT !.headers["filename"] = value])
  BY <1>1
<1> QED
  BY <1>2, <1>4, <1>5, <1>6, <1>7

LEMMA ListsInit == Init => ListsOK
  BY DEF Init, NoReader, ListsOK

LEMMA ListsStep ==
    ASSUME NoFunction(None), HandInv, SentOK, SentOK', ListsOK, [Next]_vars PROVE ListsOK'
<1> USE DEF HandInv
<1>1. CASE UNCHANGED file /\ (UNCHANGED (reader.first) \/ reader'.first = file)
  BY <1>1 DEF ListsOK
<1>2. CASE OpenOut
  BY <1>2 DEF OpenOut, ListsOK
<1>3. CASE WriteOut
  <2> DEFINE new == [read |-> file', call |-> pack.call, key |-> pack.key, entries |-> pack.entries]
  <2>1. UNCHANGED reader /\ new \in sent' /\ new.read = file'
    BY <1>3 DEF WriteOut
  <2>2. \A s \in sent' : HasManifest(s.read)
    BY SentHasManifest DEF SentOK
  <2> QED
    BY <2>1, <2>2 DEF ListsOK
<1>4. CASE Alter
  <2>1. file \notin {None, Bad} /\ UNCHANGED <<sent, reader>>
    BY <1>4 DEF Alter
  <2>2. Shaped(file) /\ HasManifest(file)
    BY <2>1 DEF FilesOK, FileOK, ListsOK
  <2>6. \A s \in sent : HasManifest(s.read)
    BY SentHasManifest DEF SentOK
  <2>3. file' \in Edits(file) \/ file' = None \/ (\E s \in sent : file' = s.read) \/ \E s \in sent : file' = Mixed(file, s.read)
    BY <1>4, Zenon DEF Alter
  <2>4. ASSUME NEW s \in sent, file' = Mixed(file, s.read) PROVE HasManifest(file')
    <3>1. file'.headers["capsule_manifest"] = s.read.headers["capsule_manifest"]
      <4>1. DOMAIN file.headers = HeaderNames /\ DOMAIN file = {"headers", "payload"}
        BY <2>2 DEF Shaped
      <4>2. "capsule_manifest" \in HeaderNames
        BY DEF HeaderNames
      <4> QED
        BY <2>4, <4>1, <4>2 DEF Mixed
    <3> QED
      BY <2>6, <3>1 DEF HasManifest
  <2>5. file' = None \/ HasManifest(file')
    BY <2>2, <2>3, <2>4, <2>6, EditKeepsManifest
  <2> QED
    BY <2>1, <2>5 DEF ListsOK
<1>5. ASSUME NEW call \in left.readCalls, StartRead(call) PROVE ListsOK'
  <2>1. UNCHANGED file /\ reader'.first = file
    BY <1>5 DEF StartRead, NoReader
  <2> QED
    BY <1>1, <2>1
<1>6. ASSUME NEW t \in Times, CheckRead(t) PROVE ListsOK'
  <2>1. UNCHANGED file /\ reader'.first = reader.first
    BY <1>6 DEF CheckRead, ReaderOK
  <2> QED
    BY <1>1, <2>1
<1>7. CASE ReadAgain
  <2>1. UNCHANGED file /\ reader'.first = reader.first
    BY <1>7 DEF ReadAgain, ReaderOK
  <2> QED
    BY <1>1, <2>1
<1>8. CASE Unpack
  <2>1. UNCHANGED file /\ reader'.first = reader.first
    BY <1>8 DEF Unpack, ReaderOK
  <2> QED
    BY <1>1, <2>1
<1>9. EditTree \/ ReadNext \/ PackEnds \/ Seal \/ Keygen \/ UNCHANGED vars \/ (\E call \in left.packCalls : StartPack(call))
         => UNCHANGED <<file, reader>>
  BY Zenon DEF EditTree, ReadNext, PackEnds, Seal, Keygen, vars, StartPack
<1>10. UNCHANGED <<file, reader>> => ListsOK'
  BY DEF ListsOK
<1> QED
  BY <1>2, <1>3, <1>4, <1>5, <1>6, <1>7, <1>8, <1>9, <1>10, Zenon DEF Next

\* The commands verify and unpack end without an error exactly where verify_capsule
\* does, whatever became of the capsule on its way.
THEOREM CommandsAgree ==
    ASSUME NoFunction(None) PROVE Spec => []VerdictsAgree
<1>1. HandInv /\ AnswerOK /\ ListsOK => VerdictsAgree
  <2> SUFFICES ASSUME HandInv, AnswerOK, ListsOK, reader.pc = "done", reader.call.kind \in {"verify", "unpack"},
                      reader.first \notin {None, Bad}
               PROVE  reader.errors # <<>> <=> VerifyErrors(View(reader.first), reader.opts, reader.at) # <<>>
    BY Zenon DEF VerdictsAgree
  <2> DEFINE c == View(reader.first)
             o == reader.opts
             t == reader.at
  <2>1. c.sig \in SigModes /\ c.manifest # None
    BY DEF HandInv, FilesOK, FileOK, Shaped, ListsOK, HasManifest, View
  <2>2. ReadErrors(reader.call.kind, reader.first, o, t) = CommandErrors(c, o, t)
    BY DEF ReadErrors
  <2>3. reader.errors = ReadErrors(reader.call.kind, reader.first, o, t)
        \/ /\ ReadErrors(reader.call.kind, reader.first, o, t) = <<>> /\ reader.second = reader.first
           /\ reader.errors = Raises(NotABundle(ToUnpack(reader.first, reader.second)), "UNPACK_FAILED")
    BY DEF AnswerOK, Answered
  <2>4. ToUnpack(reader.first, reader.first) = c
    BY SameUnpack
  <2> HIDE DEF c, o, t
  <2>5. CommandErrors(c, o, t) = <<>> <=> IsClear(c, o, t)
    BY <2>1, CommandIsClear
  <2>6. VerifyErrors(c, o, t) = <<>> <=> IsClear(c, o, t)
    BY <2>1, VerifyIsClear
  <2>7. IsClear(c, o, t) => ~NotABundle(c)
    <3>1. IsClear(c, o, t) => ManifestErrors(c) = <<>>
      BY Zenon DEF IsClear, RestIsClear
    <3> QED
      BY <2>1, <3>1, ClearIsBundle
  <2>8. Raises(FALSE, "UNPACK_FAILED") = <<>>
    BY DEF Raises
  <2>9. reader.errors = <<>> <=> CommandErrors(c, o, t) = <<>>
    BY <2>2, <2>3, <2>4, <2>5, <2>7, <2>8 DEF Raises
  <2> QED
    BY <2>5, <2>6, <2>9 DEF c, o, t
<1>2. HandInv /\ SentOK /\ SentOK' /\ ListsOK /\ [Next]_vars => ListsOK'
  BY ListsStep
<1>3. Spec => [](WalkOK /\ SentOK)
  BY WalkAlways
<1> QED
  BY <1>1, <1>2, <1>3, ListsInit, HandAlways, AnswerAlways, PTL DEF Spec
=============================================================================
