---------------------------- MODULE VerifyProofs ----------------------------
(***************************************************************************)
(* verify_capsule is sound: a capsule no check of which raises is intact,  *)
(* admitted by the policy and signed by someone the options let sign.      *)
(***************************************************************************)
EXTENDS Acceptance, SequenceTheorems, WellFoundedInduction, TLAPS

\* First is the least element, which a set of naturals has.
LEMMA FirstIsLeast ==
    ASSUME NEW S \in SUBSET Nat, S # {}
    PROVE  First(S) \in S /\ \A j \in S : First(S) <= j
<1> DEFINE Less == { p \in Nat \X Nat : p[1] < p[2] }
<1>1. OpToRel(<, Nat) = Less
  BY DEF OpToRel
<1>2. IsWellFoundedOn(Less, Nat)
  BY <1>1, NatLessThanWellFounded
<1>3. PICK x \in S : \A y \in S : <<y, x>> \notin Less
  <2> HIDE DEF Less
  <2> QED
    BY <1>2, WFMin
<1>4. \A y \in S : x <= y
  <2> SUFFICES ASSUME NEW y \in S PROVE ~(y < x)
    OBVIOUS
  <2>1. <<y, x>> \in Nat \X Nat /\ <<y, x>>[1] = y /\ <<y, x>>[2] = x
    OBVIOUS
  <2> QED
    BY <1>3, <2>1
<1>5. \E i \in S : \A j \in S : i <= j
  BY <1>4
<1> HIDE DEF Less
<1> QED
  BY <1>5, Zenon DEF First

-----------------------------------------------------------------------------
\* Sequences: induction over their length, FlattenSeq, and with it Parts.

\* Induction over the naturals without an operator parameter: a set that holds 0
\* and is closed under successor, up to a bound, holds every number up to it.
LEMMA UpTo ==
    ASSUME NEW n \in Nat, NEW S, 0 \in S, \A i \in 0..(n - 1) : i \in S => i + 1 \in S
    PROVE  \A i \in 0..n : i \in S
<1> DEFINE T == { i \in 0..n : i \notin S }
<1>1. SUFFICES ASSUME T # {} PROVE FALSE
  OBVIOUS
<1>2. First(T) \in T /\ \A j \in T : First(T) <= j
  <2>1. T \in SUBSET Nat
    OBVIOUS
  <2> HIDE DEF T
  <2> QED
    BY <1>1, <2>1, FirstIsLeast
<1>3. PICK x \in T : \A j \in T : x <= j
  BY <1>2
<1>4. x \in 0..n /\ x # 0 /\ x \notin S
  BY <1>3
<1>5. x - 1 \in 0..(n - 1) /\ x - 1 \notin T
  BY <1>3, <1>4
<1>6. x - 1 \in S
  BY <1>5
<1>7. (x - 1) + 1 \in S /\ (x - 1) + 1 = x
  BY <1>4, <1>5, <1>6
<1> QED
  BY <1>4, <1>7

\* The first n sequences of a list, joined: what FlattenSeq computes on its way.
Joins(seqs, n, f) == \A i \in 1..n : f[i] = IF i = 1 THEN seqs[i] ELSE f[i - 1] \o seqs[i]

LEMMA JoinsExist ==
    ASSUME NEW S, NEW seqs \in Seq(Seq(S)), seqs # <<>>
    PROVE  \E f \in [1..Len(seqs) -> Seq(S)] : Joins(seqs, Len(seqs), f)
<1> DEFINE Q == { n \in Nat : \E f \in [1..n -> Seq(S)] : Joins(seqs, n, f) }
           len == Len(seqs)
<1>1. len \in Nat
  OBVIOUS
<1>2. 0 \in Q
  <2>1. [i \in 1..0 |-> <<>>] \in [1..0 -> Seq(S)] /\ Joins(seqs, 0, [i \in 1..0 |-> <<>>])
    BY DEF Joins
  <2> QED
    BY <2>1
<1>3. ASSUME NEW n \in 0..(len - 1), n \in Q PROVE n + 1 \in Q
  <2>1. PICK f \in [1..n -> Seq(S)] : Joins(seqs, n, f)
    BY <1>3
  <2> DEFINE last == IF n = 0 THEN seqs[n + 1] ELSE f[n] \o seqs[n + 1]
             g == [i \in 1..(n + 1) |-> IF i = n + 1 THEN last ELSE f[i]]
  <2>2. seqs[n + 1] \in Seq(S)
    BY <1>3
  <2>3. last \in Seq(S)
    <3>1. CASE n = 0
      BY <2>2, <3>1
    <3>2. CASE n # 0
      <4>1. f[n] \in Seq(S)
        BY <3>2
      <4> QED
        BY <2>2, <3>2, <4>1, ConcatProperties
    <3> QED
      BY <3>1, <3>2
  <2>4. last = IF n + 1 = 1 THEN seqs[n + 1] ELSE f[n] \o seqs[n + 1]
    OBVIOUS
  <2> HIDE DEF last
  <2>5. g \in [1..(n + 1) -> Seq(S)]
    BY <2>3
  <2>6. \A i \in 1..n : g[i] = f[i]
    OBVIOUS
  <2>7. Joins(seqs, n + 1, g)
    <3> SUFFICES ASSUME NEW i \in 1..(n + 1)
        PROVE  g[i] = IF i = 1 THEN seqs[i] ELSE g[i - 1] \o seqs[i]
      BY DEF Joins
    <3>1. CASE i = n + 1
      BY <2>4, <2>6, <3>1
    <3>2. CASE i # n + 1
      <4>1. i \in 1..n /\ (i # 1 => i - 1 \in 1..n)
        BY <3>2
      <4> HIDE DEF g
      <4> QED
        BY <2>1, <2>6, <4>1 DEF Joins
    <3> QED
      BY <3>1, <3>2
  <2> QED
    BY <1>3, <2>5, <2>7
<1> HIDE DEF Q, len
<1>4. \A i \in 0..len : i \in Q
  BY <1>1, <1>2, <1>3, UpTo
<1>5. len \in 0..len
  BY <1>1
<1>6. len \in Q
  BY <1>4, <1>5
<1> QED
  BY <1>6 DEF Q, len

LEMMA FlattenJoins ==
    ASSUME NEW S, NEW seqs \in Seq(Seq(S)), seqs # <<>>
    PROVE  \E f \in [1..Len(seqs) -> Seq(S)] :
             Joins(seqs, Len(seqs), f) /\ FlattenSeq(seqs) = f[Len(seqs)]
<1> DEFINE rec(f) == [i \in 1..Len(seqs) |-> IF i = 1 THEN seqs[i] ELSE f[i - 1] \o seqs[i]]
           flatten == CHOOSE f : f = rec(f)
<1>1. PICK g \in [1..Len(seqs) -> Seq(S)] : Joins(seqs, Len(seqs), g)
  BY JoinsExist
<1>2. g = rec(g)
  BY <1>1 DEF Joins
<1>3. flatten = rec(flatten)
  BY <1>2
<1>4. Len(seqs) # 0 /\ Len(seqs) \in Nat
  BY EmptySeq
<1>5. FlattenSeq(seqs) = flatten[Len(seqs)]
  BY <1>4 DEF FlattenSeq
<1>6. \A i \in 1..Len(seqs) : flatten[i] = IF i = 1 THEN seqs[i] ELSE flatten[i - 1] \o seqs[i]
  <2> HIDE DEF flatten
  <2> QED
    BY <1>3
<1> HIDE DEF flatten
<1>7. \A i \in 0..Len(seqs) : i \in { j \in Nat : j = 0 \/ flatten[j] \in Seq(S) }
  <2> DEFINE Q == { j \in Nat : j = 0 \/ flatten[j] \in Seq(S) }
  <2>1. ASSUME NEW i \in 0..(Len(seqs) - 1), i \in Q PROVE i + 1 \in Q
    <3>1. seqs[i + 1] \in Seq(S) /\ i + 1 \in 1..Len(seqs)
      BY <1>4
    <3>2. CASE i = 0
      BY <1>6, <3>1, <3>2
    <3>3. CASE i # 0
      <4>1. i \in Nat /\ i + 1 # 1 /\ (i + 1) - 1 = i
        BY <3>3
      <4>2. flatten[i + 1] = flatten[i] \o seqs[i + 1]
        BY <1>6, <3>1, <4>1
      <4>3. flatten[i] \in Seq(S)
        BY <2>1, <3>3
      <4>4. flatten[i + 1] \in Seq(S)
        BY <3>1, <4>2, <4>3, ConcatProperties
      <4> QED
        BY <2>1, <4>4
    <3> QED
      BY <3>2, <3>3
  <2> HIDE DEF Q
  <2>2. 0 \in Q
    BY DEF Q
  <2>3. \A i \in 0..Len(seqs) : i \in Q
    BY <1>4, <2>1, <2>2, UpTo
  <2> QED
    BY <2>3 DEF Q
<1>8. flatten \in [1..Len(seqs) -> Seq(S)]
  <2>1. flatten = [i \in 1..Len(seqs) |-> IF i = 1 THEN seqs[i] ELSE flatten[i - 1] \o seqs[i]]
    BY <1>3
  <2>2. \A i \in 1..Len(seqs) : flatten[i] \in Seq(S)
    BY <1>4, <1>7
  <2> QED
    BY <2>1, <2>2
<1> QED
  BY <1>5, <1>6, <1>8 DEF Joins

LEMMA FlattenTyped ==
    ASSUME NEW S, NEW seqs \in Seq(Seq(S))
    PROVE  FlattenSeq(seqs) \in Seq(S)
<1>1. CASE seqs = <<>>
  BY <1>1 DEF FlattenSeq
<1>2. CASE seqs # <<>>
  <2>1. Len(seqs) \in 1..Len(seqs)
    BY <1>2, EmptySeq
  <2>2. PICK f \in [1..Len(seqs) -> Seq(S)] : FlattenSeq(seqs) = f[Len(seqs)]
    BY <1>2, FlattenJoins
  <2> QED
    BY <2>1, <2>2
<1> QED
  BY <1>1, <1>2

LEMMA PartsTyped ==
    ASSUME NEW path \in PathStrings
    PROVE  Parts(path) \in PathStrings
<1> DEFINE single(i) == IF path[i] \in {"", "."} THEN <<>> ELSE <<path[i]>>
           seqs == [i \in DOMAIN path |-> single(i)]
<1>1. path \in Seq(Names) /\ DOMAIN path = 1..Len(path) /\ Len(path) \in Nat
  BY DEF PathStrings
<1>2. ASSUME NEW i \in DOMAIN path PROVE single(i) \in Seq(Names)
  <2>1. path[i] \in Names
    BY <1>1
  <2>2. <<path[i]>> \in Seq(Names) /\ <<>> \in Seq(Names)
    BY <2>1
  <2>3. single(i) = <<>> \/ single(i) = <<path[i]>>
    OBVIOUS
  <2> HIDE DEF single
  <2> QED
    BY <2>2, <2>3
<1>3. Parts(path) = FlattenSeq(seqs)
  BY Zenon DEF Parts
<1> HIDE DEF single
<1>4. seqs \in Seq(Seq(Names))
  BY <1>1, <1>2
<1> HIDE DEF seqs
<1> QED
  BY <1>3, <1>4, FlattenTyped DEF PathStrings

-----------------------------------------------------------------------------
\* The registry and the key of a capsule.

\* The registry calls a key trusted only if an entry vouches for it.
LEMMA TrustedIsVouched ==
    ASSUME NEW keys \in Registry, NEW keyId, NEW fp, fp # None, NEW t,
           Resolve(keys, keyId, fp, t).status = "trusted"
    PROVE  \E i \in DOMAIN keys : Vouches(keys[i], fp, keyId, t)
<1> DEFINE found == Matching(keys, keyId, fp)
           i     == First(found)
<1>1. keys \in Seq(TrustedKey)
  BY DEF Registry
<1>2. found # {} /\ KeyStatus(keys[i], t) = "trusted"
  BY DEF Resolve
<1>3. found \in SUBSET Nat /\ found \subseteq DOMAIN keys
  BY <1>1 DEF Matching
<1>4. i \in found
  <2> HIDE DEF found
  <2> QED
    BY <1>2, <1>3, FirstIsLeast
<1>5. keyId \in {None, keys[i].keyId} /\ keys[i].fp = fp
  BY <1>4 DEF Matching
<1>6. ~Revoked(keys[i]) /\ ~Expired(keys[i], t)
  BY <1>2 DEF KeyStatus
<1> QED
  BY <1>3, <1>4, <1>5, <1>6 DEF Vouches

-----------------------------------------------------------------------------
\* Lists of errors.

LEMMA OneReason ==
    ASSUME NEW reason \in Reasons
    PROVE  <<reason>> \in Seq(Reasons) /\ <<reason>> # <<>>
  OBVIOUS

\* The instances of OneReason, which the provers do not find for string literals.
LEMMA Codes ==
    /\ <<"CAPSULE_PARSE_ERROR">> \in Seq(Reasons) /\ <<"CAPSULE_PARSE_ERROR">> # <<>>
    /\ <<"POLICY_BLOCK">> \in Seq(Reasons) /\ <<"POLICY_BLOCK">> # <<>>
    /\ <<"SIGNATURE_REQUIRED">> \in Seq(Reasons) /\ <<"SIGNATURE_REQUIRED">> # <<>>
    /\ <<"SIGNATURE_UNTRUSTED">> \in Seq(Reasons) /\ <<"SIGNATURE_UNTRUSTED">> # <<>>
    /\ <<"PAYLOAD_HASH_MISMATCH">> \in Seq(Reasons) /\ <<"PAYLOAD_HASH_MISMATCH">> # <<>>
    /\ <<"ENCRYPTION_KEY_MISSING">> \in Seq(Reasons) /\ <<"ENCRYPTION_KEY_MISSING">> # <<>>
    /\ <<"DECRYPTION_FAILED">> \in Seq(Reasons) /\ <<"DECRYPTION_FAILED">> # <<>>
    /\ <<"OTHER">> \in Seq(Reasons) /\ <<"OTHER">> # <<>>
    /\ <<>> \in Seq(Reasons)
<1>1. {"CAPSULE_PARSE_ERROR", "POLICY_BLOCK", "SIGNATURE_REQUIRED", "SIGNATURE_UNTRUSTED",
       "PAYLOAD_HASH_MISMATCH", "ENCRYPTION_KEY_MISSING", "DECRYPTION_FAILED", "OTHER"} \subseteq Reasons
  BY DEF Reasons
<1> QED
  BY <1>1, OneReason

LEMMA NoneInEither ==
    ASSUME NEW a \in Seq(Reasons), NEW b \in Seq(Reasons)
    PROVE  a \o b \in Seq(Reasons) /\ (a \o b = <<>> <=> a = <<>> /\ b = <<>>)
  BY ConcatProperties, ConcatEqualIffEmpty

LEMMA MetadataSound ==
    ASSUME NEW c, NEW p
    PROVE  /\ MetadataErrors(c, p) \in Seq(Reasons)
           /\ MetadataErrors(c, p) = <<>> <=>
                /\ ~(p.requireKnownCodec /\ c.codec \notin KnownCodecs)
                /\ ~(~p.allowUnsigned /\ c.sig = "none")
                /\ ~(p.requiredModes # {} /\ c.sig \notin p.requiredModes)
                /\ ~(~p.allowInlineKeys /\ c.inlineKey # None)
                /\ ~(p.trustedKeyIds # {} /\ c.keyId \notin p.trustedKeyIds)
                /\ ~(p.trustedFps # {} /\ c.fp \notin p.trustedFps)
                /\ c.ctype \in p.allowedTypes
<1> DEFINE e1 == Raises(p.requireKnownCodec /\ c.codec \notin KnownCodecs, "POLICY_BLOCK")
           e2 == Raises(~p.allowUnsigned /\ c.sig = "none", "SIGNATURE_REQUIRED")
           e3 == Raises(p.requiredModes # {} /\ c.sig \notin p.requiredModes, "SIGNATURE_REQUIRED")
           e4 == Raises(~p.allowInlineKeys /\ c.inlineKey # None, "SIGNATURE_UNTRUSTED")
           e5 == Raises(p.trustedKeyIds # {} /\ c.keyId \notin p.trustedKeyIds, "POLICY_BLOCK")
           e6 == Raises(p.trustedFps # {} /\ c.fp \notin p.trustedFps, "POLICY_BLOCK")
           e7 == Raises(c.ctype \notin p.allowedTypes, "POLICY_BLOCK")
<1>1. e1 \in Seq(Reasons) /\ (e1 = <<>> <=> ~(p.requireKnownCodec /\ c.codec \notin KnownCodecs))
  BY Codes DEF Raises
<1>2. e2 \in Seq(Reasons) /\ (e2 = <<>> <=> ~(~p.allowUnsigned /\ c.sig = "none"))
  BY Codes DEF Raises
<1>3. e3 \in Seq(Reasons) /\ (e3 = <<>> <=> ~(p.requiredModes # {} /\ c.sig \notin p.requiredModes))
  BY Codes DEF Raises
<1>4. e4 \in Seq(Reasons) /\ (e4 = <<>> <=> ~(~p.allowInlineKeys /\ c.inlineKey # None))
  BY Codes DEF Raises
<1>5. e5 \in Seq(Reasons) /\ (e5 = <<>> <=> ~(p.trustedKeyIds # {} /\ c.keyId \notin p.trustedKeyIds))
  BY Codes DEF Raises
<1>6. e6 \in Seq(Reasons) /\ (e6 = <<>> <=> ~(p.trustedFps # {} /\ c.fp \notin p.trustedFps))
  BY Codes DEF Raises
<1>7. e7 \in Seq(Reasons) /\ (e7 = <<>> <=> c.ctype \in p.allowedTypes)
  BY Codes DEF Raises
<1>8. MetadataErrors(c, p) = e1 \o e2 \o e3 \o e4 \o e5 \o e6 \o e7
  BY Zenon DEF MetadataErrors
<1> HIDE DEF e1, e2, e3, e4, e5, e6, e7
<1> QED
  BY <1>1, <1>2, <1>3, <1>4, <1>5, <1>6, <1>7, <1>8, NoneInEither

LEMMA HmacSound ==
    ASSUME NEW c, NEW o
    PROVE  /\ HmacErrors(c, o) \in Seq(Reasons)
           /\ HmacErrors(c, o) = <<>> =>
                o.keyEnv \notin {None, Bad} /\ c.signedBy = o.keyEnv
<1> DEFINE e1 == Raises(o.keyEnv = None, "SIGNATURE_REQUIRED")
           e2 == Raises(o.keyEnv = Bad \/ c.signedBy = None, "OTHER")
           e3 == Raises(c.signedBy # o.keyEnv, "SIGNATURE_UNTRUSTED")
<1>1. e1 \in Seq(Reasons) /\ (e1 = <<>> => o.keyEnv # None)
  BY Codes DEF Raises
<1>2. e2 \in Seq(Reasons) /\ (e2 = <<>> => o.keyEnv # Bad)
  BY Codes DEF Raises
<1>3. e3 \in Seq(Reasons) /\ (e3 = <<>> => c.signedBy = o.keyEnv)
  BY Codes DEF Raises
<1>4. HmacErrors(c, o) = e1 \o e2 \o e3
  BY Zenon DEF HmacErrors
<1> HIDE DEF e1, e2, e3
<1> QED
  BY <1>1, <1>2, <1>3, <1>4, NoneInEither

LEMMA Ed25519Sound ==
    ASSUME NEW c, NEW key
    PROVE  /\ Ed25519Errors(c, key) \in Seq(Reasons)
           /\ Ed25519Errors(c, key) = <<>> => key \in Keys /\ c.fp = key /\ c.signedBy = key
<1> DEFINE e1 == Raises(key \notin Keys \/ c.fp # key \/ c.signedBy = None, "OTHER")
           e2 == Raises(c.signedBy # key, "SIGNATURE_UNTRUSTED")
<1>1. e1 \in Seq(Reasons) /\ (e1 = <<>> => key \in Keys /\ c.fp = key)
  BY Codes DEF Raises
<1>2. e2 \in Seq(Reasons) /\ (e2 = <<>> => c.signedBy = key)
  BY Codes DEF Raises
<1>3. Ed25519Errors(c, key) = e1 \o e2
  BY Zenon DEF Ed25519Errors
<1> HIDE DEF e1, e2
<1> QED
  BY <1>1, <1>2, <1>3, NoneInEither

LEMMA SignatureErrorsIsList ==
    ASSUME NEW c \in Capsules, NEW o, NEW t
    PROVE  SignatureErrors(c, o, t) \in Seq(Reasons)
<1>1. c.sig \in {"none", "hmac-sha256", "ed25519", "other"}
  BY DEF Capsules, SigModes
<1>2. CASE c.sig = "none"
  BY <1>2, Codes DEF SignatureErrors
<1>3. CASE c.sig = "hmac-sha256"
  BY <1>3, HmacSound DEF SignatureErrors
<1>4. CASE c.sig = "ed25519"
  BY <1>4, Ed25519Sound DEF SignatureErrors
<1>5. CASE c.sig = "other"
  BY <1>5, Codes DEF SignatureErrors
<1> QED
  BY <1>1, <1>2, <1>3, <1>4, <1>5

LEMMA TrustSound ==
    ASSUME NEW c, NEW o, NEW t
    PROVE  /\ TrustErrors(c, o, t) \in Seq(Reasons)
           /\ TrustErrors(c, o, t) = <<>> /\ o.policy.requireRegistry =>
                SignatureTrust(c, o, t).status = "trusted"
<1> DEFINE status == SignatureTrust(c, o, t).status
           e1 == Raises(o.policy.requireRegistry /\ status = "revoked", "POLICY_BLOCK")
           e2 == Raises(o.policy.requireRegistry /\ status # "trusted", "SIGNATURE_UNTRUSTED")
<1>1. e1 \in Seq(Reasons)
  BY Codes DEF Raises
<1>2. e2 \in Seq(Reasons) /\ (e2 = <<>> /\ o.policy.requireRegistry => status = "trusted")
  BY Codes DEF Raises
<1>3. TrustErrors(c, o, t) = e1 \o e2
  BY Zenon DEF TrustErrors
<1> HIDE DEF e1, e2
<1> QED
  BY <1>1, <1>2, <1>3, NoneInEither

LEMMA PayloadSound ==
    ASSUME NEW c, NEW key
    PROVE  /\ PayloadErrors(c, key) \in Seq(Reasons)
           /\ PayloadErrors(c, key) = <<>> =>
                /\ c.enc # None => c.enc = key
                /\ c.codec \in KnownCodecs /\ c.decodes /\ c.unzips
                /\ c.claim = c.content
<1> DEFINE e1 == Raises(c.enc # None /\ key = None, "ENCRYPTION_KEY_MISSING")
           e2 == Raises(c.enc = Bad \/ c.codec \notin KnownCodecs \/ ~c.decodes, "OTHER")
           e3 == Raises(c.enc # None /\ c.enc # key, "DECRYPTION_FAILED")
           e4 == Raises(~c.unzips, "OTHER")
           e5 == Raises(c.claim # c.content, "PAYLOAD_HASH_MISMATCH")
<1>1. e1 \in Seq(Reasons)
  BY Codes DEF Raises
<1>2. e2 \in Seq(Reasons) /\ (e2 = <<>> => c.codec \in KnownCodecs /\ c.decodes)
  BY Codes DEF Raises
<1>3. e3 \in Seq(Reasons) /\ (e3 = <<>> => (c.enc # None => c.enc = key))
  BY Codes DEF Raises
<1>4. e4 \in Seq(Reasons) /\ (e4 = <<>> => c.unzips)
  BY Codes DEF Raises
<1>5. e5 \in Seq(Reasons) /\ (e5 = <<>> => c.claim = c.content)
  BY Codes DEF Raises
<1>6. PayloadErrors(c, key) = e1 \o e2 \o e3 \o e4 \o e5
  BY Zenon DEF PayloadErrors
<1> HIDE DEF e1, e2, e3, e4, e5
<1> QED
  BY <1>1, <1>2, <1>3, <1>4, <1>5, <1>6, NoneInEither

-----------------------------------------------------------------------------
\* The signature and trust checks together are sound.
LEMMA SignerSound ==
    ASSUME NEW c \in Capsules, NEW o \in Options, NEW t,
           MetadataErrors(c, o.policy) = <<>>,
           SignatureErrors(c, o, t) = <<>>,
           TrustErrors(c, o, t) = <<>>
    PROVE  Authentic(c, o, t)
<1> DEFINE p == o.policy
           trust == SignatureTrust(c, o, t)
           key == VerifyKey(c, o, t)
<1>1. c.sig \in {"none", "hmac-sha256", "ed25519", "other"}
  BY DEF Capsules, SigModes
<1>2. /\ o.registry \in Registry \cup {None} /\ o.keyEnv \in Secrets \cup {None, Bad}
      /\ p.allowUnsigned \in BOOLEAN /\ p.requireRegistry \in BOOLEAN
  BY DEF Options, Policies
<1>3. p.requireRegistry => trust.status = "trusted"
  BY TrustSound
<1>4. c.sig # "ed25519" => trust.status = "none"
  BY DEF SignatureTrust
<1>5. c.sig # "ed25519" => ~p.requireRegistry
  BY <1>3, <1>4
<1>6. CASE c.sig = "none"
  <2>1. p.allowUnsigned
    BY <1>2, <1>6, MetadataSound
  <2> QED
    BY <1>5, <1>6, <2>1 DEF Authentic
<1>7. CASE c.sig = "hmac-sha256"
  <2>1. HmacErrors(c, o) = <<>>
    BY <1>7 DEF SignatureErrors
  <2>2. o.keyEnv \in Secrets /\ c.signedBy = o.keyEnv
    BY <1>2, <2>1, HmacSound
  <2> QED
    BY <1>5, <1>7, <2>2 DEF Authentic
<1>8. CASE c.sig = "ed25519"
  <2>1. Ed25519Errors(c, key) = <<>>
    BY <1>8 DEF SignatureErrors
  <2>2. key \in Keys /\ c.fp = key /\ c.signedBy = key
    BY <2>1, Ed25519Sound
  <2>3. o.edPub \in {None, key}
    BY DEF VerifyKey
  <2>4. p.requireRegistry => o.registry # None /\ trust = Resolve(o.registry, c.keyId, c.fp, t)
    BY <1>3, <1>8 DEF SignatureTrust
  <2>5. c.fp # None
    BY <2>2, TrustAssumption
  <2>6. p.requireRegistry => \E i \in DOMAIN o.registry : Vouches(o.registry[i], c.fp, c.keyId, t)
    BY <1>2, <1>3, <2>4, <2>5, TrustedIsVouched
  <2> HIDE DEF key
  <2>7. /\ c.signedBy \in Keys /\ c.fp = c.signedBy /\ o.edPub \in {None, c.signedBy}
        /\ p.requireRegistry => /\ o.registry # None
                                /\ \E i \in DOMAIN o.registry :
                                     Vouches(o.registry[i], c.signedBy, c.keyId, t)
    BY <2>2, <2>3, <2>4, <2>6
  <2> QED
    BY <1>8, <2>7 DEF Authentic
<1>9. CASE c.sig = "other"
  BY <1>9, Codes DEF SignatureErrors
<1> QED
  BY <1>1, <1>6, <1>7, <1>8, <1>9

LEMMA VerifyParts ==
    ASSUME NEW c \in Capsules, NEW o, NEW t
    PROVE  /\ VerifyErrors(c, o, t) \in Seq(Reasons)
           /\ VerifyErrors(c, o, t) = <<>> =>
                /\ c.wellFormed
                /\ MetadataErrors(c, o.policy) = <<>>
                /\ SignatureErrors(c, o, t) = <<>>
                /\ TrustErrors(c, o, t) = <<>>
                /\ o.encKey # Bad
                /\ PayloadErrors(c, o.encKey) = <<>>
                /\ ~(c.content.size > o.policy.maxPayload)
                /\ ManifestMatches(c)
<1> DEFINE e1 == ParseErrors(c)
           e2 == MetadataErrors(c, o.policy)
           e3 == SignatureErrors(c, o, t)
           e4 == TrustErrors(c, o, t)
           e5 == Raises(o.encKey = Bad, "OTHER")
           e6 == PayloadErrors(c, o.encKey)
           e7 == SizeErrors(c, o.policy)
           e8 == ManifestErrors(c)
<1>1. e1 \in Seq(Reasons) /\ (e1 = <<>> => c.wellFormed)
  BY Codes DEF Raises, ParseErrors
<1>2. e5 \in Seq(Reasons) /\ (e5 = <<>> => o.encKey # Bad)
  BY Codes DEF Raises
<1>3. e7 \in Seq(Reasons) /\ (e7 = <<>> => ~(c.content.size > o.policy.maxPayload))
  BY Codes DEF Raises, SizeErrors
<1>4. e8 \in Seq(Reasons) /\ (e8 = <<>> => ManifestMatches(c))
  BY Codes DEF Raises, ManifestErrors
<1>5. e2 \in Seq(Reasons) /\ e3 \in Seq(Reasons) /\ e4 \in Seq(Reasons) /\ e6 \in Seq(Reasons)
  BY MetadataSound, SignatureErrorsIsList, TrustSound, PayloadSound
<1>6. VerifyErrors(c, o, t) = e1 \o e2 \o e3 \o e4 \o e5 \o e6 \o e7 \o e8
  BY Zenon DEF VerifyErrors
<1> HIDE DEF e1, e2, e3, e4, e5, e6, e7, e8
<1>7. /\ e1 \o e2 \o e3 \o e4 \in Seq(Reasons)
      /\ e1 \o e2 \o e3 \o e4 = <<>> => e1 = <<>> /\ e2 = <<>> /\ e3 = <<>> /\ e4 = <<>>
  BY <1>1, <1>5, NoneInEither
<1>8. /\ VerifyErrors(c, o, t) \in Seq(Reasons)
      /\ VerifyErrors(c, o, t) = <<>> =>
           e1 \o e2 \o e3 \o e4 = <<>> /\ e5 = <<>> /\ e6 = <<>> /\ e7 = <<>> /\ e8 = <<>>
  BY <1>2, <1>3, <1>4, <1>5, <1>6, <1>7, NoneInEither
<1> QED
  BY <1>1, <1>2, <1>3, <1>4, <1>7, <1>8 DEF e2, e3, e4, e6

\* A capsule that verify_capsule does not reject passes everything the policy and
\* the options ask, for any keys, registries, policies and contents.
THEOREM VerifySound ==
    ASSUME NEW c \in Capsules, NEW o \in Options, NEW t \in Times,
           VerifyErrors(c, o, t) = <<>>
    PROVE  Passes(c, o, t)
<1>1. Authentic(c, o, t)
  BY VerifyParts, SignerSound
<1>2. Intact(c, o)
  <2>1. PayloadErrors(c, o.encKey) = <<>> /\ c.wellFormed /\ ManifestMatches(c)
    BY VerifyParts
  <2> QED
    BY <2>1, PayloadSound DEF Intact
<1>3. Admitted(c, o.policy)
  <2> DEFINE p == o.policy
  <2>1. /\ p.requiredModes # {} => c.sig \in p.requiredModes
        /\ c.inlineKey # None => p.allowInlineKeys
        /\ p.trustedKeyIds # {} => c.keyId \in p.trustedKeyIds
        /\ p.trustedFps # {} => c.fp \in p.trustedFps
        /\ c.ctype \in p.allowedTypes
    BY VerifyParts, MetadataSound
  <2>2. c.content.size \in Nat /\ p.maxPayload \in Nat
    BY DEF Capsules, Contents, Options, Policies
  <2>3. c.content.size <= p.maxPayload
    BY <2>2, VerifyParts
  <2> QED
    BY <2>1, <2>3 DEF Admitted
<1> QED
  BY <1>1, <1>2, <1>3 DEF Passes

\* Nothing but what acceptance asks, and the choice of the key and of the registry
\* entry, makes verify_capsule reject a capsule: no check refuses one that meets the
\* policy, whose key is the one verify_capsule looks for, whose signer the first
\* matching entry trusts where the registry is required, and whose receiver has no
\* malformed key (receiver.py verify_capsule).
THEOREM VerifyComplete ==
    ASSUME NEW c \in Capsules, NEW o \in Options, NEW t \in Times, Passes(c, o, t),
           o.encKey # Bad,
           c.sig = "hmac-sha256" => o.keyEnv \notin {None, Bad},
           c.sig = "ed25519" => VerifyKey(c, o, t) = c.signedBy,
           o.policy.requireRegistry => SignatureTrust(c, o, t).status = "trusted"
    PROVE  VerifyErrors(c, o, t) = <<>>
<1> DEFINE p == o.policy
<1>1. Intact(c, o) /\ Admitted(c, p) /\ Authentic(c, o, t)
  BY DEF Passes
<1>2. c.sig \in {"none", "hmac-sha256", "ed25519"}
  <2>1. c.sig \in {"none", "hmac-sha256", "ed25519", "other"}
    BY DEF Capsules, SigModes
  <2>2. c.sig # "other"
    BY <1>1 DEF Authentic
  <2> QED
    BY <2>1, <2>2
<1>3. ParseErrors(c) = <<>> /\ ManifestErrors(c) = <<>> /\ Raises(o.encKey = Bad, "OTHER") = <<>>
  BY <1>1 DEF Intact, ParseErrors, ManifestErrors, Raises
<1>4. MetadataErrors(c, p) = <<>>
  <2>1. ~(~p.allowUnsigned /\ c.sig = "none")
    BY <1>1 DEF Authentic
  <2>2. ~(~p.allowInlineKeys /\ c.inlineKey # None)
    BY <1>1 DEF Admitted
  <2>3. ~(p.requireKnownCodec /\ c.codec \notin KnownCodecs)
    BY <1>1 DEF Intact
  <2> QED
    BY <1>1, <2>1, <2>2, <2>3, MetadataSound DEF Admitted
<1>5. SignatureErrors(c, o, t) = <<>>
  <2>1. CASE c.sig = "none"
    BY <2>1 DEF SignatureErrors
  <2>2. CASE c.sig = "hmac-sha256"
    <3>1. o.keyEnv \notin {None, Bad} /\ c.signedBy = o.keyEnv
      BY <1>1, <2>2 DEF Authentic
    <3>2. HmacErrors(c, o) = <<>>
      BY <3>1 DEF HmacErrors, Raises
    <3> QED
      BY <2>2, <3>2 DEF SignatureErrors
  <2>3. CASE c.sig = "ed25519"
    <3>1. c.signedBy \in Keys /\ c.fp = c.signedBy /\ VerifyKey(c, o, t) = c.signedBy
      BY <1>1, <2>3 DEF Authentic
    <3>2. c.signedBy # None
      BY <3>1, TrustAssumption
    <3>3. Ed25519Errors(c, c.signedBy) = <<>>
      BY <3>1, <3>2 DEF Ed25519Errors, Raises
    <3> QED
      BY <2>3, <3>1, <3>3 DEF SignatureErrors
  <2> QED
    BY <1>2, <2>1, <2>2, <2>3
<1>6. TrustErrors(c, o, t) = <<>>
  BY DEF TrustErrors, Raises
<1>7. PayloadErrors(c, o.encKey) = <<>>
  <2>1. c.enc # Bad /\ ~(c.enc # None /\ o.encKey = None) /\ ~(c.enc # None /\ c.enc # o.encKey)
    BY <1>1, TrustAssumption DEF Intact
  <2>2. c.codec \in KnownCodecs /\ c.decodes /\ c.unzips /\ c.claim = c.content
    BY <1>1 DEF Intact
  <2> QED
    BY <2>1, <2>2 DEF PayloadErrors, Raises
<1>8. SizeErrors(c, p) = <<>>
  <2>1. c.content.size \in Nat /\ p.maxPayload \in Nat
    BY DEF Capsules, Contents, Options, Policies
  <2> QED
    BY <1>1, <2>1 DEF Admitted, SizeErrors, Raises
<1>9. VerifyErrors(c, o, t) = <<>> \o <<>> \o <<>> \o <<>> \o <<>> \o <<>> \o <<>> \o <<>>
  BY <1>3, <1>4, <1>5, <1>6, <1>7, <1>8 DEF VerifyErrors
<1> QED
  BY <1>9
=============================================================================
