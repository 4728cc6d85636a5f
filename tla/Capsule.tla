------------------------------ MODULE Capsule ------------------------------
(***************************************************************************)
(* A capsule as its parsed envelope, and the checks verify_capsule runs on *)
(* it in order: policy metadata, signature and trust, decode, decrypt,     *)
(* decompress, hash, policy size, manifest (receiver.py, policy.py,        *)
(* signing.py, envelope.py, encryption.py, manifest.py).                   *)
(*                                                                         *)
(* An error is named by the reason code _classify_ingest_exception gives   *)
(* it; OTHER stands for every exception it does not recognise.  A list of  *)
(* errors is in the order the code would raise them: it raises the first.  *)
(***************************************************************************)
EXTENDS Trust, Paths

CONSTANTS
    Secrets,    \* shared secrets: HMAC keys and AES keys
    Blobs       \* contents of single files

KnownCodecs  == {"base64"}
SigModes     == {"none", "hmac-sha256", "ed25519", "other"}
ContentTypes == {"single", "bundle", "other"}

\* A bundle entry; encoded says that its content is base64, metaOk that its size
\* and sha256 are there and fit its data.
BundleEntry == [path : PathStrings, data : Blobs, encoded : BOOLEAN, metaOk : BOOLEAN]

\* A decoded payload: a bundle document, or anything else as one entry.
Contents == [bundle : BOOLEAN, entries : Seq(BundleEntry), size : Nat]

\* A manifest inventory line; bytesOk says that "bytes" is the length of the
\* file with that digest.
ManifestEntry == [path : PathStrings, sha : Blobs \cup Contents, bytesOk : BOOLEAN]

Capsules ==
    [ wellFormed : BOOLEAN,                   \* _parse_headers accepts the header lines
      codec      : KnownCodecs \cup {"other"},
      ctype      : ContentTypes,
      filename   : PathStrings \cup {None},
      sig        : SigModes,
      keyId      : KeyIds \cup {None},
      fp         : Keys \cup {None},
      inlineKey  : Keys \cup {None, Bad},
      signedBy   : Keys \cup Secrets \cup {None, Bad},  \* whose signature over these very bytes
      enc        : Secrets \cup {None, Bad},  \* the AES key these headers and bytes were sealed with
      decodes    : BOOLEAN,                   \* the payload text is base64
      unzips     : BOOLEAN,                   \* not compressed, or decompresses within the limit
      content    : Contents,                  \* what decoding, decrypting and unzipping yield
      claim      : Contents,                  \* payload_sha256
      manifest   : Seq(ManifestEntry) \cup {None} ]

Policies ==
    [ requireKnownCodec : BOOLEAN, allowUnsigned : BOOLEAN,
      requiredModes : SUBSET SigModes, requireRegistry : BOOLEAN, allowInlineKeys : BOOLEAN,
      trustedKeyIds : SUBSET KeyIds, trustedFps : SUBSET Keys,
      allowedTypes : SUBSET ContentTypes, maxPayload : Nat ]

\* The options of one receiver call that verification reads.  encKey and keyEnv
\* are Bad when the environment variable they name is missing or malformed.
Options ==
    [ policy : Policies, registry : Registry \cup {None}, keyEnv : Secrets \cup {None, Bad},
      encKey : Secrets \cup {None, Bad}, edPub : Keys \cup {None, Bad},
      fetch : BOOLEAN, scan : BOOLEAN ]

\* The marker of what is cut short or unusable is the content of no file.
ASSUME CapsuleAssumption == Bad \notin Blobs \cup Contents

-----------------------------------------------------------------------------
\* Ordered checks.

Reasons == { "CAPSULE_PARSE_ERROR", "POLICY_BLOCK", "SIGNATURE_REQUIRED", "SIGNATURE_UNTRUSTED",
             "PAYLOAD_HASH_MISMATCH", "ENCRYPTION_KEY_MISSING", "DECRYPTION_FAILED",
             "UNPACK_FAILED", "OTHER" }

Raises(condition, reason) == IF condition THEN <<reason>> ELSE <<>>

ParseErrors(c) == Raises(~c.wellFormed, "CAPSULE_PARSE_ERROR")

\* CapsulePolicy.check_metadata.  Its payload hash check cannot fail: the parser
\* requires that header.
MetadataErrors(c, p) ==
       Raises(p.requireKnownCodec /\ c.codec \notin KnownCodecs, "POLICY_BLOCK")
    \o Raises(~p.allowUnsigned /\ c.sig = "none", "SIGNATURE_REQUIRED")
    \o Raises(p.requiredModes # {} /\ c.sig \notin p.requiredModes, "SIGNATURE_REQUIRED")
    \o Raises(~p.allowInlineKeys /\ c.inlineKey # None, "SIGNATURE_UNTRUSTED")
    \o Raises(p.trustedKeyIds # {} /\ c.keyId \notin p.trustedKeyIds, "POLICY_BLOCK")
    \o Raises(p.trustedFps # {} /\ c.fp \notin p.trustedFps, "POLICY_BLOCK")
    \o Raises(c.ctype \notin p.allowedTypes, "POLICY_BLOCK")

\* _signature_trust: no registry and no inline key leaves nothing to say.
SignatureTrust(c, o, now) ==
    IF c.sig # "ed25519" \/ (o.registry = None /\ c.inlineKey = None)
    THEN [status |-> "none", pub |-> None]
    ELSE IF o.registry = None THEN [status |-> "untrusted", pub |-> None]
    ELSE Resolve(o.registry, c.keyId, c.fp, now)

\* The key an Ed25519 signature is checked with: the caller's file, else the
\* registry's key, else the one the capsule carries.
VerifyKey(c, o, now) ==
    LET trust == SignatureTrust(c, o, now)
    IN IF o.edPub # None THEN o.edPub ELSE IF trust.pub # None THEN trust.pub ELSE c.inlineKey

HmacErrors(c, o) ==
       Raises(o.keyEnv = None, "SIGNATURE_REQUIRED")
    \o Raises(o.keyEnv = Bad \/ c.signedBy = None, "OTHER")
    \o Raises(c.signedBy # o.keyEnv, "SIGNATURE_UNTRUSTED")

Ed25519Errors(c, key) ==
       Raises(key \notin Keys \/ c.fp # key \/ c.signedBy = None, "OTHER")
    \o Raises(c.signedBy # key, "SIGNATURE_UNTRUSTED")

\* _verify_signature.
SignatureErrors(c, o, now) ==
    CASE c.sig = "none"        -> <<>>
      [] c.sig = "hmac-sha256" -> HmacErrors(c, o)
      [] c.sig = "ed25519"     -> Ed25519Errors(c, VerifyKey(c, o, now))
      [] c.sig = "other"       -> <<"OTHER">>

\* CapsulePolicy.check_signature_trust.
TrustErrors(c, o, now) ==
    LET status == SignatureTrust(c, o, now).status
    IN    Raises(o.policy.requireRegistry /\ status = "revoked", "POLICY_BLOCK")
       \o Raises(o.policy.requireRegistry /\ status # "trusted", "SIGNATURE_UNTRUSTED")

\* verify_envelope: decrypt or decode, decompress, compare the digest.
PayloadErrors(c, key) ==
       Raises(c.enc # None /\ key = None, "ENCRYPTION_KEY_MISSING")
    \o Raises(c.enc = Bad \/ c.codec \notin KnownCodecs \/ ~c.decodes, "OTHER")
    \o Raises(c.enc # None /\ c.enc # key, "DECRYPTION_FAILED")
    \o Raises(~c.unzips, "OTHER")
    \o Raises(c.claim # c.content, "PAYLOAD_HASH_MISMATCH")

\* CapsulePolicy.check_payload.
SizeErrors(c, p) == Raises(c.content.size > p.maxPayload, "POLICY_BLOCK")

-----------------------------------------------------------------------------
\* The manifest against the payload.

\* _manifest_file_index and _bundle_payload_index refuse a path listed twice.
DistinctPaths(entries) ==
    \A i, j \in DOMAIN entries : entries[i].path = entries[j].path => i = j

PathsOf(entries) == { entries[i].path : i \in DOMAIN entries }

PayloadName(c) == IF c.filename = None THEN DefaultName ELSE SafeName(c.filename)

SingleMatches(c) ==
    /\ Len(c.manifest) = 1
    /\ c.manifest[1].path = PayloadName(c)
    /\ c.manifest[1].sha = c.content
    /\ c.manifest[1].bytesOk

BundleMatches(c) ==
    LET files == c.content.entries
    IN /\ c.content.bundle
       /\ DistinctPaths(files)
       /\ \A i \in DOMAIN files : files[i].encoded /\ files[i].metaOk
       /\ PathsOf(c.manifest) = PathsOf(files)
       /\ \A i \in DOMAIN files, j \in DOMAIN c.manifest :
            c.manifest[j].path = files[i].path =>
                c.manifest[j].sha = files[i].data /\ c.manifest[j].bytesOk

\* verify_manifest_matches_payload; a capsule without a manifest passes.
ManifestMatches(c) ==
    \/ c.manifest = None
    \/ /\ DistinctPaths(c.manifest)
       /\ \/ c.ctype = "single" /\ SingleMatches(c)
          \/ c.ctype = "bundle" /\ BundleMatches(c)

ManifestErrors(c) == Raises(~ManifestMatches(c), "OTHER")

\* Mutant of VerifyErrors: check_signature_trust is not called.
VerifyErrorsTrustingAnySigner(c, o, now) ==
       ParseErrors(c) \o MetadataErrors(c, o.policy) \o SignatureErrors(c, o, now)
    \o Raises(o.encKey = Bad, "OTHER") \o PayloadErrors(c, o.encKey)
    \o SizeErrors(c, o.policy) \o ManifestErrors(c)

\* verify_capsule after the parse.  The encryption key is read from the
\* environment whether or not the capsule is encrypted.
VerifyErrors(c, o, now) ==
       ParseErrors(c)
    \o MetadataErrors(c, o.policy)
    \o SignatureErrors(c, o, now)
    \o TrustErrors(c, o, now)
    \o Raises(o.encKey = Bad, "OTHER")
    \o PayloadErrors(c, o.encKey)
    \o SizeErrors(c, o.policy)
    \o ManifestErrors(c)

-----------------------------------------------------------------------------
\* unpack_payload: the files a verified capsule is written to.

FilesToWrite(c) ==
    IF c.ctype = "bundle" THEN c.content.entries
    ELSE << [path |-> PayloadName(c), data |-> c.content, encoded |-> TRUE, metaOk |-> TRUE] >>

FileContents(c) == { FilesToWrite(c)[i].data : i \in DOMAIN FilesToWrite(c) }

\* unpack_bundle on a payload that is no bundle document.
NotABundle(c) == c.ctype = "bundle" /\ ~c.content.bundle
=============================================================================
