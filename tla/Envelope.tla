------------------------------ MODULE Envelope ------------------------------
(***************************************************************************)
(* Building, compressing, sealing and signing a capsule (envelope.py,      *)
(* encryption.py, signing.py), and what a receiver reads of it again.      *)
(*                                                                         *)
(* Cryptography is symbolic: a signature is the key with what it was made  *)
(* over, a ciphertext or its tag the key with all that went into it.  A    *)
(* header that is absent is None; a header and the one that names its      *)
(* encoding are one.                                                       *)
(***************************************************************************)
EXTENDS Acceptance, Commands

CONSTANTS
    Authors,    \* created_by values; they stand for every header of free text
    Padded      \* texts with blanks around them, each mapped to the text within

ASSUME EnvelopeAssumption ==
    /\ \A text \in DOMAIN Padded : Padded[text] \notin DOMAIN Padded
    /\ None \notin Secrets /\ Bad \notin Secrets

\* The options of one pack call.  sign_key is the shared secret of an HMAC.
PackCall ==
  { call \in
    [ source : {"file", "directory"}, created_by : Authors, compression : {"none", "zstd"},
      encryption_key : Secrets \cup {None}, encryption_key_id : KeyIds \cup {None},
      mode : {"none", "hmac-sha256", "ed25519"}, sign_key : Secrets \cup {None},
      key_id : KeyIds \cup {None}, inline : BOOLEAN ] : call.mode = "hmac-sha256" => call.sign_key # None }

-----------------------------------------------------------------------------
\* What pack_path_with_manifest makes of the files it has read, in their order.

FileContent(data) ==
    [ bundle |-> FALSE, size |-> 1,
      entries |-> << [path |-> <<"raw">>, data |-> data, encoded |-> TRUE, metaOk |-> TRUE] >> ]

Line(path, sha) == [path |-> path, sha |-> sha, bytesOk |-> TRUE]

Packed(source, entries) ==
    IF source = "file"
    THEN LET payload == FileContent(entries[1].data)
         IN [ payload |-> payload, content_type |-> "single", filename |-> entries[1].path,
              manifest_files |-> << Line(entries[1].path, payload) >> ]
    ELSE [ payload        |-> [bundle |-> TRUE, size |-> Len(entries), entries |-> entries],
           content_type   |-> "bundle", filename |-> None,
           manifest_files |-> [i \in DOMAIN entries |-> Line(entries[i].path, entries[i].data)] ]

\* What the tag of a sealed payload binds: every header but those added later.
AddedLater ==
    { "encryption_nonce", "encryption_tag", "signature", "signature_key_id",
      "signature_public_key_fingerprint", "signature_public_key", "signature_value" }

\* Mutant of AssociatedData: the tag binds the payload digest alone.
AssociatedDigest(headers) == [name \in {"payload_sha256"} |-> headers[name]]

AssociatedData(headers) == [name \in DOMAIN headers \ AddedLater |-> headers[name]]

\* The headers build_envelope starts with.
PlainHeaders(packed, call) ==
    [ codec |-> "base64", content_type |-> packed.content_type,
      capsule_manifest |-> packed.manifest_files, payload_sha256 |-> packed.payload,
      compression |-> call.compression, encryption |-> "none", encryption_key_id |-> None,
      encryption_nonce |-> None, encryption_tag |-> None, signature |-> "none",
      signature_key_id |-> None, signature_public_key_fingerprint |-> None,
      signature_public_key |-> None, signature_value |-> None,
      created_by |-> call.created_by, filename |-> packed.filename ]

Text(packed, call, nonce, aad) ==
    [ zip |-> call.compression # "none", of |-> packed.payload,
      key |-> call.encryption_key, nonce |-> nonce, aad |-> aad ]

\* Mutant of BuildEnvelope: the payload is sealed before its headers are set.
BuildEnvelopeSealedFirst(packed, call, nonce) ==
    LET plain == PlainHeaders(packed, call)
        box   == Text(packed, call, nonce, AssociatedData(plain))
    IN IF call.encryption_key = None
       THEN [headers |-> plain, payload |-> Text(packed, call, None, None)]
       ELSE [ headers |-> [plain EXCEPT !.encryption = "aes-256-gcm",
                                        !.encryption_key_id = call.encryption_key_id,
                                        !.encryption_nonce = nonce, !.encryption_tag = box],
              payload |-> box ]

\* build_envelope compresses first, then seals under the headers as they are then.
BuildEnvelope(packed, call, nonce) ==
    LET plain  == PlainHeaders(packed, call)
        sealed == [plain EXCEPT !.encryption = "aes-256-gcm", !.encryption_key_id = call.encryption_key_id]
        box    == Text(packed, call, nonce, AssociatedData(sealed))
    IN IF call.encryption_key = None
       THEN [headers |-> plain, payload |-> Text(packed, call, None, None)]
       ELSE [ headers |-> [sealed EXCEPT !.encryption_nonce = nonce, !.encryption_tag = box],
              payload |-> box ]

-----------------------------------------------------------------------------
\* Signatures.

\* Mutant of SignedBytes: the headers of free text are left out.
SignedBytesOfPayload(e) ==
    [ headers |-> [name \in DOMAIN e.headers \ {"signature_value", "created_by", "filename"} |-> e.headers[name]],
      payload |-> e.payload ]

SignedBytes(e) ==
    [ headers |-> [name \in DOMAIN e.headers \ {"signature_value"} |-> e.headers[name]],
      payload |-> e.payload ]

WithValue(e, key) ==
    [e EXCEPT !.headers.signature_value = [key |-> key, over |-> SignedBytes(e)]]

SignEnvelope(e, key, keyId) ==
    WithValue([e EXCEPT !.headers.signature = "hmac-sha256", !.headers.signature_key_id = keyId], key)

SignEnvelopeEd25519(e, key, keyId, inline) ==
    WithValue([e EXCEPT !.headers.signature = "ed25519", !.headers.signature_key_id = keyId,
                        !.headers.signature_public_key_fingerprint = key,
                        !.headers.signature_public_key = IF inline THEN key ELSE None], key)

\* pack_path after the walk; key is what the private key file holds.
Signed(e, call, key) ==
    CASE call.mode = "none"        -> e
      [] call.mode = "hmac-sha256" -> SignEnvelope(e, call.sign_key, call.key_id)
      [] call.mode = "ed25519"     -> SignEnvelopeEd25519(e, key, call.key_id, call.inline)

-----------------------------------------------------------------------------
\* Reading.

\* Header values lose the blanks around them when they are parsed.
Trim(text) == IF text \in DOMAIN Padded THEN Padded[text] ELSE text

ReadBack(e) ==
    [e EXCEPT !.headers.created_by = Trim(@),
              !.headers.filename = IF @ = None THEN None ELSE << Trim(@[1]) >>]

\* Bytes that are no file and no bundle anyone packed.
Scrambled == [bundle |-> FALSE, entries |-> <<>>, size |-> 0]

Signer(e) ==
    LET value == e.headers.signature_value
    IN IF value = None THEN None ELSE IF value.over = SignedBytes(e) THEN value.key ELSE Bad

\* AES-GCM opens a payload under the headers, nonce and tag it was sealed with.
Sealer(e) ==
    IF e.headers.encryption = "none" THEN None
    ELSE IF /\ e.payload # Bad /\ e.headers.encryption_tag = e.payload
            /\ e.payload.nonce = e.headers.encryption_nonce
            /\ e.payload.aad = AssociatedData(e.headers)
         THEN e.payload.key ELSE Bad

\* The bytes are sealed, or not, as the headers say.
AsSaid(e) == e.payload # Bad /\ (e.headers.encryption = "none") = (e.payload.key = None)

\* A rendered envelope as the record the checks of verify_capsule look at.
View(e) ==
    LET h == e.headers
    IN [ wellFormed |-> TRUE, codec |-> h.codec, ctype |-> h.content_type, filename |-> h.filename,
         sig |-> h.signature, keyId |-> h.signature_key_id,
         fp |-> h.signature_public_key_fingerprint, inlineKey |-> h.signature_public_key,
         signedBy |-> Signer(e), enc |-> Sealer(e),
         decodes |-> e.payload # Bad,
         unzips  |-> h.compression = "none" \/ (AsSaid(e) /\ e.payload.zip),
         content |-> IF AsSaid(e) /\ (e.payload.zip => h.compression # "none")
                     THEN e.payload.of ELSE Scrambled,
         claim |-> h.payload_sha256, manifest |-> h.capsule_manifest ]
=============================================================================
