------------------------------- MODULE MCData -------------------------------
(***************************************************************************)
(* Capsules, messages and options the runs of the receiver are built from. *)
(* Each variant differs from a capsule that passes in one respect.         *)
(***************************************************************************)
EXTENDS ReceiverProps

CONSTANTS s1, s2, d1, d2

MCKeys == {1, 2}

Raw(d) == [bundle |-> FALSE, entries |-> <<[path |-> <<"raw">>, data |-> d, encoded |-> TRUE, metaOk |-> TRUE]>>, size |-> 1]

Plain ==
    [ wellFormed |-> TRUE, codec |-> "base64", ctype |-> "single", filename |-> <<"note">>,
      sig |-> "none", keyId |-> None, fp |-> None, inlineKey |-> None, signedBy |-> None,
      enc |-> None, decodes |-> TRUE, unzips |-> TRUE, content |-> Raw(d1), claim |-> Raw(d1),
      manifest |-> <<[path |-> <<"note">>, sha |-> Raw(d1), bytesOk |-> TRUE]>> ]

Signed(k)   == [Plain EXCEPT !.sig = "ed25519", !.keyId = k, !.fp = k, !.inlineKey = k, !.signedBy = k]
Hmac(s)     == [Plain EXCEPT !.sig = "hmac-sha256", !.signedBy = s]
Sealed(s)   == [Plain EXCEPT !.enc = s]

File(path, d) == [path |-> path, data |-> d, encoded |-> TRUE, metaOk |-> TRUE]
Inventory(entries) ==
    [ i \in DOMAIN entries |-> [path |-> entries[i].path, sha |-> entries[i].data, bytesOk |-> TRUE] ]
BundleOf(entries) == [bundle |-> TRUE, entries |-> entries, size |-> Len(entries)]
Bundle(entries) ==
    [ Plain EXCEPT !.ctype = "bundle", !.filename = None, !.content = BundleOf(entries),
                   !.claim = BundleOf(entries), !.manifest = Inventory(entries) ]

\* One thing wrong with a plain capsule.
Spoiled ==
    { [Plain EXCEPT !.wellFormed = FALSE], [Plain EXCEPT !.codec = "other"],
      [Plain EXCEPT !.ctype = "other"], [Plain EXCEPT !.decodes = FALSE],
      [Plain EXCEPT !.unzips = FALSE], [Plain EXCEPT !.claim = Raw(d2)],
      [Plain EXCEPT !.content.size = 3, !.claim.size = 3, !.manifest[1].sha.size = 3],
      [Plain EXCEPT !.manifest[1].path = <<"other">>], [Plain EXCEPT !.manifest[1].sha = Raw(d2)],
      [Plain EXCEPT !.manifest = @ \o @], [Plain EXCEPT !.manifest[1].bytesOk = FALSE],
      [Plain EXCEPT !.sig = "other"], [Plain EXCEPT !.ctype = "bundle"] }

\* Signed capsules: by either key, with and without key and key id in the
\* headers, forged, naming the other key, unsigned in fact.
SignedVariants ==
    UNION { { Signed(k), [Signed(k) EXCEPT !.inlineKey = None], [Signed(k) EXCEPT !.keyId = None],
              [Signed(k) EXCEPT !.signedBy = Bad], [Signed(k) EXCEPT !.signedBy = None],
              [Signed(k) EXCEPT !.signedBy = 3 - k],
              [Signed(k) EXCEPT !.fp = 3 - k], [Signed(k) EXCEPT !.keyId = 3 - k],
              [Signed(k) EXCEPT !.inlineKey = 3 - k], [Signed(k) EXCEPT !.inlineKey = Bad],
              [Signed(k) EXCEPT !.fp = None] } : k \in {1, 2} }

Sealings == { Hmac(s1), Hmac(s2), Hmac(None), Sealed(s1), Sealed(s2), Sealed(Bad) }

\* Tokens.
Tok(kind) == [kind |-> kind, capsule |-> None, ref |-> None, look |-> "plain"]
B == Tok("begin")
E == Tok("end")
Prose == Tok("prose")
Body(c) == [Tok("body") EXCEPT !.capsule = c]
Ref(d) == [Tok("reference") EXCEPT !.ref = d]
Block(c) == <<B, Body(c), E>>

Descriptor(c) == [valid |-> TRUE, uri |-> "public", capsule |-> c, payload |-> c.claim]

\* Policies and options.
OpenPolicy ==
    [ requireKnownCodec |-> TRUE, allowUnsigned |-> TRUE, requiredModes |-> {},
      requireRegistry |-> FALSE, allowInlineKeys |-> TRUE, trustedKeyIds |-> {},
      trustedFps |-> {}, allowedTypes |-> {"single", "bundle"}, maxPayload |-> 2 ]

Key(id, k) == [keyId |-> id, fp |-> k, pub |-> k, status |-> "trusted", revokedAt |-> None, expires |-> None]
RevokedKey(id, k)  == [Key(id, k) EXCEPT !.status = "revoked"]
ExpiringKey(id, k) == [Key(id, k) EXCEPT !.expires = 0]

OpenOptions ==
    [ policy |-> OpenPolicy, registry |-> None, keyEnv |-> None, encKey |-> None,
      edPub |-> None, fetch |-> TRUE, scan |-> TRUE ]

Registries ==
    { None, <<>>, <<Key(1, 1)>>, <<[Key(1, 1) EXCEPT !.pub = None]>>, <<RevokedKey(1, 1)>>,
      <<[Key(1, 1) EXCEPT !.revokedAt = 1]>>, <<ExpiringKey(1, 1)>>,
      <<Key(1, 1), RevokedKey(2, 1)>>, <<RevokedKey(2, 1), Key(1, 1), ExpiringKey(2, 2)>> }

Policy(changes) == [OpenOptions EXCEPT !.policy = changes]

CallsOf(messages, options) == [msgs |-> messages, opts |-> options]
=============================================================================
