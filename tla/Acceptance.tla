----------------------------- MODULE Acceptance -----------------------------
(***************************************************************************)
(* What an accepted capsule must be, stated without the order of the       *)
(* checks: intact, admitted by the policy, and signed by someone the       *)
(* options let sign.  verify_capsule is measured against this.             *)
(***************************************************************************)
EXTENDS Capsule

\* The registry entry that vouches for a key: neither revoked nor expired.
Vouches(entry, key, keyId, t) ==
    /\ entry.fp = key
    /\ keyId \in {None, entry.keyId}
    /\ ~Revoked(entry) /\ ~Expired(entry, t)

Authentic(c, o, t) ==
    CASE c.sig = "none"        -> o.policy.allowUnsigned /\ ~o.policy.requireRegistry
      [] c.sig = "hmac-sha256" -> c.signedBy \in Secrets /\ c.signedBy = o.keyEnv /\ ~o.policy.requireRegistry
      [] c.sig = "ed25519"     ->
            /\ c.signedBy \in Keys /\ c.fp = c.signedBy
            /\ o.edPub \in {None, c.signedBy}
            /\ o.policy.requireRegistry => o.registry # None /\
                 \E i \in DOMAIN o.registry : Vouches(o.registry[i], c.signedBy, c.keyId, t)
      [] OTHER -> FALSE

Admitted(c, p) ==
    /\ p.requiredModes # {} => c.sig \in p.requiredModes
    /\ c.inlineKey # None => p.allowInlineKeys
    /\ p.trustedKeyIds # {} => c.keyId \in p.trustedKeyIds
    /\ p.trustedFps # {} => c.fp \in p.trustedFps
    /\ c.ctype \in p.allowedTypes
    /\ c.content.size <= p.maxPayload

Intact(c, o) ==
    /\ c.wellFormed /\ c.codec \in KnownCodecs /\ c.decodes /\ c.unzips
    /\ c.enc \in {None, o.encKey}
    /\ c.content = c.claim
    /\ ManifestMatches(c)

Passes(c, o, t) == Intact(c, o) /\ Admitted(c, o.policy) /\ Authentic(c, o, t)

PassedBy(c, o, t) == \E s \in 0..t : Passes(c, o, s)
=============================================================================
