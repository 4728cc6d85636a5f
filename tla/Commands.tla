------------------------------ MODULE Commands ------------------------------
(***************************************************************************)
(* What the commands verify, unpack and inspect check of a capsule, each   *)
(* in the order of its code (cli.py).  They repeat verify_capsule with     *)
(* code of their own; an error is named as there.                          *)
(***************************************************************************)
EXTENDS Capsule

\* _signature_trust of cli.py.
CommandTrust(c, o, now) ==
    CASE c.sig # "ed25519" -> [status |-> "none", pub |-> None]
      [] c.sig = "ed25519" /\ o.registry # None -> Resolve(o.registry, c.keyId, c.fp, now)
      [] c.sig = "ed25519" /\ o.registry = None ->
            [status |-> IF c.inlineKey = None THEN "none" ELSE "untrusted", pub |-> None]

\* _verify_signature_from_args.
CommandSignatureErrors(c, o, now) ==
    LET pub == CommandTrust(c, o, now).pub
    IN CASE c.sig = "none"        -> <<>>
         [] c.sig = "hmac-sha256" -> HmacErrors(c, o)
         [] c.sig = "ed25519"     ->
              Ed25519Errors(c, IF o.edPub # None THEN o.edPub ELSE IF pub # None THEN pub ELSE c.inlineKey)
         [] c.sig = "other"       -> <<"OTHER">>

\* check_signature_trust with the verdict of CommandTrust.
CommandTrustErrors(c, o, now) ==
    LET status == CommandTrust(c, o, now).status
    IN    Raises(o.policy.requireRegistry /\ status = "revoked", "POLICY_BLOCK")
       \o Raises(o.policy.requireRegistry /\ status # "trusted", "SIGNATURE_UNTRUSTED")

\* Mutant of CommandErrors: the payload is not compared with the manifest.
CommandErrorsNoManifest(c, o, now) ==
       Raises(o.encKey = Bad, "OTHER") \o ParseErrors(c) \o MetadataErrors(c, o.policy)
    \o CommandSignatureErrors(c, o, now) \o CommandTrustErrors(c, o, now)
    \o PayloadErrors(c, o.encKey) \o SizeErrors(c, o.policy)

\* verify, and unpack before it writes: the encryption key is read first.
CommandErrors(c, o, now) ==
       Raises(o.encKey = Bad, "OTHER")
    \o ParseErrors(c)
    \o MetadataErrors(c, o.policy)
    \o CommandSignatureErrors(c, o, now)
    \o CommandTrustErrors(c, o, now)
    \o PayloadErrors(c, o.encKey)
    \o SizeErrors(c, o.policy)
    \o ManifestErrors(c)

\* inspect prefers the key in the capsule to the registry's, and checks nothing
\* when it finds no key.
InspectKey(c, o, now) ==
    IF o.edPub # None THEN o.edPub
    ELSE IF c.inlineKey # None THEN c.inlineKey ELSE CommandTrust(c, o, now).pub

\* What inspect prints as "signature verification: ok".
SignatureChecked(c, o, now) ==
    \/ c.sig = "hmac-sha256" /\ o.keyEnv # None
    \/ c.sig = "ed25519" /\ InspectKey(c, o, now) # None

\* Mutant of InspectErrors: the trust in the signer is printed and not checked.
InspectErrorsUntrusted(c, o, now) ==
       ParseErrors(c) \o MetadataErrors(c, o.policy)
    \o (IF ~SignatureChecked(c, o, now) THEN <<>>
        ELSE IF c.sig = "ed25519" THEN Ed25519Errors(c, InspectKey(c, o, now)) ELSE HmacErrors(c, o))
    \o PayloadErrors(c, o.encKey) \o SizeErrors(c, o.policy) \o ManifestErrors(c)

\* inspect: a malformed encryption key fails only where one is needed, and a
\* missing registry entry only for a capsule with an Ed25519 signature.  Bad as
\* its encryption key is a malformed one; a variable that is missing always fails.
InspectErrors(c, o, now) ==
       ParseErrors(c)
    \o MetadataErrors(c, o.policy)
    \o (IF ~SignatureChecked(c, o, now) THEN <<>>
        ELSE IF c.sig = "ed25519" THEN Ed25519Errors(c, InspectKey(c, o, now)) ELSE HmacErrors(c, o))
    \o (IF c.sig = "ed25519" THEN CommandTrustErrors(c, o, now) ELSE <<>>)
    \o PayloadErrors(c, o.encKey)
    \o SizeErrors(c, o.policy)
    \o ManifestErrors(c)
=============================================================================
