------------------------------- MODULE Trust -------------------------------
(***************************************************************************)
(* The local signature registry (trust.py): which public keys the receiver *)
(* trusts, and what it answers when asked about the key of a capsule.      *)
(*                                                                         *)
(* SHA256 is taken to be collision free, so a fingerprint is represented   *)
(* by the key it is the hash of; a digest anywhere in these modules is     *)
(* represented by the value it is the digest of.  Lower-casing of hex      *)
(* strings disappears with that representation.                            *)
(***************************************************************************)
EXTENDS Integers, Sequences, FiniteSets

CONSTANTS
    None,       \* Python's None: a header or an option that is absent
    Bad,        \* present but unusable: does not decode, forged, missing in the environment
    KeyIds,     \* signature_key_id values; a number stands for the string's place in sorted order
    Keys,       \* Ed25519 public keys, ordered as their fingerprints sort
    MaxTime     \* bound on the clock

Times == 0..MaxTime

ASSUME TrustAssumption ==
    /\ KeyIds \subseteq Nat /\ Keys \subseteq Nat
    /\ MaxTime \in Nat
    /\ None \notin Nat /\ Bad \notin Nat /\ None # Bad

\* An entry of a registry file.  public_key is optional; status "revoked" and a
\* revoked_at date both revoke, whatever the date.
TrustedKey == [ keyId     : KeyIds,
                fp        : Keys,
                pub       : Keys \cup {None},
                status    : {"trusted", "revoked"},
                revokedAt : Times \cup {None},
                expires   : Times \cup {None} ]

\* A registry as _trusted_key_from_mapping lets it be loaded: an entry with a
\* public key has that key's fingerprint.
Registry == { keys \in Seq(TrustedKey) :
                \A i \in DOMAIN keys : keys[i].pub \in {None, keys[i].fp} }

Revoked(key) == key.status = "revoked" \/ key.revokedAt # None

Expired(key, now) == key.expires # None /\ now > key.expires

\* The entries that agree with every identifier the capsule gives.
Matching(keys, keyId, fp) ==
    { i \in DOMAIN keys : keyId \in {None, keys[i].keyId} /\ fp \in {None, keys[i].fp} }

First(S) == CHOOSE i \in S : \A j \in S : i <= j

KeyStatus(key, now) ==
    IF Revoked(key) THEN "revoked" ELSE IF Expired(key, now) THEN "expired" ELSE "trusted"

\* SignatureRegistry.resolve: the first matching entry decides.
Resolve(keys, keyId, fp, now) ==
    LET found == Matching(keys, keyId, fp)
        key   == keys[First(found)]
    IN IF found = {} \/ (keyId = None /\ fp = None)
       THEN [status |-> "untrusted", pub |-> None]
       ELSE [status |-> KeyStatus(key, now), pub |-> key.pub]

TrustStatuses == {"none", "untrusted", "revoked", "expired", "trusted"}
=============================================================================
