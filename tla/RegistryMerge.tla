--------------------------- MODULE RegistryMerge ---------------------------
(***************************************************************************)
(* merge_signature_registries (trust.py): the registries given to one call *)
(* (--signature-registry is repeatable) become one.  A step is one key of  *)
(* one registry, in the order of the options and of the file; at the end   *)
(* the survivors are sorted by key id, then fingerprint.                   *)
(***************************************************************************)
EXTENDS Trust

CONSTANT Inputs     \* the lists of registries a merge may be given

ASSUME MergeAssumption == \A list \in Inputs : list # <<>> /\ list \in Seq(Registry)

VARIABLES
    given,      \* the registries
    r, k,       \* the next key: the k-th of the r-th registry
    merged,     \* merged_by_identity: at most one entry per identity
    out         \* the merged registry, None before the end

vars == <<given, r, k, merged, out>>

Identity(key) == <<key.keyId, key.fp>>

Init ==
    /\ given \in Inputs
    /\ r = 1 /\ k = 1
    /\ merged = {} /\ out = None

Reading  == out = None /\ r <= Len(given) /\ k <= Len(given[r])
Key      == given[r][k]
Existing == { entry \in merged : Identity(entry) = Identity(Key) }
Advance  == k' = k + 1 /\ UNCHANGED <<given, r, out>>

AddKey ==
    /\ Reading /\ Existing = {}
    /\ merged' = merged \cup {Key}
    /\ Advance

\* Mutant of RevokeKey: the first entry of an identity stays, revoked or not.
RevokeKeyTooLate ==
    /\ Reading /\ Existing # {} /\ ~\E entry \in Existing : Revoked(entry)
    /\ Revoked(Key)
    /\ UNCHANGED merged
    /\ Advance

\* A revoked entry replaces one that is not.
RevokeKey ==
    /\ Reading /\ Existing # {} /\ ~\E entry \in Existing : Revoked(entry)
    /\ Revoked(Key)
    /\ merged' = (merged \ Existing) \cup {Key}
    /\ Advance

\* Mutant of KeepKey: among entries that are not revoked the last one stays.
KeepLatestKey ==
    /\ Reading /\ Existing # {}
    /\ (\E entry \in Existing : Revoked(entry)) \/ ~Revoked(Key)
    /\ merged' = IF \E entry \in Existing : Revoked(entry) THEN merged
                 ELSE (merged \ Existing) \cup {Key}
    /\ Advance

\* Otherwise the first entry stays.
KeepKey ==
    /\ Reading /\ Existing # {}
    /\ (\E entry \in Existing : Revoked(entry)) \/ ~Revoked(Key)
    /\ UNCHANGED merged
    /\ Advance

\* Mutant of NextRegistry: the place in the registry is not reset.
NextRegistryAtSamePlace ==
    /\ out = None /\ r <= Len(given) /\ k > Len(given[r])
    /\ r' = r + 1
    /\ UNCHANGED <<given, k, merged, out>>

NextRegistry ==
    /\ out = None /\ r <= Len(given) /\ k > Len(given[r])
    /\ r' = r + 1 /\ k' = 1
    /\ UNCHANGED <<given, merged, out>>

Before(a, b) == a.keyId < b.keyId \/ (a.keyId = b.keyId /\ a.fp < b.fp)

\* The entries of a set in the order of their identities: one list, as no two share one.
Sorted(entries) ==
    LET n == Cardinality(entries)
    IN CHOOSE list \in [1..n -> entries] : \A i, j \in 1..n : i < j => Before(list[i], list[j])

Finish ==
    /\ out = None /\ r > Len(given)
    /\ out' = Sorted(merged)
    /\ UNCHANGED <<given, r, k, merged>>

Rest == out # None /\ UNCHANGED vars

Next == AddKey \/ RevokeKey \/ KeepKey \/ NextRegistry \/ Finish \/ Rest

Spec == Init /\ [][Next]_vars

-----------------------------------------------------------------------------
\* What holds of the next key to read, and of the merged registry.
TypeOK ==
    /\ given \in Inputs
    /\ r \in 1..(Len(given) + 1) /\ k \in Nat \ {0}
    /\ r <= Len(given) => k <= Len(given[r]) + 1
    /\ merged \subseteq TrustedKey
    /\ out \in Registry \cup {None}

\* The j-th key of the i-th registry was read.
WasRead(i, j) == i < r \/ (i = r /\ j < k)

\* Every key read so far has exactly one entry, and once any registry revoked it
\* that entry is revoked, in whatever order the registries came ("revoked wins").
RevokedWins ==
    /\ \A a, b \in merged : Identity(a) = Identity(b) => a = b
    /\ \A i \in DOMAIN given : \A j \in DOMAIN given[i] : WasRead(i, j) =>
         \E entry \in merged :
            /\ Identity(entry) = Identity(given[i][j])
            /\ Revoked(given[i][j]) => Revoked(entry)

Verdict(registry, id, key, t) == Resolve(registry, id, key, t).status

\* Asked about a key id and key, the merged registry answers "trusted" only if one
\* of the registries does on its own and none of them knows a revocation.
TrustIsNotInvented ==
    out # None =>
        \A id \in KeyIds, key \in Keys, t \in Times :
            Verdict(out, id, key, t) = "trusted" =>
                /\ \E i \in DOMAIN given : Verdict(given[i], id, key, t) = "trusted"
                /\ \A i \in DOMAIN given : Verdict(given[i], id, key, t) # "revoked"

\* The same for a capsule that gives only the fingerprint of its key: what every
\* registry revokes is revoked after the merge.
RevokedStaysRevoked ==
    out # None =>
        \A key \in Keys, t \in Times :
            (\A i \in DOMAIN given : Verdict(given[i], None, key, t) = "revoked")
                => Verdict(out, None, key, t) = "revoked"
=============================================================================
