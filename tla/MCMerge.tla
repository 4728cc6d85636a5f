------------------------------- MODULE MCMerge ------------------------------
(* Two registries of up to two entries for one key, and three registries of  *)
(* up to one entry for two keys: trusted, revoked and expired entries.       *)
EXTENDS RegistryMerge

MCKeys == {1, 2}

Entry(id, key, status, revokedAt, expires) ==
    [keyId |-> id, fp |-> key, pub |-> key, status |-> status, revokedAt |-> revokedAt, expires |-> expires]

Entries(keys) ==
    UNION { { Entry(id, key, "trusted", None, None), Entry(id, key, "revoked", None, None),
              Entry(id, key, "trusted", 1, None), Entry(id, key, "trusted", None, 0) } :
            id \in KeyIds, key \in keys }

UpTo(n, S) == UNION { [1..i -> S] : i \in 0..n }

MCInputs ==
    [1..2 -> UpTo(2, Entries({1}))] \cup [1..3 -> UpTo(1, Entries({1, 2}))]
=============================================================================
