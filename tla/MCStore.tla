------------------------------- MODULE MCStore -------------------------------
(* Snapshots with one and two keys, a key revoked by date, a key from a file, *)
(* an early expiry, a wrong issuer, a forged signature and a broken key.      *)
EXTENDS TrustStore

MCKeys == {1, 2}
MCIssuers == {"ours", "theirs"}

Entry(id, key, status, revokedAt) ==
    [ keyId |-> id, fp |-> key, pub |-> key, path |-> None, status |-> status,
      revokedAt |-> revokedAt, expires |-> None ]
FromFile(m) == [m EXCEPT !.pub = None, !.path = m.fp]

Good(sequence, keys) ==
    [ wellFormed |-> TRUE, issuer |-> "ours", sequence |-> sequence, expires |-> None,
      signedBy |-> "root", keys |-> keys, size |-> 1 + Len(keys) ]

First1  == Good(1, <<Entry(1, 1, "trusted", None)>>)
Revoke1 == Good(2, <<Entry(1, 1, "trusted", 0), Entry(2, 2, "trusted", None)>>)
Short   == [Good(3, <<FromFile(Entry(2, 2, "revoked", None))>>) EXCEPT !.expires = 0]
Strange == [Good(4, <<>>) EXCEPT !.issuer = "theirs"]
Forged  == [Good(5, <<>>) EXCEPT !.signedBy = "intruder"]
Broken  == Good(6, <<[Entry(1, 1, "trusted", None) EXCEPT !.pub = 2]>>)

MCSnapshots == {First1, Revoke1, Short, Strange, Forged, Broken}
=============================================================================
