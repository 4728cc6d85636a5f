------------------------------ MODULE TrustStore -----------------------------
(***************************************************************************)
(* trust import-snapshot and trust sync (cli.py, trust.py): a signed       *)
(* snapshot is read or fetched, verified against the root keys, and        *)
(* written over the registry file the receiver loads later.  Any number of *)
(* such commands run at once, take turns at each step and may be killed;   *)
(* all of them are given the same --issuer, --trusted-root-key and --out.  *)
(*                                                                         *)
(* A file is its length and the document a JSON parser finds in it, in a   *)
(* set: {} when it is missing, empty, cut off, or followed by the rest of  *)
(* a longer document.  A part of one document over a part of another is    *)
(* taken not to parse.                                                     *)
(***************************************************************************)
EXTENDS Trust

CONSTANTS
    Workers,    \* the processes that run trust commands
    Snapshots,  \* what snapshot files and servers may hold
    Issuers,    \* issuer names
    Issuer,     \* --issuer, None when the option is not given
    RootKeys,   \* keys that may sign snapshots
    Roots,      \* --trusted-root-key, given at least once
    MaxKills    \* bound on the number of commands that are killed

Operations == {"import", "sync"}

\* An entry of a keys list as it stands in JSON: path is the key in the file that
\* public_key_path names, Bad when that file cannot be read.
KeyMapping == [ keyId     : KeyIds,
                fp        : Keys,
                pub       : Keys \cup {None, Bad},
                path      : Keys \cup {None, Bad},
                status    : {"trusted", "revoked", "other"},
                revokedAt : Times \cup {None},
                expires   : Times \cup {None} ]

\* A snapshot; size is the length of the registry document made from it.
Snapshot == [ wellFormed : BOOLEAN,     \* JSON of version 1, every field there and of its type
              issuer     : Issuers,
              sequence   : Nat,
              expires    : Times \cup {None},
              signedBy   : RootKeys \cup {None},    \* whose signature over all other fields
              keys       : Seq(KeyMapping),
              size       : Nat \ {0} ]

ASSUME StoreAssumption ==
    /\ Snapshots \subseteq Snapshot
    /\ Issuer \in Issuers \cup {None} /\ Roots \subseteq RootKeys
    /\ MaxKills \in Nat /\ None \notin Snapshots

VARIABLES
    file,   \* the registry file
    now,    \* the clock
    phase,  \* how far each command has come
    job,    \* the snapshot and operation of each command
    alone,  \* history: no other command touched the file since this one opened it
    kills

vars == <<file, now, phase, job, alone, kills>>

-----------------------------------------------------------------------------
\* Keys in and out of JSON.

\* _trusted_key_from_mapping and _optional_public_key raise nothing.
KeyLoads(m) ==
    /\ m.status \in {"trusted", "revoked"}
    /\ m.pub = None \/ m.path = None
    /\ {m.pub, m.path} \subseteq {None, m.fp}

TrustedKeyOf(m) ==
    [ keyId |-> m.keyId, fp |-> m.fp, pub |-> IF m.pub # None THEN m.pub ELSE m.path,
      status |-> m.status, revokedAt |-> m.revokedAt, expires |-> m.expires ]

\* Mutant of MappingOf: the date of a revocation is not written.
MappingOfUndated(key) ==
    [ keyId |-> key.keyId, fp |-> key.fp, pub |-> key.pub, path |-> None,
      status |-> key.status, revokedAt |-> None, expires |-> key.expires ]

\* _trusted_key_to_mapping: a key that came from a file is written inline.
MappingOf(key) ==
    [ keyId |-> key.keyId, fp |-> key.fp, pub |-> key.pub, path |-> None,
      status |-> key.status, revokedAt |-> key.revokedAt, expires |-> key.expires ]

RegistryOf(mappings) == [i \in DOMAIN mappings |-> TrustedKeyOf(mappings[i])]

\* verified_snapshot_to_registry_document.
Document(s) ==
    [ keys |-> [i \in DOMAIN s.keys |-> MappingOf(RegistryOf(s.keys)[i])],
      issuer |-> s.issuer, sequence |-> s.sequence, expires |-> s.expires ]

-----------------------------------------------------------------------------
\* What _reject_snapshot_public_key_paths refuses.
HasKeyPath(s) == \E i \in DOMAIN s.keys : s.keys[i].path # None

\* verify_signed_registry_snapshot, after the refusal of key paths by sync.  The
\* sequence number is not compared with anything.
Admitted(s, operation, time) ==
    /\ s.wellFormed
    /\ operation = "sync" => ~HasKeyPath(s)
    /\ Issuer \in {None, s.issuer}
    /\ ~Expired(s, time)
    /\ s.signedBy \in Roots
    /\ \A i \in DOMAIN s.keys : KeyLoads(s.keys[i])

NoJob == [snapshot |-> None, operation |-> None]
Empty == [size |-> 0, docs |-> {}]

\* What write(2) of the first n bytes at offset 0 leaves.
Written(docs, n) ==
    [ size |-> IF n < file.size THEN file.size ELSE n,
      docs |-> IF n < file.size THEN {} ELSE docs ]

Init ==
    /\ file = Empty /\ now = 0 /\ kills = 0
    /\ phase = [w \in Workers |-> "idle"]
    /\ job = [w \in Workers |-> NoJob]
    /\ alone = [w \in Workers |-> FALSE]

\* A command starts and has read the snapshot file, or fetched the snapshot.
CallWith(w, s, operation) ==
    /\ phase[w] \in {"idle", "returned"}
    /\ phase' = [phase EXCEPT ![w] = "read"]
    /\ job' = [job EXCEPT ![w] = [snapshot |-> s, operation |-> operation]]
    /\ alone' = [alone EXCEPT ![w] = FALSE]
    /\ UNCHANGED <<file, now, kills>>

Call(w) == \E s \in Snapshots, operation \in Operations : CallWith(w, s, operation)

Verify(w) ==
    /\ phase[w] = "read"
    /\ Admitted(job[w].snapshot, job[w].operation, now)
    /\ phase' = [phase EXCEPT ![w] = "verified"]
    /\ UNCHANGED <<file, now, job, alone, kills>>

\* Mutant of Refuse: the error is printed and the command goes on with nothing.
RefuseAndGoOn(w) ==
    /\ phase[w] = "read"
    /\ ~Admitted(job[w].snapshot, job[w].operation, now)
    /\ phase' = [phase EXCEPT ![w] = "verified"]
    /\ job' = [job EXCEPT ![w] = NoJob]
    /\ UNCHANGED <<file, now, alone, kills>>

\* The command exits with an error and has written nothing.
Refuse(w) ==
    /\ phase[w] = "read"
    /\ ~Admitted(job[w].snapshot, job[w].operation, now)
    /\ phase' = [phase EXCEPT ![w] = "idle"]
    /\ job' = [job EXCEPT ![w] = NoJob]
    /\ UNCHANGED <<file, now, alone, kills>>

\* Another command touched the file.
Disturbed(w) == [v \in Workers |-> v = w /\ alone[v]]

\* Mutant of Open: write_text replaced by an update in place, which truncates nothing.
OpenInPlace(w) ==
    /\ phase[w] = "verified"
    /\ phase' = [phase EXCEPT ![w] = "opened"]
    /\ alone' = [v \in Workers |-> v = w]
    /\ UNCHANGED <<file, now, job, kills>>

\* Mutant of Open: the file is created exclusively, and the command waits otherwise.
OpenNew(w) ==
    /\ phase[w] = "verified" /\ file.size = 0
    /\ file' = Empty
    /\ phase' = [phase EXCEPT ![w] = "opened"]
    /\ alone' = [v \in Workers |-> v = w]
    /\ UNCHANGED <<now, job, kills>>

\* write_text opens the file with mode "w", which truncates it.
Open(w) ==
    /\ phase[w] = "verified"
    /\ file' = Empty
    /\ phase' = [phase EXCEPT ![w] = "opened"]
    /\ alone' = [v \in Workers |-> v = w]
    /\ UNCHANGED <<now, job, kills>>

\* write_text writes the document, and the command reports success.
Write(w) ==
    /\ phase[w] = "opened"
    /\ LET s == job[w].snapshot IN file' = Written({Document(s)}, s.size)
    /\ phase' = [phase EXCEPT ![w] = "returned"]
    /\ alone' = Disturbed(w)
    /\ UNCHANGED <<now, job, kills>>

\* The process dies between two steps, or inside the write after n bytes.
Kill(w) ==
    /\ kills < MaxKills /\ phase[w] \notin {"idle", "returned"}
    /\ kills' = kills + 1
    /\ phase' = [phase EXCEPT ![w] = "idle"]
    /\ job' = [job EXCEPT ![w] = NoJob]
    /\ \/ UNCHANGED <<file, alone>>
       \/ /\ phase[w] = "opened"
          /\ \E n \in 1..(job[w].snapshot.size - 1) : file' = Written({}, n)
          /\ alone' = Disturbed(w)
    /\ UNCHANGED now

Tick == now < MaxTime /\ now' = now + 1 /\ UNCHANGED <<file, phase, job, alone, kills>>

Run(w) == Verify(w) \/ Refuse(w) \/ Open(w) \/ Write(w)

Next == (\E w \in Workers : Call(w) \/ Run(w) \/ Kill(w)) \/ Tick

Spec == Init /\ [][Next]_vars

\* A started command goes on, and someone runs one again until it succeeds: again
\* and again with a snapshot that is good at that moment.
Retry(w) == \E s \in Snapshots : Admitted(s, "sync", now) /\ CallWith(w, s, "sync")
Fairness ==
    /\ \A w \in Workers : WF_vars(Run(w))
    /\ SF_vars(\E w \in Workers : Retry(w))
FairSpec == Spec /\ Fairness

-----------------------------------------------------------------------------
\* The state is what _write_registry_from_snapshot and its callers can produce.
TypeOK ==
    /\ file \in [size : Nat, docs : {{}} \cup { {Document(s)} : s \in Snapshots }]
    /\ now \in Times /\ kills \in 0..MaxKills
    /\ phase \in [Workers -> {"idle", "read", "verified", "opened", "returned"}]
    /\ job \in [Workers -> [snapshot : Snapshots \cup {None}, operation : Operations \cup {None}]]
    /\ \A w \in Workers : phase[w] # "idle" => job[w].snapshot \in Snapshots
    /\ alone \in [Workers -> BOOLEAN]

\* load_signature_registry returns a registry: the one of this document.
Loads(doc) == doc \in file.docs /\ \A i \in DOMAIN doc.keys : KeyLoads(doc.keys[i])
Loadable   == \E doc \in file.docs : Loads(doc)

\* Whatever two commands and a kill do to the file, a receiver that can load it gets
\* the registry of one snapshot that its issuer signed with a root key and that was
\* in date when a command verified it; each look-up, a revoked key's too, has the
\* answer the snapshot gives (trust.py:171-234, 362-409, cli.py:735-738).
LoadedIsAdmitted ==
    \A doc \in file.docs : Loads(doc) =>
        \E s \in Snapshots, operation \in Operations, t \in 0..now :
            /\ Admitted(s, operation, t)
            /\ <<doc.issuer, doc.sequence>> = <<s.issuer, s.sequence>>
            /\ \A id \in KeyIds \cup {None}, key \in Keys \cup {None}, time \in Times :
                 Resolve(RegistryOf(doc.keys), id, key, time)
                     = Resolve(RegistryOf(s.keys), id, key, time)

\* A command that reported success, with no other command at the file between its
\* opening of it and now, has installed its snapshot whole, whatever the file held
\* before: a longer document or what a kill left (cli.py:735-738).
SuccessIsInstalled ==
    \A w \in Workers :
        phase[w] = "returned" /\ alone[w] =>
            Loads(Document(job[w].snapshot))

\* A registry file that a kill or two commands at once made unreadable is whole
\* again in the end, once no two commands write at the same time any more: a command
\* needs nothing of the file it replaces (cli.py:735-738).
Writing == { w \in Workers : phase[w] = "opened" }
RegistryIsRepaired ==
    <>[](Cardinality(Writing) <= 1) => ((file.size > 0 /\ ~Loadable) ~> Loadable)
=============================================================================
