----------------------------- MODULE MCHandover -----------------------------
(* Two files, five ways to pack, seven options to read with.  Each budget is *)
(* a family of scenarios: a directory edited while it is packed; two packs   *)
(* and one change on the way; one pack, one change and every reader; key     *)
(* files generated anew around a pack and a read.                            *)
EXTENDS Handover

CONSTANTS s1, s2, d1, d2

MCKeys  == {1, 2, 3}
TwoFiles == << <<"a">>, <<"b">> >>
Blank   == << <<" a">> >>
NoPads  == [text \in {} |-> text]
Pads    == [text \in {" a"} |-> "a"]

Call == [ source |-> "directory", created_by |-> "me", compression |-> "none", encryption_key |-> None,
          encryption_key_id |-> None, mode |-> "none", sign_key |-> None, key_id |-> None, inline |-> FALSE ]
OneFile  == [Call EXCEPT !.source = "file"]
HmacCall == [Call EXCEPT !.mode = "hmac-sha256", !.sign_key = s1, !.compression = "zstd"]
EdCall   == [Call EXCEPT !.mode = "ed25519", !.key_id = 1]
EdInline == [EdCall EXCEPT !.inline = TRUE, !.created_by = "you"]
Sealing(call) == [call EXCEPT !.encryption_key = s2, !.encryption_key_id = 1]
MCCalls == { OneFile, HmacCall, EdInline,
             Sealing([OneFile EXCEPT !.compression = "zstd"]), Sealing([EdCall EXCEPT !.key_id = None]) }

Policy == [ requireKnownCodec |-> TRUE, allowUnsigned |-> TRUE, requiredModes |-> {},
            requireRegistry |-> FALSE, allowInlineKeys |-> TRUE, trustedKeyIds |-> {}, trustedFps |-> {},
            allowedTypes |-> {"single", "bundle"}, maxPayload |-> 2 ]
Default  == [ policy |-> Policy, registry |-> None, keyEnv |-> None, encKey |-> s2, edPub |-> None,
            fetch |-> FALSE, scan |-> FALSE ]
Entry(k, expires) == [ keyId |-> 1, fp |-> k, pub |-> k, status |-> "trusted", revokedAt |-> None, expires |-> expires ]
Known == [Default EXCEPT !.registry = <<Entry(1, 0)>>, !.policy.requireRegistry = TRUE]
MCOptions ==
    { Default, [Default EXCEPT !.keyEnv = s1], [Default EXCEPT !.keyEnv = s2, !.encKey = s1],
      [Default EXCEPT !.encKey = Bad], [Default EXCEPT !.registry = <<Entry(1, 0)>>],
      Known,
      [Default EXCEPT !.policy.allowUnsigned = FALSE] }

Read(kind, o) == [kind |-> kind, opts |-> o, ownKey |-> FALSE]
WithKey(call) == [call EXCEPT !.ownKey = TRUE]
Kinds == {"verify_capsule", "unpack_capsule", "verify", "unpack", "inspect"}

None0 == [edits |-> 0, packs |-> 1, kills |-> 0, changes |-> 0, reads |-> 1, keys |-> 0]
Scenario(counts, packCalls, readCalls) ==
    [name \in DOMAIN counts \cup {"packCalls", "readCalls"} |->
        IF name = "packCalls" THEN packCalls ELSE IF name = "readCalls" THEN readCalls ELSE counts[name]]

Edited   == Scenario([None0 EXCEPT !.edits = 2, !.kills = 1], {OneFile, Call, EdInline},
                     {Read("verify", Default), Read("unpack_capsule", Default)})
Replaced == Scenario([None0 EXCEPT !.packs = 2, !.changes = 1], MCCalls,
                     {Read(kind, Default) : kind \in {"unpack_capsule", "verify"}} \cup {Read("unpack", [Default EXCEPT !.keyEnv = s1])})
Changed  == Scenario([None0 EXCEPT !.changes = 1], MCCalls, {Read(kind, o) : kind \in Kinds, o \in MCOptions})
Rekeyed  == Scenario([None0 EXCEPT !.keys = 2], {EdInline, Sealing(EdCall)},
                     {WithKey(Read(kind, Default)) : kind \in {"verify_capsule", "inspect"}} \cup {Read("verify", Known)})
MCBudgets == {Edited, Replaced, Changed, Rekeyed}
Small     == {Scenario(None0, {OneFile}, {Read("verify", [Default EXCEPT !.encKey = None])})}

Swap == Permutations(Blobs)
=============================================================================
