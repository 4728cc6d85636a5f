------------------------------- MODULE MCGate -------------------------------
(* One message that carries a capsule inline and by reference: every variant *)
(* of a capsule against every policy, registry and key option.               *)
EXTENDS MCData

GateCapsules == {Plain} \cup Spoiled \cup SignedVariants \cup Sealings

GateOptions ==
    { [OpenOptions EXCEPT !.registry = r, !.policy.requireRegistry = required] :
        r \in Registries, required \in BOOLEAN }
    \cup { [OpenOptions EXCEPT !.registry = <<Key(1, 1)>>, !.policy.requireRegistry = TRUE, !.edPub = 2] }
    \cup { [OpenOptions EXCEPT !.edPub = k] : k \in {1, 2, Bad} }
    \cup { [OpenOptions EXCEPT !.keyEnv = s] : s \in {s1, Bad} }
    \cup { [OpenOptions EXCEPT !.encKey = s] : s \in {s1, Bad} }
    \cup { Policy([OpenPolicy EXCEPT !.allowUnsigned = FALSE]),
           Policy([OpenPolicy EXCEPT !.requiredModes = {"ed25519"}]),
           Policy([OpenPolicy EXCEPT !.allowInlineKeys = FALSE]),
           Policy([OpenPolicy EXCEPT !.trustedKeyIds = {1}]),
           Policy([OpenPolicy EXCEPT !.trustedFps = {1}]),
           Policy([OpenPolicy EXCEPT !.allowedTypes = {"bundle", "other"}]),
           Policy([OpenPolicy EXCEPT !.maxPayload = 0]),
           Policy([OpenPolicy EXCEPT !.requireKnownCodec = FALSE]) }

GateJobs ==
    { CallsOf(<< Block(c) \o <<Ref(Descriptor(c))>> >>, o) : c \in GateCapsules, o \in GateOptions }
=============================================================================
