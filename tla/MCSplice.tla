------------------------------ MODULE MCSplice ------------------------------
(* Two messages, the first with every order of up to four tokens: truncated,  *)
(* nested and spliced capsule blocks, with a key that may expire meanwhile.   *)
EXTENDS MCData

Orders(tokens, n) == UNION { [1..k -> tokens] : k \in 1..n }

FirstMessages ==
    Orders({B, E, Body(Signed(1))}, 4)
    \cup Orders({B, E, Ref(Descriptor(Plain))}, 3)
    \cup { <<B, Body(Plain), Prose, E>>, <<Prose>> \o Block(Plain) \o <<Prose>> }

SecondMessages == { Block(Signed(1)), <<Ref(Descriptor(Plain)), E>>, <<Prose>> }

SpliceOptions ==
    { [OpenOptions EXCEPT !.registry = <<ExpiringKey(1, 1)>>, !.policy.requireRegistry = TRUE],
      [OpenOptions EXCEPT !.fetch = FALSE] }

SpliceJobs ==
    { CallsOf(<<first, second>>, o) :
        first \in FirstMessages, second \in SecondMessages, o \in SpliceOptions }
=============================================================================
