------------------------------- MODULE MCRefs -------------------------------
(* Two messages with reference descriptors of every kind, one after a block.  *)
EXTENDS MCData

GarbledText == [Plain EXCEPT !.wellFormed = FALSE]

RefVariants ==
    { Descriptor(Plain), Descriptor(GarbledText), Descriptor([Plain EXCEPT !.claim = Raw(d2)]),
      Descriptor([Plain EXCEPT !.content = Raw(d2)]),
      [Descriptor(Plain) EXCEPT !.valid = FALSE], [Descriptor(Plain) EXCEPT !.uri = "blocked"],
      [Descriptor(Plain) EXCEPT !.capsule = Bad], [Descriptor(Plain) EXCEPT !.payload = Raw(d2)],
      Descriptor(Bundle(<<File(<<"a">>, d1), File(<<"..", "b">>, d2)>>)) }

RefMessages ==
    { <<Ref(x), Ref(y)>> : x, y \in RefVariants }
    \cup { Block(Plain) \o <<Ref(x)>> : x \in RefVariants }

RefJobs ==
    { CallsOf(<<first, <<Ref(x)>> >>, [OpenOptions EXCEPT !.fetch = f]) :
        first \in RefMessages, x \in {Descriptor(Plain)}, f \in BOOLEAN }
    \cup { CallsOf(<<first>>, [OpenOptions EXCEPT !.scan = FALSE]) : first \in RefMessages }
=============================================================================
