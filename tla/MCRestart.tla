----------------------------- MODULE MCRestart ------------------------------
(* Bundles that unpack, half unpack or overwrite their own files, killed at    *)
(* any step and received again into the same directory.                        *)
EXTENDS MCData

NoManifest(c) == [c EXCEPT !.manifest = None]

TwoFiles   == Bundle(<<File(<<"a">>, d1), File(<<"dir", "b">>, d2)>>)
Climbing   == Bundle(<<File(<<"a">>, d1), File(<<"..", "b">>, d2)>>)
Rooted     == Bundle(<<File(<<"a">>, d2), File(<<"", "b">>, d2)>>)
Clashing   == Bundle(<<File(<<"a">>, d1), File(<<"a", "b">>, d2)>>)
Dotted     == Bundle(<<File(<<"a">>, d1), File(<<".">>, d2)>>)
Alias      == Bundle(<<File(<<"a">>, d1), File(<<".", "a">>, d2)>>)
BadEntry   == NoManifest(Bundle(<<File(<<"a">>, d1), [File(<<"b">>, d2) EXCEPT !.metaOk = FALSE]>>))
BadBase64  == NoManifest(Bundle(<<File(<<"a">>, d1), [File(<<"b">>, d2) EXCEPT !.encoded = FALSE]>>))
NotABundleAtAll == NoManifest([Plain EXCEPT !.ctype = "bundle"])
UpFile     == [Plain EXCEPT !.filename = <<"x", "..">>, !.manifest[1].path = <<"..">>]
SealedPlain == Sealed(s1)

RestartMessages ==
    { << Block(x) \o Block(y) >> : x \in {TwoFiles, Climbing, Rooted}, y \in {TwoFiles, SealedPlain} }
    \cup { << Block(x) >> : x \in {Clashing, Dotted, Alias, BadEntry, BadBase64, NotABundleAtAll, UpFile} }
    \cup { << Block(x), Block(y) \o <<Ref(Descriptor(x)), Ref(Descriptor(y))>> >> :
             x \in {TwoFiles}, y \in {Plain, BadEntry} }

\* A marker that is never closed, and a host the fetch policy blocks.
Obstructed == << Block(TwoFiles) \o <<B, Ref([Descriptor(Plain) EXCEPT !.uri = "blocked"])>> >>

RestartJobs ==
    { CallsOf(ms, [OpenOptions EXCEPT !.scan = FALSE]) : ms \in RestartMessages }
    \cup { CallsOf(Obstructed, OpenOptions) }

AliasJobs == { CallsOf(<<Block(x) \o <<Prose>> >>, OpenOptions) : x \in {Alias, TwoFiles} }
=============================================================================
