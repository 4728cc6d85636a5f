------------------------------ MODULE Handover ------------------------------
(***************************************************************************)
(* One capsule file handed from a packer to a reader (cli.py, receiver.py, *)
(* manifest.py).  The packer walks a directory that others still edit and  *)
(* writes the file in place; the file may be damaged or edited on its way; *)
(* a command or function reads it, twice in the case of unpack_capsule;    *)
(* and the key files used on both sides may be generated anew meanwhile.   *)
(***************************************************************************)
EXTENDS Envelope, KeyFiles, SequencesExt

CONSTANTS
    Listing,      \* the paths the packer may find, in the order of os.walk
    Budgets       \* bounds: which calls are made, and how many of each kind of event there are

\* A reader: a command or a function, its options, and whether it is given the
\* public key file.
ReadCall ==
    [ kind : {"verify_capsule", "unpack_capsule", "verify", "unpack", "inspect"},
      opts : Options, ownKey : BOOLEAN ]

Budget ==
    [ packCalls : SUBSET PackCall, readCalls : SUBSET ReadCall,
      edits : Nat, packs : Nat, kills : Nat, changes : Nat, reads : Nat, keys : Nat ]

ASSUME HandoverAssumption ==
    /\ Listing \in Seq(PathStrings) /\ \A i, j \in DOMAIN Listing : Listing[i] = Listing[j] => i = j
    /\ Budgets \subseteq Budget

VARIABLES
    tree,     \* the packer's files: contents, or None
    pack,     \* pack: where it is, its call, what is listed and read, the finished envelope
    file,     \* the capsule file: None without one, Bad when cut short
    sent,     \* ghost: what each finished pack wrote and from what
    reader,   \* the reader: where it is, what it read, found and wrote
    left      \* what remains of the budget

vars == <<tree, pack, file, sent, reader, left, keyVars>>

Files == { Listing[i] : i \in DOMAIN Listing }

NoPack   == [pc |-> "idle", call |-> None, listed |-> {}, entries |-> <<>>, text |-> None, key |-> None]
NoReader == [pc |-> "idle", call |-> None, opts |-> None, at |-> 0, first |-> None, second |-> None, errors |-> <<>>, files |-> <<>>]

Init ==
    /\ tree \in [Files -> Blobs]
    /\ pack = NoPack /\ file = None /\ sent = {} /\ reader = NoReader
    /\ left \in Budgets
    /\ KeyInit

Spend(what) == left[what] > 0 /\ left' = [left EXCEPT ![what] = @ - 1]

-----------------------------------------------------------------------------
\* pack.

EditTree ==
    /\ Spend("edits")
    /\ \E path \in Files, content \in Blobs \cup {None} :
         tree[path] # content /\ tree' = [tree EXCEPT ![path] = content]
    /\ UNCHANGED <<pack, file, sent, reader, keyVars>>

There == { i \in DOMAIN Listing : tree[Listing[i]] # None }

\* The names are listed first; a single file is one of the directory itself.
StartPack(call) ==
    /\ pack.pc = "idle" /\ Spend("packs")
    /\ \E listed \in SUBSET There :
         /\ IF call.source = "file"
            THEN \E i \in There : SafeName(Listing[i]) = Listing[i] /\ listed = {i}
            ELSE listed = There
         /\ pack' = [NoPack EXCEPT !.pc = "walk", !.call = call, !.listed = listed]
    /\ UNCHANGED <<tree, file, sent, reader, keyVars>>

Walking == pack.pc = "walk" /\ pack.listed # {}
Walked  == pack.pc = "walk" /\ pack.listed = {}

NextPath == Listing[First(pack.listed)]

Reads(path, data) ==
    pack' = [pack EXCEPT !.listed = @ \ {First(@)},
                         !.entries = Append(@, [path |-> path, data |-> data, encoded |-> TRUE, metaOk |-> TRUE])]

\* Mutant of ReadNext: a file that has gone since is not noticed.
ReadNextUnchecked ==
    /\ Walking /\ Reads(NextPath, tree[NextPath])
    /\ UNCHANGED <<tree, file, sent, reader, left, keyVars>>

\* Each file is read once, and the digests are of what was read.
ReadNext ==
    /\ Walking /\ tree[NextPath] # None /\ Reads(NextPath, tree[NextPath])
    /\ UNCHANGED <<tree, file, sent, reader, left, keyVars>>

\* A listed file has gone, the private key file is unusable, or the command dies.
PackEnds ==
    /\ pack.pc # "idle" /\ pack' = NoPack
    /\ \/ Walking /\ tree[NextPath] = None /\ UNCHANGED left
       \/ Walked /\ pack.call.mode = "ed25519" /\ private \notin Keys /\ UNCHANGED left
       \/ Spend("kills")
    /\ UNCHANGED <<tree, file, sent, reader, keyVars>>

\* The nonce is drawn afresh: the number of this pack.
Seal ==
    LET packed == Packed(pack.call.source, pack.entries)
        built  == BuildEnvelope(packed, pack.call, left.packs)
    IN /\ Walked
       /\ pack.call.mode = "ed25519" => private \in Keys
       /\ pack' = [pack EXCEPT !.pc = "sealed", !.key = private, !.text = Signed(built, pack.call, private)]
       /\ UNCHANGED <<tree, file, sent, reader, left, keyVars>>

OpenOut ==
    /\ pack.pc = "sealed" /\ pack' = [pack EXCEPT !.pc = "opened"]
    /\ file' = Bad
    /\ UNCHANGED <<tree, sent, reader, left, keyVars>>

\* The file is kept as a reader parses it.
WriteOut ==
    /\ pack.pc = "opened" /\ pack' = NoPack
    /\ file' = ReadBack(pack.text)
    /\ sent' = sent \cup {[read |-> file', call |-> pack.call, key |-> pack.key, entries |-> pack.entries]}
    /\ UNCHANGED <<tree, reader, left, keyVars>>

-----------------------------------------------------------------------------
\* On the way.

\* Changes to one capsule, as a reader parses it afterwards.
Edits(e) ==
    {[e EXCEPT !.payload = Bad], [e EXCEPT !.headers.content_type = IF @ = "single" THEN "bundle" ELSE "single"],
     [e EXCEPT !.headers.compression = IF @ = "none" THEN "zstd" ELSE "none"],
     [e EXCEPT !.headers.signature = "none", !.headers.signature_value = None]}
    \cup {[e EXCEPT !.headers.created_by = Trim(author)] : author \in Authors}
    \cup {[e EXCEPT !.headers.filename = << Trim("other") >>]}

\* The payload of one capsule, with what speaks of it, under the headers of another.
Mixed(e, f) ==
    [e EXCEPT !.payload = f.payload, !.headers.payload_sha256 = f.headers.payload_sha256,
              !.headers.capsule_manifest = f.headers.capsule_manifest,
              !.headers.content_type = f.headers.content_type, !.headers.filename = f.headers.filename]

Alter ==
    /\ file \notin {None, Bad} /\ Spend("changes")
    /\ file' \in Edits(file) \cup {None} \cup {s.read : s \in sent} \cup { Mixed(file, s.read) : s \in sent }
    /\ UNCHANGED <<tree, pack, sent, reader, keyVars>>

-----------------------------------------------------------------------------
\* Readers.

\* What is reported of the text of a capsule file; a missing file is an OSError.
ReadErrors(kind, text, o, t) ==
    IF text = None THEN <<"OTHER">>
    ELSE IF text = Bad THEN <<"CAPSULE_PARSE_ERROR">>
    ELSE CASE kind \in {"verify_capsule", "unpack_capsule"} -> VerifyErrors(View(text), o, t)
           [] kind \in {"verify", "unpack"} -> CommandErrors(View(text), o, t)
           [] kind = "inspect" -> InspectErrors(View(text), o, t)

StartRead(call) ==
    /\ reader.pc \in {"idle", "done"} /\ Spend("reads")
    /\ reader' = [NoReader EXCEPT !.pc = "check", !.call = call, !.opts = call.opts, !.first = file]
    /\ UNCHANGED <<tree, pack, file, sent, keyVars>>

\* The public key file, where it is asked for, is read after the capsule.
CheckRead(t) ==
    LET o    == IF reader.call.ownKey
                THEN [reader.opts EXCEPT !.edPub = IF public \in Keys THEN public ELSE Bad] ELSE reader.opts
        errs == ReadErrors(reader.call.kind, reader.first, o, t)
    IN /\ reader.pc = "check"
       /\ reader' = [reader EXCEPT !.opts = o, !.at = t, !.errors = errs, !.second = reader.first,
                        !.pc = IF errs # <<>> \/ reader.call.kind \notin {"unpack", "unpack_capsule"} THEN "done"
                               ELSE IF reader.call.kind = "unpack_capsule" THEN "again" ELSE "write"]
       /\ UNCHANGED <<tree, pack, file, sent, left, keyVars>>

\* unpack_capsule parses the file once more after verify_capsule.
ReadAgain ==
    /\ reader.pc = "again"
    /\ reader' = [reader EXCEPT !.second = file,
                     !.errors = IF file = None THEN <<"OTHER">> ELSE Raises(file = Bad, "CAPSULE_PARSE_ERROR"),
                     !.pc = IF file \in {None, Bad} THEN "done" ELSE "write"]
    /\ UNCHANGED <<tree, pack, file, sent, left, keyVars>>

\* Mutant of ToUnpack: the payload is taken from the second reading too.
ToUnpackSecond(first, second) == View(second)

\* Mutant of ToUnpack: the file name is forgotten.
ToUnpackUnnamed(first, second) ==
    [View(first) EXCEPT !.ctype = second.headers.content_type, !.filename = None]

\* The verified payload, with the type and the name of the second reading.
ToUnpack(first, second) ==
    [View(first) EXCEPT !.ctype = second.headers.content_type, !.filename = second.headers.filename]

Unpack ==
    LET c == ToUnpack(reader.first, reader.second)
    IN /\ reader.pc = "write"
       /\ reader' = [reader EXCEPT !.pc = "done", !.errors = Raises(NotABundle(c), "UNPACK_FAILED"),
                                   !.files = IF NotABundle(c) THEN <<>> ELSE FilesToWrite(c)]
       /\ UNCHANGED <<tree, pack, file, sent, left, keyVars>>

\* keys generate, at most as often as the budget says.
Keygen ==
    /\ \E k \in Drawn :
          \/ (phase[k] = "idle" => left.keys > Cardinality({j \in Drawn : phase[j] # "idle"})) /\ KeyStep(k)
          \/ KillKeys(k)
    /\ UNCHANGED <<tree, pack, file, sent, reader, left>>

Next ==
    \/ EditTree
    \/ \E call \in left.packCalls : StartPack(call)
    \/ ReadNext \/ PackEnds \/ Seal \/ OpenOut \/ WriteOut
    \/ Alter
    \/ \E call \in left.readCalls : StartRead(call)
    \/ \E t \in Times : CheckRead(t)
    \/ ReadAgain \/ Unpack
    \/ Keygen

Spec == Init /\ [][Next]_vars

-----------------------------------------------------------------------------
\* Properties.

Passed == reader.pc = "done" /\ reader.errors = <<>>

Sources == { s.read : s \in sent }

\* The reader was given what the packer used: the keys, and a policy that admits
\* the capsule and its signer.
Fits(s, o, t) ==
    LET c == View(s.read)
    IN /\ Admitted(c, o.policy)
       /\ o.encKey = s.call.encryption_key \/ (s.call.encryption_key = None /\ o.encKey # Bad)
       /\ CASE s.call.mode = "none"        -> Authentic(c, o, t)
            [] s.call.mode = "hmac-sha256" -> o.keyEnv = s.call.sign_key /\ ~o.policy.requireRegistry
            [] s.call.mode = "ed25519"     -> VerifyKey(c, o, t) = s.key /\ TrustErrors(c, o, t) = <<>>

\* The type invariant.
TypeOK ==
    /\ tree \in [Files -> Blobs \cup {None}]
    /\ pack.pc \in {"idle", "walk", "sealed", "opened"} /\ pack.call \in PackCall \cup {None}
    /\ pack.listed \subseteq DOMAIN Listing
    /\ \A i \in DOMAIN pack.entries : pack.entries[i] \in BundleEntry
    /\ reader.pc \in {"idle", "check", "again", "write", "done"} /\ reader.at \in Times
    /\ reader.opts \in Options \cup {None}
    /\ \A i \in DOMAIN reader.errors : reader.errors[i] \in Reasons
    /\ private \in Made \cup Drawn \cup {None, Bad} /\ public \in Made \cup Drawn \cup {None, Bad}

\* What was packed is accepted: a capsule that arrives as it was written, read
\* by any command or function with the keys of its packer, has no errors,
\* however the directory changed while it was walked.
PackedIsAccepted ==
    \A s \in sent : (reader.pc = "done" /\ reader.first = s.read /\ reader.second = s.read)
                       => (Fits(s, reader.opts, reader.at) => reader.errors = <<>>)

\* What is accepted was packed: a signature vouches for the whole capsule, and
\* the tag of a sealed payload for it and every header it was sealed under.
AcceptedWasPacked ==
    (Passed /\ reader.call.kind # "inspect") =>
        LET e == reader.first
        IN /\ e.headers.signature # "none" => e \in Sources
           /\ e.headers.encryption # "none" =>
                \E source \in Sources : source.payload = e.payload
                    /\ \A name \in DOMAIN e.headers \ AddedLater : source.headers[name] = e.headers[name]

\* Whatever the second reading of unpack_capsule finds, every byte it writes
\* comes from the payload that was verified.
FilesAreOfThePayload ==
    \A i \in DOMAIN reader.files :
        LET content == View(reader.first).content
        IN reader.files[i].data = content \/ \E j \in DOMAIN content.entries : reader.files[i].data = content.entries[j].data

\* Unpacking a capsule that was not touched gives back the files the packer
\* read, under their names, as they were when it read them.
UnpackedIsPacked ==
    \A s \in sent : (reader.files # <<>> /\ reader.first = s.read /\ reader.second = s.read) =>
        Len(reader.files) = Len(s.entries) /\ \A i \in DOMAIN s.entries :
            /\ reader.files[i].path = s.entries[i].path
            /\ reader.files[i].data = IF s.call.source = "file" THEN FileContent(s.entries[i].data) ELSE s.entries[i].data

\* The commands verify and unpack accept what verify_capsule accepts, and no more.
VerdictsAgree ==
    (reader.pc = "done" /\ reader.call.kind \in {"verify", "unpack"} /\ reader.first \notin {None, Bad}) =>
        (reader.errors # <<>> <=> VerifyErrors(View(reader.first), reader.opts, reader.at) # <<>>)

\* A capsule whose Ed25519 signature inspect has checked, and in which it found
\* no fault, is one that verify_capsule accepts.
InspectionAgrees ==
    (Passed /\ reader.call.kind = "inspect") =>
        LET c == View(reader.first)
        IN (c.sig = "ed25519" /\ SignatureChecked(c, reader.opts, reader.at) /\ reader.opts.encKey # Bad)
              => VerifyErrors(c, reader.opts, reader.at) = <<>>
=============================================================================
