------------------------------ MODULE Messages ------------------------------
(***************************************************************************)
(* Message text as the tokens the receiver and the scanner look for.  A    *)
(* message is a sequence of tokens: capsule begin and end markers, the     *)
(* body of a capsule (its headers, payload marker and payload), reference  *)
(* descriptors (JSON objects), and other prose.  Tokens may come in any    *)
(* order, as a truncated or spliced message would have them.               *)
(***************************************************************************)
EXTENDS Capsule

\* A reference descriptor.  valid: _validate_reference_descriptor finds every
\* field.  capsule and payload are what its two digests are of; Bad for bytes
\* that are not UTF-8.  uri: whether the fetch policy lets the host be reached.
Descriptors ==
    [ valid : BOOLEAN, uri : {"public", "blocked"},
      capsule : Capsules \cup {Bad}, payload : Contents ]

\* look: whether the token holds a long base64 run or an invisible character.
Tokens ==
    [ kind : {"begin", "end", "body", "reference", "prose"},
      capsule : Capsules \cup {None}, ref : Descriptors \cup {None},
      look : {"plain", "dense", "invisible"} ]

WellFormedToken(token) ==
    /\ token.kind = "body" <=> token.capsule # None
    /\ token.kind = "reference" <=> token.ref # None

Begins(text, from)     == { i \in from..Len(text) : text[i].kind = "begin" }
Ends(text, from)       == { i \in from..Len(text) : text[i].kind = "end" }
References(text, from) == { i \in from..Len(text) : text[i].kind = "reference" }

\* Text that parse_envelope refuses.
Garbled ==
    [ wellFormed |-> FALSE, codec |-> "other", ctype |-> "other", filename |-> None,
      sig |-> "none", keyId |-> None, fp |-> None, inlineKey |-> None, signedBy |-> None,
      enc |-> None, decodes |-> FALSE, unzips |-> FALSE,
      content |-> [bundle |-> FALSE, entries |-> <<>>, size |-> 0],
      claim |-> [bundle |-> FALSE, entries |-> <<>>, size |-> 0], manifest |-> None ]

\* parse_envelope on text[b..e]: the headers must follow the begin marker and no
\* second begin marker may come before the end; tokens between the body and the
\* end marker are read as payload text, which they spoil.
BlockCapsule(text, b, e) ==
    LET inner == (b + 1)..(e - 1)
        body  == text[b + 1].capsule
    IN IF b + 1 \notin inner \/ body = None \/ \E i \in inner : text[i].kind = "begin"
       THEN Garbled
       ELSE IF e = b + 2 THEN body
       ELSE [ body EXCEPT !.decodes = FALSE,
                          !.signedBy = IF @ = None THEN None ELSE Bad ]

\* Mutant of Dense: the run must be longer than a signature.
DenseBeyondSignature(token) == token.look = "dense"

\* A 64-byte signature is itself a long base64 run.
Dense(token) ==
    \/ token.look = "dense"
    \/ /\ token.kind = "body"
       /\ token.capsule.sig = "ed25519" /\ token.capsule.signedBy # None
=============================================================================
