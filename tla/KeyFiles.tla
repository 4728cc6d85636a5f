------------------------------ MODULE KeyFiles ------------------------------
(***************************************************************************)
(* keys generate (cli.py): two files are looked for, then both are         *)
(* written, one after the other, by any number of commands at once.  A     *)
(* command is named by the key it draws.  The files of all keys have the   *)
(* same length, so of two writes into one file the later one counts.       *)
(***************************************************************************)
EXTENDS Trust

CONSTANTS
    Made,       \* the keys an earlier command may have left in both files
    Drawn       \* the keys that may be drawn now, each by one command

ASSUME KeyFilesAssumption == Made \subseteq Keys /\ Drawn \subseteq Keys \ Made

VARIABLES
    private,    \* what the private key file holds: None without one, Bad when cut short
    public,     \* what the public key file holds
    phase,      \* of each command
    force,      \* the commands called with --force
    mixed,      \* ghost: the commands that were at work together with another one
    last        \* ghost: the command that changed a file last

keyVars == <<private, public, phase, force, mixed, last>>

Working == { k \in Drawn : phase[k] \in {"checked", "privateOpen", "private", "publicOpen"} }

KeyInit ==
    /\ private \in Made \cup {None} /\ public = private
    /\ phase = [k \in Drawn |-> "idle"] /\ force = {} /\ mixed = {} /\ last = None

Enter(k, place) ==
    /\ phase' = [phase EXCEPT ![k] = place]
    /\ mixed' = IF place = "checked" /\ Working # {} THEN mixed \cup Working \cup {k} ELSE mixed

\* Mutant of Check: only the public key file is looked for.
CheckPublic(k) ==
    /\ phase[k] = "idle"
    /\ force' \in {force, force \cup {k}}
    /\ Enter(k, IF k \in force' \/ public = None THEN "checked" ELSE "refused")
    /\ UNCHANGED <<private, public, last>>

Check(k) ==
    /\ phase[k] = "idle"
    /\ force' \in {force, force \cup {k}}
    /\ Enter(k, IF k \in force' \/ (private = None /\ public = None) THEN "checked" ELSE "refused")
    /\ UNCHANGED <<private, public, last>>

\* write_text truncates the file and then writes it.
OpenPrivate(k) ==
    /\ phase[k] = "checked" /\ Enter(k, "privateOpen")
    /\ private' = Bad /\ last' = k
    /\ UNCHANGED <<public, force>>

WritePrivate(k) ==
    /\ phase[k] = "privateOpen" /\ Enter(k, "private")
    /\ private' = k /\ last' = k
    /\ UNCHANGED <<public, force>>

OpenPublic(k) ==
    /\ phase[k] = "private" /\ Enter(k, "publicOpen")
    /\ public' = Bad /\ last' = k
    /\ UNCHANGED <<private, force>>

\* Mutant of WritePublic: a public key that is there is kept.
WritePublicOnce(k) ==
    /\ phase[k] = "publicOpen" /\ Enter(k, "done")
    /\ last' = k
    /\ UNCHANGED <<private, public, force>>

WritePublic(k) ==
    /\ phase[k] = "publicOpen" /\ Enter(k, "done")
    /\ public' = k /\ last' = k
    /\ UNCHANGED <<private, force>>

KillKeys(k) ==
    /\ k \in Working /\ Enter(k, "killed")
    /\ UNCHANGED <<private, public, force, last>>

KeyStep(k) ==
    Check(k) \/ OpenPrivate(k) \/ WritePrivate(k) \/ OpenPublic(k) \/ WritePublic(k)

-----------------------------------------------------------------------------
\* A command that ended well with no other at work leaves a pair, until another
\* command opens a file.
PairIsWhole ==
    \A k \in Drawn : (phase[k] = "done" /\ k \notin mixed /\ last = k) => private = k /\ public = k

\* Without --force a key that is in place is lost only to a command that began
\* its check while another one was at work.
NoneIsLost ==
    \A pair \in {<<private, private'>>, <<public, public'>>} :
        pair[1] \in Made \cup Drawn /\ pair[2] # pair[1] => last' \in force \cup mixed
KeysAreKept == [][NoneIsLost]_keyVars
=============================================================================
