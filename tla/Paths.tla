------------------------------- MODULE Paths -------------------------------
(***************************************************************************)
(* Relative paths and the sandbox directory (manifest.py).  A path string  *)
(* is the sequence of its components between slashes, so "a//b" is         *)
(* <<"a", "", "b">> and "/a" is <<"", "a">>: two different strings may     *)
(* name one file, and the code compares some paths as strings and others   *)
(* as files.  The sandbox holds no symbolic links.                         *)
(***************************************************************************)
EXTENDS Integers, Sequences, SequencesExt

\* Component names; the one the code makes up is a string too, but the provers have
\* to be told.
Names       == STRING \cup {"payload.bin"}
PathStrings == Seq(Names)

\* pathlib drops empty and "." components, and keeps "..".
Parts(path) == FlattenSeq([i \in DOMAIN path |-> IF path[i] \in {"", "."} THEN <<>> ELSE <<path[i]>>])

Absolute(path) == Len(path) > 1 /\ path[1] = ""

\* The paths _safe_join refuses before it touches the disk.
Unsafe(path) == Absolute(path) \/ ".." \in Range(Parts(path))

\* _safe_filename: Path(name).name, or the default name.
DefaultName == <<"payload.bin">>
SafeName(path) == IF Parts(path) = <<>> THEN DefaultName ELSE <<Last(Parts(path))>>

\* The write that Path.write_bytes refuses with an OSError: the target is the
\* output directory itself or a directory, or a file is in the way of a parent.
Blocked(files, target) ==
    \/ target = <<>>
    \/ \E other \in files : IsStrictPrefix(other, target) \/ IsStrictPrefix(target, other)
=============================================================================
