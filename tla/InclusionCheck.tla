---------------------------- MODULE InclusionCheck ----------------------------
(***************************************************************************)
(* Checking an entry of the log against the proof that came with it.  The  *)
(* hashes are symbolic: a tree's root is the sequence of its leaves, and a *)
(* path that fits the tree rebuilds it with the body in the place of the   *)
(* leaf (MerkleProof is about the arithmetic behind this).                 *)
(*                                                                         *)
(* A proof is [index, path, root].  The path is the tree whose siblings it *)
(* holds, or None when its length fits no tree of the stated size; the     *)
(* root is the stated one, or None when its text is no SHA-256 digest.     *)
(***************************************************************************)
EXTENDS Integers, Sequences, FiniteSets

CONSTANTS
    None,       \* Python's None, and the empty string or dict that stands for it
    Malformed   \* a proof, a file, a note or a receipt that does not parse

ASSUME Sentinels == Malformed # None

\* Verdicts are three-valued: "True", "False", and "None", unjudged.

Legible(proof) == proof \notin {None, Malformed}

\* Mutated form of Recomputed: the stated index plays no part.
RecomputedAnywhere(body, proof) ==
    IF proof.path = None THEN None
    ELSE IF \E i \in DOMAIN proof.path : proof.path[i] = body THEN proof.path
    ELSE <<body>>

\* None when the index or the length of the path does not fit the size.
Recomputed(body, proof) ==
    IF proof.path = None \/ proof.index + 1 \notin DOMAIN proof.path THEN None
    ELSE [proof.path EXCEPT ![proof.index + 1] = body]

\* The roots are compared as they are: where neither could be had, None is None.
VerifyInclusionProof(entry) ==
    IF ~Legible(entry.proof) \/ entry.body = None THEN "None"
    ELSE IF Recomputed(entry.body, entry.proof) = entry.proof.root THEN "True"
    ELSE "False"

\* The log is external.  The proof it sends with the entry at position i may be
\* missing, unreadable, one for another position, or spoilt in its path and its
\* root.  One spoilt in either alone rebuilds another root, as that of another
\* position does.
ProofsOf(log, i) ==
    {None, Malformed, [index |-> i - 1, path |-> None, root |-> None]}
        \cup [index : 0 .. Len(log) - 1, path : {log}, root : {log}]
=============================================================================
