----------------------------- MODULE AnchorCheck -----------------------------
(***************************************************************************)
(* What the engine makes of an anchor: the inclusion proof, the signed     *)
(* checkpoint, and the verdict over both.                                  *)
(*                                                                         *)
(* An entry is a record [index, body, proof]; an anchor is an entry with   *)
(* the checkpoint [size, intact] stored beside it.                         *)
(***************************************************************************)
EXTENDS InclusionCheck

\* A note the trust root has no key for, and a note that is none, are unjudged;
\* one that does not verify under the key it names is rejected.
VerifyCheckpoint(checkpoint, trusted) ==
    IF checkpoint \in {None, Malformed} \/ ~trusted THEN "None"
    ELSE IF checkpoint.intact THEN "True" ELSE "False"

\* Mutated form of AnchorState: what was not judged passes.
LenientAnchorState(anchor, trusted) ==
    IF anchor.proof = None THEN "no proof recorded"
    ELSE IF VerifyInclusionProof(anchor) = "False" THEN "proof FAILED"
    ELSE "verified"

AnchorState(anchor, trusted) ==
    IF anchor.proof = None THEN "no proof recorded"
    ELSE IF VerifyInclusionProof(anchor) = "None" THEN "proof uncheckable"
    ELSE IF VerifyInclusionProof(anchor) = "False" THEN "proof FAILED"
    ELSE IF anchor.checkpoint = None THEN "proof ok, no checkpoint"
    ELSE IF VerifyCheckpoint(anchor.checkpoint, trusted) = "True" THEN "verified"
    ELSE IF VerifyCheckpoint(anchor.checkpoint, trusted) = "False"
    THEN "checkpoint FAILED"
    ELSE "proof ok, checkpoint unjudged"

-----------------------------------------------------------------------------
(* The external log, as far as the engine can see.                         *)

\* What the log may say of the entry at position i.  Bound: where the body is
\* missing the proof is missing or the right one.
Answers(log, i) ==
    [index : {i - 1}, body : {log[i]}, proof : ProofsOf(log, i)]
        \cup [index : {i - 1}, body : {None},
              proof : {None, [index |-> i - 1, path |-> log, root |-> log]}]

\* get_checkpoint: a failed fetch reads as no checkpoint.
Checkpoints(head) == {None, Malformed} \cup [size : {head}, intact : BOOLEAN]
=============================================================================
