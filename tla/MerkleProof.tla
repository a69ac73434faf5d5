----------------------------- MODULE MerkleProof -----------------------------
(***************************************************************************)
(* verify_inclusion_proof and root_from_inclusion_proof: recomputing a     *)
(* Merkle root from a leaf, its stated index, the stated tree size and an  *)
(* audit path, one sibling at a time, and comparing it with a stated root. *)
(* The claim may be about another leaf, state another index or size, or    *)
(* carry a path that is cut, extended, of another leaf or not decodable.   *)
(***************************************************************************)
EXTENDS MerkleTree

CONSTANT
    Claims   \* [size: of the log's tree; leaf, index, stated, path, root: claimed]

\* Python's None: what a hash that does not decode decodes to, and no hash.
None == <<>>

ASSUME ClaimsAreProofs ==
    \A c \in Claims : /\ c.size \in Nat \ {0}
                      /\ c.index \in Int
                      /\ c.stated \in Int
                      /\ Len(c.path) \in Nat
                      /\ c.path = [i \in 1 .. Len(c.path) |-> c.path[i]]

VARIABLES
    claim,    \* the proof being checked
    pc,       \* "decode", "loop", "strip", "compare" or "done"
    fn, sn,   \* the node's index and the last index on its level
    node,     \* the hash rebuilt so far, in the end the root returned, or None
    k,        \* the next sibling
    verdict   \* "True", "False" or "None"

vars == <<claim, pc, fn, sn, node, k, verdict>>

-----------------------------------------------------------------------------
Undecodable == \E i \in 1 .. Len(claim.path) : claim.path[i] = None

\* Mutated form of OutsideTree: the index just past the end is let in.
OutsideTreeByOne == claim.stated <= 0 \/ claim.index < 0 \/ claim.index > claim.stated

OutsideTree == claim.stated <= 0 \/ claim.index < 0 \/ claim.index >= claim.stated

\* Mutated form of SiblingIsLeft: the last node of an odd level counts as left.
SiblingIsLeftOfOdd == fn % 2 = 1

SiblingIsLeft == fn % 2 = 1 \/ fn = sn

Shift == fn' = fn \div 2 /\ sn' = sn \div 2

\* `return None`
Refuse == node' = None /\ pc' = "compare" /\ UNCHANGED <<fn, sn, k>>

-----------------------------------------------------------------------------
Init ==
    /\ claim \in Claims
    /\ pc = "decode"
    /\ fn = 0 /\ sn = 0
    /\ node = None
    /\ k = 1
    /\ verdict = "None"

\* One hash that does not decode leaves the claim unjudged.
Unjudged ==
    /\ pc = "decode"
    /\ Undecodable
    /\ pc' = "done"
    /\ UNCHANGED <<claim, fn, sn, node, k, verdict>>

Reject ==
    /\ pc = "decode"
    /\ ~Undecodable
    /\ OutsideTree
    /\ Refuse
    /\ UNCHANGED <<claim, verdict>>

Begin ==
    /\ pc = "decode"
    /\ ~Undecodable
    /\ ~OutsideTree
    /\ fn' = claim.index
    /\ sn' = claim.stated - 1
    /\ node' = leaf_hash(claim.leaf)
    /\ pc' = "loop"
    /\ UNCHANGED <<claim, k, verdict>>

PathTooLong ==
    /\ pc = "loop"
    /\ k <= Len(claim.path)
    /\ sn = 0
    /\ Refuse
    /\ UNCHANGED <<claim, verdict>>

JoinLeft ==
    /\ pc = "loop"
    /\ k <= Len(claim.path)
    /\ sn # 0
    /\ SiblingIsLeft
    /\ node' = node_hash(claim.path[k], node)
    /\ pc' = "strip"
    /\ k' = k + 1
    /\ UNCHANGED <<claim, fn, sn, verdict>>

\* Mutated form of StripZero: only the level's size is halved.
StripSizeOnly ==
    /\ pc = "strip"
    /\ fn % 2 = 0 /\ fn # 0
    /\ sn' = sn \div 2
    /\ UNCHANGED <<claim, pc, fn, node, k, verdict>>

\* `while not fn & 1 and fn != 0`: up the levels where the node has no sibling.
StripZero ==
    /\ pc = "strip"
    /\ fn % 2 = 0 /\ fn # 0
    /\ Shift
    /\ UNCHANGED <<claim, pc, node, k, verdict>>

Ascend ==
    /\ pc = "strip"
    /\ fn % 2 = 1 \/ fn = 0
    /\ Shift
    /\ pc' = "loop"
    /\ UNCHANGED <<claim, node, k, verdict>>

\* Mutated form of JoinRight: the level's size is not halved.
JoinRightOnly ==
    /\ pc = "loop"
    /\ k <= Len(claim.path)
    /\ sn # 0
    /\ ~SiblingIsLeft
    /\ node' = node_hash(node, claim.path[k])
    /\ k' = k + 1
    /\ fn' = fn \div 2
    /\ UNCHANGED <<claim, pc, sn, verdict>>

JoinRight ==
    /\ pc = "loop"
    /\ k <= Len(claim.path)
    /\ sn # 0
    /\ ~SiblingIsLeft
    /\ node' = node_hash(node, claim.path[k])
    /\ k' = k + 1
    /\ Shift
    /\ UNCHANGED <<claim, pc, verdict>>

Finish ==
    /\ pc = "loop"
    /\ k > Len(claim.path)
    /\ node' = IF sn = 0 THEN node ELSE None
    /\ pc' = "compare"
    /\ UNCHANGED <<claim, fn, sn, k, verdict>>

\* A stated root that does not decode is None as well.
Compare ==
    /\ pc = "compare"
    /\ verdict' = IF node = claim.root THEN "True" ELSE "False"
    /\ pc' = "done"
    /\ UNCHANGED <<claim, fn, sn, node, k>>

-----------------------------------------------------------------------------
Next ==
    \/ Unjudged
    \/ Reject
    \/ Begin
    \/ PathTooLong
    \/ JoinLeft
    \/ StripZero
    \/ Ascend
    \/ JoinRight
    \/ Finish
    \/ Compare

Spec == Init /\ [][Next]_vars

\* The check is one call of a running program.
FairSpec == Spec /\ WF_vars(Next)

-----------------------------------------------------------------------------
(* The node is within its level throughout, and a node that is being       *)
(* stripped is never the leftmost: `fn != 0` in the inner loop is never    *)
(* what ends it (root_from_inclusion_proof).                               *)
TypeOK ==
    /\ pc \in {"decode", "loop", "strip", "compare", "done"}
    /\ fn \in Nat /\ sn \in Nat
    /\ k \in 1 .. Len(claim.path) + 1
    /\ verdict \in {"None", "True", "False"}
    /\ fn <= sn
    /\ pc = "strip" => fn > 0

Honest(c) ==
    /\ c.stated = c.size
    /\ c.index \in 0 .. c.size - 1
    /\ c.leaf = LeafData(c.index)
    /\ c.path = Proof(c.index, c.size)
    /\ c.root = TreeRoot(c.size)

(* The log's own proof of any of its leaves is accepted, in trees of every *)
(* shape (root_from_inclusion_proof against RFC 9162's PATH).              *)
HonestProofRebuilds == pc = "done" /\ Honest(claim) => verdict = "True"

(* Against the log's root and the true tree size, only the leaf that is at *)
(* the stated index is accepted, and only with the path the log would give *)
(* (verify_inclusion_proof).                                               *)
TrueSizeProvesIndex ==
    verdict = "True" /\ claim.root = TreeRoot(claim.size) /\ claim.stated = claim.size
        => Honest(claim)

(* Whatever index and size are stated, what is accepted against the log's  *)
(* root is a leaf of the log, never the two hashes of an interior node put *)
(* together (leaf_hash, node_hash).                                        *)
AcceptedLeafIsALeaf ==
    verdict = "True" /\ claim.root = TreeRoot(claim.size)
        => \E i \in 0 .. claim.size - 1 : claim.leaf = LeafData(i)

(* A proof that cannot be evaluated, as opposed to one of another root, is *)
(* an index outside the tree or a path of the wrong length and nothing     *)
(* else (root_from_inclusion_proof's None).                                *)
NoneMeansWrongLength ==
    pc = "compare" =>
        (node = None <=> \/ claim.index \notin 0 .. claim.stated - 1
                         \/ Len(claim.path) # Len(Proof(claim.index, claim.stated)))

(* Both loops end on every input (root_from_inclusion_proof).              *)
Terminates == <>(pc = "done")
=============================================================================
