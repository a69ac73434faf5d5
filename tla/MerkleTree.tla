----------------------------- MODULE MerkleTree -----------------------------
(***************************************************************************)
(* The Merkle tree of RFC 9162, over symbolic hashes: a hash is the pair   *)
(* of its prefix and the bytes hashed, so hashes are equal when those are. *)
(* The log builds the tree; the engine hashes leaves and nodes alike.      *)
(***************************************************************************)
EXTENDS Integers, Sequences

LEAF_PREFIX == 0
NODE_PREFIX == 1

\* Mutated form of leaf_hash: no domain separation between leaf and node.
UnseparatedLeafHash(data) == <<NODE_PREFIX, data>>

leaf_hash(data) == <<LEAF_PREFIX, data>>

node_hash(left, right) == <<NODE_PREFIX, <<left, right>>>>

\* The i-th leaf's bytes, counting from 0.
LeafData(i) == <<i>>

\* A power of two has no odd divisor but 1.
PowerOfTwo(k) == \A d \in 2 .. k : k % d = 0 => d % 2 = 0

\* The largest power of two below n.
Split(n) == CHOOSE k \in 1 .. n - 1 : PowerOfTwo(k) /\ n <= 2 * k

\* The hash of the subtree over n leaves, by its first leaf (MTH).
Subtree[n \in Nat \ {0}] ==
    [lo \in Nat |->
        IF n = 1 THEN leaf_hash(LeafData(lo))
        ELSE node_hash(Subtree[Split(n)][lo], Subtree[n - Split(n)][lo + Split(n)])]

\* The siblings on the way from its m-th leaf up to that subtree's hash (PATH).
AuditPath[n \in Nat \ {0}] ==
    [lo \in Nat |-> [m \in 0 .. n - 1 |->
        IF n = 1 THEN <<>>
        ELSE IF m < Split(n)
        THEN Append(AuditPath[Split(n)][lo][m], Subtree[n - Split(n)][lo + Split(n)])
        ELSE Append(AuditPath[n - Split(n)][lo + Split(n)][m - Split(n)],
                    Subtree[Split(n)][lo])]]

TreeRoot(n) == Subtree[n][0]

Proof(m, n) == AuditPath[n][0][m]
=============================================================================
