---------------------------- MODULE MCMerkleProof ----------------------------
(* Claims about trees of one to seven leaves: complete and ragged ones, every *)
(* stated index and size around the true ones, and the paths of every leaf  *)
(* whole, cut at either end, extended and with one sibling replaced.        *)
EXTENDS MerkleProof

CONSTANTS Sizes

Absent == <<99>>

\* The bytes an interior node hashes: presented as a leaf they must not pass.
Interior(n) ==
    {Subtree[2][lo][2] : lo \in {j \in 0 .. n - 2 : j % 2 = 0}}
        \cup IF n > 1 THEN {TreeRoot(n)[2]} ELSE {}

Leaves(n) == {LeafData(i) : i \in 0 .. n - 1} \cup {Absent} \cup Interior(n)

Altered(p) ==
    {p, Append(p, leaf_hash(Absent))}
        \cup (IF p = <<>> THEN {} ELSE {Tail(p), SubSeq(p, 1, Len(p) - 1)})
        \cup {[p EXCEPT ![i] = leaf_hash(Absent)] : i \in DOMAIN p}
        \cup {[p EXCEPT ![i] = None] : i \in DOMAIN p}

Paths(n) == UNION {Altered(Proof(m, n)) : m \in 0 .. n - 1}

MCClaims ==
    UNION {[size : {n}, leaf : Leaves(n), index : -1 .. n, stated : n - 1 .. n + 1,
            path : Paths(n), root : {TreeRoot(n), None}] : n \in Sizes}
=============================================================================
