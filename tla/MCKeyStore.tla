------------------------------ MODULE MCKeyStore ------------------------------
(* Three processes that share one key file. *)
EXTENDS KeyStore, TLC

CONSTANTS r1, r2, r3, k1, k2, k3

MCRuns == {r1, r2, r3}
MCKeys == {k1, k2, k3}

Interchangeable == Permutations(MCRuns) \cup Permutations(MCKeys)
=============================================================================
