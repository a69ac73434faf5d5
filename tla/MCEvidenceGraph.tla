--------------------------- MODULE MCEvidenceGraph ---------------------------
(***************************************************************************)
(* Two TDX quotes and two SEV-SNP quotes that answered challenge c1 or c2, *)
(* an SEV-SNP quote re-ingested under the same id without a challenge, and *)
(* one edge per pair that could bind, one within a platform.               *)
(***************************************************************************)
EXTENDS EvidenceGraph, TLC

CONSTANTS tdx, snp, c1, c2

MCPlatforms == {tdx, snp}
MCChallenges == {c1, Blank}

Quote(id, p, b) ==
    [id |-> id, type |-> "quote", platform |-> p, debug |-> TRUE, tcb |-> None,
     meas |-> None, binding |-> b, class |-> None, ts |-> None, ttl |-> 5,
     subject |-> None]

MCNodeMenu ==
    {Quote("t1", tdx, c1), Quote("t2", tdx, c2),
     Quote("s1", snp, c1), Quote("s2", snp, c2), Quote("s1", snp, Blank)}

BoundTo(a, b) == [source |-> a, target |-> b, type |-> "bound_to"]

MCEdgeMenu == {BoundTo("t1", "s1"), BoundTo("t2", "s2"), BoundTo("t1", "t2")}
=============================================================================
