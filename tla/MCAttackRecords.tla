--------------------------- MODULE MCAttackRecords ---------------------------
(***************************************************************************)
(* A curated attack on two platforms, with and without a threshold, and an *)
(* attack of the feed with the same CVE, inserted only where the curated   *)
(* one is not in the database yet.  The records' dates do not follow their *)
(* versions, as in data/tcb/; one version is written with ">=" before it,  *)
(* and one has no number in it.                                            *)
(***************************************************************************)
EXTENDS AttackRecords, TLC

CONSTANTS snp, tdx, Curated, FeedCve, sync, map

MCPlatforms == {snp, tdx}
MCNames == {Curated, FeedCve}
MCFeedNames == {FeedCve}
AtLeastOne == 4  \* ">= 1"
Latest == 5
MCVersions == 1 .. 5
MCOpaque == {AtLeastOne, Latest}
MCBare == [v \in MCVersions |-> IF v = AtLeastOne THEN 1 ELSE v]
MCAffected == (Curated :> {snp, tdx}) @@ (FeedCve :> {snp})
MCCve == [n \in MCNames |-> FeedCve]

MCSeeds ==
    {[name |-> Curated, minSvn |-> [p \in MCPlatforms |-> None], patched |-> FALSE],
     [name |-> Curated, minSvn |-> [p \in MCPlatforms |-> IF p = snp THEN 3 ELSE None],
      patched |-> FALSE],
     [name |-> FeedCve, minSvn |-> [p \in MCPlatforms |-> None], patched |-> FALSE]}

Record(p, v, status, date) ==
    [platform |-> p, version |-> v, status |-> status, cve |-> FeedCve,
     date |-> date]

MCTcbMenu ==
    {Record(snp, 2, "current", 1), Record(snp, AtLeastOne, "current", 2),
     Record(tdx, 2, "expired", 0), Record(tdx, 1, "current", 0),
     Record(tdx, Latest, "current", 1)}

MCJobs == {sync, map}

\* Either job may sync or map.
Symmetry == Permutations(MCJobs)
=============================================================================
