---------------------------- MODULE AttackRecords ----------------------------
(***************************************************************************)
(* The archaeology database: attack records, the vendors' TCB records, and *)
(* the programs that write them.  Scripts seed and mark attacks and insert *)
(* TCB records, one statement and one commit at a time; `attacks sync` and *)
(* `attacks map-cve-tcb` read the database, join the two tables on the CVE *)
(* and write the versions that fix an attack back as its thresholds.  The  *)
(* reads are outside the transaction of the write, and nothing keeps two   *)
(* programs apart.  A version is a number, ordered as the tuples are that  *)
(* _parse_svn makes of it; one it can make no numbers of is opaque.        *)
(***************************************************************************)
EXTENDS Integers, Sequences, FiniteSets

CONSTANTS
    Platforms, Names,  \* Names: of attacks, the rows' unique key
    None,
    Versions,    \* the versions of this instance: numbers
    Opaque,      \* those that are kept as a string, and compared as one
    Bare,        \* by version: the version without a ">=" before it
    Affected,    \* by name: the platforms of the attack
    Cve,         \* by name: its CVE, or None
    Seeds,       \* what scripts seed: [name, minSvn, patched]
    FeedNames,   \* the attacks the CVE feed may return, named by their CVE
    TcbMenu,     \* TCB records [platform, version, status, cve, date]; date 0: none
    MaxTcb,      \* bound on the TCB records
    Jobs         \* the sync and map-cve-tcb processes

Thresholds == [Platforms -> Versions \cup {None}]

AttackRow == [minSvn : Thresholds, patched : BOOLEAN]

ASSUME NoneIsNoVersion == None \notin Versions
ASSUME VersionsAreNumbers == Versions \subseteq Int
ASSUME OpaqueAreVersions == Opaque \subseteq Versions
ASSUME BareIsAVersion == Bare \in [Versions -> Versions]
ASSUME NoneIsNoRow == None \notin AttackRow
ASSUME FeedNamesAreNames == FeedNames \subseteq Names
ASSUME SeedsAreRows ==
    \A s \in Seeds : s.name \in Names /\ s.minSvn \in Thresholds /\ s.patched \in BOOLEAN
ASSUME MaxTcbIsANumber == MaxTcb \in Nat
ASSUME TcbVersions == \A t \in TcbMenu : t.version \in Versions
ASSUME TcbDates == \A t \in TcbMenu : t.date \in Nat

VARIABLES
    attacks,     \* by name: [minSvn, patched], or None
    tcb,         \* the TCB records in insertion order
    pc,          \* by job
    dry,         \* by job: --dry-run
    todo,        \* by job: the fetched attacks it has still to insert
    mappings,    \* by job, name and platform: the version that fixes, or None
    thresholds   \* by job, name and platform: the threshold it read, or None
                 \* (these three are locals: an ended job has none)

vars == <<attacks, tcb, pc, dry, todo, mappings, thresholds>>

-----------------------------------------------------------------------------
NoThresholds == [p \in Platforms |-> None]

NoVersions == [n \in Names |-> NoThresholds]

Rows == {n \in Names : attacks[n] # None}

KnownCves == {Cve[n] : n \in Rows} \ {None}

Threshold(n) == IF n \in Rows THEN attacks[n].minSvn ELSE NoThresholds

\* Mutated form of Fixes: revoked and expired records count as well.
FixesOfAnyStatus(n, p) ==
    {tcb[i].version : i \in {k \in DOMAIN tcb : /\ tcb[k].cve = Cve[n]
                                                /\ tcb[k].platform = p}}

\* The rows of the join for one attack and platform.
Fixes(n, p) ==
    {tcb[i].version : i \in {k \in DOMAIN tcb : /\ tcb[k].cve = Cve[n]
                                                /\ tcb[k].platform = p
                                                /\ tcb[k].status = "current"}}

Mapped(n, p) ==
    IF n \in Rows /\ Cve[n] # None /\ p \in Affected[n] THEN Fixes(n, p) ELSE {}

Recorded == {tcb[i].version : i \in DOMAIN tcb}

\* The first row of the join wins; SQL leaves open which that is.
Mappings ==
    {m \in [Names -> [Platforms -> Recorded \cup {None}]] :
        \A n \in Names, p \in Platforms :
            IF Mapped(n, p) = {} THEN m[n][p] = None ELSE m[n][p] \in Mapped(n, p)}

\* Mutated form of Missing: an attack with any threshold is left alone.
MissingAltogether(m, t) ==
    {p \in Platforms : m[p] # None /\ \A q \in Platforms : t[q] = None}

Missing(m, t) == {p \in Platforms : m[p] # None /\ t[p] = None}

-----------------------------------------------------------------------------
Init ==
    /\ attacks = [n \in Names |-> None]
    /\ tcb = <<>>
    /\ pc = [j \in Jobs |-> "start"]
    /\ dry \in [Jobs -> BOOLEAN]
    /\ todo = [j \in Jobs |-> {}]
    /\ mappings = [j \in Jobs |-> NoVersions]
    /\ thresholds = [j \in Jobs |-> NoVersions]

jobVars == <<pc, dry, todo, mappings, thresholds>>

\* INSERT OR REPLACE: a row that is there loses its mark and its thresholds.
Seed(s) ==
    /\ attacks' = [attacks EXCEPT ![s.name] =
                      [minSvn |-> s.minSvn, patched |-> s.patched]]
    /\ UNCHANGED <<tcb, jobVars>>

MarkPatched(n) ==
    /\ n \in Rows
    /\ attacks' = [attacks EXCEPT ![n].patched = TRUE]
    /\ UNCHANGED <<tcb, jobVars>>

InsertTcb(t) ==
    /\ Len(tcb) < MaxTcb
    /\ tcb' = Append(tcb, t)
    /\ UNCHANGED <<attacks, jobVars>>

-----------------------------------------------------------------------------
(* A sync: fetch, insert what is new, map.                                 *)

Fetch(j, fetched) ==
    /\ pc[j] = "start"
    /\ pc' = [pc EXCEPT ![j] = "insert"]
    /\ todo' = [todo EXCEPT ![j] =
                   IF dry[j] THEN {} ELSE {n \in fetched : Cve[n] \notin KnownCves}]
    /\ UNCHANGED <<attacks, tcb, dry, mappings, thresholds>>

InsertNew(j, n) ==
    /\ pc[j] = "insert"
    /\ n \in todo[j]
    /\ attacks' = [attacks EXCEPT ![n] = [minSvn |-> NoThresholds, patched |-> FALSE]]
    /\ todo' = [todo EXCEPT ![j] = @ \ {n}]
    /\ UNCHANGED <<tcb, pc, dry, mappings, thresholds>>

\* map-cve-tcb begins here.
ReadMappings(j) ==
    /\ pc[j] \in {"start", "insert"}
    /\ todo[j] = {}
    /\ \E m \in Mappings : mappings' = [mappings EXCEPT ![j] = m]
    /\ pc' = [pc EXCEPT ![j] = "mapped"]
    /\ UNCHANGED <<attacks, tcb, dry, todo, thresholds>>

ReadThresholds(j) ==
    /\ pc[j] = "mapped"
    /\ thresholds' = [thresholds EXCEPT ![j] = [n \in Names |-> Threshold(n)]]
    /\ pc' = [pc EXCEPT ![j] = "write"]
    /\ UNCHANGED <<attacks, tcb, dry, todo, mappings>>

\* Mutated form of Updated: the fix overrides what was there.
UpdatedByFix(m, t) ==
    [p \in Platforms |-> IF m[p] # None THEN m[p] ELSE t[p]]

\* The whole JSON object is written back, as it was read but for what is new.
Updated(m, t) ==
    [p \in Platforms |-> IF p \in Missing(m, t) THEN m[p] ELSE t[p]]

Ends(j, outcome) ==
    /\ pc' = [pc EXCEPT ![j] = outcome]
    /\ todo' = [todo EXCEPT ![j] = {}]
    /\ mappings' = [mappings EXCEPT ![j] = NoVersions]
    /\ thresholds' = [thresholds EXCEPT ![j] = NoVersions]
    /\ UNCHANGED dry

\* One transaction; a job that maps nothing new to a row does not touch it.
Commit(j) ==
    /\ pc[j] = "write"
    /\ attacks' = [n \in Names |->
                      IF \/ dry[j]
                         \/ n \notin Rows
                         \/ Missing(mappings[j][n], thresholds[j][n]) = {}
                      THEN attacks[n]
                      ELSE [attacks[n] EXCEPT
                              !.minSvn = Updated(mappings[j][n], thresholds[j][n])]]
    /\ Ends(j, "done")
    /\ UNCHANGED tcb

\* Also a database that stays locked for longer than a statement waits.
Killed(j) ==
    /\ pc[j] \notin {"done", "killed"}
    /\ Ends(j, "killed")
    /\ UNCHANGED <<attacks, tcb>>

Next ==
    \/ \E s \in Seeds : Seed(s)
    \/ \E n \in Names : MarkPatched(n)
    \/ \E t \in TcbMenu : InsertTcb(t)
    \/ \E j \in Jobs, fetched \in SUBSET FeedNames : Fetch(j, fetched)
    \/ \E j \in Jobs, n \in FeedNames : InsertNew(j, n)
    \/ \E j \in Jobs : \/ ReadMappings(j)
                       \/ ReadThresholds(j)
                       \/ Commit(j)
                       \/ Killed(j)

Spec == Init /\ [][Next]_vars

-----------------------------------------------------------------------------
(* The current TCB version of a platform (load_current_tcb_reference).     *)

CurrentRecords(p) ==
    {i \in DOMAIN tcb : tcb[i].platform = p /\ tcb[i].status = "current"}

\* The sort by date is stable: of the newest records the first one inserted.
ReferenceRecord(p) ==
    CHOOSE i \in CurrentRecords(p) :
        \A k \in CurrentRecords(p) :
            \/ tcb[k].date < tcb[i].date
            \/ tcb[k].date = tcb[i].date /\ i <= k

Reference(p) ==
    IF CurrentRecords(p) = {} THEN None ELSE tcb[ReferenceRecord(p)].version

-----------------------------------------------------------------------------
(* `measure --check-tcb`: the current records of known CVEs that a quoted  *)
(* version is behind (check_tcb_lag).  Nothing of it means "up to date".   *)

\* Python orders numbers with numbers and strings with strings.
Comparable(v, w) == v \in Opaque <=> w \in Opaque

\* A version that cannot be compared with the record's is not behind it.
Behind(v, w) == Comparable(v, w) /\ ~(v >= w)

\* Mutated forms of TcbLag: behind the platform's reference, not behind the
\* fixes; and for the listed platforms of an attack only.
LagBehindReference(p, v) ==
    {x \in Rows \X CurrentRecords(p) :
        /\ x[2] = ReferenceRecord(p)
        /\ Cve[x[1]] # None /\ tcb[x[2]].cve = Cve[x[1]]
        /\ Behind(v, Bare[tcb[x[2]].version])}

LagOfListed(p, v) ==
    {x \in Rows \X CurrentRecords(p) :
        /\ p \in Affected[x[1]]
        /\ Cve[x[1]] # None /\ tcb[x[2]].cve = Cve[x[1]]
        /\ Behind(v, Bare[tcb[x[2]].version])}

\* Joined on the CVE alone, whether or not the attack is listed for p.
TcbLag(p, v) ==
    {x \in Rows \X CurrentRecords(p) :
        /\ Cve[x[1]] # None /\ tcb[x[2]].cve = Cve[x[1]]
        /\ Behind(v, Bare[tcb[x[2]].version])}

-----------------------------------------------------------------------------
(* The rows and what the jobs have read of them are of their types: a row  *)
(* that is written back is whole (ArchaeologyDB, apply_cve_tcb_mappings).  *)
TypeOK ==
    /\ attacks \in [Names -> AttackRow \cup {None}]
    /\ tcb \in Seq(TcbMenu) /\ Len(tcb) <= MaxTcb
    /\ pc \in [Jobs -> {"start", "insert", "mapped", "write", "done", "killed"}]
    /\ dry \in [Jobs -> BOOLEAN]
    /\ todo \in [Jobs -> SUBSET FeedNames]
    /\ mappings \in [Jobs -> [Names -> Thresholds]]
    /\ thresholds \in [Jobs -> [Names -> Thresholds]]

Seeded(n, p, v) == \E s \in Seeds : s.name = n /\ s.minSvn[p] = v

\* Version v of platform p has a reason to be a threshold of attack n.
Sourced(n, p, v) ==
    \/ Seeded(n, p, v)
    \/ /\ p \in Affected[n]
       /\ Cve[n] # None
       /\ \E i \in DOMAIN tcb : /\ tcb[i].platform = p /\ tcb[i].version = v
                                /\ tcb[i].cve = Cve[n] /\ tcb[i].status = "current"

(* Whatever the programs do to each other, and wherever they are killed, a *)
(* threshold is one that was seeded for this attack and platform or the    *)
(* version of a current record of its CVE on a platform it affects: an     *)
(* attack is never mitigated on no ground (apply_cve_tcb_mappings,         *)
(* map_cve_to_tcb_versions).                                               *)
ThresholdHasSource ==
    \A n \in Rows, p \in Platforms :
        attacks[n].minSvn[p] # None => Sourced(n, p, attacks[n].minSvn[p])

\* Written plainly: the same for the readers that strip a ">=" and those that
\* do not.
Plain(v) == Bare[v] = v

(* A version that is reported as up to date meets every threshold that a   *)
(* mapping has put into the database, however old the mapping and whichever*)
(* of a CVE's fixes it took, if the two can be compared at all and the     *)
(* threshold is written plainly: of a version that cannot be compared the  *)
(* code says "up to date" and counts the attack as unpatched.  A curator's *)
(* own thresholds may disagree (check_tcb_lag, "no known unpatched CVEs",  *)
(* apply_cve_tcb_mappings, _is_attack_patched_by_svn).                     *)
UpToDateMeetsThresholds ==
    \A p \in Platforms, v \in Versions :
        TcbLag(p, v) = {} =>
            \A n \in Rows :
                LET threshold == attacks[n].minSvn[p]
                IN  /\ threshold # None /\ ~Seeded(n, p, threshold)
                    /\ Plain(threshold) /\ Comparable(v, threshold)
                    => v >= threshold

(* A version that is reported as up to date is not called expired by the   *)
(* liveness check: where a platform's reference fixes the CVE of a recorded*)
(* attack, the two answers agree, on whichever platforms the attack is     *)
(* listed (check_tcb_lag, load_current_tcb_reference, resolve_tcb_status). *)
UpToDateIsNotExpired ==
    \A p \in Platforms, v \in Versions :
        /\ TcbLag(p, v) = {}
        /\ Reference(p) # None /\ Plain(Reference(p))
        /\ tcb[ReferenceRecord(p)].cve \in KnownCves
        => ~Behind(v, Reference(p))

(* A threshold that is in the row survives every mapping that read the row *)
(* as it is: only a row that changed between a job's read and its write is *)
(* set back (apply_cve_tcb_mappings: "human-curated wins").                *)
ThresholdLostOnlyToARace ==
    [][\A j \in Jobs : Commit(j) =>
         \A n \in Rows, p \in Platforms :
             /\ thresholds[j][n] = attacks[n].minSvn
             /\ attacks[n].minSvn[p] # None
             => attacks'[n].minSvn[p] = attacks[n].minSvn[p]]_vars

(* A mapping that nothing interfered with leaves nothing to map: a second  *)
(* one would skip every row of the join (apply_cve_tcb_mappings).          *)
MappingSettles ==
    [][\A j \in Jobs : Commit(j) /\ ~dry[j] /\ mappings[j] \in Mappings
                         /\ thresholds[j] = [n \in Names |-> Threshold(n)] =>
         \A n \in Names, p \in Platforms :
             Mapped(n, p) # {} => attacks'[n].minSvn[p] # None]_vars

(* A TCB record becomes a platform's reference when it is the first        *)
(* current one or newer than the reference, and changes nothing otherwise: *)
(* the reference of a database depends on the order in which it was filled *)
(* only between records of one date (load_current_tcb_reference).  It is   *)
(* the newest record, not the highest version that data/tcb/ speaks of.    *)
ReferenceFollowsTheDate ==
    [][\A t \in TcbMenu, p \in Platforms :
         InsertTcb(t) =>
            LET becomes == /\ t.platform = p
                           /\ t.status = "current"
                           /\ Reference(p) # None => tcb[ReferenceRecord(p)].date < t.date
            IN  Reference(p)' = IF becomes THEN t.version ELSE Reference(p)]_vars
=============================================================================
