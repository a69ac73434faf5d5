------------------------ MODULE AttackRecords_proofs ------------------------
(***************************************************************************)
(* Proofs about AttackRecords, for every set of attacks, platforms,        *)
(* records and jobs.                                                       *)
(***************************************************************************)
EXTENDS AttackRecords, WellFoundedInduction, TLAPS

(* What a job carries from its reads to its write has a source too: the    *)
(* sources of a threshold are never taken away, so it may be written at    *)
(* any later time.                                                         *)
MappingsSourced ==
    \A j \in Jobs, n \in Names, p \in Platforms :
        mappings[j][n][p] # None =>
            p \in Affected[n] /\ Cve[n] # None /\ mappings[j][n][p] \in Fixes(n, p)

ThresholdsSourced ==
    \A j \in Jobs, n \in Names, p \in Platforms :
        thresholds[j][n][p] # None => Sourced(n, p, thresholds[j][n][p])

IInv == TypeOK /\ MappingsSourced /\ ThresholdsSourced /\ ThresholdHasSource

LEMMA NoVersionsType == NoThresholds \in Thresholds /\ NoVersions \in [Names -> Thresholds]
BY DEF NoThresholds, NoVersions, Thresholds

(* TCB records are only ever added: a version that fixes goes on fixing.   *)
LEMMA FixesGrow ==
    ASSUME TypeOK, NEW n, NEW p,
           UNCHANGED tcb \/ \E t \in TcbMenu : InsertTcb(t)
    PROVE  Fixes(n, p) \subseteq Fixes(n, p)'
<1>1. CASE UNCHANGED tcb
  BY <1>1 DEF Fixes
<1>2. ASSUME NEW t \in TcbMenu, InsertTcb(t) PROVE Fixes(n, p) \subseteq Fixes(n, p)'
  <2>1. \A i \in DOMAIN tcb : i \in DOMAIN tcb' /\ tcb'[i] = tcb[i]
    BY <1>2 DEF InsertTcb, TypeOK
  <2> QED
    BY <2>1 DEF Fixes
<1> QED
  BY <1>1, <1>2

(* Every step leaves the TCB records alone or inserts one of the menu.     *)
LEMMA TcbStep == [Next]_vars => UNCHANGED tcb \/ \E t \in TcbMenu : InsertTcb(t)
BY DEF Next, vars, jobVars, Seed, MarkPatched, Fetch, InsertNew, ReadMappings,
       ReadThresholds, Commit, Killed

LEMMA SourcesStay ==
    ASSUME TypeOK, [Next]_vars, NEW n, NEW p, NEW v, Sourced(n, p, v)
    PROVE  Sourced(n, p, v)'
<1>1. CASE p \in Affected[n] /\ Cve[n] # None /\ v \in Fixes(n, p)
  BY <1>1, FixesGrow, TcbStep DEF Sourced, Fixes
<1>2. CASE Seeded(n, p, v)
  BY <1>2 DEF Sourced, Seeded
<1> QED
  BY <1>1, <1>2 DEF Sourced, Fixes

(* What a committing job writes to a row: thresholds, each read or mapped. *)
LEMMA UpdatedRow ==
    ASSUME NEW m \in Thresholds, NEW t \in Thresholds
    PROVE  /\ Updated(m, t) \in Thresholds
           /\ \A p \in Platforms : \/ Updated(m, t)[p] = t[p]
                                   \/ m[p] # None /\ t[p] = None /\ Updated(m, t)[p] = m[p]
BY DEF Updated, Missing, Thresholds

LEMMA InitIInv == Init => IInv
<1> SUFFICES ASSUME Init PROVE IInv
  OBVIOUS
<1> USE NoVersionsType DEF Init
<1>1. TypeOK
  BY MaxTcbIsANumber DEF TypeOK
<1>2. MappingsSourced /\ ThresholdsSourced
  BY DEF MappingsSourced, ThresholdsSourced, NoVersions, NoThresholds
<1>3. ThresholdHasSource
  BY DEF ThresholdHasSource, Rows
<1> QED
  BY <1>1, <1>2, <1>3 DEF IInv

(* One step keeps the types, the mutable parts one by one.                 *)
LEMMA TypeStep == TypeOK /\ [Next]_vars => TypeOK'
<1> SUFFICES ASSUME TypeOK, [Next]_vars PROVE TypeOK'
  OBVIOUS
<1> USE NoVersionsType DEF TypeOK
<1>1. ASSUME NEW s \in Seeds, Seed(s) PROVE TypeOK'
  BY <1>1, SeedsAreRows DEF Seed, jobVars, AttackRow
<1>2. ASSUME NEW n \in Names, MarkPatched(n) PROVE TypeOK'
  BY <1>2 DEF MarkPatched, jobVars, Rows, AttackRow
<1>3. ASSUME NEW t \in TcbMenu, InsertTcb(t) PROVE TypeOK'
  BY <1>3, MaxTcbIsANumber DEF InsertTcb, jobVars
<1>4. ASSUME NEW j \in Jobs, NEW fetched \in SUBSET FeedNames, Fetch(j, fetched)
      PROVE  TypeOK'
  BY <1>4 DEF Fetch
<1>5. ASSUME NEW j \in Jobs, NEW n \in FeedNames, InsertNew(j, n) PROVE TypeOK'
  BY <1>5, FeedNamesAreNames DEF InsertNew, AttackRow
<1>6. ASSUME NEW j \in Jobs, ReadMappings(j) PROVE TypeOK'
  <2>1. Recorded \cup {None} \subseteq Versions \cup {None}
    BY TcbVersions DEF Recorded
  <2>2. Mappings \subseteq [Names -> Thresholds]
    BY <2>1 DEF Mappings, Thresholds
  <2> QED
    BY <1>6, <2>2 DEF ReadMappings
<1>7. ASSUME NEW j \in Jobs, ReadThresholds(j) PROVE TypeOK'
  <2>1. [n \in Names |-> Threshold(n)] \in [Names -> Thresholds]
    BY NoneIsNoRow DEF Threshold, Rows, AttackRow
  <2> QED
    BY <1>7, <2>1 DEF ReadThresholds
<1>8. ASSUME NEW j \in Jobs, Commit(j) PROVE TypeOK'
  <2>1. attacks' \in [Names -> AttackRow \cup {None}]
    <3> SUFFICES ASSUME NEW n \in Names PROVE attacks'[n] \in AttackRow \cup {None}
      BY <1>8 DEF Commit
    <3>1. CASE attacks'[n] = attacks[n]
      BY <3>1
    <3>2. CASE /\ n \in Rows
               /\ attacks'[n] = [attacks[n] EXCEPT
                                    !.minSvn = Updated(mappings[j][n], thresholds[j][n])]
      BY <3>2, UpdatedRow DEF Rows, AttackRow
    <3> QED
      BY <1>8, <3>1, <3>2 DEF Commit
  <2> QED
    BY <1>8, <2>1 DEF Commit, Ends
<1>9. ASSUME NEW j \in Jobs, Killed(j) PROVE TypeOK'
  BY <1>9 DEF Killed, Ends
<1>10. CASE UNCHANGED vars
  BY <1>10 DEF vars
<1> QED
  BY <1>1, <1>2, <1>3, <1>4, <1>5, <1>6, <1>7, <1>8, <1>9, <1>10 DEF Next

(* What the jobs hold keeps its source: they read it from a state that had *)
(* it, and drop it when they end.                                          *)
LEMMA JobsStep == IInv /\ [Next]_vars => (MappingsSourced /\ ThresholdsSourced)'
<1> SUFFICES ASSUME IInv, [Next]_vars,
                    NEW j \in Jobs, NEW n \in Names, NEW p \in Platforms,
                    NEW m, m = mappings'[j][n][p], NEW t, t = thresholds'[j][n][p]
             PROVE  /\ m # None => p \in Affected[n] /\ Cve[n] # None /\ m \in Fixes(n, p)'
                    /\ t # None => Sourced(n, p, t)'
  BY DEF MappingsSourced, ThresholdsSourced
<1> USE DEF IInv
<1>1. CASE mappings'[j] = mappings[j] /\ thresholds'[j] = thresholds[j]
  BY <1>1, FixesGrow, TcbStep, SourcesStay DEF MappingsSourced, ThresholdsSourced
<1>2. CASE mappings'[j] = NoVersions /\ thresholds'[j] = NoVersions
  BY <1>2 DEF NoVersions, NoThresholds
<1>3. CASE ReadMappings(j)
  <2>1. mappings'[j] \in Mappings /\ thresholds'[j] = thresholds[j]
    BY <1>3 DEF ReadMappings, TypeOK
  <2>2. m # None => p \in Affected[n] /\ Cve[n] # None /\ m \in Fixes(n, p)
    BY <2>1 DEF Mappings, Mapped
  <2> QED
    BY <2>1, <2>2, FixesGrow, TcbStep, SourcesStay DEF ThresholdsSourced
<1>4. CASE ReadThresholds(j)
  <2>1. thresholds'[j][n] = Threshold(n) /\ mappings'[j] = mappings[j]
    BY <1>4 DEF ReadThresholds, TypeOK
  <2>2. t # None => Sourced(n, p, t)
    BY <2>1 DEF Threshold, NoThresholds, ThresholdHasSource
  <2> QED
    BY <2>1, <2>2, FixesGrow, TcbStep, SourcesStay DEF MappingsSourced
<1> QED
  <2>1. \/ mappings'[j] = mappings[j] /\ thresholds'[j] = thresholds[j]
        \/ mappings'[j] = NoVersions /\ thresholds'[j] = NoVersions
        \/ ReadMappings(j)
        \/ ReadThresholds(j)
    BY DEF Next, vars, jobVars, Seed, MarkPatched, InsertTcb, Fetch, InsertNew,
           ReadMappings, ReadThresholds, Commit, Killed, Ends, TypeOK
  <2> QED
    BY <1>1, <1>2, <1>3, <1>4, <2>1

(* A row's thresholds are seeded, absent, as they were, or written by a    *)
(* job that holds a source for each.                                       *)
LEMMA RowsStep == IInv /\ [Next]_vars => ThresholdHasSource'
<1> SUFFICES ASSUME IInv, [Next]_vars, NEW n \in Names, NEW p \in Platforms,
                    attacks'[n] # None, NEW v, v = attacks'[n].minSvn[p], v # None
             PROVE  Sourced(n, p, v)'
  BY DEF ThresholdHasSource, Rows
<1> USE DEF IInv, TypeOK
<1>1. CASE attacks'[n] = attacks[n]
  <2>1. Sourced(n, p, v)
    BY <1>1 DEF ThresholdHasSource, Rows
  <2> QED
    BY <2>1, SourcesStay
<1>2. ASSUME NEW s \in Seeds, Seed(s), attacks'[n] # attacks[n]
      PROVE  Sourced(n, p, v)'
  <2>1. s.name = n /\ s.minSvn[p] = v
    BY <1>2, SeedsAreRows DEF Seed
  <2> QED
    BY <2>1 DEF Sourced, Seeded
<1>3. ASSUME NEW m \in Names, MarkPatched(m), attacks'[n] # attacks[n]
      PROVE  Sourced(n, p, v)'
  <2>1. n \in Rows /\ attacks'[n].minSvn = attacks[n].minSvn
    BY <1>3 DEF MarkPatched, Rows, AttackRow
  <2>2. Sourced(n, p, v)
    BY <2>1 DEF ThresholdHasSource
  <2> QED
    BY <2>2, SourcesStay
<1>4. ASSUME NEW j \in Jobs, NEW m \in FeedNames, InsertNew(j, m),
             attacks'[n] # attacks[n]
      PROVE  FALSE
  BY <1>4, FeedNamesAreNames DEF InsertNew, NoThresholds
<1>5. ASSUME NEW j \in Jobs, Commit(j), attacks'[n] # attacks[n]
      PROVE  Sourced(n, p, v)'
  <2>1. attacks'[n].minSvn = Updated(mappings[j][n], thresholds[j][n])
    BY <1>5 DEF Commit, Rows, AttackRow
  <2>2. v = thresholds[j][n][p] \/ v = mappings[j][n][p]
    BY <2>1, UpdatedRow
  <2>3. Sourced(n, p, v)
    <3>1. CASE v = thresholds[j][n][p]
      BY <3>1 DEF ThresholdsSourced
    <3>2. CASE v = mappings[j][n][p]
      <4>1. p \in Affected[n] /\ Cve[n] # None /\ v \in Fixes(n, p)
        BY <3>2 DEF MappingsSourced
      <4> QED
        BY <4>1 DEF Sourced, Fixes
    <3> QED
      BY <2>2, <3>1, <3>2
  <2> QED
    BY <2>3, SourcesStay
<1> QED
  <2>1. \/ attacks' = attacks
        \/ \E s \in Seeds : Seed(s)
        \/ \E m \in Names : MarkPatched(m)
        \/ \E j \in Jobs, m \in FeedNames : InsertNew(j, m)
        \/ \E j \in Jobs : Commit(j)
    BY DEF Next, vars, InsertTcb, Fetch, ReadMappings, ReadThresholds, Killed
  <2> QED
    BY <1>1, <1>2, <1>3, <1>4, <1>5, <2>1

LEMMA IInvAlways == Spec => []IInv
<1>1. IInv /\ [Next]_vars => IInv'
  BY TypeStep, JobsStep, RowsStep DEF IInv
<1> QED
  BY InitIInv, <1>1, PTL DEF Spec

(* Rows stay whole whatever is written back to them.                       *)
THEOREM TypeCorrect == Spec => []TypeOK
<1>1. IInv => TypeOK
  BY DEF IInv
<1> QED
  BY <1>1, IInvAlways, PTL

(* No threshold without a seed or a current TCB record behind it.          *)
THEOREM ThresholdHasSourceHolds == Spec => []ThresholdHasSource
<1>1. IInv => ThresholdHasSource
  BY DEF IInv
<1> QED
  BY <1>1, IInvAlways, PTL

(* What is called up to date meets every threshold that was mapped, if the *)
(* two can be compared: the record a threshold came from is still there,   *)
(* and is no lag.                                                          *)
THEOREM UpToDateMeetsThresholdsHolds == Spec => []UpToDateMeetsThresholds
<1>1. IInv => UpToDateMeetsThresholds
  <2> SUFFICES ASSUME IInv, NEW p \in Platforms, NEW v \in Versions, TcbLag(p, v) = {},
                      NEW n \in Rows, NEW w, w = attacks[n].minSvn[p],
                      w # None, ~Seeded(n, p, w), Plain(w), Comparable(v, w)
               PROVE  v >= w
    BY DEF UpToDateMeetsThresholds
  <2>1. Sourced(n, p, w)
    BY DEF IInv, ThresholdHasSource
  <2>2. PICK i \in DOMAIN tcb : /\ tcb[i].platform = p /\ tcb[i].version = w
                                /\ tcb[i].cve = Cve[n] /\ tcb[i].status = "current"
    BY <2>1 DEF Sourced
  <2>3. Cve[n] # None
    BY <2>1 DEF Sourced
  <2>4. <<n, i>> \notin TcbLag(p, v)
    OBVIOUS
  <2>5. ~Behind(v, Bare[w])
    BY <2>2, <2>3, <2>4 DEF TcbLag, CurrentRecords
  <2> QED
    BY <2>5 DEF Behind, Plain
<1> QED
  BY <1>1, IInvAlways, PTL

(* A mapping overwrites a threshold only in a row that changed under it.   *)
THEOREM LostOnlyToARace == Spec => ThresholdLostOnlyToARace
<1> DEFINE Keeps(j) ==
        \A n \in Rows, p \in Platforms :
            /\ thresholds[j][n] = attacks[n].minSvn
            /\ attacks[n].minSvn[p] # None
            => attacks'[n].minSvn[p] = attacks[n].minSvn[p]
<1>1. IInv => \A j \in Jobs : Commit(j) => Keeps(j)
  <2> SUFFICES ASSUME IInv, NEW j \in Jobs, Commit(j), NEW n \in Rows, NEW p \in Platforms,
                      thresholds[j][n] = attacks[n].minSvn, attacks[n].minSvn[p] # None
               PROVE  attacks'[n].minSvn[p] = attacks[n].minSvn[p]
    OBVIOUS
  <2> USE DEF IInv, TypeOK, Rows
  <2>1. CASE attacks'[n] = attacks[n]
    BY <2>1
  <2>2. CASE attacks'[n].minSvn = Updated(mappings[j][n], thresholds[j][n])
    BY <2>2, UpdatedRow
  <2> QED
    BY <2>1, <2>2 DEF Commit, AttackRow
<1>2. IInv => [\A j \in Jobs : Commit(j) => Keeps(j)]_vars
  BY <1>1
<1> QED
  BY <1>2, IInvAlways, PTL DEF ThresholdLostOnlyToARace

(* An undisturbed mapping sees every row of the join that lacks a          *)
(* threshold, and writes to it a version, never None.                      *)
THEOREM MappingSettlesHolds == Spec => MappingSettles
<1> DEFINE Settled ==
        \A n \in Names, p \in Platforms :
            Mapped(n, p) # {} => attacks'[n].minSvn[p] # None
           Undisturbed(j) ==
        /\ ~dry[j]
        /\ mappings[j] \in Mappings
        /\ thresholds[j] = [n \in Names |-> Threshold(n)]
<1>1. IInv => \A j \in Jobs : Commit(j) /\ Undisturbed(j) => Settled
  <2> SUFFICES ASSUME IInv, NEW j \in Jobs, Commit(j), Undisturbed(j),
                      NEW n \in Names, NEW p \in Platforms, Mapped(n, p) # {}
               PROVE  attacks'[n].minSvn[p] # None
    OBVIOUS
  <2> DEFINE m == mappings[j][n]
             t == thresholds[j][n]
  <2>1. m \in Thresholds /\ t \in Thresholds
    BY DEF IInv, TypeOK
  <2>2. n \in Rows /\ t = attacks[n].minSvn
    BY DEF Mapped, Threshold
  <2>3. m[p] # None
    <3>1. m[p] \in Fixes(n, p)
      BY DEF Mappings, Mapped
    <3>2. PICK i \in DOMAIN tcb : m[p] = tcb[i].version
      BY <3>1 DEF Fixes
    <3>3. tcb[i] \in TcbMenu
      BY DEF IInv, TypeOK
    <3> QED
      BY <3>2, <3>3, TcbVersions, NoneIsNoVersion
  <2>4. CASE t[p] # None
    <3>1. CASE attacks'[n] = attacks[n]
      BY <2>2, <2>4, <3>1
    <3>2. CASE attacks'[n] = [attacks[n] EXCEPT !.minSvn = Updated(m, t)]
      <4>1. attacks'[n].minSvn = Updated(m, t)
        BY <2>2, <3>2 DEF IInv, TypeOK, Rows, AttackRow
      <4>2. Updated(m, t)[p] = t[p]
        BY <2>1, <2>4, UpdatedRow
      <4> QED
        BY <2>4, <4>1, <4>2
    <3> QED
      BY <3>1, <3>2 DEF Commit
  <2>5. CASE t[p] = None
    <3>1. p \in Missing(m, t)
      BY <2>3, <2>5 DEF Missing
    <3>2. attacks'[n] = [attacks[n] EXCEPT !.minSvn = Updated(m, t)]
      BY <2>2, <3>1 DEF Commit
    <3>3. attacks'[n].minSvn = Updated(m, t)
      BY <2>2, <3>2 DEF IInv, TypeOK, Rows, AttackRow
    <3>4. Updated(m, t)[p] = m[p]
      BY <3>1 DEF Updated
    <3> QED
      BY <2>3, <3>3, <3>4
  <2> QED
    BY <2>4, <2>5
<1>2. IInv => [\A j \in Jobs : Commit(j) /\ ~dry[j] /\ mappings[j] \in Mappings
                                /\ thresholds[j] = [n \in Names |-> Threshold(n)]
                  => Settled]_vars
  BY <1>1
<1> QED
  BY <1>2, IInvAlways, PTL DEF MappingSettles

-----------------------------------------------------------------------------
(* The reference of a platform.                                            *)

(* The records that are current in a database s, and the one the sort by   *)
(* date puts first.                                                        *)
CurrentIn(s, p) == {i \in DOMAIN s : s[i].platform = p /\ s[i].status = "current"}

NewestIn(s, p, i) ==
    /\ i \in CurrentIn(s, p)
    /\ \A k \in CurrentIn(s, p) :
          \/ s[k].date < s[i].date
          \/ s[k].date = s[i].date /\ i <= k

LEMMA DatesAndPositions ==
    ASSUME NEW s \in Seq(TcbMenu), NEW p, NEW i \in CurrentIn(s, p)
    PROVE  i \in Nat /\ s[i].date \in Nat
BY TcbDates DEF CurrentIn

(* At most one record is the newest.                                       *)
LEMMA OneNewest ==
    ASSUME NEW s \in Seq(TcbMenu), NEW p, NEW i, NEW k,
           NewestIn(s, p, i), NewestIn(s, p, k)
    PROVE  i = k
<1>1. i \in CurrentIn(s, p) /\ k \in CurrentIn(s, p)
  BY DEF NewestIn
<1>2. i \in Nat /\ k \in Nat /\ s[i].date \in Nat /\ s[k].date \in Nat
  BY <1>1, DatesAndPositions
<1> QED
  BY <1>1, <1>2 DEF NewestIn

(* A natural number that fails a property has a least one below it: the    *)
(* form of induction that the proof of SomeNewest takes.                   *)
LEMMA LeastNumber ==
    ASSUME NEW S, S \subseteq Nat, S # {}
    PROVE  \E i \in S : \A j \in S : i <= j
<1>1. PICK m \in S : \A y \in S : <<y, m>> \notin OpToRel(<, Nat)
  BY NatLessThanWellFounded, WFMin, Zenon
<1>2. \A y \in S : m \in Nat /\ y \in Nat /\ ~(y < m)
  BY <1>1 DEF OpToRel
<1> QED
  BY <1>2

(* A platform with a current record has a newest one: look at the records  *)
(* up to the first one that would be a counterexample.                     *)
LEMMA SomeNewest ==
    ASSUME NEW s \in Seq(TcbMenu), NEW p, CurrentIn(s, p) # {}
    PROVE  \E i : NewestIn(s, p, i)
<1> DEFINE C(n) == {k \in CurrentIn(s, p) : k <= n}
           Newest(n, i) ==
               /\ i \in C(n)
               /\ \A k \in C(n) : \/ s[k].date < s[i].date
                                  \/ s[k].date = s[i].date /\ i <= k
           Bad == {n \in Nat : C(n) # {} /\ \A i \in C(n) : ~Newest(n, i)}
<1>1. \A k \in CurrentIn(s, p) : k \in Nat /\ k >= 1 /\ k <= Len(s) /\ s[k].date \in Nat
  BY DatesAndPositions DEF CurrentIn
<1>2. Bad = {}
  <2> SUFFICES ASSUME Bad # {} PROVE FALSE
    OBVIOUS
  <2>1. PICK n \in Bad : \A j \in Bad : n <= j
    <3> HIDE DEF Bad
    <3>1. Bad \subseteq Nat
      BY DEF Bad
    <3> QED
      BY <3>1, LeastNumber
  <2>2. n \in Nat /\ C(n) # {} /\ n - 1 \notin Bad
    <3>1. n \in Nat /\ C(n) # {}
      OBVIOUS
    <3> HIDE DEF Bad
    <3> QED
      BY <2>1, <3>1
  <2>3. PICK k \in C(n) : TRUE
    BY <2>2
  <2>4. k \in Nat /\ k <= n /\ k >= 1
    BY <1>1, <2>3
  <2>5. n - 1 \in Nat /\ \A j \in C(n) : j \in C(n - 1) \/ j = n
    BY <2>2, <2>4, <1>1
  <2>6. CASE C(n - 1) = {}
    <3>1. C(n) = {n}
      BY <2>3, <2>5, <2>6
    <3> QED
      BY <2>1, <2>2, <3>1
  <2>7. CASE C(n - 1) # {}
    <3>1. PICK i \in C(n - 1) : Newest(n - 1, i)
      BY <2>2, <2>5, <2>7
    <3>2. i \in CurrentIn(s, p) /\ i \in Nat /\ s[i].date \in Nat /\ i <= n - 1
      <4> HIDE DEF Newest
      <4> QED
        BY <3>1, <1>1
    <3>5. \A j \in C(n - 1) : \/ s[j].date < s[i].date
                              \/ s[j].date = s[i].date /\ i <= j
      BY <3>1
    <3>6. i \in C(n) /\ i < n
      BY <2>2, <3>2
    <3>7. \A j \in C(n) : ~Newest(n, j)
      BY <2>1
    <3>3. CASE n \in C(n) /\ s[n].date > s[i].date
      <4>1. s[n].date \in Nat
        BY <3>3, <1>1
      <4>2. ASSUME NEW j \in C(n)
            PROVE  s[j].date < s[n].date \/ (s[j].date = s[n].date /\ n <= j)
        <5>1. s[j].date \in Nat /\ (j \in C(n - 1) \/ j = n)
          BY <2>5, <1>1
        <5> HIDE DEF C, Newest, Bad
        <5> QED
          BY <2>2, <3>2, <3>3, <3>5, <3>6, <4>1, <5>1
      <4> QED
        BY <3>3, <3>7, <4>2
    <3>4. CASE ~(n \in C(n) /\ s[n].date > s[i].date)
      <4>1. ASSUME NEW j \in C(n)
            PROVE  s[j].date < s[i].date \/ (s[j].date = s[i].date /\ i <= j)
        <5>1. s[j].date \in Nat /\ (j \in C(n - 1) \/ j = n)
          BY <2>5, <1>1
        <5>2. CASE j \in C(n - 1)
          BY <3>5, <5>2
        <5>3. CASE j = n
          <6>1. ~(s[j].date > s[i].date) /\ i <= j
            BY <2>2, <3>2, <3>4, <5>3
          <6> HIDE DEF C, Newest, Bad
          <6> QED
            BY <3>2, <5>1, <6>1
        <5> QED
          BY <5>1, <5>2, <5>3
      <4> QED
        BY <3>6, <3>7, <4>1
    <3> QED
      BY <3>3, <3>4
  <2> QED
    BY <2>6, <2>7
<1>3. Len(s) \in Nat /\ C(Len(s)) = CurrentIn(s, p)
  BY <1>1
<1>4. PICK i \in C(Len(s)) : Newest(Len(s), i)
  BY <1>2, <1>3
<1> QED
  BY <1>3, <1>4 DEF NewestIn

(* What inserting a record does to the newest one.                         *)
LEMMA NewestAfterInsertion ==
    ASSUME NEW s \in Seq(TcbMenu), NEW t \in TcbMenu, NEW p
    PROVE  /\ t.platform = p /\ t.status = "current"
             /\ (\A i : NewestIn(s, p, i) => s[i].date < t.date)
               => NewestIn(Append(s, t), p, Len(s) + 1)
           /\ \A i : NewestIn(s, p, i)
                       /\ ~(t.platform = p /\ t.status = "current" /\ s[i].date < t.date)
               => NewestIn(Append(s, t), p, i)
<1> DEFINE a == Append(s, t)
           n == Len(s) + 1
<1>1. /\ n \in Nat /\ DOMAIN a = DOMAIN s \cup {n} /\ a[n] = t
      /\ \A k \in DOMAIN s : a[k] = s[k] /\ k \in Nat /\ k < n
      /\ t.date \in Nat
  BY TcbDates
<1> HIDE DEF a, n
<1>2. /\ CurrentIn(s, p) \subseteq CurrentIn(a, p)
      /\ CurrentIn(a, p) \subseteq CurrentIn(s, p) \cup {n}
      /\ n \in CurrentIn(a, p) <=> t.platform = p /\ t.status = "current"
  BY <1>1 DEF CurrentIn
<1>3. \A k \in CurrentIn(s, p) :
          a[k] = s[k] /\ k \in Nat /\ k < n /\ s[k].date \in Nat
  BY <1>1, DatesAndPositions DEF CurrentIn
<1>4. ASSUME t.platform = p, t.status = "current",
             \A i : NewestIn(s, p, i) => s[i].date < t.date
      PROVE  NewestIn(a, p, n)
  <2>1. ASSUME NEW k \in CurrentIn(a, p), k # n PROVE a[k].date < a[n].date
    <3>1. k \in CurrentIn(s, p)
      BY <1>2, <2>1
    <3>2. PICK i : NewestIn(s, p, i)
      BY <3>1, SomeNewest
    <3>3. i \in CurrentIn(s, p) /\ s[i].date < t.date /\ s[k].date <= s[i].date
      BY <1>3, <1>4, <3>1, <3>2 DEF NewestIn
    <3> QED
      BY <1>1, <1>3, <3>1, <3>3
  <2> QED
    BY <1>1, <1>2, <1>4, <2>1 DEF NewestIn
<1>5. ASSUME NEW i, NewestIn(s, p, i),
             ~(t.platform = p /\ t.status = "current" /\ s[i].date < t.date)
      PROVE  NewestIn(a, p, i)
  <2>1. i \in CurrentIn(s, p)
    BY <1>5 DEF NewestIn
  <2>2. ASSUME NEW k \in CurrentIn(a, p)
        PROVE  a[k].date < a[i].date \/ (a[k].date = a[i].date /\ i <= k)
    <3>1. CASE k \in CurrentIn(s, p)
      BY <1>3, <1>5, <2>1, <3>1 DEF NewestIn
    <3>2. CASE k = n
      BY <1>1, <1>2, <1>3, <1>5, <2>1, <3>2
    <3> QED
      BY <1>2, <3>1, <3>2
  <2> QED
    BY <1>2, <2>1, <2>2 DEF NewestIn
<1> QED
  BY <1>4, <1>5 DEF a, n

(* The CHOOSE of ReferenceRecord finds the newest record.                  *)
FirstByDate(s, p) ==
    CHOOSE i \in CurrentIn(s, p) :
        \A k \in CurrentIn(s, p) :
            \/ s[k].date < s[i].date
            \/ s[k].date = s[i].date /\ i <= k

LEMMA FirstByDateIs ==
    ASSUME NEW s \in Seq(TcbMenu), NEW p, NEW i, NewestIn(s, p, i)
    PROVE  FirstByDate(s, p) = i
<1>1. NewestIn(s, p, FirstByDate(s, p))
  BY DEF NewestIn, FirstByDate
<1> QED
  BY <1>1, OneNewest

(* Only a newer record takes the reference over, even from a higher        *)
(* version (load_current_tcb_reference).                                   *)
THEOREM ReferenceFollowsTheDateHolds == Spec => ReferenceFollowsTheDate
<1> DEFINE Becomes(t, p) ==
        /\ t.platform = p
        /\ t.status = "current"
        /\ Reference(p) # None => tcb[ReferenceRecord(p)].date < t.date
<1>1. ASSUME IInv, NEW t \in TcbMenu, NEW p \in Platforms, InsertTcb(t)
      PROVE  Reference(p)' = IF Becomes(t, p) THEN t.version ELSE Reference(p)
  <2>1. tcb \in Seq(TcbMenu) /\ tcb' = Append(tcb, t) /\ tcb' \in Seq(TcbMenu)
    BY <1>1 DEF IInv, TypeOK, InsertTcb
  <2>2. CurrentRecords(p) = CurrentIn(tcb, p) /\ CurrentRecords(p)' = CurrentIn(tcb', p)
    BY DEF CurrentRecords, CurrentIn
  <2>3. /\ ReferenceRecord(p) = FirstByDate(tcb, p)
        /\ ReferenceRecord(p)' = FirstByDate(tcb', p)
    BY DEF ReferenceRecord, FirstByDate, CurrentRecords, CurrentIn
  <2>4. \A i : NewestIn(tcb, p, i) =>
            ReferenceRecord(p) = i /\ Reference(p) = tcb[i].version
    <3> SUFFICES ASSUME NEW i, NewestIn(tcb, p, i)
                 PROVE  ReferenceRecord(p) = i /\ CurrentRecords(p) # {}
      BY DEF Reference
    <3>1. ReferenceRecord(p) = i
      BY <2>1, <2>3, FirstByDateIs
    <3> QED
      BY <2>2, <3>1 DEF NewestIn
  <2>5. \A i : NewestIn(tcb', p, i) => Reference(p)' = tcb'[i].version
    <3> SUFFICES ASSUME NEW i, NewestIn(tcb', p, i)
                 PROVE  ReferenceRecord(p)' = i /\ CurrentRecords(p)' # {}
      BY DEF Reference
    <3>1. ReferenceRecord(p)' = i
      BY <2>1, <2>3, FirstByDateIs
    <3> QED
      BY <2>2, <3>1 DEF NewestIn
  <2>6. \A i : NewestIn(tcb, p, i) =>
            /\ i \in DOMAIN tcb /\ tcb'[i] = tcb[i]
            /\ Reference(p) # None
    <3> SUFFICES ASSUME NEW i, NewestIn(tcb, p, i)
                 PROVE  i \in DOMAIN tcb /\ tcb'[i] = tcb[i] /\ tcb[i].version # None
      BY <2>4
    <3>1. i \in DOMAIN tcb
      BY DEF NewestIn, CurrentIn
    <3>2. tcb[i] \in TcbMenu
      BY <2>1, <3>1
    <3> QED
      BY <2>1, <3>1, <3>2, TcbVersions, NoneIsNoVersion
  <2>7. CASE Becomes(t, p)
    <3>1. NewestIn(tcb', p, Len(tcb) + 1)
      BY <2>1, <2>4, <2>6, <2>7, NewestAfterInsertion
    <3> QED
      BY <2>1, <2>5, <2>7, <3>1
  <2>8. CASE ~Becomes(t, p) /\ CurrentIn(tcb, p) # {}
    <3>1. PICK i : NewestIn(tcb, p, i)
      BY <2>1, <2>8, SomeNewest
    <3>2. ~(t.platform = p /\ t.status = "current" /\ tcb[i].date < t.date)
      BY <2>4, <2>8, <3>1
    <3>3. NewestIn(tcb', p, i)
      BY <2>1, <3>1, <3>2, NewestAfterInsertion
    <3> QED
      BY <2>4, <2>5, <2>6, <2>8, <3>1, <3>3
  <2>9. CASE ~Becomes(t, p) /\ CurrentIn(tcb, p) = {}
    <3>1. Reference(p) = None
      BY <2>2, <2>9 DEF Reference
    <3>2. ~(t.platform = p /\ t.status = "current")
      BY <2>9, <3>1
    <3>3. CurrentIn(tcb', p) = {}
      BY <2>1, <2>9, <3>2 DEF CurrentIn
    <3> QED
      BY <2>2, <2>9, <3>1, <3>3 DEF Reference
  <2> QED
    BY <2>7, <2>8, <2>9
<1>2. IInv => [\A t \in TcbMenu, p \in Platforms :
                  InsertTcb(t) =>
                      LET becomes == /\ t.platform = p
                                     /\ t.status = "current"
                                     /\ Reference(p) # None
                                          => tcb[ReferenceRecord(p)].date < t.date
                      IN  Reference(p)' = IF becomes THEN t.version ELSE Reference(p)]_vars
  BY <1>1
<1> QED
  BY <1>2, IInvAlways, PTL DEF ReferenceFollowsTheDate

(* What is called up to date is not expired: the reference is one of the   *)
(* records that a lag is looked for in.                                    *)
THEOREM UpToDateIsNotExpiredHolds == Spec => []UpToDateIsNotExpired
<1>1. IInv => UpToDateIsNotExpired
  <2> SUFFICES ASSUME IInv, NEW p \in Platforms, NEW v \in Versions, TcbLag(p, v) = {},
                      Reference(p) # None, Plain(Reference(p)),
                      NEW i, i = ReferenceRecord(p), tcb[i].cve \in KnownCves
               PROVE  ~Behind(v, Reference(p))
    BY DEF UpToDateIsNotExpired
  <2>1. i \in CurrentRecords(p) /\ Reference(p) = tcb[i].version
    <3>1. /\ tcb \in Seq(TcbMenu)
          /\ CurrentRecords(p) = CurrentIn(tcb, p)
          /\ ReferenceRecord(p) = FirstByDate(tcb, p)
      BY DEF IInv, TypeOK, CurrentRecords, CurrentIn, ReferenceRecord, FirstByDate
    <3>2. CurrentIn(tcb, p) # {} /\ Reference(p) = tcb[i].version
      BY <3>1 DEF Reference
    <3>3. PICK k : NewestIn(tcb, p, k)
      BY <3>1, <3>2, SomeNewest
    <3>4. i = k
      BY <3>1, <3>3, FirstByDateIs
    <3> QED
      BY <3>1, <3>2, <3>3, <3>4 DEF NewestIn
  <2>2. PICK n \in Rows : Cve[n] = tcb[i].cve /\ Cve[n] # None
    BY DEF KnownCves
  <2>3. <<n, i>> \notin TcbLag(p, v)
    OBVIOUS
  <2>4. ~Behind(v, Bare[tcb[i].version])
    BY <2>1, <2>2, <2>3 DEF TcbLag
  <2> QED
    BY <2>1, <2>4 DEF Plain
<1> QED
  BY <1>1, IInvAlways, PTL
=============================================================================
