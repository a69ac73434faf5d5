---------------------------- MODULE Evidence_proofs ---------------------------
(***************************************************************************)
(* Proofs about EvidenceGraph and Grading: every property their runs check, *)
(* for every node menu, every set of requests, scopes and versions and     *)
(* every bound.                                                            *)
(***************************************************************************)
EXTENDS Grading, EvidenceGraph, WellFoundedInduction, FiniteSetTheorems, TLAPS

-----------------------------------------------------------------------------
(* Facts about the operators of Evidence.                                  *)

(* A set of positions has a least one, and FirstIndex picks it.            *)
LEMMA LeastIndex ==
    ASSUME NEW S, S \subseteq Nat, S # {}
    PROVE  \E i \in S : \A j \in S : i <= j
<1>1. PICK m \in S : \A y \in S : <<y, m>> \notin OpToRel(<, Nat)
  BY NatLessThanWellFounded, WFMin, Zenon
<1>2. \A y \in S : m <= y
  <2>1. TAKE y \in S
  <2>2. m \in Nat /\ y \in Nat
    BY <1>1
  <2>3. ~(y < m)
    BY <1>1, <2>2 DEF OpToRel
  <2> QED
    BY <2>2, <2>3
<1> QED
  BY <1>1, <1>2

LEMMA FirstIndexIn ==
    ASSUME NEW S, S \subseteq Nat, S # {}
    PROVE  FirstIndex(S) \in S
BY LeastIndex DEF FirstIndex

LEMMA FirstIndexIs ==
    ASSUME NEW S, S \subseteq Nat, NEW k \in S, \A j \in S : k <= j
    PROVE  FirstIndex(S) = k
<1>1. FirstIndex(S) \in S /\ \A j \in S : FirstIndex(S) <= j
  BY DEF FirstIndex
<1>2. FirstIndex(S) \in Nat /\ k \in Nat /\ FirstIndex(S) <= k /\ k <= FirstIndex(S)
  BY <1>1
<1> QED
  BY <1>2

(* The quote an edge names is the only node with that id, so the value     *)
(* SharedValue reads is the value of the very quote Binds looked at.       *)
LEMMA SharedValueOfSource ==
    ASSUME NEW g, Indexed(g), NEW e, NEW s \in NodeById(g, e.source)
    PROVE  SharedValue(g, e) = BindingValue(g.nodes[s])
<1>1. NodeById(g, e.source) = {s}
  BY DEF Indexed, NodeById
<1>2. s \in Nat
  BY DEF Indexed, NodeById
<1>3. FirstIndex({s}) = s
  BY <1>2 DEF FirstIndex
<1> QED
  BY <1>1, <1>3 DEF SharedValue

\* What DistributedTrustIsEarned asks of the quotes.
Witnessed(g) ==
    \E i, j \in QuoteAt(g) :
        /\ g.nodes[i].platform # g.nodes[j].platform
        /\ BindingValue(g.nodes[i]) = BindingValue(g.nodes[j])
        /\ BindingValue(g.nodes[i]) # None
        /\ g.challenge = None \/ BindingValue(g.nodes[i]) = g.challenge

(* A bound graph holds two quotes that answered the challenge.             *)
LEMMA BoundWitness ==
    ASSUME NEW g, Indexed(g), Bound(g)
    PROVE  Witnessed(g)
<1> DEFINE k == FirstIndex(BindingEdges(g))
           e == g.edges[k]
<1>1. BindingEdges(g) \subseteq Nat /\ BindingEdges(g) # {}
  BY DEF Indexed, BindingEdges, Bound
<1>2. k \in BindingEdges(g)
  BY <1>1, FirstIndexIn
<1>3. Binds(g, e)
  BY <1>2 DEF BindingEdges
<1> HIDE DEF k
<1>4. PICK s \in NodeById(g, e.source), t \in NodeById(g, e.target) :
         /\ s \in QuoteAt(g)
         /\ t \in QuoteAt(g)
         /\ g.nodes[s].platform # g.nodes[t].platform
         /\ BindingValue(g.nodes[s]) # None
         /\ BindingValue(g.nodes[s]) = BindingValue(g.nodes[t])
  BY <1>3 DEF Binds
<1>5. SharedValue(g, e) = BindingValue(g.nodes[s])
  BY SharedValueOfSource
<1>6. g.challenge = None \/ SharedValue(g, e) = g.challenge
  BY DEF Bound, k
<1> QED
  BY <1>4, <1>5, <1>6 DEF Witnessed

(* Evidence only grows staler as the clock runs.                           *)
LEMMA FreshnessFalls ==
    ASSUME NEW g, WellFormed(g), NEW t \in Int, NEW u \in Int, t <= u
    PROVE  FreshnessScore[TemporalFreshness(g, u)]
              <= FreshnessScore[TemporalFreshness(g, t)]
<1> DEFINE Old(x) == \E i \in Stamped(g) : x - g.nodes[i].ts >= g.nodes[i].ttl
           Older(x) == \E i \in Stamped(g) :
                          5 * (x - g.nodes[i].ts) >= 4 * g.nodes[i].ttl
<1>0. \A i \in Stamped(g) : g.nodes[i].ts \in Int /\ g.nodes[i].ttl \in Int
  BY DEF WellFormed
<1>1. Old(t) => Old(u)
  BY <1>0
<1>2. Older(t) => Older(u)
  BY <1>0
<1>3. \A x : TemporalFreshness(g, x) =
              IF Old(x) THEN "STALE" ELSE IF Older(x) THEN "AGING" ELSE "FRESH"
  BY DEF TemporalFreshness
<1> HIDE DEF Old, Older
<1>4. /\ FreshnessScore["STALE"] = 0
      /\ FreshnessScore["AGING"] = 12
      /\ FreshnessScore["FRESH"] = 20
  BY DEF FreshnessScore
<1> QED
  BY <1>1, <1>2, <1>3, <1>4

LEMMA FreshnessIsALabel ==
    ASSUME NEW g, NEW t
    PROVE  TemporalFreshness(g, t) \in DOMAIN FreshnessScore
BY DEF TemporalFreshness, FreshnessScore

-----------------------------------------------------------------------------
(* Facts about risk and scope.                                             *)

LEMMA LevelRange ==
    ASSUME NEW g, PlatformsInGraph(g) # {}
    PROVE  AssuranceLevel(g) \in CONFIG_VERIFIED .. DISTRIBUTED_TRUST
BY DEF AssuranceLevel, NONE, CONFIG_VERIFIED, HARDWARE_ATTESTED,
       OPERATIONAL_ASSURANCE, DISTRIBUTED_TRUST

LEMMA BaseRiskType == \A level : BaseRisk(level) \in {MEDIUM, HIGH}
BY DEF BaseRisk

LEMMA ResidualRiskType ==
    ASSUME NEW b \in RiskTiers, NEW A
    PROVE  ResidualRisk(b, A) \in RiskTiers
BY DEF ResidualRisk, RiskTiers, LOW, MEDIUM, HIGH, CRITICAL

(* More attacks never lower the residual risk.                             *)
LEMMA ResidualRiskMonotone ==
    ASSUME NEW b \in RiskTiers, NEW A, NEW B, A \subseteq B
    PROVE  ResidualRisk(b, A) <= ResidualRisk(b, B)
<1> DEFINE Cheap(S) == \E a \in S : \/ a.cost \in CheapCosts
                                    \/ a.fix = "no_mitigation_available"
           Redesign(S) == \E a \in S : a.fix = "hardware_redesign_required"
<1>1. (Cheap(A) => Cheap(B)) /\ (Redesign(A) => Redesign(B)) /\ (B = {} => A = {})
  OBVIOUS
<1>2. \A S : ResidualRisk(b, S) =
         IF S = {} THEN b
         ELSE IF Cheap(S) THEN CRITICAL
         ELSE IF Redesign(S)
         THEN IF b = LOW THEN MEDIUM ELSE IF b = MEDIUM THEN HIGH ELSE CRITICAL
         ELSE IF b = LOW THEN MEDIUM ELSE b
  BY DEF ResidualRisk
<1>3. Cheap({}) = FALSE /\ Redesign({}) = FALSE
  OBVIOUS
<1> HIDE DEF Cheap, Redesign
<1> QED
  BY <1>1, <1>2, <1>3 DEF RiskTiers, LOW, MEDIUM, HIGH, CRITICAL

(* A scope that is no wider puts no more attacks in reach.                 *)
LEMMA InScopeMonotone ==
    ASSUME NEW s, NEW t, NoWider(s, t), NEW pairs
    PROVE  InScopePairs(pairs, s) \subseteq InScopePairs(pairs, t)
BY DEF NoWider, InScopePairs, InScope

-----------------------------------------------------------------------------
(* Sums over sets.  g takes every subset of S to its sum of the weights w. *)
Pick(s) == CHOOSE x \in s : TRUE

Sums(g, w, S) ==
    g = [s \in SUBSET S |-> IF s = {} THEN 0 ELSE w[Pick(s)] + g[s \ {Pick(s)}]]

LEMMA OneLess ==
    ASSUME NEW S, IsFiniteSet(S), NEW s \in SUBSET S, NEW x \in s
    PROVE  /\ IsFiniteSet(s) /\ Cardinality(s) \in Nat
           /\ s \ {x} \in SUBSET S
           /\ Cardinality(s) - 1 \in Nat
           /\ Cardinality(s \ {x}) = Cardinality(s) - 1
<1>1. IsFiniteSet(s) /\ IsFiniteSet(s \ {x})
  BY FS_Subset
<1>2. Cardinality(s \ {x}) = Cardinality(s) - 1
  BY <1>1, FS_RemoveElement
<1>3. Cardinality(s) \in Nat /\ Cardinality(s \ {x}) \in Nat
  BY <1>1, FS_CardinalityType
<1>. QED  BY <1>1, <1>2, <1>3

LEMMA SumExists ==
    ASSUME NEW S, IsFiniteSet(S), NEW w
    PROVE  \E g : Sums(g, w, S)
<1> DEFINE Extend(g) == [s \in SUBSET S |-> IF s = {} THEN 0 ELSE w[Pick(s)] + g[s \ {Pick(s)}]]
           UpTo(g, n) == \A s \in SUBSET S : Cardinality(s) <= n => g[s] = Extend(g)[s]
           Bad == {n \in Nat : ~ \E g : UpTo(g, n)}
<1>1. Bad = {}
  <2> SUFFICES ASSUME Bad # {} PROVE FALSE
    OBVIOUS
  <2>1. PICK m \in Bad : \A n \in Bad : m <= n
    <3>1. Bad \subseteq Nat
      OBVIOUS
    <3> HIDE DEF Bad
    <3>. QED  BY <3>1, LeastIndex
  <2>2. m \in Nat /\ ~ \E g : UpTo(g, m)
    OBVIOUS
  <2>3. \E h : \A s \in SUBSET S : s # {} /\ Cardinality(s) <= m => h[s \ {Pick(s)}] = Extend(h)[s \ {Pick(s)}]
    <3>1. CASE m = 0
      <4>1. ASSUME NEW s \in SUBSET S, s # {} PROVE ~(Cardinality(s) <= m)
        <5>1. PICK x \in s : TRUE
          BY <4>1
        <5>2. Cardinality(s) \in Nat /\ Cardinality(s) - 1 \in Nat
          BY <5>1, OneLess
        <5>. QED  BY <3>1, <5>2
      <4>. QED  BY <4>1
    <3>2. CASE m # 0
      <4>1. m - 1 \in Nat /\ m - 1 \notin Bad
        <5> HIDE DEF Bad
        <5>. QED  BY <2>1, <2>2, <3>2
      <4>2. PICK h : UpTo(h, m - 1)
        BY <4>1
      <4>3. ASSUME NEW s \in SUBSET S, s # {}, Cardinality(s) <= m
            PROVE  h[s \ {Pick(s)}] = Extend(h)[s \ {Pick(s)}]
        <5>1. Pick(s) \in s
          BY <4>3 DEF Pick
        <5>2. s \ {Pick(s)} \in SUBSET S /\ Cardinality(s \ {Pick(s)}) <= m - 1
          BY <2>2, <4>3, <5>1, OneLess
        <5>. QED  BY <4>2, <5>2
      <4>. QED  BY <4>3
    <3>. QED  BY <3>1, <3>2
  <2>4. PICK h : \A s \in SUBSET S : s # {} /\ Cardinality(s) <= m => h[s \ {Pick(s)}] = Extend(h)[s \ {Pick(s)}]
    BY <2>3
  <2>5. UpTo(Extend(h), m)
    <3>1. SUFFICES ASSUME NEW s \in SUBSET S, Cardinality(s) <= m
                   PROVE  Extend(h)[s] = Extend(Extend(h))[s]
      OBVIOUS
    <3>2. CASE s = {}
      BY <3>2
    <3>3. CASE s # {}
      <4>1. Extend(h)[s] = w[Pick(s)] + h[s \ {Pick(s)}]
        BY <3>3
      <4>2. Extend(Extend(h))[s] = w[Pick(s)] + Extend(h)[s \ {Pick(s)}]
        BY <3>3
      <4>. QED  BY <2>4, <3>1, <3>3, <4>1, <4>2
    <3>. QED  BY <3>2, <3>3
  <2>. QED  BY <2>2, <2>5
<1>2. Cardinality(S) \in Nat
  BY FS_CardinalityType
<1>3. PICK g : UpTo(g, Cardinality(S))
  BY <1>1, <1>2
<1>4. \A s \in SUBSET S : g[s] = Extend(g)[s]
  BY <1>3, FS_Subset
<1>5. Extend(Extend(g)) = Extend(g)
  <2>1. ASSUME NEW s \in SUBSET S
        PROVE  (IF s = {} THEN 0 ELSE w[Pick(s)] + Extend(g)[s \ {Pick(s)}])
                  = (IF s = {} THEN 0 ELSE w[Pick(s)] + g[s \ {Pick(s)}])
    <3>1. s \ {Pick(s)} \in SUBSET S
      OBVIOUS
    <3>2. Extend(g)[s \ {Pick(s)}] = g[s \ {Pick(s)}]
      BY <1>4, <3>1
    <3> HIDE DEF Next
    <3>. QED  BY <3>2
  <2>. QED  BY <2>1
<1>. QED  BY <1>5 DEF Sums

LEMMA SumInsert ==
    ASSUME NEW S, IsFiniteSet(S), NEW w \in [S -> Nat], NEW g, Sums(g, w, S),
           NEW s \in SUBSET S
    PROVE  /\ g[s] \in Nat
           /\ s = {} => g[s] = 0
           /\ \A x \in s : g[s \ {x}] \in Nat /\ g[s] = w[x] + g[s \ {x}]
<1> DEFINE Good(t) == g[t] \in Nat /\ \A x \in t : g[t] = w[x] + g[t \ {x}]
           Bad == {n \in Nat : \E t \in SUBSET S : Cardinality(t) = n /\ ~Good(t)}
<1>1. g[{}] = 0
  BY DEF Sums
<1>2. ASSUME NEW t \in SUBSET S, t # {}
      PROVE  Pick(t) \in t /\ g[t] = w[Pick(t)] + g[t \ {Pick(t)}]
  <2>1. Pick(t) \in t
    BY <1>2 DEF Pick
  <2>2. g[t] = w[Pick(t)] + g[t \ {Pick(t)}]
    BY <1>2 DEF Sums
  <2>. QED  BY <2>1, <2>2
<1>3. Bad = {}
  <2> SUFFICES ASSUME Bad # {} PROVE FALSE
    OBVIOUS
  <2>1. PICK m \in Bad : \A n \in Bad : m <= n
    <3>1. Bad \subseteq Nat
      OBVIOUS
    <3> HIDE DEF Bad
    <3>. QED  BY <3>1, LeastIndex
  <2>2. PICK t \in SUBSET S : Cardinality(t) = m /\ ~Good(t)
    OBVIOUS
  <2>3. t # {}
    BY <1>1, <2>2
  <2>4. ASSUME NEW x \in t PROVE Good(t \ {x})
    <3>1. /\ t \ {x} \in SUBSET S /\ m - 1 \in Nat
          /\ Cardinality(t \ {x}) = m - 1
      BY <2>2, OneLess
    <3>2. m - 1 \notin Bad
      BY <2>1, <3>1
    <3>. QED  BY <3>1, <3>2
  <2> DEFINE c == Pick(t)
  <2>5. c \in t /\ g[t] = w[c] + g[t \ {c}]
    BY <1>2, <2>3
  <2>6. w[c] \in Nat
    BY <2>5
  <2>7. g[t] \in Nat
    <3>1. g[t \ {c}] \in Nat
      BY <2>4, <2>5
    <3> HIDE DEF c
    <3>. QED  BY <2>5, <2>6, <3>1
  <2> HIDE DEF c
  <2>8. ASSUME NEW x \in t, x # c PROVE g[t] = w[x] + g[t \ {x}]
    <3>1. g[t \ {c}] = w[x] + g[(t \ {c}) \ {x}]
      BY <2>4, <2>5, <2>8
    <3>2. g[t \ {x}] = w[c] + g[(t \ {x}) \ {c}]
      BY <2>4, <2>5, <2>8
    <3>3. (t \ {c}) \ {x} = (t \ {x}) \ {c}
      OBVIOUS
    <3>4. PICK v : v = g[(t \ {x}) \ {c}]
      OBVIOUS
    <3>5. v \in Nat
      <4>1. Good((t \ {x}) \ {c})
        <5>1. t \ {x} \in SUBSET S /\ c \in t \ {x}
          BY <2>5, <2>8
        <5>2. Cardinality(t \ {x}) = m - 1
          BY <2>2, OneLess
        <5>3. PICK k : k = Cardinality(t \ {x}) - 1
          OBVIOUS
        <5>4. /\ (t \ {x}) \ {c} \in SUBSET S
              /\ Cardinality((t \ {x}) \ {c}) = k
              /\ k \in Nat
          <6>1. PICK u : u = t \ {x}
            OBVIOUS
          <6>2. u \in SUBSET S /\ c \in u
            BY <5>1, <6>1
          <6>3. u \ {c} \in SUBSET S /\ Cardinality(u) - 1 \in Nat
                  /\ Cardinality(u \ {c}) = Cardinality(u) - 1
            BY <6>2, OneLess
          <6>. QED  BY <5>3, <6>1, <6>3
        <5>5. k \notin Bad
          <6>1. m \in Nat /\ k < m
            BY <5>2, <5>3, <5>4
          <6> HIDE DEF Bad
          <6>. QED  BY <2>1, <5>4, <6>1
        <5>. QED  BY <5>4, <5>5
      <4>. QED  BY <3>4, <4>1
    <3>6. w[x] \in Nat /\ w[c] \in Nat
      BY <2>5
    <3>7. g[t] = w[c] + (w[x] + v) /\ g[t \ {x}] = w[c] + v
      BY <2>5, <3>1, <3>2, <3>3, <3>4
    <3>8. w[c] + (w[x] + v) = w[x] + (w[c] + v)
      BY <3>5, <3>6
    <3>. QED  BY <3>7, <3>8
  <2>. QED  BY <2>2, <2>5, <2>7, <2>8
<1>4. ASSUME NEW t \in SUBSET S PROVE Good(t)
  <2>1. Cardinality(t) \in Nat
    BY FS_Subset, FS_CardinalityType
  <2>. QED  BY <1>3, <2>1
<1>5. \A x \in s : g[s \ {x}] \in Nat
  BY <1>4
<1>. QED  BY <1>1, <1>4, <1>5

LEMMA SumMonotone ==
    ASSUME NEW S, IsFiniteSet(S), NEW w \in [S -> Nat], NEW g, Sums(g, w, S),
           NEW T, IsFiniteSet(T), NEW v \in [T -> Nat], NEW h, Sums(h, v, T),
           NEW a \in SUBSET S, NEW b \in SUBSET T, a \subseteq b,
           \A x \in a : w[x] <= v[x]
    PROVE  g[a] <= h[b]
<1> DEFINE Good(s, t) == s \subseteq t /\ (\A x \in s : w[x] <= v[x]) => g[s] <= h[t]
           Bad == {n \in Nat : \E s \in SUBSET S, t \in SUBSET T :
                                 Cardinality(t) = n /\ ~Good(s, t)}
<1>1. Bad = {}
  <2> SUFFICES ASSUME Bad # {} PROVE FALSE
    OBVIOUS
  <2>1. PICK m \in Bad : \A n \in Bad : m <= n
    <3>1. Bad \subseteq Nat
      OBVIOUS
    <3> HIDE DEF Bad
    <3>. QED  BY <3>1, LeastIndex
  <2>2. PICK s \in SUBSET S, t \in SUBSET T : Cardinality(t) = m /\ ~Good(s, t)
    OBVIOUS
  <2>3. s \subseteq t /\ (\A x \in s : w[x] <= v[x]) /\ ~(g[s] <= h[t])
    BY <2>2
  <2>4. g[s] \in Nat /\ h[t] \in Nat
    BY SumInsert
  <2>5. t # {}
    <3>1. s = {} => g[s] = 0
      BY SumInsert
    <3>. QED  BY <2>3, <2>4, <3>1
  <2>6. PICK x \in t : TRUE
    BY <2>5
  <2>7. /\ t \ {x} \in SUBSET T /\ m - 1 \in Nat
        /\ Cardinality(t \ {x}) = m - 1
    BY <2>2, OneLess
  <2>8. m - 1 \notin Bad
    BY <2>1, <2>7
  <2>9. ASSUME NEW r \in SUBSET S, r \subseteq t \ {x}, r \subseteq s PROVE g[r] <= h[t \ {x}]
    BY <2>3, <2>7, <2>8, <2>9
  <2>10. h[t \ {x}] \in Nat /\ h[t] = v[x] + h[t \ {x}] /\ v[x] \in Nat
    <3>1. \A y \in t : h[t \ {y}] \in Nat /\ h[t] = v[y] + h[t \ {y}]
      BY SumInsert
    <3>2. x \in T
      BY <2>6
    <3>. QED  BY <2>6, <3>1, <3>2
  <2>11. CASE x \in s
    <3>1. g[s \ {x}] \in Nat /\ g[s] = w[x] + g[s \ {x}] /\ w[x] \in Nat
      BY <2>11, SumInsert
    <3>2. g[s \ {x}] <= h[t \ {x}]
      BY <2>3, <2>9
    <3>3. w[x] <= v[x]
      BY <2>3, <2>11
    <3>. QED  BY <2>3, <2>10, <3>1, <3>2, <3>3
  <2>12. CASE x \notin s
    <3>1. g[s] <= h[t \ {x}]
      BY <2>3, <2>9, <2>12
    <3>. QED  BY <2>3, <2>4, <2>10, <3>1
  <2>. QED  BY <2>11, <2>12
<1>2. Cardinality(b) \in Nat
  BY FS_Subset, FS_CardinalityType
<1>. QED  BY <1>1, <1>2

LEMMA PenaltySum ==
    ASSUME NEW S, IsFiniteSet(S)
    PROVE  \E g : Sums(g, [x \in S |-> Penalty(x[2])], S) /\ RawPenalty(S) = g[S]
<1> DEFINE w == [x \in S |-> Penalty(x[2])]
           Is(g) == g = [s \in SUBSET S |-> IF s = {} THEN 0
                              ELSE Penalty((CHOOSE x \in s : TRUE)[2])
                                     + g[s \ {CHOOSE x \in s : TRUE}]]
<1>1. ASSUME NEW g PROVE Is(g) <=> Sums(g, w, S)
  <2>1. ASSUME NEW s \in SUBSET S
        PROVE  (IF s = {} THEN 0 ELSE Penalty((CHOOSE x \in s : TRUE)[2])
                                     + g[s \ {CHOOSE x \in s : TRUE}])
                 = (IF s = {} THEN 0 ELSE w[Pick(s)] + g[s \ {Pick(s)}])
    <3>1. CASE s # {}
      <4>1. Pick(s) \in s
        BY <3>1 DEF Pick
      <4>2. w[Pick(s)] = Penalty(Pick(s)[2])
        BY <4>1
      <4>. QED  BY <4>2 DEF Pick
    <3>. QED  BY <3>1
  <2>2. [s \in SUBSET S |-> IF s = {} THEN 0 ELSE Penalty((CHOOSE x \in s : TRUE)[2])
                                     + g[s \ {CHOOSE x \in s : TRUE}]]
          = [s \in SUBSET S |-> IF s = {} THEN 0 ELSE w[Pick(s)] + g[s \ {Pick(s)}]]
    BY <2>1
  <2>. QED  BY <2>2 DEF Sums
<1>2. PICK g : Is(g)
  <2>1. PICK g : Sums(g, w, S)
    BY SumExists
  <2> HIDE DEF Is, w
  <2>. QED  BY <1>1, <2>1
<1>3. Is(CHOOSE h : Is(h))
  BY <1>2
<1>4. RawPenalty(S) = (CHOOSE h : Is(h))[S]
  BY DEF RawPenalty, MapThenSumSet, MapThenFoldSet
<1>. QED  BY <1>1, <1>3, <1>4

-----------------------------------------------------------------------------
(* Rounding.                                                               *)

LEMMA Division ==
    ASSUME NEW n \in Int, NEW d \in Nat, d > 0
    PROVE  /\ n \div d \in Int
           /\ n % d \in 0 .. d - 1
           /\ n = (d * (n \div d)) + (n % d)
  OBVIOUS

LEMMA RoundingBounds ==
    ASSUME NEW n \in Int, NEW d \in Nat, d > 0
    PROVE  /\ RoundHalfEven(n, d) \in Int
           /\ 2 * n - d <= 2 * (d * RoundHalfEven(n, d))
           /\ 2 * (d * RoundHalfEven(n, d)) <= 2 * n + d
<1> DEFINE q == n \div d
           r == n % d
<1>1. q \in Int /\ r \in 0 .. d - 1 /\ n = (d * q) + r
  BY Division
<1>2. RoundHalfEven(n, d) = IF 2 * r > d \/ (2 * r = d /\ q % 2 = 1) THEN q + 1 ELSE q
  BY DEF RoundHalfEven
<1> HIDE DEF q, r
<1>3. d * (q + 1) = d * q + d
  BY <1>1
<1>4. PICK m : m = d * q
  OBVIOUS
<1>5. m \in Int
  BY <1>1, <1>4
<1>6. CASE RoundHalfEven(n, d) = q /\ 2 * r <= d
  BY <1>1, <1>4, <1>5, <1>6
<1>7. CASE RoundHalfEven(n, d) = q + 1 /\ 2 * r >= d
  BY <1>1, <1>3, <1>4, <1>5, <1>7
<1>. QED BY <1>1, <1>2, <1>6, <1>7

LEMMA ProductMonotone ==
    ASSUME NEW d \in Nat, NEW a \in Int, NEW b \in Int, a <= b
    PROVE  d * a <= d * b
<1>1. PICK c \in Nat : b = a + c
  <2>1. b - a \in Nat /\ b = a + (b - a)
    OBVIOUS
  <2>. QED  BY <2>1
<1>2. d * b = d * a + d * c
  BY <1>1
<1>3. d * c \in Nat /\ d * a \in Int
  OBVIOUS
<1>. QED  BY <1>2, <1>3

\* A larger number is not rounded to a smaller one.
LEMMA RoundingNumerator ==
    ASSUME NEW n \in Int, NEW m \in Int, n <= m, NEW d \in Nat, d > 0
    PROVE  RoundHalfEven(n, d) <= RoundHalfEven(m, d)
<1>1. PICK a, b : a = RoundHalfEven(n, d) /\ b = RoundHalfEven(m, d)
  OBVIOUS
<1>2. a \in Int /\ b \in Int
  BY <1>1, RoundingBounds
<1>3. 2 * (d * a) <= 2 * n + d /\ 2 * m - d <= 2 * (d * b)
  BY <1>1, RoundingBounds
<1>4. SUFFICES ASSUME b + 1 <= a PROVE FALSE
  BY <1>1, <1>2
<1>5. d * (b + 1) <= d * a /\ d * (b + 1) = d * b + d
  BY <1>2, <1>4, ProductMonotone
<1>6. PICK x, y : x = d * a /\ y = d * b
  OBVIOUS
<1>7. x \in Int /\ y \in Int
  BY <1>2, <1>6
<1>8. n = m
  BY <1>3, <1>5, <1>6, <1>7
<1>. QED  BY <1>1, <1>2, <1>4, <1>8

\* Nor is a fraction rounded up because its divisor grew.
LEMMA RoundingDivisor ==
    ASSUME NEW n \in Nat, NEW d \in Nat, d > 0, NEW e \in Nat, d <= e
    PROVE  RoundHalfEven(n, e) <= RoundHalfEven(n, d)
<1>1. PICK a, b : a = RoundHalfEven(n, e) /\ b = RoundHalfEven(n, d)
  OBVIOUS
<1>2. a \in Int /\ b \in Int /\ e > 0
  BY <1>1, RoundingBounds
<1>3. 2 * (e * a) <= 2 * n + e /\ 2 * n - d <= 2 * (d * b)
  BY <1>1, <1>2, RoundingBounds
<1>4. b >= 0
  <2>1. SUFFICES ASSUME b <= -1 PROVE FALSE
    BY <1>2
  <2>2. d * b <= d * (-1)
    BY <1>2, <2>1, ProductMonotone
  <2>3. PICK x : x = d * b
    OBVIOUS
  <2>4. x \in Int /\ x <= -d
    BY <1>2, <2>2, <2>3
  <2>. QED  BY <1>3, <2>3, <2>4
<1>5. SUFFICES ASSUME b + 1 <= a PROVE FALSE
  BY <1>1, <1>2
<1>6. e * (b + 1) <= e * a /\ e * (b + 1) = e * b + e
  BY <1>2, <1>5, ProductMonotone
<1>7. d * b <= e * b
  BY <1>2, <1>4, ProductMonotone
<1>8. PICK x, y, z : x = e * a /\ y = e * b /\ z = d * b
  OBVIOUS
<1>9. x \in Int /\ y \in Int /\ z \in Int
  BY <1>2, <1>8
<1>10. 2 * x <= 2 * n + e /\ 2 * n - d <= 2 * z /\ y + e <= x /\ z <= y
  BY <1>3, <1>6, <1>7, <1>8
<1>11. d = e
  BY <1>9, <1>10
<1>. QED  BY <1>1, <1>2, <1>5, <1>11

-----------------------------------------------------------------------------
(* Penalties.                                                              *)
LEMMA PenaltyIsNat ==
    ASSUME NEW a, a.coverage \in Nat
    PROVE  Penalty(a) \in Nat
<1>1. CostPenalty(a.cost) \in Nat /\ DifficultyPenalty(a.fix) \in Nat
  BY DEF CostPenalty, DifficultyPenalty
<1>2. PICK n : n = (CostPenalty(a.cost) + DifficultyPenalty(a.fix)) * a.coverage
  OBVIOUS
<1>3. n \in Nat
  BY <1>1, <1>2
<1>4. /\ RoundHalfEven(n, 100) \in Int
      /\ 2 * n - 100 <= 2 * (100 * RoundHalfEven(n, 100))
  BY <1>3, RoundingBounds
<1>5. RoundHalfEven(n, 100) >= 0
  BY <1>3, <1>4
<1>. QED  BY <1>2, <1>4, <1>5 DEF Penalty

LEMMA RawPenaltyMonotone ==
    ASSUME NEW B, IsFiniteSet(B), \A x \in B : x[2].coverage \in Nat,
           NEW A, A \subseteq B
    PROVE  /\ RawPenalty(A) \in Nat
           /\ RawPenalty(B) \in Nat
           /\ RawPenalty(A) <= RawPenalty(B)
<1>1. IsFiniteSet(A)
  BY FS_Subset
<1> DEFINE w == [x \in A |-> Penalty(x[2])]
           v == [x \in B |-> Penalty(x[2])]
<1>2. w \in [A -> Nat] /\ v \in [B -> Nat]
  BY PenaltyIsNat
<1>3. PICK g : Sums(g, w, A) /\ RawPenalty(A) = g[A]
  BY <1>1, PenaltySum
<1>4. PICK h : Sums(h, v, B) /\ RawPenalty(B) = h[B]
  BY PenaltySum
<1>5. \A x \in A : w[x] <= v[x]
  BY <1>2
<1> HIDE DEF w, v
<1>6. g[A] \in Nat /\ h[B] \in Nat
  BY <1>1, <1>2, <1>3, <1>4, SumInsert
<1>7. g[A] <= h[B]
  BY <1>1, <1>2, <1>3, <1>4, <1>5, SumMonotone
<1>. QED  BY <1>3, <1>4, <1>6, <1>7

-----------------------------------------------------------------------------
(* The score.                                                              *)
Shares(c) == c # None => c.total \in Nat \ {0} /\ c.satisfied \in 0 .. c.total

PenaltyOf(in) == EffectivePenalty(in.graph, in.db, in.applicable, in.scope)

ComplianceOf(c) == IF c # None THEN CompliancePoints(c) ELSE 0

Threat(penalty, profile) ==
    RoundHalfEven(HalfLife * profile.threat, HalfLife + penalty)

\* The four dimensions that are always there.
Earned(in, profile) ==
    RoundHalfEven(AttestationPoints(in.level) * profile.attestation, 20)
      + RoundHalfEven(TrustPoints(in.graph, in.resolutions) * profile.trust, 20)
      + Threat(PenaltyOf(in), profile)
      + RoundHalfEven(FreshnessScore[in.freshness] * profile.freshness, 20)

Points(in, profile) ==
    Earned(in, profile) + RoundHalfEven(ComplianceOf(in.conformance) * profile.compliance, 20)

Total(points, present) ==
    GreaterOf(0, LesserOf(100, RoundHalfEven(100 * points, present)))

LEMMA ScoreParts ==
    ASSUME NEW in, NEW profile
    PROVE  /\ Score(in, profile).total
                = Total(Points(in, profile), PresentWeight(profile, in.conformance # None))
           /\ Score(in, profile).platformScore
                = RoundHalfEven(100 * HalfLife, HalfLife + PenaltyOf(in))
           /\ Score(in, profile).subscores.threat = Threat(PenaltyOf(in), profile)
BY DEF Score, Total, Points, Earned, Threat, PenaltyOf, ComplianceOf

\* in and out may differ in what they are held to and in the trust they earn.
Alike(in, out) ==
    /\ in.level = out.level /\ in.level \in Nat
    /\ in.freshness = out.freshness /\ in.freshness \in DOMAIN FreshnessScore
    /\ in.conformance = out.conformance /\ Shares(in.conformance)

LEMMA ScoreOrder ==
    ASSUME NEW in, NEW out, Alike(in, out), NEW profile \in {Profiles[f] : f \in DOMAIN Profiles},
           PenaltyOf(in) \in Nat, PenaltyOf(out) \in Nat,
           PenaltyOf(out) <= PenaltyOf(in),
           TrustPoints(in.graph, in.resolutions) \in Nat,
           TrustPoints(out.graph, out.resolutions) \in Nat,
           TrustPoints(in.graph, in.resolutions) <= TrustPoints(out.graph, out.resolutions)
    PROVE  /\ Score(in, profile).total <= Score(out, profile).total
           /\ Score(in, profile).platformScore <= Score(out, profile).platformScore
           /\ Score(in, profile).subscores.threat <= Score(out, profile).subscores.threat
<1>1. /\ profile.attestation \in Nat /\ profile.trust \in Nat /\ profile.threat \in Nat
      /\ profile.freshness \in Nat /\ profile.compliance \in Nat
      /\ \A judged \in BOOLEAN : PresentWeight(profile, judged) \in Nat \ {0}
  BY DEF Profiles, PresentWeight
<1>2. Threat(PenaltyOf(in), profile) <= Threat(PenaltyOf(out), profile)
  <2>1. HalfLife * profile.threat \in Nat
    BY <1>1 DEF HalfLife
  <2>. QED  BY <2>1, RoundingDivisor DEF Threat, HalfLife
<1>3. RoundHalfEven(100 * HalfLife, HalfLife + PenaltyOf(in))
        <= RoundHalfEven(100 * HalfLife, HalfLife + PenaltyOf(out))
  BY RoundingDivisor DEF HalfLife
<1>4. PICK m, n : /\ m = TrustPoints(in.graph, in.resolutions)
                  /\ n = TrustPoints(out.graph, out.resolutions)
  OBVIOUS
<1>5. /\ m * profile.trust \in Int /\ n * profile.trust \in Int
      /\ m * profile.trust <= n * profile.trust
  <2>1. profile.trust * m <= profile.trust * n
    BY <1>1, <1>4, ProductMonotone
  <2>. QED  BY <1>1, <1>4, <2>1
<1>6. /\ RoundHalfEven(m * profile.trust, 20) <= RoundHalfEven(n * profile.trust, 20)
      /\ RoundHalfEven(m * profile.trust, 20) \in Int
      /\ RoundHalfEven(n * profile.trust, 20) \in Int
  <2>1. PICK x, y : x = m * profile.trust /\ y = n * profile.trust
    OBVIOUS
  <2>2. x \in Int /\ y \in Int /\ x <= y
    BY <1>5, <2>1
  <2>3. /\ RoundHalfEven(x, 20) <= RoundHalfEven(y, 20)
        /\ RoundHalfEven(x, 20) \in Int
        /\ RoundHalfEven(y, 20) \in Int
    BY <2>2, RoundingNumerator, RoundingBounds
  <2>. QED  BY <2>1, <2>3
<1>7. /\ RoundHalfEven(AttestationPoints(in.level) * profile.attestation, 20) \in Int
      /\ RoundHalfEven(FreshnessScore[in.freshness] * profile.freshness, 20) \in Int
      /\ Threat(PenaltyOf(in), profile) \in Int
      /\ Threat(PenaltyOf(out), profile) \in Int
  <2>1. AttestationPoints(in.level) * profile.attestation \in Int
    BY <1>1 DEF Alike, AttestationPoints, LesserOf
  <2>2. FreshnessScore[in.freshness] * profile.freshness \in Int
    BY <1>1 DEF Alike, FreshnessScore
  <2>3. HalfLife * profile.threat \in Int
    BY <1>1 DEF HalfLife
  <2>4. ASSUME NEW k \in Int, NEW d \in Nat, d > 0 PROVE RoundHalfEven(k, d) \in Int
    BY <2>4, RoundingBounds
  <2>5. /\ HalfLife + PenaltyOf(in) \in Nat /\ HalfLife + PenaltyOf(in) > 0
        /\ HalfLife + PenaltyOf(out) \in Nat /\ HalfLife + PenaltyOf(out) > 0
    BY DEF HalfLife
  <2>6. Threat(PenaltyOf(in), profile) \in Int /\ Threat(PenaltyOf(out), profile) \in Int
    BY <2>3, <2>4, <2>5 DEF Threat
  <2>. QED  BY <2>1, <2>2, <2>4, <2>6
<1>8. RoundHalfEven(ComplianceOf(in.conformance) * profile.compliance, 20) \in Int
  <2>1. ComplianceOf(in.conformance) \in Int
    <3>1. CASE in.conformance # None
      <4>1. /\ 20 * in.conformance.satisfied \in Int
            /\ in.conformance.total \in Nat /\ in.conformance.total > 0
        BY <3>1 DEF Alike, Shares
      <4>. QED  BY <3>1, <4>1, RoundingBounds DEF ComplianceOf, CompliancePoints
    <3>. QED  BY <3>1 DEF ComplianceOf
  <2>2. ComplianceOf(in.conformance) * profile.compliance \in Int
    BY <1>1, <2>1
  <2>. QED  BY <2>2, RoundingBounds
<1>9. /\ Points(in, profile) \in Int /\ Points(out, profile) \in Int
      /\ Points(in, profile) <= Points(out, profile)
  BY <1>2, <1>4, <1>6, <1>7, <1>8 DEF Alike, Points, Earned
<1>10. ASSUME NEW k \in Int, NEW l \in Int, k <= l, NEW d \in Nat \ {0}
       PROVE  Total(k, d) <= Total(l, d)
  <2>1. /\ RoundHalfEven(100 * k, d) <= RoundHalfEven(100 * l, d)
        /\ RoundHalfEven(100 * k, d) \in Int
        /\ RoundHalfEven(100 * l, d) \in Int
    BY <1>10, RoundingNumerator, RoundingBounds
  <2>. QED  BY <2>1 DEF Total, GreaterOf, LesserOf
<1>11. Total(Points(in, profile), PresentWeight(profile, in.conformance # None))
         <= Total(Points(out, profile), PresentWeight(profile, out.conformance # None))
  BY <1>1, <1>9, <1>10 DEF Alike
<1>. QED  BY <1>2, <1>3, <1>11, ScoreParts

-----------------------------------------------------------------------------
(***************************************************************************)
(* The inductive invariant.  None of the properties is inductive: the      *)
(* verdict copies the draft, so each needs to know how the draft relates   *)
(* to the request (which never changes) and to the clock (which only runs  *)
(* forward).                                                               *)
(***************************************************************************)
RiskOf(r, level) == ResidualRisk(BaseRisk(level), {x[2] : x \in Applicable(r)})

ClockInv ==
    /\ now \in 0 .. Horizon
    /\ reference \in ReferenceStates
    /\ request.graph \in Graphs

DraftInv ==
    draft # None =>
        /\ PlatformsInGraph(request.graph) # {}
        /\ draft.level = AssuranceLevel(request.graph)
        /\ draft.risk = RiskOf(request, draft.level)
        /\ draft.freshness \in DOMAIN FreshnessScore
        /\ FreshnessScore[TemporalFreshness(request.graph, now)]
              <= FreshnessScore[draft.freshness]

VerdictInv ==
    /\ verdict # None =>
          \/ verdict.level = NONE
          \/ draft # None /\ verdict.level = draft.level
    /\ Scored => /\ draft # None
                 /\ verdict.level = draft.level
                 /\ verdict.risk = draft.risk
                 /\ verdict.label = draft.freshness

IInv == ClockInv /\ DraftInv /\ VerdictInv

LEMMA InitIInv == Init => IInv
<1> SUFFICES ASSUME Init PROVE IInv
  OBVIOUS
<1>1. ClockInv
  BY HorizonIsNat DEF Init, ClockInv, Graphs
<1>2. DraftInv /\ VerdictInv
  BY DEF Init, DraftInv, VerdictInv, Scored
<1> QED
  BY <1>1, <1>2 DEF IInv

LEMMA NextIInv == IInv /\ [Next]_vars => IInv'
<1> SUFFICES ASSUME IInv, [Next]_vars PROVE IInv'
  OBVIOUS
<1> USE DEF IInv
<1>1. CASE Tick
  <2>1. ClockInv' /\ VerdictInv'
    BY <1>1, HorizonIsNat DEF Tick, ClockInv, VerdictInv, Scored
  <2>2. ASSUME draft # None
        PROVE  FreshnessScore[TemporalFreshness(request.graph, now + 1)]
                 <= FreshnessScore[draft.freshness]
    <3>1. WellFormed(request.graph) /\ now \in Int /\ now + 1 \in Int /\ now <= now + 1
      BY GraphsWellFormed, HorizonIsNat DEF ClockInv
    <3>2. FreshnessScore[TemporalFreshness(request.graph, now + 1)]
            <= FreshnessScore[TemporalFreshness(request.graph, now)]
      BY <3>1, FreshnessFalls
    <3>3. FreshnessScore[TemporalFreshness(request.graph, now)]
            <= FreshnessScore[draft.freshness]
      BY <2>2 DEF DraftInv
    <3>4. /\ TemporalFreshness(request.graph, now) \in DOMAIN FreshnessScore
          /\ TemporalFreshness(request.graph, now + 1) \in DOMAIN FreshnessScore
          /\ draft.freshness \in DOMAIN FreshnessScore
      BY <2>2, FreshnessIsALabel DEF DraftInv
    <3>5. \A f \in DOMAIN FreshnessScore : FreshnessScore[f] \in Int
      BY DEF FreshnessScore
    <3> QED
      BY <3>2, <3>3, <3>4, <3>5
  <2>3. DraftInv'
    BY <1>1, <2>2 DEF Tick, DraftInv, RiskOf, Applicable
  <2> QED
    BY <2>1, <2>3
<1>2. ASSUME NEW p \in Platforms \ NonSvnPlatforms, NEW v \in References,
              UpdateReference(p, v)
      PROVE  IInv'
  <2>1. ClockInv'
    BY <1>2 DEF UpdateReference, ClockInv, ReferenceStates
  <2>2. DraftInv' /\ VerdictInv'
    BY <1>2 DEF UpdateReference, DraftInv, VerdictInv, Scored, RiskOf, Applicable
  <2> QED
    BY <2>1, <2>2
<1>3. CASE RefuseEvidence
  <2>1. ClockInv' /\ DraftInv'
    BY <1>3 DEF RefuseEvidence, ClockInv, DraftInv, RiskOf, Applicable
  <2>2. verdict'.level = NONE /\ verdict'.score = None
    BY <1>3 DEF RefuseEvidence
  <2>3. VerdictInv'
    BY <2>2 DEF VerdictInv, Scored
  <2> QED
    BY <2>1, <2>3
<1>4. CASE Judge
  <2>1. ClockInv' /\ VerdictInv'
    BY <1>4 DEF Judge, ClockInv, VerdictInv, Scored
  <2>2. /\ draft'.level = AssuranceLevel(request.graph)
        /\ draft'.risk = RiskOf(request, draft'.level)
        /\ draft'.freshness = TemporalFreshness(request.graph, now)
        /\ PlatformsInGraph(request.graph) # {}
        /\ request' = request /\ now' = now
    BY <1>4 DEF Judge, Draft, RiskOf
  <2>3. \A f \in DOMAIN FreshnessScore : FreshnessScore[f] <= FreshnessScore[f]
    BY DEF FreshnessScore
  <2>4. DraftInv'
    BY <2>2, <2>3, FreshnessIsALabel DEF DraftInv, RiskOf, Applicable
  <2> QED
    BY <2>1, <2>4
<1>5. CASE ScoreEvidence
  <2>1. ClockInv' /\ DraftInv'
    BY <1>5 DEF ScoreEvidence, ClockInv, DraftInv, RiskOf, Applicable
  <2>2. /\ draft' = draft /\ draft # None
        /\ verdict'.level = draft.level
        /\ verdict'.risk = draft.risk
        /\ verdict'.label = draft.freshness
    BY <1>5 DEF ScoreEvidence
  <2>3. VerdictInv'
    BY <2>2 DEF VerdictInv, Scored
  <2> QED
    BY <2>1, <2>3
<1>6. CASE UNCHANGED vars
  BY <1>6 DEF vars, ClockInv, DraftInv, VerdictInv, Scored, RiskOf, Applicable
<1> QED
  BY <1>1, <1>2, <1>3, <1>4, <1>5, <1>6 DEF Next

LEMMA IInvAlways == Spec => []IInv
BY InitIInv, NextIInv, PTL DEF Spec

-----------------------------------------------------------------------------
(* A draft and a verdict are what compute_assurance_level may build: a     *)
(* level, a tier and a label in range, repeated unchanged by the verdict.  *)
THEOREM TypeCorrect == Spec => []TypeOK
<1>1. IInv => TypeOK
  <2> SUFFICES ASSUME IInv PROVE TypeOK
    OBVIOUS
  <2> USE DEF IInv
  <2>1. ASSUME draft # None
        PROVE  /\ draft.level \in CONFIG_VERIFIED .. DISTRIBUTED_TRUST
               /\ draft.risk \in RiskTiers
               /\ draft.freshness \in DOMAIN FreshnessScore
    <3>1. draft.level \in CONFIG_VERIFIED .. DISTRIBUTED_TRUST
      BY <2>1, LevelRange DEF DraftInv
    <3>2. BaseRisk(draft.level) \in RiskTiers
      BY BaseRiskType DEF RiskTiers, LOW, MEDIUM, HIGH, CRITICAL
    <3>3. draft.risk \in RiskTiers
      BY <2>1, <3>2, ResidualRiskType DEF DraftInv, RiskOf
    <3> QED
      BY <2>1, <3>1, <3>3 DEF DraftInv
  <2>2. verdict # None => verdict.level \in NONE .. DISTRIBUTED_TRUST
    BY <2>1 DEF VerdictInv, NONE, CONFIG_VERIFIED, DISTRIBUTED_TRUST
  <2> QED
    BY <2>1, <2>2 DEF TypeOK, ClockInv, VerdictInv
<1> QED
  BY <1>1, IInvAlways, PTL

(* Level 4 is only ever given to evidence with two quotes of different     *)
(* platforms that answered one challenge, the issued one if there is one,  *)
(* a build provenance, and debug mode disabled in every quote              *)
(* (compute_assurance_level).                                              *)
THEOREM DistributedTrustSound == Spec => []DistributedTrustIsEarned
<1>1. IInv => DistributedTrustIsEarned
  <2> SUFFICES ASSUME IInv, verdict # None, verdict.level = DISTRIBUTED_TRUST
               PROVE  LET g == request.graph
                      IN  /\ Witnessed(g)
                          /\ HasBuildProvenance(g)
                          /\ \A i \in QuoteAt(g) : g.nodes[i].debug = TRUE
    BY DEF DistributedTrustIsEarned, Witnessed
  <2>1. AssuranceLevel(request.graph) = DISTRIBUTED_TRUST
    BY DEF IInv, VerdictInv, DraftInv, NONE, DISTRIBUTED_TRUST
  <2>2. /\ AllQuotesDebugDisabled(request.graph)
        /\ HasBuildProvenance(request.graph)
        /\ Bound(request.graph)
    BY <2>1 DEF AssuranceLevel, NONE, CONFIG_VERIFIED, HARDWARE_ATTESTED,
                OPERATIONAL_ASSURANCE, DISTRIBUTED_TRUST
  <2>3. WellFormed(request.graph)
    BY GraphsWellFormed DEF IInv, ClockInv
  <2>4. Witnessed(request.graph)
    BY <2>2, <2>3, BoundWitness DEF WellFormed
  <2> QED
    BY <2>2, <2>4 DEF AllQuotesDebugDisabled
<1> QED
  BY <1>1, IInvAlways, PTL

(* The freshness the score is computed from never beats the label, however *)
(* far the clock runs between the two readings.                            *)
THEOREM ScoreNotFresher == Spec => []ScoreNeverFresherThanLabel
<1>1. IInv => ScoreNeverFresherThanLabel
  BY DEF IInv, VerdictInv, DraftInv, ScoreNeverFresherThanLabel
<1> QED
  BY <1>1, IInvAlways, PTL

(* For every attack database and every pair of scopes, preset or custom:   *)
(* the residual risk is no lower under the scope that reaches more.        *)
THEOREM WiderScopeSound == Spec => []WiderScopeNeverLowersRisk
<1>1. IInv => WiderScopeNeverLowersRisk
  <2> SUFFICES ASSUME IInv, Scored,
                      NEW s \in Scopes \cup Presets, NoWider(request.scope, s)
               PROVE  verdict.risk <= RiskUnder(s)
    BY DEF WiderScopeNeverLowersRisk
  <2> DEFINE b == BaseRisk(verdict.level)
             A == {x[2] : x \in Applicable(request)}
             B == {x[2] : x \in PairsUnder(s)}
  <2>1. verdict.risk = ResidualRisk(b, A)
    BY DEF IInv, VerdictInv, DraftInv, RiskOf
  <2>2. Applicable(request) \subseteq PairsUnder(s)
    BY InScopeMonotone DEF Applicable, PairsUnder, ApplicablePairs
  <2>3. A \subseteq B
    BY <2>2
  <2>4. b \in RiskTiers
    BY BaseRiskType DEF RiskTiers, LOW, MEDIUM, HIGH, CRITICAL
  <2> HIDE DEF b, A, B
  <2>5. ResidualRisk(b, A) <= ResidualRisk(b, B)
    BY <2>3, <2>4, ResidualRiskMonotone
  <2> QED
    BY <2>1, <2>5 DEF RiskUnder, b, B
<1> QED
  BY <1>1, IInvAlways, PTL
-----------------------------------------------------------------------------
(***************************************************************************)
(* What the verdict records.  The draft is of a request that never         *)
(* changes; the score is of the clock and the reference database as they   *)
(* were when it was taken, and both stand still from then on.              *)
(***************************************************************************)
DraftRecord ==
    draft # None =>
        /\ draft.applicable = Applicable(request)
        /\ draft.excluded = ExcludedNames(request.graph, request.db,
                                          request.configured, request.scope)
        /\ draft.known = KnownNames(request.graph, request.db)
        /\ draft.counted = KnownInScopeNames(request.graph, request.db, request.scope)

VerdictRecord ==
    Scored =>
        /\ draft # None
        /\ verdict.attacks = draft.applicable
        /\ verdict.excluded = draft.excluded
        /\ verdict.known = draft.known
        /\ verdict.counted = draft.counted
        /\ verdict.scope = ScopeDescription(request.scope)
        /\ verdict.score = Score(ScoreInput(request, draft, now, reference),
                                 Profiles[request.profile])

RequestShape(r) ==
    {"graph", "db", "scope", "conformance", "configured", "live"} \subseteq DOMAIN r

RecordInv ==
    /\ request.db \in Databases
    /\ request.scope \in Scopes
    /\ request.conformance \in Conformances
    /\ request.profile \in ProfileNames
    /\ request.live \in Feeds
    /\ RequestShape(request)
    /\ DraftRecord
    /\ VerdictRecord

LEMMA RecordInvAlways == Spec => []RecordInv
<1>1. Init => RecordInv
  BY RequestsAreRecords
     DEF Init, RecordInv, RequestShape, DraftRecord, VerdictRecord, Scored,
         Databases, Conformances, ProfileNames, Feeds
<1>2. ASSUME RecordInv, [Next]_vars
      PROVE  RecordInv'
  <2>1. request' = request
    BY <1>2 DEF Next, vars, Tick, UpdateReference, RefuseEvidence, Judge, ScoreEvidence
  <2>2. /\ request'.db \in Databases /\ request'.scope \in Scopes
        /\ request'.conformance \in Conformances /\ request'.profile \in ProfileNames
        /\ request'.live \in Feeds /\ RequestShape(request')
    BY <1>2, <2>1 DEF RecordInv
  <2>3. CASE \/ Tick
            \/ \E p \in Platforms \ NonSvnPlatforms, v \in References : UpdateReference(p, v)
    <3>1. draft' = draft /\ verdict' = None
      BY <2>3 DEF Tick, UpdateReference
    <3>2. DraftRecord'
      BY <1>2, <2>1, <3>1 DEF RecordInv, DraftRecord, Applicable
    <3>3. VerdictRecord'
      BY <3>1 DEF VerdictRecord, Scored
    <3>. QED  BY <2>2, <3>2, <3>3 DEF RecordInv
  <2>4. CASE RefuseEvidence
    <3>1. draft' = draft /\ verdict'.score = None
      BY <2>4 DEF RefuseEvidence
    <3>2. DraftRecord'
      BY <1>2, <2>1, <3>1 DEF RecordInv, DraftRecord, Applicable
    <3>3. VerdictRecord'
      BY <3>1 DEF VerdictRecord, Scored
    <3>. QED  BY <2>2, <3>2, <3>3 DEF RecordInv
  <2>5. CASE Judge
    <3>1. draft' = Draft(request, reference, now) /\ verdict' = None
      BY <2>5 DEF Judge
    <3>2. DraftRecord'
      BY <2>1, <3>1 DEF DraftRecord, Draft, Applicable
    <3>3. VerdictRecord'
      BY <3>1 DEF VerdictRecord, Scored
    <3>. QED  BY <2>2, <3>2, <3>3 DEF RecordInv
  <2>6. CASE ScoreEvidence
    <3>1. DraftRecord'
      BY <1>2, <2>1, <2>6 DEF ScoreEvidence, RecordInv, DraftRecord, Applicable
    <3>2. VerdictRecord'
      <4>1. draft # None /\ draft' = draft /\ now' = now /\ reference' = reference
        BY <2>6 DEF ScoreEvidence
      <4>2. /\ verdict'.attacks = draft.applicable
            /\ verdict'.excluded = draft.excluded
            /\ verdict'.known = draft.known
            /\ verdict'.counted = draft.counted
            /\ verdict'.scope = ScopeDescription(request.scope)
            /\ verdict'.score = Score(ScoreInput(request, draft, now, reference),
                                      Profiles[request.profile])
        BY <2>6 DEF ScoreEvidence
      <4>3. ScoreInput(request, draft, now, reference)' = ScoreInput(request, draft, now, reference)
        BY <2>1, <4>1 DEF ScoreInput
      <4>. QED  BY <2>1, <4>1, <4>2, <4>3 DEF VerdictRecord
    <3>. QED  BY <2>2, <3>1, <3>2 DEF RecordInv
  <2>7. CASE UNCHANGED vars
    BY <1>2, <2>7 DEF vars, RecordInv, DraftRecord, VerdictRecord, Scored, Applicable
  <2>. QED  BY <1>2, <2>3, <2>4, <2>5, <2>6, <2>7 DEF Next
<1>. QED  BY <1>1, <1>2, PTL DEF Spec

\* An attack that could hit a platform and is not mitigated on it is among the pairs:
\* a platform with such an attack is not taken for patched.
LEMMA UnmitigatedIsPaired ==
    ASSUME NEW g, NEW db, NEW configured,
           NEW p \in PlatformsInGraph(g), NEW a \in db, p \in a.platforms,
           ~a.patched,
           FirstQuote(g, p).tcb # None => ~PatchedBySvn(a, p, FirstQuote(g, p).tcb)
    PROVE  <<p, a>> \in UnmitigatedPairs(g, db, configured)
<1>. DEFINE v == FirstQuote(g, p).tcb
<1>1. a \in Unmitigated(db, p, v, FALSE)
  BY DEF Unmitigated, AttacksOn
<1>2. ~FirmwarePatched(db, p, v, configured)
  BY <1>1 DEF FirmwarePatched
<1>3. a \in Unmitigated(db, p, v, FirmwarePatched(db, p, v, configured))
  BY <1>1, <1>2 DEF Unmitigated
<1>. QED  BY <1>3 DEF UnmitigatedPairs

\* Conversely, a pair is of an attack on a platform of the evidence.
LEMMA PairsAreAttacks ==
    ASSUME NEW g, NEW db, NEW configured, NEW x \in UnmitigatedPairs(g, db, configured)
    PROVE  x[1] \in PlatformsInGraph(g) /\ x[2] \in AttacksOn(db, x[1]) /\ x[2] \in db
<1>1. PICK p \in PlatformsInGraph(g) :
          x \in {p} \X Unmitigated(db, p, FirstQuote(g, p).tcb,
                                   FirmwarePatched(db, p, FirstQuote(g, p).tcb, configured))
  BY DEF UnmitigatedPairs
<1>. QED  BY <1>1 DEF Unmitigated, AttacksOn

(* Every known attack counted, or is named as excluded, or is mitigated    *)
(* wherever it could hit, for every database whose names are unique        *)
(* (_known_attack_count, _collect_out_of_scope_attack_names).              *)
THEOREM AttacksAccountedFor == Spec => []EveryAttackAccountedFor
<1>1. RecordInv => EveryAttackAccountedFor
  <2>. SUFFICES ASSUME RecordInv, Scored
                PROVE  EveryAttackAccountedFor
    BY DEF EveryAttackAccountedFor
  <2>. DEFINE g == request.graph
              db == request.db
              U == UnmitigatedPairs(g, db, request.configured)
              A == Applicable(request)
              counted == {x[2].name : x \in A}
              mitigated(a) == \A p \in PlatformsInGraph(g) \cap a.platforms :
                                 \/ a.patched
                                 \/ /\ FirstQuote(g, p).tcb # None
                                    /\ PatchedBySvn(a, p, FirstQuote(g, p).tcb)
  <2>1. /\ verdict.attacks = A
        /\ verdict.excluded = {x[2].name : x \in U \ A}
        /\ verdict.known = KnownNames(g, db)
        /\ verdict.counted = KnownInScopeNames(g, db, request.scope)
    BY DEF RecordInv, DraftRecord, VerdictRecord, ExcludedNames, Applicable
  <2>2. \A x \in U : x[1] \in PlatformsInGraph(g) /\ x[2] \in AttacksOn(db, x[1]) /\ x[2] \in db
    BY PairsAreAttacks
  <2>3. \A a, b \in db : a.name = b.name => a = b
    BY NamesIdentifyAttacks DEF RecordInv
  <2>4. \A x : x \in A <=> x \in U /\ InScope(x[2], request.scope)
    BY DEF Applicable, ApplicablePairs, InScopePairs
  <2>. HIDE DEF U, A
  <2>5. counted \cap verdict.excluded = {}
    <3>. SUFFICES ASSUME NEW x \in A, NEW y \in U \ A, x[2].name = y[2].name
                  PROVE  FALSE
      BY <2>1
    <3>1. x[2] = y[2]
      BY <2>2, <2>3, <2>4
    <3>. QED  BY <2>4, <3>1
  <2>6. counted \subseteq verdict.counted
    <3>. SUFFICES ASSUME NEW x \in A PROVE x[2].name \in verdict.counted
      OBVIOUS
    <3>1. /\ x[2] \in UNION {AttacksOn(db, p) : p \in PlatformsInGraph(g)}
          /\ InScope(x[2], request.scope)
      BY <2>2, <2>4
    <3>. QED  BY <2>1, <3>1 DEF KnownInScopeNames
  <2>7. ASSUME NEW a \in db, a.name \in verdict.known,
               a.name \notin counted \cup verdict.excluded
        PROVE  mitigated(a)
    <3>. SUFFICES ASSUME NEW p \in PlatformsInGraph(g), p \in a.platforms, ~a.patched,
                         ~(/\ FirstQuote(g, p).tcb # None
                           /\ PatchedBySvn(a, p, FirstQuote(g, p).tcb))
                  PROVE  FALSE
      OBVIOUS
    <3>1. <<p, a>> \in U
      BY UnmitigatedIsPaired DEF U
    <3>2. PICK x : x \in U /\ x[2] = a
      BY <3>1
    <3>. QED  BY <2>1, <2>7, <3>2
  <2>. QED  BY <2>1, <2>5, <2>6, <2>7 DEF EveryAttackAccountedFor
<1>. QED  BY <1>1, RecordInvAlways, PTL

\* Of the scope, the score reads its kind; what it selects is in the pairs.
LEMMA ScoreReadsTheKind ==
    ASSUME NEW in, NEW out, NEW profile,
           in.graph = out.graph, in.db = out.db, in.applicable = out.applicable,
           in.level = out.level, in.resolutions = out.resolutions,
           in.freshness = out.freshness, in.conformance = out.conformance,
           in.scope.kind = out.scope.kind
    PROVE  Score(in, profile) = Score(out, profile)
<1>1. EffectivePenalty(in.graph, in.db, in.applicable, in.scope)
          = EffectivePenalty(out.graph, out.db, out.applicable, out.scope)
  BY DEF EffectivePenalty
<1>. QED  BY <1>1 DEF Score

\* The identity of a scope is all that the pairs and the score read of it.
LEMMA IdentityDecides ==
    ASSUME NEW s \in Scopes \cup Presets, NEW t \in Scopes \cup Presets,
           ScopeIdentity(s) = ScopeIdentity(t)
    PROVE  /\ s.kind = t.kind
           /\ \A a : InScope(a, s) <=> InScope(a, t)
<1>1. s.kind = t.kind
  BY DEF ScopeIdentity
<1>2. CASE s.kind = "preset"
  <2>1. s \in Presets /\ t \in Presets /\ s.name = t.name
    BY <1>1, <1>2, PresetsAreTheEngines DEF ScopeIdentity
  <2>2. s = t
    BY <2>1 DEF Presets, SoftwareOperator, CloudAdmin, PhysicalHost, NationStatePhysical, Preset
  <2>. QED  BY <2>2
<1>3. CASE s.kind # "preset"
  <2>1. s.positions = t.positions /\ s.categories = t.categories
    BY <1>1, <1>3 DEF ScopeIdentity
  <2>. QED  BY <1>1, <2>1 DEF InScope
<1>. QED  BY <1>1, <1>2, <1>3

(* Every scope of the recorded identity, whatever it is called, gives the  *)
(* same attacks and the same score (scope_identity, scope_description).    *)
THEOREM GradeReproduced == Spec => []RecordedScopeReproducesTheGrade
<1>1. RecordInv => RecordedScopeReproducesTheGrade
  <2>. SUFFICES ASSUME RecordInv, Scored, NEW s \in Scopes \cup Presets,
                       ScopeIdentity(s) = verdict.scope.identity
                PROVE  PairsUnder(s) = verdict.attacks /\ ScoreUnder(s) = verdict.score
    BY DEF RecordedScopeReproducesTheGrade
  <2>. DEFINE in == ScoreInput(request, draft, now, reference)
  <2>1. ScopeIdentity(s) = ScopeIdentity(request.scope) /\ request.scope \in Scopes
    BY DEF RecordInv, VerdictRecord, ScopeDescription
  <2>2. s.kind = request.scope.kind /\ \A a : InScope(a, s) <=> InScope(a, request.scope)
    BY <2>1, IdentityDecides
  <2>3. PairsUnder(s) = Applicable(request)
    BY <2>2 DEF PairsUnder, Applicable, ApplicablePairs, InScopePairs
  <2>4. /\ draft.applicable = Applicable(request)
        /\ verdict.attacks = Applicable(request)
        /\ verdict.score = Score(in, Profiles[request.profile])
    BY DEF RecordInv, DraftRecord, VerdictRecord
  <2>5. InputUnder(s) = [in EXCEPT !.scope = s, !.applicable = PairsUnder(s)]
    BY DEF InputUnder
  <2>6. in.scope = request.scope /\ in.applicable = PairsUnder(s)
    BY <2>3, <2>4 DEF ScoreInput
  <2>7. Score(InputUnder(s), Profiles[request.profile]) = Score(in, Profiles[request.profile])
    <3>. DEFINE out == InputUnder(s)
    <3>1. /\ in.graph = out.graph /\ in.db = out.db /\ in.level = out.level
          /\ in.resolutions = out.resolutions /\ in.freshness = out.freshness
          /\ in.conformance = out.conformance
          /\ out.scope = s /\ out.applicable = PairsUnder(s)
      BY <2>5 DEF ScoreInput
    <3>. HIDE DEF in, out
    <3>2. in.scope.kind = out.scope.kind /\ in.applicable = out.applicable
      BY <2>2, <2>6, <3>1
    <3>3. Score(in, Profiles[request.profile]) = Score(out, Profiles[request.profile])
      BY <3>1, <3>2, ScoreReadsTheKind
    <3>. QED  BY <3>3 DEF out
  <2>. QED  BY <2>3, <2>4, <2>7 DEF ScoreUnder
<1>. QED  BY <1>1, RecordInvAlways, PTL

-----------------------------------------------------------------------------
(***************************************************************************)
(* Scores under other scopes.  The inputs of the two scores differ in the  *)
(* penalty only, and the penalty is a sum over a finite set of pairs that  *)
(* is contained in the other.                                              *)
(***************************************************************************)
LEMMA TrustIsNat ==
    ASSUME NEW g, NEW resolutions
    PROVE  TrustPoints(g, resolutions) \in Nat
<1> DEFINE earned == {c \in 1 .. 6 :
            \/ c = 1 /\ AllQuotesDebugDisabled(g)
            \/ c = 2 /\ TcbCurrent(g, resolutions)
            \/ c = 3 /\ HasBuildProvenance(g)
            \/ c = 4 /\ ProvenanceDimension(g) = "chained"
            \/ c = 5 /\ Bound(g)
            \/ c = 6 /\ WeakestEvidenceClass(g) \in StrongEvidence}
<1>1. IsFiniteSet(1 .. 6) /\ earned \subseteq 1 .. 6
  <2>1. earned \subseteq 1 .. 6
    OBVIOUS
  <2>2. IsFiniteSet(1 .. 6)
    BY FS_Interval, 1 \in Int, 6 \in Int
  <2> HIDE DEF earned
  <2>. QED  BY <2>1, <2>2
<1> HIDE DEF earned
<1>2. Cardinality(earned) \in Nat
  BY <1>1, FS_Subset, FS_CardinalityType
<1>3. LesserOf(5 * Cardinality(earned), 20) \in Nat
  BY <1>2 DEF LesserOf
<1>. QED  BY <1>3 DEF TrustPoints, earned

LEMMA PairsAreFinite ==
    ASSUME NEW db \in Databases, NEW pairs, pairs \subseteq Platforms \X db
    PROVE  /\ IsFiniteSet(pairs)
           /\ \A x \in pairs : x[2].coverage \in Nat
<1>1. IsFiniteSet(Platforms \X db)
  BY PlatformsAreFinite, DatabasesAreFinite, FS_Product
<1>2. ASSUME NEW x \in pairs PROVE x[2].coverage \in Nat
  <2>1. x[2] \in db
    OBVIOUS
  <2>. QED  BY <2>1, CoverageIsAShare
<1>. QED  BY <1>1, <1>2, FS_Subset

\* The pairs of a graph, those a submitter is held to, and how they compare.
LEMMA PairsOfGraph ==
    ASSUME NEW g, NEW db, NEW configured
    PROVE  /\ UnmitigatedPairs(g, db, configured) \subseteq Platforms \X db
           /\ ReferencePairs(g, db) \subseteq Platforms \X db
           /\ ApplicablePairs(g, db, configured, CloudAdmin) \subseteq ReferencePairs(g, db)
<1> DEFINE named == {q \in Platforms : \E i \in DOMAIN g.nodes : g.nodes[i].platform = q}
           all == UNION {{p} \X AttacksOn(db, p) : p \in named}
<1>1. ASSUME NEW x \in UnmitigatedPairs(g, db, configured)
      PROVE  x \in Platforms \X db /\ x \in all
  <2>1. PICK p \in PlatformsInGraph(g) :
            x \in {p} \X Unmitigated(db, p, FirstQuote(g, p).tcb,
                            FirmwarePatched(db, p, FirstQuote(g, p).tcb, configured))
    BY DEF UnmitigatedPairs
  <2>2. p \in Platforms /\ p \in named
    BY DEF PlatformsInGraph, QuoteAt
  <2>3. x \in {p} \X AttacksOn(db, p)
    BY <2>1 DEF Unmitigated
  <2>. QED  BY <2>2, <2>3 DEF AttacksOn
<1>2. all \subseteq Platforms \X db
  BY DEF AttacksOn
<1>3. ReferencePairs(g, db) = InScopePairs(all, CloudAdmin)
  BY DEF ReferencePairs
<1> HIDE DEF all
<1>. QED  BY <1>1, <1>2, <1>3 DEF ApplicablePairs, InScopePairs

\* in and out are the input of the verdict's score and the one under scope s.
ScopeVaried(in, s, out) ==
    /\ verdict.score = Score(in, Profiles[request.profile])
    /\ ScoreUnder(s) = Score(out, Profiles[request.profile])
    /\ Profiles[request.profile] \in {Profiles[f] : f \in DOMAIN Profiles}
    /\ Alike(in, out)
    /\ in.graph = request.graph /\ in.db = request.db
    /\ in.scope = request.scope /\ in.applicable = PairsUnder(request.scope)
    /\ out.graph = in.graph /\ out.db = in.db /\ out.resolutions = in.resolutions
    /\ out.scope = s /\ out.applicable = PairsUnder(s)

LEMMA ScopedInput ==
    ASSUME IInv, RecordInv, Scored, NEW s
    PROVE  \E in, out : ScopeVaried(in, s, out)
<1>1. PICK in : in = ScoreInput(request, draft, now, reference)
  OBVIOUS
<1>2. PICK out : out = InputUnder(s)
  OBVIOUS
<1>3. out = [in EXCEPT !.scope = s, !.applicable = PairsUnder(s)]
  BY <1>1, <1>2 DEF InputUnder
<1>4. /\ draft # None
      /\ draft.applicable = PairsUnder(request.scope)
      /\ verdict.score = Score(in, Profiles[request.profile])
      /\ request.conformance \in Conformances
      /\ request.profile \in ProfileNames
  BY <1>1 DEF RecordInv, DraftRecord, VerdictRecord, Applicable, PairsUnder
<1>5. draft.level \in Nat
  BY <1>4, LevelRange DEF IInv, DraftInv, NONE, CONFIG_VERIFIED, HARDWARE_ATTESTED,
                        OPERATIONAL_ASSURANCE, DISTRIBUTED_TRUST
<1>6. /\ in.graph = request.graph /\ in.db = request.db
      /\ in.scope = request.scope /\ in.applicable = PairsUnder(request.scope)
      /\ in.level = draft.level /\ in.conformance = request.conformance
      /\ in.freshness \in DOMAIN FreshnessScore
  BY <1>1, <1>4, FreshnessIsALabel DEF ScoreInput
<1>7. /\ out.graph = in.graph /\ out.db = in.db /\ out.resolutions = in.resolutions
      /\ out.level = in.level /\ out.conformance = in.conformance
      /\ out.freshness = in.freshness
      /\ out.scope = s /\ out.applicable = PairsUnder(s)
  BY <1>1, <1>3 DEF ScoreInput
<1>8. Alike(in, out)
  BY <1>4, <1>5, <1>6, <1>7, ConformancesAreShares DEF Alike, Shares
<1>9. Profiles[request.profile] \in {Profiles[f] : f \in DOMAIN Profiles}
  BY <1>4, ProfilesAreKnown
<1>10. ScoreUnder(s) = Score(out, Profiles[request.profile])
  BY <1>2 DEF ScoreUnder
<1>11. ScopeVaried(in, s, out)
  BY <1>4, <1>6, <1>7, <1>8, <1>9, <1>10 DEF ScopeVaried
<1>. QED  BY <1>11

LEMMA ScopedScore ==
    ASSUME NEW s, NEW in, NEW out, ScopeVaried(in, s, out),
           PenaltyOf(in) \in Nat, PenaltyOf(out) \in Nat, PenaltyOf(out) <= PenaltyOf(in)
    PROVE  /\ verdict.score.total <= ScoreUnder(s).total
           /\ verdict.score.platformScore <= ScoreUnder(s).platformScore
           /\ verdict.score.subscores.threat <= ScoreUnder(s).subscores.threat
<1>1. /\ TrustPoints(in.graph, in.resolutions) \in Nat
      /\ TrustPoints(out.graph, out.resolutions) = TrustPoints(in.graph, in.resolutions)
  BY TrustIsNat DEF ScopeVaried
<1>. QED  BY <1>1, ScoreOrder DEF ScopeVaried

(* A scope the submitter wrote, however narrow, scores no higher than the  *)
(* engine's cloud-admin scope, for every graph, database and scope         *)
(* (compute_numeric_score, the reference cap).                             *)
THEOREM CustomScopeIsCapped == Spec => []CustomScopeNeverBuysPoints
<1>1. IInv /\ RecordInv => CustomScopeNeverBuysPoints
  <2> SUFFICES ASSUME IInv, RecordInv, Scored, request.scope.kind = "custom"
               PROVE  /\ verdict.score.total <= ScoreUnder(CloudAdmin).total
                      /\ verdict.score.platformScore <= ScoreUnder(CloudAdmin).platformScore
    BY DEF CustomScopeNeverBuysPoints
  <2>1. PICK in, out : ScopeVaried(in, CloudAdmin, out)
    BY ScopedInput
  <2> DEFINE g == request.graph
             db == request.db
             mine == PairsUnder(request.scope)
             preset == PairsUnder(CloudAdmin)
             held == ReferencePairs(g, db)
  <2>2. /\ mine \subseteq Platforms \X db /\ held \subseteq Platforms \X db
        /\ preset \subseteq held
    BY PairsOfGraph DEF PairsUnder, ApplicablePairs, InScopePairs
  <2>3. db \in Databases
    BY DEF RecordInv
  <2>4. PenaltyOf(in) = GreaterOf(RawPenalty(mine), RawPenalty(held))
    BY <2>1 DEF ScopeVaried, PenaltyOf, EffectivePenalty
  <2>5. PenaltyOf(out) = RawPenalty(preset)
    BY <2>1 DEF ScopeVaried, PenaltyOf, EffectivePenalty, CloudAdmin, Preset
  <2> HIDE DEF mine, preset, held, db
  <2>6. RawPenalty(mine) \in Nat
    BY <2>2, <2>3, PairsAreFinite, RawPenaltyMonotone
  <2>7. /\ RawPenalty(held) \in Nat /\ RawPenalty(preset) \in Nat
        /\ RawPenalty(preset) <= RawPenalty(held)
    BY <2>2, <2>3, PairsAreFinite, RawPenaltyMonotone
  <2>8. /\ PenaltyOf(in) \in Nat /\ PenaltyOf(out) \in Nat
        /\ PenaltyOf(out) <= PenaltyOf(in)
    BY <2>4, <2>5, <2>6, <2>7 DEF GreaterOf
  <2>. QED  BY <2>1, <2>8, ScopedScore
<1>. QED  BY <1>1, IInvAlways, RecordInvAlways, PTL

(* Presets are ordered and so are their totals and threat points, for      *)
(* every graph and database (compute_numeric_score, GRADING.md).           *)
THEOREM WiderPresetScoresNoHigher == Spec => []WiderPresetNeverRaisesTotal
<1>1. IInv /\ RecordInv => WiderPresetNeverRaisesTotal
  <2> SUFFICES ASSUME IInv, RecordInv, Scored, request.scope.kind = "preset",
                      NEW s \in Presets, NoWider(request.scope, s)
               PROVE  /\ ScoreUnder(s).total <= verdict.score.total
                      /\ ScoreUnder(s).subscores.threat <= verdict.score.subscores.threat
    BY DEF WiderPresetNeverRaisesTotal
  <2>1. PICK in, out : ScopeVaried(in, s, out)
    BY ScopedInput
  <2> DEFINE mine == PairsUnder(request.scope)
             wider == PairsUnder(s)
             db == request.db
  <2>2. mine \subseteq wider /\ wider \subseteq Platforms \X db
    BY PairsOfGraph, InScopeMonotone DEF PairsUnder, ApplicablePairs, InScopePairs
  <2>3. db \in Databases
    BY DEF RecordInv
  <2>4. s.kind = "preset"
    BY DEF Presets, SoftwareOperator, CloudAdmin, PhysicalHost, NationStatePhysical, Preset
  <2>5. PenaltyOf(in) = RawPenalty(mine)
    BY <2>1 DEF ScopeVaried, PenaltyOf, EffectivePenalty
  <2>6. PenaltyOf(out) = RawPenalty(wider)
    BY <2>1, <2>4 DEF ScopeVaried, PenaltyOf, EffectivePenalty
  <2> HIDE DEF mine, wider, db
  <2>7. /\ PenaltyOf(in) \in Nat /\ PenaltyOf(out) \in Nat
        /\ PenaltyOf(in) <= PenaltyOf(out)
    BY <2>2, <2>3, <2>5, <2>6, PairsAreFinite, RawPenaltyMonotone
  <2>8. /\ TrustPoints(in.graph, in.resolutions) \in Nat
        /\ TrustPoints(out.graph, out.resolutions) = TrustPoints(in.graph, in.resolutions)
    BY <2>1, TrustIsNat DEF ScopeVaried
  <2>9. Alike(out, in)
    BY <2>1 DEF ScopeVaried, Alike
  <2>10. /\ Score(out, Profiles[request.profile]).total <= Score(in, Profiles[request.profile]).total
         /\ Score(out, Profiles[request.profile]).subscores.threat
              <= Score(in, Profiles[request.profile]).subscores.threat
    BY <2>1, <2>7, <2>8, <2>9, ScoreOrder DEF ScopeVaried
  <2>. QED  BY <2>1, <2>10 DEF ScopeVaried
<1>. QED  BY <1>1, IInvAlways, RecordInvAlways, PTL

-----------------------------------------------------------------------------
(* An absent policy.                                                       *)

Always == {"attestation", "trust", "threat", "freshness"}

SumOfAlways(f) == MapThenSumSet(LAMBDA d : f[d], Always)

LEMMA AlwaysSum ==
    ASSUME NEW f, \A d \in Always : f[d] \in Nat
    PROVE  SumOfAlways(f) = f["attestation"] + f["trust"] + f["threat"] + f["freshness"]
<1> DEFINE w == [d \in Always |-> f[d]]
           Is(g) == g = [s \in SUBSET Always |-> IF s = {} THEN 0
                              ELSE f[CHOOSE x \in s : TRUE]
                                     + g[s \ {CHOOSE x \in s : TRUE}]]
<1>1. IsFiniteSet(Always)
  <2>1. /\ IsFiniteSet({"attestation"}) /\ IsFiniteSet({"trust"})
        /\ IsFiniteSet({"threat"}) /\ IsFiniteSet({"freshness"})
    BY FS_Singleton
  <2>2. IsFiniteSet({"attestation"} \cup {"trust"}) /\ IsFiniteSet({"threat"} \cup {"freshness"})
    BY <2>1, FS_Union
  <2>3. IsFiniteSet(({"attestation"} \cup {"trust"}) \cup ({"threat"} \cup {"freshness"}))
    BY <2>2, FS_Union
  <2>4. Always = ({"attestation"} \cup {"trust"}) \cup ({"threat"} \cup {"freshness"})
    BY DEF Always
  <2>. QED  BY <2>3, <2>4
<1>2. ASSUME NEW g PROVE Is(g) <=> Sums(g, w, Always)
  <2>1. ASSUME NEW s \in SUBSET Always
        PROVE  (IF s = {} THEN 0 ELSE f[CHOOSE x \in s : TRUE]
                                     + g[s \ {CHOOSE x \in s : TRUE}])
                 = (IF s = {} THEN 0 ELSE w[Pick(s)] + g[s \ {Pick(s)}])
    <3>1. CASE s # {}
      <4>1. Pick(s) \in s
        BY <3>1 DEF Pick
      <4>2. w[Pick(s)] = f[Pick(s)]
        BY <4>1
      <4>. QED  BY <4>2 DEF Pick
    <3>. QED  BY <3>1
  <2>2. [s \in SUBSET Always |-> IF s = {} THEN 0 ELSE f[CHOOSE x \in s : TRUE]
                                     + g[s \ {CHOOSE x \in s : TRUE}]]
          = [s \in SUBSET Always |-> IF s = {} THEN 0 ELSE w[Pick(s)] + g[s \ {Pick(s)}]]
    BY <2>1
  <2>. QED  BY <2>2 DEF Sums
<1>3. PICK g : Is(g)
  <2>1. PICK g : Sums(g, w, Always)
    BY <1>1, SumExists
  <2> HIDE DEF Is, w
  <2>. QED  BY <1>2, <2>1
<1>4. Is(CHOOSE h : Is(h))
  BY <1>3
<1>5. SumOfAlways(f) = (CHOOSE h : Is(h))[Always]
  BY DEF SumOfAlways, MapThenSumSet, MapThenFoldSet
<1>6. PICK h : Sums(h, w, Always) /\ SumOfAlways(f) = h[Always]
  BY <1>2, <1>4, <1>5
<1>7. w \in [Always -> Nat]
  OBVIOUS
<1>8. /\ w["attestation"] = f["attestation"] /\ w["trust"] = f["trust"]
      /\ w["threat"] = f["threat"] /\ w["freshness"] = f["freshness"]
  BY DEF Always
<1> HIDE DEF w, Is
<1>9. ASSUME NEW s \in SUBSET Always
      PROVE  h[s] \in Nat /\ (s = {} => h[s] = 0) /\ \A x \in s : h[s] = w[x] + h[s \ {x}]
  BY <1>1, <1>6, <1>7, SumInsert
<1>10. h[{"freshness"}] = w["freshness"]
  <2>1. {"freshness"} \in SUBSET Always /\ {"freshness"} \ {"freshness"} = {} /\ {} \in SUBSET Always
    BY DEF Always
  <2>2. /\ h[{"freshness"}] = w["freshness"] + h[{"freshness"} \ {"freshness"}]
        /\ h[{"freshness"} \ {"freshness"}] = 0
    BY <1>9, <2>1
  <2>3. w["freshness"] \in Nat
    BY <1>7 DEF Always
  <2>. QED  BY <2>1, <2>2, <2>3
<1>11. h[{"threat", "freshness"}] = w["threat"] + h[{"freshness"}]
  <2>1. /\ {"threat", "freshness"} \in SUBSET Always
        /\ {"threat", "freshness"} \ {"threat"} = {"freshness"}
    BY DEF Always
  <2>2. h[{"threat", "freshness"}] = w["threat"] + h[{"threat", "freshness"} \ {"threat"}]
    BY <1>9, <2>1
  <2>. QED  BY <2>1, <2>2
<1>12. h[{"trust", "threat", "freshness"}] = w["trust"] + h[{"threat", "freshness"}]
  <2>1. /\ {"trust", "threat", "freshness"} \in SUBSET Always
        /\ {"trust", "threat", "freshness"} \ {"trust"} = {"threat", "freshness"}
    BY DEF Always
  <2>2. h[{"trust", "threat", "freshness"}]
          = w["trust"] + h[{"trust", "threat", "freshness"} \ {"trust"}]
    BY <1>9, <2>1
  <2>. QED  BY <2>1, <2>2
<1>13. h[Always] = w["attestation"] + h[{"trust", "threat", "freshness"}]
  <2>1. /\ Always \in SUBSET Always /\ "attestation" \in Always
        /\ Always \ {"attestation"} = {"trust", "threat", "freshness"}
    BY DEF Always
  <2>2. h[Always] = w["attestation"] + h[Always \ {"attestation"}]
    BY <1>9, <2>1
  <2>. QED  BY <2>1, <2>2
<1>14. /\ f["attestation"] \in Nat /\ f["trust"] \in Nat
       /\ f["threat"] \in Nat /\ f["freshness"] \in Nat
  BY DEF Always
<1>. QED  BY <1>6, <1>8, <1>10, <1>11, <1>12, <1>13, <1>14

LEMMA RoundingIsNat ==
    ASSUME NEW n \in Nat, NEW d \in Nat, d > 0
    PROVE  RoundHalfEven(n, d) \in Nat
<1>1. PICK k : k = RoundHalfEven(n, d)
  OBVIOUS
<1>2. k \in Int /\ 2 * n - d <= 2 * (d * k)
  BY <1>1, RoundingBounds
<1>3. SUFFICES ASSUME k <= -1 PROVE FALSE
  BY <1>1, <1>2
<1>4. d * k <= d * (-1)
  BY <1>2, <1>3, ProductMonotone
<1>5. PICK x : x = d * k
  OBVIOUS
<1>6. x \in Int /\ x <= -d
  BY <1>2, <1>4, <1>5
<1>. QED  BY <1>2, <1>5, <1>6

\* The arithmetic of it: a policy that is satisfied like the rest of the score
\* moves the total by less than the roundings do.
LEMMA ProportionalShare ==
    ASSUME NEW c \in {15, 20}, NEW e \in Nat,
           NEW k, k = RoundHalfEven(20 * e, 100 - c),
           NEW w, w = RoundHalfEven(k * c, 20)
    PROVE  Total(e, 100 - c) - Total(e + w, 100) \in -2 .. 2
<1>1. PICK t, u : t = RoundHalfEven(100 * e, 100 - c) /\ u = RoundHalfEven(100 * (e + w), 100)
  OBVIOUS
<1> DEFINE d == 100 - c
<1>2. d \in Nat /\ d > 0
  OBVIOUS
<1>3. ASSUME NEW n \in Int, NEW m \in Nat, m > 0
      PROVE  LET x == RoundHalfEven(n, m)
             IN  x \in Int /\ 2 * n - m <= 2 * (m * x) /\ 2 * (m * x) <= 2 * n + m
  BY <1>3, RoundingBounds
<1> HIDE DEF d
<1>4. k \in Int /\ 2 * (20 * e) - d <= 2 * (d * k) /\ 2 * (d * k) <= 2 * (20 * e) + d
  <2>1. 20 * e \in Int /\ k = RoundHalfEven(20 * e, d)
    BY DEF d
  <2>. QED  BY <1>2, <1>3, <2>1
<1>5. w \in Int /\ 2 * (k * c) - 20 <= 2 * (20 * w) /\ 2 * (20 * w) <= 2 * (k * c) + 20
  <2>1. PICK n : n = k * c
    OBVIOUS
  <2>2. n \in Int /\ w = RoundHalfEven(n, 20)
    BY <1>4, <2>1
  <2>3. w \in Int /\ 2 * n - 20 <= 2 * (20 * w) /\ 2 * (20 * w) <= 2 * n + 20
    BY <1>3, <2>2
  <2>. QED  BY <2>1, <2>3
<1>6. /\ t \in Int /\ 2 * (100 * e) - d <= 2 * (d * t) /\ 2 * (d * t) <= 2 * (100 * e) + d
      /\ u \in Int /\ 2 * (100 * (e + w)) - 100 <= 2 * (100 * u)
                   /\ 2 * (100 * u) <= 2 * (100 * (e + w)) + 100
  <2>1. 100 * e \in Int /\ t = RoundHalfEven(100 * e, d)
    BY <1>1 DEF d
  <2>2. t \in Int /\ 2 * (100 * e) - d <= 2 * (d * t) /\ 2 * (d * t) <= 2 * (100 * e) + d
    BY <1>2, <1>3, <2>1
  <2>3. PICK n : n = 100 * (e + w)
    OBVIOUS
  <2>4. n \in Int /\ u = RoundHalfEven(n, 100)
    BY <1>1, <1>5, <2>3
  <2>5. u \in Int /\ 2 * n - 100 <= 2 * (100 * u) /\ 2 * (100 * u) <= 2 * n + 100
    BY <1>3, <2>4
  <2>. QED  BY <2>2, <2>3, <2>5
<1>7. t - u \in -2 .. 2
  <2>1. CASE c = 15 /\ d = 85
    BY <1>4, <1>5, <1>6, <2>1
  <2>2. CASE c = 20 /\ d = 80
    BY <1>4, <1>5, <1>6, <2>2
  <2>. QED  BY <2>1, <2>2 DEF d
<1>. QED  BY <1>1, <1>6, <1>7 DEF Total, GreaterOf, LesserOf, d

(* An appraisal without a policy scores, up to the roundings, what it      *)
(* would with a policy satisfied in the proportion of the rest, for every  *)
(* profile, graph and database (_renormalized_total).                      *)
THEOREM AbsentPolicyNeutral == Spec => []AbsentPolicyIsNeutral
<1>1. IInv /\ RecordInv => AbsentPolicyIsNeutral
  <2> SUFFICES ASSUME IInv, RecordInv, Scored, request.conformance = None
               PROVE  AbsentPolicyIsNeutral
    BY DEF AbsentPolicyIsNeutral
  <2>1. PICK in : in = ScoreInput(request, draft, now, reference)
    OBVIOUS
  <2>2. PICK profile : profile = Profiles[request.profile]
    OBVIOUS
  <2> DEFINE f == verdict.score.subscores
             e == Earned(in, profile)
             alike == [satisfied |-> e, total |-> 100 - profile.compliance]
             out == [in EXCEPT !.conformance = alike]
  <2>3. /\ draft # None
        /\ verdict.score = Score(in, profile)
        /\ profile \in {Profiles[n] : n \in DOMAIN Profiles}
        /\ in.conformance = None
        /\ in.db = request.db /\ in.graph = request.graph
        /\ in.scope = request.scope /\ in.applicable = PairsUnder(request.scope)
    BY <2>1, <2>2, ProfilesAreKnown
    DEF RecordInv, DraftRecord, VerdictRecord, ScoreInput, Applicable, PairsUnder
  <2>4. f = [attestation |-> RoundHalfEven(AttestationPoints(in.level) * profile.attestation, 20),
             trust |-> RoundHalfEven(TrustPoints(in.graph, in.resolutions) * profile.trust, 20),
             threat |-> Threat(PenaltyOf(in), profile),
             freshness |-> RoundHalfEven(FreshnessScore[in.freshness] * profile.freshness, 20),
             compliance |-> RoundHalfEven(ComplianceOf(in.conformance) * profile.compliance, 20)]
    BY <2>3 DEF Score, Threat, PenaltyOf, ComplianceOf
  <2>5. /\ profile.attestation \in Nat /\ profile.trust \in Nat /\ profile.threat \in Nat
        /\ profile.freshness \in Nat /\ profile.compliance \in {15, 20}
        /\ PresentWeight(profile, FALSE) = 100 - profile.compliance
        /\ PresentWeight(profile, TRUE) = 100
    BY <2>3 DEF Profiles, PresentWeight
  <2>6. AttestationPoints(in.level) \in Nat
    <3>1. draft.level \in Nat
      BY <2>3, LevelRange DEF IInv, DraftInv, NONE, CONFIG_VERIFIED, HARDWARE_ATTESTED,
                              OPERATIONAL_ASSURANCE, DISTRIBUTED_TRUST
    <3>2. in.level = draft.level
      BY <2>1 DEF ScoreInput
    <3>. QED  BY <3>1, <3>2 DEF AttestationPoints, LesserOf
  <2>7. FreshnessScore[in.freshness] \in Nat
    BY <2>1, FreshnessIsALabel DEF ScoreInput, FreshnessScore
  <2>8. PenaltyOf(in) \in Nat
    <3>1. /\ in.applicable \subseteq Platforms \X in.db
          /\ ReferencePairs(in.graph, in.db) \subseteq Platforms \X in.db
      BY <2>3, PairsOfGraph DEF PairsUnder, ApplicablePairs, InScopePairs
    <3>2. in.db \in Databases
      BY <2>3 DEF RecordInv
    <3>3. RawPenalty(in.applicable) \in Nat /\ RawPenalty(ReferencePairs(in.graph, in.db)) \in Nat
      BY <3>1, <3>2, PairsAreFinite, RawPenaltyMonotone
    <3>. QED  BY <3>3 DEF PenaltyOf, EffectivePenalty, GreaterOf
  <2>9. ASSUME NEW a \in Nat, NEW b \in Nat PROVE RoundHalfEven(a * b, 20) \in Nat
    <3>1. PICK n : n = a * b
      OBVIOUS
    <3>2. n \in Nat
      BY <3>1
    <3>. QED  BY <3>1, <3>2, RoundingIsNat
  <2>10. Threat(PenaltyOf(in), profile) \in Nat
    <3>1. HalfLife * profile.threat \in Nat
      BY <2>5 DEF HalfLife
    <3>. QED  BY <2>8, <3>1, RoundingIsNat DEF Threat, HalfLife
  <2>11. /\ f["attestation"] \in Nat /\ f["trust"] \in Nat
         /\ f["threat"] \in Nat /\ f["freshness"] \in Nat
         /\ f["attestation"] + f["trust"] + f["threat"] + f["freshness"] = e
    <3>1. TrustPoints(in.graph, in.resolutions) \in Nat
      BY TrustIsNat
    <3>. QED  BY <2>4, <2>5, <2>6, <2>7, <2>9, <2>10, <3>1 DEF Earned
  <2>12. SumOfAlways(f) = e /\ e \in Nat
    <3>1. \A d \in Always : f[d] \in Nat
      BY <2>11 DEF Always
    <3> HIDE DEF f, e
    <3>. QED  BY <2>11, <3>1, AlwaysSum
  <2>13. verdict.score.total = Total(e, 100 - profile.compliance)
    <3>1. RoundHalfEven(0 * profile.compliance, 20) = 0
      <4>1. 0 * profile.compliance = 0
        BY <2>5
      <4>. QED  BY <4>1 DEF RoundHalfEven
    <3>2. Points(in, profile) = e
      BY <2>3, <2>12, <3>1 DEF Points, ComplianceOf
    <3>3. PresentWeight(profile, in.conformance # None) = 100 - profile.compliance
      BY <2>3, <2>5
    <3>4. Score(in, profile).total
            = Total(Points(in, profile), PresentWeight(profile, in.conformance # None))
      BY ScoreParts
    <3> HIDE DEF e
    <3>. QED  BY <2>3, <3>2, <3>3, <3>4
  <2>14. Score(out, profile).total
           = Total(e + RoundHalfEven(RoundHalfEven(20 * e, 100 - profile.compliance)
                                       * profile.compliance, 20), 100)
    <3>1. alike # None
      BY <2>5, <2>12, NoneIsNoShare
    <3>2. /\ out.graph = in.graph /\ out.db = in.db /\ out.applicable = in.applicable
          /\ out.scope = in.scope /\ out.level = in.level /\ out.freshness = in.freshness
          /\ out.resolutions = in.resolutions /\ out.conformance = alike
      BY <2>1 DEF ScoreInput
    <3>3. Earned(out, profile) = e
      BY <3>2 DEF Earned, PenaltyOf
    <3>4. ComplianceOf(alike) = RoundHalfEven(20 * e, 100 - profile.compliance)
      BY <3>1 DEF ComplianceOf, CompliancePoints
    <3>5. Score(out, profile).total
            = Total(Points(out, profile), PresentWeight(profile, out.conformance # None))
      BY ScoreParts
    <3> HIDE DEF e, alike, out
    <3>6. Points(out, profile) = e + RoundHalfEven(ComplianceOf(alike) * profile.compliance, 20)
      BY <3>2, <3>3 DEF Points
    <3>7. PresentWeight(profile, out.conformance # None) = 100
      BY <2>5, <3>1, <3>2
    <3>. QED  BY <3>4, <3>5, <3>6, <3>7
  <2>15. verdict.score.total - Score(out, profile).total \in -2 .. 2
    <3> HIDE DEF e, out
    <3>. QED  BY <2>5, <2>12, <2>13, <2>14, ProportionalShare
  <2>16. SumOfAlways(f) = MapThenSumSet(LAMBDA d : verdict.score.subscores[d],
                                    {"attestation", "trust", "threat", "freshness"})
    BY DEF SumOfAlways, Always, MapThenSumSet, MapThenFoldSet
  <2>. QED  BY <2>1, <2>2, <2>12, <2>15, <2>16 DEF AbsentPolicyIsNeutral
<1>. QED  BY <1>1, IInvAlways, RecordInvAlways, PTL

-----------------------------------------------------------------------------
(***************************************************************************)
(* Newer firmware.  The order of versions is transitive, so what the old   *)
(* version patches the new one does, and what was current stays so; of the *)
(* graph nothing else that the appraisal reads has changed.                *)
(***************************************************************************)
LEMMA LexTransitive ==
    ASSUME NEW a \in Seq(Nat), NEW b \in Seq(Nat), NEW c \in Seq(Nat),
           LexAtLeast(a, b), LexAtLeast(b, c)
    PROVE  LexAtLeast(a, c)
<1> DEFINE Above(x, y) == \E k \in DOMAIN x \cap DOMAIN y :
                             x[k] > y[k] /\ \A j \in 1 .. k - 1 : x[j] = y[j]
           Extends(x, y) == Len(x) >= Len(y) /\ \A k \in DOMAIN y : x[k] = y[k]
<1>1. /\ Above(a, b) \/ Extends(a, b)
      /\ Above(b, c) \/ Extends(b, c)
  BY DEF LexAtLeast
<1>2. SUFFICES Above(a, c) \/ Extends(a, c)
  BY DEF LexAtLeast
<1>3. /\ \A k \in DOMAIN a : k \in 1 .. Len(a) /\ a[k] \in Nat
      /\ \A k \in DOMAIN b : k \in 1 .. Len(b) /\ b[k] \in Nat
      /\ \A k \in DOMAIN c : k \in 1 .. Len(c) /\ c[k] \in Nat
      /\ DOMAIN a = 1 .. Len(a) /\ DOMAIN b = 1 .. Len(b) /\ DOMAIN c = 1 .. Len(c)
      /\ Len(a) \in Nat /\ Len(b) \in Nat /\ Len(c) \in Nat
  OBVIOUS
<1> DEFINE la == Len(a)
           lb == Len(b)
           lc == Len(c)
<1>4. /\ la \in Nat /\ lb \in Nat /\ lc \in Nat
      /\ DOMAIN a = 1 .. la /\ DOMAIN b = 1 .. lb /\ DOMAIN c = 1 .. lc
      /\ \A k \in 1 .. la : a[k] \in Nat
      /\ \A k \in 1 .. lb : b[k] \in Nat
      /\ \A k \in 1 .. lc : c[k] \in Nat
  BY <1>3
<1> HIDE DEF la, lb, lc
<1>5. CASE Above(a, b) /\ Above(b, c)
  <2>1. PICK k \in DOMAIN a \cap DOMAIN b : a[k] > b[k] /\ \A j \in 1 .. k - 1 : a[j] = b[j]
    BY <1>5
  <2>2. PICK l \in DOMAIN b \cap DOMAIN c : b[l] > c[l] /\ \A j \in 1 .. l - 1 : b[j] = c[j]
    BY <1>5
  <2>3. k \in 1 .. la /\ k \in 1 .. lb /\ l \in 1 .. lb /\ l \in 1 .. lc
    BY <1>4
  <2> DEFINE n == IF k <= l THEN k ELSE l
  <2>4. n \in 1 .. la /\ n \in 1 .. lb /\ n \in 1 .. lc /\ n <= k /\ n <= l
    BY <1>4, <2>3
  <2>5. a[n] > c[n]
    <3>1. CASE k < l
      <4>1. n = k /\ k \in 1 .. l - 1
        BY <2>3, <3>1
      <4>2. b[k] = c[k]
        BY <2>2, <4>1
      <4>. QED  BY <2>1, <4>1, <4>2
    <3>2. CASE k = l
      <4>1. n = k /\ a[k] \in Nat /\ b[k] \in Nat /\ c[k] \in Nat
        BY <1>4, <2>3, <3>2
      <4>. QED  BY <2>1, <2>2, <3>2, <4>1
    <3>3. CASE l < k
      <4>1. n = l /\ l \in 1 .. k - 1
        BY <2>3, <3>3
      <4>2. a[l] = b[l]
        BY <2>1, <4>1
      <4>. QED  BY <2>2, <4>1, <4>2
    <3>. QED  BY <2>3, <3>1, <3>2, <3>3
  <2>6. ASSUME NEW j \in 1 .. n - 1 PROVE a[j] = c[j]
    <3>1. j \in 1 .. k - 1 /\ j \in 1 .. l - 1
      BY <2>3, <2>4
    <3>. QED  BY <2>1, <2>2, <3>1
  <2> HIDE DEF n
  <2>. QED  BY <1>4, <2>4, <2>5, <2>6
<1>6. CASE Above(a, b) /\ Extends(b, c)
  <2>1. PICK k \in DOMAIN a \cap DOMAIN b : a[k] > b[k] /\ \A j \in 1 .. k - 1 : a[j] = b[j]
    BY <1>6
  <2>2. /\ k \in 1 .. la /\ k \in 1 .. lb
        /\ lb >= lc /\ \A j \in 1 .. lc : b[j] = c[j]
    BY <1>6, <1>4 DEF lb, lc
  <2>3. CASE k <= lc
    <3>1. k \in 1 .. lc
      BY <1>4, <2>2, <2>3
    <3>2. a[k] > c[k]
      BY <2>1, <2>2, <3>1
    <3>3. ASSUME NEW j \in 1 .. k - 1 PROVE a[j] = c[j]
      <4>1. j \in 1 .. lc
        BY <1>4, <2>2, <2>3
      <4>. QED  BY <2>1, <2>2, <4>1
    <3>. QED  BY <1>4, <2>2, <3>1, <3>2, <3>3
  <2>4. CASE lc < k
    <3>1. ASSUME NEW j \in 1 .. lc PROVE a[j] = c[j]
      <4>1. j \in 1 .. k - 1
        BY <1>4, <2>2, <2>4
      <4>. QED  BY <2>1, <2>2, <4>1
    <3>2. la >= lc
      BY <1>4, <2>2, <2>4
    <3>. QED  BY <1>4, <3>1, <3>2 DEF la, lc
  <2>. QED  BY <1>4, <2>2, <2>3, <2>4
<1>7. CASE Extends(a, b) /\ Above(b, c)
  <2>1. PICK l \in DOMAIN b \cap DOMAIN c : b[l] > c[l] /\ \A j \in 1 .. l - 1 : b[j] = c[j]
    BY <1>7
  <2>2. /\ l \in 1 .. lb /\ l \in 1 .. lc
        /\ la >= lb /\ \A j \in 1 .. lb : a[j] = b[j]
    BY <1>7, <1>4 DEF la, lb
  <2>3. l \in 1 .. la
    BY <1>4, <2>2
  <2>4. a[l] > c[l]
    BY <2>1, <2>2
  <2>5. ASSUME NEW j \in 1 .. l - 1 PROVE a[j] = c[j]
    <3>1. j \in 1 .. lb
      BY <1>4, <2>2
    <3>. QED  BY <2>1, <2>2, <3>1
  <2>. QED  BY <1>4, <2>2, <2>3, <2>4, <2>5
<1>8. CASE Extends(a, b) /\ Extends(b, c)
  <2>1. /\ la >= lb /\ lb >= lc
        /\ \A j \in 1 .. lb : a[j] = b[j]
        /\ \A j \in 1 .. lc : b[j] = c[j]
    BY <1>8, <1>4 DEF la, lb, lc
  <2>2. ASSUME NEW j \in 1 .. lc PROVE a[j] = c[j]
    <3>1. j \in 1 .. lb
      BY <1>4, <2>1
    <3>. QED  BY <2>1, <3>1
  <2>3. la >= lc
    BY <1>4, <2>1
  <2>. QED  BY <1>4, <2>2, <2>3 DEF la, lc
<1>. QED  BY <1>1, <1>5, <1>6, <1>7, <1>8

\* What a version patches, or is current against, a later one is too.
LEMMA NewerPatches ==
    ASSUME NEW a, NEW p, NEW v, NEW w, NoOlder(v, w), IsVersion(v), IsVersion(w),
           p \in DOMAIN a.minSvn => IsVersion(a.minSvn[p]),
           PatchedBySvn(a, p, v)
    PROVE  PatchedBySvn(a, p, w)
BY LexTransitive DEF NoOlder, IsVersion, PatchedBySvn

LEMMA NewerIsCurrent ==
    ASSUME NEW r, NEW v, NEW w, NoOlder(v, w), w # None, IsVersion(v), IsVersion(w),
           r # None => IsVersion(r),
           ResolveTcbStatus(v, r) = "current"
    PROVE  ResolveTcbStatus(w, r) = "current"
BY LexTransitive DEF NoOlder, IsVersion, ResolveTcbStatus

\* h differs from g in the versions its quotes of platform p state.
Restated(g, h, p, w) ==
    /\ DOMAIN h.nodes = DOMAIN g.nodes
    /\ h.edges = g.edges
    /\ h.challenge = g.challenge
    /\ \A i \in DOMAIN g.nodes, field \in NodeFields \ {"tcb"} :
          h.nodes[i][field] = g.nodes[i][field]
    /\ \A i \in DOMAIN g.nodes :
          h.nodes[i].tcb = IF i \in QuoteAt(g) /\ g.nodes[i].platform = p
                           THEN w ELSE g.nodes[i].tcb

LEMMA AtVersionRestates ==
    ASSUME NEW g \in Graphs, NEW p, NEW w
    PROVE  Restated(g, AtVersion(g, p, w), p, w)
<1>1. PICK h : h = AtVersion(g, p, w)
  OBVIOUS
<1> DEFINE Node(i) == IF i \in QuoteAt(g) /\ g.nodes[i].platform = p
                      THEN [g.nodes[i] EXCEPT !.tcb = w] ELSE g.nodes[i]
<1>2. DOMAIN g = {"nodes", "edges", "challenge"}
  BY GraphsAreRecords
<1>3. /\ h.nodes = [i \in DOMAIN g.nodes |-> Node(i)]
      /\ h.edges = g.edges /\ h.challenge = g.challenge
  BY <1>1, <1>2 DEF AtVersion
<1>4. ASSUME NEW i \in DOMAIN g.nodes
      PROVE  /\ \A field \in NodeFields \ {"tcb"} : Node(i)[field] = g.nodes[i][field]
             /\ Node(i).tcb = IF i \in QuoteAt(g) /\ g.nodes[i].platform = p
                              THEN w ELSE g.nodes[i].tcb
  <2>1. DOMAIN g.nodes[i] = NodeFields
    BY GraphsAreRecords
  <2>2. PICK n : n = g.nodes[i]
    OBVIOUS
  <2>3. PICK m : m = [n EXCEPT !.tcb = w]
    OBVIOUS
  <2>4. m.tcb = w /\ \A field \in NodeFields \ {"tcb"} : m[field] = n[field]
    BY <2>1, <2>2, <2>3 DEF NodeFields
  <2>. QED  BY <2>2, <2>3, <2>4
<1> HIDE DEF Node
<1>. QED  BY <1>1, <1>3, <1>4 DEF Restated

\* What the appraisal reads besides the versions.
SameReadings(g, h) ==
    /\ QuoteAt(h) = QuoteAt(g)
    /\ PlatformsInGraph(h) = PlatformsInGraph(g)
    /\ AllQuotesDebugDisabled(h) <=> AllQuotesDebugDisabled(g)
    /\ HasBuildProvenance(h) <=> HasBuildProvenance(g)
    /\ ProvenanceDimension(h) = ProvenanceDimension(g)
    /\ Bound(h) <=> Bound(g)
    /\ WeakestEvidenceClass(h) = WeakestEvidenceClass(g)
    /\ \A t : TemporalFreshness(h, t) = TemporalFreshness(g, t)
    /\ \A db : ReferencePairs(h, db) = ReferencePairs(g, db)

LEMMA RestatedReadsSame ==
    ASSUME NEW g, Indexed(g), NEW h, NEW p, NEW w, Restated(g, h, p, w)
    PROVE  SameReadings(g, h)
<1>1. /\ DOMAIN h.nodes = DOMAIN g.nodes
      /\ h.edges = g.edges /\ h.challenge = g.challenge
      /\ \A i \in DOMAIN g.nodes :
            /\ h.nodes[i].id = g.nodes[i].id
            /\ h.nodes[i].type = g.nodes[i].type
            /\ h.nodes[i].platform = g.nodes[i].platform
            /\ h.nodes[i].debug = g.nodes[i].debug
            /\ h.nodes[i].meas = g.nodes[i].meas
            /\ h.nodes[i].binding = g.nodes[i].binding
            /\ h.nodes[i].class = g.nodes[i].class
            /\ h.nodes[i].ts = g.nodes[i].ts
            /\ h.nodes[i].ttl = g.nodes[i].ttl
            /\ h.nodes[i].subject = g.nodes[i].subject
  BY DEF Restated, NodeFields
<1>2. QuoteAt(h) = QuoteAt(g)
  BY <1>1 DEF QuoteAt
<1>3. PlatformsInGraph(h) = PlatformsInGraph(g)
  BY <1>1, <1>2 DEF PlatformsInGraph, QuoteAt
<1>4. /\ AllQuotesDebugDisabled(h) <=> AllQuotesDebugDisabled(g)
      /\ HasBuildProvenance(h) <=> HasBuildProvenance(g)
  BY <1>1 DEF AllQuotesDebugDisabled, HasBuildProvenance, QuoteAt
<1>5. ProvenanceDimension(h) = ProvenanceDimension(g)
  <2>1. MeasuredQuotes(h) = MeasuredQuotes(g) /\ ProvenanceAt(h) = ProvenanceAt(g)
    BY <1>1 DEF MeasuredQuotes, ProvenanceAt, QuoteAt
  <2> DEFINE first == FirstIndex(MeasuredQuotes(g))
             Chained(f) == /\ MeasuredQuotes(g) # {}
                           /\ \E i \in ProvenanceAt(g) :
                                 /\ f.nodes[i].subject # None
                                 /\ f.nodes[i].subject = f.nodes[first].meas
  <2>2. MeasuredQuotes(g) # {} => h.nodes[first].meas = g.nodes[first].meas
    <3>1. MeasuredQuotes(g) \subseteq Nat /\ MeasuredQuotes(g) \subseteq DOMAIN g.nodes
      BY DEF MeasuredQuotes, QuoteAt, Indexed
    <3>2. MeasuredQuotes(g) # {} => first \in DOMAIN g.nodes
      BY <3>1, FirstIndexIn
    <3>. QED  BY <1>1, <3>2
  <2>3. ProvenanceAt(g) \subseteq DOMAIN g.nodes
    BY DEF ProvenanceAt
  <2>4. ProvenanceDimension(g) = IF ProvenanceAt(g) = {} THEN "absent"
                                 ELSE IF Chained(g) THEN "chained" ELSE "signed"
    BY DEF ProvenanceDimension
  <2>5. ProvenanceDimension(h) = IF ProvenanceAt(g) = {} THEN "absent"
                                 ELSE IF Chained(h) THEN "chained" ELSE "signed"
    BY <2>1 DEF ProvenanceDimension
  <2> HIDE DEF first
  <2>6. Chained(h) <=> Chained(g)
    BY <1>1, <2>2, <2>3
  <2> HIDE DEF Chained
  <2>. QED  BY <2>4, <2>5, <2>6
<1>6. Bound(h) <=> Bound(g)
  <2>1. \A id : NodeById(h, id) = NodeById(g, id)
    BY <1>1 DEF NodeById
  <2>2. \A i \in DOMAIN g.nodes : BindingValue(h.nodes[i]) = BindingValue(g.nodes[i])
    BY <1>1 DEF BindingValue
  <2>3. \A e : Binds(h, e) <=> Binds(g, e)
    <3>1. \A id : NodeById(g, id) \subseteq DOMAIN g.nodes
      BY DEF NodeById
    <3>. QED  BY <1>1, <1>2, <2>1, <2>2, <3>1 DEF Binds
  <2>4. BindingEdges(h) = BindingEdges(g)
    BY <1>1, <2>3 DEF BindingEdges
  <2> DEFINE k == FirstIndex(BindingEdges(g))
             e == g.edges[k]
  <2>5. ASSUME BindingEdges(g) # {}
        PROVE  SharedValue(h, e) = SharedValue(g, e)
    <3>1. BindingEdges(g) \subseteq Nat
      BY DEF BindingEdges, Indexed
    <3>2. k \in BindingEdges(g)
      BY <2>5, <3>1, FirstIndexIn
    <3>3. NodeById(g, e.source) # {}
      BY <3>2 DEF BindingEdges, Binds
    <3>4. NodeById(g, e.source) \subseteq Nat /\ NodeById(g, e.source) \subseteq DOMAIN g.nodes
      BY DEF NodeById, Indexed
    <3>5. FirstIndex(NodeById(g, e.source)) \in DOMAIN g.nodes
      BY <3>3, <3>4, FirstIndexIn
    <3>. QED  BY <2>1, <2>2, <3>5 DEF SharedValue
  <2>6. h.edges[FirstIndex(BindingEdges(h))] = e
    BY <1>1, <2>4
  <2> HIDE DEF k, e
  <2>. QED  BY <1>1, <2>4, <2>5, <2>6 DEF Bound, k, e
<1>7. WeakestEvidenceClass(h) = WeakestEvidenceClass(g)
  <2> DEFINE Ranks(f) == {ProvenanceRank(f.nodes[i].class) : i \in DOMAIN f.nodes}
             Weakest(ranks) == IF ranks = {} THEN "unknown"
                               ELSE Ladder[CHOOSE r \in ranks : \A q \in ranks : r <= q]
  <2>1. Ranks(h) = Ranks(g)
    BY <1>1
  <2>2. WeakestEvidenceClass(h) = Weakest(Ranks(h)) /\ WeakestEvidenceClass(g) = Weakest(Ranks(g))
    BY DEF WeakestEvidenceClass
  <2> HIDE DEF Ranks, Weakest
  <2>. QED  BY <2>1, <2>2
<1>8. ASSUME NEW t PROVE TemporalFreshness(h, t) = TemporalFreshness(g, t)
  <2>1. Stamped(h) = Stamped(g) /\ Stamped(g) \subseteq DOMAIN g.nodes
    BY <1>1 DEF Stamped
  <2> DEFINE Old(f) == \E i \in Stamped(g) : t - f.nodes[i].ts >= f.nodes[i].ttl
             Older(f) == \E i \in Stamped(g) : 5 * (t - f.nodes[i].ts) >= 4 * f.nodes[i].ttl
  <2>2. (Old(h) <=> Old(g)) /\ (Older(h) <=> Older(g))
    BY <1>1, <2>1
  <2>3. TemporalFreshness(h, t) = IF Old(h) THEN "STALE" ELSE IF Older(h) THEN "AGING" ELSE "FRESH"
    BY <2>1 DEF TemporalFreshness
  <2>4. TemporalFreshness(g, t) = IF Old(g) THEN "STALE" ELSE IF Older(g) THEN "AGING" ELSE "FRESH"
    BY DEF TemporalFreshness
  <2> HIDE DEF Old, Older
  <2>. QED  BY <2>2, <2>3, <2>4
<1>9. ASSUME NEW db PROVE ReferencePairs(h, db) = ReferencePairs(g, db)
  <2> DEFINE Named(f) == {q \in Platforms : \E i \in DOMAIN f.nodes : f.nodes[i].platform = q}
             Reach(named) == InScopePairs(UNION {{q} \X AttacksOn(db, q) : q \in named}, CloudAdmin)
  <2>1. Named(h) = Named(g)
    BY <1>1
  <2>2. ReferencePairs(h, db) = Reach(Named(h)) /\ ReferencePairs(g, db) = Reach(Named(g))
    BY DEF ReferencePairs
  <2> HIDE DEF Named, Reach
  <2>. QED  BY <2>1, <2>2
<1>. QED  BY <1>2, <1>3, <1>4, <1>5, <1>6, <1>7, <1>8, <1>9 DEF SameReadings

LEMMA FirstQuoteRestated ==
    ASSUME NEW g \in Graphs, NEW h, NEW p, NEW w, Restated(g, h, p, w),
           NEW q \in PlatformsInGraph(g)
    PROVE  \E i \in QuoteAt(g) :
              /\ g.nodes[i].platform = q
              /\ FirstQuote(g, q) = g.nodes[i]
              /\ FirstQuote(h, q).tcb = IF q = p THEN w ELSE g.nodes[i].tcb
<1> DEFINE Of(f) == {i \in QuoteAt(f) : f.nodes[i].platform = q}
           first == FirstIndex(Of(g))
<1>1. Indexed(g)
  BY GraphsWellFormed DEF WellFormed
<1>2. Of(g) \subseteq Nat /\ Of(g) # {}
  BY <1>1 DEF Indexed, QuoteAt, PlatformsInGraph
<1>3. first \in Of(g)
  BY <1>2, FirstIndexIn
<1>4. Of(h) = Of(g)
  BY DEF Restated, NodeFields, QuoteAt
<1>5. FirstQuote(g, q) = g.nodes[first] /\ FirstQuote(h, q) = h.nodes[first]
  BY <1>4 DEF FirstQuote
<1>6. first \in QuoteAt(g) /\ g.nodes[first].platform = q /\ first \in DOMAIN g.nodes
  BY <1>3 DEF QuoteAt
<1> HIDE DEF first
<1>7. h.nodes[first].tcb = IF q = p THEN w ELSE g.nodes[first].tcb
  BY <1>6 DEF Restated
<1>. QED  BY <1>5, <1>6, <1>7

LEMMA NewerHasFewerPairs ==
    ASSUME NEW g \in Graphs, NEW p \in Platforms, NEW w \in References,
           \A i \in QuoteAt(g) : g.nodes[i].platform = p => NoOlder(g.nodes[i].tcb, w),
           NEW h, Restated(g, h, p, w), NEW db \in Databases, NEW configured
    PROVE  UnmitigatedPairs(h, db, configured) \subseteq UnmitigatedPairs(g, db, configured)
<1>1. Indexed(g)
  BY GraphsWellFormed DEF WellFormed
<1>2. PlatformsInGraph(h) = PlatformsInGraph(g)
  BY <1>1, RestatedReadsSame DEF SameReadings
<1> SUFFICES ASSUME NEW x \in UnmitigatedPairs(h, db, configured)
             PROVE  x \in UnmitigatedPairs(g, db, configured)
  OBVIOUS
<1> DEFINE At(f, q) == LET v == FirstQuote(f, q).tcb
                       IN  Unmitigated(db, q, v, FirmwarePatched(db, q, v, configured))
<1>3. PICK q \in PlatformsInGraph(g) : x \in {q} \X At(h, q)
  BY <1>2 DEF UnmitigatedPairs
<1>4. PICK i \in QuoteAt(g) :
         /\ g.nodes[i].platform = q
         /\ FirstQuote(g, q) = g.nodes[i]
         /\ FirstQuote(h, q).tcb = IF q = p THEN w ELSE g.nodes[i].tcb
  BY FirstQuoteRestated
<1>5. x[2] \in At(g, q)
  <2>1. CASE q # p
    BY <1>3, <1>4, <2>1
  <2>2. CASE q = p
    <3> DEFINE v == g.nodes[i].tcb
    <3>1. NoOlder(v, w) /\ v # None /\ w # None
      BY <1>4, <2>2, NoneIsNoVersion DEF NoOlder
    <3>2. IsVersion(v) /\ IsVersion(w)
      BY <3>1, VersionsAreNumbers DEF QuoteAt
    <3>3. PICK a : a = x[2]
      OBVIOUS
    <3>4. /\ a \in AttacksOn(db, q) /\ ~a.patched
          /\ ~PatchedBySvn(a, q, w)
      BY <1>3, <1>4, <2>2, <3>1, <3>3 DEF Unmitigated
    <3>5. q \in DOMAIN a.minSvn => IsVersion(a.minSvn[q])
      BY <3>4, VersionsAreNumbers DEF AttacksOn
    <3> HIDE DEF v
    <3>6. ~PatchedBySvn(a, q, v)
      BY <3>1, <3>2, <3>4, <3>5, NewerPatches
    <3>7. a \in Unmitigated(db, q, v, FirmwarePatched(db, q, v, configured))
      BY <3>1, <3>4, <3>6 DEF Unmitigated
    <3>. QED  BY <1>4, <3>3, <3>7 DEF v
  <2>. QED  BY <2>1, <2>2
<1>6. x \in {q} \X At(g, q)
  BY <1>3, <1>5
<1>. QED  BY <1>6 DEF UnmitigatedPairs

LEMMA NewerEarnsTrust ==
    ASSUME NEW g \in Graphs, NEW p \in Platforms, NEW w \in References,
           \A i \in QuoteAt(g) : g.nodes[i].platform = p => NoOlder(g.nodes[i].tcb, w),
           NEW h, Restated(g, h, p, w),
           NEW refs \in ReferenceStates, NEW live \in Feeds
    PROVE  TrustPoints(g, ResolveTcbStatuses(g, refs, live))
              <= TrustPoints(h, ResolveTcbStatuses(h, refs, live))
<1> DEFINE old == ResolveTcbStatuses(g, refs, live)
           new == ResolveTcbStatuses(h, refs, live)
           Earns(f, resolutions) == {c \in 1 .. 6 :
            \/ c = 1 /\ AllQuotesDebugDisabled(f)
            \/ c = 2 /\ TcbCurrent(f, resolutions)
            \/ c = 3 /\ HasBuildProvenance(f)
            \/ c = 4 /\ ProvenanceDimension(f) = "chained"
            \/ c = 5 /\ Bound(f)
            \/ c = 6 /\ WeakestEvidenceClass(f) \in StrongEvidence}
<1>1. SameReadings(g, h)
  <2>1. Indexed(g)
    BY GraphsWellFormed DEF WellFormed
  <2>. QED  BY <2>1, RestatedReadsSame
<1>2. ASSUME NEW q \in PlatformsInGraph(g), old[q] = "current"
      PROVE  new[q] = "current"
  <2> DEFINE r == ReferenceFor(q, refs, live)
  <2>1. PICK i \in QuoteAt(g) :
           /\ g.nodes[i].platform = q
           /\ FirstQuote(g, q) = g.nodes[i]
           /\ FirstQuote(h, q).tcb = IF q = p THEN w ELSE g.nodes[i].tcb
    BY FirstQuoteRestated
  <2>2. q \in PlatformsInGraph(h)
    BY <1>1 DEF SameReadings
  <2>3. old[q] = ResolveTcbStatus(g.nodes[i].tcb, r)
    BY <2>1 DEF ResolveTcbStatuses
  <2>4. new[q] = ResolveTcbStatus(FirstQuote(h, q).tcb, r)
    BY <2>2 DEF ResolveTcbStatuses
  <2>5. r # None => IsVersion(r)
    <3>1. q \in Platforms
      BY DEF PlatformsInGraph
    <3>2. r \in References \cup {None}
      BY <3>1, FeedsAreFunctions DEF ReferenceFor, ReferenceStates
    <3>. QED  BY <3>2, VersionsAreNumbers
  <2> HIDE DEF r, old, new
  <2>6. CASE q # p
    BY <1>2, <2>1, <2>3, <2>4, <2>6
  <2>7. CASE q = p
    <3>1. NoOlder(g.nodes[i].tcb, w) /\ w # None
      BY <2>1, <2>7, NoneIsNoVersion
    <3>2. IsVersion(g.nodes[i].tcb) /\ IsVersion(w)
      BY <3>1, VersionsAreNumbers DEF QuoteAt, NoOlder
    <3>3. ResolveTcbStatus(w, r) = "current"
      BY <1>2, <2>3, <2>5, <3>1, <3>2, NewerIsCurrent
    <3>. QED  BY <2>1, <2>4, <2>7, <3>3
  <2>. QED  BY <2>6, <2>7
<1>3. TcbCurrent(g, old) => TcbCurrent(h, new)
  <2> SUFFICES ASSUME TcbCurrent(g, old), NEW i \in QuoteAt(h)
               PROVE  IF h.nodes[i].platform \in Platforms
                      THEN new[h.nodes[i].platform] = "current"
                      ELSE h.nodes[i].status \in {"current", None}
    BY DEF TcbCurrent
  <2>1. /\ i \in QuoteAt(g)
        /\ h.nodes[i].platform = g.nodes[i].platform
        /\ h.nodes[i].status = g.nodes[i].status
    BY <1>1 DEF SameReadings, Restated, NodeFields, QuoteAt
  <2>2. IF g.nodes[i].platform \in Platforms
        THEN old[g.nodes[i].platform] = "current"
        ELSE g.nodes[i].status \in {"current", None}
    BY <2>1 DEF TcbCurrent
  <2>3. g.nodes[i].platform \in Platforms => g.nodes[i].platform \in PlatformsInGraph(g)
    BY <2>1 DEF PlatformsInGraph
  <2> HIDE DEF old, new
  <2>. QED  BY <1>2, <2>1, <2>2, <2>3
<1> HIDE DEF old, new
<1>4. Earns(g, old) \subseteq Earns(h, new)
  BY <1>1, <1>3 DEF SameReadings
<1>5. IsFiniteSet(Earns(h, new))
  <2>1. IsFiniteSet(1 .. 6)
    BY FS_Interval, 1 \in Int, 6 \in Int
  <2>2. Earns(h, new) \subseteq 1 .. 6
    OBVIOUS
  <2> HIDE DEF Earns
  <2>. QED  BY <2>1, <2>2, FS_Subset
<1>6. /\ TrustPoints(g, old) = LesserOf(5 * Cardinality(Earns(g, old)), 20)
      /\ TrustPoints(h, new) = LesserOf(5 * Cardinality(Earns(h, new)), 20)
  BY DEF TrustPoints
<1> HIDE DEF Earns
<1>7. /\ Cardinality(Earns(g, old)) <= Cardinality(Earns(h, new))
      /\ Cardinality(Earns(g, old)) \in Nat /\ Cardinality(Earns(h, new)) \in Nat
  BY <1>4, <1>5, FS_Subset, FS_CardinalityType
<1>8. TrustPoints(g, old) <= TrustPoints(h, new)
  BY <1>6, <1>7 DEF LesserOf
<1>. QED  BY <1>8 DEF old, new

(* Quotes restated at a later version never make the same evidence look    *)
(* riskier and never lower its total, for every database, scope, reference *)
(* and instant (_is_attack_patched_by_svn, resolve_tcb_status).            *)
THEOREM NewerFirmwareSound == Spec => []NewerFirmwareNeverHurts
<1>1. IInv /\ RecordInv => NewerFirmwareNeverHurts
  <2> SUFFICES ASSUME IInv, RecordInv, Scored,
                      NEW p \in PlatformsInGraph(request.graph), NEW w \in References,
                      \A i \in QuoteAt(request.graph) :
                         request.graph.nodes[i].platform = p
                           => NoOlder(request.graph.nodes[i].tcb, w),
                      NEW newer, newer = [request EXCEPT !.graph = AtVersion(request.graph, p, w)],
                      NEW out, out = [ScoreInput(newer, draft, now, reference)
                                        EXCEPT !.applicable = Applicable(newer)]
               PROVE  /\ ResidualRisk(BaseRisk(verdict.level), {x[2] : x \in Applicable(newer)})
                           <= verdict.risk
                      /\ verdict.score.total <= Score(out, Profiles[request.profile]).total
    BY DEF NewerFirmwareNeverHurts
  <2> DEFINE g == request.graph
             h == AtVersion(g, p, w)
             in == ScoreInput(request, draft, now, reference)
             profile == Profiles[request.profile]
  <2>1. /\ g \in Graphs /\ p \in Platforms /\ request.db \in Databases
        /\ request.live \in Feeds /\ request.profile \in DOMAIN Profiles
        /\ reference \in ReferenceStates
        /\ draft # None
        /\ request.conformance \in Conformances
    BY ProfilesAreKnown DEF IInv, ClockInv, RecordInv, VerdictRecord, PlatformsInGraph
  <2>2. /\ newer.graph = h
        /\ newer.db = request.db /\ newer.scope = request.scope
        /\ newer.configured = request.configured /\ newer.live = request.live
        /\ newer.conformance = request.conformance
    BY DEF RecordInv, RequestShape
  <2>3. Restated(g, h, p, w)
    BY <2>1, AtVersionRestates
  <2>4. SameReadings(g, h)
    <3>1. Indexed(g)
      BY <2>1, GraphsWellFormed DEF WellFormed
    <3>. QED  BY <2>3, <3>1, RestatedReadsSame
  <2> HIDE DEF h
  <2>5. Applicable(newer) \subseteq Applicable(request)
    <3>1. UnmitigatedPairs(h, request.db, request.configured)
            \subseteq UnmitigatedPairs(g, request.db, request.configured)
      BY <2>1, <2>3, NewerHasFewerPairs
    <3>. QED  BY <2>2, <3>1 DEF Applicable, ApplicablePairs, InScopePairs
  <2>6. ResidualRisk(BaseRisk(verdict.level), {x[2] : x \in Applicable(newer)}) <= verdict.risk
    <3>1. verdict.risk = RiskOf(request, verdict.level)
      BY DEF IInv, VerdictInv, DraftInv
    <3>2. BaseRisk(verdict.level) \in RiskTiers
      BY BaseRiskType DEF RiskTiers, LOW, MEDIUM, HIGH, CRITICAL
    <3>3. {x[2] : x \in Applicable(newer)} \subseteq {x[2] : x \in Applicable(request)}
      BY <2>5
    <3>. QED  BY <3>1, <3>2, <3>3, ResidualRiskMonotone DEF RiskOf
  <2>7. /\ in.graph = g /\ in.db = request.db /\ in.scope = request.scope
        /\ in.level = draft.level /\ in.applicable = Applicable(request)
        /\ in.conformance = request.conformance
        /\ in.resolutions = ResolveTcbStatuses(g, reference, request.live)
        /\ in.freshness = TemporalFreshness(g, now)
    BY <2>1 DEF ScoreInput, RecordInv, DraftRecord
  <2>8. /\ out.graph = h /\ out.db = request.db /\ out.scope = request.scope
        /\ out.level = draft.level /\ out.applicable = Applicable(newer)
        /\ out.conformance = request.conformance
        /\ out.resolutions = ResolveTcbStatuses(h, reference, request.live)
        /\ out.freshness = TemporalFreshness(g, now)
    BY <2>2, <2>4 DEF ScoreInput, SameReadings
  <2>9. verdict.score = Score(in, profile)
    BY DEF RecordInv, VerdictRecord
  <2> HIDE DEF in
  <2>10. Alike(in, out)
    <3>1. draft.level \in Nat
      BY <2>1, LevelRange DEF IInv, DraftInv, NONE, CONFIG_VERIFIED, HARDWARE_ATTESTED,
                              OPERATIONAL_ASSURANCE, DISTRIBUTED_TRUST
    <3>. QED  BY <2>1, <2>7, <2>8, <3>1, FreshnessIsALabel, ConformancesAreShares
              DEF Alike, Shares
  <2>11. /\ PenaltyOf(in) \in Nat /\ PenaltyOf(out) \in Nat
         /\ PenaltyOf(out) <= PenaltyOf(in)
    <3> DEFINE held == ReferencePairs(g, request.db)
    <3>1. /\ Applicable(request) \subseteq Platforms \X request.db
          /\ held \subseteq Platforms \X request.db
      BY PairsOfGraph DEF Applicable, ApplicablePairs, InScopePairs
    <3>2. /\ RawPenalty(Applicable(request)) \in Nat
          /\ RawPenalty(Applicable(newer)) \in Nat
          /\ RawPenalty(Applicable(newer)) <= RawPenalty(Applicable(request))
      BY <2>1, <2>5, <3>1, PairsAreFinite, RawPenaltyMonotone
    <3>3. RawPenalty(held) \in Nat
      BY <2>1, <3>1, PairsAreFinite, RawPenaltyMonotone
    <3>4. ReferencePairs(h, request.db) = held
      BY <2>4 DEF SameReadings
    <3>5. PenaltyOf(in) = IF request.scope.kind = "custom"
                          THEN GreaterOf(RawPenalty(Applicable(request)), RawPenalty(held))
                          ELSE RawPenalty(Applicable(request))
      BY <2>7 DEF PenaltyOf, EffectivePenalty
    <3>6. PenaltyOf(out) = IF request.scope.kind = "custom"
                           THEN GreaterOf(RawPenalty(Applicable(newer)), RawPenalty(held))
                           ELSE RawPenalty(Applicable(newer))
      BY <2>8, <3>4 DEF PenaltyOf, EffectivePenalty
    <3> HIDE DEF held
    <3>. QED  BY <3>2, <3>3, <3>5, <3>6 DEF GreaterOf
  <2>12. /\ TrustPoints(in.graph, in.resolutions) \in Nat
         /\ TrustPoints(out.graph, out.resolutions) \in Nat
         /\ TrustPoints(in.graph, in.resolutions) <= TrustPoints(out.graph, out.resolutions)
    <3>1. TrustPoints(g, ResolveTcbStatuses(g, reference, request.live))
            <= TrustPoints(h, ResolveTcbStatuses(h, reference, request.live))
      BY <2>1, <2>3, NewerEarnsTrust
    <3>. QED  BY <2>7, <2>8, <3>1, TrustIsNat
  <2>13. profile \in {Profiles[f] : f \in DOMAIN Profiles}
    BY <2>1
  <2> HIDE DEF profile
  <2>14. Score(in, profile).total <= Score(out, profile).total
    BY <2>10, <2>11, <2>12, <2>13, ScoreOrder
  <2>. QED  BY <2>6, <2>9, <2>14 DEF profile
<1>. QED  BY <1>1, IInvAlways, RecordInvAlways, PTL

-----------------------------------------------------------------------------
(***************************************************************************)
(* The mutable graph (EvidenceGraph).  GraphOK is inductive as it stands:  *)
(* a node added under a known id takes that id's place, and what is cut    *)
(* down keeps one node per id because each position is numbered once.      *)
(***************************************************************************)
Lists(S, m) == UNION {[1 .. k -> S] : k \in 0 .. m}
NodeLists == Lists(NodeMenu, MaxNodes)
EdgeLists == Lists(EdgeMenu, MaxEdges)

\* A bounded list has a length, and one more entry fits when it is shorter.
LEMMA ListShape ==
    ASSUME NEW S, NEW m \in Nat, NEW l \in Lists(S, m)
    PROVE  /\ l \in Seq(S)
           /\ Len(l) \in 0 .. m
           /\ DOMAIN l = 1 .. Len(l)
           /\ \A x \in S : Len(l) < m =>
                 Append(l, x) \in Lists(S, m)
<1>1. PICK k \in 0 .. m : l \in [1 .. k -> S]
  BY DEF Lists
<1>2. l \in Seq(S) /\ Len(l) = k /\ DOMAIN l = 1 .. k
  BY <1>1
<1>3. ASSUME NEW x \in S, Len(l) < m
      PROVE  Append(l, x) \in Lists(S, m)
  <2>1. k + 1 \in 0 .. m
    BY <1>2, <1>3
  <2>2. PICK b : b = Append(l, x)
    OBVIOUS
  <2>3. b \in Seq(S) /\ Len(b) = k + 1
    BY <1>2, <1>3, <2>2
  <2>4. b \in [1 .. k + 1 -> S]
    BY <2>3
  <2>. QED  BY <2>1, <2>2, <2>4 DEF Lists
<1>. QED  BY <1>2, <1>3

\* A numbering of some positions of a bounded list gives a bounded list.
LEMMA NumberedList ==
    ASSUME NEW S, NEW m \in Nat, NEW l \in Lists(S, m),
           NEW kept \in SUBSET DOMAIN l, NEW f \in Numberings(kept)
    PROVE  /\ [i \in DOMAIN f |-> l[f[i]]] \in Lists(S, m)
           /\ \A i \in DOMAIN f : f[i] \in DOMAIN l
           /\ \A i, j \in DOMAIN f : f[i] = f[j] => i = j
<1>1. PICK k \in 0 .. m : l \in [1 .. k -> S]
  BY DEF Lists
<1>2. IsFiniteSet(1 .. k) /\ Cardinality(1 .. k) = k
  <2>1. 1 \in Int /\ k \in Int /\ (1 > k => k = 0)
    OBVIOUS
  <2>. QED  BY <2>1, FS_Interval
<1>3. kept \in SUBSET (1 .. k)
  BY <1>1
<1>4. Cardinality(kept) \in Nat /\ Cardinality(kept) <= k
  BY <1>2, <1>3, FS_Subset, FS_CardinalityType
<1>5. /\ f \in [1 .. Cardinality(kept) -> kept]
      /\ \A i, j \in DOMAIN f : f[i] = f[j] => i = j
  BY DEF Numberings
<1>6. [i \in DOMAIN f |-> l[f[i]]] \in [1 .. Cardinality(kept) -> S]
  BY <1>1, <1>3, <1>5
<1>7. Cardinality(kept) \in 0 .. m
  BY <1>4
<1>. QED  BY <1>1, <1>3, <1>5, <1>6, <1>7 DEF Lists

LEMMA GraphShape ==
    ASSUME GraphOK
    PROVE  /\ graph.nodes \in NodeLists
           /\ graph.edges \in EdgeLists
           /\ DOMAIN graph.nodes \subseteq Nat
           /\ DOMAIN graph.edges \subseteq Nat
           /\ Indexed(graph)
<1>1. graph.nodes \in NodeLists /\ graph.edges \in EdgeLists
  BY DEF GraphOK, Lists, NodeLists, EdgeLists
<1>2. DOMAIN graph.nodes \subseteq Nat
  BY <1>1, ListShape, NodesAndEdgesAreBounded DEF NodeLists
<1>3. DOMAIN graph.edges \subseteq Nat
  BY <1>1, ListShape, NodesAndEdgesAreBounded DEF EdgeLists
<1>. QED  BY <1>1, <1>2, <1>3 DEF GraphOK, Indexed

\* GraphOK in parts, for the steps that build a graph.
LEMMA GraphParts ==
    GraphOK <=>
        /\ graph \in [nodes : NodeLists, edges : EdgeLists, challenge : Challenges \cup {None}]
        /\ \A i, j \in DOMAIN graph.nodes : graph.nodes[i].id = graph.nodes[j].id => i = j
BY Zenon DEF GraphOK, Lists, NodeLists, EdgeLists

LEMMA GraphPartsNext ==
    ASSUME NEW ns \in NodeLists, NEW es \in EdgeLists, NEW c \in Challenges \cup {None},
           \A i, j \in DOMAIN ns : ns[i].id = ns[j].id => i = j,
           graph' = [nodes |-> ns, edges |-> es, challenge |-> c]
    PROVE  GraphOK'
<1>1. /\ graph' \in [nodes : NodeLists, edges : EdgeLists, challenge : Challenges \cup {None}]
      /\ \A i, j \in DOMAIN graph'.nodes : graph'.nodes[i].id = graph'.nodes[j].id => i = j
  OBVIOUS
<1>. QED  BY <1>1 DEF GraphOK, Lists, NodeLists, EdgeLists

(* However a graph is built and cut down, it has at most one node per id   *)
(* and stays within its lists (EvidenceGraph).                             *)
THEOREM GraphTypeCorrect == GraphSpec => []GraphOK
<1>1. GraphInit => GraphOK
  <2>1. ASSUME NEW S, NEW m \in Nat
        PROVE  <<>> \in Lists(S, m)
    <3>1. <<>> \in [1 .. 0 -> S] /\ 0 \in 0 .. m
      OBVIOUS
    <3>. QED  BY <3>1 DEF Lists
  <2>2. <<>> \in NodeLists /\ <<>> \in EdgeLists
    BY <2>1, NodesAndEdgesAreBounded DEF NodeLists, EdgeLists
  <2>3. ASSUME GraphInit
        PROVE  graph = [nodes |-> <<>>, edges |-> <<>>, challenge |-> None]
    BY <2>3 DEF GraphInit, EmptyGraph
  <2>. QED  BY <2>2, <2>3, GraphParts
<1>2. ASSUME GraphOK, [GraphNext]_graph
      PROVE  GraphOK'
  <2>. DEFINE nodes == graph.nodes
              edges == graph.edges
  <2>1. /\ graph = [nodes |-> nodes, edges |-> edges, challenge |-> graph.challenge]
        /\ nodes \in NodeLists
        /\ edges \in EdgeLists
        /\ graph.challenge \in Challenges \cup {None}
        /\ \A i, j \in DOMAIN nodes : nodes[i].id = nodes[j].id => i = j
        /\ MaxNodes \in Nat /\ MaxEdges \in Nat
    BY <1>2, GraphParts, NodesAndEdgesAreBounded
  <2>2. CASE \E n \in NodeMenu : AddNode(n)
    <3>1. PICK n \in NodeMenu : AddNode(n)
      BY <2>2
    <3>2. CASE NodeById(graph, n.id) # {}
      <4>. DEFINE k == FirstIndex(NodeById(graph, n.id))
                  ns == [nodes EXCEPT ![k] = n]
      <4>1. k \in DOMAIN nodes /\ nodes[k].id = n.id
        <5>1. NodeById(graph, n.id) \subseteq Nat
          BY <1>2, GraphShape DEF NodeById
        <5>2. k \in NodeById(graph, n.id)
          BY <3>2, <5>1, FirstIndexIn
        <5>. QED  BY <5>2 DEF NodeById
      <4>. HIDE DEF k
      <4>2. ns \in NodeLists
        <5>1. PICK m \in 0 .. MaxNodes : nodes \in [1 .. m -> NodeMenu]
          BY <2>1 DEF NodeLists, Lists
        <5>2. ns \in [1 .. m -> NodeMenu]
          BY <4>1, <5>1
        <5>. QED  BY <5>2 DEF NodeLists, Lists
      <4>3. \A i \in DOMAIN ns : i \in DOMAIN nodes /\ ns[i].id = nodes[i].id
        BY <2>1, <4>1 DEF NodeLists, Lists
      <4>4. \A i, j \in DOMAIN ns : ns[i].id = ns[j].id => i = j
        BY <2>1, <4>3
      <4>5. graph' = [nodes |-> ns, edges |-> edges, challenge |-> graph.challenge]
        BY <2>1, <3>1, <3>2 DEF AddNode, k
      <4>. QED  BY <2>1, <4>2, <4>4, <4>5, GraphPartsNext
    <3>3. CASE NodeById(graph, n.id) = {}
      <4>. DEFINE ns == Append(nodes, n)
      <4>1. Len(nodes) < MaxNodes
            /\ graph' = [nodes |-> ns, edges |-> edges, challenge |-> graph.challenge]
        BY <2>1, <3>1, <3>3 DEF AddNode
      <4>2. nodes \in Seq(NodeMenu) /\ ns \in NodeLists
        BY <2>1, <4>1, ListShape DEF NodeLists
      <4>3. \A i \in DOMAIN nodes : nodes[i].id # n.id
        BY <3>3 DEF NodeById
      <4>4. \A i, j \in DOMAIN ns : ns[i].id = ns[j].id => i = j
        <5>1. /\ DOMAIN ns = DOMAIN nodes \cup {Len(nodes) + 1}
              /\ ns[Len(nodes) + 1] = n
              /\ \A i \in DOMAIN nodes : ns[i] = nodes[i]
          BY <4>2
        <5>. QED  BY <2>1, <4>3, <5>1
      <4>. QED  BY <2>1, <4>1, <4>2, <4>4, GraphPartsNext
    <3>. QED  BY <3>2, <3>3
  <2>3. CASE \E e \in EdgeMenu : AddEdge(e)
    <3>1. PICK e \in EdgeMenu : AddEdge(e)
      BY <2>3
    <3>2. /\ Len(edges) < MaxEdges
          /\ graph' = [nodes |-> nodes, edges |-> Append(edges, e),
                       challenge |-> graph.challenge]
      BY <2>1, <3>1 DEF AddEdge
    <3>3. Append(edges, e) \in EdgeLists
      BY <2>1, <3>2, ListShape DEF EdgeLists
    <3>. QED  BY <2>1, <3>2, <3>3, GraphPartsNext
  <2>4. CASE \E c \in Challenges : SetChallenge(c)
    <3>1. PICK c \in Challenges : SetChallenge(c)
      BY <2>4
    <3>2. graph' = [nodes |-> nodes, edges |-> edges, challenge |-> c]
      BY <2>1, <3>1 DEF SetChallenge
    <3>. QED  BY <2>1, <3>2, GraphPartsNext
  <2>5. CASE \E ids \in SUBSET Ids : Subgraph(ids)
    <3>1. PICK ids : Subgraph(ids)
      BY <2>5
    <3>. DEFINE kept == {i \in DOMAIN nodes : nodes[i].id \in ids}
                within == {i \in DOMAIN edges :
                             edges[i].source \in ids /\ edges[i].target \in ids}
    <3>2. PICK f \in Numberings(kept), h \in Numberings(within) :
              graph' = [nodes |-> [i \in DOMAIN f |-> nodes[f[i]]],
                        edges |-> [i \in DOMAIN h |-> edges[h[i]]],
                        challenge |-> None]
      BY <3>1 DEF Subgraph
    <3>. DEFINE ns == [i \in DOMAIN f |-> nodes[f[i]]]
                es == [i \in DOMAIN h |-> edges[h[i]]]
    <3>3. kept \in SUBSET DOMAIN nodes /\ within \in SUBSET DOMAIN edges
      OBVIOUS
    <3>. HIDE DEF kept, within, nodes, edges
    <3>4. /\ ns \in NodeLists
          /\ \A i \in DOMAIN f : f[i] \in DOMAIN nodes
          /\ \A i, j \in DOMAIN f : f[i] = f[j] => i = j
      BY <2>1, <3>3, NumberedList DEF NodeLists
    <3>5. es \in EdgeLists
      BY <2>1, <3>3, NumberedList DEF EdgeLists
    <3>6. \A i, j \in DOMAIN ns : ns[i].id = ns[j].id => i = j
      BY <2>1, <3>4
    <3>. QED  BY <3>2, <3>4, <3>5, <3>6, GraphPartsNext
  <2>6. CASE UNCHANGED graph
    BY <1>2, <2>6 DEF GraphOK
  <2>. QED  BY <1>2, <2>2, <2>3, <2>4, <2>5, <2>6 DEF GraphNext
<1>. QED  BY <1>1, <1>2, PTL DEF GraphSpec

(* A bound graph has two quotes of different platforms that answered one   *)
(* challenge, the issued one if there is one, however the graph came about *)
(* (has_verified_cross_platform_binding).                                  *)
THEOREM BindingIsWitnessed == GraphSpec => []BoundIsWitnessed
<1>1. GraphOK => BoundIsWitnessed
  <2>. SUFFICES ASSUME GraphOK, Bound(graph) PROVE Witnessed(graph)
    BY DEF BoundIsWitnessed, Witnessed
  <2>. QED  BY GraphShape, BoundWitness
<1>. QED  BY <1>1, GraphTypeCorrect, PTL

\* One more edge comes after the first binding one.
LEMMA LaterEdgeKeepsBinding ==
    ASSUME NEW g, NEW e, NEW S, g.edges \in Seq(S), Bound(g),
           NEW h, h.nodes = g.nodes, h.challenge = g.challenge,
           h.edges = Append(g.edges, e)
    PROVE  Bound(h)
<1>. DEFINE B == BindingEdges(g)
            C == BindingEdges(h)
            k == FirstIndex(B)
<1>1. /\ DOMAIN g.edges = 1 .. Len(g.edges)
      /\ Len(g.edges) \in Nat
      /\ DOMAIN h.edges = 1 .. Len(g.edges) + 1
      /\ \A i \in DOMAIN g.edges : h.edges[i] = g.edges[i]
  OBVIOUS
<1>2. /\ B # {}
      /\ B \subseteq DOMAIN g.edges
      /\ C \subseteq DOMAIN h.edges
  BY DEF Bound, BindingEdges
<1>3. \A x : Binds(h, x) <=> Binds(g, x)
  BY DEF Binds, NodeById, QuoteAt
<1>4. \A i \in DOMAIN g.edges : i \in C <=> i \in B
  BY <1>1, <1>3 DEF BindingEdges
<1>5. k \in B /\ \A j \in B : k <= j
  <2>1. B \subseteq Nat
    BY <1>1, <1>2
  <2>. HIDE DEF B
  <2>2. \E i \in B : \A j \in B : i <= j
    BY <1>2, <2>1, LeastIndex
  <2>. QED  BY <2>2 DEF FirstIndex
<1>. HIDE DEF B, C, k
<1>6. k \in C /\ \A j \in C : k <= j
  BY <1>1, <1>2, <1>4, <1>5
<1>7. FirstIndex(C) = k
  <2>1. C \subseteq Nat
    BY <1>1, <1>2
  <2>. QED  BY <1>6, <2>1, FirstIndexIs
<1>8. SharedValue(h, h.edges[k]) = SharedValue(g, g.edges[k])
  BY <1>1, <1>2, <1>5 DEF SharedValue, NodeById
<1>9. g.challenge = None \/ SharedValue(g, g.edges[k]) = g.challenge
  BY DEF Bound, B, k
<1>. QED  BY <1>6, <1>7, <1>8, <1>9 DEF Bound, C

(* No edge added later revokes a binding, whatever it joins: the first     *)
(* binding edge decides (has_verified_cross_platform_binding).             *)
THEOREM AddedEdgesSound == GraphSpec => AddedEdgesKeepBinding
<1>1. ASSUME GraphOK, NEW e \in EdgeMenu, AddEdge(e), Bound(graph)
      PROVE  Bound(graph')
  <2>1. /\ graph.edges \in Seq(EdgeMenu)
        /\ graph'.nodes = graph.nodes
        /\ graph'.challenge = graph.challenge
        /\ graph'.edges = Append(graph.edges, e)
    <3>1. graph.edges \in Seq(EdgeMenu)
      BY <1>1, GraphShape, ListShape, NodesAndEdgesAreBounded DEF EdgeLists
    <3>. QED  BY <1>1, <3>1 DEF AddEdge, GraphOK
  <2>. QED  BY <1>1, <2>1, LaterEdgeKeepsBinding
<1>2. GraphOK => [(\E e \in EdgeMenu : AddEdge(e)) => (Bound(graph) => Bound(graph'))]_graph
  BY <1>1
<1>. QED  BY <1>2, GraphTypeCorrect, PTL DEF AddedEdgesKeepBinding
=============================================================================
