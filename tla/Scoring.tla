------------------------------- MODULE Scoring -------------------------------
(***************************************************************************)
(* The 0-100 score.  Five dimensions are measured on a 0-20 scale, weighed *)
(* by the profile, rounded, summed and rescaled over the dimensions that   *)
(* are present.  The threat dimension is 400 / (20 + penalty); it is kept  *)
(* here as its penalty, so that every rounding is of an exact fraction.    *)
(***************************************************************************)
EXTENDS AttackScope

\* Python's round: to the nearest integer, a tie to the even one.
RoundHalfEven(n, d) ==
    LET q == n \div d
        r == n % d
    IN  IF 2 * r > d \/ (2 * r = d /\ q % 2 = 1) THEN q + 1 ELSE q

LesserOf(a, b) == IF a <= b THEN a ELSE b

GreaterOf(a, b) == IF a <= b THEN b ELSE a

CostPenalty(cost) ==
    CASE cost = "~$10" -> 10
      [] cost = "~$50" -> 8
      [] cost = "~$1,000" -> 4
      [] OTHER -> 5

DifficultyPenalty(fix) ==
    CASE fix = "no_mitigation_available" -> 10
      [] fix = "hardware_redesign_required" -> 6
      [] fix \in FirmwareFixes -> 2
      [] fix = "software_fix_available" -> 1
      [] OTHER -> 5

Penalty(a) ==
    RoundHalfEven((CostPenalty(a.cost) + DifficultyPenalty(a.fix)) * a.coverage, 100)

RawPenalty(pairs) == MapThenSumSet(LAMBDA x : Penalty(x[2]), pairs)

HalfLife == 20

Profiles ==
    [default |->
        [attestation |-> 20, trust |-> 20, threat |-> 20, freshness |-> 20,
         compliance |-> 20, A |-> 90, B |-> 75, C |-> 60, D |-> 45],
     finance |->
        [attestation |-> 15, trust |-> 25, threat |-> 15, freshness |-> 25,
         compliance |-> 20, A |-> 92, B |-> 80, C |-> 65, D |-> 50],
     gpu_tee |->
        [attestation |-> 15, trust |-> 25, threat |-> 25, freshness |-> 20,
         compliance |-> 15, A |-> 88, B |-> 75, C |-> 60, D |-> 45]]

-----------------------------------------------------------------------------
(* The attacks a submitter-written scope is held to: all of them, whether  *)
(* mitigated or not, on every platform any node of the graph names.        *)
ReferencePairs(g, db) ==
    InScopePairs(
        UNION {{p} \X AttacksOn(db, p) :
               p \in {q \in Platforms : \E i \in DOMAIN g.nodes : g.nodes[i].platform = q}},
        CloudAdmin)

\* Mutated forms of EffectivePenalty: the submitter's scope taken at its word,
\* and the mean of the penalties in place of their sum.
SubmittersPenalty(g, db, applicable, scope) == RawPenalty(applicable)

MeanPenalty(g, db, applicable, scope) ==
    IF applicable = {} THEN 0 ELSE RawPenalty(applicable) \div Cardinality(applicable)

EffectivePenalty(g, db, applicable, scope) ==
    IF scope.kind = "custom"
    THEN GreaterOf(RawPenalty(applicable), RawPenalty(ReferencePairs(g, db)))
    ELSE RawPenalty(applicable)

AttestationPoints(level) == LesserOf(4 * level, 20)

\* Every quote is judged by the status resolved for its platform; one that
\* names no platform by the status it states itself.
TcbCurrent(g, resolutions) ==
    \A i \in QuoteAt(g) :
        IF g.nodes[i].platform \in Platforms
        THEN resolutions[g.nodes[i].platform] = "current"
        ELSE g.nodes[i].status \in {"current", None}

StrongEvidence == {"computed-golden", "runtime-anchored"}

TrustPoints(g, resolutions) ==
    LET earned == {c \in 1 .. 6 :
            \/ c = 1 /\ AllQuotesDebugDisabled(g)
            \/ c = 2 /\ TcbCurrent(g, resolutions)
            \/ c = 3 /\ HasBuildProvenance(g)
            \/ c = 4 /\ ProvenanceDimension(g) = "chained"
            \/ c = 5 /\ Bound(g)
            \/ c = 6 /\ WeakestEvidenceClass(g) \in StrongEvidence}
    IN  LesserOf(5 * Cardinality(earned), 20)

CompliancePoints(conformance) ==
    RoundHalfEven(20 * conformance.satisfied, conformance.total)

-----------------------------------------------------------------------------
GradeOf(total, profile) ==
    CASE total >= profile.A -> "A"
      [] total >= profile.B -> "B"
      [] total >= profile.C -> "C"
      [] total >= profile.D -> "D"
      [] OTHER -> "F"

\* Mutated form of PresentWeight: an absent policy weighs as a failed one.
FullWeight(profile, judged) == 100

\* Absent compliance is left out of the denominator too.
PresentWeight(profile, judged) ==
    profile.attestation + profile.trust + profile.threat + profile.freshness
        + (IF judged THEN profile.compliance ELSE 0)

(* in: the graph, attack db, applicable pairs, scope, level, TCB status by *)
(* platform, freshness label and policy conformance of one appraisal.      *)
Score(in, profile) ==
    LET trust == TrustPoints(in.graph, in.resolutions)
        attestation == AttestationPoints(in.level)
        fresh == FreshnessScore[in.freshness]
        penalty == EffectivePenalty(in.graph, in.db, in.applicable, in.scope)
        judged == in.conformance # None
        compliance == IF judged THEN CompliancePoints(in.conformance) ELSE 0
        weighted ==
            [attestation |-> RoundHalfEven(attestation * profile.attestation, 20),
             trust |-> RoundHalfEven(trust * profile.trust, 20),
             threat |-> RoundHalfEven(HalfLife * profile.threat, HalfLife + penalty),
             freshness |-> RoundHalfEven(fresh * profile.freshness, 20),
             compliance |-> RoundHalfEven(compliance * profile.compliance, 20)]
        points == weighted.attestation + weighted.trust + weighted.threat
                    + weighted.freshness + weighted.compliance
        present == PresentWeight(profile, judged)
        total == GreaterOf(0, LesserOf(100, RoundHalfEven(100 * points, present)))
    IN  [total |-> total,
         grade |-> GradeOf(total, profile),
         subscores |-> weighted,
         penalty |-> penalty,
         platformScore |-> RoundHalfEven(100 * HalfLife, HalfLife + penalty),
         quoteScore |-> RoundHalfEven(100 * (attestation + trust + fresh + compliance),
                                      20 * (IF judged THEN 4 ELSE 3)),
         capped |-> /\ in.scope.kind = "custom"
                    /\ penalty > RawPenalty(in.applicable)]
=============================================================================
