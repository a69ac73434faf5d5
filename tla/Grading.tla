------------------------------- MODULE Grading -------------------------------
(***************************************************************************)
(* One appraisal of an evidence graph: compute_assurance_level and the     *)
(* compute_numeric_score it calls.  The verdict is not taken at one        *)
(* instant.  The label, the risk and the prose are derived first and the   *)
(* number after them, and each half reads the clock and the TCB reference  *)
(* database for itself; both may have moved in between, because the clock  *)
(* runs and another process may be syncing the database.                   *)
(***************************************************************************)
EXTENDS Scoring

CONSTANTS
    Requests,         \* what a caller may ask for, see RequestsAreRecords
    Scopes,           \* the threat scopes there are
    References,       \* versions the reference database may name as current
    NonSvnPlatforms,  \* their version is the digest of an image
    Horizon           \* bound on the clock

\* graph: the evidence; db: the curated attack database; conformance: None, or
\* [satisfied, total] of the policy's rule weights; configured: whether there is
\* a reference database; live: the vendor feed's answers, by platform.
ASSUME RequestsAreRecords ==
    \A r \in Requests :
        /\ DOMAIN r = {"graph", "db", "scope", "conformance", "profile",
                       "configured", "live"}
        /\ r.scope \in Scopes
        /\ r.configured \in BOOLEAN

Graphs == {r.graph : r \in Requests}
Databases == {r.db : r \in Requests}
Conformances == {r.conformance : r \in Requests}
ProfileNames == {r.profile : r \in Requests}
Feeds == {r.live : r \in Requests}

ASSUME GraphsWellFormed == \A g \in Graphs : WellFormed(g)
ASSUME GraphsAreRecords ==
    \A g \in Graphs :
        /\ DOMAIN g = {"nodes", "edges", "challenge"}
        /\ \A i \in DOMAIN g.nodes : DOMAIN g.nodes[i] = NodeFields
\* A version parses to numbers (_parse_svn); an opaque one, which is compared
\* with its like only, stands by its rank among them.
ASSUME VersionsAreNumbers ==
    /\ \A v \in References : IsVersion(v)
    /\ \A g \in Graphs : \A i \in DOMAIN g.nodes :
          g.nodes[i].tcb # None => IsVersion(g.nodes[i].tcb)
    /\ \A db \in Databases : \A a \in db : \A p \in DOMAIN a.minSvn :
          IsVersion(a.minSvn[p])
\* An attack has a file of its own name.
ASSUME NamesIdentifyAttacks ==
    \A db \in Databases : \A a, b \in db : a.name = b.name => a = b
ASSUME PresetsAreTheEngines == \A s \in Scopes : s.kind = "preset" => s \in Presets
ASSUME DatabasesAreFinite == \A db \in Databases : IsFiniteSet(db)
\* In percent.
ASSUME CoverageIsAShare == \A db \in Databases : \A a \in db : a.coverage \in Nat
ASSUME PlatformsAreFinite == IsFiniteSet(Platforms)
ASSUME ProfilesAreKnown == ProfileNames \subseteq DOMAIN Profiles
\* A policy has a rule, and every rule weighs something.
ASSUME ConformancesAreShares ==
    \A c \in Conformances :
        c # None => c.total \in Nat \ {0} /\ c.satisfied \in 0 .. c.total
ASSUME NoneIsNoShare == None \notin [satisfied : Nat, total : Nat]
ASSUME NoneIsNoVersion == None \notin References
ASSUME FeedsAreFunctions == Feeds \subseteq [Platforms -> References \cup {None}]
ASSUME SomeHaveNoSvn == NonSvnPlatforms \subseteq Platforms
ASSUME HorizonIsNat == Horizon \in Nat

VARIABLES
    now,        \* the clock
    reference,  \* the current TCB version by platform in the database, or None
    request,    \* what the caller asked for: graph, db, scope, ...
    draft,      \* the first half of the verdict, or None
    verdict     \* the verdict, or None

vars == <<now, reference, request, draft, verdict>>

\* No current TCB is ever recorded of a platform without an SVN.
ReferenceStates == [Platforms \ NonSvnPlatforms -> References \cup {None}]

\* Only Intel publishes a TCB feed; `live` is what it answers, from its cache.
ReferenceFor(p, refs, live) ==
    IF p \in DOMAIN refs /\ refs[p] # None THEN refs[p] ELSE live[p]

\* One status per platform: that of the platform's first quote.
ResolveTcbStatuses(g, refs, live) ==
    [p \in PlatformsInGraph(g) |->
        ResolveTcbStatus(FirstQuote(g, p).tcb, ReferenceFor(p, refs, live))]

-----------------------------------------------------------------------------
(* Assurance levels (AssuranceLevel) and the base risk that goes with one. *)

NONE == 0
CONFIG_VERIFIED == 1
HARDWARE_ATTESTED == 2
OPERATIONAL_ASSURANCE == 3
DISTRIBUTED_TRUST == 4

\* Mutated form of AssuranceLevel: two platforms taken for two bound quotes.
LevelByPlatformCount(g) ==
    IF PlatformsInGraph(g) = {} THEN NONE
    ELSE IF ~AllQuotesDebugDisabled(g) THEN CONFIG_VERIFIED
    ELSE IF ~HasBuildProvenance(g) THEN HARDWARE_ATTESTED
    ELSE IF Cardinality(PlatformsInGraph(g)) > 1 THEN DISTRIBUTED_TRUST
    ELSE OPERATIONAL_ASSURANCE

AssuranceLevel(g) ==
    IF PlatformsInGraph(g) = {} THEN NONE
    ELSE IF ~AllQuotesDebugDisabled(g) THEN CONFIG_VERIFIED
    ELSE IF ~HasBuildProvenance(g) THEN HARDWARE_ATTESTED
    ELSE IF Bound(g) THEN DISTRIBUTED_TRUST
    ELSE OPERATIONAL_ASSURANCE

BaseRisk(level) ==
    IF level \in {OPERATIONAL_ASSURANCE, DISTRIBUTED_TRUST} THEN MEDIUM ELSE HIGH

\* The per-quote lines of the temporal summary: the platform's status beside
\* the version this quote states.
TemporalLines(g, resolutions) ==
    [i \in {j \in QuoteAt(g) : g.nodes[j].platform \in Platforms} |->
        IF g.nodes[i].platform \in NonSvnPlatforms THEN "not applicable"
        ELSE [status |-> resolutions[g.nodes[i].platform], quoted |-> g.nodes[i].tcb]]

Applicable(r) == ApplicablePairs(r.graph, r.db, r.configured, r.scope)

-----------------------------------------------------------------------------
Init ==
    /\ now = 0
    /\ reference \in ReferenceStates
    /\ request \in Requests
    /\ ~request.configured => \A p \in DOMAIN reference : reference[p] = None
    /\ draft = None
    /\ verdict = None

\* Only evidence that holds a date tells two instants apart.
Tick ==
    /\ verdict = None
    /\ now < Horizon
    /\ \E i \in DOMAIN request.graph.nodes : request.graph.nodes[i].ts # None
    /\ now' = now + 1
    /\ UNCHANGED <<reference, request, draft, verdict>>

\* Another process writes a current TCB record into the configured database.
UpdateReference(p, v) ==
    /\ verdict = None
    /\ request.configured
    /\ reference' = [reference EXCEPT ![p] = v]
    /\ UNCHANGED <<now, request, draft, verdict>>

\* No quote names a platform: no score, no draft, the verdict at once.
RefuseEvidence ==
    /\ draft = None
    /\ verdict = None
    /\ PlatformsInGraph(request.graph) = {}
    /\ verdict' = [level |-> NONE, risk |-> HIGH, score |-> None]
    /\ UNCHANGED <<now, reference, request, draft>>

\* What the first half of compute_assurance_level derives.
Draft(r, refs, t) ==
    LET g == r.graph
        level == AssuranceLevel(g)
    IN  [level |-> level,
         risk |-> ResidualRisk(BaseRisk(level), {x[2] : x \in Applicable(r)}),
         applicable |-> Applicable(r),
         excluded |-> ExcludedNames(g, r.db, r.configured, r.scope),
         known |-> KnownNames(g, r.db),
         counted |-> KnownInScopeNames(g, r.db, r.scope),
         temporal |-> TemporalLines(g, ResolveTcbStatuses(g, refs, r.live)),
         freshness |-> TemporalFreshness(g, t)]

Judge ==
    /\ draft = None
    /\ verdict = None
    /\ PlatformsInGraph(request.graph) # {}
    /\ draft' = Draft(request, reference, now)
    /\ UNCHANGED <<now, reference, request, verdict>>

\* The arguments of compute_numeric_score, as they are at instant t.
ScoreInput(r, d, t, refs) ==
    [graph |-> r.graph, db |-> r.db, scope |-> r.scope, conformance |-> r.conformance,
     level |-> d.level, applicable |-> d.applicable,
     resolutions |-> ResolveTcbStatuses(r.graph, refs, r.live),
     freshness |-> TemporalFreshness(r.graph, t)]

ScoreEvidence ==
    /\ draft # None
    /\ verdict = None
    /\ verdict' = [level |-> draft.level, risk |-> draft.risk,
                   label |-> draft.freshness,
                   excluded |-> draft.excluded, known |-> draft.known,
                   counted |-> draft.counted, temporal |-> draft.temporal,
                   attacks |-> draft.applicable,
                   scope |-> ScopeDescription(request.scope),
                   score |-> Score(ScoreInput(request, draft, now, reference),
                                   Profiles[request.profile])]
    /\ UNCHANGED <<now, reference, request, draft>>

Next ==
    \/ Tick
    \/ \E p \in Platforms \ NonSvnPlatforms, v \in References : UpdateReference(p, v)
    \/ RefuseEvidence
    \/ Judge
    \/ ScoreEvidence

Spec == Init /\ [][Next]_vars

-----------------------------------------------------------------------------
Scored == verdict # None /\ verdict.score # None

\* The same evidence at the same instant, under scope s.
PairsUnder(s) == ApplicablePairs(request.graph, request.db, request.configured, s)

RiskUnder(s) == ResidualRisk(BaseRisk(verdict.level), {x[2] : x \in PairsUnder(s)})

InputUnder(s) == [ScoreInput(request, draft, now, reference)
                    EXCEPT !.scope = s, !.applicable = PairsUnder(s)]

ScoreUnder(s) == Score(InputUnder(s), Profiles[request.profile])

\* Everything in reach under s is in reach under t.
NoWider(s, t) ==
    /\ s.positions \subseteq t.positions
    /\ t.kind = "custom" => s.kind = "custom" /\ s.categories \subseteq t.categories

(* A draft has one of the levels above NONE, a risk tier and a freshness   *)
(* label, and a scored verdict repeats all three                           *)
(* (compute_assurance_level, compute_numeric_score).                       *)
TypeOK ==
    /\ now \in 0 .. Horizon
    /\ reference \in ReferenceStates
    /\ draft # None =>
          /\ draft.level \in CONFIG_VERIFIED .. DISTRIBUTED_TRUST
          /\ draft.risk \in RiskTiers
          /\ draft.freshness \in DOMAIN FreshnessScore
    /\ verdict # None => verdict.level \in NONE .. DISTRIBUTED_TRUST
    /\ Scored => /\ verdict.level = draft.level
                 /\ verdict.risk = draft.risk
                 /\ verdict.label = draft.freshness

(* Level 4 is earned: the evidence holds two quotes of different platforms *)
(* that answered one challenge, which is the issued one when there is one, *)
(* a build provenance, and no quote whose debug mode is not disabled       *)
(* (compute_assurance_level, has_verified_cross_platform_binding).         *)
DistributedTrustIsEarned ==
    verdict # None /\ verdict.level = DISTRIBUTED_TRUST =>
        LET g == request.graph
        IN  /\ \E i, j \in QuoteAt(g) :
                  /\ g.nodes[i].platform # g.nodes[j].platform
                  /\ BindingValue(g.nodes[i]) = BindingValue(g.nodes[j])
                  /\ BindingValue(g.nodes[i]) # None
                  /\ g.challenge = None \/ BindingValue(g.nodes[i]) = g.challenge
            /\ HasBuildProvenance(g)
            /\ \A i \in QuoteAt(g) : g.nodes[i].debug = TRUE

(* The number is never computed from fresher evidence than the label says: *)
(* the score's own reading of the clock comes after the label's            *)
(* (compute_temporal_freshness, read twice in one appraisal).              *)
ScoreNeverFresherThanLabel ==
    Scored => FreshnessScore[TemporalFreshness(request.graph, now)]
                <= FreshnessScore[verdict.label]

(* A scope that reaches more attacks never makes the same evidence look    *)
(* safer: the residual risk is no lower under the wider scope              *)
(* (_attacks_in_threat_model, _compute_residual_risk_from_attacks).        *)
WiderScopeNeverLowersRisk ==
    Scored => \A s \in Scopes \cup Presets :
                 NoWider(request.scope, s) => verdict.risk <= RiskUnder(s)

(* Nor does it raise the number: presets are totally ordered and so are    *)
(* their totals and threat points (compute_numeric_score, GRADING.md).     *)
WiderPresetNeverRaisesTotal ==
    Scored /\ request.scope.kind = "preset" =>
        \A s \in Presets :
            NoWider(request.scope, s) =>
                /\ ScoreUnder(s).total <= verdict.score.total
                /\ ScoreUnder(s).subscores.threat <= verdict.score.subscores.threat

(* A submitter's own scope, however narrow, never scores above what the    *)
(* engine's cloud-admin scope awards the same evidence                     *)
(* (compute_numeric_score, the reference cap).                             *)
CustomScopeNeverBuysPoints ==
    Scored /\ request.scope.kind = "custom" =>
        /\ verdict.score.total <= ScoreUnder(CloudAdmin).total
        /\ verdict.score.platformScore <= ScoreUnder(CloudAdmin).platformScore

(* An appraisal without a policy is neither credited nor charged: up to    *)
(* three roundings, its total is that of a policy satisfied in the same    *)
(* proportion as the other dimensions (_renormalized_total).               *)
AbsentPolicyIsNeutral ==
    Scored /\ request.conformance = None =>
        LET profile == Profiles[request.profile]
            earned == MapThenSumSet(LAMBDA d : verdict.score.subscores[d],
                                    {"attestation", "trust", "threat", "freshness"})
            alike == [satisfied |-> earned, total |-> 100 - profile.compliance]
            in == ScoreInput(request, draft, now, reference)
            judged == Score([in EXCEPT !.conformance = alike], profile)
        IN  verdict.score.total - judged.total \in -2 .. 2

(* A verdict can be graded again from what it records: every scope of the  *)
(* recorded identity, whatever it is called and however its file puts it,  *)
(* counts the same attacks of the same evidence and gives the same score   *)
(* (scope_identity, CustomThreatScope.digest, scope_description).          *)
RecordedScopeReproducesTheGrade ==
    Scored => \A s \in Scopes \cup Presets :
                 ScopeIdentity(s) = verdict.scope.identity =>
                     /\ PairsUnder(s) = verdict.attacks
                     /\ ScoreUnder(s) = verdict.score

\* The graph with every quote of platform p restated at version v.
AtVersion(g, p, v) ==
    [g EXCEPT !.nodes = [i \in DOMAIN g.nodes |->
        IF i \in QuoteAt(g) /\ g.nodes[i].platform = p
        THEN [g.nodes[i] EXCEPT !.tcb = v] ELSE g.nodes[i]]]

NoOlder(v, w) ==
    v # None /\ v.fmt = w.fmt /\ Len(v.comps) = Len(w.comps) /\ LexAtLeast(w.comps, v.comps)

(* Newer firmware never hurts: with every quote of a platform restated at  *)
(* a later version, the risk does not rise and the total does not fall     *)
(* (_is_attack_patched_by_svn, resolve_tcb_status).                        *)
NewerFirmwareNeverHurts ==
    Scored => \A p \in PlatformsInGraph(request.graph), w \in References :
        (\A i \in QuoteAt(request.graph) :
            request.graph.nodes[i].platform = p
                => NoOlder(request.graph.nodes[i].tcb, w)) =>
            LET newer == [request EXCEPT !.graph = AtVersion(request.graph, p, w)]
                in == [ScoreInput(newer, draft, now, reference)
                         EXCEPT !.applicable = Applicable(newer)]
            IN  /\ ResidualRisk(BaseRisk(verdict.level), {x[2] : x \in Applicable(newer)})
                     <= verdict.risk
                /\ verdict.score.total <= Score(in, Profiles[request.profile]).total

(* Every known attack is accounted for: it counted in the score, or it is  *)
(* named as excluded by the scope, or it is mitigated on every platform it *)
(* could hit; and none is both counted and excluded                        *)
(* (_known_attack_count, _collect_out_of_scope_attack_names).              *)
EveryAttackAccountedFor ==
    Scored =>
        LET g == request.graph
            counted == {x[2].name : x \in verdict.attacks}
            mitigated(a) == \A p \in PlatformsInGraph(g) \cap a.platforms :
                               \/ a.patched
                               \/ /\ FirstQuote(g, p).tcb # None
                                  /\ PatchedBySvn(a, p, FirstQuote(g, p).tcb)
        IN  /\ counted \cap verdict.excluded = {}
            /\ counted \subseteq verdict.counted
            /\ \A a \in request.db :
                  a.name \in verdict.known =>
                     \/ a.name \in counted \cup verdict.excluded
                     \/ mitigated(a)
=============================================================================
