----------------------------- MODULE AttackScope -----------------------------
(***************************************************************************)
(* Which known attacks count against a piece of evidence: the attack       *)
(* database, the firmware thresholds that mitigate an attack, the threat   *)
(* scope that declares an attack in or out of reach, and the residual risk *)
(* that the attacks left over amount to.                                   *)
(*                                                                         *)
(* An attack is a record [name, platforms, position, category, cost, fix,  *)
(* coverage, minSvn, patched]; coverage is in percent, minSvn a function   *)
(* from some of the platforms to versions.  A version is [fmt, comps], the *)
(* encoding of the string and the tuple it parses to.                      *)
(***************************************************************************)
EXTENDS Evidence, FiniteSetsExt

IsVersion(v) == v.comps \in Seq(Nat)

\* Python's tuple comparison: decided at the first difference, else by length.
LexAtLeast(a, b) ==
    \/ \E k \in DOMAIN a \cap DOMAIN b :
          /\ a[k] > b[k]
          /\ \A j \in 1 .. k - 1 : a[j] = b[j]
    \/ /\ Len(a) >= Len(b)
       /\ \A k \in DOMAIN b : a[k] = b[k]

\* Mutated form of PatchedBySvn: the comparison the wrong way round.
NotBeyondSvn(a, p, v) ==
    /\ p \in DOMAIN a.minSvn
    /\ (v.fmt = "opaque") = (a.minSvn[p].fmt = "opaque")
    /\ LexAtLeast(a.minSvn[p].comps, v.comps)

\* An opaque version parses to a string, which does not compare with numbers:
\* the TypeError counts as not patched.
PatchedBySvn(a, p, v) ==
    /\ p \in DOMAIN a.minSvn
    /\ (v.fmt = "opaque") = (a.minSvn[p].fmt = "opaque")
    /\ LexAtLeast(v.comps, a.minSvn[p].comps)

AttacksOn(db, p) == {a \in db : p \in a.platforms}

FirmwareFixes == {"firmware_patch_available", "microcode_update_available"}

Unmitigated(db, p, v, firmwarePatched) ==
    {a \in AttacksOn(db, p) :
        /\ ~a.patched
        /\ v # None => ~PatchedBySvn(a, p, v)
        /\ ~(firmwarePatched /\ v = None /\ a.fix \in FirmwareFixes)}

\* `configured`: an archaeology database has been configured and exists.
FirmwarePatched(db, p, v, configured) ==
    configured /\ Unmitigated(db, p, v, FALSE) = {}

\* Pairs <<platform, attack>>: an attack counts once for each platform of the
\* graph that it is unmitigated on.
UnmitigatedPairs(g, db, configured) ==
    UNION {{p} \X Unmitigated(db, p, FirstQuote(g, p).tcb,
                              FirmwarePatched(db, p, FirstQuote(g, p).tcb, configured)) :
           p \in PlatformsInGraph(g)}

-----------------------------------------------------------------------------
(* Threat scopes: [kind, name, positions, categories].                     *)

AllPositions == {"in-guest", "host", "physical", "supply-chain"}

AllCategories ==
    {"memory_bus_interposition", "rogue_memory_module", "rowhammer",
     "performance_counter_side_channel", "chosen_plaintext_attack",
     "interrupt_signal_ahoi", "cache_side_channel", "speculative_execution",
     "memory_corruption", "architectural", "voltage_manipulation",
     "synchronization_bug"}

SoftwareLayers ==
    AllCategories \ {"memory_bus_interposition", "rogue_memory_module", "rowhammer"}

Preset(name, positions, categories) ==
    [kind |-> "preset", name |-> name, positions |-> positions,
     categories |-> categories]

SoftwareOperator == Preset("software-operator", {"in-guest"}, SoftwareLayers)
CloudAdmin == Preset("cloud-admin", {"in-guest", "host"}, SoftwareLayers)
PhysicalHost == Preset("physical-host", {"in-guest", "host", "physical"}, AllCategories)
NationStatePhysical == Preset("nation-state-physical", AllPositions, AllCategories)

Presets == {SoftwareOperator, CloudAdmin, PhysicalHost, NationStatePhysical}

\* A scope file is [name, positions, includes, excludes]; positions may be None.
LoadThreatScope(file) ==
    [kind |-> "custom", name |-> file.name,
     positions |-> IF file.positions = None THEN AllPositions ELSE file.positions,
     categories |-> (IF file.includes = {} THEN AllCategories ELSE file.includes)
                       \ file.excludes]

\* Mutated form of ScopeIdentity: a custom scope is known by its name.
ScopeLabel(scope) == [kind |-> scope.kind, of |-> scope.name]

\* A preset's name is the engine's; a custom scope is hashed over what it selects.
ScopeIdentity(scope) ==
    [kind |-> scope.kind,
     of |-> IF scope.kind = "preset" THEN scope.name
            ELSE [positions |-> scope.positions, categories |-> scope.categories]]

ScopeDescription(scope) ==
    [kind |-> scope.kind, name |-> scope.name, identity |-> ScopeIdentity(scope),
     positions |-> scope.positions, categories |-> scope.categories]

\* Mutated form of InScope: containment the wrong way round.
InScopeSwapped(a, scope) ==
    /\ a.position = {} \/ scope.positions \subseteq a.position
    /\ scope.kind = "custom" => a.category = None \/ a.category \in scope.categories

\* A preset gates on positions only; a custom scope on positions and category.
InScope(a, scope) ==
    /\ a.position = {} \/ a.position \subseteq scope.positions
    /\ scope.kind = "custom" => a.category = None \/ a.category \in scope.categories

InScopePairs(pairs, scope) == {x \in pairs : InScope(x[2], scope)}

ApplicablePairs(g, db, configured, scope) ==
    InScopePairs(UnmitigatedPairs(g, db, configured), scope)

\* What the verdict discloses beside the score: the counts and the exclusions.
KnownNames(g, db) == {a.name : a \in UNION {AttacksOn(db, p) : p \in PlatformsInGraph(g)}}

KnownInScopeNames(g, db, scope) ==
    {a.name : a \in {b \in UNION {AttacksOn(db, p) : p \in PlatformsInGraph(g)} :
                        InScope(b, scope)}}

\* Mutated form of ExcludedNames: a category gate discloses nothing.
ExcludedByPosition(g, db, configured, scope) ==
    {x[2].name : x \in {y \in UnmitigatedPairs(g, db, configured) :
                           ~(y[2].position \subseteq scope.positions)}}

ExcludedNames(g, db, configured, scope) ==
    {x[2].name : x \in UnmitigatedPairs(g, db, configured)
                         \ ApplicablePairs(g, db, configured, scope)}

-----------------------------------------------------------------------------
(* Residual risk, as the rank of its tier.                                 *)

LOW == 1
MEDIUM == 2
HIGH == 3
CRITICAL == 4

RiskTiers == LOW .. CRITICAL

CheapCosts == {"~$10", "~$50"}

ResidualRisk(base, attacks) ==
    IF attacks = {} THEN base
    ELSE IF \E a \in attacks : \/ a.cost \in CheapCosts
                               \/ a.fix = "no_mitigation_available"
    THEN CRITICAL
    ELSE IF \E a \in attacks : a.fix = "hardware_redesign_required"
    THEN IF base = LOW THEN MEDIUM ELSE IF base = MEDIUM THEN HIGH ELSE CRITICAL
    ELSE IF base = LOW THEN MEDIUM ELSE base

-----------------------------------------------------------------------------
(* TCB liveness: a quoted version against the reference version.           *)

ResolveTcbStatus(quoted, reference) ==
    IF \/ quoted = None
       \/ reference = None
       \/ quoted.fmt # reference.fmt
       \/ Len(quoted.comps) # Len(reference.comps)
    THEN "unknown"
    ELSE IF LexAtLeast(quoted.comps, reference.comps) THEN "current" ELSE "expired"
=============================================================================
