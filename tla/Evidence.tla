------------------------------ MODULE Evidence ------------------------------
(***************************************************************************)
(* What the engine reads off one evidence graph: which quotes it holds,    *)
(* whether two of them are bound to the same session, how fresh they are,  *)
(* whether the infrastructure provenance is chained to the workload.       *)
(*                                                                         *)
(* A graph is a record [nodes, edges, challenge].  The nodes are a         *)
(* sequence because the code keeps them in a dict, whose iteration order   *)
(* is the insertion order, and several readers stop at the first match.    *)
(***************************************************************************)
EXTENDS Integers, Sequences, FiniteSets

CONSTANTS
    Platforms,  \* the TEE platforms of this instance (Platform)
    None,       \* Python's None
    Blank       \* a string that is not None but strips to the empty string

(***************************************************************************)
(* Nodes and edges.  A node keeps the fields the verdict reads:            *)
(*   id, type, platform, debug (debug_disabled: TRUE, FALSE or None),      *)
(*   tcb (the quoted version), status (tcb_status), meas (measurement),    *)
(*   binding (the shared challenge in metadata), class (evidence class),   *)
(*   ts and ttl, and subject (the digest an IaC provenance is about).      *)
(***************************************************************************)
NodeFields == {"id", "type", "platform", "debug", "tcb", "status", "meas",
               "binding", "class", "ts", "ttl", "subject"}

NodeById(g, id) == {i \in DOMAIN g.nodes : g.nodes[i].id = id}

QuoteAt(g) == {i \in DOMAIN g.nodes : g.nodes[i].type = "quote"}

FirstIndex(S) == CHOOSE i \in S : \A j \in S : i <= j

PlatformsInGraph(g) ==
    {p \in Platforms : \E i \in QuoteAt(g) : g.nodes[i].platform = p}

AllQuotesDebugDisabled(g) == \A i \in QuoteAt(g) : g.nodes[i].debug = TRUE

HasBuildProvenance(g) ==
    \E i \in DOMAIN g.nodes : g.nodes[i].type = "build_provenance"

\* The first quote of platform p in insertion order; p is in the graph.
FirstQuote(g, p) ==
    g.nodes[FirstIndex({i \in QuoteAt(g) : g.nodes[i].platform = p})]

-----------------------------------------------------------------------------
(* Cross-platform binding.                                                 *)

BindingValue(n) == IF n.binding = Blank THEN None ELSE n.binding

\* What an edge must be for the loop of has_verified_cross_platform_binding
\* to reach its return statement.
Binds(g, e) ==
    /\ e.type = "bound_to"
    /\ \E s \in NodeById(g, e.source), t \in NodeById(g, e.target) :
          /\ s \in QuoteAt(g)
          /\ t \in QuoteAt(g)
          /\ g.nodes[s].platform \in Platforms
          /\ g.nodes[t].platform \in Platforms
          /\ g.nodes[s].platform # g.nodes[t].platform
          /\ BindingValue(g.nodes[s]) # None
          /\ BindingValue(g.nodes[s]) = BindingValue(g.nodes[t])

BindingEdges(g) == {i \in DOMAIN g.edges : Binds(g, g.edges[i])}

SharedValue(g, e) == BindingValue(g.nodes[FirstIndex(NodeById(g, e.source))])

\* Mutated forms of Bound: the challenge forgotten, the last edge decisive.
BoundToEachOther(g) == BindingEdges(g) # {}

LastIndex(S) == CHOOSE i \in S : \A j \in S : i >= j

BoundByLastEdge(g) ==
    /\ BindingEdges(g) # {}
    /\ \/ g.challenge = None
       \/ SharedValue(g, g.edges[LastIndex(BindingEdges(g))]) = g.challenge

\* The verdict is taken at the first binding edge, whichever challenge it has.
Bound(g) ==
    /\ BindingEdges(g) # {}
    /\ \/ g.challenge = None
       \/ SharedValue(g, g.edges[FirstIndex(BindingEdges(g))]) = g.challenge

-----------------------------------------------------------------------------
(* Provenance, evidence class, freshness.                                  *)

MeasuredQuotes(g) == {i \in QuoteAt(g) : g.nodes[i].meas # None}

ProvenanceAt(g) == {i \in DOMAIN g.nodes : g.nodes[i].type = "iac_provenance"}

ProvenanceDimension(g) ==
    IF ProvenanceAt(g) = {} THEN "absent"
    ELSE IF /\ MeasuredQuotes(g) # {}
            /\ \E i \in ProvenanceAt(g) :
                  /\ g.nodes[i].subject # None
                  /\ g.nodes[i].subject
                        = g.nodes[FirstIndex(MeasuredQuotes(g))].meas
         THEN "chained"
         ELSE "signed"

Ladder == <<"unknown", "point-in-time", "vendor-published", "vendor-captured",
            "captured", "computed-golden", "runtime-anchored">>

ProvenanceRank(c) ==
    IF c = None THEN 1 ELSE CHOOSE r \in DOMAIN Ladder : Ladder[r] = c

WeakestEvidenceClass(g) ==
    LET ranks == {ProvenanceRank(g.nodes[i].class) : i \in DOMAIN g.nodes}
    IN  IF ranks = {} THEN "unknown"
        ELSE Ladder[CHOOSE r \in ranks : \A q \in ranks : r <= q]

Stamped(g) == {i \in DOMAIN g.nodes : g.nodes[i].ts # None}

\* A dict has one node per id.
Indexed(g) ==
    /\ DOMAIN g.nodes \subseteq Nat
    /\ DOMAIN g.edges \subseteq Nat
    /\ \A i, j \in DOMAIN g.nodes : g.nodes[i].id = g.nodes[j].id => i = j

\* Besides, a stamped node has a time and a time to live.
WellFormed(g) ==
    /\ Indexed(g)
    /\ \A i \in Stamped(g) : g.nodes[i].ts \in Int /\ g.nodes[i].ttl \in Int

\* Mutated form: the age read as a time of day (timedelta.seconds), which
\* starts over after DayLength units.
DayLength == 6

FreshnessByTimeOfDay(g, now) ==
    IF \E i \in Stamped(g) : (now - g.nodes[i].ts) % DayLength >= g.nodes[i].ttl
    THEN "STALE"
    ELSE IF \E i \in Stamped(g) :
               5 * ((now - g.nodes[i].ts) % DayLength) >= 4 * g.nodes[i].ttl
    THEN "AGING"
    ELSE "FRESH"

\* AGING from 80% of the time to live on, STALE from the whole of it.
TemporalFreshness(g, now) ==
    IF \E i \in Stamped(g) : now - g.nodes[i].ts >= g.nodes[i].ttl
    THEN "STALE"
    ELSE IF \E i \in Stamped(g) :
               5 * (now - g.nodes[i].ts) >= 4 * g.nodes[i].ttl
    THEN "AGING"
    ELSE "FRESH"

FreshnessScore == [FRESH |-> 20, AGING |-> 12, STALE |-> 0]
=============================================================================
