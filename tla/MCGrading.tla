------------------------------ MODULE MCGrading ------------------------------
(***************************************************************************)
(* Graphs, attack databases and scopes for the appraisal runs.  The        *)
(* attacks are abridged from data/attacks/, one of each kind the rules     *)
(* tell apart; one more has no mitigation at all, which is what a record   *)
(* with an unreadable difficulty is loaded as.                             *)
(***************************************************************************)
EXTENDS Grading, TLC

CONSTANTS tdx, snp, nitro, c1, c2, m1

MCPlatforms == {tdx, snp, nitro}
MCNonSvn == {nitro}

Hex(n) == [fmt |-> "hex", comps |-> <<1, n>>]
Dotted(n) == [fmt |-> "dotted", comps |-> <<0, 1, n>>]

-----------------------------------------------------------------------------
Node(id, type) ==
    [id |-> id, type |-> type, platform |-> None, debug |-> None, tcb |-> None,
     status |-> None, meas |-> None, binding |-> None, class |-> None,
     ts |-> None, ttl |-> 5, subject |-> None]

Quote(id, p, v, b) ==
    [Node(id, "quote") EXCEPT !.platform = p, !.debug = TRUE, !.tcb = v,
                              !.binding = b, !.meas = m1]

TdxOld == Quote("t1", tdx, Hex(1), c1)
TdxNew == Quote("t2", tdx, Hex(2), c2)
SnpQuote == Quote("s1", snp, Dotted(1), c1)
SnpOther == Quote("s2", snp, Dotted(1), c2)
SnpDebug == [Quote("s3", snp, Dotted(2), c1) EXCEPT !.debug = FALSE]
TdxUnversioned == [TdxOld EXCEPT !.tcb = None, !.binding = Blank]
Build == [Node("b", "build_provenance") EXCEPT !.class = "runtime-anchored"]
Iac == [Node("i", "iac_provenance") EXCEPT !.subject = m1, !.class = "captured"]
NitroQuote == Quote("n", nitro, None, c1)
Aged(n, t) == [n EXCEPT !.ts = t, !.class = "computed-golden"]
Cloud == [Node("c", "cloud_metadata") EXCEPT !.platform = snp]

BoundTo(a, b) == [source |-> a, target |-> b, type |-> "bound_to"]

Graph(nodes, edges, c) == [nodes |-> nodes, edges |-> edges, challenge |-> c]

ScopeGraphs ==
    {Graph(<<TdxOld>>, <<>>, None),
     Graph(<<TdxNew, Build, Iac>>, <<>>, None),
     Graph(<<TdxUnversioned, Cloud>>, <<>>, c1),
     Graph(<<SnpDebug, Build>>, <<>>, None),
     Graph(<<TdxOld, SnpQuote, Build>>, <<BoundTo("t1", "s1")>>, None),
     Graph(<<TdxOld, SnpOther, Build>>, <<BoundTo("t1", "s2")>>, None),
     Graph(<<TdxOld, SnpQuote, Build>>, <<BoundTo("t1", "s1")>>, c1),
     Graph(<<TdxOld, SnpQuote, Build>>, <<BoundTo("t1", "s1")>>, c2),
     Graph(<<TdxOld, SnpDebug, Build>>, <<BoundTo("t1", "s3")>>, None),
     Graph(<<TdxOld, TdxNew, SnpQuote, Iac>>, <<BoundTo("t1", "s1")>>, None),
     Graph(<<NitroQuote, TdxNew, Build>>, <<BoundTo("n", "t2")>>, None),
     Graph(<<Build, Cloud>>, <<>>, None)}

TimeGraphs ==
    {Graph(<<Aged(TdxOld, 0)>>, <<>>, None),
     Graph(<<Aged(TdxNew, 1), Aged(SnpQuote, 2)>>, <<>>, None),
     Graph(<<Aged(SnpQuote, 3), [Aged(Build, 0) EXCEPT !.ttl = 2]>>, <<>>, None),
     Graph(<<TdxOld, TdxNew>>, <<>>, None)}

-----------------------------------------------------------------------------
Attack(name, ps, pos, cat, cost, fix) ==
    [name |-> name, platforms |-> ps, position |-> pos, category |-> cat,
     cost |-> cost, fix |-> fix, coverage |-> 100, minSvn |-> <<>>, patched |-> FALSE]

Heckler == [Attack("Heckler", {nitro, tdx, snp}, {"host"}, "interrupt_signal_ahoi",
                   "Unknown", "software_fix_available") EXCEPT !.coverage = 50]
TeeFail == Attack("TEE.fail", {tdx, snp}, {"physical"}, "memory_bus_interposition",
                  "~$1,000", "hardware_redesign_required")
BadRam == [Attack("BadRAM", {snp}, {"physical"}, "rogue_memory_module",
                  "~$10", "firmware_patch_available") EXCEPT !.minSvn = (snp :> Dotted(2))]
TdxDown == [Attack("TDXdown", {tdx}, {"host"}, "interrupt_signal_ahoi",
                   "Unknown", "firmware_patch_available") EXCEPT !.minSvn = (tdx :> Hex(2))]
PortPrint == Attack("PortPrint", {tdx, snp}, {"host"},
                    "performance_counter_side_channel", "Unknown",
                    "hardware_redesign_required")
InGuest == Attack("in-guest", {tdx}, {"in-guest"}, "architectural", "Unknown",
                  "no_mitigation_available")
Unclassified == [Attack("unclassified", {tdx, snp}, {}, None, "~$50",
                        "microcode_update_available") EXCEPT !.patched = TRUE]

MCDatabases ==
    {{Heckler, TeeFail, TdxDown}, {Heckler, BadRam, PortPrint},
     {TdxDown, InGuest, Unclassified}, {TeeFail, [Unclassified EXCEPT !.patched = FALSE]}}

File(name, positions, includes, excludes) ==
    [name |-> name, positions |-> positions, includes |-> includes,
     excludes |-> excludes]

Counter == {"performance_counter_side_channel"}

\* Three files of one name, and two of one meaning.
ScopeFiles ==
    {File("custom", None, {}, {}),
     File("custom", None, Counter \cup {"memory_bus_interposition"}, Counter),
     File("custom", {"in-guest"}, {}, {}),
     File("bank", {"in-guest", "host"}, Counter, {}),
     File("insurer", {"in-guest", "host"}, {}, AllCategories \ Counter)}

MCScopes == Presets \cup {LoadThreatScope(f) : f \in ScopeFiles}

MCConformances == {[satisfied |-> 3, total |-> 9], [satisfied |-> 5, total |-> 6]}

MCReferences == {Hex(1), Hex(2), Hex(3), Dotted(1)}
NoFeed == [p \in MCPlatforms |-> None]
MCFeeds == {NoFeed, [NoFeed EXCEPT ![tdx] = Hex(2)]}

-----------------------------------------------------------------------------
Request(g, d, s, c, f, configured, live) ==
    [graph |-> g, db |-> d, scope |-> s, conformance |-> c, profile |-> f,
     configured |-> configured, live |-> live]

\* Undated evidence, under every scope; the other dimensions one at a time.
ScopeRequests ==
    {Request(g, d, s, None, "default", TRUE, NoFeed) :
        g \in ScopeGraphs, d \in MCDatabases, s \in MCScopes}
    \cup {Request(g, d, s, None, f, FALSE, l) : g \in ScopeGraphs, d \in MCDatabases,
            s \in MCScopes, f \in DOMAIN Profiles, l \in MCFeeds}
    \cup {Request(g, d, s, c, f, FALSE, NoFeed) : g \in ScopeGraphs, d \in MCDatabases,
            s \in MCScopes, c \in MCConformances, f \in {"default", "finance"}}

\* Dated evidence, while the clock runs.
TimeRequests ==
    {Request(g, {Heckler, TdxDown}, CloudAdmin, None, "default", b, l) :
        g \in TimeGraphs, b \in BOOLEAN, l \in MCFeeds}

MCRequests == ScopeRequests \cup TimeRequests
=============================================================================
