---------------------------- MODULE EvidenceGraph ----------------------------
(***************************************************************************)
(* The mutable evidence graph: adapters add nodes, callers add edges and   *)
(* set the challenge they issued, and a graph may be cut down to a         *)
(* subgraph.  The question is what each of these does to the one verdict   *)
(* that depends on several nodes at once, the cross-platform binding.      *)
(***************************************************************************)
EXTENDS Evidence

CONSTANTS
    NodeMenu,    \* the nodes an adapter may produce
    EdgeMenu,    \* the edges a caller may add
    Challenges,  \* the challenges a relying party may issue, Blank included
    MaxNodes,    \* bound on the number of nodes
    MaxEdges     \* bound on the number of edges

ASSUME NodesAndEdgesAreBounded == MaxNodes \in Nat /\ MaxEdges \in Nat

VARIABLE graph

EmptyGraph == [nodes |-> <<>>, edges |-> <<>>, challenge |-> None]

GraphInit == graph = EmptyGraph

\* Mutated form of AddNode: a list in place of the dict.
AppendNode(n) ==
    /\ Len(graph.nodes) < MaxNodes
    /\ graph' = [graph EXCEPT !.nodes = Append(@, n)]

\* Python keeps a dict key's first position when its value is replaced.
AddNode(n) ==
    IF NodeById(graph, n.id) # {}
    THEN graph' = [graph EXCEPT
                     !.nodes[FirstIndex(NodeById(graph, n.id))] = n]
    ELSE /\ Len(graph.nodes) < MaxNodes
         /\ graph' = [graph EXCEPT !.nodes = Append(@, n)]

AddEdge(e) ==
    /\ Len(graph.edges) < MaxEdges
    /\ graph' = [graph EXCEPT !.edges = Append(@, e)]

\* `verify --challenge`: recorded only when the argument is not empty, and
\* stripped on the way in, so a blank argument is recorded as a blank challenge.
SetChallenge(c) ==
    /\ graph.challenge = None
    /\ graph' = [graph EXCEPT !.challenge = c]

\* The ways of numbering a set of positions.
Numberings(kept) ==
    {h \in [1 .. Cardinality(kept) -> kept] :
        \A i, j \in DOMAIN h : h[i] = h[j] => i = j}

\* The edges keep their order; the nodes, taken from a set of ids, may come back in any.
Subgraph(ids) ==
    LET kept == {i \in DOMAIN graph.nodes : graph.nodes[i].id \in ids}
        within == {i \in DOMAIN graph.edges :
                      graph.edges[i].source \in ids /\ graph.edges[i].target \in ids}
    IN  \E f \in Numberings(kept), h \in Numberings(within) :
            /\ \A i, j \in DOMAIN h : i < j => h[i] < h[j]
            /\ graph' = [nodes |-> [i \in DOMAIN f |-> graph.nodes[f[i]]],
                         edges |-> [i \in DOMAIN h |-> graph.edges[h[i]]],
                         challenge |-> None]

Ids == {n.id : n \in NodeMenu}

GraphNext ==
    \/ \E n \in NodeMenu : AddNode(n)
    \/ \E e \in EdgeMenu : AddEdge(e)
    \/ \E c \in Challenges : SetChallenge(c)
    \/ \E ids \in SUBSET Ids : Subgraph(ids)

GraphSpec == GraphInit /\ [][GraphNext]_graph

-----------------------------------------------------------------------------
(* The graph is a well-formed record: at most one node per id, edges from  *)
(* the menu, a challenge that was issued (EvidenceGraph).                  *)
GraphOK ==
    /\ graph \in [nodes : UNION {[1 .. k -> NodeMenu] : k \in 0 .. MaxNodes},
                  edges : UNION {[1 .. k -> EdgeMenu] : k \in 0 .. MaxEdges},
                  challenge : Challenges \cup {None}]
    /\ \A i, j \in DOMAIN graph.nodes :
          graph.nodes[i].id = graph.nodes[j].id => i = j

(* A graph that counts as bound holds two quotes of different platforms    *)
(* that answered one and the same challenge, and when the relying party    *)
(* issued a challenge it is that one: quotes that agree only with each     *)
(* other never pass for an answer to this verifier                         *)
(* (has_verified_cross_platform_binding).                                  *)
BoundIsWitnessed ==
    Bound(graph) =>
        \E i, j \in QuoteAt(graph) :
            /\ graph.nodes[i].platform # graph.nodes[j].platform
            /\ BindingValue(graph.nodes[i]) = BindingValue(graph.nodes[j])
            /\ BindingValue(graph.nodes[i]) # None
            /\ graph.challenge = None
                 \/ BindingValue(graph.nodes[i]) = graph.challenge

(* A binding once found stays found while edges are only added: the first  *)
(* matching edge decides, so no later edge, over replayed quotes or over   *)
(* none, revokes it (has_verified_cross_platform_binding).                 *)
AddedEdgesKeepBinding ==
    [][(\E e \in EdgeMenu : AddEdge(e)) => (Bound(graph) => Bound(graph'))]_graph

(* A graph that holds two quotes of different platforms which both         *)
(* answered the issued challenge, joined by a BOUND_TO edge, is bound,     *)
(* whatever other edges it holds (the docstring of                         *)
(* has_verified_cross_platform_binding: True when two quote nodes on       *)
(* different platforms attest the same session).                           *)
AnsweredChallengeBinds ==
    (\E i \in BindingEdges(graph) :
        \/ graph.challenge = None
        \/ SharedValue(graph, graph.edges[i]) = graph.challenge)
    => Bound(graph)
=============================================================================
