----------------------------- MODULE GraphTable -----------------------------
(***************************************************************************)
(* The tables of a DependencyGraph.  Nodes and edges are appended and      *)
(* never removed; a map finds the position of a node, and every node lists *)
(* the positions of its outgoing and incoming edges.  A node referred to   *)
(* before it is defined (or defined in another module) is External; a      *)
(* definition replaces it in place.  extend merges another graph in, node  *)
(* by node and then edge by edge.                                          *)
(***************************************************************************)
EXTENDS Integers, Sequences, FiniteSets

CONSTANTS
    Id,          \* DependencyNodeId
    DefinedKind, \* every DependencyNodeKind but External
    EdgeKind,
    Span,
    NoSpan,      \* the span of an External node
    Other,       \* the graphs extend is called with
    MaxEdges     \* bound: edges in the table

Kind == DefinedKind \cup {"External"}
Node == [id : Id, kind : Kind, span : Span \cup {NoSpan}]
Edge == [source : Id, target : Id, kind : EdgeKind, span : Span]

External(id) == [id |-> id, kind |-> "External", span |-> NoSpan]

ASSUME KindAssumption == "External" \notin DefinedKind /\ NoSpan \notin Span
ASSUME OtherAssumption == Other \subseteq [nodes : Seq(Node), edges : Seq(Edge)]

VARIABLES
    nodes,
    indices,    \* node id -> position
    edges,
    outgoing,   \* position -> positions of edges
    incoming,
    pending,    \* what a running extend has still to insert
    defined     \* history: the ids given a definition

vars == <<nodes, indices, edges, outgoing, incoming, pending, defined>>
tables == [nodes |-> nodes, indices |-> indices, edges |-> edges,
           outgoing |-> outgoing, incoming |-> incoming]

Init ==
    /\ nodes = <<>>
    /\ indices = <<>>
    /\ edges = <<>>
    /\ outgoing = <<>>
    /\ incoming = <<>>
    /\ pending = [nodes |-> <<>>, edges |-> <<>>]
    /\ defined = {}

(***************************************************************************)
(* insert_node: a known node is replaced only when it is External and the  *)
(* new one is not.                                                         *)
(***************************************************************************)
\* Mutant: the last definition wins.
Overwrites(old, node) == node.kind # "External"

\* Mutant: a known node is never replaced.
NeverReplaces(old, node) == FALSE

Replaces(old, node) == old.kind = "External" /\ node.kind # "External"

InsertNode(t, node) ==
    IF node.id \in DOMAIN t.indices
    THEN LET at == t.indices[node.id] IN
         IF Replaces(t.nodes[at], node) THEN [t EXCEPT !.nodes[at] = node] ELSE t
    ELSE [t EXCEPT !.nodes    = Append(@, node),
                   !.indices  = [id \in DOMAIN @ \cup {node.id} |->
                                    IF id = node.id THEN Len(t.nodes) + 1 ELSE @[id]],
                   !.outgoing = Append(@, <<>>),
                   !.incoming = Append(@, <<>>)]

EnsureExternal(t, id) == IF id \in DOMAIN t.indices THEN t ELSE InsertNode(t, External(id))

(***************************************************************************)
(* insert_edge: both ends exist afterwards, and an edge equal in all its   *)
(* parts is not entered twice.                                             *)
(***************************************************************************)
Contains(s, x, at) == \E i \in 1 .. Len(at) : s[at[i]] = x

\* Mutant: the incoming list of the source is extended.
LinkSource(t, edge) ==
    LET source == t.indices[edge.source]
        n      == Len(t.edges) + 1
    IN  IF Contains(t.edges, edge, t.outgoing[source]) THEN t
        ELSE [t EXCEPT !.edges = Append(@, edge),
                       !.outgoing[source] = Append(@, n),
                       !.incoming[source] = Append(@, n)]

\* Mutant: an equal edge is entered again.
LinkAgain(t, edge) ==
    [t EXCEPT !.edges = Append(@, edge),
              !.outgoing[t.indices[edge.source]] = Append(@, Len(t.edges) + 1),
              !.incoming[t.indices[edge.target]] = Append(@, Len(t.edges) + 1)]

Link(t, edge) ==
    LET source == t.indices[edge.source]
        target == t.indices[edge.target]
        n      == Len(t.edges) + 1
    IN  IF Contains(t.edges, edge, t.outgoing[source]) THEN t
        ELSE [t EXCEPT !.edges = Append(@, edge),
                       !.outgoing[source] = Append(@, n),
                       !.incoming[target] = Append(@, n)]

InsertEdge(t, edge) == Link(EnsureExternal(EnsureExternal(t, edge.source), edge.target), edge)

Become(t) ==
    /\ nodes' = t.nodes
    /\ indices' = t.indices
    /\ edges' = t.edges
    /\ outgoing' = t.outgoing
    /\ incoming' = t.incoming

Idle == pending = [nodes |-> <<>>, edges |-> <<>>]

DefineNode(id, kind, span) ==
    /\ Idle
    /\ Become(InsertNode(tables, [id |-> id, kind |-> kind, span |-> span]))
    /\ defined' = defined \cup {id}
    /\ UNCHANGED pending

\* The target gets its position before the source.
AddEdge(edge) ==
    /\ Idle
    /\ Become(InsertEdge(EnsureExternal(tables, edge.target), edge))
    /\ UNCHANGED <<pending, defined>>

Extend(other) ==
    /\ Idle
    /\ pending' = other
    /\ UNCHANGED <<nodes, indices, edges, outgoing, incoming, defined>>

ExtendNode ==
    /\ pending.nodes # <<>>
    /\ LET node == Head(pending.nodes) IN
         /\ Become(InsertNode(tables, node))
         /\ defined' = IF node.kind = "External" THEN defined ELSE defined \cup {node.id}
    /\ pending' = [pending EXCEPT !.nodes = Tail(@)]

ExtendEdge ==
    /\ pending.nodes = <<>>
    /\ pending.edges # <<>>
    /\ Become(InsertEdge(tables, Head(pending.edges)))
    /\ pending' = [pending EXCEPT !.edges = Tail(@)]
    /\ UNCHANGED defined

\* The calls of a builder: what refers to something has been defined.
Calls(someNodes, someEdges) ==
    \/ \E node \in someNodes : DefineNode(node.id, node.kind, node.span)
    \/ \E edge \in someEdges :
         edge.source \in defined /\ Len(edges) < MaxEdges /\ AddEdge(edge)

Merge ==
    \/ \E other \in Other : Len(edges) + Len(other.edges) <= MaxEdges /\ Extend(other)
    \/ ExtendNode
    \/ ExtendEdge

Next == Calls([id : Id, kind : DefinedKind, span : Span], Edge) \/ Merge

Spec == Init /\ [][Next]_vars

-----------------------------------------------------------------------------
\* The map and the node table agree: every id has one position, and every
\* position is found again under its own id.
IndicesExact ==
    /\ \A i \in 1 .. Len(nodes) : nodes[i].id \in DOMAIN indices /\ indices[nodes[i].id] = i
    /\ \A id \in DOMAIN indices : nodes[indices[id]].id = id

\* Every edge is listed once at its source and once at its target, and nowhere
\* else; what evaluation_order and cycles read is the graph that was entered.
ListsExactly(list, end(_)) ==
    /\ \A n \in 1 .. Len(nodes) :
         /\ {list[n][i] : i \in 1 .. Len(list[n])} = {e \in 1 .. Len(edges) : end(edges[e]) = nodes[n].id}
         /\ \A i, j \in 1 .. Len(list[n]) : i < j => list[n][i] < list[n][j]
    /\ \A e \in 1 .. Len(edges) : end(edges[e]) \in DOMAIN indices

SourceOf(e) == e.source
TargetOf(e) == e.target

AdjacencyExact == ListsExactly(outgoing, SourceOf) /\ ListsExactly(incoming, TargetOf)

\* The five tables say the same of the graph.
TablesExact == IndicesExact /\ AdjacencyExact

\* A node is External exactly as long as no module merged so far defines it, in
\* whatever order definitions and references arrive.
ExternalUntilDefined ==
    \A i \in 1 .. Len(nodes) : nodes[i].kind = "External" <=> nodes[i].id \notin defined

\* A definition stays: no later definition, reference or merge changes the kind or
\* the place of a defined node, nor the position of any node.
DefinitionsStay ==
    [][/\ \A i \in 1 .. Len(nodes) :
            /\ nodes'[i].id = nodes[i].id
            /\ nodes[i].kind # "External" => nodes'[i] = nodes[i]
       /\ \A e \in 1 .. Len(edges) : edges'[e] = edges[e]]_vars
=============================================================================
