-------------------------- MODULE GraphTableProofs --------------------------
(***************************************************************************)
(* The tables of a dependency graph stay consistent, and a definition wins *)
(* over references, for every graph: whatever nodes and edges are entered  *)
(* or merged, in whatever order.                                           *)
(*                                                                         *)
(* The invariant is that of a table t, apart from the variables, so that   *)
(* the three calls an edge makes (two ends and the link) are lemmas that   *)
(* follow one another.                                                     *)
(***************************************************************************)
EXTENDS GraphTable, TLAPS

Tables ==
    [nodes    : Seq(Node),
     indices  : UNION {[D -> Nat] : D \in SUBSET Id},
     edges    : Seq(Edge),
     outgoing : Seq(Seq(Nat)),
     incoming : Seq(Seq(Nat))]

Positions(t) ==
    /\ \A i \in 1 .. Len(t.nodes) : t.nodes[i].id \in DOMAIN t.indices /\ t.indices[t.nodes[i].id] = i
    /\ \A id \in DOMAIN t.indices :
         t.indices[id] \in 1 .. Len(t.nodes) /\ t.nodes[t.indices[id]].id = id

EdgesKnown(t) ==
    \A e \in 1 .. Len(t.edges) :
        t.edges[e].source \in DOMAIN t.indices /\ t.edges[e].target \in DOMAIN t.indices

\* A list of positions holds the edges with a given end, in their order.
Listed(t, list, n, e) == \E i \in 1 .. Len(list[n]) : list[n][i] = e
Increasing(t, list) ==
    \A n \in 1 .. Len(t.nodes) : \A i \in 1 .. Len(list[n]) :
        /\ list[n][i] \in 1 .. Len(t.edges)
        /\ \A j \in 1 .. Len(list[n]) : i < j => list[n][i] < list[n][j]

Outgoing(t) ==
    /\ Len(t.outgoing) = Len(t.nodes)
    /\ Increasing(t, t.outgoing)
    /\ \A n \in 1 .. Len(t.nodes), e \in 1 .. Len(t.edges) :
         Listed(t, t.outgoing, n, e) <=> t.edges[e].source = t.nodes[n].id

Incoming(t) ==
    /\ Len(t.incoming) = Len(t.nodes)
    /\ Increasing(t, t.incoming)
    /\ \A n \in 1 .. Len(t.nodes), e \in 1 .. Len(t.edges) :
         Listed(t, t.incoming, n, e) <=> t.edges[e].target = t.nodes[n].id

Consistent(t) ==
    /\ t \in Tables
    /\ Positions(t)
    /\ EdgesKnown(t)
    /\ Outgoing(t)
    /\ Incoming(t)

\* What u keeps of t.
Keeps(t, u) ==
    /\ \A i \in 1 .. Len(t.nodes) :
         /\ i \in 1 .. Len(u.nodes)
         /\ u.nodes[i].id = t.nodes[i].id
         /\ t.nodes[i].kind # "External" => u.nodes[i] = t.nodes[i]
    /\ \A e \in 1 .. Len(t.edges) : e \in 1 .. Len(u.edges) /\ u.edges[e] = t.edges[e]
    /\ DOMAIN t.indices \subseteq DOMAIN u.indices

\* The ids in D are those of the nodes that are not External.
Told(t, D) ==
    /\ D \subseteq DOMAIN t.indices
    /\ \A i \in 1 .. Len(t.nodes) : t.nodes[i].kind = "External" <=> t.nodes[i].id \notin D

-----------------------------------------------------------------------------
(***************************************************************************)
(* insert_node.                                                            *)
(***************************************************************************)
LEMMA KeepsIsTransitive ==
    ASSUME NEW t, NEW u, NEW v, Keeps(t, u), Keeps(u, v)
    PROVE  Keeps(t, v)
BY DEF Keeps

LEMMA ReplaceKeeps ==
    ASSUME NEW t, Consistent(t), NEW node \in Node, NEW i \in 1 .. Len(t.nodes),
           t.nodes[i].id = node.id, t.nodes[i].kind = "External"
    PROVE  LET u == [t EXCEPT !.nodes[i] = node] IN Consistent(u) /\ Keeps(t, u)
<1> DEFINE u == [t EXCEPT !.nodes[i] = node]
<1>1. /\ u.nodes = [t.nodes EXCEPT ![i] = node]
      /\ u.indices = t.indices /\ u.edges = t.edges
      /\ u.outgoing = t.outgoing /\ u.incoming = t.incoming
  BY DEF Consistent, Tables
<1>2. /\ t.nodes \in Seq(Node) /\ u.nodes \in Seq(Node) /\ Len(u.nodes) = Len(t.nodes)
      /\ \A j \in 1 .. Len(t.nodes) :
           u.nodes[j].id = t.nodes[j].id /\ (j # i => u.nodes[j] = t.nodes[j])
  BY <1>1 DEF Consistent, Tables
<1>3. u \in Tables
  BY <1>1, <1>2 DEF Consistent, Tables
<1> HIDE DEF u
<1>4. Positions(u)
  <2>1. Positions(t) /\ u.indices = t.indices /\ Len(u.nodes) = Len(t.nodes)
    BY <1>1, <1>2 DEF Consistent
  <2>2. \A j \in 1 .. Len(t.nodes) : u.nodes[j].id = t.nodes[j].id
    BY <1>2
  <2> QED
    BY <2>1, <2>2 DEF Positions
<1>5. EdgesKnown(u)
  BY <1>1 DEF Consistent, EdgesKnown
<1>6. Outgoing(u)
  BY <1>1, <1>2 DEF Consistent, Outgoing, Increasing, Listed
<1>7. Incoming(u)
  BY <1>1, <1>2 DEF Consistent, Incoming, Increasing, Listed
<1>8. Keeps(t, u)
  BY <1>1, <1>2 DEF Keeps
<1> QED
  BY <1>3, <1>4, <1>5, <1>6, <1>7, <1>8 DEF Consistent, u

\* A new node has no edges: those of the table have their ends in it.
LEMMA AppendKeeps ==
    ASSUME NEW t, Consistent(t), NEW node \in Node, node.id \notin DOMAIN t.indices
    PROVE  /\ Consistent(InsertNode(t, node))
           /\ Keeps(t, InsertNode(t, node))
           /\ DOMAIN InsertNode(t, node).indices = DOMAIN t.indices \cup {node.id}
           /\ InsertNode(t, node).nodes = Append(t.nodes, node)
<1> DEFINE u == InsertNode(t, node)
           n == Len(t.nodes) + 1
<1>1. /\ u.nodes = Append(t.nodes, node)
      /\ u.indices = [id \in DOMAIN t.indices \cup {node.id} |->
                        IF id = node.id THEN n ELSE t.indices[id]]
      /\ u.edges = t.edges
      /\ u.outgoing = Append(t.outgoing, <<>>) /\ u.incoming = Append(t.incoming, <<>>)
      /\ u = [nodes |-> u.nodes, indices |-> u.indices, edges |-> u.edges,
              outgoing |-> u.outgoing, incoming |-> u.incoming]
  BY DEF Consistent, Tables, InsertNode
<1>2. /\ t.nodes \in Seq(Node) /\ n \in Nat /\ Len(u.nodes) = n /\ u.nodes[n] = node
      /\ \A j \in 1 .. Len(t.nodes) : u.nodes[j] = t.nodes[j]
  BY <1>1 DEF Consistent, Tables
<1>3. /\ t.outgoing \in Seq(Seq(Nat)) /\ t.incoming \in Seq(Seq(Nat))
      /\ Len(t.outgoing) = Len(t.nodes) /\ Len(t.incoming) = Len(t.nodes)
      /\ Len(u.outgoing) = n /\ Len(u.incoming) = n
      /\ u.outgoing[n] = <<>> /\ u.incoming[n] = <<>>
      /\ \A j \in 1 .. Len(t.nodes) :
           u.outgoing[j] = t.outgoing[j] /\ u.incoming[j] = t.incoming[j]
  BY <1>1 DEF Consistent, Tables, Outgoing, Incoming
<1> HIDE DEF u
<1>4. u \in Tables
  <2>1. u.indices \in [DOMAIN t.indices \cup {node.id} -> Nat]
    BY <1>1, <1>2 DEF Consistent, Tables
  <2>2. DOMAIN t.indices \cup {node.id} \in SUBSET Id
    BY DEF Consistent, Tables, Node
  <2>3. u.indices \in UNION {[D -> Nat] : D \in SUBSET Id}
    BY <2>1, <2>2
  <2>4. u.nodes \in Seq(Node) /\ u.edges \in Seq(Edge)
    BY <1>1 DEF Consistent, Tables
  <2>5. u.outgoing \in Seq(Seq(Nat)) /\ u.incoming \in Seq(Seq(Nat))
    BY <1>1, <1>3
  <2> QED
    BY <1>1, <2>3, <2>4, <2>5 DEF Tables
<1>5. Positions(u)
  BY <1>1, <1>2 DEF Consistent, Positions
<1>6. EdgesKnown(u)
  BY <1>1 DEF Consistent, EdgesKnown
<1>7. \A e \in 1 .. Len(t.edges) : t.edges[e].source # node.id /\ t.edges[e].target # node.id
  BY DEF Consistent, EdgesKnown
<1>8. Outgoing(u)
  <2>1. Outgoing(t) /\ Len(u.outgoing) = Len(u.nodes) /\ u.edges = t.edges
    BY <1>1, <1>2, <1>3 DEF Consistent
  <2>2. Increasing(u, u.outgoing)
    <3>1. ASSUME NEW k \in 1 .. Len(u.nodes), NEW i \in 1 .. Len(u.outgoing[k])
          PROVE  /\ u.outgoing[k][i] \in 1 .. Len(u.edges)
                 /\ \A j \in 1 .. Len(u.outgoing[k]) : i < j => u.outgoing[k][i] < u.outgoing[k][j]
      <4>1. k # n
        BY <1>3, <3>1
      <4>2. k \in 1 .. Len(t.nodes) /\ u.outgoing[k] = t.outgoing[k]
        BY <1>2, <1>3, <4>1
      <4> QED
        BY <2>1, <3>1, <4>2 DEF Outgoing, Increasing
    <3> QED
      BY <3>1 DEF Increasing
  <2>3. ASSUME NEW k \in 1 .. Len(u.nodes), NEW e \in 1 .. Len(u.edges)
        PROVE  Listed(u, u.outgoing, k, e) <=> u.edges[e].source = u.nodes[k].id
    <3>1. CASE k \in 1 .. Len(t.nodes)
      <4>1. u.outgoing[k] = t.outgoing[k] /\ u.nodes[k] = t.nodes[k]
        BY <1>2, <1>3, <3>1
      <4>2. Listed(t, t.outgoing, k, e) <=> t.edges[e].source = t.nodes[k].id
        BY <2>1, <3>1 DEF Outgoing
      <4>3. Listed(u, u.outgoing, k, e) <=> Listed(t, t.outgoing, k, e)
        BY <4>1 DEF Listed
      <4> QED
        BY <2>1, <4>1, <4>2, <4>3
    <3>2. CASE k = n
      BY <1>2, <1>3, <1>7, <2>1, <3>2 DEF Listed
    <3> QED
      BY <1>2, <3>1, <3>2
  <2> QED
    BY <2>1, <2>2, <2>3 DEF Outgoing
<1>9. Incoming(u)
  <2>1. Incoming(t) /\ Len(u.incoming) = Len(u.nodes) /\ u.edges = t.edges
    BY <1>1, <1>2, <1>3 DEF Consistent
  <2>2. Increasing(u, u.incoming)
    <3>1. ASSUME NEW k \in 1 .. Len(u.nodes), NEW i \in 1 .. Len(u.incoming[k])
          PROVE  /\ u.incoming[k][i] \in 1 .. Len(u.edges)
                 /\ \A j \in 1 .. Len(u.incoming[k]) : i < j => u.incoming[k][i] < u.incoming[k][j]
      <4>1. k # n
        BY <1>3, <3>1
      <4>2. k \in 1 .. Len(t.nodes) /\ u.incoming[k] = t.incoming[k]
        BY <1>2, <1>3, <4>1
      <4> QED
        BY <2>1, <3>1, <4>2 DEF Incoming, Increasing
    <3> QED
      BY <3>1 DEF Increasing
  <2>3. ASSUME NEW k \in 1 .. Len(u.nodes), NEW e \in 1 .. Len(u.edges)
        PROVE  Listed(u, u.incoming, k, e) <=> u.edges[e].target = u.nodes[k].id
    <3>1. CASE k \in 1 .. Len(t.nodes)
      <4>1. u.incoming[k] = t.incoming[k] /\ u.nodes[k] = t.nodes[k]
        BY <1>2, <1>3, <3>1
      <4>2. Listed(t, t.incoming, k, e) <=> t.edges[e].target = t.nodes[k].id
        BY <2>1, <3>1 DEF Incoming
      <4>3. Listed(u, u.incoming, k, e) <=> Listed(t, t.incoming, k, e)
        BY <4>1 DEF Listed
      <4> QED
        BY <2>1, <4>1, <4>2, <4>3
    <3>2. CASE k = n
      BY <1>2, <1>3, <1>7, <2>1, <3>2 DEF Listed
    <3> QED
      BY <1>2, <3>1, <3>2
  <2> QED
    BY <2>1, <2>2, <2>3 DEF Incoming
<1>10. Keeps(t, u)
  BY <1>1, <1>2 DEF Keeps
<1> QED
  BY <1>1, <1>4, <1>5, <1>6, <1>8, <1>9, <1>10 DEF Consistent, u

LEMMA InsertNodeKeeps ==
    ASSUME NEW t, Consistent(t), NEW node \in Node
    PROVE  /\ Consistent(InsertNode(t, node))
           /\ Keeps(t, InsertNode(t, node))
           /\ DOMAIN InsertNode(t, node).indices = DOMAIN t.indices \cup {node.id}
<1>1. CASE node.id \notin DOMAIN t.indices
  BY <1>1, AppendKeeps
<1>2. CASE node.id \in DOMAIN t.indices
  <2> DEFINE i == t.indices[node.id]
  <2>1. i \in 1 .. Len(t.nodes) /\ t.nodes[i].id = node.id
    BY <1>2 DEF Consistent, Positions
  <2>2. CASE Replaces(t.nodes[i], node)
    <3>1. InsertNode(t, node) = [t EXCEPT !.nodes[i] = node]
      BY <1>2, <2>2 DEF InsertNode
    <3>2. InsertNode(t, node).indices = t.indices
      BY <3>1 DEF Consistent, Tables
    <3>3. t.nodes[i].kind = "External"
      BY <2>2 DEF Replaces
    <3>4. Consistent([t EXCEPT !.nodes[i] = node]) /\ Keeps(t, [t EXCEPT !.nodes[i] = node])
      BY <2>1, <3>3, ReplaceKeeps
    <3> QED
      BY <1>2, <3>1, <3>2, <3>4
  <2>3. CASE ~Replaces(t.nodes[i], node)
    <3>1. InsertNode(t, node) = t
      BY <1>2, <2>3 DEF InsertNode
    <3>2. Keeps(t, t)
      BY DEF Keeps
    <3> QED
      BY <1>2, <3>1, <3>2
  <2> QED
    BY <2>2, <2>3
<1> QED
  BY <1>1, <1>2

-----------------------------------------------------------------------------
(***************************************************************************)
(* insert_edge.  The same step for each of the two lists.                  *)
(***************************************************************************)
LEMMA OutgoingGrows ==
    ASSUME NEW t, Consistent(t), NEW u, NEW edge \in Edge, NEW at \in 1 .. Len(t.nodes),
           t.nodes[at].id = edge.source,
           u.nodes = t.nodes,
           u.edges = Append(t.edges, edge),
           u.outgoing = [t.outgoing EXCEPT ![at] = Append(@, Len(t.edges) + 1)]
    PROVE  Outgoing(u) /\ u.outgoing \in Seq(Seq(Nat))
<1> DEFINE m == Len(t.edges) + 1
<1>1. /\ t.edges \in Seq(Edge) /\ t.nodes \in Seq(Node) /\ m \in Nat
      /\ Len(u.edges) = m /\ u.edges[m] = edge
      /\ \A e \in 1 .. Len(t.edges) : u.edges[e] = t.edges[e]
  BY DEF Consistent, Tables
<1>0. Len(t.edges) \in Nat
  BY <1>1
<1>2. /\ t.outgoing \in Seq(Seq(Nat)) /\ Len(t.outgoing) = Len(t.nodes)
      /\ Len(u.outgoing) = Len(t.nodes)
      /\ \A k \in 1 .. Len(t.nodes) : k # at => u.outgoing[k] = t.outgoing[k]
      /\ u.outgoing[at] = Append(t.outgoing[at], m)
      /\ u.outgoing \in Seq(Seq(Nat))
  BY <1>1 DEF Consistent, Tables, Outgoing
<1>3. /\ t.outgoing[at] \in Seq(Nat)
      /\ Len(u.outgoing[at]) = Len(t.outgoing[at]) + 1
      /\ u.outgoing[at][Len(t.outgoing[at]) + 1] = m
      /\ \A i \in 1 .. Len(t.outgoing[at]) : u.outgoing[at][i] = t.outgoing[at][i]
  BY <1>1, <1>2
<1>4. \A k \in 1 .. Len(t.nodes) : \A i \in 1 .. Len(t.outgoing[k]) : t.outgoing[k][i] \in 1 .. Len(t.edges)
  BY DEF Consistent, Outgoing, Increasing
<1>5. Increasing(u, u.outgoing)
  <2>1. ASSUME NEW k \in 1 .. Len(t.nodes), NEW i \in 1 .. Len(u.outgoing[k])
        PROVE  /\ u.outgoing[k][i] \in 1 .. m
               /\ \A j \in 1 .. Len(u.outgoing[k]) : i < j => u.outgoing[k][i] < u.outgoing[k][j]
    <3>1. CASE k # at
      <4>1. u.outgoing[k] = t.outgoing[k]
        BY <1>2, <3>1
      <4>2. /\ t.outgoing[k][i] \in 1 .. Len(t.edges)
            /\ \A j \in 1 .. Len(t.outgoing[k]) : i < j => t.outgoing[k][i] < t.outgoing[k][j]
        BY <2>1, <4>1 DEF Consistent, Outgoing, Increasing
      <4>3. t.outgoing[k][i] \in 1 .. m
        BY <1>0, <4>2
      <4> QED
        BY <4>1, <4>2, <4>3
    <3>2. CASE k = at
      <4>1. \A j, l \in 1 .. Len(t.outgoing[at]) : j < l => t.outgoing[at][j] < t.outgoing[at][l]
        BY DEF Consistent, Outgoing, Increasing
      <4>2. Len(t.outgoing[at]) \in Nat /\ i \in 1 .. Len(t.outgoing[at]) + 1
        BY <1>3, <2>1, <3>2
      <4>3. \A j \in 1 .. Len(t.outgoing[at]) :
              u.outgoing[at][j] = t.outgoing[at][j] /\ u.outgoing[at][j] \in 1 .. m /\ u.outgoing[at][j] < m
        <5>1. \A j \in 1 .. Len(t.outgoing[at]) : t.outgoing[at][j] \in 1 .. Len(t.edges)
          BY <1>4
        <5>2. \A j \in 1 .. Len(t.outgoing[at]) : t.outgoing[at][j] \in 1 .. m /\ t.outgoing[at][j] < m
          BY <1>0, <5>1
        <5> QED
          BY <1>3, <5>2
      <4>4. u.outgoing[at][i] \in 1 .. m
        <5>1. CASE i \in 1 .. Len(t.outgoing[at])
          BY <4>3, <5>1
        <5>2. CASE i = Len(t.outgoing[at]) + 1
          BY <1>0, <1>3, <5>2
        <5> QED
          BY <4>2, <5>1, <5>2
      <4>5. ASSUME NEW j \in 1 .. Len(t.outgoing[at]) + 1, i < j
            PROVE  u.outgoing[at][i] < u.outgoing[at][j]
        <5>1. i \in 1 .. Len(t.outgoing[at])
          BY <4>2, <4>5
        <5>2. CASE j \in 1 .. Len(t.outgoing[at])
          BY <4>1, <4>3, <4>5, <5>1, <5>2
        <5>3. CASE j = Len(t.outgoing[at]) + 1
          BY <1>3, <4>3, <5>1, <5>3
        <5> QED
          BY <4>2, <4>5, <5>2, <5>3
      <4>6. u.outgoing[k] = u.outgoing[at] /\ Len(u.outgoing[k]) = Len(t.outgoing[at]) + 1
        BY <1>3, <3>2
      <4> QED
        BY <4>4, <4>5, <4>6
    <3> QED
      BY <3>1, <3>2
  <2> QED
    BY <1>1, <2>1 DEF Increasing
<1>6. ASSUME NEW k \in 1 .. Len(t.nodes), NEW e \in 1 .. m
      PROVE  Listed(u, u.outgoing, k, e) <=> u.edges[e].source = t.nodes[k].id
  <2>1. CASE e # m
    <3>1. e \in 1 .. Len(t.edges) /\ u.edges[e] = t.edges[e]
      BY <1>1, <2>1
    <3>2. Listed(t, t.outgoing, k, e) <=> t.edges[e].source = t.nodes[k].id
      BY <3>1 DEF Consistent, Outgoing
    <3>3. Listed(u, u.outgoing, k, e) <=> Listed(t, t.outgoing, k, e)
      <4>1. CASE k # at
        BY <1>2, <4>1 DEF Listed
      <4>2. CASE k = at
        BY <1>1, <1>3, <2>1, <4>2 DEF Listed
      <4> QED
        BY <4>1, <4>2
    <3> QED
      BY <3>1, <3>2, <3>3
  <2>2. CASE e = m
    <3>1. CASE k # at
      <4>1. t.nodes[k].id # edge.source
        BY <3>1 DEF Consistent, Positions
      <4>2. ~Listed(u, u.outgoing, k, e)
        <5>1. \A i \in 1 .. Len(t.outgoing[k]) : t.outgoing[k][i] # m
          BY <1>0, <1>4
        <5> QED
          BY <1>2, <2>2, <3>1, <5>1 DEF Listed
      <4> QED
        BY <1>1, <2>2, <4>1, <4>2
    <3>2. CASE k = at
      <4>1. Len(t.outgoing[at]) + 1 \in 1 .. Len(u.outgoing[at])
        BY <1>3
      <4>2. Listed(u, u.outgoing, k, e)
        BY <1>3, <2>2, <3>2, <4>1 DEF Listed
      <4> QED
        BY <1>1, <2>2, <3>2, <4>2
    <3> QED
      BY <3>1, <3>2
  <2> QED
    BY <2>1, <2>2
<1>7. ASSUME NEW k \in 1 .. Len(u.nodes), NEW e \in 1 .. Len(u.edges)
      PROVE  Listed(u, u.outgoing, k, e) <=> u.edges[e].source = u.nodes[k].id
  <2>1. Len(u.nodes) = Len(t.nodes) /\ u.nodes[k].id = t.nodes[k].id
    OBVIOUS
  <2>2. k \in 1 .. Len(t.nodes) /\ e \in 1 .. m
    BY <1>1, <1>7, <2>1
  <2>3. Listed(u, u.outgoing, k, e) <=> u.edges[e].source = t.nodes[k].id
    BY <1>6, <2>2
  <2> QED
    BY <2>1, <2>3
<1>8. Len(u.outgoing) = Len(u.nodes) /\ u.outgoing \in Seq(Seq(Nat))
  BY <1>2
<1> QED
  BY <1>5, <1>7, <1>8 DEF Outgoing

LEMMA IncomingGrows ==
    ASSUME NEW t, Consistent(t), NEW u, NEW edge \in Edge, NEW at \in 1 .. Len(t.nodes),
           t.nodes[at].id = edge.target,
           u.nodes = t.nodes,
           u.edges = Append(t.edges, edge),
           u.incoming = [t.incoming EXCEPT ![at] = Append(@, Len(t.edges) + 1)]
    PROVE  Incoming(u) /\ u.incoming \in Seq(Seq(Nat))
<1> DEFINE m == Len(t.edges) + 1
<1>1. /\ t.edges \in Seq(Edge) /\ t.nodes \in Seq(Node) /\ m \in Nat
      /\ Len(u.edges) = m /\ u.edges[m] = edge
      /\ \A e \in 1 .. Len(t.edges) : u.edges[e] = t.edges[e]
  BY DEF Consistent, Tables
<1>0. Len(t.edges) \in Nat
  BY <1>1
<1>2. /\ t.incoming \in Seq(Seq(Nat)) /\ Len(t.incoming) = Len(t.nodes)
      /\ Len(u.incoming) = Len(t.nodes)
      /\ \A k \in 1 .. Len(t.nodes) : k # at => u.incoming[k] = t.incoming[k]
      /\ u.incoming[at] = Append(t.incoming[at], m)
      /\ u.incoming \in Seq(Seq(Nat))
  BY <1>1 DEF Consistent, Tables, Incoming
<1>3. /\ t.incoming[at] \in Seq(Nat)
      /\ Len(u.incoming[at]) = Len(t.incoming[at]) + 1
      /\ u.incoming[at][Len(t.incoming[at]) + 1] = m
      /\ \A i \in 1 .. Len(t.incoming[at]) : u.incoming[at][i] = t.incoming[at][i]
  BY <1>1, <1>2
<1>4. \A k \in 1 .. Len(t.nodes) : \A i \in 1 .. Len(t.incoming[k]) : t.incoming[k][i] \in 1 .. Len(t.edges)
  BY DEF Consistent, Incoming, Increasing
<1>5. Increasing(u, u.incoming)
  <2>1. ASSUME NEW k \in 1 .. Len(t.nodes), NEW i \in 1 .. Len(u.incoming[k])
        PROVE  /\ u.incoming[k][i] \in 1 .. m
               /\ \A j \in 1 .. Len(u.incoming[k]) : i < j => u.incoming[k][i] < u.incoming[k][j]
    <3>1. CASE k # at
      <4>1. u.incoming[k] = t.incoming[k]
        BY <1>2, <3>1
      <4>2. /\ t.incoming[k][i] \in 1 .. Len(t.edges)
            /\ \A j \in 1 .. Len(t.incoming[k]) : i < j => t.incoming[k][i] < t.incoming[k][j]
        BY <2>1, <4>1 DEF Consistent, Incoming, Increasing
      <4>3. t.incoming[k][i] \in 1 .. m
        BY <1>0, <4>2
      <4> QED
        BY <4>1, <4>2, <4>3
    <3>2. CASE k = at
      <4>1. \A j, l \in 1 .. Len(t.incoming[at]) : j < l => t.incoming[at][j] < t.incoming[at][l]
        BY DEF Consistent, Incoming, Increasing
      <4>2. Len(t.incoming[at]) \in Nat /\ i \in 1 .. Len(t.incoming[at]) + 1
        BY <1>3, <2>1, <3>2
      <4>3. \A j \in 1 .. Len(t.incoming[at]) :
              u.incoming[at][j] = t.incoming[at][j] /\ u.incoming[at][j] \in 1 .. m /\ u.incoming[at][j] < m
        <5>1. \A j \in 1 .. Len(t.incoming[at]) : t.incoming[at][j] \in 1 .. Len(t.edges)
          BY <1>4
        <5>2. \A j \in 1 .. Len(t.incoming[at]) : t.incoming[at][j] \in 1 .. m /\ t.incoming[at][j] < m
          BY <1>0, <5>1
        <5> QED
          BY <1>3, <5>2
      <4>4. u.incoming[at][i] \in 1 .. m
        <5>1. CASE i \in 1 .. Len(t.incoming[at])
          BY <4>3, <5>1
        <5>2. CASE i = Len(t.incoming[at]) + 1
          BY <1>0, <1>3, <5>2
        <5> QED
          BY <4>2, <5>1, <5>2
      <4>5. ASSUME NEW j \in 1 .. Len(t.incoming[at]) + 1, i < j
            PROVE  u.incoming[at][i] < u.incoming[at][j]
        <5>1. i \in 1 .. Len(t.incoming[at])
          BY <4>2, <4>5
        <5>2. CASE j \in 1 .. Len(t.incoming[at])
          BY <4>1, <4>3, <4>5, <5>1, <5>2
        <5>3. CASE j = Len(t.incoming[at]) + 1
          BY <1>3, <4>3, <5>1, <5>3
        <5> QED
          BY <4>2, <4>5, <5>2, <5>3
      <4>6. u.incoming[k] = u.incoming[at] /\ Len(u.incoming[k]) = Len(t.incoming[at]) + 1
        BY <1>3, <3>2
      <4> QED
        BY <4>4, <4>5, <4>6
    <3> QED
      BY <3>1, <3>2
  <2> QED
    BY <1>1, <2>1 DEF Increasing
<1>6. ASSUME NEW k \in 1 .. Len(t.nodes), NEW e \in 1 .. m
      PROVE  Listed(u, u.incoming, k, e) <=> u.edges[e].target = t.nodes[k].id
  <2>1. CASE e # m
    <3>1. e \in 1 .. Len(t.edges) /\ u.edges[e] = t.edges[e]
      BY <1>1, <2>1
    <3>2. Listed(t, t.incoming, k, e) <=> t.edges[e].target = t.nodes[k].id
      BY <3>1 DEF Consistent, Incoming
    <3>3. Listed(u, u.incoming, k, e) <=> Listed(t, t.incoming, k, e)
      <4>1. CASE k # at
        BY <1>2, <4>1 DEF Listed
      <4>2. CASE k = at
        BY <1>1, <1>3, <2>1, <4>2 DEF Listed
      <4> QED
        BY <4>1, <4>2
    <3> QED
      BY <3>1, <3>2, <3>3
  <2>2. CASE e = m
    <3>1. CASE k # at
      <4>1. t.nodes[k].id # edge.target
        BY <3>1 DEF Consistent, Positions
      <4>2. ~Listed(u, u.incoming, k, e)
        <5>1. \A i \in 1 .. Len(t.incoming[k]) : t.incoming[k][i] # m
          BY <1>0, <1>4
        <5> QED
          BY <1>2, <2>2, <3>1, <5>1 DEF Listed
      <4> QED
        BY <1>1, <2>2, <4>1, <4>2
    <3>2. CASE k = at
      <4>1. Len(t.incoming[at]) + 1 \in 1 .. Len(u.incoming[at])
        BY <1>3
      <4>2. Listed(u, u.incoming, k, e)
        BY <1>3, <2>2, <3>2, <4>1 DEF Listed
      <4> QED
        BY <1>1, <2>2, <3>2, <4>2
    <3> QED
      BY <3>1, <3>2
  <2> QED
    BY <2>1, <2>2
<1>7. ASSUME NEW k \in 1 .. Len(u.nodes), NEW e \in 1 .. Len(u.edges)
      PROVE  Listed(u, u.incoming, k, e) <=> u.edges[e].target = u.nodes[k].id
  <2>1. Len(u.nodes) = Len(t.nodes) /\ u.nodes[k].id = t.nodes[k].id
    OBVIOUS
  <2>2. k \in 1 .. Len(t.nodes) /\ e \in 1 .. m
    BY <1>1, <1>7, <2>1
  <2>3. Listed(u, u.incoming, k, e) <=> u.edges[e].target = t.nodes[k].id
    BY <1>6, <2>2
  <2> QED
    BY <2>1, <2>3
<1>8. Len(u.incoming) = Len(u.nodes) /\ u.incoming \in Seq(Seq(Nat))
  BY <1>2
<1> QED
  BY <1>5, <1>7, <1>8 DEF Incoming

\* The three updates of insert_edge make a table again.
LEMMA LinkedTable ==
    ASSUME NEW t \in Tables, NEW edge, NEW source, NEW target, NEW m,
           Append(t.edges, edge) \in Seq(Edge),
           [t.outgoing EXCEPT ![source] = Append(@, m)] \in Seq(Seq(Nat)),
           [t.incoming EXCEPT ![target] = Append(@, m)] \in Seq(Seq(Nat))
    PROVE  [t EXCEPT !.edges = Append(@, edge),
                     !.outgoing[source] = Append(@, m),
                     !.incoming[target] = Append(@, m)] \in Tables
BY DEF Tables

LEMMA LinkKeeps ==
    ASSUME NEW t, Consistent(t), NEW edge \in Edge,
           edge.source \in DOMAIN t.indices, edge.target \in DOMAIN t.indices
    PROVE  /\ Consistent(Link(t, edge)) /\ Keeps(t, Link(t, edge))
           /\ Link(t, edge).nodes = t.nodes /\ Link(t, edge).indices = t.indices
<1> DEFINE source == t.indices[edge.source]
           target == t.indices[edge.target]
           m == Len(t.edges) + 1
           u == [t EXCEPT !.edges = Append(@, edge),
                          !.outgoing[source] = Append(@, m),
                          !.incoming[target] = Append(@, m)]
<1>1. CASE Contains(t.edges, edge, t.outgoing[source])
  BY <1>1 DEF Link, Keeps
<1>2. CASE ~Contains(t.edges, edge, t.outgoing[source])
  <2>1. Link(t, edge) = u
    BY <1>2 DEF Link
  <2>2. /\ source \in 1 .. Len(t.nodes) /\ t.nodes[source].id = edge.source
        /\ target \in 1 .. Len(t.nodes) /\ t.nodes[target].id = edge.target
    BY DEF Consistent, Positions
  <2>3. t \in Tables
    BY DEF Consistent
  <2>4. u.nodes = t.nodes /\ u.indices = t.indices /\ u.edges = Append(t.edges, edge)
    BY <2>3 DEF Tables
  <2>5. u.outgoing = [t.outgoing EXCEPT ![source] = Append(@, m)]
    BY <2>3 DEF Tables
  <2>6. u.incoming = [t.incoming EXCEPT ![target] = Append(@, m)]
    BY <2>3 DEF Tables
  <2>7. Outgoing(u) /\ u.outgoing \in Seq(Seq(Nat))
    <3> HIDE DEF u
    <3> QED
      BY <2>2, <2>4, <2>5, OutgoingGrows
  <2>8. Incoming(u) /\ u.incoming \in Seq(Seq(Nat))
    <3> HIDE DEF u
    <3> QED
      BY <2>2, <2>4, <2>6, IncomingGrows
  <2>9. /\ t.edges \in Seq(Edge) /\ Append(t.edges, edge) \in Seq(Edge) /\ m \in Nat
         /\ Len(Append(t.edges, edge)) = m /\ Append(t.edges, edge)[m] = edge
         /\ \A e \in 1 .. Len(t.edges) : Append(t.edges, edge)[e] = t.edges[e]
    BY DEF Consistent, Tables
  <2>10. u \in Tables
    <3>1. Append(t.edges, edge) \in Seq(Edge)
      BY <2>9
    <3>2. [t.outgoing EXCEPT ![source] = Append(@, m)] \in Seq(Seq(Nat))
      BY <2>5, <2>7
    <3>3. [t.incoming EXCEPT ![target] = Append(@, m)] \in Seq(Seq(Nat))
      BY <2>6, <2>8
    <3> HIDE DEF source, target, m
    <3> QED
      BY <2>3, <3>1, <3>2, <3>3, LinkedTable
  <2> HIDE DEF u
  <2>11. Positions(u)
    BY <2>4 DEF Consistent, Positions
  <2>12. EdgesKnown(u)
    BY <2>4, <2>9 DEF Consistent, EdgesKnown
  <2>13. Keeps(t, u)
    BY <2>4, <2>9 DEF Keeps
  <2> QED
    BY <2>1, <2>4, <2>7, <2>11, <2>12, <2>13, <2>8, <2>10 DEF Consistent
<1> QED
  BY <1>1, <1>2

LEMMA ExternalIsNode == \A id \in Id : External(id) \in Node /\ External(id).kind = "External"
BY DEF External, Node, Kind

LEMMA EnsureExternalKeeps ==
    ASSUME NEW t, Consistent(t), NEW id \in Id
    PROVE  /\ Consistent(EnsureExternal(t, id)) /\ Keeps(t, EnsureExternal(t, id))
           /\ id \in DOMAIN EnsureExternal(t, id).indices
<1>1. CASE id \in DOMAIN t.indices
  BY <1>1 DEF EnsureExternal, Keeps
<1>2. CASE id \notin DOMAIN t.indices
  BY <1>2, ExternalIsNode, InsertNodeKeeps DEF EnsureExternal, External
<1> QED
  BY <1>1, <1>2

LEMMA InsertEdgeKeeps ==
    ASSUME NEW t, Consistent(t), NEW edge \in Edge
    PROVE  Consistent(InsertEdge(t, edge)) /\ Keeps(t, InsertEdge(t, edge))
<1> DEFINE one == EnsureExternal(t, edge.source)
           both == EnsureExternal(one, edge.target)
<1>1. edge.source \in Id /\ edge.target \in Id
  BY DEF Edge
<1>2. Consistent(one) /\ Keeps(t, one) /\ edge.source \in DOMAIN one.indices
  BY <1>1, EnsureExternalKeeps
<1> HIDE DEF one
<1>3. Consistent(both) /\ Keeps(one, both) /\ edge.target \in DOMAIN both.indices
  BY <1>1, <1>2, EnsureExternalKeeps
<1>4. edge.source \in DOMAIN both.indices
  BY <1>2, <1>3 DEF Keeps
<1> HIDE DEF both
<1>5. Consistent(Link(both, edge)) /\ Keeps(both, Link(both, edge))
  BY <1>3, <1>4, LinkKeeps
<1>6. Keeps(t, Link(both, edge))
  BY <1>2, <1>3, <1>5, KeepsIsTransitive
<1> QED
  BY <1>5, <1>6 DEF InsertEdge, one, both

-----------------------------------------------------------------------------
(***************************************************************************)
(* Which nodes are External.                                               *)
(***************************************************************************)
LEMMA InsertNodeTold ==
    ASSUME NEW t, Consistent(t), NEW D, Told(t, D), NEW node \in Node
    PROVE  Told(InsertNode(t, node), IF node.kind = "External" THEN D ELSE D \cup {node.id})
<1> DEFINE u == InsertNode(t, node)
           i == t.indices[node.id]
<1>1. CASE node.id \notin DOMAIN t.indices
  <2>1. u.nodes = Append(t.nodes, node) /\ DOMAIN u.indices = DOMAIN t.indices \cup {node.id}
    BY <1>1, AppendKeeps
  <2> HIDE DEF u
  <2>2. /\ t.nodes \in Seq(Node) /\ Len(u.nodes) = Len(t.nodes) + 1
        /\ u.nodes[Len(t.nodes) + 1] = node
        /\ \A j \in 1 .. Len(t.nodes) : u.nodes[j] = t.nodes[j] /\ t.nodes[j].id # node.id
    BY <1>1, <2>1 DEF Consistent, Tables, Positions
  <2>3. node.id \notin D
    BY <1>1 DEF Told
  <2> QED
    BY <2>1, <2>2, <2>3 DEF Told, u
<1>2. CASE node.id \in DOMAIN t.indices /\ Replaces(t.nodes[i], node)
  <2>1. u = [t EXCEPT !.nodes[i] = node]
    BY <1>2 DEF InsertNode
  <2>2. u.nodes = [t.nodes EXCEPT ![i] = node] /\ u.indices = t.indices
    BY <2>1 DEF Consistent, Tables
  <2> HIDE DEF u
  <2>3. /\ i \in 1 .. Len(t.nodes) /\ t.nodes[i].id = node.id
        /\ \A j \in 1 .. Len(t.nodes) : j # i => t.nodes[j].id # node.id
    BY <1>2 DEF Consistent, Positions
  <2>4. /\ Len(u.nodes) = Len(t.nodes) /\ u.nodes[i] = node
        /\ \A j \in 1 .. Len(t.nodes) : j # i => u.nodes[j] = t.nodes[j]
    BY <2>2, <2>3 DEF Consistent, Tables
  <2>5. node.kind # "External"
    BY <1>2 DEF Replaces
  <2> QED
    BY <1>2, <2>2, <2>3, <2>4, <2>5 DEF Told, u
<1>3. CASE node.id \in DOMAIN t.indices /\ ~Replaces(t.nodes[i], node)
  <2>1. u = t
    BY <1>3 DEF InsertNode
  <2>2. i \in 1 .. Len(t.nodes) /\ t.nodes[i].id = node.id
    BY <1>3 DEF Consistent, Positions
  <2>3. node.kind # "External" => node.id \in D
    BY <1>3, <2>2 DEF Replaces, Told
  <2> QED
    BY <2>1, <2>3 DEF Told
<1> QED
  BY <1>1, <1>2, <1>3

LEMMA InsertEdgeTold ==
    ASSUME NEW t, Consistent(t), NEW D, Told(t, D), NEW edge \in Edge
    PROVE  Told(InsertEdge(t, edge), D)
<1>1. ASSUME NEW u, Consistent(u), Told(u, D), NEW id \in Id
      PROVE  Told(EnsureExternal(u, id), D)
  BY <1>1, ExternalIsNode, InsertNodeTold DEF EnsureExternal
<1> DEFINE one == EnsureExternal(t, edge.source)
           both == EnsureExternal(one, edge.target)
<1>2. edge.source \in Id /\ edge.target \in Id
  BY DEF Edge
<1>3. Consistent(one) /\ Told(one, D) /\ edge.source \in DOMAIN one.indices
  BY <1>1, <1>2, EnsureExternalKeeps
<1> HIDE DEF one
<1>4. Consistent(both) /\ Told(both, D) /\ edge.target \in DOMAIN both.indices /\ Keeps(one, both)
  BY <1>1, <1>2, <1>3, EnsureExternalKeeps
<1>5. edge.source \in DOMAIN both.indices
  BY <1>3, <1>4 DEF Keeps
<1> HIDE DEF both
<1>6. Link(both, edge).nodes = both.nodes /\ Link(both, edge).indices = both.indices
  BY <1>4, <1>5, LinkKeeps
<1>7. Told(Link(both, edge), D)
  BY <1>4, <1>6 DEF Told
<1> QED
  BY <1>7 DEF InsertEdge, one, both

-----------------------------------------------------------------------------
(***************************************************************************)
(* The invariant of the tables, and the theorems.                          *)
(***************************************************************************)
TableInv ==
    /\ Consistent(tables)
    /\ Told(tables, defined)
    /\ pending \in [nodes : Seq(Node), edges : Seq(Edge)]

LEMMA Becoming ==
    ASSUME NEW u \in Tables, Become(u)
    PROVE  tables' = u
BY DEF Become, tables, Tables

LEMMA InitInv == Init => TableInv
<1> SUFFICES ASSUME Init PROVE TableInv
  OBVIOUS
<1>1. /\ tables.nodes = <<>> /\ tables.indices = <<>> /\ tables.edges = <<>>
      /\ tables.outgoing = <<>> /\ tables.incoming = <<>> /\ defined = {}
  BY DEF Init, tables
<1>2. tables \in Tables
  <2>1. <<>> \in [{} -> Nat] /\ {} \in SUBSET Id
    OBVIOUS
  <2>2. <<>> \in UNION {[D -> Nat] : D \in SUBSET Id}
    BY <2>1
  <2>3. <<>> \in Seq(Node) /\ <<>> \in Seq(Edge) /\ <<>> \in Seq(Seq(Nat))
    OBVIOUS
  <2>4. tables = [nodes |-> <<>>, indices |-> <<>>, edges |-> <<>>,
                  outgoing |-> <<>>, incoming |-> <<>>]
    BY DEF Init, tables
  <2> QED
    BY <2>2, <2>3, <2>4 DEF Tables
<1>3. Consistent(tables)
  BY <1>1, <1>2 DEF Consistent, Positions, EdgesKnown, Outgoing, Incoming, Increasing
<1>4. Told(tables, defined)
  BY <1>1 DEF Told
<1> QED
  BY <1>3, <1>4 DEF Init, TableInv

\* What the calls do to the tables.
LEMMA InsertingNode ==
    ASSUME TableInv, NEW node \in Node, Become(InsertNode(tables, node)),
           pending' \in [nodes : Seq(Node), edges : Seq(Edge)],
           defined' = IF node.kind = "External" THEN defined ELSE defined \cup {node.id}
    PROVE  TableInv' /\ Keeps(tables, tables') /\ tables' = InsertNode(tables, node)
<1>1. /\ Consistent(InsertNode(tables, node)) /\ Keeps(tables, InsertNode(tables, node))
      /\ Told(InsertNode(tables, node), defined')
  BY InsertNodeKeeps, InsertNodeTold DEF TableInv
<1>2. tables' = InsertNode(tables, node)
  BY <1>1, Becoming DEF Consistent
<1> QED
  BY <1>1, <1>2 DEF TableInv

LEMMA InsertingEdge ==
    ASSUME TableInv, NEW t, Consistent(t), Keeps(tables, t), Told(t, defined), NEW edge \in Edge,
           Become(InsertEdge(t, edge)), defined' = defined,
           pending' \in [nodes : Seq(Node), edges : Seq(Edge)]
    PROVE  TableInv' /\ Keeps(tables, tables') /\ tables' = InsertEdge(t, edge)
<1>1. /\ Consistent(InsertEdge(t, edge)) /\ Keeps(t, InsertEdge(t, edge))
      /\ Told(InsertEdge(t, edge), defined)
  BY InsertEdgeKeeps, InsertEdgeTold
<1>2. tables' = InsertEdge(t, edge)
  BY <1>1, Becoming DEF Consistent
<1>3. Keeps(tables, tables')
  BY <1>1, <1>2, KeepsIsTransitive
<1> QED
  BY <1>1, <1>2, <1>3 DEF TableInv

LEMMA DefiningNode ==
    ASSUME TableInv, NEW id \in Id, NEW kind \in DefinedKind, NEW span \in Span, DefineNode(id, kind, span)
    PROVE  /\ TableInv' /\ Keeps(tables, tables')
           /\ tables' = InsertNode(tables, [id |-> id, kind |-> kind, span |-> span])
<1> DEFINE new == [id |-> id, kind |-> kind, span |-> span]
<1>1. new \in Node /\ new.kind # "External" /\ new.id = id
  BY KindAssumption DEF Node, Kind
<1> QED
  BY <1>1, InsertingNode DEF DefineNode, TableInv

LEMMA AddingEdge ==
    ASSUME TableInv, NEW edge \in Edge, AddEdge(edge)
    PROVE  /\ TableInv' /\ Keeps(tables, tables')
           /\ tables' = InsertEdge(EnsureExternal(tables, edge.target), edge)
<1> DEFINE t == EnsureExternal(tables, edge.target)
<1>1. edge.target \in Id
  BY DEF Edge
<1>2. Consistent(t) /\ Keeps(tables, t)
  BY <1>1, EnsureExternalKeeps DEF TableInv
<1>3. Keeps(tables, tables)
  BY DEF Keeps
<1>4. Told(t, defined)
  BY <1>1, ExternalIsNode, InsertNodeTold DEF EnsureExternal, TableInv
<1> HIDE DEF t
<1> QED
  BY <1>2, <1>4, InsertingEdge DEF AddEdge, t, TableInv

LEMMA Merging ==
    ASSUME TableInv, Merge
    PROVE  TableInv' /\ Keeps(tables, tables')
<1>1. Keeps(tables, tables)
  BY DEF Keeps
<1>2. ASSUME NEW other \in Other, Extend(other)
      PROVE  TableInv' /\ Keeps(tables, tables')
  BY <1>1, <1>2, OtherAssumption DEF Extend, tables, TableInv
<1>3. CASE ExtendNode
  <2> DEFINE node == Head(pending.nodes)
  <2>1. node \in Node /\ Tail(pending.nodes) \in Seq(Node)
    BY <1>3 DEF ExtendNode, TableInv
  <2>2. pending' \in [nodes : Seq(Node), edges : Seq(Edge)]
    BY <1>3, <2>1 DEF ExtendNode, TableInv
  <2> QED
    BY <1>3, <2>1, <2>2, InsertingNode DEF ExtendNode
<1>4. CASE ExtendEdge
  <2> DEFINE edge == Head(pending.edges)
  <2>1. edge \in Edge /\ Tail(pending.edges) \in Seq(Edge)
    BY <1>4 DEF ExtendEdge, TableInv
  <2>2. pending' \in [nodes : Seq(Node), edges : Seq(Edge)]
    BY <1>4, <2>1 DEF ExtendEdge, TableInv
  <2> QED
    BY <1>1, <1>4, <2>1, <2>2, InsertingEdge DEF ExtendEdge, TableInv
<1> QED
  BY <1>2, <1>3, <1>4 DEF Merge

LEMMA Calling ==
    ASSUME TableInv,
           NEW someNodes \in SUBSET [id : Id, kind : DefinedKind, span : Span], NEW someEdges \in SUBSET Edge,
           Calls(someNodes, someEdges)
    PROVE  TableInv' /\ Keeps(tables, tables')
<1>1. ASSUME NEW node \in someNodes, DefineNode(node.id, node.kind, node.span)
      PROVE  TableInv' /\ Keeps(tables, tables')
  BY <1>1, DefiningNode
<1>2. ASSUME NEW edge \in someEdges, AddEdge(edge)
      PROVE  TableInv' /\ Keeps(tables, tables')
  BY <1>2, AddingEdge
<1> QED
  BY <1>1, <1>2 DEF Calls

\* What a step that leaves the tables alone does.
LEMMA Resting ==
    ASSUME TableInv, UNCHANGED vars
    PROVE  TableInv' /\ tables' = tables /\ Keeps(tables, tables')
BY DEF TableInv, vars, tables, Keeps

LEMMA StepInv == TableInv /\ [Next]_vars => TableInv' /\ Keeps(tables, tables')
<1> SUFFICES ASSUME TableInv, [Next]_vars
             PROVE  TableInv' /\ Keeps(tables, tables')
  OBVIOUS
<1>1. CASE Calls([id : Id, kind : DefinedKind, span : Span], Edge)
  BY <1>1, Calling
<1> QED
  BY <1>1, Merging, Resting DEF Next

LEMMA InvIsExact == TableInv => TablesExact
<1> SUFFICES ASSUME TableInv PROVE TablesExact
  OBVIOUS
<1>1. /\ tables.nodes = nodes /\ tables.indices = indices /\ tables.edges = edges
      /\ tables.outgoing = outgoing /\ tables.incoming = incoming
  BY DEF tables
<1>2. /\ Positions(tables) /\ EdgesKnown(tables) /\ Outgoing(tables) /\ Incoming(tables)
      /\ tables \in Tables
  BY DEF TableInv, Consistent
<1>3. IndicesExact
  BY <1>1, <1>2 DEF IndicesExact, Positions
<1>4. ListsExactly(outgoing, SourceOf)
  <2>1. \A n \in 1 .. Len(nodes), e \in 1 .. Len(edges) :
          (\E i \in 1 .. Len(outgoing[n]) : outgoing[n][i] = e) <=> edges[e].source = nodes[n].id
    BY <1>1, <1>2 DEF Outgoing, Listed
  <2>2. \A n \in 1 .. Len(nodes) : \A i \in 1 .. Len(outgoing[n]) :
          /\ outgoing[n][i] \in 1 .. Len(edges)
          /\ \A j \in 1 .. Len(outgoing[n]) : i < j => outgoing[n][i] < outgoing[n][j]
    BY <1>1, <1>2 DEF Outgoing, Increasing
  <2>3. ASSUME NEW n \in 1 .. Len(nodes)
        PROVE  {outgoing[n][i] : i \in 1 .. Len(outgoing[n])}
                 = {e \in 1 .. Len(edges) : edges[e].source = nodes[n].id}
    <3>1. \A e \in 1 .. Len(edges) :
            edges[e].source = nodes[n].id => \E i \in 1 .. Len(outgoing[n]) : outgoing[n][i] = e
      BY <2>1
    <3>2. \A i \in 1 .. Len(outgoing[n]) :
            outgoing[n][i] \in 1 .. Len(edges) /\ edges[outgoing[n][i]].source = nodes[n].id
      BY <2>1, <2>2
    <3> QED
      BY <3>1, <3>2
  <2>4. \A e \in 1 .. Len(edges) : edges[e].source \in DOMAIN indices
    BY <1>1, <1>2 DEF EdgesKnown
  <2> QED
    BY <2>2, <2>3, <2>4 DEF ListsExactly, SourceOf
<1>5. ListsExactly(incoming, TargetOf)
  <2>1. \A n \in 1 .. Len(nodes), e \in 1 .. Len(edges) :
          (\E i \in 1 .. Len(incoming[n]) : incoming[n][i] = e) <=> edges[e].target = nodes[n].id
    BY <1>1, <1>2 DEF Incoming, Listed
  <2>2. \A n \in 1 .. Len(nodes) : \A i \in 1 .. Len(incoming[n]) :
          /\ incoming[n][i] \in 1 .. Len(edges)
          /\ \A j \in 1 .. Len(incoming[n]) : i < j => incoming[n][i] < incoming[n][j]
    BY <1>1, <1>2 DEF Incoming, Increasing
  <2>3. ASSUME NEW n \in 1 .. Len(nodes)
        PROVE  {incoming[n][i] : i \in 1 .. Len(incoming[n])}
                 = {e \in 1 .. Len(edges) : edges[e].target = nodes[n].id}
    <3>1. \A e \in 1 .. Len(edges) :
            edges[e].target = nodes[n].id => \E i \in 1 .. Len(incoming[n]) : incoming[n][i] = e
      BY <2>1
    <3>2. \A i \in 1 .. Len(incoming[n]) :
            incoming[n][i] \in 1 .. Len(edges) /\ edges[incoming[n][i]].target = nodes[n].id
      BY <2>1, <2>2
    <3> QED
      BY <3>1, <3>2
  <2>4. \A e \in 1 .. Len(edges) : edges[e].target \in DOMAIN indices
    BY <1>1, <1>2 DEF EdgesKnown
  <2> QED
    BY <2>2, <2>3, <2>4 DEF ListsExactly, TargetOf
<1> QED
  BY <1>3, <1>4, <1>5 DEF TablesExact, AdjacencyExact

-----------------------------------------------------------------------------
(***************************************************************************)
(* Which edges there are, and what a call made before changes: nothing.    *)
(***************************************************************************)
Entered(t) == {t.edges[e] : e \in 1 .. Len(t.edges)}

LEMMA EnsuringEntersNone ==
    ASSUME NEW t, Consistent(t), NEW id \in Id
    PROVE  EnsureExternal(t, id).edges = t.edges
<1>1. t \in Tables
  BY DEF Consistent
<1>2. id \notin DOMAIN t.indices => InsertNode(t, External(id)).edges = t.edges
  BY <1>1 DEF InsertNode, External, Tables
<1> QED
  BY <1>2 DEF EnsureExternal

LEMMA LinkEnters ==
    ASSUME NEW t, Consistent(t), NEW edge \in Edge,
           edge.source \in DOMAIN t.indices, edge.target \in DOMAIN t.indices
    PROVE  /\ Entered(Link(t, edge)) = Entered(t) \cup {edge}
           /\ edge \in Entered(t) => Link(t, edge) = t
<1> DEFINE source == t.indices[edge.source]
<1>1. /\ t \in Tables /\ Len(t.edges) \in Nat
      /\ source \in 1 .. Len(t.nodes) /\ t.nodes[source].id = edge.source
      /\ Outgoing(t)
  BY DEF Consistent, Positions, Tables
<1>2. \A e \in 1 .. Len(t.edges) :
        Listed(t, t.outgoing, source, e) <=> t.edges[e].source = edge.source
  BY <1>1 DEF Outgoing
<1>3. \A i \in 1 .. Len(t.outgoing[source]) : t.outgoing[source][i] \in 1 .. Len(t.edges)
  BY <1>1 DEF Outgoing, Increasing
<1>4. Contains(t.edges, edge, t.outgoing[source]) <=> edge \in Entered(t)
  <2>1. ASSUME NEW e \in 1 .. Len(t.edges), t.edges[e] = edge
        PROVE  Contains(t.edges, edge, t.outgoing[source])
    <3>1. Listed(t, t.outgoing, source, e)
      BY <1>2, <2>1
    <3> QED
      BY <2>1, <3>1 DEF Listed, Contains
  <2>2. ASSUME NEW i \in 1 .. Len(t.outgoing[source]), t.edges[t.outgoing[source][i]] = edge
        PROVE  edge \in Entered(t)
    BY <1>3, <2>2 DEF Entered
  <2> QED
    BY <2>1, <2>2 DEF Entered, Contains
<1>5. CASE Contains(t.edges, edge, t.outgoing[source])
  <2>1. Link(t, edge) = t
    BY <1>5 DEF Link
  <2> QED
    BY <1>4, <1>5, <2>1
<1>6. CASE ~Contains(t.edges, edge, t.outgoing[source])
  <2>1. Link(t, edge).edges = Append(t.edges, edge)
    BY <1>1, <1>6 DEF Link, Tables
  <2>2. t.edges \in Seq(Edge)
    BY <1>1 DEF Tables
  <2>3. /\ Len(Append(t.edges, edge)) = Len(t.edges) + 1
        /\ Append(t.edges, edge)[Len(t.edges) + 1] = edge
        /\ \A e \in 1 .. Len(t.edges) : Append(t.edges, edge)[e] = t.edges[e]
    BY <2>2
  <2>4. 1 .. Len(t.edges) + 1 = (1 .. Len(t.edges)) \cup {Len(t.edges) + 1}
    BY <1>1
  <2>5. Entered(Link(t, edge)) = Entered(t) \cup {edge}
    BY <2>1, <2>3, <2>4 DEF Entered
  <2> QED
    BY <1>4, <1>6, <2>5
<1> QED
  BY <1>5, <1>6

LEMMA InsertEdgeEnters ==
    ASSUME NEW t, Consistent(t), NEW edge \in Edge
    PROVE  /\ Entered(InsertEdge(t, edge)) = Entered(t) \cup {edge}
           /\ edge \in Entered(t) => InsertEdge(t, edge) = t
<1> DEFINE one == EnsureExternal(t, edge.source)
           both == EnsureExternal(one, edge.target)
<1>1. edge.source \in Id /\ edge.target \in Id
  BY DEF Edge
<1>2. Consistent(one) /\ edge.source \in DOMAIN one.indices /\ one.edges = t.edges
  BY <1>1, EnsureExternalKeeps, EnsuringEntersNone
<1>3. edge \in Entered(t) => edge.source \in DOMAIN t.indices /\ edge.target \in DOMAIN t.indices
  BY DEF Entered, Consistent, EdgesKnown
<1>4. edge \in Entered(t) => one = t /\ both = t
  BY <1>3 DEF EnsureExternal
<1> HIDE DEF one
<1>5. /\ Consistent(both) /\ Keeps(one, both) /\ edge.target \in DOMAIN both.indices
      /\ both.edges = one.edges
  BY <1>1, <1>2, EnsureExternalKeeps, EnsuringEntersNone
<1>6. edge.source \in DOMAIN both.indices
  BY <1>2, <1>5 DEF Keeps
<1> HIDE DEF both
<1>7. /\ Entered(Link(both, edge)) = Entered(both) \cup {edge}
      /\ edge \in Entered(both) => Link(both, edge) = both
  BY <1>5, <1>6, LinkEnters
<1>8. Entered(both) = Entered(t)
  BY <1>2, <1>5 DEF Entered
<1> QED
  BY <1>4, <1>7, <1>8 DEF InsertEdge, one, both

\* A definition or a reference entered before is in place.
LEMMA DefiningAgain ==
    ASSUME TableInv, NEW node, node.id \in defined
    PROVE  InsertNode(tables, node) = tables
<1>1. /\ node.id \in DOMAIN tables.indices
      /\ tables.indices[node.id] \in 1 .. Len(tables.nodes)
      /\ tables.nodes[tables.indices[node.id]].id = node.id
  BY DEF TableInv, Told, Consistent, Positions
<1>2. tables.nodes[tables.indices[node.id]].kind # "External"
  BY <1>1 DEF TableInv, Told
<1> QED
  BY <1>1, <1>2 DEF InsertNode, Replaces

LEMMA AddingEnters ==
    ASSUME TableInv, NEW edge \in Edge, AddEdge(edge)
    PROVE  /\ Entered(tables') = Entered(tables) \cup {edge}
           /\ edge \in Entered(tables) => tables' = tables
<1> DEFINE t == EnsureExternal(tables, edge.target)
<1>1. Consistent(tables) /\ edge.target \in Id
  BY DEF TableInv, Edge
<1>2. Consistent(t) /\ t.edges = tables.edges
  BY <1>1, EnsureExternalKeeps, EnsuringEntersNone
<1>3. edge \in Entered(tables) => t = tables
  BY <1>1 DEF Entered, Consistent, EdgesKnown, EnsureExternal
<1>4. tables' = InsertEdge(t, edge)
  BY AddingEdge
<1> HIDE DEF t
<1>5. Entered(t) = Entered(tables)
  BY <1>2 DEF Entered
<1> QED
  BY <1>2, <1>3, <1>4, <1>5, InsertEdgeEnters

-----------------------------------------------------------------------------
\* The five tables say the same of the graph, after any calls in any order: the
\* positions the cycle detection and the evaluation order follow are those of the
\* edges that were entered.  (graph.rs, insert_node, insert_edge, extend)
THEOREM TablesStayExact == Spec => []TablesExact
<1> QED
  BY InitInv, StepInv, InvIsExact, PTL DEF Spec

\* A node is External exactly as long as nothing has defined it, whether it was
\* referred to, merged or defined first.  (graph.rs, insert_node)
THEOREM ReferencesAwaitDefinitions == Spec => []ExternalUntilDefined
<1>1. TableInv => ExternalUntilDefined
  BY DEF TableInv, Told, ExternalUntilDefined, tables
<1> QED
  BY <1>1, InitInv, StepInv, PTL DEF Spec

\* No later call changes a definition, or the place of a node or an edge.
\* (graph.rs, insert_node)
THEOREM DefinitionsAreKept == Spec => DefinitionsStay
<1>1. TableInv /\ [Next]_vars =>
        [/\ \A i \in 1 .. Len(nodes) :
               /\ nodes'[i].id = nodes[i].id
               /\ nodes[i].kind # "External" => nodes'[i] = nodes[i]
         /\ \A e \in 1 .. Len(edges) : edges'[e] = edges[e]]_vars
  BY StepInv DEF Keeps, tables
<1> QED
  BY <1>1, InitInv, StepInv, PTL DEF Spec, DefinitionsStay
=============================================================================
