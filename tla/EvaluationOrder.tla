-------------------------- MODULE EvaluationOrder --------------------------
(***************************************************************************)
(* DependencyGraph::evaluation_order: Kahn's algorithm over the dependency *)
(* graph of a module.  An edge points from a declaration to a value it     *)
(* uses, and two references to the same value are two edges.  The ready    *)
(* nodes are kept in an ordered set and the smallest identifier is taken   *)
(* first, so that the order depends on nothing but the graph.              *)
(***************************************************************************)
EXTENDS Integers, Sequences, FiniteSets

CONSTANTS
    Node,       \* node identifiers, ordered as DependencyNodeId is
    EdgeKind,   \* Reference, Call, InterfaceDispatch
    Graph       \* the sets of edges considered

Edge == [source : Node, target : Node, kind : EdgeKind]

ASSUME NodeAssumption == Node \subseteq Nat /\ IsFiniteSet(Node)
ASSUME GraphAssumption == Graph \subseteq SUBSET Edge

VARIABLES
    edges,      \* the graph, fixed
    pc,         \* "start", "loop", "done", or "cyclic" for EvaluationOrderError
    remaining,  \* remaining_dependencies
    ready,
    order

vars == <<edges, pc, remaining, ready, order>>

\* adjacency: the targets of a node's edges, each once.
Dependencies(n) == {e.target : e \in {x \in edges : x.source = n}}

\* cycles() is not empty: some nodes use only each other.  Module Tarjan shows
\* that the components it reports say the same.
HasCycle ==
    \E S \in (SUBSET Node) \ {{}} : \A n \in S : Dependencies(n) \cap S # {}

Emitted == {order[i] : i \in 1 .. Len(order)}

Init ==
    /\ edges \in Graph
    /\ pc = "start"
    /\ remaining = [n \in Node |-> 0]
    /\ ready = {}
    /\ order = <<>>

Refuse ==
    /\ pc = "start"
    /\ HasCycle
    /\ pc' = "cyclic"
    /\ UNCHANGED <<edges, remaining, ready, order>>

\* Mutant: the edges are counted instead of the distinct dependencies.
CountWithDuplicates == [n \in Node |-> Cardinality({x \in edges : x.source = n})]

\* Mutant: only references are counted, not calls.
CountReferences ==
    [n \in Node |-> Cardinality({e.target : e \in
        {x \in edges : x.source = n /\ x.kind = "Reference"}})]

\* remaining_dependencies before the loop.
Count == [n \in Node |-> Cardinality(Dependencies(n))]

Start ==
    /\ pc = "start"
    /\ ~HasCycle
    /\ pc' = "loop"
    /\ remaining' = Count
    /\ ready' = {n \in Node : remaining'[n] = 0}
    /\ UNCHANGED <<edges, order>>

\* Mutant: a dependent joins the ready nodes while one dependency is missing.
PopEarly ==
    /\ pc = "loop"
    /\ \E n \in ready :
         LET dependents == {m \in Node : n \in Dependencies(m)} IN
         /\ \A m \in ready : n <= m
         /\ order' = Append(order, n)
         /\ remaining' = [m \in Node |->
                IF m \in dependents THEN remaining[m] - 1 ELSE remaining[m]]
         /\ ready' = (ready \ {n}) \cup {m \in dependents : remaining'[m] <= 1}
    /\ UNCHANGED <<edges, pc>>

\* Mutant: any ready node is taken.
PopAny ==
    /\ pc = "loop"
    /\ \E n \in ready :
         LET dependents == {m \in Node : n \in Dependencies(m)} IN
         /\ order' = Append(order, n)
         /\ remaining' = [m \in Node |->
                IF m \in dependents THEN remaining[m] - 1 ELSE remaining[m]]
         /\ ready' = (ready \ {n}) \cup {m \in dependents : remaining'[m] = 0}
    /\ UNCHANGED <<edges, pc>>

\* pop_last of a set of reversed keys is the smallest key; its dependents lose
\* one remaining dependency each and join when they have none left.
Pop ==
    /\ pc = "loop"
    /\ \E n \in ready :
         LET dependents == {m \in Node : n \in Dependencies(m)} IN
         /\ \A m \in ready : n <= m
         /\ order' = Append(order, n)
         /\ remaining' = [m \in Node |->
                IF m \in dependents THEN remaining[m] - 1 ELSE remaining[m]]
         /\ ready' = (ready \ {n}) \cup {m \in dependents : remaining'[m] = 0}
    /\ UNCHANGED <<edges, pc>>

Finish ==
    /\ pc = "loop"
    /\ ready = {}
    /\ pc' = "done"
    /\ UNCHANGED <<edges, remaining, ready, order>>

Next == Refuse \/ Start \/ Pop \/ Finish

Spec == Init /\ [][Next]_vars

-----------------------------------------------------------------------------
\* Counters never go below zero (they are unsigned), and the set of ready nodes
\* is empty outside the loop.
TypeOK ==
    /\ edges \subseteq Edge
    /\ pc \in {"start", "loop", "done", "cyclic"}
    /\ remaining \in [Node -> Nat]
    /\ ready \subseteq Node
    /\ order \in Seq(Node)

\* "Returns dependencies before the nodes that use them."
DependenciesFirst ==
    \A i \in 1 .. Len(order) :
        \A d \in Dependencies(order[i]) : \E j \in 1 .. (i - 1) : order[j] = d

\* debug_assert_eq!(order.len(), self.nodes.len()): no node is left out.
Complete == pc = "done" => Len(order) = Cardinality(Node)

\* The order is canonical: the lexicographically least of all the orders that
\* put dependencies first, whatever order the edges were recorded in.
IsOrder(s) ==
    \A i \in DOMAIN s : \A d \in Dependencies(s[i]) : \E j \in 1 .. (i - 1) : s[j] = d

Permutation == {s \in [1 .. Cardinality(Node) -> Node] : \A i, j \in DOMAIN s : s[i] = s[j] => i = j}

Before(s, t) ==
    \E i \in DOMAIN s : s[i] < t[i] /\ \A j \in 1 .. (i - 1) : s[j] = t[j]

Canonical ==
    pc = "done" => \A s \in Permutation : IsOrder(s) => ~Before(s, order)

\* The order is built in steps the promise allows.
Promise == INSTANCE DependencyOrder WITH
    dependsOn <- [n \in Node |-> Dependencies(n)],
    emitted <- order
ImplementsPromise == Promise!Spec
=============================================================================
