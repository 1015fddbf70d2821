------------------------------- MODULE Tarjan -------------------------------
(***************************************************************************)
(* strongly_connected_components and cycles of a DependencyGraph.  visit   *)
(* calls itself for the dependencies not visited yet; a frame of the call  *)
(* stack holds a node and the dependencies its loop has still to look at,  *)
(* which it takes in ascending order.                                      *)
(***************************************************************************)
EXTENDS Integers, Sequences, FiniteSets

CONSTANTS
    Node,       \* positions in the node table, finitely many numbers
    Graph       \* the adjacencies considered, a set of functions in [Node -> SUBSET Node]

None == -1      \* an index not assigned yet

VARIABLES
    adjacency,  \* fixed
    next_index,
    indices,
    low_links,
    stack,
    on_stack,   \* the nodes whose flag is set
    components,
    frames      \* the running calls of visit, the innermost last

vars == <<adjacency, next_index, indices, low_links, stack, on_stack, components, frames>>

Init ==
    /\ adjacency \in Graph
    /\ next_index = 0
    /\ indices = [n \in Node |-> None]
    /\ low_links = [n \in Node |-> 0]
    /\ stack = <<>>
    /\ on_stack = {}
    /\ components = <<>>
    /\ frames = <<>>

LowerOf(a, b) == IF a < b THEN a ELSE b
Least(S) == CHOOSE n \in S : \A m \in S : n <= m
Unvisited == {n \in Node : indices[n] = None}
Visiting == frames # <<>>
Frame == frames[Len(frames)]

\* The head of visit.
Enter(n) ==
    /\ next_index' = next_index + 1
    /\ indices' = [indices EXCEPT ![n] = next_index]
    /\ low_links' = [low_links EXCEPT ![n] = next_index]
    /\ stack' = Append(stack, n)
    /\ on_stack' = on_stack \cup {n}

\* The loop of strongly_connected_components: the next node without an index.
VisitRoot ==
    /\ ~Visiting
    /\ Unvisited # {}
    /\ LET n == Least(Unvisited) IN
         /\ Enter(n)
         /\ frames' = <<[node |-> n, left |-> adjacency[n]]>>
    /\ UNCHANGED <<adjacency, components>>

\* The recursive call for a dependency without an index.
Descend ==
    /\ Visiting
    /\ Frame.left # {}
    /\ LET d == Least(Frame.left) IN
         /\ indices[d] = None
         /\ Enter(d)
         /\ frames' = Append([frames EXCEPT ![Len(frames)].left = @ \ {d}],
                             [node |-> d, left |-> adjacency[d]])
    /\ UNCHANGED <<adjacency, components>>

\* A dependency on the stack lowers the link, any other one with an index does not.
\* Mutant: every dependency with an index lowers the link.
LooksAtAll(n, d) == LowerOf(low_links[n], indices[d])

LooksAt(n, d) ==
    IF d \in on_stack THEN LowerOf(low_links[n], indices[d]) ELSE low_links[n]

Look ==
    /\ Visiting
    /\ Frame.left # {}
    /\ LET d == Least(Frame.left) IN
         /\ indices[d] # None
         /\ low_links' = [low_links EXCEPT ![Frame.node] = LooksAt(Frame.node, d)]
         /\ frames' = [frames EXCEPT ![Len(frames)].left = @ \ {d}]
    /\ UNCHANGED <<adjacency, next_index, indices, stack, on_stack, components>>

\* After the return the caller takes over the link of the dependency it visited.
Resume(links) ==
    /\ frames' = SubSeq(frames, 1, Len(frames) - 1)
    /\ low_links' =
         IF Len(frames) = 1 THEN links
         ELSE LET caller == frames[Len(frames) - 1].node
              IN  [links EXCEPT ![caller] = LowerOf(@, links[Frame.node])]

IsRoot(n) == low_links[n] = indices[n]

ReturnInner ==
    /\ Visiting
    /\ Frame.left = {}
    /\ ~IsRoot(Frame.node)
    /\ Resume(low_links)
    /\ UNCHANGED <<adjacency, next_index, indices, stack, on_stack, components>>

\* The stack down to the root of the component is popped.
PositionOf(n) == CHOOSE i \in 1 .. Len(stack) : stack[i] = n

ReturnRoot ==
    /\ Visiting
    /\ Frame.left = {}
    /\ IsRoot(Frame.node)
    /\ LET at == PositionOf(Frame.node)
           component == {stack[i] : i \in at .. Len(stack)}
       IN  /\ stack' = SubSeq(stack, 1, at - 1)
           /\ on_stack' = on_stack \ component
           /\ components' = Append(components, component)
    /\ Resume(low_links)
    /\ UNCHANGED <<adjacency, next_index, indices>>

Next == VisitRoot \/ Descend \/ Look \/ ReturnInner \/ ReturnRoot

\* One call, which nothing else runs beside.
Spec == Init /\ [][Next]_vars

Done == ~Visiting /\ Unvisited = {}

\* cycles(): the components with several nodes or with an edge to itself.
\* Mutant: a node that uses itself is not a cycle.
LargeComponents == {components[i] : i \in {j \in 1 .. Len(components) : Cardinality(components[j]) > 1}}

Cycles ==
    {components[i] : i \in {j \in 1 .. Len(components) :
        \/ Cardinality(components[j]) > 1
        \/ \E n \in components[j] : n \in adjacency[n]}}

-----------------------------------------------------------------------------
TypeOK ==
    /\ next_index \in 0 .. Cardinality(Node)
    /\ indices \in [Node -> {None} \cup 0 .. (Cardinality(Node) - 1)]
    /\ low_links \in [Node -> 0 .. Cardinality(Node)]
    /\ stack \in Seq(Node)
    /\ components \in Seq(SUBSET Node)
    /\ on_stack = {stack[i] : i \in 1 .. Len(stack)}

\* What a node reaches, by definition: every set that holds it and is closed under
\* dependencies holds those.
Reaches(n, m) ==
    \A S \in SUBSET Node : (n \in S /\ \A k \in S : adjacency[k] \subseteq S) => m \in S

\* The components are exactly the classes of nodes that reach each other.
ComponentsAreClasses ==
    Done => /\ UNION {components[i] : i \in 1 .. Len(components)} = Node
            /\ \A i \in 1 .. Len(components) : \A n \in components[i] :
                 components[i] = {m \in Node : Reaches(n, m) /\ Reaches(m, n)}
            /\ Len(components) = Cardinality({components[i] : i \in 1 .. Len(components)})

\* A component is reported after everything its nodes use, at every moment.
DependenciesReportedFirst ==
    \A i \in 1 .. Len(components) : \A n \in components[i] :
        adjacency[n] \subseteq UNION {components[j] : j \in 1 .. i}

\* Both: what cycles and evaluation_order rest on.
ComponentsInOrder == TypeOK /\ ComponentsAreClasses /\ DependenciesReportedFirst

\* evaluation_order refuses a graph exactly when some nodes only use each other:
\* no cycle is missed, and none is reported in a graph that has an order.
CyclesAreReported ==
    Done => (Cycles # {} <=>
        \E S \in (SUBSET Node) \ {{}} : \A n \in S : adjacency[n] \cap S # {})
=============================================================================
