----------------------- MODULE EvaluationOrderProofs -----------------------
(***************************************************************************)
(* Kahn's algorithm is correct for every finite set of nodes and every     *)
(* graph: it emits dependencies first, leaves no node out of an acyclic    *)
(* graph, and implements the promise of DependencyOrder.                   *)
(***************************************************************************)
EXTENDS GraphQueries, FiniteSetTheorems, TLAPS

P == INSTANCE TarjanProofs WITH Graph <- [Node -> SUBSET Node]

\* The counters count the dependencies not emitted yet, and the ready nodes are
\* those not emitted whose counter is zero.
CountersExact ==
    pc = "loop" =>
        /\ \A n \in Node : remaining[n] = Cardinality(Dependencies(n) \ Emitted)
        /\ ready = {n \in Node \ Emitted : remaining[n] = 0}

\* Whatever an emitted node uses was emitted before: DependenciesFirst, set form.
Closed == \A n \in Emitted : Dependencies(n) \subseteq Emitted

EmittedOnce == \A i, j \in 1 .. Len(order) : order[i] = order[j] => i = j

\* The inductive invariant.  HasCycle is what makes the loop stop with nothing
\* left: in a graph without a cycle some node that is left has no dependency left.
KahnInv ==
    /\ TypeOK
    /\ pc = "start" => order = <<>>
    /\ pc \in {"loop", "done"} => ~HasCycle
    /\ CountersExact
    /\ EmittedOnce
    /\ DependenciesFirst
    /\ Closed
    /\ pc = "done" => Node \subseteq Emitted

\* The dependencies of a node are nodes, finitely many.
LEMMA DependenciesFinite ==
    ASSUME edges \subseteq Edge, NEW n
    PROVE  /\ Dependencies(n) \subseteq Node
           /\ IsFiniteSet(Dependencies(n))
<1>1. Dependencies(n) \subseteq Node
  BY DEF Dependencies, Edge
<1> QED
  BY <1>1, NodeAssumption, FS_Subset

\* Appending a node adds it, and nothing else, to the emitted ones.
LEMMA EmittedAppend ==
    ASSUME TypeOK, NEW n \in Node, order' = Append(order, n)
    PROVE  /\ Emitted' = Emitted \cup {n}
           /\ Len(order') = Len(order) + 1
           /\ \A i \in 1 .. Len(order) : order'[i] = order[i]
           /\ order'[Len(order) + 1] = n
<1>1. order \in Seq(Node)
  BY DEF TypeOK
<1>2. /\ Len(order') = Len(order) + 1
      /\ \A i \in 1 .. Len(order) : order'[i] = order[i]
      /\ order'[Len(order) + 1] = n
  BY <1>1
<1>3. Len(order) \in Nat
  BY <1>1
<1>4. Emitted' = {order'[i] : i \in 1 .. Len(order')}
  BY DEF Emitted
<1>5. Emitted' = Emitted \cup {n}
  <2>1. ASSUME NEW x \in Emitted' PROVE x \in Emitted \cup {n}
    <3> PICK i \in 1 .. (Len(order) + 1) : x = order'[i]
      BY <1>2, <1>4
    <3> QED
      BY <1>2, <1>3 DEF Emitted
  <2>2. ASSUME NEW x \in Emitted \cup {n} PROVE x \in Emitted'
    <3>1. CASE x = n
      BY <3>1, <1>2, <1>3, <1>4
    <3>2. CASE x \in Emitted
      <4> PICK i \in 1 .. Len(order) : x = order[i]
        BY <3>2 DEF Emitted
      <4> QED
        BY <1>2, <1>3, <1>4
    <3> QED
      BY <3>1, <3>2
  <2> QED
    BY <2>1, <2>2
<1> QED
  BY <1>2, <1>5

\* What a step that emits nothing leaves as it was.
LEMMA SamePrefix ==
    ASSUME UNCHANGED <<edges, order>>
    PROVE  /\ Emitted' = Emitted
           /\ HasCycle' = HasCycle
           /\ EmittedOnce' = EmittedOnce
           /\ DependenciesFirst' = DependenciesFirst
           /\ Closed' = Closed
<1>1. Emitted' = Emitted
  BY DEF Emitted
<1>2. HasCycle' = HasCycle
  BY DEF HasCycle, Dependencies
<1>3. EmittedOnce' = EmittedOnce
  BY DEF EmittedOnce
<1>4. DependenciesFirst' = DependenciesFirst
  BY DEF DependenciesFirst, Dependencies
<1>5. Closed' = Closed
  BY <1>1 DEF Closed, Dependencies
<1> QED
  BY <1>1, <1>2, <1>3, <1>4, <1>5

LEMMA InitKahn == Init => KahnInv
<1> SUFFICES ASSUME Init PROVE KahnInv
  OBVIOUS
<1>1. edges \subseteq Edge
  BY GraphAssumption DEF Init
<1>2. Len(order) = 0 /\ Emitted = {}
  BY DEF Init, Emitted
<1> QED
  BY <1>1, <1>2 DEF Init, KahnInv, TypeOK, CountersExact, EmittedOnce, DependenciesFirst, Closed

LEMMA StartKahn == KahnInv /\ Start => KahnInv'
<1> SUFFICES ASSUME KahnInv, Start PROVE KahnInv'
  OBVIOUS
<1>1. order = <<>> /\ order' = <<>> /\ edges' = edges /\ ~HasCycle
  BY DEF KahnInv, Start
<1>2. Emitted = {} /\ Emitted' = {}
  BY <1>1 DEF Emitted
<1>3. \A n \in Node : Dependencies(n)' = Dependencies(n)
  BY <1>1 DEF Dependencies
<1>4. \A n \in Node : /\ remaining'[n] = Cardinality(Dependencies(n) \ {})
                      /\ remaining'[n] \in Nat
  BY DependenciesFinite, FS_CardinalityType DEF Start, Count, KahnInv, TypeOK
<1>5. TypeOK'
  BY <1>4 DEF Start, Count, KahnInv, TypeOK
<1>6. CountersExact'
  BY <1>2, <1>3, <1>4 DEF CountersExact, Start
<1>7. HasCycle' = HasCycle
  BY <1>1 DEF HasCycle, Dependencies
<1> QED
  BY <1>1, <1>2, <1>5, <1>6, <1>7 DEF KahnInv, Start, EmittedOnce, DependenciesFirst, Closed

LEMMA PopKahn == KahnInv /\ Pop => KahnInv'
<1> SUFFICES ASSUME KahnInv, Pop PROVE KahnInv'
  OBVIOUS
<1> DEFINE Dependents(x) == {m \in Node : x \in Dependencies(m)}
<1> PICK n \in ready :
        /\ order' = Append(order, n)
        /\ remaining' = [m \in Node |-> IF m \in Dependents(n) THEN remaining[m] - 1
                                        ELSE remaining[m]]
        /\ ready' = (ready \ {n}) \cup {m \in Dependents(n) : remaining'[m] = 0}
  BY DEF Pop
<1>1. /\ pc = "loop" /\ pc' = "loop" /\ edges' = edges
      /\ edges \subseteq Edge /\ order \in Seq(Node) /\ remaining \in [Node -> Nat]
  BY DEF Pop, KahnInv, TypeOK
<1>2. /\ \A m \in Node : remaining[m] = Cardinality(Dependencies(m) \ Emitted)
      /\ ready = {m \in Node \ Emitted : remaining[m] = 0}
  BY <1>1 DEF KahnInv, CountersExact
<1>3. n \in Node /\ n \notin Emitted
  BY <1>2
<1>4. /\ Emitted' = Emitted \cup {n}
      /\ Len(order') = Len(order) + 1
      /\ \A i \in 1 .. Len(order) : order'[i] = order[i]
      /\ order'[Len(order) + 1] = n
  BY <1>3, EmittedAppend DEF KahnInv
<1>5. \A m : Dependencies(m)' = Dependencies(m)
  BY <1>1 DEF Dependencies
<1>6. \A m \in Node : remaining[m] = 0 => Dependencies(m) \subseteq Emitted
  <2> SUFFICES ASSUME NEW m \in Node, remaining[m] = 0 PROVE Dependencies(m) \subseteq Emitted
    OBVIOUS
  <2>1. IsFiniteSet(Dependencies(m) \ Emitted)
    BY <1>1, DependenciesFinite, FS_Difference
  <2> QED
    BY <1>2, <2>1, FS_EmptySet
<1>7. \A m \in Node : /\ remaining'[m] = Cardinality(Dependencies(m) \ Emitted')
                      /\ remaining'[m] \in Nat
  <2> SUFFICES ASSUME NEW m \in Node
               PROVE  /\ remaining'[m] = Cardinality(Dependencies(m) \ Emitted')
                      /\ remaining'[m] \in Nat
    OBVIOUS
  <2> DEFINE left == Dependencies(m) \ Emitted
  <2>1. IsFiniteSet(left)
    BY <1>1, DependenciesFinite, FS_Difference
  <2>2. Dependencies(m) \ Emitted' = left \ {n}
    BY <1>4
  <2>3. /\ IsFiniteSet(left \ {n})
        /\ Cardinality(left \ {n}) = IF n \in left THEN Cardinality(left) - 1
                                     ELSE Cardinality(left)
    BY <2>1, FS_RemoveElement
  <2>4. n \in left <=> m \in Dependents(n)
    BY <1>3
  <2>5. remaining'[m] = IF m \in Dependents(n) THEN Cardinality(left) - 1 ELSE Cardinality(left)
    BY <1>2
  <2>6. Cardinality(left \ {n}) \in Nat
    BY <2>3, FS_CardinalityType
  <2> HIDE DEF left, Dependents
  <2> QED
    BY <2>2, <2>3, <2>4, <2>5, <2>6
<1>8. ready' = {m \in Node \ Emitted' : remaining'[m] = 0}
  <2>1. \A m \in Dependents(n) : m \notin Emitted'
    <3> SUFFICES ASSUME NEW m \in Dependents(n), m \in Emitted' PROVE FALSE
      OBVIOUS
    <3>1. m \notin Emitted
      BY <1>3 DEF KahnInv, Closed
    <3>2. m # n
      BY <1>2, <1>3, <1>6
    <3> QED
      BY <1>4, <3>1, <3>2
  <2>2. \A m \in ready \ {n} : m \in Node \ Emitted' /\ remaining'[m] = 0
    <3> SUFFICES ASSUME NEW m \in ready \ {n}
                 PROVE  m \in Node \ Emitted' /\ remaining'[m] = 0
      OBVIOUS
    <3>1. m \in Node \ Emitted' /\ remaining[m] = 0
      BY <1>2, <1>4
    <3>2. m \notin Dependents(n)
      BY <1>2, <1>3, <1>6, <3>1
    <3> QED
      BY <3>1, <3>2
  <2>3. \A m \in Node \ Emitted' :
          remaining'[m] = 0 => m \in Dependents(n) \/ m \in ready \ {n}
    <3> SUFFICES ASSUME NEW m \in Node \ Emitted', remaining'[m] = 0, m \notin Dependents(n)
                 PROVE  m \in ready \ {n}
      OBVIOUS
    <3>1. remaining[m] = 0
      OBVIOUS
    <3> QED
      BY <1>2, <1>4, <3>1
  <2>4. Dependents(n) \subseteq Node
    OBVIOUS
  <2> HIDE DEF Dependents
  <2> QED
    BY <2>1, <2>2, <2>3, <2>4
<1>9. TypeOK'
  <2>1. order' \in Seq(Node)
    BY <1>1, <1>3
  <2>2. remaining' \in [Node -> Nat]
    BY <1>7
  <2> QED
    BY <1>1, <1>8, <2>1, <2>2 DEF TypeOK
<1>10. CountersExact'
  BY <1>5, <1>7, <1>8 DEF CountersExact
<1>11. EmittedOnce'
  <2> SUFFICES ASSUME NEW i \in 1 .. Len(order'), NEW j \in 1 .. Len(order'),
                      order'[i] = order'[j]
               PROVE  i = j
    BY DEF EmittedOnce
  <2>1. Len(order) \in Nat
    BY <1>1
  <2>2. \A k \in 1 .. Len(order) : order'[k] # n
    BY <1>3, <1>4 DEF Emitted
  <2>3. CASE i \in 1 .. Len(order) /\ j \in 1 .. Len(order)
    BY <1>4, <2>3 DEF KahnInv, EmittedOnce
  <2>4. CASE ~(i \in 1 .. Len(order) /\ j \in 1 .. Len(order))
    BY <1>4, <2>1, <2>2, <2>4
  <2> QED
    BY <2>3, <2>4
<1>12. DependenciesFirst'
  <2> SUFFICES ASSUME NEW i \in 1 .. Len(order'), NEW d \in Dependencies(order'[i])
               PROVE  \E j \in 1 .. (i - 1) : order'[j] = d
    BY <1>5 DEF DependenciesFirst
  <2>1. Len(order) \in Nat
    BY <1>1
  <2>2. CASE i \in 1 .. Len(order)
    <3>1. PICK j \in 1 .. (i - 1) : order[j] = d
      BY <1>4, <2>2 DEF KahnInv, DependenciesFirst
    <3>2. j \in 1 .. Len(order)
      BY <2>1, <2>2
    <3> QED
      BY <1>4, <3>1, <3>2
  <2>3. CASE i = Len(order) + 1
    <3>1. d \in Emitted
      BY <1>2, <1>3, <1>4, <1>6, <2>3
    <3>2. PICK j \in 1 .. Len(order) : order[j] = d
      BY <3>1 DEF Emitted
    <3> QED
      BY <1>4, <2>1, <2>3, <3>2
  <2> QED
    BY <1>4, <2>1, <2>2, <2>3
<1>13. Closed'
  <2>1. Dependencies(n) \subseteq Emitted
    BY <1>2, <1>3, <1>6
  <2> QED
    BY <1>4, <1>5, <2>1 DEF Closed, KahnInv
<1>14. ~HasCycle'
  BY <1>1 DEF KahnInv, HasCycle, Dependencies
<1> QED
  BY <1>1, <1>9, <1>10, <1>11, <1>12, <1>13, <1>14 DEF KahnInv

\* When no node is ready, the nodes not emitted would use each other.
LEMMA FinishKahn == KahnInv /\ Finish => KahnInv'
<1> SUFFICES ASSUME KahnInv, Finish PROVE KahnInv'
  OBVIOUS
<1> DEFINE Left == Node \ Emitted
<1>1. /\ pc = "loop" /\ pc' = "done" /\ ready = {} /\ ~HasCycle
      /\ UNCHANGED <<edges, remaining, ready, order>>
  BY DEF Finish, KahnInv
<1>2. \A n \in Left : Dependencies(n) \cap Left # {}
  <2> SUFFICES ASSUME NEW n \in Left PROVE Dependencies(n) \cap Left # {}
    OBVIOUS
  <2>1. Cardinality(Dependencies(n) \ Emitted) # 0
    BY <1>1 DEF KahnInv, CountersExact
  <2>2. Dependencies(n) \ Emitted # {}
    BY <2>1, FS_EmptySet
  <2>3. Dependencies(n) \subseteq Node
    BY DependenciesFinite DEF KahnInv, TypeOK
  <2> QED
    BY <2>2, <2>3
<1>3. Left = {}
  <2>1. Left \in SUBSET Node
    OBVIOUS
  <2> HIDE DEF Left
  <2> QED
    BY <1>1, <1>2, <2>1 DEF HasCycle
<1>4. /\ Emitted' = Emitted /\ HasCycle' = HasCycle
      /\ EmittedOnce' = EmittedOnce /\ DependenciesFirst' = DependenciesFirst
      /\ Closed' = Closed
  BY <1>1, SamePrefix
<1>5. TypeOK' /\ CountersExact'
  BY <1>1 DEF KahnInv, TypeOK, CountersExact
<1> QED
  BY <1>1, <1>3, <1>4, <1>5 DEF KahnInv

LEMMA UnchangedKahn == KahnInv /\ UNCHANGED vars => KahnInv'
<1> SUFFICES ASSUME KahnInv, UNCHANGED vars PROVE KahnInv'
  OBVIOUS
<1>1. UNCHANGED <<edges, pc, remaining, ready, order>>
  BY DEF vars
<1>2. /\ Emitted' = Emitted /\ HasCycle' = HasCycle
      /\ EmittedOnce' = EmittedOnce /\ DependenciesFirst' = DependenciesFirst
      /\ Closed' = Closed
  BY <1>1, SamePrefix
<1>3. TypeOK' /\ CountersExact'
  BY <1>1, <1>2 DEF KahnInv, TypeOK, CountersExact, Dependencies
<1> QED
  BY <1>1, <1>2, <1>3 DEF KahnInv

LEMMA RefuseKahn == KahnInv /\ Refuse => KahnInv'
BY DEF Refuse, KahnInv, TypeOK, CountersExact, EmittedOnce, DependenciesFirst, Closed,
       Emitted, HasCycle, Dependencies

LEMMA KahnInvariant == Spec => []KahnInv
<1>1. KahnInv /\ [Next]_vars => KahnInv'
  BY StartKahn, PopKahn, FinishKahn, RefuseKahn, UnchangedKahn DEF Next
<1> QED
  BY InitKahn, <1>1, PTL DEF Spec

-----------------------------------------------------------------------------
\* The counters stay natural numbers: the unsigned decrement never wraps.
THEOREM TypeCorrect == Spec => []TypeOK
<1>1. KahnInv => TypeOK
  BY DEF KahnInv
<1> QED
  BY <1>1, KahnInvariant, PTL

\* evaluation_order "returns dependencies before the nodes that use them".
THEOREM DependenciesComeFirst == Spec => []DependenciesFirst
<1>1. KahnInv => DependenciesFirst
  BY DEF KahnInv
<1> QED
  BY <1>1, KahnInvariant, PTL

\* A finished order is a bijection of positions and nodes.
LEMMA KahnComplete == KahnInv => Complete
<1> SUFFICES ASSUME KahnInv, pc = "done" PROVE Len(order) = Cardinality(Node)
  BY DEF Complete
<1>1. order \in Seq(Node) /\ Len(order) \in Nat
  BY DEF KahnInv, TypeOK
<1>2. order \in [1 .. Len(order) -> Node]
  BY <1>1
<1>3. \A n \in Node : \E i \in 1 .. Len(order) : order[i] = n
  BY DEF KahnInv, Emitted
<1>4. order \in Bijection(1 .. Len(order), Node)
  BY <1>2, <1>3 DEF KahnInv, EmittedOnce, Bijection, Injection, Surjection, IsInjective
<1> QED
  BY <1>1, <1>4, FS_CountingElements DEF ExistsBijection

\* The debug assertion at the end of evaluation_order holds: an acyclic graph
\* leaves no node out, and no node is emitted twice.
THEOREM NothingLeftOut == Spec => []Complete
BY KahnComplete, KahnInvariant, PTL

-----------------------------------------------------------------------------
\* No order that puts dependencies first is before what has been emitted: where
\* such an order first differs, it has the greater node.
LeastInv ==
    \A s \in Permutation : IsOrder(s) =>
        \A i \in DOMAIN s :
            (i <= Len(order) /\ \A j \in 1 .. (i - 1) : s[j] = order[j]) => order[i] <= s[i]

LEMMA InitLeast == Init => LeastInv
<1> SUFFICES ASSUME Init PROVE LeastInv
  OBVIOUS
<1>1. Len(order) = 0
  BY DEF Init
<1>2. \A s \in Permutation : DOMAIN s = 1 .. Cardinality(Node)
  BY DEF Permutation
<1>3. Cardinality(Node) \in Nat
  BY NodeAssumption, FS_CardinalityType
<1> QED
  BY <1>1, <1>2, <1>3 DEF LeastInv

\* An order that agrees with everything emitted goes on with a node that is
\* ready: its dependencies are among those emitted and it is not.
LEMMA NextIsReady ==
    ASSUME KahnInv, pc = "loop", NEW s \in Permutation, IsOrder(s),
           Len(order) + 1 \in DOMAIN s,
           \A j \in 1 .. Len(order) : s[j] = order[j]
    PROVE  s[Len(order) + 1] \in ready
<1> DEFINE next == Len(order) + 1
           m    == s[next]
<1>1. Len(order) \in Nat /\ edges \subseteq Edge
  BY DEF KahnInv, TypeOK
<1>2. /\ s \in [1 .. Cardinality(Node) -> Node]
      /\ \A i, j \in DOMAIN s : s[i] = s[j] => i = j
  BY DEF Permutation
<1>3. Cardinality(Node) \in Nat
  BY NodeAssumption, FS_CardinalityType
<1>4. m \in Node /\ next \in 1 .. Cardinality(Node)
  BY <1>2
<1>5. m \notin Emitted
  <2> SUFFICES ASSUME NEW j \in 1 .. Len(order), order[j] = m PROVE FALSE
    BY DEF Emitted
  <2>1. j \in DOMAIN s /\ next \in DOMAIN s
    BY <1>1, <1>2, <1>3, <1>4
  <2>2. s[j] = s[next]
    OBVIOUS
  <2>3. j = next
    BY <1>2, <2>1, <2>2
  <2> QED
    BY <1>1, <2>3
<1>6. Dependencies(m) \subseteq Emitted
  <2> SUFFICES ASSUME NEW d \in Dependencies(m) PROVE d \in Emitted
    OBVIOUS
  <2>1. PICK j \in 1 .. (next - 1) : s[j] = d
    BY <1>4 DEF IsOrder
  <2>2. j \in 1 .. Len(order)
    BY <1>1
  <2> QED
    BY <2>1, <2>2 DEF Emitted
<1>7. Cardinality(Dependencies(m) \ Emitted) = 0
  <2>1. Dependencies(m) \ Emitted = {}
    BY <1>6
  <2> QED
    BY <2>1, FS_EmptySet
<1>8. remaining[m] = 0
  BY <1>4, <1>7 DEF KahnInv, CountersExact
<1> QED
  BY <1>4, <1>5, <1>8 DEF KahnInv, CountersExact

LEMMA PopLeast == KahnInv /\ LeastInv /\ Pop => LeastInv'
<1> SUFFICES ASSUME KahnInv, LeastInv, Pop PROVE LeastInv'
  OBVIOUS
<1> PICK n \in ready : (\A m \in ready : n <= m) /\ order' = Append(order, n)
  BY DEF Pop
<1>1. pc = "loop" /\ edges' = edges /\ order \in Seq(Node) /\ Len(order) \in Nat /\ n \in Node
  BY DEF Pop, KahnInv, TypeOK
<1>2. /\ Len(order') = Len(order) + 1
      /\ \A i \in 1 .. Len(order) : order'[i] = order[i]
      /\ order'[Len(order) + 1] = n
  BY <1>1, EmittedAppend DEF KahnInv
<1>3. \A s : IsOrder(s)' = IsOrder(s)
  BY <1>1 DEF IsOrder, Dependencies
<1> SUFFICES ASSUME NEW s \in Permutation, IsOrder(s), NEW i \in DOMAIN s,
                    i <= Len(order'), \A j \in 1 .. (i - 1) : s[j] = order'[j]
             PROVE  order'[i] <= s[i]
  BY <1>3 DEF LeastInv, Permutation
<1>4. i \in 1 .. (Len(order) + 1)
  <2>1. DOMAIN s = 1 .. Cardinality(Node) /\ Cardinality(Node) \in Nat
    BY NodeAssumption, FS_CardinalityType DEF Permutation
  <2> QED
    BY <1>1, <1>2, <2>1
<1>5. \A j \in 1 .. (i - 1) : j \in 1 .. Len(order) /\ s[j] = order[j]
  BY <1>1, <1>2, <1>4
<1>6. CASE i \in 1 .. Len(order)
  <2>1. order[i] <= s[i]
    BY <1>5, <1>6 DEF LeastInv
  <2> QED
    BY <1>2, <1>6, <2>1
<1>7. CASE i = Len(order) + 1
  <2>1. \A j \in 1 .. Len(order) : s[j] = order[j]
    BY <1>1, <1>5, <1>7
  <2>2. s[i] \in ready
    BY <1>1, <1>7, <2>1, NextIsReady
  <2> QED
    BY <1>2, <1>7, <2>2
<1> QED
  BY <1>1, <1>4, <1>6, <1>7

\* The order is the least of all orders that put dependencies first, so it
\* depends on nothing but the graph.
THEOREM OrderIsCanonical == Spec => []Canonical
<1>1. KahnInv /\ LeastInv => Canonical
  <2> SUFFICES ASSUME KahnInv, LeastInv, pc = "done",
                      NEW s \in Permutation, IsOrder(s), Before(s, order)
               PROVE  FALSE
    BY DEF Canonical
  <2>1. PICK i \in DOMAIN s : s[i] < order[i] /\ \A j \in 1 .. (i - 1) : s[j] = order[j]
    BY DEF Before
  <2>2. Len(order) = Cardinality(Node) /\ order \in Seq(Node) /\ Cardinality(Node) \in Nat
    BY KahnComplete, NodeAssumption, FS_CardinalityType DEF Complete, KahnInv, TypeOK
  <2>3. s \in [1 .. Cardinality(Node) -> Node] /\ i \in 1 .. Len(order)
    BY <2>2 DEF Permutation
  <2>4. order[i] <= s[i]
    BY <2>1, <2>2, <2>3 DEF LeastInv
  <2>5. order[i] \in Node
    BY <2>2, <2>3
  <2>6. s[i] \in Node
    BY <2>2, <2>3
  <2>7. order[i] \in Int /\ s[i] \in Int
    <3>1. \A n \in Node : n \in Int
      BY NodeAssumption
    <3> QED
      BY <2>5, <2>6, <3>1
  <2> QED
    BY <2>1, <2>4, <2>7
<1>2. KahnInv /\ LeastInv /\ [Next]_vars => LeastInv'
  <2> SUFFICES ASSUME KahnInv, LeastInv, [Next]_vars PROVE LeastInv'
    OBVIOUS
  <2>1. CASE UNCHANGED <<edges, order>>
    BY <2>1 DEF LeastInv, Permutation, IsOrder, Dependencies
  <2> QED
    BY <2>1, PopLeast DEF Next, Refuse, Start, Finish, vars
<1> QED
  BY <1>1, <1>2, InitLeast, KahnInvariant, PTL DEF Spec

-----------------------------------------------------------------------------
\* evaluation_order implements the promise: every step emits one node that has
\* not been emitted and whose dependencies have, or emits nothing.
THEOREM Implements == Spec => ImplementsPromise
<1>1. Init => Promise!Init
  <2> SUFFICES ASSUME Init PROVE Promise!Init
    OBVIOUS
  <2>1. edges \subseteq Edge
    BY GraphAssumption DEF Init
  <2>2. \A n \in Node : Dependencies(n) \in SUBSET Node
    BY <2>1, DependenciesFinite
  <2> QED
    BY <2>2 DEF Init, Promise!Init
<1>2. KahnInv /\ [Next]_vars => [Promise!Next]_(Promise!vars)
  <2> SUFFICES ASSUME KahnInv, [Next]_vars PROVE [Promise!Next]_(Promise!vars)
    OBVIOUS
  <2>1. [n \in Node |-> Dependencies(n)]' = [n \in Node |-> Dependencies(n)]
    BY DEF Next, Refuse, Start, Pop, Finish, vars, Dependencies
  <2>2. CASE Pop
    <3> PICK n \in ready : order' = Append(order, n)
      BY <2>2 DEF Pop
    <3>1. n \in Node /\ n \notin Emitted /\ Cardinality(Dependencies(n) \ Emitted) = 0
      BY <2>2 DEF Pop, KahnInv, CountersExact
    <3>2. IsFiniteSet(Dependencies(n) \ Emitted)
      BY DependenciesFinite, FS_Difference DEF KahnInv, TypeOK
    <3>3. Dependencies(n) \subseteq Emitted
      BY <3>1, <3>2, FS_EmptySet
    <3>4. Promise!Emit(n)
      BY <2>1, <3>1, <3>3 DEF Promise!Emit, Promise!Emitted, Emitted
    <3> QED
      BY <3>1, <3>4 DEF Promise!Next
  <2>3. CASE UNCHANGED order
    BY <2>1, <2>3 DEF Promise!vars
  <2> QED
    BY <2>2, <2>3 DEF Next, Refuse, Start, Finish, vars
<1> QED
  BY <1>1, <1>2, KahnInvariant, PTL DEF Spec, ImplementsPromise, Promise!Spec

(***************************************************************************)
(* A whole call of evaluation_order (GraphQueries): the call of cycles()   *)
(* it begins with is Tarjan's algorithm on the adjacency of its edges, so  *)
(* TarjanProofs holds of it, and what follows is Kahn's loop, so the       *)
(* theorems above do.                                                      *)
(***************************************************************************)
LEMMA NodesOK == P!GraphOK
BY NodeAssumption DEF P!GraphOK, IsFiniteSet, P!IsFiniteSet

\* The dependencies of a node are nodes.
LEMMA AdjacencyType == edges \in Graph => adjacency \in [Node -> SUBSET Node]
<1> SUFFICES ASSUME edges \in Graph PROVE adjacency \in [Node -> SUBSET Node]
  OBVIOUS
<1>1. \A e \in edges : e.target \in Node
  BY GraphAssumption DEF Edge
<1>2. \A n \in Node : Dependencies(n) \in SUBSET Node
  BY <1>1 DEF Dependencies
<1> QED
  BY <1>2 DEF adjacency

LEMMA SameAdjacency == edges' = edges => adjacency' = adjacency
BY DEF adjacency, Dependencies

\* Whatever a step does, the edges stay.
LEMMA EdgesFixed == [QueryNext]_<<vars, tarjanVars>> => edges' = edges
BY DEF QueryNext, FindComponents, Order, Next, Refuse, Start, Pop, Finish, vars

\* The variables of cycles() run Tarjan's algorithm, while it lasts and after.
LEMMA RunsTarjan == QuerySpec => P!Spec
<1>1. QueryInit => P!Init
  <2>1. QueryInit => T!Init
    BY DEF QueryInit
  <2> QED
    BY <2>1 DEF T!Init, P!Init, T!None, P!None
<1>2. [QueryNext]_<<vars, tarjanVars>> => [P!Next]_P!vars
  <2> SUFFICES ASSUME [QueryNext]_<<vars, tarjanVars>> PROVE [P!Next]_P!vars
    OBVIOUS
  <2>1. CASE FindComponents
    <3>1. T!Next
      BY <2>1 DEF FindComponents
    <3>2. P!Next
      BY <3>1 DEF T!Next, P!Next, T!VisitRoot, P!VisitRoot, T!Descend, P!Descend, T!Look, P!Look,
             T!ReturnInner, P!ReturnInner, T!ReturnRoot, P!ReturnRoot, T!Enter, P!Enter,
             T!Visiting, P!Visiting, T!Unvisited, P!Unvisited, T!Least, P!Least,
             T!None, P!None, T!Frame, P!Frame, T!LooksAt, P!LooksAt, T!LowerOf, P!LowerOf,
             T!Resume, P!Resume, T!IsRoot, P!IsRoot, T!PositionOf, P!PositionOf
    <3> QED
      BY <3>2
  <2>2. CASE UNCHANGED tarjanVars
    BY <2>2, EdgesFixed, SameAdjacency DEF tarjanVars, P!vars
  <2> QED
    BY <2>1, <2>2 DEF QueryNext, Order
<1> QED
  BY <1>1, <1>2, PTL DEF QuerySpec, P!Spec

\* Beside it the loop makes no step of its own before its time.
LEMMA RunsKahn == QuerySpec => Spec
<1>1. QueryInit => Init
  BY DEF QueryInit
<1>2. [QueryNext]_<<vars, tarjanVars>> => [Next]_vars
  BY DEF QueryNext, FindComponents, Order
<1> QED
  BY <1>1, <1>2, PTL DEF QuerySpec, Spec

\* The two instances of Tarjan say the same.
LEMMA SameWords ==
    /\ \A S : P!Cardinality(S) = Cardinality(S) /\ T!Cardinality(S) = Cardinality(S)
    /\ \A n, m : P!Reaches(n, m) = T!Reaches(n, m)
    /\ P!Done = T!Done
    /\ P!Cycles = T!Cycles
<1>1. \A S : P!Cardinality(S) = Cardinality(S) /\ T!Cardinality(S) = Cardinality(S)
  BY DEF P!Cardinality, T!Cardinality, Cardinality
<1>2. \A n, m : P!Reaches(n, m) = T!Reaches(n, m)
  BY DEF P!Reaches, T!Reaches
<1>3. P!Done = T!Done
  BY DEF P!Done, T!Done, P!Visiting, T!Visiting, P!Unvisited, T!Unvisited, P!None, T!None
<1>4. P!Cycles = T!Cycles
  BY <1>1 DEF P!Cycles, T!Cycles
<1> QED
  BY <1>1, <1>2, <1>3, <1>4

\* The components that cycles() is computed from are the classes of nodes that
\* reach each other, each reported once and after those it uses.
THEOREM ComponentsAreInOrder == QuerySpec => []ComponentsInOrder
<1>1. P!Spec => []P!ComponentsInOrder
  BY NodesOK, P!ComponentsCorrect
<1>2. P!TypeOK => T!TypeOK
  BY SameWords DEF P!TypeOK, T!TypeOK, P!None, T!None
<1>3. P!ComponentsAreClasses => T!ComponentsAreClasses
  BY SameWords DEF P!ComponentsAreClasses, T!ComponentsAreClasses
<1>4. P!DependenciesReportedFirst => T!DependenciesReportedFirst
  BY DEF P!DependenciesReportedFirst, T!DependenciesReportedFirst
<1>5. P!ComponentsInOrder => ComponentsInOrder
  BY <1>2, <1>3, <1>4 DEF ComponentsInOrder, P!ComponentsInOrder, T!ComponentsInOrder
<1> QED
  BY <1>1, <1>5, RunsTarjan, PTL

\* evaluation_order refuses a graph exactly when some of its nodes only use each
\* other: cycles() misses no cycle, and refuses no graph that has an order.
THEOREM CyclesAreFound == QuerySpec => []CyclesAreReported
<1>1. P!Spec => []P!CyclesAreReported
  BY NodesOK, P!CyclesCorrect
<1>2. HasCycle <=> \E S \in (SUBSET Node) \ {{}} : \A n \in S : adjacency[n] \cap S # {}
  BY DEF HasCycle, adjacency
<1>3. P!CyclesAreReported => CyclesAreReported
  <2> SUFFICES ASSUME P!CyclesAreReported PROVE CyclesAreReported
    OBVIOUS
  <2>1. T!CyclesAreReported
    BY SameWords DEF P!CyclesAreReported, T!CyclesAreReported
  <2>2. T!Done => (T!Cycles # {} <=> HasCycle)
    BY <1>2, <2>1 DEF T!CyclesAreReported
  <2> QED
    BY <2>1, <2>2 DEF CyclesAreReported
<1> QED
  BY <1>1, <1>3, RunsTarjan, PTL

\* The loop that follows emits each node once, after those it uses, in the least
\* order there is, and implements the promise of DependencyOrder.
THEOREM OrderIsRight ==
    QuerySpec => [](DependenciesFirst /\ Complete /\ Canonical) /\ ImplementsPromise
<1>1. QuerySpec => Spec
  BY RunsKahn
<1>2. Spec => []DependenciesFirst
  BY DependenciesComeFirst
<1>3. Spec => []Complete
  BY NothingLeftOut
<1>4. Spec => []Canonical
  BY OrderIsCanonical
<1>5. Spec => ImplementsPromise
  BY Implements
<1> QED
  BY <1>1, <1>2, <1>3, <1>4, <1>5, PTL

\* visit recurses no deeper than the module has nodes.
THEOREM DepthIsBounded == QuerySpec => [](Len(frames) <= Cardinality(Node))
<1>1. P!Spec => []P!DepthBounded
  BY NodesOK, P!RecursionIsBounded
<1>2. P!DepthBounded => Len(frames) <= Cardinality(Node)
  BY SameWords DEF P!DepthBounded
<1> QED
  BY <1>1, <1>2, RunsTarjan, PTL
=============================================================================
