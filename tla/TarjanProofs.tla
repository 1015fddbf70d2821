---------------------------- MODULE TarjanProofs ----------------------------
(***************************************************************************)
(* Tarjan's algorithm is correct for every finite set of nodes and every   *)
(* adjacency: the components are the classes of nodes that reach each      *)
(* other, each reported after those it uses, and cycles() misses no cycle. *)
(*                                                                         *)
(* The induction hidden in Reaches is made by choosing the closed set, and *)
(* the one along the links by taking the node of least index.              *)
(***************************************************************************)
EXTENDS Tarjan, FiniteSetTheorems, SequenceTheorems, LeastElements, TLAPS

\* Nodes are finitely many positions, and the dependencies of a node are nodes.
GraphOK ==
    /\ Node \subseteq Nat /\ IsFiniteSet(Node)
    /\ Graph \subseteq [Node -> SUBSET Node]

Visited  == Node \ Unvisited
Reported == UNION {components[i] : i \in 1 .. Len(components)}
Calls    == 1 .. Len(frames)
Active   == {frames[i].node : i \in Calls}

Call == [node : Node, left : SUBSET Node]

TypeInv ==
    /\ adjacency \in [Node -> SUBSET Node]
    /\ next_index \in Nat
    /\ indices \in [Node -> {None} \cup Nat]
    /\ low_links \in [Node -> Nat]
    /\ stack \in Seq(Node)
    /\ on_stack = {stack[i] : i \in 1 .. Len(stack)}
    /\ components \in Seq(SUBSET Node)
    /\ frames \in Seq(Call)

\* Indices are handed out one by one, so none exceeds the number of nodes.
CountInv ==
    /\ next_index = Cardinality(Visited)
    /\ \A n \in Visited : indices[n] < next_index
    /\ \A n \in Node : low_links[n] <= next_index

\* A visited node waits on the stack or has been reported; the stack is in the
\* order of the visits.
StackInv ==
    /\ on_stack \cup Reported = Visited
    /\ on_stack \cap Reported = {}
    /\ \A i, j \in 1 .. Len(stack) : i < j => indices[stack[i]] < indices[stack[j]]

\* The running calls are of nodes on the stack, in the order of the visits; each
\* reaches whatever was pushed since, and the first was pushed first.
CallInv ==
    /\ Active \subseteq on_stack
    /\ \A i, j \in Calls : i < j => indices[frames[i].node] < indices[frames[j].node]
    /\ \A c \in Active : \A n \in on_stack : indices[c] <= indices[n] => Reaches(c, n)
    /\ \A n \in on_stack : Visiting /\ indices[frames[1].node] <= indices[n]

\* A dependency that a loop has taken is visited; a call that has returned has
\* taken them all.
SeenInv ==
    /\ \A n \in Visited \ Active : adjacency[n] \subseteq Visited
    /\ \A i \in Calls : adjacency[frames[i].node] \ frames[i].left \subseteq Visited
    /\ \A i \in Calls : frames[i].left \subseteq adjacency[frames[i].node]

\* A link is the index of a node on the stack that can be reached, and a returned
\* node that is still there has one below its own index.
LinkInv ==
    \A n \in on_stack :
        /\ low_links[n] <= indices[n]
        /\ n \notin Active => low_links[n] < indices[n]
        /\ \E m \in on_stack : indices[m] = low_links[n] /\ Reaches(n, m)

\* The dependencies whose edge has been looked at: not those a loop has still to
\* take, nor the one its recursive call is visiting.
Looked(n, d) ==
    \A i \in Calls : frames[i].node = n =>
        /\ d \notin frames[i].left
        /\ i < Len(frames) => d # frames[i + 1].node

LookedInv ==
    \A n, d \in on_stack : (d \in adjacency[n] /\ Looked(n, d)) => low_links[n] <= indices[d]

\* What has returned above a running call, and above no later one, has no link
\* below the call's own.
BoundInv ==
    \A i \in Calls : \A n \in on_stack \ Active :
        indices[frames[i].node] < indices[n] =>
            \/ low_links[frames[i].node] <= low_links[n]
            \/ \E j \in Calls : i < j /\ indices[frames[j].node] < indices[n]

ComponentInv ==
    /\ \A i \in 1 .. Len(components) : components[i] # {}
    /\ \A i, j \in 1 .. Len(components) : i # j => components[i] \cap components[j] = {}
    /\ \A i \in 1 .. Len(components) : \A n, m \in components[i] : Reaches(n, m)
    /\ DependenciesReportedFirst

TarjanInv ==
    /\ TypeInv
    /\ CountInv
    /\ StackInv
    /\ CallInv
    /\ SeenInv
    /\ LinkInv
    /\ LookedInv
    /\ BoundInv
    /\ ComponentInv

-----------------------------------------------------------------------------
\* What CHOOSE picks among some nodes is one of them.
LEMMA LeastIsMember ==
    ASSUME GraphOK, NEW S, S \subseteq Node, S # {}
    PROVE  Least(S) \in S
BY LeastExists DEF GraphOK, Least

LEMMA ReachesItself == \A n : Reaches(n, n)
BY DEF Reaches

\* Reaching is transitive, and one dependency extends it.
LEMMA ReachesOn ==
    ASSUME NEW n, NEW m, NEW k, Reaches(n, m), Reaches(m, k)
    PROVE  Reaches(n, k)
BY DEF Reaches

LEMMA ReachesDependency ==
    ASSUME NEW n, NEW d \in adjacency[n]
    PROVE  Reaches(n, d)
BY DEF Reaches

LEMMA SameReach ==
    ASSUME adjacency' = adjacency
    PROVE  \A n, m : Reaches(n, m)' = Reaches(n, m)
BY DEF Reaches

\* The running calls, one by one.
LEMMA CallTypes ==
    ASSUME TypeInv
    PROVE  /\ Len(frames) \in Nat
           /\ \A i \in Calls : /\ frames[i].node \in Node
                               /\ frames[i].left \subseteq Node
           /\ Visiting => Len(frames) \in Calls
<1>1. frames \in Seq(Call)
  BY DEF TypeInv
<1>2. Len(frames) \in Nat /\ \A i \in Calls : frames[i] \in Call
  BY <1>1 DEF Calls
<1>3. Visiting => Len(frames) > 0
  BY <1>1 DEF Visiting
<1>4. \A c \in Call : c.node \in Node /\ c.left \subseteq Node
  BY DEF Call
<1> QED
  BY <1>2, <1>3, <1>4 DEF Calls

\* A node on the stack is visited, so it has an index.
LEMMA StackTypes ==
    ASSUME TypeInv, StackInv, CountInv
    PROVE  /\ on_stack \subseteq Visited /\ Visited \subseteq Node
           /\ \A n \in Visited : indices[n] \in Nat /\ indices[n] < next_index
BY DEF TypeInv, StackInv, CountInv, Visited, Unvisited

\* No two nodes on the stack have the same index.
LEMMA StackInjective ==
    ASSUME TypeInv, StackInv, CountInv, NEW n \in on_stack, NEW m \in on_stack,
           indices[n] = indices[m]
    PROVE  n = m
<1> PICK i \in 1 .. Len(stack) : stack[i] = n
  BY DEF TypeInv
<1> PICK j \in 1 .. Len(stack) : stack[j] = m
  BY DEF TypeInv
<1>1. Len(stack) \in Nat
  BY DEF TypeInv
<1>2. indices[n] \in Nat
  BY StackTypes
<1>3. ~ (i < j) /\ ~ (j < i)
  BY <1>2 DEF StackInv
<1> QED
  BY <1>1, <1>3

LEMMA InitTarjan == GraphOK /\ Init => TarjanInv
<1> SUFFICES ASSUME GraphOK, Init PROVE TarjanInv
  OBVIOUS
<1>1. Visited = {} /\ Reported = {} /\ Active = {} /\ Calls = {}
  BY DEF Init, Visited, Unvisited, Reported, Active, Calls
<1>2. Cardinality({}) = 0
  BY FS_EmptySet
<1>3. TypeInv
  BY DEF Init, TypeInv, GraphOK
<1>4. CountInv /\ StackInv
  BY <1>1, <1>2 DEF Init, CountInv, StackInv
<1>5. CallInv /\ SeenInv /\ LinkInv /\ LookedInv /\ BoundInv
  BY <1>1 DEF Init, CallInv, SeenInv, LinkInv, LookedInv, BoundInv
<1>6. ComponentInv
  BY DEF Init, ComponentInv, DependenciesReportedFirst
<1> QED
  BY <1>3, <1>4, <1>5, <1>6 DEF TarjanInv

-----------------------------------------------------------------------------
\* What VisitRoot and Descend have in common: a node without an index is entered
\* and its call is the innermost one; the caller's loop has taken it.
Push(n) ==
    /\ n \in Unvisited
    /\ Enter(n)
    /\ UNCHANGED <<adjacency, components>>
    /\ frames' \in Seq(Call)
    /\ Len(frames') = Len(frames) + 1
    /\ \A i \in Calls : /\ frames'[i].node = frames[i].node
                        /\ frames'[i].left = IF i = Len(frames) THEN frames[i].left \ {n}
                                             ELSE frames[i].left
    /\ frames'[Len(frames) + 1].node = n
    /\ frames'[Len(frames) + 1].left = adjacency[n]
    /\ Visiting => n \in adjacency[frames[Len(frames)].node]

LEMMA VisitRootPushes == GraphOK /\ TarjanInv /\ VisitRoot => \E n : Push(n)
<1> SUFFICES ASSUME GraphOK, TarjanInv, VisitRoot PROVE \E n : Push(n)
  OBVIOUS
<1> DEFINE n == Least(Unvisited)
<1>1. n \in Unvisited
  BY LeastIsMember DEF VisitRoot, Unvisited
<1>2. frames = <<>> /\ frames' = <<[node |-> n, left |-> adjacency[n]]>>
  BY DEF VisitRoot, Visiting
<1>3. Len(frames) = 0 /\ Calls = {}
  BY <1>2 DEF Calls
<1>4. [node |-> n, left |-> adjacency[n]] \in Call
  BY <1>1 DEF Call, TarjanInv, TypeInv, Unvisited
<1>5. Enter(n) /\ UNCHANGED <<adjacency, components>> /\ ~Visiting
  BY DEF VisitRoot
<1> HIDE DEF n
<1>6. frames' \in Seq(Call) /\ Len(frames') = 1 /\ frames'[1] = [node |-> n, left |-> adjacency[n]]
  BY <1>2, <1>4
<1> QED
  BY <1>1, <1>3, <1>5, <1>6 DEF Push

\* The loop of the innermost call takes a dependency.
LEMMA TakeOne ==
    ASSUME TypeInv, Visiting, NEW d
    PROVE  LET taken == [frames EXCEPT ![Len(frames)].left = @ \ {d}] IN
           /\ taken \in Seq(Call) /\ Len(taken) = Len(frames)
           /\ \A i \in Calls :
                /\ taken[i].node = frames[i].node
                /\ taken[i].left = IF i = Len(frames) THEN frames[i].left \ {d} ELSE frames[i].left
<1> DEFINE D == Len(frames)
           c == [frames[D] EXCEPT !.left = @ \ {d}]
           taken == [frames EXCEPT ![D] = c]
<1>1. frames \in Seq(Call) /\ D \in 1 .. Len(frames)
  BY CallTypes DEF TypeInv, Calls
<1>2. frames[D] \in Call
  BY <1>1
<1>3. c \in Call /\ c.node = frames[D].node /\ c.left = frames[D].left \ {d}
  BY <1>2 DEF Call
<1> HIDE DEF c
<1>4. /\ taken \in Seq(Call) /\ Len(taken) = Len(frames)
      /\ \A i \in Calls : taken[i] = IF i = D THEN c ELSE frames[i]
  BY <1>1, <1>3, ExceptSeq DEF Calls
<1>5. /\ taken \in Seq(Call) /\ Len(taken) = Len(frames)
      /\ \A i \in Calls : /\ taken[i].node = frames[i].node
                         /\ taken[i].left = IF i = Len(frames) THEN frames[i].left \ {d}
                                           ELSE frames[i].left
  <2> HIDE DEF taken
  <2> QED
    BY <1>3, <1>4
<1> QED
  BY <1>5 DEF c

LEMMA DescendPushes == GraphOK /\ TarjanInv /\ Descend => \E n : Push(n)
<1> SUFFICES ASSUME GraphOK, TarjanInv, Descend PROVE \E n : Push(n)
  OBVIOUS
<1> DEFINE D == Len(frames)
           d == Least(Frame.left)
<1>1. /\ D \in Calls /\ D \in Nat /\ frames \in Seq(Call)
      /\ Frame.node \in Node /\ Frame.left \subseteq Node /\ Frame = frames[D]
  BY CallTypes DEF Descend, Frame, TarjanInv, TypeInv
<1>2. d \in Frame.left
  BY <1>1, LeastIsMember DEF Descend
<1>3. /\ indices[d] = None /\ Enter(d) /\ UNCHANGED <<adjacency, components>>
      /\ frames' = Append([frames EXCEPT ![Len(frames)].left = @ \ {d}],
                          [node |-> d, left |-> adjacency[d]])
  BY DEF Descend
<1>4. d \in Unvisited
  BY <1>1, <1>2, <1>3 DEF Unvisited
<1>5. d \in adjacency[frames[D].node]
  BY <1>1, <1>2 DEF TarjanInv, SeenInv
<1> HIDE DEF d
<1> DEFINE taken == [frames EXCEPT ![D].left = @ \ {d}]
           call  == [node |-> d, left |-> adjacency[d]]
<1>6. call \in Call
  BY <1>4 DEF Call, TarjanInv, TypeInv, Unvisited
<1>7. /\ taken \in Seq(Call) /\ Len(taken) = D
      /\ \A i \in Calls : /\ taken[i].node = frames[i].node
                         /\ taken[i].left = IF i = D THEN frames[i].left \ {d} ELSE frames[i].left
  BY TakeOne DEF TarjanInv, Descend
<1> HIDE DEF taken, call
<1>8. /\ frames' \in Seq(Call) /\ Len(frames') = D + 1 /\ frames'[D + 1] = call
       /\ \A i \in Calls : frames'[i] = taken[i]
  <2>1. frames' = Append(taken, call)
    BY <1>3 DEF taken, call
  <2> QED
    BY <1>1, <1>6, <1>7, <2>1 DEF Calls
<1> QED
  <2>1. frames'[D + 1].node = d /\ frames'[D + 1].left = adjacency[d]
    BY <1>8 DEF call
  <2>2. \A i \in Calls : /\ frames'[i].node = frames[i].node
                         /\ frames'[i].left = IF i = D THEN frames[i].left \ {d}
                                              ELSE frames[i].left
    BY <1>7, <1>8
  <2>3. Push(d)
    BY <1>3, <1>4, <1>5, <1>8, <2>1, <2>2 DEF Push
  <2> QED
    BY <2>3

\* What a push does to the sets the invariants speak of.
LEMMA PushFacts ==
    ASSUME GraphOK, TarjanInv, NEW n, Push(n)
    PROVE  /\ n \in Node /\ n \notin Visited /\ n \notin on_stack
           /\ Visited' = Visited \cup {n} /\ on_stack' = on_stack \cup {n}
           /\ Active' = Active \cup {n} /\ Reported' = Reported
           /\ indices' = [indices EXCEPT ![n] = next_index]
           /\ low_links' = [low_links EXCEPT ![n] = next_index]
           /\ TypeInv'
<1>1. TypeInv /\ CountInv /\ StackInv
  BY DEF TarjanInv
<1>2. n \in Node /\ indices[n] = None
  BY DEF Push, Unvisited
<1>3. n \notin Visited /\ n \notin on_stack
  BY <1>1, <1>2, StackTypes DEF Visited, Push
<1>4. /\ next_index' = next_index + 1 /\ stack' = Append(stack, n)
      /\ indices' = [indices EXCEPT ![n] = next_index]
      /\ low_links' = [low_links EXCEPT ![n] = next_index]
      /\ on_stack' = on_stack \cup {n}
      /\ adjacency' = adjacency /\ components' = components
  BY DEF Push, Enter
<1>5. Visited' = Visited \cup {n}
  <2>1. next_index # None
    BY <1>1 DEF TypeInv, None
  <2> QED
    BY <1>1, <1>2, <1>4, <2>1 DEF Visited, Unvisited, TypeInv
<1>6. Active' = Active \cup {n}
  <2> DEFINE D == Len(frames)
  <2>1. D \in Nat /\ Calls' = 1 .. (D + 1)
    BY <1>1, CallTypes DEF Push, Calls
  <2>2. (\A i \in 1 .. D : frames'[i].node = frames[i].node) /\ frames'[D + 1].node = n
    <3>1. \A i \in 1 .. Len(frames) : frames'[i].node = frames[i].node
      BY DEF Push, Calls
    <3>2. frames'[Len(frames) + 1].node = n
      BY DEF Push
    <3> QED
      BY <3>1, <3>2
  <2>3. Active' = {frames'[i].node : i \in 1 .. (D + 1)} /\ Active = {frames[i].node : i \in 1 .. D}
    BY <2>1 DEF Active, Calls
  <2> HIDE DEF D
  <2>4. ASSUME NEW x \in Active' PROVE x \in Active \cup {n}
    <3> PICK i \in 1 .. (D + 1) : x = frames'[i].node
      BY <2>3
    <3> QED
      BY <2>1, <2>2, <2>3
  <2>5. ASSUME NEW x \in Active \cup {n} PROVE x \in Active'
    <3>1. CASE x = n
      BY <2>1, <2>2, <2>3, <3>1
    <3>2. CASE x \in Active
      <4> PICK i \in 1 .. D : x = frames[i].node
        BY <2>3, <3>2
      <4> QED
        BY <2>1, <2>2, <2>3
    <3> QED
      BY <3>1, <3>2
  <2> QED
    BY <2>4, <2>5
<1>7. Reported' = Reported
  BY <1>4 DEF Reported
<1>8. on_stack' = {stack'[i] : i \in 1 .. Len(stack')} /\ stack' \in Seq(Node)
  <2>1. stack \in Seq(Node) /\ Len(stack) \in Nat
    BY <1>1 DEF TypeInv
  <2>2. /\ stack' \in Seq(Node) /\ Len(stack') = Len(stack) + 1
        /\ \A i \in 1 .. Len(stack) : stack'[i] = stack[i]
        /\ stack'[Len(stack) + 1] = n
    BY <1>2, <1>4, <2>1
  <2>3. ASSUME NEW x \in on_stack \cup {n} PROVE \E i \in 1 .. Len(stack') : x = stack'[i]
    <3>1. CASE x = n
      BY <2>1, <2>2, <3>1
    <3>2. CASE x \in on_stack
      <4> PICK i \in 1 .. Len(stack) : x = stack[i]
        BY <1>1, <3>2 DEF TypeInv
      <4> QED
        BY <2>1, <2>2
    <3> QED
      BY <3>1, <3>2
  <2>4. ASSUME NEW i \in 1 .. Len(stack') PROVE stack'[i] \in on_stack \cup {n}
    <3>1. \A k \in 1 .. Len(stack) : stack[k] \in on_stack
      BY <1>1 DEF TypeInv
    <3> QED
      BY <2>1, <2>2, <3>1
  <2> QED
    BY <1>4, <2>2, <2>3, <2>4
<1>9. TypeInv'
  <2>1. /\ adjacency \in [Node -> SUBSET Node] /\ next_index \in Nat
        /\ indices \in [Node -> {None} \cup Nat] /\ low_links \in [Node -> Nat]
        /\ components \in Seq(SUBSET Node)
    BY <1>1 DEF TypeInv
  <2>2. frames' \in Seq(Call)
    BY DEF Push
  <2>3. /\ next_index' \in Nat
        /\ indices' \in [Node -> {None} \cup Nat] /\ low_links' \in [Node -> Nat]
    <3>1. next_index' \in Nat
      BY <1>4, <2>1
    <3>2. indices' \in [Node -> {None} \cup Nat]
      BY <1>2, <1>4, <2>1
    <3>3. low_links' \in [Node -> Nat]
      BY <1>2, <1>4, <2>1
    <3> QED
      BY <3>1, <3>2, <3>3
  <2>4. adjacency' \in [Node -> SUBSET Node] /\ components' \in Seq(SUBSET Node)
    BY <1>4, <2>1
  <2> QED
    BY <1>8, <2>2, <2>3, <2>4 DEF TypeInv, Call
<1> QED
  BY <1>2, <1>3, <1>4, <1>5, <1>6, <1>7, <1>9

LEMMA PushCount == ASSUME GraphOK, TarjanInv, NEW n, Push(n) PROVE CountInv'
<1>1. TypeInv /\ CountInv /\ StackInv
  BY DEF TarjanInv
<1>2. /\ n \in Node /\ n \notin Visited /\ Visited' = Visited \cup {n}
      /\ indices' = [indices EXCEPT ![n] = next_index]
      /\ low_links' = [low_links EXCEPT ![n] = next_index]
      /\ next_index' = next_index + 1
  BY PushFacts DEF Push, Enter
<1>3. IsFiniteSet(Visited)
  BY FS_Subset DEF Visited, GraphOK
<1>4. Cardinality(Visited \cup {n}) = Cardinality(Visited) + 1
  BY <1>2, <1>3, FS_AddElement
<1>5. next_index \in Nat /\ indices \in [Node -> {None} \cup Nat] /\ low_links \in [Node -> Nat]
  BY <1>1 DEF TypeInv
<1>6. /\ next_index = Cardinality(Visited)
      /\ \A m \in Visited : indices[m] < next_index /\ indices[m] \in Nat /\ m \in Node
      /\ \A m \in Node : low_links[m] <= next_index
  BY <1>1, StackTypes DEF CountInv, Visited
<1>7. next_index' = Cardinality(Visited)'
  BY <1>2, <1>4, <1>6
<1>8. \A m \in Visited' : indices'[m] < next_index'
  BY <1>2, <1>5, <1>6
<1>9. \A m \in Node : low_links'[m] <= next_index'
  BY <1>2, <1>5, <1>6
<1> QED
  BY <1>7, <1>8, <1>9 DEF CountInv

\* What a push leaves as it was, for the nodes that were on the stack.
LEMMA PushOld ==
    ASSUME GraphOK, TarjanInv, NEW n, Push(n)
    PROVE  /\ \A m \in on_stack : /\ indices'[m] = indices[m] /\ low_links'[m] = low_links[m]
                                  /\ indices[m] \in Nat /\ indices[m] < next_index
                                  /\ low_links[m] \in Nat /\ m \in Node
           /\ indices'[n] = next_index /\ low_links'[n] = next_index /\ next_index \in Nat
           /\ \A m, k : Reaches(m, k)' = Reaches(m, k)
<1>1. TypeInv /\ CountInv /\ StackInv
  BY DEF TarjanInv
<1>2. /\ n \in Node /\ n \notin on_stack
      /\ indices' = [indices EXCEPT ![n] = next_index]
      /\ low_links' = [low_links EXCEPT ![n] = next_index]
  BY PushFacts
<1>3. \A m \in on_stack : m \in Node /\ indices[m] \in Nat /\ indices[m] < next_index
  BY <1>1, StackTypes
<1>4. adjacency' = adjacency
  BY DEF Push
<1> QED
  BY <1>1, <1>2, <1>3, <1>4, SameReach DEF TypeInv

LEMMA PushStack == ASSUME GraphOK, TarjanInv, NEW n, Push(n) PROVE StackInv'
<1>1. TypeInv /\ CountInv /\ StackInv
  BY DEF TarjanInv
<1>2. /\ n \notin Visited /\ on_stack' = on_stack \cup {n} /\ Visited' = Visited \cup {n}
      /\ Reported' = Reported
  BY PushFacts
<1>3. on_stack' \cup Reported' = Visited' /\ on_stack' \cap Reported' = {}
  BY <1>1, <1>2 DEF StackInv
<1>4. stack \in Seq(Node) /\ Len(stack) \in Nat /\ stack' = Append(stack, n) /\ n \in Node
  <2>1. stack \in Seq(Node) /\ Len(stack) \in Nat
    BY <1>1 DEF TypeInv
  <2>2. stack' = Append(stack, n)
    BY DEF Push, Enter
  <2> QED
    BY <2>1, <2>2, PushFacts
<1>5. /\ Len(stack') = Len(stack) + 1
      /\ \A i \in 1 .. Len(stack) : stack'[i] = stack[i] /\ stack[i] \in on_stack
      /\ stack'[Len(stack) + 1] = n
  <2>1. \A i \in 1 .. Len(stack) : stack[i] \in on_stack
    BY <1>1 DEF TypeInv
  <2> QED
    BY <1>4, <2>1
<1>6. ASSUME NEW i \in 1 .. Len(stack'), NEW j \in 1 .. Len(stack'), i < j
      PROVE  indices'[stack'[i]] < indices'[stack'[j]]
  <2>1. i \in 1 .. Len(stack)
    BY <1>4, <1>5, <1>6
  <2>2. CASE j \in 1 .. Len(stack)
    BY <1>1, <1>5, <1>6, <2>1, <2>2, PushOld DEF StackInv
  <2>3. CASE j = Len(stack) + 1
    BY <1>5, <2>1, <2>3, PushOld
  <2> QED
    BY <1>4, <1>5, <2>2, <2>3
<1> QED
  BY <1>3, <1>6 DEF StackInv

\* The calls after a push: the old ones, with what their loops have left, and the
\* new one.
LEMMA PushCalls ==
    ASSUME GraphOK, TarjanInv, NEW n, Push(n)
    PROVE  /\ Len(frames) \in Nat /\ Calls = 1 .. Len(frames) /\ Calls' = 1 .. (Len(frames) + 1)
           /\ Len(frames') = Len(frames) + 1
           /\ \A i \in Calls : /\ frames'[i].node = frames[i].node /\ frames[i].node \in on_stack
                               /\ frames'[i].left = IF i = Len(frames) THEN frames[i].left \ {n}
                                                    ELSE frames[i].left
           /\ frames'[Len(frames) + 1].node = n
           /\ frames'[Len(frames) + 1].left = adjacency[n]
           /\ adjacency' = adjacency
<1>1. Len(frames) \in Nat /\ Calls = 1 .. Len(frames)
  BY CallTypes DEF TarjanInv, Calls
<1>2. Len(frames') = Len(frames) + 1 /\ adjacency' = adjacency
  BY DEF Push
<1>3. \A i \in Calls : frames[i].node \in on_stack
  BY DEF TarjanInv, CallInv, Active
<1>4. Calls' = 1 .. (Len(frames) + 1)
  BY <1>2 DEF Calls
<1> QED
  BY <1>1, <1>2, <1>3, <1>4 DEF Push

LEMMA PushCallInv == ASSUME GraphOK, TarjanInv, NEW n, Push(n) PROVE CallInv'
<1> DEFINE D == Len(frames)
<1>1. CallInv
  BY DEF TarjanInv
<1>2. /\ D \in Nat /\ Calls = 1 .. D /\ Calls' = 1 .. (D + 1) /\ Len(frames') = D + 1
      /\ \A i \in Calls : frames'[i].node = frames[i].node /\ frames[i].node \in on_stack
      /\ frames'[D + 1].node = n
  BY PushCalls
<1>3. on_stack' = on_stack \cup {n} /\ Active' = Active \cup {n}
  BY PushFacts
<1>4. /\ \A m \in on_stack : /\ indices'[m] = indices[m] /\ indices[m] \in Nat
                             /\ indices[m] < next_index
      /\ indices'[n] = next_index /\ next_index \in Nat
      /\ \A m, k : Reaches(m, k)' = Reaches(m, k)
  BY PushOld
<1> HIDE DEF D
<1>5. Active' \subseteq on_stack'
  BY <1>1, <1>3 DEF CallInv
<1>6. ASSUME NEW i \in Calls', NEW j \in Calls', i < j
      PROVE  indices'[frames'[i].node] < indices'[frames'[j].node]
  <2>1. i \in Calls
    BY <1>2, <1>6
  <2>2. CASE j \in Calls
    BY <1>1, <1>2, <1>4, <1>6, <2>1, <2>2 DEF CallInv
  <2>3. CASE j = D + 1
    BY <1>2, <1>4, <2>1, <2>3
  <2> QED
    BY <1>2, <2>2, <2>3
<1>7. ASSUME NEW c \in Active', NEW m \in on_stack', indices'[c] <= indices'[m]
      PROVE  Reaches(c, m)
  <2>1. CASE c = n
    <3>1. m = n
      BY <1>1, <1>3, <1>4, <1>7, <2>1
    <3> QED
      BY <2>1, <3>1, ReachesItself
  <2>2. CASE c \in Active /\ m \in on_stack
    BY <1>1, <1>4, <1>7, <2>2 DEF CallInv
  <2>3. CASE c \in Active /\ m = n
    <3> PICK i \in Calls : c = frames[i].node
      BY <2>3 DEF Active
    <3>1. D \in Calls /\ Visiting
      BY <1>2 DEF Visiting, D
    <3>2. indices[c] <= indices[frames[D].node]
      <4>1. CASE i = D
        BY <1>2, <1>4, <4>1
      <4>2. CASE i < D
        BY <1>1, <1>2, <1>4, <3>1, <4>2 DEF CallInv
      <4> QED
        BY <1>2, <4>1, <4>2
    <3>3. Reaches(c, frames[D].node)
      BY <1>1, <1>2, <2>3, <3>1, <3>2 DEF CallInv, Active
    <3>4. n \in adjacency[frames[D].node]
      BY <3>1 DEF Push, D
    <3> QED
      BY <2>3, <3>3, <3>4, ReachesDependency, ReachesOn
  <2> QED
    BY <1>3, <2>1, <2>2, <2>3
<1>8. Visiting' /\ \A m \in on_stack' : indices'[frames'[1].node] <= indices'[m]
  <2>1. Visiting'
    BY <1>2 DEF Visiting
  <2>2. CASE D = 0
    <3>1. on_stack = {}
      <4>1. frames \in Seq(Call)
        BY DEF TarjanInv, TypeInv
      <4>2. ~Visiting
        BY <2>2, <4>1 DEF Visiting, D
      <4> QED
        BY <1>1, <4>2 DEF CallInv
    <3> QED
      BY <1>2, <1>3, <1>4, <2>1, <2>2, <3>1
  <2>3. CASE D # 0
    <3>1. 1 \in Calls
      BY <1>2, <2>3
    <3>2. \A m \in on_stack : indices[frames[1].node] <= indices[m]
      BY <1>1 DEF CallInv
    <3> QED
      BY <1>2, <1>3, <1>4, <2>1, <3>1, <3>2
  <2> QED
    BY <2>2, <2>3
<1>9. \A c \in Active' : \A m \in on_stack' : indices'[c] <= indices'[m] => Reaches(c, m)'
  BY <1>4, <1>7
<1> QED
  BY <1>5, <1>6, <1>8, <1>9 DEF CallInv

LEMMA PushSeen == ASSUME GraphOK, TarjanInv, NEW n, Push(n) PROVE SeenInv'
<1> DEFINE D == Len(frames)
<1>1. SeenInv
  BY DEF TarjanInv
<1>2. /\ D \in Nat /\ Calls = 1 .. D /\ Calls' = 1 .. (D + 1) /\ adjacency' = adjacency
      /\ \A i \in Calls : /\ frames'[i].node = frames[i].node
                          /\ frames'[i].left = IF i = D THEN frames[i].left \ {n} ELSE frames[i].left
      /\ frames'[D + 1].node = n /\ frames'[D + 1].left = adjacency[n]
  BY PushCalls
<1>3. Visited' = Visited \cup {n} /\ Active' = Active \cup {n}
  BY PushFacts
<1> HIDE DEF D
<1>4. \A m \in Visited' \ Active' : adjacency'[m] \subseteq Visited'
  BY <1>1, <1>2, <1>3 DEF SeenInv
<1>5. ASSUME NEW i \in Calls'
      PROVE  /\ adjacency'[frames'[i].node] \ frames'[i].left \subseteq Visited'
             /\ frames'[i].left \subseteq adjacency'[frames'[i].node]
  <2>1. CASE i \in Calls
    <3>1. frames'[i].node = frames[i].node /\ adjacency'[frames'[i].node] = adjacency[frames[i].node]
      BY <1>2, <2>1
    <3>2. frames'[i].left = frames[i].left \/ frames'[i].left = frames[i].left \ {n}
      BY <1>2, <2>1
    <3>3. /\ adjacency[frames[i].node] \ frames[i].left \subseteq Visited
          /\ frames[i].left \subseteq adjacency[frames[i].node]
      BY <1>1, <2>1 DEF SeenInv
    <3> QED
      BY <1>3, <3>1, <3>2, <3>3
  <2>2. CASE i = D + 1
    BY <1>2, <2>2
  <2> QED
    BY <1>2, <2>1, <2>2
<1> QED
  BY <1>4, <1>5 DEF SeenInv

LEMMA PushLink == ASSUME GraphOK, TarjanInv, NEW n, Push(n) PROVE LinkInv'
<1>1. LinkInv
  BY DEF TarjanInv
<1>2. on_stack' = on_stack \cup {n} /\ Active' = Active \cup {n}
  BY PushFacts
<1>3. /\ \A m \in on_stack : indices'[m] = indices[m] /\ low_links'[m] = low_links[m]
      /\ indices'[n] = next_index /\ low_links'[n] = next_index /\ next_index \in Nat
      /\ \A m, k : Reaches(m, k)' = Reaches(m, k)
  BY PushOld
<1> SUFFICES ASSUME NEW m \in on_stack'
             PROVE  /\ low_links'[m] <= indices'[m]
                    /\ m \notin Active' => low_links'[m] < indices'[m]
                    /\ \E k \in on_stack' : indices'[k] = low_links'[m] /\ Reaches(m, k)
  BY <1>3 DEF LinkInv
<1>4. CASE m = n
  BY <1>2, <1>3, <1>4, ReachesItself
<1>5. CASE m \in on_stack
  BY <1>1, <1>2, <1>3, <1>5 DEF LinkInv
<1> QED
  BY <1>2, <1>4, <1>5

LEMMA PushLooked == ASSUME GraphOK, TarjanInv, NEW n, Push(n) PROVE LookedInv'
<1> DEFINE D == Len(frames)
<1>1. LookedInv /\ SeenInv
  BY DEF TarjanInv
<1>2. /\ D \in Nat /\ Calls = 1 .. D /\ Calls' = 1 .. (D + 1) /\ adjacency' = adjacency
      /\ Len(frames') = D + 1
      /\ \A i \in Calls : /\ frames'[i].node = frames[i].node
                          /\ frames'[i].left = IF i = D THEN frames[i].left \ {n} ELSE frames[i].left
      /\ frames'[D + 1].node = n /\ frames'[D + 1].left = adjacency[n]
  BY PushCalls
<1>3. /\ on_stack' = on_stack \cup {n} /\ n \notin Visited
      /\ \A m \in on_stack : m \in Visited
  BY PushFacts, StackTypes DEF TarjanInv
<1>4. \A m \in on_stack : indices'[m] = indices[m] /\ low_links'[m] = low_links[m]
  BY PushOld
<1> SUFFICES ASSUME NEW m \in on_stack', NEW d \in on_stack', d \in adjacency[m], Looked(m, d)'
             PROVE  low_links'[m] <= indices'[d]
  BY <1>2 DEF LookedInv
<1>5. \A i \in Calls' : frames'[i].node = m =>
        /\ d \notin frames'[i].left
        /\ i < Len(frames') => d # frames'[i + 1].node
  BY DEF Looked
<1>6. m # n
  BY <1>2, <1>5
<1> HIDE DEF D
<1>7. ASSUME NEW i \in Calls, frames[i].node = m
      PROVE  d \notin frames'[i].left /\ d # frames'[i + 1].node
  <2>1. i \in Calls' /\ i < Len(frames')
    BY <1>2
  <2> QED
    BY <1>2, <1>5, <1>7, <2>1
<1>8. d # n
  <2> SUFFICES ASSUME d = n PROVE FALSE
    OBVIOUS
  <2>1. CASE m \notin Active
    BY <1>1, <1>3, <1>6, <2>1 DEF SeenInv
  <2>2. CASE m \in Active
    <3> PICK i \in Calls : frames[i].node = m
      BY <2>2 DEF Active
    <3>1. CASE i = D
      BY <1>2, <1>7, <3>1
    <3>2. CASE i # D
      BY <1>1, <1>2, <1>3, <1>7, <3>2 DEF SeenInv
    <3> QED
      BY <3>1, <3>2
  <2> QED
    BY <2>1, <2>2
<1>9. Looked(m, d)
  <2> SUFFICES ASSUME NEW i \in Calls, frames[i].node = m
               PROVE  d \notin frames[i].left /\ (i < D => d # frames[i + 1].node)
    BY DEF Looked, D
  <2>1. ASSUME i < D PROVE frames'[i + 1].node = frames[i + 1].node
    <3>1. i + 1 \in Calls
      BY <1>2, <2>1
    <3> QED
      BY <1>2, <3>1
  <2> QED
    BY <1>2, <1>7, <1>8, <2>1
<1> QED
  BY <1>1, <1>3, <1>4, <1>6, <1>8, <1>9 DEF LookedInv

LEMMA PushBound == ASSUME GraphOK, TarjanInv, NEW n, Push(n) PROVE BoundInv'
<1> DEFINE D == Len(frames)
<1>1. BoundInv
  BY DEF TarjanInv
<1>2. /\ D \in Nat /\ Calls = 1 .. D /\ Calls' = 1 .. (D + 1)
      /\ \A i \in Calls : frames'[i].node = frames[i].node /\ frames[i].node \in on_stack
      /\ frames'[D + 1].node = n
  BY PushCalls
<1>3. on_stack' = on_stack \cup {n} /\ Active' = Active \cup {n}
  BY PushFacts
<1>4. /\ \A m \in on_stack : /\ indices'[m] = indices[m] /\ low_links'[m] = low_links[m]
                             /\ indices[m] \in Nat /\ indices[m] < next_index
      /\ indices'[n] = next_index /\ next_index \in Nat
  BY PushOld
<1> HIDE DEF D
<1> SUFFICES ASSUME NEW i \in Calls', NEW m \in on_stack' \ Active',
                    indices'[frames'[i].node] < indices'[m]
             PROVE  \/ low_links'[frames'[i].node] <= low_links'[m]
                    \/ \E j \in Calls' : i < j /\ indices'[frames'[j].node] < indices'[m]
  BY DEF BoundInv
<1>5. m \in on_stack \ Active
  BY <1>3
<1>6. i \in Calls
  BY <1>2, <1>4, <1>5
<1> QED
  BY <1>1, <1>2, <1>4, <1>5, <1>6 DEF BoundInv

LEMMA PushTarjan == ASSUME GraphOK, TarjanInv, NEW n, Push(n) PROVE TarjanInv'
<1>1. TypeInv' /\ CountInv' /\ StackInv'
  BY PushFacts, PushCount, PushStack
<1>2. CallInv' /\ SeenInv' /\ LinkInv' /\ LookedInv' /\ BoundInv'
  BY PushCallInv, PushSeen, PushLink, PushLooked, PushBound
<1>3. ComponentInv'
  <2>1. components' = components /\ adjacency' = adjacency
    BY DEF Push
  <2> QED
    BY <2>1, SameReach DEF TarjanInv, ComponentInv, DependenciesReportedFirst
<1> QED
  BY <1>1, <1>2, <1>3 DEF TarjanInv

-----------------------------------------------------------------------------
\* Look takes a visited dependency of the innermost call and may lower its link.
LEMMA LookFacts ==
    ASSUME GraphOK, TarjanInv, Look
    PROVE  \E v \in Active, d \in Visited :
             /\ v = frames[Len(frames)].node /\ d \in adjacency[v]
             /\ UNCHANGED <<adjacency, next_index, indices, stack, on_stack, components>>
             /\ frames' \in Seq(Call) /\ Len(frames') = Len(frames) /\ Active' = Active
             /\ \A i \in Calls : /\ frames'[i].node = frames[i].node
                                 /\ frames'[i].left = IF i = Len(frames) THEN frames[i].left \ {d}
                                                      ELSE frames[i].left
             /\ low_links' \in [Node -> Nat]
             /\ \A n \in Node : n # v => low_links'[n] = low_links[n]
             /\ low_links'[v] <= low_links[v]
             /\ low_links'[v] # low_links[v] => d \in on_stack /\ low_links'[v] = indices[d]
             /\ d \in on_stack => low_links'[v] <= indices[d]
<1> DEFINE D == Len(frames)
           d == Least(Frame.left)
           v == Frame.node
<1>1. /\ D \in Calls /\ frames \in Seq(Call) /\ Frame = frames[D]
      /\ v \in Node /\ Frame.left \subseteq Node /\ TypeInv /\ Visiting
  BY CallTypes DEF Look, Frame, TarjanInv, TypeInv
<1>2. d \in Frame.left
  BY <1>1, LeastIsMember DEF Look
<1>3. /\ indices[d] # None
      /\ low_links' = [low_links EXCEPT ![v] = LooksAt(v, d)]
      /\ frames' = [frames EXCEPT ![Len(frames)].left = @ \ {d}]
      /\ UNCHANGED <<adjacency, next_index, indices, stack, on_stack, components>>
  BY DEF Look
<1> HIDE DEF d
<1>4. d \in Visited /\ d \in adjacency[v] /\ v \in Active
  BY <1>1, <1>2, <1>3 DEF Visited, Unvisited, TarjanInv, SeenInv, Active
<1>5. /\ frames' \in Seq(Call) /\ Len(frames') = D
      /\ \A i \in Calls : /\ frames'[i].node = frames[i].node
                          /\ frames'[i].left = IF i = D THEN frames[i].left \ {d}
                                               ELSE frames[i].left
  BY <1>1, <1>3, TakeOne
<1>6. Active' = Active
  BY <1>5 DEF Active, Calls
<1>7. /\ indices[d] \in Nat /\ low_links \in [Node -> Nat]
  BY <1>4, StackTypes DEF TarjanInv, TypeInv
<1>8. /\ LooksAt(v, d) \in Nat /\ LooksAt(v, d) <= low_links[v]
      /\ LooksAt(v, d) # low_links[v] => d \in on_stack /\ LooksAt(v, d) = indices[d]
      /\ d \in on_stack => LooksAt(v, d) <= indices[d]
  <2>1. low_links[v] \in Nat
    BY <1>1, <1>7
  <2> QED
    BY <1>7, <2>1 DEF LooksAt, LowerOf
<1>9. /\ low_links' \in [Node -> Nat] /\ low_links'[v] = LooksAt(v, d)
      /\ \A n \in Node : n # v => low_links'[n] = low_links[n]
  BY <1>1, <1>3, <1>7, <1>8
<1> HIDE DEF v
<1> QED
  BY <1>1, <1>3, <1>4, <1>5, <1>6, <1>8, <1>9 DEF v

LEMMA LookTarjan == GraphOK /\ TarjanInv /\ Look => TarjanInv'
<1> SUFFICES ASSUME GraphOK, TarjanInv, Look PROVE TarjanInv'
  OBVIOUS
<1> DEFINE D == Len(frames)
<1>0. PICK v \in Active, d \in Visited :
             /\ v = frames[D].node /\ d \in adjacency[v]
             /\ UNCHANGED <<adjacency, next_index, indices, stack, on_stack, components>>
             /\ frames' \in Seq(Call) /\ Len(frames') = D /\ Active' = Active
             /\ \A i \in Calls : /\ frames'[i].node = frames[i].node
                                 /\ frames'[i].left = IF i = D THEN frames[i].left \ {d}
                                                      ELSE frames[i].left
             /\ low_links' \in [Node -> Nat]
             /\ \A n \in Node : n # v => low_links'[n] = low_links[n]
             /\ low_links'[v] <= low_links[v]
             /\ low_links'[v] # low_links[v] => d \in on_stack /\ low_links'[v] = indices[d]
             /\ d \in on_stack => low_links'[v] <= indices[d]
  BY LookFacts
<1>1. TypeInv /\ CountInv /\ StackInv /\ CallInv /\ SeenInv /\ LinkInv /\ LookedInv
      /\ BoundInv /\ ComponentInv
  BY DEF TarjanInv
<1>2. /\ v \in on_stack /\ v \in Node /\ D \in Nat /\ Calls' = Calls /\ D \in Calls
      /\ on_stack \subseteq Node /\ Calls = 1 .. D /\ Len(frames') = D
      /\ \A n \in on_stack : indices[n] \in Nat /\ low_links[n] \in Nat /\ low_links'[n] \in Nat
  <2>1. Len(frames') = D /\ low_links' \in [Node -> Nat]
    BY <1>0
  <2>2. D \in Nat /\ Calls = 1 .. D /\ Calls' = 1 .. D /\ D \in Calls
    BY <1>1, <2>1, CallTypes DEF Calls, Look
  <2>3. on_stack \subseteq Node /\ v \in on_stack
    BY <1>0, <1>1, StackTypes DEF CallInv
  <2>4. \A n \in on_stack : indices[n] \in Nat /\ low_links[n] \in Nat
    BY <1>1, <2>3, StackTypes DEF TypeInv
  <2> QED
    BY <2>1, <2>2, <2>3, <2>4
<1>3. \A n \in Node : low_links'[n] <= low_links[n] /\ (n # v => low_links'[n] = low_links[n])
  BY <1>0, <1>1, <1>2 DEF TypeInv
<1>4. (\A n, m : Reaches(n, m)' = Reaches(n, m)) /\ Visited' = Visited /\ Reported' = Reported
  BY <1>0, SameReach DEF Visited, Unvisited, Reported
<1>5. /\ UNCHANGED <<adjacency, next_index, indices, stack, on_stack, components>>
      /\ Active' = Active
  BY <1>0
<1>6. \A i \in Calls : frames'[i].node = frames[i].node
  BY <1>0
<1>7. /\ \A i \in Calls : frames'[i].left = IF i = D THEN frames[i].left \ {d} ELSE frames[i].left
      /\ frames[D].node = v /\ d \in Visited /\ d \in adjacency[v]
  BY <1>0
<1> HIDE DEF D
<1>8. TypeInv'
  BY <1>0, <1>1 DEF TypeInv, Call
<1>9. CountInv'
  <2>1. \A n \in Node : low_links[n] <= next_index /\ low_links[n] \in Nat /\ low_links'[n] \in Nat
    BY <1>0, <1>1 DEF CountInv, TypeInv
  <2>2. \A n \in Node : low_links'[n] <= next_index
    BY <1>1, <1>3, <2>1 DEF TypeInv
  <2> QED
    BY <1>1, <1>4, <1>5, <2>2 DEF CountInv
<1>10. StackInv'
  BY <1>1, <1>4, <1>5 DEF StackInv
<1>11. CallInv'
  <2>1. \A i, j \in Calls' : i < j => indices'[frames'[i].node] < indices'[frames'[j].node]
    BY <1>1, <1>2, <1>5, <1>6 DEF CallInv
  <2>2. \A n \in on_stack' : Visiting' /\ indices'[frames'[1].node] <= indices'[n]
    <3>1. \A n \in on_stack : Visiting /\ indices[frames[1].node] <= indices[n]
      BY <1>1 DEF CallInv
    <3>2. 1 \in Calls /\ Visiting'
      BY <1>2 DEF Visiting
    <3> QED
      BY <1>5, <1>6, <3>1, <3>2
  <2>3. \A c \in Active' : \A n \in on_stack' : indices'[c] <= indices'[n] => Reaches(c, n)'
    BY <1>1, <1>4, <1>5 DEF CallInv
  <2>4. Active' \subseteq on_stack'
    BY <1>1, <1>5 DEF CallInv
  <2> QED
    BY <2>1, <2>2, <2>3, <2>4 DEF CallInv
<1>12. SeenInv'
  <2>1. \A n \in Visited' \ Active' : adjacency'[n] \subseteq Visited'
    BY <1>1, <1>4, <1>5 DEF SeenInv
  <2>2. ASSUME NEW i \in Calls
        PROVE  /\ adjacency[frames[i].node] \ frames'[i].left \subseteq Visited
               /\ frames'[i].left \subseteq adjacency[frames[i].node]
    <3>1. /\ adjacency[frames[i].node] \ frames[i].left \subseteq Visited
          /\ frames[i].left \subseteq adjacency[frames[i].node]
      BY <1>1 DEF SeenInv
    <3>2. frames'[i].left = frames[i].left \/ frames'[i].left = frames[i].left \ {d}
      BY <1>7
    <3> QED
      BY <1>7, <3>1, <3>2
  <2>3. \A i \in Calls' : /\ adjacency'[frames'[i].node] \ frames'[i].left \subseteq Visited'
                          /\ frames'[i].left \subseteq adjacency'[frames'[i].node]
    BY <1>2, <1>4, <1>5, <1>6, <2>2
  <2> QED
    BY <2>1, <2>3 DEF SeenInv
<1>13. LinkInv'
  <2> SUFFICES ASSUME NEW n \in on_stack
               PROVE  /\ low_links'[n] <= indices[n]
                      /\ n \notin Active => low_links'[n] < indices[n]
                      /\ \E m \in on_stack : indices[m] = low_links'[n] /\ Reaches(n, m)
    BY <1>4, <1>5 DEF LinkInv
  <2>1. CASE low_links'[n] = low_links[n]
    BY <1>1, <2>1 DEF LinkInv
  <2>2. CASE low_links'[n] # low_links[n]
    <3>1. n = v /\ d \in on_stack /\ low_links'[v] = indices[d]
      BY <1>0, <1>2, <2>2
    <3>2. Reaches(v, d)
      BY <1>7, ReachesDependency
    <3>3. low_links[v] <= indices[v]
      BY <1>1, <1>2 DEF LinkInv
    <3>4. v \in Active
      BY <1>0
    <3> QED
      BY <1>2, <1>3, <3>1, <3>2, <3>3, <3>4
  <2> QED
    BY <2>1, <2>2
<1>14. LookedInv'
  <2> SUFFICES ASSUME NEW n \in on_stack, NEW e \in on_stack, e \in adjacency[n], Looked(n, e)'
               PROVE  low_links'[n] <= indices[e]
    BY <1>5 DEF LookedInv
  <2>1. CASE n = v /\ e = d
    BY <1>0, <2>1
  <2>2. CASE ~(n = v /\ e = d)
    <3>1. \A i \in Calls : frames[i].node = n =>
            /\ e \notin frames'[i].left
            /\ i < D => e # frames'[i + 1].node
      BY <1>2, <1>6 DEF Looked
    <3>2. Looked(n, e)
      <4> SUFFICES ASSUME NEW i \in Calls, frames[i].node = n
                   PROVE  e \notin frames[i].left /\ (i < D => e # frames[i + 1].node)
        BY DEF Looked, D
      <4>1. ASSUME i < D PROVE frames'[i + 1].node = frames[i + 1].node
        <5>1. i + 1 \in Calls
          BY <1>2, <4>1
        <5> QED
          BY <1>6, <5>1
      <4>2. i = D => n = v
        BY <1>7
      <4> QED
        BY <1>2, <1>7, <2>2, <3>1, <4>1, <4>2
    <3>3. low_links[n] <= indices[e]
      BY <1>1, <3>2 DEF LookedInv
    <3> QED
      BY <1>2, <1>3, <3>3
  <2> QED
    BY <2>1, <2>2
<1>15. BoundInv'
  <2> SUFFICES ASSUME NEW i \in Calls, NEW n \in on_stack \ Active,
                      indices[frames[i].node] < indices[n]
               PROVE  \/ low_links'[frames[i].node] <= low_links'[n]
                      \/ \E j \in Calls : i < j /\ indices[frames[j].node] < indices[n]
    BY <1>2, <1>5, <1>6 DEF BoundInv
  <2>1. low_links'[n] = low_links[n]
    BY <1>0, <1>2, <1>3
  <2>2. frames[i].node \in on_stack
    BY <1>1 DEF CallInv, Active
  <2>3. CASE low_links[frames[i].node] <= low_links[n]
    BY <1>2, <1>3, <2>1, <2>2, <2>3
  <2>4. CASE ~(low_links[frames[i].node] <= low_links[n])
    BY <1>1, <2>4 DEF BoundInv
  <2> QED
    BY <2>3, <2>4
<1>16. ComponentInv'
  BY <1>1, <1>4, <1>5 DEF ComponentInv, DependenciesReportedFirst
<1> QED
  BY <1>8, <1>9, <1>10, <1>11, <1>12, <1>13, <1>14, <1>15, <1>16 DEF TarjanInv

-----------------------------------------------------------------------------
\* The prefix that a return leaves of the calls, and of the stack.
LEMMA PrefixOf ==
    ASSUME NEW S, NEW s \in Seq(S), NEW k \in 0 .. Len(s)
    PROVE  /\ SubSeq(s, 1, k) \in Seq(S)
           /\ Len(SubSeq(s, 1, k)) = k
           /\ \A i \in 1 .. k : SubSeq(s, 1, k)[i] = s[i]
<1>1. k \in Int /\ Len(s) \in Nat /\ \A i \in 1 .. k : s[i] \in S
  OBVIOUS
<1>2. /\ SubSeq(s, 1, k) \in Seq(S)
      /\ Len(SubSeq(s, 1, k)) = IF 1 <= k THEN k - 1 + 1 ELSE 0
      /\ \A i \in 1 .. (k - 1 + 1) : SubSeq(s, 1, k)[i] = s[1 + i - 1]
  BY <1>1, SubSeqProperties
<1> QED
  BY <1>1, <1>2

\* What both returns do: the innermost call ends, its loop having taken every
\* dependency, and the caller takes over the lower of the two links.
LEMMA LeaveFacts ==
    ASSUME GraphOK, TarjanInv, Visiting, Frame.left = {}, Resume(low_links), UNCHANGED indices
    PROVE  \E w \in Active :
             /\ Len(frames) \in Calls /\ Len(frames) \in Nat /\ Calls = 1 .. Len(frames)
             /\ w = frames[Len(frames)].node /\ Frame.node = w
             /\ frames[Len(frames)].left = {}
             /\ frames' \in Seq(Call) /\ Len(frames') = Len(frames) - 1
             /\ Calls' = 1 .. (Len(frames) - 1)
             /\ \A i \in Calls' : frames'[i] = frames[i]
             /\ Active' = Active \ {w}
             /\ \A i \in Calls' : indices[frames[i].node] < indices[w]
             /\ low_links' \in [Node -> Nat]
             /\ \A n \in Node : low_links'[n] # low_links[n] =>
                  /\ Len(frames) > 1 /\ n = frames[Len(frames) - 1].node
                  /\ low_links'[n] = low_links[w] /\ low_links[w] < low_links[n]
             /\ Len(frames) > 1 => low_links'[frames[Len(frames) - 1].node] <= low_links[w]
<1> DEFINE D == Len(frames)
           w == frames[D].node
<1>1. TypeInv /\ CountInv /\ StackInv /\ CallInv
  BY DEF TarjanInv
<1>2. D \in Calls /\ D \in Nat /\ Calls = 1 .. D /\ frames \in Seq(Call)
      /\ \A i \in Calls : frames[i].node \in Node /\ frames[i].node \in Active
  BY <1>1, CallTypes DEF TypeInv, Calls, Active
<1>3. Frame.node = w /\ frames[D].left = {} /\ w \in Active
  BY <1>2 DEF Frame
<1>4. frames' \in Seq(Call) /\ Len(frames') = D - 1 /\ \A i \in 1 .. (D - 1) : frames'[i] = frames[i]
  <2>1. frames' = SubSeq(frames, 1, D - 1)
    BY DEF Resume
  <2>2. D - 1 \in 0 .. Len(frames)
    BY <1>2
  <2> QED
    BY <1>2, <2>1, <2>2, PrefixOf
<1>5. Calls' = 1 .. (D - 1)
  BY <1>4 DEF Calls
<1>6. \A i \in Calls' : indices[frames[i].node] < indices[w]
  BY <1>1, <1>2, <1>5 DEF CallInv
<1>7. \A c \in Active : indices[c] \in Nat /\ c \in Node /\ low_links[c] \in Nat
  BY <1>1, StackTypes DEF CallInv, TypeInv
<1>8. Active' = Active \ {w}
  <2>1. Active' = {frames[i].node : i \in 1 .. (D - 1)} /\ Active = {frames[i].node : i \in 1 .. D}
    BY <1>2, <1>4, <1>5 DEF Active
  <2>2. w \notin Active'
    BY <1>3, <1>5, <1>6, <1>7, <2>1
  <2>3. \A c \in Active' : c \in Active
    BY <1>2, <2>1
  <2>4. \A c \in Active : c # w => c \in Active'
    <3> SUFFICES ASSUME NEW i \in 1 .. D, frames[i].node # w PROVE frames[i].node \in Active'
      BY <2>1
    <3> QED
      BY <1>2, <2>1
  <2> QED
    BY <2>2, <2>3, <2>4
<1> HIDE DEF w
<1>9. /\ low_links' \in [Node -> Nat]
      /\ \A n \in Node : low_links'[n] # low_links[n] =>
           /\ D > 1 /\ n = frames[D - 1].node
           /\ low_links'[n] = low_links[w] /\ low_links[w] < low_links[n]
      /\ D > 1 => low_links'[frames[D - 1].node] <= low_links[w]
  <2>1. low_links \in [Node -> Nat]
    BY <1>1 DEF TypeInv
  <2>2. CASE D = 1
    <3>1. low_links' = low_links
      BY <2>2 DEF Resume
    <3> QED
      BY <2>1, <2>2, <3>1
  <2>3. CASE D # 1
    <3> DEFINE u == frames[D - 1].node
    <3>1. D > 1 /\ D - 1 \in Calls
      <4> HIDE DEF D
      <4> QED
        BY <1>2, <2>3
    <3>2. u \in Node /\ w \in Node
      BY <1>2, <1>3, <1>7, <3>1
    <3>3. low_links' = [low_links EXCEPT ![u] = LowerOf(low_links[u], low_links[w])]
      BY <1>3, <2>3 DEF Resume
    <3> HIDE DEF u
    <3>4. low_links[u] \in Nat /\ low_links[w] \in Nat
      BY <2>1, <3>2
    <3>5. /\ LowerOf(low_links[u], low_links[w]) \in Nat
          /\ LowerOf(low_links[u], low_links[w]) <= low_links[w]
          /\ LowerOf(low_links[u], low_links[w]) # low_links[u] =>
               /\ LowerOf(low_links[u], low_links[w]) = low_links[w]
               /\ low_links[w] < low_links[u]
      BY <3>4 DEF LowerOf
    <3>6. low_links'[u] = LowerOf(low_links[u], low_links[w])
      BY <2>1, <3>2, <3>3
    <3>7. low_links' \in [Node -> Nat] /\ \A n \in Node : n # u => low_links'[n] = low_links[n]
      BY <2>1, <3>2, <3>3, <3>5
    <3> QED
      BY <3>1, <3>5, <3>6, <3>7 DEF u
  <2> QED
    BY <2>2, <2>3
<1> QED
  BY <1>2, <1>3, <1>4, <1>5, <1>6, <1>8, <1>9 DEF w

\* What both returns leave true of the calls that still run: their nodes are on
\* the stack in order, and a loop has taken only visited dependencies.
LEMMA LeaveCalls ==
    ASSUME GraphOK, TarjanInv, Visiting, Frame.left = {}, Resume(low_links),
           UNCHANGED <<adjacency, indices>>
    PROVE  /\ \A i, j \in Calls' : i < j => indices'[frames'[i].node] < indices'[frames'[j].node]
           /\ SeenInv'
<1> DEFINE D == Len(frames)
<1>0. PICK w \in Active :
        /\ D \in Calls /\ D \in Nat /\ Calls = 1 .. D /\ w = frames[D].node /\ frames[D].left = {}
        /\ Calls' = 1 .. (D - 1) /\ Active' = Active \ {w}
        /\ \A i \in Calls' : frames'[i] = frames[i]
  BY LeaveFacts
<1>1. \A i \in Calls' : i \in Calls /\ frames'[i] = frames[i]
  BY <1>0
<1>2. \A i, j \in Calls' : i < j => indices'[frames'[i].node] < indices'[frames'[j].node]
  BY <1>1 DEF TarjanInv, CallInv
<1>3. Visited' = Visited
  BY DEF Visited, Unvisited
<1>4. ASSUME NEW n \in Visited \ Active' PROVE adjacency[n] \subseteq Visited
  <2>1. CASE n = w
    BY <1>0, <2>1 DEF TarjanInv, SeenInv
  <2>2. CASE n # w
    BY <1>0, <2>2 DEF TarjanInv, SeenInv
  <2> QED
    BY <2>1, <2>2
<1>5. \A i \in Calls' : /\ adjacency[frames'[i].node] \ frames'[i].left \subseteq Visited
                        /\ frames'[i].left \subseteq adjacency[frames'[i].node]
  BY <1>1 DEF TarjanInv, SeenInv
<1>6. SeenInv'
  BY <1>3, <1>4, <1>5 DEF SeenInv
<1> QED
  BY <1>2, <1>6

LEMMA ReturnInnerTarjan == GraphOK /\ TarjanInv /\ ReturnInner => TarjanInv'
<1> SUFFICES ASSUME GraphOK, TarjanInv, ReturnInner PROVE TarjanInv'
  OBVIOUS
<1> DEFINE D == Len(frames)
<1>0. PICK w \in Active :
             /\ D \in Calls /\ D \in Nat /\ Calls = 1 .. D
             /\ w = frames[D].node /\ Frame.node = w
             /\ frames[D].left = {}
             /\ frames' \in Seq(Call) /\ Len(frames') = D - 1
             /\ Calls' = 1 .. (D - 1)
             /\ \A i \in Calls' : frames'[i] = frames[i]
             /\ Active' = Active \ {w}
             /\ \A i \in Calls' : indices[frames[i].node] < indices[w]
             /\ low_links' \in [Node -> Nat]
             /\ \A n \in Node : low_links'[n] # low_links[n] =>
                  /\ D > 1 /\ n = frames[D - 1].node
                  /\ low_links'[n] = low_links[w] /\ low_links[w] < low_links[n]
             /\ D > 1 => low_links'[frames[D - 1].node] <= low_links[w]
  BY LeaveFacts DEF ReturnInner
<1>1. TypeInv /\ CountInv /\ StackInv /\ CallInv /\ SeenInv /\ LinkInv /\ LookedInv
      /\ BoundInv /\ ComponentInv
  BY DEF TarjanInv
<1>2. UNCHANGED <<adjacency, next_index, indices, stack, on_stack, components>>
  BY DEF ReturnInner
<1>3. /\ on_stack \subseteq Node /\ Active \subseteq on_stack /\ w \in on_stack
      /\ \A n \in on_stack : indices[n] \in Nat /\ low_links[n] \in Nat /\ low_links'[n] \in Nat
      /\ \A i \in Calls : frames[i].node \in on_stack
  <2>1. on_stack \subseteq Node /\ Active \subseteq on_stack
    BY <1>1, StackTypes DEF CallInv
  <2>2. \A n \in on_stack : indices[n] \in Nat /\ low_links[n] \in Nat
    BY <1>1, <2>1, StackTypes DEF TypeInv
  <2>3. \A n \in Node : low_links'[n] \in Nat
    BY <1>0
  <2> QED
    BY <2>1, <2>2, <2>3 DEF Active
<1>4. (\A n, m : Reaches(n, m)' = Reaches(n, m)) /\ Visited' = Visited /\ Reported' = Reported
  BY <1>2, SameReach DEF Visited, Unvisited, Reported
<1>5. \A n \in Node : low_links'[n] <= low_links[n]
  <2>1. low_links \in [Node -> Nat] /\ low_links' \in [Node -> Nat] /\ w \in Node
    BY <1>0, <1>1, <1>3 DEF TypeInv
  <2> QED
    BY <1>0, <2>1
<1>6. low_links[w] < indices[w] /\ low_links'[w] = low_links[w]
  <2>1. low_links[w] # indices[w]
    BY <1>0 DEF ReturnInner, IsRoot
  <2>2. low_links[w] <= indices[w]
    BY <1>1, <1>3 DEF LinkInv
  <2>3. low_links'[w] = low_links[w]
    <3>1. low_links[w] \in Nat
      BY <1>3
    <3> QED
      BY <1>0, <1>3, <3>1
  <2> QED
    BY <1>3, <2>1, <2>2, <2>3
\* The first call is a root: a call below the innermost one goes on.
<1>7. D > 1
  <2> SUFFICES ASSUME D = 1 PROVE FALSE
    BY <1>0
  <2>1. PICK m \in on_stack : indices[m] = low_links[w]
    BY <1>1, <1>3 DEF LinkInv
  <2>2. indices[frames[1].node] <= indices[m]
    BY <1>1 DEF CallInv
  <2>3. frames[1].node = w
    BY <1>0
  <2> QED
    BY <1>3, <1>6, <2>1, <2>2, <2>3
<1> DEFINE u == frames[D - 1].node
<1>8. /\ u \in Active /\ u \in on_stack /\ indices[u] < indices[w] /\ u # w
      /\ low_links'[u] <= low_links[w] /\ D - 1 \in Calls /\ D - 1 \in Calls'
      /\ \A n \in Node : n # u => low_links'[n] = low_links[n]
      /\ low_links'[u] # low_links[u] => low_links'[u] = low_links[w]
  <2>1. D - 1 \in Calls /\ D - 1 \in Calls'
    BY <1>0, <1>7
  <2>2. u \in Active /\ u \in on_stack
    BY <1>3, <2>1 DEF Active
  <2>3. indices[u] < indices[w]
    BY <1>0, <2>1
  <2>4. u # w
    BY <1>3, <2>2, <2>3
  <2> QED
    BY <1>0, <1>3, <1>7, <2>1, <2>2, <2>3, <2>4
<1>9. TypeInv'
  BY <1>0, <1>1, <1>2 DEF TypeInv, Call
<1>10. CountInv'
  <2>1. \A n \in Node : low_links'[n] \in Nat /\ low_links[n] \in Nat /\ low_links[n] <= next_index
    BY <1>0, <1>1 DEF CountInv, TypeInv
  <2>2. \A n \in Node : low_links'[n] <= next_index
    BY <1>1, <1>5, <2>1 DEF TypeInv
  <2> QED
    BY <1>1, <1>2, <1>4, <2>2 DEF CountInv
<1>11. StackInv'
  BY <1>1, <1>2, <1>4 DEF StackInv
<1>12. SeenInv' /\ \A i, j \in Calls' : i < j =>
                     indices'[frames'[i].node] < indices'[frames'[j].node]
  BY <1>2, LeaveCalls DEF ReturnInner
<1>13. CallInv'
  <2>1. \A n \in on_stack' : Visiting' /\ indices'[frames'[1].node] <= indices'[n]
    <3>1. \A n \in on_stack : indices[frames[1].node] <= indices[n]
      BY <1>1 DEF CallInv
    <3>2. 1 \in Calls' /\ frames'[1] = frames[1]
      BY <1>0, <1>7
    <3>3. Visiting'
      BY <1>0, <1>7 DEF Visiting
    <3> QED
      BY <1>2, <3>1, <3>2, <3>3
  <2>2. \A c \in Active' : \A n \in on_stack' : indices'[c] <= indices'[n] => Reaches(c, n)'
    BY <1>0, <1>1, <1>2, <1>4 DEF CallInv
  <2>3. Active' \subseteq on_stack'
    BY <1>0, <1>2, <1>3
  <2> QED
    BY <1>12, <2>1, <2>2, <2>3 DEF CallInv
<1> HIDE DEF D, u
<1>14. LinkInv'
  <2> SUFFICES ASSUME NEW n \in on_stack
               PROVE  /\ low_links'[n] <= indices[n]
                      /\ n \notin Active' => low_links'[n] < indices[n]
                      /\ \E m \in on_stack : indices[m] = low_links'[n] /\ Reaches(n, m)
    BY <1>2, <1>4 DEF LinkInv
  <2>1. low_links[n] <= indices[n] /\ (n \notin Active => low_links[n] < indices[n])
    BY <1>1 DEF LinkInv
  <2>2. low_links'[n] <= indices[n]
    BY <1>3, <1>5, <2>1
  <2>3. n \notin Active' => low_links'[n] < indices[n]
    <3>1. Active' = Active \ {w}
      BY <1>0
    <3>2. low_links'[n] <= low_links[n]
      BY <1>3, <1>5
    <3> QED
      BY <1>3, <1>6, <2>1, <3>1, <3>2
  <2>4. \E m \in on_stack : indices[m] = low_links'[n] /\ Reaches(n, m)
    <3>1. CASE low_links'[n] = low_links[n]
      BY <1>1, <3>1 DEF LinkInv
    <3>2. CASE low_links'[n] # low_links[n]
      <4>1. n = u /\ low_links'[n] = low_links[w]
        BY <1>3, <1>8, <3>2
      <4>2. PICK m \in on_stack : indices[m] = low_links[w] /\ Reaches(w, m)
        BY <1>1, <1>3 DEF LinkInv
      <4>3. Reaches(u, w)
        BY <1>1, <1>3, <1>8 DEF CallInv
      <4> QED
        BY <4>1, <4>2, <4>3, ReachesOn
    <3> QED
      BY <3>1, <3>2
  <2> QED
    BY <2>2, <2>3, <2>4
<1>15. LookedInv'
  <2> SUFFICES ASSUME NEW n \in on_stack, NEW d \in on_stack, d \in adjacency[n], Looked(n, d)'
               PROVE  low_links'[n] <= indices[d]
    BY <1>2 DEF LookedInv
  <2>1. CASE n = u /\ d = w
    BY <1>3, <1>6, <1>8, <2>1
  <2>2. CASE ~(n = u /\ d = w)
    <3>1. Looked(n, d)
      <4> SUFFICES ASSUME NEW i \in Calls, frames[i].node = n
                   PROVE  d \notin frames[i].left /\ (i < D => d # frames[i + 1].node)
        BY DEF Looked, D
      <4>1. CASE i = D
        BY <1>0, <4>1
      <4>2. CASE i = D - 1
        <5>1. i \in Calls' /\ frames'[i] = frames[i] /\ n = u /\ frames[i + 1].node = w
          BY <1>0, <1>8, <4>2 DEF u
        <5>2. d \notin frames'[i].left
          BY <5>1 DEF Looked
        <5> QED
          BY <2>2, <5>1, <5>2
      <4>3. CASE i < D - 1
        <5>1. i \in Calls' /\ i + 1 \in Calls' /\ i < Len(frames')
          BY <1>0, <4>3
        <5>2. frames'[i] = frames[i] /\ frames'[i + 1] = frames[i + 1]
          BY <1>0, <5>1
        <5> QED
          BY <5>1, <5>2 DEF Looked
      <4> QED
        BY <1>0, <4>1, <4>2, <4>3
    <3>2. low_links[n] <= indices[d]
      BY <1>1, <3>1 DEF LookedInv
    <3> QED
      BY <1>3, <1>5, <3>2
  <2> QED
    BY <2>1, <2>2
<1>16. BoundInv'
  <2> SUFFICES ASSUME NEW i \in Calls', NEW n \in on_stack \ Active',
                      indices[frames[i].node] < indices[n]
               PROVE  \/ low_links'[frames[i].node] <= low_links'[n]
                      \/ \E j \in Calls' : i < j /\ indices[frames[j].node] < indices[n]
    <3>1. \A j \in Calls' : frames'[j] = frames[j]
      BY <1>0
    <3> QED
      BY <1>2, <3>1 DEF BoundInv
  <2>1. i \in Calls /\ i <= D - 1 /\ i \in Nat /\ D \in Nat
    BY <1>0
  <2>2. low_links'[n] = low_links[n]
    BY <1>0, <1>3, <1>6, <1>8
  <2>3. CASE indices[u] < indices[n] /\ i # D - 1
    BY <1>8, <2>1, <2>3 DEF u
  <2>4. CASE ~(indices[u] < indices[n])
    <3>1. n # w /\ n \notin Active
      BY <1>0, <1>3, <1>8, <2>4
    <3>2. CASE low_links[frames[i].node] <= low_links[n]
      BY <1>3, <1>5, <2>1, <2>2, <3>2
    <3>3. CASE \E j \in Calls : i < j /\ indices[frames[j].node] < indices[n]
      <4> PICK j \in Calls : i < j /\ indices[frames[j].node] < indices[n]
        BY <3>3
      <4>1. j # D
        BY <1>0, <1>3, <1>8, <2>4
      <4>2. j \in Calls'
        BY <1>0, <4>1
      <4> QED
        BY <4>2
    <3> QED
      BY <1>1, <2>1, <3>1, <3>2, <3>3 DEF BoundInv
  <2>5. CASE indices[u] < indices[n] /\ i = D - 1
    <3>1. low_links'[u] <= low_links[n]
      <4>1. CASE n = w
        BY <1>8, <4>1
      <4>2. CASE n # w
        <5>1. n \notin Active
          BY <1>0, <4>2
        <5>2. CASE low_links[u] <= low_links[n]
          BY <1>3, <1>5, <1>8, <5>2
        <5>3. CASE indices[w] < indices[n]
          <6>1. ~ \E j \in Calls : D < j /\ indices[frames[j].node] < indices[n]
            BY <1>0
          <6>2. low_links[w] <= low_links[n]
            BY <1>0, <1>1, <5>1, <5>3, <6>1 DEF BoundInv
          <6> QED
            BY <1>3, <1>8, <6>2
        <5> QED
          <6>1. \/ low_links[u] <= low_links[n]
                \/ \E j \in Calls : D - 1 < j /\ indices[frames[j].node] < indices[n]
            BY <1>1, <1>8, <2>5, <5>1 DEF BoundInv, u
          <6>2. \A j \in Calls : D - 1 < j => j = D
            BY <1>0
          <6> QED
            BY <1>0, <5>2, <5>3, <6>1, <6>2
      <4> QED
        BY <4>1, <4>2
    <3> QED
      BY <2>2, <2>5, <3>1 DEF u
  <2> QED
    BY <2>3, <2>4, <2>5
<1>17. ComponentInv'
  BY <1>1, <1>2, <1>4 DEF ComponentInv, DependenciesReportedFirst
<1> QED
  BY <1>9, <1>10, <1>11, <1>12, <1>13, <1>14, <1>15, <1>16, <1>17 DEF TarjanInv

-----------------------------------------------------------------------------
\* What a root pops: whatever was pushed from it on.
Popped(w) == {m \in on_stack : indices[w] <= indices[m]}

\* The stack is in the order of the visits, so the part above a root's position is
\* that set; and the caller's link is below the root's already.
LEMMA RootFacts ==
    ASSUME GraphOK, TarjanInv, ReturnRoot, NEW w, w = Frame.node
    PROVE  /\ w \in on_stack /\ low_links[w] = indices[w]
           /\ components' = Append(components, Popped(w))
           /\ on_stack' = {m \in on_stack : indices[m] < indices[w]}
           /\ stack' \in Seq(Node)
           /\ on_stack' = {stack'[i] : i \in 1 .. Len(stack')}
           /\ \A i, j \in 1 .. Len(stack') : i < j => indices[stack'[i]] < indices[stack'[j]]
           /\ low_links' = low_links
<1>0. TypeInv /\ CountInv /\ StackInv /\ CallInv /\ LinkInv
  BY DEF TarjanInv
<1>1. /\ w \in Active /\ w \in on_stack /\ Active \subseteq on_stack /\ on_stack \subseteq Node
      /\ \A n \in on_stack : indices[n] \in Nat /\ low_links[n] \in Nat
  <2>1. w \in Active
    BY <1>0, CallTypes DEF ReturnRoot, Frame, Active, Calls
  <2>2. Active \subseteq on_stack /\ on_stack \subseteq Node
    BY <1>0, StackTypes DEF CallInv
  <2>3. \A n \in on_stack : indices[n] \in Nat /\ low_links[n] \in Nat
    BY <1>0, <2>2, StackTypes DEF TypeInv
  <2> QED
    BY <2>1, <2>2, <2>3
<1>2. low_links[w] = indices[w]
  BY DEF ReturnRoot, IsRoot
<1> DEFINE at == PositionOf(w)
           component == {stack[i] : i \in at .. Len(stack)}
<1>3. at \in 1 .. Len(stack) /\ stack[at] = w
  BY <1>0, <1>1 DEF TypeInv, PositionOf
<1>4. /\ stack' = SubSeq(stack, 1, at - 1)
      /\ on_stack' = on_stack \ component
      /\ components' = Append(components, component)
  BY DEF ReturnRoot
<1> HIDE DEF at
<1>5. stack \in Seq(Node) /\ Len(stack) \in Nat /\ at \in Nat /\ at - 1 \in 0 .. Len(stack)
  BY <1>0, <1>3 DEF TypeInv
<1>6. /\ stack' \in Seq(Node) /\ Len(stack') = at - 1
      /\ \A i \in 1 .. (at - 1) : stack'[i] = stack[i]
  BY <1>4, <1>5, PrefixOf
\* The order of the stack decides on which side of the position a node is.
<1>7. \A i \in 1 .. Len(stack) : /\ stack[i] \in on_stack
                                 /\ i < at => indices[stack[i]] < indices[w]
                                 /\ at <= i => indices[w] <= indices[stack[i]]
  <2> SUFFICES ASSUME NEW i \in 1 .. Len(stack)
               PROVE  /\ stack[i] \in on_stack
                      /\ i < at => indices[stack[i]] < indices[w]
                      /\ at <= i => indices[w] <= indices[stack[i]]
    OBVIOUS
  <2>1. stack[i] \in on_stack
    BY <1>0 DEF TypeInv
  <2>2. i < at => indices[stack[i]] < indices[stack[at]]
    BY <1>0, <1>3 DEF StackInv
  <2>3. at < i => indices[stack[at]] < indices[stack[i]]
    BY <1>0, <1>3 DEF StackInv
  <2> QED
    BY <1>1, <1>3, <1>5, <2>1, <2>2, <2>3
<1>8. \A m \in on_stack : \E i \in 1 .. Len(stack) : m = stack[i]
  BY <1>0 DEF TypeInv
<1>9. component = Popped(w)
  <2>1. ASSUME NEW i \in at .. Len(stack) PROVE stack[i] \in Popped(w)
    BY <1>5, <1>7 DEF Popped
  <2>2. ASSUME NEW m \in Popped(w) PROVE m \in component
    <3>1. PICK i \in 1 .. Len(stack) : m = stack[i]
      BY <1>8 DEF Popped
    <3>2. at <= i
      BY <1>1, <1>5, <1>7, <3>1 DEF Popped
    <3> QED
      BY <1>5, <3>1, <3>2
  <2> QED
    BY <2>1, <2>2
<1> HIDE DEF component
<1>10. on_stack' = {m \in on_stack : indices[m] < indices[w]}
  BY <1>1, <1>4, <1>9 DEF Popped
<1>11. on_stack' = {stack'[i] : i \in 1 .. Len(stack')}
  <2>1. ASSUME NEW i \in 1 .. Len(stack') PROVE stack'[i] \in on_stack'
    BY <1>5, <1>6, <1>7, <1>10
  <2>2. ASSUME NEW m \in on_stack' PROVE \E i \in 1 .. Len(stack') : m = stack'[i]
    <3>1. PICK i \in 1 .. Len(stack) : m = stack[i]
      BY <1>8, <1>10
    <3>2. i < at
      BY <1>1, <1>5, <1>7, <1>10, <3>1
    <3> QED
      BY <1>5, <1>6, <3>1, <3>2
  <2> QED
    BY <2>1, <2>2
<1>12. \A i, j \in 1 .. Len(stack') : i < j => indices[stack'[i]] < indices[stack'[j]]
  <2>1. \A i \in 1 .. Len(stack') : i \in 1 .. Len(stack) /\ stack'[i] = stack[i]
    BY <1>5, <1>6
  <2> QED
    BY <1>0, <2>1 DEF StackInv
<1>13. low_links' = low_links
  <2> DEFINE D == Len(frames)
  <2>1. CASE D = 1
    BY <2>1 DEF ReturnRoot, Resume
  <2>2. CASE D # 1
    <3> DEFINE u == frames[D - 1].node
    <3>1. low_links' = [low_links EXCEPT ![u] = LowerOf(low_links[u], low_links[w])]
      BY <2>2 DEF ReturnRoot, Resume
    <3>2. D \in Nat /\ D \in Calls /\ D - 1 \in Calls /\ w = frames[D].node
      <4>1. Visiting
        BY DEF ReturnRoot
      <4>2. D \in Nat /\ D \in Calls
        BY <1>0, <4>1, CallTypes
      <4>3. w = frames[D].node
        BY DEF Frame
      <4> HIDE DEF D
      <4>4. Calls = 1 .. D
        BY DEF Calls, D
      <4>5. D - 1 \in Calls
        BY <2>2, <4>2, <4>4
      <4> QED
        BY <4>2, <4>3, <4>5
    <3>3. u \in Active /\ u \in on_stack
      BY <1>1, <3>2 DEF Active
    <3>4. low_links[u] <= indices[u] /\ indices[u] < indices[w]
      BY <1>0, <3>2, <3>3 DEF LinkInv, CallInv
    <3> HIDE DEF u
    <3>5. LowerOf(low_links[u], low_links[w]) = low_links[u]
      BY <1>1, <1>2, <3>3, <3>4 DEF LowerOf
    <3>6. low_links \in [Node -> Nat] /\ u \in Node
      BY <1>0, <1>1, <3>3 DEF TypeInv
    <3> QED
      BY <3>1, <3>5, <3>6
  <2> QED
    BY <2>1, <2>2
<1> QED
  BY <1>1, <1>2, <1>4, <1>6, <1>9, <1>10, <1>11, <1>12, <1>13

\* What a root pops reaches it and is reached by it, and uses nothing else that has
\* not been reported.  A node that did not reach the root would have a link to one
\* of lower index that does not either, so there is no first one.
LEMMA PoppedIsClass ==
    ASSUME GraphOK, TarjanInv, ReturnRoot, NEW w, w = Frame.node
    PROVE  \A n \in Popped(w) :
             /\ Reaches(w, n) /\ Reaches(n, w)
             /\ adjacency[n] \subseteq Reported \cup Popped(w)
<1> DEFINE D == Len(frames)
<1>0. /\ TypeInv /\ CountInv /\ StackInv /\ CallInv /\ SeenInv /\ LinkInv /\ LookedInv /\ BoundInv
      /\ w \in on_stack /\ low_links[w] = indices[w]
  BY RootFacts DEF TarjanInv
<1>1. D \in Nat /\ D \in Calls /\ Calls = 1 .. D /\ w = frames[D].node /\ frames[D].left = {}
  <2>1. Visiting /\ Frame.left = {} /\ Frame = frames[D]
    BY DEF ReturnRoot, Frame
  <2> QED
    BY <1>0, <2>1, CallTypes DEF Calls
<1>2. /\ Active \subseteq on_stack /\ on_stack \subseteq Visited /\ on_stack \subseteq Node
      /\ \A n \in on_stack : indices[n] \in Nat /\ low_links[n] \in Nat
      /\ \A i \in Calls : frames[i].node \in Active
  <2>1. Active \subseteq on_stack /\ on_stack \subseteq Visited /\ on_stack \subseteq Node
    BY <1>0, StackTypes DEF CallInv
  <2>2. \A n \in on_stack : indices[n] \in Nat /\ low_links[n] \in Nat
    BY <1>0, <2>1, StackTypes DEF TypeInv
  <2> QED
    BY <2>1, <2>2 DEF Active
<1>3. w \in Active
  BY <1>1, <1>2
<1> HIDE DEF D
\* No call runs above the innermost one.
<1>4. \A i \in Calls : frames[i].node \in Popped(w) => i = D
  <2> SUFFICES ASSUME NEW i \in Calls, frames[i].node \in Popped(w), i # D PROVE FALSE
    OBVIOUS
  <2>1. i < D /\ frames[i].node \in on_stack
    BY <1>1, <1>2
  <2>2. indices[frames[i].node] < indices[w]
    BY <1>0, <1>1, <2>1 DEF CallInv
  <2> QED
    BY <1>0, <1>2, <2>1, <2>2 DEF Popped
<1>5. \A n \in Popped(w) : n # w => n \notin Active /\ indices[w] < indices[n]
  <2> SUFFICES ASSUME NEW n \in Popped(w), n # w
               PROVE  n \notin Active /\ indices[w] < indices[n]
    OBVIOUS
  <2>1. n \notin Active
    <3> SUFFICES ASSUME NEW i \in Calls, frames[i].node = n PROVE FALSE
      BY DEF Active
    <3> QED
      BY <1>1, <1>4
  <2>2. indices[n] # indices[w]
    BY <1>0, StackInjective DEF Popped
  <2> QED
    BY <1>0, <1>2, <2>1, <2>2 DEF Popped
<1>6. \A n \in Popped(w) : indices[w] <= low_links[n]
  <2> SUFFICES ASSUME NEW n \in Popped(w) PROVE indices[w] <= low_links[n]
    OBVIOUS
  <2>1. CASE n = w
    BY <1>0, <1>2, <2>1
  <2>2. CASE n # w
    <3>1. n \in on_stack \ Active /\ indices[frames[D].node] < indices[n]
      BY <1>1, <1>5, <2>2 DEF Popped
    <3>2. ~ \E j \in Calls : D < j
      BY <1>1
    <3>3. low_links[frames[D].node] <= low_links[n]
      BY <1>0, <1>1, <3>1, <3>2 DEF BoundInv
    <3> QED
      BY <1>0, <1>1, <3>3
  <2> QED
    BY <2>1, <2>2
<1>7. \A n \in Popped(w) : Reaches(w, n)
  BY <1>0, <1>3 DEF CallInv, Popped
<1>8. \A n \in Popped(w) : Reaches(n, w)
  <2> DEFINE Stray == {n \in Popped(w) : ~Reaches(n, w)}
             Indices == {indices[n] : n \in Stray}
  <2> SUFFICES ASSUME Stray # {} PROVE FALSE
    OBVIOUS
  <2>1. Indices \subseteq Nat /\ Indices # {}
    BY <1>2 DEF Popped
  <2>2. PICK i \in Indices : \A j \in Indices : i <= j
    <3> HIDE DEF Indices
    <3> QED
      BY <2>1, LeastExists
  <2>3. PICK n \in Stray : indices[n] = i
    OBVIOUS
  <2>4. n # w /\ n \in on_stack
    BY ReachesItself DEF Popped
  <2>5. low_links[n] < indices[n]
    BY <1>0, <1>5, <2>4 DEF LinkInv
  <2>6. PICK m \in on_stack : indices[m] = low_links[n] /\ Reaches(n, m)
    BY <1>0, <2>4 DEF LinkInv
  <2>7. m \in Popped(w)
    BY <1>6, <2>6 DEF Popped
  <2>8. m \in Stray
    BY <2>3, <2>6, <2>7, ReachesOn
  <2>9. indices[n] <= indices[m]
    BY <2>2, <2>3, <2>8
  <2> QED
    BY <1>2, <2>4, <2>5, <2>6, <2>9
<1>9. \A n \in Popped(w) : adjacency[n] \subseteq Reported \cup Popped(w)
  <2> SUFFICES ASSUME NEW n \in Popped(w), NEW d \in adjacency[n], d \notin Reported
               PROVE  d \in Popped(w)
    OBVIOUS
  <2>1. n \in on_stack /\ n \in Visited
    BY <1>2 DEF Popped
  <2>2. d \in Visited
    <3>1. CASE n = w
      BY <1>0, <1>1, <3>1 DEF SeenInv
    <3>2. CASE n # w
      BY <1>0, <1>5, <2>1, <3>2 DEF SeenInv
    <3> QED
      BY <3>1, <3>2
  <2>3. d \in on_stack
    BY <1>0, <2>2 DEF StackInv
  <2>4. Looked(n, d)
    <3> SUFFICES ASSUME NEW i \in Calls, frames[i].node = n
                 PROVE  d \notin frames[i].left /\ ~ (i < Len(frames))
      BY DEF Looked
    <3>1. i = D
      BY <1>4
    <3> QED
      BY <1>1, <3>1 DEF D
  <2>5. low_links[n] <= indices[d]
    BY <1>0, <2>1, <2>3, <2>4 DEF LookedInv
  <2>6. indices[w] <= low_links[n]
    BY <1>6
  <2> QED
    BY <1>0, <1>2, <2>1, <2>3, <2>5, <2>6 DEF Popped
<1> QED
  BY <1>7, <1>8, <1>9

LEMMA ReturnRootTarjan == GraphOK /\ TarjanInv /\ ReturnRoot => TarjanInv'
<1> SUFFICES ASSUME GraphOK, TarjanInv, ReturnRoot PROVE TarjanInv'
  OBVIOUS
<1> DEFINE D == Len(frames)
<1>0. PICK w \in Active :
        /\ D \in Calls /\ D \in Nat /\ Calls = 1 .. D
        /\ w = frames[D].node /\ Frame.node = w
        /\ frames' \in Seq(Call) /\ Len(frames') = D - 1
        /\ Calls' = 1 .. (D - 1)
        /\ \A i \in Calls' : frames'[i] = frames[i]
        /\ Active' = Active \ {w}
        /\ \A i \in Calls' : indices[frames[i].node] < indices[w]
  BY LeaveFacts DEF ReturnRoot
<1>1. TypeInv /\ CountInv /\ StackInv /\ CallInv /\ LinkInv /\ LookedInv
      /\ BoundInv /\ ComponentInv
  BY DEF TarjanInv
<1>2. UNCHANGED <<adjacency, next_index, indices, low_links>>
  BY <1>0, RootFacts DEF ReturnRoot
<1>3. /\ w \in on_stack
      /\ components' = Append(components, Popped(w))
      /\ on_stack' = {m \in on_stack : indices[m] < indices[w]}
      /\ stack' \in Seq(Node)
      /\ on_stack' = {stack'[i] : i \in 1 .. Len(stack')}
      /\ \A i, j \in 1 .. Len(stack') : i < j => indices[stack'[i]] < indices[stack'[j]]
  BY <1>0, RootFacts
<1>4. /\ on_stack \subseteq Node /\ Active \subseteq on_stack
      /\ \A n \in on_stack : indices[n] \in Nat /\ low_links[n] \in Nat
      /\ \A i \in Calls : frames[i].node \in Active /\ frames[i].node \in on_stack
  <2>1. on_stack \subseteq Node /\ Active \subseteq on_stack
    BY <1>1, StackTypes DEF CallInv
  <2>2. \A n \in on_stack : indices[n] \in Nat /\ low_links[n] \in Nat
    BY <1>1, <2>1, StackTypes DEF TypeInv
  <2> QED
    BY <2>1, <2>2 DEF Active
<1>5. (\A n, m : Reaches(n, m)' = Reaches(n, m)) /\ Visited' = Visited
  BY <1>2, SameReach DEF Visited, Unvisited
<1>6. Popped(w) \subseteq on_stack /\ on_stack = on_stack' \cup Popped(w)
      /\ on_stack' \cap Popped(w) = {} /\ w \in Popped(w)
  BY <1>3, <1>4 DEF Popped
<1>7. /\ components \in Seq(SUBSET Node) /\ Len(components) \in Nat
      /\ components' \in Seq(SUBSET Node) /\ Len(components') = Len(components) + 1
      /\ \A i \in 1 .. Len(components) : components'[i] = components[i]
      /\ components'[Len(components) + 1] = Popped(w)
  <2>1. components \in Seq(SUBSET Node) /\ Popped(w) \in SUBSET Node
    BY <1>1, <1>4, <1>6 DEF TypeInv
  <2> QED
    BY <1>3, <2>1
<1>8. Reported' = Reported \cup Popped(w)
  <2>1. Reported' = UNION {components'[i] : i \in 1 .. (Len(components) + 1)}
    BY <1>7 DEF Reported
  <2>2. ASSUME NEW x \in Reported' PROVE x \in Reported \cup Popped(w)
    <3> PICK i \in 1 .. (Len(components) + 1) : x \in components'[i]
      BY <2>1
    <3>1. CASE i = Len(components) + 1
      BY <1>7, <3>1
    <3>2. CASE i \in 1 .. Len(components)
      BY <1>7, <3>2 DEF Reported
    <3> QED
      BY <1>7, <3>1, <3>2
  <2>3. ASSUME NEW x \in Reported PROVE x \in Reported'
    <3> PICK i \in 1 .. Len(components) : x \in components[i]
      BY DEF Reported
    <3> QED
      BY <1>7, <2>1
  <2>4. Popped(w) \subseteq Reported'
    BY <1>7, <2>1
  <2> QED
    BY <2>2, <2>3, <2>4
<1>9. TypeInv'
  BY <1>0, <1>1, <1>2, <1>3, <1>7 DEF TypeInv, Call
<1>10. CountInv'
  BY <1>1, <1>2, <1>5 DEF CountInv
<1>11. StackInv'
  <2>1. on_stack' \cup Reported' = Visited'
    BY <1>1, <1>5, <1>6, <1>8 DEF StackInv
  <2>2. on_stack' \cap Reported' = {}
    BY <1>1, <1>6, <1>8 DEF StackInv
  <2>3. \A i, j \in 1 .. Len(stack') : i < j => indices'[stack'[i]] < indices'[stack'[j]]
    BY <1>2, <1>3
  <2> QED
    BY <2>1, <2>2, <2>3 DEF StackInv
<1>12. SeenInv' /\ \A i, j \in Calls' : i < j =>
                     indices'[frames'[i].node] < indices'[frames'[j].node]
  BY <1>2, LeaveCalls DEF ReturnRoot
<1>13. \A i \in Calls' : frames[i].node \in on_stack' /\ i \in Calls
  BY <1>0, <1>3, <1>4
<1>14. Active' \subseteq on_stack'
  BY <1>0, <1>13 DEF Active
<1>15. CallInv'
  <2>1. ASSUME NEW n \in on_stack'
        PROVE  Visiting' /\ indices[frames'[1].node] <= indices[n]
    <3>1. indices[frames[1].node] <= indices[n] /\ indices[n] < indices[w]
      BY <1>1, <1>3 DEF CallInv
    <3>2. D # 1
      <4> SUFFICES ASSUME D = 1 PROVE FALSE
        OBVIOUS
      <4>1. w = frames[1].node
        BY <1>0
      <4>2. n \in on_stack
        BY <1>6
      <4> QED
        BY <1>3, <1>4, <3>1, <4>1, <4>2
    <3>3. 1 \in Calls' /\ Len(frames') > 0
      <4>1. D \in Nat /\ D # 0
        BY <1>0
      <4> HIDE DEF D
      <4> QED
        BY <1>0, <3>2, <4>1
    <3>4. Visiting'
      BY <1>0, <3>3 DEF Visiting
    <3> QED
      BY <1>0, <3>1, <3>3, <3>4
  <2>2. \A c \in Active' : \A n \in on_stack' : indices[c] <= indices[n] => Reaches(c, n)
    BY <1>0, <1>1, <1>6 DEF CallInv
  <2> QED
    BY <1>2, <1>5, <1>12, <1>14, <2>1, <2>2 DEF CallInv
<1>16. LinkInv'
  <2> SUFFICES ASSUME NEW n \in on_stack'
               PROVE  /\ low_links[n] <= indices[n]
                      /\ n \notin Active' => low_links[n] < indices[n]
                      /\ \E m \in on_stack' : indices[m] = low_links[n] /\ Reaches(n, m)
    BY <1>2, <1>5 DEF LinkInv
  <2>1. n \in on_stack /\ indices[n] < indices[w] /\ n # w
    BY <1>3, <1>4
  <2>2. low_links[n] <= indices[n] /\ (n \notin Active' => low_links[n] < indices[n])
    BY <1>0, <1>1, <2>1 DEF LinkInv
  <2>3. PICK m \in on_stack : indices[m] = low_links[n] /\ Reaches(n, m)
    BY <1>1, <2>1 DEF LinkInv
  <2>4. m \in on_stack'
    BY <1>3, <1>4, <2>1, <2>2, <2>3
  <2> QED
    BY <2>2, <2>3, <2>4
<1>17. LookedInv'
  <2> SUFFICES ASSUME NEW n \in on_stack', NEW d \in on_stack', d \in adjacency[n], Looked(n, d)'
               PROVE  low_links[n] <= indices[d]
    BY <1>2 DEF LookedInv
  <2>1. n \in on_stack /\ d \in on_stack /\ n # w /\ d # w
    BY <1>3, <1>4
  <2>2. Looked(n, d)
    <3> SUFFICES ASSUME NEW i \in Calls, frames[i].node = n
                 PROVE  d \notin frames[i].left /\ (i < Len(frames) => d # frames[i + 1].node)
      BY DEF Looked
    <3>1. i # D
      BY <1>0, <2>1
    <3>2. i \in Calls' /\ frames'[i] = frames[i]
      BY <1>0, <3>1
    <3>3. d \notin frames[i].left
      BY <3>2 DEF Looked
    <3>4. CASE i = D - 1
      BY <1>0, <2>1, <3>3, <3>4
    <3>5. CASE i # D - 1
      <4>1. i + 1 \in Calls' /\ i < Len(frames') /\ frames'[i + 1] = frames[i + 1]
        BY <1>0, <3>1, <3>5
      <4> QED
        BY <3>2, <3>3, <4>1 DEF Looked
    <3> QED
      BY <3>4, <3>5
  <2> QED
    BY <1>1, <2>1, <2>2 DEF LookedInv
<1>18. BoundInv'
  <2> SUFFICES ASSUME NEW i \in Calls', NEW n \in on_stack' \ Active',
                      indices[frames[i].node] < indices[n]
               PROVE  \/ low_links[frames[i].node] <= low_links[n]
                      \/ \E j \in Calls' : i < j /\ indices[frames[j].node] < indices[n]
    <3>1. \A j \in Calls' : frames'[j] = frames[j]
      BY <1>0
    <3> QED
      BY <1>2, <3>1 DEF BoundInv
  <2>1. n \in on_stack \ Active /\ indices[n] < indices[w]
    BY <1>0, <1>3, <1>4
  <2>2. \/ low_links[frames[i].node] <= low_links[n]
        \/ \E j \in Calls : i < j /\ indices[frames[j].node] < indices[n]
    BY <1>1, <1>13, <2>1 DEF BoundInv
  <2>3. \A j \in Calls : indices[frames[j].node] < indices[n] => j \in Calls'
    <3> SUFFICES ASSUME NEW j \in Calls, indices[frames[j].node] < indices[n] PROVE j \in Calls'
      OBVIOUS
    <3>1. j # D
      BY <1>0, <1>3, <1>4, <2>1
    <3> HIDE DEF D
    <3> QED
      BY <1>0, <3>1
  <2> QED
    BY <2>2, <2>3
<1>19. \A n \in Popped(w) : /\ Reaches(w, n) /\ Reaches(n, w)
                            /\ adjacency[n] \subseteq Reported'
  BY <1>0, <1>8, PoppedIsClass
<1>20. ComponentInv'
  <2> DEFINE K == Len(components)
  <2>1. 1 .. Len(components') = 1 .. (K + 1) /\ K \in Nat
    BY <1>7
  <2>2. \A i \in 1 .. Len(components') : i \in 1 .. K \/ i = K + 1
    BY <2>1
  <2>3. \A i \in 1 .. K : components'[i] = components[i] /\ components[i] \subseteq Reported
    BY <1>7 DEF Reported
  <2>4. components'[K + 1] = Popped(w) /\ Popped(w) \cap Reported = {}
    BY <1>1, <1>6, <1>7 DEF StackInv
  <2> HIDE DEF K
  <2>5. \A i \in 1 .. Len(components') : components'[i] # {}
    BY <1>1, <1>6, <2>2, <2>3, <2>4 DEF ComponentInv, K
  <2>6. \A i, j \in 1 .. Len(components') : i # j => components'[i] \cap components'[j] = {}
    <3> SUFFICES ASSUME NEW i \in 1 .. Len(components'), NEW j \in 1 .. Len(components'), i # j
                 PROVE  components'[i] \cap components'[j] = {}
      OBVIOUS
    <3>1. CASE i \in 1 .. K /\ j \in 1 .. K
      BY <1>1, <2>3, <3>1 DEF ComponentInv, K
    <3>2. CASE i = K + 1 /\ j \in 1 .. K
      BY <2>3, <2>4, <3>2
    <3>3. CASE i \in 1 .. K /\ j = K + 1
      BY <2>3, <2>4, <3>3
    <3> QED
      BY <2>2, <3>1, <3>2, <3>3
  <2>7. \A i \in 1 .. Len(components') : \A n, m \in components'[i] : Reaches(n, m)
    <3> SUFFICES ASSUME NEW i \in 1 .. Len(components'),
                        NEW n \in components'[i], NEW m \in components'[i]
                 PROVE  Reaches(n, m)
      OBVIOUS
    <3>1. CASE i \in 1 .. K
      BY <1>1, <2>3, <3>1 DEF ComponentInv, K
    <3>2. CASE i = K + 1
      BY <1>19, <2>4, <3>2, ReachesOn
    <3> QED
      BY <2>2, <3>1, <3>2
  <2>8. ASSUME NEW i \in 1 .. Len(components'), NEW n \in components'[i]
        PROVE  adjacency[n] \subseteq UNION {components'[j] : j \in 1 .. i}
    <3>1. CASE i \in 1 .. K
      <4>1. adjacency[n] \subseteq UNION {components[j] : j \in 1 .. i}
        BY <1>1, <2>3, <3>1 DEF ComponentInv, DependenciesReportedFirst, K
      <4>2. \A j \in 1 .. i : components'[j] = components[j]
        BY <2>1, <2>3, <3>1
      <4> QED
        BY <4>1, <4>2
    <3>2. CASE i = K + 1
      <4>1. adjacency[n] \subseteq Reported'
        BY <1>19, <2>4, <3>2
      <4>2. Reported' = UNION {components'[j] : j \in 1 .. i}
        BY <2>1, <3>2 DEF Reported
      <4> QED
        BY <4>1, <4>2
    <3> QED
      BY <2>2, <3>1, <3>2
  <2>9. DependenciesReportedFirst'
    BY <1>2, <2>8 DEF DependenciesReportedFirst
  <2> QED
    BY <1>5, <2>5, <2>6, <2>7, <2>9 DEF ComponentInv
<1> QED
  BY <1>9, <1>10, <1>11, <1>12, <1>15, <1>16, <1>17, <1>18, <1>20 DEF TarjanInv

LEMMA StutterTarjan == TarjanInv /\ UNCHANGED vars => TarjanInv'
<1> SUFFICES ASSUME TarjanInv, UNCHANGED vars PROVE TarjanInv'
  OBVIOUS
<1>1. UNCHANGED <<adjacency, next_index, indices, low_links, stack, on_stack, components, frames>>
  BY DEF vars
<1>2. /\ Visited' = Visited /\ Reported' = Reported /\ Calls' = Calls /\ Active' = Active
      /\ \A n, m : Reaches(n, m)' = Reaches(n, m)
      /\ \A n, d : Looked(n, d)' = Looked(n, d)
  BY <1>1, SameReach DEF Visited, Unvisited, Reported, Calls, Active, Looked
<1>3. TypeInv' /\ CountInv' /\ StackInv'
  BY <1>1, <1>2 DEF TarjanInv, TypeInv, CountInv, StackInv
<1>4. CallInv' /\ SeenInv' /\ LinkInv' /\ LookedInv'
  BY <1>1, <1>2 DEF TarjanInv, CallInv, SeenInv, LinkInv, LookedInv, Visiting
<1>5. BoundInv' /\ ComponentInv'
  BY <1>1, <1>2 DEF TarjanInv, BoundInv, ComponentInv, DependenciesReportedFirst
<1> QED
  BY <1>3, <1>4, <1>5 DEF TarjanInv

LEMMA StepTarjan == GraphOK /\ TarjanInv /\ [Next]_vars => TarjanInv'
<1> SUFFICES ASSUME GraphOK, TarjanInv, [Next]_vars PROVE TarjanInv'
  OBVIOUS
<1>1. CASE VisitRoot
  BY <1>1, VisitRootPushes, PushTarjan
<1>2. CASE Descend
  BY <1>2, DescendPushes, PushTarjan
<1>3. CASE Look
  BY <1>3, LookTarjan
<1>4. CASE ReturnInner
  BY <1>4, ReturnInnerTarjan
<1>5. CASE ReturnRoot
  BY <1>5, ReturnRootTarjan
<1>6. CASE UNCHANGED vars
  BY <1>6, StutterTarjan
<1> QED
  BY <1>1, <1>2, <1>3, <1>4, <1>5, <1>6 DEF Next

THEOREM Invariance ==
    ASSUME GraphOK
    PROVE  Spec => []TarjanInv
<1>1. Init => TarjanInv
  BY InitTarjan
<1>2. TarjanInv /\ [Next]_vars => TarjanInv'
  BY StepTarjan
<1> QED
  BY <1>1, <1>2, PTL DEF Spec

-----------------------------------------------------------------------------
\* What the invariant says of the components.

\* What the first components hold together.
Level(i) == UNION {components[j] : j \in 1 .. i}

\* A node reaches only what was reported before its component or with it.
LEMMA ReachesDown ==
    ASSUME TarjanInv, NEW i \in 1 .. Len(components), NEW n \in components[i],
           NEW m, Reaches(n, m)
    PROVE  \E j \in 1 .. i : m \in components[j]
<1>1. Len(components) \in Nat /\ \A j \in 1 .. Len(components) : components[j] \subseteq Node
  BY DEF TarjanInv, TypeInv
<1>2. 1 .. i \subseteq 1 .. Len(components) /\ i \in 1 .. i
  BY <1>1
<1>3. Level(i) \subseteq Node /\ n \in Level(i)
  BY <1>1, <1>2 DEF Level
<1>4. ASSUME NEW k \in Level(i) PROVE adjacency[k] \subseteq Level(i)
  <2> PICK j \in 1 .. i : k \in components[j]
    BY DEF Level
  <2>1. adjacency[k] \subseteq Level(j)
    BY <1>2 DEF TarjanInv, ComponentInv, DependenciesReportedFirst, Level
  <2>2. 1 .. j \subseteq 1 .. i
    BY <1>1
  <2> QED
    BY <2>1, <2>2 DEF Level
<1>5. m \in Level(i)
  BY <1>3, <1>4 DEF Reaches
<1> QED
  BY <1>5 DEF Level

\* A component is the class of each of its nodes.
LEMMA ComponentIsClass ==
    ASSUME TarjanInv, NEW i \in 1 .. Len(components), NEW n \in components[i]
    PROVE  components[i] = {m \in Node : Reaches(n, m) /\ Reaches(m, n)}
<1>1. components[i] \subseteq Node /\ Len(components) \in Nat
  BY DEF TarjanInv, TypeInv
<1>2. \A m \in components[i] : Reaches(n, m) /\ Reaches(m, n)
  BY DEF TarjanInv, ComponentInv
<1>3. ASSUME NEW m \in Node, Reaches(n, m), Reaches(m, n) PROVE m \in components[i]
  <2>1. PICK j \in 1 .. i : m \in components[j]
    BY <1>3, ReachesDown
  <2>2. j \in 1 .. Len(components)
    BY <1>1
  <2>3. PICK k \in 1 .. j : n \in components[k]
    BY <1>3, <2>1, <2>2, ReachesDown
  <2>4. k \in 1 .. Len(components)
    BY <1>1, <2>2
  <2>5. k = i
    BY <2>3, <2>4 DEF TarjanInv, ComponentInv
  <2>6. j = i
    BY <1>1, <2>5
  <2> QED
    BY <2>1, <2>6
<1> QED
  BY <1>1, <1>2, <1>3

\* When no call is left, every node has been reported.
LEMMA DoneReportsAll == TarjanInv /\ Done => Reported = Node
<1> SUFFICES ASSUME TarjanInv, Done PROVE Reported = Node
  OBVIOUS
<1>1. on_stack = {}
  BY DEF TarjanInv, CallInv, Done
<1>2. Visited = Node
  BY DEF Visited, Done
<1> QED
  BY <1>1, <1>2 DEF TarjanInv, StackInv

\* No component is reported twice.
LEMMA ComponentsDiffer ==
    TarjanInv => Len(components) = Cardinality({components[i] : i \in 1 .. Len(components)})
<1> SUFFICES ASSUME TarjanInv
             PROVE  Len(components) = Cardinality({components[i] : i \in 1 .. Len(components)})
  OBVIOUS
<1> DEFINE K == Len(components)
           all == {components[i] : i \in 1 .. K}
           f == [i \in 1 .. K |-> components[i]]
<1>1. K \in Nat
  BY DEF TarjanInv, TypeInv
<1>2. \A i, j \in 1 .. K : components[i] = components[j] => i = j
  BY DEF TarjanInv, ComponentInv
<1>3. f \in Bijection(1 .. K, all)
  <2>1. f \in Surjection(1 .. K, all)
    BY DEF Surjection
  <2>2. f \in Injection(1 .. K, all)
    BY <1>2 DEF Injection, IsInjective
  <2> QED
    BY <2>1, <2>2 DEF Bijection
<1> HIDE DEF f, K, all
<1>4. Cardinality(all) = K
  BY <1>1, <1>3, FS_CountingElements DEF ExistsBijection
<1> QED
  BY <1>4 DEF K, all

LEMMA TypeFollows == GraphOK /\ TarjanInv => TypeOK
<1> SUFFICES ASSUME GraphOK, TarjanInv PROVE TypeOK
  OBVIOUS
<1>1. TypeInv /\ CountInv /\ Visited \subseteq Node
  BY DEF TarjanInv, Visited
<1>2. /\ Cardinality(Node) \in Nat /\ Cardinality(Visited) <= Cardinality(Node)
      /\ Cardinality(Visited) \in Nat
  BY <1>1, FS_Subset, FS_CardinalityType DEF GraphOK
<1>3. next_index \in 0 .. Cardinality(Node)
  BY <1>1, <1>2 DEF CountInv
<1>4. ASSUME NEW n \in Node PROVE indices[n] \in {None} \cup 0 .. (Cardinality(Node) - 1)
  <2>1. CASE n \in Visited
    <3>1. indices[n] \in Nat
      BY <1>1, <2>1 DEF TypeInv, Visited, Unvisited
    <3>2. indices[n] < next_index
      BY <1>1, <2>1 DEF CountInv
    <3> QED
      BY <1>2, <1>3, <3>1, <3>2
  <2>2. CASE n \notin Visited
    BY <2>2 DEF Visited, Unvisited
  <2> QED
    BY <2>1, <2>2
<1>5. \A n \in Node : low_links[n] \in 0 .. Cardinality(Node)
  BY <1>1, <1>2, <1>3 DEF TypeInv, CountInv
<1> QED
  BY <1>1, <1>3, <1>4, <1>5 DEF TypeInv, TypeOK

LEMMA OrderFollows == GraphOK /\ TarjanInv => ComponentsInOrder
<1> SUFFICES ASSUME GraphOK, TarjanInv PROVE ComponentsInOrder
  OBVIOUS
<1>1. TypeOK /\ DependenciesReportedFirst
  BY TypeFollows DEF TarjanInv, ComponentInv
<1>2. ComponentsAreClasses
  BY DoneReportsAll, ComponentIsClass, ComponentsDiffer DEF ComponentsAreClasses, Reported
<1> QED
  BY <1>1, <1>2 DEF ComponentsInOrder

\* A node of a component with others uses one of the component: the first step of
\* its way to another one leads to a node that comes back.
LEMMA UsesItsOwn ==
    ASSUME TarjanInv, NEW i \in 1 .. Len(components),
           NEW n \in components[i], NEW m \in components[i], n # m
    PROVE  adjacency[n] \cap components[i] # {}
<1> DEFINE K == {k \in Node : k = n \/ \E d \in adjacency[n] : Reaches(d, k)}
<1>1. components[i] = {k \in Node : Reaches(n, k) /\ Reaches(k, n)} /\ n \in Node
  BY ComponentIsClass DEF TarjanInv, TypeInv
<1>2. \A k \in Node : adjacency[k] \subseteq Node
  BY DEF TarjanInv, TypeInv
<1>3. ASSUME NEW k \in K PROVE adjacency[k] \subseteq K
  <2> SUFFICES ASSUME NEW j \in adjacency[k] PROVE \E d \in adjacency[n] : Reaches(d, j)
    BY <1>2
  <2>1. CASE k = n
    BY <2>1, ReachesItself
  <2>2. CASE k # n
    <3> PICK d \in adjacency[n] : Reaches(d, k)
      BY <2>2
    <3> QED
      BY ReachesDependency, ReachesOn
  <2> QED
    BY <2>1, <2>2
<1>4. m \in K
  <2>1. Reaches(n, m) /\ n \in K /\ K \subseteq Node
    BY <1>1
  <2> HIDE DEF K
  <2> QED
    BY <1>3, <2>1 DEF Reaches
<1>5. PICK d \in adjacency[n] : Reaches(d, m)
  BY <1>4
<1>6. Reaches(n, d) /\ Reaches(d, n) /\ d \in Node
  <2>1. Reaches(m, n)
    BY <1>1
  <2> QED
    BY <1>1, <1>2, <1>5, <2>1, ReachesDependency, ReachesOn
<1> QED
  BY <1>1, <1>6

LEMMA CyclesFollow == GraphOK /\ TarjanInv => CyclesAreReported
<1> SUFFICES ASSUME GraphOK, TarjanInv, Done
             PROVE  Cycles # {} <=>
                      \E S \in (SUBSET Node) \ {{}} : \A n \in S : adjacency[n] \cap S # {}
  BY DEF CyclesAreReported
<1>0. /\ Len(components) \in Nat
      /\ \A i \in 1 .. Len(components) :
           components[i] \subseteq Node /\ components[i] # {} /\ IsFiniteSet(components[i])
  <2>1. Len(components) \in Nat /\ \A i \in 1 .. Len(components) : components[i] \subseteq Node
    BY DEF TarjanInv, TypeInv
  <2> QED
    BY <2>1, FS_Subset DEF GraphOK, TarjanInv, ComponentInv
<1>1. ASSUME Cycles # {}
      PROVE  \E S \in (SUBSET Node) \ {{}} : \A n \in S : adjacency[n] \cap S # {}
  <2>1. PICK i \in 1 .. Len(components) : \/ Cardinality(components[i]) > 1
                                          \/ \E n \in components[i] : n \in adjacency[n]
    BY <1>1 DEF Cycles
  <2>2. CASE Cardinality(components[i]) > 1
    <3>1. ASSUME NEW n \in components[i] PROVE adjacency[n] \cap components[i] # {}
      <4>1. Cardinality({n}) = 1
        BY FS_Singleton
      <4>2. components[i] # {n}
        <5>1. components[i] = {n} => Cardinality(components[i]) = Cardinality({n})
          BY Zenon
        <5>2. Cardinality(components[i]) # 1
          BY <2>2
        <5> QED
          BY <4>1, <5>1, <5>2, Zenon
      <4>3. PICK m \in components[i] : m # n
        BY <4>2
      <4> QED
        BY <4>3, UsesItsOwn
    <3> QED
      BY <1>0, <3>1
  <2>3. CASE \E n \in components[i] : n \in adjacency[n]
    <3> PICK n \in components[i] : n \in adjacency[n]
      BY <2>3
    <3>1. {n} \in (SUBSET Node) \ {{}} /\ \A k \in {n} : adjacency[k] \cap {n} # {}
      BY <1>0
    <3> QED
      BY <3>1
  <2> QED
    BY <2>1, <2>2, <2>3
<1>2. ASSUME NEW S \in (SUBSET Node) \ {{}}, \A n \in S : adjacency[n] \cap S # {}
      PROVE  Cycles # {}
  <2> DEFINE meeting == {i \in 1 .. Len(components) : components[i] \cap S # {}}
  <2>1. meeting \subseteq Nat /\ meeting # {}
    <3> PICK n \in S : TRUE
      OBVIOUS
    <3>1. PICK i \in 1 .. Len(components) : n \in components[i]
      BY DoneReportsAll DEF Reported
    <3> QED
      BY <1>0, <3>1
  <2>2. PICK i \in meeting : \A j \in meeting : i <= j
    <3> HIDE DEF meeting
    <3> QED
      BY <2>1, LeastExists
  <2>3. PICK n \in S : n \in components[i]
    OBVIOUS
  <2>4. PICK d \in S : d \in adjacency[n]
    BY <1>2
  <2>5. PICK j \in 1 .. i : d \in components[j]
    BY <2>3, <2>4 DEF TarjanInv, ComponentInv, DependenciesReportedFirst
  <2>6. j = i
    <3>1. j \in meeting
      BY <1>0, <2>5
    <3>2. i \in Nat /\ j \in Nat /\ j <= i
      BY <1>0
    <3> QED
      BY <2>2, <3>1, <3>2
  <2>7. CASE d = n
    BY <2>3, <2>4, <2>7 DEF Cycles
  <2>8. CASE d # n
    <3>1. Cardinality(components[i]) \in Nat /\ Cardinality(components[i]) # 0
          /\ Cardinality(components[i]) # 1
      BY <1>0, <2>3, <2>5, <2>6, <2>8, FS_CardinalityType, FS_EmptySet, FS_Singleton
    <3>2. Cardinality(components[i]) > 1
      BY <3>1
    <3> QED
      BY <3>2 DEF Cycles
  <2> QED
    BY <2>7, <2>8
<1> QED
  BY <1>1, <1>2

\* The recursion of visit is never deeper than there are nodes.
DepthBounded == Len(frames) <= Cardinality(Node)

LEMMA DepthFollows == GraphOK /\ TarjanInv => DepthBounded
<1> SUFFICES ASSUME GraphOK, TarjanInv PROVE DepthBounded
  OBVIOUS
<1> DEFINE f == [i \in Calls |-> frames[i].node]
<1>1. TypeInv /\ StackInv /\ CountInv /\ CallInv
  BY DEF TarjanInv
<1>2. Len(frames) \in Nat /\ \A i \in Calls : frames[i].node \in Node /\ frames[i].node \in Active
  BY <1>1, CallTypes DEF Active
<1>3. \A i \in Calls : indices[frames[i].node] \in Nat
  BY <1>1, <1>2, StackTypes DEF CallInv
<1>4. \A i, j \in Calls : frames[i].node = frames[j].node => i = j
  <2> SUFFICES ASSUME NEW i \in Calls, NEW j \in Calls, frames[i].node = frames[j].node PROVE i = j
    OBVIOUS
  <2>1. ~ (i < j) /\ ~ (j < i)
    BY <1>1, <1>3 DEF CallInv
  <2> QED
    BY <1>2, <2>1 DEF Calls
<1>5. f \in Injection(Calls, Node)
  BY <1>2, <1>4 DEF Injection, IsInjective
<1> HIDE DEF f
<1>6. Cardinality(Calls) <= Cardinality(Node)
  BY <1>5, FS_Injection DEF GraphOK
<1>7. Cardinality(Calls) = Len(frames)
  <2> DEFINE D == Len(frames)
  <2>1. D \in Nat
    BY <1>2
  <2> HIDE DEF D
  <2>2. Cardinality(1 .. D) = D
    BY <2>1, FS_Interval
  <2> QED
    BY <2>2 DEF Calls, D
<1> QED
  BY <1>6, <1>7 DEF DepthBounded

\* The components of strongly_connected_components are the classes of nodes that
\* reach each other, no class is left out or reported twice, and at every moment a
\* class is reported after the classes it uses.
THEOREM ComponentsCorrect ==
    ASSUME GraphOK
    PROVE  Spec => []ComponentsInOrder
<1>1. TarjanInv => ComponentsInOrder
  BY OrderFollows
<1> QED
  BY <1>1, Invariance, PTL

\* cycles() reports something exactly when some nodes only use each other.
THEOREM CyclesCorrect ==
    ASSUME GraphOK
    PROVE  Spec => []CyclesAreReported
<1>1. TarjanInv => CyclesAreReported
  BY CyclesFollow
<1> QED
  BY <1>1, Invariance, PTL

\* The stack that visit takes is bounded by the number of nodes.
THEOREM RecursionIsBounded ==
    ASSUME GraphOK
    PROVE  Spec => []DepthBounded
<1>1. TarjanInv => DepthBounded
  BY DepthFollows
<1> QED
  BY <1>1, Invariance, PTL
=============================================================================
