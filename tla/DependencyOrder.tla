-------------------------- MODULE DependencyOrder --------------------------
(***************************************************************************)
(* What evaluation_order promises: "dependencies before the nodes that use *)
(* them".  A node may be emitted once, as soon as everything it depends on *)
(* has been emitted; which of the eligible nodes comes first is left open. *)
(***************************************************************************)
EXTENDS Naturals, Sequences

CONSTANT Node

VARIABLES
    dependsOn,  \* the nodes each node uses; never changes
    emitted     \* the order so far

vars == <<dependsOn, emitted>>

Emitted == {emitted[i] : i \in 1 .. Len(emitted)}

Init ==
    /\ dependsOn \in [Node -> SUBSET Node]
    /\ emitted = <<>>

Emit(n) ==
    /\ n \notin Emitted
    /\ dependsOn[n] \subseteq Emitted
    /\ emitted' = Append(emitted, n)
    /\ UNCHANGED dependsOn

Next == \E n \in Node : Emit(n)

Spec == Init /\ [][Next]_vars
=============================================================================
