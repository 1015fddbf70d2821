---------------------------- MODULE GraphQueries ----------------------------
(***************************************************************************)
(* A call of evaluation_order with the call of cycles() it begins with:    *)
(* Tarjan's algorithm runs first, on the same graph, and Kahn's loop of    *)
(* EvaluationOrder starts or is refused when it has ended.                 *)
(***************************************************************************)
EXTENDS EvaluationOrder

VARIABLES next_index, indices, low_links, stack, on_stack, components, frames

tarjanVars == <<next_index, indices, low_links, stack, on_stack, components, frames>>

adjacency == [n \in Node |-> Dependencies(n)]

T == INSTANCE Tarjan WITH Graph <- [Node -> SUBSET Node]

QueryInit == Init /\ T!Init

FindComponents ==
    /\ ~T!Done
    /\ UNCHANGED vars
    /\ T!Next

Order ==
    /\ T!Done
    /\ Next
    /\ UNCHANGED tarjanVars

QueryNext == FindComponents \/ Order

QuerySpec == QueryInit /\ [][QueryNext]_<<vars, tarjanVars>>

-----------------------------------------------------------------------------
\* The components are the classes of nodes that reach each other, and a class is
\* reported after the classes it uses.
ComponentsInOrder == T!ComponentsInOrder

\* cycles() is empty exactly when there is an order to emit: the call refuses no
\* graph that has one, and enters the loop with none that has not.
CyclesAreReported ==
    /\ T!CyclesAreReported
    /\ T!Done => (T!Cycles # {} <=> HasCycle)
=============================================================================
