------------------------- MODULE MCEvaluationOrder -------------------------
(***************************************************************************)
(* Graphs on Nodes: every one of at most MaxReferences references, self    *)
(* references included; every one of three nodes; every acyclic one whose  *)
(* references run downwards, with a single reference, a single call, or    *)
(* both between two nodes; and every one whose references run upwards.     *)
(***************************************************************************)
EXTENDS GraphQueries, FiniteSetsExt

CONSTANTS NodeCount, MaxReferences

Nodes == 1 .. NodeCount
Kinds == {"Reference", "Call"}

Pairs == Nodes \X Nodes
Downwards == {pair \in Pairs : pair[1] > pair[2]}
Upwards == {pair \in Pairs : pair[1] < pair[2]}

EdgesOf(pairs, kinds) ==
    {[source |-> pair[1], target |-> pair[2], kind |-> kind] : pair \in pairs, kind \in kinds}

Few == UNION {kSubset(n, Pairs) : n \in 0 .. MaxReferences}
Three == SUBSET ((1 .. 3) \X (1 .. 3))
WithoutSelf == UNION {kSubset(n, {pair \in Pairs : pair[1] # pair[2]}) : n \in 4 .. 5}

Graphs ==
    {EdgesOf(pairs, {"Reference"}) : pairs \in Few \cup Three \cup WithoutSelf \cup SUBSET Upwards}
      \cup {EdgesOf(pairs, kinds) :
               pairs \in SUBSET Downwards, kinds \in (SUBSET Kinds) \ {{}}}
=============================================================================
