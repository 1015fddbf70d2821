----------------------------- MODULE MCPlanning -----------------------------
(***************************************************************************)
(* An instance of Planning over a small program with tunable variables a,  *)
(* b and c, the last initialised from the first, and two outputs, a        *)
(* readonly p and a tunable q.  Every value is a set of at most one        *)
(* package k, so that membership goals make sense; only q is declared as a *)
(* collection.                                                             *)
(***************************************************************************)
EXTENDS Planning, TLC

CONSTANTS a, b, c, p, q, k

Variables == {a, b, c}
Paths == {p, q}
None == {}
Some == {k}
Values == {None, Some}

Costs == (a :> 2) @@ (b :> 1) @@ (c :> 3) @@ (p :> 0) @@ (q :> 1)
Baselines == [v \in Variables |-> None]

GoalsOn(paths) ==
    [kind : {"Equals"}, path : paths, value : Values]
      \cup [kind : {"Absent"}, path : paths, value : {None}]
      \cup [kind : {"Contains", "NotContains"}, path : paths, value : {k}]

RequiredOf(g)     == [kind |-> "Required", left |-> g, right |-> g]
ImpliesOf(g, h)   == [kind |-> "Implies", left |-> g, right |-> h]
ConflictsOf(g, h) == [kind |-> "Conflicts", left |-> g, right |-> h]

Constraints ==
    LET P1 == [kind |-> "Equals", path |-> p, value |-> Some]
        Q1 == [kind |-> "Contains", path |-> q, value |-> k]
    IN  {RequiredOf(P1), RequiredOf(Q1), ImpliesOf(P1, Q1), ConflictsOf(P1, Q1)}

Requests ==
    [goals          : {G \in SUBSET GoalsOn(Paths) : Cardinality(G) <= 2},
     constraints    : {C \in SUBSET Constraints : Cardinality(C) <= 1},
     max_candidates : {0, 1, 2, 5}]

(***************************************************************************)
(* The program: a = [], b = [], c = a, p = opaque(a, b, c), q = a.  The    *)
(* opaque call returns [k] when a and c differ, which the solver does not  *)
(* know.                                                                   *)
(***************************************************************************)
Initial(v, variables) == IF v = c THEN variables[a] ELSE None

\* The assignments of the encoding: an edited variable differs from its initial
\* value, an edited output from its derived one, and everything else keeps it.
EncodedAssignments ==
    {m \in [variableEdits : SUBSET Variables,
            outputEdits   : SUBSET {q},
            variables     : [Variables -> Values],
            outputs       : [Paths -> Values \cup {Absent}]] :
        /\ \A v \in Variables :
             v \in m.variableEdits <=> m.variables[v] # Initial(v, m.variables)
        /\ m.outputs[p] # Absent
        /\ q \in m.outputEdits <=> m.outputs[q] # m.variables[a]}

\* The evaluator: overrides, then initial values, then claims.
EvaluateProgram(edits) ==
    LET overridden == edits.variables @@ [v \in {a, b} |-> None]
        variables  == overridden @@ (c :> overridden[a])
        claims     == (p :> IF variables[a] # variables[c] THEN Some ELSE None)
                        @@ (q :> variables[a])
    IN  [success |-> TRUE, outputs |-> edits.outputs @@ claims]
=============================================================================
