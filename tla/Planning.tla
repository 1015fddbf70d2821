------------------------------ MODULE Planning ------------------------------
(***************************************************************************)
(* `plan_changes`: the loop that turns a request about option values into  *)
(* a plan of edits.  The solver proposes the cheapest assignment of its    *)
(* symbolic model, the concrete evaluator re-runs the module with the      *)
(* proposed edits, and a proposal the evaluator does not confirm is        *)
(* excluded before the solver is asked again.                              *)
(*                                                                         *)
(* The solver's model is a set of assignments, each saying which variables *)
(* and outputs are edited and which value every variable and output has in *)
(* the model (an opaque call may take any value there, so several          *)
(* assignments can propose the same edits).  The evaluator is an operator  *)
(* from edits to a snapshot.  Module MCPlanning supplies both from small   *)
(* programs.  apply_solution cannot fail here: every variable of a lowered *)
(* module is a symbol of it, and every decoded constant is a value.        *)
(***************************************************************************)
EXTENDS Integers, FiniteSets, FiniteSetsExt

CONSTANTS
    Variable,          \* tunable variables of the lowered model
    Path,              \* output paths a request may name
    DeclaredPath,      \* those with a row in the model or in the schema
    CollectionPath,    \* those of type List or Set
    Value,             \* constants
    NoConstant,        \* runtime values that are no Constant (records, functions)
    Absent,            \* "no claim": the None of Option<Constant>
    Cost,              \* the soft penalty of editing a variable or an output
    CostLimit,         \* u64::MAX
    Assignment,        \* what satisfies the untracked part of the encoding
    BaselineVariable,  \* the evaluator's value of every variable, unedited
    Evaluate(_),       \* evaluate_module on the inputs a candidate gives
    AnalysisSuccess,   \* ModuleAnalysis::is_success
    Request            \* the requests considered

OutputValue == Value \cup {Absent}

\* The functions from a subset of S to T: the edits of a solution.
EditsOf(S, T) == UNION {[D -> T] : D \in SUBSET S}

NoEdits == [variables |-> <<>>, outputs |-> <<>>]

(***************************************************************************)
(* What the encoder hands to Z3 and reads back from a model of it.         *)
(***************************************************************************)
AssignmentType ==
    [variableEdits : SUBSET Variable,
     outputEdits   : SUBSET Path,
     variables     : [Variable -> Value],
     outputs       : [Path -> OutputValue]]

ASSUME AssignmentAssumption == Assignment \subseteq AssignmentType
ASSUME BaselineAssumption ==
    /\ BaselineVariable \in [Variable -> Value]
    /\ Absent \notin Value \cup Assignment
\* Goal, ExternalConstraint and PlanningRequest.
GoalKind == {"Equals", "Absent", "Contains", "NotContains"}
ConstraintKind == {"Required", "Implies", "Conflicts"}

ASSUME RequestAssumption ==
    \A r \in Request :
        /\ r.max_candidates \in Nat
        /\ \A goal \in r.goals : goal.kind \in GoalKind
        /\ \A c \in r.constraints : c.kind \in ConstraintKind

\* decode_solution: the direct edits of a model, and nothing derived from them.
Solution(a) ==
    [variables |-> [v \in a.variableEdits |-> a.variables[v]],
     outputs   |-> [p \in a.outputEdits |-> a.outputs[p]]]

TotalCost(a) ==
    MapThenSumSet(LAMBDA v : Cost[v], a.variableEdits)
      + MapThenSumSet(LAMBDA p : Cost[p], a.outputEdits)

(***************************************************************************)
(* Goals and catalog constraints, read over a valuation of the outputs.    *)
(* encode_output_predicate asks it of the model, goal_is_satisfied of a    *)
(* snapshot: a missing claim satisfies neither Contains nor NotContains.   *)
(***************************************************************************)
GoalIsSatisfied(outputs, goal) ==
    CASE goal.kind = "Equals"      -> outputs[goal.path] = goal.value
      [] goal.kind = "Absent"      -> outputs[goal.path] = Absent
      [] goal.kind = "Contains"    -> /\ outputs[goal.path] # Absent
                                      /\ goal.value \in outputs[goal.path]
      [] goal.kind = "NotContains" -> /\ outputs[goal.path] # Absent
                                      /\ goal.value \notin outputs[goal.path]

ConstraintIsSatisfied(outputs, constraint) ==
    LET Left  == GoalIsSatisfied(outputs, constraint.left)
        Right == GoalIsSatisfied(outputs, constraint.right)
    IN  CASE constraint.kind = "Required"  -> Left
          [] constraint.kind = "Implies"   -> Left => Right
          [] constraint.kind = "Conflicts" -> ~(Left /\ Right)

\* A Required constraint has one predicate: left and right are the same goal.
Predicates(request) ==
    request.goals \cup UNION {{c.left, c.right} : c \in request.constraints}

Requirement(request) == request.goals \cup request.constraints

Holds(outputs, requirement) ==
    IF requirement.kind \in ConstraintKind
    THEN ConstraintIsSatisfied(outputs, requirement)
    ELSE GoalIsSatisfied(outputs, requirement)

VARIABLES
    pc,          \* "enter", "solve", "evaluate" or "done"
    request,     \* the PlanningRequest
    exclusions,  \* excluded_candidates of the SolveRequest
    solution,    \* the assignment the last Sat answer was decoded from
    rejected,    \* rejected_candidates
    outcome,     \* the result returned
    tried        \* history: the assignments the evaluator refused

vars == <<pc, request, exclusions, solution, rejected, outcome, tried>>

Pending == [kind |-> "Pending"]

(***************************************************************************)
(* exclude_solution and encode_exclusions.  The excluded point lists every *)
(* variable with its baseline value overlaid with the edits, but only the  *)
(* outputs that were edited.  An assignment is ruled out when it differs   *)
(* from the point nowhere.                                                 *)
(***************************************************************************)
\* Mutant: the values of the edited variables are not overlaid.
ExcludeBaseline(a) ==
    [variable_values |-> BaselineVariable, output_values |-> Solution(a).outputs]

ExcludeSolution(a) ==
    LET edits == Solution(a) IN
    [variable_values |-> [v \in Variable |->
        IF v \in a.variableEdits THEN edits.variables[v] ELSE BaselineVariable[v]],
     output_values |-> edits.outputs]

\* Mutant: the differences are conjoined, so that one agreement rules out.
RuledOutByAny(a, point) ==
    \/ \E v \in Variable : a.variables[v] = point.variable_values[v]
    \/ \E p \in DOMAIN point.output_values : a.outputs[p] = point.output_values[p]

RuledOut(a, point) ==
    /\ \A v \in Variable : a.variables[v] = point.variable_values[v]
    /\ \A p \in DOMAIN point.output_values : a.outputs[p] = point.output_values[p]

Excluded(a, points) == \E point \in points : RuledOut(a, point)

\* The models of the model constraints, the given requirements and the exclusions.
Models(requirements, points) ==
    {a \in Assignment : /\ \A r \in requirements : Holds(a.outputs, r)
                        /\ ~Excluded(a, points)}

\* Mutant: the total cost is not minimised.
AnyModel(S) == S

Cheapest(S) == {a \in S : \A b \in S : TotalCost(a) <= TotalCost(b)}

(***************************************************************************)
(* The refusals before the loop, in the order the code tests them.         *)
(***************************************************************************)
Baseline == Evaluate(NoEdits)

EntryChecks(r) ==
    << [fails |-> ~AnalysisSuccess,          error |-> "AnalysisFailed"],
       [fails |-> r.goals = {},              error |-> "EmptyRequest"],
       [fails |-> r.max_candidates = 0,      error |-> "CandidateLimitReached"],
       [fails |-> ~Baseline.success,         error |-> "BaselineEvaluation"],
       [fails |-> \/ \E v \in Variable : BaselineVariable[v] \in NoConstant
                  \/ \E p \in Path : Baseline.outputs[p] \in NoConstant,
                                             error |-> "UnsupportedRuntimeValue"],
       [fails |-> \E g \in Predicates(r) : g.path \notin DeclaredPath,
                                             error |-> "UnknownOutputPath"] >>

Refused(r) == \E i \in DOMAIN EntryChecks(r) : EntryChecks(r)[i].fails

EntryError(r) ==
    LET first == CHOOSE i \in DOMAIN EntryChecks(r) :
                   /\ EntryChecks(r)[i].fails
                   /\ \A j \in 1 .. (i - 1) : ~EntryChecks(r)[j].fails
    IN  EntryChecks(r)[first].error

Error(what) == [kind |-> "Error", error |-> what]

Init ==
    /\ pc = "enter"
    /\ request \in Request
    /\ exclusions = {}
    /\ solution = Absent
    /\ rejected = 0
    /\ outcome = Pending
    /\ tried = {}

Finish(result) ==
    /\ outcome' = result
    /\ pc' = "done"

Refuse ==
    /\ pc = "enter"
    /\ Refused(request)
    /\ Finish(Error(EntryError(request)))
    /\ UNCHANGED <<request, exclusions, solution, rejected, tried>>

BuildSolveRequest ==
    /\ pc = "enter"
    /\ ~Refused(request)
    /\ pc' = "solve"
    /\ UNCHANGED <<request, exclusions, solution, rejected, outcome, tried>>

(***************************************************************************)
(* One call of solve.  A membership goal about an option that is no        *)
(* collection fails to encode; otherwise Z3 answers with a cheapest model, *)
(* with a core when there is none, or with neither when it gives up.       *)
(***************************************************************************)
Encodable ==
    \A g \in Predicates(request) :
        g.kind \in {"Contains", "NotContains"} => g.path \in CollectionPath

SolveError ==
    /\ pc = "solve"
    /\ ~Encodable
    /\ Finish(Error("Solve"))
    /\ UNCHANGED <<request, exclusions, solution, rejected, tried>>

SolveSat ==
    /\ pc = "solve"
    /\ Encodable
    /\ \E a \in Cheapest(Models(Requirement(request), exclusions)) :
         IF TotalCost(a) > CostLimit
         THEN /\ Finish(Error("Solve"))            \* IntegerCostOverflow
              /\ UNCHANGED solution
         ELSE /\ solution' = a
              /\ pc' = "evaluate"
              /\ UNCHANGED outcome
    /\ UNCHANGED <<request, exclusions, rejected, tried>>

\* Z3 promises that a core has no model together with the untracked assertions,
\* among which are the exclusions; it promises no minimal one.
SolveUnsat ==
    /\ pc = "solve"
    /\ Encodable
    /\ Models(Requirement(request), exclusions) = {}
    /\ \E core \in SUBSET Requirement(request) :
         /\ Models(core, exclusions) = {}
         /\ Finish([kind |-> "Unsatisfiable", rejected |-> rejected, conflict |-> core])
    /\ UNCHANGED <<request, exclusions, solution, rejected, tried>>

SolveUnknown ==
    /\ pc = "solve"
    /\ Encodable
    /\ Finish([kind |-> "Unknown"])
    /\ UNCHANGED <<request, exclusions, solution, rejected, tried>>

(***************************************************************************)
(* apply_solution, the concrete evaluation and its verdict.                *)
(***************************************************************************)
\* Mutant: the catalog constraints are left to the solver.
ValidGoals(a, r) ==
    LET candidate == Evaluate(Solution(a)) IN
    /\ candidate.success
    /\ \A goal \in r.goals : GoalIsSatisfied(candidate.outputs, goal)

Valid(a, r) ==
    LET candidate == Evaluate(Solution(a)) IN
    /\ candidate.success
    /\ \A goal \in r.goals : GoalIsSatisfied(candidate.outputs, goal)
    /\ \A c \in r.constraints : ConstraintIsSatisfied(candidate.outputs, c)

Accept ==
    /\ pc = "evaluate"
    /\ Valid(solution, request)
    /\ Finish([kind     |-> "Applicable",
               solution |-> Solution(solution),
               before   |-> Baseline.outputs,
               after    |-> Evaluate(Solution(solution)).outputs,
               rejected |-> rejected])
    /\ UNCHANGED <<request, exclusions, solution, rejected, tried>>

\* Mutant: the limit is compared with > instead of >=.
RejectOneTooMany ==
    /\ pc = "evaluate"
    /\ ~Valid(solution, request)
    /\ rejected' = rejected + 1
    /\ tried' = tried \cup {solution}
    /\ IF rejected' > request.max_candidates
       THEN /\ Finish(Error("CandidateLimitReached"))
            /\ UNCHANGED exclusions
       ELSE /\ exclusions' = exclusions \cup {ExcludeSolution(solution)}
            /\ pc' = "solve"
            /\ UNCHANGED outcome
    /\ UNCHANGED <<request, solution>>

\* Mutant: the limit is recorded but the loop goes on.
RejectWithoutReturn ==
    /\ pc = "evaluate"
    /\ ~Valid(solution, request)
    /\ rejected' = rejected + 1
    /\ tried' = tried \cup {solution}
    /\ exclusions' = exclusions \cup {ExcludeSolution(solution)}
    /\ pc' = "solve"
    /\ outcome' = IF rejected' >= request.max_candidates
                  THEN Error("CandidateLimitReached") ELSE outcome
    /\ UNCHANGED <<request, solution>>

Reject ==
    /\ pc = "evaluate"
    /\ ~Valid(solution, request)
    /\ rejected' = rejected + 1
    /\ tried' = tried \cup {solution}
    /\ IF rejected' >= request.max_candidates
       THEN /\ Finish(Error("CandidateLimitReached"))
            /\ UNCHANGED exclusions
       ELSE /\ exclusions' = exclusions \cup {ExcludeSolution(solution)}
            /\ pc' = "solve"
            /\ UNCHANGED outcome
    /\ UNCHANGED <<request, solution>>

Done ==
    /\ pc = "done"
    /\ UNCHANGED vars

Next ==
    \/ Refuse \/ BuildSolveRequest
    \/ SolveError \/ SolveSat \/ SolveUnsat \/ SolveUnknown
    \/ Accept \/ Reject
    \/ Done

\* plan_changes is one thread that returns from every call it makes: evaluation
\* of a module is a finite walk and Z3 stops at the latest at its timeout.
Fairness == WF_vars(Next)

Spec == Init /\ [][Next]_vars /\ Fairness

(***************************************************************************)
(* Properties.                                                             *)
(***************************************************************************)
SolutionType == [variables : EditsOf(Variable, Value), outputs : EditsOf(Path, OutputValue)]
PointType == [variable_values : [Variable -> Value],
              output_values   : EditsOf(Path, OutputValue)]

\* The states plan_changes can be in: a candidate is under evaluation only in
\* "evaluate", a result exists exactly in "done".
TypeOK ==
    /\ pc \in {"enter", "solve", "evaluate", "done"}
    /\ request \in Request
    /\ exclusions \subseteq PointType
    /\ tried \subseteq Assignment
    /\ solution \in Assignment \cup {Absent}
    /\ rejected \in Nat
    /\ (pc = "evaluate") => solution \in Assignment
    /\ (pc = "done") <=> (outcome # Pending)

\* A plan is handed out only when the module, evaluated with exactly the edits
\* of the plan, meets every goal and every catalog constraint; `after` is that
\* evaluation (planning.rs, `valid` and the ChangePlan built from it).
ApplicableIsConfirmed ==
    outcome.kind = "Applicable" =>
        LET replay == Evaluate(outcome.solution) IN
        /\ replay.success
        /\ replay.outputs = outcome.after
        /\ \A r \in Requirement(request) : Holds(outcome.after, r)

\* The number of candidates refused never passes max_candidates, the limit error
\* is raised at the limit and not before, and each pass of the loop that goes on
\* leaves at most one exclusion behind.
RejectionsBounded ==
    /\ rejected <= request.max_candidates
    /\ outcome = Error("CandidateLimitReached") => rejected = request.max_candidates
    /\ Cardinality(exclusions) <= rejected
    /\ pc \in {"solve", "evaluate"} => rejected < request.max_candidates

\* a has the variable values the edits of t give, and the outputs t edits.
AgreesWith(a, t) ==
    /\ \A v \in Variable :
         a.variables[v] = IF v \in t.variableEdits THEN t.variables[v] ELSE BaselineVariable[v]
    /\ \A p \in t.outputEdits : a.outputs[p] = t.outputs[p]

\* An answer is justified.  Whatever assignment meets the request in the solver's
\* model costs no less than the plan that is returned, or it agrees with a candidate
\* the evaluator refused, on every variable and on every output that candidate
\* edits.  In particular a first proposal that is confirmed is a cheapest change, and
\* no assignment meets the request when it is Unsatisfiable with nothing refused.
AnswersAreExplained ==
    outcome.kind \in {"Applicable", "Unsatisfiable"} =>
        \A a \in Models(Requirement(request), {}) :
            \/ /\ outcome.kind = "Applicable"
               /\ outcome.solution = Solution(solution)
               /\ TotalCost(solution) <= TotalCost(a)
            \/ \E t \in tried : ~Valid(t, request) /\ AgreesWith(a, t)

\* Proposals come in order of cost: excluding candidates never makes a cheaper
\* one appear, so the first confirmed plan is a cheapest one among those left.
ProposedInCostOrder ==
    [][(solution # Absent /\ solution' # solution)
         => TotalCost(solution) <= TotalCost(solution')]_vars

\* A binding the assignment does not edit has another value than its baseline: it is
\* initialised from one that is edited.
Drifted(a) == \E v \in Variable \ a.variableEdits : a.variables[v] # BaselineVariable[v]

\* What a refusal achieves (exclude_solution, "all tunable/input variable values are
\* included above, including unchanged ones"): the candidate is no model of the next
\* call, except when a binding follows an edited one, for whose old value the excluded
\* point was written.  Edits that were refused come again only in that case, be it in
\* another assignment of the same edits.
OnlyDriftedAgain ==
    [][ /\ (pc = "evaluate" /\ pc' = "solve") =>
             (solution \in Models(Requirement(request), exclusions') <=> Drifted(solution))
        /\ (pc = "solve" /\ pc' = "evaluate") =>
             \A t \in tried : Solution(solution') = Solution(t) => Drifted(solution') ]_vars
=============================================================================
