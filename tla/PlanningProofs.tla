--------------------------- MODULE PlanningProofs ---------------------------
(***************************************************************************)
(* Proofs about Planning, for every set of variables, paths, values,       *)
(* assignments and requests and for every evaluator.                       *)
(***************************************************************************)
EXTENDS Planning, FiniteSetTheorems, TLAPS

-----------------------------------------------------------------------------
(***************************************************************************)
(* Type correctness.                                                       *)
(***************************************************************************)

\* The point excluded for an assignment is a valuation of all variables and of
\* the outputs it edits (exclude_solution).
LEMMA ExcludeSolutionType ==
    ASSUME NEW a \in Assignment
    PROVE  ExcludeSolution(a) \in PointType
<1>1. a \in AssignmentType
  BY AssignmentAssumption
<1>2. [v \in Variable |-> IF v \in a.variableEdits
                          THEN Solution(a).variables[v] ELSE BaselineVariable[v]]
        \in [Variable -> Value]
  BY <1>1, BaselineAssumption DEF AssignmentType, Solution
<1>3. Solution(a).outputs \in EditsOf(Path, OutputValue)
  <2>1. Solution(a).outputs \in [a.outputEdits -> OutputValue]
    BY <1>1 DEF AssignmentType, Solution
  <2>2. a.outputEdits \in SUBSET Path
    BY <1>1 DEF AssignmentType
  <2> QED
    BY <2>1, <2>2 DEF EditsOf
<1> QED
  BY <1>2, <1>3 DEF ExcludeSolution, PointType

\* The states of plan_changes are well typed: TypeOK holds in every behaviour.
THEOREM TypeCorrect == Spec => []TypeOK
<1>1. Init => TypeOK
  BY DEF Init, TypeOK, Pending
<1>2. TypeOK /\ [Next]_vars => TypeOK'
  <2> SUFFICES ASSUME TypeOK, [Next]_vars PROVE TypeOK'
    OBVIOUS
  <2> USE DEF TypeOK, Finish, Pending, Error
  <2>1. CASE Refuse
    BY <2>1 DEF Refuse
  <2>2. CASE BuildSolveRequest
    BY <2>2 DEF BuildSolveRequest
  <2>3. CASE SolveError
    BY <2>3 DEF SolveError
  <2>4. CASE SolveSat
    <3> PICK a \in Cheapest(Models(Requirement(request), exclusions)) :
            IF TotalCost(a) > CostLimit
            THEN Finish(Error("Solve")) /\ UNCHANGED solution
            ELSE solution' = a /\ pc' = "evaluate" /\ UNCHANGED outcome
      BY <2>4 DEF SolveSat
    <3>1. a \in Assignment
      BY DEF Cheapest, Models
    <3>2. pc = "solve" /\ UNCHANGED <<request, exclusions, rejected, tried>>
      BY <2>4 DEF SolveSat
    <3> QED
      BY <3>1, <3>2
  <2>5. CASE SolveUnsat
    BY <2>5 DEF SolveUnsat
  <2>6. CASE SolveUnknown
    BY <2>6 DEF SolveUnknown
  <2>8. CASE Accept
    BY <2>8 DEF Accept
  <2>9. CASE Reject
    BY <2>9, ExcludeSolutionType DEF Reject
  <2>10. CASE Done
    BY <2>10 DEF Done, vars
  <2>11. CASE UNCHANGED vars
    BY <2>11 DEF vars
  <2> QED
    BY <2>1, <2>2, <2>3, <2>4, <2>5, <2>6, <2>8, <2>9, <2>10, <2>11 DEF Next
<1> QED
  BY <1>1, <1>2, PTL DEF Spec

-----------------------------------------------------------------------------
(***************************************************************************)
(* The verdict of the evaluator and the number of candidates it refused.   *)
(***************************************************************************)

\* What makes ApplicableIsConfirmed inductive: the request is one considered.
ConfirmedInv == ApplicableIsConfirmed /\ request \in Request

\* Whatever the solver proposes, a plan is returned only when the evaluator
\* confirms it: Accept is the one action that records an Applicable outcome.
THEOREM PlansAreConfirmed == Spec => []ApplicableIsConfirmed
<1>1. Init => ConfirmedInv
  BY DEF Init, ConfirmedInv, ApplicableIsConfirmed, Pending
<1>2. ConfirmedInv /\ [Next]_vars => ConfirmedInv'
  <2> SUFFICES ASSUME ConfirmedInv, [Next]_vars PROVE ConfirmedInv'
    OBVIOUS
  <2>1. CASE Accept
    <3> DEFINE replay == Evaluate(Solution(solution))
    <3>1. /\ replay.success
          /\ \A goal \in request.goals : GoalIsSatisfied(replay.outputs, goal)
          /\ \A c \in request.constraints : ConstraintIsSatisfied(replay.outputs, c)
      BY <2>1 DEF Accept, Valid
    <3>2. outcome'.solution = Solution(solution) /\ outcome'.after = replay.outputs
      BY <2>1 DEF Accept, Finish
    <3>3. \A r \in Requirement(request) : Holds(replay.outputs, r)
      <4>1. /\ \A goal \in request.goals : goal.kind \notin ConstraintKind
            /\ \A c \in request.constraints : c.kind \in ConstraintKind
        BY RequestAssumption DEF ConfirmedInv, GoalKind, ConstraintKind
      <4> QED
        BY <3>1, <4>1 DEF Holds, Requirement
    <3> QED
      BY <3>1, <3>2, <3>3, <2>1 DEF ConfirmedInv, ApplicableIsConfirmed, Accept
  <2>2. CASE Next /\ ~Accept
    <3>1. UNCHANGED outcome \/ outcome'.kind # "Applicable"
      BY <2>2 DEF Next, Refuse, BuildSolveRequest, SolveError, SolveSat, SolveUnsat,
                  SolveUnknown, Reject, Done, vars, Finish, Error
    <3>2. UNCHANGED request
      BY <2>2 DEF Next, Refuse, BuildSolveRequest, SolveError, SolveSat, SolveUnsat,
                  SolveUnknown, Reject, Done, vars
    <3> QED
      BY <3>1, <3>2 DEF ConfirmedInv, ApplicableIsConfirmed
  <2>3. CASE UNCHANGED vars
    BY <2>3 DEF vars, ConfirmedInv, ApplicableIsConfirmed
  <2> QED
    BY <2>1, <2>2, <2>3
<1>3. ConfirmedInv => ApplicableIsConfirmed
  BY DEF ConfirmedInv
<1> QED
  BY <1>1, <1>2, <1>3, PTL DEF Spec

\* What makes RejectionsBounded inductive: the loop runs only for requests that
\* passed the entry checks, and exclusions stay a finite set.
RejectionsInv ==
    /\ RejectionsBounded
    /\ rejected \in Nat
    /\ request \in Request
    /\ IsFiniteSet(exclusions)
    /\ pc = "enter" => outcome = Pending /\ rejected = 0
    /\ pc \in {"solve", "evaluate"} => outcome = Pending

\* Only the third check raises the limit error, and only for a limit of zero.
LEMMA EntryCheckErrors ==
    ASSUME NEW r
    PROVE  /\ EntryChecks(r)[3].fails <=> (r.max_candidates = 0)
           /\ \A i \in 1 .. 6 : EntryChecks(r)[i].error = "CandidateLimitReached" => i = 3
<1>1. \A i \in 1 .. 6 : i \in {1, 2, 3, 4, 5, 6}
  OBVIOUS
<1>2. /\ EntryChecks(r)[1].error # "CandidateLimitReached"
      /\ EntryChecks(r)[2].error # "CandidateLimitReached"
      /\ EntryChecks(r)[4].error # "CandidateLimitReached"
      /\ EntryChecks(r)[5].error # "CandidateLimitReached"
      /\ EntryChecks(r)[6].error # "CandidateLimitReached"
  BY DEF EntryChecks
<1>3. EntryChecks(r)[3].fails <=> (r.max_candidates = 0)
  BY DEF EntryChecks
<1> QED
  BY <1>1, <1>2, <1>3

\* A request that enters the loop allows at least one candidate.
LEMMA EnteredWithRoom ==
    ASSUME NEW r \in Request, ~Refused(r)
    PROVE  r.max_candidates > 0
<1>1. 3 \in DOMAIN EntryChecks(r) /\ EntryChecks(r)[3].fails = (r.max_candidates = 0)
  BY DEF EntryChecks
<1>2. r.max_candidates # 0
  BY <1>1 DEF Refused
<1> QED
  BY <1>2, RequestAssumption

\* RejectionsInv is an invariant: an action at a time.
LEMMA RejectionsInvariant == Spec => []RejectionsInv
<1>1. Init => RejectionsInv
  BY RequestAssumption, FS_EmptySet
     DEF Init, RejectionsInv, RejectionsBounded, Pending, Error
<1>2. RejectionsInv /\ [Next]_vars => RejectionsInv'
  <2> SUFFICES ASSUME RejectionsInv, [Next]_vars PROVE RejectionsInv'
    OBVIOUS
  <2>0. request.max_candidates \in Nat
    BY RequestAssumption DEF RejectionsInv
  <2>1. CASE Refuse
    <3>1. outcome' = Error("CandidateLimitReached") => request.max_candidates = 0
      <4> SUFFICES ASSUME EntryError(request) = "CandidateLimitReached"
                   PROVE  request.max_candidates = 0
        BY <2>1 DEF Refuse, Finish, Error
      <4> DEFINE Check == EntryChecks(request)
                 First(i) == Check[i].fails /\ \A j \in 1 .. (i - 1) : ~Check[j].fails
                 first == CHOOSE i \in DOMAIN Check : First(i)
      <4>1. DOMAIN Check = 1 .. 6
        BY DEF EntryChecks
      <4>2. \E i \in DOMAIN Check : First(i)
        <5>1. PICK i \in 1 .. 6 : Check[i].fails
          BY <2>1, <4>1 DEF Refuse, Refused
        <5> QED
          BY <5>1, <4>1
      <4>3. first \in 1 .. 6 /\ First(first)
        BY <4>1, <4>2
      <4>4. Check[first].error = "CandidateLimitReached"
        BY DEF EntryError
      <4>5. first = 3
        BY <4>3, <4>4, EntryCheckErrors
      <4> HIDE DEF first
      <4> QED
        BY <4>3, <4>5, EntryCheckErrors
    <3> QED
      BY <3>1, <2>1, <2>0 DEF Refuse, Finish, RejectionsInv, RejectionsBounded
  <2>2. CASE BuildSolveRequest
    BY <2>2, <2>0, EnteredWithRoom
       DEF BuildSolveRequest, RejectionsInv, RejectionsBounded, Pending, Error
  <2>3. CASE SolveError
    BY <2>3, <2>0 DEF SolveError, Finish, Error, RejectionsInv, RejectionsBounded
  <2>4. CASE SolveSat
    BY <2>4, <2>0 DEF SolveSat, Finish, Error, RejectionsInv, RejectionsBounded, Pending
  <2>5. CASE SolveUnsat
    BY <2>5, <2>0 DEF SolveUnsat, Finish, Error, RejectionsInv, RejectionsBounded
  <2>6. CASE SolveUnknown
    BY <2>6, <2>0 DEF SolveUnknown, Finish, Error, RejectionsInv, RejectionsBounded
  <2>8. CASE Accept
    BY <2>8, <2>0 DEF Accept, Finish, Error, RejectionsInv, RejectionsBounded
  <2>9. CASE Reject
    <3>1. rejected' = rejected + 1 /\ rejected < request.max_candidates /\ UNCHANGED request
      BY <2>9 DEF Reject, RejectionsInv, RejectionsBounded
    <3>2. CASE rejected' >= request.max_candidates
      BY <3>1, <3>2, <2>9, <2>0, FS_CardinalityType
         DEF Reject, Finish, RejectionsInv, RejectionsBounded
    <3>3. CASE ~(rejected' >= request.max_candidates)
      <4>1. exclusions' = exclusions \cup {ExcludeSolution(solution)}
        BY <3>3, <2>9 DEF Reject
      <4>2. IsFiniteSet(exclusions') /\ Cardinality(exclusions') <= Cardinality(exclusions) + 1
        BY <4>1, FS_AddElement, FS_CardinalityType DEF RejectionsInv
      <4>3. Cardinality(exclusions) \in Nat /\ Cardinality(exclusions') \in Nat
        BY <4>2, FS_CardinalityType DEF RejectionsInv
      <4>4. pc' = "solve" /\ outcome' = outcome /\ outcome = Pending
        BY <3>3, <2>9 DEF Reject, RejectionsInv
      <4> QED
        BY <3>1, <3>3, <4>2, <4>3, <4>4, <2>0
           DEF RejectionsInv, RejectionsBounded, Pending, Error
    <3> QED
      BY <3>2, <3>3
  <2>10. CASE Done
    BY <2>10 DEF Done, vars, RejectionsInv, RejectionsBounded
  <2>11. CASE UNCHANGED vars
    BY <2>11 DEF vars, RejectionsInv, RejectionsBounded
  <2> QED
    BY <2>1, <2>2, <2>3, <2>4, <2>5, <2>6, <2>8, <2>9, <2>10, <2>11 DEF Next
<1> QED
  BY <1>1, <1>2, PTL DEF Spec

\* At most max_candidates candidates are refused and the limit error is raised
\* exactly at the limit (planning.rs, rejected_candidates).
THEOREM RejectionLimit == Spec => []RejectionsBounded
<1>1. RejectionsInv => RejectionsBounded
  BY DEF RejectionsInv
<1> QED
  BY <1>1, RejectionsInvariant, PTL

\* The steps plan_changes can take until it returns: two for each candidate it may
\* still refuse, the proposal and the verdict.
StepsLeft ==
    CASE pc = "enter"    -> 2 * request.max_candidates + 1
      [] pc = "solve"    -> 2 * (request.max_candidates - rejected)
      [] pc = "evaluate" -> 2 * (request.max_candidates - rejected) - 1
      [] pc = "done"     -> 0

EveryStepCounts == [][/\ StepsLeft \in Nat
                      /\ StepsLeft' \in 0 .. StepsLeft - 1]_vars

\* The loop ends whatever the solver and the evaluator answer: no step leaves the
\* number of steps left as it was, so max_candidates proposals are the most there are.
THEOREM LoopEnds == Spec => StepsLeft = 2 * request.max_candidates + 1 /\ EveryStepCounts
<1>1. Init => StepsLeft = 2 * request.max_candidates + 1
  BY DEF Init, StepsLeft
<1>2. RejectionsInv /\ [Next]_vars
        => [/\ StepsLeft \in Nat
            /\ StepsLeft' \in 0 .. StepsLeft - 1]_vars
  <2> SUFFICES ASSUME RejectionsInv, Next, ~UNCHANGED vars
               PROVE  StepsLeft \in Nat /\ StepsLeft' \in 0 .. StepsLeft - 1
    OBVIOUS
  <2>1. request.max_candidates \in Nat /\ rejected \in Nat
    BY RequestAssumption DEF RejectionsInv
  <2>2. pc \in {"solve", "evaluate"} => rejected < request.max_candidates
    BY DEF RejectionsInv, RejectionsBounded
  <2>3. CASE Refuse
    BY <2>1, <2>3 DEF Refuse, Finish, StepsLeft
  <2>4. CASE BuildSolveRequest
    BY <2>1, <2>4 DEF BuildSolveRequest, StepsLeft, RejectionsInv
  <2>5. CASE SolveError \/ SolveUnsat \/ SolveUnknown
    <3>1. pc = "solve" /\ pc' = "done"
      BY <2>5 DEF SolveError, SolveUnsat, SolveUnknown, Finish
    <3> QED
      BY <2>1, <2>2, <3>1 DEF StepsLeft
  <2>6. CASE SolveSat
    <3>1. pc = "solve" /\ pc' \in {"evaluate", "done"} /\ UNCHANGED <<request, rejected>>
      BY <2>6 DEF SolveSat, Finish
    <3> QED
      BY <2>1, <2>2, <3>1 DEF StepsLeft
  <2>7. CASE Accept
    <3>1. pc = "evaluate" /\ pc' = "done"
      BY <2>7 DEF Accept, Finish
    <3> QED
      BY <2>1, <2>2, <3>1 DEF StepsLeft
  <2>8. CASE Reject
    <3>1. /\ pc = "evaluate" /\ pc' \in {"solve", "done"}
          /\ UNCHANGED request /\ rejected' = rejected + 1
      BY <2>8 DEF Reject, Finish
    <3>2. CASE pc' = "done"
      BY <2>1, <2>2, <3>1, <3>2 DEF StepsLeft
    <3>3. CASE pc' = "solve"
      BY <2>1, <2>2, <3>1, <3>3 DEF StepsLeft
    <3> QED
      BY <3>1, <3>2, <3>3
  <2>9. CASE Done
    BY <2>9 DEF Done
  <2> QED
    BY <2>3, <2>4, <2>5, <2>6, <2>7, <2>8, <2>9 DEF Next
<1> QED
  BY <1>1, <1>2, RejectionsInvariant, PTL DEF Spec, EveryStepCounts

-----------------------------------------------------------------------------
(***************************************************************************)
(* Exclusions.                                                             *)
(***************************************************************************)

\* The link between the solver's exclusions and the evaluator's refusals: every
\* excluded point comes from a refused candidate, and the candidate under
\* evaluation is a cheapest of the models those exclusions leave.
ExclusionsInv ==
    /\ AnswersAreExplained
    /\ \A point \in exclusions : \E t \in tried : point = ExcludeSolution(t)
    /\ \A t \in tried : t \in Assignment /\ ~Valid(t, request)
    /\ solution \in Assignment \cup {Absent}
    /\ pc = "evaluate" =>
         /\ solution \in Assignment
         /\ \A a \in Models(Requirement(request), exclusions) :
              TotalCost(solution) <= TotalCost(a)
    /\ outcome.kind \in {"Applicable", "Unsatisfiable"} => pc = "done"

\* The excluded point of a candidate rules out what agrees with the candidate.
LEMMA RuledOutAgrees ==
    ASSUME NEW a \in Assignment, NEW t \in Assignment
    PROVE  RuledOut(a, ExcludeSolution(t)) <=> AgreesWith(a, t)
<1>1. /\ a \in AssignmentType /\ t \in AssignmentType
  BY AssignmentAssumption
<1>2. \A v \in Variable : ExcludeSolution(t).variable_values[v]
        = IF v \in t.variableEdits THEN t.variables[v] ELSE BaselineVariable[v]
  BY <1>1 DEF ExcludeSolution, Solution
<1>3. /\ DOMAIN ExcludeSolution(t).output_values = t.outputEdits
      /\ \A p \in t.outputEdits : ExcludeSolution(t).output_values[p] = t.outputs[p]
  BY <1>1 DEF ExcludeSolution, Solution
<1> QED
  BY <1>2, <1>3 DEF RuledOut, AgreesWith

\* What meets the request is still a model, or agrees with a refused candidate.
LEMMA LeftOrRefused ==
    ASSUME ExclusionsInv, NEW a \in Models(Requirement(request), {}),
           a \notin Models(Requirement(request), exclusions)
    PROVE  \E t \in tried : ~Valid(t, request) /\ AgreesWith(a, t)
<1>1. a \in Assignment /\ Excluded(a, exclusions)
  BY DEF Models
<1>2. PICK point \in exclusions : RuledOut(a, point)
  BY <1>1 DEF Excluded
<1>3. PICK t \in tried : point = ExcludeSolution(t)
  BY DEF ExclusionsInv
<1>4. t \in Assignment /\ ~Valid(t, request)
  BY DEF ExclusionsInv
<1> QED
  BY <1>1, <1>2, <1>3, <1>4, RuledOutAgrees

\* Whatever the costs, the models and the evaluator: what a plan does not offer and
\* an Unsatisfiable answer denies is more expensive or agrees with a refused candidate.
THEOREM AnswersExplained == Spec => []AnswersAreExplained
<1>1. Init => ExclusionsInv
  BY DEF Init, ExclusionsInv, AnswersAreExplained, Pending
<1>2. ExclusionsInv /\ [Next]_vars => ExclusionsInv'
  <2> SUFFICES ASSUME ExclusionsInv, [Next]_vars PROVE ExclusionsInv'
    OBVIOUS
  <2>1. CASE SolveUnsat
    <3>1. Models(Requirement(request), exclusions) = {}
      BY <2>1 DEF SolveUnsat
    <3>2. /\ UNCHANGED <<request, exclusions, solution, tried>> /\ pc' = "done"
          /\ outcome'.kind = "Unsatisfiable"
      BY <2>1 DEF SolveUnsat, Finish
    <3>3. \A t : Valid(t, request)' <=> Valid(t, request)
      BY <3>2 DEF Valid
    <3>4. AnswersAreExplained'
      BY <3>1, <3>2, <3>3, LeftOrRefused DEF AnswersAreExplained
    <3> QED
      BY <3>2, <3>3, <3>4 DEF ExclusionsInv
  <2>2. CASE Accept
    <3>1. /\ UNCHANGED <<request, exclusions, solution, tried>> /\ pc' = "done"
          /\ outcome'.kind = "Applicable" /\ outcome'.solution = Solution(solution)
          /\ pc = "evaluate"
      BY <2>2 DEF Accept, Finish
    <3>2. \A t : Valid(t, request)' <=> Valid(t, request)
      BY <3>1 DEF Valid
    <3>3. \A a \in Models(Requirement(request), exclusions) : TotalCost(solution) <= TotalCost(a)
      BY <3>1 DEF ExclusionsInv
    <3>4. AnswersAreExplained'
      BY <3>1, <3>2, <3>3, LeftOrRefused DEF AnswersAreExplained
    <3> QED
      BY <3>1, <3>2, <3>4 DEF ExclusionsInv
  <2>3. CASE Reject
    <3>1. /\ ~Valid(solution, request) /\ solution \in Assignment
          /\ tried' = tried \cup {solution}
          /\ UNCHANGED <<request, solution>>
          /\ exclusions' \in {exclusions, exclusions \cup {ExcludeSolution(solution)}}
          /\ pc' # "evaluate"
          /\ outcome' = outcome \/ outcome'.kind = "Error"
          /\ outcome.kind \notin {"Applicable", "Unsatisfiable"}
      BY <2>3 DEF Reject, Finish, Error, ExclusionsInv
    <3> QED
      BY <3>1 DEF AnswersAreExplained, ExclusionsInv
  <2>4. CASE SolveSat
    <3> PICK m \in Cheapest(Models(Requirement(request), exclusions)) :
            IF TotalCost(m) > CostLimit
            THEN Finish(Error("Solve")) /\ UNCHANGED solution
            ELSE solution' = m /\ pc' = "evaluate" /\ UNCHANGED outcome
      BY <2>4 DEF SolveSat
    <3>1. /\ m \in Assignment
          /\ \A a \in Models(Requirement(request), exclusions) : TotalCost(m) <= TotalCost(a)
      BY DEF Cheapest, Models
    <3>2. /\ UNCHANGED <<request, exclusions, tried>>
          /\ outcome' = outcome \/ outcome'.kind = "Error"
          /\ outcome.kind \notin {"Applicable", "Unsatisfiable"}
      BY <2>4 DEF SolveSat, Finish, Error, ExclusionsInv
    <3>3. (pc' = "evaluate" /\ solution' = m) \/ (UNCHANGED solution /\ pc' = "done")
      BY DEF Finish
    <3>4. Models(Requirement(request), exclusions)' = Models(Requirement(request), exclusions)
      BY <3>2
    <3>5. AnswersAreExplained'
      BY <3>2 DEF AnswersAreExplained
    <3> QED
      BY <3>1, <3>2, <3>3, <3>4, <3>5 DEF ExclusionsInv
  <2>5. CASE Next /\ ~SolveUnsat /\ ~Accept /\ ~Reject /\ ~SolveSat
    <3>1. /\ UNCHANGED <<request, exclusions, solution, tried>>
          /\ pc' # "evaluate" \/ UNCHANGED pc
          /\ \/ UNCHANGED <<outcome, pc>>
             \/ UNCHANGED outcome /\ pc = "enter"
             \/ outcome'.kind \notin {"Applicable", "Unsatisfiable"}
      BY <2>5 DEF Next, Refuse, BuildSolveRequest, SolveError, SolveUnknown,
                  Done, vars, Finish, Error
    <3>2. AnswersAreExplained'
      BY <3>1 DEF AnswersAreExplained, ExclusionsInv
    <3> QED
      BY <3>1, <3>2 DEF ExclusionsInv
  <2>6. CASE UNCHANGED vars
    BY <2>6 DEF vars, AnswersAreExplained, ExclusionsInv
  <2> QED
    BY <2>1, <2>2, <2>3, <2>4, <2>5, <2>6
<1>3. ExclusionsInv => AnswersAreExplained
  BY DEF ExclusionsInv
<1> QED
  BY <1>1, <1>2, <1>3, PTL DEF Spec

\* What the last proposal knows of the next one: it was a cheapest model under
\* no more exclusions than there are now.
CostInv ==
    /\ \A a \in Models(Requirement(request), exclusions) :
         (pc \in {"solve", "evaluate"} /\ solution # Absent)
           => TotalCost(solution) <= TotalCost(a)
    /\ pc = "enter" => solution = Absent

\* More exclusions, fewer models.
LEMMA ModelsShrink ==
    ASSUME NEW R, NEW X, NEW Y, X \subseteq Y
    PROVE  Models(R, Y) \subseteq Models(R, X)
  BY DEF Models, Excluded

\* Candidates are proposed in order of cost, whatever the costs are: a plan that
\* is found late is not cheaper than the ones refused before it.
THEOREM CostOrder == Spec => ProposedInCostOrder
<1>1. Init => CostInv
  BY DEF Init, CostInv
<1>2. CostInv /\ [Next]_vars => CostInv'
  <2> SUFFICES ASSUME CostInv, [Next]_vars PROVE CostInv'
    OBVIOUS
  <2>1. CASE SolveSat
    <3> PICK m \in Cheapest(Models(Requirement(request), exclusions)) :
            IF TotalCost(m) > CostLimit
            THEN Finish(Error("Solve")) /\ UNCHANGED solution
            ELSE solution' = m /\ pc' = "evaluate" /\ UNCHANGED outcome
      BY <2>1 DEF SolveSat
    <3>1. UNCHANGED <<request, exclusions>>
      BY <2>1 DEF SolveSat
    <3>2. \A a \in Models(Requirement(request), exclusions) : TotalCost(m) <= TotalCost(a)
      BY DEF Cheapest
    <3> QED
      BY <3>1, <3>2 DEF CostInv, Finish
  <2>2. CASE Reject
    <3>1. UNCHANGED <<request, solution>> /\ exclusions \subseteq exclusions'
          /\ pc = "evaluate" /\ pc' # "enter"
      BY <2>2 DEF Reject, Finish
    <3>2. Models(Requirement(request), exclusions')
            \subseteq Models(Requirement(request), exclusions)
      BY <3>1, ModelsShrink
    <3> QED
      BY <3>1, <3>2 DEF CostInv
  <2>3. CASE Next /\ ~SolveSat /\ ~Reject
    <3>1. /\ UNCHANGED <<request, exclusions, solution>>
          /\ pc' = "done" \/ UNCHANGED pc \/ (pc = "enter" /\ pc' = "solve")
      BY <2>3 DEF Next, Refuse, BuildSolveRequest, SolveError, SolveUnsat, SolveUnknown,
                  Accept, Done, vars, Finish
    <3> QED
      BY <3>1 DEF CostInv
  <2>4. CASE UNCHANGED vars
    BY <2>4 DEF vars, CostInv
  <2> QED
    BY <2>1, <2>2, <2>3, <2>4
<1>3. CostInv /\ [Next]_vars
        => [(solution # Absent /\ solution' # solution)
              => TotalCost(solution) <= TotalCost(solution')]_vars
  <2> SUFFICES ASSUME CostInv, Next, solution # Absent, solution' # solution
               PROVE  TotalCost(solution) <= TotalCost(solution')
    BY DEF vars
  <2>1. SolveSat
    BY DEF Next, Refuse, BuildSolveRequest, SolveError, SolveUnsat, SolveUnknown,
           Accept, Reject, Done, vars
  <2>2. solution' \in Cheapest(Models(Requirement(request), exclusions)) /\ pc = "solve"
    BY <2>1 DEF SolveSat
  <2> QED
    BY <2>2 DEF CostInv, Cheapest
<1> QED
  BY <1>1, <1>2, <1>3, PTL DEF Spec, ProposedInCostOrder

\* Every refused candidate is covered by an exclusion as long as the loop runs, and
\* the candidate under evaluation is a model of the request they leave.
RefusedInv ==
    /\ pc \in {"solve", "evaluate"} => \A t \in tried : ExcludeSolution(t) \in exclusions
    /\ pc = "enter" => tried = {}
    /\ tried \subseteq Assignment
    /\ pc = "evaluate" => solution \in Models(Requirement(request), exclusions)

\* The excluded point of a candidate rules out another one of the same edits exactly
\* when what that one leaves alone has its baseline value.
LEMMA SameEditsRuledOut ==
    ASSUME NEW a \in Assignment, NEW t \in Assignment, Solution(a) = Solution(t)
    PROVE  RuledOut(a, ExcludeSolution(t)) <=> ~Drifted(a)
<1>1. a \in AssignmentType /\ t \in AssignmentType
  BY AssignmentAssumption
<1>2. /\ [v \in a.variableEdits |-> a.variables[v]] = [v \in t.variableEdits |-> t.variables[v]]
      /\ [p \in a.outputEdits |-> a.outputs[p]] = [p \in t.outputEdits |-> t.outputs[p]]
  BY DEF Solution
<1>3. a.variableEdits = t.variableEdits /\ a.outputEdits = t.outputEdits
  BY <1>2
<1>4. \A v \in t.variableEdits : a.variables[v] = t.variables[v]
  BY <1>2, <1>3
<1>5. \A p \in t.outputEdits : a.outputs[p] = t.outputs[p]
  BY <1>2, <1>3
<1>6. AgreesWith(a, t) <=> \A v \in Variable \ a.variableEdits : a.variables[v] = BaselineVariable[v]
  BY <1>3, <1>4, <1>5 DEF AgreesWith
<1> QED
  BY <1>6, RuledOutAgrees DEF Drifted

\* One more exclusion takes away what it rules out.
LEMMA OneMoreExclusion ==
    ASSUME NEW R, NEW X, NEW point, NEW a \in Models(R, X)
    PROVE  a \in Models(R, X \cup {point}) <=> ~RuledOut(a, point)
  BY DEF Models, Excluded

\* What a refusal achieves, for every model: a refused candidate is gone from the
\* next call exactly when no binding follows an edited one, and its edits come again,
\* in whichever assignment, only when one does.  Bindings may be initialised from
\* each other in any way.
THEOREM Progress == Spec => OnlyDriftedAgain
<1>1. Init => RefusedInv
  BY DEF Init, RefusedInv
<1>2. RefusedInv /\ [Next]_vars => RefusedInv'
  <2> SUFFICES ASSUME RefusedInv, [Next]_vars PROVE RefusedInv'
    OBVIOUS
  <2>1. CASE SolveSat
    <3>1. Cheapest(Models(Requirement(request), exclusions))
            \subseteq Models(Requirement(request), exclusions)
      BY DEF Cheapest
    <3>2. /\ UNCHANGED <<request, exclusions, tried>> /\ pc' # "enter" /\ pc = "solve"
          /\ pc' = "evaluate" => solution' \in Models(Requirement(request), exclusions)
      BY <2>1, <3>1 DEF SolveSat, Finish
    <3>3. Models(Requirement(request), exclusions)' = Models(Requirement(request), exclusions)
      BY <3>2
    <3> QED
      BY <3>2, <3>3 DEF RefusedInv
  <2>2. CASE Reject
    <3>1. solution \in Assignment
      BY <2>2 DEF Reject, RefusedInv, Models
    <3> QED
      BY <2>2, <3>1 DEF Reject, Finish, RefusedInv
  <2>3. CASE Next /\ ~SolveSat /\ ~Reject
    <3>1. /\ UNCHANGED <<request, exclusions, solution, tried>>
          /\ pc' = "done" \/ UNCHANGED pc \/ (pc = "enter" /\ pc' = "solve")
      BY <2>3 DEF Next, Refuse, BuildSolveRequest, SolveError, SolveUnsat, SolveUnknown,
                  Accept, Done, vars, Finish
    <3> QED
      BY <3>1 DEF RefusedInv
  <2>4. CASE UNCHANGED vars
    BY <2>4 DEF vars, RefusedInv
  <2> QED
    BY <2>1, <2>2, <2>3, <2>4
<1>3. ASSUME RefusedInv, Next, pc = "evaluate", pc' = "solve"
      PROVE  solution \in Models(Requirement(request), exclusions') <=> Drifted(solution)
  <2>1. Reject
    BY <1>3 DEF Next, Refuse, BuildSolveRequest, SolveError, SolveSat, SolveUnsat, SolveUnknown,
                Accept, Done, vars, Finish
  <2>2. exclusions' = exclusions \cup {ExcludeSolution(solution)}
    BY <1>3, <2>1 DEF Reject, Finish
  <2>3. solution \in Models(Requirement(request), exclusions)
    BY <1>3 DEF RefusedInv
  <2>4. solution \in Models(Requirement(request), exclusions')
          <=> ~RuledOut(solution, ExcludeSolution(solution))
    BY <2>2, <2>3, OneMoreExclusion
  <2>5. solution \in Assignment
    BY <2>3 DEF Models
  <2> QED
    BY <2>4, <2>5, SameEditsRuledOut
<1>4. ASSUME RefusedInv, Next, pc = "solve", pc' = "evaluate", NEW t \in tried,
             Solution(solution') = Solution(t)
      PROVE  Drifted(solution')
  <2>1. SolveSat
    BY <1>4 DEF Next, Refuse, BuildSolveRequest, SolveError, SolveUnsat, SolveUnknown,
           Accept, Reject, Done, vars, Finish
  <2>2. solution' \in Assignment /\ ~Excluded(solution', exclusions)
    BY <1>4, <2>1 DEF SolveSat, Finish, Cheapest, Models
  <2>3. t \in Assignment /\ ExcludeSolution(t) \in exclusions
    BY <1>4 DEF RefusedInv
  <2>4. ~RuledOut(solution', ExcludeSolution(t))
    BY <2>2, <2>3 DEF Excluded
  <2> QED
    BY <1>4, <2>2, <2>3, <2>4, SameEditsRuledOut
<1>5. RefusedInv /\ [Next]_vars
        => [/\ (pc = "evaluate" /\ pc' = "solve") =>
                 (solution \in Models(Requirement(request), exclusions') <=> Drifted(solution))
            /\ (pc = "solve" /\ pc' = "evaluate") =>
                 \A t \in tried : Solution(solution') = Solution(t) => Drifted(solution')]_vars
  BY <1>3, <1>4
<1> QED
  BY <1>1, <1>2, <1>5, PTL DEF Spec, OnlyDriftedAgain
=============================================================================
