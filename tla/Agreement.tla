------------------------------ MODULE Agreement -----------------------------
(***************************************************************************)
(* The two semantics of a module side by side, in the order plan_changes   *)
(* uses them: the module is lowered, evaluated without edits, edits are    *)
(* proposed, the module is evaluated with them and the two snapshots are   *)
(* compared.  Which edits the solver proposes is left open: any of Edits,  *)
(* together with what its assertions say of them.                          *)
(***************************************************************************)
EXTENDS Evaluator, Encoding

CONSTANTS
    Program,            \* the modules considered
    Path,               \* their output paths
    Edits,              \* the edits considered: records [tunables, outputs]
    Fresh               \* values of an unreachable expression

VARIABLES
    phase,       \* lower, baseline, candidate, done or refused
    models,      \* the outputs under the edits, in every model of the assertions
    effective,   \* every edit changes what it edits, under some assignment
    before       \* the snapshot of the baseline

vars == <<evaluatorVars, loweringVars, phase, models, effective, before>>

\* The assignments with the edits e: the fresh constants are free, those of a
\* filter among the Booleans.
Assignments(e, calls) ==
    LET edits == [tunables |-> e.tunables, outputs |-> e.outputs, fresh |-> Absent,
                  answers |-> <<>>, bound |-> <<>>]
        applications == Applications(calls, edits)
        filters == {a \in applications : a[1].op = "filter"}
    IN  {[edits EXCEPT !.fresh = f,
                       !.answers = [a \in applications |-> IF a \in filters THEN kept[a] ELSE made[a]]] :
           f \in Fresh, kept \in [filters -> {Yes, No}], made \in [applications \ filters -> Fresh]}

Init ==
    /\ \E p \in Program : EvaluatorInit(p, NoOverrides) /\ LoweringInit(p, Path)
    /\ phase = "lower"
    /\ models = {}
    /\ effective = FALSE
    /\ before = <<>>

LoweringStep ==
    /\ phase = "lower"
    /\ InitializeVariables \/ LowerNext
    /\ UNCHANGED <<evaluatorVars, phase, models, effective, before>>

\* A module whose lowering reports an error is not planned for.
EndLowering ==
    /\ phase = "lower"
    /\ LoweringDone
    /\ phase' = IF reported = {} THEN "baseline" ELSE "refused"
    /\ UNCHANGED <<evaluatorVars, loweringVars, models, effective, before>>

EvaluationStep ==
    /\ phase \in {"baseline", "candidate"}
    /\ Statement
    /\ UNCHANGED <<loweringVars, phase, models, effective, before>>

\* The baseline must succeed; then edits are chosen and the candidate starts.
Propose ==
    /\ phase = "baseline"
    /\ Success
    /\ before' = snapshot
    /\ LET encodable == Encodable
           calls == IF encodable THEN OpaqueCalls ELSE {}
       IN  \E e \in Edits :
             LET assignments == IF encodable THEN Assignments(e, calls) ELSE {}
             IN  /\ Evaluate(program, [tunables |-> e.tunables, outputs |-> e.outputs])
                 /\ models' = {OutputsIn(m) : m \in {n \in assignments : Asserted(n)}}
                 /\ effective' = (\E m \in assignments : EditsChange(m))
    /\ phase' = "candidate"
    /\ UNCHANGED loweringVars

BaselineFails ==
    /\ phase = "baseline"
    /\ error # NoError
    /\ phase' = "refused"
    /\ UNCHANGED <<evaluatorVars, loweringVars, models, effective, before>>

Compare ==
    /\ phase = "candidate"
    /\ Evaluated
    /\ phase' = "done"
    /\ UNCHANGED <<evaluatorVars, loweringVars, models, effective, before>>

Next ==
    \/ LoweringStep \/ EndLowering \/ EvaluationStep
    \/ Propose \/ BaselineFails \/ Compare

\* One thread, every call of which returns.
Spec == Init /\ [][Next]_vars /\ WF_vars(Next)

(***************************************************************************)
(* Properties.                                                             *)
(***************************************************************************)

Snapshot == [p \in Path |-> IF p \in DOMAIN snapshot THEN snapshot[p].value ELSE Absent]

OpaqueClosures(p) ==
    {e \in UNION {Inside(ValueOf(p[k])) : k \in DOMAIN p} : e.op = "closure" /\ e.mode = "opaque"}

\* Whenever solver and evaluator both accept the edits of a candidate they give
\* every output the same value: what a plan promises is what the module then
\* evaluates to (the check plan_changes makes of every candidate).  The answers of
\* opaque closures are guesses, which that check is for.
AgreeOnOutputs ==
    (phase = "done" /\ Success) => (models \subseteq {Snapshot} \/ OpaqueClosures(program) # {})

\* The statements of an orderly module come after what they use: bindings after
\* those they refer to, reads of an output after all its claims.  Its bindings
\* cannot fail, as one no claim uses is evaluated but not encoded, and its sums
\* do not leave the range of an integer, which Z3's do not have.
MayFail(e) == e.op \in {"read", "div"}
Orderly(p) ==
    \A k \in DOMAIN p :
        /\ SymbolsOf(p[k]) \subseteq
             {p[j].symbol : j \in {i \in 1..(k - 1) : p[i].stmt = "let"}}
        /\ \A j \in k..Len(p) : ReadsOf(p[k]) \cap ClaimsOf(p[j]) = {}
        /\ \A l \in LocalsOf(p[k]) \cup {p[i] : i \in {k} \cap {j \in DOMAIN p : p[j].stmt = "let"}} :
             \A e \in Inside(l.value) : ~MayFail(e)
        /\ \A e \in Inside(ValueOf(p[k])) : e.op # "add"
    /\ \A e \in OpaqueClosures(p) : \A i \in Inside(e) : ~MayFail(i)

\* In an orderly module every assignment the solver may answer with is
\* confirmed by the evaluator: no candidate is refused.
SolutionsAreRealised ==
    (phase = "done" /\ models # {}) => (Success \/ ~Orderly(program))

\* An arm uses what a value holds that is not null.
Unwraps(e) ==
    /\ e.op = "match"
    /\ \E k \in DOMAIN e.arms :
         /\ e.arms[k].pattern.pat = "some"
         /\ \E i \in Inside(e.arms[k].value) :
              i.op = "ref" /\ i.symbol \in BoundBy(e.arms[k].pattern)

\* The operations that may fail are evaluated in every run of a plain module,
\* its editable outputs are claimed once and no match unwraps an optional: the
\* encoder asserts unconditionally that the operations succeed, that the cases
\* of an output exclude each other and that what an arm unwraps is not null.  It
\* also forbids the throws, and asks for the arms, of values an edit replaces and
\* the evaluator then skips: a plain module has none in what may be edited.  A
\* closure is encoded for elements the list does not have, and a set has only
\* members that the model or the request names as constants.
Conditional(e) ==
    CASE e.op = "if"            -> InsideBlock(e.then) \cup InsideBlock(e.otherwise)
      [] e.op \in {"and", "or"} -> Inside(e.right)
      [] e.op = "elvis"         -> Inside(e.fallback)
      [] e.op = "match"         -> UNION {Inside(e.arms[k].value) : k \in DOMAIN e.arms}
      [] e.op = "closure"       -> Inside(e.body)
      [] OTHER                  -> {}
LeavesUniverse(e) ==
    \/ e.op = "set" /\ \E k \in DOMAIN e.elements : e.elements[k].op # "const"
    \/ e.op = "map" /\ \E i \in Inside(e.receiver) : i.op = "set"
Plain(p) ==
    /\ \A k \in DOMAIN p : \A e \in Inside(ValueOf(p[k])) :
         /\ ~Unwraps(e)
         /\ ~LeavesUniverse(e)
         /\ \A i \in Conditional(e) : ~MayFail(i)
         /\ MayFail(e) \/ e.op \in {"throw", "match"} =>
              ~(\/ p[k].stmt = "let" /\ p[k].tunable
                \/ ClaimsOf(p[k]) \cap TunablePath # {})
    /\ \A path \in TunablePath :
         \A j, k \in {i \in DOMAIN p : path \in ClaimsOf(p[i])} : j = k

\* In a plain module edits under which the evaluator succeeds satisfy the
\* assertions, with the outputs it computes: nothing that would work is kept from
\* the solver.
RunsAreSolutions ==
    (phase = "done" /\ effective /\ Success) => (Snapshot \in models \/ ~Plain(program))

\* An output the edits of bindings change names one of these bindings among its
\* exact or its opaque dependencies (OutputChange of EvaluationSnapshot::diff).
ChangesAreExplained ==
    (phase = "done" /\ Success /\ DOMAIN inputs.outputs = {}) =>
        LET changes == Diff(before, snapshot)
        IN  \A p \in DOMAIN changes :
              (changes[p].deps \cup changes[p].opaque) \cap DOMAIN inputs.tunables # {}

\* SolveOutcome::Unsat, "No assignment satisfies the request": an unsatisfiable
\* encoding means that no edits work.
UnsatMeansNothingWorks ==
    (phase = "done" /\ effective /\ Success) => models # {}
=============================================================================
