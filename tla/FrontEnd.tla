------------------------------ MODULE FrontEnd ------------------------------
(***************************************************************************)
(* The analysis of the modules of a project, one behind the other, and the *)
(* evaluation of a module that passes it: light-nix/src/analysis.rs        *)
(* (analyze_module, AnalysisEnvironment), with the name resolver of Names, *)
(* the checker of Schemes and Inference, whose obligations are solved here *)
(* one by one, and the evaluator of Runtime.                               *)
(*                                                                         *)
(* A project is a sequence of modules [path, program]; a later one may     *)
(* import the earlier ones.  Parsing, comments, dependencies and lowering  *)
(* are the subject of other modules.                                       *)
(***************************************************************************)
EXTENDS Runtime

LOCAL INSTANCE TLC

CONSTANT Projects

VARIABLES
    project,      \* the project that is analysed
    module,       \* the number of the module that is analysed
    phase,        \* what comes next for it
    tree,         \* its resolved statements
    names,        \* NameResolution
    checker,      \* Checker
    owed,         \* the obligations the statements brought about
    steps,        \* remaining_steps
    deferred,     \* consecutively_deferred
    environment,  \* AnalysisEnvironment: [imports, types]
    diagnostics,  \* the kinds of errors of each module analysed
    result        \* the outcome of the evaluation: <<>> or <<outcome>>

vars == <<project, module, phase, tree, names, checker, owed, steps, deferred, environment,
          diagnostics, result>>

Resolver == INSTANCE Names

NoNames   == Resolver!Collect(<<>>, 0, <<>>)
NoChecker == NewChecker([symbols |-> <<>>], NoEnvironment)

Init ==
    /\ project \in 1 .. Len(Projects)
    /\ module = 1
    /\ phase = "resolve"
    /\ tree = <<>>
    /\ names = TheOnly(NoNames).s
    /\ checker = NoChecker
    /\ owed = <<>>
    /\ steps = 0
    /\ deferred = 0
    /\ environment = [imports |-> <<>>, types |-> NoEnvironment]
    /\ diagnostics = <<>>
    /\ result = <<>>

Current == Projects[project][module]

\* collect_module and resolve.
ResolveNames ==
    /\ phase = "resolve"
    /\ \E r \in Then(Resolver!Collect(Current.program, module, environment.imports),
                 Resolver!ResolveModule) :
          /\ names' = r.s
          /\ tree' = r.x
    /\ phase' = "check"
    /\ UNCHANGED <<project, module, checker, owed, steps, deferred, environment, diagnostics, result>>

Larger(a, b) == IF a < b THEN b ELSE a

\* check_module up to the solving of the obligations.
CheckTypes ==
    /\ phase = "check"
    /\ \E c \in CheckModule(names, tree, environment.types) :
          /\ checker' = c
          /\ owed' = c.obligations
          /\ steps' = Larger(16, 16 * Len(c.obligations))
    /\ deferred' = 0
    /\ phase' = "solve"
    /\ UNCHANGED <<project, module, tree, names, environment, diagnostics, result>>

\* ------------------------------------------------- solve_obligations
\* A bound as the unifier has it by now.
Resolved(b) == {Bounded(t, i) : t \in {Resolve(checker.u, b.subject)},
                                i \in {Resolve(checker.u, b.interface)}}

\* matching_implementations: each with the unifier and the bounds it leaves.
Trial(u, impl, b) ==
    Then(FreshMap(u, impl.params), LAMBDA m :
    Then(UnifyEach(m.s, <<<<b.subject, Substitute(impl.target, m.x)>>,
                          <<b.interface, Substitute(impl.interface, m.x)>>>>), LAMBDA q :
         IF q.x = None THEN {[u |-> q.s, bounds |-> SubstituteBounds(impl.bounds, m.x)]} ELSE {}))
Matching(u, impls, b) ==
    UNION {{[index |-> i] @@ t : t \in Trial(u, impls[i], b)} :
              i \in {j \in DOMAIN impls : IdOf(impls[j].interface) = IdOf(b.interface)}}

\* try_assumptions: the unifier behind the first that fits.
Assumed(u, assumptions, b) ==
    LET behind(a) == {q.s : q \in {r \in UnifyEach(u, <<<<b.subject, a.subject>>,
                                                        <<b.interface, a.interface>>>>) : r.x = None}}
        fitting   == {i \in DOMAIN assumptions : behind(assumptions[i]) # {}}
    IN  IF fitting = {} THEN {}
        ELSE behind(assumptions[CHOOSE i \in fitting : \A j \in fitting : i <= j])

\* clear_dispatch, record_dispatch.
ClearDispatch(c, o) ==
    IF o.dispatch = <<>> THEN c
    ELSE [c EXCEPT !.members = [at \in DOMAIN @ \ {o.dispatch[1].at} |-> @[at]]]
RecordDispatch(c, o, index) ==
    IF o.dispatch = <<>> THEN c
    ELSE LET method == o.dispatch[1].method
         IN  Stands(c, o.dispatch[1].at,
                    MethodOf(method, Known(c.impls[index].methods, method.name, 0)))

\* Mutant: the bounds of an implementation are taken for granted.
OweNothing(c, bounds, o) == c

\* They are owed under the assumptions the implementation was found under.
OweBounds(c, bounds, o) ==
    [c EXCEPT !.obligations = @ \o [i \in DOMAIN bounds |->
        [subject |-> bounds[i].subject, interface |-> bounds[i].interface,
         assumptions |-> o.assumptions, dispatch |-> <<>>]]]

MayGain(b)   == Mentions(b.subject, {"Variable"}) \/ Mentions(b.interface, {"Variable"})
IsGround(b)  == ~Mentions(b.subject, {"Variable", "Parameter"})
                /\ ~Mentions(b.interface, {"Variable", "Parameter"})
IsPoisoned(b) == "Error" \in {b.subject.k, b.interface.k}

Matches(b) == Matching(checker.u, checker.impls, b)
Failure(matches) == IF matches = {} THEN "MissingImplementation" ELSE "AmbiguousImplementation"

\* The obligation at the head of the queue, with its bound as it is by now.
Pending ==
    IF phase # "solve" \/ checker.obligations = <<>> \/ steps = 0 THEN {}
    ELSE {[o |-> Head(checker.obligations), bound |-> b] : b \in Resolved(Head(checker.obligations))}
Popped == [checker EXCEPT !.obligations = Tail(@)]

\* The loop goes on, with the next obligation or, all of them deferred since
\* the last one discharged, with the report of a stall.
GoesOn(c, count) ==
    /\ checker' = c
    /\ deferred' = count
    /\ steps' = steps - 1
    /\ UNCHANGED <<project, module, tree, names, owed, environment, diagnostics, result>>
Stalls(c, count) == c.obligations # <<>> /\ count >= Len(c.obligations)
Checked(c, count) ==
    /\ GoesOn(c, count)
    /\ phase' = IF Stalls(c, count) THEN "stalled" ELSE "solve"

\* What an error made of the bound is not reported again.
SkipPoisoned ==
    \E p \in Pending :
        /\ IsPoisoned(p.bound)
        /\ GoesOn(ClearDispatch(Popped, p.o), deferred)
        /\ phase' = phase

\* An assumption settles the bound; a method of a bound that is known by now is
\* dispatched all the same.
SettleByAssumption ==
    \E p \in Pending :
        /\ ~IsPoisoned(p.bound)
        /\ \E u \in Assumed(checker.u, p.o.assumptions, p.bound) :
           \E matches \in {Matching(u, checker.impls, p.bound)} :
              GoesOn(IF IsGround(p.bound) /\ Cardinality(matches) = 1
                     THEN RecordDispatch([Popped EXCEPT !.u = u], p.o, TheOnly(matches).index)
                     ELSE [Popped EXCEPT !.u = u],
                     0)
        /\ phase' = phase

\* The bound is neither poisoned nor assumed.
IsLeft(p) == ~IsPoisoned(p.bound) /\ Assumed(checker.u, p.o.assumptions, p.bound) = {}

\* Mutant: the count of deferred obligations is kept.
KeepCount == deferred
ResetCount == 0

\* The only implementation settles the bound, and its own bounds are owed.
SettleByImplementation ==
    \E p \in Pending :
        /\ IsLeft(p)
        /\ Cardinality(Matches(p.bound)) = 1
        /\ \E m \in Matches(p.bound) :
              Checked(OweBounds(RecordDispatch([Popped EXCEPT !.u = m.u], p.o, m.index), m.bounds, p.o),
                      ResetCount)

\* What may become known later waits at the end of the queue.
Defer ==
    \E p \in Pending :
        /\ IsLeft(p)
        /\ Cardinality(Matches(p.bound)) # 1
        /\ MayGain(p.bound)
        /\ Checked([checker EXCEPT !.obligations = Append(Tail(@), p.o)], deferred + 1)

Refuse ==
    \E p \in Pending :
        /\ IsLeft(p)
        /\ Cardinality(Matches(p.bound)) # 1
        /\ ~MayGain(p.bound)
        /\ Checked(Complain(ClearDispatch(Popped, p.o), Failure(Matches(p.bound))), deferred)

\* The queue is emptied, by a stall with an error for each obligation and by an
\* overflow with one for the first.
ReportStall ==
    /\ phase = "stalled"
    /\ \E c \in Through(checker.obligations, [checker EXCEPT !.obligations = <<>>], LAMBDA o, d :
                   TheOnly({Complain(ClearDispatch(d, o), Failure(Matches(b))) : b \in Resolved(o)})) :
          checker' = c
    /\ phase' = "solve"
    /\ UNCHANGED <<project, module, tree, names, owed, steps, deferred, environment, diagnostics,
                   result>>

\* Mutant: at the limit the obligation is put back and the loop goes on.
SpinsAtLimit ==
    /\ phase = "solve" /\ steps = 0 /\ checker.obligations # <<>>
    /\ UNCHANGED vars

ReportOverflow ==
    /\ phase = "solve" /\ steps = 0 /\ checker.obligations # <<>>
    /\ checker' = Complain(ClearDispatch([checker EXCEPT !.obligations = <<>>],
                                         Head(checker.obligations)), "OverflowEvaluatingBound")
    /\ UNCHANGED <<project, module, phase, tree, names, owed, steps, deferred, environment,
                   diagnostics, result>>

\* ------------------------------------------------------------ the rest
\* check_capabilities, check_unresolved_types.
Capable(c, capability) ==
    LET t == Resolve(c.u, capability.type)
    IN  t.k \in IF capability.need = "Numeric" THEN {"Int", "Float", "Error", "Variable"}
                ELSE {"Bool", "Error"}
Lacking(c) == {IF p.need = "Numeric" THEN "ExpectedNumeric" ELSE "ExpectedBoolean" :
                  p \in {q \in c.capabilities : ~Capable(c, q)}}
IsInferred(c, d) ==
    \/ d.kind \notin {"let", "function"} \/ d.id \notin DOMAIN c.symbols
    \/ ~Mentions(Resolve(c.u, c.symbols[d.id].type), {"Variable"})
Verdict(c) ==
    c.errors \cup Lacking(c)
             \cup (IF \E d \in ToSet(c.names.symbols) : ~IsInferred(c, d) THEN {"CannotInferType"} ELSE {})

\* TypeEnvironment::extend.
Extended(types, more) ==
    [more EXCEPT !.symbols = @ @@ types.symbols, !.fields = @ @@ types.fields,
                 !.lookup = @ @@ types.lookup, !.arities = @ @@ types.arities,
                 !.params = @ @@ types.params, !.bounds = @ @@ types.bounds,
                 !.interfaces = @ \cup types.interfaces,
                 !.impls = types.impls \o @, !.methods = types.methods \o @]

\* The rest of check, and register_module: a module of the project that follows
\* may import this one.
FinishModule ==
    /\ phase = "solve" /\ checker.obligations = <<>>
    /\ checker' = [checker EXCEPT !.errors = Verdict(checker)]
    /\ diagnostics' = Append(diagnostics, names.errors \cup Verdict(checker))
    /\ environment' = [imports |-> Put(environment.imports, Current.path, names.interface),
                       types   |-> Extended(environment.types, Environment(checker))]
    /\ phase' = IF module < Len(Projects[project]) THEN "next"
                ELSE IF diagnostics' = <<{}>> THEN "evaluate" ELSE "done"
    /\ UNCHANGED <<project, module, tree, names, owed, steps, deferred, result>>

NextModule ==
    /\ phase = "next"
    /\ module' = module + 1
    /\ phase' = "resolve"
    /\ UNCHANGED <<project, tree, names, checker, owed, steps, deferred, environment, diagnostics,
                   result>>

\* evaluate_module: of a module without errors and imports, whose values would be
\* inputs of the evaluation.
Evaluate ==
    /\ phase = "evaluate"
    /\ \E r \in EvaluateModule(checker, tree) : result' = <<r>>
    /\ phase' = "done"
    /\ UNCHANGED <<project, module, tree, names, checker, owed, steps, deferred, environment,
                   diagnostics>>

Next ==
    \/ ResolveNames \/ CheckTypes
    \/ SkipPoisoned \/ SettleByAssumption \/ SettleByImplementation \/ Defer \/ Refuse
    \/ ReportStall \/ ReportOverflow
    \/ FinishModule \/ NextModule \/ Evaluate

Spec == Init /\ [][Next]_vars

\* The analysis is a call that runs to its end.
FairSpec == Spec /\ WF_vars(Next)

(***************************************************************************)
(* Properties.                                                             *)
(***************************************************************************)
RECURSIVE Around(_)
Around(sc) == IF sc = 0 THEN {} ELSE {sc} \cup Around(names.scopes[sc].parent)

\* The declarations of a name that were made, here and in the scopes around,
\* before it was used; a scope has a greater number than those around it.
Visible(r, ns) ==
    {i \in 1 .. r.seen : /\ names.decls[i].space = ns /\ names.decls[i].name = r.name
                         /\ names.decls[i].scope \in Around(r.scope)}
Nearest(r, ns) ==
    {i \in Visible(r, ns) : \A j \in Visible(r, ns) : names.decls[j].scope <= names.decls[i].scope}

\* A name stands for the declaration in the nearest scope that has one of it, in
\* the first namespace that has any; where that scope declares it twice, or none
\* does, it stands for nothing, and the module has an error.  (resolve_name and
\* define of the name resolver)
NearestDeclarationWins ==
    phase = "check" =>
        \A r \in names.refs :
            LET hits == {i \in DOMAIN r.spaces : Visible(r, r.spaces[i]) # {}}
                near == Nearest(r, r.spaces[CHOOSE i \in hits : \A j \in hits : i <= j])
            IN  /\ IF hits # {} /\ Cardinality(near) = 1
                   THEN r.res = names.decls[CHOOSE i \in near : TRUE].res
                   ELSE r.res = Resolver!Poison
                /\ r.res = Resolver!Poison => names.errors # {}

\* A bound holds under assumptions: one of them says so, or an implementation
\* does, all of whose bounds hold.
MaxBoundDepth == 6
RECURSIVE Holds(_, _, _, _)
Holds(u, b, assumptions, depth) ==
    \/ Assumed(u, assumptions, b) # {}
    \/ /\ depth > 0
       /\ \E m \in Matching(u, checker.impls, b) :
             \A i \in DOMAIN m.bounds : Holds(m.u, m.bounds[i], assumptions, depth - 1)

\* A module without errors owes nothing: every bound its statements brought
\* about holds, and so do the bounds of the implementations it holds by; none
\* was lost in the queue, by a stall or at the limit of steps.  (solve_obligations)
ObligationsHold ==
    phase \in {"next", "evaluate"} /\ diagnostics[module] = {} =>
        \A i \in DOMAIN owed :
            \A b \in Resolved(owed[i]) : Holds(checker.u, b, owed[i].assumptions, MaxBoundDepth)

\* The solver gives up only where no obligation is left that it could settle.
\* (consecutively_deferred of solve_obligations)
StopsOnlyWhenStuck ==
    phase = "stalled" =>
        \A o \in ToSet(checker.obligations) : \A b \in Resolved(o) :
            /\ Assumed(checker.u, o.assumptions, b) = {}
            /\ Cardinality(Matches(b)) # 1

\* What the checker has ruled out does not happen when the module is evaluated:
\* no operand, callee, receiver or argument is of the wrong kind, no value is
\* missing, and every binding of the module has a value of its type.  (checker.rs
\* against evaluator.rs)
RuledOut == {"NotCallable", "ArgumentCount", "ExpectedBoolean", "ExpectedNumber", "ExpectedString",
             "ExpectedRecord", "InvalidBuiltinCall", "InvalidAssignmentTarget", "MissingInput"}
WellTypedProgramsDoNotFault ==
    phase = "done" /\ result # <<>> =>
        LET s == result[1].s
        IN  /\ s.errors \cap RuledOut = {}
            /\ \A symbol \in DOMAIN s.globals : MatchesType(s, s.globals[symbol], TypeOf(s, symbol))

\* A module that only imports what was analysed without errors has none: what
\* register_module makes importable can be imported.  (analysis.rs, "Makes the
\* exports and inferred types of another analysed module importable.")
AnalysedModulesAreImportable ==
    \A i \in DOMAIN diagnostics :
        /\ \A j \in 1 .. i - 1 : diagnostics[j] = {}
        /\ \A st \in ToSet(Projects[project][i].program) : st.stmt = "import"
        => diagnostics[i] = {}

\* The analysis of a project comes to its end.  (the step limit of solve_obligations)
AnalysisTerminates == <>(phase = "done")
=============================================================================
