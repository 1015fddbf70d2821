------------------------------ MODULE Evaluator -----------------------------
(***************************************************************************)
(* The concrete evaluator (light-nix-evaluator/src/evaluator.rs) on the    *)
(* core language of Programs: one step per top-level statement, bindings   *)
(* evaluated on first use and remembered, claims entered into a snapshot   *)
(* with the tunable bindings they depend on.                               *)
(*                                                                         *)
(* A tracked value carries the bindings it was computed from: `deps` those *)
(* it is an exact function of, `opaque` those that reached it through an   *)
(* opaque function.                                                        *)
(***************************************************************************)
EXTENDS Scopes, Functions

LOCAL INSTANCE SequencesExt

CONSTANTS MaxInt,     \* i64::MAX; arithmetic above it is an error
          NoError

VARIABLES
    program,      \* the statements of the module
    inputs,       \* EvaluationInputs: the overrides of bindings and outputs
    at,           \* the next top-level statement
    values,       \* global_values: tracked values of the bindings evaluated so far
    snapshot,     \* path -> [value, deps, opaque]
    error         \* the first entry of errors; it ends the evaluation

evaluatorVars == <<program, inputs, at, values, snapshot, error>>

NoOverrides == [tunables |-> <<>>, outputs |-> <<>>]
Unit == "unit"

Pure(v) == [value |-> v, deps |-> {}, opaque |-> {}]
Merge(l, r, v) == [value |-> v, deps |-> l.deps \cup r.deps, opaque |-> l.opaque \cup r.opaque]
WithControl(t, c) == Merge(t, c, t.value)

\* What the recursive walk returns, and what it changes: the memo, the bindings
\* of the blocks and arms around, those under evaluation, the snapshot and the
\* error.
Result(t, s) == [tracked |-> t, state |-> s]
Failure(kind, s) == Result(Pure(Unit), [s EXCEPT !.error = kind])

\* The `?` of Rust: go on with the value and the state, unless there is an error.
Try(r, Continue(_, _)) ==
    IF r.state.error = NoError THEN Continue(r.tracked, r.state) ELSE r

Apply(o, l, r) ==
    CASE o = "and" -> Bool(l = Yes /\ r = Yes)
      [] o = "or"  -> Bool(l = Yes \/ r = Yes)
      [] o = "eq"  -> Bool(l = r)
      [] o = "add" -> l + r
      [] o = "div" -> l \div r

RECURSIVE Eval(_, _, _), EvalStatements(_, _, _, _)

Depending(t, names) == [t EXCEPT !.deps = @ \cup names]

EvalLet(st, c, s) ==
    IF st.tunable /\ st.symbol \in DOMAIN inputs.tunables
    THEN Result(Depending(Pure(inputs.tunables[st.symbol]), {st.symbol}), s)
    ELSE Try(Eval(st.value, c, s), LAMBDA t, s1 :
             Result(Depending(t, IF st.tunable THEN {st.symbol} ELSE {}), s1))

Remember(x, t, s) ==
    [s EXCEPT !.evaluating = @ \ {x},
              !.values = Put(@, x, t)]

EvalSymbol(x, c, s) ==
    IF x \in DOMAIN s.locals THEN Result(s.locals[x], s)
    ELSE IF x \in DOMAIN s.values THEN Result(s.values[x], s)
    ELSE IF x \in s.evaluating THEN Failure("CyclicValue", s)
    ELSE Try(EvalLet(LetOf(program, x), c, [s EXCEPT !.evaluating = @ \cup {x}]),
             LAMBDA t, s1 : Result(t, Remember(x, t, s1)))

ApplyChecked(o, l, r, s) ==
    IF o = "div" /\ r.value = 0 THEN Failure("DivisionByZero", s)
    ELSE IF o = "add" /\ l.value + r.value > MaxInt THEN Failure("IntegerOverflow", s)
    ELSE Result(Merge(l, r, Apply(o, l.value, r.value)), s)

EvalBinary(e, c, s) ==
    Try(Eval(e.left, c, s), LAMBDA l, s1 :
        IF <<e.op, l.value>> \in {<<"and", No>>, <<"or", Yes>>} THEN Result(l, s1)
        ELSE Try(Eval(e.right, c, s1), LAMBDA r, s2 : ApplyChecked(e.op, l, r, s2)))

\* eval_block and the frame of an arm: what is bound in it ends with it.
Leave(t, outer, s) == Result(t, [s EXCEPT !.locals = outer.locals])

\* Mutant: the guards reach the value of the block but not its claims.
ControlledValueOnly(block, guards, c, s) ==
    Try(EvalStatements(block, 1, c, s), LAMBDA t, s1 : Leave(WithControl(t, guards), s, s1))

\* eval_controlled_block: the guards flow into every claim of the block and
\* into its value.
Controlled(block, guards, c, s) ==
    Try(EvalStatements(block, 1, Merge(c, guards, Unit), s),
        LAMBDA t, s1 : Leave(WithControl(t, guards), s, s1))

EvalIf(e, c, s) ==
    Try(Eval(e.condition, c, s), LAMBDA guards, s1 :
        IF guards.value = No /\ e.otherwise = NoBlock
        THEN Result(Depending(Pure(Unit), guards.deps), s1)
        ELSE Controlled(IF guards.value = Yes THEN e.then ELSE e.otherwise, guards, c, s1))

EvalElvis(e, c, s) ==
    Try(Eval(e.optional, c, s), LAMBDA o, s1 :
        IF o.value # <<>> THEN Result([o EXCEPT !.value = @[1]], s1)
        ELSE Try(Eval(e.fallback, c, s1), LAMBDA f, s2 : Result(Merge(o, f, f.value), s2)))

\* match_pattern: whether a value matches, and what is bound when it does.
RECURSIVE Matches(_, _), Bound(_, _, _)
Matches(pat, v) ==
    CASE pat.pat = "some" -> v # <<>> /\ Matches(pat.inner, v[1])
      [] pat.pat = "null" -> v = <<>>
      [] OTHER            -> TRUE

Bound(pat, t, locals) ==
    CASE pat.pat = "some"    -> Bound(pat.inner, [t EXCEPT !.value = @[1]], locals)
      [] pat.pat = "binding" -> Put(locals, pat.symbol, t)
      [] OTHER               -> locals

\* eval_match_arm: what was matched on decides the arm, as a guard does.
EvalArm(arm, matched, c, s) ==
    Try(Eval(arm.value, Merge(c, matched, Unit), [s EXCEPT !.locals = Bound(arm.pattern, matched, @)]),
        LAMBDA t, s1 : Leave(WithControl(t, matched), s, s1))

EvalMatch(e, c, s) ==
    Try(Eval(e.matched, c, s), LAMBDA matched, s1 :
        LET fitting == {k \in DOMAIN e.arms : Matches(e.arms[k].pattern, matched.value)}
        IN  IF fitting = {} THEN Failure("NoMatchingPattern", s1)
            ELSE EvalArm(e.arms[CHOOSE k \in fitting : \A j \in fitting : k <= j], matched, c, s1))

\* The elements of a literal in their order, as one tracked sequence.
RECURSIVE EvalElements(_, _, _)
EvalElements(es, c, s) ==
    IF es = <<>> THEN Result(Pure(<<>>), s)
    ELSE Try(Eval(Head(es), c, s), LAMBDA t, s1 :
             Try(EvalElements(Tail(es), c, s1), LAMBDA rest, s2 :
                 Result(Merge(t, rest, <<t.value>> \o rest.value), s2)))

EvalArray(e, c, s) ==
    Try(EvalElements(e.elements, c, s), LAMBDA t, s1 :
        Result([t EXCEPT !.value = IF e.op = "list" THEN ListValue(@) ELSE SetValue(ToSet(@))], s1))

\* A closure captures what the frames around it hold.
EvalClosure(e, s) == Result(Pure([closure |-> e, captures |-> s.locals]), s)

\* call_callable and call_closure: behind an opaque closure every dependency is opaque.
CallClosure(f, t, c, s) ==
    LET closure == f.value.closure
    IN  Try(Eval(closure.body, c, [s EXCEPT !.locals = Put(f.value.captures, closure.parameter, t)]),
            LAMBDA r, s1 :
              LET all == WithControl(WithControl(r, f), t)
              IN  Leave(IF closure.mode = "inline" THEN all
                        ELSE [all EXCEPT !.deps = {}, !.opaque = @ \cup all.deps], s, s1))

\* The answers for the elements of a collection, each as dependent as the collection.
RECURSIVE CallEach(_, _, _, _, _)
CallEach(f, elements, receiver, c, s) ==
    IF elements = <<>> THEN Result(Pure(<<>>), s)
    ELSE Try(CallClosure(f, [receiver EXCEPT !.value = Head(elements)], c, s), LAMBDA t, s1 :
             Try(CallEach(f, Tail(elements), receiver, c, s1), LAMBDA rest, s2 :
                 Result(Merge(t, rest, <<t.value>> \o rest.value), s2)))

IsList(v)   == "list" \in DOMAIN v
Elements(v) == IF IsList(v) THEN v.list ELSE SetToSeq(v.set)

\* What filter keeps and map makes of the elements, given the answers.
Collected(o, elements, answers) ==
    IF o = "map" THEN answers
    ELSE LET kept == SelectSeq([k \in DOMAIN elements |-> k], LAMBDA k : answers[k] = Yes)
         IN  [k \in DOMAIN kept |-> elements[kept[k]]]

EvalBuiltin(e, c, s) ==
    Try(Eval(e.receiver, c, s), LAMBDA r, s1 :
        Try(Eval(e.argument, c, s1), LAMBDA a, s2 :
            LET elements == Elements(r.value)
            IN  IF e.op = "contains" THEN Result(Merge(r, a, Bool(a.value \in ToSet(elements))), s2)
                ELSE Try(CallEach(a, elements, r, c, s2), LAMBDA answers, s3 :
                         LET result == Collected(e.op, elements, answers.value)
                         IN  Result(Merge(Merge(r, a, Unit), answers,
                                          IF IsList(r.value) THEN ListValue(result)
                                          ELSE SetValue(ToSet(result))), s3))))

\* A call of an opaque function, here one that returns its argument.
EvalCall(e, c, s) ==
    Try(Eval(e.argument, c, s), LAMBDA t, s1 :
        Result([value |-> t.value, deps |-> {}, opaque |-> t.deps \cup t.opaque], s1))

Eval(e, c, s) ==
    CASE e.op = "const"  -> Result(Pure(e.value), s)
      [] e.op = "ref"    -> EvalSymbol(e.symbol, c, s)
      [] e.op = "read"   -> IF e.path \in DOMAIN s.snapshot
                            THEN Result(s.snapshot[e.path], s)
                            ELSE Failure("MissingField", s)
      [] e.op = "if"     -> EvalIf(e, c, s)
      [] e.op = "opaque" -> EvalCall(e, c, s)
      [] e.op = "throw"  -> Failure("Thrown", s)
      [] e.op = "some"   -> Try(Eval(e.operand, c, s), LAMBDA t, s1 :
                                Result([t EXCEPT !.value = <<@>>], s1))
      [] e.op = "null"   -> Result(Pure(<<>>), s)
      [] e.op = "elvis"  -> EvalElvis(e, c, s)
      [] e.op = "match"  -> EvalMatch(e, c, s)
      [] e.op = "closure" -> EvalClosure(e, s)
      [] IsArray(e)      -> EvalArray(e, c, s)
      [] IsBuiltin(e)    -> EvalBuiltin(e, c, s)
      [] IsBinary(e)     -> EvalBinary(e, c, s)

Enter(p, t, s) ==
    IF p \in DOMAIN s.snapshot THEN Failure("DuplicateAssignment", s)
    ELSE Result(Pure(Unit),
                [s EXCEPT !.snapshot = Put(@, p, t)])

EvalClaim(st, c, s) ==
    IF st.path \in DOMAIN inputs.outputs THEN Result(Pure(Unit), s)
    ELSE Try(Eval(st.value, c, s), LAMBDA t, s1 : Enter(st.path, WithControl(t, c), s1))

EvalAssert(st, c, s) ==
    Try(Eval(st.condition, c, s), LAMBDA t, s1 :
        IF t.value = Yes THEN Result(Pure(Unit), s1) ELSE Failure("AssertionFailed", s1))

\* A let of a block is evaluated where it stands.
EvalLocal(st, c, s) ==
    Try(EvalLet(st, c, s), LAMBDA t, s1 : Result(t, [s1 EXCEPT !.locals = Put(@, st.symbol, t)]))

EvalStatement(st, c, s) ==
    CASE st.stmt = "let"    -> EvalSymbol(st.symbol, c, s)
      [] st.stmt = "local"  -> EvalLocal(st, c, s)
      [] st.stmt = "claim"  -> EvalClaim(st, c, s)
      [] st.stmt = "expr"   -> Eval(st.value, c, s)
      [] st.stmt = "assert" -> EvalAssert(st, c, s)

\* eval_statements from the k-th on: the value is that of the last statement.
EvalStatements(block, k, c, s) ==
    IF block = <<>> THEN Result(Pure(Unit), s)
    ELSE Try(EvalStatement(block[k], c, s), LAMBDA t, s1 :
             IF k = Len(block) THEN Result(t, s1) ELSE EvalStatements(block, k + 1, c, s1))

(***************************************************************************)
(* The evaluation of a module.  The outputs overridden with a value are in *)
(* the snapshot before the first statement.                                *)
(***************************************************************************)
OverriddenSnapshot(i) ==
    LET present == {p \in DOMAIN i.outputs : i.outputs[p] # Absent}
    IN  [p \in present |-> Pure(i.outputs[p])]

EvaluatorInit(p, i) ==
    /\ program = p
    /\ inputs = i
    /\ at = 1
    /\ values = <<>>
    /\ snapshot = OverriddenSnapshot(i)
    /\ error = NoError

\* A new evaluation of program p with inputs i.
Evaluate(p, i) ==
    /\ program' = p
    /\ inputs' = i
    /\ at' = 1
    /\ values' = <<>>
    /\ snapshot' = OverriddenSnapshot(i)
    /\ error' = NoError

Statement ==
    /\ at <= Len(program)
    /\ error = NoError
    /\ LET r == EvalStatement(program[at], Pure(Unit),
                              [values |-> values, evaluating |-> {}, locals |-> <<>>,
                               snapshot |-> snapshot, error |-> error])
       IN  /\ values' = r.state.values
           /\ snapshot' = r.state.snapshot
           /\ error' = r.state.error
    /\ at' = at + 1
    /\ UNCHANGED <<program, inputs>>

Evaluated == at > Len(program) \/ error # NoError
Success == at > Len(program) /\ error = NoError

\* The values of a snapshot, without the dependencies.
OutputsOf(s) == [p \in DOMAIN s |-> s[p].value]

\* EvaluationSnapshot::diff: the paths whose value differs, with the union of
\* what both entries depend on.
Entry(s, p) == IF p \in DOMAIN s THEN {s[p]} ELSE {}
Diff(before, after) ==
    LET changed == {p \in DOMAIN before \cup DOMAIN after :
                      {t.value : t \in Entry(before, p)} # {t.value : t \in Entry(after, p)}}
    IN  [p \in changed |->
           [deps   |-> UNION {t.deps : t \in Entry(before, p) \cup Entry(after, p)},
            opaque |-> UNION {t.opaque : t \in Entry(before, p) \cup Entry(after, p)}]]
=============================================================================
