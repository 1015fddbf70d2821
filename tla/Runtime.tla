------------------------------ MODULE Runtime -------------------------------
(***************************************************************************)
(* The evaluation of a checked module                                      *)
(* (light-nix-evaluator/src/evaluator.rs): frames, lazily evaluated        *)
(* bindings of the module, closures and their captures, functions, the     *)
(* dispatch of members as the checker recorded it, patterns, type tests    *)
(* and claims.  The dependencies of values and the overrides of a plan are *)
(* the subject of Evaluator and are left out here, as are floats, the keys *)
(* of attribute sets, the values of variants and the width of integers.    *)
(*                                                                         *)
(* A value is [k, id, args], as a type is; the characters of a string are  *)
(* its args.  An outcome is a state and a signal: the value of the         *)
(* expression with the path it was read at, a value returned, or an error. *)
(***************************************************************************)
EXTENDS Inference

LOCAL INSTANCE TLC

Value(k, id, args) == [k |-> k, id |-> id, args |-> args]
UnitValue      == Value("Unit", 0, <<>>)
IntValue(n)    == Value("Int", n, <<>>)
BoolValue(b)   == Value("Bool", IF b THEN 1 ELSE 0, <<>>)
Text(codes)    == Value("String", 0, <<>> \o [i \in DOMAIN codes |-> Value("Character", codes[i], <<>>)])
ErrorValue     == Value("Error", 0, <<>>)

\* RuntimeValue::optional.  Unlike Type::optional it keeps an optional of an
\* optional, so that such a value is not of its type.
OptionalValue(vs) == Value("Optional", 0, vs)

\* Eval: a value with its path, or a signal.
Gives(s, value, path)  == Outcome(s, [signal |-> None, value |-> value, path |-> path])
Pure(s, value)         == Gives(s, value, <<>>)
Returns(s, value)      == Outcome(s, [signal |-> "Return", value |-> value, path |-> <<>>])
Fails(s, kind)         == Outcome([s EXCEPT !.errors = @ \cup {kind}],
                                  [signal |-> "Error", value |-> ErrorValue, path |-> <<>>])

\* Go on unless a signal is passed up.
Try(outcomes, Continue(_)) ==
    UNION {IF r.x.signal = None THEN Continue(r) ELSE {r} : r \in outcomes}

\* A step for each item while values are given, and those values.
Each(items, start, Step(_, _)) ==
    LET upTo[i \in 0 .. Len(items)] ==
            IF i = 0 THEN Outcome(start, [signal |-> None, value |-> <<>>, path |-> <<>>])
            ELSE Try(upTo[i - 1], LAMBDA r :
                 Try(Step(items[i], r.s), LAMBDA q :
                     Outcome(q.s, [q.x EXCEPT !.value = Append(r.x.value, @), !.path = <<>>])))
    IN  upTo[Len(items)]

\* Evaluator::new; register_module and the top level (eval_statements with
\* module_scope).  c is the finished checker.
NewEvaluator(c) ==
    [c |-> c, frames |-> <<>>, globals |-> <<>>, lets |-> <<>>, functions |-> <<>>,
     closures |-> <<>>, evaluating |-> {}, calling |-> {}, snapshot |-> <<>>, errors |-> {}]

\* register_function, register_block_functions.
Register(s, statements) ==
    Through(statements, s, LAMBDA st, t :
      CASE st.stmt = "function" -> [t EXCEPT !.functions = Put(@, st.symbol, st)]
        [] st.stmt \in {"interface", "implements"} ->
             TheOnly(Through(st.methods, t, LAMBDA f, u : [u EXCEPT !.functions = Put(@, f.symbol, f)]))
        [] OTHER -> t)

RegisterModule(s, program) ==
    On(Register(s, program), LAMBDA t :
       Through(program, t, LAMBDA st, u :
         IF st.stmt = "let" THEN [u EXCEPT !.lets = Put(@, st.symbol, st)] ELSE u))

\* bind_local: in the innermost frame.
BindLocal(s, symbol, value) ==
    IF s.frames = <<>> THEN [s EXCEPT !.globals = Put(@, symbol, value)]
    ELSE [s EXCEPT !.frames[Len(s.frames)] = Put(@, symbol, value)]

\* A frame of <<symbol, value>> pairs, and a step with a frame of its own.
FrameOf(pairs) == TheOnly(Through(pairs, <<>>, LAMBDA p, frame : Put(frame, p[1], p[2])))
InFrame(s, frame, Step(_)) ==
    Then(Step([s EXCEPT !.frames = Append(@, frame)]), LAMBDA r : {[r EXCEPT !.s.frames = s.frames]})

\* structural_default.
StructuralDefault(t) == IF t.k = "Named" THEN {Value("Record", t.id, <<>>)}
                        ELSE IF t.k = "AttrSet" THEN {Value("AttrSet", 0, <<>>)} ELSE {}

TypeOf(s, symbol) == Resolve(s.c.u, s.c.symbols[symbol].type)

\* runtime_matches_type: of generic types the declaration is compared, of
\* functions nothing.
RECURSIVE MatchesType(_, _, _)
MatchesType(s, v, t) ==
    CASE t.k = "Union" -> \E i \in DOMAIN t.args : MatchesType(s, v, t.args[i])
      [] t.k \in {"List", "Set", "Optional"} ->
           v.k = t.k /\ \A i \in DOMAIN v.args : MatchesType(s, v.args[i], t.args[1])
      [] t.k = "Named" ->
           \/ v.k = "Record" /\ v.id = t.id
           \/ v.k = "Enum" /\ \E d \in ToSet(s.c.names.variants) : d.id = v.id /\ d.owner = t.id
      [] t.k = "Function" -> v.k \in {"Function", "Closure"}
      [] t.k \in {"Error", "Unit", "Bool", "Int", "String", "Package", "AttrSet"} -> v.k = t.k
      [] OTHER -> FALSE

\* match_pattern: the bindings, or none.
RECURSIVE MatchPattern(_, _)
MatchPattern(p, v) ==
    CASE p.pat = "some"     -> IF v.k = "Optional" /\ v.args # <<>> THEN MatchPattern(p.inner, v.args[1])
                               ELSE {}
      [] p.pat = "null"     -> IF v.k = "Optional" /\ v.args = <<>> THEN {<<>>} ELSE {}
      [] p.pat = "wildcard" -> {<<>>}
      [] p.pat = "binding"  -> {p.symbol :> v}
      [] p.pat = "variant"  -> IF p.res.r = "EnumVariant" /\ v.k = "Enum" /\ v.id = p.res.id
                               THEN {<<>>} ELSE {}

\* ------------------------------------------------------------ operators
Abs(n) == IF n < 0 THEN -n ELSE n
Truncated(a, b) == LET q == Abs(a) \div Abs(b) IN IF (a < 0) = (b < 0) THEN q ELSE -q

Operator(o, l, r) ==
    LET ints == l.k = "Int" /\ r.k = "Int"
    IN  CASE o \in {"==", "!="} -> {BoolValue((l = r) = (o = "=="))}
          [] o = "+" /\ l.k = "String" /\ r.k = "String" -> {[l EXCEPT !.args = @ \o r.args]}
          [] o = "+" /\ ints -> {IntValue(l.id + r.id)}
          [] o = "-" /\ ints -> {IntValue(l.id - r.id)}
          [] o = "*" /\ ints -> {IntValue(l.id * r.id)}
          [] o = "/" /\ ints /\ r.id # 0 -> {IntValue(Truncated(l.id, r.id))}
          [] o = "<" /\ ints -> {BoolValue(l.id < r.id)}
          [] o = ">" /\ ints -> {BoolValue(l.id > r.id)}
          [] o = "<=" /\ ints -> {BoolValue(l.id <= r.id)}
          [] o = ">=" /\ ints -> {BoolValue(l.id >= r.id)}
          [] OTHER -> {}

\* --------------------------------------------------------- expressions
RECURSIVE Eval(_, _), EvalPrimary(_, _)

\* eval_block.
EvalBlock(s, block) == InFrame(s, <<>>, LAMBDA t : Eval(t, Body(block)))

\* expect_bool, expect_string.
Expect(outcomes, k, kind, Continue(_, _)) ==
    Try(outcomes, LAMBDA r : IF r.x.value.k = k THEN Continue(r.s, r.x.value) ELSE Fails(r.s, kind))

\* What a block gives to its caller: a value returned is its value.
Caught(outcomes) ==
    Then(outcomes, LAMBDA r : {IF r.x.signal = "Return" THEN [r EXCEPT !.x.signal = None] ELSE r})

\* call_function: no function is entered again while it runs.
CallFunction(s, symbol, receiver, args) ==
    IF symbol \notin DOMAIN s.functions THEN Fails(s, "MissingInput")
    ELSE IF symbol \in s.calling THEN Fails(s, "CyclicValue")
    ELSE LET f == s.functions[symbol]
             pair == [i \in DOMAIN args |-> <<f.params[i].symbol, args[i]>>]
         IN  IF Len(args) # Len(f.params) THEN Fails(s, "ArgumentCount")
             ELSE Then(InFrame([s EXCEPT !.calling = @ \cup {symbol}],
                               FrameOf(pair \o IF f.receiver = <<>> \/ receiver = <<>> THEN <<>>
                                               ELSE <<<<f.receiver[1].symbol, receiver[1]>>>>),
                               LAMBDA t : Caught(EvalBlock(t, f.body))), LAMBDA r :
                       {[r EXCEPT !.s.calling = s.calling]})

\* call_closure: the captures, then the parameters.  Only a block catches a return.
CallClosure(s, id, args) ==
    LET closure == s.closures[id]
        ps      == closure.node.params
        frame   == FrameOf([i \in DOMAIN args |-> <<ps[i].symbol, args[i]>>]) @@ closure.captures
    IN  IF Len(args) # Len(ps) THEN Fails(s, "ArgumentCount")
        ELSE InFrame(s, frame, LAMBDA t :
                     IF closure.node.isBlock THEN Caught(EvalBlock(t, closure.node.body))
                     ELSE Eval(t, closure.node.body[1].value))

\* call_callable.
CallValue(s, f, receiver, args) ==
    CASE f.k = "Function" -> CallFunction(s, f.id, receiver, args)
      [] f.k = "Closure"  -> CallClosure(s, f.id, args)
      [] OTHER            -> Fails(s, "NotCallable")

\* eval_call.
EvalCall(s, f, receiver, args) ==
    Try(Each(args, s, LAMBDA a, t : Eval(t, a)), LAMBDA as :
    Try(CallValue(as.s, f, receiver, as.x.value), LAMBDA r : Pure(r.s, r.x.value)))

\* eval_let, eval_let_default; what was evaluated has no path.
EvalLet(s, st) ==
    Try(IF IsPresent(st.value) THEN Eval(s, st.value)
        ELSE IF StructuralDefault(TypeOf(s, st.symbol)) = {} THEN Fails(s, "MissingInput")
        ELSE Then(StructuralDefault(TypeOf(s, st.symbol)), LAMBDA v : Pure(s, v)), LAMBDA r :
        Pure(r.s, r.x.value))

\* eval_symbol: the innermost frame that has it, the module's bindings, the
\* functions, a binding not evaluated yet.
EvalSymbol(s, symbol) ==
    LET inFrames == {i \in DOMAIN s.frames : symbol \in DOMAIN s.frames[i]}
        innermost == CHOOSE i \in inFrames : \A j \in inFrames : j <= i
    IN  CASE inFrames # {} -> Pure(s, s.frames[innermost][symbol])
          [] inFrames = {} /\ symbol \in DOMAIN s.globals -> Pure(s, s.globals[symbol])
          [] inFrames = {} /\ symbol \notin DOMAIN s.globals /\ symbol \in DOMAIN s.functions ->
               Pure(s, Value("Function", symbol, <<>>))
          [] inFrames = {} /\ symbol \notin DOMAIN s.globals \cup DOMAIN s.functions ->
               IF symbol \notin DOMAIN s.lets THEN Fails(s, "MissingInput")
               ELSE IF symbol \in s.evaluating THEN Fails(s, "CyclicValue")
               ELSE Try(Then(EvalLet([s EXCEPT !.evaluating = @ \cup {symbol}], s.lets[symbol]),
                             LAMBDA r : {[r EXCEPT !.s.evaluating = s.evaluating]}), LAMBDA r :
                        Pure([r.s EXCEPT !.globals = Put(@, symbol, r.x.value)], r.x.value))

\* eval_value of a name: a claim of the whole binding overrides it.
EvalName(s, e) ==
    CASE e.res.r = "Symbol" ->
           Try(EvalSymbol(s, e.res.id), LAMBDA r :
               Gives(r.s, Known(r.s.snapshot, <<e.res.id>>, r.x.value), <<e.res.id>>))
      [] e.res.r \in {"Type", "Module"} -> Pure(s, Value(e.res.r, e.res.id, <<>>))
      [] OTHER -> Pure(s, ErrorValue)

\* eval_field: what was claimed of it, or the default of its type.
EvalField(s, receiver, path, field) ==
    LET here == IF path = <<>> THEN <<>> ELSE Append(path, field)
    IN  IF here # <<>> /\ here \in DOMAIN s.snapshot THEN Gives(s, s.snapshot[here], here)
        ELSE IF receiver.k # "Record" THEN Fails(s, "ExpectedRecord")
        ELSE IF StructuralDefault(Resolve(s.c.u, s.c.fields[field])) = {} THEN Fails(s, "MissingField")
        ELSE Then(StructuralDefault(Resolve(s.c.u, s.c.fields[field])), LAMBDA v : Gives(s, v, here))

\* eval_builtin.
EvalBuiltin(s, receiver, name, args) ==
    LET elements(kept) == IF receiver.k = "Set" THEN Distinct(kept) ELSE kept
        collection == receiver.k \in {"List", "Set"} /\ Len(args) = 1
        each(Applied(_, _)) == Each(receiver.args, s, Applied)
        applied(v, t) == CallValue(t, args[1], <<>>, <<v>>)
        tested(v, t)  == Expect(applied(v, t), "Bool", "ExpectedBoolean", Pure)
        chosen(tests) == Concat([i \in DOMAIN tests |-> IF tests[i] = BoolValue(TRUE)
                                                        THEN <<receiver.args[i]>> ELSE <<>>])
    IN  CASE name = "contains" /\ collection ->
               Pure(s, BoolValue(args[1] \in ToSet(receiver.args)))
          [] name = "map" /\ collection ->
               Try(each(applied), LAMBDA r : Pure(r.s, Value(receiver.k, 0, elements(r.x.value))))
          [] name = "filter" /\ collection ->
               Try(each(tested), LAMBDA r : Pure(r.s, Value(receiver.k, 0, chosen(r.x.value))))
          [] name = "to_string" /\ args = <<>> /\ receiver.k = "String" -> Pure(s, receiver)
          [] name = "to_string" /\ args = <<>> /\ receiver.k \in {"Int", "Bool"} ->
               Pure(s, [receiver EXCEPT !.k = "String", !.id = 0, !.args = <<receiver>>])
          [] OTHER -> Fails(s, "InvalidBuiltinCall")

\* eval_regular_access: as the checker resolved the member; call is <<>> or
\* <<arguments>>.
EvalMember(s, receiver, path, e, call) ==
    LET member == Known(s.c.members, e.at, Member(None, 0))
    IN  CASE e.res.r = "EnumVariant" -> Pure(s, Value("Enum", e.res.id, <<>>))
          [] e.res.r = "Symbol" ->
               Try(EvalSymbol(s, e.res.id), LAMBDA r :
                   IF call = <<>> THEN {r} ELSE EvalCall(r.s, r.x.value, <<>>, call[1]))
          [] e.res.r \notin {"EnumVariant", "Symbol"} ->
               CASE member.m = "Field" -> EvalField(s, receiver, path, member.id)
                 [] member.m = "Method" ->
                      IF call = <<>> \/ member.implementation = 0 THEN Fails(s, "UnresolvedDispatch")
                      ELSE EvalCall(s, Value("Function", member.implementation, <<>>),
                                    <<receiver>>, call[1])
                 [] member.m = None -> Fails(s, "InvalidBuiltinCall")
                 [] OTHER ->
                      IF call = <<>> THEN Fails(s, "InvalidBuiltinCall")
                      ELSE Try(Each(call[1], s, LAMBDA a, t : Eval(t, a)), LAMBDA as :
                               EvalBuiltin(as.s, receiver, member.m, as.x.value))

\* eval_access: ?. reaches into an optional.
EvalAccess(outcomes, e, call) ==
    Try(outcomes, LAMBDA r :
      IF e.dot # "?." \/ r.x.value.k # "Optional" THEN EvalMember(r.s, r.x.value, r.x.path, e, call)
      ELSE IF r.x.value.args = <<>> THEN Pure(r.s, OptionalValue(<<>>))
      ELSE Try(EvalMember(r.s, r.x.value.args[1], r.x.path, e, call), LAMBDA m :
               IF m.x.value.k = "Optional" THEN {m} ELSE Pure(m.s, OptionalValue(<<m.x.value>>))))

\* eval_value and the accesses behind it.
EvalPrimary(s, e) ==
    CASE e.op = "name"   -> EvalName(s, e)
      [] e.op = "access" -> EvalAccess(EvalPrimary(s, e.arg), e, <<>>)
      [] e.op = "call" ->
           IF e.callee.op = "access" THEN EvalAccess(EvalPrimary(s, e.callee.arg), e.callee, <<e.args>>)
           ELSE Try(EvalName(s, e.callee), LAMBDA f : EvalCall(f.s, f.x.value, <<>>, e.args))
      [] e.op = "array" ->
           Try(Each(e.args, s, LAMBDA a, t : EvalPrimary(t, a)), LAMBDA r :
               Pure(r.s, Value(e.kind, 0, IF e.kind = "Set" THEN Distinct(r.x.value) ELSE r.x.value)))
      [] e.op = "some" -> Try(Eval(s, e.arg), LAMBDA r : Pure(r.s, OptionalValue(<<r.x.value>>)))
      [] e.op = "null" -> Pure(s, OptionalValue(<<>>))
      [] e.op = "num"  -> Pure(s, IntValue(e.value))
      [] e.op = "bool" -> Pure(s, BoolValue(e.value))
      [] e.op = "str"  -> Pure(s, IF e.at \in s.c.packages THEN [Text(e.value) EXCEPT !.k = "Package"]
                                  ELSE Text(e.value))

\* Expression::If: from branch i on.
RECURSIVE EvalIf(_, _, _)
EvalIf(s, e, i) ==
    IF i > Len(e.branches) THEN IF e.otherwise = <<>> THEN Pure(s, UnitValue)
                                ELSE EvalBlock(s, e.otherwise[1])
    ELSE Expect(Eval(s, e.branches[i].condition), "Bool", "ExpectedBoolean", LAMBDA t, v :
           IF v = BoolValue(TRUE) THEN EvalBlock(t, e.branches[i].body) ELSE EvalIf(t, e, i + 1))

\* Expression::Match, eval_match_arm: the first arm that matches.
EvalMatch(s, e) ==
    Try(Eval(s, e.arg), LAMBDA v :
      LET matching == {i \in DOMAIN e.arms : MatchPattern(e.arms[i].pattern, v.x.value) # {}}
          first    == CHOOSE i \in matching : \A j \in matching : i <= j
      IN  IF matching = {} THEN Fails(v.s, "NoMatchingPattern")
          ELSE UNION {InFrame(v.s, bindings, LAMBDA t : Eval(t, e.arms[first].value)) :
                         bindings \in MatchPattern(e.arms[first].pattern, v.x.value)})

\* eval_binary: and, or look at the right side only where the left leaves it open.
EvalBinary(s, e) ==
    IF e.operator \in {"and", "or"}
    THEN Expect(Eval(s, e.left), "Bool", "ExpectedBoolean", LAMBDA t, l :
           IF l = BoolValue(e.operator = "or") THEN Pure(t, l)
           ELSE Expect(Eval(t, e.right), "Bool", "ExpectedBoolean", LAMBDA u, r : Pure(u, r)))
    ELSE Try(Eval(s, e.left), LAMBDA l :
         Try(Eval(l.s, e.right), LAMBDA r :
             IF Operator(e.operator, l.x.value, r.x.value) # {}
             THEN Then(Operator(e.operator, l.x.value, r.x.value), LAMBDA v : Pure(r.s, v))
             ELSE Fails(r.s, IF e.operator = "/" /\ r.x.value = IntValue(0) THEN "DivisionByZero"
                             ELSE "ExpectedNumber")))

\* eval_closure: every binding of every frame is captured.
EvalClosure(s, e) ==
    Pure([s EXCEPT !.closures = Append(@, [node |-> e, captures |->
            TheOnly(Through(s.frames, <<>>, LAMBDA frame, all : frame @@ all))])],
         Value("Closure", Len(s.closures) + 1, <<>>))

\* ---------------------------------------------------------- statements
\* assignment_path: a binding of the module's own, and fields of it; with the
\* type of what is assigned to.
RECURSIVE AssignmentPath(_, _)
AssignmentPath(s, e) ==
    CASE e.op = "name" /\ e.res.r = "Symbol"
         /\ \A d \in ToSet(s.c.names.symbols) : d.id = e.res.id => d.kind = "let" ->
           {[path |-> <<e.res.id>>, type |-> TypeOf(s, e.res.id)]}
      [] e.op = "access" /\ Known(s.c.members, e.at, Member(None, 0)).m = "Field" ->
           UNION {{[path |-> Append(p.path, f.id), type |-> Resolve(s.c.u, f.type)] :
                      f \in NamedField(s.c, p.type, e.name)} : p \in AssignmentPath(s, e.arg)}
      [] OTHER -> {}

\* eval_assign_value: a path is claimed once.
RECURSIVE EvalAssign(_, _, _, _)
EvalAssign(s, path, t, e) ==
    IF e.op # "nested"
    THEN Try(Eval(s, e), LAMBDA r :
             IF path \in DOMAIN r.s.snapshot THEN Fails(r.s, "DuplicateAssignment")
             ELSE Pure([r.s EXCEPT !.snapshot = Put(@, path, r.x.value)], UnitValue))
    ELSE Each(e.fields, s, LAMBDA f, u :
             IF NamedField(u.c, t, f.name) = {} THEN Fails(u, "InvalidAssignmentTarget")
             ELSE UNION {EvalAssign(u, Append(path, field.id), field.type, f.value) :
                            field \in NamedField(u.c, t, f.name)})

\* eval_statement.
EvalStatement(s, st) ==
    CASE st.stmt = "expr" -> Eval(s, st.value)
      [] st.stmt = "let" ->
           IF s.frames = <<>> THEN EvalSymbol(s, st.symbol)
           ELSE Try(EvalLet(s, st), LAMBDA r : Pure(BindLocal(r.s, st.symbol, r.x.value), r.x.value))
      [] st.stmt = "assert" ->
           Expect(Eval(s, st.value), "Bool", "ExpectedBoolean", LAMBDA t, v :
                  IF v = BoolValue(TRUE) THEN Pure(t, UnitValue) ELSE Fails(t, "AssertionFailed"))
      [] st.stmt = "assign" ->
           LET targets == AssignmentPath(s, st.target)
           IN  IF targets = {} THEN Fails(s, "InvalidAssignmentTarget")
               ELSE UNION {Try(EvalAssign(s, t.path, t.type, st.value), LAMBDA r : Pure(r.s, UnitValue)) :
                              t \in targets}
      [] OTHER -> Pure(s, UnitValue)

\* eval_statements.
EvalStatements(s, statements) ==
    Then(Register(s, statements), LAMBDA t :
    Try(Each(statements, t, LAMBDA st, u : EvalStatement(u, st)), LAMBDA r :
        Pure(r.s, IF r.x.value = <<>> THEN UnitValue ELSE r.x.value[Len(statements)])))

\* eval_expression.
Eval(s, e) ==
    CASE e.op = "body"    -> EvalStatements(s, e.statements)
      [] e.op = "if"      -> EvalIf(s, e, 1)
      [] e.op = "match"   -> EvalMatch(s, e)
      [] e.op = "closure" -> EvalClosure(s, e)
      [] e.op = "binary"  -> EvalBinary(s, e)
      [] e.op = "return"  -> IF IsPresent(e.arg) THEN Try(Eval(s, e.arg), LAMBDA r : Returns(r.s, r.x.value))
                             ELSE Returns(s, UnitValue)
      [] e.op = "throw"   -> Expect(Eval(s, e.arg), "String", "ExpectedString", LAMBDA t, v :
                                    Fails(t, "Thrown"))
      [] e.op = "elvis"   ->
           Expect(Eval(s, e.left), "Optional", "InvalidBuiltinCall", LAMBDA t, v :
                  IF v.args # <<>> THEN Pure(t, v.args[1])
                  ELSE Try(Eval(t, e.right), LAMBDA r : Pure(r.s, r.x.value)))
      [] e.op \in {"is", "as"} ->
           Try(Eval(s, e.arg), LAMBDA r :
             LET target  == TheOnly({Resolve(t.s.u, t.x) : t \in LowerRaw(s.c, e.target)})
                 matches == MatchesType(s, r.x.value, target)
             IN  Gives(r.s, IF e.op = "is" THEN BoolValue(matches)
                            ELSE OptionalValue(IF matches THEN <<r.x.value>> ELSE <<>>), r.x.path))
      [] e.op = "negate"  -> Expect(Eval(s, e.arg), "Int", "ExpectedNumber", LAMBDA t, v :
                                    Pure(t, IntValue(-v.id)))
      [] OTHER -> EvalPrimary(s, e)

\* Evaluator::evaluate: an error, or a return, ends the module.
EvaluateModule(c, program) ==
    On(RegisterModule(NewEvaluator(c), program), LAMBDA s : Eval(s, Body(program)))
=============================================================================
