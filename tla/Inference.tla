----------------------------- MODULE Inference ------------------------------
(***************************************************************************)
(* The walk of the checker over statements and expressions                 *)
(* (light-nix-type-checker/src/checker.rs): the type of every expression,  *)
(* the unifications and obligations it brings about, the refinement of a   *)
(* binding behind an `is` test, and the member an access stands for.       *)
(***************************************************************************)
EXTENDS Schemes

LOCAL INSTANCE TLC

\* A member of an instance: a field, a key, a builtin method, or a method of an
\* interface with its declaration and, once it is known, its implementation.
Member(m, id)            == [m |-> m, id |-> id, declaration |-> 0, implementation |-> 0]
MethodOf(method, symbol) == [m |-> "Method", id |-> method.owner,
                             declaration |-> method.symbol, implementation |-> symbol]
Stands(c, at, member)    == [c EXCEPT !.members = Put(@, at, member)]

\* PrimaryState.
AsValue(t)     == [p |-> "Value", t |-> t]
AsType(id)     == [p |-> "Type", t |-> Named(id, <<>>)]
AsModule       == [p |-> "Module", t |-> ErrorType]
AsError        == [p |-> "Error", t |-> ErrorType]

\* Go on with each state of a set of states.
On(states, Continue(_)) == UNION {Continue(c) : c \in states}

Bind(c, symbol, t) == [c EXCEPT !.symbols = Put(@, symbol, Monomorphic(t))]

\* require_numeric, require_boolean.
RequireNumeric(c, t) == [c EXCEPT !.capabilities = @ \cup {[need |-> "Numeric", type |-> t]}]
RequireBoolean(c, t) ==
    On(UnifyAt(c, BoolType, t), LAMBDA d :
       {[d EXCEPT !.capabilities = @ \cup {[need |-> "Boolean", type |-> t]}]})

\* ------------------------------------------------------------- schemes
\* instantiate_scheme_in_order: fresh variables, but for the arguments written.
Instantiate(c, scheme, targs, order) ==
    LET wrong == ComplainIf(ComplainIf(c, targs # <<>> /\ scheme.params = <<>>,
                                       "TypeArgumentsOnMonomorphicValue"),
                            Len(targs) > Len(order), "TypeArgumentCount")
    IN  Then(FreshMap(wrong.u, scheme.params), LAMBDA fresh :
        Then(Thread([i \in DOMAIN targs \cap DOMAIN order |-> targs[i]],
                    [wrong EXCEPT !.u = fresh.s], LAMBDA ti, d : IF IsWritten(ti) THEN LowerInfo(d, ti) ELSE Outcome(d, ErrorType)), LAMBDA given :
        Then({[p \in {order[i] : i \in {j \in DOMAIN given.x : IsWritten(targs[j])}} |->
                  given.x[CHOOSE i \in DOMAIN order : order[i] = p]] @@ fresh.x}, LAMBDA map :
             Outcome(given.s, [type |-> Substitute(scheme.type, map), map |-> map,
                               bounds |-> SubstituteBounds(scheme.bounds, map)]))))

\* instantiate_symbol.
InstantiateSymbol(c, symbol, targs) ==
    IF symbol \notin DOMAIN c.symbols THEN Outcome(c, ErrorType)
    ELSE Then(Instantiate(c, c.symbols[symbol], targs, ExplicitOrder(c.symbols[symbol])), LAMBDA i :
              Outcome(OweEach(i.s, i.x.bounds), i.x.type))

\* may_satisfy_interface.
MaySatisfy(c, receiver, interface) ==
    \/ \E b \in ToSet(c.assumptions) :
          IdOf(b.interface) = interface /\ \E q \in Unify(c.u, receiver, b.subject) : q.x = None
    \/ \E i \in ToSet(c.impls) :
          /\ IdOf(i.interface) = interface
          /\ \E m \in FreshMap(c.u, i.params) :
             \E q \in Unify(m.s, receiver, Substitute(i.target, m.x)) : q.x = None

\* ------------------------------------------------------------- members
\* resolve_named_field: the field and its type as the receiver sees it, or none.
NamedField(c, receiver, name) ==
    IF receiver.k # "Named" \/ <<receiver.id, name>> \notin DOMAIN c.lookup THEN {}
    ELSE LET id == c.lookup[<<receiver.id, name>>]
             ps == Known(c.params, receiver.id, <<>>)
         IN  {[id |-> id,
               type |-> Substitute(Known(c.fields, id, ErrorType),
                   [p \in {ps[i] : i \in DOMAIN ps \cap DOMAIN receiver.args} |->
                       receiver.args[CHOOSE i \in DOMAIN ps : ps[i] = p]])]}

\* find_builtin_method and the function it stands for (infer_builtin_member).
BuiltinMethods(t) == CASE t.k \in {"Set", "List"} -> {"contains", "filter", "map"}
                       [] t.k = "Int"             -> {"to_float", "to_string"}
                       [] t.k = "Float"           -> {"try_to_int", "to_string"}
                       [] t.k \in {"Bool", "String"} -> {"to_string"}
                       [] OTHER                   -> {}
BuiltinFunction(c, t, name) ==
    CASE name = "contains"   -> Outcome(c, Function(t.args, BoolType))
      [] name = "filter"     -> Outcome(c, Function(<<Function(t.args, BoolType)>>, t))
      [] name = "map"        -> Then(Fresh(c), LAMBDA r :
                                     Outcome(r.s, Function(<<Function(t.args, r.x)>>,
                                                           T(t.k, 0, <<r.x>>))))
      [] name = "to_float"   -> Outcome(c, Function(<<>>, Basic("Float")))
      [] name = "try_to_int" -> Outcome(c, Function(<<>>, Optional(IntType)))
      [] name = "to_string"  -> Outcome(c, Function(<<>>, StringType))

\* The methods of interfaces a member may be: of several those the receiver may
\* have.  A method that two environments bring in counts twice.
MethodsNamed(c, receiver, name) ==
    LET all == {i \in DOMAIN c.methods : c.methods[i].name = name /\ c.methods[i].receiver # <<>>}
    IN  IF Cardinality(all) <= 1 THEN all
        ELSE {i \in all : MaySatisfy(c, receiver, c.methods[i].owner)}

\* infer_member, for a method of an interface: the receiver is a This that has
\* the bounds of the method, and its implementation is an obligation.
InterfaceMethod(c, receiver, e, method) ==
    Then(Instantiate(c, method.scheme, e.targs, method.order), LAMBDA i :
    Then({Substitute(method.receiver[1], i.x.map)}, LAMBDA this :
    On(UnifyAt(i.s, receiver, this), LAMBDA d :
       Outcome(Owe(Stands(OweEach(d, <<>> \o [j \in DOMAIN i.x.bounds |->
                              IF i.x.bounds[j].subject = this
                              THEN [i.x.bounds[j] EXCEPT !.subject = receiver] ELSE i.x.bounds[j]]),
                          e.at, MethodOf(method, 0)),
                   Bounded(receiver, Substitute(method.interface, i.x.map)), <<[at |-> e.at, method |-> method]>>),
               i.x.type))))

\* ------------------------------------------------------- refined bindings
\* type_refinement: the symbol, what it is where the test holds, what else it is.
NoRefinement == {}
Refinement(c, condition) ==
    IF /\ condition.op = "is" /\ condition.arg.op = "name"
       /\ condition.arg.targs = <<>> /\ condition.arg.res.r = "Symbol"
       /\ condition.arg.res.id \in DOMAIN c.symbols
    THEN {[symbol |-> symbol, yes |-> target, no |-> Without(original, target)] :
             symbol   \in {condition.arg.res.id},
             original \in {Resolve(c.u, c.symbols[condition.arg.res.id].type)},
             target   \in {Resolve(t.s.u, t.x) : t \in LowerRaw(c, condition.target)}}
    ELSE NoRefinement

Refine(c, refinement, way) ==
    IF refinement = {} THEN c
    ELSE LET r == TheOnly(refinement) IN Bind(c, r.symbol, IF way = "yes" THEN r.yes ELSE r.no)

\* Mutant: the refinement of a branch outlives it.
RestoreNothing(c, saved, refinement) == c
Restore(c, saved, refinement) ==
    IF refinement = {} THEN c
    ELSE [c EXCEPT !.symbols[TheOnly(refinement).symbol] = saved.symbols[TheOnly(refinement).symbol]]

\* ------------------------------------------------------------ literals
\* promote_value_literals: a string in the position of a package denotes it.
RECURSIVE Promote(_, _, _)
PromoteAs(c, t, e) ==
    CASE t.k = "Package" /\ e.op = "str" -> {[c EXCEPT !.packages = @ \cup {e.at}]}
      [] t.k \in {"Set", "List"} /\ e.op = "array" ->
           Through(e.args, c, LAMBDA x, d : TheOnly(Promote(d, t.args[1], x)))
      [] t.k = "Optional" -> Promote(c, t.args[1], IF e.op = "some" THEN e.arg ELSE e)
      [] OTHER -> {c}
Promote(c, expected, e) == UNION {PromoteAs(c, t, e) : t \in {Resolve(c.u, expected)}}

\* is_assignment_target.
RECURSIVE RootOf(_)
RootOf(e) == IF e.op \in {"access", "key"} THEN RootOf(e.arg)
             ELSE IF e.op = "call" /\ e.callee.op = "access" THEN RootOf(e.callee.arg) ELSE e
IsTarget(e) == /\ e.op \in {"name", "access", "key", "num", "str", "bool", "null", "some", "array"}
               /\ RootOf(e).op # "call"

\* --------------------------------------------------------- expressions
RECURSIVE Infer(_, _), InferPrimary(_, _)

\* infer_call.
Calling(c, callee, args) ==
    On({Resolve(c.u, callee)}, LAMBDA f :
       IF f.k # "Function"
       THEN Then(Thread(args, Complain(c, "NotCallable"), LAMBDA a, d : Infer(d, a)), LAMBDA r :
                 Outcome(r.s, ErrorType))
       ELSE Then(Through([i \in DOMAIN args \cap DOMAIN ParamsOf(f) |-> <<args[i], ParamsOf(f)[i]>>],
                         ComplainIf(c, Len(args) # Len(ParamsOf(f)), "ArgumentCount"), LAMBDA a, d :
                   TheOnly(Then(Infer(d, a[1]), LAMBDA r : AssignAt(r.s, a[2], r.x)))), LAMBDA s :
                 Outcome(s, ReturnOf(f))))

\* A value, called if there are arguments: call is <<>> or <<arguments>>.
Called(outcomes, call) ==
    Then(outcomes, LAMBDA f : Then(IF call = <<>> THEN {f} ELSE Calling(f.s, f.x, call[1]), LAMBDA r :
                                   Outcome(r.s, AsValue(r.x))))

\* infer_member: a field unless it is called, a builtin, a method of an interface.
InferMember(c, receiver, e, call) ==
    IF call = <<>> /\ NamedField(c, receiver, e.name) # {}
    THEN Then(NamedField(c, receiver, e.name), LAMBDA f :
              Outcome(Stands(c, e.at, Member("Field", f.id)), f.type))
    ELSE IF e.name \in BuiltinMethods(receiver)
    THEN Then(Called(BuiltinFunction(Stands(c, e.at, Member(e.name, 0)), receiver, e.name), call),
              LAMBDA r : Outcome(r.s, r.x.t))
    ELSE LET methods == MethodsNamed(c, receiver, e.name)
         IN  IF Cardinality(methods) = 1
             THEN Then(methods, LAMBDA i :
                  Then(Called(InterfaceMethod(c, receiver, e, c.methods[i]), call), LAMBDA r :
                       Outcome(r.s, r.x.t)))
             ELSE Outcome(Complain(c, IF methods = {} THEN "UnknownMember" ELSE "AmbiguousMember"),
                          ErrorType)

\* infer_access.
InferAccess(c, state, e, call) ==
    CASE state.p = "Type" ->
           IF e.dot # "::" THEN Outcome(c, AsError)
           ELSE IF e.res.r = "EnumVariant" THEN Outcome(c, AsValue(state.t))
           ELSE Outcome(Complain(c, "InvalidStaticMember"), AsError)
      [] state.p = "Module" ->
           IF e.res.r = "Symbol" THEN Called(InstantiateSymbol(c, e.res.id, e.targs), call)
           ELSE Outcome(c, IF e.res.r = "Type" THEN AsType(e.res.id) ELSE AsError)
      [] state.p = "Value" ->
           Then({Resolve(c.u, state.t)}, LAMBDA receiver :
           Then(IF receiver.k # "Optional" THEN Outcome(c, receiver)
                ELSE IF e.dot = "?." THEN Outcome(c, receiver.args[1])
                ELSE Outcome(Complain(c, "OptionalAccessRequiresSafeOperator"), ErrorType), LAMBDA base :
           Then(InferMember(base.s, base.x, e, call), LAMBDA m :
                Outcome(m.s, AsValue(IF e.dot = "?." THEN Optional(m.x) ELSE m.x)))))
      [] state.p = "Error" -> Outcome(c, AsError)

InferKey(c, state, e) ==
    Then({Resolve(c.u, state.t)}, LAMBDA receiver :
      CASE state.p = "Error" -> Outcome(c, AsError)
        [] state.p = "Value" /\ receiver.k = "AttrSet" ->
             Outcome(c, AsValue(receiver.args[1]))
        [] state.p = "Value" /\ receiver.k = "Optional" ->
             Outcome(Complain(c, "OptionalAccessRequiresSafeOperator"), AsError)
        [] OTHER -> Outcome(Complain(c, "InvalidAttrSetAccess"), AsError))

\* One more type among those joined so far: <<>> or <<type>>.
JoinWith(c, sofar, t) ==
    IF sofar = <<>> THEN Outcome(c, <<t>>)
    ELSE Then(JoinAt(c, sofar[1], t), LAMBDA j : Outcome(j.s, <<j.x>>))

\* infer_array: its values have no accesses.
InferArray(c, e) ==
    Then(Carry(e.args, c, <<>>, LAMBDA v, d, sofar :
           Then(InferPrimary(d, v), LAMBDA r : JoinWith(r.s, sofar, r.x.t))), LAMBDA all :
    Then(IF all.x = <<>> THEN Fresh(all.s) ELSE Outcome(all.s, all.x[1]), LAMBDA r :
         Outcome(r.s, AsValue(T(e.kind, 0, <<r.x>>)))))

\* infer_primary_root and the accesses behind it.
InferPrimary(c, e) ==
    CASE e.op = "name" \/ (e.op = "call" /\ e.callee.op = "name") ->
           LET root == IF e.op = "name" THEN e ELSE e.callee
           IN  CASE root.res.r = "Symbol" ->
                      Called(InstantiateSymbol(c, root.res.id, root.targs),
                             IF e.op = "name" THEN <<>> ELSE <<e.args>>)
                 [] root.res.r = "Type"   -> Outcome(c, AsType(root.res.id))
                 [] root.res.r = "Module" -> Outcome(c, AsModule)
                 [] OTHER                 -> Outcome(c, AsError)
      [] e.op = "access" ->
           Then(InferPrimary(c, e.arg), LAMBDA r : InferAccess(r.s, r.x, e, <<>>))
      [] e.op = "call" /\ e.callee.op = "access" ->
           Then(InferPrimary(c, e.callee.arg), LAMBDA r : InferAccess(r.s, r.x, e.callee, <<e.args>>))
      [] e.op = "key"   -> Then(InferPrimary(c, e.arg), LAMBDA r : InferKey(r.s, r.x, e))
      [] e.op = "array" -> InferArray(c, e)
      [] e.op = "some"  -> Then(Infer(c, e.arg), LAMBDA r : Outcome(r.s, AsValue(Optional(r.x))))
      [] e.op = "null"  -> Then(Fresh(c), LAMBDA r : Outcome(r.s, AsValue(Optional(r.x))))
      [] e.op = "num"   -> Outcome(c, AsValue(IntType))
      [] e.op = "bool"  -> Outcome(c, AsValue(BoolType))
      [] e.op = "str"   -> Outcome(c, AsValue(IF e.at \in c.packages THEN PackageType ELSE StringType))

\* Expression::TypeOperation.
InferTypeTest(c, e) ==
    Then(Infer(c, e.arg), LAMBDA v :
    Then({Resolve(v.s.u, v.x)}, LAMBDA value :
    Then(LowerInfo(v.s, e.target), LAMBDA l :
    Then({Resolve(l.s.u, l.x)}, LAMBDA target :
         Outcome(CASE target.k \in {"Union", "Optional", "Never"} ->
                        Complain(l.s, "InvalidUnionCastTarget")
                   [] target.k \notin {"Union", "Optional", "Never"} /\ target \notin Alternatives(value) ->
                        Complain(l.s, IF value.k = "Union" THEN "InvalidUnionAlternative"
                                      ELSE "ExpectedUnion")
                   [] OTHER -> l.s,
                 IF e.op = "is" THEN BoolType ELSE Optional(target))))))

\* Expression::Binary.
InferBinary(c, e) ==
    Then(Infer(c, e.left), LAMBDA l :
    Then(Infer(l.s, e.right), LAMBDA r :
      IF e.operator \in {"or", "and"}
      THEN On(RequireBoolean(r.s, l.x), LAMBDA d : On(RequireBoolean(d, r.x), LAMBDA f :
              Outcome(f, BoolType)))
      ELSE On(UnifyAt(r.s, l.x, r.x), LAMBDA d :
              CASE e.operator \in {"==", "!="} -> Outcome(d, BoolType)
                [] e.operator \in {"<", ">", "<=", ">="} -> Outcome(RequireNumeric(d, l.x), BoolType)
                [] e.operator = "+" ->
                     Outcome(IF Resolve(d.u, l.x) = StringType THEN d
                             ELSE RequireNumeric(d, Resolve(d.u, l.x)), l.x)
                [] OTHER -> Outcome(RequireNumeric(d, l.x), l.x))))

\* A block under a refinement (check_statements_with_refinement).
Refined(c, block, refinement, way) ==
    Then(Infer(Refine(Predeclare(c, block), refinement, way), Body(block)), LAMBDA r :
         Outcome(Restore(r.s, c, refinement), r.x))

\* infer_if: an else-if is inferred with what the tests before it leave; the
\* test of another binding replaces what they leave.
ElseIf(c, branch, residual) ==
    LET entered == Refine(c, residual, "no")
    IN  Then(Infer(entered, branch.condition), LAMBDA t :
        On(RequireBoolean(t.s, t.x), LAMBDA d :
        Then({Refinement(d, branch.condition)}, LAMBDA own :
        Then(Refined(d, branch.body, own, "yes"), LAMBDA r :
             Outcome(Restore(r.s, c, residual),
                     [type |-> r.x, residual |-> IF own = {} THEN residual ELSE own])))))

InferIf(c, e) ==
    Then(Infer(c, e.branches[1].condition), LAMBDA t :
    On(RequireBoolean(t.s, t.x), LAMBDA d :
    Then({Refinement(d, e.branches[1].condition)}, LAMBDA first :
    Then(Refined(d, e.branches[1].body, first, "yes"), LAMBDA r :
    Then(Carry(Tail(e.branches), r.s, [type |-> r.x, residual |-> first], LAMBDA b, g, sofar :
           Then(ElseIf(g, b, sofar.residual), LAMBDA q :
           Then(JoinAt(q.s, sofar.type, q.x.type), LAMBDA j :
                Outcome(j.s, [type |-> j.x, residual |-> q.x.residual])))), LAMBDA all :
         IF e.otherwise = <<>>
         THEN On(UnifyAt(all.s, UnitType, all.x.type), LAMBDA f : Outcome(f, UnitType))
         ELSE Then(Refined(all.s, e.otherwise[1], all.x.residual, "no"), LAMBDA o :
                   JoinAt(o.s, all.x.type, o.x)))))))

\* check_pattern.
RECURSIVE CheckPattern(_, _, _)
CheckPattern(c, p, expected) ==
    CASE p.pat \in {"some", "null"} ->
           Then(Fresh(c), LAMBDA v :
           On(UnifyAt(v.s, Optional(v.x), expected), LAMBDA d :
              IF p.pat = "some" THEN CheckPattern(d, p.inner, v.x) ELSE {d}))
      [] p.pat = "binding" -> {Bind(c, p.symbol, expected)}
      [] p.pat = "variant" /\ p.res.r = "EnumVariant" ->
           On({v.owner : v \in {w \in ToSet(c.names.variants) : w.id = p.res.id}}, LAMBDA owner :
              UnifyAt(c, Named(owner, <<>>), expected))
      [] OTHER -> {c}

\* infer_match.
InferMatch(c, e) ==
    Then(Infer(c, e.arg), LAMBDA v :
    Then(Carry(e.arms, v.s, <<>>, LAMBDA arm, d, sofar :
           On(CheckPattern(d, arm.pattern, v.x), LAMBDA g :
           Then(Infer(g, arm.value), LAMBDA a : JoinWith(a.s, sofar, a.x)))), LAMBDA all :
         Outcome(all.s, IF all.x = <<>> THEN NeverType ELSE all.x[1])))

\* infer_closure: a return inside it is checked against its own return type.
InferClosure(c, e) ==
    Then(Thread(e.params, c, LAMBDA p, d : Then(LowerOrFresh(d, p.type), LAMBDA t :
                                                Outcome(Bind(t.s, p.symbol, t.x), t.x))), LAMBDA ps :
    Then(LowerOrFresh(ps.s, e.ret), LAMBDA ret :
    Then(Infer(Predeclare([ret.s EXCEPT !.return = <<ret.x>>], e.body), Body(e.body)), LAMBDA b :
    On(AssignAt(b.s, ret.x, b.x), LAMBDA d :
       Outcome([d EXCEPT !.return = c.return], Function(ps.x, ret.x))))))

\* ---------------------------------------------------------- statements
\* check_assign_value, check_nested_assignment.
RECURSIVE CheckValue(_, _, _)
CheckValue(c, expected, e) ==
    IF e.op # "nested"
    THEN On(Promote(c, expected, e), LAMBDA d :
         Then(Infer(d, e), LAMBDA r : AssignAt(r.s, expected, r.x)))
    ELSE On({Resolve(c.u, expected)}, LAMBDA receiver :
         Through(e.fields, c, LAMBDA f, d :
           IF NamedField(d, receiver, f.name) = {} THEN Complain(d, "UnknownMember")
           ELSE TheOnly(On(NamedField(d, receiver, f.name), LAMBDA field :
                  CheckValue(d, field.type, f.value)))))

\* check_let: literals are promoted only where a type is written.
CheckLet(c, st) ==
    LET expected == c.symbols[st.symbol].type
    IN  IF IsPresent(st.value)
        THEN On(IF IsWritten(st.type) THEN Promote(c, expected, st.value) ELSE {c}, LAMBDA d :
             Then(Infer(d, st.value), LAMBDA r : AssignAt(r.s, expected, r.x)))
        ELSE {ComplainIf(c, ~IsWritten(st.type), "MissingTypeAndValue")}

\* check_function: receiver is <<>> or <<type>>.
CheckFunction(c, f, receiver) ==
    Then(IF f.symbol \in DOMAIN c.symbols THEN Outcome(c, c.symbols[f.symbol])
         ELSE FunctionScheme(c, f, receiver), LAMBDA s :
         Assuming(s.s, s.x.bounds, LAMBDA d :
           Then(Through(f.receiver, [d EXCEPT !.return = <<ReturnOf(s.x.type)>>], LAMBDA this, g :
                  IF receiver = <<>> THEN g ELSE Bind(g, this.symbol, receiver[1])), LAMBDA g :
           Then(Through([i \in DOMAIN f.params |-> <<f.params[i].symbol, ParamsOf(s.x.type)[i]>>], g,
                  LAMBDA p, h : Bind(h, p[1], p[2])), LAMBDA h :
           Then(Infer(Predeclare(h, f.body), Body(f.body)), LAMBDA b :
           On(AssignAt(b.s, ReturnOf(s.x.type), b.x), LAMBDA k :
              Outcome([k EXCEPT !.return = c.return], None)))))))

CheckFunctions(c, fs, receiver) ==
    Thread(fs, c, LAMBDA f, d : CheckFunction(d, f, receiver))

\* check_interface_bodies, check_implements_bodies.
CheckInterface(c, st) ==
    Then(CollectBounds(c, st.generics, st.where), LAMBDA b :
         Assuming(b.s, <<Bounded(Parameter(st.this), Named(st.id, Arguments(Ids(st.generics))))>>
                       \o b.x,
                  LAMBDA d : CheckFunctions(d, st.methods, <<Parameter(st.this)>>)))

CheckImplements(c, st) ==
    Then(CollectBounds(c, st.generics, st.where), LAMBDA b :
         Assuming(b.s, b.x, LAMBDA d :
           Then(LowerInfo(d, st.target), LAMBDA t :
           Then(LowerInfo(t.s, st.interface), LAMBDA i :
                Assuming(i.s, <<Bounded(t.x, i.x)>>, LAMBDA g :
                         CheckFunctions(g, st.methods, <<t.x>>))))))

\* check_statement: the type of an expression statement is that of a block it ends.
CheckStatement(c, st) ==
    LET unit(states) == On(states, LAMBDA d : Outcome(d, UnitType))
    IN  CASE st.stmt = "expr"      -> Infer(c, st.value)
          [] st.stmt = "let"       -> unit(CheckLet(c, st))
          [] st.stmt = "function"  -> unit({r.s : r \in CheckFunction(c, st, <<>>)})
          [] st.stmt = "interface" -> unit({r.s : r \in CheckInterface(c, st)})
          [] st.stmt = "implements" -> unit({r.s : r \in CheckImplements(c, st)})
          [] st.stmt = "assert"    -> unit(Then(Infer(c, st.value), LAMBDA r : RequireBoolean(r.s, r.x)))
          [] st.stmt = "assign" ->
               unit(Then(Infer(ComplainIf(c, ~IsTarget(st.target), "InvalidAssignmentTarget"), st.target),
                         LAMBDA t : CheckValue(t.s, t.x, st.value)))
          [] OTHER -> Outcome(c, UnitType)

\* check_statements.
CheckBody(c, statements) ==
    Carry(statements, c, UnitType, LAMBDA st, d, before : CheckStatement(d, st))

\* infer_expression.
Infer(c, e) ==
    CASE e.op = "body"    -> CheckBody(c, e.statements)
      [] e.op = "if"      -> InferIf(c, e)
      [] e.op = "match"   -> InferMatch(c, e)
      [] e.op = "closure" -> InferClosure(c, e)
      [] e.op = "binary"  -> InferBinary(c, e)
      [] e.op \in {"is", "as"} -> InferTypeTest(c, e)
      [] e.op = "return" ->
           Then(IF IsPresent(e.arg) THEN Infer(c, e.arg) ELSE Outcome(c, UnitType), LAMBDA r :
           On(IF r.s.return = <<>> THEN {Complain(r.s, "ReturnOutsideFunction")}
              ELSE AssignAt(r.s, r.s.return[1], r.x), LAMBDA d : Outcome(d, NeverType)))
      [] e.op = "throw" ->
           Then(Infer(c, e.arg), LAMBDA r :
           On(UnifyAt(r.s, StringType, r.x), LAMBDA d : Outcome(d, NeverType)))
      [] e.op = "elvis" ->
           Then(Infer(c, e.left), LAMBDA l :
           Then(Infer(l.s, e.right), LAMBDA r :
           Then(Fresh(r.s), LAMBDA inner :
           On(UnifyAt(inner.s, Optional(inner.x), l.x), LAMBDA d :
           On(UnifyAt(d, inner.x, r.x), LAMBDA f : Outcome(f, inner.x))))))
      [] e.op = "negate" ->
           Then(Infer(c, e.arg), LAMBDA r : Outcome(RequireNumeric(r.s, r.x), r.x))
      [] OTHER -> Then(InferPrimary(c, e), LAMBDA r : Outcome(r.s, r.x.t))

\* Checker::check up to the solving of the obligations.
CheckModule(names, program, env) ==
    Then(CollectShapes(NewChecker(names, env), program), LAMBDA a :
    Then(CollectInterfaces(a, program), LAMBDA b :
    Then(CollectImplementations(b, program), LAMBDA d :
         {r.s : r \in Infer(Predeclare(d, program), Body(program))})))
=============================================================================
