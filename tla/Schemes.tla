------------------------------ MODULE Schemes -------------------------------
(***************************************************************************)
(* What the checker knows of the declarations of a module before it looks  *)
(* at a statement (light-nix-type-checker/src/checker.rs): the shapes of   *)
(* its types, the methods of its interfaces, its implementations, and the  *)
(* schemes of its functions and bindings.                                  *)
(*                                                                         *)
(* The state of the checker is a record: names (the state of the name      *)
(* resolver), u (the unifier), the tables of the environment, the queue of *)
(* obligations, the capabilities to check at the end, the assumptions in   *)
(* force, the return type of the innermost function, the string literals   *)
(* that denote packages, the resolutions of members and the kinds of the   *)
(* errors.  A bound is [subject, interface]; a scheme is [params, type,    *)
(* bounds]; the spans of the errors are left out.                          *)
(***************************************************************************)
EXTENDS Types

LOCAL INSTANCE TLC

Bounded(t, i) == [subject |-> t, interface |-> i]
Scheme(ps, t, bs) == [params |-> ps, type |-> t, bounds |-> bs]
Monomorphic(t) == Scheme(<<>>, t, <<>>)

NoEnvironment ==
    [symbols |-> <<>>, fields |-> <<>>, lookup |-> <<>>, arities |-> <<>>, params |-> <<>>,
     bounds |-> <<>>, interfaces |-> {}, impls |-> <<>>, methods |-> <<>>]

\* Checker::new.
NewChecker(names, env) ==
    env @@ [names |-> names, u |-> <<>>, obligations |-> <<>>, capabilities |-> {},
            assumptions |-> <<>>, return |-> <<>>, packages |-> {}, members |-> <<>>,
            errors |-> {}]

Complain(c, kind) == [c EXCEPT !.errors = @ \cup {kind}]
ComplainIf(c, wrong, kind) == IF wrong THEN Complain(c, kind) ELSE c

Known(table, key, default) == IF key \in DOMAIN table THEN table[key] ELSE default
SubstituteBound(b, map) == Bounded(Substitute(b.subject, map), Substitute(b.interface, map))
SubstituteBounds(bs, map) == <<>> \o [i \in DOMAIN bs |-> SubstituteBound(bs[i], map)]

\* ------------------------------------------------------- from unifying
Fresh(c) == Outcome([c EXCEPT !.u = FreshIn(@)], Variable(Len(c.u) + 1))

\* instantiate_parameter_map.
FreshMap(u, ps) ==
    Outcome(TheOnly(Through(ps, u, LAMBDA p, v : FreshIn(v))),
            [p \in ToSet(ps) |-> Variable(Len(u) + (CHOOSE i \in DOMAIN ps : ps[i] = p))])

\* unify_at.
UnifyAt(c, expected, found) ==
    {ComplainIf([c EXCEPT !.u = r.s], r.x # None, r.x) : r \in Unify(c.u, expected, found)}

\* assign_at.
AssignAt(c, expected, found) ==
    UNION {IF Accepts(e, f) THEN {c} ELSE UnifyAt(c, e, f) :
              e \in {Resolve(c.u, expected)}, f \in {Resolve(c.u, found)}}

\* join_at.
Joined(l, r) == IF Accepts(l, r) THEN l ELSE IF Accepts(r, l) THEN r ELSE UnionOf(<<l, r>>)
JoinAt(c, left, right) ==
    {[s |-> c, x |-> Joined(l, r)] : l \in {Resolve(c.u, left)}, r \in {Resolve(c.u, right)}}

\* ------------------------------------------------------- types as written
Owe(c, b, dispatch) ==
    [c EXCEPT !.obligations = Append(@, [subject |-> b.subject, interface |-> b.interface,
                                         assumptions |-> c.assumptions, dispatch |-> dispatch])]
OweEach(c, bs) == TheOnly(Through(bs, c, LAMBDA b, d : Owe(d, b, <<>>)))

\* enforce_type_bounds.
EnforceBounds(c, id, arguments) ==
    LET ps  == Known(c.params, id, <<>>)
        map == [p \in {ps[i] : i \in DOMAIN ps \cap DOMAIN arguments} |->
                   arguments[CHOOSE i \in DOMAIN ps : ps[i] = p]]
    IN  OweEach(c, SubstituteBounds(Known(c.bounds, id, <<>>), map))

BuiltinArity(i) == IF Builtins[i] \in {"List", "Set", "AttrSet"} THEN 1 ELSE 0

ArityOf(c, res) == CASE res.r = "Builtin" -> BuiltinArity(res.id)
                     [] res.r = "Type"    -> Known(c.arities, res.id, 0)
                     [] OTHER             -> 0

LowerNamed(c, res, ps) ==
    CASE res.r = "Builtin" -> IF Len(ps) = BuiltinArity(res.id) THEN T(Builtins[res.id], 0, ps)
                              ELSE ErrorType
      [] res.r = "Type"    -> Named(res.id, ps)
      [] res.r = "Generic" -> Parameter(res.id)
      [] OTHER             -> ErrorType

\* lower_type_info_with_bounds: the components, the type itself, its alternatives.
RECURSIVE Lower(_, _, _)
Lower(c, ti, enforce) ==
    Then(Thread(ti.params, c, LAMBDA p, d : Lower(d, p, enforce)), LAMBDA ps :
    Then({ComplainIf(ps.s, ti.res.r # "Error" /\ Len(ps.x) # ArityOf(c, ti.res),
                     "InvalidGenericArity")}, LAMBDA d :
    Then({IF enforce /\ ti.res.r = "Type" THEN EnforceBounds(d, ti.res.id, ps.x) ELSE d}, LAMBDA e :
    Then(Thread(ti.alts, e, LAMBDA a, f : Lower(f, a, enforce)), LAMBDA alts :
    Then({LowerNamed(c, ti.res, ps.x)}, LAMBDA base :
    Then({IF ti.optional THEN Optional(base) ELSE base}, LAMBDA t :
         Outcome(alts.s, IF ti.alts = <<>> THEN t ELSE UnionOf(<<t>> \o alts.x))))))))

LowerInfo(c, ti) == Lower(c, ti, TRUE)
LowerRaw(c, ti)  == Lower(c, ti, FALSE)
LowerOrFresh(c, ti) == IF IsWritten(ti) THEN LowerInfo(c, ti) ELSE Fresh(c)

\* collect_bounds: of the parameters, then of the where clause.
BoundsOn(c, subject, tis) ==
    Then(Thread(tis, c, LAMBDA ti, d :
           IF ti.alts # <<>> THEN Outcome(Complain(d, "UnionInterfaceBound"), <<>>)
           ELSE Then(LowerRaw(d, ti), LAMBDA i : Outcome(i.s, <<Bounded(subject, i.x)>>))),
         LAMBDA bs : Outcome(bs.s, Concat(bs.x)))

CollectBounds(c, generics, where) ==
    Then(Thread(generics, c, LAMBDA g, d : BoundsOn(d, Parameter(g.id), g.bounds)), LAMBDA gs :
    Then(Thread(where, gs.s, LAMBDA w, d :
           Then(LowerRaw(d, w.type), LAMBDA t : BoundsOn(t.s, t.x, w.bounds))), LAMBDA ws :
         Outcome(ws.s, Concat(gs.x) \o Concat(ws.x))))

Ids(generics) == <<>> \o [i \in DOMAIN generics |-> generics[i].id]
Arguments(ids) == <<>> \o [i \in DOMAIN ids |-> Parameter(ids[i])]

\* Under further assumptions, restored behind the step.
Assuming(c, bs, Step(_)) ==
    Then(Step([c EXCEPT !.assumptions = @ \o bs]), LAMBDA r :
         {[r EXCEPT !.s.assumptions = c.assumptions]})

\* ------------------------------------------------------- shapes of types
\* collect_record_block.
RECURSIVE CollectRecord(_, _, _, _)
CollectRecord(c, fields, owner, ps) ==
    TheOnly(Through(fields, c, LAMBDA f, d :
      TheOnly(Then(IF f.nested = 0 THEN LowerInfo(d, f.type)
                   ELSE Outcome(CollectRecord([d EXCEPT
                                    !.arities = Put(@, f.nested, Len(ps)),
                                    !.params  = Put(@, f.nested, ps),
                                    !.bounds  = Put(@, f.nested, Known(d.bounds, owner, <<>>))],
                                  f.block, f.nested, ps),
                                Named(f.nested, Arguments(ps))), LAMBDA t :
              {[t.s EXCEPT !.fields = Put(@, f.id, t.x),
                           !.lookup = Put(@, <<owner, f.name>>, f.id)]}))))

\* collect_type_shapes: every arity, then every bound, then every record.
CollectShapes(c, program) ==
    LET arities(st, d) ==
            IF st.stmt \notin {"type", "interface"} THEN d
            ELSE [d EXCEPT !.arities = Put(@, st.id, Len(st.generics)),
                           !.params  = Put(@, st.id, Ids(st.generics)),
                           !.interfaces = IF st.stmt = "interface" THEN @ \cup {st.id} ELSE @]
        bounds(st, d) ==
            IF st.stmt \notin {"type", "interface"} THEN d
            ELSE CHOOSE e \in {[b.s EXCEPT !.bounds = Put(@, st.id, b.x)] :
                                  b \in CollectBounds(d, st.generics, st.where)} : TRUE
        records(st, d) ==
            IF st.stmt # "type" THEN d
            ELSE TheOnly(Assuming(d, d.bounds[st.id], LAMBDA e :
                   Outcome(CollectRecord(e, st.fields, st.id, Ids(st.generics)), None))).s
    IN  Then(Through(program, c, arities), LAMBDA d :
        Then(Through(program, d, bounds), LAMBDA e : Through(program, e, records)))

\* ------------------------------------------------------- schemes
ThisIds(c, types) ==
    {id \in UNION {ParametersOf(t) : t \in types} :
        \E g \in ToSet(c.names.gens) : g.id = id /\ g.name = "This"}

\* function_scheme: This stands for the type in replacement, if there is one.
FunctionScheme(c, f, replacement) ==
    Then(CollectBounds(c, f.generics, f.where), LAMBDA b :
    Then(Assuming(b.s, b.x, LAMBDA d :
           Then(Thread(f.params, d, LAMBDA p, e : LowerInfo(e, p.type)), LAMBDA ps :
           Then(LowerOrFresh(ps.s, f.ret), LAMBDA r : Outcome(r.s, Function(ps.x, r.x))))), LAMBDA t :
    Then({IF replacement = <<>> THEN <<>>
          ELSE [id \in ThisIds(c, {t.x} \cup {x.subject : x \in ToSet(b.x)}
                                        \cup {x.interface : x \in ToSet(b.x)}) |-> replacement[1]]},
         LAMBDA map : Outcome(t.s, Scheme(Ids(f.generics), Substitute(t.x, map),
                                          SubstituteBounds(b.x, map))))))

\* explicit_parameter_order: the parameters in the order of their first bound,
\* then the others.
ExplicitOrder(scheme) ==
    LET bound == SelectSeq(<<>> \o [i \in DOMAIN scheme.bounds |-> scheme.bounds[i].subject],
                           LAMBDA t : t.k = "Parameter" /\ t.id \in ToSet(scheme.params))
        order == <<>> \o [i \in DOMAIN bound |-> bound[i].id] \o scheme.params
    IN  Distinct(order)

\* predeclare_statements.
Predeclare(c, statements) ==
    TheOnly(Through(statements, c, LAMBDA st, d :
      CASE st.stmt = "let" ->
             TheOnly({[t.s EXCEPT !.symbols = Put(@, st.symbol, Monomorphic(t.x))] :
                         t \in LowerOrFresh(d, st.type)})
        [] st.stmt = "function" ->
             TheOnly({[t.s EXCEPT !.symbols = Put(@, st.symbol, t.x)] :
                         t \in FunctionScheme(d, st, <<>>)})
        [] OTHER -> d))

\* ------------------------------------------------------- interfaces
\* collect_interface.
CollectInterfaces(c, program) ==
    Through(program, c, LAMBDA st, d :
      IF st.stmt # "interface" THEN d
      ELSE TheOnly(Assuming(d, d.bounds[st.id], LAMBDA e :
        {[s |-> t, x |-> None] : t \in Through(st.methods, e, LAMBDA f, g :
          TheOnly({[r.s EXCEPT !.methods = Append(@,
                      [owner |-> st.id, symbol |-> f.symbol, name |-> f.name,
                       interface |-> Named(st.id, Arguments(Ids(st.generics))),
                       receiver |-> IF f.receiver = <<>> THEN <<>> ELSE <<Parameter(st.this)>>,
                       scheme |-> Scheme(Distinct(r.x.params \o Ids(st.generics) \o <<st.this>>),
                                         r.x.type, r.x.bounds \o d.bounds[st.id]),
                       order |-> ExplicitOrder(r.x)])] : r \in FunctionScheme(g, f, <<>>)}))})).s)

\* ------------------------------------------------------- implementations
IdOf(t) == IF t.k = "Named" THEN t.id ELSE 0

\* A method of an implementation against that of the interface, under fresh
\* variables for the parameters of both.
Implied(u, b, bs) ==
    \E i \in DOMAIN bs : \E r \in UnifyEach(u, <<<<b.subject, bs[i].subject>>,
                                                 <<b.interface, bs[i].interface>>>>) : r.x = None

MethodMatches(c, f, expected, actual, interface, target) ==
    \E e \in FreshMap(c.u, expected.scheme.params) : \E a \in FreshMap(e.s, actual.params) :
    \E r \in UnifyEach(a.s, <<<<Substitute(expected.interface, e.x), interface>>,
                              <<Substitute(expected.scheme.type, e.x), Substitute(actual.type, a.x)>>>>
                            \o IF expected.receiver = <<>> THEN <<>>
                               ELSE <<<<Substitute(expected.receiver[1], e.x), target>>>>) :
        /\ r.x = None
        /\ (f.receiver = <<>>) = (expected.receiver = <<>>)
        /\ Len(f.generics) = Len(expected.order)
        /\ \A i \in DOMAIN actual.bounds :
              Implied(r.s, SubstituteBound(actual.bounds[i], a.x),
                      SubstituteBounds(expected.scheme.bounds, e.x))

\* check_implementation_methods.
CheckMethods(c, st, interface, target) ==
    LET expected == {m \in ToSet(c.methods) : m.owner = IdOf(interface)}
        named(n) == {m \in expected : m.name = n}
        missing  == \E m \in expected : \A i \in DOMAIN st.methods : st.methods[i].name # m.name
    IN  IF IdOf(interface) = 0 THEN {c}
        ELSE Through(st.methods, ComplainIf(c, missing, "MissingInterfaceMethod"), LAMBDA f, d :
               IF named(f.name) = {} THEN Complain(d, "UnknownInterfaceMethod")
               ELSE TheOnly({ComplainIf(a.s, ~MethodMatches(a.s, f, CHOOSE m \in named(f.name) : TRUE,
                                                            a.x, interface, target),
                                        "InterfaceMethodTypeMismatch") :
                                a \in FunctionScheme(d, f, <<target>>)}))

\* collect_implementation.
CollectImplementation(c, st) ==
    Then(CollectBounds(c, st.generics, st.where), LAMBDA b :
         Assuming(b.s, b.x, LAMBDA d :
           Then(LowerInfo(d, st.interface), LAMBDA i :
           Then(LowerInfo(i.s, st.target), LAMBDA t :
           Then({ComplainIf(ComplainIf(t.s, t.x.k = "Union", "UnionImplementationTarget"),
                            i.x.k # "Error" /\ IdOf(i.x) \notin t.s.interfaces, "ExpectedInterface")},
                LAMBDA e :
           Then(CheckMethods([e EXCEPT !.impls = Append(@,
                  [params |-> Ids(st.generics), interface |-> i.x, target |-> t.x, bounds |-> b.x,
                   methods |-> [n \in {f.name : f \in ToSet(st.methods)} |->
                       LastNamed(st.methods, n).symbol]])], st, i.x, t.x), LAMBDA g :
                Outcome(g, None)))))))

\* Two implementations are for one type of one interface, for some values of
\* their parameters.
Overlap(u, left, right) ==
    /\ IdOf(right.interface) # 0
    /\ IdOf(left.interface) = IdOf(right.interface)
    /\ \E l \in FreshMap(u, left.params) : \E r \in FreshMap(l.s, right.params) :
       \E q \in UnifyEach(r.s, <<<<Substitute(left.target, l.x), Substitute(right.target, r.x)>>,
                                 <<Substitute(left.interface, l.x),
                                   Substitute(right.interface, r.x)>>>>) : q.x = None

\* collect_implementations, check_duplicate_implementations.
CollectImplementations(c, program) ==
    Then(Through(program, c, LAMBDA st, d :
           IF st.stmt # "implements" THEN d ELSE TheOnly(CollectImplementation(d, st)).s), LAMBDA e :
         {ComplainIf(e, \E i, j \in DOMAIN e.impls : i < j /\ Overlap(e.u, e.impls[i], e.impls[j]),
                     "DuplicateImplementation")})

\* ------------------------------------------------------- across modules
\* type_environment of a finished module: its tables, with their types resolved.
Environment(c) ==
    LET bound(b)  == Bounded(Resolve(c.u, b.subject), Resolve(c.u, b.interface))
        bounds(bs) == <<>> \o [i \in DOMAIN bs |-> bound(bs[i])]
        scheme(s) == [s EXCEPT !.type = Resolve(c.u, @), !.bounds = bounds(@)]
    IN  [symbols |-> [id \in DOMAIN c.symbols |-> scheme(c.symbols[id])],
         fields  |-> [id \in DOMAIN c.fields |-> Resolve(c.u, c.fields[id])],
         lookup |-> c.lookup, arities |-> c.arities, params |-> c.params, bounds |-> c.bounds,
         interfaces |-> c.interfaces,
         impls |-> <<>> \o [i \in DOMAIN c.impls |->
             [c.impls[i] EXCEPT !.interface = Resolve(c.u, @), !.target = Resolve(c.u, @),
                                !.bounds = bounds(@)]],
         methods |-> <<>> \o [i \in DOMAIN c.methods |->
             [c.methods[i] EXCEPT !.interface = Resolve(c.u, @), !.scheme = scheme(@)]]]
=============================================================================
