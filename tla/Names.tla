------------------------------- MODULE Names --------------------------------
(***************************************************************************)
(* Name resolution of one module (light-nix-name-resolver/src/resolver.rs).*)
(* The headers of the module are collected first, then its imports; then   *)
(* every statement is walked in order, and the bindings of a block come    *)
(* into scope one by one.  A name bound twice in a scope is poisoned.      *)
(*                                                                         *)
(* The state is a record: the module, its imports (path -> [module,        *)
(* exports]), the tables of scopes, symbols, types, fields, variants and   *)
(* generic parameters, the number of nodes told apart, and the kinds of    *)
(* errors met.  The resolved tree is the second part of every outcome.     *)
(***************************************************************************)
EXTENDS Syntax

LOCAL INSTANCE TLC

\* Bound on the declarations of a module: the numbers of one module do not
\* reach those of the next.
ModuleSize == 100

Resolution(r, id) == [r |-> r, id |-> id]
Poison            == Resolution("Error", 0)
AsMember          == Resolution("Member", 0)

NameError(s, kind) == [s EXCEPT !.errors = @ \cup {kind}]

\* ------------------------------------------------------------- scopes
NoBindings == [Value |-> <<>>, Type |-> <<>>, Module |-> <<>>]

\* new_scope.
NewScope(s, parent) ==
    Outcome([s EXCEPT !.scopes = Append(@, [parent |-> parent, names |-> NoBindings])],
            Len(s.scopes) + 1)

Bind(s, sc, ns, name, res) == [s EXCEPT !.scopes[sc].names[ns] = Put(@, name, res)]

\* Mutant: the second binding of a name shadows the first.
DefineLast(s, sc, ns, name, res) == Bind(s, sc, ns, name, res)

DefineOnce(s, sc, ns, name, res) ==
    IF name \in DOMAIN s.scopes[sc].names[ns]
    THEN Bind(NameError(s, "DuplicateBinding"), sc, ns, name, Poison)
    ELSE Bind(s, sc, ns, name, res)

\* define; decls keeps what was declared, for the properties.
Declaration(sc, ns, name, res) == [scope |-> sc, space |-> ns, name |-> name, res |-> res]
Define(s, sc, ns, name, res) ==
    DefineOnce([s EXCEPT !.decls = Append(@, Declaration(sc, ns, name, res))], sc, ns, name, res)

\* The resolutions of a name seen from a scope: one, or none.
RECURSIVE Lookup(_, _, _, _)
Lookup(s, sc, ns, name) ==
    IF sc = 0 THEN {}
    ELSE IF name \in DOMAIN s.scopes[sc].names[ns] THEN {s.scopes[sc].names[ns][name]}
    ELSE Lookup(s, s.scopes[sc].parent, ns, name)

\* resolve_value_root, resolve_static_root, resolve_name: the namespaces in turn.
\* refs keeps what a name was found to be, and how much was declared then.
ValueSpaces  == <<"Value", "Module">>
StaticSpaces == <<"Type", "Module", "Value">>
TypeSpaces   == <<"Type">>

Seek(s, sc, spaces, name) ==
    LET found(ns)  == Lookup(s, sc, ns, name)
        hits       == {i \in DOMAIN spaces : found(spaces[i]) # {}}
        first      == spaces[CHOOSE i \in hits : \A j \in hits : i <= j]
        noted(res) == [s EXCEPT !.refs = @ \cup {[scope |-> sc, spaces |-> spaces, name |-> name,
                                                  res |-> res, seen |-> Len(s.decls)]}]
    IN  IF hits = {} THEN Outcome(NameError(noted(Poison), "UnresolvedName"), Poison)
        ELSE UNION {Outcome(noted(res), res) : res \in found(first)}

\* -------------------------------------------------------- declarations
NextId(s, table) == s.module * ModuleSize + Len(table) + 1
Numbered(s) == Outcome([s EXCEPT !.nodes = @ + 1], s.module * ModuleSize + s.nodes + 1)

\* allocate_symbol and the binding of its name.
DeclareSymbol(s, sc, name, kind, exported) ==
    {[s |-> Define([s EXCEPT !.symbols = Append(@, [id |-> id, name |-> name, kind |-> kind,
                                                    exported |-> exported])],
                   sc, "Value", name, Resolution("Symbol", id)),
      x |-> id] : id \in {NextId(s, s.symbols)}}

DeclareGeneric(s, sc, name) ==
    {[s |-> Define([s EXCEPT !.gens = Append(@, [id |-> id, name |-> name])], sc, "Type", name,
                   Resolution("Generic", id)),
      x |-> id] : id \in {NextId(s, s.gens)}}

AllocateType(s, name, kind, exported) ==
    {[s |-> [s EXCEPT !.types = Append(@, [id |-> id, name |-> name, kind |-> kind,
                                           exported |-> exported])],
      x |-> id] : id \in {NextId(s, s.types)}}

CheckDuplicates(s, members, kind) ==
    IF \E i, j \in DOMAIN members : i < j /\ members[i].name = members[j].name
    THEN NameError(s, kind) ELSE s

\* collect_record_fields: the fields of a nested block belong to a type of their own.
RECURSIVE CollectFields(_, _, _)
CollectFields(fields, owner, s) ==
    Thread(fields, CheckDuplicates(s, fields, "DuplicateField"), LAMBDA f, t :
      Then(IF f.block = <<>> THEN Outcome(t, [type |-> 0, block |-> <<>>])
           ELSE Then(AllocateType(t, None, "type", FALSE), LAMBDA a :
                Then(CollectFields(f.block, a.x, a.s), LAMBDA b :
                Outcome(b.s, [type |-> a.x, block |-> b.x]))),
           LAMBDA n : {[s |-> [n.s EXCEPT !.fields = Append(@, [id |-> id, owner |-> owner,
                                                                name |-> f.name])],
                        x |-> [f EXCEPT !.block = n.x.block] @@ [id |-> id, nested |-> n.x.type]] :
                            id \in {NextId(n.s, n.s.fields)}}))

CollectVariants(variants, owner, s) ==
    Thread(variants, CheckDuplicates(s, variants, "DuplicateVariant"), LAMBDA v, t :
        Outcome([t EXCEPT !.variants = Append(@, [id |-> NextId(t, t.variants), owner |-> owner,
                                                  name |-> v.name])], v))

\* collect_enum, collect_named_record, collect_interface.
CollectType(st, sc, s) ==
    Then(AllocateType(s, st.name, st.stmt, st.exported), LAMBDA a :
    Then({Define(a.s, sc, "Type", st.name, Resolution("Type", a.x))}, LAMBDA d :
         CASE st.stmt = "enum" ->
                Then(CollectVariants(st.variants, a.x, d), LAMBDA v : Outcome(v.s, st @@ [id |-> a.x]))
           [] st.stmt = "type" ->
                Then(CollectFields(st.fields, a.x, d), LAMBDA f :
                     Outcome(f.s, [st EXCEPT !.fields = f.x] @@ [id |-> a.x]))
           [] st.stmt = "interface" -> Outcome(d, st @@ [id |-> a.x])))

CollectValue(st, sc, s) ==
    Then(DeclareSymbol(s, sc, st.name, st.stmt, st.exported), LAMBDA d :
         Outcome(d.s, st @@ [symbol |-> d.x]))

\* The value headers a scope collects before its statements are walked
\* (collect_module_headers, collect_block_headers).
ValueHeaders(top) == IF top THEN {"function", "let"} ELSE {"function"}

CollectHeaders(sts, sc, top, s) ==
    Thread(sts, s, LAMBDA st, t :
        CASE st.stmt \in {"enum", "type", "interface"} -> CollectType(st, sc, t)
          [] st.stmt \in ValueHeaders(top) -> CollectValue(st, sc, t)
          [] OTHER -> Outcome(t, st))

BuiltinNames == [n \in ToSet(Builtins) |->
                   Resolution("Builtin", CHOOSE i \in DOMAIN Builtins : Builtins[i] = n)]

\* collect_module.
Collect(program, module, imports) ==
    CollectHeaders(program, 1, TRUE,
        [module |-> module, imports |-> imports, nodes |-> 0, errors |-> {},
         scopes |-> <<[parent |-> 0, names |-> [NoBindings EXCEPT !.Type = BuiltinNames]]>>,
         symbols |-> <<>>, types |-> <<>>, fields |-> <<>>, variants |-> <<>>, gens |-> <<>>,
         decls |-> [i \in DOMAIN Builtins |->
                      Declaration(1, "Type", Builtins[i], Resolution("Builtin", i))],
         refs |-> {}, interface |-> <<>>])

\* build_interface, over the collected headers: a name two headers bind is
\* poisoned and not exported.
ModuleInterface(s) ==
    LET offered(table, ns, r) ==
            {d \in ToSet(table) : /\ d.exported
                                  /\ s.scopes[1].names[ns][d.name] = Resolution(r, d.id)}
        values == offered(s.symbols, "Value", "Symbol")
        types  == offered(s.types, "Type", "Type")
        idsOf(ds, name) == {d.id : d \in {e \in ds : e.name = name}}
    IN  [module  |-> s.module,
         exports |-> [n \in {d.name : d \in values \cup types} |->
                         [Value |-> idsOf(values, n), Type |-> idsOf(types, n)]]]

\* ------------------------------------------------------------- imports
ImportSpaces == <<[space |-> "Value", r |-> "Symbol"], [space |-> "Type", r |-> "Type"]>>
PoisonImport(s, name) ==
    TheOnly(Through(ImportSpaces, NameError(s, "UnknownImport"), LAMBDA as, t :
                    Define(t, 1, as.space, name, Poison)))

ImportName(s, interface, name) ==
    IF name \notin DOMAIN interface.exports THEN PoisonImport(s, name)
    ELSE TheOnly(Through(ImportSpaces, s, LAMBDA as, t :
             IF interface.exports[name][as.space] = {} THEN t
             ELSE Define(t, 1, as.space, name,
                         Resolution(as.r, CHOOSE id \in interface.exports[name][as.space] : TRUE))))

\* resolve_imports: after the headers of the module, whose names they poison.
ResolveImports(sts, s) ==
    Through(sts, s, LAMBDA st, t :
        CASE st.stmt = "import" /\ st.path \in DOMAIN t.imports ->
               TheOnly(Through(st.names, t, LAMBDA n, u : ImportName(u, u.imports[st.path], n)))
          [] st.stmt = "import" /\ st.path \notin DOMAIN t.imports ->
               TheOnly(Through(st.names, t, LAMBDA n, u : PoisonImport(u, n)))
          [] st.stmt = "namespace" ->
               IF st.path \in DOMAIN t.imports
               THEN Define(t, 1, "Module", st.name,
                           Resolution("Module", t.imports[st.path].module))
               ELSE TheOnly({Define(u, 1, "Module", st.name, Poison) : u \in {NameError(t, "UnknownImport")}})
          [] OTHER -> t)

\* --------------------------------------------------------------- types
RECURSIVE ResolveType(_, _, _)
ResolveType(ti, sc, s) ==
    IF ~IsWritten(ti) THEN Outcome(s, ti)
    ELSE Then(Seek(s, sc, TypeSpaces, ti.name), LAMBDA r :
         Then(Thread(ti.params, r.s, LAMBDA p, t : ResolveType(p, sc, t)), LAMBDA ps :
         Then(Thread(ti.alts, ps.s, LAMBDA a, t : ResolveType(a, sc, t)), LAMBDA alts :
              Outcome(alts.s, [ti EXCEPT !.params = ps.x, !.alts = alts.x] @@ [res |-> r.x]))))

ResolveTypes(tis, sc, s) == Thread(tis, s, LAMBDA ti, t : ResolveType(ti, sc, t))

\* resolve_generic_parameters: the bounds see every parameter of the list.
ResolveGenerics(gs, sc, s) ==
    Then(Thread(gs, s, LAMBDA g, t : Then(DeclareGeneric(t, sc, g.name), LAMBDA d :
                                          Outcome(d.s, g @@ [id |-> d.x]))), LAMBDA ids :
         Thread(ids.x, ids.s, LAMBDA g, t : Then(ResolveTypes(g.bounds, sc, t), LAMBDA bs :
                                                 Outcome(bs.s, [g EXCEPT !.bounds = bs.x]))))

ResolveWhere(ws, sc, s) ==
    Thread(ws, s, LAMBDA w, t :
        Then(ResolveType(w.type, sc, t), LAMBDA ti :
        Then(ResolveTypes(w.bounds, sc, ti.s), LAMBDA bs :
             Outcome(bs.s, [type |-> ti.x, bounds |-> bs.x]))))

ResolveParams(ps, sc, s) ==
    Thread(ps, s, LAMBDA p, t : Then(ResolveType(p.type, sc, t), LAMBDA ti :
                                     Outcome(ti.s, [p EXCEPT !.type = ti.x])))

DeclareParams(ps, sc, s) ==
    Thread(ps, s, LAMBDA p, t : Then(DeclareSymbol(t, sc, p.name, "parameter", FALSE), LAMBDA d :
                                     Outcome(d.s, p @@ [symbol |-> d.x])))

\* resolve_typedef_block.
RECURSIVE ResolveFields(_, _, _)
ResolveFields(fields, sc, s) ==
    Thread(fields, s, LAMBDA f, t :
        Then(ResolveType(f.type, sc, t), LAMBDA ti :
        Then(ResolveFields(f.block, sc, ti.s), LAMBDA b :
             Outcome(b.s, [f EXCEPT !.type = ti.x, !.block = b.x]))))

\* --------------------------------------------------------- expressions
FindVariant(s, owner, name) ==
    {v \in ToSet(s.variants) : v.owner = owner /\ v.name = name}

\* A variant of an enum of this module; anything else is settled by the types.
VariantRes(s, owner, name) ==
    IF owner.r = "Type" /\ FindVariant(s, owner.id, name) # {}
    THEN Resolution("EnumVariant", (CHOOSE v \in FindVariant(s, owner.id, name) : TRUE).id)
    ELSE IF owner = Poison THEN Poison ELSE AsMember

\* What a primary stands for when the next access is reached.
RECURSIVE ResOf(_)
ResOf(e) == CASE e.op \in {"name", "access"} -> e.res
              [] e.op = "call" -> ResOf(e.callee)
              [] OTHER -> Poison

\* resolve_module_member: before :: a type is preferred, else a value.
ModuleMember(s, module, name, beforeStatic) ==
    LET interface == CHOOSE i \in {s.imports[p] : p \in DOMAIN s.imports} : i.module = module
        ids(ns)   == interface.exports[name][ns]
        the(ns, r) == Resolution(r, CHOOSE id \in ids(ns) : TRUE)
    IN  IF name \notin DOMAIN interface.exports THEN Outcome(NameError(s, "UnknownImport"), Poison)
        ELSE IF ids("Type") # {} /\ (beforeStatic \/ ids("Value") = {})
        THEN Outcome(s, the("Type", "Type"))
        ELSE Outcome(s, the("Value", "Symbol"))

MemberRes(s, root, dot, name, beforeStatic) ==
    CASE root.r = "Module" -> ModuleMember(s, root.id, name, beforeStatic)
      [] root.r = "Type" /\ dot = "::" -> Outcome(s, VariantRes(s, root, name))
      [] root.r = "Error" -> Outcome(s, Poison)
      [] OTHER -> Outcome(s, AsMember)

RECURSIVE ResolvePattern(_, _, _)
ResolvePattern(p, sc, s) ==
    CASE p.pat = "some" -> Then(ResolvePattern(p.inner, sc, s), LAMBDA q :
                                Outcome(q.s, [p EXCEPT !.inner = q.x]))
      [] p.pat = "binding" -> Then(DeclareSymbol(s, sc, p.name, "pattern", FALSE), LAMBDA d :
                                   Outcome(d.s, p @@ [symbol |-> d.x]))
      [] p.pat = "variant" -> Then(Seek(s, sc, TypeSpaces, p.enum), LAMBDA o :
                                   Outcome(o.s, p @@ [res |-> VariantRes(o.s, o.x, p.name)]))
      [] OTHER -> Outcome(s, p)

RECURSIVE ResolveExpr(_, _, _, _), ResolveBlock(_, _, _), ResolveStatement(_, _, _, _)

ResolveArgs(es, sc, s) == Thread(es, s, LAMBDA e, t : ResolveExpr(e, sc, FALSE, t))

\* resolve_expression and resolve_primary; beforeStatic says that :: follows.
ResolveExpr(e, sc, beforeStatic, s) ==
    CASE e.op = "name" ->
           Then(Seek(s, sc, IF beforeStatic THEN StaticSpaces ELSE ValueSpaces, e.name), LAMBDA r :
           Then(ResolveTypes(e.targs, sc, r.s), LAMBDA ts :
                Outcome(ts.s, [e EXCEPT !.targs = ts.x] @@ [res |-> r.x])))
      [] e.op = "access" ->
           Then(ResolveExpr(e.arg, sc, e.dot = "::", s), LAMBDA a :
           Then(MemberRes(a.s, ResOf(a.x), e.dot, e.name, beforeStatic), LAMBDA r :
           Then(ResolveTypes(e.targs, sc, r.s), LAMBDA ts :
           Then(Numbered(ts.s), LAMBDA n :
                Outcome(n.s, [e EXCEPT !.arg = a.x, !.targs = ts.x]
                             @@ [res |-> r.x, at |-> n.x])))))
      [] e.op = "call" ->
           Then(ResolveExpr(e.callee, sc, beforeStatic, s), LAMBDA f :
           Then(ResolveArgs(e.args, sc, f.s), LAMBDA as :
                Outcome(as.s, [e EXCEPT !.callee = f.x, !.args = as.x])))
      [] e.op \in {"key", "some", "return", "throw", "negate"} ->
           Then(ResolveExpr(e.arg, sc, FALSE, s), LAMBDA a : Outcome(a.s, [e EXCEPT !.arg = a.x]))
      [] e.op \in {"elvis", "binary"} ->
           Then(ResolveExpr(e.left, sc, FALSE, s), LAMBDA l :
           Then(ResolveExpr(e.right, sc, FALSE, l.s), LAMBDA r :
                Outcome(r.s, [e EXCEPT !.left = l.x, !.right = r.x])))
      [] e.op \in {"is", "as"} ->
           Then(ResolveExpr(e.arg, sc, FALSE, s), LAMBDA a :
           Then(ResolveType(e.target, sc, a.s), LAMBDA ti :
                Outcome(ti.s, [e EXCEPT !.arg = a.x, !.target = ti.x])))
      [] e.op = "array" ->
           Then(ResolveArgs(e.args, sc, s), LAMBDA as : Outcome(as.s, [e EXCEPT !.args = as.x]))
      [] e.op = "if" ->
           Then(Thread(e.branches, s, LAMBDA b, t :
                  Then(ResolveExpr(b.condition, sc, FALSE, t), LAMBDA c :
                  Then(ResolveBlock(b.body, sc, c.s), LAMBDA body :
                       Outcome(body.s, Branch(c.x, body.x))))), LAMBDA bs :
           Then(Thread(e.otherwise, bs.s, LAMBDA b, t : ResolveBlock(b, sc, t)), LAMBDA o :
                Outcome(o.s, [e EXCEPT !.branches = bs.x, !.otherwise = o.x])))
      [] e.op = "match" ->
           Then(ResolveExpr(e.arg, sc, FALSE, s), LAMBDA v :
           Then(Thread(e.arms, v.s, LAMBDA arm, t :
                  Then(NewScope(t, sc), LAMBDA n :
                  Then(ResolvePattern(arm.pattern, n.x, n.s), LAMBDA p :
                  Then(ResolveExpr(arm.value, n.x, FALSE, p.s), LAMBDA b :
                       Outcome(b.s, Arm(p.x, b.x)))))), LAMBDA arms :
                Outcome(arms.s, [e EXCEPT !.arg = v.x, !.arms = arms.x])))
      [] e.op = "closure" ->
           Then(NewScope(s, sc), LAMBDA n :
           Then(ResolveParams(e.params, n.x, n.s), LAMBDA tis :
           Then(DeclareParams(tis.x, n.x, tis.s), LAMBDA ps :
           Then(ResolveType(e.ret, n.x, ps.s), LAMBDA ret :
           Then(ResolveBlock(e.body, n.x, ret.s), LAMBDA body :
                Outcome(body.s, [e EXCEPT !.params = ps.x, !.ret = ret.x, !.body = body.x]))))))
      [] e.op = "nested" ->
           Then(Thread(e.fields, CheckDuplicates(s, e.fields, "DuplicateField"), LAMBDA f, t :
                  Then(ResolveExpr(f.value, sc, FALSE, t), LAMBDA v : Outcome(v.s, Entry(f.name, v.x)))),
                LAMBDA fs : Outcome(fs.s, [e EXCEPT !.fields = fs.x]))
      [] e.op = "str" -> Then(Numbered(s), LAMBDA n : Outcome(n.s, e @@ [at |-> n.x]))
      [] OTHER -> Outcome(s, e)

\* ---------------------------------------------------------- statements
\* resolve_function.
ResolveFunction(f, parent, s) ==
    Then(NewScope(s, parent), LAMBDA n :
    Then(ResolveGenerics(f.generics, n.x, n.s), LAMBDA gs :
    Then(ResolveParams(f.params, n.x, gs.s), LAMBDA tis :
    Then(DeclareParams(f.receiver, n.x, tis.s), LAMBDA this :
    Then(DeclareParams(tis.x, n.x, this.s), LAMBDA ps :
    Then(ResolveType(f.ret, n.x, ps.s), LAMBDA ret :
    Then(ResolveWhere(f.where, n.x, ret.s), LAMBDA ws :
    Then(ResolveBlock(f.body, n.x, ws.s), LAMBDA body :
         Outcome(body.s, [f EXCEPT !.generics = gs.x, !.receiver = this.x, !.params = ps.x,
                                   !.ret = ret.x, !.where = ws.x, !.body = body.x])))))))))

\* resolve_interface and resolve_implements: every method name, then every method.
ResolveMethods(ms, sc, s) ==
    Then(Thread(ms, s, LAMBDA f, t : CollectValue(f, sc, t)), LAMBDA hs :
         Thread(hs.x, hs.s, LAMBDA f, t : ResolveFunction(f, sc, t)))

ResolveInterface(st, parent, s) ==
    Then(NewScope(s, parent), LAMBDA n :
    Then(DeclareGeneric(n.s, n.x, "This"), LAMBDA this :
    Then(ResolveGenerics(st.generics, n.x, this.s), LAMBDA gs :
    Then(ResolveWhere(st.where, n.x, gs.s), LAMBDA ws :
    Then(ResolveMethods(st.methods, n.x, ws.s), LAMBDA ms :
         Outcome(ms.s, [st EXCEPT !.generics = gs.x, !.where = ws.x, !.methods = ms.x]
                       @@ [this |-> this.x]))))))

ResolveImplements(st, parent, s) ==
    Then(NewScope(s, parent), LAMBDA n :
    Then(DeclareGeneric(n.s, n.x, "This"), LAMBDA this :
    Then(ResolveGenerics(st.generics, n.x, this.s), LAMBDA gs :
    Then(ResolveType(st.interface, n.x, gs.s), LAMBDA i :
    Then(ResolveType(st.target, n.x, i.s), LAMBDA target :
    Then(ResolveWhere(st.where, n.x, target.s), LAMBDA ws :
    Then(ResolveMethods(st.methods, n.x, ws.s), LAMBDA ms :
         Outcome(ms.s, [st EXCEPT !.generics = gs.x, !.interface = i.x, !.target = target.x,
                                  !.where = ws.x, !.methods = ms.x]))))))))

ResolveTypeDefine(st, parent, s) ==
    Then(NewScope(s, parent), LAMBDA n :
    Then(ResolveGenerics(st.generics, n.x, n.s), LAMBDA gs :
    Then(ResolveWhere(st.where, n.x, gs.s), LAMBDA ws :
    Then(ResolveFields(st.fields, n.x, ws.s), LAMBDA fs :
         Outcome(fs.s, [st EXCEPT !.generics = gs.x, !.where = ws.x, !.fields = fs.x])))))

\* A let of a block is bound behind its value; one of the module was bound
\* with the headers.
ResolveLet(st, sc, top, s) ==
    Then(ResolveType(st.type, sc, s), LAMBDA ti :
    Then(ResolveExpr(st.value, sc, FALSE, ti.s), LAMBDA v :
    Then(Outcome(v.s, [st EXCEPT !.type = ti.x, !.value = v.x]), LAMBDA r :
         IF top THEN Outcome(r.s, r.x) ELSE CollectValue(r.x, sc, r.s))))

\* check_nested_export, and imports away from the top.
OnlyAtTop(st, top, s) ==
    IF top \/ st.stmt \in {"expr", "assert", "assign", "implements"} THEN s
    ELSE IF st.stmt \in {"import", "namespace"} THEN NameError(s, "ImportNotAtModuleScope")
    ELSE IF st.exported THEN NameError(s, "ExportNotAtModuleScope") ELSE s

ResolveStatement(st, sc, top, s) ==
    Then({OnlyAtTop(st, top, s)}, LAMBDA t :
        CASE st.stmt = "let"        -> ResolveLet(st, sc, top, t)
          [] st.stmt = "function"   -> ResolveFunction(st, sc, t)
          [] st.stmt = "type"       -> ResolveTypeDefine(st, sc, t)
          [] st.stmt = "interface"  -> ResolveInterface(st, sc, t)
          [] st.stmt = "implements" -> ResolveImplements(st, sc, t)
          [] st.stmt \in {"expr", "assert"} ->
               Then(ResolveExpr(st.value, sc, FALSE, t), LAMBDA v :
                    Outcome(v.s, [st EXCEPT !.value = v.x]))
          [] st.stmt = "assign" ->
               Then(ResolveExpr(st.target, sc, FALSE, t), LAMBDA target :
               Then(ResolveExpr(st.value, sc, FALSE, target.s), LAMBDA v :
                    Outcome(v.s, [st EXCEPT !.target = target.x, !.value = v.x])))
          [] OTHER -> Outcome(t, st))

\* resolve_statements of the module (its headers are collected) and of a block.
ResolveBlock(sts, parent, s) ==
    Then(NewScope(s, parent), LAMBDA n :
    Then(CollectHeaders(sts, n.x, FALSE, n.s), LAMBDA hs :
         Thread(hs.x, hs.s, LAMBDA st, t : ResolveStatement(st, n.x, FALSE, t))))

\* CollectedModule::resolve; the interface is that of the collected headers.
ResolveModule(collected) ==
    Then(ResolveImports(collected.x, [collected.s EXCEPT !.interface = ModuleInterface(collected.s)]), LAMBDA s :
         Thread(collected.x, s, LAMBDA st, t : ResolveStatement(st, 1, TRUE, t)))
=============================================================================
