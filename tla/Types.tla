------------------------------- MODULE Types --------------------------------
(***************************************************************************)
(* The types of the checker and their unification                          *)
(* (light-nix-type-checker/src/types.rs and unify.rs).                     *)
(*                                                                         *)
(* A type is [k, id, args]: its constructor, the declaration or variable   *)
(* it names, and its components.  The parameters of a function are the     *)
(* components of a component of their own, so that the derived order and   *)
(* the recursions below need no case for functions.                        *)
(*                                                                         *)
(* A unifier is the sequence of its variables, each with the parent and    *)
(* the rank of the union-find and a binding, <<>> or <<type>>.  What       *)
(* resolve remembers of its own results is left out: path compression and  *)
(* the resolved bindings it writes back change no later answer.            *)
(***************************************************************************)
EXTENDS Syntax

T(k, id, args)   == [k |-> k, id |-> id, args |-> args]
Basic(k)         == T(k, 0, <<>>)
ErrorType        == Basic("Error")
NeverType        == Basic("Never")
UnitType         == Basic("Unit")
BoolType         == Basic("Bool")
IntType          == Basic("Int")
StringType       == Basic("String")
PackageType      == Basic("Package")
Named(id, args)  == T("Named", id, args)
Parameter(id)    == T("Parameter", id, <<>>)
Variable(id)     == T("Variable", id, <<>>)
Function(ps, r)  == T("Function", 0, <<T("Params", 0, ps), r>>)
ParamsOf(f)      == f.args[1].args
ReturnOf(f)      == f.args[2]

\* The derived order of Type.
Constructors == <<"Error", "Never", "Unit", "Bool", "Int", "Float", "String", "Package", "Set",
                  "List", "AttrSet", "Optional", "Union", "Named", "Function", "Params",
                  "Parameter", "Variable">>
Rank(k) == CHOOSE i \in DOMAIN Constructors : Constructors[i] = k

RECURSIVE Less(_, _)
LessSeq(s, t) ==
    \E i \in 1 .. Len(t) :
        /\ Len(s) >= i - 1
        /\ SubSeq(s, 1, i - 1) = SubSeq(t, 1, i - 1)
        /\ IF i = Len(s) + 1 THEN TRUE ELSE Less(s[i], t[i])
Less(a, b) ==
    IF a.k # b.k THEN Rank(a.k) < Rank(b.k)
    ELSE IF a.id # b.id THEN a.id < b.id
    ELSE LessSeq(a.args, b.args)

\* Type::optional: an optional of an optional is the optional.
Optional(inner) == IF inner.k = "Optional" THEN inner ELSE T("Optional", 0, <<inner>>)

RECURSIVE Sorted(_)
Sorted(types) ==
    UNION {{<<t>> \o rest : rest \in Sorted(types \ {t})} :
              t \in {u \in types : \A v \in types : u = v \/ Less(u, v)}}
    \cup (IF types = {} THEN {<<>>} ELSE {})

\* Type::union: flat, without duplicates, sorted; one alternative is no union.
UnionOf(ts) ==
    LET Flat(t)  == IF t.k = "Union" THEN ToSet(t.args) ELSE {t}
        Joined(s) == IF s = <<>> THEN NeverType ELSE IF Len(s) = 1 THEN s[1] ELSE T("Union", 0, s)
    IN  CHOOSE t \in {Joined(s) : s \in Sorted(UNION {Flat(t) : t \in ToSet(ts)})} : TRUE

\* The constructor of t over other components.
Rebuild(t, args) ==
    CASE t.k = "Optional" -> Optional(args[1])
      [] t.k = "Union"    -> UnionOf(args)
      [] OTHER            -> [t EXCEPT !.args = args]

\* accepts: a value of found can be used where expected is.
RECURSIVE Accepts(_, _)
Accepts(expected, found) ==
    \/ expected = found
    \/ found.k = "Never"
    \/ "Error" \in {expected.k, found.k}
    \/ IF found.k = "Union" THEN \A i \in DOMAIN found.args : Accepts(expected, found.args[i])
       ELSE expected.k = "Union" /\ \E i \in DOMAIN expected.args : Accepts(expected.args[i], found)

\* contains_union_alternative, without_union_alternative.
Alternatives(t) == IF t.k = "Union" THEN ToSet(t.args) ELSE {t}
Without(t, target) ==
    IF t.k = "Union" THEN UnionOf(SelectSeq(t.args, LAMBDA a : a # target))
    ELSE IF t = target THEN NeverType ELSE t

\* contains_type_variable, contains_variable, contains_unresolved_dispatch_type.
RECURSIVE Mentions(_, _)
Mentions(t, kinds) == t.k \in kinds \/ \E i \in DOMAIN t.args : Mentions(t.args[i], kinds)

RECURSIVE ParametersOf(_)
ParametersOf(t) ==
    IF t.k = "Parameter" THEN {t.id}
    ELSE UNION {ParametersOf(t.args[i]) : i \in DOMAIN t.args}

RECURSIVE Substitute(_, _)
Substitute(t, map) ==
    IF t.k = "Parameter" THEN IF t.id \in DOMAIN map THEN map[t.id] ELSE t
    ELSE IF t.args = <<>> THEN t
    ELSE CHOOSE u \in {Rebuild(t, args) :
                          args \in {<<>> \o [i \in DOMAIN t.args |-> Substitute(t.args[i], map)]}} : TRUE

\* -------------------------------------------------------------- unifier
FreshIn(u) == Append(u, [parent |-> Len(u) + 1, rank |-> 0, binding |-> <<>>])

RECURSIVE Find(_, _)
Find(u, v) == IF u[v].parent = v THEN v ELSE Find(u, u[v].parent)

RECURSIVE Resolve(_, _)
Resolve(u, t) ==
    IF t.k = "Variable"
    THEN CHOOSE r \in {IF u[root].binding = <<>> THEN Variable(root)
                       ELSE Resolve(u, u[root].binding[1]) : root \in {Find(u, t.id)}} : TRUE
    ELSE IF t.args = <<>> THEN t
    ELSE CHOOSE r \in {Rebuild(t, args) :
                          args \in {<<>> \o [i \in DOMAIN t.args |-> Resolve(u, t.args[i])]}} : TRUE

RECURSIVE Occurs(_, _)
Occurs(root, t) == t = Variable(root) \/ \E i \in DOMAIN t.args : Occurs(root, t.args[i])

\* bind: an unbound variable and another resolved type.  Of two variables the
\* one of the lower rank is put under the other.
BindVariable(u, root, t) ==
    IF Occurs(root, t) THEN Outcome(u, "InfiniteType")
    ELSE IF t.k # "Variable" THEN Outcome([u EXCEPT ![root].binding = <<t>>], None)
    ELSE IF u[root].rank < u[t.id].rank THEN Outcome([u EXCEPT ![root].parent = t.id], None)
    ELSE Outcome([u EXCEPT ![t.id].parent = root,
                           ![root].rank = IF @ = u[t.id].rank THEN @ + 1 ELSE @], None)

\* unify: None, or the kind of the failure.  The variables bound before a
\* failure stay bound.
RECURSIVE Unify(_, _, _)
UnifyPairs(u, ls, rs) ==
    LET upTo[i \in 0 .. Len(ls)] ==
            IF i = 0 THEN Outcome(u, None)
            ELSE Then(upTo[i - 1], LAMBDA q :
                      IF q.x # None THEN {q} ELSE Unify(q.s, ls[i], rs[i]))
    IN  upTo[Len(ls)]
UnifyResolved(u, l, r) ==
    IF l = r \/ {"Error", "Never"} \cap {l.k, r.k} # {} THEN Outcome(u, None)
    ELSE IF l.k = "Variable" THEN BindVariable(u, l.id, r)
    ELSE IF r.k = "Variable" THEN BindVariable(u, r.id, l)
    ELSE IF l.k = r.k /\ l.id = r.id /\ Len(l.args) = Len(r.args)
    THEN UnifyPairs(u, l.args, r.args)
    ELSE Outcome(u, "TypeMismatch")
Unify(u, left, right) ==
    UNION {UnifyResolved(u, l, r) : l \in {Resolve(u, left)}, r \in {Resolve(u, right)}}

\* Unifiable in turn: every pair, from the bindings of the pairs before it.
UnifyEach(u, pairs) ==
    UnifyPairs(u, [i \in DOMAIN pairs |-> pairs[i][1]], [i \in DOMAIN pairs |-> pairs[i][2]])
=============================================================================
