----------------------------- MODULE MCAgreement ----------------------------
(***************************************************************************)
(* Modules with a Boolean tunable binding t, an integer tunable binding n, *)
(* a plain binding y, o or items, an integer, an optional integer and a    *)
(* list of integers, readonly outputs p and w, an editable output q: every *)
(* sequence of up to BodyLength statements of a pool, in every order, and  *)
(* up to one less where n is initialised from t.  One                      *)
(* pool has integers, branches and failures, one optionals, patterns (that *)
(* bind v) and bindings of blocks (z), one collections and closures (of    *)
(* parameters each and other).  In that one p is a set and w a list.       *)
(***************************************************************************)
EXTENDS Agreement, TLC

LOCAL INSTANCE SequencesExt

CONSTANTS t, n, y, o, v, z, items, each, other, p, q, w, BodyLength

Zero == Const(0)
One == Const(1)
Div == Binary("div", One, Ref(n))

Values == {
    One, Ref(n), Ref(y), Read(p), Read(q), Div,
    Binary("add", Ref(n), One),
    If(Ref(t), <<Expr(Div)>>, <<Expr(One)>>),
    If(Ref(t), <<Expr(One)>>, <<Expr(Throw)>>),
    Opaque(Ref(n))}

Conditions == {
    Ref(t), Binary("eq", Read(p), One),
    Binary("or", Ref(t), Binary("eq", Read(q), One)),
    Binary("and", Binary("eq", Ref(n), One), Binary("eq", Div, One))}

Statements ==
    {Claim(p, e) : e \in Values \ {Read(p)}}
      \cup {Claim(q, e) : e \in {One, Read(p), Div}}
      \cup {Let(y, e) : e \in {Ref(n), Read(p), Div, If(Ref(t), <<Expr(One)>>, <<Expr(Throw)>>)}}
      \cup {AssertThat(e) : e \in Conditions}
      \cup {Expr(If(Ref(t), <<Claim(p, One)>>, NoBlock)),
            Expr(If(Ref(t), <<Claim(p, One)>>, <<Claim(p, Ref(n))>>)),
            Expr(If(Ref(t), <<Expr(One), Claim(p, One)>>, NoBlock)),
            Expr(If(Ref(t), <<Claim(q, Ref(y))>>, NoBlock)),
            Expr(If(Opaque(Ref(t)), <<Claim(q, Zero)>>, NoBlock)),
            Expr(If(Binary("eq", Ref(n), Zero), <<Expr(Throw)>>, NoBlock))}

FromOptional(some, null) == Match(Ref(o), <<Arm(SomePattern(Binding(v)), some), Arm(NullPattern, null)>>)

OptionalStatements == {
    Let(o, Some(Ref(n))),
    Let(o, If(Ref(t), <<Expr(Some(Ref(n)))>>, <<Expr(Null)>>)),
    Let(y, Match(If(Ref(t), <<Expr(Null)>>, <<Expr(Some(Ref(n)))>>), <<Arm(SomePattern(Wildcard), Zero)>>)),
    Claim(p, Elvis(Ref(o), Zero)),
    Claim(p, Elvis(Ref(o), Div)),
    Claim(p, Elvis(Ref(o), Throw)),
    Claim(q, Elvis(Null, Ref(n))),
    Claim(p, FromOptional(Ref(v), Zero)),
    Claim(q, FromOptional(Ref(v), Throw)),
    Claim(p, Match(Ref(o), <<Arm(NullPattern, Ref(n)), Arm(SomePattern(Wildcard), Zero)>>)),
    Claim(p, Match(Ref(n), <<Arm(Binding(v), Binary("add", Ref(v), One)), Arm(Wildcard, Zero)>>)),
    Claim(p, Match(Opaque(Ref(n)), <<Arm(Binding(v), Ref(v))>>)),
    Claim(p, If(Ref(t), <<Local(z, Ref(n)), Expr(Ref(z))>>, <<Expr(Zero)>>)),
    Expr(FromOptional(If(Binary("eq", Ref(v), One), <<Local(z, Ref(v)), Claim(q, Ref(z))>>, NoBlock),
                      If(Const(Yes), <<Claim(q, Zero)>>, NoBlock))),
    Expr(Match(Ref(o), <<Arm(SomePattern(Wildcard), If(Const(Yes), <<Claim(p, One)>>, NoBlock)),
                         Arm(NullPattern, If(Const(Yes), <<Claim(p, Zero)>>, NoBlock))>>)),
    Claim(p, Match(Ref(o), <<Arm(SomePattern(Wildcard), Throw), Arm(Wildcard, One)>>)),
    AssertThat(Binary("or", Binary("eq", Ref(o), Null), Binary("eq", Ref(o), Some(One)))),
    Claim(q, Ref(y))}

IsOne(e) == Binary("eq", e, One)
OneIf(e) == If(e, <<Expr(One)>>, <<Expr(Zero)>>)
Inline(e) == Closure("inline", each, e)
Opaquely(e) == Closure("opaque", each, e)

CollectionStatements == {
    Let(items, List(<<Ref(n), One>>)),
    Let(items, If(Ref(t), <<Expr(List(<<One>>))>>, <<Expr(List(<<Ref(n), One>>))>>)),
    Let(items, Filter(List(<<Ref(n), One, Ref(n)>>), Inline(IsOne(Ref(each))))),
    Claim(w, Ref(items)),
    Claim(w, Map(Ref(items), Inline(Binary("add", Ref(each), Ref(n))))),
    Claim(w, Map(Ref(items), Inline(Binary("div", One, Ref(each))))),
    Claim(w, Map(Ref(items), Inline(If(IsOne(Ref(each)), <<Expr(One)>>, <<Expr(Throw)>>)))),
    Claim(w, Map(Ref(items), Inline(Match(Ref(each), <<Arm(Binding(v), OneIf(Binary("eq", Ref(v), Ref(n))))>>)))),
    Claim(w, Filter(Ref(items), Inline(Ref(t)))),
    Claim(w, Filter(Ref(items), Inline(Includes(Map(Ref(items), Closure("inline", other,
                                                      OneIf(Binary("eq", Ref(other), Ref(each))))), Ref(each))))),
    Claim(w, Map(Ref(items), Opaquely(OneIf(IsOne(Ref(each)))))),
    Claim(w, Filter(Ref(items), Opaquely(Binary("eq", Ref(each), Ref(n))))),
    Claim(w, If(Ref(t), <<Expr(Map(Ref(items), Inline(Throw)))>>, <<Expr(Ref(items))>>)),
    Claim(q, OneIf(Binary("eq", List(<<One>>), Filter(Ref(items), Inline(IsOne(Ref(each))))))),
    Claim(p, SetOf(<<Ref(n), One>>)),
    Claim(p, Map(SetOf(<<Zero, One>>), Inline(OneIf(Binary("eq", Ref(each), Ref(n)))))),
    Claim(p, Filter(SetOf(<<Zero, One>>), Inline(Binary("eq", Ref(each), Ref(n))))),
    AssertThat(Binary("eq", Filter(Ref(items), Inline(Ref(t))), Ref(items))),
    AssertThat(Includes(Ref(items), Ref(n)))}

Plainly == <<Tunable(t, Const(No)), Tunable(n, One)>>
Dependently == <<Tunable(t, Const(Yes)), Tunable(n, If(Ref(t), <<Expr(One)>>, <<Expr(Zero)>>))>>

\* The modules of declarations and up to length statements of one pool: which names
\* resolve does not depend on the order.
Modules(declarations, length) ==
    LET choices == UNION {{ToSet(b) : b \in SeqOf(pool, length)} :
                            pool \in {Statements, OptionalStatements, CollectionStatements}}
        resolved == {c \in choices : Resolved(declarations \o SetToSeq(c))}
    IN  {declarations \o b : b \in UNION {SetToSeqs(c) : c \in resolved}}

Programs == Modules(Plainly, BodyLength) \cup Modules(Dependently, BodyLength - 1)

Paths == {p, q, w}
\* Every edit of bindings, and edits of an output by itself and with both bindings.
NoEdit == [{} -> {}]
EditBoth == {(t :> b) @@ (n :> 0) : b \in {Yes, No}}
Proposals ==
    [tunables : NoEdit \cup [{t} -> {Yes, No}] \cup [{n} -> {0, 2}] \cup EditBoth, outputs : NoEdit]
      \cup [tunables : NoEdit \cup EditBoth, outputs : [{q} -> {Absent, 1}]]
Unreachables == {0, 1}
=============================================================================
