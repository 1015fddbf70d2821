------------------------------- MODULE Syntax -------------------------------
(***************************************************************************)
(* The syntax trees the front end walks (light-nix-parser/src/ast.rs), as  *)
(* tagged records.  What the passes keep in tables by AstId is written     *)
(* into the nodes by the resolver (res, symbol, id) or kept in tables by   *)
(* the number the resolver gives a node (at).                              *)
(*                                                                         *)
(* A pass threads a state through the tree; its operators give the set of  *)
(* their outcomes, always a single one, so that \in binds each outcome     *)
(* once.                                                                   *)
(***************************************************************************)
EXTENDS Integers, Sequences, FiniteSets

LOCAL INSTANCE TLC

Outcome(s, x) == {[s |-> s, x |-> x]}

\* Go on with the outcome of the step before.
Then(outcomes, Continue(_)) == UNION {Continue(r) : r \in outcomes}

\* A step for each item in turn, and what they give.
Thread(items, start, Step(_, _)) ==
    LET upTo[i \in 0 .. Len(items)] ==
            IF i = 0 THEN Outcome(start, <<>>)
            ELSE Then(upTo[i - 1], LAMBDA r :
                 Then(Step(items[i], r.s), LAMBDA q : Outcome(q.s, Append(r.x, q.x))))
    IN  upTo[Len(items)]

\* The same, where a step goes on from what the one before it gave.
Carry(items, start, first, Step(_, _, _)) ==
    LET upTo[i \in 0 .. Len(items)] ==
            IF i = 0 THEN Outcome(start, first)
            ELSE Then(upTo[i - 1], LAMBDA r : Step(items[i], r.s, r.x))
    IN  upTo[Len(items)]

\* A change of the state for each item in turn.
Through(items, start, Step(_, _)) ==
    LET upTo[i \in 0 .. Len(items)] ==
            IF i = 0 THEN {start} ELSE {Step(items[i], s) : s \in upTo[i - 1]}
    IN  upTo[Len(items)]

TheOnly(outcomes) == CHOOSE r \in outcomes : TRUE
Put(table, key, value) == (key :> value) @@ table
ToSet(s) == {s[i] : i \in DOMAIN s}

Concat(ss) == TheOnly(Through(ss, <<>>, LAMBDA s, t : t \o s))
Distinct(s) == TheOnly(Through(s, <<>>, LAMBDA e, t : IF e \in ToSet(t) THEN t ELSE Append(t, e)))
LastNamed(s, name) ==
    s[CHOOSE i \in DOMAIN s : s[i].name = name /\ \A j \in DOMAIN s : s[j].name = name => j <= i]

None == "none"

\* Types as written.
Builtins          == <<"Bool", "Int", "Float", "String", "Package", "List", "Set", "AttrSet">>
TypeInfo(n, ps)   == [name |-> n, params |-> ps, optional |-> FALSE, alts |-> <<>>]
TypeName(n)       == TypeInfo(n, <<>>)
Maybe(ti)         == [ti EXCEPT !.optional = TRUE]
Either(ti, other) == [ti EXCEPT !.alts = Append(@, other)]
NoTypeInfo        == TypeName(None)
Generic(x, bs)    == [name |-> x, bounds |-> bs]
Where(ti, bs)     == [type |-> ti, bounds |-> bs]
Param(x, ti)      == [name |-> x, type |-> ti]

\* Expressions.
Absent         == [op |-> None]
Num(n)         == [op |-> "num", value |-> n]
Str(v)         == [op |-> "str", value |-> v]
Flag(b)        == [op |-> "bool", value |-> b]
Null           == [op |-> "null"]
Some(e)        == [op |-> "some", arg |-> e]
ListOf(es)     == [op |-> "array", kind |-> "List", args |-> es]
SetOf(es)      == [op |-> "array", kind |-> "Set", args |-> es]
Name(x)        == [op |-> "name", name |-> x, targs |-> <<>>]
Call(f, es)    == [op |-> "call", callee |-> f, args |-> es]
Access(e, o, x) == [op |-> "access", arg |-> e, dot |-> o, name |-> x, targs |-> <<>>]
Dot(e, x)      == Access(e, ".", x)
Safe(e, x)     == Access(e, "?.", x)
Static(e, x)   == Access(e, "::", x)
Invoke(e, x, es) == Call(Dot(e, x), es)
With(e, tis)   == [e EXCEPT !.targs = tis]
Key(e, k)      == [op |-> "key", arg |-> e, key |-> k]
Is(e, ti)      == [op |-> "is", arg |-> e, target |-> ti]
As(e, ti)      == [op |-> "as", arg |-> e, target |-> ti]
Branch(c, b)   == [condition |-> c, body |-> b]
IfElse(bs, b)  == [op |-> "if", branches |-> bs, otherwise |-> <<b>>]
IfOnly(bs)     == [op |-> "if", branches |-> bs, otherwise |-> <<>>]
Match(e, arms) == [op |-> "match", arg |-> e, arms |-> arms]
Arm(p, e)      == [pattern |-> p, value |-> e]
Return(e)      == [op |-> "return", arg |-> e]
Throw(e)       == [op |-> "throw", arg |-> e]
\* A closure whose body is an expression, and one whose body is a block.
ClosureOf(ps, ti, b, isBlock) ==
    [op |-> "closure", params |-> ps, ret |-> ti, body |-> b, isBlock |-> isBlock]
Elvis(e, f)    == [op |-> "elvis", left |-> e, right |-> f]
Bin(o, l, r)   == [op |-> "binary", operator |-> o, left |-> l, right |-> r]
Negate(e)      == [op |-> "negate", arg |-> e]
Nested(fs)     == [op |-> "nested", fields |-> fs]
Entry(x, e)    == [name |-> x, value |-> e]

\* The statements of a block, walked as a node of its own.
Body(sts)      == [op |-> "body", statements |-> sts]

Closure(ps, ti, e)       == ClosureOf(ps, ti, <<[stmt |-> "expr", value |-> e]>>, FALSE)
ClosureBlock(ps, ti, b)  == ClosureOf(ps, ti, b, TRUE)

\* Patterns.
SomeOf(p)      == [pat |-> "some", inner |-> p]
NullPattern    == [pat |-> "null"]
Anything       == [pat |-> "wildcard"]
Bound(x)       == [pat |-> "binding", name |-> x]
VariantOf(t, v) == [pat |-> "variant", enum |-> t, name |-> v]

\* Statements.
Let(x, ti, e)  == [stmt |-> "let", exported |-> FALSE, name |-> x, type |-> ti, value |-> e]
Declare(x, ti) == Let(x, ti, Absent)
Fun(x, gs, ps, ti, b) ==
    [stmt |-> "function", exported |-> FALSE, name |-> x, generics |-> gs, where |-> <<>>,
     receiver |-> <<>>, params |-> ps, ret |-> ti, body |-> b]
Method(f)      == [f EXCEPT !.receiver = <<[name |-> "this"]>>]
Do(e)          == [stmt |-> "expr", value |-> e]
Require(e)     == [stmt |-> "assert", value |-> e]
Assign(t, e)   == [stmt |-> "assign", target |-> t, value |-> e]
Field(x, ti)   == [name |-> x, type |-> ti, block |-> <<>>]
Block(x, fs)   == [name |-> x, type |-> NoTypeInfo, block |-> fs]
Record(x, gs, fs) ==
    [stmt |-> "type", exported |-> FALSE, name |-> x, generics |-> gs, where |-> <<>>,
     fields |-> fs]
Enum(x, vs)    == [stmt |-> "enum", exported |-> FALSE, name |-> x, variants |-> vs]
Interface(x, gs, ms) ==
    [stmt |-> "interface", exported |-> FALSE, name |-> x, generics |-> gs, where |-> <<>>,
     methods |-> ms]
Implements(gs, i, t, ms) ==
    [stmt |-> "implements", generics |-> gs, where |-> <<>>, interface |-> i, target |-> t,
     methods |-> ms]
Import(path, names)    == [stmt |-> "import", path |-> path, names |-> names]
ImportAll(path, alias) == [stmt |-> "namespace", path |-> path, name |-> alias]
Export(st)     == [st EXCEPT !.exported = TRUE]

IsPresent(e)  == e.op # None
IsWritten(ti) == ti.name # None
=============================================================================
