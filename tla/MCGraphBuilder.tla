--------------------------- MODULE MCGraphBuilder ---------------------------
(***************************************************************************)
(* Modules of three declarations and a statement, in two orders.  The      *)
(* bindings x and y, the function f, the variant e and the method i (which *)
(* implements m) use each other; l and k are local bindings.  The graphs   *)
(* merged in are of a module that defines y, refers to x and to itself,    *)
(* and repeats an edge.  The empty source is filled by calls about x, y    *)
(* and f.                                                                  *)
(***************************************************************************)
EXTENDS GraphBuilder

CONSTANTS x, y, f, g, e, m, i, l, k, p, s0, s1

NodeOf(id, kind, span) == [id |-> id, kind |-> kind, span |-> span]
EdgeOf(origin, target, span) ==
    [source |-> origin, target |-> target, kind |-> "Call", span |-> span]

Others ==
    {[nodes |-> <<NodeOf(y, "Let", 1), External(x)>>,
      edges |-> <<EdgeOf(y, x, 1), EdgeOf(y, y, 2)>>],
     [nodes |-> <<External(f), NodeOf(x, "Let", 1)>>,
      edges |-> <<EdgeOf(x, f, 1)>>],
     [nodes |-> <<>>, edges |-> <<EdgeOf(f, y, 1)>>]}

Without == {x, y, f}
NodesWithout == [id : Without, kind : {"Let"}, span : {1, 2}]
EdgesWithout == [source : Without, target : Without, kind : {"Call"}, span : {1, 2}]

\* Expressions.
Constant == [is |-> "form", parts |-> <<>>]
Form(parts) == [is |-> "form", parts |-> parts]
Block(body) == [is |-> "block", body |-> body]
Name(id, span) == [is |-> "literal", res |-> id, call |-> FALSE, span |-> span, method |-> {}, arguments |-> <<>>]
CallOf(id, span, arguments) == [Name(id, span) EXCEPT !.call = TRUE, !.arguments = arguments]
Member(receiver, implementation, span) ==
    Form(<<Name(receiver, span),
           [is |-> "access", res |-> Elsewhere, call |-> TRUE, span |-> span + 1, arguments |-> <<>>,
            method |-> {[declaration |-> m, implementation |-> implementation]}]>>)

\* Statements.
Declare(id, kind, value, body) ==
    [is |-> "declaration", id |-> id, kind |-> kind, span |-> 1, value |-> value, body |-> body]
Let(id, value) == Declare(id, "Let", <<value>>, <<>>)
Fun(id, body) == Declare(id, "Function", <<>>, body)
Do(kind, value) == [is |-> "statement", kind |-> kind, span |-> 1, value |-> value]
Read(id, span) == Do("Expression", <<Name(id, span)>>)

LetX ==
    {Let(x, v) : v \in
      {Name(y, 1),
       CallOf(f, 1, <<Name(y, 2)>>),
       Block(<<Let(l, Name(y, 1)), Read(l, 2)>>),
       Block(<<Let(l, Name(x, 1))>>),
       Block(<<Let(l, Block(<<Let(k, Name(y, 1)), Read(k, 2)>>)), Fun(g, <<Read(y, 3)>>), Read(l, 4)>>),
       Form(<<Constant, Name(e, 1), Name(p, 2)>>),
       Member(y, i, 1),
       Member(y, Elsewhere, 1)}}

LetY ==
    {Let(y, v) : v \in
      {Constant, Name(x, 1), CallOf(f, 1, <<>>),
       Block(<<Do("Assignment", <<Name(x, 1), Name(f, 2)>>), Let(Undeclared, Name(x, 3)), Read(y, 4)>>)}}

Behaviour ==
    {Fun(f, <<Read(y, 1)>>),
     Fun(f, <<Do("Expression", <<CallOf(f, 1, <<Name(p, 2)>>)>>)>>),
     Fun(f, <<Let(k, Name(x, 1)), Read(k, 2)>>),
     [is |-> "members", members |-> <<Fun(m, <<>>), Fun(i, <<Do("Expression", <<Member(y, i, 1)>>)>>)>>],
     [is |-> "members", members |-> <<Declare(e, "EnumVariant", <<Name(y, 1)>>, <<>>)>>]}

Last == {Do("Assert", <<Name(x, 1), Constant>>), [is |-> "passive"]}

Numbered == <<s0, s1>>

Sources ==
    {<<>>} \cup {<<a, b, c, d>> : a \in LetX, b \in LetY, c \in Behaviour, d \in Last}
           \cup {<<d, c, b, a>> : a \in LetX, b \in LetY, c \in Behaviour, d \in Last}

\* Every statement and expression of these modules, and how many parts it has.
RECURSIVE PartsOf(_)
PartsOf(part) == {part} \cup UNION {PartsOf(q) : q \in Inner(part)}

PartsUsed == UNION {PartsOf(s) : s \in LetX \cup LetY \cup Behaviour \cup Last}
StatementsUsed == {q \in PartsUsed : q.is \in {"passive", "members", "declaration", "statement"}}
ExpressionsUsed == PartsUsed \ StatementsUsed
Sizes == [q \in PartsUsed |-> Cardinality(PartsOf(q))]
=============================================================================
