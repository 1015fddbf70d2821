---------------------------- MODULE GraphBuilder ----------------------------
(***************************************************************************)
(* build_dependency_graph and refine_dependency_graph: the walk over the   *)
(* statements of a module that enters its declarations and references into *)
(* the tables of GraphTable.  The recursion of the visit functions is a    *)
(* stack of what is left to visit; with_owner leaves the previous owner on *)
(* it.  The first walk records what names resolve to, the refinement walks *)
(* the same statements again and records the methods that only types       *)
(* determine.  analyze_module refines once; the walk here does it twice,   *)
(* as a client may.                                                        *)
(*                                                                         *)
(* A statement is a record with a tag "is".  An expression is a literal    *)
(* (with what it resolves to), a member access (with the method types      *)
(* determine), a block of statements, or a form whose parts are visited in *)
(* order: conditions, operands, patterns, elements.                        *)
(***************************************************************************)
EXTENDS GraphTable, Functions

CONSTANTS
    Symbol,        \* symbols and variants: the ids of declarations
    StatementIds,  \* StatementId(module, index), by index
    Statement,     \* the statements of the modules considered, at any depth
    Expression,
    Size,          \* of a statement or an expression: syntax is finite
    Source,        \* the modules considered: sequences of statements
    Dependable,    \* symbols of kind Let or Function, variants, and what other modules declare
    SomeNodes,     \* what is entered with the empty source
    SomeEdges

Undeclared == "undeclared"   \* a name no declaration was registered for
Elsewhere == "elsewhere"     \* a name that resolves to no symbol or variant
NoOwner == "none"

Nested == {"Let", "Function", "EnumVariant"}
AtTopOnly == {"Assert", "Assignment", "Expression"}

ASSUME SymbolAssumption ==
    /\ Symbol \subseteq Id
    /\ NoOwner \notin Id
    /\ StatementIds \in Seq(Id \ Symbol)
    /\ Dependable \subseteq Symbol
    /\ Nested \cup AtTopOnly \subseteq DefinedKind
    /\ {"Reference", "Call", "InterfaceDispatch"} \subseteq EdgeKind
    /\ SomeNodes \subseteq [id : Id, kind : DefinedKind, span : Span]
    /\ SomeEdges \subseteq Edge

Part == Statement \cup Expression

\* What is directly inside a statement or an expression.
Inner(part) ==
    CASE part.is = "passive"     -> {}
      [] part.is = "members"     -> Range(part.members)
      [] part.is = "declaration" -> Range(part.value) \cup Range(part.body)
      [] part.is = "statement"   -> Range(part.value)
      [] part.is = "form"        -> Range(part.parts)
      [] part.is = "block"       -> Range(part.body)
      [] OTHER                   -> Range(part.arguments)

\* Only functions and variants are members; a declaration that was registered is
\* something to depend on.
IsStatement(s) ==
    \/ s.is = "passive"
    \/ /\ s.is = "members"
       /\ s.members \in Seq(Statement)
       /\ \A m \in Range(s.members) : m.is = "declaration" /\ m.kind # "Let"
    \/ /\ s.is = "declaration"
       /\ s.id \in Dependable \cup {Undeclared}
       /\ s.kind \in Nested
       /\ s.span \in Span
       /\ s.value \in Seq(Expression)
       /\ s.body \in Seq(Statement)
    \/ /\ s.is = "statement"
       /\ s.kind \in AtTopOnly
       /\ s.span \in Span
       /\ s.value \in Seq(Expression)

Method == [declaration : Symbol, implementation : Symbol \cup {Elsewhere}]

IsExpression(e) ==
    \/ e.is = "form" /\ e.parts \in Seq(Expression)
    \/ e.is = "block" /\ e.body \in Seq(Statement)
    \/ /\ e.is \in {"literal", "access"}
       /\ e.res \in Symbol \cup {Elsewhere}
       /\ e.call \in BOOLEAN
       /\ e.span \in Span
       /\ e.arguments \in Seq(Expression)
       /\ e.method \subseteq Method
       /\ \A a, b \in e.method : a = b
       /\ e.is = "literal" => e.method = {}

ASSUME SyntaxAssumption ==
    /\ \A s \in Statement : IsStatement(s)
    /\ \A e \in Expression : IsExpression(e)
    /\ Size \in [Part -> Nat]
    /\ \A part \in Part : \A inner \in Inner(part) : Size[inner] < Size[part]

\* How many statements at the top are nodes of their own, up to the i-th.
Number(s, i) == Cardinality({j \in 1 .. i : s[j].is = "statement"})

ASSUME SourceAssumption ==
    \A s \in Source :
        /\ s \in Seq(Statement)
        /\ Number(s, Len(s)) <= Len(StatementIds)

VARIABLES
    source,          \* fixed
    walk,            \* 0 before the first walk, then the number of the walk
    todo,            \* what is left to visit, the next first
    owner,           \* the declaration references belong to
    next_statement

builderVars == <<source, walk, todo, owner, next_statement>>
allVars == <<nodes, indices, edges, outgoing, incoming, pending, defined,
             source, walk, todo, owner, next_statement>>

Walks == 3
collect_base == walk = 1
types == walk > 1

Visit(statement, module_scope) == [do |-> "statement", node |-> statement, module_scope |-> module_scope]
Evaluate(e) == [do |-> "expression", node |-> e]
Restore(o) == [do |-> "restore", owner |-> o]

Statements(s, module_scope) == [i \in 1 .. Len(s) |-> Visit(s[i], module_scope)]
Expressions(s) == [i \in 1 .. Len(s) |-> Evaluate(s[i])]

BuilderInit ==
    /\ Init
    /\ source \in Source
    /\ walk = 0
    /\ todo = <<>>
    /\ owner = NoOwner
    /\ next_statement = 0

\* A walk starts with a builder of its own; the graph is the one of the last walk.
StartWalk ==
    /\ Idle
    /\ todo = <<>>
    /\ walk < Walks
    /\ walk' = walk + 1
    /\ todo' = Statements(source, TRUE)
    /\ owner' = NoOwner
    /\ next_statement' = 0
    /\ UNCHANGED <<source, nodes, indices, edges, outgoing, incoming, pending, defined>>

Task == Head(todo)
At(is) == Idle /\ todo # <<>> /\ Task.do = "statement" /\ Task.node.is = is
AtExpression(is) == Idle /\ todo # <<>> /\ Task.do = "expression" /\ Task.node.is = is

TablesUnchanged == UNCHANGED <<nodes, indices, edges, outgoing, incoming, pending, defined>>

Continue(tasks) ==
    /\ todo' = tasks \o Tail(todo)
    /\ UNCHANGED <<source, walk>>

\* with_owner: the tasks run with the owner, which is put back behind them.
\* Mutant: the owner is not put back.
WithOwnerKept(o, tasks) == Continue(tasks) /\ owner' = o

WithOwner(o, tasks) == Continue(tasks \o <<Restore(owner)>>) /\ owner' = o

RestoreOwner ==
    /\ Idle
    /\ todo # <<>>
    /\ Task.do = "restore"
    /\ Continue(<<>>)
    /\ owner' = Task.owner
    /\ UNCHANGED next_statement
    /\ TablesUnchanged

\* Imports, types and uses.
VisitPassive ==
    /\ At("passive")
    /\ Continue(<<>>)
    /\ UNCHANGED <<owner, next_statement>>
    /\ TablesUnchanged

\* Variants are visited one by one, as are the methods of interfaces and
\* implementations.
VisitMembers ==
    /\ At("members")
    /\ Continue(Statements(Task.node.members, FALSE))
    /\ UNCHANGED <<owner, next_statement>>
    /\ TablesUnchanged

\* A let, a variant or a function: skipped when its name was not declared,
\* otherwise a node that owns what is inside.
VisitUndeclared ==
    /\ At("declaration")
    /\ Task.node.id = Undeclared
    /\ Continue(<<>>)
    /\ UNCHANGED <<owner, next_statement>>
    /\ TablesUnchanged

VisitDeclaration ==
    /\ At("declaration")
    /\ Task.node.id # Undeclared
    /\ DefineNode(Task.node.id, Task.node.kind, Task.node.span)
    /\ WithOwner(Task.node.id, Expressions(Task.node.value) \o Statements(Task.node.body, FALSE))
    /\ UNCHANGED next_statement

\* An assert, a claim or an expression.  At the top of the module it is a node of
\* its own, anywhere else it belongs to what encloses it.
VisitStatementAtTop ==
    /\ At("statement")
    /\ Task.module_scope
    /\ LET id == StatementIds[next_statement + 1] IN
         /\ DefineNode(id, Task.node.kind, Task.node.span)
         /\ WithOwner(id, Expressions(Task.node.value))
    /\ next_statement' = next_statement + 1

VisitStatementInside ==
    /\ At("statement")
    /\ ~Task.module_scope
    /\ WithOwner(owner, Expressions(Task.node.value))
    /\ UNCHANGED next_statement
    /\ TablesUnchanged

VisitForm ==
    /\ AtExpression("form")
    /\ Continue(Expressions(Task.node.parts))
    /\ UNCHANGED <<owner, next_statement>>
    /\ TablesUnchanged

\* Mutant: the statements of a block are not visited.
VisitBlockSkipped ==
    /\ AtExpression("block")
    /\ Continue(<<>>)
    /\ UNCHANGED <<owner, next_statement>>
    /\ TablesUnchanged

VisitBlock ==
    /\ AtExpression("block")
    /\ Continue(Statements(Task.node.body, FALSE))
    /\ UNCHANGED <<owner, next_statement>>
    /\ TablesUnchanged

CallOr(e) == IF e.call THEN "Call" ELSE "Reference"

\* record_literal and record_typed_member: the edges one literal or access adds.
BaseEdges(e) ==
    {[source |-> owner, target |-> target, kind |-> CallOr(e), span |-> e.span] :
        target \in {r \in {e.res} : collect_base /\ owner # NoOwner /\ r \in Dependable}}

TypedEdges(e) ==
    {[source |-> owner,
      target |-> IF m.implementation = Elsewhere THEN m.declaration ELSE m.implementation,
      kind   |-> IF m.implementation = Elsewhere THEN "InterfaceDispatch" ELSE CallOr(e),
      span   |-> e.span] : m \in {n \in e.method : types /\ owner # NoOwner}}

Record(found) ==
    IF found = {} THEN TablesUnchanged ELSE \E edge \in found : AddEdge(edge)

\* A name, and then the arguments of its call.
VisitLiteral ==
    /\ AtExpression("literal")
    /\ Record(BaseEdges(Task.node))
    /\ Continue(Expressions(Task.node.arguments))
    /\ UNCHANGED <<owner, next_statement>>

\* A member: at most one of the two walks has an edge for it.
VisitAccess ==
    /\ AtExpression("access")
    /\ Record(BaseEdges(Task.node) \cup TypedEdges(Task.node))
    /\ Continue(Expressions(Task.node.arguments))
    /\ UNCHANGED <<owner, next_statement>>

WalkStep ==
    \/ StartWalk \/ RestoreOwner \/ VisitPassive \/ VisitMembers
    \/ VisitUndeclared \/ VisitDeclaration \/ VisitStatementAtTop \/ VisitStatementInside
    \/ VisitForm \/ VisitBlock \/ VisitLiteral \/ VisitAccess

Built == walk = Walks /\ todo = <<>>

\* Behind the walks a client merges graphs.  An empty source leaves room for the
\* calls that any other source makes, merges between them.
OtherCall == Built /\ source = <<>> /\ Calls(SomeNodes, SomeEdges) /\ UNCHANGED builderVars
ClientMerge == Built /\ Merge /\ UNCHANGED builderVars

BuilderNext == WalkStep \/ OtherCall \/ ClientMerge

BuilderSpec == BuilderInit /\ [][BuilderNext]_allVars
-----------------------------------------------------------------------------
(***************************************************************************)
(* What the walk should have found, stated by nesting and without an owner *)
(* that is set and put back.                                               *)
(***************************************************************************)
\* What every part has of its own, gathered over the parts inside it.
Gathered(own, inside) ==
    LET all[part \in Part] == own[part] \cup UNION {all[p] : p \in inside[part]} IN all

Declares(part) == part.is = "declaration" /\ part.id # Undeclared

\* The declarations in a statement or an expression, at any depth; nothing inside
\* an undeclared name counts.
DeclarationsIn ==
    Gathered([part \in Part |-> IF Declares(part) THEN {part} ELSE {}],
             [part \in Part |-> IF part.is = "declaration" /\ ~Declares(part) THEN {} ELSE Inner(part)])

\* The declarations of some kinds keep to themselves what is inside them, as do
\* undeclared names.
Apart(part, kinds) ==
    \/ part.is = "members"
    \/ part.is = "declaration" /\ (part.kind \in kinds \/ ~Declares(part))

Within(kinds) == [part \in Part |-> IF Apart(part, kinds) THEN {} ELSE Inner(part)]

\* The literals and accesses in a part that belong to what is around it.
UsesIn(kinds) ==
    Gathered([part \in Part |-> IF part.is \in {"literal", "access"} THEN {part} ELSE {}], Within(kinds))

InsideOf(d, kinds) == UNION {UsesIn(kinds)[part] : part \in Inner(d)}

Declared == UNION {DeclarationsIn[source[i]] : i \in DOMAIN source}

AtTop == {i \in DOMAIN source : source[i].is = "statement"}

\* What one use makes of its owner: an edge for the name, or for the method.
UseEdges(id, u) ==
    {[source |-> id, target |-> u.res, kind |-> CallOr(u), span |-> u.span] : r \in {u.res} \cap Dependable}
      \cup {[source |-> id, target |-> m.implementation, kind |-> CallOr(u), span |-> u.span] :
              m \in {n \in u.method : n.implementation # Elsewhere}}
      \cup {[source |-> id, target |-> m.declaration, kind |-> "InterfaceDispatch", span |-> u.span] :
              m \in {n \in u.method : n.implementation = Elsewhere}}

Expected ==
    (UNION {UNION {UseEdges(d.id, u) : u \in InsideOf(d, Nested)} : d \in Declared})
      \cup (UNION {UNION {UseEdges(StatementIds[Number(source, i)], u) : u \in UsesIn(Nested)[source[i]]} : i \in AtTop})

Refined == walk = 2 /\ todo = <<>>

\* A reference belongs to the innermost declaration around it, or to the statement
\* of the module around it, and every reference is recorded, whatever is nested in
\* what and whichever declaration the walk has come back from.
OwnersAreInnermost == Refined => Range(edges) = Expected

\* Refining again finds every node and every edge in place (the test
\* typed_refinement_adds_concrete_dispatch_and_detects_method_recursion counts edges):
\* statements get the same numbers, and no reference is entered twice.
RefiningAgainChangesNothing ==
    [][walk = Walks /\ todo # <<>> => UNCHANGED <<nodes, indices, edges, outgoing, incoming>>]_allVars

\* evaluate_module evaluates local bindings where they stand, and bodies when they
\* are called: what it may evaluate on behalf of a declaration.
Deferred == {"Function", "EnumVariant"}

\* A method whose implementation types do not determine is an error.
Called(u) == {m.implementation : m \in {n \in u.method : n.implementation # Elsewhere}}

Demanded(d) == UNION {{u.res} \cup Called(u) : u \in InsideOf(d, Deferred)}

LetsIn ==
    Gathered([part \in Part |-> IF Declares(part) /\ part.kind = "Let" THEN {part} ELSE {}], Within(Deferred))

LocalLets(d) == UNION {LetsIn[part] : part \in Inner(d)}

\* Nothing sees to that: an unread local binding is evaluated where it stands, and
\* there is no edge to it.
LocalsAreRead ==
    \A d \in Declared : \A l \in LocalLets(d) :
        \E c \in {d} \cup LocalLets(d) :
            l \in LocalLets(c) /\ l.id \in {u.res : u \in InsideOf(c, Nested)}

Acyclic(ids, uses) == \A S \in (SUBSET ids) \ {{}} : \E id \in S : uses[id] \cap S = {}

\* A module without cycles in its graph is one the evaluator gets through: no
\* declaration is needed for its own value.  The evaluator catches cycles of bindings
\* and of calls, but not those of variants.
NoCycleInEvaluation ==
    (Refined /\ LocalsAreRead) =>
        LET ids     == {d.id : d \in Declared}
            targets == [id \in ids |-> {e.target : e \in {x \in Range(edges) : x.source = id}}]
            demand  == [id \in ids |-> UNION {Demanded(d) : d \in {c \in Declared : c.id = id}}]
        IN  Acyclic(ids, targets) => Acyclic(ids, demand)
=============================================================================
