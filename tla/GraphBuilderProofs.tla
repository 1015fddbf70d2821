------------------------- MODULE GraphBuilderProofs -------------------------
(***************************************************************************)
(* What the walks of the graph builder record is what nesting says, for    *)
(* every source.                                                           *)
(*                                                                         *)
(* Syntax is a finite tree, so each part has a size greater than what is   *)
(* inside it.  Induction over syntax is the least size of a                *)
(* counterexample, and what a recursive function gathers from a part is    *)
(* determined by its equation.                                             *)
(***************************************************************************)
EXTENDS GraphBuilder, GraphTableProofs, LeastElements, FiniteSetTheorems

-----------------------------------------------------------------------------
(***************************************************************************)
(* Induction and recursion over syntax.                                    *)
(***************************************************************************)
LEMMA SizeIsNumber == Size \in [Part -> Nat]
BY SyntaxAssumption

LEMMA RangeInside ==
    ASSUME NEW S, NEW s \in Seq(S)
    PROVE  /\ Range(s) \subseteq S
           /\ \A i \in 1 .. Len(s) : s[i] \in Range(s)
           /\ \A x \in Range(s) : \E i \in 1 .. Len(s) : s[i] = x
BY DEF Range

LEMMA InnerIsSmaller ==
    ASSUME NEW part \in Part
    PROVE  Inner(part) \subseteq Part /\ \A p \in Inner(part) : Size[p] < Size[part]
<1>1. CASE part \in Statement
  <2>1. IsStatement(part)
    BY <1>1, SyntaxAssumption
  <2>2. Inner(part) \subseteq Part
    BY <2>1, RangeInside DEF IsStatement, Inner, Part
  <2> QED
    BY <2>2, SyntaxAssumption
<1>2. CASE part \in Expression
  <2>1. IsExpression(part)
    BY <1>2, SyntaxAssumption
  <2>2. Inner(part) \subseteq Part
    BY <2>1, RangeInside DEF IsExpression, Inner, Part
  <2> QED
    BY <2>2, SyntaxAssumption
<1> QED
  BY <1>1, <1>2 DEF Part

\* What holds of a part when it holds of everything inside it holds of every part.
LEMMA PartInduction ==
    ASSUME NEW S, \A part \in Part : Inner(part) \subseteq S => part \in S
    PROVE  Part \subseteq S
<1> DEFINE Sizes == {Size[part] : part \in Part \ S}
<1> SUFFICES ASSUME Part \ S # {} PROVE FALSE
  OBVIOUS
<1>1. PICK n \in Sizes : \A m \in Sizes : n <= m
  <2>1. Sizes \subseteq Nat /\ Sizes # {}
    BY SizeIsNumber
  <2> HIDE DEF Sizes
  <2> QED
    BY <2>1, LeastExists
<1>2. PICK part \in Part \ S : Size[part] = n
  OBVIOUS
<1>3. ASSUME NEW p \in Inner(part) PROVE p \in S
  <2>1. p \in Part /\ Size[p] \in Nat /\ Size[part] \in Nat /\ Size[p] < Size[part]
    BY InnerIsSmaller, SizeIsNumber
  <2>2. ASSUME p \notin S PROVE FALSE
    <3>1. n <= Size[p]
      BY <1>1, <2>1, <2>2
    <3> QED
      BY <1>2, <2>1, <3>1
  <2> QED
    BY <2>2
<1> QED
  BY <1>2, <1>3

\* f solves the equations of the parts smaller than n.
Solves(f, n, own, inner) ==
    \A p \in Part : Size[p] < n => f[p] = own[p] \cup UNION {f[q] : q \in inner[p]}

\* Such functions exist for every limit,
LEMMA LimitSolves ==
    ASSUME NEW own, NEW inner \in [Part -> SUBSET Part],
           \A p \in Part : \A q \in inner[p] : Size[q] < Size[p]
    PROVE  \A n \in Nat : \E f : Solves(f, n, own, inner)
<1> DEFINE Unsolved == {n \in Nat : ~ \E f : Solves(f, n, own, inner)}
<1> SUFFICES ASSUME Unsolved # {} PROVE FALSE
  OBVIOUS
<1>1. PICK n \in Unsolved : \A m \in Unsolved : n <= m
  <2>1. Unsolved \subseteq Nat
    OBVIOUS
  <2> HIDE DEF Unsolved
  <2> QED
    BY <2>1, LeastExists
<1>2. n # 0
  <2>1. Solves(own, 0, own, inner)
    BY SizeIsNumber DEF Solves
  <2> QED
    BY <2>1
<1>3. n - 1 \in Nat /\ n - 1 \notin Unsolved
  <2>1. n \in Nat
    OBVIOUS
  <2>2. n - 1 \in Nat /\ ~ (n <= n - 1)
    BY <1>2, <2>1
  <2> HIDE DEF Unsolved
  <2> QED
    BY <1>1, <2>2
<1>4. PICK f : Solves(f, n - 1, own, inner)
  BY <1>3
<1> DEFINE g == [p \in Part |-> own[p] \cup UNION {f[q] : q \in inner[p]}]
<1>5. \A q \in Part : Size[q] < n - 1 => g[q] = f[q]
  BY <1>4 DEF Solves
<1>6. Solves(g, n, own, inner)
  <2> SUFFICES ASSUME NEW p \in Part, Size[p] < n
               PROVE  g[p] = own[p] \cup UNION {g[q] : q \in inner[p]}
    BY DEF Solves
  <2>1. \A q \in inner[p] : q \in Part /\ Size[q] < n - 1
    BY SizeIsNumber
  <2>2. \A q \in inner[p] : g[q] = f[q]
    BY <1>5, <2>1
  <2>3. g[p] = own[p] \cup UNION {f[q] : q \in inner[p]}
    OBVIOUS
  <2> HIDE DEF g
  <2>4. UNION {f[q] : q \in inner[p]} = UNION {g[q] : q \in inner[p]}
    BY <2>2
  <2> QED
    BY <2>3, <2>4
<1> QED
  BY <1>6

\* agree where both are bound to,
LEMMA SolutionsAgree ==
    ASSUME NEW own, NEW inner \in [Part -> SUBSET Part],
           \A p \in Part : \A q \in inner[p] : Size[q] < Size[p],
           NEW n \in Nat, NEW m \in Nat, NEW f, NEW g, Solves(f, n, own, inner), Solves(g, m, own, inner)
    PROVE  \A p \in Part : Size[p] < n /\ Size[p] < m => f[p] = g[p]
<1> DEFINE Differ == {p \in Part : Size[p] < n /\ Size[p] < m /\ f[p] # g[p]}
           Sizes == {Size[p] : p \in Differ}
<1> SUFFICES ASSUME Differ # {} PROVE FALSE
  OBVIOUS
<1>1. PICK s \in Sizes : \A t \in Sizes : s <= t
  <2>1. Sizes \subseteq Nat /\ Sizes # {}
    BY SizeIsNumber
  <2> HIDE DEF Sizes
  <2> QED
    BY <2>1, LeastExists
<1>2. PICK p \in Differ : Size[p] = s
  OBVIOUS
<1>3. ASSUME NEW q \in inner[p] PROVE f[q] = g[q]
  <2>1. q \in Part /\ Size[q] < Size[p] /\ p \in Part /\ Size[q] \in Nat /\ Size[p] \in Nat
    BY SizeIsNumber
  <2>2. q \notin Differ
    <3> SUFFICES ASSUME q \in Differ PROVE FALSE
      OBVIOUS
    <3>1. s <= Size[q]
      BY <1>1
    <3> QED
      BY <1>2, <2>1, <3>1
  <2> QED
    BY <2>1, <2>2
<1>4. f[p] = own[p] \cup UNION {f[q] : q \in inner[p]}
  BY DEF Solves
<1>5. g[p] = own[p] \cup UNION {g[q] : q \in inner[p]}
  BY DEF Solves
<1>6. UNION {f[q] : q \in inner[p]} = UNION {g[q] : q \in inner[p]}
  BY <1>3
<1> QED
  BY <1>4, <1>5, <1>6

\* and together solve the equations of all parts.
LEMMA GatheredIs ==
    ASSUME NEW own, NEW inner \in [Part -> SUBSET Part],
           \A p \in Part : \A q \in inner[p] : Size[q] < Size[p]
    PROVE  \A p \in Part : Gathered(own, inner)[p] =
             own[p] \cup UNION {Gathered(own, inner)[q] : q \in inner[p]}
<1> DEFINE Up(n) == CHOOSE f : Solves(f, n, own, inner)
           whole == [p \in Part |-> Up(Size[p] + 1)[p]]
           Solution(f) == f = [p \in Part |-> own[p] \cup UNION {f[q] : q \in inner[p]}]
           all == Gathered(own, inner)
<1>1. \A n \in Nat : Solves(Up(n), n, own, inner)
  <2> SUFFICES ASSUME NEW n \in Nat PROVE Solves(Up(n), n, own, inner)
    OBVIOUS
  <2>1. \E f : Solves(f, n, own, inner)
    BY LimitSolves
  <2> QED
    BY <2>1, Zenon
<1> HIDE DEF Up
<1>2. ASSUME NEW p \in Part
      PROVE  whole[p] = own[p] \cup UNION {whole[q] : q \in inner[p]}
  <2> DEFINE n == Size[p] + 1
  <2>1. n \in Nat /\ Size[p] < n /\ Size[p] \in Nat
    BY SizeIsNumber
  <2>2. Solves(Up(n), n, own, inner)
    BY <1>1, <2>1
  <2>3. Up(n)[p] = own[p] \cup UNION {Up(n)[q] : q \in inner[p]}
    BY <2>1, <2>2 DEF Solves
  <2>4. ASSUME NEW q \in inner[p] PROVE whole[q] = Up(n)[q]
    <3>1. q \in Part /\ Size[q] \in Nat /\ Size[q] < Size[p]
      BY SizeIsNumber
    <3>2. Size[q] + 1 \in Nat /\ Solves(Up(Size[q] + 1), Size[q] + 1, own, inner)
      BY <1>1, <3>1
    <3>3. Size[q] < n /\ Size[q] < Size[q] + 1
      BY <2>1, <3>1
    <3> HIDE DEF n
    <3> QED
      BY <2>1, <2>2, <3>1, <3>2, <3>3, SolutionsAgree
  <2>5. UNION {whole[q] : q \in inner[p]} = UNION {Up(n)[q] : q \in inner[p]}
    <3> HIDE DEF n, whole
    <3> QED
      BY <2>4
  <2> QED
    BY <2>3, <2>5
<1>3. whole = [p \in Part |-> own[p] \cup UNION {whole[q] : q \in inner[p]}]
  <2> DEFINE rhs == [p \in Part |-> own[p] \cup UNION {whole[q] : q \in inner[p]}]
  <2>1. whole = [p \in Part |-> whole[p]]
    OBVIOUS
  <2>2. \A p \in Part : whole[p] = rhs[p]
    BY <1>2
  <2> HIDE DEF whole
  <2> QED
    BY <2>1, <2>2
<1>4. all = CHOOSE f : Solution(f)
  BY DEF Gathered
<1>5. \E f : Solution(f)
  BY <1>3
<1> HIDE DEF Solution, all
<1>6. Solution(all)
  BY <1>4, <1>5, Zenon
<1>7. all = [p \in Part |-> own[p] \cup UNION {all[q] : q \in inner[p]}]
  BY <1>6 DEF Solution
<1>8. \A p \in Part : all[p] = own[p] \cup UNION {all[q] : q \in inner[p]}
  BY <1>7, Zenon
<1> QED
  BY <1>8 DEF all

-----------------------------------------------------------------------------
(***************************************************************************)
(* The declarations and uses in a part, by what is inside it.              *)
(***************************************************************************)
LEMMA UsesAre ==
    ASSUME NEW kinds, NEW part \in Part
    PROVE  UsesIn(kinds)[part] =
             (IF part.is \in {"literal", "access"} THEN {part} ELSE {})
               \cup UNION {UsesIn(kinds)[p] : p \in IF Apart(part, kinds) THEN {} ELSE Inner(part)}
<1> DEFINE own == [p \in Part |-> IF p.is \in {"literal", "access"} THEN {p} ELSE {}]
           inside == Within(kinds)
<1>1. /\ inside \in [Part -> SUBSET Part]
      /\ \A p \in Part : \A q \in inside[p] : Size[q] < Size[p]
  BY InnerIsSmaller DEF Within
<1>2. UsesIn(kinds) = Gathered(own, inside)
  BY DEF UsesIn
<1>3. /\ own[part] = IF part.is \in {"literal", "access"} THEN {part} ELSE {}
      /\ inside[part] = IF Apart(part, kinds) THEN {} ELSE Inner(part)
  BY DEF Within
<1> HIDE DEF own, inside
<1>4. UsesIn(kinds)[part] = own[part] \cup UNION {UsesIn(kinds)[q] : q \in inside[part]}
  BY <1>1, <1>2, GatheredIs
<1> QED
  BY <1>3, <1>4

LEMMA DeclarationsAre ==
    ASSUME NEW part \in Part
    PROVE  DeclarationsIn[part] =
             (IF Declares(part) THEN {part} ELSE {})
               \cup UNION {DeclarationsIn[p] : p \in
                             IF part.is = "declaration" /\ ~Declares(part) THEN {} ELSE Inner(part)}
<1> DEFINE own == [p \in Part |-> IF Declares(p) THEN {p} ELSE {}]
           inside == [p \in Part |-> IF p.is = "declaration" /\ ~Declares(p) THEN {} ELSE Inner(p)]
<1>1. /\ inside \in [Part -> SUBSET Part]
      /\ \A p \in Part : \A q \in inside[p] : Size[q] < Size[p]
  BY InnerIsSmaller
<1>2. DeclarationsIn = Gathered(own, inside)
  BY DEF DeclarationsIn
<1>3. /\ own[part] = IF Declares(part) THEN {part} ELSE {}
      /\ inside[part] = IF part.is = "declaration" /\ ~Declares(part) THEN {} ELSE Inner(part)
  OBVIOUS
<1> HIDE DEF own, inside
<1>4. DeclarationsIn[part] = own[part] \cup UNION {DeclarationsIn[q] : q \in inside[part]}
  BY <1>1, <1>2, GatheredIs
<1> QED
  BY <1>3, <1>4

LEMMA LetsAre ==
    ASSUME NEW part \in Part
    PROVE  LetsIn[part] =
             (IF Declares(part) /\ part.kind = "Let" THEN {part} ELSE {})
               \cup UNION {LetsIn[p] : p \in IF Apart(part, Deferred) THEN {} ELSE Inner(part)}
<1> DEFINE own == [p \in Part |-> IF Declares(p) /\ p.kind = "Let" THEN {p} ELSE {}]
           inside == Within(Deferred)
<1>1. /\ inside \in [Part -> SUBSET Part]
      /\ \A p \in Part : \A q \in inside[p] : Size[q] < Size[p]
  BY InnerIsSmaller DEF Within
<1>2. LetsIn = Gathered(own, inside)
  BY DEF LetsIn
<1>3. /\ own[part] = IF Declares(part) /\ part.kind = "Let" THEN {part} ELSE {}
      /\ inside[part] = IF Apart(part, Deferred) THEN {} ELSE Inner(part)
  BY DEF Within
<1> HIDE DEF own, inside
<1>4. LetsIn[part] = own[part] \cup UNION {LetsIn[q] : q \in inside[part]}
  BY <1>1, <1>2, GatheredIs
<1> QED
  BY <1>3, <1>4

\* Uses are literals and accesses; declarations have a name.
IsUse(u) == u \in Expression /\ u.is \in {"literal", "access"}
IsDeclared(d) == d \in Statement /\ Declares(d)

LEMMA StatementsAndExpressions ==
    /\ \A s \in Statement : s.is \in {"passive", "members", "declaration", "statement"} /\ s \in Part
    /\ \A e \in Expression : e.is \in {"form", "block", "literal", "access"} /\ e \in Part
BY SyntaxAssumption DEF IsStatement, IsExpression, Part

LEMMA UsesAreUses ==
    ASSUME NEW kinds, NEW part \in Part
    PROVE  \A u \in UsesIn(kinds)[part] : IsUse(u)
<1> DEFINE S == {p \in Part : \A u \in UsesIn(kinds)[p] : IsUse(u)}
<1>1. ASSUME NEW p \in Part, Inner(p) \subseteq S PROVE p \in S
  <2>1. p.is \in {"literal", "access"} => IsUse(p)
    BY StatementsAndExpressions DEF IsUse, Part
  <2>2. \A q \in Inner(p) : \A u \in UsesIn(kinds)[q] : IsUse(u)
    BY <1>1
  <2> QED
    BY <2>1, <2>2, UsesAre
<1> HIDE DEF S
<1>2. Part \subseteq S
  BY <1>1, PartInduction
<1> QED
  BY <1>2 DEF S

LEMMA DeclarationsAreDeclared ==
    ASSUME NEW part \in Part
    PROVE  \A d \in DeclarationsIn[part] : IsDeclared(d)
<1> DEFINE S == {p \in Part : \A d \in DeclarationsIn[p] : IsDeclared(d)}
<1>1. ASSUME NEW p \in Part, Inner(p) \subseteq S PROVE p \in S
  <2>1. Declares(p) => IsDeclared(p)
    BY StatementsAndExpressions DEF IsDeclared, Part, Declares
  <2>2. \A q \in Inner(p) : \A d \in DeclarationsIn[q] : IsDeclared(d)
    BY <1>1
  <2> QED
    BY <2>1, <2>2, DeclarationsAre
<1> HIDE DEF S
<1>2. Part \subseteq S
  BY <1>1, PartInduction
<1> QED
  BY <1>2 DEF S

-----------------------------------------------------------------------------
(***************************************************************************)
(* The work a part holds: every use with whom it belongs to, every         *)
(* declaration with itself.                                                *)
(***************************************************************************)
WorkOf(d) == {<<d.id, d>>} \cup {<<d.id, u>> : u \in InsideOf(d, Nested)}

Work(o, part) ==
    {<<o, u>> : u \in UsesIn(Nested)[part]} \cup UNION {WorkOf(d) : d \in DeclarationsIn[part]}

WorkInside(o, part) == UNION {Work(o, p) : p \in Inner(part)}

LEMMA WorkInsideIs ==
    ASSUME NEW o, NEW part \in Part
    PROVE  WorkInside(o, part) =
             {<<o, u>> : u \in InsideOf(part, Nested)}
               \cup UNION {WorkOf(d) : d \in UNION {DeclarationsIn[p] : p \in Inner(part)}}
<1> HIDE DEF WorkOf
<1> QED
  BY DEF WorkInside, Work, InsideOf

\* What the builder visits one by one is what nesting says.
LEMMA WorkIs ==
    ASSUME NEW o, NEW part \in Part
    PROVE  /\ part.is = "passive" => Work(o, part) = {}
           /\ part.is = "declaration" /\ ~Declares(part) => Work(o, part) = {}
           /\ part.is = "declaration" /\ Declares(part) =>
                Work(o, part) = {<<part.id, part>>} \cup WorkInside(part.id, part)
           /\ part.is \in {"members", "statement", "form", "block"} =>
                Work(o, part) = WorkInside(o, part)
           /\ part.is \in {"literal", "access"} =>
                Work(o, part) = {<<o, part>>} \cup WorkInside(o, part)
<1> DEFINE uses == UsesIn(Nested)[part]
           declarations == DeclarationsIn[part]
           inner == UNION {DeclarationsIn[p] : p \in Inner(part)}
<1>1. Work(o, part) = {<<o, u>> : u \in uses} \cup UNION {WorkOf(d) : d \in declarations}
  BY DEF Work
<1>2. part.is = "passive" => Inner(part) = {}
  BY DEF Inner
<1>3. part.is = "declaration" => part.kind \in Nested
  BY SyntaxAssumption, StatementsAndExpressions DEF IsStatement, Part
<1>4. uses = (IF part.is \in {"literal", "access"} THEN {part} ELSE {})
               \cup UNION {UsesIn(Nested)[p] : p \in IF Apart(part, Nested) THEN {} ELSE Inner(part)}
  BY UsesAre
<1>5. declarations = (IF Declares(part) THEN {part} ELSE {})
               \cup UNION {DeclarationsIn[p] : p \in
                             IF part.is = "declaration" /\ ~Declares(part) THEN {} ELSE Inner(part)}
  BY DeclarationsAre
<1>6. ASSUME part.is = "members" PROVE \A p \in Inner(part) : UsesIn(Nested)[p] = {}
  <2>1. IsStatement(part) /\ part.members \in Seq(Statement)
    BY <1>6, SyntaxAssumption, StatementsAndExpressions DEF IsStatement, Part
  <2>2. ASSUME NEW p \in Inner(part) PROVE p \in Part /\ p.is = "declaration"
    BY <1>6, <2>1, <2>2, RangeInside DEF Inner, IsStatement, Part
  <2>3. ASSUME NEW p \in Inner(part) PROVE p.kind \in Nested
    BY <2>2, SyntaxAssumption, StatementsAndExpressions DEF IsStatement, Part
  <2>4. ASSUME NEW p \in Inner(part) PROVE UsesIn(Nested)[p] = {}
    BY <2>2, <2>3, UsesAre DEF Apart
  <2> QED
    BY <2>4
<1> HIDE DEF uses, declarations
<1>7. CASE part.is = "passive"
  <2>1. uses = {} /\ declarations = {}
    BY <1>2, <1>4, <1>5, <1>7 DEF Declares
  <2> QED
    BY <1>1, <1>7, <2>1
<1>8. CASE part.is = "declaration" /\ ~Declares(part)
  <2>1. uses = {} /\ declarations = {}
    BY <1>4, <1>5, <1>8 DEF Apart
  <2> QED
    BY <1>1, <1>8, <2>1
<1>9. CASE part.is = "declaration" /\ Declares(part)
  <2>1. uses = {} /\ declarations = {part} \cup inner
    BY <1>3, <1>4, <1>5, <1>9 DEF Apart
  <2>2. Work(o, part) = WorkOf(part) \cup UNION {WorkOf(d) : d \in inner}
    <3> HIDE DEF inner
    <3> QED
      BY <1>1, <2>1
  <2>3. Work(o, part) = {<<part.id, part>>} \cup WorkInside(part.id, part)
    BY <2>2, WorkInsideIs DEF WorkOf
  <2> QED
    BY <1>9, <2>3
<1>10. CASE part.is \in {"members", "statement", "form", "block"}
  <2>1. uses = InsideOf(part, Nested)
    <3>1. CASE part.is = "members"
      BY <1>4, <1>6, <3>1 DEF Apart, InsideOf
    <3>2. CASE part.is # "members"
      BY <1>4, <1>10, <3>2 DEF Apart, InsideOf
    <3> QED
      BY <3>1, <3>2
  <2>2. declarations = inner
    BY <1>5, <1>10 DEF Declares
  <2>3. Work(o, part) = WorkInside(o, part)
    BY <1>1, <2>1, <2>2, WorkInsideIs
  <2> QED
    BY <1>10, <2>3 DEF Declares
<1>11. CASE part.is \in {"literal", "access"}
  <2>1. uses = {part} \cup InsideOf(part, Nested)
    BY <1>4, <1>11 DEF Apart, InsideOf
  <2>2. declarations = inner
    BY <1>5, <1>11 DEF Declares
  <2>3. Work(o, part) = {<<o, part>>} \cup WorkInside(o, part)
    BY <1>1, <2>1, <2>2, WorkInsideIs
  <2> QED
    BY <1>11, <2>3 DEF Declares
<1>12. part.is \in {"passive", "members", "declaration", "statement", "form", "block", "literal", "access"}
  BY StatementsAndExpressions DEF Part
<1> QED
  BY <1>7, <1>8, <1>9, <1>10, <1>11, <1>12

-----------------------------------------------------------------------------
(***************************************************************************)
(* The stack.  Each task runs under an owner: that of the last restore     *)
(* before it, or the current one.  A statement at the top of the module    *)
(* runs under its own number.                                              *)
(***************************************************************************)
Owner == Id \cup {NoOwner}

PlainTask ==
    [do : {"statement"}, node : Statement, module_scope : {FALSE}] \cup [do : {"expression"}, node : Expression]
TopTask == [do : {"statement"}, node : Statement, module_scope : {TRUE}]
RestoreTask == [do : {"restore"}, owner : Owner]
TaskType == PlainTask \cup TopTask \cup RestoreTask

IsTop(task) == task.do = "statement" /\ task.module_scope

TopWork(s, i) ==
    IF s[i].is = "statement"
    THEN {<<StatementIds[Number(s, i)], s[i]>>} \cup Work(StatementIds[Number(s, i)], s[i])
    ELSE Work(NoOwner, s[i])

AllWork(s) == UNION {TopWork(s, i) : i \in 1 .. Len(s)}

\* The work of a task; i is the place of a statement at the top in its module s.
Carried(s, task, o, i) ==
    IF task.do = "restore" THEN {} ELSE IF IsTop(task) THEN TopWork(s, i) ELSE Work(o, task.node)

Left(s, tasks, own) ==
    UNION {Carried(s, tasks[i], own[i], Len(s) - Len(tasks) + i) : i \in 1 .. Len(tasks)}

\* The same of tasks none of which is at the top.
CarriedBy(s, tasks, own) == UNION {Carried(s, tasks[i], own[i], 0) : i \in 1 .. Len(tasks)}

\* The work of the task in turn.
First(s, tasks, own) == Carried(s, tasks[1], own[1], Len(s) - Len(tasks) + 1)

\* The work of the tasks behind it.
Rest(s, tasks, own) ==
    UNION {Carried(s, tasks[i], own[i], Len(s) - Len(tasks) + i) : i \in 2 .. Len(tasks)}

\* own has the owner of each task, the first o, and who is the owner behind them.
\* Only declarations do without.
OwnersAre(tasks, o, own) ==
    /\ own \in [1 .. Len(tasks) + 1 -> Owner]
    /\ own[1] = o
    /\ \A i \in 1 .. Len(tasks) :
         own[i + 1] = IF tasks[i].do = "restore" THEN tasks[i].owner ELSE own[i]
    /\ \A i \in 1 .. Len(tasks) :
         (tasks[i].do = "restore" \/ IsTop(tasks[i]) \/ tasks[i].node.is = "declaration" \/ own[i] # NoOwner)

\* New tasks in the place of the first, and the owners of them all.
Advanced(new, tasks) == new \o Tail(tasks)

Splits(all, some, others) == all = some \cup others

Replaced(new, newOwn, own, n) ==
    [i \in 1 .. Len(new) + n |-> IF i <= Len(new) THEN newOwn[i] ELSE own[i - Len(new) + 1]]

LEMMA ContinuedIs ==
    ASSUME NEW T, NEW tasks \in Seq(T), tasks # <<>>, NEW new \in Seq(T)
    PROVE  /\ new \o Tail(tasks) \in Seq(T)
           /\ Len(new \o Tail(tasks)) = Len(new) + Len(tasks) - 1
           /\ \A i \in 1 .. Len(new) : (new \o Tail(tasks))[i] = new[i]
           /\ \A i \in Len(new) + 1 .. Len(new) + Len(tasks) - 1 :
                (new \o Tail(tasks))[i] = tasks[i - Len(new) + 1]
           /\ Len(tasks) \in Nat /\ Len(tasks) > 0 /\ Len(new) \in Nat
<1>1. /\ Tail(tasks) \in Seq(T) /\ Len(Tail(tasks)) = Len(tasks) - 1
      /\ \A i \in 1 .. Len(tasks) - 1 : Tail(tasks)[i] = tasks[i + 1]
  OBVIOUS
<1>2. \A i \in Len(new) + 1 .. Len(new) + Len(tasks) - 1 :
        /\ i - Len(new) \in 1 .. Len(tasks) - 1
        /\ (new \o Tail(tasks))[i] = Tail(tasks)[i - Len(new)]
  BY <1>1
<1> QED
  BY <1>1, <1>2

\* Tasks in the place of the first one: they take over its owner, or put it back.
LEMMA OwnersAdvance ==
    ASSUME NEW tasks \in Seq(TaskType), tasks # <<>>, NEW o, NEW own, OwnersAre(tasks, o, own),
           NEW new \in Seq(TaskType), NEW o2, NEW newOwn, OwnersAre(new, o2, newOwn),
           newOwn[Len(new) + 1] = own[2]
    PROVE  OwnersAre(new \o Tail(tasks), o2, Replaced(new, newOwn, own, Len(tasks)))
<1> DEFINE all == new \o Tail(tasks)
           own2 == Replaced(new, newOwn, own, Len(tasks))
           c == Len(new)
           n == Len(tasks)
<1>1. /\ Len(all) = c + n - 1 /\ c \in Nat /\ n \in Nat /\ n > 0
      /\ \A i \in 1 .. c : all[i] = new[i]
      /\ \A i \in c + 1 .. c + n - 1 : all[i] = tasks[i - c + 1]
  BY ContinuedIs
<1>2. /\ newOwn \in [1 .. c + 1 -> Owner] /\ newOwn[1] = o2 /\ newOwn[c + 1] = own[2]
      /\ own \in [1 .. n + 1 -> Owner]
  BY DEF OwnersAre
<1>3. /\ own2 = [i \in 1 .. c + n |-> IF i <= c THEN newOwn[i] ELSE own[i - c + 1]]
      /\ 1 .. Len(all) + 1 = 1 .. c + n
  BY <1>1 DEF Replaced
<1>4. /\ \A i \in 1 .. c : own2[i] = newOwn[i]
      /\ \A i \in c + 1 .. c + n : own2[i] = own[i - c + 1] /\ i - c + 1 \in 2 .. n + 1
  BY <1>1, <1>3
<1> HIDE DEF all, own2, c, n
<1>5. own2 \in [1 .. Len(all) + 1 -> Owner]
  BY <1>1, <1>2, <1>3
<1>6. own2[1] = o2
  BY <1>1, <1>2, <1>4
<1>7. ASSUME NEW i \in 1 .. Len(all)
      PROVE  /\ own2[i + 1] = IF all[i].do = "restore" THEN all[i].owner ELSE own2[i]
             /\ (all[i].do = "restore" \/ IsTop(all[i]) \/ all[i].node.is = "declaration" \/ own2[i] # NoOwner)
  <2>1. CASE i \in 1 .. c
    <3>1. /\ newOwn[i + 1] = IF new[i].do = "restore" THEN new[i].owner ELSE newOwn[i]
          /\ (new[i].do = "restore" \/ IsTop(new[i]) \/ new[i].node.is = "declaration" \/ newOwn[i] # NoOwner)
      BY <2>1 DEF OwnersAre, c
    <3>2. own2[i + 1] = newOwn[i + 1]
      BY <1>1, <1>2, <1>4, <2>1
    <3> QED
      BY <1>1, <1>4, <2>1, <3>1, <3>2
  <2>2. CASE i \in c + 1 .. c + n - 1
    <3> DEFINE j == i - c + 1
    <3>1. j \in 1 .. n /\ j + 1 = (i + 1) - c + 1
      BY <1>1, <2>2
    <3>2. /\ own[j + 1] = IF tasks[j].do = "restore" THEN tasks[j].owner ELSE own[j]
          /\ (tasks[j].do = "restore" \/ IsTop(tasks[j]) \/ tasks[j].node.is = "declaration" \/ own[j] # NoOwner)
      BY <3>1 DEF OwnersAre, n
    <3>3. own2[i] = own[j] /\ all[i] = tasks[j]
      <4>1. i \in c + 1 .. c + n
        BY <1>1, <2>2
      <4>2. own2[i] = own[j]
        BY <1>4, <4>1
      <4>3. all[i] = tasks[j]
        BY <1>1, <2>2
      <4> QED
        BY <4>2, <4>3
    <3>4. own2[i + 1] = own[j + 1]
      <4>1. i + 1 \in c + 1 .. c + n
        BY <1>1, <2>2
      <4> QED
        BY <1>4, <3>1, <4>1
    <3> QED
      BY <3>2, <3>3, <3>4
  <2> QED
    BY <1>1, <2>1, <2>2
<1> QED
  BY <1>5, <1>6, <1>7 DEF OwnersAre, all, own2, n

\* What is left is the task in turn and those behind it.
LEMMA LeftIs ==
    ASSUME NEW s \in Seq(Statement), NEW tasks \in Seq(TaskType), tasks # <<>>, NEW own
    PROVE  Splits(Left(s, tasks, own), First(s, tasks, own), Rest(s, tasks, own))
<1>1. Len(tasks) \in Nat /\ Len(tasks) > 0
  OBVIOUS
<1>2. 1 .. Len(tasks) = {1} \cup 2 .. Len(tasks)
  BY <1>1
<1> QED
  BY <1>2 DEF Left, First, Rest, Splits

\* The new tasks take the place of the first, and the others keep their work.
LEMMA LeftAdvance ==
    ASSUME NEW s \in Seq(Statement), NEW tasks \in Seq(TaskType), tasks # <<>>, NEW own,
           NEW new \in Seq(TaskType), NEW newOwn,
           \A i \in 1 .. Len(new) : ~IsTop(new[i]),
           NEW all, all = Advanced(new, tasks), NEW own2, own2 = Replaced(new, newOwn, own, Len(tasks))
    PROVE  Splits(Left(s, all, own2), CarriedBy(s, new, newOwn), Rest(s, tasks, own))
<1> DEFINE c == Len(new)
           n == Len(tasks)
           first == UNION {Carried(s, new[i], newOwn[i], 0) : i \in 1 .. c}
           rest == UNION {Carried(s, tasks[i], own[i], Len(s) - n + i) : i \in 2 .. n}
<1>1. /\ Len(all) = c + n - 1 /\ c \in Nat /\ n \in Nat /\ n > 0 /\ Len(s) \in Nat
      /\ \A i \in 1 .. c : all[i] = new[i]
      /\ \A i \in c + 1 .. c + n - 1 : all[i] = tasks[i - c + 1]
  BY ContinuedIs DEF Advanced
<1>5. Len(all) \in Int /\ Len(all) = c + n - 1 /\ c \in Int /\ n \in Int /\ Len(s) \in Int
  BY <1>1
<1>2. own2 = [i \in 1 .. c + n |-> IF i <= c THEN newOwn[i] ELSE own[i - c + 1]]
  BY DEF Replaced
<1>3. /\ \A i \in 1 .. c : own2[i] = newOwn[i]
      /\ \A i \in c + 1 .. c + n - 1 : own2[i] = own[i - c + 1] /\ i - c + 1 \in 2 .. n
  BY <1>1, <1>2
<1>4. \A i \in 1 .. c : \A p, q : Carried(s, new[i], newOwn[i], p) = Carried(s, new[i], newOwn[i], q)
  BY DEF Carried
<1> HIDE DEF c, n
<1>6. Left(s, all, own2) = first \cup rest
  <2>1. \A i \in 1 .. c : Carried(s, all[i], own2[i], Len(s) - Len(all) + i) = Carried(s, new[i], newOwn[i], 0)
    BY <1>1, <1>3, <1>4
  <2>2. ASSUME NEW i \in c + 1 .. c + n - 1
        PROVE  /\ i - c + 1 \in 2 .. n
               /\ Carried(s, all[i], own2[i], Len(s) - Len(all) + i)
                    = Carried(s, tasks[i - c + 1], own[i - c + 1], Len(s) - n + (i - c + 1))
    <3>1. i \in Int
      BY <1>1
    <3>2. Len(s) - Len(all) + i = Len(s) - n + (i - c + 1)
      BY <1>5, <3>1
    <3> QED
      BY <1>1, <1>3, <3>2
  <2>3. ASSUME NEW j \in 2 .. n PROVE j + c - 1 \in c + 1 .. c + n - 1 /\ (j + c - 1) - c + 1 = j
    BY <1>1
  <2>4. 1 .. Len(all) = (1 .. c) \cup (c + 1 .. c + n - 1)
    BY <1>1
  <2>5. Left(s, all, own2) =
          (UNION {Carried(s, all[i], own2[i], Len(s) - Len(all) + i) : i \in 1 .. c})
            \cup (UNION {Carried(s, all[i], own2[i], Len(s) - Len(all) + i) : i \in c + 1 .. c + n - 1})
    BY <2>4 DEF Left
  <2>6. UNION {Carried(s, all[i], own2[i], Len(s) - Len(all) + i) : i \in 1 .. c} = first
    BY <2>1
  <2> DEFINE Old(j) == Carried(s, tasks[j], own[j], Len(s) - n + j)
             New(i) == Carried(s, all[i], own2[i], Len(s) - Len(all) + i)
  <2>7. /\ \A i \in c + 1 .. c + n - 1 : i - c + 1 \in 2 .. n /\ New(i) = Old(i - c + 1)
        /\ \A j \in 2 .. n : j + c - 1 \in c + 1 .. c + n - 1 /\ New(j + c - 1) = Old(j)
    BY <2>2, <2>3
  <2> HIDE DEF Old, New
  <2>8. UNION {New(i) : i \in c + 1 .. c + n - 1} = UNION {Old(j) : j \in 2 .. n}
    BY <2>7
  <2> QED
    BY <2>5, <2>6, <2>8 DEF Old, New
<1> HIDE DEF first, rest
<1>7. /\ rest = Rest(s, tasks, own) /\ first = CarriedBy(s, new, newOwn)
  BY DEF first, rest, c, n, CarriedBy, Rest
<1> QED
  BY <1>6, <1>7 DEF n, Splits

\* Both in one.
LEMMA StackAdvance ==
    ASSUME NEW s \in Seq(Statement), NEW tasks \in Seq(TaskType), tasks # <<>>,
           NEW o, NEW own, OwnersAre(tasks, o, own),
           NEW new \in Seq(TaskType), \A i \in 1 .. Len(new) : ~IsTop(new[i]),
           NEW o2, NEW newOwn, OwnersAre(new, o2, newOwn), newOwn[Len(new) + 1] = own[2],
           NEW V, Splits(First(s, tasks, own), V, CarriedBy(s, new, newOwn)),
           NEW all, all = Advanced(new, tasks)
    PROVE  \E own2 : OwnersAre(all, o2, own2) /\ Splits(Left(s, tasks, own), V, Left(s, all, own2))
<1>1. PICK own2 : own2 = Replaced(new, newOwn, own, Len(tasks))
  OBVIOUS
<1>2. OwnersAre(all, o2, own2)
  BY <1>1, OwnersAdvance DEF Advanced
<1>3. Splits(Left(s, all, own2), CarriedBy(s, new, newOwn), Rest(s, tasks, own))
  BY <1>1, LeftAdvance
<1>4. Splits(Left(s, tasks, own), First(s, tasks, own), Rest(s, tasks, own))
  BY LeftIs
<1>5. Splits(Left(s, tasks, own), V, Left(s, all, own2))
  BY <1>3, <1>4 DEF Splits
<1> QED
  BY <1>2, <1>5

-----------------------------------------------------------------------------
(***************************************************************************)
(* What a walk has done, and what it has left.                             *)
(***************************************************************************)
\* The edges a walk enters for a use, and the node it defines for a definition.
Makes(w, p) ==
    IF p[2].is \notin {"literal", "access"} THEN {}
    ELSE IF w = 1
    THEN {[source |-> p[1], target |-> r, kind |-> CallOr(p[2]), span |-> p[2].span] :
            r \in {p[2].res} \cap Dependable}
    ELSE {[source |-> p[1],
           target |-> IF m.implementation = Elsewhere THEN m.declaration ELSE m.implementation,
           kind   |-> IF m.implementation = Elsewhere THEN "InterfaceDispatch" ELSE CallOr(p[2]),
           span   |-> p[2].span] : m \in p[2].method}

Known(p) == p[2].is \in {"declaration", "statement"} => p[1] \in defined
Done(w, p) == Known(p) /\ Makes(w, p) \subseteq Range(edges)

\* k statements at the top have been begun.
Scope(s, tasks, k) ==
    /\ k \in 0 .. Len(s)
    /\ Len(s) - k <= Len(tasks)
    /\ \A i \in 1 .. Len(tasks) :
         /\ i <= Len(tasks) - (Len(s) - k) => ~IsTop(tasks[i])
         /\ i > Len(tasks) - (Len(s) - k) => tasks[i] = Visit(s[Len(s) - Len(tasks) + i], TRUE)

StackInv(k, own) ==
    /\ todo \in Seq(TaskType)
    /\ Scope(source, todo, k)
    /\ todo # <<>> => next_statement = Number(source, k)
    /\ OwnersAre(todo, owner, own)

WorkInv(own) ==
    /\ Left(source, todo, own) \subseteq AllWork(source)
    /\ \A p \in AllWork(source) : \A w \in 1 .. walk :
         (w < walk \/ p \notin Left(source, todo, own)) => Done(w, p)

\* As long as only the walks have filled the tables.
SoundInv ==
    (walk < Walks \/ todo # <<>>) =>
        \A x \in Range(edges) : \E w \in 1 .. walk : \E p \in AllWork(source) : x \in Makes(w, p)

BuilderInv ==
    /\ TableInv
    /\ source \in Source
    /\ walk \in 0 .. Walks
    /\ walk = 0 => todo = <<>>
    /\ SoundInv
    /\ \E k, own : StackInv(k, own) /\ WorkInv(own)

LEMMA NumberSteps ==
    ASSUME NEW s \in Seq(Statement), NEW i \in Nat, i < Len(s)
    PROVE  /\ Number(s, i) \in Nat
           /\ Number(s, i + 1) = IF s[i + 1].is = "statement" THEN Number(s, i) + 1 ELSE Number(s, i)
<1> DEFINE S(n) == {j \in 1 .. n : s[j].is = "statement"}
<1>1. IsFiniteSet(S(i))
  <2>1. IsFiniteSet(1 .. i) /\ S(i) \subseteq 1 .. i
    BY FS_Interval
  <2> QED
    BY <2>1, FS_Subset
<1>2. S(i + 1) = IF s[i + 1].is = "statement" THEN S(i) \cup {i + 1} ELSE S(i)
  OBVIOUS
<1>3. i + 1 \notin S(i)
  OBVIOUS
<1> HIDE DEF S
<1>4. Cardinality(S(i)) \in Nat /\ Cardinality(S(i) \cup {i + 1}) = Cardinality(S(i)) + 1
  BY <1>1, <1>3, FS_CardinalityType, FS_AddElement
<1>5. Number(s, i) = Cardinality(S(i)) /\ Number(s, i + 1) = Cardinality(S(i + 1))
  BY DEF Number, S
<1> QED
  BY <1>2, <1>4, <1>5

LEMMA NumberGrows ==
    ASSUME NEW s \in Seq(Statement)
    PROVE  \A i \in 0 .. Len(s) : Number(s, i) <= Number(s, Len(s)) /\ Number(s, Len(s)) \in Nat
<1> DEFINE S(n) == {j \in 1 .. n : s[j].is = "statement"}
<1>1. Len(s) \in Nat
  OBVIOUS
<1>2. IsFiniteSet(S(Len(s)))
  <2>1. IsFiniteSet(1 .. Len(s)) /\ S(Len(s)) \subseteq 1 .. Len(s)
    BY <1>1, FS_Interval
  <2> QED
    BY <2>1, FS_Subset
<1>3. \A i \in 0 .. Len(s) : S(i) \subseteq S(Len(s))
  BY <1>1
<1>4. \A i : Number(s, i) = Cardinality(S(i))
  BY DEF Number
<1> HIDE DEF S
<1>5. \A i \in 0 .. Len(s) : Cardinality(S(i)) <= Cardinality(S(Len(s)))
  BY <1>2, <1>3, FS_Subset
<1>6. Cardinality(S(Len(s))) \in Nat
  BY <1>2, FS_CardinalityType
<1> QED
  BY <1>4, <1>5, <1>6

\* The statements at the top are taken one by one, each at its turn.
LEMMA ScopeAdvance ==
    ASSUME NEW s \in Seq(Statement), NEW tasks \in Seq(TaskType), tasks # <<>>, NEW k, Scope(s, tasks, k),
           NEW new \in Seq(TaskType), \A i \in 1 .. Len(new) : ~IsTop(new[i])
    PROVE  /\ ~IsTop(tasks[1]) => Scope(s, new \o Tail(tasks), k)
           /\ IsTop(tasks[1]) =>
                /\ k < Len(s) /\ Len(s) - Len(tasks) + 1 = k + 1 /\ tasks[1] = Visit(s[k + 1], TRUE)
                /\ Scope(s, new \o Tail(tasks), k + 1)
<1> DEFINE all == new \o Tail(tasks)
           c == Len(new)
           n == Len(tasks)
<1>1. /\ Len(all) = c + n - 1 /\ c \in Nat /\ n \in Nat /\ n > 0 /\ Len(s) \in Nat
      /\ \A i \in 1 .. c : all[i] = new[i]
      /\ \A i \in c + 1 .. c + n - 1 : all[i] = tasks[i - c + 1]
  BY ContinuedIs
<1>2. k \in 0 .. Len(s) /\ Len(s) - k <= n
  BY DEF Scope
<1>8. \A i \in 1 .. n :
        /\ i <= n - (Len(s) - k) => ~IsTop(tasks[i])
        /\ i > n - (Len(s) - k) => tasks[i] = Visit(s[Len(s) - n + i], TRUE)
  BY DEF Scope
<1> HIDE DEF all, c, n
<1>3. ASSUME NEW m \in 0 .. Len(s),
             (m = k /\ Len(s) - k <= n - 1) \/ (m = k + 1 /\ Len(s) - k = n)
      PROVE  Scope(s, all, m)
  <2>1. Len(s) - m <= Len(all)
    BY <1>1, <1>2, <1>3
  <2>2. ASSUME NEW i \in 1 .. Len(all), i <= Len(all) - (Len(s) - m)
        PROVE  ~IsTop(all[i])
    <3>1. CASE i \in 1 .. c
      BY <1>1, <3>1 DEF c
    <3>2. CASE i \in c + 1 .. c + n - 1
      <4>1. i - c + 1 \in 1 .. n
        BY <1>1, <3>2
      <4>2. i - c + 1 <= n - (Len(s) - k)
        BY <1>1, <1>2, <1>3, <2>2, <3>2, <4>1
      <4> QED
        BY <1>8, <1>1, <3>2, <4>1, <4>2
    <3> QED
      BY <1>1, <3>1, <3>2
  <2>3. ASSUME NEW i \in 1 .. Len(all), i > Len(all) - (Len(s) - m)
        PROVE  all[i] = Visit(s[Len(s) - Len(all) + i], TRUE)
    <3>1. i \in c + 1 .. c + n - 1
      BY <1>1, <1>2, <1>3, <2>3
    <3>2. i - c + 1 \in 1 .. n /\ i - c + 1 > n - (Len(s) - k)
      BY <1>1, <1>2, <1>3, <2>3, <3>1
    <3>3. tasks[i - c + 1] = Visit(s[Len(s) - n + (i - c + 1)], TRUE)
      BY <1>8, <3>2
    <3>4. Len(s) - n + (i - c + 1) = Len(s) - Len(all) + i
      BY <1>1, <3>1
    <3> QED
      BY <1>1, <3>1, <3>3, <3>4
  <2> QED
    BY <2>1, <2>2, <2>3 DEF Scope
<1>4. /\ 1 <= n - (Len(s) - k) => ~IsTop(tasks[1])
      /\ 1 > n - (Len(s) - k) => tasks[1] = Visit(s[Len(s) - n + 1], TRUE)
  <2>1. 1 \in 1 .. n
    BY <1>1
  <2> QED
    BY <1>8, <2>1, Zenon
<1>5. 1 > n - (Len(s) - k) => (Len(s) - k = n /\ Len(s) - n + 1 = k + 1 /\ k < Len(s))
  <2>1. n \in Nat /\ n > 0 /\ Len(s) \in Nat /\ k \in Nat /\ k <= Len(s) /\ Len(s) - k <= n
    BY <1>1, <1>2
  <2> QED
    BY <2>1
<1>6. IsTop(tasks[1]) <=> 1 > n - (Len(s) - k)
  <2>1. ASSUME 1 > n - (Len(s) - k) PROVE IsTop(tasks[1])
    BY <1>4, <2>1 DEF IsTop, Visit
  <2>2. 1 <= n - (Len(s) - k) \/ 1 > n - (Len(s) - k)
    BY <1>1, <1>2
  <2> QED
    BY <1>4, <2>1, <2>2
<1>7. CASE IsTop(tasks[1])
  <2>1. Len(s) - k = n /\ Len(s) - n + 1 = k + 1 /\ k < Len(s) /\ tasks[1] = Visit(s[k + 1], TRUE)
    BY <1>4, <1>5, <1>6, <1>7
  <2>2. Scope(s, all, k + 1)
    BY <1>1, <1>2, <1>3, <2>1
  <2> QED
    BY <1>7, <2>1, <2>2 DEF all, n
<1>9. CASE ~IsTop(tasks[1])
  <2>1. Len(s) - k <= n - 1
    BY <1>1, <1>2, <1>6, <1>9
  <2>2. Scope(s, all, k)
    BY <1>2, <1>3, <2>1
  <2> QED
    BY <1>9, <2>2 DEF all
<1> QED
  BY <1>7, <1>9

Walking(k, own) ==
    /\ source \in Seq(Statement)
    /\ walk \in 1 .. Walks
    /\ SoundInv
    /\ todo # <<>>
    /\ StackInv(k, own)
    /\ WorkInv(own)

\* The work V is done, and only it.
Performs(V) ==
    /\ defined \subseteq defined' /\ Range(edges) \subseteq Range(edges')
    /\ \A p \in V : /\ p[2].is \in {"declaration", "statement"} => p[1] \in defined'
                    /\ Makes(walk, p) \subseteq Range(edges')
    /\ \A x \in Range(edges') : x \in Range(edges) \/ \E p \in V : x \in Makes(walk, p)

Counts ==
    next_statement' = IF IsTop(todo[1]) /\ todo[1].node.is = "statement"
                      THEN next_statement + 1 ELSE next_statement

Walked == SoundInv' /\ \E k, own : StackInv(k, own)' /\ WorkInv(own)'

\* New tasks run under o, then r is the owner; they carry the work W.
Runs(s, new, o, newOwn, r, W) ==
    /\ new \in Seq(TaskType)
    /\ \A i \in 1 .. Len(new) : ~IsTop(new[i])
    /\ OwnersAre(new, o, newOwn)
    /\ newOwn[Len(new) + 1] = r
    /\ CarriedBy(s, new, newOwn) = W

\* A step of a walk: the first task gives way to new ones, the work V is done, and
\* the new tasks carry the rest of its work.
LEMMA Advance ==
    ASSUME NEW k, NEW own, Walking(k, own),
           NEW new, Continue(new), NEW o, owner' = o, Counts, NEW newOwn, NEW W,
           Runs(source, new, o, newOwn, own[2], W),
           NEW V, Splits(First(source, todo, own), V, W), Performs(V)
    PROVE  Walked
<1>1. /\ source \in Seq(Statement) /\ walk \in 1 .. Walks /\ todo # <<>>
      /\ SoundInv /\ StackInv(k, own) /\ WorkInv(own)
  BY DEF Walking
<1>15. /\ new \in Seq(TaskType) /\ \A i \in 1 .. Len(new) : ~IsTop(new[i])
       /\ OwnersAre(new, o, newOwn) /\ newOwn[Len(new) + 1] = own[2]
       /\ Splits(First(source, todo, own), V, CarriedBy(source, new, newOwn))
  BY DEF Runs
<1>16. todo' = new \o Tail(todo) /\ UNCHANGED <<source, walk>>
  BY DEF Continue
<1>2. PICK left : left = Left(source, todo, own)
  OBVIOUS
<1>3. PICK all : all = AllWork(source)
  OBVIOUS
<1>4. todo \in Seq(TaskType) /\ OwnersAre(todo, owner, own) /\ Scope(source, todo, k)
  BY <1>1 DEF StackInv
<1>5. PICK own2 : /\ OwnersAre(todo', owner', own2)
                  /\ Splits(left, V, Left(source, todo', own2))
  <2>1. \E own2 : /\ OwnersAre(Advanced(new, todo), o, own2)
                  /\ Splits(Left(source, todo, own), V, Left(source, Advanced(new, todo), own2))
    BY <1>1, <1>4, <1>15, StackAdvance
  <2> QED
    BY <1>2, <1>16, <2>1 DEF Advanced
<1>6. todo' \in Seq(TaskType)
  BY <1>1, <1>4, <1>15, <1>16, ContinuedIs
<1>7. \E k2 : Scope(source, todo', k2) /\ next_statement' = Number(source, k2)
  <2>1. next_statement = Number(source, k) /\ k \in 0 .. Len(source)
    BY <1>1 DEF StackInv, Scope
  <2>2. CASE IsTop(todo[1])
    <3>1. /\ k < Len(source) /\ todo[1] = Visit(source[k + 1], TRUE)
          /\ Scope(source, todo', k + 1)
      BY <1>1, <1>4, <1>15, <1>16, <2>2, ScopeAdvance
    <3>2. todo[1].node = source[k + 1]
      BY <3>1 DEF Visit
    <3>3. k \in Nat
      BY <2>1
    <3>4. Number(source, k + 1) = next_statement'
      BY <1>1, <2>1, <2>2, <3>1, <3>2, <3>3, NumberSteps DEF Counts
    <3> QED
      BY <3>1, <3>4
  <2>3. CASE ~IsTop(todo[1])
    BY <1>1, <1>4, <1>15, <1>16, <2>1, <2>3, ScopeAdvance DEF Counts
  <2> QED
    BY <2>2, <2>3
<1>8. PICK k2 : Scope(source, todo', k2) /\ next_statement' = Number(source, k2)
  BY <1>7
<1>9. StackInv(k2, own2)'
  BY <1>5, <1>6, <1>8, <1>16 DEF StackInv
<1>10. /\ left \subseteq all
       /\ \A p \in all : \A w \in 1 .. walk : (w < walk \/ p \notin left) => Done(w, p)
  BY <1>1, <1>2, <1>3 DEF WorkInv
<1>11. PICK left2 : left2 = Left(source, todo', own2)
  OBVIOUS
<1>12. left2 = Left(source, todo, own2)' /\ all = AllWork(source)'
  BY <1>3, <1>11, <1>16
<1>13. WorkInv(own2)'
  <2>1. left2 \subseteq all
    BY <1>5, <1>10, <1>11 DEF Splits
  <2>2. ASSUME NEW p \in all, NEW w \in 1 .. walk, w < walk \/ p \notin left2
        PROVE  Done(w, p)'
    <3>1. CASE w < walk \/ p \notin left
      <4>1. Done(w, p)
        BY <1>10, <3>1
      <4> QED
        BY <4>1 DEF Done, Known, Performs
    <3>2. CASE w = walk /\ p \in left
      <4>1. p \in V
        BY <1>5, <1>11, <2>2, <3>2 DEF Splits
      <4>2. Known(p)'
        BY <4>1 DEF Known, Performs
      <4>3. Makes(w, p) \subseteq Range(edges')
        BY <3>2, <4>1 DEF Performs
      <4> QED
        BY <4>2, <4>3 DEF Done
    <3> QED
      BY <1>1, <2>2, <3>1, <3>2
  <2> QED
    BY <1>12, <1>16, <2>1, <2>2 DEF WorkInv
<1>14. SoundInv'
  <2>1. ASSUME NEW x \in Range(edges')
        PROVE  \E w \in 1 .. walk : \E p \in all : x \in Makes(w, p)
    <3>1. CASE x \in Range(edges)
      BY <1>1, <1>3, <3>1 DEF SoundInv
    <3>2. CASE \E p \in V : x \in Makes(walk, p)
      <4>1. PICK p \in V : x \in Makes(walk, p)
        BY <3>2
      <4>2. p \in all /\ walk \in 1 .. walk
        BY <1>1, <1>5, <1>10 DEF Splits
      <4> QED
        BY <4>1, <4>2
    <3> QED
      BY <2>1, <3>1, <3>2 DEF Performs
  <2> QED
    BY <1>12, <1>16, <2>1 DEF SoundInv
<1> QED
  BY <1>9, <1>13, <1>14 DEF Walked

-----------------------------------------------------------------------------
(***************************************************************************)
(* The tasks a visit leaves: the parts inside, under one owner, and maybe  *)
(* the previous owner to put back.                                         *)
(***************************************************************************)
NodesOf(tasks) == {tasks[i].node : i \in 1 .. Len(tasks)}
WorkAt(o, S) == UNION {Work(o, p) : p \in S}

LEMMA StatementsArePlain ==
    ASSUME NEW s \in Seq(Statement)
    PROVE  /\ Statements(s, FALSE) \in Seq(PlainTask)
           /\ NodesOf(Statements(s, FALSE)) = Range(s)
<1> DEFINE tasks == Statements(s, FALSE)
<1>1. /\ Len(s) \in Nat /\ tasks = [i \in 1 .. Len(s) |-> Visit(s[i], FALSE)]
      /\ \A i \in 1 .. Len(s) : s[i] \in Statement
  BY DEF Statements
<1>2. \A x \in Statement : Visit(x, FALSE) \in PlainTask /\ Visit(x, FALSE).node = x
  BY DEF Visit, PlainTask
<1> HIDE DEF tasks
<1>3. tasks \in Seq(PlainTask) /\ Len(tasks) = Len(s)
  <2>1. \A i \in 1 .. Len(s) : tasks[i] \in PlainTask
    BY <1>1, <1>2
  <2>2. tasks = [i \in 1 .. Len(s) |-> tasks[i]] /\ Len(s) \in Nat
    BY <1>1
  <2> QED
    BY <2>1, <2>2
<1>4. \A i \in 1 .. Len(s) : tasks[i].node = s[i]
  BY <1>1, <1>2
<1>5. NodesOf(tasks) = {s[i] : i \in 1 .. Len(s)}
  BY <1>3, <1>4 DEF NodesOf
<1>6. Range(s) = {s[i] : i \in 1 .. Len(s)}
  BY DEF Range
<1> QED
  BY <1>3, <1>5, <1>6 DEF tasks

LEMMA ExpressionsArePlain ==
    ASSUME NEW s \in Seq(Expression)
    PROVE  /\ Expressions(s) \in Seq(PlainTask)
           /\ NodesOf(Expressions(s)) = Range(s)
<1> DEFINE tasks == Expressions(s)
<1>1. /\ Len(s) \in Nat /\ tasks = [i \in 1 .. Len(s) |-> Evaluate(s[i])]
      /\ \A i \in 1 .. Len(s) : s[i] \in Expression
  BY DEF Expressions
<1>2. \A x \in Expression : Evaluate(x) \in PlainTask /\ Evaluate(x).node = x
  BY DEF Evaluate, PlainTask
<1> HIDE DEF tasks
<1>3. tasks \in Seq(PlainTask) /\ Len(tasks) = Len(s)
  <2>1. \A i \in 1 .. Len(s) : tasks[i] \in PlainTask
    BY <1>1, <1>2
  <2>2. tasks = [i \in 1 .. Len(s) |-> tasks[i]] /\ Len(s) \in Nat
    BY <1>1
  <2> QED
    BY <2>1, <2>2
<1>4. \A i \in 1 .. Len(s) : tasks[i].node = s[i]
  BY <1>1, <1>2
<1>5. NodesOf(tasks) = {s[i] : i \in 1 .. Len(s)}
  BY <1>3, <1>4 DEF NodesOf
<1>6. Range(s) = {s[i] : i \in 1 .. Len(s)}
  BY DEF Range
<1> QED
  BY <1>3, <1>5, <1>6 DEF tasks

LEMMA PlainInOrder ==
    ASSUME NEW a \in Seq(PlainTask), NEW b \in Seq(PlainTask)
    PROVE  a \o b \in Seq(PlainTask) /\ NodesOf(a \o b) = NodesOf(a) \cup NodesOf(b)
<1> DEFINE all == a \o b
           l == Len(a)
           m == Len(b)
<1>1. /\ all \in Seq(PlainTask) /\ Len(all) = l + m /\ l \in Nat /\ m \in Nat
      /\ \A i \in 1 .. l : all[i] = a[i]
      /\ \A i \in 1 .. m : all[l + i] = b[i]
  OBVIOUS
<1> HIDE DEF all, l, m
<1>2. \A i \in 1 .. l + m : i \in 1 .. l \/ \E j \in 1 .. m : i = l + j
  <2>1. ASSUME NEW i \in 1 .. l + m, i \notin 1 .. l
        PROVE  i - l \in 1 .. m /\ i = l + (i - l)
    BY <1>1, <2>1
  <2> QED
    BY <2>1
<1>3. \A i \in 1 .. l : i \in 1 .. l + m
  BY <1>1
<1>4. \A i \in 1 .. m : l + i \in 1 .. l + m
  BY <1>1
<1>5. /\ NodesOf(all) = {all[i].node : i \in 1 .. l + m}
      /\ NodesOf(a) = {a[i].node : i \in 1 .. l} /\ NodesOf(b) = {b[i].node : i \in 1 .. m}
  BY <1>1 DEF NodesOf, l, m
<1>6. ASSUME NEW i \in 1 .. l + m
      PROVE  all[i].node \in NodesOf(a) \cup NodesOf(b)
  <2>1. CASE i \in 1 .. l
    BY <1>1, <1>5, <2>1
  <2>2. CASE \E j \in 1 .. m : i = l + j
    <3>1. PICK j \in 1 .. m : i = l + j
      BY <2>2
    <3>2. all[i].node = b[j].node
      BY <1>1, <3>1
    <3> QED
      BY <1>5, <3>2
  <2> QED
    BY <1>2, <2>1, <2>2
<1>7. \A x : x \in NodesOf(a) => x \in NodesOf(all)
  BY <1>1, <1>3, <1>5
<1>8. \A x : x \in NodesOf(b) => x \in NodesOf(all)
  <2>1. ASSUME NEW j \in 1 .. m PROVE b[j].node \in NodesOf(all)
    <3>1. l + j \in 1 .. l + m /\ all[l + j] = b[j]
      BY <1>1, <1>4
    <3> QED
      BY <1>5, <3>1
  <2> QED
    BY <1>5, <2>1
<1>9. \A x \in NodesOf(all) : x \in NodesOf(a) \cup NodesOf(b)
  BY <1>5, <1>6
<1>10. NodesOf(all) = NodesOf(a) \cup NodesOf(b)
  BY <1>7, <1>8, <1>9
<1> QED
  BY <1>1, <1>10 DEF all

LEMMA PlainTasksAre ==
    ASSUME NEW tasks \in Seq(PlainTask)
    PROVE  /\ tasks \in Seq(TaskType) /\ Len(tasks) \in Nat
           /\ \A i \in 1 .. Len(tasks) :
                tasks[i] \in PlainTask /\ tasks[i].do # "restore" /\ ~IsTop(tasks[i])
<1>1. \A task \in PlainTask : task \in TaskType /\ task.do # "restore" /\ ~IsTop(task)
  BY DEF PlainTask, TaskType, IsTop
<1>2. \A i \in 1 .. Len(tasks) : tasks[i] \in PlainTask
  OBVIOUS
<1>3. tasks \in Seq(TaskType)
  <2>1. tasks = [i \in 1 .. Len(tasks) |-> tasks[i]] /\ Len(tasks) \in Nat
    OBVIOUS
  <2> QED
    BY <1>1, <1>2, <2>1
<1> QED
  BY <1>1, <1>2, <1>3

\* The owner may be absent only where everything is a declaration.
Owned(o, tasks) ==
    o \in Owner /\ (o # NoOwner \/ \A p \in NodesOf(tasks) : p.is = "declaration")

LEMMA PlainOwners ==
    ASSUME NEW s, NEW tasks \in Seq(PlainTask), NEW o, Owned(o, tasks)
    PROVE  \E own : Runs(s, tasks, o, own, o, WorkAt(o, NodesOf(tasks)))
<1> DEFINE n == Len(tasks)
<1>8. PICK own : own = [i \in 1 .. n + 1 |-> o]
  OBVIOUS
<1>1. /\ n \in Nat /\ \A i \in 1 .. n : tasks[i].do # "restore" /\ ~IsTop(tasks[i])
  BY PlainTasksAre
<1>2. o \in Owner /\ \A i \in 1 .. n : o # NoOwner \/ tasks[i].node.is = "declaration"
  BY DEF Owned, NodesOf
<1>3. \A i \in 1 .. n + 1 : own[i] = o
  BY <1>8
<1>4. \A i \in 1 .. n : i \in 1 .. n + 1 /\ i + 1 \in 1 .. n + 1
  BY <1>1
<1>5. CarriedBy(s, tasks, own) = WorkAt(o, NodesOf(tasks))
  <2>1. \A i \in 1 .. n : Carried(s, tasks[i], own[i], 0) = Work(o, tasks[i].node)
    BY <1>1, <1>3, <1>4 DEF Carried
  <2>2. CarriedBy(s, tasks, own) = UNION {Work(o, tasks[i].node) : i \in 1 .. n}
    BY <2>1 DEF CarriedBy
  <2> HIDE DEF n
  <2>3. UNION {Work(o, tasks[i].node) : i \in 1 .. n} = UNION {Work(o, p) : p \in {tasks[i].node : i \in 1 .. n}}
    OBVIOUS
  <2> QED
    BY <2>2, <2>3 DEF WorkAt, NodesOf, n
<1>6. 1 \in 1 .. n + 1 /\ n + 1 \in 1 .. n + 1
  BY <1>1
<1>7. own \in [1 .. n + 1 -> Owner]
  BY <1>2, <1>8
<1>9. OwnersAre(tasks, o, own)
  BY <1>1, <1>2, <1>3, <1>4, <1>6, <1>7 DEF OwnersAre
<1>10. tasks \in Seq(TaskType) /\ own[Len(tasks) + 1] = o
  BY <1>3, <1>6, PlainTasksAre
<1> QED
  BY <1>1, <1>5, <1>9, <1>10 DEF Runs

\* The same with the previous owner behind them.
Then(tasks, r) == tasks \o <<Restore(r)>>

LEMMA RestoredOwners ==
    ASSUME NEW s, NEW tasks \in Seq(PlainTask), NEW o, Owned(o, tasks), NEW r \in Owner
    PROVE  \E own : Runs(s, Then(tasks, r), o, own, r, WorkAt(o, NodesOf(tasks)))
<1>13. PICK all, own : /\ all = Then(tasks, r)
                       /\ own = [i \in 1 .. Len(tasks) + 2 |-> IF i <= Len(tasks) + 1 THEN o ELSE r]
  OBVIOUS
<1> DEFINE n == Len(tasks)
<1>1. /\ n \in Nat /\ \A i \in 1 .. n : tasks[i].do # "restore" /\ ~IsTop(tasks[i])
      /\ tasks \in Seq(TaskType)
  BY PlainTasksAre
<1>2. Restore(r) \in TaskType /\ Restore(r).do = "restore" /\ Restore(r).owner = r /\ ~IsTop(Restore(r))
  BY DEF Restore, TaskType, RestoreTask, IsTop
<1>3. /\ all \in Seq(TaskType) /\ Len(all) = n + 1
      /\ \A i \in 1 .. n : all[i] = tasks[i]
      /\ all[n + 1] = Restore(r)
  BY <1>1, <1>2, <1>13 DEF Then
<1>4. o \in Owner /\ \A i \in 1 .. n : o # NoOwner \/ tasks[i].node.is = "declaration"
  BY DEF Owned, NodesOf
<1>5. (\A i \in 1 .. n + 1 : own[i] = o) /\ own[n + 2] = r /\ own \in [1 .. n + 2 -> Owner]
  BY <1>1, <1>4, <1>13
<1> HIDE DEF n
<1>6. \A i \in 1 .. n + 1 : i \in 1 .. n \/ i = n + 1
  BY <1>1
<1>7. \A i \in 1 .. n : i \in 1 .. n + 1 /\ i + 1 \in 1 .. n + 1
  BY <1>1
<1>8. n + 1 \in 1 .. n + 1 /\ 1 \in 1 .. n + 1 /\ (n + 1) + 1 = n + 2
  BY <1>1
<1>9. \A i \in 1 .. Len(all) : ~IsTop(all[i])
  BY <1>1, <1>2, <1>3, <1>6
<1>10. OwnersAre(all, o, own)
  <2>1. ASSUME NEW i \in 1 .. Len(all)
        PROVE  /\ own[i + 1] = IF all[i].do = "restore" THEN all[i].owner ELSE own[i]
               /\ (all[i].do = "restore" \/ IsTop(all[i]) \/ all[i].node.is = "declaration" \/ own[i] # NoOwner)
    <3>1. CASE i \in 1 .. n
      BY <1>1, <1>3, <1>4, <1>5, <1>7, <3>1
    <3>2. CASE i = n + 1
      BY <1>2, <1>3, <1>5, <1>8, <3>2
    <3> QED
      BY <1>3, <1>6, <3>1, <3>2
  <2>2. own \in [1 .. Len(all) + 1 -> Owner] /\ own[1] = o
    BY <1>3, <1>5, <1>8
  <2> QED
    BY <2>1, <2>2 DEF OwnersAre
<1>11. CarriedBy(s, all, own) = WorkAt(o, NodesOf(tasks))
  <2>1. \A i \in 1 .. n : Carried(s, all[i], own[i], 0) = Work(o, tasks[i].node)
    BY <1>1, <1>3, <1>5, <1>7 DEF Carried
  <2>2. Carried(s, all[n + 1], own[n + 1], 0) = {}
    BY <1>2, <1>3 DEF Carried
  <2>3. CarriedBy(s, all, own) = UNION {Carried(s, all[i], own[i], 0) : i \in 1 .. n + 1}
    BY <1>3 DEF CarriedBy
  <2> DEFINE C(i) == Carried(s, all[i], own[i], 0)
             W(i) == Work(o, tasks[i].node)
  <2>6. (\A i \in 1 .. n : C(i) = W(i)) /\ C(n + 1) = {} /\ CarriedBy(s, all, own) = UNION {C(i) : i \in 1 .. n + 1}
    BY <2>1, <2>2, <2>3
  <2> HIDE DEF C, W
  <2>7. UNION {C(i) : i \in 1 .. n + 1} = UNION {W(i) : i \in 1 .. n}
    BY <1>6, <1>7, <1>8, <2>6
  <2>4. CarriedBy(s, all, own) = UNION {Work(o, tasks[i].node) : i \in 1 .. n}
    BY <2>6, <2>7 DEF W
  <2>5. UNION {Work(o, tasks[i].node) : i \in 1 .. n} = UNION {Work(o, p) : p \in {tasks[i].node : i \in 1 .. n}}
    OBVIOUS
  <2> QED
    BY <2>4, <2>5 DEF WorkAt, NodesOf, n
<1>12. own[Len(all) + 1] = r
  BY <1>3, <1>5, <1>8
<1> QED
  BY <1>3, <1>9, <1>10, <1>11, <1>12, <1>13 DEF Runs

(***************************************************************************)
(* The two kinds of steps: the owner stays, or another takes over and it   *)
(* is put back.                                                            *)
(***************************************************************************)
LEMMA Continuing ==
    ASSUME NEW k, NEW own, Walking(k, own), todo[1].do # "restore",
           NEW tasks \in Seq(PlainTask), Owned(owner, tasks), Continue(tasks), owner' = owner, Counts,
           NEW V, Splits(First(source, todo, own), V, WorkAt(owner, NodesOf(tasks))), Performs(V)
    PROVE  Walked
<1>1. PICK newOwn : Runs(source, tasks, owner, newOwn, owner, WorkAt(owner, NodesOf(tasks)))
  BY PlainOwners
<1>3. own[2] = owner
  <2>1. OwnersAre(todo, owner, own) /\ 1 \in 1 .. Len(todo)
    BY DEF Walking, StackInv
  <2>2. own[1] = owner /\ own[1 + 1] = own[1]
    BY <2>1 DEF OwnersAre
  <2> QED
    BY <2>2
<1> QED
  BY <1>1, <1>3, Advance

LEMMA Entering ==
    ASSUME NEW k, NEW own, Walking(k, own), todo[1].do # "restore", owner \in Owner,
           NEW o, NEW tasks \in Seq(PlainTask), Owned(o, tasks), WithOwner(o, tasks), Counts,
           NEW V, Splits(First(source, todo, own), V, WorkAt(o, NodesOf(tasks))), Performs(V)
    PROVE  Walked
<1>1. PICK newOwn : Runs(source, Then(tasks, owner), o, newOwn, owner, WorkAt(o, NodesOf(tasks)))
  BY RestoredOwners
<1>3. own[2] = owner
  <2>1. OwnersAre(todo, owner, own) /\ 1 \in 1 .. Len(todo)
    BY DEF Walking, StackInv
  <2>2. own[1] = owner /\ own[1 + 1] = own[1]
    BY <2>1 DEF OwnersAre
  <2> QED
    BY <2>2
<1>4. Continue(Then(tasks, owner)) /\ owner' = o
  BY DEF WithOwner, Then
<1> QED
  BY <1>1, <1>3, <1>4, Advance

-----------------------------------------------------------------------------
(***************************************************************************)
(* The task in turn.                                                       *)
(***************************************************************************)
\* Whoever is the owner, only statements at the top and expressions ask for one.
LEMMA WorkWithoutOwner ==
    ASSUME NEW part \in Statement, part.is # "statement", NEW o, NEW o2
    PROVE  Work(o, part) = Work(o2, part)
<1>1. part \in Part /\ IsStatement(part) /\ part.is \in {"passive", "members", "declaration"}
  BY StatementsAndExpressions, SyntaxAssumption
<1>2. UsesIn(Nested)[part] = {}
  <2>1. Apart(part, Nested) \/ Inner(part) = {}
    BY <1>1 DEF Apart, Inner, IsStatement
  <2> QED
    BY <1>1, <2>1, UsesAre
<1> QED
  BY <1>2 DEF Work

LEMMA TurnIs ==
    ASSUME BuilderInv, todo # <<>>, NEW k, NEW own, StackInv(k, own), WorkInv(own)
    PROVE  /\ Walking(k, own) /\ owner \in Owner /\ own[1] = owner
           /\ Task \in TaskType /\ Task = todo[1]
           /\ 1 \in 1 .. Len(todo)
<1>1. source \in Seq(Statement) /\ walk \in 1 .. Walks
  BY SourceAssumption DEF BuilderInv
<1>2. Walking(k, own)
  BY <1>1 DEF Walking, BuilderInv
<1>3. todo \in Seq(TaskType) /\ OwnersAre(todo, owner, own)
  BY DEF StackInv
<1>4. 1 \in 1 .. Len(todo) /\ 1 \in 1 .. Len(todo) + 1 /\ Task = todo[1] /\ Task \in TaskType
  BY <1>3 DEF Task
<1>5. own[1] = owner /\ own \in [1 .. Len(todo) + 1 -> Owner]
  BY <1>3 DEF OwnersAre
<1> QED
  BY <1>2, <1>4, <1>5

LEMMA RestoreInTurn ==
    ASSUME BuilderInv, todo # <<>>, NEW k, NEW own, StackInv(k, own), WorkInv(own),
           Task.do = "restore"
    PROVE  Task.owner \in Owner /\ own[2] = Task.owner /\ ~IsTop(todo[1]) /\ First(source, todo, own) = {}
<1>1. Task \in TaskType /\ Task = todo[1] /\ 1 \in 1 .. Len(todo)
  BY TurnIs
<1>2. Task.owner \in Owner
  BY <1>1 DEF TaskType, PlainTask, TopTask, RestoreTask
<1>3. own[1 + 1] = Task.owner
  BY <1>1 DEF StackInv, OwnersAre
<1> QED
  BY <1>1, <1>2, <1>3 DEF First, Carried, IsTop

LEMMA ExpressionInTurn ==
    ASSUME BuilderInv, todo # <<>>, NEW k, NEW own, StackInv(k, own), WorkInv(own),
           Task.do = "expression"
    PROVE  /\ Task.node \in Expression /\ ~IsTop(todo[1])
           /\ owner # NoOwner
           /\ First(source, todo, own) = Work(owner, Task.node)
<1>1. Task \in TaskType /\ Task = todo[1] /\ 1 \in 1 .. Len(todo) /\ own[1] = owner
  BY TurnIs
<1>2. Task.node \in Expression
  BY <1>1 DEF TaskType, PlainTask, TopTask, RestoreTask
<1>3. Task.node.is # "declaration"
  BY <1>2, StatementsAndExpressions
<1>4. ~IsTop(Task)
  BY DEF IsTop
<1>5. own[1] # NoOwner
  BY <1>1, <1>3, <1>4 DEF StackInv, OwnersAre
<1> QED
  BY <1>1, <1>2, <1>4, <1>5 DEF First, Carried

LEMMA TopInTurn ==
    ASSUME BuilderInv, todo # <<>>, NEW k, NEW own, StackInv(k, own), WorkInv(own),
           IsTop(todo[1])
    PROVE  /\ k \in Nat /\ k < Len(source) /\ Task.node = source[k + 1]
           /\ next_statement = Number(source, k)
           /\ First(source, todo, own) = TopWork(source, k + 1)
<1>1. Task = todo[1] /\ source \in Seq(Statement)
  BY TurnIs DEF Walking
<1>2. todo \in Seq(TaskType) /\ Scope(source, todo, k) /\ next_statement = Number(source, k)
  BY DEF StackInv
<1>3. <<>> \in Seq(TaskType) /\ \A i \in 1 .. Len(<<>>) : ~IsTop(<<>>[i])
  OBVIOUS
<1>4. /\ k < Len(source) /\ Len(source) - Len(todo) + 1 = k + 1
      /\ todo[1] = Visit(source[k + 1], TRUE)
  BY <1>1, <1>2, <1>3, ScopeAdvance
<1>5. k \in Nat
  BY <1>1, <1>2 DEF Scope
<1>6. todo[1].do # "restore" /\ todo[1].node = source[k + 1]
  BY <1>4 DEF Visit
<1> QED
  BY <1>1, <1>2, <1>4, <1>5, <1>6 DEF First, Carried

LEMMA StatementInTurn ==
    ASSUME BuilderInv, todo # <<>>, NEW k, NEW own, StackInv(k, own), WorkInv(own),
           Task.do = "statement"
    PROVE  /\ Task.node \in Statement
           /\ Task.node.is # "statement" => First(source, todo, own) = Work(owner, Task.node)
           /\ Task.node.is = "statement" /\ ~IsTop(todo[1]) =>
                owner # NoOwner /\ First(source, todo, own) = Work(owner, Task.node)
<1>1. Task \in TaskType /\ Task = todo[1] /\ 1 \in 1 .. Len(todo) /\ own[1] = owner
  BY TurnIs
<1>2. Task.node \in Statement
  BY <1>1 DEF TaskType, PlainTask, TopTask, RestoreTask
<1>3. CASE ~IsTop(todo[1])
  <2>1. First(source, todo, own) = Work(owner, Task.node)
    BY <1>1, <1>3 DEF First, Carried
  <2>2. Task.node.is # "declaration" => own[1] # NoOwner
    BY <1>1, <1>3 DEF StackInv, OwnersAre
  <2> QED
    BY <1>1, <1>2, <2>1, <2>2
<1>4. CASE IsTop(todo[1])
  <2>1. Task.node = source[k + 1] /\ First(source, todo, own) = TopWork(source, k + 1)
    BY <1>4, TopInTurn
  <2>2. Task.node.is # "statement" => First(source, todo, own) = Work(NoOwner, Task.node)
    BY <2>1 DEF TopWork
  <2> QED
    BY <1>2, <1>4, <2>2, WorkWithoutOwner
<1> QED
  BY <1>3, <1>4

-----------------------------------------------------------------------------
(***************************************************************************)
(* What the visits do to the graph.                                        *)
(***************************************************************************)
LEMMA EnteredIs ==
    /\ TableInv => Range(edges) = Entered(tables)
    /\ TableInv' => Range(edges') = Entered(tables')
<1>1. ASSUME NEW t \in Tables
      PROVE  Range(t.edges) = Entered(t)
  <2>1. t.edges \in Seq(Edge)
    BY DEF Tables
  <2>2. Range(t.edges) = {t.edges[i] : i \in 1 .. Len(t.edges)}
    BY <2>1 DEF Range
  <2> QED
    BY <2>2 DEF Entered
<1>2. tables.edges = edges /\ tables'.edges = edges'
  BY DEF tables
<1>3. (TableInv => tables \in Tables) /\ (TableInv' => tables' \in Tables)
  BY DEF TableInv, Consistent
<1> QED
  BY <1>1, <1>2, <1>3

LEMMA RestingPerforms ==
    ASSUME TableInv, TablesUnchanged
    PROVE  TableInv' /\ Performs({}) /\ tables' = tables /\ Keeps(tables, tables')
<1>1. UNCHANGED vars
  BY DEF TablesUnchanged, vars
<1>2. edges' = edges /\ defined' = defined
  BY DEF TablesUnchanged
<1> QED
  BY <1>1, <1>2, Resting DEF Performs

LEMMA DefiningPerforms ==
    ASSUME TableInv, NEW id \in Id, NEW part, part.is \notin {"literal", "access"},
           part.kind \in DefinedKind, part.span \in Span, DefineNode(id, part.kind, part.span)
    PROVE  /\ TableInv' /\ Performs({<<id, part>>}) /\ Keeps(tables, tables')
           /\ id \in defined => tables' = tables
<1> DEFINE node == [id |-> id, kind |-> part.kind, span |-> part.span]
<1>1. TableInv' /\ Keeps(tables, tables') /\ tables' = InsertNode(tables, node)
  BY DefiningNode
<1>2. InsertNode(tables, node).edges = tables.edges
  <2>1. tables \in Tables
    BY DEF TableInv, Consistent
  <2> HIDE DEF node
  <2> QED
    BY <2>1 DEF InsertNode, Tables
<1>3. Entered(tables') = Entered(tables)
  BY <1>1, <1>2 DEF Entered
<1>4. Range(edges') = Range(edges)
  BY <1>1, <1>3, EnteredIs
<1>5. node.id = id
  OBVIOUS
<1>6. id \in defined => tables' = tables
  <2> HIDE DEF node
  <2> QED
    BY <1>1, <1>5, DefiningAgain
<1>7. \A w : Makes(w, <<id, part>>) = {}
  BY DEF Makes
<1>8. defined' = defined \cup {id}
  BY DEF DefineNode
<1>9. Performs({<<id, part>>})
  BY <1>4, <1>7, <1>8 DEF Performs
<1> QED
  BY <1>1, <1>6, <1>9

LEMMA RecordingEnters ==
    ASSUME TableInv, NEW found \in SUBSET Edge, \A a, b \in found : a = b, Record(found)
    PROVE  /\ TableInv' /\ Keeps(tables, tables') /\ defined' = defined
           /\ Range(edges') = Range(edges) \cup found
           /\ found \subseteq Range(edges) => tables' = tables
<1>1. CASE found = {}
  <2>1. TablesUnchanged
    BY <1>1 DEF Record
  <2>2. edges' = edges /\ defined' = defined
    BY <2>1 DEF TablesUnchanged
  <2> QED
    BY <1>1, <2>1, <2>2, RestingPerforms
<1>2. CASE found # {}
  <2>1. PICK edge \in found : AddEdge(edge)
    BY <1>2 DEF Record
  <2>2. found = {edge} /\ edge \in Edge
    BY <2>1
  <2>3. TableInv' /\ Keeps(tables, tables')
    BY <2>1, <2>2, AddingEdge
  <2>4. /\ Entered(tables') = Entered(tables) \cup {edge}
        /\ edge \in Entered(tables) => tables' = tables
    BY <2>1, <2>2, AddingEnters
  <2>6. defined' = defined
    BY <2>1 DEF AddEdge
  <2> QED
    BY <2>2, <2>3, <2>4, <2>6, EnteredIs
<1> QED
  BY <1>1, <1>2

\* A literal, or an access, makes at most one edge a walk.
LEMMA FoundIs ==
    ASSUME NEW e \in Expression, e.is \in {"literal", "access"}, walk \in 1 .. Walks,
           owner \in Id, owner # NoOwner
    PROVE  /\ e.is = "literal" => BaseEdges(e) = Makes(walk, <<owner, e>>)
           /\ BaseEdges(e) \cup TypedEdges(e) = Makes(walk, <<owner, e>>)
           /\ Makes(walk, <<owner, e>>) \subseteq Edge
           /\ \A a, b \in Makes(walk, <<owner, e>>) : a = b
<1>1. /\ e.res \in Symbol \cup {Elsewhere} /\ e.call \in BOOLEAN /\ e.span \in Span
      /\ e.method \subseteq Method /\ \A a, b \in e.method : a = b
      /\ e.is = "literal" => e.method = {}
  BY SyntaxAssumption DEF IsExpression
<1>2. /\ Symbol \subseteq Id /\ Dependable \subseteq Symbol
      /\ {"Reference", "Call", "InterfaceDispatch"} \subseteq EdgeKind
  BY SymbolAssumption
<1>3. CallOr(e) \in EdgeKind /\ "InterfaceDispatch" \in EdgeKind
  BY <1>2 DEF CallOr
<1>4. <<owner, e>>[1] = owner /\ <<owner, e>>[2] = e
  OBVIOUS
<1>5. CASE walk = 1
  <2>1. TypedEdges(e) = {}
    BY <1>5 DEF TypedEdges, types
  <2>2. {r \in {e.res} : collect_base /\ owner # NoOwner /\ r \in Dependable} = {e.res} \cap Dependable
    BY <1>5 DEF collect_base
  <2>3. BaseEdges(e) = Makes(walk, <<owner, e>>)
    BY <1>4, <1>5, <2>2 DEF BaseEdges, Makes
  <2>4. Makes(walk, <<owner, e>>) =
          {[source |-> owner, target |-> r, kind |-> CallOr(e), span |-> e.span] : r \in {e.res} \cap Dependable}
    BY <1>4, <1>5 DEF Makes
  <2>5. Makes(walk, <<owner, e>>) \subseteq Edge
    BY <1>1, <1>2, <1>3, <2>4 DEF Edge
  <2>6. \A a, b \in Makes(walk, <<owner, e>>) : a = b
    BY <2>4
  <2> QED
    BY <2>1, <2>3, <2>5, <2>6
<1>6. CASE walk # 1
  <2>1. BaseEdges(e) = {}
    BY <1>6 DEF BaseEdges, collect_base
  <2>2. walk > 1
    BY <1>6
  <2>3. {n \in e.method : types /\ owner # NoOwner} = e.method
    BY <2>2 DEF types
  <2> DEFINE Made(m) ==
          [source |-> owner,
           target |-> IF m.implementation = Elsewhere THEN m.declaration ELSE m.implementation,
           kind   |-> IF m.implementation = Elsewhere THEN "InterfaceDispatch" ELSE CallOr(e),
           span   |-> e.span]
  <2>4. TypedEdges(e) = {Made(m) : m \in e.method}
    BY <2>3 DEF TypedEdges
  <2>5. Makes(walk, <<owner, e>>) = {Made(m) : m \in e.method}
    BY <1>4, <1>6 DEF Makes
  <2>6. \A m \in e.method : Made(m) \in Edge
    BY <1>1, <1>2, <1>3 DEF Method, Edge
  <2> HIDE DEF Made
  <2>7. \A a, b \in Makes(walk, <<owner, e>>) : a = b
    BY <1>1, <2>5
  <2>8. Makes(walk, <<owner, e>>) \subseteq Edge
    BY <2>5, <2>6
  <2>9. e.is = "literal" => BaseEdges(e) = Makes(walk, <<owner, e>>)
    BY <1>1, <2>1, <2>5
  <2> QED
    BY <2>1, <2>4, <2>5, <2>7, <2>8, <2>9
<1> QED
  BY <1>5, <1>6

LEMMA RecordingPerforms ==
    ASSUME TableInv, NEW e \in Expression, e.is \in {"literal", "access"}, walk \in 1 .. Walks,
           owner \in Id, owner # NoOwner, Record(Makes(walk, <<owner, e>>))
    PROVE  /\ TableInv' /\ Keeps(tables, tables') /\ Performs({<<owner, e>>})
           /\ Makes(walk, <<owner, e>>) \subseteq Range(edges) => tables' = tables
<1> DEFINE found == Makes(walk, <<owner, e>>)
<1>1. found \in SUBSET Edge /\ \A a, b \in found : a = b
  BY FoundIs
<1>2. /\ TableInv' /\ Keeps(tables, tables') /\ defined' = defined
      /\ Range(edges') = Range(edges) \cup found
      /\ found \subseteq Range(edges) => tables' = tables
  <2> HIDE DEF found
  <2>1. Record(found)
    BY DEF found
  <2> QED
    BY <1>1, <2>1, RecordingEnters
<1>3. <<owner, e>>[2].is \notin {"declaration", "statement"}
  OBVIOUS
<1>4. Performs({<<owner, e>>})
  BY <1>2, <1>3 DEF Performs
<1> QED
  BY <1>2, <1>4

-----------------------------------------------------------------------------
(***************************************************************************)
(* Every step of a walk moves on: the invariant holds again, and the last  *)
(* walk changes nothing.                                                   *)
(***************************************************************************)
Moves ==
    /\ TableInv'
    /\ Keeps(tables, tables')
    /\ UNCHANGED <<source, walk>>
    /\ Walked
    /\ walk = Walks => tables' = tables

LEMMA DoneBefore ==
    ASSUME NEW k, NEW own, Walking(k, own), walk = Walks, NEW p \in First(source, todo, own)
    PROVE  Known(p) /\ Makes(walk, p) \subseteq Range(edges)
<1>1. p \in AllWork(source)
  <2>1. Splits(Left(source, todo, own), First(source, todo, own), Rest(source, todo, own))
    BY LeftIs DEF Walking, StackInv
  <2> QED
    BY <2>1 DEF Splits, Walking, WorkInv
<1>2. Done(2, p)
  <2>1. 2 \in 1 .. walk /\ 2 < walk
    BY DEF Walks
  <2> QED
    BY <1>1, <2>1 DEF Walking, WorkInv
<1>3. Makes(walk, p) = Makes(2, p)
  BY DEF Makes, Walks
<1> QED
  BY <1>2, <1>3 DEF Done

\* Nothing is entered, and the tasks have the work of the task in turn.
LEMMA Descending ==
    ASSUME TableInv, NEW k, NEW own, Walking(k, own), todo[1].do # "restore",
           ~(IsTop(todo[1]) /\ todo[1].node.is = "statement"), UNCHANGED next_statement,
           TablesUnchanged, NEW tasks \in Seq(PlainTask), Owned(owner, tasks),
           Continue(tasks), owner' = owner,
           First(source, todo, own) = WorkAt(owner, NodesOf(tasks))
    PROVE  Moves
<1>1. TableInv' /\ Performs({}) /\ tables' = tables /\ Keeps(tables, tables')
  BY RestingPerforms
<1>2. Counts
  BY DEF Counts
<1>3. PICK first, rest : first = First(source, todo, own) /\ rest = WorkAt(owner, NodesOf(tasks))
  OBVIOUS
<1>4. Splits(first, {}, rest)
  BY <1>3 DEF Splits
<1>5. Splits(First(source, todo, own), {}, WorkAt(owner, NodesOf(tasks)))
  BY <1>3, <1>4
<1>6. Walked
  BY <1>1, <1>2, <1>5, Continuing
<1> QED
  BY <1>1, <1>6 DEF Moves, Continue

LEMMA NoTasks ==
    /\ <<>> \in Seq(PlainTask) /\ NodesOf(<<>>) = {}
    /\ \A o \in Owner : Owned(o, <<>>) /\ WorkAt(o, NodesOf(<<>>)) = {}
<1>1. <<>> \in Seq(PlainTask) /\ Len(<<>>) = 0
  OBVIOUS
<1>2. NodesOf(<<>>) = {}
  BY <1>1 DEF NodesOf
<1> QED
  BY <1>1, <1>2 DEF Owned, WorkAt

LEMMA RestoreOwnerMoves ==
    ASSUME BuilderInv, NEW k, NEW own, StackInv(k, own), WorkInv(own), RestoreOwner
    PROVE  Moves
<1>1. Walking(k, own) /\ Task.do = "restore" /\ todo # <<>>
  BY TurnIs DEF RestoreOwner
<1>2. Task.owner \in Owner /\ own[2] = Task.owner /\ ~IsTop(todo[1]) /\ First(source, todo, own) = {}
  BY <1>1, RestoreInTurn
<1>3. PICK newOwn : Runs(source, <<>>, Task.owner, newOwn, Task.owner, WorkAt(Task.owner, NodesOf(<<>>)))
  BY <1>2, NoTasks, PlainOwners
<1>4. Splits(First(source, todo, own), {}, WorkAt(Task.owner, NodesOf(<<>>)))
  BY <1>2, NoTasks DEF Splits
<1>5. TableInv' /\ Performs({}) /\ tables' = tables /\ Keeps(tables, tables')
  BY RestingPerforms DEF BuilderInv, RestoreOwner
<1>6. Counts
  BY <1>2 DEF Counts, RestoreOwner
<1>7. Continue(<<>>) /\ owner' = Task.owner
  BY DEF RestoreOwner
<1>8. Walked
  BY <1>1, <1>2, <1>3, <1>4, <1>5, <1>6, <1>7, Advance
<1> QED
  BY <1>5, <1>7, <1>8 DEF Moves, Continue

LEMMA VisitPassiveMoves ==
    ASSUME BuilderInv, NEW k, NEW own, StackInv(k, own), WorkInv(own), VisitPassive
    PROVE  Moves
<1>1. /\ Walking(k, own) /\ Task.do = "statement" /\ todo # <<>> /\ Task = todo[1]
      /\ Task.node.is = "passive" /\ owner \in Owner
  BY TurnIs DEF VisitPassive, At
<1>2. Task.node \in Statement /\ First(source, todo, own) = Work(owner, Task.node)
  BY <1>1, StatementInTurn
<1>3. Work(owner, Task.node) = {}
  BY <1>1, <1>2, StatementsAndExpressions, WorkIs
<1>4. First(source, todo, own) = WorkAt(owner, NodesOf(<<>>))
  BY <1>1, <1>2, <1>3, NoTasks
<1>5. Continue(<<>>) /\ owner' = owner /\ UNCHANGED next_statement /\ TablesUnchanged
  BY DEF VisitPassive
<1> QED
  BY <1>1, <1>4, <1>5, NoTasks, Descending DEF BuilderInv

LEMMA VisitUndeclaredMoves ==
    ASSUME BuilderInv, NEW k, NEW own, StackInv(k, own), WorkInv(own), VisitUndeclared
    PROVE  Moves
<1>1. /\ Walking(k, own) /\ Task.do = "statement" /\ todo # <<>> /\ Task = todo[1]
      /\ Task.node.is = "declaration" /\ ~Declares(Task.node) /\ owner \in Owner
  BY TurnIs DEF VisitUndeclared, At, Declares
<1>2. Task.node \in Statement /\ First(source, todo, own) = Work(owner, Task.node)
  BY <1>1, StatementInTurn
<1>3. Work(owner, Task.node) = {}
  BY <1>1, <1>2, StatementsAndExpressions, WorkIs
<1>4. First(source, todo, own) = WorkAt(owner, NodesOf(<<>>))
  BY <1>1, <1>2, <1>3, NoTasks
<1>5. Continue(<<>>) /\ owner' = owner /\ UNCHANGED next_statement /\ TablesUnchanged
  BY DEF VisitUndeclared
<1> QED
  BY <1>1, <1>4, <1>5, NoTasks, Descending DEF BuilderInv

LEMMA VisitMembersMoves ==
    ASSUME BuilderInv, NEW k, NEW own, StackInv(k, own), WorkInv(own), VisitMembers
    PROVE  Moves
<1> DEFINE tasks == Statements(Task.node.members, FALSE)
<1>1. /\ Walking(k, own) /\ Task.do = "statement" /\ todo # <<>> /\ Task = todo[1]
      /\ Task.node.is = "members" /\ owner \in Owner
  BY TurnIs DEF VisitMembers, At
<1>2. Task.node \in Statement /\ First(source, todo, own) = Work(owner, Task.node)
  BY <1>1, StatementInTurn
<1>3. /\ Task.node.members \in Seq(Statement) /\ Inner(Task.node) = Range(Task.node.members)
      /\ \A m \in Range(Task.node.members) : m.is = "declaration"
  BY <1>1, <1>2, SyntaxAssumption DEF IsStatement, Inner
<1>4. tasks \in Seq(PlainTask) /\ NodesOf(tasks) = Inner(Task.node)
  BY <1>3, StatementsArePlain
<1>5. Continue(tasks) /\ owner' = owner /\ UNCHANGED next_statement /\ TablesUnchanged
  BY DEF VisitMembers
<1> HIDE DEF tasks
<1>6. Work(owner, Task.node) = WorkInside(owner, Task.node)
  BY <1>1, <1>2, StatementsAndExpressions, WorkIs
<1>7. First(source, todo, own) = WorkAt(owner, NodesOf(tasks))
  BY <1>2, <1>4, <1>6 DEF WorkAt, WorkInside
<1>8. Owned(owner, tasks)
  BY <1>1, <1>3, <1>4 DEF Owned
<1> QED
  BY <1>1, <1>4, <1>5, <1>7, <1>8, Descending DEF BuilderInv

LEMMA VisitFormMoves ==
    ASSUME BuilderInv, NEW k, NEW own, StackInv(k, own), WorkInv(own), VisitForm
    PROVE  Moves
<1> DEFINE tasks == Expressions(Task.node.parts)
<1>1. /\ Walking(k, own) /\ Task.do = "expression" /\ todo # <<>> /\ Task = todo[1]
      /\ Task.node.is = "form" /\ owner \in Owner
  BY TurnIs DEF VisitForm, AtExpression
<1>2. /\ Task.node \in Expression /\ owner # NoOwner /\ ~IsTop(todo[1])
      /\ First(source, todo, own) = Work(owner, Task.node)
  BY <1>1, ExpressionInTurn
<1>3. Task.node.parts \in Seq(Expression) /\ Inner(Task.node) = Range(Task.node.parts)
  BY <1>1, <1>2, SyntaxAssumption DEF IsExpression, Inner
<1>4. tasks \in Seq(PlainTask) /\ NodesOf(tasks) = Inner(Task.node)
  BY <1>3, ExpressionsArePlain
<1>5. Continue(tasks) /\ owner' = owner /\ UNCHANGED next_statement /\ TablesUnchanged
  BY DEF VisitForm
<1> HIDE DEF tasks
<1>6. Work(owner, Task.node) = WorkInside(owner, Task.node)
  BY <1>1, <1>2, StatementsAndExpressions, WorkIs
<1>7. First(source, todo, own) = WorkAt(owner, NodesOf(tasks))
  BY <1>2, <1>4, <1>6 DEF WorkAt, WorkInside
<1>8. Owned(owner, tasks)
  BY <1>1, <1>2 DEF Owned
<1> QED
  BY <1>1, <1>2, <1>4, <1>5, <1>7, <1>8, Descending DEF BuilderInv

LEMMA VisitBlockMoves ==
    ASSUME BuilderInv, NEW k, NEW own, StackInv(k, own), WorkInv(own), VisitBlock
    PROVE  Moves
<1> DEFINE tasks == Statements(Task.node.body, FALSE)
<1>1. /\ Walking(k, own) /\ Task.do = "expression" /\ todo # <<>> /\ Task = todo[1]
      /\ Task.node.is = "block" /\ owner \in Owner
  BY TurnIs DEF VisitBlock, AtExpression
<1>2. /\ Task.node \in Expression /\ owner # NoOwner /\ ~IsTop(todo[1])
      /\ First(source, todo, own) = Work(owner, Task.node)
  BY <1>1, ExpressionInTurn
<1>3. Task.node.body \in Seq(Statement) /\ Inner(Task.node) = Range(Task.node.body)
  BY <1>1, <1>2, SyntaxAssumption DEF IsExpression, Inner
<1>4. tasks \in Seq(PlainTask) /\ NodesOf(tasks) = Inner(Task.node)
  BY <1>3, StatementsArePlain
<1>5. Continue(tasks) /\ owner' = owner /\ UNCHANGED next_statement /\ TablesUnchanged
  BY DEF VisitBlock
<1> HIDE DEF tasks
<1>6. Work(owner, Task.node) = WorkInside(owner, Task.node)
  BY <1>1, <1>2, StatementsAndExpressions, WorkIs
<1>7. First(source, todo, own) = WorkAt(owner, NodesOf(tasks))
  BY <1>2, <1>4, <1>6 DEF WorkAt, WorkInside
<1>8. Owned(owner, tasks)
  BY <1>1, <1>2 DEF Owned
<1> QED
  BY <1>1, <1>2, <1>4, <1>5, <1>7, <1>8, Descending DEF BuilderInv

\* A name or a member, and then its arguments.
LEMMA UseMoves ==
    ASSUME BuilderInv, NEW k, NEW own, StackInv(k, own), WorkInv(own), todo # <<>>,
           Task.do = "expression", Task.node.is \in {"literal", "access"},
           Continue(Expressions(Task.node.arguments)), owner' = owner, UNCHANGED next_statement,
           Record(Makes(walk, <<owner, Task.node>>))
    PROVE  Moves
<1> DEFINE tasks == Expressions(Task.node.arguments)
           V == {<<owner, Task.node>>}
<1>1. Walking(k, own) /\ Task = todo[1] /\ owner \in Owner /\ walk \in 1 .. Walks /\ TableInv
  BY TurnIs DEF BuilderInv, Walking
<1>2. /\ Task.node \in Expression /\ owner # NoOwner /\ ~IsTop(todo[1])
      /\ First(source, todo, own) = Work(owner, Task.node)
  BY ExpressionInTurn
<1>3. Task.node.arguments \in Seq(Expression) /\ Inner(Task.node) = Range(Task.node.arguments)
  BY <1>2, SyntaxAssumption DEF IsExpression, Inner
<1>4. tasks \in Seq(PlainTask) /\ NodesOf(tasks) = Inner(Task.node)
  BY <1>3, ExpressionsArePlain
<1> HIDE DEF tasks
<1>5. Work(owner, Task.node) = V \cup WorkInside(owner, Task.node)
  BY <1>2, StatementsAndExpressions, WorkIs
<1>6. Owned(owner, tasks) /\ owner \in Id
  BY <1>1, <1>2 DEF Owned, Owner
<1>7. /\ TableInv' /\ Keeps(tables, tables') /\ Performs(V)
      /\ Makes(walk, <<owner, Task.node>>) \subseteq Range(edges) => tables' = tables
  BY <1>1, <1>2, <1>6, RecordingPerforms
<1>8. <<owner, Task.node>> \in First(source, todo, own)
  BY <1>2, <1>5
<1>9. walk = Walks => tables' = tables
  BY <1>1, <1>7, <1>8, DoneBefore
<1> HIDE DEF V
<1>10. Splits(First(source, todo, own), V, WorkAt(owner, NodesOf(tasks)))
  BY <1>2, <1>4, <1>5 DEF WorkAt, WorkInside, Splits
<1>11. Counts
  BY <1>2 DEF Counts
<1>12. Continue(tasks)
  BY DEF tasks
<1>13. todo[1].do # "restore"
  BY <1>1
<1>14. Walked
  BY <1>1, <1>4, <1>6, <1>7, <1>10, <1>11, <1>12, <1>13, Continuing
<1> QED
  BY <1>7, <1>9, <1>12, <1>14 DEF Moves, Continue

LEMMA VisitUseMoves ==
    ASSUME BuilderInv, NEW k, NEW own, StackInv(k, own), WorkInv(own), VisitLiteral \/ VisitAccess
    PROVE  Moves
<1>1. /\ Task.do = "expression" /\ todo # <<>> /\ Task.node.is \in {"literal", "access"}
      /\ Continue(Expressions(Task.node.arguments)) /\ owner' = owner /\ UNCHANGED next_statement
  BY DEF VisitLiteral, VisitAccess, AtExpression
<1>2. walk \in 1 .. Walks /\ owner \in Owner
  BY <1>1, TurnIs DEF Walking
<1>3. Task.node \in Expression /\ owner # NoOwner
  BY <1>1, ExpressionInTurn
<1>4. owner \in Id
  BY <1>2, <1>3 DEF Owner
<1>5. /\ Task.node.is = "literal" => BaseEdges(Task.node) = Makes(walk, <<owner, Task.node>>)
      /\ BaseEdges(Task.node) \cup TypedEdges(Task.node) = Makes(walk, <<owner, Task.node>>)
  BY <1>1, <1>2, <1>3, <1>4, FoundIs
<1>6. Record(Makes(walk, <<owner, Task.node>>))
  BY <1>5 DEF VisitLiteral, VisitAccess, AtExpression
<1> QED
  BY <1>1, <1>6, UseMoves

LEMMA VisitDeclarationMoves ==
    ASSUME BuilderInv, NEW k, NEW own, StackInv(k, own), WorkInv(own), VisitDeclaration
    PROVE  Moves
<1> DEFINE d == Task.node
           tasks == Expressions(d.value) \o Statements(d.body, FALSE)
           V == {<<d.id, d>>}
<1>1. /\ Walking(k, own) /\ Task.do = "statement" /\ todo # <<>> /\ Task = todo[1]
      /\ d.is = "declaration" /\ Declares(d) /\ owner \in Owner /\ TableInv
  BY TurnIs DEF VisitDeclaration, At, Declares, BuilderInv
<1>2. d \in Statement /\ First(source, todo, own) = Work(owner, d)
  BY <1>1, StatementInTurn
<1>3. /\ d.id \in Dependable /\ d.kind \in Nested /\ d.span \in Span
      /\ d.value \in Seq(Expression) /\ d.body \in Seq(Statement)
      /\ Inner(d) = Range(d.value) \cup Range(d.body)
  BY <1>1, <1>2, SyntaxAssumption DEF IsStatement, Inner, Declares
<1>4. d.id \in Id /\ d.kind \in DefinedKind /\ d.id # NoOwner
  BY <1>3, SymbolAssumption
<1>5. tasks \in Seq(PlainTask) /\ NodesOf(tasks) = Inner(d)
  <2>1. Expressions(d.value) \in Seq(PlainTask) /\ NodesOf(Expressions(d.value)) = Range(d.value)
    BY <1>3, ExpressionsArePlain
  <2>2. Statements(d.body, FALSE) \in Seq(PlainTask) /\ NodesOf(Statements(d.body, FALSE)) = Range(d.body)
    BY <1>3, StatementsArePlain
  <2>3. tasks \in Seq(PlainTask) /\ NodesOf(tasks) = Range(d.value) \cup Range(d.body)
    BY <2>1, <2>2, PlainInOrder
  <2> QED
    BY <1>3, <2>3
<1>6. DefineNode(d.id, d.kind, d.span) /\ WithOwner(d.id, tasks) /\ UNCHANGED next_statement
  BY DEF VisitDeclaration
<1> HIDE DEF tasks
<1>7. Work(owner, d) = V \cup WorkInside(d.id, d)
  BY <1>1, <1>2, StatementsAndExpressions, WorkIs
<1>8. Owned(d.id, tasks)
  BY <1>4 DEF Owned, Owner
<1>9. /\ TableInv' /\ Performs(V) /\ Keeps(tables, tables')
      /\ d.id \in defined => tables' = tables
  BY <1>1, <1>4, <1>3, <1>6, DefiningPerforms
<1>10. <<d.id, d>> \in First(source, todo, own)
  BY <1>2, <1>7
<1>11. walk = Walks => tables' = tables
  BY <1>1, <1>9, <1>10, DoneBefore DEF Known
<1> HIDE DEF V
<1>12. Splits(First(source, todo, own), V, WorkAt(d.id, NodesOf(tasks)))
  BY <1>2, <1>5, <1>7 DEF WorkAt, WorkInside, Splits
<1>13. Counts
  BY <1>1, <1>6 DEF Counts
<1>14. todo[1].do # "restore"
  BY <1>1
<1>15. Walked
  BY <1>1, <1>5, <1>6, <1>8, <1>9, <1>12, <1>13, <1>14, Entering
<1> QED
  BY <1>6, <1>9, <1>11, <1>15 DEF Moves, WithOwner, Continue

LEMMA VisitStatementAtTopMoves ==
    ASSUME BuilderInv, NEW k, NEW own, StackInv(k, own), WorkInv(own), VisitStatementAtTop
    PROVE  Moves
<1> DEFINE s == Task.node
           id == StatementIds[next_statement + 1]
           tasks == Expressions(s.value)
           V == {<<id, s>>}
<1>1. /\ Walking(k, own) /\ Task.do = "statement" /\ todo # <<>> /\ Task = todo[1]
      /\ s.is = "statement" /\ IsTop(todo[1]) /\ owner \in Owner /\ TableInv
  BY TurnIs DEF VisitStatementAtTop, At, IsTop, BuilderInv
<1>2. s \in Statement
  BY <1>1, StatementInTurn
<1>3. /\ k \in Nat /\ k < Len(source) /\ s = source[k + 1]
      /\ next_statement = Number(source, k) /\ First(source, todo, own) = TopWork(source, k + 1)
  BY <1>1, TopInTurn
<1>4. source \in Seq(Statement) /\ source \in Source
  BY <1>1 DEF Walking, BuilderInv
<1>5. Number(source, k + 1) = next_statement + 1 /\ next_statement \in Nat
  BY <1>1, <1>3, <1>4, NumberSteps
<1>6. next_statement + 1 \in 1 .. Len(StatementIds)
  <2>1. \A i \in 0 .. Len(source) : Number(source, i) <= Number(source, Len(source)) /\ Number(source, Len(source)) \in Nat
    BY <1>4, NumberGrows
  <2>2. Number(source, Len(source)) <= Len(StatementIds) /\ StatementIds \in Seq(Id \ Symbol)
    BY <1>4, SourceAssumption, SymbolAssumption
  <2>3. k + 1 \in 0 .. Len(source)
    BY <1>3, <1>4
  <2>4. Number(source, k + 1) <= Number(source, Len(source)) /\ Number(source, Len(source)) \in Nat
    BY <2>1, <2>3
  <2> QED
    BY <1>5, <2>2, <2>4
<1>7. id \in Id /\ id # NoOwner
  BY <1>6, SymbolAssumption
<1>8. /\ s.kind \in DefinedKind /\ s.span \in Span /\ s.value \in Seq(Expression)
      /\ Inner(s) = Range(s.value)
  BY <1>1, <1>2, SyntaxAssumption, SymbolAssumption DEF IsStatement, Inner
<1>9. tasks \in Seq(PlainTask) /\ NodesOf(tasks) = Inner(s)
  BY <1>8, ExpressionsArePlain
<1>10. /\ DefineNode(id, s.kind, s.span) /\ WithOwner(id, tasks)
       /\ next_statement' = next_statement + 1
  BY DEF VisitStatementAtTop
<1>11. TopWork(source, k + 1) = V \cup Work(id, s)
  BY <1>1, <1>3, <1>5 DEF TopWork
<1> HIDE DEF tasks, id
<1>12. Work(id, s) = WorkInside(id, s)
  BY <1>1, <1>2, StatementsAndExpressions, WorkIs
<1>13. Owned(id, tasks)
  BY <1>7 DEF Owned, Owner
<1>14. /\ TableInv' /\ Performs(V) /\ Keeps(tables, tables')
       /\ id \in defined => tables' = tables
  BY <1>1, <1>7, <1>8, <1>10, DefiningPerforms
<1>15. <<id, s>> \in First(source, todo, own)
  BY <1>3, <1>11
<1>16. walk = Walks => tables' = tables
  BY <1>1, <1>14, <1>15, DoneBefore DEF Known
<1> HIDE DEF V
<1>17. Splits(First(source, todo, own), V, WorkAt(id, NodesOf(tasks)))
  BY <1>3, <1>9, <1>11, <1>12 DEF WorkAt, WorkInside, Splits
<1>18. Counts
  BY <1>1, <1>10 DEF Counts
<1>19. todo[1].do # "restore"
  BY <1>1
<1>20. Walked
  BY <1>1, <1>9, <1>10, <1>13, <1>14, <1>17, <1>18, <1>19, Entering
<1> QED
  BY <1>10, <1>14, <1>16, <1>20 DEF Moves, WithOwner, Continue

LEMMA VisitStatementInsideMoves ==
    ASSUME BuilderInv, NEW k, NEW own, StackInv(k, own), WorkInv(own), VisitStatementInside
    PROVE  Moves
<1> DEFINE s == Task.node
           tasks == Expressions(s.value)
<1>1. /\ Walking(k, own) /\ Task.do = "statement" /\ todo # <<>> /\ Task = todo[1]
      /\ s.is = "statement" /\ ~IsTop(todo[1]) /\ owner \in Owner /\ TableInv
  BY TurnIs DEF VisitStatementInside, At, IsTop, BuilderInv
<1>2. s \in Statement /\ owner # NoOwner /\ First(source, todo, own) = Work(owner, s)
  BY <1>1, StatementInTurn
<1>3. s.value \in Seq(Expression) /\ Inner(s) = Range(s.value)
  BY <1>1, <1>2, SyntaxAssumption DEF IsStatement, Inner
<1>4. tasks \in Seq(PlainTask) /\ NodesOf(tasks) = Inner(s)
  BY <1>3, ExpressionsArePlain
<1>5. WithOwner(owner, tasks) /\ UNCHANGED next_statement /\ TablesUnchanged
  BY DEF VisitStatementInside
<1> HIDE DEF tasks
<1>6. Work(owner, s) = WorkInside(owner, s)
  BY <1>1, <1>2, StatementsAndExpressions, WorkIs
<1>7. Splits(First(source, todo, own), {}, WorkAt(owner, NodesOf(tasks)))
  BY <1>2, <1>4, <1>6 DEF WorkAt, WorkInside, Splits
<1>8. Owned(owner, tasks)
  BY <1>1, <1>2 DEF Owned
<1>9. TableInv' /\ Performs({}) /\ tables' = tables /\ Keeps(tables, tables')
  BY <1>1, <1>5, RestingPerforms
<1>10. Counts /\ todo[1].do # "restore"
  BY <1>1, <1>5 DEF Counts
<1>11. Walked
  BY <1>1, <1>4, <1>5, <1>7, <1>8, <1>9, <1>10, Entering
<1> QED
  BY <1>5, <1>9, <1>11 DEF Moves, WithOwner, Continue

LEMMA WalkMoves ==
    ASSUME BuilderInv, WalkStep, ~StartWalk
    PROVE  Moves /\ todo # <<>>
<1>1. PICK k, own : StackInv(k, own) /\ WorkInv(own)
  BY DEF BuilderInv
<1>2. todo # <<>>
  BY DEF WalkStep, RestoreOwner, VisitPassive, VisitMembers, VisitUndeclared, VisitDeclaration,
         VisitStatementAtTop, VisitStatementInside, VisitForm, VisitBlock, VisitLiteral, VisitAccess,
         At, AtExpression
<1>3. Moves
  BY <1>1, RestoreOwnerMoves, VisitPassiveMoves, VisitMembersMoves, VisitUndeclaredMoves,
     VisitDeclarationMoves, VisitStatementAtTopMoves, VisitStatementInsideMoves, VisitFormMoves,
     VisitBlockMoves, VisitUseMoves DEF WalkStep
<1> QED
  BY <1>2, <1>3

\* A walk that has nothing left has done everything.
LEMMA NothingLeft ==
    ASSUME NEW k, NEW own, StackInv(k, own), WorkInv(own), todo = <<>>
    PROVE  \A p \in AllWork(source) : \A w \in 1 .. walk : Done(w, p)
<1>1. Len(todo) = 0
  OBVIOUS
<1>2. Left(source, todo, own) = {}
  BY <1>1 DEF Left
<1> QED
  BY <1>2 DEF WorkInv

LEMMA NoneYet == \A s : Number(s, 0) = 0
<1>1. \A s : {j \in 1 .. 0 : s[j].is = "statement"} = {}
  OBVIOUS
<1> QED
  BY <1>1, FS_EmptySet DEF Number

LEMMA TopTasksAre ==
    ASSUME NEW s \in Seq(Statement)
    PROVE  /\ Statements(s, TRUE) \in Seq(TaskType)
           /\ Len(Statements(s, TRUE)) = Len(s) /\ Len(s) \in Nat
           /\ \A i \in 1 .. Len(s) : Statements(s, TRUE)[i] = Visit(s[i], TRUE)
<1> DEFINE tasks == Statements(s, TRUE)
<1>1. /\ Len(s) \in Nat /\ tasks = [i \in 1 .. Len(s) |-> Visit(s[i], TRUE)]
      /\ \A i \in 1 .. Len(s) : s[i] \in Statement
  BY DEF Statements
<1>2. \A x \in Statement : Visit(x, TRUE) \in TaskType
  BY DEF Visit, TaskType, TopTask
<1> HIDE DEF tasks
<1>3. tasks \in Seq(TaskType) /\ Len(tasks) = Len(s)
  <2>1. \A i \in 1 .. Len(s) : tasks[i] \in TaskType
    BY <1>1, <1>2
  <2>2. tasks = [i \in 1 .. Len(s) |-> tasks[i]] /\ Len(s) \in Nat
    BY <1>1
  <2> QED
    BY <2>1, <2>2
<1> QED
  BY <1>1, <1>3 DEF tasks

LEMMA StartWalkKeeps ==
    ASSUME BuilderInv, StartWalk
    PROVE  BuilderInv' /\ Keeps(tables, tables')
<1>1. /\ todo = <<>> /\ walk < Walks /\ walk' = walk + 1 /\ todo' = Statements(source, TRUE)
      /\ owner' = NoOwner /\ next_statement' = 0 /\ source' = source
      /\ UNCHANGED vars /\ edges' = edges /\ defined' = defined
  BY DEF StartWalk, vars
<1>2. TableInv' /\ Keeps(tables, tables')
  BY <1>1, Resting DEF BuilderInv
<1>3. source \in Seq(Statement) /\ source' \in Source /\ walk \in 0 .. Walks
  BY <1>1, SourceAssumption DEF BuilderInv
<1>4. walk' \in 0 .. Walks /\ walk' # 0
  BY <1>1, <1>3 DEF Walks
<1>5. SoundInv'
  <2>1. \A x \in Range(edges) : \E w \in 1 .. walk : \E p \in AllWork(source) : x \in Makes(w, p)
    BY <1>1 DEF BuilderInv, SoundInv
  <2>2. \A w \in 1 .. walk : w \in 1 .. walk'
    BY <1>1, <1>3 DEF Walks
  <2>3. PICK all : all = AllWork(source)
    OBVIOUS
  <2>4. all = AllWork(source)'
    BY <1>1, <2>3
  <2> QED
    BY <1>1, <2>1, <2>2, <2>3, <2>4 DEF SoundInv
<1>6. /\ Len(todo') = Len(source) /\ Len(source) \in Nat /\ todo' \in Seq(TaskType)
      /\ \A i \in 1 .. Len(source) : todo'[i] = Visit(source[i], TRUE)
  BY <1>1, <1>3, TopTasksAre
<1>7. PICK own : own = [i \in 1 .. Len(source) + 1 |-> NoOwner]
  OBVIOUS
<1>8. \A i \in 1 .. Len(source) : IsTop(todo'[i]) /\ todo'[i].do # "restore"
  <2>1. \A x : IsTop(Visit(x, TRUE)) /\ Visit(x, TRUE).do # "restore"
    BY DEF Visit, IsTop
  <2> QED
    BY <1>6, <2>1
<1>9. StackInv(0, own)'
  <2>1. Scope(source, todo', 0)
    <3>1. ASSUME NEW i \in 1 .. Len(todo')
          PROVE  i > Len(todo') - (Len(source) - 0) /\ Len(source) - Len(todo') + i = i
      BY <1>6
    <3>2. 0 \in 0 .. Len(source) /\ Len(source) - 0 <= Len(todo')
      BY <1>6
    <3>3. \A i \in 1 .. Len(todo') : ~(i <= Len(todo') - (Len(source) - 0))
      BY <1>6
    <3> QED
      BY <1>6, <3>1, <3>2, <3>3 DEF Scope
  <2>2. OwnersAre(todo', NoOwner, own)
    <3>1. own \in [1 .. Len(source) + 1 -> Owner] /\ \A i \in 1 .. Len(source) + 1 : own[i] = NoOwner
      BY <1>7 DEF Owner
    <3>2. \A i \in 1 .. Len(source) : i \in 1 .. Len(source) + 1 /\ i + 1 \in 1 .. Len(source) + 1
      BY <1>6
    <3>3. 1 \in 1 .. Len(source) + 1
      BY <1>6
    <3> QED
      BY <1>6, <1>8, <3>1, <3>2, <3>3 DEF OwnersAre
  <2> QED
    BY <1>1, <1>6, <2>1, <2>2, NoneYet DEF StackInv
<1>10. WorkInv(own)'
  <2>1. PICK all : all = AllWork(source)
    OBVIOUS
  <2>2. Left(source, todo', own) = all
    <3>1. \A i \in 1 .. Len(source) :
            Carried(source, todo'[i], own[i], Len(source) - Len(todo') + i) = TopWork(source, i)
      <4>1. \A i \in 1 .. Len(source) : Len(source) - Len(todo') + i = i
        BY <1>6
      <4> QED
        BY <1>8, <4>1 DEF Carried
    <3> QED
      BY <1>6, <2>1, <3>1 DEF Left, AllWork
  <2>3. PICK left : left = Left(source, todo', own)
    OBVIOUS
  <2>4. left = Left(source, todo, own)' /\ all = AllWork(source)'
    BY <1>1, <2>1, <2>3
  <2>5. \A p \in all : \A w \in 1 .. walk : Done(w, p)
    BY <1>1, <2>1, NothingLeft DEF BuilderInv
  <2>6. \A w \in 1 .. walk' : w < walk' => w \in 1 .. walk
    BY <1>1, <1>3 DEF Walks
  <2>7. \A w, p : Done(w, p)' <=> Done(w, p)
    BY <1>1 DEF Done, Known
  <2>8. left = all
    BY <2>2, <2>3
  <2>9. \A p \in all : \A w \in 1 .. walk' : (w < walk' \/ p \notin left) => Done(w, p)'
    BY <2>5, <2>6, <2>7, <2>8
  <2> QED
    BY <2>4, <2>8, <2>9 DEF WorkInv
<1> QED
  BY <1>2, <1>3, <1>4, <1>5, <1>9, <1>10 DEF BuilderInv

LEMMA BuilderInitInv == BuilderInit => BuilderInv
<1> SUFFICES ASSUME BuilderInit PROVE BuilderInv
  OBVIOUS
<1>1. /\ source \in Source /\ walk = 0 /\ todo = <<>> /\ owner = NoOwner /\ Init /\ edges = <<>>
  BY DEF BuilderInit, Init
<1>2. TableInv
  BY <1>1, InitInv
<1>3. Range(edges) = {}
  BY <1>1 DEF Range
<1>4. source \in Seq(Statement) /\ Len(source) \in Nat
  BY <1>1, SourceAssumption
<1>5. PICK own : own = [i \in 1 .. 1 |-> NoOwner]
  OBVIOUS
<1>6. Len(todo) = 0 /\ todo \in Seq(TaskType)
  BY <1>1
<1>7. Scope(source, todo, Len(source))
  BY <1>4, <1>6 DEF Scope
<1>8. OwnersAre(todo, owner, own)
  BY <1>1, <1>5, <1>6 DEF OwnersAre, Owner
<1>9. StackInv(Len(source), own)
  BY <1>1, <1>6, <1>7, <1>8 DEF StackInv
<1>10. Left(source, todo, own) = {}
  BY <1>6 DEF Left
<1>11. 1 .. walk = {}
  BY <1>1
<1>12. WorkInv(own)
  BY <1>10, <1>11 DEF WorkInv
<1>13. SoundInv
  BY <1>3 DEF SoundInv
<1> QED
  BY <1>1, <1>2, <1>9, <1>12, <1>13 DEF BuilderInv, Walks

\* Behind the walks, tables only grow.
LEMMA ClientKeeps ==
    ASSUME BuilderInv, OtherCall \/ ClientMerge
    PROVE  BuilderInv' /\ Keeps(tables, tables')
<1>1. Built /\ UNCHANGED <<source, walk, todo, owner, next_statement>>
  BY DEF OtherCall, ClientMerge, builderVars
<1>2. TableInv' /\ Keeps(tables, tables')
  <2>1. CASE OtherCall
    <3>1. SomeNodes \in SUBSET [id : Id, kind : DefinedKind, span : Span] /\ SomeEdges \in SUBSET Edge
      BY SymbolAssumption
    <3> QED
      BY <2>1, <3>1, Calling DEF OtherCall, BuilderInv
  <2>2. CASE ClientMerge
    BY <2>2, Merging DEF ClientMerge, BuilderInv
  <2> QED
    BY <2>1, <2>2
<1>3. defined \subseteq defined'
  BY DEF OtherCall, ClientMerge, Calls, Merge, DefineNode, AddEdge, Extend, ExtendNode, ExtendEdge
<1>4. Range(edges) \subseteq Range(edges')
  <2>1. \A e \in 1 .. Len(tables.edges) : e \in 1 .. Len(tables'.edges) /\ tables'.edges[e] = tables.edges[e]
    BY <1>2 DEF Keeps
  <2>2. Entered(tables) \subseteq Entered(tables')
    BY <2>1 DEF Entered
  <2> QED
    BY <1>2, <2>2, EnteredIs DEF BuilderInv
<1>5. PICK k, own : StackInv(k, own) /\ WorkInv(own)
  BY DEF BuilderInv
<1>6. StackInv(k, own)'
  BY <1>1, <1>5 DEF StackInv
<1>7. \A w, p : Done(w, p) => Done(w, p)'
  BY <1>3, <1>4 DEF Done, Known
<1>8. PICK left, all : left = Left(source, todo, own) /\ all = AllWork(source)
  OBVIOUS
<1>9. left = Left(source, todo, own)' /\ all = AllWork(source)'
  BY <1>1, <1>8
<1>10. WorkInv(own)'
  <2>1. left \subseteq all
    BY <1>5, <1>8 DEF WorkInv
  <2>2. \A p \in all : \A w \in 1 .. walk : (w < walk \/ p \notin left) => Done(w, p)
    BY <1>5, <1>8 DEF WorkInv
  <2>3. \A p \in all : \A w \in 1 .. walk' : (w < walk' \/ p \notin left) => Done(w, p)'
    BY <1>1, <1>7, <2>2
  <2> QED
    BY <1>9, <2>1, <2>3 DEF WorkInv
<1>11. SoundInv'
  BY <1>1 DEF SoundInv, Built, Walks
<1> QED
  BY <1>1, <1>2, <1>6, <1>10, <1>11 DEF BuilderInv

LEMMA BuilderStep ==
    ASSUME BuilderInv, [BuilderNext]_allVars
    PROVE  BuilderInv' /\ Keeps(tables, tables')
<1>1. CASE OtherCall \/ ClientMerge
  BY <1>1, ClientKeeps
<1>2. CASE StartWalk
  BY <1>2, StartWalkKeeps
<1>3. CASE WalkStep /\ ~StartWalk
  <2>1. Moves /\ todo # <<>>
    BY <1>3, WalkMoves
  <2>2. source' \in Source /\ walk' \in 0 .. Walks /\ walk' # 0
    BY <2>1 DEF Moves, BuilderInv
  <2> QED
    BY <2>1, <2>2 DEF Moves, BuilderInv, Walked
<1>4. CASE UNCHANGED allVars
  <2>1. UNCHANGED vars /\ UNCHANGED <<source, walk, todo, owner, next_statement, edges, defined>>
    BY <1>4 DEF allVars, vars
  <2>2. TableInv' /\ Keeps(tables, tables')
    BY <2>1, Resting DEF BuilderInv
  <2>3. PICK k, own : StackInv(k, own) /\ WorkInv(own)
    BY DEF BuilderInv
  <2>4. StackInv(k, own)'
    BY <2>1, <2>3 DEF StackInv
  <2>5. \A w, p : Done(w, p) <=> Done(w, p)'
    BY <2>1 DEF Done, Known
  <2>6. PICK left, all : left = Left(source, todo, own) /\ all = AllWork(source)
    OBVIOUS
  <2>7. left = Left(source, todo, own)' /\ all = AllWork(source)'
    BY <2>1, <2>6
  <2>8. WorkInv(own)'
    BY <2>1, <2>3, <2>5, <2>6, <2>7 DEF WorkInv
  <2>9. SoundInv'
    BY <2>1, <2>6, <2>7 DEF BuilderInv, SoundInv
  <2> QED
    BY <2>1, <2>2, <2>4, <2>8, <2>9 DEF BuilderInv
<1> QED
  BY <1>1, <1>2, <1>3, <1>4 DEF BuilderNext

-----------------------------------------------------------------------------
(***************************************************************************)
(* The edges behind the second walk.                                       *)
(***************************************************************************)
LEMMA NoUses ==
    ASSUME NEW part \in Statement, part.is # "statement"
    PROVE  UsesIn(Nested)[part] = {}
<1>1. part \in Part /\ IsStatement(part) /\ part.is \in {"passive", "members", "declaration"}
  BY StatementsAndExpressions, SyntaxAssumption
<1>2. Apart(part, Nested) \/ Inner(part) = {}
  BY <1>1 DEF Apart, Inner, IsStatement
<1> QED
  BY <1>1, <1>2, UsesAre

\* A declaration somewhere in the source, and the statements at its top.
LEMMA DeclaredIs ==
    ASSUME source \in Seq(Statement)
    PROVE  /\ \A d : d \in Declared <=> \E i \in 1 .. Len(source) : d \in DeclarationsIn[source[i]]
           /\ \A d \in Declared : IsDeclared(d) /\ d \in Part /\ Inner(d) \subseteq Part
           /\ \A i : i \in AtTop <=> i \in 1 .. Len(source) /\ source[i].is = "statement"
<1>1. DOMAIN source = 1 .. Len(source) /\ \A i \in 1 .. Len(source) : source[i] \in Part
  BY DEF Part
<1>2. \A i \in 1 .. Len(source) : \A d \in DeclarationsIn[source[i]] : IsDeclared(d)
  BY <1>1, DeclarationsAreDeclared
<1>3. \A d : IsDeclared(d) => d \in Part /\ Inner(d) \subseteq Part
  BY InnerIsSmaller DEF IsDeclared, Part
<1> QED
  BY <1>1, <1>2, <1>3 DEF Declared, AtTop

LEMMA AllWorkIs ==
    ASSUME source \in Seq(Statement), NEW p
    PROVE  p \in AllWork(source) <=>
             \/ \E d \in Declared : p \in WorkOf(d)
             \/ \E i \in AtTop : \/ p = <<StatementIds[Number(source, i)], source[i]>>
                                 \/ \E u \in UsesIn(Nested)[source[i]] : p = <<StatementIds[Number(source, i)], u>>
<1>1. \A i \in 1 .. Len(source) :
        p \in TopWork(source, i) <=>
          \/ \E d \in DeclarationsIn[source[i]] : p \in WorkOf(d)
          \/ /\ source[i].is = "statement"
             /\ \/ p = <<StatementIds[Number(source, i)], source[i]>>
                \/ \E u \in UsesIn(Nested)[source[i]] : p = <<StatementIds[Number(source, i)], u>>
  <2>1. ASSUME NEW i \in 1 .. Len(source)
        PROVE  p \in TopWork(source, i) <=>
                 \/ \E d \in DeclarationsIn[source[i]] : p \in WorkOf(d)
                 \/ /\ source[i].is = "statement"
                    /\ \/ p = <<StatementIds[Number(source, i)], source[i]>>
                       \/ \E u \in UsesIn(Nested)[source[i]] : p = <<StatementIds[Number(source, i)], u>>
    <3>1. \A o : p \in Work(o, source[i]) <=>
                   \/ \E u \in UsesIn(Nested)[source[i]] : p = <<o, u>>
                   \/ \E d \in DeclarationsIn[source[i]] : p \in WorkOf(d)
      BY DEF Work
    <3>2. source[i].is # "statement" => UsesIn(Nested)[source[i]] = {}
      <4>1. source[i] \in Statement
        OBVIOUS
      <4> QED
        BY <4>1, NoUses
    <3>3. CASE source[i].is = "statement"
      BY <3>1, <3>3 DEF TopWork
    <3>4. CASE source[i].is # "statement"
      BY <3>1, <3>2, <3>4 DEF TopWork
    <3> QED
      BY <3>3, <3>4
  <2> QED
    BY <2>1
<1>2. p \in AllWork(source) <=> \E i \in 1 .. Len(source) : p \in TopWork(source, i)
  BY DEF AllWork
<1> QED
  BY <1>1, <1>2, DeclaredIs

LEMMA TwoWalksMake ==
    ASSUME NEW id, NEW u
    PROVE  /\ u.is \in {"literal", "access"} =>
                \A x : (\E w \in 1 .. 2 : x \in Makes(w, <<id, u>>)) <=> x \in UseEdges(id, u)
           /\ u.is \notin {"literal", "access"} => \A w : Makes(w, <<id, u>>) = {}
<1>1. u.is \notin {"literal", "access"} => \A w : Makes(w, <<id, u>>) = {}
  BY DEF Makes
<1>2. ASSUME u.is \in {"literal", "access"}, NEW x
      PROVE  (\E w \in 1 .. 2 : x \in Makes(w, <<id, u>>)) <=> x \in UseEdges(id, u)
  <2>1. Makes(1, <<id, u>>) =
          {[source |-> id, target |-> r, kind |-> CallOr(u), span |-> u.span] : r \in {u.res} \cap Dependable}
    BY <1>2 DEF Makes
  <2>2. {[source |-> id, target |-> r, kind |-> CallOr(u), span |-> u.span] : r \in {u.res} \cap Dependable}
          = {[source |-> id, target |-> u.res, kind |-> CallOr(u), span |-> u.span] : r \in {u.res} \cap Dependable}
    OBVIOUS
  <2>3. Makes(2, <<id, u>>) =
          {[source |-> id,
            target |-> IF m.implementation = Elsewhere THEN m.declaration ELSE m.implementation,
            kind   |-> IF m.implementation = Elsewhere THEN "InterfaceDispatch" ELSE CallOr(u),
            span   |-> u.span] : m \in u.method}
    BY <1>2 DEF Makes
  <2>4. x \in Makes(2, <<id, u>>) <=>
          \/ \E m \in u.method : /\ m.implementation # Elsewhere
                                 /\ x = [source |-> id, target |-> m.implementation, kind |-> CallOr(u), span |-> u.span]
          \/ \E m \in u.method : /\ m.implementation = Elsewhere
                                 /\ x = [source |-> id, target |-> m.declaration, kind |-> "InterfaceDispatch", span |-> u.span]
    BY <2>3
  <2>5. 1 .. 2 = {1, 2}
    OBVIOUS
  <2>6. (\E w \in 1 .. 2 : x \in Makes(w, <<id, u>>)) <=> (x \in Makes(1, <<id, u>>) \/ x \in Makes(2, <<id, u>>))
    BY <2>5
  <2> QED
    BY <2>1, <2>2, <2>4, <2>6 DEF UseEdges
<1> QED
  BY <1>1, <1>2

\* x is an edge of the use u by the declaration or statement id.
Expects(x) ==
    \/ \E d \in Declared : \E u \in InsideOf(d, Nested) : x \in UseEdges(d.id, u)
    \/ \E i \in AtTop : \E u \in UsesIn(Nested)[source[i]] : x \in UseEdges(StatementIds[Number(source, i)], u)

LEMMA ExpectedIs == \A x : x \in Expected <=> Expects(x)
BY DEF Expected, Expects

LEMMA EdgesAreExpected ==
    ASSUME source \in Seq(Statement), NEW x
    PROVE  (\E w \in 1 .. 2 : \E p \in AllWork(source) : x \in Makes(w, p)) <=> x \in Expected
<1>1. ASSUME NEW d \in Declared
      PROVE  (\E p \in WorkOf(d) : \E w \in 1 .. 2 : x \in Makes(w, p)) <=>
               \E u \in InsideOf(d, Nested) : x \in UseEdges(d.id, u)
  <2>1. IsDeclared(d) /\ d \in Part /\ Inner(d) \subseteq Part
    BY DeclaredIs
  <2>2. \A u \in InsideOf(d, Nested) : u.is \in {"literal", "access"}
    <3>1. \A q \in Inner(d) : \A u \in UsesIn(Nested)[q] : u.is \in {"literal", "access"}
      BY <2>1, UsesAreUses DEF IsUse
    <3> QED
      BY <3>1 DEF InsideOf
  <2>3. \A w : Makes(w, <<d.id, d>>) = {}
    BY <2>1, TwoWalksMake DEF IsDeclared, Declares
  <2>4. \A u \in InsideOf(d, Nested) :
          (\E w \in 1 .. 2 : x \in Makes(w, <<d.id, u>>)) <=> x \in UseEdges(d.id, u)
    BY <2>2, TwoWalksMake
  <2>5. \A p : p \in WorkOf(d) <=> (p = <<d.id, d>> \/ \E u \in InsideOf(d, Nested) : p = <<d.id, u>>)
    BY DEF WorkOf
  <2> QED
    BY <2>3, <2>4, <2>5
<1>2. ASSUME NEW i \in AtTop
      PROVE  /\ \A w : Makes(w, <<StatementIds[Number(source, i)], source[i]>>) = {}
             /\ \A u \in UsesIn(Nested)[source[i]] :
                  (\E w \in 1 .. 2 : x \in Makes(w, <<StatementIds[Number(source, i)], u>>)) <=>
                     x \in UseEdges(StatementIds[Number(source, i)], u)
  <2>1. source[i].is = "statement" /\ source[i] \in Part
    BY DeclaredIs DEF Part
  <2>2. \A u \in UsesIn(Nested)[source[i]] : u.is \in {"literal", "access"}
    BY <2>1, UsesAreUses DEF IsUse
  <2> QED
    BY <2>1, <2>2, TwoWalksMake
<1>3. \A p : p \in AllWork(source) <=>
        \/ \E d \in Declared : p \in WorkOf(d)
        \/ \E i \in AtTop : \/ p = <<StatementIds[Number(source, i)], source[i]>>
                            \/ \E u \in UsesIn(Nested)[source[i]] : p = <<StatementIds[Number(source, i)], u>>
  BY AllWorkIs
<1>4. ASSUME NEW w \in 1 .. 2, NEW p \in AllWork(source), x \in Makes(w, p)
      PROVE  Expects(x)
  <2>1. CASE \E d \in Declared : p \in WorkOf(d)
    BY <1>1, <1>4, <2>1 DEF Expects
  <2>2. CASE \E i \in AtTop : p = <<StatementIds[Number(source, i)], source[i]>>
    BY <1>2, <1>4, <2>2
  <2>3. CASE \E i \in AtTop : \E u \in UsesIn(Nested)[source[i]] : p = <<StatementIds[Number(source, i)], u>>
    BY <1>2, <1>4, <2>3 DEF Expects
  <2> QED
    BY <1>3, <1>4, <2>1, <2>2, <2>3
<1>5. ASSUME NEW d \in Declared, \E u \in InsideOf(d, Nested) : x \in UseEdges(d.id, u)
      PROVE  \E w \in 1 .. 2 : \E p \in AllWork(source) : x \in Makes(w, p)
  BY <1>1, <1>3, <1>5
<1>6. ASSUME NEW i \in AtTop, NEW u \in UsesIn(Nested)[source[i]],
             x \in UseEdges(StatementIds[Number(source, i)], u)
      PROVE  \E w \in 1 .. 2 : \E p \in AllWork(source) : x \in Makes(w, p)
  BY <1>2, <1>3, <1>6
<1> QED
  BY <1>4, <1>5, <1>6, ExpectedIs DEF Expects

LEMMA InvIsInnermost == BuilderInv => OwnersAreInnermost
<1> SUFFICES ASSUME BuilderInv, Refined PROVE Range(edges) = Expected
  BY DEF OwnersAreInnermost
<1>1. source \in Seq(Statement) /\ walk = 2 /\ todo = <<>>
  BY SourceAssumption DEF BuilderInv, Refined
<1>2. \A x \in Range(edges) : \E w \in 1 .. 2 : \E p \in AllWork(source) : x \in Makes(w, p)
  BY <1>1 DEF BuilderInv, SoundInv, Walks
<1>3. \A p \in AllWork(source) : \A w \in 1 .. 2 : Makes(w, p) \subseteq Range(edges)
  BY <1>1, NothingLeft DEF BuilderInv, Done
<1> QED
  BY <1>1, <1>2, <1>3, EdgesAreExpected

-----------------------------------------------------------------------------
(***************************************************************************)
(* Local bindings: what is evaluated on behalf of a declaration is read by *)
(* it, or by a local binding in it.                                        *)
(***************************************************************************)
LEMMA KindsAre == "Let" \in Nested /\ "Let" \notin Deferred /\ Nested = Deferred \cup {"Let"}
BY DEF Nested, Deferred

LEMMA ApartIs ==
    ASSUME NEW part \in Part
    PROVE  /\ Apart(part, Deferred) => Apart(part, Nested)
           /\ Apart(part, Nested) /\ ~Apart(part, Deferred) => Declares(part) /\ part.kind = "Let"
           /\ Declares(part) /\ part.kind = "Let" => ~Apart(part, Deferred)
BY KindsAre DEF Apart, Declares

\* UsesIn and LetsIn, seen from a part and from what is inside it.
LEMMA UsesInside ==
    ASSUME NEW kinds, NEW part \in Part
    PROVE  /\ part.is \in {"literal", "access"} => part \in UsesIn(kinds)[part]
           /\ ~Apart(part, kinds) => \A q \in Inner(part) : UsesIn(kinds)[q] \subseteq UsesIn(kinds)[part]
           /\ \A u \in UsesIn(kinds)[part] :
                \/ u = part /\ part.is \in {"literal", "access"}
                \/ ~Apart(part, kinds) /\ \E q \in Inner(part) : u \in UsesIn(kinds)[q]
BY UsesAre

LEMMA LetsInside ==
    ASSUME NEW part \in Part
    PROVE  /\ Declares(part) /\ part.kind = "Let" => part \in LetsIn[part]
           /\ ~Apart(part, Deferred) => \A q \in Inner(part) : LetsIn[q] \subseteq LetsIn[part]
           /\ \A l \in LetsIn[part] :
                \/ l = part /\ Declares(part) /\ part.kind = "Let"
                \/ ~Apart(part, Deferred) /\ \E q \in Inner(part) : l \in LetsIn[q]
BY LetsAre

LEMMA DeclarationsInside ==
    ASSUME NEW part \in Part
    PROVE  /\ Declares(part) => part \in DeclarationsIn[part]
           /\ ~(part.is = "declaration" /\ ~Declares(part)) =>
                \A q \in Inner(part) : DeclarationsIn[q] \subseteq DeclarationsIn[part]
           /\ \A d \in DeclarationsIn[part] :
                \/ d = part /\ Declares(part)
                \/ /\ ~(part.is = "declaration" /\ ~Declares(part))
                   /\ \E q \in Inner(part) : d \in DeclarationsIn[q]
BY DeclarationsAre

\* The fewer kinds keep their uses to themselves, the more belong to what is around:
\* what belongs to a declaration is evaluated on its behalf.
LEMMA FewerApart ==
    ASSUME NEW kinds, NEW fewer \in SUBSET kinds, NEW part \in Part
    PROVE  UsesIn(kinds)[part] \subseteq UsesIn(fewer)[part]
<1> DEFINE S == {p \in Part : UsesIn(kinds)[p] \subseteq UsesIn(fewer)[p]}
<1>1. ASSUME NEW p \in Part, Inner(p) \subseteq S PROVE p \in S
  <2>1. ASSUME NEW u \in UsesIn(kinds)[p] PROVE u \in UsesIn(fewer)[p]
    <3>1. CASE u = p /\ p.is \in {"literal", "access"}
      BY <3>1, UsesInside
    <3>2. CASE ~Apart(p, kinds) /\ \E q \in Inner(p) : u \in UsesIn(kinds)[q]
      <4>1. PICK q \in Inner(p) : u \in UsesIn(kinds)[q]
        BY <3>2
      <4>2. u \in UsesIn(fewer)[q]
        BY <1>1, <4>1
      <4>3. ~Apart(p, fewer)
        BY <3>2 DEF Apart
      <4> QED
        BY <4>2, <4>3, UsesInside
    <3> QED
      BY <2>1, <3>1, <3>2, UsesInside
  <2> QED
    BY <2>1
<1> HIDE DEF S
<1>2. Part \subseteq S
  BY <1>1, PartInduction
<1> QED
  BY <1>2 DEF S

\* What is evaluated on behalf of a declaration belongs to it or to a binding in it.
LEMMA DeferredIsNested ==
    ASSUME NEW part \in Part
    PROVE  \A u \in UsesIn(Deferred)[part] :
             u \in UsesIn(Nested)[part] \/ \E l \in LetsIn[part] : u \in InsideOf(l, Nested)
<1> DEFINE Owns(p, u) == u \in UsesIn(Nested)[p] \/ \E l \in LetsIn[p] : u \in InsideOf(l, Nested)
           S == {p \in Part : \A u \in UsesIn(Deferred)[p] : Owns(p, u)}
<1>1. ASSUME NEW p \in Part, Inner(p) \subseteq S PROVE p \in S
  <2>1. ASSUME NEW u \in UsesIn(Deferred)[p] PROVE Owns(p, u)
    <3>1. CASE u = p /\ p.is \in {"literal", "access"}
      BY <3>1, UsesInside
    <3>2. CASE ~Apart(p, Deferred) /\ \E q \in Inner(p) : u \in UsesIn(Deferred)[q]
      <4>1. PICK q \in Inner(p) : u \in UsesIn(Deferred)[q]
        BY <3>2
      <4>2. Owns(q, u)
        BY <1>1, <4>1
      <4>3. CASE \E l \in LetsIn[q] : u \in InsideOf(l, Nested)
        BY <3>2, <4>1, <4>3, LetsInside
      <4>4. CASE u \in UsesIn(Nested)[q] /\ ~Apart(p, Nested)
        BY <4>1, <4>4, UsesInside
      <4>5. CASE u \in UsesIn(Nested)[q] /\ Apart(p, Nested)
        <5>1. p \in LetsIn[p]
          BY <3>2, <4>5, ApartIs, LetsInside
        <5>2. u \in InsideOf(p, Nested)
          BY <4>1, <4>5 DEF InsideOf
        <5> QED
          BY <5>1, <5>2
      <4> QED
        BY <4>2, <4>3, <4>4, <4>5
    <3> QED
      BY <3>1, <3>2, UsesInside
  <2> HIDE DEF Owns
  <2> QED
    BY <2>1
<1> HIDE DEF S
<1>2. Part \subseteq S
  BY <1>1, PartInduction
<1> QED
  BY <1>2 DEF S

\* A local binding is a smaller declaration, and evaluated with what is around it.
LEMMA LetsAreInside ==
    ASSUME NEW part \in Part
    PROVE  \A l \in LetsIn[part] :
             /\ l \in DeclarationsIn[part] /\ l \in Part
             /\ Size[l] <= Size[part]
             /\ InsideOf(l, Deferred) \subseteq UsesIn(Deferred)[part]
<1> DEFINE Within1(p, l) ==
             /\ l \in DeclarationsIn[p] /\ l \in Part
             /\ Size[l] <= Size[p]
             /\ InsideOf(l, Deferred) \subseteq UsesIn(Deferred)[p]
           S == {p \in Part : \A l \in LetsIn[p] : Within1(p, l)}
<1>1. ASSUME NEW p \in Part, Inner(p) \subseteq S PROVE p \in S
  <2>1. ASSUME NEW l \in LetsIn[p] PROVE Within1(p, l)
    <3>1. CASE l = p /\ Declares(p) /\ p.kind = "Let"
      <4>1. ~Apart(p, Deferred)
        BY <3>1, ApartIs
      <4>2. InsideOf(p, Deferred) \subseteq UsesIn(Deferred)[p]
        BY <4>1, UsesInside DEF InsideOf
      <4>3. p \in DeclarationsIn[p]
        BY <3>1, DeclarationsInside
      <4>4. Size[p] <= Size[p]
        BY SizeIsNumber
      <4> QED
        BY <3>1, <4>2, <4>3, <4>4
    <3>2. CASE ~Apart(p, Deferred) /\ \E q \in Inner(p) : l \in LetsIn[q]
      <4>1. PICK q \in Inner(p) : l \in LetsIn[q]
        BY <3>2
      <4>2. Within1(q, l)
        BY <1>1, <4>1
      <4>3. q \in Part /\ Size[q] < Size[p]
        BY <4>1, InnerIsSmaller
      <4>4. Size[l] <= Size[p]
        <5>1. Size[l] \in Nat /\ Size[q] \in Nat /\ Size[p] \in Nat
          BY <4>2, <4>3, SizeIsNumber
        <5> QED
          BY <4>2, <4>3, <5>1
      <4>5. UsesIn(Deferred)[q] \subseteq UsesIn(Deferred)[p]
        BY <3>2, <4>1, UsesInside
      <4>6. DeclarationsIn[q] \subseteq DeclarationsIn[p]
        BY <3>2, <4>1, DeclarationsInside DEF Apart
      <4> QED
        BY <4>2, <4>4, <4>5, <4>6
    <3> QED
      BY <2>1, <3>1, <3>2, LetsInside
  <2> HIDE DEF Within1
  <2> QED
    BY <2>1
<1> HIDE DEF S
<1>2. Part \subseteq S
  BY <1>1, PartInduction
<1> QED
  BY <1>2 DEF S

\* Declarations inside a declaration are declared with it.
LEMMA DeclarationsInsideDeclarations ==
    ASSUME NEW part \in Part
    PROVE  \A d \in DeclarationsIn[part] : \A q \in Inner(d) : DeclarationsIn[q] \subseteq DeclarationsIn[part]
<1> DEFINE Holds(p, d) == \A q \in Inner(d) : DeclarationsIn[q] \subseteq DeclarationsIn[p]
           S == {p \in Part : \A d \in DeclarationsIn[p] : Holds(p, d)}
<1>1. ASSUME NEW p \in Part, Inner(p) \subseteq S PROVE p \in S
  <2>1. ASSUME NEW d \in DeclarationsIn[p] PROVE Holds(p, d)
    <3>1. CASE d = p /\ Declares(p)
      BY <3>1, DeclarationsInside
    <3>2. CASE /\ ~(p.is = "declaration" /\ ~Declares(p))
               /\ \E q \in Inner(p) : d \in DeclarationsIn[q]
      <4>1. PICK q \in Inner(p) : d \in DeclarationsIn[q]
        BY <3>2
      <4>2. Holds(q, d)
        BY <1>1, <4>1
      <4>3. DeclarationsIn[q] \subseteq DeclarationsIn[p]
        BY <3>2, <4>1, DeclarationsInside
      <4> QED
        BY <4>2, <4>3
    <3> QED
      BY <2>1, <3>1, <3>2, DeclarationsInside
  <2> HIDE DEF Holds
  <2> QED
    BY <2>1
<1> HIDE DEF S
<1>2. Part \subseteq S
  BY <1>1, PartInduction
<1> QED
  BY <1>2 DEF S

LEMMA LocalLetsAre ==
    ASSUME source \in Seq(Statement), NEW d \in Declared
    PROVE  /\ d \in Part
           /\ \A l \in LocalLets(d) :
                /\ l \in Declared /\ l \in Part
                /\ Size[l] < Size[d]
                /\ InsideOf(l, Deferred) \subseteq InsideOf(d, Deferred)
           /\ \A u \in InsideOf(d, Deferred) :
                u \in InsideOf(d, Nested) \/ \E l \in LocalLets(d) : u \in InsideOf(l, Nested)
           /\ InsideOf(d, Nested) \subseteq InsideOf(d, Deferred)
           /\ InsideOf(d, Nested) \subseteq InsideOf(d, {})
<1>1. PICK i \in 1 .. Len(source) : d \in DeclarationsIn[source[i]]
  BY DeclaredIs
<1>2. d \in Part /\ source[i] \in Part
  BY DeclaredIs DEF Part
<1>3. \A q \in Inner(d) : q \in Part /\ Size[q] < Size[d] /\ DeclarationsIn[q] \subseteq DeclarationsIn[source[i]]
  BY <1>1, <1>2, InnerIsSmaller, DeclarationsInsideDeclarations
<1>4. ASSUME NEW l \in LocalLets(d)
      PROVE  /\ l \in Declared /\ l \in Part /\ Size[l] < Size[d]
             /\ InsideOf(l, Deferred) \subseteq InsideOf(d, Deferred)
  <2>1. PICK q \in Inner(d) : l \in LetsIn[q]
    BY DEF LocalLets
  <2>2. /\ l \in DeclarationsIn[q] /\ l \in Part /\ Size[l] <= Size[q]
        /\ InsideOf(l, Deferred) \subseteq UsesIn(Deferred)[q]
    BY <1>3, <2>1, LetsAreInside
  <2>3. l \in Declared
    BY <1>3, <2>1, <2>2, DeclaredIs
  <2>4. Size[l] < Size[d]
    <3>1. Size[l] \in Nat /\ Size[q] \in Nat /\ Size[d] \in Nat
      BY <1>2, <1>3, <2>1, <2>2, SizeIsNumber
    <3> QED
      BY <1>3, <2>1, <2>2, <3>1
  <2>5. UsesIn(Deferred)[q] \subseteq InsideOf(d, Deferred)
    BY <2>1 DEF InsideOf
  <2> QED
    BY <2>2, <2>3, <2>4, <2>5
<1>5. ASSUME NEW u \in InsideOf(d, Deferred)
      PROVE  u \in InsideOf(d, Nested) \/ \E l \in LocalLets(d) : u \in InsideOf(l, Nested)
  <2>1. PICK q \in Inner(d) : u \in UsesIn(Deferred)[q]
    BY DEF InsideOf
  <2>2. u \in UsesIn(Nested)[q] \/ \E l \in LetsIn[q] : u \in InsideOf(l, Nested)
    BY <1>3, <2>1, DeferredIsNested
  <2>3. u \in UsesIn(Nested)[q] => u \in InsideOf(d, Nested)
    BY <2>1 DEF InsideOf
  <2>4. LetsIn[q] \subseteq LocalLets(d)
    BY <2>1 DEF LocalLets
  <2> QED
    BY <2>2, <2>3, <2>4
<1>6. \A q \in Inner(d) : /\ UsesIn(Nested)[q] \subseteq UsesIn(Deferred)[q]
                          /\ UsesIn(Nested)[q] \subseteq UsesIn({})[q]
  BY <1>3, KindsAre, FewerApart
<1>7. InsideOf(d, Nested) \subseteq InsideOf(d, Deferred) /\ InsideOf(d, Nested) \subseteq InsideOf(d, {})
  BY <1>6 DEF InsideOf
<1> QED
  BY <1>2, <1>4, <1>5, <1>7

\* u needs the value of t.
Serves(u, t) == t = u.res \/ t \in Called(u)

LEMMA DemandedIs ==
    ASSUME NEW d, NEW t
    PROVE  t \in Demanded(d) <=> \E u \in InsideOf(d, Deferred) : Serves(u, t)
BY DEF Demanded, Serves

LEMMA UseIsEdge ==
    ASSUME source \in Seq(Statement), Range(edges) = Expected,
           NEW c \in Declared, NEW u \in InsideOf(c, Nested),
           NEW t \in Dependable, Serves(u, t)
    PROVE  \E e \in Range(edges) : e.source = c.id /\ e.target = t
<1>1. \A x \in UseEdges(c.id, u) : x \in Range(edges)
  BY ExpectedIs DEF Expects
<1>2. \E x \in UseEdges(c.id, u) : x.source = c.id /\ x.target = t
  <2>1. CASE t = u.res
    <3>1. [source |-> c.id, target |-> t, kind |-> CallOr(u), span |-> u.span] \in UseEdges(c.id, u)
      BY <2>1 DEF UseEdges
    <3> QED
      BY <3>1
  <2>2. CASE t \in Called(u)
    <3>1. PICK m \in u.method : t = m.implementation /\ m.implementation # Elsewhere
      BY <2>2 DEF Called
    <3>2. [source |-> c.id, target |-> t, kind |-> CallOr(u), span |-> u.span] \in UseEdges(c.id, u)
      BY <3>1 DEF UseEdges
    <3> QED
      BY <3>2
  <2> QED
    BY <2>1, <2>2 DEF Serves
<1> QED
  BY <1>1, <1>2

\* Of the local bindings that need something in S, the largest is read by the
\* declaration itself.
LEMMA LargestLet ==
    ASSUME source \in Seq(Statement), LocalsAreRead, NEW d \in Declared, NEW S,
           \E l \in LocalLets(d) : Demanded(l) \cap S # {}
    PROVE  \E l \in LocalLets(d) : /\ Demanded(l) \cap S # {}
                                   /\ \E u \in InsideOf(d, Nested) : l.id = u.res
<1> DEFINE L == {l \in LocalLets(d) : Demanded(l) \cap S # {}}
           Depths == {Size[d] - Size[l] : l \in L}
<1>1. /\ d \in Part
      /\ \A l \in LocalLets(d) : l \in Declared /\ l \in Part /\ Size[l] < Size[d]
  BY LocalLetsAre
<1>2. Depths \subseteq Nat /\ Depths # {}
  <2>1. \A l \in LocalLets(d) : Size[d] - Size[l] \in Nat
    BY <1>1, SizeIsNumber
  <2> QED
    BY <2>1
<1>3. PICK n \in Depths : \A m \in Depths : n <= m
  <2> HIDE DEF Depths
  <2> QED
    BY <1>2, LeastExists
<1>4. PICK l \in L : n = Size[d] - Size[l]
  BY <1>3
<1>5. \A c \in L : Size[c] <= Size[l]
  <2>1. ASSUME NEW c \in L PROVE Size[c] <= Size[l]
    <3>1. Size[d] - Size[l] <= Size[d] - Size[c]
      BY <1>3, <1>4
    <3>2. Size[d] \in Nat /\ Size[l] \in Nat /\ Size[c] \in Nat
      BY <1>1, SizeIsNumber
    <3> QED
      BY <3>1, <3>2
  <2> QED
    BY <2>1
<1>6. PICK c \in {d} \cup LocalLets(d) : l \in LocalLets(c) /\ l.id \in {u.res : u \in InsideOf(c, Nested)}
  BY DEF LocalsAreRead
<1>7. c \notin LocalLets(d)
  <2> SUFFICES ASSUME c \in LocalLets(d) PROVE FALSE
    OBVIOUS
  <2>1. c \in Declared /\ c \in Part
    BY <1>1
  <2>2. Size[l] < Size[c] /\ InsideOf(l, Deferred) \subseteq InsideOf(c, Deferred)
    BY <1>6, <2>1, LocalLetsAre
  <2>3. Demanded(l) \subseteq Demanded(c)
    BY <2>2, DemandedIs
  <2>4. c \in L
    BY <2>3
  <2>5. Size[c] <= Size[l]
    BY <1>5, <2>4
  <2>6. Size[l] \in Nat /\ Size[c] \in Nat
    BY <1>1, <2>1, SizeIsNumber
  <2> QED
    BY <2>2, <2>5, <2>6
<1>8. c = d
  BY <1>6, <1>7
<1> QED
  BY <1>4, <1>6, <1>8

\* What a declaration needs in S, it has an edge to, or to a binding that needs
\* something in S.
LEMMA NeedsAreEdges ==
    ASSUME source \in Seq(Statement), Range(edges) = Expected, LocalsAreRead,
           NEW S \in SUBSET Dependable, NEW d \in Declared, Demanded(d) \cap S # {}
    PROVE  \E e \in Range(edges) :
             /\ e.source = d.id
             /\ (e.target \in S \/ \E c \in Declared : c.id = e.target /\ Demanded(c) \cap S # {})
<1>1. CASE \E l \in LocalLets(d) : Demanded(l) \cap S # {}
  <2>1. PICK l \in LocalLets(d) : /\ Demanded(l) \cap S # {}
                                  /\ \E u \in InsideOf(d, Nested) : l.id = u.res
    BY <1>1, LargestLet
  <2>2. l \in Declared
    BY LocalLetsAre
  <2>3. l.id \in Dependable
    <3>1. IsDeclared(l)
      BY <2>2, DeclaredIs
    <3> QED
      BY <3>1, SyntaxAssumption DEF IsDeclared, Declares, IsStatement
  <2>4. PICK u \in InsideOf(d, Nested) : Serves(u, l.id)
    BY <2>1 DEF Serves
  <2>5. \E e \in Range(edges) : e.source = d.id /\ e.target = l.id
    BY <2>3, <2>4, UseIsEdge
  <2> QED
    BY <2>1, <2>2, <2>5
<1>2. CASE \A l \in LocalLets(d) : Demanded(l) \cap S = {}
  <2>1. PICK t \in S : t \in Demanded(d)
    OBVIOUS
  <2>2. PICK u \in InsideOf(d, Deferred) : Serves(u, t)
    BY <2>1, DemandedIs
  <2>3. u \in InsideOf(d, Nested)
    <3>1. ASSUME NEW l \in LocalLets(d), u \in InsideOf(l, Nested) PROVE FALSE
      <4>1. l \in Declared
        BY LocalLetsAre
      <4>2. u \in InsideOf(l, Deferred)
        BY <3>1, <4>1, LocalLetsAre
      <4>3. t \in Demanded(l)
        BY <2>2, <4>2, DemandedIs
      <4> QED
        BY <1>2, <4>3
    <3> QED
      BY <3>1, LocalLetsAre
  <2>4. \E e \in Range(edges) : e.source = d.id /\ e.target = t
    BY <2>2, <2>3, UseIsEdge
  <2> QED
    BY <2>4
<1> QED
  BY <1>1, <1>2

LEMMA CyclesAreEdges ==
    ASSUME source \in Seq(Statement), Range(edges) = Expected, LocalsAreRead,
           NEW ids, ids = {d.id : d \in Declared},
           NEW targets, targets = [id \in ids |-> {e.target : e \in {x \in Range(edges) : x.source = id}}],
           NEW demand, demand = [id \in ids |-> UNION {Demanded(d) : d \in {c \in Declared : c.id = id}}],
           Acyclic(ids, targets)
    PROVE  Acyclic(ids, demand)
<1> SUFFICES ASSUME NEW S \in (SUBSET ids) \ {{}}, \A id \in S : demand[id] \cap S # {}
             PROVE  FALSE
  BY DEF Acyclic
<1> DEFINE W == {id \in ids : demand[id] \cap S # {}}
<1>1. \A id \in ids : id \in W <=> \E c \in Declared : c.id = id /\ Demanded(c) \cap S # {}
  <2>1. ASSUME NEW id \in ids
        PROVE  id \in W <=> \E c \in Declared : c.id = id /\ Demanded(c) \cap S # {}
    <3>1. demand[id] = UNION {Demanded(d) : d \in {c \in Declared : c.id = id}}
      OBVIOUS
    <3>2. \A t : t \in demand[id] <=> \E c \in Declared : c.id = id /\ t \in Demanded(c)
      BY <3>1
    <3>3. id \in W <=> \E t \in S : t \in demand[id]
      OBVIOUS
    <3> HIDE DEF W
    <3> QED
      BY <3>2, <3>3
  <2> QED
    BY <2>1
<1>2. S \subseteq W /\ W \in (SUBSET ids) \ {{}}
  OBVIOUS
<1> HIDE DEF W
<1>3. S \in SUBSET Dependable
  <2>1. \A d \in Declared : d.id \in Dependable
    <3>1. \A d \in Declared : IsDeclared(d)
      BY DeclaredIs
    <3> QED
      BY <3>1, SyntaxAssumption DEF IsDeclared, Declares, IsStatement
  <2> QED
    BY <2>1
<1>4. ASSUME NEW id \in W PROVE targets[id] \cap W # {}
  <2>1. PICK d \in Declared : d.id = id /\ Demanded(d) \cap S # {}
    BY <1>1, <1>2
  <2>2. PICK e \in Range(edges) :
             /\ e.source = d.id
             /\ (e.target \in S \/ \E c \in Declared : c.id = e.target /\ Demanded(c) \cap S # {})
    BY <1>3, <2>1, NeedsAreEdges
  <2>3. e.target \in W
    <3>1. \A c \in Declared : c.id \in ids
      OBVIOUS
    <3> QED
      BY <1>1, <1>2, <2>2, <3>1
  <2>4. e.target \in targets[id]
    <3>1. id \in ids
      BY <1>2
    <3>2. targets[id] = {x.target : x \in {y \in Range(edges) : y.source = id}}
      BY <3>1
    <3> QED
      BY <2>1, <2>2, <3>2
  <2> QED
    BY <2>3, <2>4
<1> QED
  BY <1>2, <1>4 DEF Acyclic

LEMMA InvHasNoCycle == BuilderInv => NoCycleInEvaluation
<1> SUFFICES ASSUME BuilderInv, Refined, LocalsAreRead
             PROVE  LET ids     == {d.id : d \in Declared}
                        targets == [id \in ids |-> {e.target : e \in {x \in Range(edges) : x.source = id}}]
                        demand  == [id \in ids |-> UNION {Demanded(d) : d \in {c \in Declared : c.id = id}}]
                    IN  Acyclic(ids, targets) => Acyclic(ids, demand)
  BY DEF NoCycleInEvaluation
<1>1. source \in Seq(Statement)
  BY SourceAssumption DEF BuilderInv
<1>2. Range(edges) = Expected
  BY InvIsInnermost DEF OwnersAreInnermost
<1> QED
  BY <1>1, <1>2, CyclesAreEdges

-----------------------------------------------------------------------------
\* Whatever the source, and however its declarations and blocks are nested: behind
\* the second walk the edges are those that belong to the innermost declaration or
\* statement around each reference, and all of them.  (builder.rs, with_owner)
THEOREM OwnersAreAlwaysInnermost == BuilderSpec => []OwnersAreInnermost
<1>1. BuilderInv /\ [BuilderNext]_allVars => BuilderInv'
  BY BuilderStep
<1> QED
  BY <1>1, BuilderInitInv, InvIsInnermost, PTL DEF BuilderSpec

\* A third walk finds all it enters in place: it changes no table.
\* (builder.rs, refine_dependency_graph; graph.rs, insert_node, insert_edge)
THEOREM RefiningIsIdempotent == BuilderSpec => RefiningAgainChangesNothing
<1>1. BuilderInv /\ [BuilderNext]_allVars => BuilderInv'
  BY BuilderStep
<1>2. BuilderInv /\ [BuilderNext]_allVars =>
        [walk = Walks /\ todo # <<>> => UNCHANGED <<nodes, indices, edges, outgoing, incoming>>]_allVars
  <2> SUFFICES ASSUME BuilderInv, BuilderNext, walk = Walks, todo # <<>>
               PROVE  UNCHANGED <<nodes, indices, edges, outgoing, incoming>>
    OBVIOUS
  <2>1. WalkStep /\ ~StartWalk
    BY DEF BuilderNext, OtherCall, ClientMerge, Built, StartWalk
  <2>2. tables' = tables
    BY <2>1, WalkMoves DEF Moves
  <2> QED
    BY <2>2 DEF tables
<1> QED
  BY <1>1, <1>2, BuilderInitInv, PTL DEF BuilderSpec, RefiningAgainChangesNothing

\* The theorems of GraphTable hold of the walks and of what a client merges behind
\* them: the five tables say the same of the graph.  (graph.rs, insert_edge)
THEOREM TablesStayExactInWalks == BuilderSpec => []TablesExact
<1>1. BuilderInv /\ [BuilderNext]_allVars => BuilderInv'
  BY BuilderStep
<1>2. BuilderInv => TablesExact
  BY InvIsExact DEF BuilderInv
<1> QED
  BY <1>1, <1>2, BuilderInitInv, PTL DEF BuilderSpec

\* A node is External exactly as long as no walk and no merge has defined it.
\* (graph.rs, insert_node)
THEOREM ReferencesAwaitDefinitionsInWalks == BuilderSpec => []ExternalUntilDefined
<1>1. BuilderInv /\ [BuilderNext]_allVars => BuilderInv'
  BY BuilderStep
<1>2. BuilderInv => ExternalUntilDefined
  BY DEF BuilderInv, TableInv, Told, ExternalUntilDefined, tables
<1> QED
  BY <1>1, <1>2, BuilderInitInv, PTL DEF BuilderSpec

\* No visit and no merge changes a definition, or the place of a node or an edge.
\* (graph.rs, insert_node)
THEOREM DefinitionsAreKeptInWalks == BuilderSpec => DefinitionsStay
<1>1. BuilderInv /\ [BuilderNext]_allVars => BuilderInv'
  BY BuilderStep
<1>2. BuilderInv /\ [BuilderNext]_allVars =>
        [/\ \A i \in 1 .. Len(nodes) :
               /\ nodes'[i].id = nodes[i].id
               /\ nodes[i].kind # "External" => nodes'[i] = nodes[i]
         /\ \A e \in 1 .. Len(edges) : edges'[e] = edges[e]]_vars
  BY BuilderStep DEF Keeps, tables
<1> QED
  BY <1>1, <1>2, BuilderInitInv, PTL DEF BuilderSpec, DefinitionsStay

\* Where every local binding is read, a module whose graph has no cycle has no
\* declaration that is needed for its own value, at any depth of local bindings.
\* (builder.rs, record_literal, record_typed_member; evaluator.rs, eval_symbol)
THEOREM AcyclicGraphsEvaluate == BuilderSpec => []NoCycleInEvaluation
<1>1. BuilderInv /\ [BuilderNext]_allVars => BuilderInv'
  BY BuilderStep
<1> QED
  BY <1>1, BuilderInitInv, InvHasNoCycle, PTL DEF BuilderSpec
=============================================================================
