------------------------------ MODULE Encoding ------------------------------
(***************************************************************************)
(* What the encoder (light-nix-solver/src/solver.rs) asserts to Z3 about a *)
(* lowered module, as a predicate on candidate assignments m:              *)
(*   m.tunables   the edited tunable bindings, with their new values,      *)
(*   m.outputs    the edited outputs, with their new values or Absent,     *)
(*   m.fresh      the value of the fresh constant of an Unreachable,       *)
(*   m.answers    those of the applications of opaque closures,            *)
(*   m.bound      parameter_bindings: closure parameter -> value.          *)
(* Everything else of a model of the assertions is determined by these.    *)
(* Integers are unbounded, as Z3's are.  An optional is <<>> or <<v>>, a   *)
(* list a sequence of slots that are present or not, a set a subset of a   *)
(* finite universe.  Lists are not empty when written, are neither         *)
(* unreachable nor read from an output, and what an opaque closure is      *)
(* applied to has not passed one before.                                   *)
(***************************************************************************)
EXTENDS Lowering

LOCAL INSTANCE SequencesExt

CONSTANTS
    TunablePath,   \* outputs whose mutation policy is tunable
    ListPath,      \* outputs that are lists
    Observed       \* integers the request names: values of outputs, goals

\* An inline closure is encoded for every element it is applied to, an opaque
\* one not at all: each of its answers is a fresh constant.
Applies(e) == e.op \in {"filter", "map"}
Expands(e) == Applies(e) /\ e.argument.mode = "inline"

Operands(e) ==
    CASE IsBinary(e)     -> {e.left, e.right}
      [] e.op \in {"not", "some", "is_null", "optional_value"} -> {e.operand}
      [] e.op = "elvis"  -> {e.optional, e.fallback}
      [] e.op = "choice" -> {e.condition, e.then, e.otherwise}
      [] e.op = "call"   -> {e.argument}
      [] IsArray(e)      -> ToSet(e.elements)
      [] e.op = "contains" -> {e.receiver, e.argument}
      [] Applies(e)      -> {e.receiver}
      [] OTHER           -> {}

RECURSIVE Subexpressions(_)
Subexpressions(e) ==
    {e} \cup UNION {Subexpressions(o) : o \in Operands(e)}
        \cup (IF Expands(e) THEN Subexpressions(e.argument.body) ELSE {})

\* The parameters of closures an expression uses and does not bind.
RECURSIVE Free(_)
Free(e) ==
    IF e.op = "parameter" THEN {e.symbol}
    ELSE UNION {Free(o) : o \in Operands(e)}
           \cup (IF Expands(e) THEN Free(e.argument.body) \ {e.argument.parameter} ELSE {})

CaseExpressions(path) == UNION {{c.guard, c.value} : c \in ToSet(cases[path])}

\* All that is encoded: initial expressions, cases of outputs, constraints.
\* A binding none of them uses is not.
Roots ==
    {initial[x] : x \in DOMAIN initial} \cup constraints
        \cup UNION {CaseExpressions(path) : path \in DOMAIN cases}
Encoded == UNION {Subexpressions(e) : e \in Roots}

\* The variables and outputs an expression refers to, and the cycles among
\* them: encode_variable and encode_output fail on one.
RefersTo(e) == {i \in Subexpressions(e) : i.op \in {"variable", "read"}}

Definitions(node) ==
    IF node.op = "variable" THEN RefersTo(initial[node.symbol])
    ELSE UNION {RefersTo(e) : e \in CaseExpressions(node.path)}

RECURSIVE Reaches(_, _)
Reaches(from, seen) ==
    LET new == (UNION {Definitions(n) : n \in from}) \ seen
    IN  IF new = {} THEN seen ELSE Reaches(new, seen \cup new)

\* A parameter is known inside its closure only: a constraint that a body
\* leaves behind, as a throw does under a condition on the parameter, has none.
Encodable ==
    /\ \A e \in Encoded : e.op # "call"
    /\ \A e \in Roots : Free(e) = {}
    /\ \A e \in Encoded : e.op \in {"variable", "read"} => e \notin Reaches({e}, {})

(***************************************************************************)
(* Values under an assignment.  ValueIn is the value of the Z3 term an     *)
(* expression is encoded to: total, with the default value for an absent   *)
(* output; what makes it meaningful is asserted separately.                *)
(***************************************************************************)
DefaultValue == 0
Quotient(l, r) == IF r = 0 THEN DefaultValue ELSE l \div r

Unwrapped(v) == IF v = <<>> THEN DefaultValue ELSE v[1]

\* What Set of integers may have as members: collect_universes.
Universe ==
    Observed \cup ({e.value : e \in {i \in Encoded \cup UNION {Subexpressions(l) : l \in ToSet(lowered)} :
                                      i.op = "const"}} \ {Yes, No})

Slot(present, v) == [present |-> present, value |-> v]
NoSlot == Slot(No, DefaultValue)

\* Whether an expression is a list, by its type.
RECURSIVE OfList(_)
OfList(e) ==
    CASE e.op = "list"   -> TRUE
      [] Applies(e)      -> OfList(e.receiver)
      [] e.op = "choice" -> OfList(e.then) \/ OfList(e.otherwise)
      [] OTHER           -> FALSE

\* list_eq: the suffixes from i and j on are equal, slots that are not present
\* left out.
ListsEqual(l, r) ==
    LET equal[i \in 1..(Len(l) + 1), j \in 1..(Len(r) + 1)] ==
          \/ i > Len(l) /\ j > Len(r)
          \/ i <= Len(l) /\ l[i].present = No /\ equal[i + 1, j]
          \/ j <= Len(r) /\ r[j].present = No /\ equal[i, j + 1]
          \/ /\ i <= Len(l) /\ j <= Len(r)
             /\ l[i].present = Yes /\ r[j].present = Yes
             /\ l[i].value = r[j].value
             /\ equal[i + 1, j + 1]
    IN  equal[1, 1]

\* value_ite of lists: slot by slot, up to the length of the longer one.
ListChoice(c, l, r) ==
    LET slot(s, k) == IF k \in DOMAIN s THEN s[k] ELSE NoSlot
        longer == IF Len(l) > Len(r) THEN DOMAIN l ELSE DOMAIN r
    IN  [k \in longer |-> IF c = Yes THEN slot(l, k) ELSE slot(r, k)]

\* encode_filter and encode_map on the slots of a list, given the answers.
Filtered(slots, answer) ==
    [k \in DOMAIN slots |->
       [slots[k] EXCEPT !.present = IF answer[k] = Yes THEN @ ELSE No]]
Mapped(slots, answer) == [k \in DOMAIN slots |-> [slots[k] EXCEPT !.value = answer[k]]]

RECURSIVE ValueIn(_, _)

\* What a closure is applied to: every slot of a list, every candidate member of
\* a set, present or not; and its answers.
Arguments(receiver) ==
    IF "list" \in DOMAIN receiver
    THEN [k \in DOMAIN receiver.list |-> receiver.list[k].value]
    ELSE [v \in Universe |-> v]

Applied(closure, v, m) == [m EXCEPT !.bound = Put(@, closure.parameter, v)]

Answers(e, receiver, m) ==
    LET arguments == Arguments(receiver)
    IN  [k \in DOMAIN arguments |->
           IF Expands(e) THEN ValueIn(e.argument.body, Applied(e.argument, arguments[k], m))
           ELSE m.answers[<<e, k>>]]

\* encode_filter and encode_map.
Application(e, receiver, m) ==
    LET answer == Answers(e, receiver, m)
        chosen == {v \in receiver.set : answer[v] = Yes}
    IN  CASE "list" \in DOMAIN receiver ->
               ListValue(IF e.op = "filter" THEN Filtered(receiver.list, answer)
                         ELSE Mapped(receiver.list, answer))
          [] e.op = "filter" -> SetValue(chosen)
          [] OTHER           -> SetValue({answer[v] : v \in receiver.set} \cap Universe)

MembersIn(receiver) ==
    IF "list" \in DOMAIN receiver
    THEN {slot.value : slot \in {l \in ToSet(receiver.list) : l.present = Yes}}
    ELSE receiver.set

\* The guards exclude each other (Exclusive), so the first that holds decides.
Derived(path, m) ==
    LET holding == {k \in DOMAIN cases[path] : ValueIn(cases[path][k].guard, m) = Yes}
    IN  IF holding = {} THEN Absent
        ELSE ValueIn(cases[path][CHOOSE k \in holding : \A j \in holding : k <= j].value, m)

Actual(path, m) == IF path \in DOMAIN m.outputs THEN m.outputs[path] ELSE Derived(path, m)

ReadValue(path, m) ==
    LET actual == Actual(path, m) IN IF actual = Absent THEN DefaultValue ELSE actual

VariableValue(x, m) == IF x \in DOMAIN m.tunables THEN m.tunables[x] ELSE ValueIn(initial[x], m)

ValueIn(e, m) ==
    CASE e.op = "const"       -> e.value
      [] e.op = "unit"        -> DefaultValue
      [] e.op = "variable"    -> VariableValue(e.symbol, m)
      [] e.op = "read"        -> ReadValue(e.path, m)
      [] e.op = "unreachable" -> m.fresh
      [] e.op = "not"         -> Bool(ValueIn(e.operand, m) = No)
      [] e.op = "and"         -> Bool(ValueIn(e.left, m) = Yes /\ ValueIn(e.right, m) = Yes)
      [] e.op = "or"          -> Bool(ValueIn(e.left, m) = Yes \/ ValueIn(e.right, m) = Yes)
      [] e.op = "eq"          ->
           LET left == ValueIn(e.left, m)
               right == ValueIn(e.right, m)
           IN  Bool(IF OfList(e.left) THEN ListsEqual(left.list, right.list) ELSE left = right)
      [] e.op = "add"         -> ValueIn(e.left, m) + ValueIn(e.right, m)
      [] e.op = "div"         -> Quotient(ValueIn(e.left, m), ValueIn(e.right, m))
      [] e.op = "some"        -> <<ValueIn(e.operand, m)>>
      [] e.op = "null"        -> <<>>
      [] e.op = "is_null"     -> Bool(ValueIn(e.operand, m) = <<>>)
      [] e.op = "optional_value" -> Unwrapped(ValueIn(e.operand, m))
      [] e.op = "elvis"       -> LET optional == ValueIn(e.optional, m)
                                 IN  IF optional = <<>> THEN ValueIn(e.fallback, m) ELSE optional[1]
      [] e.op = "choice"      ->
           LET condition == ValueIn(e.condition, m)
           IN  IF OfList(e)
               THEN ListValue(ListChoice(condition, ValueIn(e.then, m).list, ValueIn(e.otherwise, m).list))
               ELSE ValueIn(IF condition = Yes THEN e.then ELSE e.otherwise, m)
      [] e.op = "parameter"   -> m.bound[e.symbol]
      [] e.op = "list"        -> ListValue([k \in DOMAIN e.elements |-> Slot(Yes, ValueIn(e.elements[k], m))])
      [] e.op = "set"         -> SetValue({ValueIn(l, m) : l \in ToSet(e.elements)} \cap Universe)
      [] e.op = "contains"    -> Bool(ValueIn(e.argument, m) \in MembersIn(ValueIn(e.receiver, m)))
      [] Applies(e)           -> Application(e, ValueIn(e.receiver, m), m)

\* decode_value
Decoded(path, v) ==
    IF path \notin ListPath \/ v = Absent THEN v
    ELSE LET present == SelectSeq(v.list, LAMBDA slot : slot.present = Yes)
         IN  ListValue([k \in DOMAIN present |-> present[k].value])

(***************************************************************************)
(* The assertions.                                                         *)
(***************************************************************************)

\* An edit of a variable or an output changes it (edit.implies(changed)).
EditsChange(m) ==
    /\ \A x \in DOMAIN m.tunables : m.tunables[x] # ValueIn(initial[x], m)
    /\ \A path \in DOMAIN m.outputs : m.outputs[path] # Derived(path, m)

\* No two cases of an output hold together.
Exclusive(m) ==
    \A path \in DOMAIN cases : \A j, k \in DOMAIN cases[path] :
        j < k => No \in {ValueIn(cases[path][j].guard, m), ValueIn(cases[path][k].guard, m)}

\* Asserted wherever the expression occurs, whatever guards its evaluation, and
\* in the body of a closure for everything it is applied to.  What enters a set
\* is of its universe.
RECURSIVE Meaningful(_, _)
Meaningful(e, m) ==
    /\ e.op = "read" => Actual(e.path, m) # Absent
    /\ e.op = "div" => ValueIn(e.right, m) # 0
    /\ e.op = "optional_value" => ValueIn(e.operand, m) # <<>>
    /\ e.op = "set" => \A l \in ToSet(e.elements) : ValueIn(l, m) \in Universe
    /\ \A o \in Operands(e) : Meaningful(o, m)
    /\ Applies(e) =>
         LET receiver == ValueIn(e.receiver, m)
             answer == Answers(e, receiver, m)
             arguments == Arguments(receiver)
         IN  /\ Expands(e) => \A k \in DOMAIN arguments :
                  Meaningful(e.argument.body, Applied(e.argument, arguments[k], m))
             /\ e.op = "map" /\ "set" \in DOMAIN receiver =>
                  \A v \in receiver.set : answer[v] \in Universe
SideConditions(m) == \A e \in Roots : Meaningful(e, m)

\* The applications of opaque closures, by their calls and what they are applied to.
OpaqueCalls == {e \in Encoded : Applies(e) /\ ~Expands(e)}
Applications(calls, m) ==
    UNION {{<<e, k>> : k \in DOMAIN Arguments(ValueIn(e.receiver, m))} : e \in calls}

Constraints(m) == \A e \in constraints : ValueIn(e, m) = Yes

Asserted(m) == EditsChange(m) /\ Exclusive(m) /\ SideConditions(m) /\ Constraints(m)

OutputsIn(m) == [path \in DOMAIN cases |-> Decoded(path, Actual(path, m))]
=============================================================================
