------------------------------ MODULE Lowering ------------------------------
(***************************************************************************)
(* The lowering of a module to a constraint model (light-nix-ir/lower.rs)  *)
(* and what the solver encoder asserts about that model (solver.rs), on    *)
(* the core language of Programs.                                          *)
(*                                                                         *)
(* lower_statements is a machine with one step per top-level statement.    *)
(* It walks into every branch, carrying the guard under which the branch   *)
(* runs; claims become guarded cases of their output, asserts and throws   *)
(* become constraints, bindings become shared expressions.  An IR          *)
(* expression is an expression of Programs without bindings and blocks.    *)
(***************************************************************************)
EXTENDS Scopes

VARIABLES
    module,       \* the statements being lowered
    next,         \* the next top-level statement
    initial,      \* tunable binding -> its initial expression
    cases,        \* path -> sequence of [guard, value]
    constraints,  \* the asserts, and the Validity constraints of throws
    lowered,      \* lowered_symbols: binding -> expression
    reported      \* the errors reported: a module that has one is not planned for

loweringVars == <<module, next, initial, cases, constraints, lowered, reported>>

Variable(x)     == [op |-> "variable", symbol |-> x]
Unreachable     == [op |-> "unreachable"]
UnitValue       == [op |-> "unit"]
Call(e)         == [op |-> "call", argument |-> e]
Parameter(x)    == [op |-> "parameter", symbol |-> x]
Choice(c, t, f) == [op |-> "choice", condition |-> c, then |-> t, otherwise |-> f]
Not(e)          == [op |-> "not", operand |-> e]
IsNull(e)       == [op |-> "is_null", operand |-> e]
OptionalValue(e) == [op |-> "optional_value", operand |-> e]
And(l, r)       == Binary("and", l, r)
Implies(l, r)   == Binary("or", Not(l), r)
True            == Const(Yes)

Lowered(ir, s) == [ir |-> ir, state |-> s]
With(r, Continue(_, _)) == Continue(r.ir, r.state)

RECURSIVE Lower(_, _, _), LowerStatements(_, _, _, _, _)

Report(kind, s) == Lowered(Unreachable, [s EXCEPT !.reported = @ \cup {kind}])

Share(x, ir, s) ==
    [s EXCEPT !.lowering = @ \ {x},
              !.lowered = Put(@, x, ir)]

\* Bindings of blocks and patterns are in frames.  Of those of the module the
\* tunable ones are variables, the others shared expressions lowered
\* under the guard of their first use.
LowerSymbol(x, g, s) ==
    IF x \in DOMAIN s.locals THEN Lowered(s.locals[x], s)
    ELSE IF x \in DOMAIN s.lowered THEN Lowered(s.lowered[x], s)
    ELSE IF LetOf(module, x).tunable THEN Lowered(Variable(x), s)
    ELSE IF x \in s.lowering THEN Report("CyclicBinding", s)
    ELSE With(Lower(LetOf(module, x).value, g, [s EXCEPT !.lowering = @ \cup {x}]),
              LAMBDA ir, s1 : Lowered(ir, Share(x, ir, s1)))

\* The right operand of and / or runs only when the left one lets it.
RightGuard(o, g, left) ==
    CASE o = "and" -> And(g, left)
      [] o = "or"  -> And(g, Not(left))
      [] OTHER     -> g

LowerBinary(e, g, s) ==
    With(Lower(e.left, g, s), LAMBDA left, s1 :
         With(Lower(e.right, RightGuard(e.op, g, left), s1), LAMBDA right, s2 :
              Lowered(Binary(e.op, left, right), s2)))

\* What is bound in a block or an arm ends with it.
Leaving(outer, r) == [r EXCEPT !.state.locals = outer.locals]

\* The value of a block is that of its last expression statement, a unit when it
\* has none.
LowerBlock(block, g, s) ==
    IF block = NoBlock THEN Lowered(UnitValue, s)
    ELSE Leaving(s, LowerStatements(block, 1, g, UnitValue, s))

\* if_then_else takes branches of one type; the model tells units from the rest,
\* and an unreachable value has any type.
RECURSIVE IsUnit(_)
IsUnit(ir) == ir = UnitValue \/ (ir.op = "choice" /\ (IsUnit(ir.then) \/ IsUnit(ir.otherwise)))

IfThenElse(c, t, f, s) ==
    IF Unreachable \in {t, f} \/ (IsUnit(t) <=> IsUnit(f))
    THEN Lowered(Choice(c, t, f), s)
    ELSE Report("TypeMismatch", s)

\* Mutant: the else block is lowered under the outer guard.
LowerIfElseUnguarded(e, g, s) ==
    With(Lower(e.condition, g, s), LAMBDA c, s1 :
         With(LowerBlock(e.then, And(g, c), s1), LAMBDA t, s2 :
              With(LowerBlock(e.otherwise, g, s2), LAMBDA f, s3 : IfThenElse(c, t, f, s3))))

\* Mutant: the branches are swapped.
LowerIfSwapped(e, g, s) ==
    With(Lower(e.condition, g, s), LAMBDA c, s1 :
         With(LowerBlock(e.then, And(g, c), s1), LAMBDA t, s2 :
              With(LowerBlock(e.otherwise, And(g, Not(c)), s2), LAMBDA f, s3 :
                   IfThenElse(c, f, t, s3))))

LowerIf(e, g, s) ==
    With(Lower(e.condition, g, s), LAMBDA c, s1 :
         With(LowerBlock(e.then, And(g, c), s1), LAMBDA t, s2 :
              With(LowerBlock(e.otherwise, And(g, Not(c)), s2), LAMBDA f, s3 :
                   IfThenElse(c, t, f, s3))))

Require(e, s) == [s EXCEPT !.constraints = @ \cup {e}]

\* Mutant: the value of a throw is unreachable, and nothing forbids reaching it.
LowerThrowUnchecked(g, s) == Lowered(Unreachable, s)

LowerThrow(g, s) == Lowered(Unreachable, Require(Not(g), s))

\* The fallback of an elvis runs only when the optional is null.
LowerElvis(e, g, s) ==
    With(Lower(e.optional, g, s), LAMBDA o, s1 :
         With(Lower(e.fallback, And(g, IsNull(o)), s1), LAMBDA f, s2 : Lowered(Elvis(o, f), s2)))

RECURSIVE LowerElements(_, _, _)
LowerElements(es, g, s) ==
    IF es = <<>> THEN Lowered(<<>>, s)
    ELSE With(Lower(Head(es), g, s), LAMBDA ir, s1 :
              With(LowerElements(Tail(es), g, s1), LAMBDA rest, s2 : Lowered(<<ir>> \o rest, s2)))

\* A closure is lowered once, where it is written and under the guard that holds
\* there, whatever it is applied to.
LowerClosure(e, g, s) ==
    With(Leaving(s, Lower(e.body, g, [s EXCEPT !.locals = Put(@, e.parameter, Parameter(e.parameter))])),
         LAMBDA body, s1 : Lowered(Closure(e.mode, e.parameter, body), s1))

LowerBuiltin(e, g, s) ==
    With(Lower(e.receiver, g, s), LAMBDA receiver, s1 :
         With(Lower(e.argument, g, s1), LAMBDA argument, s2 :
              Lowered([e EXCEPT !.receiver = receiver, !.argument = argument], s2)))

\* lower_pattern: the condition under which a value matches, and the bindings.
RECURSIVE PatternCondition(_, _), PatternBindings(_, _, _)
PatternCondition(pat, v) ==
    CASE pat.pat = "some" -> And(Not(IsNull(v)), PatternCondition(pat.inner, OptionalValue(v)))
      [] pat.pat = "null" -> IsNull(v)
      [] OTHER            -> True

PatternBindings(pat, v, locals) ==
    CASE pat.pat = "some"    -> PatternBindings(pat.inner, OptionalValue(v), locals)
      [] pat.pat = "binding" -> Put(locals, pat.symbol, v)
      [] OTHER               -> locals

\* The arms of a match from the k-th on, each under the guard the earlier ones
\* leave; what none of them takes must not be reached.
RECURSIVE LowerArms(_, _, _, _, _)
LowerArms(arms, k, matched, remaining, s) ==
    IF k > Len(arms) THEN Lowered(Unreachable, Require(Not(remaining), s))
    ELSE LET condition == PatternCondition(arms[k].pattern, matched)
             inside == [s EXCEPT !.locals = PatternBindings(arms[k].pattern, matched, @)]
         IN  With(Leaving(s, Lower(arms[k].value, And(remaining, condition), inside)), LAMBDA v, s1 :
                  With(LowerArms(arms, k + 1, matched, And(remaining, Not(condition)), s1),
                       LAMBDA rest, s2 : IfThenElse(condition, v, rest, s2)))

LowerMatch(e, g, s) ==
    With(Lower(e.matched, g, s), LAMBDA matched, s1 : LowerArms(e.arms, 1, matched, g, s1))

Lower(e, g, s) ==
    CASE e.op = "const"  -> Lowered(e, s)
      [] e.op = "ref"    -> LowerSymbol(e.symbol, g, s)
      [] e.op = "read"   -> Lowered(e, s)
      [] e.op = "if"     -> LowerIf(e, g, s)
      [] e.op = "opaque" -> With(Lower(e.argument, g, s), LAMBDA ir, s1 : Lowered(Call(ir), s1))
      [] e.op = "throw"  -> LowerThrow(g, s)
      [] e.op = "some"   -> With(Lower(e.operand, g, s), LAMBDA ir, s1 : Lowered(Some(ir), s1))
      [] e.op = "null"   -> Lowered(e, s)
      [] e.op = "elvis"  -> LowerElvis(e, g, s)
      [] e.op = "match"  -> LowerMatch(e, g, s)
      [] IsArray(e)      -> With(LowerElements(e.elements, g, s), LAMBDA es, s1 :
                                 Lowered([e EXCEPT !.elements = es], s1))
      [] e.op = "closure" -> LowerClosure(e, g, s)
      [] IsBuiltin(e)    -> LowerBuiltin(e, g, s)
      [] IsBinary(e)     -> LowerBinary(e, g, s)

AddCase(p, g, v, s) ==
    [s EXCEPT !.cases[p] = Append(@, [guard |-> g, value |-> v])]

LowerStatement(st, g, s) ==
    CASE st.stmt = "let" ->
           IF st.tunable THEN Lowered(UnitValue, s) ELSE LowerSymbol(st.symbol, g, s)
      [] st.stmt = "local" ->
           With(Lower(st.value, g, s), LAMBDA ir, s1 :
                Lowered(UnitValue, [s1 EXCEPT !.locals = Put(@, st.symbol, ir)]))
      [] st.stmt = "claim" ->
           With(Lower(st.value, g, s),
                LAMBDA ir, s1 : Lowered(UnitValue, AddCase(st.path, g, ir, s1)))
      [] st.stmt = "assert" ->
           With(Lower(st.condition, g, s),
                LAMBDA ir, s1 : Lowered(UnitValue, Require(Implies(g, ir), s1)))
      [] st.stmt = "expr" -> Lower(st.value, g, s)

LowerStatements(block, k, g, result, s) ==
    IF k > Len(block) THEN Lowered(result, s)
    ELSE With(LowerStatement(block[k], g, s), LAMBDA ir, s1 :
              LowerStatements(block, k + 1, g,
                              IF block[k].stmt = "expr" THEN ir ELSE result, s1))

State == [cases |-> cases, constraints |-> constraints, lowered |-> lowered,
          lowering |-> {}, locals |-> <<>>, reported |-> reported]

\* The initial expressions of the tunable bindings, in the order of the symbols.
RECURSIVE LowerInitials(_, _, _)
LowerInitials(k, sofar, s) ==
    IF k > Len(module) THEN [initial |-> sofar, state |-> s]
    ELSE LET st == module[k]
         IN  IF st.stmt = "let" /\ st.tunable
             THEN LET r == Lower(st.value, True, s)
                  IN  LowerInitials(k + 1,
                                   Put(sofar, st.symbol, r.ir), r.state)
             ELSE LowerInitials(k + 1, sofar, s)

LoweringInit(p, paths) ==
    /\ module = p
    /\ next = 0
    /\ initial = <<>>
    /\ cases = [path \in paths |-> <<>>]
    /\ constraints = {}
    /\ lowered = <<>>
    /\ reported = {}

InitializeVariables ==
    /\ next = 0
    /\ LET r == LowerInitials(1, <<>>, State)
       IN  /\ initial' = r.initial
           /\ cases' = r.state.cases
           /\ constraints' = r.state.constraints
           /\ lowered' = r.state.lowered
           /\ reported' = r.state.reported
    /\ next' = 1
    /\ UNCHANGED module

LowerNext ==
    /\ next \in 1..Len(module)
    /\ LET r == LowerStatement(module[next], True, State).state
       IN  /\ cases' = r.cases
           /\ constraints' = r.constraints
           /\ lowered' = r.lowered
           /\ reported' = r.reported
    /\ next' = next + 1
    /\ UNCHANGED <<module, initial>>

LoweringDone == next > Len(module)
=============================================================================
