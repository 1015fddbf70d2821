------------------------------ MODULE Programs ------------------------------
(***************************************************************************)
(* The core of the LightNix language, as the evaluator and the lowering    *)
(* see it once names are resolved and types are checked: a program is a    *)
(* sequence of statements over bindings and output paths, its values are   *)
(* Booleans, machine integers, optional integers, lists and sets of        *)
(* integers.  Blocks of an if hold statements, bindings of their own among *)
(* them; the value of a block is the value of its last statement.  No      *)
(* symbol is declared twice.                                               *)
(***************************************************************************)
EXTENDS Integers, Sequences, FiniteSets

CONSTANTS
    Absent,     \* no claim: the None of Option<value>
    Yes, No     \* the Booleans of the language, apart from its integers

Bool(b) == IF b THEN Yes ELSE No

Const(v)       == [op |-> "const", value |-> v]
Ref(x)         == [op |-> "ref", symbol |-> x]
Read(p)        == [op |-> "read", path |-> p]
Binary(o, l, r) == [op |-> o, left |-> l, right |-> r]
Opaque(e)      == [op |-> "opaque", argument |-> e]
Throw          == [op |-> "throw"]
Some(e)        == [op |-> "some", operand |-> e]
Null           == [op |-> "null"]
Elvis(o, f)    == [op |-> "elvis", optional |-> o, fallback |-> f]

\* Literals of collections, and their builtin methods.
List(es)       == [op |-> "list", elements |-> es]
SetOf(es)      == [op |-> "set", elements |-> es]
Includes(c, e) == [op |-> "contains", receiver |-> c, argument |-> e]
Filter(c, f)   == [op |-> "filter", receiver |-> c, argument |-> f]
Map(c, f)      == [op |-> "map", receiver |-> c, argument |-> f]

\* A closure of one parameter, of mode "inline" or "opaque".
Closure(mode, x, e) == [op |-> "closure", mode |-> mode, parameter |-> x, body |-> e]

\* An arm of a match, and its pattern.
Match(e, arms) == [op |-> "match", matched |-> e, arms |-> arms]
Arm(pat, e)    == [pattern |-> pat, value |-> e]
SomePattern(pat) == [pat |-> "some", inner |-> pat]
NullPattern    == [pat |-> "null"]
Wildcard       == [pat |-> "wildcard"]
Binding(x)     == [pat |-> "binding", symbol |-> x]

\* otherwise is the else block, or NoBlock.
If(c, then, otherwise) == [op |-> "if", condition |-> c, then |-> then, otherwise |-> otherwise]
NoBlock == <<[stmt |-> "none"]>>

Let(x, e)      == [stmt |-> "let", symbol |-> x, tunable |-> FALSE, value |-> e]
Local(x, e)    == [stmt |-> "local", symbol |-> x, tunable |-> FALSE, value |-> e]
Tunable(x, e)  == [stmt |-> "let", symbol |-> x, tunable |-> TRUE, value |-> e]
Claim(p, e)    == [stmt |-> "claim", path |-> p, value |-> e]
AssertThat(e)  == [stmt |-> "assert", condition |-> e]
Expr(e)        == [stmt |-> "expr", value |-> e]

IsBinary(e)  == e.op \in {"and", "or", "eq", "add", "div"}
IsArray(e)   == e.op \in {"list", "set"}
IsBuiltin(e) == e.op \in {"contains", "filter", "map"}

ValueOf(st) == IF st.stmt = "assert" THEN st.condition ELSE st.value

\* The values of collections; a set has no order to tell two of them apart.
ListValue(s) == [list |-> s]
SetValue(S)  == [set |-> S]

\* f with x mapped to v.
Put(f, x, v) == [y \in DOMAIN f \cup {x} |-> IF y = x THEN v ELSE f[y]]
=============================================================================
