------------------------------- MODULE Scopes --------------------------------
(***************************************************************************)
(* What is inside the statements and expressions of Programs: the names    *)
(* they use and declare, the paths they claim and read, and name           *)
(* resolution.                                                             *)
(***************************************************************************)
EXTENDS Programs

\* An expression with everything inside it, statements of its blocks included.
RECURSIVE Inside(_)
InsideBlock(block) ==
    IF block = NoBlock THEN {} ELSE UNION {Inside(ValueOf(block[k])) : k \in DOMAIN block}
Inside(e) ==
    {e} \cup
    CASE IsBinary(e)     -> Inside(e.left) \cup Inside(e.right)
      [] e.op = "opaque" -> Inside(e.argument)
      [] e.op = "some"   -> Inside(e.operand)
      [] e.op = "elvis"  -> Inside(e.optional) \cup Inside(e.fallback)
      [] e.op = "match"  -> Inside(e.matched) \cup UNION {Inside(e.arms[k].value) : k \in DOMAIN e.arms}
      [] e.op = "if"     -> Inside(e.condition) \cup InsideBlock(e.then) \cup InsideBlock(e.otherwise)
      [] IsArray(e)      -> UNION {Inside(e.elements[k]) : k \in DOMAIN e.elements}
      [] IsBuiltin(e)    -> Inside(e.receiver) \cup Inside(e.argument)
      [] e.op = "closure" -> Inside(e.body)
      [] OTHER           -> {}

\* The paths claimed by a statement, the claims in its blocks included.
ClaimsOf(st) ==
    LET direct(block) == {block[k].path : k \in {j \in DOMAIN block : block[j].stmt = "claim"}}
    IN  direct(<<st>>) \cup
        UNION {direct(e.then) \cup direct(e.otherwise) :
                 e \in {i \in Inside(ValueOf(st)) : i.op = "if"}}

\* The bindings of the blocks, the patterns and the closures of a statement.
LocalsOf(st) ==
    LET locals(block) == {block[k] : k \in {j \in DOMAIN block : block[j].stmt = "local"}}
    IN  UNION {locals(e.then) \cup locals(e.otherwise) : e \in {i \in Inside(ValueOf(st)) : i.op = "if"}}

RECURSIVE BoundBy(_)
BoundBy(pat) ==
    CASE pat.pat = "some"    -> BoundBy(pat.inner)
      [] pat.pat = "binding" -> {pat.symbol}
      [] OTHER               -> {}

DeclaredIn(st) ==
    {l.symbol : l \in LocalsOf(st)}
      \cup UNION {UNION {BoundBy(e.arms[k].pattern) : k \in DOMAIN e.arms} :
                    e \in {i \in Inside(ValueOf(st)) : i.op = "match"}}
      \cup {e.parameter : e \in {i \in Inside(ValueOf(st)) : i.op = "closure"}}

\* The bindings of the module a statement uses.
SymbolsOf(st) == {e.symbol : e \in {i \in Inside(ValueOf(st)) : i.op = "ref"}} \ DeclaredIn(st)
ReadsOf(st)   == {e.path : e \in {i \in Inside(ValueOf(st)) : i.op = "read"}}

\* Every binding is declared once, and every binding used is declared: what
\* name resolution reports otherwise.
Resolved(p) ==
    LET lets == {k \in DOMAIN p : p[k].stmt = "let"}
    IN  /\ \A j, k \in lets : p[j].symbol = p[k].symbol => j = k
        /\ \A k \in DOMAIN p : SymbolsOf(p[k]) \subseteq {p[j].symbol : j \in lets}

\* The declaration of a binding of a resolved program.
LetOf(p, x) == p[CHOOSE k \in DOMAIN p : p[k].stmt = "let" /\ p[k].symbol = x]
=============================================================================
