------------------------------ MODULE Editing -------------------------------
(***************************************************************************)
(* light-nix/src/editing.rs: plan_edits turns the edits of a confirmed     *)
(* plan into edits of the source text, by the spans lowering recorded, and *)
(* apply_plan applies them and formats the result.                         *)
(***************************************************************************)
EXTENDS SourceText

CONSTANTS
    Source,        \* the source texts considered
    Edits          \* the edits a plan may hold: records [tunables, outputs]

ASSUME SourceAssumption == \A s \in Source : s \in Seq({s[i] : i \in DOMAIN s})

VARIABLES
    original,      \* the source text the plan was made for
    text,          \* the source text now
    edits          \* the text edits

editingVars == <<original, text, edits>>

(***************************************************************************)
(* What lowering knows of the source: the span an expression came from.    *)
(* The origin of a value is its last access; a use of a plain binding is   *)
(* lowered to the expression of the binding, origin included.              *)
(***************************************************************************)
Statements == StatementsOf(original)
Spans == StatementSpans(original)

Declares(k, x) == original[k].tok = "let" /\ original[k].symbol = x
LetsOf(x) == {k \in Statements : Declares(k, x)}
LetOfName(x) == CHOOSE k \in LetsOf(x) : TRUE

OriginOf[k \in Statements] ==
    LET last == original[Spans[k].end - 1]
    IN  IF last.tok = "name" /\ ~original[LetOfName(last.symbol)].tunable
        THEN OriginOf[LetOfName(last.symbol)]
        ELSE Span(Spans[k].end - 1, Spans[k].end)

ClaimTokens(p) ==
    {k \in Statements : original[k].tok \in {"claim", "if"} /\ original[k].path = p}

\* unconditional_claim_value: a single claim, under the guard true.
Unconditional(p) ==
    \E k \in ClaimTokens(p) : ClaimTokens(p) = {k} /\ original[k].tok = "claim"
ClaimOf(p) == CHOOSE k \in ClaimTokens(p) : TRUE

\* render_constant.
Rendered(v) == IF v \in Variant THEN <<OwnerTok, VariantTok(v)>> ELSE <<LiteralTok(v)>>

\* The target of an edit: a binding or an output.
BindingTarget(x) == [kind |-> "binding", name |-> x]
OutputTarget(p)  == [kind |-> "output", name |-> p]

TextEdit(target, span, new) ==
    [target |-> target, start |-> span.start, end |-> span.end, text |-> new]

\* A new claim is appended, on a line of its own.
InsertClaim(p, v) ==
    LET end == Len(original) + 1
        line == <<ClaimTok(p)>> \o Rendered(v) \o <<LineFeed>>
    IN  TextEdit(OutputTarget(p), Span(end, end),
                 IF original = <<>> \/ original[Len(original)] = LineFeed
                 THEN line ELSE <<LineFeed>> \o line)

\* Mutant: the comments of a deleted row are left behind.
BareStatementSpan(k) == Spans[k]

\* Mutant: both line feeds around the row are deleted with it.
RowWithBreaksSpan(k) == Span(Spans[k].start - 1, Spans[k].end + 1)

\* claim_statement_span: the row with the comments it owns.
ClaimStatementSpan(k) ==
    LET leading  == CommentsOf(original, <<"leading", k>>)
        trailing == CommentsOf(original, <<"trailing", k>>)
    IN  Span(IF leading = {} THEN k ELSE Least(leading),
             IF trailing = {} THEN EndOf(original, k) ELSE Greatest(trailing) + 1)

\* The deleted value must lie inside the statement: a shared expression does not.
Deletable(p) ==
    /\ Unconditional(p)
    /\ LET k == ClaimOf(p)
       IN  Spans[k].start <= OriginOf[k].start /\ OriginOf[k].end <= Spans[k].end

TunableEdits(plan) ==
    {TextEdit(BindingTarget(x), OriginOf[LetOfName(x)], Rendered(plan.tunables[x])) :
        x \in DOMAIN plan.tunables}

OutputEdit(p, v) ==
    IF v = Absent THEN TextEdit(OutputTarget(p), ClaimStatementSpan(ClaimOf(p)), <<>>)
    ELSE IF ClaimTokens(p) = {} THEN InsertClaim(p, v)
    ELSE TextEdit(OutputTarget(p), OriginOf[ClaimOf(p)], Rendered(v))

\* Every binding is one of the module, every output has a claim to edit, or none.
Representable(plan) ==
    /\ \A x \in DOMAIN plan.tunables : LetsOf(x) # {}
    /\ \A p \in DOMAIN plan.outputs :
         IF plan.outputs[p] = Absent THEN Deletable(p)
         ELSE ClaimTokens(p) = {} \/ Unconditional(p)

PlannedEdits(plan) ==
    TunableEdits(plan) \cup {OutputEdit(p, plan.outputs[p]) : p \in DOMAIN plan.outputs}

EditingInit ==
    /\ original \in Source
    /\ text = original
    /\ edits = {}

PlanEdits(plan) ==
    /\ Representable(plan)
    /\ edits' = PlannedEdits(plan)
    /\ UNCHANGED <<original, text>>

\* A solution lists its bindings before its outputs, each in the order of their ids.
ApplyPlan ==
    /\ \E list \in [1..Cardinality(edits) -> edits] :
         /\ \A j, k \in DOMAIN list : list[j] = list[k] => j = k
         /\ \A j, k \in DOMAIN list :
              list[j].target.kind = "output" /\ list[k].target.kind = "binding" => k < j
         /\ \E applied \in {ApplyEdits(original, list)} : text' = Formatted(applied)
    /\ UNCHANGED <<original, edits>>

\* Any plan, any number of times.
EditingNext == ApplyPlan \/ \E plan \in Edits : PlanEdits(plan)

EditingSpec == EditingInit /\ [][EditingNext]_editingVars

(***************************************************************************)
(* Properties.                                                             *)
(***************************************************************************)

\* A value written as one token of its own statement.
Verbatim(k) ==
    /\ Spans[k].end = k + 2
    /\ OriginOf[k] = Span(k + 1, k + 2)

\* The value of a binding, or of a claim that is there, is replaced.
Replaces(e) == e.text # <<>> /\ (e.target.kind = "output" => ClaimTokens(e.target.name) # {})

VerbatimEdits ==
    \A e \in edits : Replaces(e) =>
        Verbatim(IF e.target.kind = "binding" THEN LetOfName(e.target.name)
                 ELSE ClaimOf(e.target.name))

\* One statement a line.
OwnLines ==
    \A j, k \in Statements :
        j < k => \E i \in EndOf(original, j)..(k - 1) : original[i] = LineFeed

\* The ranges of the edits of one plan never overlap, as TextEdit asks
\* (light-nix-formatter/src/lib.rs).
EditsDisjoint ==
    \A e, f \in edits : e # f => e.end <= f.start \/ f.end <= e.start

\* The same, for sources with one statement a line and values written in place.
EditsOfRowsDisjoint == EditsDisjoint \/ ~(VerbatimEdits /\ OwnLines)
=============================================================================
