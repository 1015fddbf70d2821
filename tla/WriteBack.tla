----------------------------- MODULE WriteBack ------------------------------
(***************************************************************************)
(* The write-back of a plan: a module is evaluated, edits of its tunable   *)
(* bindings and outputs are confirmed by a second evaluation as            *)
(* plan_changes does, Editing turns them into edits of the source text and *)
(* applies them, and the new text is evaluated.                            *)
(***************************************************************************)
EXTENDS Evaluator, Editing

VARIABLES
    phase,         \* baseline, candidate, write, edit, reread, done, refused or broken
    promised       \* the outputs of the confirmed candidate

vars == <<evaluatorVars, editingVars, phase, promised>>

\* Every name resolves.
Analysable(source) == Readable(source) /\ Resolved(ProgramOf(source))

Init ==
    /\ EditingInit
    /\ EvaluatorInit(ProgramOf(original), NoOverrides)
    /\ phase = "baseline"
    /\ promised = <<>>

EvaluationStep ==
    /\ phase \in {"baseline", "candidate", "reread"}
    /\ Statement
    /\ UNCHANGED <<editingVars, phase, promised>>

\* An edit gives its binding or output another value than it had.
Changes(plan) ==
    /\ \A x \in DOMAIN plan.tunables : x \in DOMAIN values /\ values[x].value # plan.tunables[x]
    /\ \A p \in DOMAIN plan.outputs :
         plan.outputs[p] # IF p \in DOMAIN snapshot THEN snapshot[p].value ELSE Absent

Propose ==
    /\ phase = "baseline"
    /\ Success
    /\ \E plan \in Edits : Changes(plan) /\ Evaluate(program, plan)
    /\ phase' = "candidate"
    /\ UNCHANGED <<editingVars, promised>>

Confirm ==
    /\ phase = "candidate"
    /\ Success
    /\ promised' = OutputsOf(snapshot)
    /\ phase' = "write"
    /\ UNCHANGED <<evaluatorVars, editingVars>>

Refuse ==
    /\ \/ phase \in {"baseline", "candidate"} /\ error # NoError
       \/ phase = "write" /\ ~Representable(inputs)
    /\ phase' = "refused"
    /\ UNCHANGED <<evaluatorVars, editingVars, promised>>

Write ==
    /\ phase = "write"
    /\ PlanEdits(inputs)
    /\ phase' = "edit"
    /\ UNCHANGED <<evaluatorVars, promised>>

\* apply_plan, and the analysis of what it returns.
ReadBack ==
    /\ phase = "edit"
    /\ ApplyPlan
    /\ IF Analysable(text')
       THEN phase' = "reread" /\ Evaluate(ProgramOf(text'), NoOverrides)
       ELSE phase' = "broken" /\ UNCHANGED evaluatorVars
    /\ UNCHANGED promised

Finish ==
    /\ phase = "reread"
    /\ Evaluated
    /\ phase' = "done"
    /\ UNCHANGED <<evaluatorVars, editingVars, promised>>

Next ==
    \/ EvaluationStep \/ Propose \/ Confirm \/ Refuse
    \/ Write \/ ReadBack \/ Finish

Spec == Init /\ [][Next]_vars

(***************************************************************************)
(* Properties.                                                             *)
(***************************************************************************)

\* PutGet: the written source evaluates, to the outputs the plan promised
\* (plan_edits; light-nix/tests/editing.rs re-analyses what apply_plan returns).
PutGet ==
    /\ phase # "broken"
    /\ phase = "done" => Success /\ OutputsOf(snapshot) = promised

\* What is read stays behind its claims when the statements are grouped.
ReadsStayBehind ==
    \A k \in Statements :
        LET head == original[k]
            last == original[Spans[k].end - 1]
        IN  /\ head.tok = "assert" => ClaimTokens(head.path) = {}
            /\ last.tok = "field" =>
                 /\ head.tok = "claim"
                 /\ \A j \in ClaimTokens(last.path) :
                      original[j].tok = "claim" /\ last.path < head.path

\* PutGet for sources with one statement a line whose reads the formatter keeps
\* behind the claims they read, and edits of values written as literals.
PutGetOfLiterals == PutGet \/ ~(VerbatimEdits /\ OwnLines /\ ReadsStayBehind)

\* A comment and its owner, by its first token.
Owned(source, c) ==
    LET owner == Owner(source, c)
    IN  <<source[c].comment,
          IF owner = <<"footer">> THEN owner
          ELSE <<owner[1], source[owner[2]]>> >>

DeletedRows == {original[ClaimOf(e.target.name)] : e \in {f \in edits : f.text = <<>>}}

\* Comments stay with the statement that owns them: those of deleted rows go,
\* the others keep place and owner through edits and formatting.  (A claim
\* appended below a footer takes the footer for its comment.)
CommentsKeepOwners ==
    (/\ phase \in {"done", "broken"}
     /\ OwnLines
     /\ (\A c \in Comments(original) : Owner(original, c) # <<"footer">>)
           \/ \A e \in edits : e.start < e.end) =>
        {Owned(text, c) : c \in Comments(text)} =
        {o \in {Owned(original, c) : c \in Comments(original)} :
            o[2] = <<"footer">> \/ o[2][2] \notin DeletedRows}

\* format_source and format_edits: the edit an editor receives makes of the source
\* what the formatter does, and formatting what apply_plan formatted changes nothing.
FormattingSettles ==
    /\ phase \in {"done", "broken"} => Formatted(text) = text
    /\ (phase = "baseline" /\ at = 1) =>
         \A formatted \in {Formatted(original)} :
             ApplyEdits(original, FormatEdits(original, formatted)) = formatted
=============================================================================
