----------------------------- MODULE MCWriteBack ----------------------------
(***************************************************************************)
(* Source texts of a tunable Boolean t and one to three further            *)
(* statements, laid out with comments before and behind them, a footer,    *)
(* shared lines, a blank last line, and with or without a last line feed.  *)
(***************************************************************************)
EXTENDS WriteBack, TLC

LOCAL INSTANCE SequencesExt

CONSTANTS t, n, red, blue, Lengths, Layouts, Pool,
    MaxEdits      \* edits in a plan

\* Options: P and Q hold integers, R a value of an enumeration.
P == 1
Q == 2
R == 3
Lit(v) == <<LiteralTok(v)>>

Declaration == <<LetTok(t, TRUE)>> \o Lit(Yes)

\* Values written as literals, or as the name of a tunable binding.
Literals == {
    <<LetTok(n, TRUE)>> \o Lit(1),
    <<ClaimTok(P)>> \o Lit(0), <<ClaimTok(P), NameTok(n)>>,
    <<ClaimTok(Q)>> \o Lit(1), <<ClaimTok(Q), NameTok(n)>>, <<ClaimTok(Q), RootTok, FieldTok(P)>>,
    <<IfTok(t, Q, 0)>>, <<AssertTok(P, 0)>>}

\* An enumeration.
Enumerations == {<<ClaimTok(R), OwnerTok, VariantTok(red)>>}

\* The k-th statement of a text in a layout: "lead" and "trail" give it a
\* comment, "join" puts the next statement on its line.
Item(statement, k, how) ==
    (IF how = "lead" THEN <<Comment(k), LineFeed>> ELSE <<>>)
      \o statement
      \o (IF how = "trail" THEN <<Comment(k)>> ELSE <<>>)
      \o (IF how = "join" THEN <<Semicolon>> ELSE <<LineFeed>>)

\* Comments before and behind each statement, and shared lines.
Varied == {<<"plain", "plain", "plain">>,
           <<"lead", "trail", "plain">>, <<"plain", "lead", "trail">>, <<"trail", "plain", "lead">>,
           <<"join", "trail", "plain">>, <<"plain", "join", "trail">>}
Plain == {<<"plain", "plain", "plain">>}

Endings == {<<LineFeed>>, <<Comment(0), LineFeed>>, <<Comment(0)>>}

Texts ==
    {<<Header>> \o Item(Declaration, 9, "plain")
        \o FlattenSeq([k \in DOMAIN b |-> Item(b[k], k, layout[k])]) \o ending :
       b \in {s \in UNION {[1..l -> Pool] : l \in Lengths} : IsInjective(s)},
       layout \in Layouts, ending \in Endings}

\* Sources are analysed without errors: every let is declared once.
Sources == {s \in Texts : Analysable(s)}

\* One or more edits, no two of the same binding or option.
Settings == {<<"tunable", t, No>>, <<"tunable", n, 2>>,
             <<"output", P, Absent>>, <<"output", P, 1>>,
             <<"output", Q, Absent>>, <<"output", Q, 2>>,
             <<"output", R, Absent>>, <<"output", R, blue>>}

PlanOf(settings) ==
    LET named(kind) == {s \in settings : s[1] = kind}
        assigned(kind) == [name \in {s[2] : s \in named(kind)} |->
                            (CHOOSE s \in named(kind) : s[2] = name)[3]]
    IN  [tunables |-> assigned("tunable"), outputs |-> assigned("output")]

Plans ==
    {PlanOf(settings) :
       settings \in {S \in SUBSET Settings :
                       /\ Cardinality(S) \in 1..MaxEdits
                       /\ \A a, b \in S : a[2] = b[2] => a = b}}
=============================================================================
