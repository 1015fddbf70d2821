------------------------------- MODULE Parser -------------------------------
(***************************************************************************)
(* parse_source: a recursive-descent parser that reports what is missing,  *)
(* passes tokens until one it knows, and goes on.  Parse follows a term of *)
(* Grammar from a state; the loop of parse_statements over the source is   *)
(* the machine, one step for each turn.                                    *)
(*                                                                         *)
(* The state of a parse: the place in the tokens, the tokens that are part *)
(* of a node, whether an error was reported since the statement began, and *)
(* whether a loop was found to turn without end (it came round to the same *)
(* place).  ok is FALSE when the last term returned None.                  *)
(***************************************************************************)
EXTENDS Grammar, Naturals

Sequence == INSTANCE SequencesExt

CONSTANTS
    Forms,        \* well-formed statements
    Alphabet,     \* the kinds of the tokens put in by mistake
    Following     \* the statement on the next line

VARIABLES
    tokens,
    pc,           \* "parsing", then "done", or "endless" in a loop that never ends
    place,
    inNodes,      \* the tokens that are part of a statement
    statements,   \* the spans <<first, next>> of the statements
    reported      \* has an error been reported?

vars == <<tokens, pc, place, inNodes, statements, reported>>

Start(at, kept) == [at |-> at, kept |-> kept, reported |-> FALSE, endless |-> FALSE, ok |-> TRUE]

KindAt(i) == IF i \in DOMAIN tokens THEN tokens[i] ELSE "end"
Kind(s)   == KindAt(s.at)

\* The next place that is at one of the kinds, or behind the others.
NextOf(at, kinds) ==
    CHOOSE i \in at .. Len(tokens) + 1 :
        /\ KindAt(i) \in kinds \cup {"end"}
        /\ \A j \in at .. i - 1 : tokens[j] \notin kinds
NextOther(at, kinds) ==
    CHOOSE i \in at .. Len(tokens) + 1 :
        /\ KindAt(i) \notin kinds
        /\ \A j \in at .. i - 1 : tokens[j] \in kinds

Pass(s, kinds)   == [s EXCEPT !.at = NextOther(@, kinds)]                       \* skip_...
Error(s)         == [s EXCEPT !.reported = TRUE]                                \* error_here
PassUntil(s, kinds) == [s EXCEPT !.at = NextOf(@, kinds), !.reported = TRUE]    \* recover_until
Consume(s)       == [s EXCEPT !.at = @ + 1, !.kept = @ \cup {s.at}]
None(s)          == [s EXCEPT !.ok = FALSE]
Some(s)          == [s EXCEPT !.ok = TRUE]
Without(s, before) == [s EXCEPT !.kept = before.kept]      \* no node came of it
BackTo(s, before)  == [s EXCEPT !.at = before.at, !.kept = before.kept]

\* A loop that is back where its turn began will never leave.
Turned(s, before) == IF s.at = before.at THEN [s EXCEPT !.endless = TRUE] ELSE s

RECURSIVE Parse(_, _)
Then(term, s) == IF s.ok /\ ~s.endless THEN Parse(term, s) ELSE s

(***************************************************************************)
(* One turn of parse_statements: a statement, or what is done without one. *)
(* The errors of the turn are told from those before it.                   *)
(***************************************************************************)
AtEnd(s, inBlock) == Kind(s) = "end" \/ (inBlock /\ Kind(s) = "}")

\* What follows a statement, or an error the statement reported.
Resumable(kind) == kind \in StatementStart \cup LineEnd \cup {"end"}

\* Mutant: a stray brace is left where it is.
LeaveBrace(s, inBlock) == s

\* A closing brace without an opening one is passed at the level of the source.
PassBrace(s, inBlock) == IF ~inBlock /\ Kind(s) = "}" THEN [s EXCEPT !.at = @ + 1] ELSE s

AfterNone(s, inBlock) ==
    LET t == IF s.reported /\ Resumable(Kind(s)) THEN s ELSE PassUntil(s, LineEnd)
    IN  IF AtEnd(t, inBlock) THEN t ELSE Pass(PassBrace(t, inBlock), {LF, ";"})

\* Mutant: what is left of the line behind a statement is passed without an error.
AfterStatementSilent(s, inBlock) ==
    Pass([PassUntil(s, LineEnd) EXCEPT !.reported = s.reported], {LF, ";"})

AfterStatement(s, inBlock) ==
    LET t == Pass(s, {LF, ";"}) IN
    IF t.at # s.at \/ AtEnd(s, inBlock) THEN t
    ELSE IF Kind(s) \in StatementStart THEN Error(s)
    ELSE Pass(PassUntil(s, LineEnd), {LF, ";"})

Turn(s, inBlock) ==
    LET begun == [s EXCEPT !.reported = FALSE]
        p     == Parse(Statement, begun)
        after == IF p.ok THEN AfterStatement(p, inBlock)
                 ELSE AfterNone(Some(Without(p, s)), inBlock)
    IN  [parsed |-> p,
         next   |-> Turned([after EXCEPT !.reported = @ \/ s.reported], s)]

RECURSIVE Turns(_, _)
Turns(s, inBlock) ==
    IF s.endless \/ AtEnd(s, inBlock) THEN s
    ELSE Turns(Turn(s, inBlock).next, inBlock)

(***************************************************************************)
(* The terms.                                                              *)
(***************************************************************************)
RECURSIVE ParseElements(_, _, _)
ParseElements(list, s, some) ==
    IF s.endless \/ Kind(s) \in list.ends \cup list.starts \cup {"end"}
    THEN IF list.some /\ ~some THEN Error(s) ELSE s
    ELSE LET item   == Parse(list.item, s)
             failed == Pass(PassUntil(Some(Without(item, s)), list.until), list.separators)
             passed == Pass(item, list.separators)
         IN  CASE ~item.ok -> ParseElements(list, Turned(failed, s), some)
               [] item.ok /\ Kind(item) \in list.ends -> item
               [] item.ok /\ passed.at # item.at -> ParseElements(list, passed, TRUE)
               [] OTHER ->
                    IF list.gap = "stops" THEN Error(item)
                    ELSE ParseElements(
                            list, Turned(Pass(PassUntil(item, list.until), list.separators), s), TRUE)

\* Operators of a range of precedences, to the left; what binds closer is to the right.
RECURSIVE ParseOperators(_, _, _)
ParseOperators(term, s, least) ==
    IF ~s.ok \/ s.endless \/ Precedence(Kind(s)) \notin least .. term.most THEN s
    ELSE LET right == Parse([term EXCEPT !.least = Precedence(Kind(s)) + 1], Consume(s)) IN
         IF right.ok THEN ParseOperators(term, right, least) ELSE Error(Some(Without(right, s)))

\* parse_assign_or_expression_statement.
ParseAssign(s) ==
    LET target == Parse(Rule("expression"), s) IN
    IF ~target.ok \/ target.endless THEN target
    ELSE IF Kind(target) = "=" THEN Parse(Assigned, target)
    ELSE IF Kind(s) \in {"if", "match", "return", "throw"} THEN target
    ELSE None(BackTo(target, s))

\* The message of an assert, which may stand on the next line.
ParseMessage(s) ==
    LET message == Parse(All(<<LineFeeds, Rule("expression")>>), s) IN
    IF ~message.ok /\ Kind(s) = LF /\ Kind(message) \in StatementStart
    THEN BackTo(message, s) ELSE message

CloseDelimiter(s, kind) ==
    LET t == IF Kind(s) = kind THEN s
             ELSE IF Kind(s) \in StatementStart THEN Error(s)
             ELSE PassUntil(s, {kind})
    IN  IF Kind(t) = kind THEN Consume(t) ELSE t

Parse(term, s) ==
    CASE term.is = "take" -> IF Kind(s) \in term.kinds THEN Consume(s) ELSE None(s)
      [] term.is = "peek" -> IF Kind(s) \in term.kinds THEN s ELSE None(s)
      [] term.is = "skip" -> Pass(s, term.kinds)
      [] term.is = "all" ->
           IF term.terms = <<>> THEN s
           ELSE Then([term EXCEPT !.terms = Tail(@)], Parse(Head(term.terms), s))
      [] term.is = "rule" -> Parse(Rules[term.name], s)
      [] term.is = "choice" ->
           LET kind == KindAt(s.at + term.ahead)
               fits == {i \in DOMAIN term.cases : kind \in term.cases[i][1]}
           IN  IF fits = {} THEN Parse(term.otherwise, s)
               ELSE Parse(term.cases[CHOOSE i \in fits : \A j \in fits : i <= j][2], s)
      [] term.is = "else" ->
           LET p == Parse(term.term, s)
               q == IF term.until = {} THEN Error(p) ELSE PassUntil(p, term.until)
           IN  IF p.ok THEN p
               ELSE IF term.goesOn THEN Some(Without(q, s)) ELSE q
      [] term.is = "attempt" ->
           LET p == Parse(term.term, s) IN IF p.ok THEN p ELSE Some(BackTo(p, s))
      [] term.is = "close" -> CloseDelimiter(s, term.kind)
      [] term.is = "elements" -> ParseElements(term, s, FALSE)
      [] term.is = "operators" -> ParseOperators(term, Parse(term.operand, s), term.least)
      [] term.is = "statements" -> Turns(Pass(s, {LF, ";"}), term.inBlock)
      [] term.is = "assign" -> ParseAssign(s)
      [] term.is = "message" -> ParseMessage(s)

-----------------------------------------------------------------------------
Begin(sequence) ==
    /\ tokens = sequence
    /\ pc = "parsing"
    /\ place = NextOther(1, {LF, ";"})
    /\ inNodes = {}
    /\ statements = <<>>
    /\ reported = FALSE

\* A statement with at most one token left out, mistaken or too many, and the next line.
Init ==
    \E form \in Forms :
        LET Written(line) == Begin(line \o <<LF>> \o Following) IN
        \/ Written(form)
        \/ \E i \in DOMAIN form : Written(Sequence!RemoveAt(form, i))
        \/ \E i \in DOMAIN form, kind \in Alphabet :
              \/ Written(Sequence!ReplaceAt(form, i, kind))
              \/ Written(Sequence!InsertAt(form, i + 1, kind))

Goes(t) ==
    /\ place' = t.next.at
    /\ inNodes' = t.next.kept
    /\ reported' = (reported \/ t.next.reported)
    /\ pc' = IF t.next.endless THEN "endless" ELSE pc
    /\ UNCHANGED tokens

Parsed(t) ==
    /\ t.parsed.ok
    /\ statements' = Append(statements, <<place, t.parsed.at>>)
    /\ Goes(t)

\* A statement that reported what it lacked, up to where one may begin or end.
Resumes(t) ==
    /\ ~t.parsed.ok
    /\ t.parsed.reported /\ Resumable(Kind(t.parsed))
    /\ UNCHANGED statements
    /\ Goes(t)

Skips(t) ==
    /\ ~t.parsed.ok
    /\ ~(t.parsed.reported /\ Resumable(Kind(t.parsed)))
    /\ UNCHANGED statements
    /\ Goes(t)

ParseStatement ==
    /\ pc = "parsing" /\ KindAt(place) # "end"
    /\ LET t == Turn(Start(place, inNodes), FALSE) IN Parsed(t) \/ Resumes(t) \/ Skips(t)

Finish ==
    /\ pc = "parsing" /\ KindAt(place) = "end"
    /\ pc' = "done"
    /\ UNCHANGED <<tokens, place, inNodes, statements, reported>>

Next == ParseStatement \/ Finish

\* Every step moves on or changes pc, and one is enabled as long as pc is "parsing":
\* weak fairness of Next, said of these two so that ENABLED is a comparison.
Advances ==
    /\ pc = "parsing"
    /\ pc' \in {"parsing", "done", "endless"}
    /\ place' \in 1 .. Len(tokens) + 1

Spec == Init /\ [][Next]_vars /\ WF_<<pc, place>>(Advances)

-----------------------------------------------------------------------------
\* Of the sources considered every one is parsed to its end: each turn of a recovery
\* loop passes a token, with one token missing or too many anywhere in a statement.
\* (the loops of statement.rs and expression.rs; a source of another form, which is
\* parsed without end, is that of FollowingStatementIsParsed)
Termination == <>(pc = "done")

\* A source without errors is in the tree as a whole: no token is passed, taken back
\* or left to a failed attempt without a word, but for separators.  (the None paths
\* without error_here, back_to_anchor)
NothingIsDroppedSilently ==
    pc = "done" /\ ~reported =>
        \A i \in DOMAIN tokens : i \in inNodes \/ tokens[i] \in {LF, ";", ","}

Line == SubSeq(tokens, 1, Len(tokens) - Len(Following) - 1)

FollowingIsStatement ==
    \E i \in DOMAIN statements : statements[i] = <<Len(Line) + 2, Len(tokens) + 1>>

\* What a line may lack without reaching for the next one.  Brackets are closed, but
\* for those of the lists that stop where a statement starts (close_delimiter); a
\* header finds the opening bracket of its body, and no access ends the line.
Count(kind) == Len(SelectSeq(Line, LAMBDA k : k = kind))

Balanced(opening, closing) == Count(opening) = Count(closing)

Finds(i, kinds, before) ==
    \E j \in i + 1 .. Len(Line) : Line[j] \in kinds /\ \A k \in i + 1 .. j : Line[k] \notin before

ListStops == Line[1] \in {"use", "import", "enum", "type"}

Isolated ==
    /\ Balanced("(", ")") /\ Balanced("<", ">")
    /\ ListStops \/ (Balanced("[", "]") /\ Balanced("{", "}"))
    /\ \A i \in DOMAIN Line :
        /\ Line[i] \in {"use", "if", "match", "enum", "implements"} => Finds(i, {"[", "{"}, {LF, "}"})
        /\ Line[i] \in {"inline", "opaque"} /\ KindAt(i + 1) = "|" => Finds(i + 1, {"|"}, {})
        /\ Line[i] \in {".", "?.", "::"} => \E j \in i + 1 .. Len(Line) : Line[j] # LF

\* A statement that goes wrong in its own line does not take the next line with it:
\* that one is parsed as the statement it is, behind `use [nixpkgs` too, the line of
\* missing_closing_delimiter_does_not_consume_the_next_statement (statement.rs:2967).
\* (recover_until, close_delimiter, the sets of statement starts)
BrokenLineStaysAlone == pc = "done" /\ Isolated => FollowingIsStatement

\* The following statement is parsed, whatever is wrong inside the one before.
\* (statement.rs:2686, recovers_inside_a_statement_and_parses_following_statements)
FollowingStatementIsParsed == <>(pc = "done" /\ (Isolated => FollowingIsStatement))
=============================================================================
