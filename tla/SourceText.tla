----------------------------- MODULE SourceText -----------------------------
(***************************************************************************)
(* Source files as the formatter and the write-back see them: a sequence   *)
(* of tokens, read and written by spans.  A statement is a run of tokens,  *)
(* statements are separated by line feeds and semicolons, a comment runs   *)
(* to the end of its line.  The module has comment ownership               *)
(* (light-nix-parser/src/comments.rs), the canonical formatter             *)
(* (light-nix-formatter/src/lib.rs), and the reading of the tokens as a    *)
(* module of Programs.                                                     *)
(*                                                                         *)
(* Spans are half open, [start, end), over positions 1..Len(text) + 1.  A   *)
(* statement is known by the position of its first token.                  *)
(* Output paths are numbered in the order of their text.                   *)
(***************************************************************************)
EXTENDS Programs

LOCAL INSTANCE SequencesExt
LOCAL INSTANCE TLC

CONSTANT Variant     \* values written Owner::Variant; the others are one literal token

LineFeed   == [tok |-> "line feed"]
Semicolon  == [tok |-> "semicolon"]
Comment(c) == [tok |-> "comment", comment |-> c]
Header     == [tok |-> "block comment"]

\* First tokens of statements.  Asserts and conditional claims, whose insides
\* no edit touches, are one token.
LetTok(x, tunable) == [tok |-> "let", symbol |-> x, tunable |-> tunable]
ClaimTok(p)        == [tok |-> "claim", path |-> p]
AssertTok(p, v)    == [tok |-> "assert", path |-> p, value |-> v]
IfTok(x, p, v)     == [tok |-> "if", symbol |-> x, path |-> p, value |-> v]

\* Tokens of values.
LiteralTok(v) == [tok |-> "literal", value |-> v]
NameTok(x)    == [tok |-> "name", symbol |-> x]
RootTok       == [tok |-> "root"]
FieldTok(p)   == [tok |-> "field", path |-> p]
OwnerTok      == [tok |-> "owner"]
VariantTok(v) == [tok |-> "variant", value |-> v]

StartsStatement(token) == token.tok \in {"let", "claim", "assert", "if"}
InValue(token) == token.tok \in {"literal", "name", "root", "field", "owner", "variant"}

(***************************************************************************)
(* Statements and what they say.                                           *)
(***************************************************************************)
Span(start, end) == [start |-> start, end |-> end]

\* The positions of a text at which Test holds, in order.
Positions(text, Test(_)) == SelectSeq([i \in DOMAIN text |-> i], Test)

StatementsOf(text) == {k \in DOMAIN text : StartsStatement(text[k])}

\* A statement ends behind the last token of its value.
EndOf(text, k) ==
    CHOOSE end \in (k + 1)..(Len(text) + 1) :
        /\ end = Len(text) + 1 \/ ~InValue(text[end])
        /\ \A i \in (k + 1)..(end - 1) : InValue(text[i])

StatementSpans(text) == [k \in StatementsOf(text) |-> Span(k, EndOf(text, k))]

Slice(text, span) == SubSeq(text, span.start, span.end - 1)

\* A value that is none of these does not resolve: audio.pipewire with its last
\* segment replaced reads audiofalse, Mode::A becomes ModeMode::B.
ReadsAs(value) ==
    CASE Len(value) = 1 /\ value[1].tok = "literal" -> {Const(value[1].value)}
      [] Len(value) = 1 /\ value[1].tok = "name"    -> {Ref(value[1].symbol)}
      [] Len(value) = 2 /\ value[1] = RootTok /\ value[2].tok = "field" ->
           {Read(value[2].path)}
      [] Len(value) = 2 /\ value[1] = OwnerTok /\ value[2].tok = "variant" ->
           {Const(value[2].value)}
      [] OTHER -> {}

StatementAt(text, span) ==
    LET head == text[span.start]
        value == ReadsAs(SubSeq(text, span.start + 1, span.end - 1))
    IN  CASE head.tok = "let" ->
               {IF head.tunable THEN Tunable(head.symbol, e) ELSE Let(head.symbol, e) : e \in value}
          [] head.tok = "claim" -> {Claim(head.path, e) : e \in value}
          [] head.tok = "assert" ->
               {AssertThat(Binary("eq", Read(head.path), Const(head.value)))}
          [] head.tok = "if" ->
               {Expr(If(Ref(head.symbol), <<Claim(head.path, Const(head.value))>>, NoBlock))}

\* Every name has a declaration or a path, or the statement is none of Programs.
Readable(text) ==
    \A k \in StatementsOf(text) : StatementAt(text, StatementSpans(text)[k]) # {}

ProgramOf(text) ==
    LET spans  == StatementSpans(text)
        starts == Positions(text, LAMBDA k : k \in StatementsOf(text))
    IN  [i \in DOMAIN starts |-> CHOOSE st \in StatementAt(text, spans[starts[i]]) : TRUE]

(***************************************************************************)
(* attach_comments: who owns the comment at position c of the text, as     *)
(* <<"trailing", k>> and <<"leading", k>> for the statement at k, or       *)
(* <<"footer">>.  A comment trails the first statement that ends before it *)
(* on its line.                                                            *)
(***************************************************************************)
Least(S) == CHOOSE n \in S : \A m \in S : n <= m
Greatest(S) == CHOOSE n \in S : \A m \in S : m <= n

OnLineOf(text, c) ==
    {k \in StatementsOf(text) :
        /\ EndOf(text, k) <= c
        /\ \A i \in EndOf(text, k)..(c - 1) : text[i] # LineFeed}

Below(text, c) == {k \in StatementsOf(text) : c < k}

Owner(text, c) ==
    LET before == OnLineOf(text, c)
        behind == Below(text, c)
    IN  IF before # {} THEN <<"trailing", Least(before)>>
        ELSE IF behind # {} THEN <<"leading", Least(behind)>>
        ELSE <<"footer">>

Comments(text) == {c \in DOMAIN text : text[c].tok = "comment"}

\* The comments a statement owns.
CommentsOf(text, owner) == {c \in Comments(text) : Owner(text, c) = owner}

(***************************************************************************)
(* format_source: statements sorted by group, claims by path, everything   *)
(* else in the order it had, each with its comments.  Blank lines are left *)
(* out: they follow from the groups.                                       *)
(***************************************************************************)
Group(head) ==
    CASE head.tok \in {"let", "assert"} -> 1   \* Bindings
      [] head.tok = "claim"             -> 2   \* Claims
      [] head.tok = "if"                -> 3   \* ControlFlow

SortKey(head) == IF head.tok = "claim" THEN head.path ELSE 0

\* The stable order of the statements at j and at k, by group and key.
SortsBefore(hj, hk, j, k) ==
    \/ Group(hj) < Group(hk)
    \/ /\ Group(hj) = Group(hk)
       /\ SortKey(hj) < SortKey(hk) \/ (SortKey(hj) = SortKey(hk) /\ j < k)

Lines(text, comments) ==
    FlattenSeq([i \in DOMAIN comments |-> <<text[comments[i]], LineFeed>>])

Formatted(text) ==
    LET spans == StatementSpans(text)
        before(j, k) == SortsBefore(text[j], text[k], j, k)
        owners == [c \in Comments(text) |-> Owner(text, c)]
        ownedBy(owner) ==
            Positions(text, LAMBDA c : c \in DOMAIN owners /\ owners[c] = owner)
        trailing(k) == ownedBy(<<"trailing", k>>)
        entry(k) == Lines(text, ownedBy(<<"leading", k>>))
                      \o Slice(text, spans[k])
                      \o [i \in DOMAIN trailing(k) |-> text[trailing(k)[i]]]
                      \o <<LineFeed>>
        order == SortSeq(Positions(text, LAMBDA k : k \in StatementsOf(text)), before)
    IN  SelectSeq(text, LAMBDA token : token = Header)
          \o FlattenSeq([i \in DOMAIN order |-> entry(order[i])])
          \o Lines(text, ownedBy(<<"footer">>))

(***************************************************************************)
(* Text edits.  apply_edits sorts them by decreasing start, edits with the *)
(* same start in the order they came, and replaces range after range.      *)
(***************************************************************************)
Replace(text, edit) ==
    SubSeq(text, 1, edit.start - 1) \o edit.text \o SubSeq(text, edit.end, Len(text))

\* Mutant: a map from start to edit, which keeps one edit for each start.
ApplyEditsByStart(text, edits) ==
    LET starts == Positions(text \o <<LineFeed>>, LAMBDA s : \E k \in DOMAIN edits : edits[k].start = s)
        editAt(s) == edits[CHOOSE k \in DOMAIN edits : edits[k].start = s]
    IN  FoldRight(LAMBDA s, done : Replace(done, editAt(s)), starts, text)

ApplyEdits(text, edits) ==
    LET later(j, k) == \/ edits[j].start > edits[k].start
                       \/ edits[j].start = edits[k].start /\ j < k
        order == SortSeq([k \in DOMAIN edits |-> k], later)
    IN  FoldLeft(Replace, text, [i \in DOMAIN order |-> edits[order[i]]])

\* format_edits, of a text and its formatted form: one edit from the first
\* difference to the last.
CommonPrefix(s, t) ==
    CHOOSE n \in 0..Len(s) :
        /\ n <= Len(t)
        /\ \A i \in 1..n : s[i] = t[i]
        /\ n = Len(s) \/ n = Len(t) \/ s[n + 1] # t[n + 1]

\* In what the prefix leaves of the shorter text.
CommonSuffix(s, t, prefix) ==
    LET most == Least({Len(s), Len(t)}) - prefix
    IN  CHOOSE n \in 0..most :
            /\ \A i \in 0..(n - 1) : s[Len(s) - i] = t[Len(t) - i]
            /\ n = most \/ s[Len(s) - n] # t[Len(t) - n]

EditBetween(text, formatted, prefix, suffix) ==
    IF formatted = text THEN <<>>
    ELSE <<[start |-> prefix + 1, end |-> Len(text) - suffix + 1,
            text |-> SubSeq(formatted, prefix + 1, Len(formatted) - suffix)]>>

\* Mutant: prefix and suffix may overlap.
FormatEditsOverlapping(text, formatted) ==
    EditBetween(text, formatted, CommonPrefix(text, formatted), CommonSuffix(text, formatted, 0))

FormatEdits(text, formatted) ==
    LET prefix == CommonPrefix(text, formatted)
    IN  EditBetween(text, formatted, prefix, CommonSuffix(text, formatted, prefix))
=============================================================================
