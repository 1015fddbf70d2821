---------------------------- MODULE EditingProofs ----------------------------
(***************************************************************************)
(* The edits of a plan do not overlap, for every source with one statement *)
(* a line and every plan whose values are written in place, and the edit   *)
(* format_edits answers makes of any text its formatted form.              *)
(***************************************************************************)
EXTENDS Editing, SequenceTheorems, LeastElements

(***************************************************************************)
(* Statements and comments of a text.                                      *)
(***************************************************************************)
LEMMA LeastIs ==
    ASSUME NEW S, S \subseteq Nat, S # {}
    PROVE  Least(S) \in S /\ \A m \in S : Least(S) <= m
BY LeastExists DEF Least

LEMMA GreatestIs ==
    ASSUME NEW S, NEW n \in Nat, S \subseteq 1..n, S # {}
    PROVE  Greatest(S) \in S /\ \A m \in S : m <= Greatest(S)
<1> DEFINE R == {n - m : m \in S}
<1>1. R \subseteq Nat /\ R # {}
  <2>1. \A m \in S : m \in 1..n
    OBVIOUS
  <2>2. R \subseteq Nat
    BY <2>1
  <2>3. R # {}
    OBVIOUS
  <2> QED
    BY <2>2, <2>3
<1>2. PICK r \in R : \A q \in R : r <= q
  <2> HIDE DEF R
  <2> QED
    BY <1>1, LeastExists
<1>3. PICK g \in S : r = n - g
  OBVIOUS
<1>4. \A m \in S : m <= g
  <2> SUFFICES ASSUME NEW m \in S PROVE m <= g
    OBVIOUS
  <2>1. n - g <= n - m
    BY <1>2, <1>3
  <2> QED
    BY <2>1
<1> QED
  BY <1>4 DEF Greatest

\* A statement ends behind the last token of its value.
LEMMA EndIs ==
    ASSUME NEW T, NEW s \in Seq(T), NEW k \in DOMAIN s
    PROVE  /\ EndOf(s, k) \in (k + 1)..(Len(s) + 1)
           /\ \A i \in (k + 1)..(EndOf(s, k) - 1) : InValue(s[i])
<1> DEFINE Ends == {e \in (k + 1)..(Len(s) + 1) : e = Len(s) + 1 \/ ~InValue(s[e])}
<1>1. k \in 1..Len(s) /\ Len(s) \in Nat
  OBVIOUS
<1>2. Len(s) + 1 \in Ends /\ Ends \subseteq Nat
  BY <1>1
<1>3. PICK end \in Ends : \A e \in Ends : end <= e
  <2> HIDE DEF Ends
  <2> QED
    BY <1>2, LeastExists
<1>4. \A i \in (k + 1)..(end - 1) : InValue(s[i])
  <2> SUFFICES ASSUME NEW i \in (k + 1)..(end - 1), ~InValue(s[i]) PROVE FALSE
    OBVIOUS
  <2>1. i \in Ends /\ i < end
    BY <1>1
  <2> QED
    BY <2>1, <1>1, <1>3
<1>5. end \in (k + 1)..(Len(s) + 1) /\ (end = Len(s) + 1 \/ ~InValue(s[end]))
  OBVIOUS
<1> HIDE DEF Ends
<1> QED
  BY <1>4, <1>5 DEF EndOf

\* What is no token of a value is not inside a statement that starts before it.
LEMMA EndsBefore ==
    ASSUME NEW T, NEW s \in Seq(T), NEW j \in StatementsOf(s), NEW i \in DOMAIN s,
           j < i, ~InValue(s[i])
    PROVE  EndOf(s, j) <= i
<1>1. j \in DOMAIN s /\ j \in 1..Len(s) /\ i \in 1..Len(s) /\ Len(s) \in Nat
  BY DEF StatementsOf
<1>2. /\ EndOf(s, j) \in (j + 1)..(Len(s) + 1)
      /\ \A n \in (j + 1)..(EndOf(s, j) - 1) : InValue(s[n])
  BY <1>1, EndIs
<1>3. CASE EndOf(s, j) > i
  <2>1. i \in (j + 1)..(EndOf(s, j) - 1)
    BY <1>1, <1>2, <1>3
  <2> QED
    BY <2>1, <1>2
<1> QED
  BY <1>1, <1>2, <1>3

\* Statements, comments and line feeds are no tokens of values, and apart.
LEMMA TokensApart ==
    ASSUME NEW s, NEW k \in StatementsOf(s), NEW c \in Comments(s)
    PROVE  /\ ~InValue(s[k]) /\ ~InValue(s[c])
           /\ k # c
           /\ s[c] # LineFeed
<1>1. s[k].tok \in {"let", "claim", "assert", "if"}
  BY DEF StatementsOf, StartsStatement
<1>2. s[c].tok = "comment"
  BY DEF Comments
<1>3. LineFeed.tok = "line feed"
  BY DEF LineFeed
<1>4. ~InValue(s[k])
  BY <1>1 DEF InValue
<1>5. ~InValue(s[c])
  BY <1>2 DEF InValue
<1>6. k # c /\ s[c] # LineFeed
  BY <1>1, <1>2, <1>3
<1> QED
  BY <1>4, <1>5, <1>6

\* A comment that trails j comes behind it on its line.
LEMMA TrailingIs ==
    ASSUME NEW T, NEW s \in Seq(T), NEW j \in StatementsOf(s),
           NEW c \in CommentsOf(s, <<"trailing", j>>)
    PROVE  EndOf(s, j) <= c /\ \A i \in EndOf(s, j)..(c - 1) : s[i] # LineFeed
<1>1. OnLineOf(s, c) # {} /\ Least(OnLineOf(s, c)) = j
  BY DEF CommentsOf, Owner
<1>2. OnLineOf(s, c) \subseteq Nat
  BY DEF OnLineOf, StatementsOf
<1>3. j \in OnLineOf(s, c)
  BY <1>1, <1>2, LeastIs
<1> QED
  BY <1>3 DEF OnLineOf

\* A comment that leads k comes before it, and below every statement before k.
LEMMA LeadingIs ==
    ASSUME NEW T, NEW s \in Seq(T), NEW k \in StatementsOf(s),
           NEW c \in CommentsOf(s, <<"leading", k>>)
    PROVE  /\ c < k
           /\ \A j \in StatementsOf(s) : j < k =>
                /\ EndOf(s, j) <= c
                /\ \E i \in EndOf(s, j)..(c - 1) : s[i] = LineFeed
<1>1. c \in Comments(s) /\ c \in DOMAIN s /\ c \in 1..Len(s) /\ Len(s) \in Nat
  BY DEF CommentsOf, Comments
<1>2. OnLineOf(s, c) = {} /\ Below(s, c) # {} /\ Least(Below(s, c)) = k
  BY DEF CommentsOf, Owner
<1>3. Below(s, c) \subseteq Nat
  BY DEF Below, StatementsOf
<1>4. k \in Below(s, c) /\ \A m \in Below(s, c) : k <= m
  BY <1>2, <1>3, LeastIs
<1>5. ASSUME NEW j \in StatementsOf(s), j < k
      PROVE  /\ EndOf(s, j) <= c
             /\ \E i \in EndOf(s, j)..(c - 1) : s[i] = LineFeed
  <2>1. j \in 1..Len(s) /\ k \in 1..Len(s)
    BY DEF StatementsOf
  <2>2. ~(c < j)
    BY <1>4, <1>5, <2>1 DEF Below
  <2>3. j # c /\ ~InValue(s[c])
    BY <1>1, TokensApart
  <2>4. EndOf(s, j) <= c
    BY <1>1, <2>1, <2>2, <2>3, EndsBefore
  <2> QED
    BY <1>2, <2>4 DEF OnLineOf
<1> QED
  BY <1>4, <1>5 DEF Below

(***************************************************************************)
(* The rows of claim_statement_span: a statement with its comments.        *)
(***************************************************************************)
Tokens == {original[i] : i \in DOMAIN original}

LEMMA OriginalIs == original \in Source => original \in Seq(Tokens)
BY SourceAssumption DEF Tokens

LEMMA CommentsInText ==
    ASSUME NEW T, NEW s \in Seq(T), NEW owner
    PROVE  CommentsOf(s, owner) \subseteq 1..Len(s)
BY DEF CommentsOf, Comments

\* A row begins at its first leading comment, or with its statement.
LEMMA RowStart ==
    ASSUME original \in Source, NEW k \in Statements
    PROVE  \/ ClaimStatementSpan(k).start = k
           \/ ClaimStatementSpan(k).start \in CommentsOf(original, <<"leading", k>>)
<1> DEFINE leading == CommentsOf(original, <<"leading", k>>)
<1>1. ClaimStatementSpan(k).start = IF leading = {} THEN k ELSE Least(leading)
  BY DEF ClaimStatementSpan, Span
<1>2. leading \subseteq Nat
  BY OriginalIs, CommentsInText
<1>3. leading # {} => Least(leading) \in leading
  BY <1>2, LeastIs
<1> QED
  BY <1>1, <1>3

\* A row ends behind its last trailing comment, or with its statement.
LEMMA RowEnd ==
    ASSUME original \in Source, NEW k \in Statements
    PROVE  \/ ClaimStatementSpan(k).end = EndOf(original, k)
           \/ \E c \in CommentsOf(original, <<"trailing", k>>) : ClaimStatementSpan(k).end = c + 1
<1> DEFINE trailing == CommentsOf(original, <<"trailing", k>>)
<1>1. ClaimStatementSpan(k).end =
        IF trailing = {} THEN EndOf(original, k) ELSE Greatest(trailing) + 1
  BY DEF ClaimStatementSpan, Span
<1>2. trailing \subseteq 1..Len(original) /\ Len(original) \in Nat
  BY OriginalIs, CommentsInText
<1>3. trailing # {} => Greatest(trailing) \in trailing
  BY <1>2, GreatestIs
<1> QED
  BY <1>1, <1>3

\* A statement lies in its row, and the row in the text.
LEMMA RowHolds ==
    ASSUME original \in Source, NEW k \in Statements
    PROVE  /\ k \in 1..Len(original) /\ Len(original) \in Nat
           /\ EndOf(original, k) \in (k + 1)..(Len(original) + 1)
           /\ ClaimStatementSpan(k).start \in 1..k
           /\ ClaimStatementSpan(k).end \in EndOf(original, k)..(Len(original) + 1)
<1>1. original \in Seq(Tokens) /\ k \in StatementsOf(original)
  BY OriginalIs DEF Statements
<1>2. k \in 1..Len(original) /\ k \in DOMAIN original /\ Len(original) \in Nat
  BY <1>1 DEF StatementsOf
<1>3. EndOf(original, k) \in (k + 1)..(Len(original) + 1)
  BY <1>1, <1>2, EndIs
<1>4. ClaimStatementSpan(k).start \in 1..k
  <2>1. \A c \in CommentsOf(original, <<"leading", k>>) : c \in 1..Len(original) /\ c < k
    BY <1>1, LeadingIs, CommentsInText
  <2> QED
    BY <2>1, <1>2, RowStart
<1>5. ClaimStatementSpan(k).end \in EndOf(original, k)..(Len(original) + 1)
  <2>1. \A c \in CommentsOf(original, <<"trailing", k>>) :
           c \in 1..Len(original) /\ EndOf(original, k) <= c
    BY <1>1, TrailingIs, CommentsInText
  <2> QED
    BY <2>1, <1>2, <1>3, RowEnd
<1> QED
  BY <1>2, <1>3, <1>4, <1>5

\* Rows on lines of their own follow one another: a trailing comment ends with
\* its line, and a leading comment begins below the statement before it.
LEMMA RowsApart ==
    ASSUME original \in Source, OwnLines, NEW j \in Statements, NEW k \in Statements, j < k
    PROVE  ClaimStatementSpan(j).end <= ClaimStatementSpan(k).start
<1> DEFINE start == ClaimStatementSpan(k).start
<1>1. original \in Seq(Tokens) /\ j \in StatementsOf(original) /\ k \in StatementsOf(original)
  BY OriginalIs DEF Statements
<1>2. /\ start \in 1..k /\ k \in 1..Len(original) /\ Len(original) \in Nat
      /\ EndOf(original, j) \in 1..(Len(original) + 1)
  BY RowHolds
\* In either case the row of k begins below the line of j.
<1>3. EndOf(original, j) <= start /\ \E i \in EndOf(original, j)..(start - 1) : original[i] = LineFeed
  <2>1. CASE start = k
    <3>1. PICK i \in EndOf(original, j)..(k - 1) : original[i] = LineFeed
      BY DEF OwnLines
    <3> QED
      BY <3>1, <2>1, <1>2
  <2>2. CASE start \in CommentsOf(original, <<"leading", k>>)
    BY <2>2, <1>1, LeadingIs
  <2> QED
    BY <2>1, <2>2, RowStart
<1>4. PICK i \in EndOf(original, j)..(start - 1) : original[i] = LineFeed
  BY <1>3
<1>5. ASSUME NEW c \in CommentsOf(original, <<"trailing", j>>)
      PROVE  c + 1 <= start
  <2>1. c \in 1..Len(original) /\ c \in Comments(original)
    BY <1>1, CommentsInText DEF CommentsOf
  <2>2. ~(i \in EndOf(original, j)..(c - 1))
    BY <1>1, <1>4, TrailingIs
  <2>3. i # c
    BY <1>1, <1>4, <2>1, TokensApart
  <2> QED
    BY <2>1, <2>2, <2>3, <1>2
<1> HIDE DEF start
<1>6. ClaimStatementSpan(j).end <= start
  BY <1>3, <1>5, RowEnd
<1> QED
  BY <1>6 DEF start

(***************************************************************************)
(* Edits of texts.                                                         *)
(***************************************************************************)
LEMMA PrefixIs ==
    ASSUME NEW T, NEW s \in Seq(T), NEW t \in Seq(T)
    PROVE  /\ CommonPrefix(s, t) \in 0..Len(s) /\ CommonPrefix(s, t) <= Len(t)
           /\ \A i \in 1..CommonPrefix(s, t) : s[i] = t[i]
<1> DEFINE n == CommonPrefix(s, t)
           Ends == {e \in 0..Len(s) : e = Len(s) \/ e = Len(t) \/ s[e + 1] # t[e + 1]}
<1>1. Len(s) \in Nat /\ Len(t) \in Nat
  OBVIOUS
<1>2. Len(s) \in Ends /\ Ends \subseteq Nat
  BY <1>1
<1>3. PICK end \in Ends : \A e \in Ends : end <= e
  <2> HIDE DEF Ends
  <2> QED
    BY <1>2, LeastExists
<1>4. end \in 0..Len(s) /\ (end = Len(s) \/ end = Len(t) \/ s[end + 1] # t[end + 1])
  OBVIOUS
<1>5. end <= Len(t)
  <2>1. CASE Len(t) < end
    <3>1. Len(t) \in Ends
      BY <2>1, <1>1, <1>4
    <3> HIDE DEF Ends
    <3> QED
      BY <3>1, <2>1, <1>1, <1>3, <1>4
  <2> QED
    BY <2>1, <1>1, <1>4
<1>6. \A i \in 1..end : s[i] = t[i]
  <2> SUFFICES ASSUME NEW i \in 1..end, s[i] # t[i] PROVE FALSE
    OBVIOUS
  <2>1. i - 1 \in Ends /\ i - 1 < end
    BY <1>1, <1>4
  <2> HIDE DEF Ends
  <2> QED
    BY <2>1, <1>1, <1>3, <1>4
<1> HIDE DEF Ends
<1> QED
  BY <1>4, <1>5, <1>6 DEF CommonPrefix

LEMMA SuffixIs ==
    ASSUME NEW T, NEW s \in Seq(T), NEW t \in Seq(T), NEW prefix \in Nat,
           prefix <= Len(s), prefix <= Len(t)
    PROVE  /\ CommonSuffix(s, t, prefix) \in Nat
           /\ CommonSuffix(s, t, prefix) + prefix <= Len(s)
           /\ CommonSuffix(s, t, prefix) + prefix <= Len(t)
           /\ \A i \in 0..(CommonSuffix(s, t, prefix) - 1) : s[Len(s) - i] = t[Len(t) - i]
<1> DEFINE most == Least({Len(s), Len(t)}) - prefix
           Ends == {e \in 0..most : e = most \/ s[Len(s) - e] # t[Len(t) - e]}
<1>1. Len(s) \in Nat /\ Len(t) \in Nat
  OBVIOUS
<1>2. most \in Nat /\ most + prefix <= Len(s) /\ most + prefix <= Len(t)
  <2>1. /\ Least({Len(s), Len(t)}) \in {Len(s), Len(t)}
        /\ \A m \in {Len(s), Len(t)} : Least({Len(s), Len(t)}) <= m
    BY <1>1, LeastIs
  <2> QED
    BY <1>1, <2>1
<1> HIDE DEF most
<1>3. most \in Ends /\ Ends \subseteq Nat
  BY <1>2
<1>4. PICK end \in Ends : \A e \in Ends : end <= e
  <2> HIDE DEF Ends
  <2> QED
    BY <1>3, LeastExists
<1>5. end \in 0..most /\ (end = most \/ s[Len(s) - end] # t[Len(t) - end])
  OBVIOUS
<1>6. \A i \in 0..(end - 1) : s[Len(s) - i] = t[Len(t) - i]
  <2> SUFFICES ASSUME NEW i \in 0..(end - 1), s[Len(s) - i] # t[Len(t) - i] PROVE FALSE
    OBVIOUS
  <2>1. i \in Ends /\ i < end
    BY <1>2, <1>5
  <2> HIDE DEF Ends
  <2> QED
    BY <2>1, <1>2, <1>4, <1>5
<1> HIDE DEF Ends
<1>7. \E n \in 0..most : /\ \A i \in 0..(n - 1) : s[Len(s) - i] = t[Len(t) - i]
                         /\ n = most \/ s[Len(s) - n] # t[Len(t) - n]
  BY <1>5, <1>6
<1>8. /\ CommonSuffix(s, t, prefix) \in 0..most
      /\ \A i \in 0..(CommonSuffix(s, t, prefix) - 1) : s[Len(s) - i] = t[Len(t) - i]
  BY <1>7 DEF CommonSuffix, most
<1> QED
  BY <1>2, <1>8

LEMMA SliceIs ==
    ASSUME NEW T, NEW s \in Seq(T), NEW m \in 1..(Len(s) + 1), NEW n \in (m - 1)..Len(s)
    PROVE  /\ SubSeq(s, m, n) \in Seq(T)
           /\ Len(SubSeq(s, m, n)) = n - m + 1
           /\ \A i \in 1..(n - m + 1) : SubSeq(s, m, n)[i] = s[m + i - 1]
<1>1. \A i \in m..n : s[i] \in T
  BY ElementOfSeq, LenProperties
<1>2. Len(s) \in Nat
  BY LenProperties
<1> QED
  BY <1>1, <1>2, SubSeqProperties

\* Taking two texts apart that were put together.
LEMMA PartsOfConcat ==
    ASSUME NEW T, NEW s \in Seq(T), NEW t \in Seq(T)
    PROVE  /\ SubSeq(s \o t, 1, Len(s)) = s
           /\ SubSeq(s \o t, Len(s) + 1, Len(s \o t)) = t
<1>1. Len(s) \in Nat /\ Len(t) \in Nat
  BY LenProperties
<1>2. /\ s \o t \in Seq(T) /\ Len(s \o t) = Len(s) + Len(t)
      /\ \A i \in 1..(Len(s) + Len(t)) :
           (s \o t)[i] = IF i <= Len(s) THEN s[i] ELSE t[i - Len(s)]
  BY ConcatProperties
<1> DEFINE u == s \o t
<1> HIDE DEF u
<1>3. /\ u \in Seq(T) /\ Len(u) = Len(s) + Len(t)
      /\ \A i \in 1..(Len(s) + Len(t)) : u[i] = IF i <= Len(s) THEN s[i] ELSE t[i - Len(s)]
  BY <1>2 DEF u
<1>4. SubSeq(u, 1, Len(s)) = s
  <2>1. /\ SubSeq(u, 1, Len(s)) \in Seq(T) /\ Len(SubSeq(u, 1, Len(s))) = Len(s)
        /\ \A i \in 1..Len(s) : SubSeq(u, 1, Len(s))[i] = u[i]
    BY <1>1, <1>3, SliceIs
  <2>2. \A i \in 1..Len(s) : SubSeq(u, 1, Len(s))[i] = s[i]
    BY <1>1, <1>3, <2>1
  <2> QED
    BY <2>1, <2>2, SeqEqual
<1>5. SubSeq(u, Len(s) + 1, Len(u)) = t
  <2> DEFINE v == SubSeq(u, Len(s) + 1, Len(u))
  <2>1. /\ v \in Seq(T) /\ Len(v) = Len(t)
        /\ \A i \in 1..Len(t) : v[i] = u[Len(s) + i]
    BY <1>1, <1>3, SliceIs
  <2> HIDE DEF v
  <2>2. \A i \in 1..Len(t) : u[Len(s) + i] = t[i]
    BY <1>1, <1>3
  <2>3. v = t
    BY <2>1, <2>2, SeqEqual
  <2> QED
    BY <2>3 DEF v
<1> QED
  BY <1>4, <1>5 DEF u

\* What an editor is sent turns any text into its formatted form: nothing for
\* a text that is in form, else one edit, of a range of the text
\* (format_edits: prefix and suffix never overlap).
THEOREM FormatEditsReformat ==
    ASSUME NEW T, NEW s \in Seq(T), NEW formatted \in Seq(T)
    PROVE  \/ s = formatted /\ FormatEdits(s, formatted) = <<>>
           \/ \E e : /\ FormatEdits(s, formatted) = <<e>>
                     /\ e.start \in 1..(Len(s) + 1)
                     /\ e.end \in e.start..(Len(s) + 1)
                     /\ Replace(s, e) = formatted
<1>1. CASE s = formatted
  BY <1>1 DEF FormatEdits, EditBetween
<1>2. CASE s # formatted
  <2> DEFINE t == formatted
             prefix == CommonPrefix(s, t)
             suffix == CommonSuffix(s, t, prefix)
             new == SubSeq(t, prefix + 1, Len(t) - suffix)
             e == [start |-> prefix + 1, end |-> Len(s) - suffix + 1, text |-> new]
  <2>1. Len(s) \in Nat /\ Len(t) \in Nat
    BY LenProperties
  <2>2. /\ prefix \in 0..Len(s) /\ prefix <= Len(t)
        /\ \A i \in 1..prefix : s[i] = t[i]
    BY PrefixIs
  <2>3. /\ suffix \in Nat /\ suffix + prefix <= Len(s) /\ suffix + prefix <= Len(t)
        /\ \A i \in 0..(suffix - 1) : s[Len(s) - i] = t[Len(t) - i]
    <3> HIDE DEF prefix
    <3> QED
      BY <2>1, <2>2, SuffixIs
  <2>4. FormatEdits(s, t) = <<e>>
    BY <1>2 DEF FormatEdits, EditBetween
  <2> HIDE DEF prefix, suffix
  <2>5. /\ e.start = prefix + 1 /\ e.end = Len(s) - suffix + 1 /\ e.text = new
        /\ e.start \in 1..(Len(s) + 1) /\ e.end \in e.start..(Len(s) + 1)
    BY <2>1, <2>2, <2>3
  <2> DEFINE kept(u) == SubSeq(u, 1, prefix)
             rest(u) == SubSeq(u, Len(u) - suffix + 1, Len(u))
  <2>6. kept(s) = kept(t)
    <3>1. /\ kept(s) \in Seq(T) /\ Len(kept(s)) = prefix
          /\ kept(t) \in Seq(T) /\ Len(kept(t)) = prefix
          /\ \A i \in 1..prefix : kept(s)[i] = s[i] /\ kept(t)[i] = t[i]
      BY <2>1, <2>2, SliceIs
    <3> HIDE DEF kept
    <3>2. \A i \in 1..Len(kept(s)) : kept(s)[i] = kept(t)[i]
      BY <2>2, <3>1
    <3> QED
      BY <3>1, <3>2, SeqEqual
  <2>7. rest(s) = rest(t)
    <3>1. /\ rest(s) \in Seq(T) /\ Len(rest(s)) = suffix
          /\ \A i \in 1..suffix : rest(s)[i] = s[Len(s) - suffix + 1 + i - 1]
      BY <2>1, <2>2, <2>3, SliceIs
    <3>2. /\ rest(t) \in Seq(T) /\ Len(rest(t)) = suffix
          /\ \A i \in 1..suffix : rest(t)[i] = t[Len(t) - suffix + 1 + i - 1]
      BY <2>1, <2>2, <2>3, SliceIs
    <3> HIDE DEF rest
    <3>3. ASSUME NEW i \in 1..suffix PROVE rest(s)[i] = rest(t)[i]
      <4>1. /\ suffix - i \in 0..(suffix - 1)
            /\ Len(s) - suffix + 1 + i - 1 = Len(s) - (suffix - i)
            /\ Len(t) - suffix + 1 + i - 1 = Len(t) - (suffix - i)
        BY <2>1, <2>3
      <4> QED
        BY <3>1, <3>2, <4>1, <2>3
    <3> QED
      BY <3>1, <3>2, <3>3, SeqEqual
  <2>8. (kept(t) \o new) \o rest(t) = t
    <3> DEFINE split == Len(t) - suffix
    <3>1. /\ 1 \in 1..(Len(t) + 1) /\ prefix \in (1 - 1)..Len(t) /\ split \in prefix..Len(t)
          /\ split \in (1 - 1)..Len(t) /\ Len(t) \in split..Len(t)
      BY <2>1, <2>2, <2>3
    <3> HIDE DEF split
    <3>2. SubSeq(t, 1, prefix) \o SubSeq(t, prefix + 1, split) = SubSeq(t, 1, split)
      BY <3>1, ConcatAdjacentSubSeq, Zenon
    <3>3. SubSeq(t, 1, split) \o SubSeq(t, split + 1, Len(t)) = SubSeq(t, 1, Len(t))
      BY <3>1, ConcatAdjacentSubSeq, Zenon
    <3>4. (kept(t) \o new) \o rest(t) = SubSeq(t, 1, Len(t))
      BY <3>2, <3>3, Zenon DEF split
    <3> QED
      BY <3>4, SubSeqFull, Zenon
  <2>9. Replace(s, e) = (kept(s) \o new) \o rest(s)
    <3>1. Replace(s, e) = (SubSeq(s, 1, e.start - 1) \o e.text) \o SubSeq(s, e.end, Len(s))
      BY DEF Replace
    <3>2. e.start - 1 = prefix /\ e.end = Len(s) - suffix + 1
      BY <2>1, <2>2, <2>5
    <3> HIDE DEF e
    <3> QED
      BY <3>1, <3>2, <2>5
  <2> HIDE DEF e, new, kept, rest
  <2> QED
    BY <2>4, <2>5, <2>6, <2>7, <2>8, <2>9
<1> QED
  BY <1>1, <1>2

\* What stands before and behind a range is found there.
LEMMA PartsStay ==
    ASSUME NEW T, NEW front \in Seq(T), NEW gone \in Seq(T), NEW behind \in Seq(T)
    PROVE  LET one == (front \o gone) \o behind
           IN  /\ SubSeq(one, 1, Len(front)) = front
               /\ SubSeq(one, Len(front) + Len(gone) + 1, Len(one)) = behind
<1> DEFINE one == (front \o gone) \o behind
<1>1. /\ front \o gone \in Seq(T) /\ Len(front \o gone) = Len(front) + Len(gone)
      /\ gone \o behind \in Seq(T)
  BY ConcatProperties
<1>2. one = front \o (gone \o behind)
  BY ConcatAssociative
<1>3. SubSeq(one, 1, Len(front)) = front
  <2> HIDE DEF one
  <2> QED
    BY <1>1, <1>2, PartsOfConcat
<1>4. SubSeq(one, Len(front) + Len(gone) + 1, Len(one)) = behind
  BY <1>1, PartsOfConcat
<1> QED
  BY <1>3, <1>4

\* ahead, middle, new and back, put together from either end.
Regroups(T, ahead, middle, new, back) ==
    ((ahead \o middle) \o new) \o back = ahead \o (middle \o (new \o back))

LEMMA ConcatRegroups ==
    ASSUME NEW T, NEW ahead \in Seq(T), NEW middle \in Seq(T), NEW new \in Seq(T), NEW back \in Seq(T)
    PROVE  Regroups(T, ahead, middle, new, back)
<1> DEFINE rest == new \o back
<1>1. ahead \o middle \in Seq(T)
  BY ConcatProperties
<1>2. rest \in Seq(T)
  BY ConcatProperties
<1> HIDE DEF rest
<1>3. ((ahead \o middle) \o new) \o back = (ahead \o middle) \o (new \o back)
  BY <1>1, ConcatAssociative
<1>4. (ahead \o middle) \o rest = ahead \o (middle \o rest)
  BY <1>2, ConcatAssociative
<1> QED
  BY <1>3, <1>4, Zenon DEF rest, Regroups

\* Two edits on ranges that do not overlap, applied from back to front, each
\* replace the range of the source they were planned for, and nothing else
\* (apply_edits sorts by decreasing start).
THEOREM BackToFront ==
    ASSUME NEW T, NEW s \in Seq(T), NEW e, NEW f, e.text \in Seq(T), f.text \in Seq(T),
           e.start \in 1..(Len(s) + 1), e.end \in e.start..(Len(s) + 1),
           f.start \in 1..(Len(s) + 1), f.end \in f.start..(Len(s) + 1),
           e.end <= f.start
    PROVE  Replace(Replace(s, f), e) =
             SubSeq(s, 1, e.start - 1) \o e.text \o SubSeq(s, e.end, f.start - 1)
                \o f.text \o SubSeq(s, f.end, Len(s))
<1> DEFINE i == e.start - 1
           j == e.end - 1
           k == f.start - 1
           one == Replace(s, f)
<1>1. Len(s) \in Nat
  BY LenProperties
<1>2. /\ 1 \in 1..(Len(s) + 1) /\ i \in (1 - 1)..Len(s) /\ j \in i..Len(s)
      /\ j \in (1 - 1)..Len(s) /\ k \in j..Len(s)
      /\ i + 1 = e.start /\ j + 1 = e.end
  BY <1>1
<1>3. PICK front \in Seq(T), gone \in Seq(T), middle \in Seq(T), back \in Seq(T) :
        /\ front = SubSeq(s, 1, e.start - 1) /\ Len(front) = e.start - 1
        /\ gone = SubSeq(s, e.start, e.end - 1) /\ Len(gone) = e.end - e.start
        /\ middle = SubSeq(s, e.end, f.start - 1)
        /\ back = SubSeq(s, f.end, Len(s))
  <2>1. /\ SubSeq(s, 1, e.start - 1) \in Seq(T) /\ Len(SubSeq(s, 1, e.start - 1)) = e.start - 1
        /\ SubSeq(s, e.start, e.end - 1) \in Seq(T)
        /\ Len(SubSeq(s, e.start, e.end - 1)) = e.end - e.start
    BY <1>1, SliceIs
  <2>2. SubSeq(s, e.end, f.start - 1) \in Seq(T) /\ SubSeq(s, f.end, Len(s)) \in Seq(T)
    BY <1>1, SliceIs
  <2> QED
    BY <2>1, <2>2, Zenon
<1>4. SubSeq(s, 1, f.start - 1) = (front \o gone) \o middle
  <2> HIDE DEF i, j, k
  <2>1. SubSeq(s, 1, i) \o SubSeq(s, i + 1, j) = SubSeq(s, 1, j)
    BY <1>2, ConcatAdjacentSubSeq, Zenon
  <2>2. SubSeq(s, 1, j) \o SubSeq(s, j + 1, k) = SubSeq(s, 1, k)
    BY <1>2, ConcatAdjacentSubSeq, Zenon
  <2>3. (SubSeq(s, 1, i) \o SubSeq(s, e.start, j)) \o SubSeq(s, e.end, k) = SubSeq(s, 1, k)
    BY <1>2, <2>1, <2>2, Zenon
  <2> QED
    BY <1>3, <2>3, Zenon DEF i, j, k
<1>5. one = (((front \o gone) \o middle) \o f.text) \o back
  BY <1>3, <1>4, Zenon DEF Replace
<1> DEFINE new == f.text
           ahead == front \o gone
           late == front \o e.text
           rest == new \o back
           behind == middle \o rest
<1>6. /\ new \in Seq(T) /\ rest \in Seq(T) /\ behind \in Seq(T)
      /\ ahead \in Seq(T) /\ late \in Seq(T)
      /\ ahead \o middle \in Seq(T) /\ late \o middle \in Seq(T)
  <2>1. ahead \in Seq(T)
    BY ConcatProperties
  <2>2. late \in Seq(T)
    BY ConcatProperties
  <2>3. rest \in Seq(T)
    BY ConcatProperties
  <2> HIDE DEF ahead, late, rest
  <2>4. ahead \o middle \in Seq(T) /\ late \o middle \in Seq(T) /\ behind \in Seq(T)
    BY <2>1, <2>2, <2>3, ConcatProperties
  <2> QED
    BY <2>1, <2>2, <2>3, <2>4
<1>7. one = ahead \o behind
  <2>1. Regroups(T, ahead, middle, new, back)
    BY <1>6, ConcatRegroups
  <2> HIDE DEF new, ahead
  <2>2. one = ((ahead \o middle) \o new) \o back
    <3> HIDE DEF one
    <3> QED
      BY <1>5, Zenon DEF ahead, new
  <2> QED
    BY <2>1, <2>2, Zenon DEF Regroups
\* What is applied later finds its range where the source had it.
<1>8. /\ SubSeq(one, 1, Len(front)) = front
      /\ SubSeq(one, Len(front) + Len(gone) + 1, Len(one)) = behind
  <2> HIDE DEF one, behind
  <2> QED
    BY <1>6, <1>7, PartsStay
<1> HIDE DEF one
<1>9. Len(front) = e.start - 1 /\ Len(front) + Len(gone) + 1 = e.end
  <2>1. Len(front) = e.start - 1 /\ Len(gone) = e.end - e.start
    BY <1>3, Zenon
  <2>2. (e.start - 1) + (e.end - e.start) + 1 = e.end
    BY <1>1
  <2> QED
    BY <2>1, <2>2, Zenon
<1>10. Replace(one, e) = late \o behind
  <2> HIDE DEF behind
  <2> QED
    BY <1>8, <1>9, Zenon DEF Replace
<1>11. late \o behind = ((late \o middle) \o new) \o back
  <2>1. Regroups(T, late, middle, new, back)
    BY <1>6, ConcatRegroups
  <2> QED
    BY <2>1, Zenon DEF Regroups
<1> HIDE DEF behind
<1> QED
  BY <1>3, <1>10, <1>11, Zenon DEF one, new, late

(***************************************************************************)
(* The edits of a plan.                                                    *)
(***************************************************************************)

\* The statement an edit is made at.
Home(target) == IF target.kind = "binding" THEN LetOfName(target.name) ELSE ClaimOf(target.name)

\* An edit that appends a claim is an empty range at the end of the text.
Appends(e) == e.start = Len(original) + 1 /\ e.end = Len(original) + 1

\* Every other edit lies in the row of its statement.
InRow(e) ==
    /\ Home(e.target) \in Statements
    /\ ClaimStatementSpan(Home(e.target)).start <= e.start
    /\ e.end <= ClaimStatementSpan(Home(e.target)).end
    /\ e.start \in Int /\ e.end \in Int
    /\ IF e.target.kind = "binding"
       THEN Home(e.target) \in LetsOf(e.target.name)
       ELSE Home(e.target) \in ClaimTokens(e.target.name)

\* The edits of one plan, as plan_edits makes them.
Planned(plan) == Representable(plan) /\ edits = PlannedEdits(plan)

LEMMA LetOfNameIs ==
    ASSUME NEW x, LetsOf(x) # {}
    PROVE  LetOfName(x) \in LetsOf(x) /\ LetOfName(x) \in Statements
BY DEF LetOfName, LetsOf

LEMMA ClaimOfIs ==
    ASSUME NEW p, ClaimTokens(p) # {}
    PROVE  ClaimOf(p) \in ClaimTokens(p) /\ ClaimOf(p) \in Statements
BY DEF ClaimOf, ClaimTokens

LEMMA RenderedIs == ASSUME NEW v PROVE Rendered(v) # <<>>
<1>1. CASE v \in Variant
  <2>1. Len(Rendered(v)) = 2
    BY <1>1 DEF Rendered
  <2> QED
    BY <2>1
<1>2. CASE v \notin Variant
  <2>1. Len(Rendered(v)) = 1
    BY <1>2 DEF Rendered
  <2> QED
    BY <2>1
<1> QED
  BY <1>1, <1>2

\* A value written in place lies in the row of its statement.
LEMMA VerbatimInRow ==
    ASSUME original \in Source, NEW k \in Statements, Verbatim(k)
    PROVE  /\ ClaimStatementSpan(k).start <= OriginOf[k].start
           /\ OriginOf[k].end <= ClaimStatementSpan(k).end
           /\ OriginOf[k].start \in Int /\ OriginOf[k].end \in Int
<1>1. /\ OriginOf[k].start = k + 1 /\ OriginOf[k].end = k + 2
      /\ Spans[k].end = k + 2
  BY DEF Verbatim, Span
<1>2. Spans[k].end = EndOf(original, k)
  BY DEF Spans, StatementSpans, Statements, Span
<1> QED
  BY <1>1, <1>2, RowHolds

\* The edit of a binding.
LEMMA TunableEditInRow ==
    ASSUME original \in Source, VerbatimEdits, NEW plan, Planned(plan),
           NEW x \in DOMAIN plan.tunables, NEW e \in edits,
           e = TextEdit(BindingTarget(x), OriginOf[LetOfName(x)], Rendered(plan.tunables[x]))
    PROVE  InRow(e)
<1>1. e.target.kind = "binding" /\ e.target.name = x /\ e.text # <<>>
  BY RenderedIs DEF TextEdit, BindingTarget
<1>2. e.start = OriginOf[LetOfName(x)].start /\ e.end = OriginOf[LetOfName(x)].end
  BY DEF TextEdit
<1>3. LetOfName(x) \in LetsOf(x) /\ LetOfName(x) \in Statements
  BY LetOfNameIs DEF Planned, Representable
<1>4. Verbatim(LetOfName(x))
  BY <1>1 DEF VerbatimEdits, Replaces
<1> QED
  BY <1>1, <1>2, <1>3, <1>4, VerbatimInRow DEF InRow, Home

\* The edit of an output.
LEMMA OutputEditInRow ==
    ASSUME original \in Source, VerbatimEdits, NEW plan, Planned(plan),
           NEW p \in DOMAIN plan.outputs, NEW e \in edits,
           e = OutputEdit(p, plan.outputs[p])
    PROVE  /\ e.target = OutputTarget(p)
           /\ InRow(e) \/ Appends(e)
<1> DEFINE v == plan.outputs[p]
           k == ClaimOf(p)
<1>1. CASE v = Absent
  <2>1. e = TextEdit(OutputTarget(p), ClaimStatementSpan(k), <<>>)
    BY <1>1 DEF OutputEdit
  <2>2. e.target.kind = "output" /\ e.target.name = p
    BY <2>1 DEF TextEdit, OutputTarget
  <2>3. e.start = ClaimStatementSpan(k).start /\ e.end = ClaimStatementSpan(k).end
    BY <2>1 DEF TextEdit
  <2>4. k \in ClaimTokens(p) /\ k \in Statements
    <3>1. ClaimTokens(p) # {}
      BY <1>1 DEF Planned, Representable, Deletable, Unconditional
    <3> QED
      BY <3>1, ClaimOfIs
  <2>5. e.start \in Int /\ e.end \in Int
    BY <2>3, <2>4, RowHolds
  <2>6. InRow(e)
    <3>1. Home(e.target) = k
      BY <2>2 DEF Home
    <3> QED
      BY <3>1, <2>2, <2>3, <2>4, <2>5 DEF InRow
  <2> QED
    BY <2>1, <2>6 DEF TextEdit
<1>2. CASE v # Absent /\ ClaimTokens(p) = {}
  <2>1. e = InsertClaim(p, v)
    BY <1>2 DEF OutputEdit
  <2>2. e.target = OutputTarget(p) /\ e.start = Len(original) + 1 /\ e.end = Len(original) + 1
    BY <2>1 DEF InsertClaim, TextEdit, Span
  <2> QED
    BY <2>2 DEF Appends
<1>3. CASE v # Absent /\ ClaimTokens(p) # {}
  <2>1. e = TextEdit(OutputTarget(p), OriginOf[k], Rendered(v))
    BY <1>3 DEF OutputEdit
  <2>2. e.target.kind = "output" /\ e.target.name = p /\ e.text # <<>>
    BY <2>1, RenderedIs DEF TextEdit, OutputTarget
  <2>3. e.start = OriginOf[k].start /\ e.end = OriginOf[k].end
    BY <2>1 DEF TextEdit
  <2>4. k \in ClaimTokens(p) /\ k \in Statements
    BY <1>3, ClaimOfIs
  <2>5. Verbatim(k)
    BY <2>2, <1>3 DEF VerbatimEdits, Replaces
  <2>6. InRow(e)
    <3>1. Home(e.target) = k
      BY <2>2 DEF Home
    <3> QED
      BY <3>1, <2>2, <2>3, <2>4, <2>5, VerbatimInRow DEF InRow
  <2> QED
    BY <2>1, <2>6 DEF TextEdit
<1> QED
  BY <1>1, <1>2, <1>3

\* A target has one edit, in its row or behind the text.
LEMMA EditsByTarget ==
    ASSUME original \in Source, VerbatimEdits, NEW plan, Planned(plan)
    PROVE  /\ \A e \in edits : InRow(e) \/ Appends(e)
           /\ \A e, f \in edits : e.target = f.target => e = f
           /\ \A e \in edits : e.target = BindingTarget(e.target.name)
                                 \/ e.target = OutputTarget(e.target.name)
<1>1. ASSUME NEW e \in edits
      PROVE  \/ \E x \in DOMAIN plan.tunables :
                  e = TextEdit(BindingTarget(x), OriginOf[LetOfName(x)], Rendered(plan.tunables[x]))
             \/ \E p \in DOMAIN plan.outputs : e = OutputEdit(p, plan.outputs[p])
  BY DEF Planned, PlannedEdits, TunableEdits
<1>2. \A e \in edits : InRow(e) \/ Appends(e)
  BY <1>1, TunableEditInRow, OutputEditInRow
<1>3. ASSUME NEW e \in edits, NEW f \in edits, e.target = f.target
      PROVE  e = f
  <2>1. \A x : BindingTarget(x).kind = "binding" /\ BindingTarget(x).name = x
    BY DEF BindingTarget
  <2>2. \A p : OutputTarget(p).kind = "output" /\ OutputTarget(p).name = p
    BY DEF OutputTarget
  <2>3. \A x, span, new : TextEdit(BindingTarget(x), span, new).target = BindingTarget(x)
    BY DEF TextEdit
  <2>4. CASE e.target.kind = "binding"
    <3>1. PICK x \in DOMAIN plan.tunables :
                  e = TextEdit(BindingTarget(x), OriginOf[LetOfName(x)], Rendered(plan.tunables[x]))
      BY <2>2, <2>4, <1>1, OutputEditInRow
    <3>2. PICK y \in DOMAIN plan.tunables :
                  f = TextEdit(BindingTarget(y), OriginOf[LetOfName(y)], Rendered(plan.tunables[y]))
      BY <2>2, <2>4, <1>1, <1>3, OutputEditInRow
    <3>3. x = y
      BY <3>1, <3>2, <2>1, <2>3, <1>3
    <3> QED
      BY <3>1, <3>2, <3>3
  <2>5. CASE e.target.kind # "binding"
    <3>1. PICK p \in DOMAIN plan.outputs : e = OutputEdit(p, plan.outputs[p])
      BY <2>1, <2>3, <2>5, <1>1
    <3>2. PICK q \in DOMAIN plan.outputs : f = OutputEdit(q, plan.outputs[q])
      BY <2>1, <2>3, <2>5, <1>1, <1>3
    <3>3. p = q
      BY <3>1, <3>2, <2>2, <1>3, OutputEditInRow
    <3> QED
      BY <3>1, <3>2, <3>3
  <2> QED
    BY <2>4, <2>5
<1>4. ASSUME NEW e \in edits
      PROVE  e.target = BindingTarget(e.target.name) \/ e.target = OutputTarget(e.target.name)
  <2>1. CASE \E x \in DOMAIN plan.tunables :
                  e = TextEdit(BindingTarget(x), OriginOf[LetOfName(x)], Rendered(plan.tunables[x]))
    <3>1. PICK x : e.target = BindingTarget(x)
      BY <2>1 DEF TextEdit
    <3>2. BindingTarget(x).name = x
      BY DEF BindingTarget
    <3> QED
      BY <3>1, <3>2
  <2>2. CASE \E p \in DOMAIN plan.outputs : e = OutputEdit(p, plan.outputs[p])
    <3>1. PICK p : e.target = OutputTarget(p)
      BY <2>2, OutputEditInRow
    <3>2. OutputTarget(p).name = p
      BY DEF OutputTarget
    <3> QED
      BY <3>1, <3>2
  <2> QED
    BY <2>1, <2>2, <1>1
<1> QED
  BY <1>2, <1>3, <1>4

\* Two edits in the row of the same statement have the same target.
LEMMA HomesDiffer ==
    ASSUME NEW e, NEW f, InRow(e), InRow(f),
           e.target = BindingTarget(e.target.name) \/ e.target = OutputTarget(e.target.name),
           f.target = BindingTarget(f.target.name) \/ f.target = OutputTarget(f.target.name),
           Home(e.target) = Home(f.target)
    PROVE  e.target = f.target
<1> DEFINE k == Home(e.target)
<1>1. \A x : k \in LetsOf(x) => original[k].tok = "let" /\ original[k].symbol = x
  BY DEF LetsOf, Declares
<1>2. \A p : k \in ClaimTokens(p) => original[k].tok # "let" /\ original[k].path = p
  BY DEF ClaimTokens
<1>3. \A x : BindingTarget(x).kind = "binding" /\ OutputTarget(x).kind = "output"
  BY DEF BindingTarget, OutputTarget
<1>4. IF e.target.kind = "binding" THEN k \in LetsOf(e.target.name)
      ELSE k \in ClaimTokens(e.target.name)
  BY DEF InRow
<1>5. IF f.target.kind = "binding" THEN k \in LetsOf(f.target.name)
      ELSE k \in ClaimTokens(f.target.name)
  BY DEF InRow
<1> HIDE DEF k
<1>6. (e.target.kind = "binding") <=> (f.target.kind = "binding")
  BY <1>1, <1>2, <1>4, <1>5
<1>7. e.target.name = f.target.name
  BY <1>1, <1>2, <1>4, <1>5, <1>6
<1> QED
  BY <1>3, <1>6, <1>7

LEMMA PlannedApart ==
    ASSUME original \in Source, NEW plan, Planned(plan), VerbatimEdits, OwnLines
    PROVE  EditsDisjoint
<1> SUFFICES ASSUME NEW e \in edits, NEW f \in edits, e # f
             PROVE  e.end <= f.start \/ f.end <= e.start
  BY DEF EditsDisjoint
<1>1. (InRow(e) \/ Appends(e)) /\ (InRow(f) \/ Appends(f)) /\ e.target # f.target
  BY EditsByTarget
<1>2. Len(original) \in Nat
  BY OriginalIs
<1>3. CASE Appends(e) /\ Appends(f)
  BY <1>2, <1>3 DEF Appends
<1>4. CASE InRow(e) /\ Appends(f)
  BY <1>2, <1>4, RowHolds DEF Appends, InRow
<1>5. CASE Appends(e) /\ InRow(f)
  BY <1>2, <1>5, RowHolds DEF Appends, InRow
<1>6. CASE InRow(e) /\ InRow(f)
  <2> DEFINE j == Home(e.target)
             k == Home(f.target)
  <2>1. j # k
    BY <1>1, <1>6, EditsByTarget, HomesDiffer
  <2>2. j \in Statements /\ k \in Statements
    BY <1>6 DEF InRow
  <2>3. /\ ClaimStatementSpan(j).start <= e.start /\ e.end <= ClaimStatementSpan(j).end
        /\ ClaimStatementSpan(k).start <= f.start /\ f.end <= ClaimStatementSpan(k).end
        /\ e.start \in Int /\ e.end \in Int /\ f.start \in Int /\ f.end \in Int
    BY <1>6 DEF InRow
  <2> HIDE DEF j, k
  <2>4. /\ j \in Nat /\ k \in Nat
        /\ ClaimStatementSpan(j).start \in Int /\ ClaimStatementSpan(j).end \in Int
        /\ ClaimStatementSpan(k).start \in Int /\ ClaimStatementSpan(k).end \in Int
    BY <2>2, RowHolds
  <2>5. CASE j < k
    BY <2>2, <2>3, <2>4, <2>5, RowsApart
  <2>6. CASE k < j
    BY <2>2, <2>3, <2>4, <2>6, RowsApart
  <2> QED
    BY <2>1, <2>4, <2>5, <2>6
<1> QED
  BY <1>1, <1>3, <1>4, <1>5, <1>6

\* A plan has the same edits as long as the source stays.
LEMMA SameSource ==
    ASSUME original' = original
    PROVE  \A plan : /\ Representable(plan)' <=> Representable(plan)
                     /\ PlannedEdits(plan)' = PlannedEdits(plan)
<1>1. Statements' = Statements /\ Spans' = Spans
  BY DEF Statements, Spans
<1>2. \A k, x : Declares(k, x)' <=> Declares(k, x)
  BY DEF Declares
<1>3. \A x : LetsOf(x)' = LetsOf(x)
  BY <1>1, <1>2 DEF LetsOf
<1>4. \A x : LetOfName(x)' = LetOfName(x)
  BY <1>3 DEF LetOfName
<1>5. OriginOf' = OriginOf
  BY <1>1, <1>4 DEF OriginOf
<1>6. \A p : ClaimTokens(p)' = ClaimTokens(p)
  BY <1>1 DEF ClaimTokens
<1>7. \A p : ClaimOf(p)' = ClaimOf(p) /\ (Unconditional(p)' <=> Unconditional(p))
  BY <1>6 DEF ClaimOf, Unconditional
<1>8. \A p : Deletable(p)' <=> Deletable(p)
  BY <1>1, <1>5, <1>7 DEF Deletable
<1>9. \A p, v : InsertClaim(p, v)' = InsertClaim(p, v)
  BY DEF InsertClaim
<1>10. \A k : ClaimStatementSpan(k)' = ClaimStatementSpan(k)
  BY DEF ClaimStatementSpan
<1>11. \A p, v : OutputEdit(p, v)' = OutputEdit(p, v)
  BY <1>5, <1>6, <1>7, <1>9, <1>10 DEF OutputEdit
<1>12. \A plan : TunableEdits(plan)' = TunableEdits(plan)
  BY <1>4, <1>5 DEF TunableEdits
<1>13. \A plan : Representable(plan)' <=> Representable(plan)
  BY <1>3, <1>6, <1>7, <1>8 DEF Representable
<1>14. \A plan : PlannedEdits(plan)' = PlannedEdits(plan)
  BY <1>11, <1>12 DEF PlannedEdits
<1> QED
  BY <1>13, <1>14

EditingInv ==
    /\ original \in Source
    /\ edits = {} \/ \E plan \in Edits : Planned(plan)

\* The edits are those of one plan, for a source that stays.
LEMMA EditingInvariant == EditingSpec => []EditingInv
<1>1. EditingInit => EditingInv
  BY DEF EditingInit, EditingInv
<1>2. EditingInv /\ [EditingNext]_editingVars => EditingInv'
  <2> SUFFICES ASSUME EditingInv, [EditingNext]_editingVars PROVE EditingInv'
    OBVIOUS
  <2>1. ASSUME NEW plan \in Edits, PlanEdits(plan) PROVE EditingInv'
    <3>1. original' = original /\ Representable(plan) /\ edits' = PlannedEdits(plan)
      BY <2>1 DEF PlanEdits
    <3>2. (Representable(plan)' <=> Representable(plan)) /\ PlannedEdits(plan)' = PlannedEdits(plan)
      BY <3>1, SameSource
    <3> QED
      BY <3>1, <3>2 DEF EditingInv, Planned
  <2>2. CASE UNCHANGED <<original, edits>>
    <3>1. \A plan : Planned(plan)' <=> Planned(plan)
      BY <2>2, SameSource DEF Planned
    <3> QED
      BY <2>2, <3>1 DEF EditingInv
  <2> QED
    BY <2>1, <2>2 DEF EditingNext, ApplyPlan, editingVars
<1> QED
  BY <1>1, <1>2, PTL DEF EditingSpec

\* The text edits of a plan never overlap, for every source with one statement
\* a line and every plan whose values are written in place: deletions take the
\* comments a row owns and no more (plan_edits, claim_statement_span).
THEOREM RowsEditedApart == EditingSpec => []EditsOfRowsDisjoint
<1>1. EditingInv => EditsOfRowsDisjoint
  <2>1. CASE edits = {}
    BY <2>1 DEF EditsOfRowsDisjoint, EditsDisjoint
  <2>2. CASE edits # {}
    BY <2>2, PlannedApart DEF EditingInv, EditsOfRowsDisjoint
  <2> QED
    BY <2>1, <2>2
<1> QED
  BY <1>1, EditingInvariant, PTL
=============================================================================
