--------------------------- MODULE CatalogProofs ---------------------------
(***************************************************************************)
(* The selection of axioms is exact for every catalog, schema and list of  *)
(* intents: the passes over the axioms compute the least set closed under  *)
(* touching, whatever the order of the axioms.                             *)
(***************************************************************************)
EXTENDS Catalog, LeastElements, FiniteSetTheorems, TLAPS

N == Len(axioms)

\* What the request mentions is what the goals and the selected axioms mention.
MentionedInv == mentioned = Needles \cup PathsOfSet(selected)

\* As long as a pass has selected nothing, no axiom it has passed could join.
PassInv == ~changed => \A i \in 1 .. (index - 1) : ~Joins(i)

AppliedInv ==
    /\ applied \in Seq(1 .. N)
    /\ Elements(applied) = selected
    /\ \A i, j \in 1 .. Len(applied) : applied[i] = applied[j] => i = j

CatalogInv ==
    /\ axioms \in AxiomList
    /\ intents \in IntentList
    /\ next \in Nat \ {0}
    /\ selected \subseteq 1 .. N
    /\ index \in 1 .. (N + 1)
    /\ outcome \in {"none", "Expansion"} => MentionedInv /\ AppliedInv
    /\ pc = "intents" => /\ selected = {} /\ index = 1 /\ outcome = "none"
                         /\ \E S : goals \in Seq(S)
    /\ pc = "axioms" => outcome = "none" /\ PassInv
    /\ outcome = "Expansion" => \A i \in 1 .. N : ~Joins(i)
    /\ \A i \in selected : Belongs(i)

\* The errors of an intent are not the outcome of a success.
LEMMA ErrorsAreErrors ==
    /\ \A f : FactError(f) # "Expansion"
    /\ \A answer : AnswerError(answer) # "Expansion"
    /\ \A axiom : AxiomError(axiom) # "Expansion"
<1>1. \A f : FactError(f) # "Expansion"
  BY DEF FactError
<1> QED
  BY <1>1 DEF AnswerError, AxiomError

LEMMA ListsOfAxioms ==
    ASSUME axioms \in AxiomList
    PROVE  axioms \in Seq(Axiom) /\ N \in Nat
BY AxiomAssumption DEF N

LEMMA OneFact == ASSUME NEW fact PROVE \E S : <<fact>> \in Seq(S)
<1>1. <<fact>> \in Seq({fact})
  OBVIOUS
<1> QED
  BY <1>1

\* Every intent stands for a sequence of facts.
LEMMA AnswerFacts ==
    ASSUME NEW intent, AnswerError(ExpandIntent(intent)) = "none",
           intent.kind \in IntentKind
    PROVE  \E S : ExpandIntent(intent).facts \in Seq(S)
<1>1. CASE intent.kind \in {"Install", "Enable"} /\ intent.name \in DOMAIN Recipes
  BY <1>1, RecipeAssumption DEF ExpandIntent, Answer
<1>2. CASE \/ intent.kind = "Remove"
           \/ intent.kind = "Install" /\ intent.name \notin DOMAIN Recipes
  <2>1. ExpandIntent(intent) = PackagesOptionAnswer(intent)
    BY <1>2 DEF ExpandIntent
  <2>2. \E fact : ExpandIntent(intent).facts = <<fact>>
    BY <2>1 DEF PackagesOptionAnswer, Answer
  <2> QED
    BY <2>2, OneFact
<1>3. CASE \/ intent.kind = "Disable"
           \/ intent.kind = "Enable" /\ intent.name \notin DOMAIN Recipes
  <2>1. ExpandIntent(intent) = EnableHintAnswer(intent)
    BY <1>3 DEF ExpandIntent
  <2>2. ExpandIntent(intent).mechanism # "NoMechanism"
    BY DEF AnswerError
  <2>3. ExpandIntent(intent) # NoMechanism
    BY <2>2 DEF NoMechanism, Answer
  <2>4. \E fact : ExpandIntent(intent).facts = <<fact>>
    <3> DEFINE options == Hints[intent.name]
               usable  == {i \in 1 .. Len(options) :
                              /\ Resolves(options[i])
                              /\ TypeOf[PathOf[options[i]]] = <<"Bool">>}
               first   == CHOOSE i \in usable : \A j \in usable : i <= j
               fact    == [kind |-> "Equals", option |-> options[first],
                           value |-> Atom("Bool", IF intent.kind = "Enable" THEN "true" ELSE "false")]
    <3>1. usable # {}
      BY <2>1, <2>3 DEF EnableHintAnswer
    <3>2. EnableHintAnswer(intent) = Answer("EnableHint", <<fact>>)
      BY <3>1 DEF EnableHintAnswer
    <3> HIDE DEF fact
    <3> QED
      BY <2>1, <3>2 DEF Answer
  <2> QED
    BY <2>4, OneFact
<1>4. CASE intent.kind \in {"Set", "Unset"}
  <2>1. ExpandIntent(intent) = DirectAnswer(intent)
    BY <1>4 DEF ExpandIntent
  <2>2. \E fact : ExpandIntent(intent).facts = <<fact>>
    BY <2>1 DEF DirectAnswer, Answer
  <2> QED
    BY <2>2, OneFact
<1> QED
  BY <1>1, <1>2, <1>3, <1>4 DEF IntentKind

LEMMA ElementsConcat ==
    ASSUME NEW S, NEW s \in Seq(S), NEW t \in Seq(S)
    PROVE  Elements(s \o t) = Elements(s) \cup Elements(t)
<1>1. /\ Len(s) \in Nat /\ Len(t) \in Nat /\ Len(s \o t) = Len(s) + Len(t)
      /\ \A i \in 1 .. Len(s) : (s \o t)[i] = s[i]
      /\ \A i \in 1 .. Len(t) : (s \o t)[Len(s) + i] = t[i]
  OBVIOUS
<1>2. ASSUME NEW x \in Elements(s \o t) PROVE x \in Elements(s) \cup Elements(t)
  <2> PICK i \in 1 .. (Len(s) + Len(t)) : x = (s \o t)[i]
    BY <1>1 DEF Elements
  <2>1. CASE i <= Len(s)
    BY <1>1, <2>1 DEF Elements
  <2>2. CASE i > Len(s)
    <3>1. i - Len(s) \in 1 .. Len(t) /\ x = t[i - Len(s)]
      BY <1>1, <2>2
    <3> QED
      BY <3>1 DEF Elements
  <2> QED
    BY <2>1, <2>2
<1>3. ASSUME NEW x \in Elements(s) \cup Elements(t) PROVE x \in Elements(s \o t)
  <2>1. CASE x \in Elements(s)
    BY <1>1, <2>1 DEF Elements
  <2>2. CASE x \in Elements(t)
    <3> PICK i \in 1 .. Len(t) : x = t[i]
      BY <2>2 DEF Elements
    <3>1. Len(s) + i \in 1 .. Len(s \o t) /\ x = (s \o t)[Len(s) + i]
      BY <1>1
    <3> QED
      BY <3>1 DEF Elements
  <2> QED
    BY <2>1, <2>2
<1> QED
  BY <1>2, <1>3

LEMMA SingletonElements == ASSUME NEW x PROVE Elements(<<x>>) = {x}
<1> DEFINE s == <<x>>
<1>1. Len(s) = 1 /\ s[1] = x
  OBVIOUS
<1> HIDE DEF s
<1>2. 1 .. Len(s) = {1}
  BY <1>1
<1>3. Elements(s) = {x}
  BY <1>1, <1>2 DEF Elements
<1> QED
  BY <1>3 DEF s

LEMMA InitCatalog == Init => CatalogInv
<1> SUFFICES ASSUME Init PROVE CatalogInv
  OBVIOUS
<1>1. N \in Nat
  BY ListsOfAxioms DEF Init
<1>2. MentionedInv
  BY DEF Init, MentionedInv, Needles, Elements, PathsOfSet
<1>3. AppliedInv
  BY DEF Init, AppliedInv, Elements
<1>4. goals \in Seq({})
  BY DEF Init
<1> QED
  BY <1>1, <1>2, <1>3, <1>4 DEF Init, CatalogInv

LEMMA TakeIntentCatalog == CatalogInv /\ TakeIntent => CatalogInv'
<1> SUFFICES ASSUME CatalogInv, TakeIntent PROVE CatalogInv'
  OBVIOUS
<1> DEFINE answer == ExpandIntent(intents[next])
<1>1. /\ pc = "intents" /\ selected = {} /\ index = 1 /\ outcome = "none"
      /\ UNCHANGED <<axioms, intents, constraints, selected, applied, index, changed>>
      /\ MentionedInv /\ AppliedInv
  BY DEF TakeIntent, CatalogInv
<1>2. N' = N /\ AppliedInv'
  BY <1>1 DEF N, AppliedInv, Elements
<1>3. CASE AnswerError(answer) # "none"
  BY <1>1, <1>2, <1>3, ErrorsAreErrors DEF TakeIntent, CatalogInv
<1>4. CASE AnswerError(answer) = "none"
  <2> DEFINE added == [i \in 1 .. Len(answer.facts) |-> GoalOf(answer.facts[i])]
  <2>1. /\ goals' = goals \o added
        /\ mentioned' = mentioned \cup {PathOf[f.option] : f \in Elements(answer.facts)}
        /\ next' = next + 1
        /\ UNCHANGED <<pc, outcome>>
    BY <1>4 DEF TakeIntent
  <2>2. PICK S : answer.facts \in Seq(S)
    <3>1. next \in 1 .. Len(intents)
      BY IntentAssumption DEF TakeIntent, CatalogInv
    <3> QED
      BY <1>4, <3>1, AnswerFacts, IntentAssumption DEF CatalogInv
  <2>3. PICK T : goals \in Seq(T)
    BY <1>1 DEF CatalogInv
  <2> DEFINE U == T \cup {GoalOf(f) : f \in S}
  <2>4. added \in Seq(U) /\ Len(added) = Len(answer.facts)
    BY <2>2
  <2>5. goals \in Seq(U)
    BY <2>3
  <2>6. goals' \in Seq(U)
    BY <2>1, <2>4, <2>5
  <2>7. Elements(goals') = Elements(goals) \cup Elements(added)
    <3> HIDE DEF added, U
    <3> QED
      BY <2>1, <2>4, <2>5, ElementsConcat
  <2>8. {g.path : g \in Elements(added)} = {PathOf[f.option] : f \in Elements(answer.facts)}
    <3> DEFINE facts == answer.facts
    <3>1. \A i \in 1 .. Len(facts) : added[i].path = PathOf[facts[i].option]
      BY DEF GoalOf
    <3> HIDE DEF added, facts
    <3>2. Len(added) = Len(facts)
      BY <2>4 DEF facts
    <3>3. {g.path : g \in Elements(added)} = {PathOf[f.option] : f \in Elements(facts)}
      BY <3>1, <3>2 DEF Elements
    <3> QED
      BY <3>3 DEF facts
  <2>9. Needles' = Needles \cup {PathOf[f.option] : f \in Elements(answer.facts)}
    BY <2>7, <2>8 DEF Needles
  <2>10. MentionedInv'
    BY <1>1, <2>1, <2>9 DEF MentionedInv, PathsOfSet
  <2> QED
    BY <1>1, <1>2, <2>1, <2>6, <2>10 DEF CatalogInv
<1> QED
  BY <1>3, <1>4

\* The facts that a step of the axiom passes leaves alone.
LEMMA SameRequest ==
    ASSUME UNCHANGED <<axioms, goals>>
    PROVE  /\ N' = N /\ Needles' = Needles
           /\ \A i : Belongs(i)' = Belongs(i)
           /\ \A S : PathsOfSet(S)' = PathsOfSet(S)
           /\ selected' = selected /\ mentioned' = mentioned => \A i : Joins(i)' = Joins(i)
<1>1. N' = N
  BY DEF N
<1>2. Needles' = Needles
  BY DEF Needles, Elements
<1>3. \A S : PathsOfSet(S)' = PathsOfSet(S)
  BY DEF PathsOfSet
<1>4. \A S : ClosedUnderTouch(S)' = ClosedUnderTouch(S)
  BY <1>1, <1>2, <1>3 DEF ClosedUnderTouch, N
<1>5. \A i : Belongs(i)' = Belongs(i)
  BY <1>1, <1>4 DEF Belongs, N
<1>6. selected' = selected /\ mentioned' = mentioned => \A i : Joins(i)' = Joins(i)
  BY DEF Joins
<1> QED
  BY <1>1, <1>2, <1>3, <1>5, <1>6

LEMMA StartAxiomsCatalog == CatalogInv /\ StartAxioms => CatalogInv'
<1> SUFFICES ASSUME CatalogInv, StartAxioms PROVE CatalogInv'
  OBVIOUS
<1>1. UNCHANGED <<axioms, goals, selected, mentioned, applied, index, outcome, intents, next>>
  BY DEF StartAxioms
<1>2. pc = "intents" /\ pc' = "axioms" /\ index = 1 /\ selected = {} /\ outcome = "none"
  BY DEF StartAxioms, CatalogInv
<1>3. PassInv'
  BY <1>1, <1>2 DEF PassInv
<1>4. MentionedInv' /\ AppliedInv'
  <2>1. MentionedInv /\ AppliedInv
    BY <1>2 DEF CatalogInv
  <2>2. MentionedInv'
    BY <1>1, <2>1, SameRequest DEF MentionedInv
  <2>3. AppliedInv'
    BY <1>1, <2>1, SameRequest DEF AppliedInv, Elements
  <2> QED
    BY <2>2, <2>3
<1>5. N' = N /\ \A i \in selected : Belongs(i)'
  BY <1>1, SameRequest DEF CatalogInv
<1>6. pc' = "axioms" /\ outcome' = "none"
  BY <1>1, <1>2
<1> QED
  BY <1>1, <1>3, <1>4, <1>5, <1>6 DEF CatalogInv

LEMMA SkipAxiomCatalog == CatalogInv /\ SkipAxiom => CatalogInv'
<1> SUFFICES ASSUME CatalogInv, SkipAxiom PROVE CatalogInv'
  OBVIOUS
<1>1. /\ UNCHANGED <<axioms, goals, selected, mentioned, applied, outcome, intents, next, changed, pc>>
      /\ pc = "axioms" /\ index <= N /\ ~Joins(index) /\ index' = index + 1
  BY DEF SkipAxiom, N
<1>2. N \in Nat
  BY ListsOfAxioms DEF CatalogInv
<1>3. index \in 1 .. (N + 1) /\ PassInv
  BY <1>1 DEF CatalogInv
<1>4. PassInv'
  <2> SUFFICES ASSUME ~changed, NEW i \in 1 .. index PROVE ~Joins(i)
    BY <1>1, <1>3, SameRequest DEF PassInv
  <2>1. CASE i = index
    BY <1>1, <2>1
  <2>2. CASE i \in 1 .. (index - 1)
    BY <1>3, <2>2 DEF PassInv
  <2> QED
    BY <1>2, <1>3, <2>1, <2>2
<1>5. MentionedInv' /\ AppliedInv'
  BY <1>1, SameRequest DEF CatalogInv, MentionedInv, AppliedInv, Elements
<1>6. index' \in 1 .. (N + 1)
  BY <1>1, <1>2, <1>3
<1> QED
  BY <1>1, <1>4, <1>5, <1>6, SameRequest DEF CatalogInv

\* An axiom that joins touches what every closed set touches.
LEMMA JoiningBelongs ==
    ASSUME CatalogInv, MentionedInv, NEW i \in 1 .. N, Joins(i)
    PROVE  Belongs(i)
<1> SUFFICES ASSUME NEW S \in SUBSET (1 .. Len(axioms)), ClosedUnderTouch(S)
             PROVE  i \in S
  BY DEF Belongs
<1>1. selected \subseteq S
  BY DEF CatalogInv, Belongs
<1>2. mentioned \subseteq Needles \cup PathsOfSet(S)
  BY <1>1 DEF MentionedInv, PathsOfSet
<1>3. Touches(axioms[i], Needles \cup PathsOfSet(S))
  BY <1>2 DEF Joins, Touches
<1> QED
  BY <1>3 DEF ClosedUnderTouch, N

LEMMA SelectAxiomCatalog == CatalogInv /\ SelectAxiom => CatalogInv'
<1> SUFFICES ASSUME CatalogInv, SelectAxiom PROVE CatalogInv'
  OBVIOUS
<1>1. /\ UNCHANGED <<axioms, goals, intents, next>>
      /\ pc = "axioms" /\ index <= N /\ Joins(index)
      /\ selected' = selected \cup {index} /\ changed' = TRUE
  BY DEF SelectAxiom, N
<1>2. N \in Nat /\ index \in 1 .. N
  BY <1>1, ListsOfAxioms DEF CatalogInv
<1>3. MentionedInv /\ AppliedInv /\ outcome = "none" /\ selected \subseteq 1 .. N
  BY <1>1 DEF CatalogInv
<1>4. Belongs(index)
  BY <1>1, <1>2, <1>3, JoiningBelongs
<1>5. \A i \in selected' : Belongs(i)'
  BY <1>1, <1>4, SameRequest DEF CatalogInv
<1>6. selected' \subseteq (1 .. N)'
  BY <1>1, <1>2, <1>3, SameRequest
<1>7. CASE AxiomError(axioms[index]) # "none"
  <2>1. pc' = "done" /\ outcome' = AxiomError(axioms[index]) /\ index' = index
    BY <1>7 DEF SelectAxiom
  <2>2. outcome' \notin {"none", "Expansion"}
    BY <1>7, <2>1, ErrorsAreErrors
  <2>3. index' \in (1 .. (N + 1))'
    BY <1>1, <1>2, <2>1, SameRequest
  <2> QED
    BY <1>1, <1>5, <1>6, <2>1, <2>2, <2>3 DEF CatalogInv
<1>8. CASE AxiomError(axioms[index]) = "none"
  <2>1. /\ mentioned' = mentioned \cup PathsOf(axioms[index])
        /\ applied' = Append(applied, index)
        /\ index' = index + 1
        /\ UNCHANGED <<pc, outcome>>
    BY <1>8 DEF SelectAxiom
  <2>2. MentionedInv'
    <3>1. PathsOfSet(selected \cup {index}) = PathsOfSet(selected) \cup PathsOf(axioms[index])
      BY DEF PathsOfSet
    <3> QED
      BY <1>1, <1>3, <2>1, <3>1, SameRequest DEF MentionedInv
  <2>3. AppliedInv'
    <3>1. /\ applied \in Seq(1 .. N) /\ Elements(applied) = selected
          /\ \A i, j \in 1 .. Len(applied) : applied[i] = applied[j] => i = j
      BY <1>3 DEF AppliedInv
    <3>2. /\ applied' \in Seq(1 .. N)
          /\ Len(applied) \in Nat
          /\ Len(applied') = Len(applied) + 1
          /\ \A i \in 1 .. Len(applied) : applied'[i] = applied[i]
          /\ applied'[Len(applied) + 1] = index
      BY <1>2, <2>1, <3>1
    <3>3. Elements(applied') = selected \cup {index}
      <4>1. <<index>> \in Seq(1 .. N) /\ applied' = applied \o <<index>>
        BY <1>2, <2>1, <3>1
      <4>2. Elements(<<index>>) = {index}
        BY SingletonElements
      <4>3. applied \in Seq(1 .. N)
        BY <3>1
      <4>4. Elements(applied \o <<index>>) = Elements(applied) \cup Elements(<<index>>)
        BY <4>1, <4>3, ElementsConcat
      <4> QED
        BY <3>1, <4>1, <4>2, <4>4
    <3>4. index \notin selected
      BY <1>1 DEF Joins
    <3>5. \A i \in 1 .. Len(applied) : applied[i] # index
      BY <3>1, <3>4 DEF Elements
    <3>6. \A i, j \in 1 .. Len(applied') : applied'[i] = applied'[j] => i = j
      BY <3>1, <3>2, <3>5
    <3>7. Elements(applied)' = Elements(applied')
      BY DEF Elements
    <3> QED
      BY <1>1, <3>2, <3>3, <3>6, <3>7, SameRequest DEF AppliedInv
  <2>4. index' \in (1 .. (N + 1))'
    BY <1>1, <1>2, <2>1, SameRequest
  <2>5. PassInv'
    BY <1>1 DEF PassInv
  <2> QED
    BY <1>1, <1>3, <1>5, <1>6, <2>1, <2>2, <2>3, <2>4, <2>5 DEF CatalogInv
<1> QED
  BY <1>7, <1>8

LEMMA NextPassCatalog == CatalogInv /\ NextPass => CatalogInv'
<1> SUFFICES ASSUME CatalogInv, NextPass PROVE CatalogInv'
  OBVIOUS
<1>1. /\ UNCHANGED <<axioms, goals, selected, mentioned, applied, outcome, intents, next, pc>>
      /\ pc = "axioms" /\ index' = 1
  BY DEF NextPass
<1>2. N \in Nat
  BY ListsOfAxioms DEF CatalogInv
<1>3. PassInv'
  BY <1>1 DEF PassInv
<1>4. MentionedInv' /\ AppliedInv'
  BY <1>1, SameRequest DEF CatalogInv, MentionedInv, AppliedInv, Elements
<1> QED
  BY <1>1, <1>2, <1>3, <1>4, SameRequest DEF CatalogInv

LEMMA ReturnCatalog == CatalogInv /\ Return => CatalogInv'
<1> SUFFICES ASSUME CatalogInv, Return PROVE CatalogInv'
  OBVIOUS
<1>1. /\ UNCHANGED <<axioms, goals, selected, mentioned, applied, intents, next, index>>
      /\ pc = "axioms" /\ pc' = "done" /\ outcome' = "Expansion" /\ index > N /\ ~changed
  BY DEF Return, N
<1>2. N \in Nat /\ index = N + 1 /\ PassInv
  BY <1>1, ListsOfAxioms DEF CatalogInv
<1>3. \A i \in 1 .. N : ~Joins(i)
  BY <1>1, <1>2 DEF PassInv
<1>4. MentionedInv' /\ AppliedInv'
  BY <1>1, SameRequest DEF CatalogInv, MentionedInv, AppliedInv, Elements
<1> QED
  BY <1>1, <1>3, <1>4, SameRequest DEF CatalogInv

LEMMA UnchangedCatalog == CatalogInv /\ UNCHANGED vars => CatalogInv'
<1> SUFFICES ASSUME CatalogInv, UNCHANGED vars PROVE CatalogInv'
  OBVIOUS
<1>1. UNCHANGED <<axioms, goals, selected, mentioned, applied, outcome, intents, next, pc, index, changed>>
  BY DEF vars
<1>2. /\ MentionedInv' = MentionedInv
      /\ AppliedInv' = AppliedInv
      /\ PassInv' = PassInv
  BY <1>1, SameRequest DEF MentionedInv, AppliedInv, PassInv, Elements
<1> QED
  BY <1>1, <1>2, SameRequest DEF CatalogInv

LEMMA CatalogInvariant == Spec => []CatalogInv
<1>1. CatalogInv /\ [Next]_vars => CatalogInv'
  BY TakeIntentCatalog, StartAxiomsCatalog, SkipAxiomCatalog, SelectAxiomCatalog,
     NextPassCatalog, ReturnCatalog, UnchangedCatalog DEF Next
<1> QED
  BY InitCatalog, <1>1, PTL DEF Spec

-----------------------------------------------------------------------------
\* Needle selection is sound: an axiom joins only when the request touches it.
THEOREM SelectionSound == Spec => []SelectedBelong
<1>1. CatalogInv => SelectedBelong
  BY DEF CatalogInv, SelectedBelong
<1> QED
  BY <1>1, CatalogInvariant, PTL

\* Needle selection is complete: the axioms a returned expansion has selected are
\* closed under touching, so they contain the least closed set, each axiom once.
THEOREM SelectionComplete == Spec => []ExpansionIsClosed
<1>1. CatalogInv => ExpansionIsClosed
  <2> SUFFICES ASSUME CatalogInv, outcome = "Expansion"
               PROVE  /\ \A i \in 1 .. Len(axioms) : Belongs(i) => i \in Elements(applied)
                      /\ \A i, j \in 1 .. Len(applied) : applied[i] = applied[j] => i = j
    BY DEF ExpansionIsClosed
  <2>1. MentionedInv /\ AppliedInv /\ \A i \in 1 .. N : ~Joins(i)
    BY DEF CatalogInv
  <2>2. ClosedUnderTouch(selected)
    BY <2>1 DEF ClosedUnderTouch, Joins, MentionedInv, N
  <2>3. selected \in SUBSET (1 .. Len(axioms))
    BY DEF CatalogInv, N
  <2>4. \A i \in 1 .. Len(axioms) : Belongs(i) => i \in selected
    BY <2>2, <2>3 DEF Belongs
  <2> QED
    BY <2>1, <2>4 DEF AppliedInv
<1> QED
  BY <1>1, CatalogInvariant, PTL

-----------------------------------------------------------------------------
\* An axiom fails to resolve exactly when one of its facts does.
LEMMA AxiomErrorOfFacts ==
    ASSUME NEW axiom \in Axiom
    PROVE  AxiomError(axiom) # "none" <=> \E f \in FactsOf(axiom) : FactError(f) # "none"
BY DEF AxiomError, FactsOf

\* Every selected axiom resolved, until the one that ends the call.
DanglingInv ==
    /\ pc \in {"intents", "axioms", "done"}
    /\ pc = "axioms" => next > Len(intents)
    /\ pc # "done" => \A i \in selected : AxiomError(axioms[i]) = "none"
    /\ (pc = "done" /\ next > Len(intents)) =>
         (outcome = "Expansion" <=> \A i \in selected : AxiomError(axioms[i]) = "none")

LEMMA InitDangling == Init => DanglingInv
BY DEF Init, DanglingInv

LEMMA StepDangling == CatalogInv /\ DanglingInv /\ [Next]_vars => DanglingInv'
<1> SUFFICES ASSUME CatalogInv, DanglingInv, [Next]_vars PROVE DanglingInv'
  OBVIOUS
<1>1. CASE TakeIntent
  <2>1. next \in Nat /\ Len(intents) \in Nat /\ next <= Len(intents)
    BY <1>1, IntentAssumption DEF TakeIntent, CatalogInv
  <2> QED
    BY <1>1, <2>1 DEF TakeIntent, DanglingInv
<1>2. CASE StartAxioms
  BY <1>2 DEF StartAxioms, DanglingInv
<1>3. CASE SkipAxiom
  BY <1>3 DEF SkipAxiom, DanglingInv
<1>4. CASE SelectAxiom
  <2>1. /\ pc = "axioms" /\ next > Len(intents) /\ outcome = "none"
        /\ selected' = selected \cup {index}
        /\ UNCHANGED <<axioms, intents, next>>
        /\ \A i \in selected : AxiomError(axioms[i]) = "none"
    BY <1>4 DEF SelectAxiom, DanglingInv, CatalogInv
  <2>2. CASE AxiomError(axioms[index]) # "none"
    <3>1. pc' = "done" /\ outcome' = AxiomError(axioms[index])
      BY <1>4, <2>2 DEF SelectAxiom
    <3> QED
      BY <2>1, <2>2, <3>1, ErrorsAreErrors DEF DanglingInv
  <2>3. CASE AxiomError(axioms[index]) = "none"
    <3>1. pc' = "axioms"
      BY <1>4, <2>1, <2>3 DEF SelectAxiom
    <3> QED
      BY <2>1, <2>3, <3>1 DEF DanglingInv
  <2> QED
    BY <2>2, <2>3
<1>5. CASE NextPass
  BY <1>5 DEF NextPass, DanglingInv
<1>6. CASE Return
  BY <1>6 DEF Return, DanglingInv
<1>7. CASE UNCHANGED vars
  BY <1>7 DEF vars, DanglingInv
<1> QED
  BY <1>1, <1>2, <1>3, <1>4, <1>5, <1>6, <1>7 DEF Next

\* A returned expansion has selected what belongs: the selected axioms are closed
\* under touching.
LEMMA ExpansionSelectsAll ==
    ASSUME CatalogInv, outcome = "Expansion"
    PROVE  \A i \in 1 .. N : Belongs(i) => i \in selected
<1>1. MentionedInv /\ AppliedInv /\ \A i \in 1 .. N : ~Joins(i)
  BY DEF CatalogInv
<1>2. ClosedUnderTouch(selected)
  BY <1>1 DEF ClosedUnderTouch, Joins, MentionedInv, N
<1> QED
  BY <1>2 DEF CatalogInv, Belongs, N

\* A dangling option is a hard error exactly when an axiom that belongs to the
\* request has it: dormant axioms never fail a call, needed ones always do.
THEOREM DanglingExact == Spec => []DanglingIsError
<1>1. CatalogInv /\ DanglingInv => DanglingIsError
  <2> SUFFICES ASSUME CatalogInv, DanglingInv, pc = "done", next > Len(intents)
               PROVE  outcome # "Expansion" <=>
                        \E i \in 1 .. Len(axioms) :
                          Belongs(i) /\ \E f \in FactsOf(axioms[i]) : FactError(f) # "none"
    BY DEF DanglingIsError
  <2>1. axioms \in Seq(Axiom)
    BY ListsOfAxioms DEF CatalogInv
  <2>2. \A i \in 1 .. Len(axioms) : axioms[i] \in Axiom
    <3> HIDE DEF Axiom
    <3> QED
      BY <2>1
  <2>3. outcome = "Expansion" <=> \A i \in selected : AxiomError(axioms[i]) = "none"
    BY DEF DanglingInv
  <2>4. selected \subseteq 1 .. N /\ \A i \in selected : Belongs(i)
    BY DEF CatalogInv
  <2>5. outcome # "Expansion" <=>
          \E i \in 1 .. N : Belongs(i) /\ AxiomError(axioms[i]) # "none"
    BY <2>3, <2>4, ExpansionSelectsAll
  <2> QED
    BY <2>2, <2>5, AxiomErrorOfFacts DEF N
<1>2. CatalogInv /\ DanglingInv /\ [Next]_vars => DanglingInv'
  BY StepDangling
<1> QED
  BY <1>1, <1>2, InitDangling, CatalogInvariant, PTL DEF Spec

-----------------------------------------------------------------------------
(***************************************************************************)
(* Elaboration is exact: adapt_constant goes no further than the type and  *)
(* the constant agree on their containers, and that is far enough.         *)
(***************************************************************************)

LEMMA AtomIsConstant == ASSUME NEW kind, NEW name PROVE IsConstant(Atom(kind, name))
<1>1. /\ DOMAIN Atom(kind, name) = {<<>>}
      /\ Atom(kind, name) = [r \in DOMAIN Atom(kind, name) |-> Atom(kind, name)[r]]
  BY DEF Atom
<1>2. <<>> \in Seq(Nat) /\ Len(<<>>) = 0
  OBVIOUS
<1>3. Above(<<>>) = {}
  BY <1>2 DEF Above
<1> QED
  BY <1>1, <1>2, <1>3 DEF IsConstant

\* Before a position the type has, there are containers only.
LEMMA AboveIsContainer ==
    ASSUME NEW type, IsType(type), NEW r \in Seq(Nat), Len(r) < Len(type), NEW a \in Above(r)
    PROVE  Len(a) < Len(type) /\ type[Len(a) + 1] \in Container
<1>1. PICK n \in 0 .. (Len(r) - 1) : a = SubSeq(r, 1, n)
  BY DEF Above
<1>2. Len(a) = n
  BY <1>1
<1>3. Len(type) \in Nat /\ \A k \in 1 .. Len(type) : type[k] \in Container <=> k < Len(type)
  BY DEF IsType
<1> QED
  BY <1>1, <1>2, <1>3

LEMMA AdaptExact ==
    ASSUME NEW type, IsType(type), NEW v, IsConstant(v)
    PROVE  /\ DOMAIN Adapt(type, v) = DOMAIN v
           /\ Accepted(type, Adapt(type, v)) <=> Writable(type, v)
           /\ \A r \in DOMAIN v : Adapt(type, v)[r] # v[r] =>
                /\ StringForPackage(type, r, v[r].kind)
                /\ \A a \in Above(r) : Takes(type, a, v[a].kind)
                /\ Adapt(type, v)[r] = [kind |-> "Package", name |-> v[r].name]
<1> DEFINE adapted == Adapt(type, v)
           Changes(r) == Reached(type, v, r) /\ Wants(type, r, "Package") /\ v[r].kind = "String"
<1>1. /\ DOMAIN adapted = DOMAIN v
      /\ \A r \in DOMAIN v :
           adapted[r] = IF Changes(r) THEN [kind |-> "Package", name |-> v[r].name] ELSE v[r]
  BY DEF Adapt
<1> HIDE DEF adapted
<1>2. \A r \in DOMAIN v : Changes(r) => Takes(type, r, "Package") /\ adapted[r].kind = "Package"
  BY <1>1 DEF Takes, Wants
<1>3. ASSUME Accepted(type, adapted) PROVE Writable(type, v)
  BY <1>1, <1>3 DEF Accepted, Writable, StringForPackage
<1>4. ASSUME Writable(type, v) PROVE Accepted(type, adapted)
  <2> SUFFICES ASSUME NEW r \in DOMAIN v PROVE Takes(type, r, adapted[r].kind)
    BY <1>1 DEF Accepted
  <2>1. CASE Changes(r)
    BY <1>2, <2>1
  <2>2. CASE ~Changes(r) /\ Takes(type, r, v[r].kind)
    BY <1>1, <2>2
  <2>3. CASE StringForPackage(type, r, v[r].kind)
    <3>1. ASSUME NEW a \in Above(r) PROVE Wants(type, a, v[a].kind)
      <4>1. /\ a \in DOMAIN v /\ v[a].kind \in Container /\ r \in Seq(Nat)
        BY DEF IsConstant
      <4>2. Len(a) < Len(type) /\ type[Len(a) + 1] \in Container
        BY <2>3, <4>1, AboveIsContainer DEF StringForPackage, Wants
      <4>3. Takes(type, a, v[a].kind) \/ StringForPackage(type, a, v[a].kind)
        BY <1>4, <4>1 DEF Writable
      <4> QED
        BY <4>1, <4>2, <4>3 DEF Takes, StringForPackage, Wants, Container
    <3> QED
      BY <1>2, <2>3, <3>1 DEF Reached, StringForPackage
  <2> QED
    BY <1>4, <2>1, <2>2, <2>3 DEF Writable
<1>5. ASSUME NEW r \in DOMAIN v, adapted[r] # v[r]
      PROVE  /\ StringForPackage(type, r, v[r].kind)
             /\ \A a \in Above(r) : Takes(type, a, v[a].kind)
             /\ adapted[r] = [kind |-> "Package", name |-> v[r].name]
  <2>1. Changes(r)
    BY <1>1, <1>5
  <2>2. \A a \in Above(r) : Takes(type, a, v[a].kind)
    BY <2>1 DEF Reached, Wants, Takes
  <2> QED
    BY <1>1, <2>1, <2>2 DEF StringForPackage
<1> QED
  BY <1>1, <1>3, <1>4, <1>5 DEF adapted

\* What a fact needs to become a goal.
Fitting(fact) == fact.kind \in FactKind /\ FactError(fact) = "none" /\ IsConstant(fact.value)

LEMMA ElementType ==
    ASSUME NEW type, IsType(type), IsCollection(type)
    PROVE  IsType(Tail(type))
<1>1. /\ type \in Seq(Container \cup AtomKind) /\ Len(type) \in Nat /\ Len(type) > 0
      /\ \A n \in 1 .. Len(type) : type[n] \in Container <=> n < Len(type)
  BY DEF IsType
<1>2. type[1] \in Container
  BY DEF IsCollection, Container
<1>3. Len(type) > 1
  BY <1>1, <1>2
<1>4. /\ Tail(type) \in Seq(Container \cup AtomKind)
      /\ Len(Tail(type)) = Len(type) - 1
      /\ \A n \in 1 .. Len(type) - 1 : Tail(type)[n] = type[n + 1]
  BY <1>1
<1> QED
  BY <1>1, <1>3, <1>4 DEF IsType

LEMMA GoalElaborates ==
    ASSUME NEW fact, Fitting(fact)
    PROVE  Elaborates(GoalOf(fact), fact)
<1> DEFINE path == PathOf[fact.option]
           aim  == Aim(fact.kind, TypeOf[path])
<1>1. IsType(TypeOf[path]) /\ (fact.kind \in Membership => IsCollection(TypeOf[path]))
  BY PathAssumption DEF Fitting, FactError, Resolves
<1>2. IsType(aim)
  BY <1>1, ElementType DEF Aim
<1>3. /\ GoalOf(fact).kind = fact.kind
      /\ GoalOf(fact).path = path
      /\ GoalOf(fact).value = Adapt(aim, fact.value)
  BY DEF GoalOf
<1>4. IsConstant(fact.value)
  BY DEF Fitting
<1> HIDE DEF aim
<1>5. /\ DOMAIN Adapt(aim, fact.value) = DOMAIN fact.value
      /\ Accepted(aim, Adapt(aim, fact.value)) <=> Writable(aim, fact.value)
      /\ \A r \in DOMAIN fact.value : Adapt(aim, fact.value)[r] # fact.value[r] =>
           /\ StringForPackage(aim, r, fact.value[r].kind)
           /\ \A a \in Above(r) : Takes(aim, a, fact.value[a].kind)
           /\ Adapt(aim, fact.value)[r] = [kind |-> "Package", name |-> fact.value[r].name]
  BY <1>2, <1>4, AdaptExact
<1>6. aim = Aim(fact.kind, TypeOf[GoalOf(fact).path])
  BY <1>3 DEF aim
<1> QED
  BY <1>3, <1>5, <1>6 DEF Elaborates

\* The facts of an answer without an error all resolve: the error is that of the
\* first fact that does not.
LEMMA AnswerResolves ==
    ASSUME NEW answer, AnswerError(answer) = "none", Len(answer.facts) \in Nat
    PROVE  \A i \in 1 .. Len(answer.facts) : FactError(answer.facts[i]) = "none"
<1> DEFINE bad == {i \in 1 .. Len(answer.facts) : FactError(answer.facts[i]) # "none"}
<1>1. bad = {}
  <2> SUFFICES ASSUME bad # {} PROVE FALSE
    OBVIOUS
  <2>1. \E i \in bad : \A j \in bad : i <= j
    <3>1. bad \subseteq Nat
      OBVIOUS
    <3> HIDE DEF bad
    <3> QED
      BY <3>1, LeastExists
  <2> DEFINE first == CHOOSE i \in bad : \A j \in bad : i <= j
  <2>2. first \in bad
    BY <2>1
  <2>3. AnswerError(answer) = "NoMechanism" \/ AnswerError(answer) = FactError(answer.facts[first])
    BY DEF AnswerError
  <2> QED
    BY <2>2, <2>3
<1> QED
  BY <1>1

\* One fact, alone in its sequence.
LEMMA OneFitting ==
    ASSUME NEW fact, NEW facts, facts = <<fact>>,
           fact.kind \in FactKind, IsConstant(fact.value),
           \A i \in 1 .. Len(facts) : FactError(facts[i]) = "none"
    PROVE  \A i \in 1 .. Len(facts) : Fitting(facts[i])
<1>1. Len(facts) = 1 /\ facts[1] = fact
  OBVIOUS
<1> QED
  BY <1>1 DEF Fitting

\* Whatever the intent, the facts of an answer without an error fit: those of a
\* recipe and of a Set intent by their constants, the others by construction.
LEMMA AnswerFits ==
    ASSUME NEW intent, AnswerError(ExpandIntent(intent)) = "none",
           intent.kind \in IntentKind,
           intent.kind \in {"Set", "Unset"} => intent.value \in Value
    PROVE  \A i \in 1 .. Len(ExpandIntent(intent).facts) : Fitting(ExpandIntent(intent).facts[i])
<1> DEFINE facts == ExpandIntent(intent).facts
<1>1. \A i \in 1 .. Len(facts) : FactError(facts[i]) = "none"
  <2>1. PICK S : facts \in Seq(S)
    BY AnswerFacts
  <2>2. Len(facts) \in Nat
    BY <2>1
  <2> QED
    BY <2>2, AnswerResolves
<1>2. CASE intent.kind \in {"Install", "Enable"} /\ intent.name \in DOMAIN Recipes
  <2>1. facts = Recipes[intent.name]
    BY <1>2 DEF ExpandIntent, Answer
  <2>2. facts \in Seq(Fact)
    BY <1>2, <2>1, RecipeAssumption
  <2>3. \A i \in 1 .. Len(facts) : facts[i] \in Fact
    <3> HIDE DEF Fact, facts
    <3> QED
      BY <2>2
  <2>4. \A fact \in Fact : fact.kind \in FactKind /\ IsConstant(fact.value)
    BY ValueAssumption DEF Fact
  <2> HIDE DEF facts
  <2>5. \A i \in 1 .. Len(facts) : Fitting(facts[i])
    BY <1>1, <2>3, <2>4 DEF Fitting
  <2> QED
    BY <2>5 DEF facts
<1>3. CASE \/ intent.kind = "Remove"
           \/ intent.kind = "Install" /\ intent.name \notin DOMAIN Recipes
  <2> DEFINE fact == [kind   |-> IF intent.kind = "Install" THEN "Contains" ELSE "NotContains",
                      option |-> PackagesOption,
                      value  |-> Atom("String", intent.name)]
  <2>1. facts = <<fact>>
    BY <1>3 DEF ExpandIntent, PackagesOptionAnswer, Answer
  <2>2. fact.kind \in FactKind /\ IsConstant(fact.value)
    BY AtomIsConstant DEF FactKind
  <2> HIDE DEF fact, facts
  <2>3. \A i \in 1 .. Len(facts) : Fitting(facts[i])
    BY <1>1, <2>1, <2>2, OneFitting
  <2> QED
    BY <2>3 DEF facts
<1>4. CASE \/ intent.kind = "Disable"
           \/ intent.kind = "Enable" /\ intent.name \notin DOMAIN Recipes
  <2>1. ExpandIntent(intent) = EnableHintAnswer(intent)
    BY <1>4 DEF ExpandIntent
  <2>2. ExpandIntent(intent) # NoMechanism
    BY DEF AnswerError, NoMechanism, Answer
  <2>3. \E option : facts = <<[kind |-> "Equals", option |-> option,
                               value |-> Atom("Bool", IF intent.kind = "Enable" THEN "true" ELSE "false")]>>
    <3> DEFINE options == Hints[intent.name]
               usable  == {i \in 1 .. Len(options) :
                              /\ Resolves(options[i])
                              /\ TypeOf[PathOf[options[i]]] = <<"Bool">>}
               first   == CHOOSE i \in usable : \A j \in usable : i <= j
    <3>1. usable # {}
      BY <2>1, <2>2 DEF EnableHintAnswer
    <3> DEFINE chosen == options[first]
               fact   == [kind |-> "Equals", option |-> chosen,
                          value |-> Atom("Bool", IF intent.kind = "Enable" THEN "true" ELSE "false")]
    <3>2. EnableHintAnswer(intent) = Answer("EnableHint", <<fact>>)
      BY <3>1 DEF EnableHintAnswer
    <3>3. facts = <<fact>>
      <4> HIDE DEF fact
      <4> QED
        BY <2>1, <3>2 DEF Answer
    <3> HIDE DEF chosen, facts
    <3> QED
      BY <3>3
  <2> PICK option : facts = <<[kind |-> "Equals", option |-> option,
                               value |-> Atom("Bool", IF intent.kind = "Enable" THEN "true" ELSE "false")]>>
    BY <2>3
  <2> DEFINE fact == [kind |-> "Equals", option |-> option,
                      value |-> Atom("Bool", IF intent.kind = "Enable" THEN "true" ELSE "false")]
  <2>4. fact.kind \in FactKind /\ IsConstant(fact.value)
    BY AtomIsConstant DEF FactKind
  <2>5. facts = <<fact>>
    OBVIOUS
  <2> HIDE DEF fact, facts
  <2>6. \A i \in 1 .. Len(facts) : Fitting(facts[i])
    BY <1>1, <2>4, <2>5, OneFitting
  <2> QED
    BY <2>6 DEF facts
<1>5. CASE intent.kind \in {"Set", "Unset"}
  <2> DEFINE fact == [kind |-> IF intent.kind = "Set" THEN "Equals" ELSE "Absent",
                      option |-> intent.option, value |-> intent.value]
  <2>1. facts = <<fact>>
    BY <1>5 DEF ExpandIntent, DirectAnswer, Answer
  <2>2. fact.kind \in FactKind /\ IsConstant(fact.value)
    BY <1>5, ValueAssumption DEF FactKind
  <2> HIDE DEF fact, facts
  <2>3. \A i \in 1 .. Len(facts) : Fitting(facts[i])
    BY <1>1, <2>1, <2>2, OneFitting
  <2> QED
    BY <2>3 DEF facts
<1> QED
  BY <1>2, <1>3, <1>4, <1>5 DEF IntentKind

\* Goals and constraints are sequences, the constraints alongside the axioms applied.
ElaborationInv ==
    /\ ConstantsAreElaborated
    /\ \E S : goals \in Seq(S)
    /\ \E S : constraints \in Seq(S)
    /\ \E S : applied \in Seq(S)
    /\ Len(constraints) = Len(applied)

\* Both sides of the constraint of an axiom that resolves.
LEMMA ConstraintElaborates ==
    ASSUME NEW axiom \in Axiom, AxiomError(axiom) = "none"
    PROVE  /\ Elaborates(ConstraintOf(axiom).left, axiom.left)
           /\ axiom.kind # "Requires" => Elaborates(ConstraintOf(axiom).right, axiom.right)
<1>1. \A fact \in Fact : fact.kind \in FactKind /\ IsConstant(fact.value)
  BY ValueAssumption DEF Fact
<1>2. axiom.left \in Fact /\ axiom.right \in Fact
  BY DEF Axiom
<1>3. \A fact \in Fact : FactError(fact) = "none" => Elaborates(GoalOf(fact), fact)
  BY <1>1, GoalElaborates DEF Fitting
<1>4. /\ FactError(axiom.left) = "none"
      /\ axiom.kind # "Requires" => FactError(axiom.right) = "none"
  BY DEF AxiomError
<1> QED
  BY <1>2, <1>3, <1>4 DEF ConstraintOf

LEMMA InitElaboration == Init => ElaborationInv
<1> SUFFICES ASSUME Init PROVE ElaborationInv
  OBVIOUS
<1>1. goals \in Seq({}) /\ constraints \in Seq({}) /\ applied \in Seq({})
  BY DEF Init
<1>2. Elements(goals) = {} /\ Len(constraints) = 0 /\ Len(applied) = 0
  BY DEF Init, Elements
<1>3. FactsTaken = {}
  <2>1. 1 .. (next - 1) = {}
    BY DEF Init
  <2> QED
    BY <2>1 DEF FactsTaken
<1>4. ConstantsAreElaborated
  BY <1>2, <1>3 DEF ConstantsAreElaborated
<1> QED
  BY <1>1, <1>2, <1>4 DEF ElaborationInv

\* What a step that touches neither goals nor constraints leaves as it was.
LEMMA SameElaboration ==
    ASSUME ElaborationInv, UNCHANGED <<axioms, intents, next, goals, constraints, applied>>
    PROVE  ElaborationInv'
<1>1. FactsTaken' = FactsTaken /\ Elements(goals)' = Elements(goals)
  BY DEF FactsTaken, Elements
<1>2. \A g, f : Elaborates(g, f)' = Elaborates(g, f)
  BY DEF Elaborates
<1>3. ConstantsAreElaborated'
  BY <1>1, <1>2 DEF ElaborationInv, ConstantsAreElaborated
<1> QED
  BY <1>3 DEF ElaborationInv

LEMMA TakeIntentElaboration == CatalogInv /\ ElaborationInv /\ TakeIntent => ElaborationInv'
<1> SUFFICES ASSUME CatalogInv, ElaborationInv, TakeIntent PROVE ElaborationInv'
  OBVIOUS
<1> DEFINE answer == ExpandIntent(intents[next])
           facts  == answer.facts
           added  == [i \in 1 .. Len(facts) |-> GoalOf(facts[i])]
<1>1. CASE AnswerError(answer) # "none"
  BY <1>1, SameElaboration DEF TakeIntent
<1>2. CASE AnswerError(answer) = "none"
  <2>1. /\ goals' = goals \o added /\ next' = next + 1
        /\ UNCHANGED <<axioms, intents, constraints, applied>>
    BY <1>2 DEF TakeIntent
  <2>2. next \in 1 .. Len(intents) /\ next \in Nat
    BY IntentAssumption DEF TakeIntent, CatalogInv
  <2>3. /\ intents[next].kind \in IntentKind
        /\ intents[next].kind \in {"Set", "Unset"} => intents[next].value \in Value
    BY <2>2, IntentAssumption DEF CatalogInv
  <2>4. PICK S : facts \in Seq(S)
    BY <1>2, <2>3, AnswerFacts
  <2>5. PICK G : goals \in Seq(G)
    BY DEF ElaborationInv
  <2> DEFINE U == G \cup {GoalOf(f) : f \in S}
  <2>6. added \in Seq(U) /\ Len(added) = Len(facts)
    BY <2>4
  <2>7. goals \in Seq(U)
    BY <2>5
  <2>8. goals' \in Seq(U) /\ Elements(goals') = Elements(goals) \cup Elements(added)
    <3> HIDE DEF added, U
    <3> QED
      BY <2>1, <2>6, <2>7, ElementsConcat
  <2>9. \A i \in 1 .. Len(facts) : Elaborates(added[i], facts[i])
    <3>1. \A i \in 1 .. Len(facts) : Fitting(facts[i])
      BY <1>2, <2>3, AnswerFits
    <3>2. \A i \in 1 .. Len(facts) : added[i] = GoalOf(facts[i])
      OBVIOUS
    <3> HIDE DEF added, facts
    <3> QED
      BY <3>1, <3>2, GoalElaborates
  <2>10. FactsTaken' = FactsTaken \cup Elements(facts)
    <3>1. 1 .. (next' - 1) = (1 .. (next - 1)) \cup {next}
      BY <2>1, <2>2
    <3> DEFINE FactsAt(i) == Elements(ExpandIntent(intents[i]).facts)
    <3>2. FactsTaken = UNION {FactsAt(i) : i \in 1 .. (next - 1)}
      BY DEF FactsTaken
    <3>3. FactsTaken' = UNION {FactsAt(i) : i \in 1 .. (next' - 1)}
      BY <2>1 DEF FactsTaken, Elements
    <3>4. Elements(facts) = FactsAt(next)
      OBVIOUS
    <3> HIDE DEF FactsAt, facts
    <3> QED
      BY <3>1, <3>2, <3>3, <3>4
  <2>11. ConstantsAreElaborated'
    <3>1. \A g \in Elements(added) : \E f \in Elements(facts) : Elaborates(g, f)
      <4> HIDE DEF added, facts
      <4> QED
        BY <2>6, <2>9 DEF Elements
    <3>2. \A f \in Elements(facts) : \E g \in Elements(added) : Elaborates(g, f)
      <4> HIDE DEF added, facts
      <4> QED
        BY <2>6, <2>9 DEF Elements
    <3> HIDE DEF added, facts
    <3>3. \A g \in Elements(goals') : \E f \in FactsTaken' : Elaborates(g, f)
      BY <2>8, <2>10, <3>1 DEF ElaborationInv, ConstantsAreElaborated
    <3>4. \A f \in FactsTaken' : \E g \in Elements(goals') : Elaborates(g, f)
      BY <2>8, <2>10, <3>2 DEF ElaborationInv, ConstantsAreElaborated
    <3>5. Elements(goals)' = Elements(goals') /\ \A g, f : Elaborates(g, f)' = Elaborates(g, f)
      BY DEF Elements, Elaborates
    <3> QED
      BY <2>1, <3>3, <3>4, <3>5 DEF ElaborationInv, ConstantsAreElaborated
  <2> QED
    BY <2>1, <2>8, <2>11 DEF ElaborationInv
<1> QED
  BY <1>1, <1>2

LEMMA SelectAxiomElaboration == CatalogInv /\ ElaborationInv /\ SelectAxiom => ElaborationInv'
<1> SUFFICES ASSUME CatalogInv, ElaborationInv, SelectAxiom PROVE ElaborationInv'
  OBVIOUS
<1> DEFINE axiom == axioms[index]
           added == ConstraintOf(axiom)
<1>1. CASE AxiomError(axiom) # "none"
  BY <1>1, SameElaboration DEF SelectAxiom
<1>2. CASE AxiomError(axiom) = "none"
  <2>1. /\ constraints' = Append(constraints, added) /\ applied' = Append(applied, index)
        /\ UNCHANGED <<axioms, intents, next, goals>>
    BY <1>2 DEF SelectAxiom
  <2>2. axiom \in Axiom
    <3>1. axioms \in Seq(Axiom) /\ index \in 1 .. Len(axioms)
      BY ListsOfAxioms DEF CatalogInv, SelectAxiom, N
    <3> HIDE DEF Axiom
    <3> QED
      BY <3>1
  <2>3. /\ Elaborates(added.left, axiom.left)
        /\ axiom.kind # "Requires" => Elaborates(added.right, axiom.right)
    BY <1>2, <2>2, ConstraintElaborates
  <2>4. PICK C, A : constraints \in Seq(C) /\ applied \in Seq(A) /\ Len(constraints) = Len(applied)
    BY DEF ElaborationInv
  <2> HIDE DEF added
  <2>5. /\ constraints' \in Seq(C \cup {added}) /\ applied' \in Seq(A \cup {index})
        /\ Len(constraints) \in Nat
        /\ Len(constraints') = Len(constraints) + 1 /\ Len(applied') = Len(constraints) + 1
        /\ constraints'[Len(constraints) + 1] = added /\ applied'[Len(constraints) + 1] = index
        /\ \A i \in 1 .. Len(constraints) :
             constraints'[i] = constraints[i] /\ applied'[i] = applied[i]
    BY <2>1, <2>4
  <2>6. ASSUME NEW i \in 1 .. Len(constraints')
        PROVE  /\ Elaborates(constraints'[i].left, axioms[applied'[i]].left)
               /\ axioms[applied'[i]].kind # "Requires" =>
                    Elaborates(constraints'[i].right, axioms[applied'[i]].right)
    <3>1. CASE i = Len(constraints) + 1
      BY <2>3, <2>5, <3>1
    <3>2. CASE i \in 1 .. Len(constraints)
      BY <2>5, <3>2 DEF ElaborationInv, ConstantsAreElaborated
    <3> QED
      BY <2>5, <3>1, <3>2
  <2>7. ConstantsAreElaborated'
    <3>1. Elements(goals)' = Elements(goals) /\ FactsTaken' = FactsTaken
      BY <2>1 DEF Elements, FactsTaken
    <3>2. \A g, f : Elaborates(g, f)' = Elaborates(g, f)
      BY DEF Elaborates
    <3>3. /\ \A g \in Elements(goals) : \E f \in FactsTaken : Elaborates(g, f)
          /\ \A f \in FactsTaken : \E g \in Elements(goals) : Elaborates(g, f)
      BY DEF ElaborationInv, ConstantsAreElaborated
    <3> QED
      BY <2>1, <2>6, <3>1, <3>2, <3>3 DEF ConstantsAreElaborated
  <2> QED
    BY <2>1, <2>4, <2>5, <2>7 DEF ElaborationInv
<1> QED
  BY <1>1, <1>2

\* The goals and the constraints say what the facts say, for any catalog: a constant
\* the schema can take reaches the solver as one it takes, and one it cannot take is
\* still rejected, however deep its containers and wherever they part from the type.
THEOREM ConstantsElaborated == Spec => []ConstantsAreElaborated
<1>1. CatalogInv /\ ElaborationInv /\ [Next]_vars => ElaborationInv'
  <2> SUFFICES ASSUME CatalogInv, ElaborationInv, [Next]_vars PROVE ElaborationInv'
    OBVIOUS
  <2>1. CASE UNCHANGED <<axioms, intents, next, goals, constraints, applied>>
    BY <2>1, SameElaboration
  <2> QED
    BY <2>1, TakeIntentElaboration, SelectAxiomElaboration
    DEF Next, StartAxioms, SkipAxiom, NextPass, Return, vars
<1>2. ElaborationInv => ConstantsAreElaborated
  BY DEF ElaborationInv
<1> QED
  BY <1>1, <1>2, InitElaboration, CatalogInvariant, PTL DEF Spec

-----------------------------------------------------------------------------
(***************************************************************************)
(* expand returns: each pass but the last selects an axiom.                *)
(***************************************************************************)

\* The passes that can follow the one under way.
PassesLeft == N - Cardinality(selected) + (IF changed THEN 1 ELSE 0)

\* The steps of expand that can follow, intents first, then pass by pass.
StepsLeft ==
    CASE pc = "intents" -> Len(intents) + 1 - next + N * (N + 2) + N + 2
      [] pc = "axioms"  -> PassesLeft * (N + 2) + N + 2 - index
      [] pc = "done"    -> 0

EveryStepCounts == [][/\ StepsLeft \in Nat
                      /\ StepsLeft' \in 0 .. StepsLeft - 1]_vars

\* What the count rests on besides CatalogInv.
CountInv ==
    /\ pc \in {"intents", "axioms", "done"}
    /\ changed \in BOOLEAN
    /\ next \in 1 .. Len(intents) + 1
    /\ pc = "intents" => ~changed

LEMMA CountInvariant == Spec => []CountInv
<1>1. Init => CountInv
  <2> SUFFICES ASSUME Init PROVE CountInv
    OBVIOUS
  <2>1. Len(intents) \in Nat
    BY IntentAssumption DEF Init
  <2>2. next = 1 /\ pc = "intents" /\ changed = FALSE
    BY DEF Init
  <2>3. next \in 1 .. Len(intents) + 1
    BY <2>1, <2>2
  <2>4. changed \in BOOLEAN /\ ~changed
    BY <2>2
  <2> QED
    BY <2>2, <2>3, <2>4, Zenon DEF CountInv
<1>2. CatalogInv /\ CountInv /\ [Next]_vars => CountInv'
  <2> SUFFICES ASSUME CatalogInv, CountInv, [Next]_vars PROVE CountInv'
    OBVIOUS
  <2>1. Len(intents) \in Nat
    BY IntentAssumption DEF CatalogInv
  <2>2. CASE TakeIntent
    <3>1. UNCHANGED <<intents, changed>> /\ pc = "intents" /\ next <= Len(intents)
      BY <2>2 DEF TakeIntent
    <3>2. (pc' = "done" /\ UNCHANGED next) \/ (UNCHANGED pc /\ next' = next + 1)
      BY <2>2 DEF TakeIntent
    <3> QED
      BY <2>1, <3>1, <3>2 DEF CountInv
  <2>3. CASE StartAxioms \/ SkipAxiom \/ SelectAxiom \/ NextPass \/ Return
    <3>1. UNCHANGED <<intents, next>> /\ pc' \in {"axioms", "done"} /\ changed' \in BOOLEAN
      BY <2>3 DEF StartAxioms, SkipAxiom, SelectAxiom, NextPass, Return, CountInv
    <3> QED
      BY <3>1 DEF CountInv
  <2>4. CASE UNCHANGED vars
    BY <2>4 DEF vars, CountInv
  <2> QED
    BY <2>2, <2>3, <2>4 DEF Next
<1> QED
  BY <1>1, <1>2, CatalogInvariant, PTL DEF Spec

\* One more pass is N + 2 more steps.
LEMMA PassCosts ==
    ASSUME NEW p \in Nat, NEW m \in Nat
    PROVE  p * m \in Nat /\ (p + 1) * m = p * m + m
  OBVIOUS

LEMMA SelectedCount ==
    ASSUME CatalogInv
    PROVE  /\ N \in Nat
           /\ IsFiniteSet(selected)
           /\ Cardinality(selected) \in 0 .. N
           /\ \A i \in 1 .. N : i \notin selected =>
                /\ Cardinality(selected) < N
                /\ Cardinality(selected \cup {i}) = Cardinality(selected) + 1
<1>1. N \in Nat /\ selected \subseteq 1 .. N
  BY ListsOfAxioms DEF CatalogInv
<1>2. IsFiniteSet(1 .. N) /\ Cardinality(1 .. N) = N
  BY <1>1, FS_Interval
<1>3. \A S \in SUBSET (1 .. N) : IsFiniteSet(S) /\ Cardinality(S) \in 0 .. N
  <2> TAKE S \in SUBSET (1 .. N)
  <2>1. IsFiniteSet(S) /\ Cardinality(S) <= N
    BY <1>2, FS_Subset
  <2>2. Cardinality(S) \in Nat
    BY <2>1, FS_CardinalityType
  <2> QED
    BY <1>1, <2>1, <2>2
<1>4. ASSUME NEW i \in 1 .. N, i \notin selected
      PROVE  /\ Cardinality(selected) < N
             /\ Cardinality(selected \cup {i}) = Cardinality(selected) + 1
  <2>1. Cardinality(selected \cup {i}) = Cardinality(selected) + 1
    BY <1>1, <1>3, <1>4, FS_AddElement
  <2>2. Cardinality(selected \cup {i}) \in 0 .. N /\ Cardinality(selected) \in Nat
    BY <1>1, <1>3
  <2> QED
    BY <1>1, <2>1, <2>2
<1> QED
  BY <1>1, <1>3, <1>4

\* expand ends for every catalog and every list of intents, within as many steps as
\* N + 1 passes over the N axioms take behind one step for each intent.
THEOREM PassesEnd ==
    Spec => /\ StepsLeft = Len(intents) + (Len(axioms) + 1) * (Len(axioms) + 2)
            /\ EveryStepCounts
<1>1. Init => StepsLeft = Len(intents) + (Len(axioms) + 1) * (Len(axioms) + 2)
  <2> SUFFICES ASSUME Init PROVE StepsLeft = Len(intents) + (N + 1) * (N + 2)
    BY DEF N
  <2>1. N \in Nat /\ Len(intents) \in Nat
    BY AxiomAssumption, IntentAssumption DEF Init, N
  <2>2. (N + 1) * (N + 2) = N * (N + 2) + (N + 2) /\ N * (N + 2) \in Nat
    BY <2>1, PassCosts
  <2>3. pc = "intents" /\ next = 1
    BY DEF Init
  <2> QED
    BY <2>1, <2>2, <2>3 DEF StepsLeft
<1>2. CatalogInv /\ CountInv /\ [Next]_vars
        => [/\ StepsLeft \in Nat
            /\ StepsLeft' \in 0 .. StepsLeft - 1]_vars
  <2> SUFFICES ASSUME CatalogInv, CountInv, Next
               PROVE  StepsLeft \in Nat /\ StepsLeft' \in 0 .. StepsLeft - 1
    OBVIOUS
  <2>1. N \in Nat /\ Len(intents) \in Nat /\ index \in 1 .. N + 1 /\ next \in 1 .. Len(intents) + 1
    BY SelectedCount, IntentAssumption DEF CatalogInv, CountInv
  <2>2. PassesLeft \in Nat /\ (changed => PassesLeft >= 1)
    BY SelectedCount DEF PassesLeft, CountInv
  <2>3. PassesLeft * (N + 2) \in Nat /\ N * (N + 2) \in Nat
    BY <2>1, <2>2, PassCosts
  <2>4. UNCHANGED <<axioms, intents>> /\ N' = N
    BY DEF Next, TakeIntent, StartAxioms, SkipAxiom, SelectAxiom, NextPass, Return, N
  <2>5. CASE TakeIntent
    <3>1. pc = "intents" /\ next <= Len(intents)
      BY <2>5 DEF TakeIntent
    <3>2. pc' = "done" \/ (pc' = "intents" /\ next' = next + 1)
      BY <2>5 DEF TakeIntent
    <3>3. StepsLeft = Len(intents) + 1 - next + N * (N + 2) + N + 2
      BY <3>1 DEF StepsLeft
    <3>4. CASE pc' = "done"
      <4>1. StepsLeft' = 0
        BY <3>4 DEF StepsLeft
      <4> QED
        BY <2>1, <2>3, <3>1, <3>3, <4>1
    <3>5. CASE pc' = "intents" /\ next' = next + 1
      <4>1. StepsLeft' = Len(intents) + 1 - (next + 1) + N * (N + 2) + N + 2
        BY <2>4, <3>5 DEF StepsLeft
      <4> QED
        BY <2>1, <2>3, <3>1, <3>3, <4>1
    <3> QED
      BY <3>2, <3>4, <3>5
  <2>6. CASE StartAxioms
    <3>1. /\ pc = "intents" /\ pc' = "axioms"
          /\ UNCHANGED <<selected, changed, index>>
      BY <2>6 DEF StartAxioms
    <3>2. selected = {} /\ ~changed /\ index = 1
      BY <3>1 DEF CatalogInv, CountInv
    <3>3. PassesLeft' = N
      BY <2>1, <2>4, <3>1, <3>2, FS_EmptySet DEF PassesLeft
    <3>4. StepsLeft' = N * (N + 2) + N + 2 - 1
      BY <2>4, <3>1, <3>2, <3>3 DEF StepsLeft
    <3>5. StepsLeft = Len(intents) + 1 - next + N * (N + 2) + N + 2
      BY <3>1 DEF StepsLeft
    <3> QED
      BY <2>1, <2>3, <3>4, <3>5
  <2>7. CASE SkipAxiom
    <3>1. /\ pc = "axioms" /\ pc' = "axioms" /\ index <= N /\ index' = index + 1
          /\ UNCHANGED <<selected, changed>>
      BY <2>7 DEF SkipAxiom, N
    <3>2. PassesLeft' = PassesLeft
      BY <2>4, <3>1 DEF PassesLeft
    <3>3. /\ StepsLeft = PassesLeft * (N + 2) + N + 2 - index
          /\ StepsLeft' = PassesLeft * (N + 2) + N + 2 - (index + 1)
      BY <2>4, <3>1, <3>2 DEF StepsLeft
    <3> QED
      BY <2>1, <2>3, <3>1, <3>3
  <2>8. CASE SelectAxiom
    <3>1. /\ pc = "axioms" /\ index <= N /\ index \notin selected
          /\ selected' = selected \cup {index} /\ changed' = TRUE
          /\ pc' = "done" \/ (pc' = "axioms" /\ index' = index + 1)
      BY <2>8 DEF SelectAxiom, Joins, N
    <3>2. StepsLeft = PassesLeft * (N + 2) + N + 2 - index
      BY <3>1 DEF StepsLeft
    <3>3. CASE pc' = "done"
      BY <2>1, <2>3, <3>1, <3>2, <3>3 DEF StepsLeft
    <3>4. CASE pc' = "axioms" /\ index' = index + 1
      <4>1. Cardinality(selected') = Cardinality(selected) + 1 /\ Cardinality(selected) \in 0 .. N
        BY <2>1, <3>1, SelectedCount
      <4>2. /\ PassesLeft' = N - Cardinality(selected)
            /\ PassesLeft = PassesLeft' \/ PassesLeft = PassesLeft' + 1
            /\ PassesLeft' \in Nat
        BY <2>1, <2>4, <3>1, <4>1 DEF PassesLeft, CountInv
      <4>3. /\ PassesLeft' * (N + 2) \in Nat
            /\ PassesLeft' * (N + 2) <= PassesLeft * (N + 2)
        BY <2>1, <4>2, PassCosts
      <4>4. StepsLeft' = PassesLeft' * (N + 2) + N + 2 - (index + 1)
        BY <2>4, <3>4 DEF StepsLeft
      <4> DEFINE now  == PassesLeft * (N + 2)
                 then == PassesLeft' * (N + 2)
      <4>5. /\ now \in Nat /\ then \in Nat /\ then <= now
            /\ StepsLeft = now + N + 2 - index
            /\ StepsLeft' = then + N + 2 - (index + 1)
        BY <2>3, <3>2, <4>3, <4>4
      <4> HIDE DEF now, then
      <4> QED
        BY <2>1, <3>1, <4>5
    <3> QED
      BY <3>1, <3>3, <3>4
  <2>9. CASE NextPass
    <3>1. /\ pc = "axioms" /\ pc' = "axioms" /\ index > N /\ index' = 1 /\ changed /\ ~changed'
          /\ UNCHANGED selected
      BY <2>9 DEF NextPass, N
    <3>2. PassesLeft = PassesLeft' + 1 /\ PassesLeft' \in Nat
      BY <2>1, <2>4, <3>1, SelectedCount DEF PassesLeft
    <3>3. PassesLeft * (N + 2) = PassesLeft' * (N + 2) + (N + 2) /\ PassesLeft' * (N + 2) \in Nat
      <4> DEFINE p == PassesLeft'
                 m == N + 2
      <4>1. p \in Nat /\ m \in Nat /\ PassesLeft = p + 1
        BY <2>1, <3>2
      <4> HIDE DEF p, m
      <4>2. p * m \in Nat /\ (p + 1) * m = p * m + m
        BY <4>1, PassCosts
      <4>3. PassesLeft * m = p * m + m /\ p * m \in Nat
        BY <4>1, <4>2
      <4> QED
        BY <4>3 DEF p, m
    <3>4. /\ StepsLeft = PassesLeft * (N + 2) + N + 2 - index
          /\ StepsLeft' = PassesLeft' * (N + 2) + N + 2 - 1
      BY <2>4, <3>1 DEF StepsLeft
    <3> QED
      BY <2>1, <3>1, <3>3, <3>4
  <2>10. CASE Return
    <3>1. pc = "axioms" /\ pc' = "done"
      BY <2>10 DEF Return
    <3> QED
      BY <2>1, <2>3, <3>1 DEF StepsLeft
  <2> QED
    BY <2>5, <2>6, <2>7, <2>8, <2>9, <2>10 DEF Next
<1> QED
  BY <1>1, <1>2, CatalogInvariant, CountInvariant, PTL DEF Spec, EveryStepCounts
=============================================================================
