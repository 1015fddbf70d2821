------------------------------ MODULE Catalog ------------------------------
(***************************************************************************)
(* Catalog::expand: intents become goals of a planning request, and every  *)
(* axiom the mentioned options pull in becomes a constraint.  The intents  *)
(* are expanded one by one; then the axioms are scanned in passes until a  *)
(* pass selects none.  An error anywhere drops the request.                *)
(*                                                                         *)
(* Option names are the dotted names of the catalog.  Several names may    *)
(* resolve to one output path, some resolve to none, and some paths have   *)
(* no declaration.                                                         *)
(***************************************************************************)
EXTENDS Integers, Sequences, FiniteSets

CONSTANTS
    Name,             \* package and feature names
    Option,           \* dotted option names
    Path,             \* output paths
    NoPath,           \* output_path() = None
    PathOf,           \* output_path
    Declared,         \* the paths output_declaration knows
    TypeOf,           \* their types
    PackagesOption,   \* packages_option
    Hints,            \* the options <prefix>.<name>.enable of a name, in hint order
    Recipes,          \* recipes: the facts of the names that have one
    Value,            \* constants written in intents and facts
    AxiomList,        \* the lists of axioms considered
    IntentList        \* the lists of intents considered

\* A type is its constructors from the outside in: Set(Optional(Package)) is
\* <<"Set", "Optional", "Package">>.  Other stands for every type that is neither a
\* container nor Package or Bool, unions included.
Container == {"Set", "List", "Optional"}
AtomKind == {"Package", "Bool", "Other"}
IsType(t) ==
    /\ t \in Seq(Container \cup AtomKind)
    /\ Len(t) > 0
    /\ \A n \in 1 .. Len(t) : t[n] \in Container <=> n < Len(t)

\* A constant is a tree: from the routes to its positions, the root being <<>>, to
\* what is there.  Only containers have positions below them, and an empty one, as
\* Optional(None), has none.
Atom(kind, name) == [r \in {<<>>} |-> [kind |-> kind, name |-> name]]
Above(r) == {SubSeq(r, 1, n) : n \in 0 .. (Len(r) - 1)}
IsConstant(v) ==
    /\ v = [r \in DOMAIN v |-> v[r]]
    /\ \A r \in DOMAIN v :
         /\ r \in Seq(Nat)
         /\ Above(r) \subseteq DOMAIN v
         /\ \A a \in Above(r) : v[a].kind \in Container

FactKind == {"Equals", "Absent", "Contains", "NotContains"}
Fact == [kind : FactKind, option : Option, value : Value]
Axiom == [kind : {"Requires", "Implies", "Conflicts"}, left : Fact, right : Fact]
IntentKind == {"Install", "Remove", "Enable", "Disable", "Set", "Unset"}

ASSUME PathAssumption == /\ PathOf \in [Option -> Path \cup {NoPath}]
                         /\ NoPath \notin Path
                         /\ Declared \subseteq Path
                         /\ \A p \in Declared : IsType(TypeOf[p])
ASSUME AxiomAssumption == AxiomList \subseteq Seq(Axiom)
ASSUME IntentAssumption == \A s \in IntentList :
    /\ Len(s) \in Nat
    /\ \A i \in 1 .. Len(s) : /\ s[i].kind \in IntentKind
                              /\ s[i].kind \in {"Set", "Unset"} => s[i].value \in Value
ASSUME ValueAssumption == \A v \in Value : IsConstant(v)
ASSUME RecipeAssumption == \A n \in DOMAIN Recipes : Recipes[n] \in Seq(Fact)

VARIABLES
    axioms,      \* the axioms of the catalog, fixed
    intents,     \* the intents, fixed
    pc,          \* "intents", "axioms" or "done"
    next,        \* the next intent to expand
    goals,       \* request.goals
    constraints, \* request.constraints
    mechanisms,
    mentioned,
    selected,    \* the axioms marked selected
    applied,
    index,       \* where the pass over the axioms is
    changed,
    outcome      \* the error returned, or "Expansion"

vars == <<axioms, intents, pc, next, goals, constraints, mechanisms, mentioned,
          selected, applied, index, changed, outcome>>

Elements(s) == {s[i] : i \in 1 .. Len(s)}

(***************************************************************************)
(* adapt_constant descends into a constant as far as each container is of  *)
(* the kind the type has in that place, a set in a Set, a list in a List,  *)
(* a value that is there in an Optional.  A string it finds where the type *)
(* has come down to Package becomes a package atom; a bare string aimed at *)
(* an Optional, a list aimed at a Set and all else stay as they are.       *)
(***************************************************************************)
\* What the type has at a position, if it reaches that deep.
Wants(type, r, kind) == Len(r) < Len(type) /\ type[Len(r) + 1] = kind

Reached(type, v, r) == \A a \in Above(r) : Wants(type, a, v[a].kind)

Adapt(type, v) ==
    [r \in DOMAIN v |->
        IF Reached(type, v, r) /\ Wants(type, r, "Package") /\ v[r].kind = "String"
        THEN [kind |-> "Package", name |-> v[r].name] ELSE v[r]]

(***************************************************************************)
(* resolve_option, collection_element and resolve_fact.                    *)
(***************************************************************************)
Resolves(option) == PathOf[option] \in Declared

Membership == {"Contains", "NotContains"}
IsCollection(type) == type[1] \in {"Set", "List"}

\* Contains and NotContains need a collection.
FactError(fact) ==
    IF ~Resolves(fact.option) THEN "UnknownOption"
    ELSE IF fact.kind \in Membership /\ ~IsCollection(TypeOf[PathOf[fact.option]])
         THEN "NotACollection"
         ELSE "none"

\* Mutant: members are adapted to the collection instead of its element.
GoalOfCollection(fact) ==
    LET path == PathOf[fact.option] IN
    [kind |-> fact.kind, path |-> path, value |-> Adapt(TypeOf[path], fact.value)]

\* The type the constant of a fact is meant for.
Aim(kind, type) == IF kind \in Membership THEN Tail(type) ELSE type

GoalOf(fact) ==
    LET path == PathOf[fact.option] IN
    [kind |-> fact.kind, path |-> path,
     value |-> Adapt(Aim(fact.kind, TypeOf[path]), fact.value)]

\* The constraint of an axiom; Requires has only its left fact.
FactsOf(axiom) == IF axiom.kind = "Requires" THEN {axiom.left} ELSE {axiom.left, axiom.right}

ConstraintOf(axiom) ==
    IF axiom.kind = "Requires"
    THEN [kind |-> axiom.kind, left |-> GoalOf(axiom.left), right |-> GoalOf(axiom.left)]
    ELSE [kind |-> axiom.kind, left |-> GoalOf(axiom.left), right |-> GoalOf(axiom.right)]

\* The first error met while an axiom is resolved, left fact first.
AxiomError(axiom) ==
    IF FactError(axiom.left) # "none" \/ axiom.kind = "Requires"
    THEN FactError(axiom.left) ELSE FactError(axiom.right)

\* The paths an axiom mentions, whether they are declared or not.
PathsOf(axiom) == {PathOf[fact.option] : fact \in FactsOf(axiom)} \ {NoPath}

(***************************************************************************)
(* expand_intent: the facts an intent stands for, its mechanism, and the   *)
(* error when there is none.  Only Install and Enable look up recipes.     *)
(***************************************************************************)
Answer(mechanism, facts) == [mechanism |-> mechanism, facts |-> facts]

NoMechanism == Answer("NoMechanism", <<>>)

PackagesOptionAnswer(intent) ==
    Answer("PackagesOption",
        <<[kind   |-> IF intent.kind = "Install" THEN "Contains" ELSE "NotContains",
           option |-> PackagesOption,
           value  |-> Atom("String", intent.name)]>>)

\* The first hint that resolves to a declared Bool.
EnableHintAnswer(intent) ==
    LET options == Hints[intent.name]
        usable  == {i \in 1 .. Len(options) :
                        /\ Resolves(options[i])
                        /\ TypeOf[PathOf[options[i]]] = <<"Bool">>}
    IN  IF usable = {} THEN NoMechanism
        ELSE LET first == CHOOSE i \in usable : \A j \in usable : i <= j
             IN  Answer("EnableHint",
                    <<[kind |-> "Equals", option |-> options[first],
                       value |-> Atom("Bool", IF intent.kind = "Enable" THEN "true" ELSE "false")]>>)

DirectAnswer(intent) ==
    Answer("Direct", <<[kind |-> IF intent.kind = "Set" THEN "Equals" ELSE "Absent",
                        option |-> intent.option, value |-> intent.value]>>)

ExpandIntent(intent) ==
    CASE intent.kind \in {"Install", "Enable"} /\ intent.name \in DOMAIN Recipes ->
           Answer("Recipe", Recipes[intent.name])
      [] intent.kind = "Install" /\ intent.name \notin DOMAIN Recipes -> PackagesOptionAnswer(intent)
      [] intent.kind = "Remove" -> PackagesOptionAnswer(intent)
      [] intent.kind = "Enable" /\ intent.name \notin DOMAIN Recipes -> EnableHintAnswer(intent)
      [] intent.kind = "Disable" -> EnableHintAnswer(intent)
      [] intent.kind \in {"Set", "Unset"} -> DirectAnswer(intent)

\* The error of the first fact that does not resolve.
AnswerError(answer) ==
    LET bad == {i \in 1 .. Len(answer.facts) : FactError(answer.facts[i]) # "none"}
    IN  IF answer.mechanism = "NoMechanism" THEN "NoMechanism"
        ELSE IF bad = {} THEN "none"
        ELSE FactError(answer.facts[CHOOSE i \in bad : \A j \in bad : i <= j])

Init ==
    /\ axioms \in AxiomList
    /\ intents \in IntentList
    /\ pc = "intents"
    /\ next = 1
    /\ goals = <<>>
    /\ constraints = <<>>
    /\ mechanisms = <<>>
    /\ mentioned = {}
    /\ selected = {}
    /\ applied = <<>>
    /\ index = 1
    /\ changed = FALSE
    /\ outcome = "none"

\* A whole intent; on an error the request built so far is dropped.
TakeIntent ==
    /\ pc = "intents"
    /\ next <= Len(intents)
    /\ LET answer == ExpandIntent(intents[next]) IN
         IF AnswerError(answer) # "none"
         THEN /\ pc' = "done"
              /\ outcome' = AnswerError(answer)
              /\ UNCHANGED <<next, goals, mechanisms, mentioned>>
         ELSE /\ goals' = goals \o [i \in 1 .. Len(answer.facts) |-> GoalOf(answer.facts[i])]
              /\ mentioned' = mentioned \cup {PathOf[f.option] : f \in Elements(answer.facts)}
              /\ mechanisms' = Append(mechanisms, answer.mechanism)
              /\ next' = next + 1
              /\ UNCHANGED <<pc, outcome>>
    /\ UNCHANGED <<axioms, intents, constraints, selected, applied, index, changed>>

\* Mutant: the axioms are all resolved before any is selected.
StartAxiomsEagerly ==
    /\ pc = "intents"
    /\ next > Len(intents)
    /\ IF \E i \in 1 .. Len(axioms) : AxiomError(axioms[i]) # "none"
       THEN pc' = "done" /\ outcome' = "UnknownOption"
       ELSE pc' = "axioms" /\ UNCHANGED outcome
    /\ UNCHANGED <<axioms, intents, next, goals, constraints, mechanisms, mentioned,
                   selected, applied, index, changed>>

StartAxioms ==
    /\ pc = "intents"
    /\ next > Len(intents)
    /\ pc' = "axioms"
    /\ UNCHANGED <<axioms, intents, next, goals, constraints, mechanisms, mentioned,
                   selected, applied, index, changed, outcome>>

\* An axiom with a path of its own among the given ones.
Touches(axiom, paths) == PathsOf(axiom) \cap paths # {}

\* Mutant: any axiom joins.
AnyJoins(i) == i \notin selected

Joins(i) == i \notin selected /\ Touches(axioms[i], mentioned)

SkipAxiom ==
    /\ pc = "axioms"
    /\ index <= Len(axioms)
    /\ ~Joins(index)
    /\ index' = index + 1
    /\ UNCHANGED <<axioms, intents, pc, next, goals, constraints, mechanisms, mentioned,
                   selected, applied, changed, outcome>>

\* A selected axiom is resolved, its options are mentioned from here on, and it
\* becomes a constraint; an option that does not resolve is an error.
SelectAxiom ==
    /\ pc = "axioms"
    /\ index <= Len(axioms)
    /\ Joins(index)
    /\ selected' = selected \cup {index}
    /\ changed' = TRUE
    /\ LET axiom == axioms[index] IN
         IF AxiomError(axiom) # "none"
         THEN /\ pc' = "done"
              /\ outcome' = AxiomError(axiom)
              /\ UNCHANGED <<mentioned, constraints, applied, index>>
         ELSE /\ mentioned' = mentioned \cup PathsOf(axiom)
              /\ constraints' = Append(constraints, ConstraintOf(axiom))
              /\ applied' = Append(applied, index)
              /\ index' = index + 1
              /\ UNCHANGED <<pc, outcome>>
    /\ UNCHANGED <<axioms, intents, next, goals, mechanisms>>

\* Mutant: one pass is enough.
OnePass ==
    /\ pc = "axioms"
    /\ index > Len(axioms)
    /\ pc' = "done"
    /\ outcome' = "Expansion"
    /\ UNCHANGED <<axioms, intents, next, goals, constraints, mechanisms, mentioned,
                   selected, applied, index, changed>>

\* Mutant: changed is not reset before the next pass.
NextPassForever ==
    /\ pc = "axioms"
    /\ index > Len(axioms)
    /\ changed
    /\ index' = 1
    /\ UNCHANGED <<axioms, intents, pc, next, goals, constraints, mechanisms, mentioned,
                   selected, applied, changed, outcome>>

NextPass ==
    /\ pc = "axioms"
    /\ index > Len(axioms)
    /\ changed
    /\ index' = 1
    /\ changed' = FALSE
    /\ UNCHANGED <<axioms, intents, pc, next, goals, constraints, mechanisms, mentioned,
                   selected, applied, outcome>>

Return ==
    /\ pc = "axioms"
    /\ index > Len(axioms)
    /\ ~changed
    /\ pc' = "done"
    /\ outcome' = "Expansion"
    /\ UNCHANGED <<axioms, intents, next, goals, constraints, mechanisms, mentioned,
                   selected, applied, index, changed>>

Next == TakeIntent \/ StartAxioms \/ SkipAxiom \/ SelectAxiom \/ NextPass \/ Return

\* One call; its loops are driven by nothing but the call itself.
Fairness == WF_vars(Next)
Spec == Init /\ [][Next]_vars /\ Fairness

-----------------------------------------------------------------------------
(***************************************************************************)
(* The axioms that belong to a request are the least set that holds every  *)
(* axiom touching a path of the goals or of another axiom of the set.  The *)
(* definition knows no order and no passes.                                *)
(***************************************************************************)
Needles == {g.path : g \in Elements(goals)}

PathsOfSet(S) == UNION {PathsOf(axioms[i]) : i \in S}

ClosedUnderTouch(S) ==
    \A i \in 1 .. Len(axioms) :
        Touches(axioms[i], Needles \cup PathsOfSet(S)) => i \in S

Belongs(i) == \A S \in SUBSET (1 .. Len(axioms)) : ClosedUnderTouch(S) => i \in S

\* Needle selection is sound: no axiom joins a request it has nothing to do with.
SelectedBelong == pc # "intents" => \A i \in selected : Belongs(i)

\* Needle selection is complete: a returned expansion has every axiom that
\* belongs, each of them once, whatever their order in the catalog.
ExpansionIsClosed ==
    outcome = "Expansion" =>
        /\ \A i \in 1 .. Len(axioms) : Belongs(i) => i \in Elements(applied)
        /\ \A i, j \in 1 .. Len(applied) : applied[i] = applied[j] => i = j

\* "Axioms about options this schema does not declare stay dormant unless
\* selected, in which case the dangling option is a hard error": once the goals
\* stand, the call fails exactly when an axiom that belongs does not resolve.
DanglingIsError ==
    (pc = "done" /\ next > Len(intents)) =>
        (outcome # "Expansion" <=>
            \E i \in 1 .. Len(axioms) :
                Belongs(i) /\ \E f \in FactsOf(axioms[i]) : FactError(f) # "none")

\* What the solver's type check (encode_constant, constant_matches) takes at a
\* position and for a whole constant; constants of Other types are not told apart.
Takes(type, r, kind) ==
    IF Len(r) < Len(type) THEN type[Len(r) + 1] \in {kind, "Other"} ELSE type[Len(type)] = "Other"

Accepted(type, v) == \A r \in DOMAIN v : Takes(type, r, v[r].kind)

\* What an author may write for a type: the same, with a string for a package.
StringForPackage(type, r, kind) == kind = "String" /\ Wants(type, r, "Package")

Writable(type, v) ==
    \A r \in DOMAIN v : Takes(type, r, v[r].kind) \/ StringForPackage(type, r, v[r].kind)

\* The goal says what the fact says.  The solver takes its constant exactly when the
\* fact's was writable for the type, and what has changed are strings for packages
\* in containers the type has.
Elaborates(goal, fact) ==
    /\ goal.kind = fact.kind
    /\ goal.path = PathOf[fact.option]
    /\ LET type == Aim(fact.kind, TypeOf[goal.path])
           v == fact.value
       IN  /\ Accepted(type, goal.value) <=> Writable(type, v)
           /\ DOMAIN goal.value = DOMAIN v
           /\ \A r \in DOMAIN v : goal.value[r] # v[r] =>
                /\ StringForPackage(type, r, v[r].kind)
                /\ \A a \in Above(r) : Takes(type, a, v[a].kind)
                /\ goal.value[r] = [kind |-> "Package", name |-> v[r].name]

FactsTaken == UNION {Elements(ExpandIntent(intents[i]).facts) : i \in 1 .. (next - 1)}

\* "firefox" aimed at a Package position becomes a package atom, and anything that does
\* not fit is left for the solver's type checking to reject (adapt_constant): the
\* goals are those of the facts taken, the constraints those of the axioms applied,
\* and a constant of the wrong shape never slips through as another one.
ConstantsAreElaborated ==
    /\ \A g \in Elements(goals) : \E f \in FactsTaken : Elaborates(g, f)
    /\ \A f \in FactsTaken : \E g \in Elements(goals) : Elaborates(g, f)
    /\ \A i \in 1 .. Len(constraints) :
         LET axiom == axioms[applied[i]] IN
         /\ Elaborates(constraints[i].left, axiom.left)
         /\ axiom.kind # "Requires" => Elaborates(constraints[i].right, axiom.right)

\* expand returns.
Termination == <>(pc = "done")
=============================================================================
