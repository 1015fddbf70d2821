----------------------------- MODULE MCCatalog -----------------------------
(***************************************************************************)
(* A schema with a set of packages, two booleans, a package, an optional   *)
(* package, a list of packages, a list of optional packages, a path that   *)
(* only a let binding answers (declared nowhere) and an option name that   *)
(* resolves to nothing; "editor" and "editorKey" name the same path.       *)
(***************************************************************************)
EXTENDS Catalog, TLC

CONSTANT MaxAxioms

String(n) == Atom("String", n)
Bool(b)   == Atom("Bool", b)

\* A container of the given constants.
Holding(kind, list) ==
    LET routes == {<<>>} \cup UNION {{<<i>> \o r : r \in DOMAIN list[i]} : i \in DOMAIN list}
    IN  [r \in routes |-> IF r = <<>> THEN [kind |-> kind, name |-> "-"]
                          ELSE list[r[1]][Tail(r)]]

Tools == Holding("Set", <<String("vim"), String("git")>>)
Null  == Holding("Optional", <<>>)
Maybe == Holding("Optional", <<String("vim")>>)

\* Constants of every shape, right and wrong.
Shapes ==
    <<String("vim"), Bool("true"), Atom("Package", "vim"), Tools, Null, Maybe,
     Holding("List", <<String("vim"), String("vim")>>),
     Holding("Set", <<String("vim"), Bool("true")>>),
     Holding("List", <<Maybe, Null>>),
     Holding("List", <<Maybe, String("git")>>),
     Holding("Set", <<Tools>>)>>
Values == Elements(Shapes)

Options == {"packages", "audio", "video", "editor", "editorKey", "shell", "paths",
            "extras", "local", "bogus"}
Paths   == Options \ {"editorKey", "bogus"}

Resolution ==
    [o \in Options |-> IF o = "bogus" THEN NoPath ELSE IF o = "editorKey" THEN "editor" ELSE o]

Declarations == Paths \ {"local"}
Types ==
    [p \in Declarations |->
        CASE p = "packages" -> <<"Set", "Package">>
          [] p = "paths"    -> <<"List", "Package">>
          [] p = "extras"   -> <<"List", "Optional", "Package">>
          [] p = "shell"    -> <<"Optional", "Package">>
          [] p = "editor"   -> <<"Package">>
          [] OTHER          -> <<"Bool">>]

Names == {"vim", "audio", "studio", "shapes"}
HintOptions ==
    [n \in Names |-> IF n = "audio" THEN <<"editor", "audio">> ELSE <<"bogus", "packages">>]

FactOf(kind, option, value) == [kind |-> kind, option |-> option, value |-> value]

\* Every constant aimed at every option, and at the members of every collection.
Aims ==
    <<<<"Equals", "packages">>, <<"Equals", "paths">>, <<"Equals", "extras">>,
      <<"Equals", "shell">>, <<"Equals", "editor">>, <<"Equals", "audio">>,
      <<"Contains", "packages">>, <<"Contains", "paths">>, <<"NotContains", "extras">>>>

ShapeFacts ==
    [i \in 1 .. Len(Aims) * Len(Shapes) |->
        LET aim == Aims[1 + ((i - 1) % Len(Aims))]
        IN  FactOf(aim[1], aim[2], Shapes[1 + ((i - 1) \div Len(Aims))])]

RecipeBook ==
    "studio" :> << FactOf("Equals", "audio", Bool("true")),
                   FactOf("Contains", "packages", String("vim")),
                   FactOf("NotContains", "packages", Tools) >>
    @@ "vim" :> << FactOf("Equals", "editorKey", String("vim")),
                   FactOf("Contains", "video", String("vim")) >>
    @@ "shapes" :> ShapeFacts

\* One fact on each option, and a membership fact on a boolean.
Facts ==
    {FactOf("Equals", "audio", Bool("true")), FactOf("Absent", "video", Bool("true")),
     FactOf("Equals", "editor", String("vim")),
     FactOf("Equals", "packages", Tools),
     FactOf("Equals", "bogus", Bool("true")), FactOf("Equals", "local", Bool("true")),
     FactOf("Contains", "video", String("vim"))}

Axioms ==
    {[kind |-> "Requires", left |-> f, right |-> f] : f \in Facts}
      \cup {[kind |-> "Implies", left |-> f, right |-> g] :
              f \in {x \in Facts : x.option \in {"audio", "video", "bogus"}},
              g \in {x \in Facts : x.option \in {"editor", "packages", "local"}}}

\* Chains of axioms in every order, and short lists of all axioms.
Chain ==
    {[kind |-> "Conflicts", left |-> FactOf("Equals", "audio", Bool("true")),
                            right |-> FactOf("Absent", "video", Bool("true"))],
     [kind |-> "Implies", left |-> FactOf("Absent", "video", Bool("true")),
                          right |-> FactOf("Equals", "editorKey", String("vim"))],
     [kind |-> "Implies", left |-> FactOf("Equals", "editor", String("vim")),
                          right |-> FactOf("Contains", "packages", String("vim"))],
     [kind |-> "Implies", left |-> FactOf("Equals", "editor", String("vim")),
                          right |-> FactOf("Equals", "bogus", Bool("true"))]}

ListsOf(S, n) == UNION {[1 .. k -> S] : k \in 0 .. n}

AxiomLists ==
    ListsOf(Axioms, MaxAxioms)
      \cup {s \in [1 .. 4 -> Chain] : \A i, j \in 1 .. 4 : s[i] = s[j] => i = j}
      \cup {s \in [1 .. 3 -> Chain] : \A i, j \in 1 .. 3 : s[i] = s[j] => i = j}

Named(kind, n) == [kind |-> kind, name |-> n]
Direct(kind, o, v) == [kind |-> kind, option |-> o, value |-> v]

IntentLists ==
    {<<Named(k, n)>> : k \in {"Install", "Remove", "Enable", "Disable"}, n \in Names \ {"shapes"}}
      \cup {<<Named("Enable", "shapes")>>}
      \cup {<<Direct("Set", "packages", Tools)>>,
            <<Direct("Set", "bogus", Bool("true"))>>,
            <<Direct("Unset", "video", Bool("true"))>>,
            <<Named("Enable", "audio"), Named("Remove", "vim")>>,
            <<Direct("Unset", "editor", Bool("true")), Named("Disable", "studio")>>,
            <<>>}
=============================================================================
