------------------------------ MODULE Grammar -------------------------------
(***************************************************************************)
(* The parse functions of light-nix-parser, each as a term: what it takes  *)
(* in order, on which token it chooses, and what it does when something is *)
(* missing.  Parser says how a term is followed.  A token is its kind; the *)
(* three texts the parser looks at are told apart: the names "_" and "set" *)
(* and a number that is no policy cost ("decimal").                        *)
(***************************************************************************)
EXTENDS Sequences

AnyName == {"name", "_", "set"}
LF    == "line feed"

StatementStart ==
    {"import", "export", "enum", "type", "interface", "implements", "use", "let", "assert",
     "declare", "inline", "opaque", "if", "match", "return", "throw"}
LineEnd       == {LF, ";", "}"}
Entries       == {LF, ",", "}"}

\* Mutant: the recovery of an access goes on in the next line.
ExpressionEndOnOtherLine == {";", ",", "=", "=>", "?:", "{", "}", "]", ")"}

ExpressionEnd == {LF, ";", ",", "=", "=>", "?:", "{", "}", "]", ")"}

------------------------------------------------------------------ \* terms
Take(kinds)   == [is |-> "take", kinds |-> kinds]     \* one of them, or None
Peek(kinds)   == [is |-> "peek", kinds |-> kinds]     \* is one of them next?
All(terms)    == [is |-> "all", terms |-> terms]
Rule(name)    == [is |-> "rule", name |-> name]
Skip(kinds)   == [is |-> "skip", kinds |-> kinds]     \* any number of separators
Statements(inBlock) == [is |-> "statements", inBlock |-> inBlock]
Nothing       == All(<<>>)
Never         == Take({})
Name          == Take(AnyName)
LineFeeds     == Skip({LF})

\* The first case whose kinds hold the token `ahead` places on.
Look(ahead, cases, otherwise) ==
    [is |-> "choice", ahead |-> ahead, cases |-> cases, otherwise |-> otherwise]
Choice(cases, otherwise) == Look(0, cases, otherwise)
When(kinds, term)        == Choice(<< <<kinds, term>> >>, Nothing)
Starting(kinds, rest)    == When(kinds, All(<<Take(kinds)>> \o rest))

\* What is missing is reported, by error_here (until = {}) or by recover_until,
\* and the function goes on or returns None.
Else(term, until, goesOn) == [is |-> "else", term |-> term, until |-> until, goesOn |-> goesOn]
Report(term)              == Else(term, {}, TRUE)
ReportNone(term)          == Else(term, {}, FALSE)
Recover(term, until)      == Else(term, until, TRUE)
RecoverNone(term, until)  == Else(term, until, FALSE)
Seek(kind, until)     == All(<<Recover(Peek({kind}), until \cup {kind}), Starting({kind}, <<>>)>>)
SeekNone(kind, until) == All(<<Recover(Peek({kind}), until \cup {kind}), Take({kind})>>)

Close(kind)   == [is |-> "close", kind |-> kind]      \* close_delimiter
Attempt(term) == [is |-> "attempt", term |-> term]    \* back to the anchor without it
Assign        == [is |-> "assign"]
Message       == [is |-> "message"]
Operators(least, most, operand) ==
    [is |-> "operators", least |-> least, most |-> most, operand |-> operand]

\* The loops over elements: they end at one of `ends` and at `starts`, recover at
\* `until`, and pass separators between elements.
Elements(item, ends, starts, until, separators) ==
    [is |-> "elements", item |-> item, ends |-> ends, starts |-> starts, until |-> until,
     separators |-> separators, gap |-> "recovers", some |-> FALSE]
List(item, end, starts, until) ==
    Elements(item, {end}, starts, until \cup {LF, ","}, {LF, ","})
NonEmpty(list)   == [list EXCEPT !.some = TRUE]       \* an empty list is reported
StopAtGap(list)  == [list EXCEPT !.gap = "stops"]

------------------------------------------------------------- \* statements
Statement ==
    Choice(<< <<{"import"}, Rule("import")>>,
              <<{"export"}, Rule("exported")>>,
              <<{"enum"}, Rule("enum")>>,
              <<{"type"}, Rule("typeDefine")>>,
              <<{"interface"}, Rule("interface")>>,
              <<{"implements"}, Rule("implements")>>,
              <<{"use"}, Rule("use")>>,
              <<{"let", "declare"}, Rule("let")>>,
              <<{"assert"}, Rule("assert")>>,
              <<{"inline", "opaque"}, Look(1, << <<{"function"}, Rule("function")>> >>, Assign)>> >>,
           Assign)

Exported ==
    Look(1, << <<{"enum"}, Rule("enum")>>,
               <<{"type"}, Rule("typeDefine")>>,
               <<{"interface"}, Rule("interface")>>,
               <<{"declare", "let"}, Rule("let")>>,
               <<{"inline", "opaque"}, Rule("function")>> >>,
            All(<<Take({"export"}), RecoverNone(Never, LineEnd)>>))

From ==
    All(<<Choice(<< <<{"from"}, Take({"from"})>>, <<{"string"}, Report(Never)>> >>, ReportNone(Never)),
          ReportNone(Take({"string"}))>>)

ImportElements ==
    All(<<Take({"{"}), LineFeeds,
          Elements(All(<<Name, Starting({"as"}, <<Report(Name)>>)>>),
                   {"}", "from"}, StatementStart, Entries \cup {"from"}, {LF, ","}),
          Report(Take({"}"}))>>)

Import ==
    All(<<Take({"import"}),
          Choice(<< <<{"string"}, Take({"string"})>>,
                    <<{"{"}, All(<<ImportElements, From>>)>>,
                    <<{"*"}, All(<<Take({"*"}), ReportNone(Take({"as"})), ReportNone(Name), From>>)>> >>,
                 RecoverNone(Never, LineEnd))>>)

Variant(represented) ==
    IF ~represented THEN Name
    ELSE All(<<Name, Choice(<< <<{"="}, All(<<Take({"="}), Recover(Rule("expression"), Entries)>>)>> >>,
                            Recover(Never, Entries))>>)

EnumBody(represented) ==
    All(<<SeekNone("{", {LF, ";"}), LineFeeds,
          List(Variant(represented), "}", StatementStart, {"}"}), Close("}")>>)

Enum ==
    All(<<Starting({"export"}, <<>>), Take({"enum"}), ReportNone(Name),
          Choice(<< <<{":"}, All(<<Take({":"}), Report(Rule("type")), EnumBody(TRUE)>>)>> >>,
                 EnumBody(FALSE))>>)

Generic == <<When({"<"}, Rule("generics")), LineFeeds, When({"where"}, Rule("where"))>>

TypeDefine ==
    All(<<Starting({"export"}, <<>>), Take({"type"}), ReportNone(Name)>> \o Generic \o <<Rule("typedef")>>)

Typedef ==
    All(<<ReportNone(Take({"{"})), LineFeeds,
          List(All(<<Rule("policy"), Name, Take({":"}),
                     Choice(<< <<{"{"}, Rule("typedef")>> >>, Rule("type"))>>),
               "}", StatementStart, {"}"}),
          Close("}")>>)

Methods ==
    All(<<ReportNone(Take({"{"})), Skip({LF, ";"}),
          Elements(Choice(<< <<{"inline", "opaque"}, Rule("function")>> >>, Never),
                   {"}"}, {}, LineEnd, {LF, ";"}),
          Close("}")>>)

Interface ==
    All(<<Starting({"export"}, <<>>), Take({"interface"}), ReportNone(Name)>> \o Generic \o <<Methods>>)

Implements ==
    All(<<Take({"implements"}), When({"<"}, Rule("generics")), ReportNone(Rule("type")),
          SeekNone("for", {"{", LF}), ReportNone(Rule("type")), LineFeeds,
          When({"where"}, Rule("where")), Methods>>)

Use ==
    All(<<Take({"use"}), SeekNone("[", {LF, ";"}), LineFeeds,
          List(Name, "]", StatementStart, {"]"}), Close("]")>>)

Let ==
    All(<<Starting({"export"}, <<>>), Starting({"declare"}, <<>>), ReportNone(Take({"let"})),
          Rule("policy"), ReportNone(Name),
          Starting({":"}, <<Recover(Rule("type"), {"="} \cup LineEnd)>>),
          Starting({"="}, <<LineFeeds, Report(Rule("expression"))>>)>>)

AssignValue == Choice(<< <<{"{"}, Rule("nested")>> >>, Rule("expression"))

Assigned ==
    All(<<Take({"="}), LineFeeds, ReportNone(AssignValue)>>)

NestedAssignment ==
    All(<<Take({"{"}), LineFeeds,
          List(All(<<Name, Take({"="}), LineFeeds, AssignValue>>), "}", StatementStart, {"}"}),
          Close("}")>>)

Assert ==
    All(<<Take({"assert"}), RecoverNone(Rule("expression"), LineEnd),
          Recover(Peek({","}), {","} \cup LineEnd),
          Starting({","}, <<Report(Message)>>)>>)

Function ==
    All(<<Starting({"export"}, <<>>), Take({"inline", "opaque"}), ReportNone(Take({"function"})),
          ReportNone(Name), When({"<"}, Rule("generics")), Rule("arguments"),
          Starting({"->"}, <<Recover(Rule("type"), {"{", LF})>>),
          LineFeeds, When({"where"}, Rule("where")), ReportNone(Rule("block"))>>)

Arguments ==
    All(<<ReportNone(Take({"("})), LineFeeds,
          Starting({"this"}, <<Choice(<< <<{")"}, Nothing>>, <<{LF, ","}, Skip({LF, ","})>> >>, Report(Never))>>),
          List(All(<<Name, Take({":"}), Rule("type")>>), ")", StatementStart, {")"}),
          Close(")")>>)

Block == All(<<Take({"{"}), Statements(TRUE), Close("}")>>)

Generics ==
    All(<<Take({"<"}), LineFeeds,
          NonEmpty(List(All(<<Name, Starting({":"}, <<Rule("bounds")>>)>>), ">", {}, {">"})),
          Close(">")>>)

Where ==
    All(<<Take({"where"}), LineFeeds,
          NonEmpty(List(All(<<Rule("type"), Recover(Peek({":"}), {":", LF, ",", "{"}),
                              Starting({":"}, <<Rule("bounds")>>)>>),
                        "{", StatementStart, {"{"}))>>)

TypeBounds ==
    Report(All(<<Rule("type"), Starting({"+"}, <<LineFeeds, Rule("bounds")>>)>>))

\* `|` is also the closing delimiter of a closure parameter list.
Alternatives ==
    When({"|"}, Attempt(All(<<Take({"|"}), LineFeeds, Rule("atom"), Rule("alternatives")>>)))

TypeInfo == All(<<Rule("atom"), Rule("alternatives")>>)

TypeAtom ==
    Choice(<< <<{"("}, All(<<Take({"("}), LineFeeds, Rule("type"), LineFeeds, Report(Take({")"}))>>)>> >>,
           Rule("named"))

NamedType ==
    All(<<Name,
          Starting({"<"}, <<LineFeeds, NonEmpty(List(Rule("type"), ">", {}, {">"})),
                            Seek(">", {LF, ",", "}", ")"})>>),
          Starting({"?"}, <<When({"?"}, Recover(Never, {">", "=", LF, ",", "}", ")"}))>>)>>)

MutationPolicy ==
    Choice(<< <<{"readonly"}, Take({"readonly"})>>,
              <<{"tunable"},
                All(<<Take({"tunable"}),
                      Starting({"("},
                        <<Seek("cost", {"=", "number", "decimal", ")"}), Seek("=", {"number", "decimal", ")"}),
                          Choice(<< <<{"number"}, Take({"number"})>>,
                                    <<{"decimal"}, Recover(Never, AnyName \cup {")", LF, ",", "}"})>> >>,
                                 Report(Never)),
                          Seek(")", AnyName \cup {LF, ",", "}"})>>)>>)>> >>,
           Nothing)

------------------------------------------------------------ \* expressions
Expression ==
    Choice(<< <<{"if"}, Rule("if")>>,
              <<{"match"}, Rule("match")>>,
              <<{"return"}, Rule("return")>>,
              <<{"throw"}, Rule("throw")>>,
              <<{"inline", "opaque"}, Rule("closure")>> >>,
           Rule("elvis"))

Closure ==
    All(<<Take({"inline", "opaque"}), ReportNone(Take({"|"})), LineFeeds,
          StopAtGap(List(All(<<Name, Starting({":"}, <<Report(Rule("atom"))>>)>>), "|", {}, {"|"})),
          ReportNone(Take({"|"})),
          Starting({"->"}, <<Report(Rule("type"))>>), LineFeeds,
          ReportNone(Take({"=>"})), LineFeeds,
          ReportNone(Choice(<< <<{"{"}, Rule("block")>> >>, Rule("expression")))>>)

Elvis ==
    All(<<Operators(1, 2, Rule("typeOperation")),
          Starting({"?:"}, <<LineFeeds, Report(Rule("expression"))>>)>>)

TypeOperation ==
    LET target == <<LineFeeds, Report(Rule("type"))>> IN
    All(<<Operators(3, 6, Rule("factor")),
          Choice(<< <<{"is"}, All(<<Take({"is"})>> \o target)>>,
                    <<{"as"}, All(<<Take({"as"}),
                                    Choice(<< <<{"?"}, All(<<Take({"?"})>> \o target)>> >>, Report(Never))>>)>> >>,
                 Nothing)>>)

Factor ==
    Choice(<< <<{"+", "-"}, All(<<Take({"+", "-"}), ReportNone(Rule("primary"))>>)>> >>, Rule("primary"))

Primary == All(<<Rule("value"), Rule("accesses")>>)

Key ==
    Choice(<< <<{"string"},
                All(<<Take({"string"}), LineFeeds,
                      Choice(<< <<{"]"}, All(<<Take({"]"}), Rule("accesses")>>)>> >>,
                             Recover(Never, ExpressionEnd))>>)>> >>,
           All(<<Recover(Never, {"]", LF}), Starting({"]"}, <<>>)>>))

Member ==
    Choice(<< <<AnyName, All(<<Name, Rule("typeArguments"), Rule("call"), Rule("accesses")>>)>> >>,
           Recover(Never, ExpressionEnd))

Accesses ==
    Choice(<< <<{"["}, All(<<Take({"["}), LineFeeds, Key>>)>>,
              <<{".", "?.", "::"}, All(<<Take({".", "?.", "::"}), LineFeeds, Member>>)>> >>,
           Nothing)

Value ==
    Choice(<< <<{"[", "@"}, Rule("array")>>,
              <<{"some"}, Rule("some")>>,
              <<AnyName \cup {"this"},
                All(<<Take(AnyName \cup {"this"}), Rule("typeArguments"), Rule("call")>>)>> >>,
           Take({"number", "decimal", "string", "true", "false", "null"}))

SomeValue ==
    All(<<Take({"some"}),
          Choice(<< <<{"("}, All(<<Take({"("}), LineFeeds, Report(Rule("expression")), Seek(")", LineEnd)>>)>> >>,
                 Report(Never))>>)

Array ==
    All(<<Starting({"@"}, <<ReportNone(Take({"set"}))>>), ReportNone(Take({"["})), LineFeeds,
          List(Rule("value"), "]", StatementStart, {"]"}), Close("]")>>)

ExplicitTypeArguments ==
    When({":"}, Look(1, << <<{"<"},
        All(<<Take({":"}), Take({"<"}), LineFeeds,
              NonEmpty(List(Choice(<< <<{"_"}, Take({"_"})>> >>, Rule("type")), ">", {}, {">", "("})),
              Seek(">", {"("})>>)>> >>, Nothing))

FunctionCall ==
    Starting({"("}, <<LineFeeds,
        List(Rule("expression"), ")", StatementStart \ {"if", "match", "return", "inline", "opaque"}, {")"}),
        Close(")")>>)

IfBranch ==
    All(<<Take({"if"}), RecoverNone(Rule("expression"), {"{", LF}), ReportNone(Rule("block"))>>)

ElseBranches ==
    Attempt(All(<<LineFeeds, Take({"else"}),
                  Recover(All(<<Choice(<< <<{"if"}, Rule("branch")>> >>, Rule("block")), Rule("elses")>>),
                          LineEnd)>>))

Match ==
    All(<<Take({"match"}), RecoverNone(Rule("expression"), {"{", LF}),
          SeekNone("{", {LF, ";"}), LineFeeds,
          List(All(<<Rule("pattern"), SeekNone("=>", Entries), LineFeeds, Rule("expression")>>),
               "}", StatementStart, {"}"}),
          Close("}")>>)

Pattern ==
    Choice(<< <<{"some"}, All(<<Take({"some"}), ReportNone(Take({"("})), ReportNone(Rule("pattern")),
                                Seek(")", {"=>"} \cup Entries)>>)>>,
              <<{"_"}, Take({"_"})>>,
              <<AnyName, All(<<Name, Starting({"::"}, <<ReportNone(Name)>>)>>)>> >>,
           Take({"null"}))

Return ==
    All(<<Take({"return"}),
          Choice(<< <<LineEnd \cup {",", "]", ")", "end"}, Nothing>> >>, Report(Rule("expression")))>>)

Throw == All(<<Take({"throw"}), Report(Rule("expression"))>>)

Rules ==
    [import |-> Import, exported |-> Exported, enum |-> Enum, typeDefine |-> TypeDefine,
     typedef |-> Typedef, interface |-> Interface, implements |-> Implements, use |-> Use,
     let |-> Let, assert |-> Assert, function |-> Function, arguments |-> Arguments,
     block |-> Block, generics |-> Generics, where |-> Where, bounds |-> TypeBounds,
     type |-> TypeInfo, alternatives |-> Alternatives, atom |-> TypeAtom, named |-> NamedType,
     policy |-> MutationPolicy, nested |-> NestedAssignment,
     expression |-> Expression, closure |-> Closure, elvis |-> Elvis,
     typeOperation |-> TypeOperation, factor |-> Factor, primary |-> Primary,
     accesses |-> Accesses, value |-> Value, some |-> SomeValue, array |-> Array,
     typeArguments |-> ExplicitTypeArguments, call |-> FunctionCall, branch |-> IfBranch,
     elses |-> ElseBranches, if |-> All(<<Rule("branch"), Rule("elses")>>), match |-> Match,
     pattern |-> Pattern, return |-> Return, throw |-> Throw]

\* binary_operator.
Precedence(kind) ==
    CASE kind = "or" -> 1
      [] kind = "and" -> 2
      [] kind \in {"==", "!="} -> 3
      [] kind \in {"<", ">", "<=", ">="} -> 4
      [] kind \in {"+", "-"} -> 5
      [] kind \in {"*", "/"} -> 6
      [] OTHER -> 0
=============================================================================
