----------------------------- MODULE MCFrontEnd -----------------------------
(***************************************************************************)
(* The projects over which FrontEnd is checked.                            *)
(***************************************************************************)
EXTENDS FrontEnd

Single(program) == <<[path |-> "main", program |-> program]>>

IntT      == TypeName("Int")
BoolT     == TypeName("Bool")
StringT   == TypeName("String")
IntOrText == Either(IntT, StringT)
ListT(ti) == TypeInfo("List", <<ti>>)
SetT(ti)  == TypeInfo("Set", <<ti>>)

\* Two names, and a string of one character.
A == Name("a")
X == Name("x")
Word == Str(<<1>>)
Plus(l, r) == Bin("+", l, r)

Inferred(x, e) == Let(x, NoTypeInfo, e)
If(test, yes, no) == IfElse(<<Branch(test, <<Do(yes)>>)>>, <<Do(no)>>)

\* ------------------------------------------- one binding and one use of it
WrittenTypes == <<NoTypeInfo, IntT, StringT, BoolT, Maybe(IntT), IntOrText, ListT(IntT), SetT(StringT),
                  TypeName("Package")>>
Initialisers == <<Num(0), Num(3), Flag(TRUE), Word, Null, Some(Num(1)),
                  ListOf(<<Num(1), Num(0)>>), SetOf(<<Word, Word>>), ListOf(<<>>),
                  ListOf(<<Num(1), Word>>), If(Flag(FALSE), Num(1), Word), Negate(Num(2))>>
Uses ==
  <<<<Let("y", IntT, X)>>,
    <<Inferred("y", Plus(X, Num(1)))>>,
    <<Inferred("y", Plus(X, Word))>>,
    \* what a test leaves for either branch, and for what follows
    <<Inferred("y", If(Is(X, IntT), Plus(X, Num(1)), Num(0))), Require(Is(X, IntT))>>,
    <<Inferred("y", If(Is(X, IntT), Num(0), Plus(X, Word)))>>,
    <<Inferred("y", If(Is(X, IntT), Num(0), Num(1))), Inferred("z", Plus(X, Num(1)))>>,
    <<Inferred("y", IfElse(<<Branch(Is(X, IntT), <<Do(Num(0))>>), Branch(Is(X, StringT), <<Do(X)>>)>>,
                           <<Do(Flag(TRUE))>>))>>,
    <<Inferred("y", Elvis(As(X, IntT), Num(7))), Inferred("z", Plus(Name("y"), Num(1)))>>,
    <<Inferred("y", Elvis(X, Num(7)))>>,
    <<Inferred("y", Match(X, <<Arm(SomeOf(Bound("v")), Plus(Name("v"), Num(1))), Arm(NullPattern, Num(0))>>))>>,
    <<Inferred("y", Match(X, <<Arm(Bound("v"), Name("v"))>>)), Inferred("z", Bin("==", Name("y"), X))>>,
    <<Inferred("y", Match(X, <<Arm(SomeOf(Anything), Num(1))>>))>>,
    <<Fun("f", <<>>, <<Param("p", IntT)>>, IntT, <<Do(Return(Bin("*", Name("p"), Num(2))))>>),
      Inferred("y", Call(Name("f"), <<X>>))>>,
    <<Fun("f", <<Generic("T", <<>>)>>, <<Param("p", TypeName("T"))>>, TypeName("T"), <<Do(Return(Name("p")))>>),
      Inferred("y", Call(Name("f"), <<X>>))>>,
    <<Inferred("f", ClosureBlock(<<Param("p", NoTypeInfo)>>, NoTypeInfo, <<Do(Plus(Name("p"), X))>>)),
      Inferred("y", Call(Name("f"), <<Num(1)>>))>>,
    <<Inferred("y", Invoke(X, "contains", <<Num(1)>>))>>,
    <<Inferred("y", Invoke(X, "map", <<Closure(<<Param("p", NoTypeInfo)>>, NoTypeInfo, Bin("-", Name("p"), Num(1)))>>))>>,
    <<Inferred("y", Invoke(X, "filter", <<Closure(<<Param("p", NoTypeInfo)>>, BoolT, Bin(">", Name("p"), Num(0)))>>))>>,
    <<Inferred("y", Plus(Invoke(X, "to_string", <<>>), Word))>>,
    <<Inferred("y", Bin("/", Num(6), X))>>,
    <<Require(Bin("and", X, Bin("or", Flag(TRUE), X)))>>,
    <<Do(Throw(X))>>,
    <<Inferred("y", Call(X, <<>>))>>,
    <<Fun("f", <<>>, <<Param("p", Maybe(IntT))>>, IntT,
          <<Do(Match(Name("p"), <<Arm(SomeOf(Bound("v")), Return(Name("v"))), Arm(NullPattern, Num(0))>>))>>),
      Inferred("y", Call(Name("f"), <<X>>))>>>>

\* All combinations of two sequences, the second varying faster.
Product(xs, ys, Of(_, _)) ==
    TheOnly({<<>> \o [k \in 1 .. Len(ls) * Len(rs) |->
                        Of(ls[((k - 1) \div Len(rs)) + 1], rs[((k - 1) % Len(rs)) + 1])] :
                ls \in {xs}, rs \in {ys}})

UsesOf == Product(Product(WrittenTypes, Initialisers, LAMBDA t, e : <<Let("x", t, e)>>), Uses,
                  LAMBDA declared, use : Single(declared \o use))

\* ------------------------------------------------ one name in many scopes
\* What a and b are to the module, to a function of it, and to a closure in it.
Function0(x, body) == Fun(x, <<>>, <<>>, IntT, body)
ModuleScopes ==
  <<<<Inferred("a", Num(1))>>,
    <<>>,
    <<Inferred("a", Num(1)), Inferred("a", Num(2))>>,
    <<Function0("a", <<Do(Num(3))>>), Inferred("c", Call(A, <<>>))>>,
    <<Enum("a", <<[name |-> "v"]>>), Inferred("c", Static(A, "v"))>>,
    <<Inferred("a", Num(1)), Function0("a", <<Do(Num(3))>>)>>,
    <<Inferred("a", Plus(X, Num(1)))>>>>
Parameters == <<<<Param("a", IntT)>>, <<Param("b", IntT)>>, <<Param("a", IntT), Param("a", IntT)>>,
                <<Param("b", IntT), Param("a", IntT)>>>>
BlockScopes ==
  <<<<>>,
    <<Inferred("a", Num(4))>>,
    <<Inferred("u", A), Inferred("a", Plus(A, Num(4)))>>,
    <<Inferred("a", Num(4)), Inferred("a", Num(5))>>,
    <<Function0("a", <<Do(Num(6))>>)>>>>
ClosureScopes ==
  <<Plus(A, Name("p")),
    Match(Name("p"), <<Arm(Bound("a"), Plus(A, Num(1)))>>),
    IfElse(<<Branch(Bin(">", A, Num(0)), <<Inferred("a", Num(7)), Do(A)>>)>>, <<Do(A)>>),
    Match(Some(Name("p")), <<Arm(SomeOf(Bound("b")), Plus(A, Name("b"))), Arm(NullPattern, Name("b"))>>)>>

InFunction(params, block, use) ==
    <<Fun("f", <<>>, params, IntT,
          block \o <<Inferred("g", Closure(<<Param("p", IntT)>>, NoTypeInfo, use)),
                     Do(Return(Call(Name("g"), <<Num(2)>>)))>>),
      Inferred("x", Call(Name("f"), <<>> \o [i \in DOMAIN params |-> Num(8)]))>>

Shadowings ==
    Product(Product(ModuleScopes, Parameters, LAMBDA m, ps : [module |-> m, params |-> ps]),
            Product(BlockScopes, ClosureScopes, LAMBDA b, e : [block |-> b, use |-> e]),
            LAMBDA outer, inner :
                Single(outer.module \o InFunction(outer.params, inner.block, inner.use)))

\* -------------------------------------------------------------- interfaces
TypeT == TypeName("T")
ShowT == TypeName("Show")
AnyT  == Generic("T", <<>>)
ShowsT == Generic("T", <<ShowT>>)
Showing(n) == <<Method(Fun("show", <<>>, <<>>, IntT, <<Do(Num(n))>>))>>
Requiring(st, ws) == [st EXCEPT !.where = ws]

\* Who shows: sets of implementations, some in each other's way, some that owe
\* more than they were asked for, or what they are asked for.
Implementations ==
  <<<<>>,
    <<Implements(<<>>, ShowT, IntT, Showing(1))>>,
    <<Implements(<<ShowsT>>, ShowT, ListT(TypeT), Showing(2)), Implements(<<>>, ShowT, IntT, Showing(1))>>,
    <<Implements(<<AnyT>>, ShowT, ListT(TypeT), Showing(2)), Implements(<<>>, ShowT, BoolT, Showing(3))>>,
    <<Implements(<<>>, ShowT, ListT(IntT), Showing(4)), Implements(<<>>, ShowT, ListT(BoolT), Showing(5))>>,
    <<Implements(<<AnyT>>, ShowT, ListT(TypeT), Showing(2)), Implements(<<>>, ShowT, ListT(IntT), Showing(4))>>,
    <<Implements(<<AnyT>>, ShowT, TypeT, Showing(6))>>,
    <<Requiring(Implements(<<>>, ShowT, IntT, Showing(1)), <<Where(IntT, <<ShowT>>)>>)>>,
    <<Requiring(Implements(<<>>, ShowT, IntT, Showing(1)), <<Where(BoolT, <<ShowT>>)>>)>>,
    <<Requiring(Implements(<<AnyT>>, ShowT, ListT(TypeT), Showing(2)),
                <<Where(ListT(ListT(TypeT)), <<ShowT>>)>>)>>,
    <<Implements(<<>>, ShowT, IntT, <<>>)>>,
    <<Implements(<<>>, ShowT, IntT, <<Method(Fun("show", <<>>, <<>>, StringT, <<Do(Word)>>))>>)>>>>

Showings ==
  <<<<Inferred("y", Invoke(X, "show", <<>>))>>,
    <<Inferred("y", Call(Name("use"), <<X>>))>>,
    <<Inferred("y", Call(Name("use"), <<ListOf(<<X>>)>>))>>,
    <<Inferred("y", Call(Name("use"), <<ListOf(<<ListOf(<<X>>)>>)>>))>>,
    <<Inferred("y", Call(With(Name("use"), <<ListT(IntT)>>), <<ListOf(<<>>)>>))>>,
    <<Inferred("y", Call(Name("use"), <<ListOf(<<>>)>>))>>,
    <<Inferred("e", ListOf(<<>>)), Inferred("y", Invoke(Name("e"), "show", <<>>)), Let("z", ListT(BoolT), Name("e"))>>,
    <<Inferred("y", Call(Name("use"), <<Name("unknown")>>))>>,
    <<Inferred("y", Call(Name("use"), <<Null>>))>>,
    <<Inferred("y", Call(With(Name("use"), <<TypeName("unknown")>>), <<X>>))>>,
    <<Inferred("y", Call(Name("use"), <<ListOf(<<ListOf(<<ListOf(<<X>>)>>)>>)>>))>>,
    <<Fun("both", <<ShowsT>>, <<Param("p", TypeT)>>, IntT,
          <<Do(Plus(Call(Name("use"), <<Name("p")>>), Invoke(Name("p"), "show", <<>>)))>>),
      Inferred("y", Call(Name("both"), <<X>>))>>,
    <<Fun("loose", <<AnyT>>, <<Param("p", TypeT)>>, IntT, <<Do(Call(Name("use"), <<Name("p")>>))>>)>>,
    <<Record("Box", <<ShowsT>>, <<Field("held", TypeT)>>),
      Declare("box", TypeInfo("Box", <<IntT>>)), Inferred("y", Invoke(Dot(Name("box"), "held"), "show", <<>>)),
      Assign(Dot(Name("box"), "held"), X)>>>>
Shown == <<Interface("Show", <<>>, Showing(0)),
           Fun("use", <<ShowsT>>, <<Param("p", TypeT)>>, IntT, <<Do(Invoke(Name("p"), "show", <<>>))>>)>>

BoundsOf ==
    Product(Product(Implementations, <<Num(1), Flag(TRUE)>>, LAMBDA is, e : is \o <<Inferred("x", e)>>), Showings,
            LAMBDA declared, use : Single(Shown \o declared \o use))

\* What one bound settles is what another one waits for, in either order.
Holder(x, n) == Method(Fun(x, <<>>, <<>>, TypeT, <<Do(Throw(Str(<<>>)))>>))
Waiting ==
  <<Interface("Into", <<AnyT>>, <<Holder("into", 0)>>),
    Interface("Pin", <<AnyT>>, <<Holder("pin", 0)>>),
    Implements(<<>>, TypeInfo("Into", <<IntT>>), IntT, <<Method(Fun("into", <<>>, <<>>, IntT, <<Do(Num(1))>>))>>),
    Implements(<<>>, TypeInfo("Into", <<BoolT>>), IntT, <<Method(Fun("into", <<>>, <<>>, BoolT, <<Do(Flag(TRUE))>>))>>),
    Implements(<<>>, TypeInfo("Pin", <<IntT>>), BoolT, <<Method(Fun("pin", <<>>, <<>>, IntT, <<Do(Num(2))>>))>>),
    Fun("conv", <<Generic("U", <<>>), Generic("T", <<TypeInfo("Into", <<TypeName("U")>>)>>)>>,
        <<Param("p", TypeT)>>, TypeName("U"), <<Do(Throw(Str(<<>>)))>>),
    Fun("fix", <<Generic("U", <<>>), Generic("T", <<TypeInfo("Pin", <<TypeName("U")>>)>>)>>,
        <<Param("p", TypeT), Param("q", TypeName("U"))>>, IntT, <<Do(Num(5))>>)>>
Conv(e)   == Call(Name("conv"), <<e>>)
Fix(e, f) == Call(Name("fix"), <<e, f>>)
Orders ==
  <<<<Inferred("c", Conv(Num(1))), Inferred("e", Fix(Flag(TRUE), Name("c")))>>,
    <<Inferred("e", Fix(Flag(TRUE), Conv(Num(1))))>>,
    <<Inferred("c", Conv(Num(1))), Inferred("d", Conv(Num(2))),
      Inferred("e", Fix(Flag(TRUE), Name("d"))), Inferred("f", Fix(Flag(TRUE), Name("c")))>>,
    <<Inferred("c", Conv(Num(1))), Inferred("d", Conv(Name("c"))), Inferred("e", Fix(Flag(TRUE), Name("d")))>>,
    <<Inferred("c", Conv(Num(1))), Inferred("e", Fix(Flag(FALSE), Num(1)))>>,
    <<Inferred("c", Conv(Flag(TRUE))), Inferred("e", Fix(Num(1), Name("c")))>>,
    <<Inferred("c", Invoke(Num(1), "into", <<>>)), Let("d", BoolT, Name("c"))>>,
    <<Inferred("c", Invoke(Num(1), "into", <<>>)), Inferred("e", Fix(Flag(TRUE), Name("c")))>>>>
Waits == Product(<<Waiting>>, Orders, LAMBDA ds, use : Single(ds \o use))

\* ------------------------------------------------------- records and claims
Config == <<Record("Config", <<>>, <<Field("port", IntT), Field("name", Maybe(StringT)),
                                     Block("log", <<Field("level", IntT), Field("on", BoolT)>>)>>),
            Declare("config", TypeName("Config"))>>
ConfigName == Name("config")
Port  == Dot(ConfigName, "port")
Level == Dot(Dot(ConfigName, "log"), "level")
Claims ==
  <<<<Assign(Port, Num(80))>>,
    <<Assign(Port, Num(80)), Assign(Port, Num(81))>>,
    <<Assign(Port, Flag(TRUE))>>,
    <<Assign(Level, Num(1)), Assign(Dot(Dot(ConfigName, "log"), "on"), Flag(TRUE))>>,
    <<Assign(Dot(ConfigName, "log"), Nested(<<Entry("level", Num(2)), Entry("on", Flag(FALSE))>>)), Assign(Port, Level)>>,
    <<Assign(Dot(ConfigName, "log"), Nested(<<Entry("level", Num(2)), Entry("depth", Num(3))>>))>>,
    <<Assign(ConfigName, Nested(<<Entry("port", Num(3)), Entry("log", Nested(<<Entry("level", Port)>>))>>))>>,
    <<Assign(Dot(ConfigName, "name"), Some(Word))>>,
    <<Assign(Dot(ConfigName, "other"), Num(1))>>,
    <<Assign(Call(ConfigName, <<>>), Num(1))>>,
    <<Fun("set", <<>>, <<>>, IntT, <<Assign(Port, Num(80)), Do(Return(Num(1)))>>), Inferred("s", Call(Name("set"), <<>>))>>>>
Reads ==
  <<<<Inferred("y", Plus(Port, Num(1)))>>,
    <<Inferred("y", Plus(Level, Num(1)))>>,
    <<Inferred("y", Elvis(Dot(ConfigName, "name"), Word))>>,
    <<Inferred("y", Dot(Dot(ConfigName, "log"), "on"))>>,
    <<Inferred("m", Some(ConfigName)), Inferred("y", Elvis(Safe(Name("m"), "port"), Num(0)))>>,
    <<Fun("get", <<>>, <<Param("p", TypeName("Config"))>>, IntT, <<Do(Dot(Name("p"), "port"))>>),
      Inferred("y", Call(Name("get"), <<ConfigName>>))>>>>
ClaimsAndReads ==
    Product(Claims, Reads, LAMBDA c, r : Single(Config \o c \o r))
    \o Product(Claims, Reads, LAMBDA c, r : Single(Config \o r \o c))

\* -------------------------------------------------------- several modules
Exporters ==
  <<<<Export(Inferred("v", Num(1))), Inferred("w", Num(2)), Export(Record("R", <<>>, <<Field("held", IntT)>>)),
      Export(Enum("E", <<[name |-> "v"]>>)), Export(Function0("f", <<Do(Num(3))>>))>>,
    <<Export(Inferred("v", Num(1))), Export(Function0("v", <<Do(Num(3))>>))>>,
    <<Export(Inferred("R", Num(1))), Export(Record("R", <<>>, <<Field("held", IntT)>>)), Export(Inferred("v", Num(1)))>>,
    <<Export(Interface("Show", <<>>, Showing(0))), Implements(<<>>, ShowT, IntT, Showing(1)),
      Export(Inferred("v", Num(1)))>>,
    <<Export(Inferred("v", Plus(Flag(TRUE), Num(1))))>>>>
Importers ==
  <<<<Import("a", <<"v">>)>>, <<Import("a", <<"v", "R">>)>>, <<Import("a", <<"w">>)>>,
    <<Import("a", <<"v">>), Inferred("v", Num(4))>>, <<Import("a", <<"v", "v">>)>>,
    <<Import("z", <<"v">>)>>, <<ImportAll("a", "v")>>, <<ImportAll("a", "n"), Import("a", <<"v">>)>>,
    <<ImportAll("a", "n"), Inferred("n", Num(1)), Import("a", <<"v">>)>>,
    <<Import("a", <<"Show">>), Implements(<<>>, ShowT, BoolT, Showing(2)), Inferred("v", Num(1))>>>>
ImportedUses ==
  <<<<Inferred("y", Plus(Name("v"), Num(1)))>>,
    <<Inferred("y", Plus(Dot(Name("n"), "v"), Num(1)))>>,
    <<Inferred("y", Dot(Name("n"), "f")), Inferred("z", Call(Name("y"), <<>>))>>,
    <<Declare("r", TypeName("R")), Inferred("y", Dot(Name("r"), "held"))>>,
    <<Inferred("y", Static(Dot(Name("n"), "E"), "v"))>>,
    <<Inferred("y", Invoke(Name("v"), "show", <<>>))>>>>
Imports ==
    Product(Exporters, Product(Importers, ImportedUses, LAMBDA i, u : i \o u),
            LAMBDA a, b : <<[path |-> "a", program |-> a], [path |-> "b", program |-> b]>>)

MCProjects == UsesOf \o Shadowings \o BoundsOf \o Waits \o ClaimsAndReads \o Imports

\* A module that imports a module, and one that imports both.
MCImportChain ==
  <<<<[path |-> "a", program |-> Exporters[4]],
      [path |-> "b", program |-> <<Import("a", <<"Show">>), Export(Inferred("x", Num(1)))>>],
      [path |-> "c", program |-> <<Import("a", <<"Show">>), Import("b", <<"x">>)>>]>>>>
=============================================================================
