# LightNix: a TLA+ verification development

LightNix is a configuration language and its compiler, written in Rust as a
workspace of ten crates. A source file declares *options* (typed outputs),
claims values for them, and marks some bindings or options as *tunable*. Asked
to make a goal true, the tool looks for the cheapest change of tunable values
with an optimising SMT solver, confirms it by running the program concretely,
and writes the change back into the source text. Everything is sequential: a
call of the library runs to its end in one thread, without I/O. What is hard
here is therefore not scheduling but *agreement*: two semantics of one language
(solver and evaluator), fixpoints and graph algorithms whose result must not
depend on an order, loops that must end, and edits that must mean in the source
what they meant in the model.

## 1. Inventory

Paths are relative to `src/src/`.

| Component | Source | State | Operations |
|---|---|---|---|
| Module analysis | `light-nix/src/analysis.rs` | none (a record of products) | `analyze_module`: lex, parse, attach comments, resolve, check, build and refine the graph, lower |
| Planning loop | `light-nix/src/planning.rs` | exclusions, candidate counter | `plan_changes` |
| Catalog | `light-nix/src/catalog.rs` | selected axioms, mentioned paths, goals, constraints | `Catalog::expand` |
| Write-back | `light-nix/src/editing.rs` | list of text edits | `plan_edits`, `apply_plan` |
| Formatter | `light-nix-formatter/src/lib.rs` | ordered list of entries | `format_source`, `format_edits`, `apply_edits` |
| Comment ownership | `light-nix-parser/src/comments.rs` | header, footer, leading, trailing | `attach_comments` |
| Lexer, parser | `light-nix-parser/src` | token position, error list, arena | `parse_source` with recovery |
| Name resolver | `light-nix-name-resolver/src` | scopes, symbol tables, interface | `collect_module`, `resolve` |
| Type checker | `light-nix-type-checker/src` | union-find of type variables, result maps | `check_module`, `unify`, `bind` |
| Dependency graph | `light-nix-dependency-graph/src/graph.rs` | nodes, edges, adjacency, positions | `insert_node`, `insert_edge`, `merge`, `strongly_connected_components`, `cycles`, `evaluation_order` |
| Graph builder | `light-nix-dependency-graph/src/builder.rs` | current owner, walk | `build_dependency_graph`, `refine_dependency_graph` |
| Constraint model | `light-nix-ir/src/{builder,model}.rs` | append-only tables | `add_variable`, `add_expression`, `add_output_case`, ... |
| Lowering | `light-nix-ir/src/lower.rs` | cache of lowered symbols, guard, builder | `lower_module` |
| Solver encoding | `light-nix-solver/src/solver.rs` | assertions, soft costs, encoded outputs | `Encoder::encode`, `decode_solution` |
| Evaluator | `light-nix-evaluator/src` | snapshot, memo of bindings, frames, control dependencies | `evaluate_module`, `diff` |
| Editor grammar | `light-nix-grammar/src/lib.rs` | none | generates a highlighting grammar |

How they interact: `analyze_module` calls the front end in a fixed order and
keeps all products, whatever errors they hold. `plan_changes` takes such an
analysis, a program's inputs and a request; each round it builds a solve
request, calls the solver, applies the solution as overrides of an evaluator
run, and compares that run with the baseline. `Catalog::expand` produces the
request. `apply_plan` turns the plan into edits of the text, using the spans the
lowering kept and the owners of comments, and hands the text to the formatter.
All calls are synchronous; the shared state is the immutable analysis.

What makes each part correct:

* planning: a plan was confirmed by the evaluator; refusals are finite and in
  order of cost; "unsatisfiable" is explained by the refusals made;
* catalog: the constraints added are exactly those of the least set of axioms
  connected with the request, whatever the order of the catalog;
* graph: adjacency mirrors the edges, definitions replace references, cycles are
  found exactly when no evaluation order exists, and the order is canonical;
* model builder and lowering: tables only grow and refer backwards; the model
  means what the program means;
* evaluator: overrides win, bindings are evaluated once, cycles and duplicates
  are errors, the recorded dependencies explain every difference;
* unification: a substitution without cycles that equates what was unified;
* write-back: an unchanged plan leaves the text alone, a written plan evaluates
  to what was planned, comments stay with their statement.

Where it is hard. There are no threads, messages or files in the library, so
nothing is lost, delayed or crashes between two steps. What a test hardly
reaches are long sequences of legal steps: candidate after refused candidate,
axioms that select each other in the wrong order of the catalog, modules merged
in any order, statements in an order one semantics sees and the other does not,
several edits of one text. The list with the line where each of them bites is
under `hazards` in `PROJECT.json`.

## 2. Plan

The order is that of importance: first the loop that hands out plans, then what
it relies on, then what carries its answer into the source, then the front end
that delivers the programs.

| Stage | Modules | State |
|---|---|---|
| 1 | `Planning` with proofs | done |
| 2 | `DependencyOrder`, `EvaluationOrder` with proofs; `Catalog` with proofs; `GraphTable`; `Tarjan` with proofs; `GraphQueries` composes the two queries, with proofs | done |
| 3 | `Programs`, `Scopes`, `Evaluator`, `Lowering`, `Encoding`, composed by `Agreement` | done for the core language, with bindings of blocks, `match`, `?:` and optionals, lists, sets and closures |
| 4 | `SourceText`, `Editing` with proofs, `WriteBack` (composes the evaluator with the editing) | done for scalar and enum values |
| 5 | `GraphBuilder` on top of `GraphTable`, with proofs about the tables and the walks | done |
| 6 | `Syntax`, `Names`: the name resolver | done |
| 7 | `Types`, `Schemes`, `Inference`: unification, declarations, the checker's walk | done, without policies and floats |
| 8 | `Runtime`, `FrontEnd`: evaluation of what was checked, the loop that solves bounds, modules that import each other | done |
| 9 | `Grammar`, `Parser`: every parse function with its recovery | done for tokens |
| 10 | The rest of the language in stage 3: user functions, records, unions and strings in `Lowering` and `Encoding` | to do |
| 11 | The numbering and type checks of the constraint model builder; dependencies of values in `Runtime`; the edits of nested claims | to do |

Abstract specifications: `DependencyOrder` is the promise of `evaluation_order`
and is implemented by `EvaluationOrder`.

A theorem still worth proving: that unification keeps its substitution without
cycles. It needs `unify` as recursive functions first.

## 3. Modules

| Module | Models | Source |
|---|---|---|
| `Planning` | `plan_changes` and its helpers | `light-nix/src/planning.rs`, the request and exclusion parts of `light-nix-solver/src/solver.rs` |
| `Catalog` | `Catalog::expand` | `light-nix/src/catalog.rs` |
| `GraphTable` | `insert_node`, `insert_edge`, `merge` | `light-nix-dependency-graph/src/graph.rs` |
| `GraphBuilder` | `build_dependency_graph`, `refine_dependency_graph` | `light-nix-dependency-graph/src/builder.rs` |
| `Tarjan` | `strongly_connected_components`, `cycles` | `light-nix-dependency-graph/src/graph.rs` |
| `EvaluationOrder`, `DependencyOrder` | `evaluation_order` and its promise | the same |
| `GraphQueries` | `evaluation_order` with the call of `cycles` it begins with | the same |
| `Programs` | the programs of the core language, as data | `light-nix-parser/src/ast.rs` |
| `Scopes` | what is inside statements: names, claims, reads, and whether every name resolves | the same, and `light-nix-name-resolver/src/resolver.rs` |
| `Evaluator` | `evaluate_module`, `diff`, with dependencies and overrides | `light-nix-evaluator/src` |
| `Lowering` | `lower_module` | `light-nix-ir/src/lower.rs` |
| `Encoding` | what the assertions of `Encoder::encode` say | `light-nix-solver/src/solver.rs` |
| `Agreement` | lowering, two evaluations and the encoding of one module | as in `plan_changes` |
| `SourceText` | tokens, statements, `attach_comments`, `format_source`, `format_edits`, `apply_edits` | `light-nix-parser/src/comments.rs`, `light-nix-formatter/src/lib.rs` |
| `Editing` | `plan_edits` and `apply_plan` | `light-nix/src/editing.rs` |
| `WriteBack` | the two with an evaluation before, for the plan, and after | the same, as called behind `plan_changes` |
| `Syntax` | the syntax trees of the front end, the threading of states | `light-nix-parser/src/ast.rs` |
| `Names` | `collect_module`, `resolve`, the interface of a module | `light-nix-name-resolver/src/resolver.rs` |
| `Types` | types, union-find, `unify`, joins, assignability | `light-nix-type-checker/src/{types,unify}.rs` |
| `Schemes` | declarations, implementations and their overlap, schemes, bounds | `light-nix-type-checker/src/checker.rs` |
| `Inference` | statements and expressions: types, obligations, refinement, members | the same |
| `Runtime` | evaluation of a checked module | `light-nix-evaluator/src/evaluator.rs` |
| `FrontEnd` | `analyze_module` and `register_module` over a project, the loop that solves bounds | `light-nix/src/analysis.rs`, `checker.rs` |
| `Grammar` | every parse function, as a term | `light-nix-parser/src/parser/{statement,expression,types}.rs` |
| `Parser` | following a term; `parse_statements` over a source | `light-nix-parser/src/parser` |

The `MC` modules hold only instances. `PlanningProofs`, `CatalogProofs`,
`GraphTableProofs`, `GraphBuilderProofs`, `EvaluationOrderProofs` (also for
`GraphQueries`), `TarjanProofs` and `EditingProofs` hold theorems and the invariants
they need; `LeastElements` is the one lemma several of them share.

### Planning

`pc` is the place in `plan_changes`: the checks before the loop (`enter`), the
solver call, the evaluator call, the return. `exclusions` is what
`exclude_solution` added to the request, `rejected` the counter of the code,
`solution` the candidate at hand; `tried` is a history variable for the
properties. The solver is a relation: it may answer with any cheapest assignment
among `Models`, the assignments that meet the request and none of the
exclusions, or `Unknown`, or, when there is none, `Unsat` with any subset of the
request that has no models under the exclusions as its core. This is what Z3
promises, and no more. `Assignment`, the set of
assignments of the untracked part of the encoding, and `Evaluate`, the
evaluator, are constants, so that the theorems hold for every program.
`MCPlanning` derives both from a small program with three tunable bindings, one of
them initialised from another, an output that is opaque for the solver, and an
editable output.

### Catalog

`pc`, `next`, `index` and `changed` are the loops of `expand` and
`apply_axioms`; `goals`, `constraints`, `applied`, `mentioned` and `selected`
are its collections. One step handles one intent or looks at one axiom, so that
the order of the catalog and the passes of the fixpoint are visible. Resolving a
name to a path and the declared type of a path are constants. A type is the
sequence of its constructors (`Set(Optional(Package))`), a constant the tree of its
positions, so that `adapt_constant` is modelled arm by arm: it goes down while the
container of the constant is the one the type has there, and leaves a list aimed at
a set, or a bare string aimed at an optional, as it is. Types that are neither
containers nor `Package` nor `Bool` are `Other`; what the solver takes for those is
not told apart.

### GraphTable, GraphBuilder

`GraphTable` keeps the five tables of `DependencyGraph`; `extend` is a step for
each node and each edge it enters, with `pending` for what is left. `defined` is
a history variable: the first definition told of each id.

`GraphBuilder` is the walk that fills the tables. The recursion of the visit
functions is a stack `todo` of what is left to visit, on which `with_owner` leaves
the previous owner. The first walk defines the nodes of declarations and statements
and enters the references by name; a refinement walks the same statements again
and enters the methods that types determine. A module is a sequence of
statements, an expression a literal with what it resolves to, a member access, a
block, or a form whose parts are visited in order. The empty module stands for a
client that calls `insert_node`, `insert_edge` and `merge` itself, in any order.

Statements and expressions are constants: any set of parts closed under what is
`Inner` to them, in which every part has a `Size` above that of what is inside it
(`SyntaxAssumption`: a syntax tree is finite). `MCGraphBuilder` takes the parts of
its modules, and the number of parts inside for the size. What the walk should
have found is stated by nesting alone: `Gathered` collects from a part what it and
the parts inside it have of their own, stopping at declarations that keep to
themselves what they contain, without an owner that is set and put back.
`NoCycleInEvaluation` sets the graph beside what the evaluator may evaluate on
behalf of a declaration (`Demanded`: references outside of nested functions, with
local bindings evaluated where they stand), so that "no cycle in the graph" is
compared with "no declaration is needed for its own value".

### Tarjan, EvaluationOrder, GraphQueries

`Tarjan` writes the recursion of `visit` as an explicit stack of frames.
`EvaluationOrder` has the counters and the ordered set of Kahn's loop, popped
smallest identifier first. Its `HasCycle` stands for the call of `cycles()`;
`GraphQueries` runs `Tarjan` on the same graph first, and `CyclesAreReported` says
that what it reports is what `HasCycle` decides on.

### Agreement

`Evaluator` evaluates statement by statement (`at`), with the snapshot, the memo
of bindings, the bindings under evaluation and the overrides of the code.
Expressions are operators in the style of the Rust: each returns a state and a
tracked value, and an error ends the evaluation. `Lowering` walks the same
statements with a guard and yields variables with initial values, cases of
outputs, and requirements (asserts, throws made unreachable, and matches that
some arm has to take). The frames of blocks and arms are `locals` in both: values
in the evaluator, expressions in the lowering, and what was bound in a block ends
with it (`Leave`, `Leaving`). `Encoding` says of an assignment of values whether
it meets the assertions. An optional is the sequence of what it holds, and what
the solver takes out of a null is any value of `Fresh`. A list of the encoding is
a row of slots, each present or not, so that `filter` empties slots and an `if`
pads the shorter list; only `Decoded` makes a list of values of it. A set is a
subset of `Universe`, the constants of the model and of the request, and what
would be a member is asserted to be in it. An inline closure is encoded again for
every element it is applied to (`m.bound` is what the code pushes onto
`parameter_bindings`), present or not, with the side conditions of its body; an
opaque one gives a free answer each time (`m.answers`). The lowering walks its
body once, under the guard that holds where it is written. Integers have a
largest value `MaxInt` in the evaluator, whose arithmetic is checked, and none in
the encoding, whose integers are Z3's.

`Agreement` runs them in the order of `plan_changes`. Which edits are proposed is
left open: it takes every one of `Edits`, which is more than a solver would
choose from.

### Editing, WriteBack

A source text is a sequence of tokens and an edit a half open span, so an edit at
the wrong span cuts tokens in half only as far as tokens are split: a path is two
tokens and an enum value is two tokens, as the code records the span of the last
segment. `attach_comments`, the stable sort of the formatter and the
back-to-front application of edits are as in the code; blank lines follow from
the groups and are left out. A statement is known by the position of its first token.

`Editing` is the part about the text: `original` is the source the plan was made
for, `PlanEdits` is `plan_edits` and leaves its list in `edits`, `ApplyPlan` is
`apply_plan` and leaves its text in `text`. Its own specification takes any source
and any plan. `WriteBack` composes it with the evaluator: a text whose names resolve
is read as a program of `Programs` and evaluated by `Evaluator`, before the edits,
with the edits as overrides (the confirmation by `plan_changes`), and after the
write-back. Each of its steps leaves the variables of `Editing` alone, or is
`PlanEdits` of a plan among `Edits` or `ApplyPlan`, so that what is proved of
`EditingSpec` holds of it.

### The front end

`FrontEnd` takes a project, a sequence of modules, through the phases of
`analyze_module`: `ResolveNames` runs the resolver of `Names` over the tree,
`CheckTypes` the walk of `Schemes` and `Inference`. Both are pure passes in the
code and operators here. A pass threads a state through the tree and gives the
set of its outcomes, always a single one; written so, TLC evaluates each outcome
once. The tree of a node carries what the code keeps in maps by `AstId`.

The obligations that the walk leaves are solved step by step, each step one turn
of the loop of `solve_obligations`: a bound on a poisoned type is dropped, one that
an assumption or one implementation meets is discharged (with the bounds of the
implementation owed behind the queue), one that may still gain a type waits, and
one that nothing can meet is an error. `steps` and `deferred` are
`remaining_steps` and `consecutively_deferred`. `owed` is a history variable: the
obligations the statements brought about.

A module that passes is evaluated by `Runtime`: frames, lazily evaluated bindings
of the module, closures with captures, functions, members as the checker recorded
them, patterns, type tests, claims, and the errors the evaluator has for what the
checker should have refused (`RuledOut`); division by zero and the like, which a
checked program may well meet, are not among them. A project of several modules is
analysed and not evaluated.

`Types` writes a type as a constructor, an id and components. The union-find has
parents and ranks as in the code; path compression and remembered results change
no answer and are left out.

### The parser

`Grammar` holds each parse function as a term: what it takes in order, on which
token it chooses, what it reports when something is missing, what it passes to
recover, and whether it goes back to where it began. `Parser` follows a term
through a sequence of tokens, with the errors and the tokens that became part of a
node; a loop that comes round to the same place in the same state is recorded as
endless instead of being followed. The machine has a step for each turn of
`parse_statements`. A token is its kind, and the characters of a name matter only
for `_` and `set`, those of a number only for costs.

## 4. Runs

Bounds are constants of the `.cfg` files. Unless said otherwise the state space
is finite without a constraint.

| Run | Instance | Shows |
|---|---|---|
| `planning` | every request of up to two goals and one constraint, `max_candidates` 0, 1, 2, 5; `CostLimit` 2 so that the cost overflow happens | plans are confirmed, refusals bounded, ordered by cost, and repeated only where a binding follows an edited one; what is cheaper than the answer was refused, or agrees with what was |
| `evaluation_order` | four declarations: up to three references of any direction, acyclic graphs with both kinds of edge, every graph of three nodes | components are classes in order of use, cycles are found exactly; the order is canonical, complete, dependencies first; refinement of `DependencyOrder` |
| `catalog` | lists of up to two axioms of 19, every order of chains of three and four that select each other, every kind of intent; constants of eleven shapes aimed at six types and at the members of three of them | exactly the axioms that belong are selected, dangling options fail only when reached, a constant reaches the solver in a form it takes exactly when its author could mean it, the call returns |
| `dependency_graph` | 641 modules of three declarations and a statement in two orders; calls and merges of a client in any order | the tables agree, definitions replace references and stay, references belong to the innermost declaration, refining twice changes nothing, no cycle in the graph means none in the evaluation |
| `agreement` | every module of two tunable bindings and up to three statements (two where one binding is initialised from the other), of a pool of 28, of one of 18 with optionals, patterns and bindings of blocks, or of one of 19 with lists, sets and closures | see below |
| `writeback` | up to three statements of a pool of 8 besides a tunable binding, 6 layouts, 3 endings, plans of one or two edits | see below |
| `front_end` | nearly four thousand projects, see below | names, bounds, faults, termination |
| `parser` | 22 statements that hold every form of the grammar, with one token left out, mistaken or too many, before a well-formed one | parsing ends, nothing is dropped without an error, an error stays on its line |

Why the bounds suffice. Planning has two values, two independent bindings, a third
that follows the first, and an output to edit, so that a candidate can be excluded
together with others, repeat, and be refused more than once; the counters at 0, 1 and 2 put the limit before, at and behind
the first refusal. Four nodes are the least number with two cycles that touch,
and with a diamond. Two axioms suffice for any pair to interact and four for a
chain to need a pass for each. Three statements put a binding, a claim and a
reader of the claim into all orders. Two edits meet in the same row, in adjacent
rows and at the end of the file. In `dependency_graph` three declarations that use
each other give every cycle of length one, two and three through bindings,
functions, variants and methods, with a block around any of the uses. One error
in a statement is what a recovery is written for; two errors meet in the
statement that follows only when the first is not recovered from, which
`BrokenLineStaysAlone` is about.

`agreement`. When solver and evaluator both accept, outputs agree, in every
module without opaque closures, whose answers the solver guesses
(`AgreeOnOutputs`). The evaluator refuses nothing the solver proposes
(`SolutionsAreRealised`) in *orderly* modules: statements after what they use,
bindings and opaque closures that cannot fail, no overflow. The solver is kept
from nothing that works, and what the evaluator computes is among its solutions
(`RunsAreSolutions`), in *plain* modules: what can fail runs in every run and in
no closure, an editable output has one claim, no match unwraps an optional, sets
are of constants and not mapped, and no throw or match
stands in a value that an edit may replace. The request names the integer 2
(`Observed`), besides 0 and 1 of the modules, so that a set has a candidate no
literal brought in. Both conditions are needed; without the second
the run `agreement_unsat` shows what happens, without the first `plan_changes`
refuses the candidate and goes on. A changed output names an edited binding
(`ChangesAreExplained`).

`writeback`. Put-get for values written as one token in sources with a statement
a line whose order of reads the formatter keeps (`PutGetOfLiterals`), edits that
are disjoint (`EditsOfRowsDisjoint`), comments that stay with their statements or
go with a deleted row (`CommentsKeepOwners`), a formatter that settles after one
pass and is reproduced by the one edit an editor gets (`FormattingSettles`).

`front_end`. The projects are families, each a product of small pools: an
annotated or inferred binding and one use of it (2592: nine annotations, twelve
initialisers, uses that refine, claim, access, match and call), the same name
declared in two scopes by any two kinds of declaration (560), an implementation
and the bounds that call for it (336: nested types, conditional implementations,
overlapping ones), bounds that wait for each other (8), claims and reads (132),
and projects of modules that import each other's declarations (300, of two
modules). `MaxBoundDepth` (6) bounds the nesting of the types of bounds that the
reference definition of `ObligationsHold` follows. A name stands for the nearest
declaration, and for nothing where that is ambiguous (`NearestDeclarationWins`);
in a module without errors every bound the statements brought about holds by the
declarations alone (`ObligationsHold`); the solver reports a stall only when no
bound in its queue can be discharged (`StopsOnlyWhenStuck`); what the checker
accepts does not fault in the evaluator and leaves values of the types it inferred
(`WellTypedProgramsDoNotFault`; section 6 lists what is known to fault outside
these projects); every analysis ends (`AnalysisTerminates`), also where an
implementation owes a larger bound each time and only the count of steps ends it.

### Disagreements with the repository's own words

Each is a run that TLC must find violated; the quotes are under `findings`.

| Run | What happens |
|---|---|
| `agreement_unsat` | a read or division that never runs makes every request unsatisfiable |
| `writeback_path` | an enum value or a read is edited at its last segment only |
| `import_chain` | a module that imports two modules, one of which imports the other, is told that an implementation overlaps with itself |
| `parser_endless` | a closure as a statement of its own with an error in its body is parsed and taken back without end |

Seven more were found in the same way and have no run of their own: most need a
pool beyond that of their passing run, and those about unwrapping and about what
closures and sets are asserted have the cause of `agreement_unsat`. Excluding a
candidate (`planning.rs:522`) excludes those with further edits, so the answer may
be "unsatisfiable", or a dearer plan, although one of them works;
`AnswersAreExplained` is the weaker statement that holds. The excluded point gives
an unedited binding its baseline value (`planning.rs:512`), so a candidate in which
such a binding follows an edited one is not excluded and may be proposed again until
the limit is reached; `OnlyDriftedAgain` says that it happens in this case only.
Editing a claim whose value is a plain binding edits
the binding (`lower.rs:1274`), and with it its other readers. The formatter moves
an assert before the claim it reads (`formatter lib.rs:114`), after which the
module no longer evaluates. These two contradict the put-get of
`light-nix/tests/editing.rs:29`, like `writeback_path`. An arm `some(v)` that uses
`v` makes every request unsatisfiable that leaves the matched value null, although
another arm takes it: the solver asserts that what it unwraps is there under no
guard (`solver.rs:481`; `Unwraps` in `Agreement`). And `some(some(1))` has the
type of an optional integer, since types flatten nested optionals (`types.rs:41`,
with the test `optional_constructor_flattens_nested_options` at `unify.rs:204`),
but evaluates to an optional in an optional (`value.rs:64`), so that its value is
not of its type. A closure whose body throws or matches under a condition on its
parameter leaves a requirement behind that names the parameter, which is bound in
the closure only (`solver.rs:442`): every request to a module that holds one is
answered with an error, also when the closure is used for other outputs (`Free` in
`Encoding`). And a division in a closure is asserted to be defined for the
elements that a filter left out (`solver.rs:874`, `solver.rs:1244`), as a set
literal with a binding among its members is asserted to take its value from the
constants in sight (`solver.rs:761`): edits that work are not found.

### Fairness and deadlock

A call is one thread that runs until it returns, so `WF_vars(Next)` is what the
code gives: it never stops where it could go on. It is used for `Termination` of
`Catalog`, whose loop runs until a pass selects nothing, and for
`AnalysisTerminates`. The parser has `WF_<<pc, place>>(Advances)`, weak fairness of
`Next` written so that whether a step is enabled is a comparison instead of a
parse: it moves on exactly when it can, and a turn that changes nothing is the
endless loop itself. The loop of `Planning` is bounded by a counter,
which `RejectionsBounded` is about. Where a run says `CHECK_DEADLOCK FALSE` the
last state is that of a call that has returned.

## 5. Proofs

Checked by TLAPS for every value of the constants that meets the named
assumptions.

* `PlanningProofs`. `TypeCorrect`, `PlansAreConfirmed` and `RejectionLimit` are
  invariants of the loop; the last needs that exclusions are a finite set and
  that the loop runs only behind the entry checks (`RejectionsInv`).
  `AnswersExplained` links the solver's exclusions to the evaluator's refusals:
  every excluded point comes from a refused candidate, the candidate under evaluation
  is a cheapest of the models left (`ExclusionsInv`), and a point rules out only
  what agrees with its candidate. `LoopEnds` gives the loop a number of steps,
  two for each candidate that may still be refused, which every step lowers: whatever
  solver and evaluator answer, `plan_changes` returns after at most
  `2 * max_candidates + 1` of them. `CostOrder` rests on
  exclusions that only grow, so that models only shrink. `Progress` says what a refusal
  achieves, in every program: the refused candidate is no model of the next call
  exactly when no binding in it follows an edited one, and its edits come again only
  where one does. `RefusedInv` keeps an exclusion for every refused candidate and the
  candidate under evaluation a model of what they leave; `SameEditsRuledOut` is the
  arithmetic of the excluded point, which gives an unedited binding its baseline
  value.
* `LeastElements`. A nonempty set of numbers has a least member, which stands in
  for induction: a claim about all numbers is refuted at its least counterexample.
* `EvaluationOrderProofs`. The inductive invariant `KahnInv` says that counters
  count the dependencies not yet emitted and that the ready set holds exactly the
  nodes left whose counter is zero. `DependenciesComeFirst` and the counters that
  never wrap (`TypeCorrect`) follow; `NothingLeftOut`, the assertion at the end of
  the function, uses that without a cycle any nonempty rest has a node whose
  dependencies are all emitted. `OrderIsCanonical`: of all orders the emitted one is
  the least, so it depends on the graph alone and not on how the maps iterate.
  `LeastInv` says that an order which agrees with the emitted one up to a place has
  no smaller node there: it would hold a node that was ready, and the smallest
  ready one was taken. `Implements` is the refinement of `DependencyOrder`.
* `TarjanProofs`, under the hypothesis that edges lead to nodes of the graph
  (`GraphOK`, which the tables give). `ComponentsCorrect`: components are the
  classes of mutual reachability, in order of use, and each node is in one.
  `CyclesCorrect`: what `cycles` returns are those with more than one node or an
  edge to itself. `RecursionIsBounded`: the recursion is never deeper than the
  number of nodes. `TarjanInv` has a part for each structure of the algorithm:
  indices are handed out in order (`CountInv`); the stack holds nodes in that
  order (`StackInv`); frames are nodes of the stack and reach what was pushed
  after them (`CallInv`); a visited node waits on the stack or is in a component
  (`StackInv`), and the dependencies of a call that has returned are visited
  (`SeenInv`); a low link is the index of a node of the stack that is reached, and
  a lower one once the call has returned (`LinkInv`); it is at most the index of
  every dependency that has been looked at (`LookedInv`) and at most the links of
  what has returned above (`BoundInv`); and the components so far are disjoint,
  connected, and depend only on themselves and on earlier ones (`ComponentInv`).
  When a call closes a component, the nodes above it on the stack reach it by
  following links down (`LinkInv`, least counterexample), and none of them has an
  edge to a node below it, since that would have lowered its own link
  (`LookedInv`, `BoundInv`).
  The same module has the two queries composed. `QuerySpec` implements both algorithms
  (`RunsTarjan`, `RunsKahn`), so their theorems hold of `evaluation_order` as it is
  called: `ComponentsAreInOrder`, `CyclesAreFound`, `OrderIsRight`, `DepthIsBounded`.
* `CatalogProofs`. `SelectionSound` and `SelectionComplete`: the selected axioms
  are the least set closed under touching. `CatalogInv` says that `mentioned` is
  what goals and selected axioms name, and that a pass without a change has found
  nothing to select, so that the last one is a witness of closure. `DanglingExact`:
  a name no path is found for is an error exactly when an axiom that belongs has
  it; `DanglingInv` says that every selected axiom resolved, until the one that
  ends the call. `ConstantsElaborated`: goals and constraints are those
  of the facts, the solver takes a constant exactly when the fact's was right for the
  type or had strings in the place of packages, and nothing else has changed. It
  rests on `AdaptExact`: a type has only containers before a position it reaches, so
  a constant that is right up to there is one that `adapt_constant` follows
  down to it. `ValueAssumption` says that constants are trees, `PathAssumption` that
  types are constructors that end in something that is no container; there is no
  assumption that they fit each other. `PassesEnd` is the
  termination that `Termination` asks of the run, as a measure: every pass but the
  last selects an axiom, so the intents, one pass more than there are axioms and the
  turns of each pass bound the steps, and every step lowers what is left.
* `GraphTableProofs`. `TablesStayExact`: positions, nodes and both adjacency
  lists say the same of the graph, for any nodes, edges and merged graphs in any
  order. `ReferencesAwaitDefinitions`: a node is External exactly as long as
  nothing has defined it. `DefinitionsAreKept` is the action property that no
  later call changes a definition or a place. The inductive invariant `TableInv`
  is `Consistent` (the tables agree and each list of positions is increasing,
  without which an edge could be listed twice), `Told` (which nodes are External)
  and the types of what is pending. There is a lemma for each call a step may
  make, `InsertNodeKeeps`, `LinkKeeps`, `InsertEdgeKeeps` for the first conjunct
  and `InsertNodeTold`, `InsertEdgeTold` for the second; `StepInv` puts them
  together by action. These theorems are about `GraphTable` with a client that calls
  as it likes. For the walks there are `AddingEnters` (a call enters its edge and no
  other) and `DefiningAgain` (a second call changes nothing).
* `GraphBuilderProofs`, about `BuilderSpec`: every source, of any syntax that
  meets `SyntaxAssumption`, with an id for each statement of the module
  (`SourceAssumption`). `OwnersAreAlwaysInnermost`: behind the second walk the
  edges are exactly those that nesting gives. `RefiningIsIdempotent`: a third walk
  changes no table. `TablesStayExactInWalks`, `ReferencesAwaitDefinitionsInWalks`
  and `DefinitionsAreKeptInWalks` carry the theorems about the tables over to the
  walks. `AcyclicGraphsEvaluate`: where every local binding is read, a module
  whose graph has no cycle has no declaration that is needed for its own value.

  Two lemmas stand in for induction over syntax. `PartInduction`: what holds of a
  part when it holds of everything inside it holds of every part, by the least size of
  a counterexample. `GatheredIs`: the recursive function in `Gathered` satisfies its
  equation, since for each number there is a function that satisfies it up to that
  size, and any two of them agree.

  The inductive invariant `BuilderInv` has four parts, about a witness `own` that
  gives each task on the stack the owner it will run under. `TableInv` is that of
  the tables. `StackInv`: `own` follows from the restores on the stack, only
  declarations may be without an owner, and the tasks for the statements not yet
  begun are at the end, so that the counter of statements is the `Number` of those
  begun. `WorkInv` splits the work of a module (each use with whom it belongs to, each
  declaration with itself) into what is left on the stack and what is done: what a
  walk has passed has its node and its edges. `SoundInv`: there is no edge that no
  work makes. The invariants alone would not do: that edges are
  complete at the end is only inductive with what is left to visit, and which owner a
  task will have depends on every restore before it. A visit replaces the task in
  turn by tasks whose work adds up to its own (`WorkIs`), under the owners that the
  restore behind them ends (`RestoredOwners`, `StackAdvance`); `Moves` is what each
  action is shown to do.

  For `AcyclicGraphsEvaluate`, take declarations that all need one another. If no
  local binding of one of them needs anything in that set, the use that does is
  its own, and an edge. Otherwise the largest such local binding is read by the
  declaration itself, since a local binding that read it would contain it, need
  the same and be larger; so there is an edge to it (`LargestLet`,
  `NeedsAreEdges`). The declarations met in this way make a cycle of the graph
  (`CyclesAreEdges`).
* `EditingProofs`, about `EditingSpec`: every set of sources (`SourceAssumption`: they
  are sequences of tokens) and every set of plans. `RowsEditedApart`: where each
  statement has a line and the values a plan replaces are written in place, no two of
  its edits share a token, so that `apply_edits` may take them back to front. There is
  one edit for each target (`EditsByTarget`), the replaced value lies in its
  statement's row, a deleted claim is the row with the comments it owns, and an
  inserted one is at the end of the text. It remains that rows with their comments
  do not overlap (`RowsApart`): a comment that trails a row ends before the next
  line feed, and one that leads a row begins below every row before it (`TrailingIs`,
  `LeadingIs`). The inductive invariant `EditingInv` says that `edits` are those of one
  plan for the `original`; the step needs that what is computed from `original` is the
  same before and after (`SameSource`).

  `BackToFront` is why that matters: of two edits that do not overlap, applied from
  the back, each replaces the tokens of its own range of the source text.
  `FormatEditsReformat`: what `format_edits` answers is nothing for a formatted text
  and otherwise one edit, in the text, which turns it into the formatted text. It
  holds for any formatter, since the edit is cut by the common prefix and suffix
  (`PrefixIs`, `SuffixIs`) and those must not overlap.

  Stays with TLC: any number of edits at once, since `ApplyEdits` sorts and folds, and
  what depends on evaluating the text before and after.

Only model-checked: all liveness; `Agreement`, `FrontEnd` and `Parser`; of `WriteBack`
all but `EditsOfRowsDisjoint`. Programs, types and terms are trees, and what `Evaluator`, `Lowering`,
`Names`, `Types`, `Inference`, `Runtime` and `Parser` compute of a tree is written
with recursive operators, which the provers do not take.

## 6. Not modelled

Each part below is left out of the models, or lies outside the pools of the
passing runs because a property is known not to hold there.

* In `Lowering` and `Encoding`: user functions, which the solver does not accept
  (`solver.rs:789`), patterns of enum variants, optionals of optionals and tunable
  bindings of optional or collection type, empty lists, collections of anything but
  integers, records and nested assignments, unions, early returns, strings
  and reals, policies other than tunable, and the report of opaque boundaries.
  Consequences we know of: an `if` without `else` drops the opaque dependencies
  of its condition from its value (`evaluator.rs:478`), and a read of an option at
  the root drops those of its path (`evaluator.rs:828`). The value of a block is
  that of its last expression statement in the lowering (`lower.rs:407`) and of
  its last statement in the checker, and a `return` nested in an `if` of a closure
  body is the value of its branch in the lowering and ends the closure in the
  evaluator.
* In the text: imports, uses and definitions (fixed groups in front), nested
  claims, comments inside statements, comments in block form behind the header, and
  the characters of a token. With two claims on a line and a comment behind them
  the comment belongs to the first, and deleting the first deletes both
  (`editing.rs:205`); a claim is appended behind the footer, whose comments then
  lead it (`editing.rs:86`); two claims of one plan that use the same plain binding
  give two edits of one range.
* In planning: the solver's search, its timeout and Z3's tactics; the answer is
  any the contract allows. After a refusal the conflict reported may name goals
  that contradict only the exclusions (`planning.rs:290`), which the solver's
  answer leaves open.
* In the graph: the depth of the stack. `visit` recurses once for each node of a
  path (`graph.rs:334`). A local binding that is never read is outside the modules
  of `NoCycleInEvaluation`. A call through a type parameter, whose edge leads to
  the declaration of the method only, is inside: the evaluator refuses it.
* In the checker: policies, floats, computed keys of attribute sets, and spans.
  Outside the pools of `front_end`: an interface method without a return type is
  given a variable of the unifier of its module (`checker.rs:884`); a
  unification that fails has bound the variables it met before (`unify.rs:66`);
  sixteen steps for each obligation are too few for a satisfiable chain of
  implementations that is deep enough (`checker.rs:2128`); a bound is settled by
  the first assumption that unifies with it; unions of optionals with variables
  are not merged when the variable is bound; the types of imported generic records
  are compared by their declaration only; an error in a binding is repeated as one
  of its type not being known.
* Between checker and evaluator, outside the pools of
  `WellTypedProgramsDoNotFault`: a safe access on a receiver that is not optional
  (`checker.rs:1735`); a literal, a parameter or a pattern binding as the target of
  a claim (`checker.rs:2651`); `is` and `as` with function types; a function
  declared in a function and returned, or called before a later binding of the
  outer one (`evaluator.rs:1223`); a test of a name that a closure captured before
  the claim that changes it; dispatch through a type parameter whose type is only
  known in the caller; the values of imported functions.
* In the parser: the characters of tokens (`List<Int>=` is read with `>=`), and
  the contents of the tree. Outside the inputs of `BrokenLineStaysAlone`:
  lists of type parameters, type arguments and closure parameters, and the methods
  of an interface, do not stop at the start of a statement (`statement.rs:1672`),
  so that an unclosed `<`, `|` or `{` takes the following statements with it; the
  recovery of an opening token passes closing braces (`statement.rs:2252`); an
  access at the end of a line takes the first word of the next one
  (`expression.rs:441`), and so do the `[` of an expression, `some(`,
  `tunable(` and a bound that ends in `+`. The lists of `use`, `import`, `enum` and
  `type` do stop, and may be left open inside those inputs, as in the test
  `statement.rs:2967` (`ListStops`).
* `light-nix-grammar`, which emits constants, and the tables of the constraint
  model: an expression of `Lowering` is the term itself, not its number, and the
  builder's checks of types repeat those of the checker.
