# A verification of rev-callgraph

rev-callgraph finds, for one function or method of a Go workspace, who calls it,
directly and through other functions, and whether each call fits the current
signature. It parses as few files as it can: a token index tells which files may
matter, and the search loads them one after the other. The modules in this
directory model that program, TLC checks them on small instances, and TLAPS
proves for every call graph, workspace, file and body what the search, the lazy
engine and their composition promise, what the token index and the import tables
hold, what a name means in a body, which targets are refused, and that the names of
the result tell its symbols apart.

Source paths below are relative to `src/internal/analysis/`.

## The system

| Part | State | Operations |
|---|---|---|
| Source discovery, `discovery.go` 118-286 | `Workspace`: modules, packages, sources | walks directories, reads go.mod, assigns a module, a package identity and a kind of test to each file |
| Module series and imports, `discovery.go` 226-380, `identity.go` 47-160, `engine.go` 431-462 | `Series`, `importSelections`, `importAliases`, import tables | `assignModuleSeries`, `importPackage`, `scopedSource`, `sameSeries` |
| Token index, `discovery.go` 394-518 | `indexedLocator` | `NewLocator`, `Definitions`, `DefinitionsByPath`, `Callers` |
| Lazy engine, `engine.go` 158-219, 496-566 | `models`, `functions`, `types`, `definitionCache`, `callerCache` | `load`, `definitions`, `loadDefinitions`, `callersFor`, `callerCandidates` |
| Reverse search, `engine.go` 64-157, 568-579 | the tree, `ancestors`, `unique`, `seenEdges` | `AnalyzeWithPolicy` |
| Resolution, `engine.go` 225-372, 466-493, `identity.go` 165-200 | `externalCache` | `resolve`, `resolveType`, `canonicalAliasReceiver`, `targetSymbol` |
| Method search, `engine.go` 374-429, `compatibility.go` 371-464 | a queue of candidates; a set of types seen | `method`, `interfaceMethod` |
| Compatibility, `compatibility.go` | the pairs of types seen in one question | arguments, results, assignability, channels, constants |
| Body analysis, `source.go` 405-735 | scopes during a walk, `fn.Calls` | `analyzeBody`, `functionValue`, `call` |
| Declarations of a file, `source.go` | `FileModel` | `analyzeSource`, `typeOf`, `arrayLength` |
| Display names, `identity.go` 202-315 | labels | `symbolLabel`, `displayResult` |
| Output, `../output`; command line, `../../cmd` | none | text, JSON, DOT; flags, exit codes |

Discovery runs once and fills the workspace, from which `NewLocator` builds the
index. The search calls `callersFor` for each node; that asks the index for the
files in which the name occurs, loads them, takes a snapshot of all functions known
and resolves each of their calls of that name. Resolving asks for definitions, which
loads more files into the same tables while the snapshot is walked; a resolved call is
then checked for compatibility, which loads the types it compares. When the search is
over, `displayResult` replaces package identities by names. All of it runs in one
goroutine. What comes from outside is the cancellation of the caller's context,
files that cannot be read or parsed, and the Go installation.

What is hard here, and what the properties are about:

* one mutable `ancestors` map and one cached, re-sorted slice serve a whole
  recursion, and two sets of keys deduplicate the same edges for two purposes;
* the answer must not depend on what was loaded before, nor on the order of
  requests, of files, or of a map;
* errors and cancellations come between two loads, and some callers ignore them:
  nothing may count as searched that was not, and what is unknown must stay unknown;
* scope, selector, assignability and module rules are reimplemented by hand,
  partly twice, and must agree with Go and with each other;
* a verdict `incompatible` ends a path of the search: a wrong one hides callers.

`PROJECT.json` lists these as hazards, at the line where each one bites.

## The modules

| Module | Models | Form |
|---|---|---|
| `CallGraph` | symbols, call sites with verdicts, the request | data |
| `CallerPaths` | what a reverse call graph promises | abstract specification |
| `Traversal` | `AnalyzeWithPolicy`: `visit` with an explicit stack | one action per way through `visit` and per turn of its loop |
| `LazyLoading` | `load`, `definitions`, `loadDefinitions`, `callersFor`, `callerCandidates` and the index lookups | one action per file, package and step |
| `Analysis` | a whole run: `Traversal` over `LazyLoading` | the actions of both, joined |
| `TypeNames` | the names of types, and what the code reads off them | operators |
| `Assignability` | Go's rules for assignment, arguments, results and constants | reference |
| `Resolution` | `targetSymbol`, the loop of `callersFor`, `resolve` | one action per way through `resolve` |
| `Compatibility` | `compatibility` and `assignable` | one action per question and per step of a question |
| `MethodSets` | `interfaceMethod` and `method` | one action per candidate and per level; a recursive operator |
| `Scopes` | `analyzeBody` with `functionValue` and the lookup of called names | one action per node of the walk |
| `TokenIndex` | `NewLocator` | one action per token and per end of a file |
| `Imports` | series, package selection, aliases, `sameSeries` | one action per turn of the loops over modules and packages |
| `Discovery` | `discoverSources` | one action per file of the walk and per source |
| `Display` | `displayResult` after `Discovery` | one action per node and per edge |
| `Traversal_proofs`, `Analysis_proofs` (with `LazyLoading`), `Resolution_proofs`, `Scopes_proofs`, `TokenIndex_proofs`, `Imports_proofs`, `Display_proofs` (with `Discovery`) | | theorems |
| `Indices` | | lemmas: least and greatest indices, loops that end |
| `MC...` | | constants for TLC |

**Traversal.** A frame of `stack` is one active call of `visit`: its node (the path
from the root), its depth, its set `unique`, and the edges its loop has still to
take. `VisitFails`, `VisitTooDeep` and `VisitCallers` are the three ways through the
first statements; `SkipDuplicate`, `AddLeaf` and `Descend` are the turns of the
loop; `LoopEnds` with `Return` is the return, together with the `delete` that the
caller does. `callersFor` is one step here: it returns the call sites in any order
that the unstable sort may give, and replaces the cached slice as the sort does.
`Cancel` may happen at any time. `CallerPaths` has three actions: report a caller
of a path that may be extended, publish the tree if it is closed, give up.
`ImplementsCallerPaths` states that `Traversal` implements it; `input`, `tree` and
`outcome` are the same in both, and the stack, the caches and the lists are the
implementation's own.

**LazyLoading.** The tables are variables, and `request` is what `definitions` or
`callerCandidates` has still to load: package by package, in each the files that the
index lists, in the order of the index. The request for definitions is any request
that resolving a call may make; a `tolerant` one is made where the error is dropped
(`resolveType`, `compatibility`), the others end the analysis. `FileChanges` makes a
file unreadable or readable again, so that a load may fail once and succeed later.
What a call resolves to is given with the file (`calls`). `IndexAssumption` states
what the index must list; `TokenIndex` checks that the scan lists it.

**Analysis** joins the two. It begins with the loop of `targetSymbol`: `AskRoot` asks
for the root's name in one package of its path after the other (`candidates`),
`AskRootMethod` is what `method` asks for behind that, and `RootIsChosen` its end; an
error of either ends the analysis. `SearchStep` is a step of the search that needs no
engine; `CallCallersFor` hands the symbol of the visit to the engine, `StartCall`,
`AskMore` and `FinishCall` resolve the calls of the snapshot one by one, each with
the loads of `EngineStep` in between, and `CallersForReturns` gives the edges back.
`AskMore` stands for whatever else resolving and checking a call may look for, with
errors dropped or not. `EngineFails` ends the search with the
engine's error, a cancellation that `load` notices included. `ImplementsSearch` is `Traversal!Spec` with its `cancelled` mapped to
`noticed` (the `ctx.Err()` of `visit` has seen it; between two visits the code goes
on, and a cancellation after the check of a visit is left to `load`) and its cache to
`edgeCache`: all that the engine does in between must be a stutter, and what it
returns must be the complete list of callers. A run of `Analysis` is thus one of
`Traversal`, which is one of `CallerPaths`.

**TypeNames** represents a name by its words, `<<"*", "p.T">>` for `*p.T`; the code
looks at prefixes only. **Assignability** states the rules of the Go specification on
all declarations, without files or an order.

**Resolution.** `ChooseRoot` is `targetSymbol`, `LoadCandidates` the candidates of
`callersFor`, `NextCall` takes any call that is left. A call follows its chain of
fields (`FollowField`), finds a function or a method (`FindFunction`, `FindMethod`), or
goes through the decision list behind that (`NotFound`, `DecideByPackage`,
`DecideExternal`). Each step loads what `definitions` would load. `InstallationChanges`
makes the declarations of the standard library unreadable or readable. The reference
`GoCallee` applies Go's rules to everything declared. Which modules are connected is
given (from `Imports`), and `method` is modelled for types without embedded
fields (the others are in `MethodSets`): from such a type it only goes from alias to
alias, so it is a loop that returns when no type is next, `Follows`, and has the
set of types seen with it; `canonicalAliasReceiver` is one too (`LeadsOn`). A receiver
without a name is no symbol and no target. `ValidProgram` says for which programs the
theorems hold that compare the search with `GoCallee`.

**Compatibility.** `CheckCounts` compares the numbers of arguments and results and
lists the questions; `Ask` takes one; `DecideConstant`, `DecideAtOnce`, `FollowTo`,
`DecideInterface`, `FollowFrom` and `DecideOther` are the loop of `assignable`, which
goes through aliases one at a time, loads as it goes and remembers the pairs it has
seen. `canonicalArrayElement`, `channelType`, `argumentAssignable` and `resultContext`
are operators. What Go says is stated without looking at what the code can express; where
the code has another verdict the form of the call is in `FormsOf` (or is `HasUnreadMethod`),
and a form is considered only if `Forms` names it.

**MethodSets.** A program declares, for one method name, the embedded fields, the
aliases, the methods with their receivers and the fields of that name, what interfaces
embed, and which types and which methods are in files that do not parse. `VisitType`, `VisitAlias` and the other `Visit` actions are the
branches of the loop over a level and `EndLevel` is the code behind it. `GoAnswer` and
`Selected` state the selector rules of the Go specification on paths of embedded
fields, without a queue: an alias is another name, and an interface is one declaration
whatever it embeds. `IsConsidered` leaves out three forms of programs unless `Forms` names
them.

**Scopes.** The body grows while it is walked, so TLC takes every body over `Nodes`.
The reference, `IsVariable` and `ValueOf`, looks at the nodes before a place and at
which scopes are open there; it does not keep scopes. A statement with several names is
several nodes, all but the first `joined` to the one before, and their values are looked up
before its first (`Start`). `ValueOf` takes the value that was given last, before a place
in the text and in whichever block, to the variable that the name denotes there; it goes from
there to the value that the given name had before, until one was written that no
node gives. `IsConsidered` leaves out five forms of bodies unless `Forms` names
them.

**TokenIndex** and **Imports** take a set of workspaces as constant and read each as
the code does; the properties compare the result with the declarations and with the
go.mod files. A file of `TokenIndex` is a sequence of tokens, and `TokenAssumption`
says where the grammar puts the tokens of its declarations: what is outside groups
and bodies, and that groups are closed. `Imports` has one action for each turn of the
loops over modules and over the packages of a path.

**Discovery** takes the files of a workspace in the order of the walk and gives each
its module (the deepest directory above it); then `PlaceSource` decides for one
source whether it is an external test and which identity its package gets.
**Display** continues with any result over the symbols of those packages:
`ConvertRoot`, `ConvertNode` and `ConvertListed` replace identities by labels. An edge of the tree and
the same edge of the list have names of their own but share their messages, so that a
message is converted twice.

Definitions that follow the words "mutant of" are wrong on purpose: they stand for
a plausible slip in the code and show that a property notices it. No specification
uses them.

## The runs

Passing runs:

| Run | Instance | What it shows |
|---|---|---|
| `traversal` | all subsets of nine call sites over three symbols, depth limit none or 2, both policies, cancelled anywhere | `ancestors` is the stack and no symbol is visited inside its own visit (`AncestorsAreTheStack`); both lists report the same outcomes (`EdgesMatchTree`); the search implements `CallerPaths`; it ends, and nests its visits no deeper than there are symbols (`Termination`); the inductive invariant of the proofs (`VisitInvariant`) |
| `analysis` | five calls in three files of two packages that share a path, two roots that are looked for in both, depth limit none or 1, both policies; any files unreadable, for a while or for good; a cancellation at any step | the tables are those of the complete models; a search that counts as done found every declaration; the snapshot misses no caller; cached callers are those of the whole workspace in every order of requests; the search waits for the engine (`SearchWaits`); the whole is a behaviour of `Traversal`, its fairness included (`ImplementsSearch`) |
| `resolution` | twenty-three calls in any order, thirteen targets, four files of which any were loaded before and any cannot be read | no caller is invented (`EdgesAreCalls`) and none is lost (`CallersAreFound`); a root with two declarations is refused (`RootIsUnique`); calls of one standard symbol are judged alike (`ExternalsAreStable`) |
| `compatibility` | every pair of some forty types as parameter and argument, variadic calls, constants at the limits of each width, results, method expressions; three files, any loaded, any unreadable | `incompatible` only for calls that Go refuses, `compatible` only for calls that Go accepts, `unknown` not for what is merely not loaded yet, each but for the forms below; every check ends, on cyclic aliases too |
| `method_sets` | structs, interfaces and aliases that embed each other up to three levels with cycles, 36 ways to declare, types or methods in files that do not parse, two loading histories, two receivers | `interfaceMethod` answers as Go does, but for the forms below; with unreadable files it says so or is right; `method` finds a method that nothing competes with; the search ends |
| `scopes` | every body of up to five nodes over two names and four files, with any number of names in a statement | a call finds what Go's scopes say (`HidesAsGo`), and a function value is the one given last (`ValuesAsGiven`), but for the forms below |
| `token_index` | every file of up to three declarations from a pool of ten, and four-file workspaces with shared paths | every declaration and called name is in the index; the packages of a path are listed once, in order |
| `imports` | 24480 workspaces of an application and two libraries | no package is chosen by reading order; the series of two known majors decide whether a call connects, however the map is walked, unless go.mod asks for two majors; a replacement of the required version wins |
| `display` | workspaces with nested modules, two copies of a module, directories that end in `_test`, internal and external tests; every result of two calls, up to three loaded types | files share a package identity exactly if Go compiles them together (`PackagesAsGo`); two symbols have two names, and two loaded types of a message two names, through all conversions |

Runs that end in a counterexample, each for one statement of the repository that
the code does not keep:

| Run | Statement | Counterexample |
|---|---|---|
| `init_functions` | spec: entries with one public ID do not overwrite each other and all callers are followed | two `init` functions of a package have one ID; the calls of the first are lost (`engine.go` 174) |
| `own_initializer` | spec: a variable hides a name in its scope only | `x := x()`: the value is looked up after `x` is declared (`source.go` 535) |
| `false_mismatch` | spec: `incompatible` means a clear mismatch with the present definition | a call that a function literal returns is compared with the results of the function around the literal (`source.go` 1056) |

The last two are the models of the runs `scopes` and `compatibility` with one form of
bodies and of calls that these leave out. There are more such forms: they are in the
section "Where the code differs from Go", and the passing runs say nothing of them.

The limits that the specification of the program itself names (no dynamic dispatch,
no flow analysis and the like) are not reported as findings.

### Bounds, and why they are enough

* `traversal`: three symbols give self calls, cycles of two and three, a diamond, and
  a symbol that is reached again with the cache filled. The pool has call sites of one
  caller with different verdicts, two on one line, and external ones. A depth limit
  of 2 cuts paths that the unlimited search continues. `StackLimit` is 3, the number of
  symbols: calls of `visit` can nest no deeper, as on the stack of a goroutine, so that a
  search which goes round a cycle stands still, and with the code's ancestor check the
  limit is never met.
* `analysis`: the smallest workspace in which a request has two packages, a
  package two files, resolving loads a file that is no candidate, and the search meets
  a cycle and a symbol that is cached. Every file may become unreadable and readable
  again at any step. `AskMore` happens at most once for a call (`asked`), with
  any package and name; the tables are finite and only grow, so further
  requests reach no new tables. Of the two roots one is in either package. `StackLimit` is
  4, the number of symbols.
* `resolution`: two connected modules, a third that shares a path with the second and
  is connected with none, an external test. Aliases of a type, of a pointer, of an alias
  and of a standard type; chains of up to three fields.
* `compatibility`: types are nested at most twice. An alias of an alias and a cycle of
  two are the longest chains, methods of an interface at most two: one that decides
  and one that is unknown, which is where the order matters. Constants are named by
  their place around the limits of each width, so every limit of `source.go` has a
  constant on each side. Methods may be in another file than their type. Left out
  are the nine forms of calls.
* `method_sets`: three levels are needed for a field that hides a method two levels
  below it and for an ambiguity at the second level. An alias is embedded in the place of
  the type it names, an interface embeds one or two others. Of a type that is unreadable the type, the
  method or both are. Left out are the forms `embedded alias` and `embedded interface`, where
  something competes with what is embedded (where nothing does they are in), and `unread method`.
* `scopes`: five nodes are enough for declare, open, declare again, close, call, and for
  a statement of three names and a call. Left out are the five forms of bodies.
* `token_index`: three declarations let one leave the machine in a state that the
  next two would show.
* `imports`: one package per module, at its root, and replacements of one path. Three modules
  let two compete for a path.
* `display`: names collide in pairs, and a third name must not make two of them
  apart or alike; `MaxTypes` is 3 for that reason. One type's name begins with
  another's.

### Fairness and deadlock

`Traversal`, `Analysis`, `MethodSets` and `Compatibility` assume weak fairness of the
program's own steps. The code is one goroutine that waits for nothing but the file
system, so an enabled step is taken; neither the cancellation nor a file's becoming
unreadable or readable has fairness. The other specifications have safety properties
only and state no fairness. All of them stop for good when the program has its result
or an error, hence `CHECK_DEADLOCK FALSE`.

## What is proved

`Traversal_proofs`, for every finite set of call sites, root, depth limit and policy;
the assumptions are those of `CallGraph` (`Rank` maps symbols to numbers, a request
has a finite set of call sites over `Symbols`):

* `TypeCorrect`, `AncestorsTheorem`, `EdgesTheorem`, `VisitTheorem`: the four
  invariants of the run;
* `Implementation`: `Spec => ImplementsCallerPaths`.

The promise does not follow from the tree alone: when `visit` returns from the root,
the tree must be closed, and what makes it so is spread over the stack. The inductive
invariant is `TypeOK`, `StackInv` and `ResultInv`. `StackInv` says that frame `i` has depth and
path length `i - 1`, that it is at the end of its path, and that `ancestors` is the
names of the frames, which are distinct. `ResultInv` says that visits were started
only where the tree may be extended, that each call site of an entered frame's symbol
is in the tree or still pending, that a node without a frame has all its callers, and
that cached callers are complete. The step from the abstract to the detailed
specification is then one lemma per action (`StepImplements`): `AddLeaf` and `Descend`
report, `Return` from the root publishes, all others stutter or give up. The lists are
a separate, smaller invariant (`EdgesInv`).

`Analysis_proofs`, about `LazyLoading`, for every workspace that satisfies
`DataAssumption` and `IndexAssumption`, with any number of unreadable files:

* `TypeCorrect`, `TablesTheorem`, `DefinitionsTheorem`, `SnapshotTheorem`: the
  properties of the engine, which the run `analysis` checks;
* `CallersTheorem`: `CallersAreComplete`, assuming `UniqueFunctionIDs`. The
  assumption is needed: `init_functions` is the counterexample without it.

`DefinitionsAreKnown` is inductive only together with what a request in progress still
owes (`RequestInv`) and with the fact that a completed search loaded every file that
the index lists for it (`SearchedInv`). `CallersAreComplete` rests on
`SnapshotSuffices` and on the snapshot holding declared functions only
(`SnapshotIsDeclared`): a function that is loaded after the snapshot does not
contain the name of the target among its identifiers, since the candidates are all loaded.

`Analysis_proofs`, about `Analysis`, for every workspace that also satisfies `SitesAssumption` (the
calls of the functions are the given call sites) and every request:

* `AnalysisTypeCorrect` and `WaitTheorem`: the invariants `AnalysisTypeOK` and
  `SearchWaits`;
* `AnalysisImplementsSearch`: under `UniqueFunctionIDs`, every step of the analysis is a
  step of `Traversal` or a stutter, that is the safety part of `ImplementsSearch`.

A step of the composition is a step of `LazyLoading` or leaves its variables alone, so
its invariants carry over. What is new is that the calls found so far and those
still to be resolved are together the calls of the snapshot with that name; when nothing is left
to resolve, `SnapshotSuffices` makes `found` all the call sites of the target, and
`CallersForReturns` is `VisitCallers`. The refinements `Analysis` to `Traversal` and
`Traversal` to `CallerPaths` are two theorems; that they compose is read off their
statements, since a theorem about `Traversal` cannot be cited here through its instance.

`Display_proofs`, for every workspace that satisfies `DiscoveryAssumption`:

* `PackagesTheorem`: the identity of a package is its path, directory, module and
  kind, and its directory determines its module;
* `NamesTheorem` and `MessagesTheorem`: the invariants `NamesAreKept` and
  `MessagesNameTypes`.

A label adds the directory and the kind where two symbols look alike. That this
is enough, although identities contain the module too, is where `PackagesTheorem` is
needed; the rest is that a label depends on the symbols of the result alone, which no
conversion changes, and that a second conversion of a message finds no identity left.

`PackagesTheorem` there is about identities alone; `IdentityTheorem` is the invariant
`PackagesAsGo`. Its invariant says what the walk has taken from which file
(`WalkInv`) and which identity the sources that are placed have (`PlacedInv`). The code
compares a source with the last regular file of its directory only; that is enough
since the regular files of a directory agree on the package clause.

`Resolution_proofs`, for every workspace that satisfies `ResolutionAssumption`, `WordsAssumption`
(words such as `byte` have no package in them) and `CallsAssumption` (a call by cgo or of
a function value has no receiver), with any files loaded before, any unreadable, and the
installation coming and going:

* `TypeTheorem`: `TypeOK`;
* `RootTheorem`: `RootIsUnique`, whatever other searches had loaded;
* `ExternalsTheorem`: `ExternalsAreStable`;
* `EdgesTheorem` and `CallersTheorem`: `EdgesAreCalls` and `CallersAreFound`, assuming
  `ValidProgram`.

`ValidProgram` has four parts, and the run `resolution` checks that its workspace is
valid. Chains of aliases end, names are written as the source model writes them, and
only a type or a pointer to one has a selector: a compiler refuses the other programs, on
which `canonicalAliasReceiver` and `resolveType` still end. The fourth, that an alias has neither
fields nor methods of its own, leaves out aliases of type literals and methods that are
declared with an alias as receiver type, whose identity is then that of the alias (below).

The method search of a type goes from alias to alias; that it ends is because the
types seen grow (`LoopsEnd`), and what it finds and loads is shown backwards from its
end (`LoopInduction`). `RootIsUnique` needs that the files loaded are those in which a
declaration may be, which makes a candidate that is meant exist and one that exists
the name of what is declared. For `ExternalsAreStable` the inductive invariant keeps for each edge to an
external symbol the cache entry that it came from (`ExternalInv`): an entry is
never changed, so two calls of one symbol cannot come from different answers.

For the last two theorems the code has to be related to the reference. The code
follows aliases and fields one at a time, as far as files are loaded; the reference expands a
name at once from all declarations. Both meet in `BaseType`, the type of which a receiver has the
fields and methods:

1. Expanding an alias does not change it (`IdentityOfAlias`). The expansion has a budget of the number of
   types, and the rank that a valid program gives its aliases declines with each
   expansion, so that the budget is never used up (`EnoughIsLeft`).
2. What `method` finds is declared under `BaseType` (`MethodIsDeclared`); when it finds
   nothing, nothing is declared there, and the aliases on the way are loaded (`Closed`,
   `NoMethodIsDeclared`).
3. Where `canonicalAliasReceiver` ends at a type without an alias, that is `BaseType`
   (`CanonicalIsBase`), and with the aliases loaded it gets there (`BaseIsCanonical`).

The inductive invariant is `CallInv`. From the stage `calls` on, every file is loaded that
declares the name of the target (`CandidatesInv`). A target that is not the root is declared, or is the name of an
alias of a type that has the method (`TargetInv`). After some of the fields the receiver
has the `BaseType` that the reference gives it (`FieldsInv`), and each
type in `seen` was either passed by an earlier field or is an alias on the way from
the last one, whose rank is above that of the receiver: so a type that is met again has
been passed by an earlier field, which is what `Revisits` excludes. What reaches the stage
`packages` has its callee in the standard library or nowhere
(`PackagesInv`). A call that has to be found has its edge, is still to be resolved, or is
being resolved (`CallersInv`). `CallInv` was checked with TLC on the workspace of `resolution` before
it was proved.

`Scopes_proofs`, for bodies of any length over any names:

* `HidesTheorem`: `HidesAsGo`, without the forms `own name` and `unpacked name`, of which it
  is false; parallel values, assignments in inner blocks and hidden functions are included;
* `ValuesTheorem`: `ValuesAsGiven`, without any of the five forms, for statements with
  any number of names.

The invariant (`WalkInv`) says that the current scope is Go's after the last
node (`ScopeAt`), and that each scope to return to is Go's at the node before the one
that opened it (`StackAt`). The reference counts from the whole body; that a node leaves
what is before it alone (`AgreeingPlaces`, `AgreeingValues`) and what each kind of node
adds (`StatementNode`, `RangeNode`, `OpenNode`) make the steps. Two of them need the forms to be
left out. The code restores functions at the end of a block where Go keeps what was given: without
an assignment to the outside the two are one (`Stays`, `ClosedView`). The code looks up the values of a
statement one after the other where Go looks them up before it (`JoinsBefore`): what the names
on the left change is no value further to the right (`StretchValues`). The values that
`ValueOf` goes through are given earlier and earlier, so it is a loop that ends.

`TokenIndex_proofs`, for files of any length and number that satisfy `TokenAssumption`:

* `ScanTheorem`: the invariant of the scan;
* `DeclarationsTheorem`, `PackagesTheorem`: `DeclarationsAreIndexed`, which is what
  `LazyLoading` assumes of the index, and `PackagesAreListed`.

Between the keyword of a group and a type that the group declares, the scan is in the group,
its depth is the number of parentheses that are open, and it waits for a name exactly
where one may be declared (`InGroup`); no token on the way can end the group. The packages of a path are
listed by the first file of each, which is why their order is that of the files.

`Imports_proofs`, for every workspace that satisfies `ImportsAssumption`:

* `LoopsTheorem`: the invariant of the loops;
* `SelectionTheorem`, `SeriesTheorem`, `ReplacementTheorem`: `SelectionIsUnique`,
  `KnownSeriesConnects`, `ExactReplacementWins`.

The loop over the packages of a path keeps one candidate and how many are as near
(`IsNearest`); that the one left at the end is the only nearest, and not the nearest of those
read last, is what `SelectionIsUnique` says of the reading order.

The library's induction theorems cannot be used here, as they take an operator. What stands for
them is in `Indices`: a set of numbers has a least one (`LeastElement`), so a
least counterexample is one whose predecessors are none. From it follow the ends of
sets of indices and the two lemmas about loops, which say what a recursive function of one
argument computes if its argument gets smaller.

Only model-checked:

* liveness (`Termination`, `SearchTerminates`, the fairness in `ImplementsSearch`), which is
  out of the prover's reach;
* `MethodSets`: `method` and the reference recurse over embedded fields with several
  arguments and are `RECURSIVE`, which the prover does not support;
* `Compatibility`: its verdicts are compared with rules of the language, over constants and
  nested types; what they say of every pair of types has not been attempted. The
  functions of `Assignability` and `TypeNames` that go through nested types with two arguments
  would first have to become loops over one, as `Identity` is.

## Where the code differs from Go

The verdicts of the code are compared with Go's rules. Where they differ, the models of
`MethodSets`, `Compatibility` and `Scopes` can express it, and the reference says what Go
does; a form of programs, of calls or of bodies names the difference, and the constant
`Forms` says which of them are considered. With `Forms = {}` the passing runs leave all of them
out: **their properties hold of the other programs and are false of these.** With one form in
`Forms`, TLC finds a counterexample to the property in the table at once (for
`own name` and `literal return` the project has the run).

| Form | Module and property | What the code does |
|---|---|---|
| `embedded alias` | `MethodSets`, `AnswersAsGo` | an embedded alias is looked up one level deeper than its neighbours: with `type Y = A`, T embedding Y and B, and M in both A and B, B's M is found, where Go finds the selector ambiguous (`compatibility.go` 419) |
| `embedded interface` | `MethodSets`, `AnswersAsGo` | so is what an embedded interface embeds; an interface that gets M from two others counts as ambiguous, and a call that needs it as `incompatible` (444) |
| `unread method` | `MethodSets`, `UnreadableIsUnknown`; `Compatibility`, `IncompatibleIsCertain` | a method of a known type, in a file that cannot be read, counts as not declared (402) |
| `several results` | `Compatibility`, `IncompatibleIsCertain` | `f(g())` is one argument, whatever `g` returns (72) |
| `opaque name` | `Compatibility`, `IncompatibleIsCertain` | with `type Z I` over an interface, a Z has no methods and is no I (440); a pointer to an alias is no pointer to the type, and a defined pointer type not its own literal (275) |
| `alias in methods` | `Compatibility`, `IncompatibleIsCertain` | parameters of methods are compared as written, with aliases (229, 237) |
| `literal return` | `Compatibility`, `IncompatibleIsCertain` | see `false_mismatch` |
| `pointer to interface` | `Compatibility`, `CompatibleIsCertain` | a pointer to an interface has its methods (380) |
| `complex range` | `Compatibility`, `CompatibleIsCertain` | every number fits a `complex64` (547) |
| `hidden target` | `Compatibility`, `CompatibleIsCertain` | a result whose target has no known type is skipped, and the call is `compatible` (109) |
| `channel elsewhere` | `Compatibility`, `UnloadedIsNotUnknown` | `type V C` over a channel type in a file that is not loaded is `unknown` (307) |
| `own name` | `Scopes`, `HidesAsGo` | see `own_initializer` |
| `unpacked name` | `Scopes`, `HidesAsGo` | `_, y := f(); y()`: y is not declared and is taken for the function y of the package (`source.go` 533) |
| `hidden function` | `Scopes`, `ValuesAsGiven` | `for y := range`, with a variable y outside that holds a function: `y()` is that function (`source.go` 549) |
| `parallel` | `Scopes`, `ValuesAsGiven` | `x, y := 0, x; y()`: the value of y is looked up when x has lost its function (`source.go` 528) |
| `inner assignment` | `Scopes`, `ValuesAsGiven` | `{ y = other }; y()`: behind the block y has its old function again (`source.go` 487) |

Most of them disagree with `docs/spec.md`: line 32 calls `incompatible` a clear mismatch
with the present definition, line 33 has `unknown` for missing information, and line 35 says that
what is not loaded yet is told apart from `unknown`, that nothing is called incompatible for
want of types, that the range of constants and the method sets of values, of pointers and of
embedding types are checked, that function values are resolved, and that a variable hides its
name in its scope. Line 35 also says that the check is no complete type checker, but of what
cannot be decided it says that it is `unknown`; in the forms about `incompatible` the verdict is
definite. The mildest are `hidden target`, since line 31 defines `compatible` as what holds "as
far as it was checked", and `inner assignment`, since line 35 lists the possible values of dynamic
function values among what is not done.

The following were met as well; a property excludes them, or the records of
the models cannot express them, so that no run says anything about them. Some give
a definite verdict that line 32 would not allow (*).

Resolution:

* a method promoted through, or an alias to, a type outside the workspace becomes a
  missing symbol with an identity of the workspace (*);
* an alias or a promoted method is accepted as a target (`p.A#M`) but finds no callers,
  since calls are recorded under the declaring type; a method that is declared with an alias as
  receiver type gets the alias's identity;
* a chain of fields that goes through one type twice is given up as unknown
  (`engine.go` 472); the first loop over packages in `resolve` decides nothing that
  the second one would not;
* `method` adds up what it finds over all embedded fields, so that a shallow method and
  a deeper one of another field give none (`engine.go` 410).

Compatibility:

* `var a, b = f(), g()` is not checked; `x <<= f()` is checked like `x = f()` (*);
  `x, err := g()` takes variables of outer scopes for assigned ones (*);
* the range of `^0` is not checked;
* with an unknown method and a missing one, the order of a map decides between
  `unknown` and `incompatible` (`compatibility.go` 212); both are right;
* a nil argument has no type, so that line 155 is never reached.

Body analysis and discovery:

* the parameters of a function literal and the types declared in a body do not hide names (*);
* the text is walked once: what a loop gives in one round is not seen by the next one, and
  of the branches of a statement each counts as taken;
* of two modules with the path of a replacement, the one read last is taken
  (`discovery.go` 272).

Display: two types of one public name that the engine never loaded read alike in a
message, such as `[3]T` and `[]T` of two copies of a package, which are told apart
without loading either (`compatibility.go` 132-137). `MessagesNameTypes` is about
loaded types and says so.

## What is not modelled

* The translation of syntax into records (`analyzeSource`, `typeOf`, `analyzeType`,
  `arrayLength`, the cgo preamble): mostly layout of data, covered by the
  repository's tests. What the records hold for types of arguments, for returns and for constants is in
  `Compatibility`; expressions of other kinds are taken as types that are known or not.
* The Go installation: only whether a declaration was found reaches the models.
* What go.mod files say (syntax), build tags, cgo and skipped directories: given
  with a workspace.
* Packages below the root of a module in `Imports`; `Discovery` has them.
* Embedded fields in `Compatibility`; `MethodSets` has them, and there the depths.
* The search for a name in the text of a message (`identity.go` 222-243) and the longest-first
  order of names (288): `Display` replaces whole names in messages that are records, which
  decides by definition that a name inside another one is not touched.
* Output and the command line: layout of a finished result.
* Several workspaces or analyses at a time: the code has one engine per call.

## Plan

Modelled first: the search and its promise, the lazy engine it rests on, the
reimplementations of Go's rules that decide which calls are found, and the
tables that discovery leaves behind; then resolution, compatibility, the composition and the
names in the result. To do, in this order:

1. The loop of `interfaceMethod` as one about levels, and a proof of
   `UnreadableIsUnknown`; `IncompatibleIsCertain` for types without aliases.
2. `arrayLength` and the constants of `source.go` 251, with the overflow of 64 bits.
