---------------------------- MODULE LazyLoading ----------------------------
(***************************************************************************)
(* The lazy part of engine.go: which files are parsed, when a definition   *)
(* search counts as complete, and how callersFor collects and caches the   *)
(* callers of a symbol.  One action per file, per package and per step of  *)
(* callersFor.  What resolving one call asks for is left open: any request *)
(* for definitions may come (resolve and method report its error,          *)
(* resolveType and compatibility ignore it).  A file may be unreadable or  *)
(* malformed for a while, and the context may be cancelled.  The           *)
(* definitions marked as mutants are wrong on purpose: each breaks a       *)
(* property.                                                               *)
(***************************************************************************)
EXTENDS Integers, FiniteSets, Sequences

CONSTANTS
    Files,              \* Workspace.Sources
    Position,           \* the index of a file in Workspace.Sources
    Packages,           \* package identities
    Paths,              \* public import paths
    Names,              \* identifiers
    Symbols,            \* IDs of functions, methods and types
    PackageOf,          \* the package of a file
    PathOf,             \* the public path of a package
    ExternalTests,      \* the packages of external tests
    NameOf,             \* the identifier a symbol is declared and called by
    HomeOf,             \* the package of a symbol
    FunctionsOf,        \* the functions a file declares, in order
    TypesOf,            \* the types a file declares
    DefinitionTokens,   \* the names NewLocator takes for definitions of a file
    Identifiers         \* the identifiers among the tokens of a file

\* A function with the symbols that its calls refer to.
Function == [id : Symbols, calls : SUBSET Symbols]

ASSUME DataAssumption ==
    /\ Position \in [Files -> Nat]
    /\ \A f, g \in Files : Position[f] = Position[g] => f = g
    /\ PackageOf \in [Files -> Packages]
    /\ PathOf \in [Packages -> Paths]
    /\ ExternalTests \subseteq Packages
    /\ NameOf \in [Symbols -> Names]
    /\ HomeOf \in [Symbols -> Packages]
    /\ FunctionsOf \in [Files -> Seq(Function)]
    /\ TypesOf \in [Files -> SUBSET Symbols]
    /\ DefinitionTokens \in [Files -> SUBSET Names]
    /\ Identifiers \in [Files -> SUBSET Names]
    /\ Packages \cap Paths = {}
    /\ Symbols # {} /\ Names # {}

\* The functions of a file, as a set.
DeclaredIn(f) == {FunctionsOf[f][i] : i \in 1..Len(FunctionsOf[f])}

\* What the token scan of NewLocator gives: declarations are definition tokens,
\* definition tokens and called names are identifiers, and a symbol is
\* declared in a file of its package.
ASSUME IndexAssumption ==
    \A f \in Files :
        /\ \A fn \in DeclaredIn(f) :
            /\ NameOf[fn.id] \in DefinitionTokens[f]
            /\ HomeOf[fn.id] = PackageOf[f]
            /\ \A s \in fn.calls : NameOf[s] \in Identifiers[f]
        /\ \A t \in TypesOf[f] : /\ NameOf[t] \in DefinitionTokens[f]
                                 /\ HomeOf[t] = PackageOf[f]
        /\ DefinitionTokens[f] \subseteq Identifiers[f]

VARIABLES
    models,             \* the files with a complete model
    functions,          \* engine.functions: a function on the known IDs
    types,              \* the IDs in engine.types
    definitionCache,    \* the pairs <<package or path, name>> searched to the end
    callerCache,        \* the callers of a symbol: a function on the cached IDs
    phase,              \* of callersFor: "idle", "candidates" or "resolving"
    target,             \* the symbol of the current or last callersFor
    snapshot,           \* the functions callerCandidates returned
    request,            \* the search for files in progress
    unreadable,         \* the files that parsing would fail on now
    cancelled,          \* ctx.Err() # nil
    outcome             \* "running" or "failed"

vars == <<models, functions, types, definitionCache, callerCache, phase,
          target, snapshot, request, unreadable, cancelled, outcome>>

tables == <<models, functions, types>>
environment == <<unreadable, cancelled>>

-----------------------------------------------------------------------------
(* The locator. *)

\* indexedLocator.definitionsInPackage
DefinitionFiles(p, name) ==
    {f \in Files : PackageOf[f] = p /\ name \in DefinitionTokens[f]}

\* indexedLocator.definitionPackageIDs: the packages of a path that have files,
\* external tests excluded.
PackageIDs(path) ==
    {PackageOf[f] : f \in {g \in Files : PathOf[PackageOf[g]] = path}}
        \ ExternalTests

\* Mutant of CallerFiles: only the files that declare the name.
CallerFilesDeclaring(name) == {f \in Files : name \in DefinitionTokens[f]}

\* indexedLocator.Callers
CallerFiles(name) == {f \in Files : name \in Identifiers[f]}

\* The packages that definitions searches for a reference, which is a package
\* identity or a public path.  A path without a package is searched, and
\* cached, under its own name; the locator then finds no file.
UnitsOf(ref) ==
    IF ref \in Packages THEN {ref}
    ELSE IF PackageIDs(ref) = {} THEN {ref} ELSE PackageIDs(ref)

-----------------------------------------------------------------------------

NoUnit == <<>>

Idle == [kind |-> "none", name |-> CHOOSE n \in Names : TRUE, units |-> {}, unit |-> NoUnit,
         pending |-> {}, tolerant |-> FALSE]

Definitions(ref, name, tolerant) ==
    [kind |-> "definitions", name |-> name, units |-> UnitsOf(ref),
     unit |-> NoUnit, pending |-> {}, tolerant |-> tolerant]

Candidates(name) ==
    [kind |-> "candidates", name |-> name, units |-> {}, unit |-> NoUnit,
     pending |-> CallerFiles(name), tolerant |-> FALSE]

Init ==
    /\ models = {}
    /\ functions = [id \in {} |-> <<>>]
    /\ types = {}
    /\ definitionCache = {}
    /\ callerCache = [id \in {} |-> {}]
    /\ phase = "idle"
    /\ target = CHOOSE s \in Symbols : TRUE
    /\ snapshot = {}
    /\ request = Idle
    /\ unreadable \in SUBSET Files
    /\ cancelled = FALSE
    /\ outcome = "running"

Running == outcome = "running"

\* A call of definitions, by targetSymbol before the first search or by the
\* resolution of a call during one.  Only the latter ignores errors in places.
AskDefinitions ==
    /\ Running
    /\ request = Idle
    /\ phase = "resolving" \/ (phase = "idle" /\ DOMAIN callerCache = {})
    /\ \E ref \in Packages \cup Paths, name \in Names, tolerant \in BOOLEAN :
        /\ tolerant => phase = "resolving"
        /\ request' = Definitions(ref, name, tolerant)
    /\ UNCHANGED <<tables, definitionCache, callerCache, phase, target,
                   snapshot, environment, outcome>>

\* The next package of the request, in the order of the first files.
FirstUnit(u) ==
    /\ u \in request.units
    /\ \A v \in request.units \ {u} :
        \E f \in Files : /\ PackageOf[f] = u
                         /\ \A g \in Files : PackageOf[g] = v =>
                                                Position[f] <= Position[g]

\* `if e.definitionCache[key] { return nil }' of loadDefinitions
UnitIsCached ==
    /\ Running
    /\ request.kind = "definitions" /\ request.unit = NoUnit
    /\ \E u \in request.units :
        /\ FirstUnit(u)
        /\ <<u, request.name>> \in definitionCache
        /\ request' = [request EXCEPT !.units = @ \ {u}]
    /\ UNCHANGED <<tables, definitionCache, callerCache, phase, target,
                   snapshot, environment, outcome>>

\* loadDefinitions looks the files of one package up.
StartUnit ==
    /\ Running
    /\ request.kind = "definitions" /\ request.unit = NoUnit
    /\ \E u \in request.units :
        /\ FirstUnit(u)
        /\ <<u, request.name>> \notin definitionCache
        /\ request' = [request EXCEPT !.units = @ \ {u}, !.unit = <<u>>,
                            !.pending = DefinitionFiles(u, request.name)]
    /\ UNCHANGED <<tables, definitionCache, callerCache, phase, target,
                   snapshot, environment, outcome>>

\* All files of the package are loaded: its search is complete.
FinishUnit ==
    /\ Running
    /\ request.unit # NoUnit
    /\ request.pending = {}
    /\ definitionCache' = definitionCache \cup {<<request.unit[1], request.name>>}
    /\ request' = [request EXCEPT !.unit = NoUnit]
    /\ UNCHANGED <<tables, callerCache, phase, target, snapshot, environment,
                   outcome>>

\* definitions returns.
AnswerDefinitions ==
    /\ Running
    /\ request.kind = "definitions" /\ request.unit = NoUnit
    /\ request.units = {}
    /\ request' = Idle
    /\ UNCHANGED <<tables, definitionCache, callerCache, phase, target,
                   snapshot, environment, outcome>>

-----------------------------------------------------------------------------
(* load *)

\* The next file of the request.
FirstPending(f) ==
    /\ f \in request.pending
    /\ \A g \in request.pending : Position[f] <= Position[g]

\* `if _, ok := e.models[s.Path]; ok { return nil }'
LoadIsCached ==
    /\ Running
    /\ \E f \in request.pending :
        /\ FirstPending(f)
        /\ f \in models
        /\ request' = [request EXCEPT !.pending = @ \ {f}]
    /\ UNCHANGED <<tables, definitionCache, callerCache, phase, target,
                   snapshot, environment, outcome>>

\* The entry that the functions of file f leave under an ID: the last one.
LastDeclared(f, id) ==
    LET at == {i \in 1..Len(FunctionsOf[f]) : FunctionsOf[f][i].id = id}
    IN  FunctionsOf[f][CHOOSE i \in at : \A j \in at : j <= i]

\* Mutant of WithFunctionsOf: the entries are stored under their bare names.
WithNamesOf(f) ==
    LET new == {NameOf[fn.id] : fn \in DeclaredIn(f)}
    IN  [n \in DOMAIN functions \cup new |->
            IF n \in new THEN CHOOSE fn \in DeclaredIn(f) : NameOf[fn.id] = n
                         ELSE functions[n]]

WithFunctionsOf(f) ==
    LET new == {fn.id : fn \in DeclaredIn(f)}
    IN  [id \in DOMAIN functions \cup new |->
            IF id \in new THEN LastDeclared(f, id) ELSE functions[id]]

\* A file is parsed and its model enters the tables of the engine.
LoadFile ==
    /\ Running
    /\ ~cancelled
    /\ \E f \in request.pending \ models :
        /\ FirstPending(f)
        /\ f \notin unreadable
        /\ models' = models \cup {f}
        /\ functions' = WithFunctionsOf(f)
        /\ types' = types \cup TypesOf[f]
        /\ request' = [request EXCEPT !.pending = @ \ {f}]
    /\ UNCHANGED <<definitionCache, callerCache, phase, target, snapshot,
                   environment, outcome>>

\* Mutants of LoadFails: the file counts as loaded; the search counts as complete.
LoadFailsMarked ==
    /\ Running
    /\ \E f \in request.pending \ models :
        /\ FirstPending(f)
        /\ cancelled \/ f \in unreadable
        /\ models' = models \cup {f}
    /\ request' = Idle
    /\ outcome' = IF request.tolerant THEN "running" ELSE "failed"
    /\ UNCHANGED <<functions, types, definitionCache, callerCache, phase, target,
                   snapshot, environment>>

LoadFailsCached ==
    /\ Running
    /\ request.unit # NoUnit
    /\ \E f \in request.pending \ models :
        /\ FirstPending(f)
        /\ cancelled \/ f \in unreadable
    /\ definitionCache' = definitionCache \cup {<<request.unit[1], request.name>>}
    /\ request' = Idle
    /\ outcome' = IF request.tolerant THEN "running" ELSE "failed"
    /\ UNCHANGED <<tables, callerCache, phase, target, snapshot, environment>>

\* load returns an error: the request is given up where it is, and unless its
\* caller ignores that, the analysis fails.
LoadFails ==
    /\ Running
    /\ \E f \in request.pending \ models :
        /\ FirstPending(f)
        /\ cancelled \/ f \in unreadable
    /\ request' = Idle
    /\ outcome' = IF request.tolerant THEN "running" ELSE "failed"
    /\ UNCHANGED <<tables, definitionCache, callerCache, phase, target,
                   snapshot, environment>>

-----------------------------------------------------------------------------
(* callersFor *)

AskCallers ==
    /\ Running
    /\ request = Idle
    /\ phase = "idle"
    /\ \E s \in Symbols \ DOMAIN callerCache :
        /\ target' = s
        /\ request' = Candidates(NameOf[s])
    /\ phase' = "candidates"
    /\ UNCHANGED <<tables, definitionCache, callerCache, snapshot, environment,
                   outcome>>

\* Mutant of TakeSnapshot: not all candidates are loaded.
TakeSnapshotEarly ==
    /\ Running
    /\ phase = "candidates"
    /\ snapshot' = {functions[id] : id \in DOMAIN functions}
    /\ phase' = "resolving"
    /\ request' = Idle
    /\ UNCHANGED <<tables, definitionCache, callerCache, target, environment,
                   outcome>>

\* callerCandidates returns the functions known now; those loaded while the
\* calls are resolved are not looked at.
TakeSnapshot ==
    /\ Running
    /\ phase = "candidates"
    /\ request.pending = {}
    /\ snapshot' = {functions[id] : id \in DOMAIN functions}
    /\ phase' = "resolving"
    /\ request' = Idle
    /\ UNCHANGED <<tables, definitionCache, callerCache, target, environment,
                   outcome>>

\* Every call of that name is resolved; the callers are cached.
FinishCallers ==
    /\ Running
    /\ request = Idle
    /\ phase = "resolving"
    /\ callerCache' =
            [id \in DOMAIN callerCache \cup {target} |->
                IF id = target THEN {fn \in snapshot : target \in fn.calls}
                               ELSE callerCache[id]]
    /\ phase' = "idle"
    /\ UNCHANGED <<tables, definitionCache, target, snapshot, request,
                   environment, outcome>>

-----------------------------------------------------------------------------
(* The surroundings: somebody edits a file, or cancels the context. *)

FileChanges ==
    /\ Running
    /\ \E f \in Files : unreadable' = IF f \in unreadable THEN unreadable \ {f}
                                                          ELSE unreadable \cup {f}
    /\ UNCHANGED <<tables, definitionCache, callerCache, phase, target,
                   snapshot, request, cancelled, outcome>>

Cancel ==
    /\ Running
    /\ ~cancelled
    /\ cancelled' = TRUE
    /\ UNCHANGED <<tables, definitionCache, callerCache, phase, target,
                   snapshot, request, unreadable, outcome>>

Next ==
    \/ AskDefinitions \/ UnitIsCached \/ StartUnit \/ FinishUnit
    \/ AnswerDefinitions
    \/ LoadIsCached \/ LoadFile \/ LoadFails
    \/ AskCallers \/ TakeSnapshot \/ FinishCallers
    \/ FileChanges \/ Cancel

Spec == Init /\ [][Next]_vars

-----------------------------------------------------------------------------
(***************************************************************************)
(* Properties.                                                             *)
(***************************************************************************)

TypeOK ==
    /\ models \subseteq Files
    /\ DOMAIN functions \subseteq Symbols
    /\ \A id \in DOMAIN functions : functions[id] \in Function
    /\ types \subseteq Symbols
    /\ definitionCache \subseteq (Packages \cup Paths) \X Names
    /\ DOMAIN callerCache \subseteq Symbols
    /\ \A id \in DOMAIN callerCache : callerCache[id] \subseteq Function
    /\ phase \in {"idle", "candidates", "resolving"}
    /\ target \in Symbols
    /\ snapshot \subseteq Function
    /\ request.kind \in {"none", "definitions", "candidates"}
    /\ request.name \in Names
    /\ request.units \subseteq Packages \cup Paths
    /\ request.unit = NoUnit \/ \E u \in Packages \cup Paths : request.unit = <<u>>
    /\ request.pending \subseteq Files
    /\ request.tolerant \in BOOLEAN
    /\ unreadable \subseteq Files
    /\ cancelled \in BOOLEAN
    /\ outcome \in {"running", "failed"}

\* The tables of the engine are those of the complete models: a file that could
\* not be parsed, or whose request was given up, contributes nothing.
TablesMatchModels ==
    /\ DOMAIN functions = {fn.id : fn \in UNION {DeclaredIn(f) : f \in models}}
    /\ \A id \in DOMAIN functions :
            /\ functions[id].id = id
            /\ \E f \in models : functions[id] \in DeclaredIn(f)
    /\ types = UNION {TypesOf[f] : f \in models}

\* A definition search that counts as complete has found every declaration of
\* that name in the package, however many searches were given up before it:
\* what is still missing is unknown, not merely unloaded.
DefinitionsAreKnown ==
    \A f \in Files :
        /\ \A fn \in DeclaredIn(f) :
            <<PackageOf[f], NameOf[fn.id]>> \in definitionCache =>
                fn.id \in DOMAIN functions
        /\ \A t \in TypesOf[f] :
            <<PackageOf[f], NameOf[t]>> \in definitionCache => t \in types

\* No function that calls the target is missing from the snapshot, although
\* resolving its calls keeps loading files.
SnapshotSuffices ==
    phase = "resolving" =>
        \A id \in DOMAIN functions :
            target \in functions[id].calls => functions[id] \in snapshot

\* No two declarations have the same ID.
UniqueFunctionIDs ==
    \A f, g \in Files :
        \A i \in 1..Len(FunctionsOf[f]), j \in 1..Len(FunctionsOf[g]) :
            FunctionsOf[f][i].id = FunctionsOf[g][j].id => f = g /\ i = j

\* The callers an analysis of every file would find.
AllCallers(s) ==
    {fn \in UNION {DeclaredIn(f) : f \in Files} : s \in fn.calls}

\* The callers that callersFor caches are those of the whole workspace: neither
\* the order of the requests nor the errors on the way lose or add one.
CallersAreComplete ==
    \A s \in DOMAIN callerCache : callerCache[s] = AllCallers(s)

=============================================================================
