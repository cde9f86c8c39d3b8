----------------------------- MODULE TokenIndex -----------------------------
(***************************************************************************)
(* NewLocator (discovery.go): the index that every lazy search rests on is *)
(* built from the tokens of the files, without a syntax tree.  One action  *)
(* per token and per end of a file.  A file comes with its tokens, the     *)
(* functions, methods and types it declares and the names it calls, as the *)
(* parser will find them later.  The definitions marked as mutants are     *)
(* wrong on purpose.                                                       *)
(***************************************************************************)
EXTENDS Integers, Sequences, FiniteSets, FiniteSetsExt, SequencesExt

CONSTANTS
    Names,          \* identifiers
    Packages,       \* package identities
    Paths,          \* public import paths
    Workspaces      \* the sequences of files that are considered

Keywords == {"func", "type", "var", "const"}
Tokens == Names \cup Keywords \cup {"(", ")", ";", "other"}

Source == [package : Packages, path : Paths, externalTest : BOOLEAN,
           tokens : Seq(Tokens), declares : SUBSET Names, calls : SUBSET Names]

-----------------------------------------------------------------------------
(* Where the grammar of Go puts the names that a file declares. *)

\* How many parentheses of the tokens from a to b are open.
OpenIn(toks, a, b) ==
    Cardinality({k \in a..b : toks[k] = "("}) - Cardinality({k \in a..b : toks[k] = ")"})

\* The parenthesis that opens at a closes at b.
Closes(toks, a, b) ==
    /\ toks[a] = "("
    /\ OpenIn(toks, a, b) = 0
    /\ \A k \in a..(b - 1) : OpenIn(toks, a, k) # 0

\* Token i is the name of the function or method whose keyword is token f.
NamesFunction(toks, f, i) ==
    /\ toks[f] = "func"
    /\ i = f + 1 \/ Closes(toks, f + 1, i - 1)

\* Token i is the name of the type that is declared alone, behind the keyword.
NamesType(toks, t, i) == toks[t] = "type" /\ i = t + 1

\* Token i is the name of a type in the group of the keyword g: the first one of the
\* group or behind a semicolon, and in no other parentheses.  No group of
\* declarations lies inside (only a function literal in the length of an array could
\* have one).
NamesTypeInGroup(toks, g, i) ==
    /\ toks[g] = "type"
    /\ toks[g + 1] = "("
    /\ i > g + 1
    /\ i = g + 2 \/ toks[i - 1] = ";"
    /\ OpenIn(toks, g + 1, i - 1) = 1
    /\ \A k \in (g + 1)..(i - 1) :
        /\ OpenIn(toks, g + 1, k) > 0
        /\ ~(toks[k] \in {"type", "var", "const"} /\ toks[k + 1] = "(")

IsDeclarator(toks, k, i) ==
    \/ NamesFunction(toks, k, i)
    \/ NamesType(toks, k, i)
    \/ NamesTypeInGroup(toks, k, i)

\* What a parser finds is in the file, at a place for it, and files of one package
\* have one path and are of one kind (discoverSources).
ASSUME TokenAssumption ==
    /\ Names \cap (Keywords \cup {"(", ")", ";", "other", "none"}) = {}
    /\ \A w \in Workspaces :
        /\ w \in Seq(Source)
        /\ \A k \in 1..Len(w) :
            /\ \A n \in w[k].declares : \E i \in 1..Len(w[k].tokens) :
                /\ w[k].tokens[i] = n
                /\ \E f \in 1..(i - 1) : IsDeclarator(w[k].tokens, f, i)
            /\ \A n \in w[k].calls : \E i \in 1..Len(w[k].tokens) : w[k].tokens[i] = n
            /\ \A j \in 1..Len(w) : w[j].package = w[k].package =>
                w[j].path = w[k].path /\ w[j].externalTest = w[k].externalTest

VARIABLES
    sources,        \* Workspace.Sources
    current,        \* the number of the file that is scanned
    at,             \* the number of its next token
    definitions,    \* the definitions of the file so far
    calls,          \* its identifiers so far
    group,          \* "none" or the keyword of a group in parentheses
    groupDepth,
    groupStart,     \* the next identifier of the group is a definition
    index,          \* [definitions, packageIDs, callers] of the locator
    outcome         \* "running", "done" or "failed"

vars == <<sources, current, at, definitions, calls, group, groupDepth,
          groupStart, index, outcome>>

Init ==
    /\ sources \in Workspaces
    /\ current = 1
    /\ at = 1
    /\ definitions = {}
    /\ calls = {}
    /\ group = "none"
    /\ groupDepth = 0
    /\ groupStart = FALSE
    /\ index = [definitions |-> {}, callers |-> {},
                packageIDs |-> [p \in Paths |-> <<>>]]
    /\ outcome = "running"

-----------------------------------------------------------------------------

\* The tokens of the file, comments left out.
tokens == sources[current].tokens

IsIdent(i) == i <= Len(tokens) /\ tokens[i] \in Names

Scanning == outcome = "running" /\ current <= Len(sources)

\* Mutant of GroupStep: a parenthesis inside a group ends it.
GroupStepFlat ==
    LET tok == tokens[at]
        state == [group |-> group, depth |-> groupDepth, start |-> groupStart, found |-> {}]
    IN  IF group = "none" THEN state
        ELSE IF tok = "(" THEN [state EXCEPT !.depth = 1]
        ELSE IF tok = ")" THEN [state EXCEPT !.depth = 0, !.group = "none"]
        ELSE IF groupDepth = 1 /\ tok = ";" THEN [state EXCEPT !.start = TRUE]
        ELSE IF groupDepth = 1 /\ groupStart /\ tok \in Names
        THEN [state EXCEPT !.start = FALSE, !.found = {tok}]
        ELSE state

\* What a token means inside a group: the state of the group after it, and the
\* definition found.
GroupStep ==
    LET tok == tokens[at]
        state == [group |-> group, depth |-> groupDepth, start |-> groupStart, found |-> {}]
    IN  IF group = "none" THEN state
        ELSE IF tok = "(" THEN [state EXCEPT !.depth = @ + 1]
        ELSE IF tok = ")"
        THEN [state EXCEPT !.depth = @ - 1,
                           !.group = IF groupDepth = 1 THEN "none" ELSE group]
        ELSE IF groupDepth = 1 /\ tok = ";" THEN [state EXCEPT !.start = TRUE]
        ELSE IF groupDepth = 1 /\ groupStart /\ tok \in Names
        THEN [state EXCEPT !.start = FALSE, !.found = {tok}]
        ELSE state

\* The position after the parentheses that open at i, or after the last token.
AfterParens(i) ==
    LET ends == {j \in i..Len(tokens) : OpenIn(tokens, i, j) = 0}
    IN  IF ends = {} THEN Len(tokens) + 1 ELSE Min(ends) + 1

\* The name of a function or method, from its keyword at `at'.
FunctionName ==
    LET j == IF at < Len(tokens) /\ tokens[at + 1] = "(" THEN AfterParens(at + 1)
             ELSE at + 1
    IN  IF tokens[at] = "func" /\ IsIdent(j) THEN {tokens[j]} ELSE {}

StartsSpec == tokens[at] \in {"type", "var", "const"} /\ at < Len(tokens)

\* The name of a declaration without a group.
SpecName == IF StartsSpec /\ IsIdent(at + 1) THEN {tokens[at + 1]} ELSE {}

StartsGroup == StartsSpec /\ tokens[at + 1] = "("

\* One turn of the loop over the tokens.
ScanToken ==
    /\ Scanning
    /\ at <= Len(tokens)
    /\ definitions' = definitions \cup GroupStep.found \cup FunctionName \cup SpecName
    /\ group' = IF StartsGroup THEN tokens[at] ELSE GroupStep.group
    /\ groupDepth' = IF StartsGroup THEN 0 ELSE GroupStep.depth
    /\ groupStart' = (StartsGroup \/ GroupStep.start)
    /\ calls' = calls \cup ({tokens[at]} \cap Names)
    /\ at' = at + 1
    /\ UNCHANGED <<sources, current, index, outcome>>

\* Mutant of Listed: every file lists its package.
ListedAgain(source) ==
    IF source.externalTest THEN index.packageIDs
    ELSE [index.packageIDs EXCEPT ![source.path] = Append(@, source.package)]

\* packageIDs after a file: only the first file of a package may add to it, and
\* not one of an external test.
Listed(source) ==
    IF source.externalTest \/ \E d \in index.definitions : d.package = source.package
    THEN index.packageIDs
    ELSE [index.packageIDs EXCEPT ![source.path] = Append(@, source.package)]

\* The file enters the index, and the state of the scan is that of a new file.
\* An entry without a name stands for the map that a package's first file makes.
FinishFile ==
    /\ Scanning
    /\ at > Len(tokens)
    /\ LET source == sources[current]
       IN  index' =
            [definitions |-> index.definitions \cup
                {[package |-> source.package, name |-> n, source |-> current] :
                    n \in definitions \cup {"none"}},
             packageIDs |-> Listed(source),
             callers |-> index.callers \cup
                {[name |-> n, source |-> current] : n \in calls}]
    /\ current' = current + 1
    /\ at' = 1
    /\ definitions' = {}
    /\ calls' = {}
    /\ group' = "none"
    /\ groupDepth' = 0
    /\ groupStart' = FALSE
    /\ UNCHANGED <<sources, outcome>>

\* os.ReadFile fails: there is no index.
ReadFails ==
    /\ Scanning
    /\ at = 1
    /\ outcome' = "failed"
    /\ UNCHANGED <<sources, current, at, definitions, calls, group, groupDepth,
                   groupStart, index>>

ReturnIndex ==
    /\ outcome = "running"
    /\ current > Len(sources)
    /\ outcome' = "done"
    /\ UNCHANGED <<sources, current, at, definitions, calls, group, groupDepth,
                   groupStart, index>>

Next == ScanToken \/ FinishFile \/ ReadFails \/ ReturnIndex

Spec == Init /\ [][Next]_vars

-----------------------------------------------------------------------------
(***************************************************************************)
(* Properties.                                                             *)
(***************************************************************************)

\* Every function, method and package-level type that the parser will find in a
\* file is a definition of that file in the index, and every called name is one
\* of its identifiers, whatever groups, receivers, literals and local
\* declarations surround them: IndexAssumption of LazyLoading.
DeclarationsAreIndexed ==
    outcome = "done" =>
        \A k \in 1..Len(sources) :
            /\ \A n \in sources[k].declares :
                [package |-> sources[k].package, name |-> n, source |-> k]
                    \in index.definitions
            /\ \A n \in sources[k].calls :
                [name |-> n, source |-> k] \in index.callers

\* The packages of a path are listed once each, in the order of their first
\* files, without the external tests: the order in which definitions loads them.
PackagesAreListed ==
    outcome = "done" =>
        \A p \in Paths :
            LET ids == index.packageIDs[p]
                First(id) == Min({k \in 1..Len(sources) : sources[k].package = id})
            IN  /\ ToSet(ids) = {sources[k].package : k \in
                        {k \in 1..Len(sources) :
                            sources[k].path = p /\ ~sources[k].externalTest}}
                /\ \A i, j \in 1..Len(ids) : i < j => First(ids[i]) < First(ids[j])

=============================================================================
