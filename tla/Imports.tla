------------------------------ MODULE Imports ------------------------------
(***************************************************************************)
(* What an import path and a module mean to a module of the workspace:     *)
(* the series of a module (assignModuleSeries), the package of a path      *)
(* (importPackage), the paths that a replace gives to other packages       *)
(* (discoverSources), and whether two modules may call each other          *)
(* (sameSeries).  One action per turn of the loops over the modules and    *)
(* over the packages.  Each module has one package, at its root, named by  *)
(* its module.  The definitions marked as mutants are wrong on purpose.    *)
(***************************************************************************)
EXTENDS Integers, Sequences, FiniteSets, FiniteSetsExt

CONSTANTS
    Paths,          \* module paths, which are the import paths too
    Versions,
    Majors,         \* v0, v1, ...
    None,
    MajorOf,        \* the major of a version
    MajorOfPath,    \* modulePathMajor: the major that a path ends in
    Workspaces      \* the lists of modules that are considered

\* A replacement leads to a directory, that of a module of the workspace (of which
\* there are n) or of none of them (0), or to a path with a version.
Replacement(n) ==
    [old : Versions \cup {None}, dir : 0..n, path : {None}, version : {None}]
        \cup [old : Versions \cup {None}, dir : {0}, path : Paths, version : Versions]

Module(n) == [path : Paths, requires : [Paths -> Versions \cup {None}],
              replaces : [Paths -> Seq(Replacement(n))]]

ASSUME ImportsAssumption ==
    /\ None \notin Paths \cup Versions \cup Majors
    /\ MajorOf \in [Versions -> Majors]
    /\ MajorOfPath \in [Paths -> Majors \cup {None}]
    /\ \A w \in Workspaces : w \in Seq(Module(Len(w)))

VARIABLES
    modules,        \* Workspace.Modules, in the order of the directories
    series,         \* Module.Series of the modules so far
    selections,     \* importSelections: the package of a path, or 0 (not decided)
    aliases,        \* importAliases: the package that a replaced path leads to, or 0
    considered,     \* how many packages the loops of the next module have been through
    choices,        \* selected, best and count of the loop for each path
    leads           \* `aliases' of the next module so far

vars == <<modules, series, selections, aliases, considered, choices, leads>>

NoChoice == [selected |-> 0, best |-> 0, count |-> 0]

Init ==
    /\ modules \in Workspaces
    /\ series = <<>>
    /\ selections = <<>>
    /\ aliases = <<>>
    /\ considered = 0
    /\ choices = [p \in Paths |-> NoChoice]
    /\ leads = [p \in Paths |-> 0]

Count == Len(modules)

Requires(c, path) == modules[c].requires[path] # None
Replaces(c, path) == modules[c].replaces[path] # <<>>

-----------------------------------------------------------------------------

\* The replacements of a path that apply to one version, or to all (None).
ReplacementsOf(c, required, old) ==
    {i \in DOMAIN modules[c].replaces[required] : modules[c].replaces[required][i].old = old}

\* Mutant of selectedReplacement: the first replacement that may apply.
FirstReplacement(c, required) ==
    LET applies == ReplacementsOf(c, required, modules[c].requires[required])
                        \cup ReplacementsOf(c, required, None)
    IN  IF applies = {} THEN <<>> ELSE <<modules[c].replaces[required][Min(applies)]>>

\* selectedReplacement: the first one for the required version, or else the last
\* one for all versions; nothing or one.
selectedReplacement(c, required) ==
    LET exact == IF Requires(c, required)
                 THEN ReplacementsOf(c, required, modules[c].requires[required]) ELSE {}
        general == ReplacementsOf(c, required, None)
    IN  IF exact # {} THEN <<modules[c].replaces[required][Min(exact)]>>
        ELSE IF general # {} THEN <<modules[c].replaces[required][Max(general)]>>
        ELSE <<>>

requireTargetsModule(c, required, m) ==
    LET r == selectedReplacement(c, required)
    IN  IF r = <<>> THEN required = modules[m].path
        ELSE r[1].path = modules[m].path \/ r[1].dir = m

\* The version of a require, after its replacement.
VersionOf(c, required) ==
    LET r == selectedReplacement(c, required)
    IN  IF r # <<>> /\ r[1].version # None THEN r[1].version
        ELSE modules[c].requires[required]

\* The requires of module c that lead to module m.
RequiresOf(c, m) ==
    {p \in Paths : Requires(c, p) /\ requireTargetsModule(c, p, m)}

-----------------------------------------------------------------------------
(* assignModuleSeries *)

\* Mutant of RequiredMajors: the version of a replacement is not looked at.
RequiredMajorsUnreplaced(m) ==
    UNION {{MajorOf[modules[c].requires[p]] : p \in RequiresOf(c, m)} : c \in 1..Count}

RequiredMajors(m) ==
    UNION {{MajorOf[VersionOf(c, p)] : p \in RequiresOf(c, m)} : c \in 1..Count}

\* The turn of the next module.
AssignSeries ==
    LET m == Len(series) + 1
    IN  /\ m <= Count
        /\ series' = Append(series,
                IF MajorOfPath[modules[m].path] # None THEN MajorOfPath[modules[m].path]
                ELSE IF \E v \in Majors : RequiredMajors(m) = {v}
                     THEN CHOOSE v \in RequiredMajors(m) : TRUE
                ELSE None)
        /\ UNCHANGED <<modules, selections, aliases, considered, choices, leads>>

-----------------------------------------------------------------------------
(* importPackage and importAliases *)

\* How near package m is to module c.
Rank(c, m) ==
    IF c = m THEN 3
    ELSE IF \E p \in Paths : /\ Requires(c, p) \/ Replaces(c, p)
                             /\ requireTargetsModule(c, p, m)
    THEN 2 ELSE 1

\* Mutant of importPackage: the first one of the best.
FirstBest(c, m, choice) ==
    IF Rank(c, m) > choice.best
    THEN [selected |-> m, best |-> Rank(c, m), count |-> 1] ELSE choice

\* The turn of the loop in importPackage for package m of the path.
importPackage(c, m, choice) ==
    IF Rank(c, m) > choice.best
    THEN [selected |-> m, best |-> Rank(c, m), count |-> 1]
    ELSE IF Rank(c, m) = choice.best THEN [choice EXCEPT !.count = @ + 1]
    ELSE choice

\* The next package takes its turn in the loop of importPackage for its path, and in
\* the loop over the packages for the paths that module c replaces, where the
\* last package that a path leads to stays.
ConsiderPackage ==
    LET c == Len(selections) + 1
        m == considered + 1
        path == modules[m].path
    IN  /\ Len(series) = Count
        /\ c <= Count
        /\ m <= Count
        /\ considered' = m
        /\ choices' = [choices EXCEPT ![path] = importPackage(c, m, choices[path])]
        /\ leads' = [p \in Paths |->
                IF Replaces(c, p) /\ requireTargetsModule(c, p, m) THEN m ELSE leads[p]]
        /\ UNCHANGED <<modules, series, selections, aliases>>

\* The end of the loops of a module: what importPackage caches, and its aliases.
SelectImports ==
    /\ Len(series) = Count
    /\ Len(selections) < Count
    /\ considered = Count
    /\ selections' = Append(selections,
            [p \in Paths |-> IF choices[p].count = 1 THEN choices[p].selected ELSE 0])
    /\ aliases' = Append(aliases, leads)
    /\ considered' = 0
    /\ choices' = [p \in Paths |-> NoChoice]
    /\ leads' = [p \in Paths |-> 0]
    /\ UNCHANGED <<modules, series>>

Next == AssignSeries \/ ConsiderPackage \/ SelectImports

\* Discovery is one sequence of calls that wait for nothing.
Spec == Init /\ [][Next]_vars

-----------------------------------------------------------------------------
(* What the engine reads off. *)

Discovered == Len(selections) = Count

\* The import table of scopedSource: a replaced path leads to its replacement.
ImportOf(c, path) ==
    IF aliases[c][path] # 0 THEN aliases[c][path] ELSE selections[c][path]

\* Mutant of sameSeries: the version of a replacement is not looked at.
SameSeriesUnreplaced(from, to) ==
    IF from = to THEN {TRUE}
    ELSE IF RequiresOf(from, to) = {} THEN {series[to] # None}
    ELSE {series[to] = MajorOf[modules[from].requires[p]] : p \in RequiresOf(from, to)}

\* The answers of sameSeries, for every order of the map of requires.
sameSeries(from, to) ==
    IF from = to THEN {TRUE}
    ELSE IF RequiresOf(from, to) = {} THEN {series[to] # None}
    ELSE {series[to] = MajorOf[VersionOf(from, p)] : p \in RequiresOf(from, to)}

-----------------------------------------------------------------------------
(***************************************************************************)
(* Properties.                                                             *)
(***************************************************************************)

\* A path is not decided by the order in which packages were read: the package
\* that is selected is the only one of the best rank, and none is selected
\* although there is such a one.
SelectionIsUnique ==
    Discovered =>
        \A c \in 1..Count, p \in Paths :
            LET best == {m \in 1..Count :
                    /\ modules[m].path = p
                    /\ \A n \in 1..Count :
                            modules[n].path = p => Rank(c, n) <= Rank(c, m)}
            IN  IF Cardinality(best) = 1 THEN selections[c][p] \in best
                ELSE selections[c][p] = 0

\* The two computations of the major agree: a module whose path has no major is
\* connected with every other one if its series is known, also with those that
\* require it by another path or version, and with none if it is not known.
KnownSeriesConnects ==
    Discovered =>
        \A from, to \in 1..Count :
            from # to /\ MajorOfPath[modules[to].path] = None =>
                sameSeries(from, to) = {series[to] # None}

\* Where the required version has a replacement of its own, by a module of the
\* workspace, the import leads to that module, whatever else go.mod replaces.  (Of
\* several ones for the version, the first one counts.)
ExactReplacementWins ==
    Discovered =>
        \A c \in 1..Count, p \in Paths :
            \A i \in 1..Len(modules[c].replaces[p]) :
                LET r == modules[c].replaces[p][i]
                IN  /\ r.old = modules[c].requires[p] /\ r.old # None
                    /\ \A j \in 1..(i - 1) : modules[c].replaces[p][j].old # r.old
                    /\ r.dir # 0
                    => ImportOf(c, p) = r.dir

=============================================================================
