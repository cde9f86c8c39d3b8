----------------------------- MODULE Discovery -----------------------------
(***************************************************************************)
(* discoverSources (discovery.go): which files are sources, which module   *)
(* and which package each belongs to, and the identity by which the engine *)
(* tells packages apart that share a path.  One action per file of the     *)
(* walk and one per source of the loops behind it.  What go.mod files say is given   *)
(* with the workspace (Imports models it); a file that build tags or cgo   *)
(* leave out, or that lies below .git or vendor, is not `built'.  The      *)
(* definition marked as a mutant is wrong on purpose.                      *)
(***************************************************************************)
EXTENDS Integers, Sequences, FiniteSets, SequencesExt

CONSTANTS
    Names,          \* names of directories and packages
    TestName,       \* a name with "_test" behind it, where that is a name too
    Workspaces      \* the workspaces that are considered

\* A directory is the sequence of names below the root of the workspace, a path
\* the sequence of its elements.
File == [dir : Seq(Names), clause : Names, test : BOOLEAN, built : BOOLEAN]
Module == [dir : Seq(Names), path : Seq(Names)]
Workspace == [modules : Seq(Module), files : Seq(File), symbolSet : {"runtime", "test"}]

IsTestName(name) == \E n \in DOMAIN TestName : TestName[n] = name

\* The files of the walk that the compiler looks at.
FilesOf(w) == {f \in ToSet(w.files) : f.built}

\* A directory is one that the go command accepts: the files agree on the name
\* of the package, and a test may also be in the package of that name and "_test".
ASSUME DiscoveryAssumption ==
    /\ DOMAIN TestName \subseteq Names
    /\ \A n \in DOMAIN TestName : TestName[n] \in Names
    /\ \A m, n \in DOMAIN TestName : TestName[m] = TestName[n] => m = n
    /\ \A w \in Workspaces :
        /\ w \in Workspace
        /\ \A m \in ToSet(w.modules) : m.path # <<>> /\ Last(m.path) \in DOMAIN TestName
        /\ \A i, j \in 1..Len(w.modules) : w.modules[i].dir = w.modules[j].dir => i = j
        /\ \A f, g \in FilesOf(w) :
            f.dir = g.dir =>
                /\ ~f.test /\ ~g.test => f.clause = g.clause
                /\ f.test /\ ~g.test =>
                    f.clause = g.clause \/ <<g.clause, f.clause>> \in {<<n, TestName[n]>> : n \in DOMAIN TestName}

VARIABLES
    workspace,
    walked,         \* the number of files that the walk has passed
    sources,        \* Workspace.Sources
    placed,         \* the number of sources that have their package
    packages,       \* Workspace.Packages
    discovery       \* "walking", "placing", "done" or "failed"

discoveryVars == <<workspace, walked, sources, placed, packages, discovery>>

DiscoveryInit ==
    /\ workspace \in Workspaces
    /\ walked = 0
    /\ sources = <<>>
    /\ placed = 0
    /\ packages = <<>>
    /\ discovery = "walking"

-----------------------------------------------------------------------------

\* pathWithin of the modules: those that have the directory below them.
ModulesAbove(dir) ==
    {m \in DOMAIN workspace.modules : IsPrefix(workspace.modules[m].dir, dir)}

\* The innermost of them.
ModuleOf(dir) ==
    CHOOSE m \in ModulesAbove(dir) : \A n \in ModulesAbove(dir) :
        Len(workspace.modules[n].dir) <= Len(workspace.modules[m].dir)

\* The path of the module and the rest of the directory.
PathOf(dir) ==
    LET module == workspace.modules[ModuleOf(dir)]
    IN  module.path \o SubSeq(dir, Len(module.dir) + 1, Len(dir))

IsSource(file) ==
    /\ file.test => workspace.symbolSet = "test"
    /\ ModulesAbove(file.dir) # {}
    /\ file.built

\* The callback of filepath.WalkDir for a file.
WalkFile ==
    /\ discovery = "walking"
    /\ walked < Len(workspace.files)
    /\ LET file == workspace.files[walked + 1]
       IN  sources' =
            IF ~IsSource(file) THEN sources
            ELSE Append(sources,
                    [dir |-> file.dir, path |-> PathOf(file.dir), clause |-> file.clause,
                     module |-> ModuleOf(file.dir), test |-> file.test,
                     external |-> FALSE, id |-> <<>>])
    /\ walked' = walked + 1
    /\ UNCHANGED <<workspace, placed, packages, discovery>>

\* The context is cancelled, or a file cannot be read or has no package clause.
WalkFails ==
    /\ discovery = "walking"
    /\ walked < Len(workspace.files)
    /\ discovery' = "failed"
    /\ UNCHANGED <<workspace, walked, sources, placed, packages>>

\* WalkDir returns without an error.
EndWalk ==
    /\ discovery = "walking"
    /\ walked = Len(workspace.files)
    /\ discovery' = "placing"
    /\ UNCHANGED <<workspace, walked, sources, placed, packages>>

-----------------------------------------------------------------------------

\* regularNames: the name of the last file of the directory that cannot be an
\* external test.
HasRegularName(dir, name) ==
    LET regular == {i \in DOMAIN sources : /\ sources[i].dir = dir
                                           /\ ~sources[i].test \/ ~IsTestName(sources[i].clause)}
    IN  regular # {} /\ sources[Max(regular)].clause = name

\* Mutant of IsExternalTest: the suffix decides alone.
HasTestName(s) == s.test /\ IsTestName(s.clause)

IsExternalTest(s) ==
    /\ s.test
    /\ IsTestName(s.clause)
    /\ ~HasRegularName(s.dir, s.clause)

\* `source.Package += "_test"'
TestPath(path) == Append(Front(path), TestName[Last(path)])

\* packageIdentity
packageIdentity(path, dir, module, external) == <<path, dir, module, external>>

\* A source with its package.
Placed(s) ==
    LET external == IsExternalTest(s)
        path == IF external THEN TestPath(s.path) ELSE s.path
    IN  [s EXCEPT !.external = external, !.path = path,
                  !.id = packageIdentity(path, s.dir, s.module, external)]

\* The package of a source that is the first of it.
PackageOf(s) ==
    [id |-> s.id, path |-> s.path, name |-> s.clause,
     dir |-> s.dir, module |-> s.module, external |-> s.external]

\* The loops over w.Sources after the walk, for the next source.
PlaceSource ==
    /\ discovery = "placing"
    /\ placed < Len(sources)
    /\ LET s == Placed(sources[placed + 1])
       IN  /\ sources' = [sources EXCEPT ![placed + 1] = s]
           /\ packages' = IF \E i \in DOMAIN packages : packages[i].id = s.id THEN packages
                          ELSE Append(packages, PackageOf(s))
    /\ placed' = placed + 1
    /\ UNCHANGED <<workspace, walked, discovery>>

\* discoverSources returns.
EndDiscovery ==
    /\ discovery = "placing"
    /\ placed = Len(sources)
    /\ discovery' = "done"
    /\ UNCHANGED <<workspace, walked, sources, placed, packages>>

Discover == WalkFile \/ WalkFails \/ EndWalk \/ PlaceSource \/ EndDiscovery

-----------------------------------------------------------------------------
(***************************************************************************)
(* Properties.                                                             *)
(***************************************************************************)

\* What the go command takes for an external test: a test whose name is that of
\* the other files of the directory and "_test", or ends so where there are none.
GoExternalTest(s) ==
    LET others == {f \in FilesOf(workspace) : f.dir = s.dir /\ ~f.test}
    IN  /\ s.test
        /\ IsTestName(s.clause)
        /\ \A f \in others : f.clause # s.clause

\* Two files have one package identity exactly if the go command compiles them
\* together, also where modules are nested, modules share a path, a directory is
\* called as another one's tests, and a package has a name that ends in _test.
PackagesAsGo ==
    discovery = "done" =>
        \A i, j \in DOMAIN sources :
            sources[i].id = sources[j].id <=>
                /\ sources[i].dir = sources[j].dir
                /\ GoExternalTest(sources[i]) = GoExternalTest(sources[j])

=============================================================================
