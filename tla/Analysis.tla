------------------------------ MODULE Analysis ------------------------------
(***************************************************************************)
(* A whole run of AnalyzeWithPolicy: the search of Traversal, which takes  *)
(* callersFor for one step, over the lazy engine of LazyLoading, which     *)
(* parses files, resolves call after call and may fail in the middle.  The *)
(* search waits while the engine works.  A file may become unreadable and  *)
(* readable again and the context may be cancelled at any step; the        *)
(* judgement of a call is given with it (Resolution, Compatibility).  The  *)
(* definitions marked as mutants are wrong on purpose.                     *)
(***************************************************************************)
EXTENDS LazyLoading

CONSTANTS
    Reasons, Rank, StackLimit,
    CallSites,      \* every call of the workspace, judged
    Requests        \* the requests that are considered

VARIABLES
    rooted,         \* targetSymbol has returned
    candidates,     \* the packages it has not looked at
    todo,           \* the calls of the snapshot that are still to be resolved
    current,        \* the call that is being resolved, or None
    asked,          \* it, or the look at a package, has asked for more definitions
    found,          \* the calls of the target so far: the edges of callersFor
    edgeCache,      \* engine.callerCache, with edges
    noticed,        \* the check of ctx.Err() in visit has seen the cancellation
    input, stack, ancestors, seenEdges, edges, tree, result     \* see Traversal

Search == INSTANCE Traversal
            WITH Inputs <- Requests, callerCache <- edgeCache, outcome <- result,
                 cancelled <- noticed

rooting == <<rooted, candidates>>
resolving == <<todo, current, asked, found>>
reported == <<input, ancestors, seenEdges, edges, tree>>
searching == <<reported, stack, edgeCache, noticed, result>>

analysisVars == <<vars, rooting, resolving, searching>>

None == <<>>

SitesOf(id) == {s \in CallSites : s.callee = id}

\* The calls that a function makes.
SitesIn(fn) == {s \in CallSites : s.caller = fn.id}

\* The calls of a function are the calls of the workspace that it makes.
ASSUME SitesAssumption ==
    /\ CallSites \subseteq Search!Site /\ IsFiniteSet(CallSites)
    /\ Requests \subseteq Search!Input
    /\ \A in \in Requests : in.sites = CallSites
    /\ \A f \in Files : \A fn \in DeclaredIn(f) : fn.calls = {s.callee : s \in SitesIn(fn)}
    /\ \A s \in CallSites : \E f \in Files : \E fn \in DeclaredIn(f) : fn.id = s.caller

AnalysisInit ==
    /\ Init
    /\ Search!Init
    /\ rooted = FALSE
    /\ candidates = {p \in Packages : PathOf[p] = PathOf[HomeOf[input.root]]}
    /\ todo = {}
    /\ current = None
    /\ asked = TRUE
    /\ found = {}

-----------------------------------------------------------------------------

\* The engine is not at work for the search.
EngineRests == rooted /\ phase = "idle" /\ request = Idle

Active == result = "running" /\ Running

\* targetSymbol looks for definitions of the root in a package of its path.
AskRoot ==
    /\ Active
    /\ ~rooted
    /\ AskDefinitions
    /\ \E p \in candidates :
        /\ request' = Definitions(p, NameOf[input.root], FALSE)
        /\ candidates' = candidates \ {p}
    /\ asked' = FALSE
    /\ UNCHANGED <<rooted, todo, current, found, searching>>

\* For a method that is not there it calls engine.method, which reports errors.
AskRootMethod ==
    /\ Active
    /\ ~rooted
    /\ ~asked
    /\ AskDefinitions
    /\ asked' = TRUE
    /\ UNCHANGED <<rooting, todo, current, found, searching>>

\* It has looked at every package; which symbol it returns is in Resolution.
RootIsChosen ==
    /\ Active
    /\ ~rooted
    /\ candidates = {}
    /\ request = Idle
    /\ rooted' = TRUE
    /\ UNCHANGED <<vars, candidates, resolving, searching>>

\* The statements of visit that do not call callersFor, or find its answer cached.
SearchStep ==
    /\ Active
    /\ EngineRests
    /\ Search!Top.entered \/ ~cancelled
    /\ \/ Search!VisitTooDeep
       \/ Search!VisitCallers /\ Search!Top.name \in DOMAIN edgeCache
       \/ Search!SkipDuplicate \/ Search!AddLeaf \/ Search!Descend \/ Search!LoopEnds
    /\ UNCHANGED <<vars, rooting, resolving>>

\* visit starts with a look at ctx.Err(); a later cancellation is left to load.
NoticeCancel ==
    /\ Active
    /\ EngineRests
    /\ cancelled /\ ~noticed
    /\ ~Search!Top.entered
    /\ noticed' = TRUE
    /\ UNCHANGED <<vars, rooting, resolving, reported, stack, edgeCache, result>>

\* `return err' of that check.
VisitIsCancelled ==
    /\ Active
    /\ noticed
    /\ result' = "failed"
    /\ UNCHANGED <<vars, rooting, resolving, reported, stack, edgeCache, noticed>>

\* visit calls callersFor.
CallCallersFor ==
    /\ Active
    /\ EngineRests
    /\ ~cancelled
    /\ ~Search!Top.entered
    /\ ~Search!TooDeep
    /\ AskCallers
    /\ target' = Search!Top.name
    /\ UNCHANGED <<rooting, resolving, searching>>

\* Loads and package lookups of definitions and of callerCandidates.
EngineStep ==
    /\ Active
    /\ UnitIsCached \/ StartUnit \/ FinishUnit \/ AnswerDefinitions \/ LoadIsCached \/ LoadFile
    /\ UNCHANGED <<rooting, resolving, searching>>

\* Mutant of EngineFails: the search goes on after an error.
EngineFailsUnseen ==
    /\ Active
    /\ LoadFails
    /\ UNCHANGED <<rooting, resolving, searching>>

\* load fails, and with it the analysis, unless the error is dropped.
EngineFails ==
    /\ Active
    /\ LoadFails
    /\ result' = IF request.tolerant THEN result ELSE "failed"
    /\ UNCHANGED <<rooting, resolving, reported, stack, edgeCache, noticed>>

\* callerCandidates returns; the calls of that name are to be resolved.
StartCalls ==
    /\ Active
    /\ TakeSnapshot
    /\ todo' = {s \in UNION {SitesIn(fn) : fn \in snapshot'} : NameOf[s.callee] = NameOf[target]}
    /\ UNCHANGED <<rooting, current, asked, found, searching>>

\* resolve looks for the definition that a call names.
StartCall ==
    /\ Active
    /\ current = None
    /\ AskDefinitions
    /\ \E s \in todo :
        /\ current' = <<s>>
        /\ request' = Definitions(HomeOf[s.callee], NameOf[s.callee], FALSE)
    /\ rooted
    /\ asked' = FALSE
    /\ UNCHANGED <<rooting, todo, found, searching>>

\* Mutant of AskMore: the search of types never comes to an end.
AskAgain ==
    /\ Active
    /\ rooted
    /\ current # None
    /\ AskDefinitions
    /\ UNCHANGED <<rooting, resolving, searching>>

\* Its types and methods may need one more search, with errors dropped or not.
AskMore ==
    /\ Active
    /\ rooted
    /\ current # None
    /\ ~asked
    /\ AskDefinitions
    /\ asked' = TRUE
    /\ UNCHANGED <<rooting, todo, current, found, searching>>

\* Mutant of FinishCall: the calls of other functions of that name are kept.
FinishEveryCall ==
    /\ Active
    /\ phase = "resolving"
    /\ request = Idle
    /\ current # None
    /\ todo' = todo \ {current[1]}
    /\ found' = found \cup {current[1]}
    /\ current' = None
    /\ UNCHANGED <<vars, rooting, asked, searching>>

\* The call is resolved, and checked if it is one of the target.
FinishCall ==
    /\ Active
    /\ phase = "resolving"
    /\ request = Idle
    /\ current # None
    /\ todo' = todo \ {current[1]}
    /\ found' = IF current[1].callee = target THEN found \cup {current[1]} ELSE found
    /\ current' = None
    /\ UNCHANGED <<vars, rooting, asked, searching>>

\* callersFor returns the edges it found, sorted, and visit ranges over them.
CallersForReturns ==
    /\ Active
    /\ todo = {}
    /\ FinishCallers
    /\ \E q \in Search!SortedOrders(found) :
        /\ edgeCache' = [id \in DOMAIN edgeCache \cup {target} |->
                            IF id = target THEN q ELSE edgeCache[id]]
        /\ stack' = Search!SetTop([Search!Top EXCEPT !.entered = TRUE, !.pending = q])
    /\ found' = {}
    /\ UNCHANGED <<rooting, todo, current, asked, reported, noticed, result>>

ContextIsCancelled ==
    /\ Active
    /\ Cancel
    /\ UNCHANGED <<rooting, resolving, searching>>

\* Somebody edits a file.
FileIsEdited ==
    /\ Active
    /\ FileChanges
    /\ UNCHANGED <<rooting, resolving, searching>>

Progress ==
    \/ AskRoot \/ AskRootMethod \/ RootIsChosen
    \/ SearchStep \/ NoticeCancel \/ VisitIsCancelled \/ CallCallersFor
    \/ EngineStep \/ EngineFails
    \/ StartCalls \/ StartCall \/ AskMore \/ FinishCall \/ CallersForReturns

AnalysisNext == Progress \/ ContextIsCancelled \/ FileIsEdited

\* One goroutine, which waits for nothing but the file system.
AnalysisSpec == AnalysisInit /\ [][AnalysisNext]_analysisVars /\ WF_analysisVars(Progress)

-----------------------------------------------------------------------------
(***************************************************************************)
(* Properties.                                                             *)
(***************************************************************************)

\* Where the variables of this module range, and that an error of the engine
\* that is not dropped ends the search.
AnalysisTypeOK ==
    /\ rooted \in BOOLEAN /\ candidates \subseteq Packages /\ asked \in BOOLEAN /\ noticed \in BOOLEAN
    /\ todo \subseteq CallSites
    /\ found \subseteq CallSites
    /\ current = None \/ \E s \in todo : current = <<s>>
    /\ result \in {"running", "done", "failed"}
    /\ result = "running" => Running

\* While the engine works, the search stands at the start of a visit that has no
\* answer in the cache, and the edges found so far are calls of the visited
\* symbol, not of another one with the same name.
SearchWaits ==
    result = "running" /\ phase # "idle" =>
        /\ ~Search!Top.entered
        /\ target = Search!Top.name
        /\ target \notin DOMAIN edgeCache
        /\ found \subseteq SitesOf(target)

\* The lazy analysis is a search with callersFor as one step that knows every
\* call of the workspace, whatever was loaded before: no caller is lost between
\* a snapshot and the files loaded after it, to a cached answer, or to an error
\* that is dropped, and a failure leaves no half of an answer.
ImplementsSearch == Search!Spec

=============================================================================
