----------------------------- MODULE Traversal -----------------------------
(***************************************************************************)
(* The depth-first search of AnalyzeWithPolicy (engine.go) over the call   *)
(* graph, one action per way through `visit' and per turn of its loop.     *)
(* The recursion is an explicit stack of frames; callersFor is one step,   *)
(* with its cache and its final sort (LazyLoading models what it does      *)
(* inside).  The context may be cancelled at any moment.  The definitions   *)
(* marked as mutants are wrong on purpose: each breaks a property.         *)
(***************************************************************************)
EXTENDS CallGraph

CONSTANT
    StackLimit      \* how deep calls of visit can nest in a stack of a goroutine

ASSUME StackAssumption == StackLimit \in Nat

VARIABLES
    input,          \* the request, never changed
    stack,          \* the active calls of visit, the outermost first
    ancestors,      \* the map shared by all calls of visit
    seenEdges,      \* keys of the edges in result.Edges
    edges,          \* result.Edges
    tree,           \* the nodes below the root, each as its path and Cycle
    callerCache,    \* engine.callerCache: a function on the cached symbols
    cancelled,      \* ctx.Err() # nil
    outcome         \* "running", "done" (a Result) or "failed" (an error)

vars == <<input, stack, ancestors, seenEdges, edges, tree, callerCache,
          cancelled, outcome>>

\* Mutant of edgeOutcomeKey: the verdict and its reason are not a part of it.
KeyWithoutVerdict(s) == <<s.caller, s.callee, s.resolution>>

\* edgeOutcomeKey: the JSON of an edge without its location.
edgeOutcomeKey(s) ==
    <<s.caller, s.callee, s.resolution, s.compatibility, s.reason>>

Keys == Symbols \X Symbols \X Resolutions \X Verdicts \X Reasons

\* The comparison of sort.Slice in callersFor: by caller, then by position.
Before(s, t) ==
    \/ Rank[s.caller] < Rank[t.caller]
    \/ Rank[s.caller] = Rank[t.caller] /\ s.line < t.line

\* The results callersFor can return for a set of call sites.  The functions
\* are visited in map order and sort.Slice is not stable, so call sites that
\* compare equal come in any order.
SortedOrders(S) ==
    {q \in [1..Cardinality(S) -> S] :
        /\ \A s \in S : \E i \in 1..Cardinality(S) : q[i] = s
        /\ \A i, j \in 1..Cardinality(S) : i < j => ~Before(q[j], q[i])}

\* visit(node, depth, ancestors) before its first statement.
Frame(name, path, depth) ==
    [name |-> name, path |-> path, depth |-> depth,
     entered |-> FALSE, pending |-> <<>>, unique |-> {}]

Init ==
    /\ input \in Inputs
    /\ stack = <<Frame(input.root, <<>>, 0)>>
    /\ ancestors = {input.root}
    /\ seenEdges = {}
    /\ edges = <<>>
    /\ tree = {}
    /\ callerCache = [n \in {} |-> <<>>]
    /\ cancelled = FALSE
    /\ outcome = "running"

-----------------------------------------------------------------------------

Top == stack[Len(stack)]

SetTop(frame) == [stack EXCEPT ![Len(stack)] = frame]

\* Mutants of Return: the outermost visit is ended like a nested one; the name
\* stays in ancestors.
ReturnNested ==
    /\ stack' = SubSeq(stack, 1, Len(stack) - 1)
    /\ ancestors' = ancestors \ {Top.name}
    /\ UNCHANGED outcome

ReturnKeepsAncestor ==
    /\ stack' = SubSeq(stack, 1, Len(stack) - 1)
    /\ outcome' = IF Len(stack) = 1 THEN "done" ELSE outcome
    /\ UNCHANGED ancestors

\* `return nil' of visit.  The caller of a nested visit then deletes the name
\* from ancestors; after the outermost one the result is returned.
Return ==
    IF Len(stack) = 1
    THEN /\ stack' = <<>>
         /\ outcome' = "done"
         /\ UNCHANGED ancestors
    ELSE /\ stack' = SubSeq(stack, 1, Len(stack) - 1)
         /\ ancestors' = ancestors \ {Top.name}
         /\ UNCHANGED outcome

TooDeep == input.maxDepth > 0 /\ Top.depth >= input.maxDepth

\* ctx.Err() at the start of visit, or an error of callersFor on a symbol that
\* is not cached: the whole analysis fails.
VisitFails ==
    /\ outcome = "running"
    /\ ~Top.entered
    /\ cancelled \/ (~TooDeep /\ Top.name \notin DOMAIN callerCache)
    /\ outcome' = "failed"
    /\ UNCHANGED <<input, stack, ancestors, seenEdges, edges, tree,
                   callerCache, cancelled>>

VisitTooDeep ==
    /\ outcome = "running"
    /\ ~Top.entered
    /\ ~cancelled
    /\ TooDeep
    /\ Return
    /\ UNCHANGED <<input, seenEdges, edges, tree, callerCache, cancelled>>

\* The edges callersFor works on: the cached ones, or those it finds and caches.
CallersOf(name) ==
    IF name \in DOMAIN callerCache
    THEN {callerCache[name][i] : i \in 1..Len(callerCache[name])}
    ELSE SitesOf(input, name)

\* The call of callersFor succeeds.  The slice that is sorted is the cached one.
VisitCallers ==
    /\ outcome = "running"
    /\ ~Top.entered
    /\ ~cancelled
    /\ ~TooDeep
    /\ \E q \in SortedOrders(CallersOf(Top.name)) :
        /\ callerCache' = [n \in DOMAIN callerCache \cup {Top.name} |->
                              IF n = Top.name THEN q ELSE callerCache[n]]
        /\ stack' = SetTop([Top EXCEPT !.entered = TRUE, !.pending = q])
    /\ UNCHANGED <<input, ancestors, seenEdges, edges, tree, cancelled, outcome>>

-----------------------------------------------------------------------------

InLoop == outcome = "running" /\ Top.entered /\ Top.pending # <<>>

Edge == Head(Top.pending)

ChildPath == Append(Top.path, OutcomeOf(Edge))

\* Mutant of Stops: a symbol is visited again inside its own visit.
StopsInNoCycle ==
    \/ ~Continue(input, Edge)
    \/ Edge.resolution = "external"

\* The edge is a leaf: a cycle, a verdict the policy stops at, or external.
Stops ==
    \/ Edge.caller \in ancestors
    \/ ~Continue(input, Edge)
    \/ Edge.resolution = "external"

\* Mutant of SkipDuplicate: it looks at the edges of the whole search.
SkipSeen ==
    /\ InLoop
    /\ edgeOutcomeKey(Edge) \in seenEdges
    /\ stack' = SetTop([Top EXCEPT !.pending = Tail(@)])
    /\ UNCHANGED <<input, ancestors, seenEdges, edges, tree, callerCache,
                   cancelled, outcome>>

\* `if unique[key] { continue }'
SkipDuplicate ==
    /\ InLoop
    /\ edgeOutcomeKey(Edge) \in Top.unique
    /\ stack' = SetTop([Top EXCEPT !.pending = Tail(@)])
    /\ UNCHANGED <<input, ancestors, seenEdges, edges, tree, callerCache,
                   cancelled, outcome>>

\* Mutant of RecordEdge: an edge is listed once for each node.
RecordEveryEdge ==
    /\ edgeOutcomeKey(Edge) \notin Top.unique
    /\ seenEdges' = seenEdges \cup {edgeOutcomeKey(Edge)}
    /\ edges' = Append(edges, Edge)
    /\ tree' = tree \cup {[path |-> ChildPath,
                           cycle |-> Edge.caller \in ancestors]}

\* The statements of one turn of the loop that both kinds of turn execute.
RecordEdge ==
    /\ edgeOutcomeKey(Edge) \notin Top.unique
    /\ seenEdges' = seenEdges \cup {edgeOutcomeKey(Edge)}
    /\ edges' = IF edgeOutcomeKey(Edge) \in seenEdges
                THEN edges ELSE Append(edges, Edge)
    /\ tree' = tree \cup {[path |-> ChildPath,
                           cycle |-> Edge.caller \in ancestors]}

AfterEdge == [Top EXCEPT !.pending = Tail(@),
                         !.unique = @ \cup {edgeOutcomeKey(Edge)}]

AddLeaf ==
    /\ InLoop
    /\ RecordEdge
    /\ Stops
    /\ stack' = SetTop(AfterEdge)
    /\ UNCHANGED <<input, ancestors, callerCache, cancelled, outcome>>

\* ancestors[name] = true; visit(child, depth+1, ancestors).  A process whose
\* stack overflows dies without a result: its search never gets an outcome.
Descend ==
    /\ InLoop
    /\ Len(stack) < StackLimit
    /\ RecordEdge
    /\ ~Stops
    /\ ancestors' = ancestors \cup {Edge.caller}
    /\ stack' = Append(SetTop(AfterEdge),
                       Frame(Edge.caller, ChildPath, Top.depth + 1))
    /\ UNCHANGED <<input, callerCache, cancelled, outcome>>

LoopEnds ==
    /\ outcome = "running"
    /\ Top.entered
    /\ Top.pending = <<>>
    /\ Return
    /\ UNCHANGED <<input, seenEdges, edges, tree, callerCache, cancelled>>

\* The holder of the context cancels it, at any point of the search.
Cancel ==
    /\ outcome = "running"
    /\ ~cancelled
    /\ cancelled' = TRUE
    /\ UNCHANGED <<input, stack, ancestors, seenEdges, edges, tree,
                   callerCache, outcome>>

Search ==
    \/ VisitFails \/ VisitTooDeep \/ VisitCallers
    \/ SkipDuplicate \/ AddLeaf \/ Descend \/ LoopEnds

Next == Search \/ Cancel

\* The search runs in one goroutine and waits for nothing.
Spec == Init /\ [][Next]_vars /\ WF_vars(Search)

-----------------------------------------------------------------------------
(***************************************************************************)
(* Properties.                                                             *)
(***************************************************************************)

\* The types of the variables, and that a running search has a frame.
TypeOK ==
    /\ input \in Inputs
    /\ stack \in Seq([name : Symbols, path : Seq(Outcome), depth : Nat,
                      entered : BOOLEAN, pending : Seq(Site),
                      unique : SUBSET Keys])
    /\ ancestors \subseteq Symbols
    /\ seenEdges \subseteq Keys
    /\ edges \in Seq(Site)
    /\ tree \subseteq [path : Seq(Outcome), cycle : BOOLEAN]
    /\ DOMAIN callerCache \subseteq Symbols
    /\ \A n \in DOMAIN callerCache : callerCache[n] \in Seq(Site)
    /\ cancelled \in BOOLEAN
    /\ outcome \in {"running", "done", "failed"}
    /\ outcome = "running" => stack # <<>>

\* While the search runs, the shared map `ancestors' (set before a nested visit,
\* deleted after it, never copied) holds exactly the symbols being visited, and
\* no symbol is visited inside its own visit.  So no cached slice of callers is
\* sorted again while an outer loop still ranges over it.
AncestorsAreTheStack ==
    outcome = "running" =>
        /\ ancestors = {stack[i].name : i \in 1..Len(stack)}
        /\ \A i, j \in 1..Len(stack) : stack[i].name = stack[j].name => i = j

\* result.Edges, deduplicated over the whole search, holds one edge for each
\* outcome that some node of the tree shows, although the nodes are
\* deduplicated per visit: neither list misses what the other reports.
EdgesMatchTree ==
    /\ {edgeOutcomeKey(edges[i]) : i \in 1..Len(edges)} =
            {edgeOutcomeKey(n.path[Len(n.path)]) : n \in tree}
    /\ \A i, j \in 1..Len(edges) :
            edgeOutcomeKey(edges[i]) = edgeOutcomeKey(edges[j]) => i = j

Promise == INSTANCE CallerPaths WITH input <- input, tree <- tree, outcome <- outcome

\* The search implements the promise of a reverse call graph: it only adds
\* callers of expandable paths, marks cycles rightly, and publishes the tree
\* only when no caller is missing, also when a symbol is reached again through
\* the cache, call sites of one caller differ, or the context is cancelled.
ImplementsCallerPaths == Promise!Spec

-----------------------------------------------------------------------------
(***************************************************************************)
(* The inductive invariant behind these properties.                        *)
(***************************************************************************)

\* The active visits follow one path of the tree, one edge at a time.
PathsAreNested ==
    \A i \in 1..Len(stack) :
        /\ Len(stack[i].path) = i - 1
        /\ stack[i].depth = i - 1
        /\ stack[i].name = Promise!EndName(input, stack[i].path)
        /\ \A j \in 1..(i - 1) : /\ stack[j].entered
                                 /\ stack[i].path[j].caller = stack[j + 1].name

\* A visit is started only where the tree may be extended.
VisitsAreAllowed ==
    \A i \in 1..Len(stack) :
        LET f == stack[i]
        IN  /\ f.path # <<>> => /\ \E n \in tree : n.path = f.path
                                /\ ~Promise!IsCycle(input, f.path)
                                /\ f.path[Len(f.path)].resolution # "external"
                                /\ Continue(input, f.path[Len(f.path)])
            /\ f.entered => (input.maxDepth > 0 => Len(f.path) < input.maxDepth)

\* Each call site of the symbol that frame f visits is in tree t or still to come.
SkipsNothing(in, t, f) ==
    LET Reported(s) == Promise!NodeAt(in, Append(f.path, OutcomeOf(s))) \in t
    IN  /\ \A k \in 1..Len(f.pending) : f.pending[k] \in SitesOf(in, f.name)
        /\ \A s \in in.sites : edgeOutcomeKey(s) \in f.unique => Reported(s)
        /\ f.entered =>
             \A s \in SitesOf(in, f.name) :
                Reported(s) \/ \E k \in 1..Len(f.pending) : f.pending[k] = s

NothingIsSkipped ==
    \A i \in 1..Len(stack) : SkipsNothing(input, tree, stack[i])

\* A node that is not being visited has all its callers.
FinishedNodesAreClosed ==
    \A n \in tree :
        \/ \E i \in 1..Len(stack) : stack[i].path = n.path
        \/ Promise!HasAllCallersOf(input, tree, n.path)

CacheIsComplete ==
    \A n \in DOMAIN callerCache :
        {callerCache[n][i] : i \in 1..Len(callerCache[n])} = SitesOf(input, n)

VisitInvariant ==
    outcome = "running" =>
        /\ PathsAreNested
        /\ VisitsAreAllowed
        /\ NothingIsSkipped
        /\ FinishedNodesAreClosed
        /\ CacheIsComplete

-----------------------------------------------------------------------------

\* visit comes to an end on every graph, cyclic ones included, in a stack that
\* has room for one visit of each symbol: the check of `ancestors' is all that
\* keeps a cycle from being followed until the stack overflows.
Termination == <>(outcome # "running")

=============================================================================
