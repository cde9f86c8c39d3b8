---------------------------- MODULE CallerPaths ----------------------------
(***************************************************************************)
(* What a reverse call graph promises, whatever order it is computed in.   *)
(* A node of the tree is the path of outcomes from the root to it.  A path *)
(* may be extended by the callers of its last symbol unless that symbol is *)
(* already on the path (a cycle), the last edge is external, the policy    *)
(* stops at its verdict, or the depth limit is reached.  The analysis may  *)
(* publish the tree only when no extension is missing; it may give up at   *)
(* any time, and then publishes nothing.                                   *)
(***************************************************************************)
EXTENDS CallGraph

VARIABLES
    input,      \* the request
    tree,       \* the nodes reported so far: [path, cycle]
    outcome     \* "running", "done" (the tree is published) or "failed"

vars == <<input, tree, outcome>>

\* The symbol at the end of path p.
EndName(in, p) == IF p = <<>> THEN in.root ELSE p[Len(p)].caller

\* The symbols that path p passes before its last one.
NamesBefore(in, p) ==
    {in.root} \cup {p[i].caller : i \in 1..(Len(p) - 1)}

IsCycle(in, p) == p # <<>> /\ EndName(in, p) \in NamesBefore(in, p)

\* The callers of the end of p belong to the answer.
Expandable(in, p) ==
    /\ in.maxDepth > 0 => Len(p) < in.maxDepth
    /\ p # <<>> => /\ ~IsCycle(in, p)
                   /\ p[Len(p)].resolution # "external"
                   /\ Continue(in, p[Len(p)])

NodeAt(in, p) == [path |-> p, cycle |-> IsCycle(in, p)]

\* Every caller of an expandable path of t is in t.
HasAllCallersOf(in, t, p) ==
    Expandable(in, p) =>
        \A s \in SitesOf(in, EndName(in, p)) :
            NodeAt(in, Append(p, OutcomeOf(s))) \in t

IsClosed(in, t) ==
    \A p \in {<<>>} \cup {n.path : n \in t} : HasAllCallersOf(in, t, p)

Init == /\ input \in Inputs
        /\ tree = {}
        /\ outcome = "running"

\* A caller of the root, or of a node already in the tree, is reported.
Report ==
    /\ outcome = "running"
    /\ \E p \in {<<>>} \cup {n.path : n \in tree} :
        /\ Expandable(input, p)
        /\ \E s \in SitesOf(input, EndName(input, p)) :
            tree' = tree \cup {NodeAt(input, Append(p, OutcomeOf(s)))}
    /\ UNCHANGED <<input, outcome>>

Publish ==
    /\ outcome = "running"
    /\ IsClosed(input, tree)
    /\ outcome' = "done"
    /\ UNCHANGED <<input, tree>>

Abandon ==
    /\ outcome = "running"
    /\ outcome' = "failed"
    /\ UNCHANGED <<input, tree>>

Next == Report \/ Publish \/ Abandon

Spec == Init /\ [][Next]_vars

=============================================================================
