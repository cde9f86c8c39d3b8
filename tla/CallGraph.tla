----------------------------- MODULE CallGraph -----------------------------
(***************************************************************************)
(* The data an analysis works on: symbols, the call sites that resolution  *)
(* and compatibility checking have judged, and the request of one run of   *)
(* AnalyzeWithPolicy.  A call site is an Edge of internal/analysis with    *)
(* its texts reduced to what the traversal tells apart: `reason' stands    *)
(* for the resolution kind and the list of issues, `line' for the file     *)
(* position (a caller is declared in one file).                            *)
(***************************************************************************)
EXTENDS Integers, Sequences, FiniteSets

CONSTANTS
    Symbols,    \* internal IDs of functions and methods
    Reasons,    \* resolution kinds and issue lists
    Rank,       \* position of a symbol in the order of its string
    Inputs      \* the requests that are considered

Resolutions == {"resolved", "external", "unknown"}
Verdicts == {"compatible", "incompatible", "unknown"}

Site == [caller : Symbols, callee : Symbols, resolution : Resolutions,
         compatibility : Verdicts, reason : Reasons, line : Nat]

\* An Edge without its Location: what a reader of the report can see of it.
Outcome == [caller : Symbols, callee : Symbols, resolution : Resolutions,
            compatibility : Verdicts, reason : Reasons]

OutcomeOf(s) ==
    [caller |-> s.caller, callee |-> s.callee, resolution |-> s.resolution,
     compatibility |-> s.compatibility, reason |-> s.reason]

\* Options.MaxDepth and TraversalPolicy, with the root that targetSymbol chose
\* and every call site of the workspace whose callee is known.
Input == [root : Symbols, sites : SUBSET Site,
          maxDepth : Int, continueIncompatible : BOOLEAN]

ASSUME RankAssumption == Rank \in [Symbols -> Nat]

ASSUME InputsAssumption ==
    /\ Inputs \subseteq Input
    /\ \A in \in Inputs : IsFiniteSet(in.sites)

\* The call sites of callee `name'.
SitesOf(in, name) == {s \in in.sites : s.callee = name}

\* TraversalPolicy.Continue of the verdict of edge e.
Continue(in, e) == e.compatibility # "incompatible" \/ in.continueIncompatible

=============================================================================
