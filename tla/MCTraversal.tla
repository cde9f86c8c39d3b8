---------------------------- MODULE MCTraversal ----------------------------
(* A small workspace for Traversal: three symbols and a pool of call sites   *)
(* with cycles, self calls, a diamond, several call sites of one caller (two *)
(* of them on one line), and every kind of leaf.  Each subset of the pool is *)
(* a program.                                                                *)
EXTENDS Traversal

MCSymbols == {"r", "a", "b"}
MCReasons == {"none", "arguments", "results"}
MCRank == [s \in MCSymbols |-> CASE s = "r" -> 3 [] s = "a" -> 1 [] s = "b" -> 2]

Call(caller, callee, resolution, compatibility, reason, line) ==
    [caller |-> caller, callee |-> callee, resolution |-> resolution,
     compatibility |-> compatibility, reason |-> reason, line |-> line]

Pool == {
    Call("a", "r", "resolved", "incompatible", "arguments", 1),
    Call("a", "r", "resolved", "compatible", "none", 1),
    Call("a", "r", "resolved", "compatible", "none", 2),
    Call("b", "r", "resolved", "unknown", "none", 1),
    Call("b", "a", "resolved", "compatible", "none", 2),
    Call("a", "b", "resolved", "compatible", "none", 3),
    Call("r", "a", "resolved", "incompatible", "results", 1),
    Call("b", "b", "external", "compatible", "none", 3),
    Call("r", "b", "external", "compatible", "none", 2)}

MCInputs ==
    [root : {"r"}, sites : SUBSET Pool, maxDepth : {0, 2},
     continueIncompatible : BOOLEAN]

=============================================================================
