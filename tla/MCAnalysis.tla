----------------------------- MODULE MCAnalysis -----------------------------
(* Two packages with a function T each.  P.T and P.U call each other; V of   *)
(* the other package calls P.U and, once with a wrong argument, P.T.  The    *)
(* packages have one path, so T is an ambiguous target and no request's root. *)
EXTENDS Analysis

MCFiles == {"p1", "p2", "q1"}
MCPosition == [f \in MCFiles |-> CASE f = "p1" -> 1 [] f = "p2" -> 2 [] f = "q1" -> 3]
MCPackages == {"P", "Q"}
MCPaths == {"path"}
MCNames == {"T", "U", "V"}
MCSymbols == {"P.T", "P.U", "Q.T", "Q.V"}
MCPackageOf == [f \in MCFiles |-> IF f = "q1" THEN "Q" ELSE "P"]
MCPathOf == [p \in MCPackages |-> "path"]
MCNameOf == [s \in MCSymbols |-> CASE s \in {"P.T", "Q.T"} -> "T" [] s = "P.U" -> "U" [] s = "Q.V" -> "V"]
MCHomeOf == [s \in MCSymbols |-> IF s \in {"Q.T", "Q.V"} THEN "Q" ELSE "P"]

Call(caller, callee, verdict, line) ==
    [caller |-> caller, callee |-> callee, resolution |-> "resolved",
     compatibility |-> verdict, reason |-> "none", line |-> line]

MCCallSites == {
    Call("P.U", "P.T", "compatible", 1), Call("P.T", "P.U", "compatible", 1),
    Call("Q.V", "P.T", "incompatible", 1), Call("Q.V", "P.U", "compatible", 2),
    Call("Q.V", "Q.T", "compatible", 3)}

Fn(id) == [id |-> id, calls |-> {s.callee : s \in {s \in MCCallSites : s.caller = id}}]

MCFunctionsOf == [f \in MCFiles |->
    CASE f = "p1" -> <<Fn("P.T")>> [] f = "p2" -> <<Fn("P.U")>> [] f = "q1" -> <<Fn("Q.T"), Fn("Q.V")>>]
MCTypesOf == [f \in MCFiles |-> {}]
MCDefinitionTokens == [f \in MCFiles |->
    CASE f = "p1" -> {"T"} [] f = "p2" -> {"U"} [] f = "q1" -> {"T", "V"}]
MCIdentifiers == [f \in MCFiles |-> IF f = "q1" THEN {"T", "U", "V"} ELSE {"T", "U"}]

MCRank == [s \in MCSymbols |-> CASE s = "P.T" -> 1 [] s = "P.U" -> 2 [] s = "Q.T" -> 3 [] s = "Q.V" -> 4]

MCRequests ==
    [root : {"P.U", "Q.V"}, sites : {MCCallSites}, maxDepth : {0, 1}, continueIncompatible : BOOLEAN]

=============================================================================
