-------------------------- MODULE MCInitFunctions --------------------------
(* A package with an init function in each of its two files, as Go allows.   *)
(* The init of the first file calls Target; the second file calls Target in  *)
(* another function.                                                         *)
EXTENDS LazyLoading

MCFiles == {"a.go", "b.go"}
MCPosition == [f \in MCFiles |-> IF f = "a.go" THEN 1 ELSE 2]
MCPackages == {"P"}
MCPaths == {"path"}
MCNames == {"init", "Target", "Use"}
MCSymbols == {"P.init", "P.Target", "P.Use"}
MCPackageOf == [f \in MCFiles |-> "P"]
MCPathOf == [p \in MCPackages |-> "path"]
MCExternalTests == {}
MCNameOf == [s \in MCSymbols |->
    CASE s = "P.init" -> "init" [] s = "P.Target" -> "Target" [] s = "P.Use" -> "Use"]
MCHomeOf == [s \in MCSymbols |-> "P"]

Fn(id, calls) == [id |-> id, calls |-> calls]

MCFunctionsOf == [f \in MCFiles |->
    IF f = "a.go"
    THEN <<Fn("P.init", {"P.Target"}), Fn("P.Target", {})>>
    ELSE <<Fn("P.init", {}), Fn("P.Use", {"P.Target"})>>]
MCTypesOf == [f \in MCFiles |-> {}]
MCDefinitionTokens == [f \in MCFiles |->
    IF f = "a.go" THEN {"init", "Target"} ELSE {"init", "Use"}]
MCIdentifiers == [f \in MCFiles |->
    IF f = "a.go" THEN {"init", "Target"} ELSE {"init", "Use", "Target"}]

=============================================================================
