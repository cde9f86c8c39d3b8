----------------------------- MODULE MCImports -----------------------------
(* An application and two libraries, whose paths may be equal.  The           *)
(* application requires and replaces; the second library may require the      *)
(* first one too.                                                             *)
EXTENDS Imports

MCPaths == {"app", "lib", "fork", "lib/v2"}
MCVersions == {"v0.1.0", "v1.0.0", "v1.2.0", "v2.0.0"}
MCMajors == {"v0", "v1", "v2"}
MCMajorOf == [v \in MCVersions |->
    CASE v = "v0.1.0" -> "v0" [] v = "v2.0.0" -> "v2" [] OTHER -> "v1"]
MCMajorOfPath == [p \in MCPaths |-> IF p = "lib/v2" THEN "v2" ELSE "none"]

Nothing == [p \in MCPaths |-> <<>>]

ByDirectory(old, m) == [old |-> old, dir |-> m, path |-> "none", version |-> "none"]
ByPath(old, p, v) == [old |-> old, dir |-> 0, path |-> p, version |-> v]

Replacements(old) ==
    {ByDirectory(old, m) : m \in {0, 2, 3}}
        \cup {ByPath(old, "fork", v) : v \in {"v0.1.0", "v1.0.0"}}
        \cup {ByPath(old, "lib/v2", "v2.0.0")}

\* None, one for all versions or one version, or both, in both orders.
ReplacesOfLib ==
    LET all == Replacements("none")
        exact == Replacements("v1.0.0")
    IN  {<<>>} \cup {<<r>> : r \in all \cup exact}
            \cup {<<r, s>> : r \in all, s \in exact} \cup {<<s, r>> : r \in all, s \in exact}

Requiring(lib, fork, v2) == [p \in MCPaths |->
    CASE p = "lib" -> lib [] p = "fork" -> fork [] p = "lib/v2" -> v2 [] OTHER -> "none"]

Apps ==
    {[path |-> "app", requires |-> Requiring(lib, fork, v2),
      replaces |-> [Nothing EXCEPT !["lib"] = r]] :
        lib \in {"none", "v0.1.0", "v1.0.0", "v1.2.0"}, fork \in {"none", "v0.1.0"},
        v2 \in {"none", "v2.0.0"}, r \in ReplacesOfLib}

Libraries == {"lib", "fork", "lib/v2"}

MCWorkspaces ==
    {<<app,
       [path |-> p, requires |-> Requiring("none", "none", "none"), replaces |-> Nothing],
       [path |-> q, requires |-> Requiring(lib, "none", "none"), replaces |-> Nothing]>> :
        app \in Apps, p \in Libraries, q \in Libraries, lib \in {"none", "v1.2.0"}}

=============================================================================
