------------------------------ MODULE MCScopes ------------------------------
(* Bodies of up to five nodes over two names.  x may be a parameter, y a      *)
(* package variable that holds x, or a type.                                  *)
EXTENDS Scopes

MCNames == {"x", "y"}

At(op, n, v, inside) ==
    [op |-> op, name |-> n, value |-> v, inside |-> inside, joined |-> FALSE]

Blocks == {At("open", "other", "other", FALSE), At("close", "other", "other", FALSE)}
CallsOf(inside) == {At("call", n, "other", inside) : n \in MCNames}
Values(ops, names, values) ==
    {At(op, n, v, FALSE) : op \in ops, n \in names, v \in values}

Statements ==
    Values({"define", "assign"}, MCNames, MCNames \cup {"other"})
        \cup Values({"var"}, {"y"}, MCNames \cup {"other"})
        \cup Values({"define", "assign"}, {"y"}, {"unpacked"})
        \cup Values({"range"}, {"y"}, {"other"})

\* Each of them may be a further name of the statement before.
Further == {[s EXCEPT !.joined = TRUE] : s \in {s \in Statements : s.op # "range"}}

MCNodes == Blocks \cup CallsOf(FALSE) \cup CallsOf(TRUE) \cup Statements \cup Further

MCFile(params, globals, values, types) ==
    [params |-> params, globals |-> globals,
     globalFuncs |-> [n \in MCNames |-> IF n \in globals THEN values ELSE "other"],
     types |-> types]

MCFiles ==
    {MCFile({}, {}, "other", {}), MCFile({"x"}, {}, "other", {}),
     MCFile({}, {"y"}, "x", {}), MCFile({}, {}, "other", {"y"})}

=============================================================================
