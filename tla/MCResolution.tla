---------------------------- MODULE MCResolution ----------------------------
(* Two packages p and q in two modules, a second package with the path of q  *)
(* in a third module that no other is connected with, and an external test   *)
(* of p.  A is an alias of a type of q, N of a pointer to it, C of a type of  *)
(* the standard library; the methods of T are in a file of their own.        *)
EXTENDS Resolution

MCFiles == {"p.go", "q.go", "qm.go", "r.go"}

Type(file, alias, u) == [file |-> file, alias |-> alias, underlying |-> u, embeds |-> FALSE]

MCTypes == [t \in {"P.S", "P.A", "P.N", "P.C", "Q.T", "Q.I", "R.T"} |->
    CASE t \in {"P.S"} -> Type("p.go", FALSE, <<"struct">>)
      [] t = "P.A" -> Type("p.go", TRUE, <<"Q.T">>)
      [] t = "P.N" -> Type("p.go", TRUE, <<"*", "P.A">>)
      [] t = "P.C" -> Type("p.go", TRUE, <<"*", "time.Time">>)
      [] t = "Q.T" -> Type("q.go", FALSE, <<"struct">>)
      [] t = "Q.I" -> Type("q.go", FALSE, <<"interface">>)
      [] t = "R.T" -> Type("r.go", FALSE, <<"struct">>)]

MCQualified == DOMAIN MCTypes \cup {"time.Time", "p.S", "p.A", "q.T", "q.I"}

MCOwner == [t \in MCQualified |->
    CASE t \in {"P.S", "P.A", "P.N", "P.C"} -> "P" [] t \in {"Q.T", "Q.I"} -> "Q" [] t = "R.T" -> "R"
      [] t = "time.Time" -> "time" [] t \in {"p.S", "p.A"} -> "p" [] OTHER -> "q"]

Packs == [P |-> "p", X |-> "p", Q |-> "q", R |-> "q"]

MCPublic == [w \in MCQualified \cup DOMAIN Packs \cup {"p", "q", "time", "gone", "C"} |->
    CASE w \in DOMAIN Packs -> Packs[w]
      [] w = "P.S" -> "p.S" [] w = "P.A" -> "p.A" [] w = "P.N" -> "p.N" [] w = "P.C" -> "p.C"
      [] w \in {"Q.T", "R.T"} -> "q.T" [] w = "Q.I" -> "q.I"
      [] OTHER -> w]

MCPackages == {
    [id |-> "P", path |-> "p", module |-> "m", test |-> FALSE],
    [id |-> "X", path |-> "p", module |-> "m", test |-> TRUE],
    [id |-> "Q", path |-> "q", module |-> "n", test |-> FALSE],
    [id |-> "R", path |-> "q", module |-> "o", test |-> FALSE]}

MCConnected == {<<"m", "n">>}

Declares(t, name, file) ==
    [of |-> t, name |-> name, file |-> file, pointer |-> FALSE,
     signature |-> [params |-> <<>>, results |-> <<>>, variadic |-> FALSE]]

MCMethods == {Declares("Q.T", "M", "qm.go"), Declares("Q.I", "M", "q.go"),
              Declares("R.T", "L", "r.go"), Declares("P.S", "L", "p.go")}

Fn(owner, name, file) == [owner |-> owner, name |-> name, file |-> file]

MCFunctions == {Fn("P", "F", "p.go"), Fn("Q", "F", "q.go"), Fn("R", "F", "r.go"),
                Fn("Q", "G", "qm.go"), Fn("P", "M", "p.go")}

MCStandardFunctions == {<<"time.Time", "M">>, <<"time", "F">>}

MCFieldsOf == [t \in DOMAIN MCTypes |->
    CASE t = "P.S" -> [s |-> <<"*", "P.S">>, a |-> <<"P.A">>, t |-> <<"Q.T">>,
                       i |-> <<"Q.I">>, c |-> <<"P.C">>]
      [] t = "Q.T" -> [i |-> <<"Q.I">>, n |-> <<"Q.T">>]
      [] OTHER -> [none \in {} |-> NoName]]

Function(caller, package, name) ==
    [caller |-> caller, module |-> "m", package |-> package, receiver |-> NoName,
     fields |-> <<>>, name |-> name, indirect |-> FALSE, cgo |-> FALSE]

Method_(caller, r, path, name) == [Function(caller, "P", name) EXCEPT !.receiver = r, !.fields = path]

MCCallSites == {
    Function("own", "P", "F"), Function("other", "Q", "F"), Function("ambiguous", "q", "F"),
    [Function("unconnected", "R", "F") EXCEPT !.module = "n"],
    [Function("inside", "R", "F") EXCEPT !.module = "o"],
    Function("standard", "time", "F"), Function("third", "gone", "G"),
    [Function("value", "P", "G") EXCEPT !.indirect = TRUE],
    [Function("c", "C", "G") EXCEPT !.cgo = TRUE],
    Function("removed", "Q", "L"), Function("again", "time", "F"),
    Method_("alias", <<"P.A">>, <<>>, "M"), Method_("pointer", <<"P.N">>, <<>>, "M"),
    Method_("field", <<"P.S">>, <<"a">>, "M"), Method_("fields", <<"P.A">>, <<"i">>, "M"),
    Method_("twice", <<"P.S">>, <<"s", "s", "t">>, "M"), Method_("interface", <<"Q.I">>, <<>>, "M"),
    Method_("time", <<"P.C">>, <<>>, "M"), Method_("times", <<"P.S">>, <<"c">>, "M"),
    Method_("direct", <<"*", "time.Time">>, <<>>, "M"),
    Method_("predeclared", <<"error">>, <<>>, "L"),
    Method_("missing", <<"Q.T">>, <<>>, "L"), Method_("declared", <<"P.S">>, <<>>, "L")}

MCRoots == {<<"p", "F">>, <<"q", "F">>, <<"q", "G">>, <<"q.T", "M">>, <<"q.I", "M">>, <<"q", "L">>,
            <<"q.T", "L">>, <<"p.S", "L">>, <<"time.Time", "M">>, <<"time", "F">>, <<"gone", "G">>,
            <<"p", "M">>, <<"p.A", "M">>}

\* The theorems about valid programs hold of this one.
ASSUME ProgramIsValid == ValidProgram

=============================================================================
