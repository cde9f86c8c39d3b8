---------------------------- MODULE MCMethodSets ----------------------------
(* Four struct types, two interfaces and two aliases.  T embeds two types, A  *)
(* or B may embed C or a pointer back to T, A, B and C may declare the method *)
(* or a field of its name, and I may get the method from J, or twice.         *)
EXTENDS MethodSets

MCTypes == {"T", "X", "Y", "A", "B", "C", "I", "J", "error"}
MCPredeclared == {"error"}

R(t, p) == [type |-> t, pointer |-> p]

\* The embedded fields of T, A and B; a struct embeds itself by pointer only.
OfT == {<<R("A", FALSE), R("B", FALSE)>>, <<R("A", TRUE), R("B", FALSE)>>,
        <<R("B", FALSE), R("I", FALSE)>>, <<R("error", FALSE), R("B", TRUE)>>}
OfA == {<<>>, <<R("C", FALSE)>>, <<R("T", TRUE)>>}
OfB == {<<>>, <<R("C", TRUE)>>, <<R("A", TRUE), R("C", FALSE)>>}

\* How A, B and C declare the name.
Ways == {w \in [{"A", "B", "C"} -> {"none", "value", "pointer", "field"}] :
            w["B"] # "pointer" /\ w["C"] # "field"}

\* What I embeds; without anything it lists the method itself.
OfI == {<<>>, <<R("J", FALSE)>>, <<R("J", FALSE), R("error", FALSE)>>}

Make(t, a, b, i, w, broken) ==
    [embedded |-> [x \in MCTypes |->
        CASE x = "T" -> t [] x = "A" -> a [] x = "B" -> b [] x = "I" -> i [] OTHER -> <<>>],
     alias |-> [x \in MCTypes |-> CASE x = "X" -> <<R("T", TRUE)>>
                                      [] x = "Y" -> <<R("A", FALSE)>>
                                      [] OTHER -> <<>>],
     interfaces |-> {"I", "J"},
     field |-> {x \in DOMAIN w : w[x] = "field"},
     method |-> [x \in MCTypes |->
        IF x \in DOMAIN w /\ w[x] # "field" THEN w[x]
        ELSE IF x \in {"J", "error"} \/ (x = "I" /\ i = <<>>) THEN "interface" ELSE "none"],
     broken |-> broken]

\* The files of A or of C do not parse; their methods are in the same files, or
\* the types or the methods are in others.
Broken == {{}, {"type", "method"} \X {"A"}, {"type", "method"} \X {"C"},
           {<<"type", "C">>}, {<<"method", "A">>}, {<<"method", "C">>}}

MCPrograms ==
    {Make(t, a, b, <<>>, w, x) : t \in OfT, a \in OfA, b \in OfB, w \in Ways, x \in Broken}
    \cup
    \* The alias of A embedded in its place; I with what it embeds.
    {Make(t, a, b, i, w, x) :
        t \in {<<R("Y", FALSE), R("B", FALSE)>>, <<R("B", FALSE), R("I", FALSE)>>, <<R("I", FALSE)>>},
        a \in OfA \ {<<R("T", TRUE)>>}, b \in {<<>>, <<R("C", TRUE)>>}, i \in OfI,
        w \in Ways, x \in {{}, {"type", "method"} \X {"C"}}}

\* X is another name of *T.
MCReceivers == {R("T", FALSE), R("X", FALSE)}

\* The engine starts with nothing, or with the methods but not their types.
MCLoadedBefore == {{}, {"method"} \X MCTypes}

=============================================================================
