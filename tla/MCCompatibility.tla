-------------------------- MODULE MCCompatibility --------------------------
(* Types in three files: a struct with a value and a pointer method, aliases  *)
(* (of a type, of a pointer, of each other), interfaces, and defined types    *)
(* over numbers, slices, channels, a pointer, an interface and over a channel *)
(* type of the same and of another file.  A method is in another file than    *)
(* its type, and one has an alias among its parameters.                       *)
EXTENDS Compatibility

MCFiles == {"t", "a", "d"}

MCTypes ==
    [t \in {"T", "U", "A", "B", "P", "X", "Y", "I", "J", "E", "W", "H", "L", "D", "G", "C", "K", "R",
           "Q", "Z", "S", "V", "N", "O"} |->
        [file |-> IF t \in {"T", "U"} THEN "t"
                  ELSE IF t \in {"A", "P", "X", "Y", "K", "R", "V"} THEN "a" ELSE "d",
         alias |-> t \in {"A", "B", "P", "X", "Y", "R"},
         embeds |-> t = "W",
         underlying |->
            CASE t \in {"T", "U", "N"} -> <<"struct">>
              [] t = "A" -> <<"T">>
              [] t = "B" -> <<"A">>
              [] t = "P" -> <<"*", "T">>
              [] t = "X" -> <<"Y">>
              [] t = "Y" -> <<"X">>
              [] t = "D" -> <<"int8">>
              [] t = "G" -> <<"[]", "int">>
              [] t = "C" -> <<"chan ", "int">>
              [] t = "K" -> <<"chan ", "A">>
              [] t = "R" -> <<"<-chan ", "int">>
              [] t = "Q" -> <<"*", "T">>
              [] t = "Z" -> <<"I">>
              [] t \in {"S", "V"} -> <<"C">>
              [] OTHER -> <<"interface">>]]

MCQualified == DOMAIN MCTypes \cup {"Gone", "Time"}

Sig(params, results, variadic) ==
    [params |-> params, results |-> results, variadic |-> variadic]

\* The type, its file, the method, whether its receiver is a pointer, and its parameters.
MCMethods ==
    {[of |-> m[1], file |-> m[2], name |-> m[3], pointer |-> m[4], signature |-> Sig(m[5], <<>>, FALSE)] :
        m \in {<<"T", "t", "M", FALSE, <<>>>>, <<"T", "t", "N", TRUE, <<<<"int">>>>>>,
               <<"U", "a", "M", FALSE, <<>>>>, <<"U", "t", "F", FALSE, <<NoName>>>>,
               <<"N", "d", "N", FALSE, <<<<"A">>>>>>, <<"O", "d", "N", FALSE, <<<<"T">>>>>>,
               <<"I", "d", "M", FALSE, <<>>>>,
               <<"J", "d", "M", FALSE, <<>>>>, <<"J", "d", "N", FALSE, <<<<"int">>>>>>,
               <<"H", "d", "M", FALSE, <<>>>>, <<"H", "d", "F", FALSE, <<NoName>>>>,
               <<"L", "d", "N", FALSE, <<>>>>, <<"L", "d", "F", FALSE, <<NoName>>>>}}

NoContext == [kind |-> "none", expressions |-> 0, at |-> 0, targets |-> <<>>, literal |-> <<>>]

Value(n) == [values |-> <<n>>, constant |-> None, shown |-> TRUE]

Plain(params, arguments) ==
    [signature |-> Sig(params, <<>>, FALSE), missing |-> FALSE, arguments |-> arguments,
     spread |-> FALSE, context |-> NoContext, receiver |-> NoName, method |-> "",
     declared |-> NoName, arch |-> "amd64"]

\* X and Y are aliases of each other, which the compiler refuses: X stands for both.
Names == {<<t>> : t \in (DOMAIN MCTypes \ {"Y"}) \cup {"Gone", "int", "uint8", "byte", "string", "any"}}
            \cup {<<"*", "T">>, <<"*", "U">>, <<"*", "int">>, <<"*", "Gone">>,
                  <<"*", "A">>, <<"*", "I">>,
                  <<"chan ", "int">>, <<"chan<- ", "int">>, <<"<-chan ", "int">>,
                  <<"chan ", "T">>, <<"<-chan ", "A">>, <<"[2]", "T">>, <<"[2]", "B">>,
                  <<"[3]", "T">>, <<"[]", "int">>, <<"[]", "T">>, NoName}

PairCalls == {Plain(<<t>>, <<Value(v)>>) : v \in Names, t \in Names}

\* Arguments against the parameters of a signature with a variadic one.
VariadicCalls ==
    {[Plain(<<>>, as) EXCEPT !.signature = Sig(ps, <<>>, v), !.spread = s] :
        ps \in {<<<<"[]", "int">>>>, <<<<"string">>, <<"[]", "int">>>>, <<<<"int">>, <<"string">>, NoName>>},
        as \in UNION {[1..k -> {Value(<<"int">>), Value(<<"string">>), Value(<<"[]", "int">>)}] : k \in 0..3},
        v \in BOOLEAN, s \in BOOLEAN}

Constants ==
    [kind : {"untyped int", "untyped rune", "untyped float"}, whole : {TRUE},
     place : {s * (Power(p) + o) : s \in {-1, 1}, p \in {7, 8, 31, 32, 63, 64}, o \in {-1, 0, 1}} \cup {0}]
    \cup [kind : {"untyped float"}, place : {Power(3), Power(128)}, whole : {FALSE}]
    \cup [kind : {"untyped string", "untyped bool", "untyped complex"}, place : {0}, whole : {FALSE}]

ConstantCalls ==
    {[Plain(<<t>>, <<[values |-> <<>>, constant |-> c, shown |-> TRUE]>>) EXCEPT !.arch = arch] :
        t \in {<<w>> : w \in {"int", "int8", "uint8", "byte", "rune", "uint32", "int64", "uint64",
                              "uintptr", "float32", "complex64", "complex128", "string", "bool", "D", "any"}},
        c \in Constants, arch \in {"amd64", "386"}}

\* Constants for types that are none of the predeclared ones.
OtherConstantCalls ==
    {Plain(<<t>>, <<[values |-> <<>>, constant |-> [kind |-> k, place |-> 0, whole |-> TRUE], shown |-> TRUE]>>) :
        t \in {<<"E">>, <<"I">>, <<"W">>, <<"T">>, <<"G">>, <<"X">>, <<"Gone">>, <<"*", "T">>},
        k \in {"untyped int", "untyped string", "untyped bool"}}

To(kind, expressions, at, targets) ==
    [NoContext EXCEPT !.kind = kind, !.expressions = expressions, !.at = at, !.targets = targets]

ResultCalls ==
    {[Plain(<<>>, <<>>) EXCEPT !.signature = Sig(<<>>, rs, FALSE), !.context = c] :
        rs \in UNION {[1..k -> {<<"int">>, <<"T">>}] : k \in 0..2},
        c \in {To(kind, 1, 1, ts) : kind \in {"assign", "return"},
                    ts \in UNION {[1..k -> {<<"int">>, <<"A">>, AnyTarget, NoName}] : k \in 1..2}}
              \cup {To("var", 1, 1, <<<<"B">>>>)}
              \cup {To("assign", 2, i, ts) : i \in 1..2, ts \in {<<<<"string">>, <<"int">>>>, <<<<"A">>, <<"int">>>>}}}

MethodExpressionCalls ==
    {[Plain(<<>>, <<Value(v)>>) EXCEPT !.receiver = r, !.method = m] :
        v \in {<<"T">>, <<"*", "T">>}, m \in {"M", "N", "O"},
        r \in {<<"T">>, <<"*", "T">>, <<"A">>, <<"B">>, <<"P">>, <<"I">>, <<"*", "I">>, <<"X">>, <<"Gone">>}}
    \cup {[Plain(<<>>, <<Value(r)>>) EXCEPT !.receiver = r, !.method = "M", !.declared = d] :
        r \in {<<"Time">>, <<"*", "Time">>}, d \in {<<"Time">>, <<"*", "Time">>}}

\* f(g()), where g has other than one result.
SpreadResultCalls ==
    {Plain(ps, <<[values |-> vs, constant |-> None, shown |-> TRUE]>>) :
        vs \in {<<>>, <<<<"int">>, <<"T">>>>}, ps \in {<<>>, <<<<"A">>>>, <<<<"int">>, <<"A">>>>}}

\* A return in a function literal with the results of the function or others.
LiteralCalls ==
    {[Plain(<<>>, <<>>) EXCEPT !.signature = Sig(<<>>, rs, FALSE),
        !.context = [To("return", 1, 1, ts) EXCEPT !.literal = <<own>>]] :
        rs \in {<<<<"int">>>>}, ts \in {<<>>, <<<<"int">>>>}, own \in {<<<<"int">>>>, <<>>}}

MCCalls ==
    PairCalls \cup VariadicCalls \cup ConstantCalls \cup OtherConstantCalls \cup ResultCalls
        \cup MethodExpressionCalls \cup SpreadResultCalls \cup LiteralCalls
        \cup {[Plain(<<>>, <<>>) EXCEPT !.signature = None, !.missing = m] : m \in BOOLEAN}

=============================================================================
