----------------------------- MODULE TypeNames -----------------------------
(***************************************************************************)
(* The names by which the analysis knows types.  A name is a text of which *)
(* the code only looks at the prefix, so here it is the sequence of its     *)
(* words: <<"*", "p.T">>, <<"[2]", "int">>, <<"chan ", "p.T">>.  A type     *)
(* the source model cannot express has the empty name.                      *)
(***************************************************************************)
EXTENDS Integers, Sequences, FiniteSets

CONSTANTS
    Files,
    Qualified,  \* the words with a package in them, declared or not
    Types,      \* what the workspace declares: a function on IDs such as "p.T"
    Methods     \* the declared methods, those of interfaces included

NoName == <<>>

Name == Seq(STRING)

Signature == [params : Seq(Name), results : Seq(Name), variadic : BOOLEAN]

\* Type and Function of model.go, as far as names of types are concerned.  The
\* underlying name is <<"interface">>, <<"struct">> or that of another type.
Declaration == [file : Files, alias : BOOLEAN, underlying : Name, embeds : BOOLEAN]

Method == [of : DOMAIN Types, name : STRING, file : Files, pointer : BOOLEAN,
           signature : Signature]

ASSUME TypesAssumption ==
    /\ DOMAIN Types \subseteq Qualified
    /\ \A t \in DOMAIN Types : Types[t] \in Declaration
    /\ Methods \subseteq Method

-----------------------------------------------------------------------------

Directions == {"chan ", "chan<- ", "<-chan "}
Arrays == {"[2]", "[3]"}

Signed == {"int", "int8", "int16", "int32", "int64", "rune"}
Unsigned == {"uint", "uint8", "uint16", "uint32", "uint64", "uintptr", "byte"}
Floats == {"float32", "float64"}
Complexes == {"complex64", "complex128"}

numeric(n) == Len(n) = 1 /\ n[1] \in Signed \cup Unsigned \cup Floats \cup Complexes

builtin(n) == numeric(n) \/ n \in {<<"bool">>, <<"string">>}

IsAny(n) == n \in {<<"any">>, <<"interface{}">>}

HasPrefix(n, words) == n # NoName /\ Head(n) \in words

receiverID(n) == IF HasPrefix(n, {"*"}) THEN Tail(n) ELSE n

\* e.types[n] exists when the files in `known' are loaded.
IsKnown(n, known) ==
    Len(n) = 1 /\ n[1] \in DOMAIN Types /\ Types[n[1]].file \in known

TypeOf(n) == Types[n[1]]

\* The file that definitions loads for the name of a type.
FileFor(n) == IF IsKnown(n, Files) THEN {TypeOf(n).file} ELSE {}

\* The one spelling of a predeclared name, its own name if it has no other.
Spelled(w) ==
    CASE w = "byte" -> "uint8" [] w = "rune" -> "int32" [] w = "any" -> "interface{}"
      [] OTHER -> w

Unknown == [name |-> NoName, files |-> {}]

\* canonicalArrayElement: aliases expanded, defined types kept, where the files
\* in `readable' can be loaded; with the files it loads.
canonicalArrayElement(n, readable) ==
    LET expanded[m \in Name, seen \in SUBSET Name] ==
            IF m = NoName \/ m \in seen THEN Unknown
            ELSE IF Len(m) > 1
            THEN [expanded[Tail(m), seen \cup {m}] EXCEPT
                    !.name = IF @ = NoName THEN @ ELSE <<Head(m)>> \o @]
            ELSE IF builtin(m) \/ IsAny(m)
            THEN [name |-> <<Spelled(m[1])>>, files |-> {}]
            ELSE IF ~IsKnown(m, readable) THEN Unknown
            ELSE IF ~TypeOf(m).alias THEN [name |-> m, files |-> FileFor(m)]
            ELSE [expanded[TypeOf(m).underlying, seen \cup {m}] EXCEPT !.files = @ \cup FileFor(m)]
    IN  expanded[n, {}]

\* Where a chain of aliases is: at a type, through a pointer or not.
Chain == [type : Name, pointer : BOOLEAN, seen : SUBSET Name]

\* The type is an alias as far as the loaded files tell.
KnownAlias(n, loaded) ==
    IsKnown(n, loaded) /\ TypeOf(n).alias /\ TypeOf(n).underlying # NoName

LeadsOn(s, loaded) ==
    /\ s.type \notin s.seen
    /\ KnownAlias(s.type, loaded)
    /\ ~(s.pointer /\ HasPrefix(TypeOf(s.type).underlying, {"*"}))

Onward(s) ==
    LET u == TypeOf(s.type).underlying
    IN  [type |-> receiverID(u), pointer |-> s.pointer \/ HasPrefix(u, {"*"}),
         seen |-> s.seen \cup {s.type}]

\* What the chain from n ends with at s.
EndOfChain(s, n, loaded) ==
    IF s.type \in s.seen \/ KnownAlias(s.type, loaded) THEN n
    ELSE IF s.pointer THEN <<"*">> \o s.type ELSE s.type

\* canonicalAliasReceiver: the type that a receiver is an alias of, as far as
\* the loaded files tell; a pointer to an alias of a pointer stays as it is.
canonicalAliasReceiver(n, loaded) ==
    LET followed[s \in Chain] ==
            IF LeadsOn(s, loaded) THEN followed[Onward(s)] ELSE EndOfChain(s, n, loaded)
    IN  followed[[type |-> receiverID(n), pointer |-> HasPrefix(n, {"*"}), seen |-> {}]]

=============================================================================
