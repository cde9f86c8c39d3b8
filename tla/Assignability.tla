--------------------------- MODULE Assignability ---------------------------
(***************************************************************************)
(* The rules of the Go specification that a call is checked against: type  *)
(* identity, underlying types, method sets, assignability, representable   *)
(* constants, arguments and results.  They look at the declarations of the *)
(* whole program and know neither files nor an order.                      *)
(***************************************************************************)
EXTENDS TypeNames

\* A name in which `left' aliases may still be expanded.
Expansion == [name : Name, left : Nat]

EndsInAlias(n) == n # NoName /\ n[Len(n)] \in DOMAIN Types /\ Types[n[Len(n)]].alias

Expanded(n) == SubSeq(n, 1, Len(n) - 1) \o Types[n[Len(n)]].underlying

SpelledOut(n) == IF n = NoName THEN n ELSE Append(SubSeq(n, 1, Len(n) - 1), Spelled(n[Len(n)]))

\* The name with its aliases expanded.  A chain is no longer than the number of
\* types, unless it is a cycle.
Identity(n) ==
    LET expanded[s \in Expansion] ==
            IF EndsInAlias(s.name) /\ s.left > 0
            THEN expanded[[name |-> Expanded(s.name), left |-> s.left - 1]]
            ELSE SpelledOut(s.name)
    IN  expanded[[name |-> n, left |-> Cardinality(DOMAIN Types) + 1]]

Identical(m, n) == Identity(m) = Identity(n)

\* A type of its own is declared under this name.
IsDeclared(n) == IsKnown(n, Files) /\ ~TypeOf(n).alias

\* The names of declared interfaces.
DeclaredInterfaces == {n \in {<<t>> : t \in DOMAIN Types} : TypeOf(n).underlying = <<"interface">>}

\* The names of types that are declared as another type, and have its underlying type.
DeclaredOverTypes ==
    {n \in {<<t>> : t \in DOMAIN Types} :
        ~TypeOf(n).alias /\ TypeOf(n).underlying \notin {<<"interface">>, <<"struct">>, NoName}}

\* The underlying type; an interface or struct stands for itself.
Underlying(n) ==
    LET under[m \in Name, k \in Nat] ==
            LET i == Identity(m)
            IN  IF k > 0 /\ i \in DeclaredOverTypes THEN under[TypeOf(i).underlying, k - 1] ELSE i
    IN  under[n, Cardinality(DOMAIN Types) + 1]

IsInterface(n) ==
    Underlying(n) \in DeclaredInterfaces \cup {<<"any">>, <<"interface{}">>, <<"error">>}

IsDefined(n) ==
    LET i == Identity(n) IN builtin(i) \/ i = <<"error">> \/ IsDeclared(i)

IdentityOf(sig) ==
    [sig EXCEPT !.params = [i \in DOMAIN @ |-> Identity(@[i])],
                !.results = [i \in DOMAIN @ |-> Identity(@[i])]]

Described(ms) == {<<m.name, IdentityOf(m.signature)>> : m \in ms}

\* The methods a value of type n has.
MethodSet(n) ==
    LET i == Identity(n)
        of(t) == {m \in Methods : <<m.of>> = t}
    IN  IF IsInterface(i) THEN Described(of(Underlying(i)))
        ELSE IF HasPrefix(i, {"*"}) /\ ~IsInterface(Tail(i)) THEN Described(of(Tail(i)))
        ELSE Described({m \in of(i) : ~m.pointer})

IsChannel(n) == HasPrefix(Underlying(n), Directions)

\* A value of type v may be assigned to a variable of type t.
Assignable(v, t) ==
    LET uv == Underlying(v)
        ut == Underlying(t)
        notBothDefined == ~IsDefined(v) \/ ~IsDefined(t)
    IN  \/ Identical(v, t)
        \/ IsInterface(t) /\ MethodSet(t) \subseteq MethodSet(v)
        \/ notBothDefined /\ uv = ut
        \/ /\ notBothDefined
           /\ IsChannel(v) /\ IsChannel(t)
           /\ Head(uv) = "chan "
           /\ Identical(Tail(uv), Tail(ut))

-----------------------------------------------------------------------------
(* Constants. *)

\* The place of 2^p on a scale that has the order of 0, 2^p - 1, 2^p, 2^p + 1
\* and their negatives for p >= 2, where the places are 4p - 1, 4p and 4p + 1.
Power(p) == 4 * p

\* An untyped constant: its kind, and a number's place and whether it is whole.
Constant == [kind : STRING, place : Int, whole : BOOLEAN]

Numbers == {"untyped int", "untyped rune", "untyped float"}

IntBits(arch) == IF arch \in {"386", "arm", "mips", "mipsle"} THEN 32 ELSE 64

\* The smallest and the largest integer of a type.
Extremes(t, arch) ==
    LET bits == CASE t \in {"int8", "uint8", "byte"} -> 8
                  [] t \in {"int16", "uint16"} -> 16
                  [] t \in {"int32", "uint32", "rune"} -> 32
                  [] t \in {"int64", "uint64"} -> 64
                  [] OTHER -> IntBits(arch)
    IN  IF t \in Unsigned THEN <<0, Power(bits) - 1>>
        ELSE <<-Power(bits - 1), Power(bits - 1) - 1>>

\* Constant c may be passed for type t on the target arch.
Representable(c, t, arch) ==
    LET u == Underlying(t)
        range == Extremes(u[1], arch)
        abs == IF c.place < 0 THEN -c.place ELSE c.place
    IN  IF IsInterface(t) THEN MethodSet(t) = {}
        ELSE IF c.kind = "untyped string" THEN u = <<"string">>
        ELSE IF c.kind = "untyped bool" THEN u = <<"bool">>
        ELSE IF ~numeric(u) THEN FALSE
        ELSE IF c.kind = "untyped complex" THEN u[1] \in Complexes
        ELSE IF u[1] \in {"float32", "complex64"} THEN abs < Power(128) - 1
        ELSE IF u[1] \in {"float64", "complex128"} THEN abs < Power(1024) - 1
        ELSE c.whole /\ range[1] <= c.place /\ c.place <= range[2]

=============================================================================
