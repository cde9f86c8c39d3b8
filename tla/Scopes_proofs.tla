--------------------------- MODULE Scopes_proofs ---------------------------
(***************************************************************************)
(* Proofs about Scopes, for bodies of any length over any names: what the  *)
(* walk keeps in its scopes is what Go's scopes say of the nodes before.   *)
(***************************************************************************)
EXTENDS Scopes, Indices, TLAPS

-----------------------------------------------------------------------------
(* Depths. *)

LEMMA NodeTypes ==
    ASSUME NEW b \in Seq(Nodes), NEW i \in 1..Len(b)
    PROVE  /\ b[i] \in Nodes /\ b[i].name \in Names \cup {Other}
           /\ b[i].value \in Names \cup {Other, Unpacked} /\ b[i].inside \in BOOLEAN
           /\ b[i].joined \in BOOLEAN
           /\ b[i].op \in {"open", "close", "define", "assign", "var", "range", "call"}
           /\ b[i].op \notin {"open", "close"} => b[i].name \in Names
  <1>1. b[i] \in Nodes
    OBVIOUS
  <1>2. QED
    BY <1>1, ScopesAssumption DEF Node

LEMMA OneMoreNode ==
    ASSUME NEW k \in Nat
    PROVE  /\ k + 1 \in 1..(k + 1)
           /\ \A j \in 1..k : j \in 1..(k + 1) /\ j # k + 1
           /\ \A j \in 1..(k + 1) : j \in 1..k \/ j = k + 1
  OBVIOUS

LEMMA NodesUpTo ==
    ASSUME NEW k \in Nat
    PROVE  /\ (k + 1) - 1 = k /\ k \in 0..k
           /\ \A i \in 0..(k + 1) : i \in 0..k \/ i = k + 1
           /\ \A i \in 0..k : \A j \in 1..i : j \in 0..k /\ j \in 1..k
           /\ \A j \in 1..k : j \in Nat /\ \A v \in 0..j : v # k + 1
           /\ \A j \in 1..(k + 1) : j \in Nat
           /\ \A j \in 1..(k + 1) : \A v \in 0..j : v = k + 1 => j = k + 1
  OBVIOUS

LEMMA NotAfter ==
    ASSUME NEW k \in Nat, NEW j \in 1..k, NEW v \in 0..j
    PROVE  v # k + 1
  OBVIOUS

LEMMA LastNode ==
    ASSUME NEW b \in Seq(Nodes), NEW k \in Nat, Len(b) = k + 1
    PROVE  k + 1 \in 1..Len(b) /\ k \in 0..Len(b) /\ (k + 1) - 1 = k
  <1>1. (k + 1) - 1 = k
    OBVIOUS
  <1>2. QED
    BY <1>1

Turns(b, k) == IF b[k].op \in {"open", "range"} THEN 1 ELSE IF b[k].op = "close" THEN -1 ELSE 0

LEMMA Counting ==
    ASSUME NEW P, NEW k \in Nat
    PROVE  LET n(m) == Cardinality({i \in 1..m : i \in P})
           IN  n(k) \in Nat /\ n(k + 1) = n(k) + (IF k + 1 \in P THEN 1 ELSE 0)
  <1> DEFINE S(m) == {i \in 1..m : i \in P}
  <1>1. 1 \in Int /\ k \in Int
    OBVIOUS
  <1>2. IsFiniteSet(1..k)
    BY <1>1, FS_Interval
  <1>3. IsFiniteSet(S(k))
    BY <1>2, FS_Subset
  <1>4. CASE k + 1 \in P
    <2>1. S(k + 1) = S(k) \cup {k + 1} /\ k + 1 \notin S(k)
      BY <1>4
    <2> HIDE DEF S
    <2>2. Cardinality(S(k + 1)) = Cardinality(S(k)) + 1 /\ Cardinality(S(k)) \in Nat
      BY <1>3, <2>1, FS_AddElement, FS_CardinalityType
    <2>3. QED
      BY <1>4, <2>2 DEF S
  <1>5. CASE k + 1 \notin P
    <2>1. S(k + 1) = S(k)
      BY <1>5
    <2> HIDE DEF S
    <2>2. Cardinality(S(k)) \in Nat
      BY <1>3, FS_CardinalityType
    <2>3. QED
      BY <1>5, <2>1, <2>2 DEF S
  <1>6. QED
    BY <1>4, <1>5

LEMMA Depths ==
    ASSUME NEW b, NEW k \in Nat
    PROVE  /\ Depth(b, k) \in Int /\ Depth(b, 0) = 1
           /\ Depth(b, k + 1) = Depth(b, k) + Turns(b, k + 1)
  <1> DEFINE P == {i \in Nat : b[i].op \in {"open", "range"}}
             Q == {i \in Nat : b[i].op = "close"}
             S(m) == {i \in 1..m : i \in P}
             T(m) == {i \in 1..m : i \in Q}
  <1>1. \A m \in Nat : Depth(b, m) = 1 + Cardinality(S(m)) - Cardinality(T(m))
    <2>1. ASSUME NEW m \in Nat
          PROVE  /\ {i \in 1..m : b[i].op \in {"open", "range"}} = S(m)
                 /\ {i \in 1..m : b[i].op = "close"} = T(m)
      OBVIOUS
    <2>2. QED
      BY <2>1 DEF Depth
  <1>2. /\ Cardinality(S(k)) \in Nat
        /\ Cardinality(S(k + 1)) = Cardinality(S(k)) + (IF k + 1 \in P THEN 1 ELSE 0)
        /\ Cardinality(T(k)) \in Nat
        /\ Cardinality(T(k + 1)) = Cardinality(T(k)) + (IF k + 1 \in Q THEN 1 ELSE 0)
    <2> HIDE DEF P, Q
    <2>1. QED
      BY Counting
  <1>3. Depth(b, 0) = 1
    <2>1. S(0) = {} /\ T(0) = {}
      OBVIOUS
    <2>2. QED
      BY <1>1, <2>1, FS_EmptySet
  <1>4. Turns(b, k + 1) = (IF k + 1 \in P THEN 1 ELSE 0) - (IF k + 1 \in Q THEN 1 ELSE 0)
    BY DEF Turns
  <1>5. Depth(b, k) = 1 + Cardinality(S(k)) - Cardinality(T(k))
        /\ Depth(b, k + 1) = 1 + Cardinality(S(k + 1)) - Cardinality(T(k + 1))
    BY <1>1
  <1> HIDE DEF P, Q, S, T
  <1>6. QED
    BY <1>2, <1>3, <1>4, <1>5

\* What is before node m decides what is so at node m.
Agree(b, c, m) == \A i \in 1..m : b[i] = c[i]

LEMMA AgreeingPlaces ==
    ASSUME NEW f, NEW b, NEW c, NEW m \in Nat, Agree(b, c, m), NEW k \in 0..m
    PROVE  /\ Depth(b, k) = Depth(c, k)
           /\ \A j \in 1..k : Encloses(b, j, k) <=> Encloses(c, j, k)
           /\ \A n : \A j \in 1..k : DeclaresAt(f, b, j, n) <=> DeclaresAt(f, c, j, n)
           /\ \A n : Variable(f, b, n, k) = Variable(f, c, n, k)
           /\ \A n : IsLocal(f, b, n, k) <=> IsLocal(f, c, n, k)
           /\ \A n : IsVariable(f, b, n, k) <=> IsVariable(f, c, n, k)
  <1>1. ASSUME NEW i \in 0..m PROVE Depth(b, i) = Depth(c, i)
    <2>1. /\ {j \in 1..i : b[j].op \in {"open", "range"}} = {j \in 1..i : c[j].op \in {"open", "range"}}
          /\ {j \in 1..i : b[j].op = "close"} = {j \in 1..i : c[j].op = "close"}
      BY DEF Agree
    <2>2. QED
      BY <2>1 DEF Depth
  <1>2. \A i \in 1..m : \A j \in 1..i : Encloses(b, j, i) <=> Encloses(c, j, i)
    BY <1>1 DEF Encloses
  <1>3. ASSUME NEW j \in 1..m, NEW n PROVE DeclaresAt(f, b, j, n) <=> DeclaresAt(f, c, j, n)
    <2>1. b[j] = c[j] /\ Depth(b, j) = Depth(c, j)
      BY <1>1 DEF Agree
    <2>2. \A i \in 1..(j - 1) : /\ b[i] = c[i] /\ Depth(b, i) = Depth(c, i)
                                /\ Encloses(b, i, j) <=> Encloses(c, i, j)
      BY <1>1, <1>2 DEF Agree
    <2>3. QED
      BY <2>1, <2>2 DEF DeclaresAt
  <1>4. ASSUME NEW n PROVE Variable(f, b, n, k) = Variable(f, c, n, k)
    <2>1. {j \in 1..k : DeclaresAt(f, b, j, n) /\ Encloses(b, j, k)}
            = {j \in 1..k : DeclaresAt(f, c, j, n) /\ Encloses(c, j, k)}
      BY <1>2, <1>3
    <2>2. QED
      BY <2>1 DEF Variable
  <1>5. QED
    BY <1>1, <1>2, <1>3, <1>4 DEF IsLocal, IsVariable

-----------------------------------------------------------------------------
(* Statements. *)

LEMMA Starts ==
    ASSUME NEW b, NEW j \in Nat \ {0}
    PROVE  /\ Start(b, j) \in 1..j
           /\ \A i \in (Start(b, j) + 1)..j : b[i].joined
           /\ ~b[j].joined => Start(b, j) = j
  <1> DEFINE all == {1} \cup {i \in 1..j : ~b[i].joined}
  <1>1. all \subseteq 1..j /\ all # {}
    OBVIOUS
  <1>2. Start(b, j) = Max(all)
    BY DEF Start
  <1>3. Start(b, j) \in all /\ \A i \in all : i <= Start(b, j)
    <2>1. 1..j \subseteq Int /\ all \subseteq 0..j
      BY <1>1
    <2> HIDE DEF all
    <2>2. \E v \in all : \A i \in all : v >= i
      BY <1>1, <2>1, GreatestElement
    <2>3. Max(all) \in all /\ \A i \in all : Max(all) >= i
      BY <2>2 DEF Max
    <2>4. \A i \in all : i \in Int
      BY <2>1
    <2>5. QED
      BY <1>2, <2>3, <2>4
  <1>4. \A i \in (Start(b, j) + 1)..j : b[i].joined
    <2>1. SUFFICES ASSUME NEW i \in (Start(b, j) + 1)..j, ~b[i].joined PROVE FALSE
      OBVIOUS
    <2>2. Start(b, j) \in 1..j
      BY <1>1, <1>3
    <2>3. i \in 1..j /\ i > Start(b, j)
      BY <2>2
    <2>4. QED
      BY <1>3, <2>1, <2>2, <2>3
  <1>5. ~b[j].joined => Start(b, j) = j
    <2>1. Start(b, j) \in 1..j
      BY <1>1, <1>3
    <2>2. ~b[j].joined => j <= Start(b, j)
      BY <1>3
    <2>3. QED
      BY <2>1, <2>2
  <1>6. QED
    BY <1>1, <1>3, <1>4, <1>5

LEMMA NextStart ==
    ASSUME NEW b, NEW k \in Nat \ {0}, b[k + 1].joined
    PROVE  Start(b, k + 1) = Start(b, k)
  <1>1. {i \in 1..(k + 1) : ~b[i].joined} = {i \in 1..k : ~b[i].joined}
    OBVIOUS
  <1>2. QED
    BY <1>1 DEF Start

LEMMA AgreeingStarts ==
    ASSUME NEW b, NEW c, NEW m \in Nat, Agree(b, c, m), NEW k \in 0..m
    PROVE  Start(b, k) = Start(c, k)
  <1>1. {i \in 1..k : ~b[i].joined} = {i \in 1..k : ~c[i].joined}
    BY DEF Agree
  <1>2. QED
    BY <1>1 DEF Start

\* A further name belongs to a statement of the kind of the node before.
JoinsBefore(b) ==
    \A i \in 1..Len(b) : b[i].joined => i > 1 /\ b[i].op \in Giving /\ b[i - 1].op = b[i].op

LEMMA StatementNodes ==
    ASSUME NEW b, NEW k \in 1..Len(b), Len(b) \in Nat, JoinsBefore(b), b[k].op \in Giving
    PROVE  /\ Start(b, k) \in 1..k
           /\ \A i \in Start(b, k)..k : b[i].op \in Giving
  <1>1. k \in Nat \ {0} /\ Start(b, k) \in 1..k /\ \A i \in (Start(b, k) + 1)..k : b[i].joined
    BY Starts
  <1>2. ASSUME NEW i \in Start(b, k)..k, i # k PROVE b[i].op \in Giving
    <2>1. i + 1 \in (Start(b, k) + 1)..k /\ i + 1 \in 1..Len(b) /\ (i + 1) - 1 = i
      BY <1>1, <1>2
    <2>2. b[i + 1].joined
      BY <1>1, <2>1
    <2>3. QED
      BY <2>1, <2>2 DEF JoinsBefore
  <1>3. QED
    BY <1>1, <1>2

-----------------------------------------------------------------------------
(* Variables. *)

\* The variable of a name is the last of its declarations, which is among the nodes.
LEMMA Variables ==
    ASSUME NEW f, NEW b, NEW n, NEW k \in Nat
    PROVE  LET at == {j \in 1..k : DeclaresAt(f, b, j, n) /\ Encloses(b, j, k)}
           IN  /\ Variable(f, b, n, k) \in 0..k
               /\ at = {} => Variable(f, b, n, k) = 0
               /\ at # {} => Variable(f, b, n, k) # 0
               /\ \A j \in at : Variable(f, b, n, k) >= j
               /\ k \in at => Variable(f, b, n, k) = k
  <1> DEFINE at == {j \in 1..k : DeclaresAt(f, b, j, n) /\ Encloses(b, j, k)}
             all == {0} \cup at
  <1>1. \A j \in at : j \in 1..k
    OBVIOUS
  <1> HIDE DEF at
  <1>2. all \subseteq 0..k /\ all # {}
    BY <1>1
  <1>3. \E v \in all : \A j \in all : v >= j
    BY <1>2, GreatestElement
  <1>4. Max(all) \in all /\ \A j \in all : Max(all) >= j
    BY <1>3 DEF Max
  <1>5. Variable(f, b, n, k) = Max(all)
    BY DEF Variable, at
  <1>6. Variable(f, b, n, k) \in all /\ \A j \in all : Variable(f, b, n, k) >= j
    BY <1>4, <1>5
  <1>7. /\ Variable(f, b, n, k) \in 0..k
        /\ at = {} => Variable(f, b, n, k) = 0
        /\ at # {} => Variable(f, b, n, k) # 0
        /\ \A j \in at : Variable(f, b, n, k) >= j
        /\ k \in at => Variable(f, b, n, k) = k
    BY <1>1, <1>2, <1>6
  <1>8. QED
    BY <1>7 DEF at

\* The nodes that say something of n after node k.
View(b, n, k) ==
    {i \in 1..k : /\ b[i].name = n /\ b[i].op \in {"define", "assign", "var", "range"}
                  /\ Encloses(b, i, k)}

\* n is declared in the innermost scope after node k.
IsDeclared(f, b, n, k) ==
    \/ n \in f.params /\ Depth(b, k) = 1
    \/ \E i \in View(b, n, k) : b[i].op \in {"define", "var"} /\ Depth(b, i) = Depth(b, k)

LEMMA DeclaringNodes ==
    ASSUME NEW f, NEW b, NEW n, NEW k \in Nat
    PROVE  {j \in 1..k : DeclaresAt(f, b, j, n) /\ Encloses(b, j, k)}
                = {j \in View(b, n, k) : DeclaresAt(f, b, j, n)}
  BY DEF View, DeclaresAt

\* Where the same nodes say something of n, it is the same.
LEMMA SameVariables ==
    ASSUME NEW f, NEW b, NEW n, NEW j \in Nat, NEW k \in Nat, View(b, n, j) = View(b, n, k)
    PROVE  /\ Variable(f, b, n, j) = Variable(f, b, n, k)
           /\ IsLocal(f, b, n, j) <=> IsLocal(f, b, n, k)
           /\ IsVariable(f, b, n, j) <=> IsVariable(f, b, n, k)
           /\ Depth(b, j) = Depth(b, k) => (IsDeclared(f, b, n, j) <=> IsDeclared(f, b, n, k))
  <1>1. Variable(f, b, n, j) = Variable(f, b, n, k)
    BY DeclaringNodes DEF Variable
  <1>2. QED
    BY <1>1 DEF IsLocal, IsVariable, IsDeclared

-----------------------------------------------------------------------------
(* Values. *)

LEMMA GiversAreNodes ==
    ASSUME NEW f, NEW b \in Seq(Nodes), NEW v \in Value(b)
    PROVE  /\ v.name \in Names \cup {Other, Unpacked} /\ v.at \in 0..Len(b) /\ v.at \in Nat
           /\ Len(b) \in Nat
           /\ Givers(f, b, v) \subseteq 1..v.at
  BY DEF Value, Givers

LEMMA GivenIsBefore ==
    ASSUME NEW f, NEW b \in Seq(Nodes), NEW v \in Value(b), IsGiven(f, b, v)
    PROVE  /\ Given(f, b, v) \in Value(b)
           /\ Given(f, b, v).at < v.at
  <1> DEFINE last == Max(Givers(f, b, v))
  <1>1. /\ v.at \in Nat /\ Givers(f, b, v) \subseteq 1..v.at /\ Givers(f, b, v) # {}
        /\ v.at \in 0..Len(b) /\ Len(b) \in Nat
    BY GiversAreNodes DEF IsGiven
  <1>2. last \in 1..v.at
    BY <1>1, IndicesHaveEnds
  <1>4. Given(f, b, v) = [name |-> b[last].value, at |-> Start(b, last) - 1]
    BY DEF Given
  <1> HIDE DEF last
  <1>3. last \in 1..Len(b) /\ Start(b, last) - 1 \in 0..Len(b) /\ Start(b, last) - 1 < v.at
    <2>1. last \in Nat \ {0}
      BY <1>1, <1>2
    <2>2. Start(b, last) \in 1..last
      BY <2>1, Starts
    <2>3. QED
      BY <1>1, <1>2, <2>2
  <1>5. b[last].value \in Names \cup {Other, Unpacked}
    BY <1>3, NodeTypes
  <1>6. QED
    BY <1>3, <1>4, <1>5 DEF Value

\* Going from a value to what was given, one comes to an end.
LEMMA ValuesEnd ==
    ASSUME NEW f, NEW b \in Seq(Nodes)
    PROVE  Ends(Value(b), {v \in Value(b) : IsGiven(f, b, v)},
                [v \in Value(b) |-> IF IsGiven(f, b, v) THEN Given(f, b, v) ELSE v],
                [v \in Value(b) |-> v.at])
  <1>1. \A v \in Value(b) : v.at \in Nat
    BY GiversAreNodes
  <1>2. \A v \in Value(b) : IsGiven(f, b, v) => Given(f, b, v) \in Value(b) /\ Given(f, b, v).at < v.at
    BY GivenIsBefore
  <1>3. QED
    BY <1>1, <1>2 DEF Ends

\* The function has the value of everything that can be looked for in the body.
HasValues(f, b, value) ==
    /\ value = [v \in Value(b) |-> IF IsGiven(f, b, v) THEN value[Given(f, b, v)] ELSE OwnValue(f, b, v)]
    /\ \A n, k : ValueOf(f, b, n, k) = value[[name |-> n, at |-> k]]

LEMMA ValueLoop ==
    ASSUME NEW f, NEW b \in Seq(Nodes)
    PROVE  \E value : HasValues(f, b, value)
  <1> DEFINE Go == {v \in Value(b) : IsGiven(f, b, v)}
             next == [v \in Value(b) |-> IF IsGiven(f, b, v) THEN Given(f, b, v) ELSE v]
             result == [v \in Value(b) |-> OwnValue(f, b, v)]
             size == [v \in Value(b) |-> v.at]
  <1>1. \E g : IsLoop(g, Value(b), Go, next, result)
    <2>1. Ends(Value(b), Go, next, size)
      BY ValuesEnd
    <2> HIDE DEF Go, next, result, size
    <2>2. QED
      BY <2>1, LoopsEnd
  <1>2. PICK g : g = [v \in Value(b) |-> IF v \in Go THEN g[next[v]] ELSE result[v]]
    BY <1>1 DEF IsLoop
  <1>3. \A v \in Value(b) : (IF v \in Go THEN g[next[v]] ELSE result[v])
            = (IF IsGiven(f, b, v) THEN g[Given(f, b, v)] ELSE OwnValue(f, b, v))
    OBVIOUS
  <1>4. g = [v \in Value(b) |-> IF IsGiven(f, b, v) THEN g[Given(f, b, v)] ELSE OwnValue(f, b, v)]
    BY <1>2, <1>3
  <1> DEFINE value == CHOOSE value : value =
                [v \in Value(b) |-> IF IsGiven(f, b, v) THEN value[Given(f, b, v)] ELSE OwnValue(f, b, v)]
  <1>5. value = [v \in Value(b) |-> IF IsGiven(f, b, v) THEN value[Given(f, b, v)] ELSE OwnValue(f, b, v)]
    BY <1>4
  <1>6. \A n, k : ValueOf(f, b, n, k) = value[[name |-> n, at |-> k]]
    BY DEF ValueOf
  <1> HIDE DEF value
  <1>7. QED
    BY <1>5, <1>6 DEF HasValues

LEMMA ValueStep ==
    ASSUME NEW f, NEW b \in Seq(Nodes), NEW n \in Names \cup {Other, Unpacked}, NEW k \in 0..Len(b)
    PROVE  LET v == [name |-> n, at |-> k]
           IN  /\ IsGiven(f, b, v) => ValueOf(f, b, n, k) = ValueOf(f, b, Given(f, b, v).name, Given(f, b, v).at)
               /\ ~IsGiven(f, b, v) => ValueOf(f, b, n, k) = OwnValue(f, b, v)
  <1>1. PICK value : HasValues(f, b, value)
    BY ValueLoop
  <1> DEFINE v == [name |-> n, at |-> k]
  <1>2. v \in Value(b)
    BY DEF Value
  <1>3. /\ value[v] = IF IsGiven(f, b, v) THEN value[Given(f, b, v)] ELSE OwnValue(f, b, v)
        /\ \A m, i : ValueOf(f, b, m, i) = value[[name |-> m, at |-> i]]
    BY <1>1, <1>2 DEF HasValues
  <1>4. Given(f, b, v) = [name |-> Given(f, b, v).name, at |-> Given(f, b, v).at]
    BY DEF Given
  <1>5. QED
    BY <1>3, <1>4

\* No block has ended that gave a value to a variable from outside.
Stays(f, b) == \A k \in 0..Len(b) : \A j \in 1..k : KeepsWhatIsGiven(f, b, j, k)

\* Where the same nodes say something of n, it has the same value.
LEMMA SameValues ==
    ASSUME NEW f, NEW b \in Seq(Nodes), NEW n \in Names, NEW j \in 0..Len(b), NEW k \in 0..Len(b),
           View(b, n, j) = View(b, n, k), Stays(f, b)
    PROVE  ValueOf(f, b, n, j) = ValueOf(f, b, n, k)
  <1> DEFINE v == [name |-> n, at |-> j]
             w == [name |-> n, at |-> k]
  <1>1. j \in Nat /\ k \in Nat
    OBVIOUS
  <1>2. /\ Variable(f, b, n, j) = Variable(f, b, n, k)
        /\ IsLocal(f, b, n, j) <=> IsLocal(f, b, n, k)
        /\ IsVariable(f, b, n, j) <=> IsVariable(f, b, n, k)
    BY <1>1, SameVariables
  <1>3. ASSUME NEW i \in 0..Len(b)
        PROVE  Givers(f, b, [name |-> n, at |-> i]) =
                {m \in View(b, n, i) : b[m].op \in {"define", "assign", "var"}
                                        /\ Variable(f, b, n, m) = Variable(f, b, n, i)}
    <2>1. \A m \in 1..i : b[m].op \in Giving /\ b[m].name = n
                            /\ Variable(f, b, n, m) = Variable(f, b, n, i) => Encloses(b, m, i)
      BY DEF Stays, KeepsWhatIsGiven
    <2>2. QED
      BY <2>1 DEF Givers, Gives, View, Giving
  <1>4. Givers(f, b, v) = Givers(f, b, w)
    BY <1>2, <1>3
  <1>5. (IsGiven(f, b, v) <=> IsGiven(f, b, w)) /\ Given(f, b, v) = Given(f, b, w)
        /\ OwnValue(f, b, v) = OwnValue(f, b, w)
    BY <1>2, <1>4 DEF IsGiven, Given, OwnValue
  <1>6. /\ IsGiven(f, b, v) => ValueOf(f, b, n, j) = ValueOf(f, b, Given(f, b, v).name, Given(f, b, v).at)
        /\ ~IsGiven(f, b, v) => ValueOf(f, b, n, j) = OwnValue(f, b, v)
    BY ValueStep
  <1>7. /\ IsGiven(f, b, w) => ValueOf(f, b, n, k) = ValueOf(f, b, Given(f, b, w).name, Given(f, b, w).at)
        /\ ~IsGiven(f, b, w) => ValueOf(f, b, n, k) = OwnValue(f, b, w)
    BY ValueStep
  <1> HIDE DEF v, w
  <1>8. QED
    BY <1>5, <1>6, <1>7

\* What comes after changes no value.
LEMMA AgreeingValues ==
    ASSUME NEW f, NEW b \in Seq(Nodes), NEW c \in Seq(Nodes), Len(b) <= Len(c), Agree(b, c, Len(b)),
           NEW n \in Names \cup {Other, Unpacked}, NEW k \in 0..Len(b)
    PROVE  ValueOf(f, b, n, k) = ValueOf(f, c, n, k)
  <1>1. /\ Len(b) \in Nat
        /\ \A i \in 1..Len(b) : \A m : Variable(f, b, m, i) = Variable(f, c, m, i)
        /\ \A i \in 0..Len(b) : \A m : /\ Variable(f, b, m, i) = Variable(f, c, m, i)
                                       /\ IsLocal(f, b, m, i) <=> IsLocal(f, c, m, i)
                                       /\ IsVariable(f, b, m, i) <=> IsVariable(f, c, m, i)
        /\ \A i \in 0..Len(b) : \A j \in 1..i : Encloses(b, j, i) <=> Encloses(c, j, i)
    <2>1. Len(b) \in Nat
      OBVIOUS
    <2>2. ASSUME NEW i \in 0..Len(b)
          PROVE  /\ \A m : /\ Variable(f, b, m, i) = Variable(f, c, m, i)
                           /\ IsLocal(f, b, m, i) <=> IsLocal(f, c, m, i)
                           /\ IsVariable(f, b, m, i) <=> IsVariable(f, c, m, i)
                 /\ \A j \in 1..i : Encloses(b, j, i) <=> Encloses(c, j, i)
      BY <2>1, AgreeingPlaces
    <2>3. \A i \in 1..Len(b) : i \in 0..Len(b)
      BY <2>1
    <2>4. QED
      BY <2>1, <2>2, <2>3
  <1>2. PICK g : HasValues(f, b, g)
    BY ValueLoop
  <1>3. PICK h : HasValues(f, c, h)
    BY ValueLoop
  <1>4. ASSUME NEW v \in Value(b)
        PROVE  /\ v \in Value(c)
               /\ IsGiven(f, b, v) <=> IsGiven(f, c, v)
               /\ IsGiven(f, b, v) => Given(f, b, v) = Given(f, c, v)
               /\ OwnValue(f, b, v) = OwnValue(f, c, v)
    <2>1. v.at \in 0..Len(b) /\ v \in Value(c)
      BY DEF Value
    <2>2. \A i \in 1..v.at : Gives(b, i, v.name) <=> Gives(c, i, v.name)
      BY <2>1 DEF Gives, Agree
    <2>3. Givers(f, b, v) = Givers(f, c, v)
      BY <1>1, <2>1, <2>2 DEF Givers
    <2>4. IsGiven(f, b, v) <=> IsGiven(f, c, v)
      BY <1>1, <2>1, <2>3 DEF IsGiven
    <2>5. ASSUME IsGiven(f, b, v) PROVE Given(f, b, v) = Given(f, c, v)
      <3>1. Givers(f, b, v) \subseteq 1..v.at /\ Givers(f, b, v) # {} /\ v.at \in Nat
        BY <2>5, GiversAreNodes DEF IsGiven
      <3>2. Max(Givers(f, b, v)) \in 1..v.at
        BY <3>1, IndicesHaveEnds
      <3>3. b[Max(Givers(f, b, v))] = c[Max(Givers(f, b, v))]
        BY <2>1, <3>2 DEF Agree
      <3>4. Start(b, Max(Givers(f, b, v))) = Start(c, Max(Givers(f, b, v)))
        <4>1. Max(Givers(f, b, v)) \in 0..Len(b) /\ Len(b) \in Nat
          BY <1>1, <2>1, <3>2
        <4>2. QED
          BY <4>1, AgreeingStarts
      <3>5. QED
        BY <2>3, <3>3, <3>4 DEF Given
    <2>6. OwnValue(f, b, v) = OwnValue(f, c, v)
      BY <1>1, <2>1 DEF OwnValue
    <2>7. QED
      BY <2>1, <2>4, <2>5, <2>6
  <1> DEFINE Go == {v \in Value(b) : IsGiven(f, b, v)}
             next == [v \in Value(b) |-> IF IsGiven(f, b, v) THEN Given(f, b, v) ELSE v]
             size == [v \in Value(b) |-> v.at]
             T == {v \in Value(b) : g[v] = h[v]}
  <1>5. Ends(Value(b), Go, next, size)
    BY ValuesEnd
  <1>6. ASSUME NEW v \in Value(b)
        PROVE  /\ g[v] = IF IsGiven(f, b, v) THEN g[Given(f, b, v)] ELSE OwnValue(f, b, v)
               /\ h[v] = IF IsGiven(f, c, v) THEN h[Given(f, c, v)] ELSE OwnValue(f, c, v)
    BY <1>2, <1>3, <1>4 DEF HasValues
  <1>7. HoldsBackwards(Value(b), Go, next, T)
    <2>1. ASSUME NEW v \in Value(b), v \notin Go PROVE v \in T
      BY <1>4, <1>6, <2>1
    <2>2. ASSUME NEW v \in Value(b), v \in Go, next[v] \in T PROVE v \in T
      <3>1. IsGiven(f, b, v) /\ g[Given(f, b, v)] = h[Given(f, b, v)]
        BY <2>2
      <3>2. QED
        BY <1>4, <1>6, <3>1
    <2> HIDE DEF Go, next, T
    <2>3. QED
      BY <2>1, <2>2 DEF HoldsBackwards
  <1>8. \A v \in Value(b) : v \in T
    <2> HIDE DEF Go, next, size, T
    <2>1. QED
      BY <1>5, <1>7, LoopInduction
  <1>9. [name |-> n, at |-> k] \in Value(b)
    BY DEF Value
  <1>10. g[[name |-> n, at |-> k]] = h[[name |-> n, at |-> k]]
    BY <1>8, <1>9
  <1>11. QED
    BY <1>2, <1>3, <1>10 DEF HasValues

-----------------------------------------------------------------------------
(* What one node changes. *)

Says(b, k, n) == b[k].name = n /\ b[k].op \in {"define", "assign", "var", "range"}

\* A node that closes no scope hides nothing.
LEMMA NextView ==
    ASSUME NEW b, NEW k \in Nat, b[k + 1].op # "close"
    PROVE  /\ \A i \in 1..k : Encloses(b, i, k + 1) <=> Encloses(b, i, k)
           /\ Encloses(b, k + 1, k + 1)
           /\ \A n : View(b, n, k + 1) = View(b, n, k) \cup (IF Says(b, k + 1, n) THEN {k + 1} ELSE {})
  <1>1. Depth(b, k) \in Int /\ Depth(b, k + 1) \in Int /\ Depth(b, k + 1) >= Depth(b, k)
    <2>1. Depth(b, k + 1) = Depth(b, k) + Turns(b, k + 1) /\ Depth(b, k) \in Int
      BY Depths
    <2>2. Turns(b, k + 1) \in {0, 1}
      BY DEF Turns
    <2>3. QED
      BY <2>1, <2>2
  <1>2. \A i \in Nat : Depth(b, i) \in Int
    BY Depths
  <1>3. ASSUME NEW i \in 1..k PROVE Encloses(b, i, k + 1) <=> Encloses(b, i, k)
    <2>1. i..(k + 1) = (i..k) \cup {k + 1} /\ k \in i..k
      OBVIOUS
    <2>2. Encloses(b, i, k) => Depth(b, k + 1) >= Depth(b, i)
      <3>1. Encloses(b, i, k) => Depth(b, k) >= Depth(b, i)
        BY <2>1 DEF Encloses
      <3>2. Depth(b, i) \in Int
        BY <1>2
      <3>3. QED
        BY <1>1, <3>1, <3>2
    <2>3. QED
      BY <2>1, <2>2 DEF Encloses
  <1>4. Encloses(b, k + 1, k + 1)
    BY <1>1 DEF Encloses
  <1>5. ASSUME NEW n
        PROVE  View(b, n, k + 1) = View(b, n, k) \cup (IF Says(b, k + 1, n) THEN {k + 1} ELSE {})
    <2>1. 1..(k + 1) = (1..k) \cup {k + 1}
      OBVIOUS
    <2>2. QED
      BY <1>3, <1>4, <2>1 DEF View, Says
  <1>6. QED
    BY <1>3, <1>4, <1>5

LEMMA QuietView ==
    ASSUME NEW b, NEW k \in Nat, b[k + 1].op # "close", NEW n, ~Says(b, k + 1, n)
    PROVE  View(b, n, k) = View(b, n, k + 1)
  <1>1. View(b, n, k + 1) = View(b, n, k) \cup (IF Says(b, k + 1, n) THEN {k + 1} ELSE {})
    BY NextView
  <1>2. QED
    BY <1>1

LEMMA NextDepth ==
    ASSUME NEW b, NEW k \in Nat
    PROVE  /\ Depth(b, k) \in Int /\ Depth(b, k + 1) \in Int
           /\ b[k + 1].op \in {"open", "range"} => Depth(b, k + 1) = Depth(b, k) + 1
           /\ b[k + 1].op = "close" => Depth(b, k + 1) = Depth(b, k) - 1
           /\ b[k + 1].op \notin {"open", "range", "close"} => Depth(b, k + 1) = Depth(b, k)
  <1>1. /\ Depth(b, k) \in Int
        /\ Depth(b, k + 1) = Depth(b, k) + Turns(b, k + 1)
    BY Depths
  <1>2. /\ Turns(b, k + 1) \in Int
        /\ b[k + 1].op \in {"open", "range"} => Turns(b, k + 1) = 1
        /\ b[k + 1].op = "close" => Turns(b, k + 1) = -1
        /\ b[k + 1].op \notin {"open", "range", "close"} => Turns(b, k + 1) = 0
    BY DEF Turns
  <1>3. QED
    BY <1>1, <1>2

\* Node o starts the scope that is the innermost at depth d after node k.
Opens(b, o, d, k) ==
    o \in 1..k /\ b[o].op \in {"open", "range"} /\ Depth(b, o) = d /\ Encloses(b, o, k)

\* A node that closes a scope hides all that was said since the scope started.
LEMMA ClosedView ==
    ASSUME NEW b, NEW k \in Nat, b[k + 1].op = "close", NEW o, Opens(b, o, Depth(b, k), k)
    PROVE  /\ o - 1 \in 0..k /\ Depth(b, k + 1) = Depth(b, o - 1)
           /\ \A n : View(b, n, k + 1) = View(b, n, o - 1)
  <1>1. o \in 1..k /\ o - 1 \in Nat /\ b[o].op \in {"open", "range"} /\ Depth(b, o) = Depth(b, k)
        /\ Encloses(b, o, k)
    BY DEF Opens
  <1>2. \A i \in Nat : Depth(b, i) \in Int
    BY Depths
  <1>3. Depth(b, k + 1) = Depth(b, k) - 1
    <2>1. Depth(b, k + 1) = Depth(b, k) + Turns(b, k + 1) /\ Turns(b, k + 1) = -1
      BY Depths DEF Turns
    <2>2. QED
      BY <1>2, <2>1
  <1>4. Depth(b, o) = Depth(b, o - 1) + 1
    <2>1. Depth(b, (o - 1) + 1) = Depth(b, o - 1) + Turns(b, (o - 1) + 1)
      BY <1>1, Depths
    <2>2. (o - 1) + 1 = o
      BY <1>1
    <2>3. QED
      BY <1>1, <2>1, <2>2 DEF Turns
  <1>5. Depth(b, k + 1) = Depth(b, o - 1)
    BY <1>1, <1>2, <1>3, <1>4
  <1>6. \A i \in o..k : Depth(b, i) > Depth(b, k + 1)
    <2>1. ASSUME NEW i \in o..k PROVE Depth(b, i) > Depth(b, k + 1)
      <3>1. Depth(b, i) >= Depth(b, o) /\ i \in Nat /\ o \in Nat
        BY <1>1 DEF Encloses
      <3>2. Depth(b, i) \in Int /\ Depth(b, o) \in Int
        BY <1>2, <3>1
      <3>3. QED
        BY <1>1, <1>3, <3>1, <3>2
    <2>2. QED
      BY <2>1
  <1>7. ASSUME NEW i \in o..k PROVE ~Encloses(b, i, k + 1)
    <2>1. Depth(b, i) > Depth(b, k + 1) /\ k + 1 \in i..(k + 1) /\ i \in Nat
      BY <1>1, <1>6
    <2>2. Depth(b, i) \in Int /\ Depth(b, k + 1) \in Int
      BY <1>2, <2>1
    <2>3. QED
      BY <2>1, <2>2 DEF Encloses
  <1>8. ASSUME NEW i \in 1..(o - 1) PROVE Encloses(b, i, k + 1) <=> Encloses(b, i, o - 1)
    <2>1. i..(k + 1) = (i..(o - 1)) \cup (o..k) \cup {k + 1} /\ o - 1 \in i..(o - 1) /\ i \in Nat
      BY <1>1
    <2>2. ASSUME Encloses(b, i, o - 1) PROVE Encloses(b, i, k + 1)
      <3>1. Depth(b, o - 1) >= Depth(b, i) /\ Depth(b, i) \in Int
        BY <1>2, <2>1, <2>2 DEF Encloses
      <3>2. \A m \in o..k : Depth(b, m) >= Depth(b, i)
        <4>1. ASSUME NEW m \in o..k PROVE Depth(b, m) >= Depth(b, i)
          <5>1. Depth(b, m) > Depth(b, k + 1) /\ m \in Nat
            BY <1>1, <1>6
          <5>2. Depth(b, m) \in Int /\ Depth(b, k + 1) \in Int
            BY <1>2, <5>1
          <5>3. QED
            BY <1>5, <3>1, <5>1, <5>2
        <4>2. QED
          BY <4>1
      <3>3. QED
        BY <1>5, <2>1, <2>2, <3>1, <3>2 DEF Encloses
    <2>3. QED
      BY <2>1, <2>2 DEF Encloses
  <1>9. ASSUME NEW n PROVE View(b, n, k + 1) = View(b, n, o - 1)
    <2>1. 1..(k + 1) = (1..(o - 1)) \cup (o..k) \cup {k + 1}
      BY <1>1
    <2>2. QED
      BY <1>7, <1>8, <2>1 DEF View
  <1>10. QED
    BY <1>1, <1>5, <1>9

-----------------------------------------------------------------------------
(* What a scope of the walk says. *)

Scope == [vars : SUBSET Names, funcs : [Names -> Names \cup {Other}], declared : SUBSET Names]

\* The names of s are those of Go after node k; no function is known of any other.
VarsAt(f, b, s, k) ==
    /\ s \in Scope
    /\ \A n \in Names : n \in s.vars <=> IsVariable(f, b, n, k)
    /\ \A n \in Names : n \in s.declared <=> IsDeclared(f, b, n, k)
    /\ s.declared \subseteq s.vars
    /\ \A n \in Names : n \notin s.vars => s.funcs[n] = Other

FuncsAt(f, b, s, k) == \A n \in Names : n \in s.vars => s.funcs[n] = ValueOf(f, b, n, k)

\* The functions are right where no form is left out of the bodies.
ScopeAt(f, b, s, k) == VarsAt(f, b, s, k) /\ (Forms = {} => FuncsAt(f, b, s, k))

LEMMA AgreeingScopes ==
    ASSUME NEW f, NEW b \in Seq(Nodes), NEW c \in Seq(Nodes), Len(b) <= Len(c), Agree(b, c, Len(b)),
           NEW s, NEW k \in 0..Len(b), ScopeAt(f, b, s, k)
    PROVE  ScopeAt(f, c, s, k)
  <1>1. Len(b) \in Nat /\ k \in Nat
    OBVIOUS
  <1>2. \A n : IsVariable(f, b, n, k) <=> IsVariable(f, c, n, k)
    BY <1>1, AgreeingPlaces
  <1>3. ASSUME NEW n PROVE IsDeclared(f, b, n, k) <=> IsDeclared(f, c, n, k)
    <2>1. \A i \in 1..k : b[i] = c[i]
      BY <1>1 DEF Agree
    <2>2. \A j \in 1..k : Encloses(b, j, k) <=> Encloses(c, j, k)
      BY <1>1, AgreeingPlaces
    <2>3. View(b, n, k) = View(c, n, k)
      BY <2>1, <2>2 DEF View
    <2>4. \A i \in 0..k : Depth(b, i) = Depth(c, i)
      <3>1. ASSUME NEW i \in 0..k PROVE Depth(b, i) = Depth(c, i)
        <4>1. i \in 0..Len(b)
          BY <1>1
        <4>2. QED
          BY <1>1, <4>1, AgreeingPlaces
      <3>2. QED
        BY <3>1
    <2>5. \A i \in View(b, n, k) : i \in 0..k /\ b[i] = c[i]
      BY <2>1 DEF View
    <2>6. Depth(b, k) = Depth(c, k)
      BY <1>1, <2>4
    <2>7. QED
      BY <2>3, <2>4, <2>5, <2>6 DEF IsDeclared
  <1>4. \A n \in Names : ValueOf(f, b, n, k) = ValueOf(f, c, n, k)
    BY AgreeingValues
  <1>5. QED
    BY <1>2, <1>3, <1>4 DEF ScopeAt, VarsAt, FuncsAt

LEMMA SameScopes ==
    ASSUME NEW f, NEW b \in Seq(Nodes), NEW j \in 0..Len(b), NEW k \in 0..Len(b),
           \A n : View(b, n, j) = View(b, n, k), Depth(b, j) = Depth(b, k),
           Forms = {} => Stays(f, b), NEW s, ScopeAt(f, b, s, j)
    PROVE  ScopeAt(f, b, s, k)
  <1>1. j \in Nat /\ k \in Nat
    OBVIOUS
  <1>2. \A n : /\ IsVariable(f, b, n, j) <=> IsVariable(f, b, n, k)
               /\ IsDeclared(f, b, n, j) <=> IsDeclared(f, b, n, k)
    BY <1>1, SameVariables
  <1>3. Forms = {} => \A n \in Names : ValueOf(f, b, n, j) = ValueOf(f, b, n, k)
    BY SameValues
  <1>4. QED
    BY <1>2, <1>3 DEF ScopeAt, VarsAt, FuncsAt

\* A node that says nothing of any name, and starts or ends no scope.
LEMMA SilentNode ==
    ASSUME NEW f, NEW c \in Seq(Nodes), NEW k \in Nat, Len(c) = k + 1, c[k + 1].op = "call",
           Forms = {} => Stays(f, c), NEW s, ScopeAt(f, c, s, k)
    PROVE  ScopeAt(f, c, s, k + 1)
  <1>1. \A n : ~Says(c, k + 1, n)
    BY DEF Says
  <1>2. \A n : View(c, n, k) = View(c, n, k + 1)
    BY <1>1, QuietView
  <1>3. Depth(c, k) = Depth(c, k + 1)
    BY NextDepth
  <1>4. k \in 0..Len(c) /\ k + 1 \in 0..Len(c)
    OBVIOUS
  <1>5. QED
    BY <1>2, <1>3, <1>4, SameScopes

\* In a scope that has just been started, nothing is declared.
LEMMA NothingDeclared ==
    ASSUME NEW f, NEW c, NEW k \in Nat, c[k + 1].op \in {"open", "range"}, Depth(c, k) >= 1, NEW n
    PROVE  ~IsDeclared(f, c, n, k + 1)
  <1>1. /\ Depth(c, k) \in Int /\ Depth(c, k + 1) = Depth(c, k) + 1
        /\ \A i \in Nat : Depth(c, i) \in Int
    BY NextDepth
  <1>2. ~(n \in f.params /\ Depth(c, k + 1) = 1)
    BY <1>1
  <1>3. ASSUME NEW i \in View(c, n, k + 1), c[i].op \in {"define", "var"} PROVE Depth(c, i) # Depth(c, k + 1)
    <2>1. i \in 1..k /\ Encloses(c, i, k)
      BY <1>3, NextView DEF View
    <2>2. Depth(c, k) >= Depth(c, i) /\ Depth(c, i) \in Int
      BY <1>1, <2>1 DEF Encloses
    <2>3. QED
      BY <1>1, <2>2
  <1>4. QED
    BY <1>2, <1>3 DEF IsDeclared

LEMMA OpenNode ==
    ASSUME NEW f, NEW c \in Seq(Nodes), NEW k \in Nat, Len(c) = k + 1, c[k + 1].op = "open",
           Depth(c, k) >= 1, Forms = {} => Stays(f, c), NEW s, ScopeAt(f, c, s, k)
    PROVE  ScopeAt(f, c, [s EXCEPT !.declared = {}], k + 1)
  <1> DEFINE t == [s EXCEPT !.declared = {}]
  <1>0. \A n : ~Says(c, k + 1, n)
    BY DEF Says
  <1>1. \A n : View(c, n, k) = View(c, n, k + 1)
    BY <1>0, QuietView
  <1>2. \A n : IsVariable(f, c, n, k) <=> IsVariable(f, c, n, k + 1)
    BY <1>1, SameVariables
  <1>3. Forms = {} => \A n \in Names : ValueOf(f, c, n, k) = ValueOf(f, c, n, k + 1)
    <2>1. k \in 0..Len(c) /\ k + 1 \in 0..Len(c)
      OBVIOUS
    <2>2. QED
      BY <1>1, <2>1, SameValues
  <1>4. \A n : ~IsDeclared(f, c, n, k + 1)
    BY NothingDeclared
  <1>5. t \in Scope /\ t.vars = s.vars /\ t.funcs = s.funcs /\ t.declared = {}
    BY DEF ScopeAt, VarsAt, Scope
  <1>6. ScopeAt(f, c, t, k + 1)
    <2> HIDE DEF t
    <2>1. QED
      BY <1>2, <1>3, <1>4, <1>5 DEF ScopeAt, VarsAt, FuncsAt
  <1>7. QED
    BY <1>6

\* A name that the node says nothing of stays as it is.
LEMMA OtherNames ==
    ASSUME NEW f, NEW c \in Seq(Nodes), NEW k \in Nat, Len(c) = k + 1, c[k + 1].op # "close",
           NEW n \in Names, ~Says(c, k + 1, n), Forms = {} => Stays(f, c)
    PROVE  /\ IsVariable(f, c, n, k) <=> IsVariable(f, c, n, k + 1)
           /\ Depth(c, k) = Depth(c, k + 1) => (IsDeclared(f, c, n, k) <=> IsDeclared(f, c, n, k + 1))
           /\ Forms = {} => ValueOf(f, c, n, k) = ValueOf(f, c, n, k + 1)
  <1>1. View(c, n, k) = View(c, n, k + 1)
    BY QuietView
  <1>2. k \in 0..Len(c) /\ k + 1 \in 0..Len(c) /\ k + 1 \in Nat
    OBVIOUS
  <1>3. Forms = {} => ValueOf(f, c, n, k) = ValueOf(f, c, n, k + 1)
    BY <1>1, <1>2, SameValues
  <1>4. QED
    BY <1>1, <1>2, <1>3, SameVariables

\* The node declares its name: it is the variable of the name.
LEMMA DeclaringNode ==
    ASSUME NEW f, NEW c, NEW k \in Nat, c[k + 1].op # "close", NEW n, DeclaresAt(f, c, k + 1, n)
    PROVE  Variable(f, c, n, k + 1) = k + 1 /\ IsLocal(f, c, n, k + 1) /\ IsVariable(f, c, n, k + 1)
  <1>1. Encloses(c, k + 1, k + 1)
    BY NextView
  <1>2. k + 1 \in Nat /\ k + 1 \in {j \in 1..(k + 1) : DeclaresAt(f, c, j, n) /\ Encloses(c, j, k + 1)}
    BY <1>1
  <1>3. Variable(f, c, n, k + 1) = k + 1
    BY <1>2, Variables
  <1>4. QED
    BY <1>3 DEF IsLocal, IsVariable

\* Where a longer body goes on, nothing that was given is lost.
LEMMA NextStays ==
    ASSUME NEW f, NEW b \in Seq(Nodes), NEW c \in Seq(Nodes), NEW k \in Nat,
           Len(b) = k, Len(c) = k + 1, Agree(b, c, k), Stays(f, b),
           IsConsidered(f, c), "inner assignment" \notin Forms
    PROVE  Stays(f, c)
  <1>1. ASSUME NEW i \in 0..k, NEW j \in 1..i PROVE KeepsWhatIsGiven(f, c, j, i)
    <2>1. KeepsWhatIsGiven(f, b, j, i) /\ b[j] = c[j] /\ j \in 0..k
      <3>1. j \in 0..k /\ j \in 1..k
        BY NodesUpTo
      <3>2. QED
        BY <3>1 DEF Stays, Agree
    <2>2. /\ \A n : Variable(f, b, n, i) = Variable(f, c, n, i)
          /\ Encloses(b, j, i) <=> Encloses(c, j, i)
      BY <1>1, AgreeingPlaces
    <2>3. \A n : Variable(f, b, n, j) = Variable(f, c, n, j)
      BY <2>1, AgreeingPlaces
    <2>4. QED
      BY <2>1, <2>2, <2>3 DEF KeepsWhatIsGiven
  <1>2. CASE c[k + 1].op = "close"
    <2>1. (k + 1) - 1 = k /\ c[k + 1].op \notin Giving
      BY <1>2, NodesUpTo DEF Giving
    <2>2. \A j \in 1..k : KeepsWhatIsGiven(f, c, j, k + 1)
      BY <1>2, <2>1 DEF IsConsidered
    <2>3. KeepsWhatIsGiven(f, c, k + 1, k + 1)
      BY <2>1 DEF KeepsWhatIsGiven
    <2>4. \A j \in 1..(k + 1) : j \in 1..k \/ j = k + 1
      BY OneMoreNode
    <2>5. \A i \in 0..(k + 1) : i \in 0..k \/ i = k + 1
      BY NodesUpTo
    <2>6. QED
      BY <1>1, <2>2, <2>3, <2>4, <2>5 DEF Stays
  <1>3. CASE c[k + 1].op # "close"
    <2>1. /\ \A i \in 1..k : Encloses(c, i, k + 1) <=> Encloses(c, i, k)
          /\ Encloses(c, k + 1, k + 1)
      BY <1>3, NextView
    <2>2. ASSUME NEW j \in 1..k PROVE KeepsWhatIsGiven(f, c, j, k + 1)
      <3> DEFINE n == c[j].name
      <3>1. SUFFICES ASSUME c[j].op \in Giving, Variable(f, c, n, j) = Variable(f, c, n, k + 1)
                     PROVE  Encloses(c, j, k)
        BY <2>1 DEF KeepsWhatIsGiven
      <3>2. ~DeclaresAt(f, c, k + 1, n)
        <4>1. Variable(f, c, n, j) \in 0..j
          <5>1. j \in Nat
            BY NodesUpTo
          <5>2. QED
            BY <5>1, Variables
        <4>2. DeclaresAt(f, c, k + 1, n) => Variable(f, c, n, k + 1) = k + 1
          BY <1>3, DeclaringNode
        <4>3. Variable(f, c, n, j) # k + 1
          BY <4>1, NotAfter
        <4>4. QED
          BY <3>1, <4>2, <4>3
      <3>3. {i \in 1..(k + 1) : DeclaresAt(f, c, i, n) /\ Encloses(c, i, k + 1)}
              = {i \in 1..k : DeclaresAt(f, c, i, n) /\ Encloses(c, i, k)}
        BY <2>1, <3>2, OneMoreNode
      <3>4. Variable(f, c, n, k + 1) = Variable(f, c, n, k)
        BY <3>3 DEF Variable
      <3>5. k \in 0..k
        BY NodesUpTo
      <3>6. QED
        BY <1>1, <3>1, <3>4, <3>5 DEF KeepsWhatIsGiven
    <2>3. KeepsWhatIsGiven(f, c, k + 1, k + 1)
      BY <2>1 DEF KeepsWhatIsGiven
    <2>4. \A j \in 1..(k + 1) : j \in 1..k \/ j = k + 1
      BY OneMoreNode
    <2>5. \A i \in 0..(k + 1) : i \in 0..k \/ i = k + 1
      BY NodesUpTo
    <2>6. QED
      BY <1>1, <2>2, <2>3, <2>4, <2>5 DEF Stays
  <1>4. QED
    BY <1>2, <1>3

\* Over the nodes of a statement a name is what it was, if none of them has it.
LEMMA StretchView ==
    ASSUME NEW b, NEW a \in Nat, NEW k \in Nat, a <= k, NEW n,
           \A i \in (a + 1)..k : b[i].op \in Giving /\ b[i].name # n
    PROVE  View(b, n, a) = View(b, n, k)
  <1>1. ASSUME NEW i \in a..k PROVE Depth(b, i) = Depth(b, a)
    <2>1. \A j \in (a + 1)..i : b[j].op \notin {"open", "range", "close"}
      BY DEF Giving
    <2>2. /\ {j \in 1..i : b[j].op \in {"open", "range"}} = {j \in 1..a : b[j].op \in {"open", "range"}}
          /\ {j \in 1..i : b[j].op = "close"} = {j \in 1..a : b[j].op = "close"}
      <3>1. 1..i = (1..a) \cup ((a + 1)..i)
        OBVIOUS
      <3>2. QED
        BY <2>1, <3>1
    <2>3. QED
      BY <2>2 DEF Depth
  <1>2. ASSUME NEW j \in 1..a PROVE Encloses(b, j, k) <=> Encloses(b, j, a)
    <2>1. j..k = (j..a) \cup (a..k) /\ a \in j..a
      OBVIOUS
    <2>2. QED
      BY <1>1, <2>1 DEF Encloses
  <1>3. 1..k = (1..a) \cup ((a + 1)..k)
    OBVIOUS
  <1>4. QED
    BY <1>2, <1>3 DEF View

LEMMA StretchValues ==
    ASSUME NEW f, NEW b \in Seq(Nodes), NEW k \in 0..Len(b), NEW a \in 0..k, NEW n \in Names,
           \A i \in (a + 1)..k : b[i].op \in Giving /\ b[i].name # n,
           Forms = {} => Stays(f, b)
    PROVE  /\ IsVariable(f, b, n, a) <=> IsVariable(f, b, n, k)
           /\ Forms = {} => ValueOf(f, b, n, a) = ValueOf(f, b, n, k)
  <1>1. a \in Nat /\ k \in Nat /\ a <= k /\ a \in 0..Len(b)
    OBVIOUS
  <1>2. View(b, n, a) = View(b, n, k)
    BY <1>1, StretchView
  <1>3. QED
    BY <1>1, <1>2, SameVariables, SameValues

LEMMA RangeNode ==
    ASSUME file \in Files, NEW c \in Seq(Nodes), NEW k \in Nat, Len(c) = k + 1, c[k + 1].op = "range",
           Depth(c, k) >= 1, IsConsidered(file, c), Forms = {} => Stays(file, c),
           NEW s, ScopeAt(file, c, s, k)
    PROVE  ScopeAt(file, c, [s EXCEPT !.vars = @ \cup {c[k + 1].name}, !.declared = {}], k + 1)
  <1> DEFINE m == c[k + 1].name
             t == [s EXCEPT !.vars = @ \cup {c[k + 1].name}, !.declared = {}]
  <1>1. k + 1 \in 1..Len(c) /\ m \in Names /\ m \notin {Other, Unpacked} /\ (k + 1) - 1 = k
    <2>1. k + 1 \in 1..Len(c)
      OBVIOUS
    <2>2. m \in Names
      BY <2>1, NodeTypes
    <2>3. (k + 1) - 1 = k
      OBVIOUS
    <2>4. {Other, Unpacked} \cap Names = {}
      BY ScopesAssumption
    <2> HIDE DEF m
    <2>5. m \notin {Other, Unpacked}
      BY <2>2, <2>4
    <2>6. QED
      BY <2>1, <2>2, <2>3, <2>5
  <1>2. /\ t \in Scope /\ t.vars = s.vars \cup {m} /\ t.funcs = s.funcs /\ t.declared = {}
        /\ s \in Scope
    BY <1>1 DEF ScopeAt, VarsAt, Scope
  <1>3. DeclaresAt(file, c, k + 1, m)
    BY DEF DeclaresAt
  <1>4. Variable(file, c, m, k + 1) = k + 1 /\ IsLocal(file, c, m, k + 1) /\ IsVariable(file, c, m, k + 1)
    BY <1>3, DeclaringNode
  <1>5. ASSUME NEW n \in Names, n # m
        PROVE  /\ IsVariable(file, c, n, k) <=> IsVariable(file, c, n, k + 1)
               /\ Forms = {} => ValueOf(file, c, n, k) = ValueOf(file, c, n, k + 1)
    <2>1. ~Says(c, k + 1, n)
      BY <1>5 DEF Says
    <2>2. QED
      BY <2>1, OtherNames
  <1>6. \A n : ~IsDeclared(file, c, n, k + 1)
    BY NothingDeclared
  <1>7. VarsAt(file, c, t, k + 1)
    <2>1. VarsAt(file, c, s, k)
      BY DEF ScopeAt
    <2>2. \A n \in Names : n # m => (IsVariable(file, c, n, k) <=> IsVariable(file, c, n, k + 1))
      BY <1>5
    <2> HIDE DEF m, t
    <2>3. QED
      BY <1>1, <1>2, <1>4, <1>6, <2>1, <2>2 DEF VarsAt
  <1>8. ASSUME Forms = {} PROVE FuncsAt(file, c, t, k + 1)
    <2>1. ValueOf(file, c, m, k + 1) = Other
      <3> DEFINE v == [name |-> m, at |-> k + 1]
      <3>1. Givers(file, c, v) = {}
        <4>1. SUFFICES ASSUME NEW j \in 1..(k + 1), Gives(c, j, m), Variable(file, c, m, j) = k + 1
                       PROVE  FALSE
          BY <1>4 DEF Givers
        <4>2. j # k + 1
          BY <4>1 DEF Gives, Giving
        <4>3. j \in Nat
          BY NodesUpTo
        <4>4. Variable(file, c, m, j) \in 0..j
          BY <4>3, Variables
        <4>5. QED
          BY <4>1, <4>2, <4>4, NodesUpTo
      <3>2. ~IsGiven(file, c, v)
        BY <3>1 DEF IsGiven
      <3>3. OwnValue(file, c, v) = Other
        BY <1>4 DEF OwnValue
      <3>4. m \in Names \cup {Other, Unpacked} /\ k + 1 \in 0..Len(c)
        BY <1>1
      <3> HIDE DEF m
      <3>5. QED
        BY <3>2, <3>3, <3>4, ValueStep
    <2>2. s.funcs[m] = Other
      <3>1. CASE m \in s.vars
        <4>1. s.funcs[m] = ValueOf(file, c, m, k) /\ IsVariable(file, c, m, k)
          BY <1>1, <1>8, <3>1 DEF ScopeAt, VarsAt, FuncsAt
        <4>2. ValueOf(file, c, m, k) = Other
          BY <1>1, <1>8, <4>1 DEF IsConsidered
        <4>3. QED
          BY <4>1, <4>2
      <3>2. CASE m \notin s.vars
        BY <1>1, <3>2 DEF ScopeAt, VarsAt
      <3>3. QED
        BY <3>1, <3>2
    <2>3. FuncsAt(file, c, s, k)
      BY <1>8 DEF ScopeAt
    <2>4. \A n \in Names : n # m => ValueOf(file, c, n, k) = ValueOf(file, c, n, k + 1)
      BY <1>5, <1>8
    <2> HIDE DEF m, t
    <2>5. QED
      BY <1>2, <2>1, <2>2, <2>3, <2>4 DEF FuncsAt
  <1> HIDE DEF m
  <1>9. QED
    BY <1>7, <1>8 DEF ScopeAt

\* functionValue of what a node gives.
LEMMA FunctionValues ==
    ASSUME file \in Files, NEW c \in Seq(Nodes), NEW k \in 0..Len(c), NEW s, ScopeAt(file, c, s, k),
           NEW v \in Names \cup {Other}
    PROVE  /\ functionValue(s, v) \in Names \cup {Other}
           /\ Forms = {} => functionValue(s, v) = ValueOf(file, c, v, k)
  <1> DEFINE w == [name |-> v, at |-> k]
  <1>1. /\ s.funcs \in [Names -> Names \cup {Other}]
        /\ \A n \in Names : n \in s.vars <=> IsVariable(file, c, n, k)
        /\ \A n \in Names : n \notin s.vars => s.funcs[n] = Other
    BY DEF ScopeAt, VarsAt, Scope
  <1>2. functionValue(s, v) \in Names \cup {Other}
    BY <1>1 DEF functionValue
  <1>3. ASSUME Forms = {} PROVE functionValue(s, v) = ValueOf(file, c, v, k)
    <2>1. /\ IsGiven(file, c, w) => v \in Names /\ IsVariable(file, c, v, k)
          /\ ~IsGiven(file, c, w) => ValueOf(file, c, v, k) = OwnValue(file, c, w)
      BY ValueStep DEF IsGiven
    <2>2. CASE v = Other
      <3>1. ValueOf(file, c, v, k) = OwnValue(file, c, w) /\ OwnValue(file, c, w) = Other
        BY <2>1, <2>2, ScopesAssumption DEF OwnValue
      <3>2. QED
        BY <2>2, <3>1 DEF functionValue
    <2>3. CASE v # Other /\ v \in s.vars
      <3>1. v \in Names /\ s.funcs[v] = ValueOf(file, c, v, k)
        BY <1>3, <2>3 DEF ScopeAt, FuncsAt
      <3>2. QED
        BY <2>3, <3>1 DEF functionValue
    <2>4. CASE v # Other /\ v \notin s.vars
      <3>1. v \in Names /\ ~IsVariable(file, c, v, k) /\ s.funcs[v] = Other /\ v \notin {Other, Unpacked}
        BY <1>1, <2>4, ScopesAssumption
      <3>2. ValueOf(file, c, v, k) = IF v \in file.types THEN Other ELSE v
        BY <2>1, <3>1 DEF OwnValue
      <3>3. QED
        BY <2>4, <3>1, <3>2 DEF functionValue
    <2>5. QED
      BY <2>2, <2>3, <2>4
  <1>4. QED
    BY <1>2, <1>3

\* A variable has the value that a node gives it.
LEMMA GivingNode ==
    ASSUME NEW f, NEW c \in Seq(Nodes), NEW k \in Nat, Len(c) = k + 1,
           c[k + 1].op \in {"define", "assign", "var"}, IsVariable(f, c, c[k + 1].name, k + 1)
    PROVE  ValueOf(f, c, c[k + 1].name, k + 1)
            = ValueOf(f, c, c[k + 1].value, Start(c, k + 1) - 1)
  <1> DEFINE m == c[k + 1].name
             w == [name |-> m, at |-> k + 1]
  <1>1. k + 1 \in 1..Len(c) /\ k + 1 \in 0..Len(c) /\ m \in Names
    BY NodeTypes
  <1>2. Encloses(c, k + 1, k + 1)
    BY NextView
  <1>3. k + 1 \in Givers(f, c, w) /\ Givers(f, c, w) \subseteq 1..(k + 1)
    BY <1>2 DEF Givers, Gives, Giving
  <1>4. IsGiven(f, c, w)
    BY <1>1, <1>3 DEF IsGiven
  <1>5. Max(Givers(f, c, w)) = k + 1
    <2>1. \A j \in Givers(f, c, w) : k + 1 >= j
      BY <1>3
    <2>2. Max(Givers(f, c, w)) \in Givers(f, c, w) /\ Max(Givers(f, c, w)) >= k + 1
      BY <1>3, <2>1 DEF Max
    <2>3. QED
      BY <1>3, <2>2
  <1>6. Given(f, c, w) = [name |-> c[k + 1].value, at |-> Start(c, k + 1) - 1]
    BY <1>5 DEF Given
  <1>7. IsGiven(f, c, w) => ValueOf(f, c, m, k + 1) = ValueOf(f, c, Given(f, c, w).name, Given(f, c, w).at)
    <2>1. m \in Names \cup {Other, Unpacked}
      BY <1>1
    <2> HIDE DEF m
    <2>2. QED
      BY <1>1, <2>1, ValueStep DEF w
  <1>8. QED
    BY <1>4, <1>6, <1>7

\* A statement declares its name where it is new in the scope.
LEMMA StatementDeclares ==
    ASSUME NEW f, NEW c, NEW k \in Nat, c[k + 1].op \in {"define", "assign", "var"}
    PROVE  LET m == c[k + 1].name
               declares == c[k + 1].op = "var" \/ (c[k + 1].op = "define" /\ ~IsDeclared(f, c, m, k))
           IN  /\ DeclaresAt(f, c, k + 1, m) <=> declares
               /\ IsDeclared(f, c, m, k + 1)
                    <=> IsDeclared(f, c, m, k) \/ c[k + 1].op \in {"define", "var"}
               /\ ~declares => (IsVariable(f, c, m, k + 1) <=> IsVariable(f, c, m, k))
  <1> DEFINE m == c[k + 1].name
             declares == c[k + 1].op = "var" \/ (c[k + 1].op = "define" /\ ~IsDeclared(f, c, m, k))
  <1>1. /\ Depth(c, k + 1) = Depth(c, k)
        /\ \A i \in 1..k : Encloses(c, i, k + 1) <=> Encloses(c, i, k)
        /\ View(c, m, k + 1) = View(c, m, k) \cup {k + 1}
    BY NextDepth, NextView DEF Says
  <1>2. (k + 1) - 1 = k
    OBVIOUS
  <1>3. DeclaresAt(f, c, k + 1, m) <=> declares
    <2>1. (\E i \in 1..k : /\ c[i].op \in {"define", "var"} /\ c[i].name = m
                          /\ Depth(c, i) = Depth(c, k + 1) /\ Encloses(c, i, k + 1))
            <=> \E i \in View(c, m, k) : c[i].op \in {"define", "var"} /\ Depth(c, i) = Depth(c, k)
      BY <1>1 DEF View
    <2>2. QED
      BY <1>1, <1>2, <2>1 DEF DeclaresAt, IsDeclared
  <1>4. IsDeclared(f, c, m, k + 1) <=> IsDeclared(f, c, m, k) \/ c[k + 1].op \in {"define", "var"}
    BY <1>1 DEF IsDeclared
  <1>5. ASSUME ~declares PROVE IsVariable(f, c, m, k + 1) <=> IsVariable(f, c, m, k)
    <2>1. {j \in View(c, m, k + 1) : DeclaresAt(f, c, j, m)} = {j \in View(c, m, k) : DeclaresAt(f, c, j, m)}
      BY <1>1, <1>3, <1>5
    <2>2. k + 1 \in Nat
      OBVIOUS
    <2>3. {j \in 1..(k + 1) : DeclaresAt(f, c, j, m) /\ Encloses(c, j, k + 1)}
            = {j \in 1..k : DeclaresAt(f, c, j, m) /\ Encloses(c, j, k)}
      <3> HIDE DEF m
      <3>1. /\ {j \in 1..k : DeclaresAt(f, c, j, m) /\ Encloses(c, j, k)}
                    = {j \in View(c, m, k) : DeclaresAt(f, c, j, m)}
            /\ {j \in 1..(k + 1) : DeclaresAt(f, c, j, m) /\ Encloses(c, j, k + 1)}
                    = {j \in View(c, m, k + 1) : DeclaresAt(f, c, j, m)}
        BY <2>2, DeclaringNodes
      <3>2. QED
        BY <2>1, <3>1
    <2>4. Variable(f, c, m, k + 1) = Variable(f, c, m, k)
      BY <2>3 DEF Variable
    <2>5. QED
      BY <2>4 DEF IsVariable, IsLocal
  <1>6. QED
    BY <1>3, <1>4, <1>5

\* The scope after a statement that gives a value.
After(s, node) ==
    IF node.value = Unpacked THEN s
    ELSE IF node.op = "var" \/ (node.op = "define" /\ node.name \notin s.declared)
    THEN Give(Declare(s, node.name), node.name, node.value)
    ELSE Give(s, node.name, node.value)

\* A value is what it was before the statement, unless the statement uses a name
\* that it has given a value to.
LEMMA ValuesBefore ==
    ASSUME NEW f, NEW c \in Seq(Nodes), NEW k \in Nat, Len(c) = k + 1, c[k + 1].op \in Giving,
           IsConsidered(f, c), JoinsBefore(c), Forms = {}, Stays(f, c)
    PROVE  ValueOf(f, c, c[k + 1].value, Start(c, k + 1) - 1) = ValueOf(f, c, c[k + 1].value, k)
  <1> DEFINE a == Start(c, k + 1) - 1
             v == c[k + 1].value
  <1>1. /\ k + 1 \in 1..Len(c) /\ k \in 0..Len(c) /\ (k + 1) - 1 = k /\ Len(c) \in Nat
        /\ v \in Names \cup {Other, Unpacked}
    <2>1. k + 1 \in 1..Len(c) /\ k \in 0..Len(c) /\ (k + 1) - 1 = k /\ Len(c) \in Nat
      BY LastNode
    <2>2. QED
      BY <2>1, NodeTypes
  <1>2. Start(c, k + 1) \in 1..(k + 1) /\ \A i \in Start(c, k + 1)..(k + 1) : c[i].op \in Giving
    BY <1>1, StatementNodes
  <1>3. a \in 0..k /\ a + 1 = Start(c, k + 1)
    BY <1>2
  <1>4. CASE v \in Names
    <2>1. \A i \in (a + 1)..k : c[i].name # v
      <3>1. CASE c[k + 1].joined
        BY <1>1, <1>3, <3>1 DEF IsConsidered
      <3>2. CASE ~c[k + 1].joined
        <4>1. Start(c, k + 1) = k + 1
          BY <3>2, Starts
        <4>2. (a + 1)..k = {}
          BY <1>3, <4>1
        <4>3. QED
          BY <4>2
      <3>3. QED
        BY <3>1, <3>2
    <2>2. \A i \in (a + 1)..k : c[i].op \in Giving
      BY <1>2, <1>3
    <2> HIDE DEF a, v
    <2>3. ValueOf(f, c, v, a) = ValueOf(f, c, v, k)
      BY <1>1, <1>3, <1>4, <2>1, <2>2, StretchValues
    <2>4. QED
      BY <2>3 DEF a, v
  <1>5. CASE v \in {Other, Unpacked}
    <2>1. ASSUME NEW i \in 0..Len(c) PROVE ValueOf(f, c, v, i) = Other
      <3> DEFINE w == [name |-> v, at |-> i]
      <3>1. ~IsGiven(f, c, w) /\ OwnValue(f, c, w) = Other
        BY <1>5, ScopesAssumption DEF IsGiven, OwnValue
      <3> HIDE DEF v
      <3>2. QED
        BY <1>1, <3>1, ValueStep
    <2>2. a \in 0..Len(c)
      BY <1>1, <1>3
    <2>3. QED
      BY <1>1, <2>1, <2>2
  <1>6. QED
    BY <1>1, <1>4, <1>5

LEMMA StatementNode ==
    ASSUME file \in Files, NEW c \in Seq(Nodes), NEW k \in Nat, Len(c) = k + 1,
           c[k + 1].op \in {"define", "assign", "var"}, IsGo(file, c), IsConsidered(file, c),
           JoinsBefore(c), Forms = {} => Stays(file, c),
           "unpacked name" \notin Forms, NEW s, ScopeAt(file, c, s, k)
    PROVE  ScopeAt(file, c, After(s, c[k + 1]), k + 1)
  <1> DEFINE node == c[k + 1]
             m == c[k + 1].name
             v == c[k + 1].value
             t == After(s, node)
             declares == node.op = "var" \/ (node.op = "define" /\ ~IsDeclared(file, c, m, k))
  <1>1. /\ k + 1 \in 1..Len(c) /\ k \in 0..Len(c) /\ m \in Names /\ v \in Names \cup {Other, Unpacked}
        /\ (k + 1) - 1 = k
    <2>1. k + 1 \in 1..Len(c) /\ k \in 0..Len(c) /\ (k + 1) - 1 = k
      BY LastNode
    <2>2. QED
      BY <2>1, NodeTypes
  <1>2. /\ s \in Scope
        /\ \A n \in Names : n \in s.vars <=> IsVariable(file, c, n, k)
        /\ \A n \in Names : n \in s.declared <=> IsDeclared(file, c, n, k)
        /\ s.declared \subseteq s.vars
        /\ \A n \in Names : n \notin s.vars => s.funcs[n] = Other
        /\ Forms = {} => FuncsAt(file, c, s, k)
    BY DEF ScopeAt, VarsAt
  <1>3. /\ DeclaresAt(file, c, k + 1, m) <=> declares
        /\ IsDeclared(file, c, m, k + 1) <=> IsDeclared(file, c, m, k) \/ node.op \in {"define", "var"}
        /\ ~declares => (IsVariable(file, c, m, k + 1) <=> IsVariable(file, c, m, k))
    BY StatementDeclares
  <1>4. Depth(c, k) = Depth(c, k + 1)
    BY NextDepth
  <1>5. \A n \in Names : n # m =>
            /\ IsVariable(file, c, n, k) <=> IsVariable(file, c, n, k + 1)
            /\ IsDeclared(file, c, n, k) <=> IsDeclared(file, c, n, k + 1)
            /\ Forms = {} => ValueOf(file, c, n, k) = ValueOf(file, c, n, k + 1)
    BY <1>4, OtherNames DEF Says
  <1>6. ~declares => m \in s.vars
    <2>1. CASE node.op = "assign"
      <3>1. IsVariable(file, c, m, k)
        BY <1>1, <2>1 DEF IsGo
      <3>2. QED
        BY <1>1, <1>2, <3>1
    <2>2. CASE node.op = "define"
      BY <1>1, <1>2, <2>2
    <2>3. QED
      BY <2>1, <2>2
  <1>7. IsVariable(file, c, m, k + 1)
    <2>1. CASE declares
      BY <1>3, <2>1, DeclaringNode
    <2>2. CASE ~declares
      BY <1>1, <1>2, <1>3, <1>6, <2>2
    <2>3. QED
      BY <2>1, <2>2
  <1>8. Forms = {} => ValueOf(file, c, m, k + 1) = ValueOf(file, c, v, k)
    <2>1. SUFFICES ASSUME Forms = {} PROVE ValueOf(file, c, m, k + 1) = ValueOf(file, c, v, k)
      OBVIOUS
    <2>2. ValueOf(file, c, m, k + 1) = ValueOf(file, c, v, Start(c, k + 1) - 1)
      BY <1>7, GivingNode
    <2>3. Stays(file, c) /\ c[k + 1].op \in Giving
      BY <2>1 DEF Giving
    <2>4. ValueOf(file, c, v, Start(c, k + 1) - 1) = ValueOf(file, c, v, k)
      BY <2>1, <2>3, ValuesBefore
    <2>5. QED
      BY <2>2, <2>4
  <1>9. CASE v = Unpacked
    <2>1. t = s
      BY <1>9 DEF After
    <2>2. ~declares /\ ValueOf(file, c, m, k) = Other
      <3>1. "unpacked name" \notin Forms
        OBVIOUS
      <3> HIDE DEF declares
      <3>2. QED
        BY <1>1, <1>3, <1>9, <3>1 DEF IsConsidered
    <2>3. IsDeclared(file, c, m, k + 1) <=> IsDeclared(file, c, m, k)
      BY <1>3, <2>2
    <2>4. VarsAt(file, c, s, k + 1)
      <3>1. \A n \in Names : /\ n \in s.vars <=> IsVariable(file, c, n, k + 1)
                             /\ n \in s.declared <=> IsDeclared(file, c, n, k + 1)
        BY <1>2, <1>3, <1>5, <2>2, <2>3
      <3>2. QED
        BY <1>2, <3>1 DEF VarsAt
    <2>5. ASSUME Forms = {} PROVE FuncsAt(file, c, s, k + 1)
      <3>1. ValueOf(file, c, v, k) = Other
        <4>1. ~IsGiven(file, c, [name |-> v, at |-> k])
          BY <1>9, ScopesAssumption DEF IsGiven
        <4>2. OwnValue(file, c, [name |-> v, at |-> k]) = Other
          BY <1>9 DEF OwnValue
        <4> HIDE DEF v
        <4>3. QED
          BY <1>1, <4>1, <4>2, ValueStep
      <3>2. FuncsAt(file, c, s, k)
        BY <1>2, <2>5
      <3>3. \A n \in Names : ValueOf(file, c, n, k) = ValueOf(file, c, n, k + 1)
        BY <1>5, <1>8, <2>2, <2>5, <3>1
      <3>4. \A n \in Names : n \in s.vars => s.funcs[n] = ValueOf(file, c, n, k + 1)
        BY <3>2, <3>3 DEF FuncsAt
      <3>5. QED
        BY <3>4 DEF FuncsAt
    <2>6. QED
      BY <2>1, <2>4, <2>5 DEF ScopeAt
  <1>10. CASE v # Unpacked
    <2> DEFINE u == IF declares THEN Declare(s, m) ELSE s
    <2>1. v \in Names \cup {Other}
      BY <1>1, <1>10
    <2>2. /\ functionValue(s, v) \in Names \cup {Other}
          /\ Forms = {} => functionValue(s, v) = ValueOf(file, c, v, k)
      BY <1>1, <2>1, FunctionValues
    <2>3. /\ u \in Scope /\ u.funcs = s.funcs /\ u.vars = s.vars \cup (IF declares THEN {m} ELSE {})
          /\ u.declared = s.declared \cup (IF declares THEN {m} ELSE {})
      BY <1>1, <1>2 DEF Declare, Scope
    <2>4. functionValue(u, v) \in Names \cup {Other}
      BY <1>2, <2>1, <2>3 DEF functionValue, Scope
    <2>5. Forms = {} => functionValue(u, v) = ValueOf(file, c, v, k)
      <3>1. CASE declares /\ Forms = {}
        <4>1. v # m
          BY <1>1, <3>1 DEF IsConsidered
        <4>2. functionValue(u, v) = functionValue(s, v)
          BY <2>3, <4>1 DEF functionValue
        <4>3. QED
          BY <2>2, <4>2
      <3>2. CASE ~declares
        BY <2>2, <3>2
      <3>3. QED
        BY <3>1, <3>2
    <2>6. t = [u EXCEPT !.funcs[m] = functionValue(u, v)]
      <3>1. declares <=> node.op = "var" \/ (node.op = "define" /\ node.name \notin s.declared)
        BY <1>1, <1>2
      <3>2. t = Give(u, m, v)
        BY <1>10, <3>1 DEF After
      <3>3. QED
        BY <3>2 DEF Give
    <2> HIDE DEF u, t, m, v, node
    <2>7. /\ t \in Scope /\ t.vars = u.vars /\ t.declared = u.declared
          /\ t.funcs = [u.funcs EXCEPT ![m] = functionValue(u, v)]
      BY <2>3, <2>4, <2>6 DEF Scope
    <2>8. \A n \in Names : n # m => t.funcs[n] = s.funcs[n]
      BY <2>3, <2>7 DEF Scope
    <2>9. t.funcs[m] = functionValue(u, v)
      BY <1>1, <2>3, <2>7 DEF Scope
    <2>10. VarsAt(file, c, t, k + 1)
      <3>1. m \in t.vars
        BY <1>6, <2>3, <2>7
      <3>2. \A n \in Names : /\ n \in t.vars <=> IsVariable(file, c, n, k + 1)
                             /\ n \in t.declared <=> IsDeclared(file, c, n, k + 1)
        BY <1>1, <1>2, <1>3, <1>5, <1>7, <2>3, <2>7, <3>1 DEF node
      <3>3. t.declared \subseteq t.vars
        BY <1>2, <2>3, <2>7
      <3>4. \A n \in Names : n \notin t.vars => t.funcs[n] = Other
        BY <1>2, <2>3, <2>7, <2>8, <3>1
      <3>5. QED
        BY <2>7, <3>2, <3>3, <3>4 DEF VarsAt
    <2>11. ASSUME Forms = {} PROVE FuncsAt(file, c, t, k + 1)
      <3>1. t.funcs[m] = ValueOf(file, c, m, k + 1)
        BY <1>8, <2>5, <2>9, <2>11
      <3>2. \A n \in Names : n # m /\ n \in t.vars => t.funcs[n] = ValueOf(file, c, n, k + 1)
        <4>1. \A n \in Names : n \in s.vars => s.funcs[n] = ValueOf(file, c, n, k)
          BY <1>2, <2>11 DEF FuncsAt
        <4>2. QED
          BY <1>5, <2>3, <2>7, <2>8, <2>11, <4>1
      <3>3. QED
        BY <3>1, <3>2 DEF FuncsAt
    <2>12. QED
      BY <2>10, <2>11 DEF ScopeAt, t, node
  <1>11. QED
    BY <1>9, <1>10

-----------------------------------------------------------------------------
(* The scopes to return to. *)

\* The i-th scope is the one before the node that started the scope of that depth.
StackAt(f, b, ss, k) ==
    /\ ss \in Seq(Scope) /\ Len(ss) = Depth(b, k)
    /\ \A i \in 2..Len(ss) : \E o \in 1..k : Opens(b, o, i, k) /\ ScopeAt(f, b, ss[i], o - 1)

LEMMA AgreeingStacks ==
    ASSUME NEW f, NEW b \in Seq(Nodes), NEW c \in Seq(Nodes), Len(b) <= Len(c), Agree(b, c, Len(b)),
           NEW ss, NEW k \in 0..Len(b), StackAt(f, b, ss, k)
    PROVE  StackAt(f, c, ss, k)
  <1>1. Len(b) \in Nat /\ k \in Nat
    OBVIOUS
  <1>2. Depth(b, k) = Depth(c, k) /\ \A o \in 1..k : Encloses(b, o, k) <=> Encloses(c, o, k)
    BY <1>1, AgreeingPlaces
  <1>3. ASSUME NEW i, NEW o \in 1..k, Opens(b, o, i, k), ScopeAt(f, b, ss[i], o - 1)
        PROVE  Opens(c, o, i, k) /\ ScopeAt(f, c, ss[i], o - 1)
    <2>1. o \in 0..Len(b) /\ o - 1 \in 0..Len(b) /\ b[o] = c[o]
      BY <1>1 DEF Agree
    <2>2. Depth(b, o) = Depth(c, o)
      BY <1>1, <2>1, AgreeingPlaces
    <2>3. Opens(c, o, i, k)
      BY <1>2, <1>3, <2>1, <2>2 DEF Opens
    <2>4. ScopeAt(f, c, ss[i], o - 1)
      BY <1>3, <2>1, AgreeingScopes
    <2>5. QED
      BY <2>3, <2>4
  <1>4. QED
    BY <1>2, <1>3 DEF StackAt

\* A node that closes no scope leaves them.
LEMMA KeptStack ==
    ASSUME NEW f, NEW c, NEW k \in Nat, c[k + 1].op # "close", NEW ss, StackAt(f, c, ss, k)
    PROVE  \A i \in 2..Len(ss) : \E o \in 1..(k + 1) :
                Opens(c, o, i, k + 1) /\ ScopeAt(f, c, ss[i], o - 1)
  <1>1. \A o \in 1..k : o \in 1..(k + 1) /\ (Encloses(c, o, k + 1) <=> Encloses(c, o, k))
    BY NextView
  <1>2. ASSUME NEW i \in 2..Len(ss)
        PROVE  \E o \in 1..(k + 1) : Opens(c, o, i, k + 1) /\ ScopeAt(f, c, ss[i], o - 1)
    <2>1. PICK o \in 1..k : Opens(c, o, i, k) /\ ScopeAt(f, c, ss[i], o - 1)
      BY DEF StackAt
    <2>2. Opens(c, o, i, k + 1)
      BY <1>1, <2>1 DEF Opens
    <2>3. QED
      BY <1>1, <2>1, <2>2
  <1>3. QED
    BY <1>2

LEMMA PushedStack ==
    ASSUME NEW f, NEW c, NEW k \in Nat, c[k + 1].op \in {"open", "range"}, NEW ss, StackAt(f, c, ss, k),
           NEW s, ScopeAt(f, c, s, k)
    PROVE  StackAt(f, c, Append(ss, s), k + 1)
  <1> DEFINE t == Append(ss, s)
  <1>1. ss \in Seq(Scope) /\ s \in Scope /\ Len(ss) = Depth(c, k)
    BY DEF StackAt, ScopeAt, VarsAt
  <1>2. t \in Seq(Scope) /\ Len(t) = Len(ss) + 1 /\ t[Len(t)] = s /\ \A i \in 1..Len(ss) : t[i] = ss[i]
    BY <1>1
  <1>3. Len(ss) \in Nat /\ Len(t) = Depth(c, k + 1)
    BY <1>1, <1>2, NextDepth
  <1>4. Opens(c, k + 1, Len(t), k + 1) /\ (k + 1) - 1 = k /\ k + 1 \in 1..(k + 1)
    <2>1. (k + 1) - 1 = k /\ k + 1 \in 1..(k + 1)
      OBVIOUS
    <2>2. QED
      BY <1>3, <2>1, NextView DEF Opens
  <1>5. \A i \in 2..Len(t) : i \in 2..Len(ss) \/ i = Len(t)
    BY <1>2, <1>3
  <1>6. \A i \in 2..Len(ss) : i \in 1..Len(ss)
    OBVIOUS
  <1>7. \A i \in 2..Len(ss) : \E o \in 1..(k + 1) : Opens(c, o, i, k + 1) /\ ScopeAt(f, c, ss[i], o - 1)
    BY KeptStack
  <1> HIDE DEF t
  <1>8. \A i \in 2..Len(t) : \E o \in 1..(k + 1) : Opens(c, o, i, k + 1) /\ ScopeAt(f, c, t[i], o - 1)
    BY <1>2, <1>4, <1>5, <1>6, <1>7
  <1>9. StackAt(f, c, t, k + 1)
    BY <1>2, <1>3, <1>8 DEF StackAt
  <1>10. QED
    BY <1>9 DEF t

LEMMA PoppedStack ==
    ASSUME NEW f, NEW c \in Seq(Nodes), NEW k \in Nat, Len(c) = k + 1, c[k + 1].op = "close",
           Depth(c, k + 1) >= 1, Forms = {} => Stays(f, c), NEW ss, StackAt(f, c, ss, k)
    PROVE  /\ ScopeAt(f, c, ss[Len(ss)], k + 1)
           /\ StackAt(f, c, SubSeq(ss, 1, Len(ss) - 1), k + 1)
  <1> DEFINE t == SubSeq(ss, 1, Len(ss) - 1)
  <1>1. /\ ss \in Seq(Scope) /\ Len(ss) = Depth(c, k) /\ Len(ss) \in Nat
        /\ \A i \in 2..Len(ss) : \E o \in 1..k : Opens(c, o, i, k) /\ ScopeAt(f, c, ss[i], o - 1)
    BY DEF StackAt
  <1>2. /\ Depth(c, k + 1) = Len(ss) - 1 /\ Len(ss) >= 2 /\ \A i \in Nat : Depth(c, i) \in Int
    <2>1. Depth(c, k + 1) = Depth(c, k) - 1 /\ \A i \in Nat : Depth(c, i) \in Int
      BY NextDepth, Depths
    <2>2. QED
      BY <1>1, <2>1
  <1>3. PICK o \in 1..k : Opens(c, o, Len(ss), k) /\ ScopeAt(f, c, ss[Len(ss)], o - 1)
    <2>1. Len(ss) \in 2..Len(ss)
      BY <1>1, <1>2
    <2>2. QED
      BY <1>1, <2>1
  <1>4. /\ o - 1 \in 0..k /\ Depth(c, k + 1) = Depth(c, o - 1)
        /\ \A n : View(c, n, k + 1) = View(c, n, o - 1)
    BY <1>1, <1>3, ClosedView
  <1>5. ScopeAt(f, c, ss[Len(ss)], k + 1)
    <2>1. o - 1 \in 0..Len(c) /\ k + 1 \in 0..Len(c)
      BY <1>4, LastNode
    <2>2. QED
      BY <1>3, <1>4, <2>1, SameScopes
  <1>6. t \in Seq(Scope) /\ Len(t) = Len(ss) - 1 /\ \A i \in 1..Len(t) : t[i] = ss[i]
    <2>1. 1 \in 1..(Len(ss) + 1) /\ Len(ss) - 1 \in 1 - 1 .. Len(ss) /\ Len(ss) - 1 \in Nat
      BY <1>1, <1>2
    <2>2. \A i \in 1..(Len(ss) - 1) : i \in 1..Len(ss)
      BY <1>1, <1>2
    <2>3. QED
      BY <1>1, <2>1, <2>2
  <1>7. ASSUME NEW i \in 2..Len(t)
        PROVE  \E p \in 1..(k + 1) : Opens(c, p, i, k + 1) /\ ScopeAt(f, c, t[i], p - 1)
    <2>1. i \in 2..Len(ss) /\ i <= Len(ss) - 1 /\ t[i] = ss[i] /\ i \in Nat
      BY <1>1, <1>6
    <2>2. PICK p \in 1..k : Opens(c, p, i, k) /\ ScopeAt(f, c, ss[i], p - 1)
      BY <1>1, <2>1
    <2>3. p..(k + 1) = (p..k) \cup {k + 1} /\ p \in 1..(k + 1)
      OBVIOUS
    <2>4. Depth(c, k + 1) >= Depth(c, p)
      BY <1>1, <1>2, <2>1, <2>2 DEF Opens
    <2>5. Encloses(c, p, k + 1)
      BY <2>2, <2>3, <2>4 DEF Opens, Encloses
    <2>6. QED
      BY <2>1, <2>2, <2>3, <2>5 DEF Opens
  <1> HIDE DEF t
  <1>8. StackAt(f, c, t, k + 1)
    BY <1>2, <1>6, <1>7 DEF StackAt
  <1>9. QED
    BY <1>5, <1>8 DEF t

-----------------------------------------------------------------------------
(* The calls. *)

\* What HidesAsGo and, where no form is left out, ValuesAsGiven say of the call at node j.
CallAt(f, b, called, j) ==
    LET n == b[j].name
        visible == IsVariable(f, b, n, Seen(b, j))
    IN  /\ Seen(b, j) \in 0..j /\ n \in Names
        /\ j \in DOMAIN called <=> visible \/ n \notin f.types
        /\ j \in DOMAIN called => (called[j].via = "symbol" <=> ~visible)
        /\ Forms = {} /\ j \in DOMAIN called /\ called[j].via # "symbol"
                => called[j].name = ValueOf(f, b, n, Seen(b, j))

CallsAt(f, b, called) ==
    /\ DOMAIN called \subseteq {j \in 1..Len(b) : b[j].op = "call"}
    /\ \A j \in 1..Len(b) : b[j].op = "call" => CallAt(f, b, called, j)

\* What comes after changes no call.
LEMMA AgreeingCalls ==
    ASSUME NEW f, NEW b \in Seq(Nodes), NEW c \in Seq(Nodes), Len(b) <= Len(c), Agree(b, c, Len(b)),
           NEW called, CallsAt(f, b, called)
    PROVE  \A j \in 1..Len(b) : c[j].op = "call" => CallAt(f, c, called, j)
  <1>1. Len(b) \in Nat
    OBVIOUS
  <1>2. ASSUME NEW j \in 1..Len(b), c[j].op = "call" PROVE CallAt(f, c, called, j)
    <2>1. b[j] = c[j] /\ Seen(b, j) = Seen(c, j)
      <3>1. j - 1 \in 0..Len(b) /\ b[j] = c[j]
        BY <1>1 DEF Agree
      <3>2. Start(b, j - 1) = Start(c, j - 1)
        BY <1>1, <3>1, AgreeingStarts
      <3>3. QED
        BY <3>1, <3>2 DEF Seen
    <2>2. CallAt(f, b, called, j)
      BY <1>2, <2>1 DEF CallsAt
    <2>3. Seen(b, j) \in 0..Len(b) /\ b[j].name \in Names
      BY <1>1, <2>2 DEF CallAt
    <2>4. /\ IsVariable(f, b, b[j].name, Seen(b, j)) <=> IsVariable(f, c, b[j].name, Seen(b, j))
          /\ ValueOf(f, b, b[j].name, Seen(b, j)) = ValueOf(f, c, b[j].name, Seen(b, j))
      BY <1>1, <2>3, AgreeingPlaces, AgreeingValues
    <2>5. QED
      BY <2>1, <2>2, <2>4 DEF CallAt
  <1>3. QED
    BY <1>2

LEMMA NodesBefore ==
    ASSUME NEW k \in Nat
    PROVE  /\ (k + 1) - 1 = k /\ (k + 1) - 2 = k - 1 /\ k \in 0..(k + 1) /\ k \in k..k
           /\ k + 1 > 1 => \A m : m = k + 1 =>
                /\ k - 1 \in Nat /\ k - 1 \in 0..m /\ k \in 0..m /\ k - 1 \in 0..(k + 1)
                /\ (k - 1) + 1 = k /\ k \in 1..m /\ m \in Nat /\ k \in Nat \ {0}
  OBVIOUS

LEMMA NodeBeforeStart ==
    ASSUME NEW k \in Nat, NEW o \in 1..k
    PROVE  o - 1 \in 0..k /\ (o - 1) + 1 = o /\ o - 1 \in 0..(k + 1)
  OBVIOUS

\* An expression inside a statement sees what is seen after it, if the statement
\* says nothing of the name.
LEMMA SeenInside ==
    ASSUME NEW f, NEW c \in Seq(Nodes), NEW k \in Nat, Len(c) = k + 1, c[k + 1].op = "call",
           c[k + 1].name \in Names, IsGo(f, c), IsConsidered(f, c), "own name" \notin Forms,
           JoinsBefore(c), Forms = {} => Stays(f, c)
    PROVE  LET n == c[k + 1].name
               i == Seen(c, k + 1)
           IN  /\ i \in 0..(k + 1)
               /\ IsVariable(f, c, n, i) <=> IsVariable(f, c, n, k)
               /\ Forms = {} => ValueOf(f, c, n, i) = ValueOf(f, c, n, k)
  <1> DEFINE n == c[k + 1].name
  <1>1. (k + 1) - 1 = k /\ (k + 1) - 2 = k - 1 /\ k \in 0..(k + 1)
    BY NodesBefore
  <1>2. CASE ~c[k + 1].inside
    BY <1>1, <1>2 DEF Seen
  <1>3. CASE c[k + 1].inside
    <2>1. /\ Seen(c, k + 1) = Start(c, k) - 1 /\ k + 1 > 1
          /\ c[k].op \in Giving \cup {"range"}
          /\ \A i \in Start(c, k)..k : c[i].name # n
      BY <1>1, <1>3 DEF Seen, IsGo, IsConsidered
    <2>2. k - 1 \in Nat /\ k - 1 \in 0..Len(c) /\ k \in 0..Len(c) /\ k - 1 \in 0..(k + 1)
          /\ (k - 1) + 1 = k /\ k \in 1..Len(c) /\ Len(c) \in Nat /\ k \in Nat \ {0}
      <3>1. k + 1 > 1
        BY <2>1
      <3>2. QED
        BY <3>1, NodesBefore
    <2>3. CASE c[k].op = "range"
      <3>1. ~c[k].joined
        BY <2>2, <2>3 DEF JoinsBefore, Giving
      <3>2. Start(c, k) = k
        BY <2>2, <3>1, Starts
      <3>3. Seen(c, k + 1) = k - 1 /\ c[k].name # n
        <4>1. k \in k..k
          BY NodesBefore
        <4>2. QED
          BY <2>1, <3>2, <4>1
      <3>4. View(c, n, k - 1) = View(c, n, (k - 1) + 1)
        <4>1. ~Says(c, (k - 1) + 1, n) /\ c[(k - 1) + 1].op # "close"
          BY <2>2, <2>3, <3>3 DEF Says
        <4> HIDE DEF n
        <4>2. QED
          BY <2>2, <4>1, QuietView
      <3>5. View(c, n, k - 1) = View(c, n, k)
        BY <2>2, <3>4
      <3>6. IsVariable(f, c, n, k - 1) <=> IsVariable(f, c, n, k)
        BY <2>2, <3>5, SameVariables
      <3>7. Forms = {} => ValueOf(f, c, n, k - 1) = ValueOf(f, c, n, k)
        BY <2>2, <3>5, SameValues
      <3>8. QED
        BY <2>2, <3>3, <3>6, <3>7
    <2>4. CASE c[k].op \in Giving
      <3> DEFINE a == Start(c, k) - 1
      <3>1. Start(c, k) \in 1..k /\ \A i \in Start(c, k)..k : c[i].op \in Giving
        BY <2>2, <2>4, StatementNodes
      <3>2. a \in 0..k /\ a + 1 = Start(c, k) /\ a \in 0..(k + 1)
        BY <3>1, NodeBeforeStart
      <3>3. \A i \in (a + 1)..k : c[i].op \in Giving /\ c[i].name # n
        BY <2>1, <3>1, <3>2
      <3> HIDE DEF a, n
      <3>4. /\ IsVariable(f, c, n, a) <=> IsVariable(f, c, n, k)
            /\ Forms = {} => ValueOf(f, c, n, a) = ValueOf(f, c, n, k)
        BY <2>2, <3>2, <3>3, StretchValues DEF n
      <3>5. QED
        BY <2>1, <3>2, <3>4 DEF a, n
    <2>5. QED
      BY <2>1, <2>3, <2>4
  <1>4. QED
    BY <1>2, <1>3

\* A call is found as what the scope says of its name.
LEMMA CallNode ==
    ASSUME NEW c \in Seq(Nodes), NEW k \in Nat, Len(c) = k + 1, c[k + 1].op = "call",
           c[k + 1].name \in Names, IsGo(file, c), IsConsidered(file, c), "own name" \notin Forms,
           JoinsBefore(c), Forms = {} => Stays(file, c),
           ScopeAt(file, c, scope, k), k + 1 \notin DOMAIN calls,
           NEW called,
           called = IF IsConversion(c[k + 1].name) THEN calls
                    ELSE [j \in DOMAIN calls \cup {k + 1} |->
                            IF j \in DOMAIN calls THEN calls[j] ELSE FoundAs(c[k + 1].name)]
    PROVE  CallAt(file, c, called, k + 1)
  <1> DEFINE n == c[k + 1].name
             i == Seen(c, k + 1)
  <1>1. /\ i \in 0..(k + 1)
        /\ IsVariable(file, c, n, i) <=> IsVariable(file, c, n, k)
        /\ Forms = {} => ValueOf(file, c, n, i) = ValueOf(file, c, n, k)
    BY SeenInside
  <1>2. /\ n \in scope.vars <=> IsVariable(file, c, n, k)
        /\ n \notin scope.vars => scope.funcs[n] = Other
        /\ Forms = {} /\ n \in scope.vars => scope.funcs[n] = ValueOf(file, c, n, k)
    BY DEF ScopeAt, VarsAt, FuncsAt
  <1>3. k + 1 \in DOMAIN called <=> ~IsConversion(n)
    OBVIOUS
  <1>4. k + 1 \in DOMAIN called => called[k + 1] = FoundAs(n)
    OBVIOUS
  <1>5. /\ FoundAs(n).via = "symbol" <=> n \notin scope.vars
        /\ FoundAs(n).via # "symbol" => FoundAs(n).name = scope.funcs[n]
    BY <1>2 DEF FoundAs
  <1>6. IsConversion(n) <=> n \notin scope.vars /\ n \in file.types
    BY DEF IsConversion
  <1> HIDE DEF n, i
  <1>7. /\ i \in 0..(k + 1) /\ n \in Names
        /\ k + 1 \in DOMAIN called <=> IsVariable(file, c, n, i) \/ n \notin file.types
        /\ k + 1 \in DOMAIN called => (called[k + 1].via = "symbol" <=> ~IsVariable(file, c, n, i))
        /\ Forms = {} /\ k + 1 \in DOMAIN called /\ called[k + 1].via # "symbol"
                => called[k + 1].name = ValueOf(file, c, n, i)
    BY <1>1, <1>2, <1>3, <1>4, <1>5, <1>6 DEF n
  <1>8. QED
    BY <1>7 DEF CallAt, n, i

-----------------------------------------------------------------------------
(* The walk. *)

WalkInv ==
    /\ file \in Files /\ body \in Seq(Nodes)
    /\ JoinsBefore(body)
    /\ Forms = {} => Stays(file, body)
    /\ ScopeAt(file, body, scope, Len(body))
    /\ StackAt(file, body, scopes, Len(body))
    /\ CallsAt(file, body, calls)

LEMMA WalkInit == ASSUME Init PROVE WalkInv
  <1>1. /\ file \in Files /\ file \in File /\ body = <<>> /\ body \in Seq(Nodes) /\ Len(body) = 0
        /\ \A n \in Names \ file.globals : file.globalFuncs[n] = Other
        /\ file.params \subseteq Names /\ file.globals \subseteq Names
        /\ file.globalFuncs \in [Names -> Names \cup {Other}]
    <2>1. file \in Files /\ body = <<>>
      BY DEF Init
    <2>2. file \in File /\ \A n \in Names \ file.globals : file.globalFuncs[n] = Other
      BY <2>1, ScopesAssumption
    <2>3. /\ file.params \subseteq Names /\ file.globals \subseteq Names
          /\ file.globalFuncs \in [Names -> Names \cup {Other}]
      BY <2>2 DEF File
    <2>4. body \in Seq(Nodes) /\ Len(body) = 0
      BY <2>1
    <2>5. QED
      BY <2>1, <2>2, <2>3, <2>4
  <1>2. /\ scope = [vars |-> file.globals \cup file.params,
                    funcs |-> [n \in Names |-> IF n \in file.params THEN Other ELSE file.globalFuncs[n]],
                    declared |-> file.params]
        /\ scope \in Scope
    BY <1>1 DEF Init, Scope
  <1>3. Depth(body, 0) = 1 /\ \A n : View(body, n, 0) = {}
    BY Depths DEF View
  <1>4. \A n : Variable(file, body, n, 0) = 0
    <2>1. ASSUME NEW n PROVE Variable(file, body, n, 0) \in 0..0
      BY Variables
    <2>2. QED
      BY <2>1
  <1>5. \A n : /\ IsLocal(file, body, n, 0) <=> n \in file.params
               /\ IsVariable(file, body, n, 0) <=> n \in file.params \cup file.globals
               /\ IsDeclared(file, body, n, 0) <=> n \in file.params
    BY <1>3, <1>4 DEF IsLocal, IsVariable, IsDeclared
  <1>6. VarsAt(file, body, scope, 0)
    BY <1>1, <1>2, <1>5 DEF VarsAt
  <1>7. ASSUME NEW n \in Names, n \in scope.vars PROVE scope.funcs[n] = ValueOf(file, body, n, 0)
    <2> DEFINE v == [name |-> n, at |-> 0]
    <2>1. Givers(file, body, v) = {}
      BY DEF Givers
    <2>2. ~IsGiven(file, body, v)
      BY <2>1 DEF IsGiven
    <2>3. OwnValue(file, body, v) = IF n \in file.params THEN Other ELSE file.globalFuncs[n]
      BY <1>2, <1>5, <1>7, ScopesAssumption DEF OwnValue
    <2>4. ValueOf(file, body, n, 0) = OwnValue(file, body, v)
      <3>1. n \in Names \cup {Other, Unpacked} /\ 0 \in 0..Len(body)
        BY <1>1
      <3>2. QED
        BY <1>1, <2>2, <3>1, ValueStep
    <2>5. QED
      BY <1>2, <2>3, <2>4
  <1>8. ScopeAt(file, body, scope, Len(body))
    BY <1>1, <1>6, <1>7 DEF ScopeAt, FuncsAt
  <1>9. StackAt(file, body, scopes, Len(body))
    <2>1. scopes = <<scope>>
      BY DEF Init
    <2>2. scopes \in Seq(Scope) /\ Len(scopes) = 1 /\ 2..Len(scopes) = {}
      BY <1>2, <2>1
    <2>3. QED
      BY <1>1, <1>3, <2>2 DEF StackAt
  <1>10. CallsAt(file, body, calls)
    BY <1>1 DEF Init, CallsAt
  <1>11. JoinsBefore(body) /\ Stays(file, body)
    <2>1. 1..Len(body) = {} /\ \A k \in 0..Len(body) : 1..k = {}
      BY <1>1
    <2>2. QED
      BY <2>1 DEF JoinsBefore, Stays
  <1>12. QED
    BY <1>1, <1>8, <1>9, <1>10, <1>11 DEF WalkInv

\* What is known of the longer body before its last node is looked at.
LEMMA WalkStep ==
    ASSUME WalkInv, NEW node \in Nodes, Walk(node)
    PROVE  LET k == Len(body)
           IN  /\ k \in Nat /\ body' \in Seq(Nodes) /\ Len(body') = k + 1 /\ body'[k + 1] = node
               /\ IsGo(file, body') /\ IsConsidered(file, body')
               /\ JoinsBefore(body') /\ (Forms = {} => Stays(file, body'))
               /\ Depth(body', k) >= 1 /\ Depth(body', k + 1) >= 1
               /\ ScopeAt(file, body', scope, k) /\ StackAt(file, body', scopes, k)
               /\ k + 1 \notin DOMAIN calls
               /\ \A j \in 1..k : body'[j].op = "call" => CallAt(file, body', calls, j)
               /\ DOMAIN calls \subseteq {j \in 1..k : body'[j].op = "call"}
  <1> DEFINE k == Len(body)
  <1>1. /\ body \in Seq(Nodes) /\ body' = Append(body, node) /\ k \in Nat
        /\ IsGo(file, body') /\ IsConsidered(file, body') /\ scopes # <<>>
    BY DEF WalkInv, Walk
  <1>2. /\ body' \in Seq(Nodes) /\ Len(body') = k + 1 /\ body'[k + 1] = node
        /\ \A i \in 1..k : body'[i] = body[i]
    BY <1>1
  <1>3. Len(body) <= Len(body') /\ Agree(body, body', Len(body)) /\ k \in 0..Len(body)
    BY <1>1, <1>2 DEF Agree
  <1>4. ScopeAt(file, body', scope, k)
    <2>1. ScopeAt(file, body, scope, k)
      BY DEF WalkInv
    <2> HIDE DEF k
    <2>2. QED
      BY <1>1, <1>2, <1>3, <2>1, AgreeingScopes
  <1>5. StackAt(file, body', scopes, k)
    <2>1. StackAt(file, body, scopes, k)
      BY DEF WalkInv
    <2> HIDE DEF k
    <2>2. QED
      BY <1>1, <1>2, <1>3, <2>1, AgreeingStacks
  <1>6. Depth(body', k) >= 1
    <2>1. scopes \in Seq(Scope) /\ Len(scopes) = Depth(body', k)
      BY <1>5 DEF StackAt
    <2>2. Len(scopes) \in Nat /\ Len(scopes) # 0
      BY <1>1, <2>1
    <2>3. QED
      BY <2>1, <2>2
  <1>7. Depth(body', k + 1) >= 1
    BY <1>1, <1>2 DEF IsGo
  <1>8. CallsAt(file, body, calls)
    BY DEF WalkInv
  <1>9. \A j \in 1..k : body'[j].op = "call" => CallAt(file, body', calls, j)
    BY <1>1, <1>2, <1>3, <1>8, AgreeingCalls
  <1>10. DOMAIN calls \subseteq {j \in 1..k : body'[j].op = "call"}
    BY <1>2, <1>8 DEF CallsAt
  <1>11. k + 1 \notin DOMAIN calls
    BY <1>1, <1>10
  <1>12. JoinsBefore(body')
    <2>1. JoinsBefore(body)
      BY DEF WalkInv
    <2>2. \A i \in 1..k : i > 1 => i - 1 \in 1..k
      BY <1>1
    <2>3. \A i \in 1..(k + 1) : i \in 1..k \/ i = k + 1
      BY <1>1
    <2>4. node.joined => k + 1 > 1 /\ node.op \in Giving /\ body'[k].op = node.op
      BY <1>1, <1>2 DEF IsGo, JoinsAsGo
    <2>5. (k + 1) - 1 = k
      BY <1>1
    <2> HIDE DEF k
    <2>6. QED
      BY <1>2, <2>1, <2>2, <2>3, <2>4, <2>5 DEF JoinsBefore, k
  <1>13. Forms = {} => Stays(file, body')
    <2>1. Forms = {} => Stays(file, body)
      BY DEF WalkInv
    <2>2. Len(body) = k /\ Agree(body, body', k)
      BY <1>3
    <2> HIDE DEF k
    <2>3. QED
      BY <1>1, <1>2, <2>1, <2>2, NextStays
  <1>14. QED
    BY <1>1, <1>2, <1>4, <1>5, <1>6, <1>7, <1>9, <1>10, <1>11, <1>12, <1>13

\* A node that is no call leaves the calls.
LEMMA KeptCalls ==
    ASSUME WalkInv, NEW node \in Nodes, Walk(node), node.op # "call", calls' = calls
    PROVE  CallsAt(file, body', calls')
  <1> DEFINE k == Len(body)
  <1>1. /\ k \in Nat /\ Len(body') = k + 1 /\ body'[k + 1] = node
        /\ \A j \in 1..k : body'[j].op = "call" => CallAt(file, body', calls, j)
        /\ DOMAIN calls \subseteq {j \in 1..k : body'[j].op = "call"}
    BY WalkStep
  <1>2. \A j \in 1..(k + 1) : j \in 1..k \/ j = k + 1
    BY <1>1
  <1>3. \A j \in 1..k : j \in 1..(k + 1)
    BY <1>1
  <1> HIDE DEF k
  <1>4. QED
    BY <1>1, <1>2, <1>3 DEF CallsAt

\* Each statement of the walk keeps the scopes those of Go.
LEMMA WalkNext ==
    ASSUME WalkInv, Next, Forms \cap {"own name", "unpacked name"} = {}
    PROVE  WalkInv'
  <1> DEFINE k == Len(body)
  <1>1. PICK node \in Nodes :
            \/ Enter(node) \/ Leave(node) \/ VisitValueSpec(node)
            \/ VisitAssignStmt(node) \/ VisitRangeStmt(node) \/ VisitCallExpr(node)
    BY DEF Next
  <1>2. Walk(node) /\ file' = file
    BY <1>1 DEF Enter, Leave, VisitValueSpec, VisitAssignStmt, VisitRangeStmt, VisitCallExpr
  <1>3. /\ k \in Nat /\ body' \in Seq(Nodes) /\ Len(body') = k + 1 /\ body'[k + 1] = node
        /\ IsGo(file, body') /\ IsConsidered(file, body')
        /\ JoinsBefore(body') /\ (Forms = {} => Stays(file, body'))
        /\ Depth(body', k) >= 1 /\ Depth(body', k + 1) >= 1
        /\ ScopeAt(file, body', scope, k) /\ StackAt(file, body', scopes, k)
        /\ k + 1 \notin DOMAIN calls
        /\ \A j \in 1..k : body'[j].op = "call" => CallAt(file, body', calls, j)
        /\ DOMAIN calls \subseteq {j \in 1..k : body'[j].op = "call"}
    BY <1>2, WalkStep
  <1>4. file \in Files
    BY DEF WalkInv
  <1> HIDE DEF k
  <1>5. SUFFICES /\ ScopeAt(file, body', scope', k + 1)
                 /\ StackAt(file, body', scopes', k + 1)
                 /\ CallsAt(file, body', calls')
    BY <1>2, <1>3, <1>4 DEF WalkInv
  <1>6. ASSUME node.op \notin {"open", "close", "range"}, scopes' = scopes
        PROVE  StackAt(file, body', scopes', k + 1)
    <2>1. Depth(body', k + 1) = Depth(body', k)
      BY <1>3, <1>6, NextDepth
    <2>2. \A i \in 2..Len(scopes) : \E o \in 1..(k + 1) :
                Opens(body', o, i, k + 1) /\ ScopeAt(file, body', scopes[i], o - 1)
      BY <1>3, <1>6, KeptStack
    <2>3. QED
      BY <1>3, <1>6, <2>1, <2>2 DEF StackAt
  <1>7. ASSUME node.op # "call", calls' = calls PROVE CallsAt(file, body', calls')
    BY <1>2, <1>7, KeptCalls
  <1>8. CASE Enter(node)
    <2>1. node.op = "open" /\ scopes' = Append(scopes, scope)
          /\ scope' = [scope EXCEPT !.declared = {}] /\ calls' = calls
      BY <1>8 DEF Enter
    <2>2. ScopeAt(file, body', scope', k + 1)
      BY <1>3, <2>1, OpenNode
    <2>3. StackAt(file, body', scopes', k + 1)
      BY <1>3, <2>1, PushedStack
    <2>4. QED
      BY <1>7, <2>1, <2>2, <2>3
  <1>9. CASE Leave(node)
    <2>1. node.op = "close" /\ scope' = scopes[Len(scopes)]
          /\ scopes' = SubSeq(scopes, 1, Len(scopes) - 1) /\ calls' = calls
      BY <1>9 DEF Leave
    <2>2. ScopeAt(file, body', scope', k + 1) /\ StackAt(file, body', scopes', k + 1)
      BY <1>3, <2>1, PoppedStack
    <2>3. QED
      BY <1>7, <2>1, <2>2
  <1>10. CASE VisitValueSpec(node) \/ VisitAssignStmt(node)
    <2>1. node.op \in {"define", "assign", "var"} /\ scopes' = scopes /\ calls' = calls
      BY <1>10 DEF VisitValueSpec, VisitAssignStmt
    <2>2. ScopeAt(file, body', After(scope, node), k + 1)
      BY <1>3, <1>4, <2>1, StatementNode
    <2>3. scope' = After(scope, node)
      <3>1. CASE VisitAssignStmt(node)
        BY <3>1 DEF VisitAssignStmt, After
      <3>2. CASE VisitValueSpec(node)
        <4>1. node.op = "var" /\ scope' = Give(Declare(scope, node.name), node.name, node.value)
          BY <3>2 DEF VisitValueSpec
        <4>2. node.value # Unpacked
          <5>1. DeclaresAt(file, body', k + 1, node.name)
            BY <1>3, <4>1 DEF DeclaresAt
          <5>2. QED
            BY <1>3, <5>1 DEF IsConsidered
        <4>3. QED
          BY <4>1, <4>2 DEF After
      <3>3. QED
        BY <1>10, <3>1, <3>2
    <2>4. QED
      BY <1>6, <1>7, <2>1, <2>2, <2>3
  <1>11. CASE VisitRangeStmt(node)
    <2>1. node.op = "range" /\ scopes' = Append(scopes, scope) /\ calls' = calls
          /\ scope' = [scope EXCEPT !.vars = @ \cup {node.name}, !.declared = {}]
      BY <1>11 DEF VisitRangeStmt
    <2>2. ScopeAt(file, body', scope', k + 1)
      BY <1>3, <1>4, <2>1, RangeNode
    <2>3. StackAt(file, body', scopes', k + 1)
      BY <1>3, <2>1, PushedStack
    <2>4. QED
      BY <1>7, <2>1, <2>2, <2>3
  <1>12. CASE VisitCallExpr(node)
    <2>1. /\ node.op = "call" /\ scope' = scope /\ scopes' = scopes
          /\ calls' = IF IsConversion(node.name) THEN calls
                      ELSE [j \in DOMAIN calls \cup {k + 1} |->
                              IF j \in DOMAIN calls THEN calls[j] ELSE FoundAs(node.name)]
      BY <1>3, <1>12 DEF VisitCallExpr
    <2>2. ScopeAt(file, body', scope', k + 1)
      BY <1>3, <2>1, SilentNode
    <2>3. StackAt(file, body', scopes', k + 1)
      BY <1>6, <2>1
    <2>4. node.name \in Names
      BY <2>1, ScopesAssumption
    <2>5. CallAt(file, body', calls', k + 1)
      BY <1>3, <2>1, <2>4, CallNode
    <2>6. \A j \in 1..k : (j \in DOMAIN calls' <=> j \in DOMAIN calls)
                          /\ (j \in DOMAIN calls => calls'[j] = calls[j])
      <3>1. \A j \in 1..k : j # k + 1
        BY <1>3, OneMoreNode
      <3>2. QED
        BY <2>1, <3>1
    <2>7. \A j \in 1..k : body'[j].op = "call" => CallAt(file, body', calls', j)
      BY <1>3, <2>6 DEF CallAt
    <2>8. \A j \in 1..(k + 1) : j \in 1..k \/ j = k + 1
      BY <1>3, OneMoreNode
    <2>9. DOMAIN calls' \subseteq {j \in 1..(k + 1) : body'[j].op = "call"}
      <3>1. DOMAIN calls' \subseteq DOMAIN calls \cup {k + 1}
        BY <2>1
      <3>2. k + 1 \in 1..(k + 1) /\ \A j \in 1..k : j \in 1..(k + 1)
        BY <1>3, OneMoreNode
      <3>3. QED
        BY <1>3, <2>1, <3>1, <3>2
    <2>10. CallsAt(file, body', calls')
      BY <1>3, <2>5, <2>7, <2>8, <2>9 DEF CallsAt
    <2>11. QED
      BY <2>2, <2>3, <2>10
  <1>13. QED
    BY <1>1, <1>8, <1>9, <1>10, <1>11, <1>12

LEMMA WalkTheorem ==
    ASSUME Forms \cap {"own name", "unpacked name"} = {}
    PROVE  Spec => []WalkInv
  <1>1. Init => WalkInv
    BY WalkInit
  <1>2. WalkInv /\ [Next]_vars => WalkInv'
    <2>1. WalkInv /\ UNCHANGED vars => WalkInv'
      BY DEF vars, WalkInv
    <2>2. QED
      BY <2>1, WalkNext
  <1>3. QED
    BY <1>1, <1>2, PTL DEF Spec

\* At every call of every body, of whatever length and over whatever names, the
\* walk takes a name for a symbol exactly where no variable of Go hides it, and for a
\* conversion only where it is a type that no variable hides (analyzeBody).  Of the forms
\* it leaves out two, of which it is false: a value that uses the name it is given to, and
\* a variable that gets a result, but the first, of a call.  Parallel values, assignments
\* in inner blocks and hidden functions are included.
THEOREM HidesTheorem ==
    ASSUME Forms \cap {"own name", "unpacked name"} = {}
    PROVE  Spec => []HidesAsGo
  <1>1. WalkInv => HidesAsGo
    BY DEF WalkInv, CallsAt, CallAt, HidesAsGo, CallNodes
  <1>2. QED
    BY <1>1, WalkTheorem, PTL

\* At every call through a variable the walk knows the function that was given last to
\* that variable, in whichever block, and to no other variable of its name (analyzeBody
\* and functionValue).  The bodies have any number of names on the left side of a
\* statement; they have none of the forms, for each of which it or HidesAsGo is false.
THEOREM ValuesTheorem ==
    ASSUME Forms = {}
    PROVE  Spec => []ValuesAsGiven
  <1>1. WalkInv => ValuesAsGiven
    BY DEF WalkInv, CallsAt, CallAt, ValuesAsGiven
  <1>2. Spec => []WalkInv
    BY WalkTheorem
  <1>3. QED
    BY <1>1, <1>2, PTL

=============================================================================
