------------------------------ MODULE Indices ------------------------------
(***************************************************************************)
(* Lemmas about sets of numbers and of the indices of a list, for the      *)
(* proofs about code that takes the first, the last or the only one of     *)
(* several entries, and about loops that end.                              *)
(***************************************************************************)
EXTENDS Integers, FiniteSets, FiniteSetsExt, FiniteSetTheorems, NaturalsInduction,
        WellFoundedInduction, TLAPS

\* A set of numbers has a least element: < is well-founded.
LEMMA LeastElement ==
    ASSUME NEW T, T \subseteq Nat, T # {}
    PROVE  \E n \in T : \A k \in T : n <= k
  <1>1. IsWellFoundedOn(OpToRel(<, Nat), Nat)
    BY NatLessThanWellFounded
  <1>2. PICK n \in T : \A k \in T : ~(<<k, n>> \in OpToRel(<, Nat))
    BY <1>1, WFMin
  <1>3. \A k \in T : ~(k < n)
    BY <1>2 DEF OpToRel
  <1>4. QED
    BY <1>3

\* A bounded one has a greatest element, counted from the bound.
LEMMA GreatestElement ==
    ASSUME NEW m \in Nat, NEW T, T \subseteq 0..m, T # {}
    PROVE  \E n \in T : \A k \in T : n >= k
  <1> DEFINE U == {m - k : k \in T}
  <1>1. \A k \in T : m - k \in Nat
    OBVIOUS
  <1>2. PICK u \in U : \A v \in U : u <= v
    BY <1>1, LeastElement
  <1>3. PICK n \in T : u = m - n
    OBVIOUS
  <1>4. ASSUME NEW k \in T PROVE n >= k
    <2>1. m - k \in U
      OBVIOUS
    <2>2. QED
      BY <2>1, <1>2, <1>3
  <1>5. QED
    BY <1>4

\* The first and the last of some indices of a list are among them.
LEMMA IndicesHaveEnds ==
    ASSUME NEW m \in Nat, NEW T, T \subseteq 1..m, T # {}
    PROVE  Min(T) \in T /\ Max(T) \in T
  <1>1. T \subseteq Nat
    OBVIOUS
  <1>2. T \subseteq 0..m
    OBVIOUS
  <1>3. \E n \in T : \A k \in T : n >= k
    BY <1>2, GreatestElement
  <1>4. \E n \in T : \A k \in T : n <= k
    BY <1>1, LeastElement
  <1>5. QED
    BY <1>3, <1>4 DEF Min, Max

\* One index is counted as one.
LEMMA SingletonCardinality ==
    ASSUME NEW n \in Nat, NEW S, S \subseteq 1..n
    PROVE  Cardinality(S) = 1 <=> \E m \in 1..n : S = {m}
  <1>1. 1 \in Int /\ n \in Int
    OBVIOUS
  <1>2. IsFiniteSet(1..n)
    BY <1>1, FS_Interval
  <1>3. IsFiniteSet(S)
    BY <1>2, FS_Subset
  <1>4. CASE Cardinality(S) = 1
    BY <1>3, <1>4, FS_Singleton
  <1>5. CASE \E m \in 1..n : S = {m}
    BY <1>5, FS_Singleton
  <1>6. QED
    BY <1>4, <1>5

-----------------------------------------------------------------------------
(* Loops. *)

\* A loop goes on in Go, each time to a smaller state.
Ends(S, Go, next, size) ==
    /\ next \in [S -> S] /\ size \in [S -> Nat]
    /\ \A s \in S : s \in Go => size[next[s]] < size[s]

\* f has the result of the loop from every state s: it ends outside Go.
IsLoop(f, S, Go, next, result) ==
    f = [s \in S |-> IF s \in Go THEN f[next[s]] ELSE result[s]]

\* A loop that ends has a result from every state.
LEMMA LoopsEnd ==
    ASSUME NEW S, NEW Go, NEW next, NEW result, NEW size, Ends(S, Go, next, size)
    PROVE  \E f : IsLoop(f, S, Go, next, result)
  <1> USE DEF Ends
  <1> DEFINE V == {result[s] : s \in S}
             Step(f) == [s \in S |-> IF s \in Go THEN f[next[s]] ELSE result[s]]
             Upto(n, f) == \A s \in S : size[s] < n => f[s] = Step(f)[s]
             Bad == {n \in Nat : ~\E f \in [S -> V] : Upto(n, f)}
  <1>1. Bad = {}
    <2> SUFFICES ASSUME Bad # {} PROVE FALSE
      OBVIOUS
    <2>1. PICK n \in Bad : \A k \in Bad : n <= k
      <3>1. Bad \subseteq Nat
        OBVIOUS
      <3> HIDE DEF Bad
      <3>2. QED
        BY <3>1, LeastElement
    <2>2. CASE n = 0
      <3>1. [s \in S |-> result[s]] \in [S -> V]
        OBVIOUS
      <3>2. \A s \in S : ~(size[s] < 0)
        OBVIOUS
      <3>3. Upto(0, [s \in S |-> result[s]])
        BY <3>2
      <3>4. QED
        BY <2>2, <3>1, <3>3
    <2>3. CASE n # 0
      <3>1. n - 1 \in Nat /\ n - 1 \notin Bad
        <4>1. n \in Nat
          OBVIOUS
        <4> HIDE DEF Bad
        <4>2. QED
          BY <2>1, <2>3, <4>1
      <3>2. PICK f \in [S -> V] : Upto(n - 1, f)
        BY <3>1
      <3>3. Step(f) \in [S -> V]
        OBVIOUS
      <3>4. ASSUME NEW s \in S, size[s] < n PROVE Step(f)[s] = Step(Step(f))[s]
        <4>1. CASE s \in Go
          <5>1. next[s] \in S /\ size[next[s]] < n - 1
            BY <3>1, <3>4, <4>1
          <5>2. f[next[s]] = Step(f)[next[s]]
            BY <3>2, <5>1
          <5>3. QED
            BY <4>1, <5>1, <5>2
        <4>2. CASE s \notin Go
          BY <4>2
        <4>3. QED
          BY <4>1, <4>2
      <3>5. QED
        BY <3>3, <3>4
    <2>4. QED
      BY <2>2, <2>3
  <1>2. \A n \in Nat : \E f \in [S -> V] : Upto(n, f)
    BY <1>1
  <1>3. ASSUME NEW n \in Nat, NEW m \in Nat, NEW f, NEW g, Upto(n, f), Upto(m, g)
        PROVE  \A s \in S : size[s] < n /\ size[s] < m => f[s] = g[s]
    <2> DEFINE D == {k \in Nat : \E s \in S : size[s] = k /\ k < n /\ k < m /\ f[s] # g[s]}
    <2> SUFFICES ASSUME D # {} PROVE FALSE
      OBVIOUS
    <2>1. PICK k \in D : \A j \in D : k <= j
      <3>1. D \subseteq Nat
        OBVIOUS
      <3> HIDE DEF D
      <3>2. QED
        BY <3>1, LeastElement
    <2>2. PICK s \in S : size[s] = k /\ k < n /\ k < m /\ f[s] # g[s]
      OBVIOUS
    <2>3. f[s] = Step(f)[s] /\ g[s] = Step(g)[s]
      BY <1>3, <2>2
    <2>4. s \in Go /\ f[next[s]] # g[next[s]]
      BY <2>2, <2>3
    <2>5. next[s] \in S /\ size[next[s]] \in Nat /\ size[next[s]] < k
      BY <2>2, <2>4
    <2>6. size[next[s]] \in D
      BY <2>2, <2>4, <2>5
    <2>7. QED
      BY <2>1, <2>5, <2>6
  <1> DEFINE at == [n \in Nat |-> CHOOSE f \in [S -> V] : Upto(n, f)]
             F == [s \in S |-> at[size[s] + 1][s]]
  <1>4. \A n \in Nat : Upto(n, at[n])
    BY <1>2
  <1> HIDE DEF at
  <1>5. ASSUME NEW s \in S PROVE F[s] = Step(F)[s]
    <2>1. size[s] + 1 \in Nat /\ size[s] < size[s] + 1
      OBVIOUS
    <2>2. F[s] = Step(at[size[s] + 1])[s]
      BY <1>4, <2>1
    <2>3. CASE s \in Go
      <3>1. next[s] \in S /\ size[next[s]] + 1 \in Nat /\ size[next[s]] < size[next[s]] + 1
            /\ size[next[s]] < size[s] + 1
        BY <2>3
      <3>2. at[size[s] + 1][next[s]] = at[size[next[s]] + 1][next[s]]
        <4> DEFINE n == size[s] + 1
                   m == size[next[s]] + 1
        <4>1. n \in Nat /\ m \in Nat /\ Upto(n, at[n]) /\ Upto(m, at[m])
          BY <1>4, <2>1, <3>1
        <4>2. size[next[s]] < n /\ size[next[s]] < m
          BY <3>1
        <4> HIDE DEF n, m, Upto
        <4>3. at[n][next[s]] = at[m][next[s]]
          BY <1>3, <3>1, <4>1, <4>2
        <4>4. QED
          BY <4>3 DEF n, m
      <3>3. QED
        BY <2>2, <2>3, <3>1, <3>2
    <2>4. CASE s \notin Go
      BY <2>2, <2>4
    <2>5. QED
      BY <2>3, <2>4
  <1>6. F = Step(F)
    BY <1>5
  <1>7. QED
    BY <1>6 DEF IsLoop

\* T holds where the loop ends, and where it holds after a turn.
HoldsBackwards(S, Go, next, T) ==
    /\ \A s \in S : s \notin Go => s \in T
    /\ \A s \in S : s \in Go /\ next[s] \in T => s \in T

\* Then it holds everywhere.
LEMMA LoopInduction ==
    ASSUME NEW S, NEW Go, NEW next, NEW size, NEW T,
           Ends(S, Go, next, size), HoldsBackwards(S, Go, next, T)
    PROVE  \A s \in S : s \in T
  <1> USE DEF Ends, HoldsBackwards
  <1> DEFINE Bad == {k \in Nat : \E s \in S : size[s] = k /\ s \notin T}
  <1> SUFFICES ASSUME Bad # {} PROVE FALSE
    OBVIOUS
  <1>1. PICK k \in Bad : \A j \in Bad : k <= j
    <2>1. Bad \subseteq Nat
      OBVIOUS
    <2> HIDE DEF Bad
    <2>2. QED
      BY <2>1, LeastElement
  <1>2. PICK s \in S : size[s] = k /\ s \notin T
    OBVIOUS
  <1>3. s \in Go /\ next[s] \notin T
    BY <1>2
  <1>4. next[s] \in S /\ size[next[s]] \in Nat /\ size[next[s]] < k
    BY <1>2, <1>3
  <1>5. size[next[s]] \in Bad
    BY <1>3, <1>4
  <1>6. QED
    BY <1>1, <1>4, <1>5

=============================================================================
