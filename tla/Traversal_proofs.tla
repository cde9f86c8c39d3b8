-------------------------- MODULE Traversal_proofs --------------------------
(***************************************************************************)
(* Proofs about Traversal, for every set of symbols and every request: the *)
(* variables keep their types, `ancestors' is the set of symbols being     *)
(* visited, and the search implements CallerPaths.                         *)
(***************************************************************************)
EXTENDS Traversal, SequenceTheorems, FiniteSetTheorems, TLAPS

FrameType == [name : Symbols, path : Seq(Outcome), depth : Nat,
              entered : BOOLEAN, pending : Seq(Site), unique : SUBSET Keys]

-----------------------------------------------------------------------------
(* Facts about the data. *)

\* An edge has a key and an outcome of the expected types.
LEMMA KeyType == ASSUME NEW s \in Site
                 PROVE  /\ edgeOutcomeKey(s) \in Keys
                        /\ OutcomeOf(s) \in Outcome
                        /\ s.caller \in Symbols
  BY DEF edgeOutcomeKey, Keys, Site, OutcomeOf, Outcome

\* A request has the fields of Input, and finitely many call sites.
LEMMA InputType ==
  ASSUME NEW in \in Inputs
  PROVE  /\ in.root \in Symbols
         /\ in.sites \subseteq Site
         /\ in.maxDepth \in Int
         /\ IsFiniteSet(in.sites)
  <1>1. in \in Input
    BY InputsAssumption
  <1>2. IsFiniteSet(in.sites)
    BY InputsAssumption
  <1>3. QED
    BY <1>1, <1>2 DEF Input

\* callersFor returns a sequence of the edges it found, each of them once or more.
LEMMA SortedOrdersType ==
  ASSUME NEW S \in SUBSET Site, IsFiniteSet(S), NEW q \in SortedOrders(S)
  PROVE  /\ q \in Seq(Site)
         /\ {q[i] : i \in 1..Len(q)} = S
  <1>1. Cardinality(S) \in Nat
    BY FS_CardinalityType
  <1>2. q \in [1..Cardinality(S) -> S]
    BY DEF SortedOrders
  <1>3. q \in Seq(Site) /\ Len(q) = Cardinality(S)
    BY <1>1, <1>2
  <1>4. \A s \in S : \E i \in 1..Cardinality(S) : q[i] = s
    BY DEF SortedOrders
  <1>5. QED
    BY <1>2, <1>3, <1>4

-----------------------------------------------------------------------------
(* Facts about the stack. *)

\* A running search has a current frame.
LEMMA TopType ==
  ASSUME TypeOK, outcome = "running"
  PROVE  /\ stack \in Seq(FrameType)
         /\ Len(stack) \in Nat \ {0}
         /\ Len(stack) \in 1..Len(stack)
         /\ Top \in FrameType
  <1>1. stack \in Seq(FrameType) /\ stack # <<>>
    BY DEF TypeOK, FrameType
  <1>2. Len(stack) \in Nat \ {0}
    BY <1>1, EmptySeq
  <1>3. QED
    BY <1>1, <1>2, ElementOfSeq DEF Top

\* Replacing the current frame keeps the others.
LEMMA SetTopType ==
  ASSUME TypeOK, outcome = "running", NEW f \in FrameType
  PROVE  /\ SetTop(f) \in Seq(FrameType)
         /\ SetTop(f) # <<>>
         /\ Len(SetTop(f)) = Len(stack)
         /\ \A i \in 1..Len(stack) :
              SetTop(f)[i] = IF i = Len(stack) THEN f ELSE stack[i]
  <1>1. /\ stack \in Seq(FrameType)
        /\ Len(stack) \in Nat \ {0}
        /\ Len(stack) \in 1..Len(stack)
    BY TopType
  <1>2. /\ SetTop(f) \in Seq(FrameType)
        /\ Len(SetTop(f)) = Len(stack)
        /\ \A i \in 1..Len(stack) :
             SetTop(f)[i] = IF i = Len(stack) THEN f ELSE stack[i]
    BY <1>1, ExceptSeq DEF SetTop
  <1>3. QED
    BY <1>1, <1>2, EmptySeq

\* Returning from a nested visit leaves the frames below it.
LEMMA PopType ==
  ASSUME TypeOK, outcome = "running", Len(stack) # 1
  PROVE  LET rest == SubSeq(stack, 1, Len(stack) - 1)
         IN  /\ rest \in Seq(FrameType)
             /\ rest # <<>>
             /\ Len(rest) = Len(stack) - 1
             /\ \A i \in 1..(Len(stack) - 1) : rest[i] = stack[i]
  <1>1. stack \in Seq(FrameType) /\ Len(stack) \in Nat \ {0}
    BY TopType
  <1>2. \A i \in 1..(Len(stack) - 1) : stack[i] \in FrameType
    BY <1>1, ElementOfSeq
  <1> DEFINE n == Len(stack) - 1
             rest == SubSeq(stack, 1, n)
  <1>3. n \in Nat \ {0}
    BY <1>1
  <1> HIDE DEF n
  <1>4. /\ rest \in Seq(FrameType)
        /\ Len(rest) = IF 1 <= n THEN n - 1 + 1 ELSE 0
        /\ \A i \in 1..(n - 1 + 1) : rest[i] = stack[1 + i - 1]
    BY <1>2, <1>3, SubSeqProperties DEF n
  <1>5. /\ rest \in Seq(FrameType)
        /\ Len(rest) = n
        /\ \A i \in 1..n : rest[i] = stack[i]
    BY <1>3, <1>4
  <1>6. rest # <<>>
    BY <1>3, <1>5, EmptySeq
  <1>7. QED
    BY <1>5, <1>6 DEF n

\* In the loop, the next edge is a call site and the child has a path.
LEMMA EdgeType ==
  ASSUME TypeOK, InLoop
  PROVE  /\ Edge \in Site
         /\ Tail(Top.pending) \in Seq(Site)
         /\ Edge = Top.pending[1]
         /\ Len(Top.pending) \in Nat \ {0}
         /\ Len(Tail(Top.pending)) = Len(Top.pending) - 1
         /\ \A i \in 1..(Len(Top.pending) - 1) :
               Tail(Top.pending)[i] = Top.pending[i + 1]
         /\ ChildPath \in Seq(Outcome)
         /\ AfterEdge \in FrameType
         /\ [Top EXCEPT !.pending = Tail(@)] \in FrameType
  <1>1. Top \in FrameType
    BY TopType DEF InLoop
  <1>2. Top.pending \in Seq(Site) /\ Top.pending # <<>>
    BY <1>1 DEF FrameType, InLoop
  <1>3. /\ Edge \in Site
        /\ Tail(Top.pending) \in Seq(Site)
        /\ Len(Tail(Top.pending)) = Len(Top.pending) - 1
        /\ \A i \in 1..Len(Tail(Top.pending)) :
              Tail(Top.pending)[i] = Top.pending[i + 1]
    BY <1>2, HeadTailProperties DEF Edge
  <1>4. Edge = Top.pending[1] /\ Len(Top.pending) \in Nat \ {0}
    BY <1>2, EmptySeq DEF Edge
  <1>5. ChildPath \in Seq(Outcome)
    BY <1>1, <1>3, KeyType, AppendProperties DEF FrameType, ChildPath
  <1>6. /\ AfterEdge \in FrameType
        /\ [Top EXCEPT !.pending = Tail(@)] \in FrameType
    BY <1>1, <1>3, KeyType DEF FrameType, AfterEdge
  <1>7. QED
    BY <1>3, <1>4, <1>5, <1>6

\* callersFor returns call sites, and each one it found, cached or not.
LEMMA CallersType ==
  ASSUME TypeOK, NEW name, NEW q \in SortedOrders(CallersOf(name))
  PROVE  /\ q \in Seq(Site)
         /\ {q[i] : i \in 1..Len(q)} = CallersOf(name)
  <1>1. CallersOf(name) \subseteq Site /\ IsFiniteSet(CallersOf(name))
    <2>1. CASE name \in DOMAIN callerCache
      <3> DEFINE c == callerCache[name]
                 T == {c[i] : i \in 1..Len(c)}
      <3>1. c \in Seq(Site)
        BY <2>1 DEF TypeOK
      <3>2. Len(c) \in Nat /\ IsFiniteSet(1..Len(c))
        BY <3>1, FS_Interval
      <3>3. c \in Surjection(1..Len(c), T) /\ T \subseteq Site
        BY <3>1 DEF Surjection
      <3>4. IsFiniteSet(T)
        BY <3>2, <3>3, FS_Surjection
      <3>5. QED
        BY <2>1, <3>3, <3>4 DEF CallersOf
    <2>2. CASE name \notin DOMAIN callerCache
      <3>1. input.sites \subseteq Site /\ IsFiniteSet(input.sites)
        BY InputType DEF TypeOK
      <3>2. SitesOf(input, name) \subseteq input.sites
        BY DEF SitesOf
      <3>3. IsFiniteSet(SitesOf(input, name))
        BY <3>1, <3>2, FS_Subset
      <3>4. QED
        BY <2>2, <3>1, <3>2, <3>3 DEF CallersOf
    <2>3. QED
      BY <2>1, <2>2
  <1>2. QED
    BY <1>1, SortedOrdersType

-----------------------------------------------------------------------------
(* Type correctness. *)

LEMMA InitTypeOK == Init => TypeOK
  <1> SUFFICES ASSUME Init PROVE TypeOK
    OBVIOUS
  <1>1. input.root \in Symbols
    BY InputType DEF Init
  <1>2. Frame(input.root, <<>>, 0) \in FrameType
    BY <1>1 DEF Frame, FrameType
  <1>3. stack \in Seq(FrameType) /\ stack # <<>>
    BY <1>2 DEF Init
  <1>4. edges \in Seq(Site)
    BY EmptySeq DEF Init
  <1>5. DOMAIN callerCache = {}
    BY DEF Init
  <1>6. QED
    BY <1>1, <1>3, <1>4, <1>5 DEF Init, TypeOK, FrameType

\* Returning from visit preserves what TypeOK says of the three variables.
LEMMA ReturnType ==
  ASSUME TypeOK, outcome = "running", Return
  PROVE  /\ stack' \in Seq(FrameType)
         /\ ancestors' \subseteq Symbols
         /\ outcome' \in {"running", "done"}
         /\ outcome' = "running" => stack' # <<>>
  <1>1. CASE Len(stack) = 1
    <2>1. <<>> \in Seq(FrameType)
      BY EmptySeq
    <2>2. QED
      BY <1>1, <2>1 DEF Return, TypeOK
  <1>2. CASE Len(stack) # 1
    BY <1>2, PopType DEF Return, TypeOK
  <1>3. QED
    BY <1>1, <1>2

LEMMA NextTypeOK == TypeOK /\ [Next]_vars => TypeOK'
  <1> SUFFICES ASSUME TypeOK, [Next]_vars PROVE TypeOK'
    OBVIOUS
  <1> USE DEF FrameType
  <1>1. CASE VisitFails
    BY <1>1 DEF VisitFails, TypeOK
  <1>2. CASE VisitTooDeep
    BY <1>2, ReturnType DEF VisitTooDeep, TypeOK
  <1>3. CASE VisitCallers
    <2>1. PICK q \in SortedOrders(CallersOf(Top.name)) :
             /\ callerCache' = [n \in DOMAIN callerCache \cup {Top.name} |->
                                   IF n = Top.name THEN q ELSE callerCache[n]]
             /\ stack' = SetTop([Top EXCEPT !.entered = TRUE, !.pending = q])
      BY <1>3 DEF VisitCallers
    <2>2. outcome = "running" /\ Top \in FrameType
      BY <1>3, TopType DEF VisitCallers
    <2>4. q \in Seq(Site)
      BY <2>1, CallersType
    <2>5. [Top EXCEPT !.entered = TRUE, !.pending = q] \in FrameType
      BY <2>2, <2>4
    <2>6. stack' \in Seq(FrameType) /\ stack' # <<>>
      BY <2>1, <2>2, <2>5, SetTopType
    <2>7. /\ DOMAIN callerCache' \subseteq Symbols
          /\ \A n \in DOMAIN callerCache' : callerCache'[n] \in Seq(Site)
      BY <2>1, <2>2, <2>4 DEF TypeOK
    <2>8. QED
      BY <1>3, <2>6, <2>7 DEF VisitCallers, TypeOK
  <1>4. CASE SkipDuplicate
    <2>1. stack' \in Seq(FrameType) /\ stack' # <<>>
      BY <1>4, EdgeType, SetTopType DEF SkipDuplicate, InLoop
    <2>2. QED
      BY <1>4, <2>1 DEF SkipDuplicate, TypeOK
  <1>5. ASSUME InLoop, RecordEdge
        PROVE  /\ seenEdges' \subseteq Keys
               /\ edges' \in Seq(Site)
               /\ tree' \subseteq [path : Seq(Outcome), cycle : BOOLEAN]
    <2>1. Edge \in Site /\ ChildPath \in Seq(Outcome)
      BY <1>5, EdgeType
    <2>2. edgeOutcomeKey(Edge) \in Keys
      BY <2>1, KeyType
    <2>3. Append(edges, Edge) \in Seq(Site)
      BY <2>1, AppendProperties DEF TypeOK
    <2>4. [path |-> ChildPath, cycle |-> Edge.caller \in ancestors]
             \in [path : Seq(Outcome), cycle : BOOLEAN]
      BY <2>1
    <2>5. QED
      BY <1>5, <2>2, <2>3, <2>4 DEF RecordEdge, TypeOK
  <1>6. CASE AddLeaf
    <2>1. stack' \in Seq(FrameType) /\ stack' # <<>>
      BY <1>6, EdgeType, SetTopType DEF AddLeaf, InLoop
    <2>2. QED
      BY <1>5, <1>6, <2>1 DEF AddLeaf, TypeOK
  <1>7. CASE Descend
    <2>1. /\ Edge.caller \in Symbols
          /\ ChildPath \in Seq(Outcome)
          /\ AfterEdge \in FrameType
      BY <1>7, EdgeType, KeyType DEF Descend
    <2>2. Top.depth + 1 \in Nat
      BY <1>7, TopType DEF Descend, InLoop
    <2>3. Frame(Edge.caller, ChildPath, Top.depth + 1) \in FrameType
      BY <2>1, <2>2, EmptySeq DEF Frame
    <2>4. SetTop(AfterEdge) \in Seq(FrameType)
      BY <1>7, <2>1, SetTopType DEF Descend, InLoop
    <2>5. stack' \in Seq(FrameType) /\ stack' # <<>>
      BY <1>7, <2>3, <2>4, AppendProperties DEF Descend
    <2>6. QED
      BY <1>5, <1>7, <2>1, <2>5 DEF Descend, TypeOK
  <1>8. CASE LoopEnds
    BY <1>8, ReturnType DEF LoopEnds, TypeOK
  <1>9. CASE Cancel
    BY <1>9 DEF Cancel, TypeOK
  <1>10. CASE UNCHANGED vars
    BY <1>10 DEF vars, TypeOK
  <1>11. QED
    BY <1>1, <1>2, <1>3, <1>4, <1>6, <1>7, <1>8, <1>9, <1>10 DEF Next, Search

\* The variables of the search keep their types on every graph, and a running
\* search always has a visit to continue.
THEOREM TypeCorrect == Spec => []TypeOK
  BY InitTypeOK, NextTypeOK, PTL DEF Spec

-----------------------------------------------------------------------------
(* How each kind of step changes the stack. *)

\* A turn of the loop, and the return of callersFor, change only the pending
\* edges, the keys and the flag of the current frame.
LEMMA SameVisits ==
  ASSUME TypeOK, outcome = "running", NEW f \in FrameType,
         f.name = Top.name, f.path = Top.path, f.depth = Top.depth,
         Top.entered => f.entered,
         stack' = SetTop(f)
  PROVE  /\ Len(stack') = Len(stack)
         /\ Len(stack) \in Nat \ {0}
         /\ stack'[Len(stack)] = f
         /\ \A i \in 1..Len(stack) : i # Len(stack) => stack'[i] = stack[i]
         /\ \A i \in 1..Len(stack) :
               /\ stack'[i].name = stack[i].name
               /\ stack'[i].path = stack[i].path
               /\ stack'[i].depth = stack[i].depth
               /\ stack[i].entered => stack'[i].entered
  BY SetTopType, TopType DEF Top

\* A nested visit adds a frame on top of the updated current one.
LEMMA OneMoreVisit ==
  ASSUME TypeOK, Descend
  PROVE  /\ Len(stack') = Len(stack) + 1
         /\ Len(stack) \in Nat \ {0}
         /\ stack'[Len(stack) + 1] = Frame(Edge.caller, ChildPath, Top.depth + 1)
         /\ stack'[Len(stack)] = AfterEdge
         /\ \A i \in 1..Len(stack) : i # Len(stack) => stack'[i] = stack[i]
         /\ \A i \in 1..Len(stack) :
               /\ stack'[i].name = stack[i].name
               /\ stack'[i].path = stack[i].path
               /\ stack'[i].depth = stack[i].depth
               /\ stack'[i].entered = stack[i].entered
  <1>1. /\ Edge.caller \in Symbols
        /\ ChildPath \in Seq(Outcome)
        /\ AfterEdge \in FrameType
        /\ Top \in FrameType
        /\ Len(stack) \in Nat \ {0}
    BY EdgeType, KeyType, TopType DEF Descend, InLoop
  <1>2. Top.depth + 1 \in Nat
    BY <1>1 DEF FrameType
  <1> DEFINE new == Frame(Edge.caller, ChildPath, Top.depth + 1)
  <1>3. new \in FrameType
    BY <1>1, <1>2, EmptySeq DEF Frame, FrameType
  <1>4. /\ SetTop(AfterEdge) \in Seq(FrameType)
        /\ Len(SetTop(AfterEdge)) = Len(stack)
        /\ \A i \in 1..Len(stack) :
             SetTop(AfterEdge)[i] = IF i = Len(stack) THEN AfterEdge ELSE stack[i]
    BY <1>1, SetTopType DEF Descend, InLoop
  <1>5. stack' = Append(SetTop(AfterEdge), new)
    BY DEF Descend
  <1> HIDE DEF new
  <1>6. /\ Len(stack') = Len(stack) + 1
        /\ stack'[Len(stack) + 1] = new
        /\ \A i \in 1..Len(stack) : stack'[i] = SetTop(AfterEdge)[i]
    BY <1>3, <1>4, <1>5, AppendProperties
  <1>7. \A i \in 1..Len(stack) :
             stack'[i] = IF i = Len(stack) THEN AfterEdge ELSE stack[i]
    BY <1>4, <1>6
  <1>8. /\ AfterEdge.name = Top.name
        /\ AfterEdge.path = Top.path
        /\ AfterEdge.depth = Top.depth
        /\ AfterEdge.entered = Top.entered
    BY <1>1 DEF AfterEdge, FrameType
  <1>9. QED
    BY <1>1, <1>6, <1>7, <1>8 DEF new, Top

\* The end of a nested visit removes its frame.
LEMMA OneVisitLess ==
  ASSUME TypeOK, outcome = "running", Return, outcome' = "running"
  PROVE  /\ Len(stack') = Len(stack) - 1
         /\ Len(stack) \in Nat \ {0, 1}
         /\ \A i \in 1..(Len(stack) - 1) : stack'[i] = stack[i]
         /\ ancestors' = ancestors \ {Top.name}
  <1>1. Len(stack) # 1 /\ Len(stack) \in Nat \ {0}
    BY TopType DEF Return
  <1>2. QED
    BY <1>1, PopType DEF Return

-----------------------------------------------------------------------------
(* The shared map of ancestors. *)

StackInv ==
    outcome = "running" =>
        /\ ancestors = {stack[i].name : i \in 1..Len(stack)}
        /\ \A i, j \in 1..Len(stack) : stack[i].name = stack[j].name => i = j
        /\ PathsAreNested

LEMMA InitStackInv == Init => StackInv
  <1> SUFFICES ASSUME Init PROVE StackInv
    OBVIOUS
  <1>1. Len(stack) = 1 /\ stack[1] = Frame(input.root, <<>>, 0)
    BY DEF Init
  <1>2. PathsAreNested
    BY <1>1 DEF PathsAreNested, Frame, Promise!EndName
  <1>3. ancestors = {stack[i].name : i \in 1..Len(stack)}
    BY <1>1 DEF Init, Frame
  <1>4. QED
    BY <1>1, <1>2, <1>3 DEF StackInv

LEMMA SameVisitsStackInv ==
  ASSUME TypeOK, StackInv, outcome = "running", NEW f \in FrameType,
         f.name = Top.name, f.path = Top.path, f.depth = Top.depth,
         Top.entered => f.entered,
         stack' = SetTop(f), ancestors' = ancestors, input' = input
  PROVE  StackInv'
  <1>1. /\ Len(stack') = Len(stack)
        /\ Len(stack) \in Nat \ {0}
        /\ \A i \in 1..Len(stack) :
              /\ stack'[i].name = stack[i].name
              /\ stack'[i].path = stack[i].path
              /\ stack'[i].depth = stack[i].depth
              /\ stack[i].entered => stack'[i].entered
    BY SameVisits
  <1>2. PathsAreNested'
    <2> SUFFICES ASSUME NEW i \in 1..Len(stack)
                 PROVE  /\ Len(stack'[i].path) = i - 1
                        /\ stack'[i].depth = i - 1
                        /\ stack'[i].name = Promise!EndName(input, stack'[i].path)
                        /\ \A j \in 1..(i - 1) :
                             /\ stack'[j].entered
                             /\ stack'[i].path[j].caller = stack'[j + 1].name
      BY <1>1 DEF PathsAreNested
    <2>1. /\ Len(stack[i].path) = i - 1
          /\ stack[i].depth = i - 1
          /\ stack[i].name = Promise!EndName(input, stack[i].path)
          /\ \A j \in 1..(i - 1) : /\ stack[j].entered
                                   /\ stack[i].path[j].caller = stack[j + 1].name
      BY DEF StackInv, PathsAreNested
    <2>2. \A j \in 1..(i - 1) : j \in 1..Len(stack) /\ j + 1 \in 1..Len(stack)
      BY <1>1
    <2>3. QED
      BY <1>1, <2>1, <2>2
  <1>3. ancestors' = {stack'[i].name : i \in 1..Len(stack')}
    BY <1>1 DEF StackInv
  <1>4. \A i, j \in 1..Len(stack') : stack'[i].name = stack'[j].name => i = j
    BY <1>1 DEF StackInv
  <1>5. QED
    BY <1>2, <1>3, <1>4 DEF StackInv

LEMMA OneMoreVisitStackInv ==
  ASSUME TypeOK, StackInv, Descend
  PROVE  StackInv'
  <1> DEFINE n == Len(stack)
  <1>1. /\ Len(stack') = n + 1
        /\ n \in Nat \ {0}
        /\ stack'[n + 1] = Frame(Edge.caller, ChildPath, Top.depth + 1)
        /\ \A i \in 1..n :
              /\ stack'[i].name = stack[i].name
              /\ stack'[i].path = stack[i].path
              /\ stack'[i].depth = stack[i].depth
              /\ stack'[i].entered = stack[i].entered
    BY OneMoreVisit
  <1>2. /\ outcome = "running" /\ input' = input
        /\ Edge.caller \notin ancestors
        /\ ancestors' = ancestors \cup {Edge.caller}
        /\ Top.entered
    BY DEF Descend, InLoop, Stops
  <1>3. /\ ancestors = {stack[i].name : i \in 1..n}
        /\ \A i, j \in 1..n : stack[i].name = stack[j].name => i = j
        /\ PathsAreNested
    BY <1>2 DEF StackInv
  <1>4. /\ stack'[n + 1].name = Edge.caller
        /\ stack'[n + 1].path = ChildPath
        /\ stack'[n + 1].depth = Top.depth + 1
    BY <1>1 DEF Frame
  <1>5. ancestors' = {stack'[i].name : i \in 1..(n + 1)}
    BY <1>1, <1>2, <1>3, <1>4
  <1>6. \A i, j \in 1..(n + 1) : stack'[i].name = stack'[j].name => i = j
    BY <1>1, <1>2, <1>3, <1>4
  <1>7. /\ Top.path \in Seq(Outcome)
        /\ Len(Top.path) = n - 1
        /\ Top.depth = n - 1
        /\ \A j \in 1..(n - 1) : stack[j].entered
        /\ \A j \in 1..(n - 1) : Top.path[j].caller = stack[j + 1].name
    BY <1>1, <1>2, <1>3, TopType DEF PathsAreNested, Top, FrameType
  <1>8. Edge \in Site /\ OutcomeOf(Edge) \in Outcome
    BY EdgeType, KeyType DEF Descend
  <1>9. /\ Len(ChildPath) = n
        /\ ChildPath # <<>>
        /\ ChildPath[n] = OutcomeOf(Edge)
        /\ \A j \in 1..(n - 1) : ChildPath[j] = Top.path[j]
    <2>1. /\ Len(ChildPath) = Len(Top.path) + 1
          /\ \A j \in 1..Len(Top.path) : ChildPath[j] = Top.path[j]
          /\ ChildPath[Len(Top.path) + 1] = OutcomeOf(Edge)
          /\ ChildPath # <<>>
      BY <1>7, <1>8, AppendProperties DEF ChildPath
    <2>2. Len(Top.path) = n - 1 /\ n \in Nat \ {0}
      BY <1>1, <1>7
    <2>3. QED
      BY <2>1, <2>2
  <1>10. ChildPath[n].caller = Edge.caller
    BY <1>9 DEF OutcomeOf
  <1>11. Len(stack') = n + 1 /\ input' = input
    BY <1>1, <1>2
  <1>12. PathsAreNested'
    <2> SUFFICES ASSUME NEW i \in 1..(n + 1)
                 PROVE  /\ Len(stack'[i].path) = i - 1
                        /\ stack'[i].depth = i - 1
                        /\ stack'[i].name = Promise!EndName(input, stack'[i].path)
                        /\ \A j \in 1..(i - 1) :
                             /\ stack'[j].entered
                             /\ stack'[i].path[j].caller = stack'[j + 1].name
      BY <1>11 DEF PathsAreNested
    <2>1. CASE i \in 1..n
      <3>1. /\ Len(stack[i].path) = i - 1
            /\ stack[i].depth = i - 1
            /\ stack[i].name = Promise!EndName(input, stack[i].path)
            /\ \A j \in 1..(i - 1) :
                 /\ stack[j].entered
                 /\ stack[i].path[j].caller = stack[j + 1].name
        BY <1>3, <2>1 DEF PathsAreNested
      <3>2. \A j \in 1..(i - 1) : j \in 1..n /\ j + 1 \in 1..n
        BY <1>1, <2>1
      <3>3. QED
        BY <1>1, <2>1, <3>1, <3>2
    <2>2. CASE i = n + 1
      <3>1. Len(stack'[i].path) = i - 1 /\ stack'[i].depth = i - 1
        BY <1>1, <1>4, <1>7, <1>9, <2>2
      <3>2. stack'[i].name = Promise!EndName(input, stack'[i].path)
        BY <1>4, <1>9, <1>10, <2>2 DEF Promise!EndName
      <3>3. ASSUME NEW j \in 1..(i - 1)
            PROVE  /\ stack'[j].entered
                   /\ stack'[i].path[j].caller = stack'[j + 1].name
        <4>1. CASE j = n
          <5>1. n \in 1..n /\ stack[n].entered
            BY <1>1, <1>2 DEF Top
          <5>2. stack'[n].entered
            BY <1>1, <5>1
          <5>3. stack'[n + 1].path[n].caller = stack'[n + 1].name
            BY <1>4, <1>10
          <5>4. QED
            BY <2>2, <4>1, <5>2, <5>3
        <4>2. CASE j \in 1..(n - 1)
          <5>1. j \in 1..n /\ j + 1 \in 1..n
            BY <1>1, <4>2
          <5>2. stack'[j].entered
            BY <1>1, <1>7, <4>2, <5>1
          <5>3. stack'[n + 1].path[j].caller = stack[j + 1].name
            BY <1>4, <1>7, <1>9, <4>2
          <5>4. stack'[j + 1].name = stack[j + 1].name
            BY <1>1, <5>1
          <5>5. QED
            BY <2>2, <5>2, <5>3, <5>4
        <4>3. QED
          BY <1>1, <2>2, <4>1, <4>2
      <3>4. QED
        BY <3>1, <3>2, <3>3
    <2>3. QED
      BY <1>1, <2>1, <2>2
  <1>13. QED
    BY <1>11, <1>5, <1>6, <1>12 DEF StackInv

LEMMA OneVisitLessStackInv ==
  ASSUME TypeOK, StackInv, outcome = "running", Return, outcome' = "running",
         input' = input
  PROVE  StackInv'
  <1> DEFINE n == Len(stack)
  <1>1. /\ Len(stack') = n - 1
        /\ n \in Nat \ {0, 1}
        /\ \A i \in 1..(n - 1) : stack'[i] = stack[i]
        /\ ancestors' = ancestors \ {stack[n].name}
    BY OneVisitLess DEF Top
  <1>2. /\ ancestors = {stack[i].name : i \in 1..n}
        /\ \A i, j \in 1..n : stack[i].name = stack[j].name => i = j
        /\ PathsAreNested
    BY DEF StackInv
  <1>3. ancestors' = {stack'[i].name : i \in 1..(n - 1)}
    BY <1>1, <1>2
  <1>4. \A i, j \in 1..(n - 1) : stack'[i].name = stack'[j].name => i = j
    BY <1>1, <1>2
  <1>5. Len(stack') = n - 1
    BY <1>1
  <1>6. PathsAreNested'
    <2> SUFFICES ASSUME NEW i \in 1..(n - 1)
                 PROVE  /\ Len(stack'[i].path) = i - 1
                        /\ stack'[i].depth = i - 1
                        /\ stack'[i].name = Promise!EndName(input, stack'[i].path)
                        /\ \A j \in 1..(i - 1) :
                             /\ stack'[j].entered
                             /\ stack'[i].path[j].caller = stack'[j + 1].name
      BY <1>5 DEF PathsAreNested
    <2>1. i \in 1..Len(stack) /\ PathsAreNested
      BY <1>1, <1>2
    <2>2. /\ Len(stack[i].path) = i - 1
          /\ stack[i].depth = i - 1
          /\ stack[i].name = Promise!EndName(input, stack[i].path)
          /\ \A j \in 1..(i - 1) : /\ stack[j].entered
                                   /\ stack[i].path[j].caller = stack[j + 1].name
      BY <2>1, Zenon DEF PathsAreNested
    <2>3. \A j \in 1..(i - 1) : j \in 1..(n - 1) /\ j + 1 \in 1..(n - 1)
      BY <1>1
    <2>4. QED
      BY <1>1, <2>2, <2>3
  <1>7. QED
    BY <1>5, <1>3, <1>4, <1>6 DEF StackInv

LEMMA NextStackInv == TypeOK /\ StackInv /\ [Next]_vars => StackInv'
  <1> SUFFICES ASSUME TypeOK, StackInv, [Next]_vars PROVE StackInv'
    OBVIOUS
  <1>1. CASE VisitFails
    BY <1>1 DEF VisitFails, StackInv
  <1>2. CASE VisitTooDeep
    BY <1>2, OneVisitLessStackInv DEF VisitTooDeep, StackInv
  <1>3. CASE VisitCallers
    <2>1. PICK q \in Seq(Site) :
             stack' = SetTop([Top EXCEPT !.entered = TRUE, !.pending = q])
      BY <1>3, CallersType DEF VisitCallers
    <2>2. Top \in FrameType
      BY <1>3, TopType DEF VisitCallers
    <2>3. /\ input' = input /\ ancestors' = ancestors
          /\ outcome = "running" /\ ~Top.entered
      BY <1>3 DEF VisitCallers
    <2>4. [Top EXCEPT !.entered = TRUE, !.pending = q] \in FrameType
      BY <2>1, <2>2 DEF FrameType
    <2>5. QED
      BY <2>1, <2>2, <2>3, <2>4, SameVisitsStackInv DEF FrameType
  <1>4. CASE SkipDuplicate
    BY <1>4, EdgeType, TopType, SameVisitsStackInv DEF SkipDuplicate, InLoop, FrameType
  <1>5. CASE AddLeaf
    BY <1>5, EdgeType, TopType, SameVisitsStackInv DEF AddLeaf, InLoop, FrameType, AfterEdge
  <1>6. CASE Descend
    BY <1>6, OneMoreVisitStackInv
  <1>7. CASE LoopEnds
    BY <1>7, OneVisitLessStackInv DEF LoopEnds, StackInv
  <1>8. CASE Cancel
    BY <1>8 DEF Cancel, StackInv, PathsAreNested, Promise!EndName
  <1>9. CASE UNCHANGED vars
    BY <1>9 DEF vars, StackInv, PathsAreNested, Promise!EndName
  <1>10. QED
    BY <1>1, <1>2, <1>3, <1>4, <1>5, <1>6, <1>7, <1>8, <1>9 DEF Next, Search

LEMMA StackInvariant == Spec => [](TypeOK /\ StackInv)
  BY InitTypeOK, NextTypeOK, InitStackInv, NextStackInv, PTL DEF Spec

\* AncestorsAreTheStack on every graph: the map that visit shares, sets and
\* deletes from always holds the symbols being visited, each visited once.
THEOREM AncestorsTheorem == Spec => []AncestorsAreTheStack
  <1>1. StackInv => AncestorsAreTheStack
    BY DEF StackInv, AncestorsAreTheStack
  <1>2. QED
    BY <1>1, StackInvariant, PTL

-----------------------------------------------------------------------------
(* The edge list and the tree report the same outcomes. *)

EdgesInv ==
    /\ seenEdges = {edgeOutcomeKey(edges[i]) : i \in 1..Len(edges)}
    /\ EdgesMatchTree

LEMMA RecordEdgeInv ==
  ASSUME TypeOK, EdgesInv, InLoop, RecordEdge
  PROVE  EdgesInv'
  <1> DEFINE k == edgeOutcomeKey(Edge)
             node == [path |-> ChildPath, cycle |-> Edge.caller \in ancestors]
  <1>1. /\ Edge \in Site
        /\ OutcomeOf(Edge) \in Outcome
        /\ Top.path \in Seq(Outcome)
        /\ edges \in Seq(Site)
    BY EdgeType, KeyType, TopType DEF InLoop, FrameType, TypeOK
  <1>2. ChildPath[Len(ChildPath)] = OutcomeOf(Edge)
    BY <1>1, AppendProperties DEF ChildPath
  <1>3. edgeOutcomeKey(node.path[Len(node.path)]) = k
    BY <1>2 DEF edgeOutcomeKey, OutcomeOf
  <1>4. tree' = tree \cup {node}
    BY DEF RecordEdge
  <1> HIDE DEF node
  <1>5. {edgeOutcomeKey(n.path[Len(n.path)]) : n \in tree'} =
            {edgeOutcomeKey(n.path[Len(n.path)]) : n \in tree} \cup {k}
    BY <1>3, <1>4
  <1>6. /\ {edgeOutcomeKey(edges'[i]) : i \in 1..Len(edges')} =
               {edgeOutcomeKey(edges[i]) : i \in 1..Len(edges)} \cup {k}
        /\ \A i, j \in 1..Len(edges') :
               edgeOutcomeKey(edges'[i]) = edgeOutcomeKey(edges'[j]) => i = j
    <2>1. CASE k \in seenEdges
      BY <2>1 DEF RecordEdge, EdgesInv, EdgesMatchTree
    <2>2. CASE k \notin seenEdges
      <3>1. edges' = Append(edges, Edge)
        BY <2>2 DEF RecordEdge
      <3>2. /\ Len(edges) \in Nat
            /\ Len(edges') = Len(edges) + 1
            /\ edges'[Len(edges) + 1] = Edge
            /\ \A i \in 1..Len(edges) : edges'[i] = edges[i]
        BY <1>1, <3>1, AppendProperties, LenProperties
      <3> HIDE DEF k
      <3>3. \A i \in 1..Len(edges) : edgeOutcomeKey(edges[i]) # k
        BY <2>2 DEF EdgesInv
      <3>4. 1..Len(edges') = (1..Len(edges)) \cup {Len(edges) + 1}
        BY <3>2
      <3>5. edgeOutcomeKey(edges'[Len(edges) + 1]) = k
        BY <3>2 DEF k
      <3>6. \A i \in 1..Len(edges) :
               edgeOutcomeKey(edges'[i]) = edgeOutcomeKey(edges[i])
        BY <3>2
      <3>7. {edgeOutcomeKey(edges'[i]) : i \in 1..Len(edges')} =
               {edgeOutcomeKey(edges[i]) : i \in 1..Len(edges)} \cup {k}
        BY <3>4, <3>5, <3>6
      <3>8. \A i, j \in 1..Len(edges') :
               edgeOutcomeKey(edges'[i]) = edgeOutcomeKey(edges'[j]) => i = j
        BY <3>2, <3>3, <3>4, <3>5, <3>6 DEF EdgesInv, EdgesMatchTree
      <3>9. QED
        BY <3>7, <3>8
    <2>3. QED
      BY <2>1, <2>2
  <1>7. seenEdges' = seenEdges \cup {k}
    BY DEF RecordEdge
  <1> HIDE DEF k
  <1>8. QED
    BY <1>5, <1>6, <1>7 DEF EdgesInv, EdgesMatchTree

LEMMA NextEdgesInv == TypeOK /\ EdgesInv /\ [Next]_vars => EdgesInv'
  <1> SUFFICES ASSUME TypeOK, EdgesInv, [Next]_vars PROVE EdgesInv'
    OBVIOUS
  <1>1. CASE AddLeaf
    BY <1>1, RecordEdgeInv DEF AddLeaf
  <1>2. CASE Descend
    BY <1>2, RecordEdgeInv DEF Descend
  <1>3. CASE ~AddLeaf /\ ~Descend
    <2>1. UNCHANGED <<seenEdges, edges, tree>>
      BY <1>3 DEF Next, Search, VisitFails, VisitTooDeep, VisitCallers,
                  SkipDuplicate, LoopEnds, Cancel, vars
    <2>2. QED
      BY <2>1 DEF EdgesInv, EdgesMatchTree
  <1>4. QED
    BY <1>1, <1>2, <1>3

\* EdgesMatchTree on every graph: the list of edges, deduplicated over the
\* whole search, and the tree, deduplicated per visit, agree at every moment.
THEOREM EdgesTheorem == Spec => []EdgesMatchTree
  <1>1. Init => EdgesInv
    <2> SUFFICES ASSUME Init PROVE EdgesInv
      OBVIOUS
    <2>1. edges = <<>> /\ tree = {} /\ seenEdges = {} /\ Len(edges) = 0
      BY DEF Init
    <2>2. QED
      BY <2>1 DEF EdgesInv, EdgesMatchTree
  <1>2. EdgesInv => EdgesMatchTree
    BY DEF EdgesInv
  <1>3. QED
    BY <1>1, <1>2, InitTypeOK, NextTypeOK, NextEdgesInv, PTL DEF Spec

-----------------------------------------------------------------------------
(* What the search has reported, and what it still has to report.  The rest  *)
(* of VisitInvariant beside PathsAreNested.                                  *)

ResultInv ==
    outcome = "running" =>
        /\ VisitsAreAllowed
        /\ NothingIsSkipped
        /\ FinishedNodesAreClosed
        /\ CacheIsComplete

\* CallerPaths and the search read the request in the same way.
LEMMA SameVocabulary ==
  ASSUME NEW in, NEW e, NEW name
  PROVE  /\ Promise!Continue(in, e) = Continue(in, e)
         /\ Promise!SitesOf(in, name) = SitesOf(in, name)
         /\ Promise!OutcomeOf(e) = OutcomeOf(e)
  BY DEF Promise!Continue, Continue, Promise!SitesOf, SitesOf,
         Promise!OutcomeOf, OutcomeOf

\* More nodes do not take callers away.
LEMMA ClosedIsMonotonic ==
  ASSUME NEW in, NEW t, NEW u, t \subseteq u, NEW p,
         Promise!HasAllCallersOf(in, t, p)
  PROVE  Promise!HasAllCallersOf(in, u, p)
  BY DEF Promise!HasAllCallersOf

\* The child of the current visit, in the terms of CallerPaths: `ancestors'
\* decides exactly whether its path is a cycle.
LEMMA ChildNode ==
  ASSUME TypeOK, StackInv, InLoop
  PROVE  /\ ChildPath # <<>>
         /\ Len(ChildPath) = Len(Top.path) + 1
         /\ ChildPath[Len(ChildPath)] = OutcomeOf(Edge)
         /\ Top.name = Promise!EndName(input, Top.path)
         /\ Promise!IsCycle(input, ChildPath) <=> Edge.caller \in ancestors
  <1> DEFINE n == Len(stack)
  <1>1. /\ n \in Nat \ {0}
        /\ n \in 1..n
        /\ Top.path \in Seq(Outcome)
        /\ OutcomeOf(Edge) \in Outcome
    BY EdgeType, KeyType, TopType DEF InLoop, FrameType
  <1>2. /\ ancestors = {stack[i].name : i \in 1..n}
        /\ PathsAreNested
    BY DEF StackInv, InLoop
  <1>3. /\ Len(Top.path) = n - 1
        /\ Top.name = Promise!EndName(input, Top.path)
        /\ \A j \in 1..(n - 1) : Top.path[j].caller = stack[j + 1].name
    BY <1>1, <1>2 DEF PathsAreNested, Top
  <1>4. stack[1].name = input.root
    <2>1. 1 \in 1..n /\ Len(stack[1].path) = 0
      BY <1>1, <1>2 DEF PathsAreNested
    <2>2. stack[1].path = <<>>
      BY <1>1, <2>1, TopType, ElementOfSeq, EmptySeq DEF FrameType, InLoop
    <2>3. QED
      BY <1>2, <2>1, <2>2 DEF PathsAreNested, Promise!EndName
  <1>5. /\ Len(ChildPath) = n
        /\ ChildPath # <<>>
        /\ ChildPath[n] = OutcomeOf(Edge)
        /\ \A j \in 1..(n - 1) : ChildPath[j] = Top.path[j]
    BY <1>1, <1>3, AppendProperties DEF ChildPath
  <1>6. Promise!EndName(input, ChildPath) = Edge.caller
    BY <1>5 DEF Promise!EndName, OutcomeOf
  <1>7. Promise!NamesBefore(input, ChildPath) = {stack[i].name : i \in 1..n}
    <2> DEFINE before == Promise!NamesBefore(input, ChildPath)
               names == {stack[i].name : i \in 1..n}
    <2>1. \A j \in 1..(n - 1) : ChildPath[j].caller = stack[j + 1].name
      BY <1>3, <1>5
    <2>2. before = {input.root} \cup {ChildPath[j].caller : j \in 1..(n - 1)}
      BY <1>5 DEF Promise!NamesBefore
    <2>3. ASSUME NEW x \in before PROVE x \in names
      <3>1. CASE x = input.root
        BY <1>1, <1>4, <3>1
      <3>2. CASE \E j \in 1..(n - 1) : x = ChildPath[j].caller
        <4>1. PICK j \in 1..(n - 1) : x = ChildPath[j].caller
          BY <3>2
        <4>2. x = stack[j + 1].name /\ j + 1 \in 1..n
          BY <1>1, <2>1, <4>1
        <4>3. QED
          BY <4>2
      <3>3. QED
        BY <2>2, <2>3, <3>1, <3>2
    <2>4. ASSUME NEW i \in 1..n PROVE stack[i].name \in before
      <3>1. CASE i = 1
        BY <1>4, <2>2, <3>1
      <3>2. CASE i # 1
        <4>1. i - 1 \in 1..(n - 1) /\ (i - 1) + 1 = i
          BY <1>1, <3>2
        <4>2. stack[i].name = ChildPath[i - 1].caller
          BY <2>1, <4>1
        <4>3. QED
          BY <2>2, <4>1, <4>2
      <3>3. QED
        BY <3>1, <3>2
    <2> HIDE DEF before
    <2>5. QED
      BY <2>3, <2>4 DEF before
  <1>9. Promise!IsCycle(input, ChildPath) <=> Edge.caller \in ancestors
    BY <1>2, <1>5, <1>6, <1>7 DEF Promise!IsCycle
  <1>10. QED
    BY <1>1, <1>3, <1>5, <1>9

\* The node that a turn of the loop adds is the one the promise asks for.
LEMMA RecordedNode ==
  ASSUME TypeOK, StackInv, InLoop, RecordEdge
  PROVE  /\ tree' = tree \cup {Promise!NodeAt(input, ChildPath)}
         /\ \A n \in tree' : n \in tree \/ n.path = ChildPath
  <1>1. tree' = tree \cup {[path |-> ChildPath,
                            cycle |-> Edge.caller \in ancestors]}
    BY DEF RecordEdge
  <1>2. (Edge.caller \in ancestors) = Promise!IsCycle(input, ChildPath)
    <2>1. Promise!IsCycle(input, ChildPath) \in BOOLEAN
      BY DEF Promise!IsCycle
    <2>2. QED
      BY <2>1, ChildNode
  <1>3. QED
    BY <1>1, <1>2 DEF Promise!NodeAt

LEMMA InitResultInv == Init => ResultInv
  <1> SUFFICES ASSUME Init PROVE ResultInv
    OBVIOUS
  <1>1. /\ Len(stack) = 1 /\ tree = {} /\ DOMAIN callerCache = {}
        /\ stack[1].path = <<>> /\ stack[1].entered = FALSE
        /\ stack[1].pending = <<>> /\ stack[1].unique = {}
        /\ Len(stack[1].pending) = 0
    BY DEF Init, Frame
  <1>2. VisitsAreAllowed /\ NothingIsSkipped
    BY <1>1 DEF VisitsAreAllowed, NothingIsSkipped, SkipsNothing
  <1>3. FinishedNodesAreClosed /\ CacheIsComplete
    BY <1>1 DEF FinishedNodesAreClosed, CacheIsComplete
  <1>4. QED
    BY <1>2, <1>3 DEF ResultInv

\* The start of the loop of a visit.
LEMMA CallersResultInv ==
  ASSUME TypeOK, StackInv, ResultInv, VisitCallers
  PROVE  ResultInv'
  <1> DEFINE n == Len(stack)
  <1>1. /\ outcome = "running" /\ ~Top.entered /\ ~TooDeep
        /\ input' = input /\ tree' = tree
        /\ VisitsAreAllowed /\ NothingIsSkipped
        /\ FinishedNodesAreClosed /\ CacheIsComplete
    BY DEF VisitCallers, ResultInv
  <1>2. PICK q \in SortedOrders(CallersOf(Top.name)) :
             /\ callerCache' = [m \in DOMAIN callerCache \cup {Top.name} |->
                                   IF m = Top.name THEN q ELSE callerCache[m]]
             /\ stack' = SetTop([Top EXCEPT !.entered = TRUE, !.pending = q])
    BY DEF VisitCallers
  <1> DEFINE f == [Top EXCEPT !.entered = TRUE, !.pending = q]
  <1>3. /\ q \in Seq(Site)
        /\ {q[i] : i \in 1..Len(q)} = SitesOf(input, Top.name)
    <2>1. CallersOf(Top.name) = SitesOf(input, Top.name)
      BY <1>1 DEF CacheIsComplete, CallersOf
    <2>2. QED
      BY <2>1, CallersType
  <1>4. /\ Top \in FrameType /\ f \in FrameType
        /\ f.name = Top.name /\ f.path = Top.path /\ f.depth = Top.depth
        /\ f.unique = Top.unique /\ f.pending = q /\ f.entered = TRUE
    BY <1>1, <1>3, TopType DEF FrameType
  <1>5. /\ Len(stack') = n
        /\ n \in Nat \ {0}
        /\ stack'[n] = f /\ stack[n] = Top
        /\ \A i \in 1..n : i # n => stack'[i] = stack[i]
        /\ \A i \in 1..n : stack'[i].path = stack[i].path
    <2> HIDE DEF f
    <2>1. QED
      BY <1>1, <1>2, <1>4, SameVisits DEF Top, f
  <1> HIDE DEF f
  <1>6. VisitsAreAllowed'
    <2>1. /\ Len(Top.path) = n - 1 /\ Top.depth = n - 1
      BY <1>1, <1>5 DEF StackInv, PathsAreNested
    <2>2. input.maxDepth > 0 => Len(Top.path) < input.maxDepth
      BY <1>1, <1>5, <2>1, InputType DEF TooDeep, TypeOK
    <2>3. QED
      BY <1>1, <1>4, <1>5, <2>2 DEF VisitsAreAllowed, Continue
  <1>7. NothingIsSkipped'
    <2>1. SkipsNothing(input, tree, Top)
      BY <1>1, <1>5 DEF NothingIsSkipped
    <2>2. /\ \A k \in 1..Len(f.pending) : f.pending[k] \in SitesOf(input, f.name)
          /\ \A s \in SitesOf(input, f.name) :
                \E k \in 1..Len(f.pending) : f.pending[k] = s
      BY <1>3, <1>4
    <2>3. SkipsNothing(input, tree, f)
      BY <1>4, <2>1, <2>2 DEF SkipsNothing
    <2>4. \A i \in 1..n : SkipsNothing(input, tree, stack'[i])
      BY <1>1, <1>5, <2>3 DEF NothingIsSkipped
    <2>5. QED
      BY <1>1, <1>5, <2>4 DEF NothingIsSkipped
  <1>8. FinishedNodesAreClosed'
    BY <1>1, <1>5 DEF FinishedNodesAreClosed
  <1>9. CacheIsComplete'
    <2> SUFFICES ASSUME NEW m \in DOMAIN callerCache'
                 PROVE  {callerCache'[m][i] : i \in 1..Len(callerCache'[m])}
                            = SitesOf(input, m)
      BY <1>1 DEF CacheIsComplete
    <2>1. CASE m = Top.name
      <3>1. callerCache'[m] = q
        BY <1>2, <2>1
      <3>2. QED
        BY <1>3, <2>1, <3>1
    <2>2. CASE m # Top.name
      <3>1. m \in DOMAIN callerCache /\ callerCache'[m] = callerCache[m]
        BY <1>2, <2>2
      <3>2. QED
        BY <1>1, <3>1 DEF CacheIsComplete
    <2>3. QED
      BY <2>1, <2>2
  <1>10. QED
    BY <1>6, <1>7, <1>8, <1>9 DEF ResultInv

\* A turn of the loop skips no call site: the edge is reported or a duplicate
\* of a reported one, and the rest is still pending.
LEMMA LoopSkipsNothing ==
  ASSUME TypeOK, StackInv, ResultInv, InLoop, NEW f \in FrameType,
         f.name = Top.name, f.path = Top.path,
         f.pending = Tail(Top.pending), f.entered = Top.entered,
         \/ f.unique = Top.unique /\ edgeOutcomeKey(Edge) \in Top.unique
         \/ f.unique = Top.unique \cup {edgeOutcomeKey(Edge)},
         NEW t, tree \subseteq t,
         \/ edgeOutcomeKey(Edge) \in Top.unique
         \/ Promise!NodeAt(input, ChildPath) \in t
  PROVE  SkipsNothing(input, t, f)
  <1> DEFINE n == Len(stack)
             Reported(s) == Promise!NodeAt(input, Append(f.path, OutcomeOf(s)))
  <1>1. SkipsNothing(input, tree, Top)
    BY TopType DEF ResultInv, InLoop, NothingIsSkipped, Top
  <1>2. /\ Edge = Top.pending[1]
        /\ Len(Top.pending) \in Nat \ {0}
        /\ Len(f.pending) = Len(Top.pending) - 1
        /\ \A i \in 1..(Len(Top.pending) - 1) : f.pending[i] = Top.pending[i + 1]
    BY EdgeType
  <1>3. Edge \in SitesOf(input, Top.name) /\ Edge \in input.sites
    BY <1>1, <1>2 DEF SkipsNothing, SitesOf
  <1>4. Reported(Edge) \in t
    BY <1>1, <1>3 DEF SkipsNothing, ChildPath
  <1>5. ASSUME NEW s \in input.sites, edgeOutcomeKey(s) = edgeOutcomeKey(Edge)
        PROVE  Reported(s) \in t
    <2>1. OutcomeOf(s) = OutcomeOf(Edge)
      BY <1>5 DEF edgeOutcomeKey, OutcomeOf
    <2>2. QED
      BY <1>4, <2>1
  <1>6. ASSUME NEW k \in 1..Len(f.pending)
        PROVE  f.pending[k] \in SitesOf(input, f.name)
    <2>1. k + 1 \in 1..Len(Top.pending) /\ f.pending[k] = Top.pending[k + 1]
      BY <1>2
    <2>2. QED
      BY <1>1, <2>1 DEF SkipsNothing
  <1>7. ASSUME NEW s \in input.sites, edgeOutcomeKey(s) \in f.unique
        PROVE  Reported(s) \in t
    BY <1>1, <1>5, <1>7 DEF SkipsNothing
  <1>8. ASSUME f.entered, NEW s \in SitesOf(input, f.name)
        PROVE  Reported(s) \in t \/ \E k \in 1..Len(f.pending) : f.pending[k] = s
    <2>1. CASE Reported(s) \in tree
      BY <2>1
    <2>2. CASE \E k \in 1..Len(Top.pending) : Top.pending[k] = s
      <3>1. PICK k \in 1..Len(Top.pending) : Top.pending[k] = s
        BY <2>2
      <3>2. CASE k = 1
        BY <1>2, <1>4, <3>1, <3>2
      <3>3. CASE k # 1
        <4>1. k - 1 \in 1..Len(f.pending) /\ f.pending[k - 1] = Top.pending[k]
          BY <1>2, <3>3
        <4>2. QED
          BY <3>1, <4>1
      <3>4. QED
        BY <3>2, <3>3
    <2>3. QED
      BY <1>1, <1>8, <2>1, <2>2 DEF SkipsNothing
  <1>9. QED
    BY <1>6, <1>7, <1>8 DEF SkipsNothing

LEMMA SkipsNothingIsMonotonic ==
  ASSUME NEW in, NEW t, NEW u, t \subseteq u, NEW f, SkipsNothing(in, t, f)
  PROVE  SkipsNothing(in, u, f)
  BY DEF SkipsNothing

\* A turn of the loop that starts no visit.
LEMMA TurnResultInv ==
  ASSUME TypeOK, StackInv, ResultInv, InLoop, NEW f \in FrameType,
         f.name = Top.name, f.path = Top.path, f.depth = Top.depth,
         f.pending = Tail(Top.pending), f.entered = Top.entered,
         \/ f.unique = Top.unique /\ edgeOutcomeKey(Edge) \in Top.unique
         \/ f.unique = Top.unique \cup {edgeOutcomeKey(Edge)},
         stack' = SetTop(f), tree \subseteq tree',
         \/ edgeOutcomeKey(Edge) \in Top.unique
         \/ Promise!NodeAt(input, ChildPath) \in tree',
         \A m \in tree' : m \in tree \/ ~Promise!Expandable(input, m.path),
         UNCHANGED <<input, callerCache>>
  PROVE  ResultInv'
  <1> DEFINE n == Len(stack)
  <1>1. /\ VisitsAreAllowed /\ NothingIsSkipped
        /\ FinishedNodesAreClosed /\ CacheIsComplete
        /\ outcome = "running"
    BY DEF ResultInv, InLoop
  <1>2. /\ Len(stack') = n
        /\ n \in Nat \ {0}
        /\ stack'[n] = f /\ stack[n] = Top
        /\ \A i \in 1..n : i # n => stack'[i] = stack[i]
        /\ \A i \in 1..n : /\ stack'[i].path = stack[i].path
                           /\ stack'[i].entered = stack[i].entered
    <2>1. Top.entered => f.entered
      OBVIOUS
    <2>2. QED
      BY <1>1, <2>1, SameVisits DEF Top
  <1>3. VisitsAreAllowed'
    BY <1>1, <1>2 DEF VisitsAreAllowed
  <1>4. NothingIsSkipped'
    <2>1. SkipsNothing(input, tree', f)
      BY LoopSkipsNothing
    <2>2. \A i \in 1..n : i # n => SkipsNothing(input, tree', stack[i])
      BY <1>1, SkipsNothingIsMonotonic DEF NothingIsSkipped
    <2>3. QED
      BY <1>2, <2>1, <2>2 DEF NothingIsSkipped
  <1>5. FinishedNodesAreClosed'
    <2> SUFFICES ASSUME NEW m \in tree'
                 PROVE  \/ \E i \in 1..Len(stack') : stack'[i].path = m.path
                        \/ Promise!HasAllCallersOf(input, tree', m.path)
      BY DEF FinishedNodesAreClosed
    <2>1. CASE m \in tree
      BY <1>1, <1>2, <2>1, ClosedIsMonotonic DEF FinishedNodesAreClosed
    <2>2. CASE ~Promise!Expandable(input, m.path)
      BY <2>2 DEF Promise!HasAllCallersOf
    <2>3. QED
      BY <2>1, <2>2
  <1>6. CacheIsComplete'
    BY <1>1 DEF CacheIsComplete
  <1>7. QED
    BY <1>3, <1>4, <1>5, <1>6 DEF ResultInv

LEMMA SkipResultInv ==
  ASSUME TypeOK, StackInv, ResultInv, SkipDuplicate
  PROVE  ResultInv'
  <1> DEFINE f == [Top EXCEPT !.pending = Tail(@)]
  <1>1. /\ InLoop /\ stack' = SetTop(f)
        /\ edgeOutcomeKey(Edge) \in Top.unique
        /\ tree' = tree /\ UNCHANGED <<input, callerCache>>
    BY DEF SkipDuplicate
  <1>2. /\ f \in FrameType
        /\ f.name = Top.name /\ f.path = Top.path /\ f.depth = Top.depth
        /\ f.pending = Tail(Top.pending) /\ f.entered = Top.entered
        /\ f.unique = Top.unique
    BY <1>1, EdgeType, TopType DEF InLoop, FrameType
  <1> HIDE DEF f
  <1>3. QED
    BY <1>1, <1>2, TurnResultInv

\* What the loop does with the frame when it records an edge.
LEMMA AfterEdgeFields ==
  ASSUME TypeOK, InLoop
  PROVE  /\ AfterEdge \in FrameType
         /\ AfterEdge.name = Top.name
         /\ AfterEdge.path = Top.path
         /\ AfterEdge.depth = Top.depth
         /\ AfterEdge.pending = Tail(Top.pending)
         /\ AfterEdge.entered = Top.entered
         /\ AfterEdge.unique = Top.unique \cup {edgeOutcomeKey(Edge)}
  BY EdgeType, TopType DEF InLoop, FrameType, AfterEdge

LEMMA LeafResultInv ==
  ASSUME TypeOK, StackInv, ResultInv, AddLeaf
  PROVE  ResultInv'
  <1>1. /\ InLoop /\ RecordEdge /\ Stops
        /\ stack' = SetTop(AfterEdge)
        /\ UNCHANGED <<input, callerCache>>
    BY DEF AddLeaf
  <1>2. /\ tree \subseteq tree'
        /\ Promise!NodeAt(input, ChildPath) \in tree'
        /\ \A m \in tree' : m \in tree \/ m.path = ChildPath
    BY <1>1, RecordedNode
  <1>3. ~Promise!Expandable(input, ChildPath)
    <2> DEFINE last == ChildPath[Len(ChildPath)]
    <2>1. /\ last.resolution = Edge.resolution
          /\ last.compatibility = Edge.compatibility
      BY <1>1, ChildNode DEF OutcomeOf
    <2>2. \/ Promise!IsCycle(input, ChildPath)
          \/ last.resolution = "external"
          \/ ~Continue(input, last)
      BY <1>1, <2>1, ChildNode DEF Stops, Continue
    <2>3. ChildPath # <<>>
      BY <1>1, ChildNode
    <2>4. QED
      BY <2>2, <2>3, SameVocabulary DEF Promise!Expandable
  <1>4. \A m \in tree' : m \in tree \/ ~Promise!Expandable(input, m.path)
    BY <1>2, <1>3
  <1>5. QED
    BY <1>1, <1>2, <1>4, AfterEdgeFields, TurnResultInv

LEMMA DescendResultInv ==
  ASSUME TypeOK, StackInv, ResultInv, Descend
  PROVE  ResultInv'
  <1> DEFINE n == Len(stack)
             new == Frame(Edge.caller, ChildPath, Top.depth + 1)
  <1>1. /\ InLoop /\ RecordEdge /\ ~Stops
        /\ UNCHANGED <<input, callerCache>>
    BY DEF Descend
  <1>2. /\ VisitsAreAllowed /\ NothingIsSkipped
        /\ FinishedNodesAreClosed /\ CacheIsComplete
    BY <1>1 DEF ResultInv, InLoop
  <1>3. /\ tree \subseteq tree'
        /\ Promise!NodeAt(input, ChildPath) \in tree'
        /\ \A m \in tree' : m \in tree \/ m.path = ChildPath
    BY <1>1, RecordedNode
  <1>4. /\ Len(stack') = n + 1
        /\ n \in Nat \ {0}
        /\ stack'[n + 1] = new
        /\ stack'[n] = AfterEdge /\ stack[n] = Top
        /\ \A i \in 1..n : i # n => stack'[i] = stack[i]
        /\ \A i \in 1..n : /\ stack'[i].path = stack[i].path
                           /\ stack'[i].entered = stack[i].entered
    BY OneMoreVisit DEF Top
  <1>5. /\ new.path = ChildPath /\ new.entered = FALSE
        /\ new.pending = <<>> /\ new.unique = {} /\ Len(new.pending) = 0
    BY DEF Frame
  <1>6. 1..Len(stack') = (1..n) \cup {n + 1}
    BY <1>4
  <1> HIDE DEF new
  <1>7. VisitsAreAllowed'
    <2>1. /\ \E m \in tree' : m.path = ChildPath
          /\ ~Promise!IsCycle(input, ChildPath)
          /\ ChildPath[Len(ChildPath)].resolution # "external"
          /\ Continue(input, ChildPath[Len(ChildPath)])
      BY <1>1, <1>3, ChildNode DEF Promise!NodeAt, Stops, OutcomeOf, Continue
    <2>2. QED
      BY <1>1, <1>2, <1>3, <1>4, <1>5, <1>6, <2>1 DEF VisitsAreAllowed
  <1>8. NothingIsSkipped'
    <2>1. SkipsNothing(input, tree', AfterEdge)
      BY <1>1, <1>3, AfterEdgeFields, LoopSkipsNothing
    <2>2. \A i \in 1..n : i # n => SkipsNothing(input, tree', stack[i])
      BY <1>2, <1>3, SkipsNothingIsMonotonic DEF NothingIsSkipped
    <2>3. SkipsNothing(input, tree', new)
      BY <1>5 DEF SkipsNothing
    <2>4. \A i \in 1..Len(stack') : SkipsNothing(input, tree', stack'[i])
      BY <1>4, <1>6, <2>1, <2>2, <2>3
    <2>5. QED
      BY <1>1, <2>4 DEF NothingIsSkipped
  <1>9. FinishedNodesAreClosed'
    <2> SUFFICES ASSUME NEW m \in tree'
                 PROVE  \/ \E i \in 1..Len(stack') : stack'[i].path = m.path
                        \/ Promise!HasAllCallersOf(input, tree', m.path)
      BY <1>1 DEF FinishedNodesAreClosed
    <2>1. CASE m \in tree
      <3>1. CASE \E i \in 1..n : stack[i].path = m.path
        BY <1>4, <1>6, <3>1
      <3>2. CASE Promise!HasAllCallersOf(input, tree, m.path)
        BY <1>3, <3>2, ClosedIsMonotonic
      <3>3. QED
        BY <1>2, <2>1, <3>1, <3>2 DEF FinishedNodesAreClosed
    <2>2. CASE m.path = ChildPath
      BY <1>4, <1>5, <1>6, <2>2
    <2>3. QED
      BY <1>3, <2>1, <2>2
  <1>10. CacheIsComplete'
    BY <1>1, <1>2 DEF CacheIsComplete
  <1>11. QED
    BY <1>7, <1>8, <1>9, <1>10 DEF ResultInv

\* When visit returns, the callers of its node are all in the tree.
LEMMA FinishedVisit ==
  ASSUME TypeOK, StackInv, ResultInv, outcome = "running",
         \/ ~Top.entered /\ TooDeep
         \/ Top.entered /\ Top.pending = <<>>
  PROVE  Promise!HasAllCallersOf(input, tree, Top.path)
  <1>1. /\ Len(stack) \in 1..Len(stack)
        /\ Top.name = Promise!EndName(input, Top.path)
        /\ Len(Top.path) = Top.depth
        /\ SkipsNothing(input, tree, Top)
    BY TopType DEF StackInv, PathsAreNested, ResultInv, NothingIsSkipped, Top
  <1>2. CASE ~Top.entered /\ TooDeep
    <2>1. Top.depth \in Nat /\ input.maxDepth \in Int
      BY TopType, InputType DEF FrameType, TypeOK
    <2>2. ~Promise!Expandable(input, Top.path)
      BY <1>1, <1>2, <2>1 DEF Promise!Expandable, TooDeep
    <2>3. QED
      BY <2>2 DEF Promise!HasAllCallersOf
  <1>3. CASE Top.entered /\ Top.pending = <<>>
    <2>1. 1..Len(Top.pending) = {}
      BY <1>3
    <2>2. \A s \in SitesOf(input, Top.name) :
             Promise!NodeAt(input, Append(Top.path, OutcomeOf(s))) \in tree
      BY <1>1, <1>3, <2>1 DEF SkipsNothing
    <2>3. QED
      BY <1>1, <2>2, SameVocabulary DEF Promise!HasAllCallersOf
  <1>4. QED
    BY <1>2, <1>3

LEMMA ReturnResultInv ==
  ASSUME TypeOK, StackInv, ResultInv, outcome = "running",
         Promise!HasAllCallersOf(input, tree, Top.path),
         Return, UNCHANGED <<input, tree, callerCache>>
  PROVE  ResultInv'
  <1> DEFINE n == Len(stack)
  <1> SUFFICES ASSUME outcome' = "running" PROVE ResultInv'
    BY DEF ResultInv
  <1>1. /\ VisitsAreAllowed /\ NothingIsSkipped
        /\ FinishedNodesAreClosed /\ CacheIsComplete
    BY DEF ResultInv
  <1>2. /\ Len(stack') = n - 1
        /\ n \in Nat \ {0, 1}
        /\ \A i \in 1..(n - 1) : i \in 1..n /\ stack'[i] = stack[i]
        /\ stack[n] = Top
    BY OneVisitLess DEF Top
  <1>3. VisitsAreAllowed'
    BY <1>1, <1>2 DEF VisitsAreAllowed
  <1>4. NothingIsSkipped'
    BY <1>1, <1>2 DEF NothingIsSkipped
  <1>5. FinishedNodesAreClosed'
    <2> SUFFICES ASSUME NEW m \in tree
                 PROVE  \/ \E i \in 1..(n - 1) : stack'[i].path = m.path
                        \/ Promise!HasAllCallersOf(input, tree, m.path)
      BY <1>2 DEF FinishedNodesAreClosed
    <2>1. CASE \E i \in 1..n : stack[i].path = m.path
      <3>1. PICK i \in 1..n : stack[i].path = m.path
        BY <2>1
      <3>2. i = n \/ i \in 1..(n - 1)
        BY <1>2
      <3>3. QED
        BY <1>2, <3>1, <3>2
    <2>2. QED
      BY <1>1, <2>1 DEF FinishedNodesAreClosed
  <1>6. CacheIsComplete'
    BY <1>1 DEF CacheIsComplete
  <1>7. QED
    BY <1>3, <1>4, <1>5, <1>6 DEF ResultInv

LEMMA NextResultInv == TypeOK /\ StackInv /\ ResultInv /\ [Next]_vars => ResultInv'
  <1> SUFFICES ASSUME TypeOK, StackInv, ResultInv, [Next]_vars PROVE ResultInv'
    OBVIOUS
  <1>1. CASE VisitFails
    BY <1>1 DEF VisitFails, ResultInv
  <1>2. CASE VisitTooDeep
    BY <1>2, FinishedVisit, ReturnResultInv DEF VisitTooDeep
  <1>3. CASE VisitCallers
    BY <1>3, CallersResultInv
  <1>4. CASE SkipDuplicate
    BY <1>4, SkipResultInv
  <1>5. CASE AddLeaf
    BY <1>5, LeafResultInv
  <1>6. CASE Descend
    BY <1>6, DescendResultInv
  <1>7. CASE LoopEnds
    BY <1>7, FinishedVisit, ReturnResultInv DEF LoopEnds
  <1>8. CASE Cancel \/ UNCHANGED vars
    <2>1. UNCHANGED <<input, stack, tree, callerCache, outcome>>
      BY <1>8 DEF Cancel, vars
    <2>2. QED
      BY <2>1 DEF ResultInv, VisitsAreAllowed, NothingIsSkipped,
                  FinishedNodesAreClosed, CacheIsComplete
  <1>9. QED
    BY <1>1, <1>2, <1>3, <1>4, <1>5, <1>6, <1>7, <1>8 DEF Next, Search

LEMMA Invariance == Spec => [](TypeOK /\ StackInv /\ ResultInv)
  BY InitTypeOK, NextTypeOK, InitStackInv, NextStackInv,
     InitResultInv, NextResultInv, PTL DEF Spec

\* What a search has put into its result at any moment is complete up to the
\* visits in progress: no call site that `unique' or the caller cache made it
\* pass over is missing, and no finished node lacks a caller.
THEOREM VisitTheorem == Spec => []VisitInvariant
  <1>1. StackInv /\ ResultInv => VisitInvariant
    BY DEF StackInv, ResultInv, VisitInvariant
  <1>2. QED
    BY <1>1, Invariance, PTL

-----------------------------------------------------------------------------
(* The search implements CallerPaths. *)

\* A turn of the loop that records an edge reports a caller of a path that may
\* be extended.
LEMMA RecordReports ==
  ASSUME TypeOK, StackInv, ResultInv, InLoop, RecordEdge,
         UNCHANGED <<input, outcome>>
  PROVE  Promise!Report
  <1>1. Len(stack) \in 1..Len(stack)
    BY TopType DEF InLoop
  <1>2. /\ Top.name = Promise!EndName(input, Top.path)
        /\ SkipsNothing(input, tree, Top)
        /\ Top.entered /\ outcome = "running"
    BY <1>1, ChildNode DEF ResultInv, NothingIsSkipped, InLoop, Top
  <1>3. Edge \in SitesOf(input, Promise!EndName(input, Top.path))
    BY <1>2, EdgeType DEF SkipsNothing
  <1>4. /\ Top.path \in {<<>>} \cup {m.path : m \in tree}
        /\ Promise!Expandable(input, Top.path)
    BY <1>1, <1>2, SameVocabulary
       DEF ResultInv, VisitsAreAllowed, Promise!Expandable, Top
  <1>5. tree' = tree \cup
           {Promise!NodeAt(input, Append(Top.path, OutcomeOf(Edge)))}
    BY RecordedNode DEF ChildPath
  <1>6. QED
    <2>1. /\ Edge \in Promise!SitesOf(input, Promise!EndName(input, Top.path))
          /\ tree' = tree \cup
               {Promise!NodeAt(input, Append(Top.path, Promise!OutcomeOf(Edge)))}
      BY <1>3, <1>5, SameVocabulary
    <2>2. QED
      BY <1>2, <1>4, <2>1 DEF Promise!Report

\* The return of the outermost visit publishes a tree without gaps.
LEMMA ReturnPublishes ==
  ASSUME TypeOK, StackInv, ResultInv, outcome = "running",
         Promise!HasAllCallersOf(input, tree, Top.path),
         Return, UNCHANGED <<input, tree>>
  PROVE  Promise!Publish \/ UNCHANGED Promise!vars
  <1>1. CASE Len(stack) = 1
    <2>1. /\ stack[1] = Top /\ Top.path \in Seq(Outcome) /\ Len(Top.path) = 0
          /\ outcome' = "done"
      BY <1>1, TopType DEF StackInv, PathsAreNested, Top, FrameType, Return
    <2>2. Top.path = <<>>
      BY <2>1, EmptySeq
    <2>3. ASSUME NEW m \in tree
          PROVE  Promise!HasAllCallersOf(input, tree, m.path)
      BY <1>1, <2>1 DEF ResultInv, FinishedNodesAreClosed
    <2>4. Promise!IsClosed(input, tree)
      BY <2>2, <2>3 DEF Promise!IsClosed
    <2>5. QED
      BY <2>1, <2>4 DEF Promise!Publish
  <1>2. CASE Len(stack) # 1
    BY <1>2 DEF Return, Promise!vars
  <1>3. QED
    BY <1>1, <1>2

LEMMA StepImplements ==
  TypeOK /\ StackInv /\ ResultInv /\ [Next]_vars => [Promise!Next]_(Promise!vars)
  <1> SUFFICES ASSUME TypeOK, StackInv, ResultInv, [Next]_vars
               PROVE  Promise!Next \/ UNCHANGED Promise!vars
    OBVIOUS
  <1>1. CASE VisitFails
    BY <1>1 DEF VisitFails, Promise!Next, Promise!Abandon
  <1>2. CASE VisitTooDeep
    BY <1>2, FinishedVisit, ReturnPublishes DEF VisitTooDeep, Promise!Next
  <1>3. CASE VisitCallers \/ SkipDuplicate \/ Cancel \/ UNCHANGED vars
    BY <1>3 DEF VisitCallers, SkipDuplicate, Cancel, vars, Promise!vars
  <1>4. CASE AddLeaf
    BY <1>4, RecordReports DEF AddLeaf, Promise!Next
  <1>5. CASE Descend
    BY <1>5, RecordReports DEF Descend, Promise!Next
  <1>6. CASE LoopEnds
    BY <1>6, FinishedVisit, ReturnPublishes DEF LoopEnds, Promise!Next
  <1>7. QED
    BY <1>1, <1>2, <1>3, <1>4, <1>5, <1>6 DEF Next, Search

\* ImplementsCallerPaths on every graph: whatever the cycles, shared callers,
\* verdicts, depth limit and moment of a cancellation, the search reports only
\* callers that belong to the answer and returns only the whole answer.
THEOREM Implementation == Spec => ImplementsCallerPaths
  <1>1. Init => Promise!Init
    BY DEF Init, Promise!Init
  <1>2. QED
    BY <1>1, Invariance, StepImplements, PTL
       DEF Spec, Promise!Spec, ImplementsCallerPaths

=============================================================================
