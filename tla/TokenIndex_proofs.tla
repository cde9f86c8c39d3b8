------------------------- MODULE TokenIndex_proofs -------------------------
(***************************************************************************)
(* Proofs about TokenIndex, for files of any length: the token scan finds  *)
(* every function, method and type at the places where the grammar puts    *)
(* their names, and lists the packages of a path in the order of their     *)
(* first files.                                                            *)
(***************************************************************************)
EXTENDS TokenIndex, Indices, SequenceTheorems, TLAPS

-----------------------------------------------------------------------------
(* The inductive invariant. *)

Entry == [package : Packages, name : Names \cup {"none"}, source : Nat]

Index == [definitions : SUBSET Entry,
          callers : SUBSET [name : Names, source : Nat],
          packageIDs : [Paths -> Seq(Packages)]]

TypeOK ==
    /\ sources \in Workspaces
    /\ current \in 1..(Len(sources) + 1)
    /\ at \in Nat \ {0}
    /\ current <= Len(sources) => at <= Len(tokens) + 1
    /\ definitions \subseteq Names
    /\ calls \subseteq Names
    /\ group \in {"none", "type", "var", "const"}
    /\ groupDepth \in Int
    /\ groupStart \in BOOLEAN
    /\ index \in Index
    /\ outcome \in {"running", "done", "failed"}
    /\ outcome = "done" => current = Len(sources) + 1

\* Inside a group of types, the scan knows its depth, and that a name begins a
\* declaration.
InGroup(g, i) ==
    /\ group = "type"
    /\ groupDepth = OpenIn(tokens, g + 1, at - 1)
    /\ at = g + 1 \/ at = i => groupStart

\* What the scan has found in the file so far.
ScanInv ==
    current <= Len(sources) =>
        /\ \A i \in 1..(at - 1) : tokens[i] \in Names => tokens[i] \in calls
        /\ \A i \in 1..Len(tokens) : tokens[i] \in Names =>
            \A k \in 1..(i - 1) :
                /\ (NamesFunction(tokens, k, i) \/ NamesType(tokens, k, i)) /\ k < at =>
                        tokens[i] \in definitions
                /\ NamesTypeInGroup(tokens, k, i) =>
                    /\ i < at => tokens[i] \in definitions
                    /\ k < at /\ at <= i => InGroup(k, i)

\* What the index holds of file k.
IsIndexed(k) ==
    /\ \A n \in sources[k].declares \cup {"none"} :
            [package |-> sources[k].package, name |-> n, source |-> k] \in index.definitions
    /\ \A n \in sources[k].calls : [name |-> n, source |-> k] \in index.callers

IndexInv ==
    /\ \A k \in 1..(current - 1) : IsIndexed(k)
    /\ \A d \in index.definitions :
            \E k \in 1..(current - 1) : d.package = sources[k].package

\* The first file of a package.
FirstFile(id) == Min({k \in 1..Len(sources) : sources[k].package = id})

\* The packages of the files so far are listed in the order of their first files.
IsListed(ids, p) ==
    /\ \A i \in 1..Len(ids) : \E k \in 1..(current - 1) :
            sources[k].package = ids[i] /\ sources[k].path = p /\ ~sources[k].externalTest
    /\ \A k \in 1..(current - 1) :
            sources[k].path = p /\ ~sources[k].externalTest =>
                \E i \in 1..Len(ids) : ids[i] = sources[k].package
    /\ \A i, j \in 1..Len(ids) : i < j => FirstFile(ids[i]) < FirstFile(ids[j])

ListInv == \A p \in Paths : IsListed(index.packageIDs[p], p)

IInv == TypeOK /\ ScanInv /\ IndexInv /\ ListInv

-----------------------------------------------------------------------------
(* Counting parentheses. *)

CountOf(toks, t, a, b) == Cardinality({k \in a..b : toks[k] = t})

LEMMA CountNext ==
    ASSUME NEW toks, NEW t, NEW a \in Int, NEW b \in Int, a <= b + 1
    PROVE  /\ CountOf(toks, t, a, b) \in Nat
           /\ CountOf(toks, t, a, b + 1) =
                IF toks[b + 1] = t THEN CountOf(toks, t, a, b) + 1 ELSE CountOf(toks, t, a, b)
  <1> DEFINE Before == {k \in a..b : toks[k] = t}
             After == {k \in a..(b + 1) : toks[k] = t}
  <1>1. IsFiniteSet(Before)
    <2>1. IsFiniteSet(a..b)
      BY FS_Interval
    <2>2. QED
      BY <2>1, FS_Subset
  <1>2. b + 1 \notin Before
    OBVIOUS
  <1>3. After = IF toks[b + 1] = t THEN Before \cup {b + 1} ELSE Before
    OBVIOUS
  <1>4. CountOf(toks, t, a, b) = Cardinality(Before) /\ CountOf(toks, t, a, b + 1) = Cardinality(After)
    BY DEF CountOf
  <1> HIDE DEF Before, After
  <1>5. Cardinality(Before) \in Nat
    BY <1>1, FS_CardinalityType
  <1>6. Cardinality(Before \cup {b + 1}) = Cardinality(Before) + 1
    BY <1>1, <1>2, FS_AddElement
  <1>7. QED
    BY <1>3, <1>4, <1>5, <1>6

LEMMA OpenNext ==
    ASSUME NEW toks, NEW a \in Int, NEW b \in Int, a <= b + 1
    PROVE  /\ OpenIn(toks, a, b) \in Int
           /\ OpenIn(toks, a, b + 1) =
                IF toks[b + 1] = "(" THEN OpenIn(toks, a, b) + 1
                ELSE IF toks[b + 1] = ")" THEN OpenIn(toks, a, b) - 1
                ELSE OpenIn(toks, a, b)
  <1>1. \A c, d : OpenIn(toks, c, d) = CountOf(toks, "(", c, d) - CountOf(toks, ")", c, d)
    BY DEF OpenIn, CountOf
  <1>2. \A t : /\ CountOf(toks, t, a, b) \in Nat
               /\ CountOf(toks, t, a, b + 1) =
                    IF toks[b + 1] = t THEN CountOf(toks, t, a, b) + 1 ELSE CountOf(toks, t, a, b)
    BY CountNext
  <1>3. "(" # ")"
    OBVIOUS
  <1>4. QED
    BY <1>1, <1>2, <1>3

LEMMA OpenNothing ==
    ASSUME NEW toks, NEW a \in Int
    PROVE  OpenIn(toks, a, a - 1) = 0
  <1>1. \A t : {k \in a..(a - 1) : toks[k] = t} = {}
    OBVIOUS
  <1>2. QED
    BY <1>1, FS_EmptySet DEF OpenIn

\* Behind a parenthesis that closes, AfterParens goes on.
LEMMA AfterClosed ==
    ASSUME NEW a \in Nat, NEW b \in a..Len(tokens), Len(tokens) \in Nat,
           Closes(tokens, a, b)
    PROVE  AfterParens(a) = b + 1
  <1> DEFINE ends == {j \in a..Len(tokens) : OpenIn(tokens, a, j) = 0}
  <1>1. b \in ends /\ \A j \in ends : b <= j
    BY DEF Closes
  <1>2. ends \subseteq Int
    OBVIOUS
  <1>3. Min(ends) = b
    BY <1>1, <1>2 DEF Min
  <1>4. QED
    BY <1>1, <1>3 DEF AfterParens

-----------------------------------------------------------------------------
(* The steps. *)

LEMMA FileTypes ==
    ASSUME sources \in Workspaces
    PROVE  /\ Len(sources) \in Nat
           /\ DOMAIN sources = 1..Len(sources)
           /\ \A k \in 1..Len(sources) :
                /\ sources[k] \in Source
                /\ sources[k].package \in Packages
                /\ sources[k].path \in Paths
                /\ sources[k].tokens \in Seq(Tokens)
                /\ Len(sources[k].tokens) \in Nat
                /\ \A i \in 1..Len(sources[k].tokens) : sources[k].tokens[i] \in Tokens
  <1>1. sources \in Seq(Source)
    BY TokenAssumption
  <1>2. Len(sources) \in Nat /\ DOMAIN sources = 1..Len(sources)
    BY <1>1, LenProperties
  <1>3. ASSUME NEW k \in 1..Len(sources)
        PROVE  /\ sources[k] \in Source
               /\ sources[k].package \in Packages
               /\ sources[k].path \in Paths
               /\ sources[k].tokens \in Seq(Tokens)
    <2>1. sources[k] \in Source
      BY <1>1, ElementOfSeq
    <2>2. QED
      BY <2>1 DEF Source
  <1>4. \A k \in 1..Len(sources) :
            /\ Len(sources[k].tokens) \in Nat
            /\ \A i \in 1..Len(sources[k].tokens) : sources[k].tokens[i] \in Tokens
    BY <1>3, LenProperties, ElementOfSeq
  <1>5. QED
    BY <1>2, <1>3, <1>4

\* What the parser finds in a file is among its tokens.
LEMMA FilesHoldNames ==
    ASSUME sources \in Workspaces, NEW k \in 1..Len(sources)
    PROVE  /\ \A n \in sources[k].declares : \E i \in 1..Len(sources[k].tokens) :
                /\ sources[k].tokens[i] = n
                /\ \E f \in 1..(i - 1) : IsDeclarator(sources[k].tokens, f, i)
           /\ \A n \in sources[k].calls :
                \E i \in 1..Len(sources[k].tokens) : sources[k].tokens[i] = n
           /\ \A j \in 1..Len(sources) : sources[j].package = sources[k].package =>
                sources[j].path = sources[k].path
                /\ sources[j].externalTest = sources[k].externalTest
  BY TokenAssumption

LEMMA InitInvariant == Init => IInv
  <1> SUFFICES ASSUME Init PROVE IInv
    OBVIOUS
  <1>1. Len(sources) \in Nat
    BY FileTypes DEF Init
  <1>2. current <= Len(sources) => Len(tokens) \in Nat
    BY FileTypes DEF Init, tokens
  <1>3. index \in Index
    <2>1. [p \in Paths |-> <<>>] \in [Paths -> Seq(Packages)]
      BY EmptySeq
    <2>2. QED
      BY <2>1 DEF Init, Index
  <1>4. TypeOK
    <2>1. /\ sources \in Workspaces /\ current = 1 /\ at = 1
          /\ definitions = {} /\ calls = {} /\ group = "none" /\ groupDepth = 0
          /\ groupStart = FALSE /\ outcome = "running"
      BY DEF Init
    <2>2. current \in 1..(Len(sources) + 1) /\ at \in Nat \ {0}
      BY <2>1, <1>1
    <2>3. current <= Len(sources) => at <= Len(tokens) + 1
      BY <2>1, <1>2
    <2>4. definitions \subseteq Names /\ calls \subseteq Names
      BY <2>1
    <2>5. groupDepth \in Int
      BY <2>1
    <2>6. group \in {"none", "type", "var", "const"} /\ outcome \in {"running", "done", "failed"}
      BY <2>1
    <2>7. groupStart \in BOOLEAN
      BY DEF Init
    <2>8. outcome = "done" => current = Len(sources) + 1
      BY <2>1
    <2>9. QED
      BY <2>1, <2>2, <2>3, <2>4, <2>5, <2>6, <2>7, <2>8, <1>3 DEF TypeOK
  <1>5. ScanInv
    BY DEF Init, ScanInv
  <1>6. IndexInv
    BY DEF Init, IndexInv
  <1>7. \A p \in Paths : index.packageIDs[p] = <<>>
    BY DEF Init
  <1>8. ListInv
    BY <1>7 DEF Init, ListInv, IsListed
  <1>9. QED
    BY <1>4, <1>5, <1>6, <1>8 DEF IInv

\* Names are no keywords and no parentheses.
LEMMA NamesApart ==
    ASSUME NEW t \in Names
    PROVE  t \notin {"func", "type", "var", "const", "(", ")", ";", "other", "none"}
  BY TokenAssumption DEF Keywords

\* The scan of the functions and of the types that are alone.
LEMMA NameIsFound ==
    ASSUME IInv, ScanToken, NEW i \in 1..Len(tokens), tokens[i] \in Names,
           at < i, NamesFunction(tokens, at, i) \/ NamesType(tokens, at, i)
    PROVE  tokens[i] \in definitions'
  <1>1. Len(tokens) \in Nat /\ at \in Nat \ {0} /\ at <= Len(tokens)
    BY FileTypes DEF IInv, TypeOK, ScanToken, Scanning, tokens
  <1>2. IsIdent(i)
    BY <1>1 DEF IsIdent
  <1>3. CASE NamesType(tokens, at, i)
    <2>1. tokens[at] = "type" /\ i = at + 1 /\ at < Len(tokens)
      BY <1>1, <1>3 DEF NamesType
    <2>2. tokens[i] \in SpecName
      BY <1>2, <2>1 DEF SpecName, StartsSpec
    <2>3. QED
      BY <2>2 DEF ScanToken
  <1>4. CASE NamesFunction(tokens, at, i) /\ i = at + 1
    <2>1. tokens[at] = "func" /\ tokens[at + 1] # "("
      BY <1>4, NamesApart DEF NamesFunction
    <2>2. tokens[i] \in FunctionName
      BY <1>2, <1>4, <2>1 DEF FunctionName
    <2>3. QED
      BY <2>2 DEF ScanToken
  <1>5. CASE NamesFunction(tokens, at, i) /\ i # at + 1
    <2>1. tokens[at] = "func" /\ Closes(tokens, at + 1, i - 1)
      BY <1>5 DEF NamesFunction
    <2>2. tokens[at + 1] = "(" /\ i - 1 \in (at + 1)..Len(tokens) /\ at + 1 \in Nat
      BY <1>1, <1>5, <2>1 DEF Closes
    <2>3. AfterParens(at + 1) = i
      <3>1. AfterParens(at + 1) = (i - 1) + 1
        BY <1>1, <2>1, <2>2, AfterClosed
      <3>2. QED
        BY <3>1
    <2>4. at < Len(tokens)
      BY <1>1
    <2>5. tokens[i] \in FunctionName
      BY <1>2, <2>1, <2>2, <2>3, <2>4 DEF FunctionName
    <2>6. QED
      BY <2>5 DEF ScanToken
  <1>6. QED
    BY <1>3, <1>4, <1>5

\* One turn inside a group of types, before the name of a declaration or at it.
LEMMA GroupGoesOn ==
    ASSUME IInv, ScanToken, NEW i \in 1..Len(tokens), tokens[i] \in Names,
           NEW k \in 1..(i - 1), NamesTypeInGroup(tokens, k, i), k < at, at <= i
    PROVE  /\ at = i => tokens[i] \in definitions'
           /\ at < i => InGroup(k, i)'
  <1>1. /\ Len(tokens) \in Nat /\ at \in Nat \ {0} /\ at <= Len(tokens)
        /\ current <= Len(sources)
    BY FileTypes DEF IInv, TypeOK, ScanToken, Scanning, tokens
  <1>2. /\ group = "type" /\ groupDepth = OpenIn(tokens, k + 1, at - 1)
        /\ at = k + 1 \/ at = i => groupStart
    BY <1>1 DEF IInv, ScanInv, InGroup
  <1>3. groupStart \in BOOLEAN
    BY DEF IInv, TypeOK
  <1>4. CASE at = i
    <2>1. groupDepth = 1 /\ groupStart
      BY <1>2, <1>4 DEF NamesTypeInGroup
    <2>2. tokens[at] \notin {"(", ")", ";"}
      BY <1>4, NamesApart
    <2>3. GroupStep.found = {tokens[i]}
      BY <1>2, <1>4, <2>1, <2>2 DEF GroupStep
    <2>4. QED
      BY <1>4, <2>3 DEF ScanToken
  <1>5. CASE at < i
    <2>1. at \in (k + 1)..(i - 1)
      BY <1>1, <1>5
    <2>2. ~StartsGroup
      BY <2>1 DEF StartsGroup, StartsSpec, NamesTypeInGroup
    <2>3. /\ at - 1 \in Int /\ k + 1 \in Int /\ k + 1 <= (at - 1) + 1 /\ (at - 1) + 1 = at
          /\ at' - 1 = at /\ tokens' = tokens
      BY <1>1, <2>1 DEF ScanToken, tokens
    <2>4. /\ groupDepth \in Int
          /\ OpenIn(tokens, k + 1, at) =
                IF tokens[at] = "(" THEN groupDepth + 1
                ELSE IF tokens[at] = ")" THEN groupDepth - 1
                ELSE groupDepth
      <3>1. /\ OpenIn(tokens, k + 1, at - 1) \in Int
            /\ OpenIn(tokens, k + 1, (at - 1) + 1) =
                IF tokens[(at - 1) + 1] = "(" THEN OpenIn(tokens, k + 1, at - 1) + 1
                ELSE IF tokens[(at - 1) + 1] = ")" THEN OpenIn(tokens, k + 1, at - 1) - 1
                ELSE OpenIn(tokens, k + 1, at - 1)
        BY <2>3, OpenNext
      <3>2. QED
        BY <1>2, <2>3, <3>1
    <2>5. OpenIn(tokens, k + 1, at) > 0
      BY <2>1 DEF NamesTypeInGroup
    <2>6. group' = "type"
      <3>1. tokens[at] = ")" => groupDepth # 1
        BY <2>4, <2>5
      <3>2. GroupStep.group = "type"
        BY <1>2, <3>1 DEF GroupStep
      <3>3. QED
        BY <2>2, <3>2 DEF ScanToken
    <2>7. groupDepth' = OpenIn(tokens, k + 1, at)
      <3>1. GroupStep.depth = OpenIn(tokens, k + 1, at)
        BY <1>2, <2>4 DEF GroupStep
      <3>2. QED
        BY <2>2, <3>1 DEF ScanToken
    <2>8. at' # k + 1
      BY <1>1, <2>1, <2>3
    <2>9. ASSUME at' = i PROVE groupStart'
      <3>1. i - 1 = at /\ OpenIn(tokens, k + 1, at) = 1
        BY <1>1, <2>3, <2>9 DEF NamesTypeInGroup
      <3>2. CASE i = k + 2
        <4>1. at = k + 1 /\ tokens[at] = "(" /\ groupStart
          BY <1>2, <3>1, <3>2 DEF NamesTypeInGroup
        <4>2. GroupStep.start = groupStart
          BY <1>2, <4>1 DEF GroupStep
        <4>3. QED
          BY <4>1, <4>2 DEF ScanToken
      <3>3. CASE tokens[at] = ";"
        <4>1. groupDepth = 1
          BY <2>4, <3>1, <3>3
        <4>2. GroupStep.start = TRUE
          BY <1>2, <3>3, <4>1 DEF GroupStep
        <4>3. QED
          BY <4>2 DEF ScanToken
      <3>4. QED
        BY <3>1, <3>2, <3>3 DEF NamesTypeInGroup
    <2>10. InGroup(k, i)'
      BY <2>3, <2>6, <2>7, <2>8, <2>9 DEF InGroup
    <2>11. QED
      BY <1>5, <2>10
  <1>6. QED
    BY <1>1, <1>4, <1>5

\* The keyword of a group opens it.
LEMMA GroupOpens ==
    ASSUME IInv, ScanToken, NEW i \in 1..Len(tokens), NEW k \in 1..(i - 1), k = at,
           NamesTypeInGroup(tokens, k, i)
    PROVE  InGroup(k, i)'
  <1>1. Len(tokens) \in Nat /\ at \in Nat \ {0} /\ at < Len(tokens)
    BY FileTypes DEF IInv, TypeOK, ScanToken, Scanning, tokens
  <1>2. tokens[at] = "type" /\ tokens[at + 1] = "("
    BY DEF NamesTypeInGroup
  <1>3. StartsGroup
    BY <1>1, <1>2 DEF StartsGroup, StartsSpec
  <1>4. group' = "type" /\ groupDepth' = 0 /\ groupStart' /\ at' = k + 1 /\ tokens' = tokens
    BY <1>2, <1>3 DEF ScanToken, tokens
  <1>5. OpenIn(tokens, k + 1, at' - 1) = 0
    <2>1. OpenIn(tokens, k + 1, (k + 1) - 1) = 0
      BY <1>1, OpenNothing
    <2>2. QED
      BY <1>4, <2>1
  <1>6. QED
    BY <1>4, <1>5 DEF InGroup

LEMMA ScanTokenScans == IInv /\ ScanToken => ScanInv'
  <1> SUFFICES ASSUME IInv, ScanToken PROVE ScanInv'
    OBVIOUS
  <1>1. /\ Len(tokens) \in Nat /\ at \in Nat \ {0} /\ at <= Len(tokens)
        /\ current <= Len(sources)
    BY FileTypes DEF IInv, TypeOK, ScanToken, Scanning, tokens
  <1>2. /\ at' = at + 1 /\ tokens' = tokens /\ current' = current /\ sources' = sources
        /\ definitions \subseteq definitions' /\ calls' = calls \cup ({tokens[at]} \cap Names)
    BY DEF ScanToken, tokens
  <1>3. ASSUME NEW i \in 1..at, tokens[i] \in Names PROVE tokens[i] \in calls'
    <2>1. CASE i = at
      BY <1>2, <1>3, <2>1
    <2>2. CASE i # at
      BY <1>1, <1>2, <1>3, <2>2 DEF IInv, ScanInv
    <2>3. QED
      BY <2>1, <2>2
  <1>4. ASSUME NEW i \in 1..Len(tokens), tokens[i] \in Names, NEW k \in 1..(i - 1),
               NamesFunction(tokens, k, i) \/ NamesType(tokens, k, i), k <= at
        PROVE  tokens[i] \in definitions'
    <2>1. CASE k = at
      BY <1>1, <1>4, <2>1, NameIsFound
    <2>2. CASE k < at
      BY <1>1, <1>2, <1>4, <2>2 DEF IInv, ScanInv
    <2>3. QED
      BY <1>1, <1>4, <2>1, <2>2
  <1>5. ASSUME NEW i \in 1..Len(tokens), tokens[i] \in Names, NEW k \in 1..(i - 1),
               NamesTypeInGroup(tokens, k, i)
        PROVE  /\ i <= at => tokens[i] \in definitions'
               /\ k <= at /\ at < i => InGroup(k, i)'
    <2>1. CASE at < k
      BY <1>1, <2>1
    <2>2. CASE at = k
      BY <1>5, <2>2, GroupOpens
    <2>3. CASE k < at /\ at <= i
      BY <1>1, <1>5, <2>3, GroupGoesOn
    <2>4. CASE i < at
      BY <1>1, <1>2, <1>5, <2>4 DEF IInv, ScanInv
    <2>5. QED
      BY <1>1, <2>1, <2>2, <2>3, <2>4
  <1>6. QED
    <2>1. \A i \in 1..(at' - 1) : tokens'[i] \in Names => tokens'[i] \in calls'
      BY <1>1, <1>2, <1>3
    <2>2. ASSUME NEW i \in 1..Len(tokens'), tokens'[i] \in Names, NEW k \in 1..(i - 1)
          PROVE  /\ (NamesFunction(tokens', k, i) \/ NamesType(tokens', k, i)) /\ k < at' =>
                        tokens'[i] \in definitions'
                 /\ NamesTypeInGroup(tokens', k, i) =>
                    /\ i < at' => tokens'[i] \in definitions'
                    /\ k < at' /\ at' <= i => InGroup(k, i)'
      <3>1. i < at' <=> i <= at
        BY <1>1, <1>2
      <3>2. k < at' <=> k <= at
        BY <1>1, <1>2
      <3>3. at' <= i <=> at < i
        BY <1>1, <1>2
      <3>4. QED
        BY <1>2, <1>4, <1>5, <2>2, <3>1, <3>2, <3>3
    <2>3. QED
      BY <2>1, <2>2 DEF ScanInv

LEMMA ScanTokenTypes == IInv /\ ScanToken => TypeOK'
  <1> SUFFICES ASSUME IInv, ScanToken PROVE TypeOK'
    OBVIOUS
  <1>1. /\ Len(tokens) \in Nat /\ at \in Nat \ {0} /\ at <= Len(tokens)
        /\ current <= Len(sources)
    BY FileTypes DEF IInv, TypeOK, ScanToken, Scanning, tokens
  <1>2. /\ at' = at + 1 /\ tokens' = tokens /\ current' = current /\ sources' = sources
        /\ index' = index /\ outcome' = outcome
    BY DEF ScanToken, tokens
  <1>3. definitions' \subseteq Names /\ calls' \subseteq Names
    <2>1. GroupStep.found \subseteq Names
      BY DEF GroupStep
    <2>2. FunctionName \subseteq Names /\ SpecName \subseteq Names
      BY DEF FunctionName, SpecName, IsIdent
    <2>3. QED
      BY <2>1, <2>2 DEF ScanToken, IInv, TypeOK
  <1>4. group' \in {"none", "type", "var", "const"}
    <2>1. GroupStep.group \in {"none", group}
      BY DEF GroupStep
    <2>2. StartsGroup => tokens[at] \in {"type", "var", "const"}
      BY DEF StartsGroup, StartsSpec
    <2>3. QED
      BY <2>1, <2>2 DEF ScanToken, IInv, TypeOK
  <1>5. groupDepth' \in Int
    <2>1. groupDepth \in Int
      BY DEF IInv, TypeOK
    <2>2. GroupStep.depth \in Int
      BY <2>1 DEF GroupStep
    <2>3. QED
      BY <2>2 DEF ScanToken
  <1>6. groupStart' \in BOOLEAN
    BY DEF ScanToken
  <1>7. at' \in Nat \ {0} /\ at' <= Len(tokens') + 1
    BY <1>1, <1>2
  <1>8. QED
    BY <1>2, <1>3, <1>4, <1>5, <1>6, <1>7 DEF IInv, TypeOK

LEMMA ScanTokenInvariant == IInv /\ ScanToken => IInv'
  <1> SUFFICES ASSUME IInv, ScanToken PROVE IInv'
    OBVIOUS
  <1>1. current' = current /\ sources' = sources /\ index' = index
    BY DEF ScanToken
  <1>2. IndexInv'
    BY <1>1 DEF IInv, IndexInv, IsIndexed
  <1>3. ListInv'
    BY <1>1 DEF IInv, ListInv, IsListed, FirstFile
  <1>4. QED
    BY <1>2, <1>3, ScanTokenTypes, ScanTokenScans DEF IInv

\* At the end of a file the scan has every name of it.
LEMMA FileIsScanned ==
    ASSUME IInv, FinishFile
    PROVE  sources[current].declares \subseteq definitions /\ sources[current].calls \subseteq calls
  <1>1. /\ sources \in Workspaces /\ current \in 1..Len(sources)
        /\ Len(tokens) \in Nat /\ at \in Nat /\ at > Len(tokens)
        /\ sources[current] \in Source
    BY FileTypes DEF IInv, TypeOK, FinishFile, Scanning, tokens
  <1>2. sources[current].declares \subseteq Names /\ sources[current].calls \subseteq Names
    BY <1>1 DEF Source
  <1>3. ASSUME NEW n \in sources[current].declares PROVE n \in definitions
    <2>1. PICK i \in 1..Len(tokens) :
            tokens[i] = n /\ \E f \in 1..(i - 1) : IsDeclarator(tokens, f, i)
      BY <1>1, FilesHoldNames DEF tokens
    <2>2. PICK f \in 1..(i - 1) : IsDeclarator(tokens, f, i)
      BY <2>1
    <2>3. f < at /\ i < at
      BY <1>1
    <2>4. tokens[i] \in Names
      BY <1>2, <2>1
    <2>5. QED
      BY <1>1, <2>1, <2>2, <2>3, <2>4 DEF IsDeclarator, IInv, ScanInv
  <1>4. ASSUME NEW n \in sources[current].calls PROVE n \in calls
    <2>1. PICK i \in 1..Len(tokens) : tokens[i] = n
      BY <1>1, FilesHoldNames DEF tokens
    <2>2. i \in 1..(at - 1)
      BY <1>1
    <2>3. QED
      BY <1>1, <1>2, <2>1, <2>2 DEF IInv, ScanInv
  <1>5. QED
    BY <1>3, <1>4

LEMMA FirstFileIsFirst ==
    ASSUME sources \in Workspaces, NEW k \in 1..Len(sources)
    PROVE  /\ FirstFile(sources[k].package) \in 1..Len(sources)
           /\ sources[FirstFile(sources[k].package)].package = sources[k].package
           /\ FirstFile(sources[k].package) <= k
  <1> DEFINE T == {j \in 1..Len(sources) : sources[j].package = sources[k].package}
  <1>1. T \subseteq Nat /\ k \in T
    OBVIOUS
  <1>2. \E n \in T : \A j \in T : n <= j
    BY <1>1, LeastElement
  <1>3. Min(T) \in T /\ \A j \in T : Min(T) <= j
    BY <1>2 DEF Min
  <1>4. QED
    BY <1>1, <1>3 DEF FirstFile

LEMMA FinishFileTypes == IInv /\ FinishFile => TypeOK'
  <1> SUFFICES ASSUME IInv, FinishFile PROVE TypeOK'
    OBVIOUS
  <1> DEFINE source == sources[current]
  <1>1. /\ sources \in Workspaces /\ current \in 1..Len(sources) /\ Len(sources) \in Nat
        /\ source.package \in Packages /\ source.path \in Paths
    BY FileTypes DEF IInv, TypeOK, FinishFile, Scanning
  <1>2. sources' = sources /\ current' = current + 1 /\ at' = 1 /\ outcome' = "running"
    BY DEF FinishFile, Scanning
  <1>3. index'.definitions \subseteq Entry
    BY <1>1 DEF FinishFile, IInv, TypeOK, Index, Entry
  <1>4. index'.callers \subseteq [name : Names, source : Nat]
    BY <1>1 DEF FinishFile, IInv, TypeOK, Index
  <1>5. index'.packageIDs \in [Paths -> Seq(Packages)]
    <2>1. index.packageIDs \in [Paths -> Seq(Packages)]
      BY DEF IInv, TypeOK, Index
    <2>2. Append(index.packageIDs[source.path], source.package) \in Seq(Packages)
      BY <1>1, <2>1, AppendProperties
    <2>3. Listed(source) \in [Paths -> Seq(Packages)]
      BY <2>1, <2>2 DEF Listed
    <2>4. QED
      BY <2>3 DEF FinishFile
  <1>6. index' \in Index
    <2>1. index' = [definitions |-> index'.definitions, packageIDs |-> index'.packageIDs,
                    callers |-> index'.callers]
      BY DEF FinishFile
    <2>2. QED
      BY <1>3, <1>4, <1>5, <2>1 DEF Index
  <1>7. current' <= Len(sources') => at' <= Len(tokens') + 1
    <2>1. current' <= Len(sources') => Len(tokens') \in Nat
      BY <1>1, <1>2, FileTypes DEF tokens
    <2>2. QED
      BY <1>2, <2>1
  <1>8. definitions' = {} /\ calls' = {} /\ group' = "none" /\ groupDepth' = 0
    BY DEF FinishFile
  <1>9. groupStart' \in BOOLEAN
    BY DEF FinishFile
  <1>10. current' \in 1..(Len(sources') + 1) /\ sources' \in Workspaces
    BY <1>1, <1>2
  <1> HIDE DEF source
  <1>11. definitions' \subseteq Names /\ calls' \subseteq Names /\ groupDepth' \in Int
    BY <1>8
  <1>12. QED
    BY <1>2, <1>6, <1>7, <1>8, <1>9, <1>10, <1>11 DEF TypeOK

LEMMA FinishFileIndexes == IInv /\ FinishFile => IndexInv'
  <1> SUFFICES ASSUME IInv, FinishFile PROVE IndexInv'
    OBVIOUS
  <1> DEFINE source == sources[current]
             new == {[package |-> source.package, name |-> n, source |-> current] :
                        n \in definitions \cup {"none"}}
             called == {[name |-> n, source |-> current] : n \in calls}
  <1>1. current \in 1..Len(sources) /\ Len(sources) \in Nat
    BY FileTypes DEF IInv, TypeOK, FinishFile, Scanning
  <1>2. sources' = sources /\ current' = current + 1
    BY DEF FinishFile
  <1>3. /\ index'.definitions = index.definitions \cup new
        /\ index'.callers = index.callers \cup called
    BY DEF FinishFile
  <1>4. ASSUME NEW k \in 1..(current - 1) PROVE IsIndexed(k)'
    <2>1. IsIndexed(k)
      BY DEF IInv, IndexInv
    <2>2. QED
      BY <1>2, <1>3, <2>1 DEF IsIndexed
  <1>5. ASSUME NEW k, k = current PROVE IsIndexed(k)'
    <2>1. source.declares \subseteq definitions /\ source.calls \subseteq calls
      BY FileIsScanned
    <2>2. \A n \in source.declares \cup {"none"} :
            [package |-> source.package, name |-> n, source |-> current] \in new
      BY <2>1
    <2>3. \A n \in source.calls : [name |-> n, source |-> current] \in called
      BY <2>1
    <2>4. QED
      BY <1>2, <1>3, <1>5, <2>2, <2>3 DEF IsIndexed
  <1>6. ASSUME NEW d \in index'.definitions
        PROVE  \E k \in 1..current : d.package = sources[k].package
    <2>1. CASE d \in index.definitions
      BY <1>1, <2>1 DEF IInv, IndexInv
    <2>2. CASE d \in new
      BY <1>1, <2>2
    <2>3. QED
      BY <1>3, <2>1, <2>2
  <1>7. current' - 1 = current /\ \A k \in 1..current : k = current \/ k \in 1..(current - 1)
    BY <1>1, <1>2
  <1>8. \A k \in 1..(current' - 1) : IsIndexed(k)'
    BY <1>4, <1>5, <1>7
  <1>9. \A d \in index'.definitions :
            \E k \in 1..(current' - 1) : d.package = sources'[k].package
    BY <1>2, <1>6, <1>7
  <1>10. QED
    BY <1>8, <1>9 DEF IndexInv

\* The package of the file is listed already, or not to be listed.
LEMMA NothingToList ==
    ASSUME IInv, FinishFile,
           sources[current].externalTest
             \/ \E d \in index.definitions : d.package = sources[current].package
    PROVE  ListInv'
  <1>1. current \in 1..Len(sources) /\ Len(sources) \in Nat /\ sources \in Workspaces
    BY FileTypes DEF IInv, TypeOK, FinishFile, Scanning
  <1>2. sources' = sources /\ current' = current + 1 /\ index'.packageIDs = index.packageIDs
    BY DEF FinishFile, Listed
  <1>3. \A id : FirstFile(id)' = FirstFile(id)
    BY <1>2 DEF FirstFile
  <1>4. /\ current' - 1 = current
        /\ \A k : k \in 1..current <=> k = current \/ k \in 1..(current - 1)
    BY <1>1, <1>2
  <1>5. ASSUME NEW p \in Paths PROVE IsListed(index.packageIDs[p], p)'
    <2> DEFINE ids == index.packageIDs[p]
    <2>1. IsListed(ids, p)
      BY DEF IInv, ListInv
    <2>2. ASSUME sources[current].path = p, ~sources[current].externalTest
          PROVE  \E i \in 1..Len(ids) : ids[i] = sources[current].package
      <3>1. PICK d \in index.definitions : d.package = sources[current].package
        BY <2>2
      <3>2. PICK k \in 1..(current - 1) : d.package = sources[k].package
        BY DEF IInv, IndexInv
      <3>3. sources[k].path = p /\ ~sources[k].externalTest
        <4>1. \A j \in 1..Len(sources) : sources[j].package = sources[current].package =>
                sources[j].path = sources[current].path
                /\ sources[j].externalTest = sources[current].externalTest
          BY <1>1, FilesHoldNames
        <4>2. k \in 1..Len(sources) /\ sources[k].package = sources[current].package
          BY <1>1, <3>1, <3>2
        <4>3. QED
          BY <2>2, <4>1, <4>2
      <3>4. QED
        BY <2>1, <3>1, <3>2, <3>3 DEF IsListed
    <2>3. index'.packageIDs[p] = ids
      BY <1>2
    <2>4. \A i \in 1..Len(ids) : \E k \in 1..current :
            sources[k].package = ids[i] /\ sources[k].path = p /\ ~sources[k].externalTest
      BY <1>4, <2>1 DEF IsListed
    <2>5. \A k \in 1..current : sources[k].path = p /\ ~sources[k].externalTest =>
            \E i \in 1..Len(ids) : ids[i] = sources[k].package
      BY <1>4, <2>1, <2>2 DEF IsListed
    <2>6. \A i, j \in 1..Len(ids) : i < j => FirstFile(ids[i]) < FirstFile(ids[j])
      BY <2>1 DEF IsListed
    <2> HIDE DEF ids
    <2>7. QED
      BY <1>2, <1>3, <1>4, <2>3, <2>4, <2>5, <2>6 DEF IsListed
  <1>6. QED
    BY <1>5 DEF ListInv

\* The first file of a package that is not of an external test.
LEMMA PackageIsListed ==
    ASSUME IInv, FinishFile, ~sources[current].externalTest,
           \A d \in index.definitions : d.package # sources[current].package
    PROVE  ListInv'
  <1> DEFINE source == sources[current]
  <1>1. /\ current \in 1..Len(sources) /\ Len(sources) \in Nat /\ sources \in Workspaces
        /\ source.path \in Paths /\ source.package \in Packages
        /\ index.packageIDs \in [Paths -> Seq(Packages)]
    BY FileTypes DEF IInv, TypeOK, Index, FinishFile, Scanning
  <1>2. /\ sources' = sources /\ current' = current + 1
        /\ index'.packageIDs =
            [index.packageIDs EXCEPT ![source.path] = Append(@, source.package)]
    BY DEF FinishFile, Listed
  <1>3. \A id : FirstFile(id)' = FirstFile(id)
    BY <1>2 DEF FirstFile
  <1>4. /\ current' - 1 = current
        /\ \A k : k \in 1..current <=> k = current \/ k \in 1..(current - 1)
    BY <1>1, <1>2
  <1>5. FirstFile(source.package) >= current
    <2>1. ASSUME NEW k \in 1..(current - 1) PROVE sources[k].package # source.package
      <3>1. [package |-> sources[k].package, name |-> "none", source |-> k] \in index.definitions
        BY DEF IInv, IndexInv, IsIndexed
      <3>2. QED
        BY <3>1
    <2>2. FirstFile(source.package) \in 1..Len(sources)
          /\ sources[FirstFile(source.package)].package = source.package
      BY <1>1, FirstFileIsFirst
    <2>3. QED
      BY <1>1, <2>1, <2>2
  <1>6. ASSUME NEW p \in Paths, p # source.path PROVE IsListed(index.packageIDs[p], p)'
    <2> DEFINE ids == index.packageIDs[p]
    <2>1. IsListed(ids, p)
      BY DEF IInv, ListInv
    <2>2. index'.packageIDs[p] = ids
      BY <1>1, <1>2, <1>6
    <2>3. \A i \in 1..Len(ids) : \E k \in 1..current :
            sources[k].package = ids[i] /\ sources[k].path = p /\ ~sources[k].externalTest
      BY <1>4, <2>1 DEF IsListed
    <2>4. \A k \in 1..current : sources[k].path = p /\ ~sources[k].externalTest =>
            \E i \in 1..Len(ids) : ids[i] = sources[k].package
      BY <1>4, <1>6, <2>1 DEF IsListed
    <2>5. \A i, j \in 1..Len(ids) : i < j => FirstFile(ids[i]) < FirstFile(ids[j])
      BY <2>1 DEF IsListed
    <2> HIDE DEF ids
    <2>6. QED
      BY <1>2, <1>3, <1>4, <2>2, <2>3, <2>4, <2>5 DEF IsListed
  <1>7. ASSUME NEW p, p = source.path PROVE IsListed(index.packageIDs[p], p)'
    <2> DEFINE old == index.packageIDs[p]
               ids == Append(old, source.package)
    <2>1. IsListed(old, p)
      BY <1>1, <1>7 DEF IInv, ListInv
    <2>2. index'.packageIDs[p] = ids
      BY <1>1, <1>2, <1>7
    <2>3. /\ Len(old) \in Nat /\ Len(ids) = Len(old) + 1
          /\ \A i \in 1..Len(old) : ids[i] = old[i]
          /\ ids[Len(old) + 1] = source.package
      <3>1. old \in Seq(Packages)
        BY <1>1, <1>7
      <3>2. QED
        BY <1>1, <3>1, AppendProperties, LenProperties
    <2> HIDE DEF ids, old
    <2>4. \A i : i \in 1..Len(ids) <=> i \in 1..Len(old) \/ i = Len(old) + 1
      BY <2>3
    <2>5. \A i \in 1..Len(ids) : \E k \in 1..current :
            sources[k].package = ids[i] /\ sources[k].path = p /\ ~sources[k].externalTest
      <3>1. ASSUME NEW i \in 1..Len(old)
            PROVE  \E k \in 1..current :
                sources[k].package = ids[i] /\ sources[k].path = p /\ ~sources[k].externalTest
        <4>1. PICK k \in 1..(current - 1) :
                sources[k].package = old[i] /\ sources[k].path = p /\ ~sources[k].externalTest
          BY <2>1 DEF IsListed
        <4>2. k \in 1..current /\ ids[i] = old[i]
          BY <1>4, <2>3
        <4>3. QED
          BY <4>1, <4>2
      <3>2. ASSUME NEW i, i = Len(old) + 1
            PROVE  \E k \in 1..current :
                sources[k].package = ids[i] /\ sources[k].path = p /\ ~sources[k].externalTest
        BY <1>4, <1>7, <2>3, <3>2
      <3>3. QED
        BY <2>4, <3>1, <3>2
    <2>6. \A k \in 1..current : sources[k].path = p /\ ~sources[k].externalTest =>
            \E i \in 1..Len(ids) : ids[i] = sources[k].package
      BY <1>4, <2>1, <2>3, <2>4 DEF IsListed
    <2>7. ASSUME NEW i \in 1..Len(ids), NEW j \in 1..Len(ids), i < j
          PROVE  FirstFile(ids[i]) < FirstFile(ids[j])
      <3>1. i \in 1..Len(old)
        BY <2>3, <2>7
      <3>2. CASE j \in 1..Len(old)
        BY <2>1, <2>3, <2>7, <3>1, <3>2 DEF IsListed
      <3>3. CASE j = Len(old) + 1
        <4>1. PICK k \in 1..(current - 1) : sources[k].package = old[i]
          BY <2>1, <3>1 DEF IsListed
        <4>2. FirstFile(old[i]) \in 1..Len(sources) /\ FirstFile(old[i]) <= k
          BY <1>1, <4>1, FirstFileIsFirst
        <4>3. FirstFile(source.package) \in 1..Len(sources)
          BY <1>1, FirstFileIsFirst
        <4>4. ids[i] = old[i] /\ ids[j] = source.package
          BY <2>3, <3>1, <3>3
        <4>5. QED
          BY <1>1, <1>5, <4>1, <4>2, <4>3, <4>4
      <3>4. QED
        BY <2>4, <3>2, <3>3
    <2>8. QED
      BY <1>2, <1>3, <1>4, <2>2, <2>5, <2>6, <2>7 DEF IsListed
  <1>8. ASSUME NEW p \in Paths PROVE IsListed(index.packageIDs[p], p)'
    BY <1>6, <1>7
  <1>9. QED
    BY <1>8 DEF ListInv

LEMMA FinishFileInvariant == IInv /\ FinishFile => IInv'
  <1> SUFFICES ASSUME IInv, FinishFile PROVE IInv'
    OBVIOUS
  <1>1. ListInv'
    BY NothingToList, PackageIsListed
  <1>2. ScanInv'
    <2>1. at' = 1
      BY DEF FinishFile
    <2>2. \A k : k \in Nat \ {0} => ~(k < 1)
      OBVIOUS
    <2>3. QED
      BY <2>1, <2>2 DEF ScanInv
  <1>3. QED
    BY <1>1, <1>2, FinishFileTypes, FinishFileIndexes DEF IInv

\* The steps that only end the scan, and no step.
LEMMA FrameInvariant ==
    ASSUME IInv,
           UNCHANGED <<sources, current, at, definitions, calls, group, groupDepth,
                       groupStart, index>>,
           outcome' \in {"running", "done", "failed"},
           outcome' = "done" => current = Len(sources) + 1
    PROVE  IInv'
  <1>1. tokens' = tokens
    BY DEF tokens
  <1>2. TypeOK'
    BY <1>1 DEF IInv, TypeOK
  <1>3. ScanInv'
    BY <1>1 DEF IInv, ScanInv, InGroup
  <1>4. IndexInv'
    BY DEF IInv, IndexInv, IsIndexed
  <1>5. ListInv'
    <2>1. \A id : FirstFile(id)' = FirstFile(id)
      BY DEF FirstFile
    <2>2. QED
      BY <2>1 DEF IInv, ListInv, IsListed
  <1>6. QED
    BY <1>2, <1>3, <1>4, <1>5 DEF IInv

LEMMA StepInvariant == IInv /\ [Next]_vars => IInv'
  <1> SUFFICES ASSUME IInv, [Next]_vars PROVE IInv'
    OBVIOUS
  <1>1. CASE ScanToken
    BY <1>1, ScanTokenInvariant
  <1>2. CASE FinishFile
    BY <1>2, FinishFileInvariant
  <1>3. CASE ReadFails
    BY <1>3, FrameInvariant DEF ReadFails
  <1>4. CASE ReturnIndex
    <2>1. current = Len(sources) + 1
      <3>1. Len(sources) \in Nat /\ current \in 1..(Len(sources) + 1) /\ current > Len(sources)
        BY <1>4, FileTypes DEF ReturnIndex, IInv, TypeOK
      <3>2. QED
        BY <3>1
    <2>2. QED
      BY <1>4, <2>1, FrameInvariant DEF ReturnIndex
  <1>5. CASE UNCHANGED vars
    <2>1. outcome' = outcome
      BY <1>5 DEF vars
    <2>2. QED
      BY <1>5, <2>1, FrameInvariant DEF vars, IInv, TypeOK
  <1>6. QED
    BY <1>1, <1>2, <1>3, <1>4, <1>5 DEF Next

-----------------------------------------------------------------------------
(* The theorems. *)

\* The scan knows its place in a group of types, whatever the file holds, and the
\* index has everything of the files that are done (NewLocator).
THEOREM ScanTheorem == Spec => []IInv
  <1>1. Init => IInv
    BY InitInvariant
  <1>2. IInv /\ [Next]_vars => IInv'
    BY StepInvariant
  <1>3. QED
    BY <1>1, <1>2, PTL DEF Spec

\* Every declared function, method and type of every file is in the index, and
\* every called name: what LazyLoading assumes of the index.
THEOREM DeclarationsTheorem == Spec => []DeclarationsAreIndexed
  <1>1. ASSUME IInv PROVE DeclarationsAreIndexed
    <2>1. outcome = "done" => \A k \in 1..Len(sources) : IsIndexed(k)
      <3>1. Len(sources) \in Nat
        BY <1>1, FileTypes DEF IInv, TypeOK
      <3>2. outcome = "done" => current - 1 = Len(sources)
        BY <1>1, <3>1 DEF IInv, TypeOK
      <3>3. QED
        BY <1>1, <3>2 DEF IInv, IndexInv
    <2>2. QED
      BY <2>1 DEF DeclarationsAreIndexed, IsIndexed
  <1>2. QED
    BY <1>1, ScanTheorem, PTL

\* The packages of a path are listed once each, in the order of their first files.
THEOREM PackagesTheorem == Spec => []PackagesAreListed
  <1>1. ASSUME IInv PROVE PackagesAreListed
    <2>1. Len(sources) \in Nat
      BY <1>1, FileTypes DEF IInv, TypeOK
    <2>2. ASSUME outcome = "done", NEW p \in Paths
          PROVE  LET ids == index.packageIDs[p]
                 IN  /\ ToSet(ids) = {sources[k].package : k \in
                            {k \in 1..Len(sources) :
                                sources[k].path = p /\ ~sources[k].externalTest}}
                     /\ \A i, j \in 1..Len(ids) : i < j => FirstFile(ids[i]) < FirstFile(ids[j])
      <3> DEFINE ids == index.packageIDs[p]
      <3>1. current - 1 = Len(sources)
        BY <1>1, <2>1, <2>2 DEF IInv, TypeOK
      <3>2. IsListed(ids, p)
        BY <1>1 DEF IInv, ListInv
      <3>3. DOMAIN ids = 1..Len(ids)
        <4>1. ids \in Seq(Packages)
          BY <1>1 DEF IInv, TypeOK, Index
        <4>2. QED
          BY <4>1, LenProperties
      <3> HIDE DEF ids
      <3>4. ToSet(ids) = {ids[i] : i \in 1..Len(ids)}
        BY <3>3 DEF ToSet
      <3>5. \A i \in 1..Len(ids) : \E k \in 1..Len(sources) :
                sources[k].package = ids[i] /\ sources[k].path = p /\ ~sources[k].externalTest
        BY <3>1, <3>2 DEF IsListed
      <3>6. \A k \in 1..Len(sources) : sources[k].path = p /\ ~sources[k].externalTest =>
                \E i \in 1..Len(ids) : ids[i] = sources[k].package
        BY <3>1, <3>2 DEF IsListed
      <3>7. \A i, j \in 1..Len(ids) : i < j => FirstFile(ids[i]) < FirstFile(ids[j])
        BY <3>2 DEF IsListed
      <3>8. ToSet(ids) = {sources[k].package : k \in
                {k \in 1..Len(sources) : sources[k].path = p /\ ~sources[k].externalTest}}
        <4> DEFINE shown == {k \in 1..Len(sources) :
                                sources[k].path = p /\ ~sources[k].externalTest}
        <4>1. \A i \in 1..Len(ids) : ids[i] \in {sources[k].package : k \in shown}
          BY <3>5
        <4>2. ASSUME NEW k \in shown PROVE sources[k].package \in {ids[i] : i \in 1..Len(ids)}
          BY <3>6
        <4> HIDE DEF shown
        <4>3. {ids[i] : i \in 1..Len(ids)} = {sources[k].package : k \in shown}
          BY <4>1, <4>2
        <4>4. QED
          BY <3>4, <4>3 DEF shown
      <3>9. QED
        BY <3>7, <3>8 DEF ids
    <2>3. QED
      BY <2>2 DEF PackagesAreListed, FirstFile
  <1>2. QED
    BY <1>1, ScanTheorem, PTL

=============================================================================
