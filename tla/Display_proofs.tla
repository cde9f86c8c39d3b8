--------------------------- MODULE Display_proofs ---------------------------
(***************************************************************************)
(* Proofs about Display, for every workspace: no two symbols of a result   *)
(* get one name, and no two loaded types one name in a message.  The       *)
(* argument: the identity of a package is its path, directory, module and  *)
(* kind, and the directory determines the module, so that a label with     *)
(* the path, the directory and the kind says everything.                   *)
(***************************************************************************)
EXTENDS Display, Indices, SequenceTheorems, TLAPS

-----------------------------------------------------------------------------
(* The packages of the discovery. *)

WalkedPaths == {PathOf(dir) : dir \in Seq(Names)}

Paths == WalkedPaths \cup {TestPath(path) : path \in WalkedPaths}

ModuleIndices == {ModuleOf(dir) : dir \in Seq(Names)}

Ids == {<<>>} \cup
       {packageIdentity(path, dir, module, external) :
            path \in Paths, dir \in Seq(Names), module \in ModuleIndices, external \in BOOLEAN}

SourceRecord ==
    [dir : Seq(Names), path : Paths, clause : Names, module : ModuleIndices,
     test : BOOLEAN, external : BOOLEAN, id : Ids]

PackageRecord ==
    [id : Ids, path : Paths, name : Names, dir : Seq(Names),
     module : ModuleIndices, external : BOOLEAN]

\* The sources lie where their directories say, those without a package under the
\* path of their directory.
SourcesInv ==
    /\ workspace \in Workspaces
    /\ walked \in Nat
    /\ placed \in Nat
    /\ sources \in Seq(SourceRecord)
    /\ discovery = "walking" => placed = 0
    /\ \A i \in 1..Len(sources) :
        /\ sources[i].module = ModuleOf(sources[i].dir)
        /\ i > placed => sources[i].path \in WalkedPaths

\* The identity of a package says nothing that its label does not say.
PackagesInv ==
    /\ packages \in Seq(PackageRecord)
    /\ \A p \in ToSet(packages) :
        /\ p.id = <<p.path, p.dir, p.module, p.external>>
        /\ p.module = ModuleOf(p.dir)

LEMMA InitSources == Init => SourcesInv /\ PackagesInv
  <1> SUFFICES ASSUME Init PROVE SourcesInv /\ PackagesInv
    OBVIOUS
  <1>1. sources = <<>> /\ packages = <<>> /\ walked = 0 /\ placed = 0
    BY DEF Init, DiscoveryInit
  <1>2. SourcesInv
    BY <1>1 DEF Init, DiscoveryInit, SourcesInv
  <1>3. ToSet(packages) = {}
    BY <1>1 DEF ToSet
  <1>4. QED
    BY <1>1, <1>2, <1>3 DEF PackagesInv

\* The sets above depend on the workspace alone, which no step changes.
LEMMA SameSets ==
    ASSUME UNCHANGED workspace
    PROVE  /\ WalkedPaths' = WalkedPaths
           /\ Paths' = Paths
           /\ ModuleIndices' = ModuleIndices
           /\ Ids' = Ids
           /\ SourceRecord' = SourceRecord
           /\ PackageRecord' = PackageRecord
           /\ \A dir : ModuleOf(dir)' = ModuleOf(dir)
  BY DEF WalkedPaths, Paths, ModuleIndices, Ids, SourceRecord, PackageRecord,
         PathOf, TestPath, ModuleOf, ModulesAbove, packageIdentity

LEMMA WalkFileSources == SourcesInv /\ WalkFile => SourcesInv'
  <1> SUFFICES ASSUME SourcesInv, WalkFile PROVE SourcesInv'
    OBVIOUS
  <1> DEFINE file == workspace.files[walked + 1]
             added == [dir |-> file.dir, path |-> PathOf(file.dir), clause |-> file.clause,
                       module |-> ModuleOf(file.dir), test |-> file.test,
                       external |-> FALSE, id |-> <<>>]
  <1>1. workspace' = workspace /\ walked' = walked + 1 /\ placed' = placed /\ discovery' = discovery
    BY DEF WalkFile
  <1>2. sources' = sources \/ sources' = Append(sources, added)
    BY DEF WalkFile
  <1>3. file \in File
    BY DiscoveryAssumption DEF SourcesInv, WalkFile, Workspace
  <1>4. added \in SourceRecord /\ added.path \in WalkedPaths /\ added.module = ModuleOf(added.dir)
    BY <1>3 DEF File, SourceRecord, WalkedPaths, Paths, ModuleIndices, Ids
  <1>5. CASE sources' = sources
    BY <1>1, <1>5, SameSets DEF SourcesInv
  <1>6. CASE sources' = Append(sources, added)
    <2> HIDE DEF added
    <2>1. sources' \in Seq(SourceRecord) /\ Len(sources') = Len(sources) + 1
      BY <1>4, <1>6 DEF SourcesInv
    <2>2. \A i \in 1..Len(sources') :
            sources'[i] = IF i = Len(sources) + 1 THEN added ELSE sources[i]
      BY <1>4, <1>6 DEF SourcesInv
    <2>3. QED
      BY <1>1, <1>4, <2>1, <2>2, SameSets DEF SourcesInv
  <1>7. QED
    BY <1>2, <1>5, <1>6

LEMMA PlaceSourceInv == SourcesInv /\ PackagesInv /\ PlaceSource => SourcesInv' /\ PackagesInv'
  <1> SUFFICES ASSUME SourcesInv, PackagesInv, PlaceSource PROVE SourcesInv' /\ PackagesInv'
    OBVIOUS
  <1> DEFINE old == sources[placed + 1]
             s == Placed(old)
  <1>1. workspace' = workspace /\ walked' = walked /\ placed' = placed + 1 /\ discovery' = discovery
    BY DEF PlaceSource
  <1>2. placed + 1 \in 1..Len(sources) /\ discovery = "placing"
    BY DEF PlaceSource, SourcesInv
  <1>3. old \in SourceRecord /\ old.module = ModuleOf(old.dir) /\ old.path \in WalkedPaths
    BY <1>2 DEF SourcesInv
  <1>4. /\ s.dir = old.dir /\ s.module = old.module /\ s.path \in Paths
        /\ s.id = <<s.path, s.dir, s.module, s.external>>
        /\ s.external \in BOOLEAN
        /\ s \in SourceRecord
    <2> DEFINE path == IF IsExternalTest(old) THEN TestPath(old.path) ELSE old.path
               id == packageIdentity(path, old.dir, old.module, IsExternalTest(old))
    <2>1. path \in Paths
      BY <1>3 DEF Paths
    <2>2. IsExternalTest(old) \in BOOLEAN
      BY DEF IsExternalTest
    <2>3. id \in Ids
      BY <1>3, <2>1, <2>2 DEF Ids, SourceRecord
    <2>4. s = [old EXCEPT !.external = IsExternalTest(old), !.path = path, !.id = id]
      BY DEF Placed
    <2> HIDE DEF path, id, s, old
    <2>5. QED
      <3>1. s \in SourceRecord /\ s.path = path /\ s.id = id /\ s.dir = old.dir
            /\ s.module = old.module /\ s.external = IsExternalTest(old)
        BY <1>3, <2>1, <2>2, <2>3, <2>4 DEF SourceRecord
      <3>2. QED
        BY <2>1, <2>2, <3>1 DEF packageIdentity, id
  <1>5. sources' = [sources EXCEPT ![placed + 1] = s]
    BY DEF PlaceSource
  <1>6. packages' = packages \/ packages' = Append(packages, PackageOf(s))
    BY DEF PlaceSource
  <1> HIDE DEF s
  <1>7. SourcesInv'
    <2>1. sources' \in Seq(SourceRecord) /\ Len(sources') = Len(sources)
      BY <1>2, <1>4, <1>5, ExceptSeq DEF SourcesInv
    <2>2. \A i \in 1..Len(sources') : sources'[i] = IF i = placed + 1 THEN s ELSE sources[i]
      BY <1>2, <1>4, <1>5, <2>1 DEF SourcesInv
    <2>3. QED
      BY <1>1, <1>2, <1>3, <1>4, <2>1, <2>2, SameSets DEF SourcesInv
  <1>8. PackagesInv'
    <2>1. CASE packages' = packages
      BY <1>1, <2>1, SameSets DEF PackagesInv, ToSet
    <2>2. CASE packages' = Append(packages, PackageOf(s))
      <3>1. /\ PackageOf(s) \in PackageRecord
            /\ PackageOf(s).id = s.id /\ PackageOf(s).path = s.path /\ PackageOf(s).dir = s.dir
            /\ PackageOf(s).module = s.module /\ PackageOf(s).external = s.external
        BY <1>4 DEF PackageOf, PackageRecord, SourceRecord
      <3>2. packages' \in Seq(PackageRecord)
        BY <2>2, <3>1 DEF PackagesInv
      <3>3. ToSet(packages') = ToSet(packages) \cup {PackageOf(s)}
        BY <2>2, <3>1 DEF PackagesInv, ToSet
      <3>4. QED
        BY <1>1, <1>3, <1>4, <3>1, <3>2, <3>3, SameSets DEF PackagesInv
    <2>3. QED
      BY <1>6, <2>1, <2>2
  <1>9. QED
    BY <1>7, <1>8

\* A step that leaves the discovery alone leaves what it found.
LEMMA KeepDiscovery ==
    ASSUME SourcesInv, PackagesInv, UNCHANGED discoveryVars
    PROVE  SourcesInv' /\ PackagesInv'
  <1>1. /\ workspace' = workspace /\ walked' = walked /\ sources' = sources
        /\ placed' = placed /\ packages' = packages /\ discovery' = discovery
    BY DEF discoveryVars
  <1>2. SourcesInv'
    BY <1>1, SameSets DEF SourcesInv
  <1>3. PackagesInv'
    BY <1>1, SameSets DEF PackagesInv, ToSet
  <1>4. QED
    BY <1>2, <1>3

LEMMA NextSources == SourcesInv /\ PackagesInv /\ [Next]_vars => SourcesInv' /\ PackagesInv'
  <1> SUFFICES ASSUME SourcesInv, PackagesInv, [Next]_vars PROVE SourcesInv' /\ PackagesInv'
    OBVIOUS
  <1>1. CASE WalkFile
    <2>1. SourcesInv'
      BY <1>1, WalkFileSources
    <2>2. workspace' = workspace /\ packages' = packages
      BY <1>1 DEF WalkFile
    <2>3. PackagesInv'
      BY <2>2, SameSets DEF PackagesInv, ToSet
    <2>4. QED
      BY <2>1, <2>3
  <1>2. CASE PlaceSource
    BY <1>2, PlaceSourceInv
  <1>3. CASE WalkFails \/ EndWalk \/ EndDiscovery
    <2>1. /\ workspace' = workspace /\ walked' = walked /\ sources' = sources
          /\ placed' = placed /\ packages' = packages /\ discovery' # "walking"
      BY <1>3 DEF WalkFails, EndWalk, EndDiscovery
    <2>2. SourcesInv'
      BY <2>1, SameSets DEF SourcesInv
    <2>3. PackagesInv'
      BY <2>1, SameSets DEF PackagesInv, ToSet
    <2>4. QED
      BY <2>2, <2>3
  <1>4. CASE UNCHANGED discoveryVars
    BY <1>4, KeepDiscovery
  <1>5. QED
    BY <1>1, <1>2, <1>3, <1>4
       DEF Next, Discover, Search, ConvertRoot, ConvertNode, ConvertListed, ConvertEdge,
           Name, Show, vars

-----------------------------------------------------------------------------
(* Names and labels. *)

\* What displayResult names: a symbol of a package that was found, or one that
\* nothing declares.
IsSymbol(s) ==
    /\ s = [path |-> s.path, package |-> s.package, name |-> s.name]
    /\ \/ s.package = <<>>
       \/ \E p \in ToSet(packages) : p.id = s.package /\ p.path = s.path

\* The name of a symbol among those of S.
NameIn(S, s) == IF Ambiguous(S, s) THEN symbolLabel(s) ELSE publicSymbol(s)

LEMMA PublicName ==
    ASSUME NEW s, IsSymbol(s)
    PROVE  publicSymbol(s) = [path |-> s.path, package |-> <<>>, name |-> s.name]
  <1>1. s = [path |-> s.path, package |-> s.package, name |-> s.name]
    BY DEF IsSymbol
  <1>2. QED
    BY <1>1 DEF publicSymbol

\* The identity of a package is not the mark of a symbol without one.
LEMMA FourIsNotEmpty ==
    ASSUME NEW a, NEW b, NEW c, NEW d
    PROVE  <<a, b, c, d>> # <<>>
  <1>1. 1 \in DOMAIN <<a, b, c, d>>
    OBVIOUS
  <1>2. 1 \notin DOMAIN <<>>
    OBVIOUS
  <1>3. QED
    BY <1>1, <1>2

\* Neither is a label.
LEMMA TwoIsNotEmpty ==
    ASSUME NEW a, NEW b
    PROVE  <<a, b>> # <<>>
  <1>1. 1 \in DOMAIN <<a, b>>
    OBVIOUS
  <1>2. 1 \notin DOMAIN <<>>
    OBVIOUS
  <1>3. QED
    BY <1>1, <1>2

\* The label of a symbol that nothing declares is its public name.
LEMMA UndeclaredLabel ==
    ASSUME PackagesInv, NEW s, IsSymbol(s), s.package = <<>>
    PROVE  symbolLabel(s) = [path |-> s.path, package |-> <<>>, name |-> s.name]
  <1>1. \A p \in ToSet(packages) : p.id # s.package
    <2> TAKE p \in ToSet(packages)
    <2>1. p.id = <<p.path, p.dir, p.module, p.external>>
      BY DEF PackagesInv
    <2>2. QED
      BY <2>1, FourIsNotEmpty
  <1>2. symbolLabel(s) = publicSymbol(s)
    BY <1>1 DEF symbolLabel
  <1>3. QED
    BY <1>2, PublicName

\* The label of any other symbol has the directory and kind of its package.
LEMMA DeclaredLabel ==
    ASSUME PackagesInv, NEW s, IsSymbol(s), s.package # <<>>
    PROVE  \E p \in ToSet(packages) :
              /\ s.package = <<s.path, p.dir, ModuleOf(p.dir), p.external>>
              /\ symbolLabel(s) = [path |-> s.path, package |-> <<p.dir, p.external>>, name |-> s.name]
  <1>1. s = [path |-> s.path, package |-> s.package, name |-> s.name]
    BY DEF IsSymbol
  <1>2. PICK q \in ToSet(packages) : q.id = s.package /\ q.path = s.path
    BY DEF IsSymbol
  <1> DEFINE p == CHOOSE p \in ToSet(packages) : p.id = s.package
  <1>3. p \in ToSet(packages) /\ p.id = s.package
    BY <1>2
  <1>4. symbolLabel(s) = [s EXCEPT !.package = <<p.dir, p.external>>]
    BY <1>2 DEF symbolLabel
  <1> HIDE DEF p
  <1>5. /\ p.id = <<p.path, p.dir, p.module, p.external>> /\ p.module = ModuleOf(p.dir)
        /\ q.id = <<q.path, q.dir, q.module, q.external>>
    BY <1>2, <1>3 DEF PackagesInv
  <1>6. p.path = s.path
    BY <1>2, <1>3, <1>5
  <1>7. symbolLabel(s) = [path |-> s.path, package |-> <<p.dir, p.external>>, name |-> s.name]
    BY <1>1, <1>4
  <1>8. QED
    BY <1>3, <1>5, <1>6, <1>7

\* Among the symbols of S, no two get one name.
LEMMA NamesDiffer ==
    ASSUME PackagesInv, NEW S, \A s \in S : IsSymbol(s),
           NEW s \in S, NEW t \in S, NameIn(S, s) = NameIn(S, t)
    PROVE  s = t
  <1> SUFFICES ASSUME s # t PROVE FALSE
    OBVIOUS
  <1>1. IsSymbol(s) /\ IsSymbol(t)
    OBVIOUS
  <1>2. \A u \in S : /\ NameIn(S, u).path = u.path
                     /\ NameIn(S, u).name = u.name
    <2> TAKE u \in S
    <2>1. publicSymbol(u) = [path |-> u.path, package |-> <<>>, name |-> u.name]
      BY PublicName
    <2>2. symbolLabel(u).path = u.path /\ symbolLabel(u).name = u.name
      <3>1. CASE u.package = <<>>
        BY <3>1, UndeclaredLabel
      <3>2. CASE u.package # <<>>
        BY <3>2, DeclaredLabel
      <3>3. QED
        BY <3>1, <3>2
    <2>3. QED
      BY <2>1, <2>2 DEF NameIn
  <1>3. s.path = t.path /\ s.name = t.name
    BY <1>2
  <1>4. publicSymbol(s) = publicSymbol(t)
    BY <1>1, <1>3, PublicName
  <1>5. Ambiguous(S, s) /\ Ambiguous(S, t)
    BY <1>4 DEF Ambiguous
  <1>6. symbolLabel(s) = symbolLabel(t)
    BY <1>5 DEF NameIn
  <1>7. s.package = t.package
    <2>1. CASE s.package = <<>> /\ t.package = <<>>
      BY <2>1
    <2>2. CASE s.package = <<>> /\ t.package # <<>>
      <3>1. symbolLabel(s).package = <<>>
        BY <1>1, <2>2, UndeclaredLabel
      <3>2. \E d, x : symbolLabel(t).package = <<d, x>>
        BY <1>1, <2>2, DeclaredLabel
      <3>3. QED
        BY <1>6, <3>1, <3>2, TwoIsNotEmpty
    <2>3. CASE s.package # <<>> /\ t.package = <<>>
      <3>1. symbolLabel(t).package = <<>>
        BY <1>1, <2>3, UndeclaredLabel
      <3>2. \E d, x : symbolLabel(s).package = <<d, x>>
        BY <1>1, <2>3, DeclaredLabel
      <3>3. QED
        BY <1>6, <3>1, <3>2, TwoIsNotEmpty
    <2>4. CASE s.package # <<>> /\ t.package # <<>>
      <3>1. PICK p \in ToSet(packages) :
              /\ s.package = <<s.path, p.dir, ModuleOf(p.dir), p.external>>
              /\ symbolLabel(s).package = <<p.dir, p.external>>
        BY <1>1, <2>4, DeclaredLabel
      <3>2. PICK q \in ToSet(packages) :
              /\ t.package = <<t.path, q.dir, ModuleOf(q.dir), q.external>>
              /\ symbolLabel(t).package = <<q.dir, q.external>>
        BY <1>1, <2>4, DeclaredLabel
      <3>3. p.dir = q.dir /\ p.external = q.external
        BY <1>6, <3>1, <3>2
      <3>4. QED
        BY <1>3, <3>1, <3>2, <3>3
    <2>5. QED
      BY <2>1, <2>2, <2>3, <2>4
  <1>8. QED
    BY <1>1, <1>3, <1>7 DEF IsSymbol

-----------------------------------------------------------------------------
(* The conversion. *)

\* The name of a type in a message.
TypeName(t) == IF t \in CollidingTypes THEN symbolLabel(t) ELSE publicSymbol(t)

\* Before the search there is nothing; afterwards the result has two edges, its
\* symbols and types are symbols, and what is named has its name.
ResultInv ==
    /\ converted \in Nat
    /\ stage = "search" => names = {} /\ converted = 0
    /\ stage # "search" =>
        /\ discovery = "done"
        /\ nodes = <<1, 2>>
        /\ DOMAIN edges = 1..2
        /\ \A s \in Registered : IsSymbol(s)
        /\ names \subseteq {<<s, label(s)>> : s \in Registered}

MessagesInv ==
    /\ stage # "search" =>
        /\ DOMAIN messages = 1..2
        /\ \A t \in types : IsSymbol(t)
        /\ \A e \in 1..2 : \A m \in messages[e] :
            /\ m = [type |-> m.type, name |-> m.name]
            /\ IsSymbol(m.type)
            /\ m.name = m.type \/ m.name = TypeName(m.type)
            /\ converted > e => m.name = TypeName(m.type)
    /\ stage = "done" => converted > 2

LEMMA InitResult == Init => ResultInv /\ MessagesInv
  BY DEF Init, ResultInv, MessagesInv

\* A symbol of a package that was found, or of its path alone.
LEMMA MadeSymbols ==
    ASSUME NEW p \in ToSet(packages), NEW name
    PROVE  IsSymbol(InPackage(p, name)) /\ IsSymbol(Undeclared(p.path, name))
  BY DEF IsSymbol, InPackage, Undeclared

\* What is a symbol stays one, and its names stay, while the result stays.
LEMMA SameSymbols ==
    ASSUME UNCHANGED <<packages, root, edges, types>>
    PROVE  /\ \A s : IsSymbol(s)' = IsSymbol(s)
           /\ Registered' = Registered
           /\ \A s : label(s)' = label(s)
           /\ \A t : TypeName(t)' = TypeName(t)
  BY DEF IsSymbol, Registered, label, TypeName, CollidingTypes, Ambiguous, symbolLabel, publicSymbol, ToSet

LEMMA SearchResult == ResultInv /\ Search => ResultInv' /\ MessagesInv'
  <1> SUFFICES ASSUME ResultInv, Search PROVE ResultInv' /\ MessagesInv'
    OBVIOUS
  <1>1. /\ stage' = "convert" /\ stage = "search" /\ discovery' = "done"
        /\ converted' = converted /\ names' = names
        /\ nodes' = <<1, 2>> /\ packages' = packages
    BY DEF Search, discoveryVars
  <1>2. IsSymbol(root)'
    <2>1. PICK p \in ToSet(packages) : root' \in {InPackage(p, Target), Undeclared(p.path, Target)}
      BY DEF Search
    <2>2. IsSymbol(root')
      BY <2>1, MadeSymbols
    <2>3. QED
      BY <1>1, <2>2 DEF IsSymbol, ToSet
  <1>3. PICK first \in FunctionSymbols, second \in FunctionSymbols :
            edges' = <<[caller |-> first, callee |-> root'], [caller |-> second, callee |-> first]>>
    BY DEF Search
  <1>4. IsSymbol(first) /\ IsSymbol(second)
    BY MadeSymbols DEF FunctionSymbols
  <1>5. DOMAIN edges' = 1..2 /\ Registered' = {root', first, second}
    BY <1>3 DEF Registered
  <1>6. ResultInv'
    <2>1. \A s \in {first, second} : IsSymbol(s)'
      BY <1>1, <1>4 DEF IsSymbol, ToSet
    <2>2. \A s \in Registered' : IsSymbol(s)'
      BY <1>2, <1>5, <2>1 DEF IsSymbol
    <2>3. QED
      BY <1>1, <1>5, <2>2 DEF ResultInv
  <1>7. MessagesInv'
    <2>1. types' \subseteq TypeSymbols
      BY DEF Search
    <2>2. messages' = [e \in 1..2 |-> {Internal(t) : t \in TypeSymbols}]
      BY DEF Search
    <2>3. \A t \in TypeSymbols : IsSymbol(t)
      BY MadeSymbols DEF TypeSymbols
    <2>4. \A t \in TypeSymbols : IsSymbol(t)'
      BY <1>1, <2>3 DEF IsSymbol, ToSet
    <2>5. converted' = 0
      BY <1>1 DEF ResultInv
    <2>6. ASSUME NEW e \in 1..2, NEW m \in messages'[e]
          PROVE  /\ m = [type |-> m.type, name |-> m.name]
                 /\ IsSymbol(m.type)'
                 /\ m.name = m.type
      <3>1. PICK t \in TypeSymbols : m = Internal(t)
        BY <2>2
      <3>2. QED
        BY <2>4, <3>1 DEF Internal
    <2>7. DOMAIN messages' = 1..2
      BY <2>2
    <2>8. \A t \in types' : IsSymbol(t)'
      BY <2>1, <2>4
    <2>9. QED
      BY <1>1, <2>5, <2>6, <2>7, <2>8 DEF MessagesInv
  <1>8. QED
    BY <1>6, <1>7

LEMMA NameResult ==
    ASSUME ResultInv, NEW S, S \subseteq Registered, Name(S)
    PROVE  ResultInv'
  <1>1. /\ stage = "convert" /\ stage' = "convert" /\ discovery' = discovery
        /\ converted' = converted + 1
        /\ names' = names \cup {<<s, label(s)>> : s \in S}
        /\ packages' = packages /\ types' = types
        /\ root' = root /\ edges' = edges /\ nodes' = nodes
    BY DEF Name, discoveryVars
  <1>2. Registered' = Registered /\ (\A s : label(s)' = label(s)) /\ (\A s : IsSymbol(s)' = IsSymbol(s))
    BY <1>1, SameSymbols
  <1> HIDE DEF Registered, label, IsSymbol
  <1>3. names' \subseteq {<<s, label(s)>> : s \in Registered}
    BY <1>1 DEF ResultInv
  <1>4. {<<s, label(s)>> : s \in Registered}' = {<<s, label(s)>> : s \in Registered}
    BY <1>2
  <1>5. QED
    BY <1>1, <1>2, <1>3, <1>4 DEF ResultInv

\* What a mention becomes.
LEMMA ConvertedName ==
    ASSUME NEW m, m = [type |-> m.type, name |-> m.name],
           m.name = m.type \/ m.name = TypeName(m.type)
    PROVE  Converted(m) = [type |-> m.type, name |-> TypeName(m.type)]
  <1> DEFINE t == m.type
             by == {u \in CollidingTypes : Replaceable(m, u)}
  <1>1. CASE m.name # m.type
    BY <1>1 DEF Converted, IsInternal
  <1>2. CASE m.name = m.type
    <2>1. by = {u \in CollidingTypes : u = t}
      BY <1>2 DEF Replaceable, IsInternal
    <2>2. CASE t \in CollidingTypes
      <3>1. by = {t}
        BY <2>1, <2>2
      <3>2. (CHOOSE u \in by : TRUE) = t
        BY <3>1
      <3>3. QED
        BY <1>2, <2>2, <3>1, <3>2 DEF Converted, IsInternal, TypeName
    <2>3. CASE t \notin CollidingTypes
      <3>1. by = {}
        BY <2>1, <2>3
      <3>2. QED
        BY <1>2, <2>3, <3>1 DEF Converted, IsInternal, TypeName
    <2>4. QED
      BY <2>2, <2>3
  <1>3. QED
    BY <1>1, <1>2

\* convertEdge converts every mention, and those that are converted stay.
LEMMA EdgeMessages ==
    ASSUME ResultInv, MessagesInv, NEW e \in 1..2, ConvertEdge(e),
           converted \in {e, e + 2}
    PROVE  MessagesInv'
  <1>1. /\ stage = "convert" /\ stage' = "convert" /\ converted' = converted + 1
        /\ packages' = packages /\ types' = types /\ root' = root /\ edges' = edges
    BY DEF ConvertEdge, Name, discoveryVars
  <1>2. /\ \A s : IsSymbol(s)' = IsSymbol(s)
        /\ \A t : TypeName(t)' = TypeName(t)
    BY <1>1, SameSymbols
  <1>3. /\ DOMAIN messages = 1..2
        /\ \A t \in types : IsSymbol(t)
        /\ \A d \in 1..2 : \A m \in messages[d] :
            /\ m = [type |-> m.type, name |-> m.name]
            /\ IsSymbol(m.type)
            /\ m.name = m.type \/ m.name = TypeName(m.type)
            /\ converted > d => m.name = TypeName(m.type)
    BY <1>1 DEF MessagesInv
  <1>4. messages' = [messages EXCEPT ![e] = {Converted(m) : m \in messages[e]}]
    BY DEF ConvertEdge
  <1> HIDE DEF IsSymbol, TypeName
  <1>5. ASSUME NEW m \in messages'[e]
        PROVE  /\ m = [type |-> m.type, name |-> m.name]
               /\ IsSymbol(m.type)
               /\ m.name = TypeName(m.type)
    <2>1. PICK n \in messages[e] : m = Converted(n)
      BY <1>3, <1>4
    <2>2. m = [type |-> n.type, name |-> TypeName(n.type)]
      BY <1>3, <2>1, ConvertedName
    <2>3. QED
      BY <1>3, <2>2
  <1>6. ASSUME NEW d \in 1..2, d # e, NEW m \in messages'[d]
        PROVE  /\ m = [type |-> m.type, name |-> m.name]
               /\ IsSymbol(m.type)
               /\ m.name = m.type \/ m.name = TypeName(m.type)
               /\ converted + 1 > d => m.name = TypeName(m.type)
    <2>1. messages'[d] = messages[d]
      BY <1>3, <1>4, <1>6
    <2>2. converted + 1 > d => converted > d
      BY <1>6 DEF ResultInv
    <2>3. QED
      BY <1>3, <1>6, <2>1, <2>2
  <1>7. DOMAIN messages' = 1..2
    BY <1>3, <1>4
  <1>8. QED
    BY <1>1, <1>2, <1>3, <1>5, <1>6, <1>7 DEF MessagesInv

LEMMA NextResult == ResultInv /\ MessagesInv /\ [Next]_vars => ResultInv' /\ MessagesInv'
  <1> SUFFICES ASSUME ResultInv, MessagesInv, [Next]_vars PROVE ResultInv' /\ MessagesInv'
    OBVIOUS
  <1>1. CASE Discover /\ UNCHANGED displayVars
    <2>1. /\ UNCHANGED <<types, root, edges, nodes, messages, converted, names, stage>>
          /\ discovery # "done"
      BY <1>1 DEF displayVars, Discover, WalkFile, WalkFails, EndWalk, PlaceSource, EndDiscovery
    <2>2. stage = "search"
      BY <2>1 DEF ResultInv
    <2>3. QED
      BY <2>1, <2>2 DEF ResultInv, MessagesInv
  <1>2. CASE Search
    BY <1>2, SearchResult
  <1>3. CASE ConvertRoot
    <2>1. ResultInv'
      BY <1>3, NameResult DEF ConvertRoot, Registered
    <2>2. /\ stage = "convert" /\ stage' = "convert" /\ converted = 0 /\ converted' = 1
          /\ UNCHANGED <<packages, root, edges, types, messages>>
      BY <1>3 DEF ConvertRoot, Name, discoveryVars
    <2>3. MessagesInv'
      BY <2>2, SameSymbols DEF MessagesInv
    <2>4. QED
      BY <2>1, <2>3
  <1>4. ASSUME NEW e \in 1..2, ConvertEdge(e), converted \in {e, e + 2}
        PROVE  ResultInv' /\ MessagesInv'
    <2>1. {edges[e].caller, edges[e].callee} \subseteq Registered
      BY <1>4 DEF ResultInv, ConvertEdge, Name, Registered
    <2>2. ResultInv'
      BY <1>4, <2>1, NameResult DEF ConvertEdge
    <2>3. QED
      BY <1>4, <2>2, EdgeMessages
  <1>5. CASE ConvertNode
    <2>1. nodes = <<1, 2>>
      BY <1>5 DEF ResultInv, ConvertNode, ConvertEdge, Name
    <2>2. converted \in 1..2 /\ nodes[converted] = converted
      BY <1>5, <2>1 DEF ConvertNode
    <2>3. QED
      BY <1>4, <1>5, <2>2 DEF ConvertNode
  <1>6. CASE ConvertListed
    <2>1. nodes = <<1, 2>> /\ DOMAIN edges = 1..2 /\ converted \in Nat
      BY <1>6 DEF ResultInv, ConvertListed, ConvertEdge, Name
    <2>2. Len(nodes) = 2
      BY <2>1
    <2>3. Len(edges) = 2
      BY <2>1
    <2>4. converted - 2 \in 1..2 /\ ConvertEdge(converted - 2)
      BY <1>6, <2>1, <2>2, <2>3 DEF ConvertListed
    <2>5. QED
      BY <1>4, <2>1, <2>4
  <1>7. CASE Show
    <2>1. /\ stage = "convert" /\ stage' = "done" /\ discovery' = discovery
          /\ UNCHANGED <<packages, types, root, edges, nodes, messages, converted, names>>
      BY <1>7 DEF Show, discoveryVars
    <2>2. /\ \A s : IsSymbol(s)' = IsSymbol(s)
          /\ Registered' = Registered
          /\ \A s : label(s)' = label(s)
          /\ \A t : TypeName(t)' = TypeName(t)
      BY <2>1, SameSymbols
    <2> HIDE DEF IsSymbol, Registered, label, TypeName
    <2>3. converted > 2
      <3>1. nodes = <<1, 2>> /\ DOMAIN edges = 1..2
        BY <2>1 DEF ResultInv
      <3>2. converted > Len(nodes) + Len(edges) /\ Len(nodes) = 2 /\ Len(edges) = 2 /\ converted \in Nat
        BY <1>7, <3>1 DEF Show, ResultInv
      <3>3. QED
        BY <3>2
    <2>4. ResultInv'
      BY <2>1, <2>2 DEF ResultInv
    <2>5. MessagesInv'
      BY <2>1, <2>2, <2>3 DEF MessagesInv
    <2>6. QED
      BY <2>4, <2>5
  <1>8. CASE UNCHANGED vars
    <2>1. /\ discovery' = discovery
          /\ UNCHANGED <<packages, types, root, edges, nodes, messages, converted, names, stage>>
      BY <1>8 DEF vars, discoveryVars, displayVars
    <2>2. /\ \A s : IsSymbol(s)' = IsSymbol(s)
          /\ Registered' = Registered
          /\ \A s : label(s)' = label(s)
          /\ \A t : TypeName(t)' = TypeName(t)
      BY <2>1, SameSymbols
    <2> HIDE DEF IsSymbol, Registered, label, TypeName
    <2>3. QED
      BY <2>1, <2>2 DEF ResultInv, MessagesInv
  <1>9. QED
    BY <1>1, <1>2, <1>3, <1>5, <1>6, <1>7, <1>8 DEF Next

-----------------------------------------------------------------------------
(* The theorems. *)

DisplayInv == SourcesInv /\ PackagesInv /\ ResultInv /\ MessagesInv

LEMMA DisplayInvariant == Spec => []DisplayInv
  <1>1. Init => DisplayInv
    BY InitSources, InitResult DEF DisplayInv
  <1>2. DisplayInv /\ [Next]_vars => DisplayInv'
    BY NextSources, NextResult DEF DisplayInv
  <1>3. QED
    BY <1>1, <1>2, PTL DEF Spec

\* The identity of a package is its path, directory, module and kind, and the
\* module is that of the directory, for every workspace (discoverSources).
THEOREM PackagesTheorem == Spec => []PackagesInv
  <1>1. DisplayInv => PackagesInv
    BY DEF DisplayInv
  <1>2. QED
    BY <1>1, DisplayInvariant, PTL

\* Two symbols of a result have two names, and a symbol has one, for every
\* workspace (displayResult).
THEOREM NamesTheorem == Spec => []NamesAreKept
  <1>1. DisplayInv => NamesAreKept
    <2> SUFFICES ASSUME DisplayInv, NEW a \in names, NEW b \in names
                 PROVE  a[1] = b[1] <=> a[2] = b[2]
      BY DEF NamesAreKept
    <2>1. /\ \A s \in Registered : IsSymbol(s)
          /\ names \subseteq {<<s, label(s)>> : s \in Registered}
      BY DEF DisplayInv, ResultInv
    <2>2. PICK s \in Registered : a = <<s, label(s)>>
      BY <2>1
    <2>3. PICK t \in Registered : b = <<t, label(t)>>
      BY <2>1
    <2>4. label(s) = NameIn(Registered, s) /\ label(t) = NameIn(Registered, t)
      BY DEF label, NameIn
    <2>5. label(s) = label(t) => s = t
      BY <2>1, <2>4, NamesDiffer DEF DisplayInv
    <2>6. QED
      BY <2>2, <2>3, <2>5
  <1>2. QED
    BY <1>1, DisplayInvariant, PTL

\* Every message of a result that is shown names two loaded types by two names,
\* for every workspace (displayResult, replaceDiagnosticType).
THEOREM MessagesTheorem == Spec => []MessagesNameTypes
  <1>1. DisplayInv => MessagesNameTypes
    <2> SUFFICES ASSUME DisplayInv, stage = "done",
                        NEW d \in DOMAIN edges, NEW m \in messages[d],
                        NEW e \in DOMAIN edges, NEW n \in messages[e]
                 PROVE  /\ m.name \in {publicSymbol(m.type), symbolLabel(m.type)}
                        /\ m.type \notin types => m.name = publicSymbol(m.type)
                        /\ m.type \in types /\ n.type \in types =>
                            (m.type = n.type <=> m.name = n.name)
      BY DEF MessagesNameTypes
    <2>1. d \in 1..2 /\ e \in 1..2 /\ converted > d /\ converted > e
      BY DEF DisplayInv, ResultInv, MessagesInv
    <2>2. m.name = TypeName(m.type) /\ n.name = TypeName(n.type)
      BY <2>1 DEF DisplayInv, MessagesInv
    <2>3. CollidingTypes \subseteq types
      BY DEF CollidingTypes
    <2>4. ASSUME m.type \in types, n.type \in types, m.name = n.name
          PROVE  m.type = n.type
      <3>1. \A t \in types : TypeName(t) = NameIn(types, t)
        BY DEF TypeName, CollidingTypes, NameIn
      <3>2. \A t \in types : IsSymbol(t)
        BY DEF DisplayInv, MessagesInv
      <3>3. NameIn(types, m.type) = NameIn(types, n.type)
        BY <2>2, <2>4, <3>1
      <3>4. QED
        BY <2>4, <3>2, <3>3, NamesDiffer DEF DisplayInv
    <2>5. QED
      BY <2>2, <2>3, <2>4 DEF TypeName
  <1>2. QED
    BY <1>1, DisplayInvariant, PTL

-----------------------------------------------------------------------------
(***************************************************************************)
(* A package identity is what the go command compiles together.  The code  *)
(* compares a test with the last other file of its directory only; that    *)
(* is enough because the files of a directory agree.                       *)
(***************************************************************************)

\* A source is what the walk took from a file.
IsFrom(s, file) ==
    /\ s.dir = file.dir
    /\ s.clause = file.clause
    /\ s.test = file.test

\* The sources are those of the files that the walk has passed.
WalkInv ==
    /\ walked \in 0..Len(workspace.files)
    /\ discovery \in {"placing", "done"} => walked = Len(workspace.files)
    /\ \A i \in 1..Len(sources) : \E k \in 1..walked :
            IsSource(workspace.files[k]) /\ IsFrom(sources[i], workspace.files[k])
    /\ \A k \in 1..walked :
            IsSource(workspace.files[k]) =>
                \E i \in 1..Len(sources) : IsFrom(sources[i], workspace.files[k])

\* IsExternalTest for any list of sources.
RegularIn(list, dir) ==
    {i \in 1..Len(list) : /\ list[i].dir = dir
                          /\ ~list[i].test \/ ~IsTestName(list[i].clause)}

IsExternalIn(list, s) ==
    /\ s.test
    /\ IsTestName(s.clause)
    /\ ~ /\ RegularIn(list, s.dir) # {}
         /\ list[Max(RegularIn(list, s.dir))].clause = s.clause

IsPlaced(list, s) ==
    /\ s.external = IsExternalIn(list, s)
    /\ s.path = IF s.external THEN TestPath(PathOf(s.dir)) ELSE PathOf(s.dir)
    /\ s.id = <<s.path, s.dir, s.module, s.external>>

PlacedInv ==
    /\ discovery = "done" => placed = Len(sources)
    /\ \A i \in 1..Len(sources) :
            IF i <= placed THEN IsPlaced(sources, sources[i])
            ELSE sources[i].path = PathOf(sources[i].dir)

LEMMA ExternalTests ==
    ASSUME SourcesInv
    PROVE  \A s : IsExternalTest(s) = IsExternalIn(sources, s)
  <1>1. DOMAIN sources = 1..Len(sources)
    BY LenProperties DEF SourcesInv
  <1>2. QED
    BY <1>1 DEF IsExternalTest, HasRegularName, IsExternalIn, RegularIn

\* Whether a source is an external test depends on the directories, the names and the
\* kinds of the sources alone.
LEMMA SameKinds ==
    ASSUME NEW a, NEW b, Len(a) \in Nat, Len(b) = Len(a),
           \A i \in 1..Len(a) : IsFrom(b[i], a[i]),
           NEW s, NEW t, IsFrom(t, s)
    PROVE  IsExternalIn(b, t) = IsExternalIn(a, s)
  <1> DEFINE R == RegularIn(a, s.dir)
  <1>1. RegularIn(b, t.dir) = R
    BY DEF RegularIn, IsFrom
  <1>2. CASE R = {}
    BY <1>1, <1>2 DEF IsExternalIn, IsFrom
  <1>3. CASE R # {}
    <2>1. R \subseteq 1..Len(a)
      BY DEF RegularIn
    <2>2. Max(R) \in 1..Len(a)
      BY <1>3, <2>1, IndicesHaveEnds
    <2>3. QED
      BY <1>1, <2>2 DEF IsExternalIn, IsFrom
  <1>4. QED
    BY <1>2, <1>3

LEMMA InitWalk == Init => WalkInv /\ PlacedInv
  <1> SUFFICES ASSUME Init PROVE WalkInv /\ PlacedInv
    OBVIOUS
  <1>1. /\ workspace \in Workspaces /\ walked = 0 /\ sources = <<>> /\ placed = 0
        /\ discovery = "walking"
    BY DEF Init, DiscoveryInit
  <1>2. workspace.files \in Seq(File)
    BY <1>1, DiscoveryAssumption DEF Workspace
  <1>3. Len(workspace.files) \in Nat /\ Len(sources) = 0
    BY <1>1, <1>2
  <1>4. QED
    BY <1>1, <1>3 DEF WalkInv, PlacedInv

LEMMA WalkFileWalk == SourcesInv /\ WalkInv /\ PlacedInv /\ WalkFile => WalkInv' /\ PlacedInv'
  <1> SUFFICES ASSUME SourcesInv, WalkInv, PlacedInv, WalkFile PROVE WalkInv' /\ PlacedInv'
    OBVIOUS
  <1> DEFINE file == workspace.files[walked + 1]
             added == [dir |-> file.dir, path |-> PathOf(file.dir), clause |-> file.clause,
                       module |-> ModuleOf(file.dir), test |-> file.test,
                       external |-> FALSE, id |-> <<>>]
  <1>1. /\ workspace' = workspace /\ walked' = walked + 1 /\ placed' = placed
        /\ discovery = "walking" /\ discovery' = discovery /\ placed = 0
    BY DEF WalkFile, SourcesInv
  <1>2. walked \in Nat /\ walked + 1 \in 1..Len(workspace.files) /\ Len(workspace.files) \in Nat
    <2>1. workspace.files \in Seq(File)
      BY DiscoveryAssumption DEF SourcesInv, Workspace
    <2>2. QED
      BY <2>1 DEF WalkFile, SourcesInv
  <1>3. /\ \A f : IsSource(f)' = IsSource(f)
        /\ \A dir : PathOf(dir)' = PathOf(dir)
    BY <1>1 DEF IsSource, PathOf, ModuleOf, ModulesAbove
  <1>4. CASE ~IsSource(file)
    <2>1. sources' = sources
      BY <1>4 DEF WalkFile
    <2>2. \A k \in 1..(walked + 1) : k = walked + 1 \/ k \in 1..walked
      BY <1>2
    <2>3. QED
      BY <1>1, <1>2, <1>3, <1>4, <2>1, <2>2 DEF WalkInv, PlacedInv
  <1>5. CASE IsSource(file)
    <2>1. sources' = Append(sources, added)
      BY <1>5 DEF WalkFile
    <2>2. /\ added.dir = file.dir /\ added.clause = file.clause /\ added.test = file.test
          /\ added.path = PathOf(added.dir)
      OBVIOUS
    <2>3. IsFrom(added, file)
      BY <2>2 DEF IsFrom
    <2> HIDE DEF added, file
    <2>4. /\ Len(sources) \in Nat
          /\ Len(sources') = Len(sources) + 1
          /\ \A i \in 1..Len(sources) : sources'[i] = sources[i]
          /\ sources'[Len(sources) + 1] = added
      BY <2>1 DEF SourcesInv
    <2>5. \A i \in 1..(Len(sources) + 1) : i = Len(sources) + 1 \/ i \in 1..Len(sources)
      BY <2>4
    <2>6. \A k \in 1..(walked + 1) : k = walked + 1 \/ k \in 1..walked
      BY <1>2
    <2>7. \A i \in 1..Len(sources') : \E k \in 1..(walked + 1) :
            IsSource(workspace.files[k]) /\ IsFrom(sources'[i], workspace.files[k])
      <3>1. \A k \in 1..walked : k \in 1..(walked + 1)
        BY <1>2
      <3>2. walked + 1 \in 1..(walked + 1)
        BY <1>2
      <3>3. QED
        BY <1>5, <2>3, <2>4, <2>5, <3>1, <3>2 DEF WalkInv, file
    <2>8. \A k \in 1..(walked + 1) : IsSource(workspace.files[k]) =>
            \E i \in 1..Len(sources') : IsFrom(sources'[i], workspace.files[k])
      <3>1. \A i \in 1..Len(sources) : i \in 1..Len(sources')
        BY <2>4
      <3>2. Len(sources) + 1 \in 1..Len(sources')
        BY <2>4
      <3>3. QED
        BY <2>3, <2>4, <2>6, <3>1, <3>2 DEF WalkInv, file
    <2>9. WalkInv'
      BY <1>1, <1>2, <1>3, <2>7, <2>8 DEF WalkInv
    <2>10. PlacedInv'
      BY <1>1, <1>3, <2>2, <2>4, <2>5 DEF PlacedInv
    <2>11. QED
      BY <2>9, <2>10
  <1>6. QED
    BY <1>4, <1>5

LEMMA PlaceSourceWalk ==
    SourcesInv /\ SourcesInv' /\ WalkInv /\ PlacedInv /\ PlaceSource => WalkInv' /\ PlacedInv'
  <1> SUFFICES ASSUME SourcesInv, SourcesInv', WalkInv, PlacedInv, PlaceSource
               PROVE  WalkInv' /\ PlacedInv'
    OBVIOUS
  <1> DEFINE old == sources[placed + 1]
             s == Placed(old)
  <1>1. /\ workspace' = workspace /\ walked' = walked /\ placed' = placed + 1
        /\ discovery' = discovery /\ discovery = "placing"
    BY DEF PlaceSource
  <1>2. placed + 1 \in 1..Len(sources) /\ Len(sources) \in Nat
    BY DEF PlaceSource, SourcesInv
  <1>3. old \in SourceRecord /\ old.path = PathOf(old.dir)
    BY <1>2 DEF SourcesInv, PlacedInv
  <1>4. /\ s.dir = old.dir /\ s.clause = old.clause /\ s.test = old.test
        /\ s.module = old.module
        /\ s.external = IsExternalTest(old)
        /\ s.path = IF IsExternalTest(old) THEN TestPath(old.path) ELSE old.path
        /\ s.id = <<s.path, s.dir, s.module, s.external>>
    BY <1>3 DEF Placed, SourceRecord, packageIdentity
  <1>5. sources' = [sources EXCEPT ![placed + 1] = s]
    BY DEF PlaceSource
  <1> HIDE DEF s
  <1>6. /\ Len(sources') = Len(sources)
        /\ \A i \in 1..Len(sources) : sources'[i] = IF i = placed + 1 THEN s ELSE sources[i]
    BY <1>2, <1>5 DEF SourcesInv
  <1>7. \A i \in 1..Len(sources) : IsFrom(sources'[i], sources[i])
    BY <1>4, <1>6 DEF IsFrom
  <1>8. \A r, t : IsFrom(t, r) => IsExternalIn(sources', t) = IsExternalIn(sources, r)
    BY <1>2, <1>6, <1>7, SameKinds
  <1>9. s.external = IsExternalIn(sources, old)
    BY <1>4, ExternalTests
  <1>10. \A dir : PathOf(dir)' = PathOf(dir)
    BY <1>1 DEF PathOf, ModuleOf, ModulesAbove
  <1>11. WalkInv'
    <2>1. \A f : IsSource(f)' = IsSource(f)
      BY <1>1 DEF IsSource, ModulesAbove
    <2>2. \A f : \A i \in 1..Len(sources) : IsFrom(sources'[i], f) <=> IsFrom(sources[i], f)
      BY <1>7 DEF IsFrom
    <2>3. QED
      BY <1>1, <1>6, <2>1, <2>2 DEF WalkInv
  <1>12. PlacedInv'
    <2>1. ASSUME NEW i \in 1..Len(sources)
          PROVE  IF i <= placed + 1 THEN IsPlaced(sources', sources'[i])
                 ELSE sources'[i].path = PathOf(sources'[i].dir)
      <3>1. CASE i = placed + 1
        <4>1. sources'[i] = s /\ IsFrom(s, old)
          BY <1>6, <1>7, <3>1
        <4>2. s.external = IsExternalIn(sources', s)
          BY <4>1, <1>8, <1>9
        <4>3. s.path = IF s.external THEN TestPath(PathOf(s.dir)) ELSE PathOf(s.dir)
          BY <1>3, <1>4
        <4>4. QED
          BY <3>1, <4>1, <4>2, <4>3, <1>4 DEF IsPlaced, SourcesInv
      <3>2. CASE i # placed + 1
        <4>1. sources'[i] = sources[i] /\ IsFrom(sources[i], sources[i])
          BY <1>6, <3>2 DEF IsFrom
        <4>2. IsExternalIn(sources', sources[i]) = IsExternalIn(sources, sources[i])
          BY <4>1, <1>8
        <4>3. i <= placed <=> i <= placed + 1
          BY <3>2 DEF SourcesInv
        <4>4. QED
          BY <4>1, <4>2, <4>3 DEF IsPlaced, PlacedInv
      <3>3. QED
        BY <3>1, <3>2
    <2>2. \A list, r : IsPlaced(list, r)' = IsPlaced(list, r)
      BY <1>10 DEF IsPlaced, IsExternalIn, RegularIn, TestPath
    <2>3. QED
      BY <2>1, <2>2, <1>1, <1>6, <1>10 DEF PlacedInv, IsPlaced, IsExternalIn, RegularIn, TestPath
  <1>13. QED
    BY <1>11, <1>12

LEMMA NextWalk ==
    SourcesInv /\ SourcesInv' /\ WalkInv /\ PlacedInv /\ [Next]_vars => WalkInv' /\ PlacedInv'
  <1> SUFFICES ASSUME SourcesInv, SourcesInv', WalkInv, PlacedInv, [Next]_vars
               PROVE  WalkInv' /\ PlacedInv'
    OBVIOUS
  <1>1. CASE WalkFile
    BY <1>1, WalkFileWalk
  <1>2. CASE PlaceSource
    BY <1>2, PlaceSourceWalk
  <1>3. CASE \/ WalkFails \/ EndWalk \/ EndDiscovery
             \/ UNCHANGED discoveryVars
    <2>1. /\ workspace' = workspace /\ walked' = walked /\ sources' = sources /\ placed' = placed
          /\ discovery' \in {"placing", "done"} =>
                walked = Len(workspace.files)
          /\ discovery' = "done" => placed = Len(sources)
      BY <1>3 DEF WalkFails, EndWalk, EndDiscovery, discoveryVars, WalkInv, PlacedInv
    <2>2. /\ \A f : IsSource(f)' = IsSource(f)
          /\ \A dir : PathOf(dir)' = PathOf(dir)
      BY <2>1 DEF IsSource, PathOf, ModuleOf, ModulesAbove
    <2>3. WalkInv'
      BY <2>1, <2>2 DEF WalkInv
    <2>4. PlacedInv'
      <3>1. \A i \in 1..Len(sources) :
                IF i <= placed THEN IsPlaced(sources, sources[i])
                ELSE sources[i].path = PathOf(sources[i].dir)
        BY DEF PlacedInv
      <3>2. \A i \in 1..Len(sources') :
                (IF i <= placed THEN IsPlaced(sources, sources[i])
                 ELSE sources[i].path = PathOf(sources[i].dir))'
        BY <3>1, <2>1, <2>2 DEF IsPlaced
      <3>3. QED
        BY <2>1, <3>2 DEF PlacedInv
    <2>5. QED
      BY <2>3, <2>4
  <1>4. QED
    BY <1>1, <1>2, <1>3
       DEF Next, Discover, Search, ConvertRoot, ConvertNode, ConvertListed, ConvertEdge,
           Name, Show, vars

\* What the code takes for an external test, the go command does: the last regular
\* file of the directory has the name of all of them.
LEMMA KindsAsGo ==
    ASSUME SourcesInv, WalkInv, discovery = "done", NEW j \in 1..Len(sources)
    PROVE  IsExternalIn(sources, sources[j]) = GoExternalTest(sources[j])
  <1> DEFINE s == sources[j]
             files == workspace.files
             others == {f \in FilesOf(workspace) : f.dir = s.dir /\ ~f.test}
             R == RegularIn(sources, s.dir)
  <1>1. CASE ~(s.test /\ IsTestName(s.clause))
    BY <1>1 DEF IsExternalIn, GoExternalTest
  <1>2. CASE s.test /\ IsTestName(s.clause)
    <2>1. /\ workspace \in Workspaces /\ workspace \in Workspace
          /\ files \in Seq(File)
          /\ walked = Len(files)
          /\ Len(sources) \in Nat
      BY DiscoveryAssumption DEF SourcesInv, WalkInv, Workspace
    <2>2. ASSUME NEW i \in 1..Len(sources)
          PROVE  \E f \in FilesOf(workspace) : IsSource(f) /\ IsFrom(sources[i], f)
      <3>1. PICK k \in 1..walked : IsSource(files[k]) /\ IsFrom(sources[i], files[k])
        BY DEF WalkInv
      <3>2. files[k] \in ToSet(files)
        BY <2>1 DEF ToSet
      <3>3. QED
        BY <3>1, <3>2 DEF FilesOf, IsSource
    <2>3. ASSUME NEW f \in others
          PROVE  \E i \in R : IsFrom(sources[i], f)
      <3>1. PICK k \in 1..Len(files) : files[k] = f
        BY <2>1 DEF FilesOf, ToSet
      <3>2. PICK g \in FilesOf(workspace) : IsSource(g) /\ IsFrom(s, g)
        BY <2>2
      <3>3. IsSource(f)
        BY <3>2 DEF IsSource, IsFrom, FilesOf
      <3>4. PICK i \in 1..Len(sources) : IsFrom(sources[i], f)
        BY <2>1, <3>1, <3>3 DEF WalkInv
      <3>5. QED
        BY <3>4 DEF RegularIn, IsFrom
    <2>4. ASSUME NEW f \in others, NEW i \in R PROVE sources[i].clause = f.clause
      <3>1. PICK g \in FilesOf(workspace) : IsFrom(sources[i], g)
        BY <2>2 DEF RegularIn
      <3>2. g.dir = f.dir /\ (~g.test \/ ~IsTestName(g.clause))
        BY <3>1 DEF RegularIn, IsFrom
      <3>3. /\ ~g.test => g.clause = f.clause
            /\ g.test => \/ g.clause = f.clause
                         \/ \E n \in DOMAIN TestName : g.clause = TestName[n]
        BY <2>1, <3>2, DiscoveryAssumption
      <3>4. g.clause = f.clause
        BY <3>2, <3>3 DEF IsTestName
      <3>5. QED
        BY <3>1, <3>4 DEF IsFrom
    <2>5. R # {} => Max(R) \in R
      <3>1. R \subseteq 1..Len(sources)
        BY DEF RegularIn
      <3>2. QED
        BY <2>1, <3>1, IndicesHaveEnds
    <2>6. CASE others = {}
      <3>1. ASSUME R # {} PROVE sources[Max(R)].clause # s.clause
        <4>1. PICK g \in FilesOf(workspace) : IsFrom(sources[Max(R)], g)
          BY <2>2, <2>5, <3>1 DEF RegularIn
        <4>2. sources[Max(R)].test
          BY <2>5, <2>6, <3>1, <4>1 DEF RegularIn, IsFrom
        <4>3. QED
          BY <1>2, <2>5, <3>1, <4>2 DEF RegularIn
      <3>2. QED
        BY <1>2, <2>6, <3>1 DEF IsExternalIn, GoExternalTest
    <2>7. CASE others # {}
      <3>1. PICK f \in others : TRUE
        BY <2>7
      <3>2. R # {} /\ sources[Max(R)].clause = f.clause
        BY <2>3, <2>4, <2>5, <3>1
      <3>3. \A g \in others : g.clause = f.clause
        BY <2>4, <2>5, <3>2
      <3>4. QED
        BY <1>2, <3>1, <3>2, <3>3 DEF IsExternalIn, GoExternalTest
    <2>8. QED
      BY <2>6, <2>7
  <1>3. QED
    BY <1>1, <1>2

\* Two files share a package identity exactly if the go command compiles them
\* together, for every workspace (discoverSources).
THEOREM IdentityTheorem == Spec => []PackagesAsGo
  <1>1. SourcesInv /\ WalkInv /\ PlacedInv => PackagesAsGo
    <2> SUFFICES ASSUME SourcesInv, WalkInv, PlacedInv, discovery = "done",
                        NEW i \in DOMAIN sources, NEW j \in DOMAIN sources
                 PROVE  sources[i].id = sources[j].id <=>
                            /\ sources[i].dir = sources[j].dir
                            /\ GoExternalTest(sources[i]) = GoExternalTest(sources[j])
      BY DEF PackagesAsGo
    <2>1. DOMAIN sources = 1..Len(sources) /\ placed = Len(sources)
      BY DEF SourcesInv, PlacedInv
    <2>2. \A k \in 1..Len(sources) :
            /\ IsPlaced(sources, sources[k])
            /\ sources[k].module = ModuleOf(sources[k].dir)
            /\ IsExternalIn(sources, sources[k]) = GoExternalTest(sources[k])
      BY <2>1, KindsAsGo DEF PlacedInv, SourcesInv
    <2>3. QED
      BY <2>1, <2>2 DEF IsPlaced
  <1>2. DisplayInv => SourcesInv
    BY DEF DisplayInv
  <1>3. QED
    BY <1>1, <1>2, InitWalk, NextWalk, DisplayInvariant, PTL DEF Spec

=============================================================================
