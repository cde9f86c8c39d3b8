------------------------- MODULE Resolution_proofs -------------------------
(***************************************************************************)
(* Proofs about Resolution, for every workspace: what the search for a      *)
(* method loads and finds, which symbol a root is taken for, that the calls *)
(* of a symbol of the standard library are judged alike, and, for programs  *)
(* that a compiler accepts, that the edges are the calls of the target and  *)
(* that none is missing.  The second half relates each loop of the code,    *)
(* which follows aliases and fields as far as files are loaded, to the type *)
(* that Go gives the receiver.                                             *)
(***************************************************************************)
EXTENDS Resolution, Indices, SequenceTheorems, TLAPS

-----------------------------------------------------------------------------
(* The search for a method. *)

LEMMA ReceiverTypes ==
    ASSUME NEW n \in Name
    PROVE  receiverID(n) \in Name
  <1>1. CASE HasPrefix(n, {"*"})
    <2>1. n # <<>>
      BY <1>1 DEF HasPrefix, NoName
    <2>2. Tail(n) \in Seq(STRING)
      BY <2>1, HeadTailProperties DEF Name
    <2>3. QED
      BY <1>1, <2>2 DEF receiverID, Name
  <1>2. CASE ~HasPrefix(n, {"*"})
    BY <1>2 DEF receiverID
  <1>3. QED
    BY <1>1, <1>2

LEMMA DeclaredTypes ==
    ASSUME NEW t \in DOMAIN Types
    PROVE  /\ Types[t].file \in Files /\ Types[t].underlying \in Name /\ Types[t].alias \in BOOLEAN
           /\ t \in Qualified /\ t \in STRING
  BY TypesAssumption, ResolutionAssumption DEF Declaration

LEMMA FileForFiles ==
    ASSUME NEW n
    PROVE  FileFor(n) \subseteq Files
  BY DeclaredTypes DEF FileFor, IsKnown, TypeOf

\* A known name is that of one declared type.
LEMMA KnownNames ==
    ASSUME NEW n \in Name, NEW known, IsKnown(n, known)
    PROVE  n[1] \in DOMAIN Types /\ n = <<n[1]>>
  BY DEF IsKnown, Name

SearchSize(s) == Cardinality({t \in DOMAIN Types : <<t>> \notin s.seen})

LEMMA FollowingIsSmaller ==
    ASSUME NEW s \in Search, NEW name, Follows(s, name)
    PROVE  /\ Following(s) \in Search
           /\ SearchSize(Following(s)) < SearchSize(s)
  <1>1. s.type \in Name /\ s.known \subseteq Files /\ s.seen \subseteq Name
    BY DEF Search
  <1>2. s.type \notin s.seen /\ IsKnown(s.type, Loaded(s))
    BY DEF Follows, IsLoaded
  <1>3. s.type[1] \in DOMAIN Types /\ s.type = <<s.type[1]>>
    BY <1>1, <1>2, KnownNames
  <1>4. Following(s) \in Search
    <2>1. WrittenAs(s) \in Name
      BY <1>3, DeclaredTypes, ReceiverTypes DEF WrittenAs, TypeOf
    <2>2. Loaded(s) \subseteq Files
      BY <1>1, FileForFiles DEF Loaded
    <2>3. QED
      BY <1>1, <2>1, <2>2 DEF Following, Search
  <1> DEFINE left == {t \in DOMAIN Types : <<t>> \notin s.seen}
             rest == {t \in DOMAIN Types : <<t>> \notin Following(s).seen}
  <1>5. IsFiniteSet(left)
    BY ResolutionAssumption, FS_Subset
  <1>6. s.type[1] \in left /\ rest = left \ {s.type[1]}
    <2>1. s.type[1] \in left
      BY <1>2, <1>3
    <2>2. \A t \in DOMAIN Types : <<t>> = s.type <=> t = s.type[1]
      BY <1>3
    <2>3. Following(s).seen = s.seen \cup {s.type}
      BY DEF Following
    <2>4. QED
      BY <2>1, <2>2, <2>3
  <1> HIDE DEF left, rest
  <1>7. Cardinality(rest) = Cardinality(left) - 1 /\ Cardinality(left) \in Nat
    BY <1>5, <1>6, FS_RemoveElement, FS_CardinalityType
  <1>8. QED
    BY <1>4, <1>7 DEF SearchSize, left, rest

LEMMA SearchSizes ==
    ASSUME NEW s \in Search
    PROVE  SearchSize(s) \in Nat
  BY ResolutionAssumption, FS_Subset, FS_CardinalityType DEF SearchSize

\* The search is a loop that ends: its result is that of its first turn, or of the
\* next one.
LEMMA MethodLoop ==
    ASSUME NEW name
    PROVE  \E f :
            /\ f = [s \in Search |-> IF Follows(s, name) THEN f[Following(s)] ELSE MethodAt(s, name)]
            /\ \A n, known : method(n, name, known) = f[[type |-> n, known |-> known, seen |-> {}]]
  <1> DEFINE Go == {s \in Search : Follows(s, name)}
             next == [s \in Search |-> IF Follows(s, name) THEN Following(s) ELSE s]
             result == [s \in Search |-> MethodAt(s, name)]
             size == [s \in Search |-> SearchSize(s)]
  <1>3. Ends(Search, Go, next, size)
    BY FollowingIsSmaller, SearchSizes DEF Ends
  <1>4. \E f : IsLoop(f, Search, Go, next, result)
    <2> HIDE DEF Go, next, result, size
    <2>1. QED
      BY <1>3, LoopsEnd
  <1>5. \E f : f = [s \in Search |-> IF Follows(s, name) THEN f[Following(s)] ELSE MethodAt(s, name)]
    <2>1. PICK f : f = [s \in Search |-> IF s \in Go THEN f[next[s]] ELSE result[s]]
      BY <1>4 DEF IsLoop
    <2>2. \A s \in Search : (IF s \in Go THEN f[next[s]] ELSE result[s])
                = (IF Follows(s, name) THEN f[Following(s)] ELSE MethodAt(s, name))
      OBVIOUS
    <2>3. f = [s \in Search |-> IF Follows(s, name) THEN f[Following(s)] ELSE MethodAt(s, name)]
      BY <2>1, <2>2
    <2>4. QED
      BY <2>3
  <1> DEFINE search == CHOOSE search : search =
                [s \in Search |-> IF Follows(s, name) THEN search[Following(s)] ELSE MethodAt(s, name)]
  <1>6. search = [s \in Search |-> IF Follows(s, name) THEN search[Following(s)] ELSE MethodAt(s, name)]
    BY <1>5
  <1>7. \A n, known : method(n, name, known) = search[[type |-> n, known |-> known, seen |-> {}]]
    BY DEF method
  <1> HIDE DEF search
  <1>8. QED
    BY <1>6, <1>7

\* What the search loads can be read, and an error finds nothing.
LEMMA MethodLoads ==
    ASSUME NEW n \in Name, NEW name, NEW known \in SUBSET Files
    PROVE  LET r == method(n, name, known)
           IN  /\ ~r.failed => r.known \subseteq known \cup (Files \ unreadable)
               /\ r.failed => r.symbol = NoSymbol
  <1> DEFINE Go == {s \in Search : Follows(s, name)}
             next == [s \in Search |-> IF Follows(s, name) THEN Following(s) ELSE s]
             size == [s \in Search |-> SearchSize(s)]
             Fine(r, k) == /\ ~r.failed => r.known \subseteq k \cup (Files \ unreadable)
                           /\ r.failed => r.symbol = NoSymbol
  <1>1. PICK f :
            /\ f = [s \in Search |-> IF Follows(s, name) THEN f[Following(s)] ELSE MethodAt(s, name)]
            /\ \A m, k : method(m, name, k) = f[[type |-> m, known |-> k, seen |-> {}]]
    BY MethodLoop
  <1> DEFINE T == {s \in Search : Fine(f[s], s.known)}
  <1>2. Ends(Search, Go, next, size)
    BY FollowingIsSmaller, SearchSizes DEF Ends
  <1>3. ASSUME NEW s \in Search PROVE Loaded(s) \subseteq s.known \cup Files
    BY FileForFiles DEF Loaded
  <1>4. ASSUME NEW s \in Search, s \notin Go PROVE s \in T
    <2>1. f[s] = MethodAt(s, name)
      BY <1>1, <1>4
    <2>2. CASE s.type \in s.seen \/ ~Named(s.type)
      <3>1. MethodAt(s, name) = [failed |-> FALSE, symbol |-> NoSymbol, known |-> s.known]
        BY <2>2 DEF MethodAt
      <3>2. QED
        BY <2>1, <3>1
    <2>3. CASE ~(s.type \in s.seen \/ ~Named(s.type)) /\ ~Readable(FileFor(s.type))
      <3>1. MethodAt(s, name) = Failed
        BY <2>3 DEF MethodAt
      <3>2. QED
        BY <2>1, <3>1 DEF Failed
    <2>4. CASE ~(s.type \in s.seen \/ ~Named(s.type)) /\ Readable(FileFor(s.type))
      <3>1. MethodAt(s, name).failed = FALSE /\ MethodAt(s, name).known = Loaded(s)
        BY <2>4 DEF MethodAt
      <3>2. Loaded(s) \subseteq s.known \cup (Files \ unreadable)
        BY <2>4, FileForFiles DEF Loaded, Readable
      <3>3. QED
        BY <2>1, <3>1, <3>2
    <2>5. QED
      BY <2>2, <2>3, <2>4
  <1>5. ASSUME NEW s \in Search, s \in Go, next[s] \in T PROVE s \in T
    <2>1. f[s] = f[Following(s)] /\ Following(s) \in T
      BY <1>1, <1>5
    <2>2. Readable(FileFor(s.type)) /\ Following(s).known = s.known \cup FileFor(s.type)
      BY <1>5 DEF Follows, IsLoaded, Following, Loaded
    <2>3. Following(s).known \subseteq s.known \cup (Files \ unreadable)
      BY <2>2, FileForFiles DEF Readable
    <2>4. QED
      BY <2>1, <2>3
  <1>6. \A s \in Search : s \in T
    <2>1. HoldsBackwards(Search, Go, next, T)
      BY <1>4, <1>5 DEF HoldsBackwards
    <2> HIDE DEF Go, next, size, T
    <2>2. QED
      BY <1>2, <2>1, LoopInduction
  <1>7. [type |-> n, known |-> known, seen |-> {}] \in T
    BY <1>6 DEF Search
  <1>8. QED
    BY <1>1, <1>7

LEMMA TypeNamesAreNamed ==
    ASSUME NEW t \in DOMAIN Types
    PROVE  /\ <<t>> \in Name /\ receiverID(<<t>>) = <<t>> /\ Named(<<t>>)
           /\ FileFor(<<t>>) = {Types[t].file}
           /\ \A known : IsKnown(<<t>>, known) <=> Types[t].file \in known
  <1>1. t \in STRING /\ t # "*" /\ t \in Qualified /\ Types[t].file \in Files
    BY DeclaredTypes, ResolutionAssumption
  <1>2. ~HasPrefix(<<t>>, {"*"})
    BY <1>1 DEF HasPrefix
  <1>3. receiverID(<<t>>) = <<t>> /\ <<t>> \in Name
    BY <1>1, <1>2 DEF receiverID, Name
  <1>4. Named(<<t>>)
    BY <1>1, <1>3 DEF Named, NoName
  <1>5. \A known : IsKnown(<<t>>, known) <=> Types[t].file \in known
    BY DEF IsKnown
  <1>6. QED
    BY <1>1, <1>3, <1>4, <1>5 DEF FileFor, TypeOf

\* The first turn of the search decides for a type that is no alias.
LEMMA MethodOfType ==
    ASSUME NEW t \in DOMAIN Types, NEW name, NEW known \in SUBSET Files
    PROVE  LET r == method(<<t>>, name, known)
           IN  /\ ~Readable({Types[t].file}) => r.failed
               /\ Readable({Types[t].file}) /\ Requires(<<t>>, name) => r.symbol = <<t, name>>
               /\ ~Types[t].alias /\ r.symbol # NoSymbol => Requires(<<t>>, name)
  <1> DEFINE s == [type |-> <<t>>, known |-> known, seen |-> {}]
             r == method(<<t>>, name, known)
  <1>1. s \in Search /\ s.type = <<t>> /\ s.seen = {}
    BY TypeNamesAreNamed DEF Search
  <1>2. /\ Named(s.type) /\ FileFor(s.type) = {Types[t].file}
        /\ IsKnown(s.type, Loaded(s))
    BY TypeNamesAreNamed DEF Loaded
  <1>3. r = IF Follows(s, name) THEN method(<<t>>, name, known) ELSE MethodAt(s, name)
    BY <1>1, MethodLoop
  <1>4. TypeOf(s.type) = Types[t]
    BY <1>1 DEF TypeOf
  <1> HIDE DEF s
  <1>5. ASSUME ~Readable({Types[t].file}) PROVE r.failed
    <2>1. ~Follows(s, name)
      BY <1>2, <1>5 DEF Follows, IsLoaded
    <2>2. MethodAt(s, name) = Failed
      BY <1>1, <1>2, <1>5 DEF MethodAt
    <2>3. QED
      BY <1>3, <2>1, <2>2 DEF Failed
  <1>6. ASSUME Readable({Types[t].file}), Requires(<<t>>, name) PROVE r.symbol = <<t, name>>
    <2>1. ~Follows(s, name)
      BY <1>1, <1>6 DEF Follows
    <2>2. IsLoaded(s)
      BY <1>1, <1>2, <1>6 DEF IsLoaded
    <2>3. MethodAt(s, name).symbol = <<t, name>>
      BY <1>1, <1>2, <1>6, <2>2 DEF MethodAt
    <2>4. QED
      BY <1>3, <2>1, <2>3
  <1>7. ASSUME ~Types[t].alias, r.symbol # NoSymbol PROVE Requires(<<t>>, name)
    <2>1. ~Follows(s, name) /\ ~Inherits(s, name)
      BY <1>4, <1>7 DEF Follows, Inherits
    <2>2. MethodAt(s, name).symbol # NoSymbol
      BY <1>3, <1>7, <2>1
    <2>3. SUFFICES ASSUME ~Requires(<<t>>, name) PROVE MethodAt(s, name).symbol = NoSymbol
      BY <2>2
    <2>4. ~Requires(s.type, name)
      BY <1>1, <2>3
    <2>5. QED
      BY <2>1, <2>4 DEF MethodAt, Failed
  <1>8. QED
    BY <1>5, <1>6, <1>7

-----------------------------------------------------------------------------
(* The inductive invariant. *)

\* The symbols that a call can name.
Callee == {s \in Symbol : s[1] \in Qualified \/ \E c \in CallSites : c.package = s[1]}

SearchInv ==
    /\ root \in Roots
    /\ stage = "root" => target = NoSymbol
    /\ target = NoSymbol => stage \in {"root", "failed"} /\ edges = {}
    /\ stage = "candidates" => edges = {}
    /\ stage \in {"fields", "packages"} =>
        /\ call \in CallSites
        /\ call.receiver = NoName => receiver = NoName

\* An edge to the standard library comes from the declaration that is cached, and one
\* without a declaration from a symbol that no package has.
ExternalInv ==
    \A e \in edges :
        /\ e.kind = "standard-library" => \E s \in Callee :
            /\ IsTarget(s) /\ OwnerOf(s) \in Standard
            /\ s \in DOMAIN externalCache /\ externalCache[s]
        /\ e.kind = "definition-unavailable" => \E s \in Callee :
            /\ IsTarget(s) /\ \A p \in Packages : ~matchesPackage(p, OwnerOf(s))
            /\ OwnerOf(s) \in Standard => s \in DOMAIN externalCache /\ ~externalCache[s]

IInv == TypeOK /\ SearchInv /\ RootIsUnique /\ ExternalInv

-----------------------------------------------------------------------------
(* Files. *)

LEMMA MethodTypes ==
    ASSUME NEW m \in Methods
    PROVE  m.of \in DOMAIN Types /\ m.name \in STRING /\ m.file \in Files
  BY TypesAssumption DEF Method

LEMMA DeclaredSymbols ==
    ASSUME NEW d \in Declared
    PROVE  /\ d.file \in Files /\ d.symbol \in Symbol /\ d.symbol \in Exported
           /\ d.package = OwnerOf(d.symbol) /\ \E p \in Packages : p.id = d.package
  <1>1. CASE \E f \in Functions : d = [symbol |-> <<f.owner, f.name>>, package |-> f.owner, file |-> f.file]
    <2>1. PICK f \in Functions : d = [symbol |-> <<f.owner, f.name>>, package |-> f.owner, file |-> f.file]
      BY <1>1
    <2>2. PICK p \in Packages : p.id = f.owner
      BY ResolutionAssumption
    <2>3. f.file \in Files /\ f.name \in STRING /\ p.id \in STRING /\ p.id \notin Qualified
      BY ResolutionAssumption DEF Package
    <2>4. QED
      BY <2>1, <2>2, <2>3 DEF Exported, OwnerOf, Symbol
  <1>2. CASE \E m \in Methods : d = [symbol |-> <<m.of, m.name>>, package |-> Owner[m.of], file |-> m.file]
    <2>1. PICK m \in Methods : d = [symbol |-> <<m.of, m.name>>, package |-> Owner[m.of], file |-> m.file]
      BY <1>2
    <2>2. m.of \in DOMAIN Types /\ m.name \in STRING /\ m.file \in Files
      BY MethodTypes
    <2>3. m.of \in Qualified /\ m.of \in STRING /\ \E p \in Packages : p.id = Owner[m.of]
      BY <2>2, DeclaredTypes, ResolutionAssumption
    <2>4. QED
      BY <2>1, <2>2, <2>3 DEF Exported, OwnerOf, Symbol
  <1>3. QED
    BY <1>1, <1>2 DEF Declared

LEMMA NamedFiles ==
    /\ \A ref, name : FilesNaming(ref, name) \subseteq Files
    /\ RootFiles \subseteq Files
    /\ Mentioning \subseteq Files
  <1>1. \A ref, name : FilesNaming(ref, name) \subseteq Files
    BY DeclaredSymbols DEF FilesNaming
  <1>2. RootFiles \subseteq Files
    BY <1>1 DEF RootFiles
  <1>3. Mentioning \subseteq Files
    BY DeclaredSymbols, MethodTypes DEF Mentioning
  <1>4. QED
    BY <1>1, <1>2, <1>3

LEMMA ScopedSymbols ==
    ASSUME root \in Roots, NEW s \in Scoped
    PROVE  /\ s \in Symbol /\ s[2] = root[2] /\ Public[s[1]] = root[1] /\ IsIdentity(OwnerOf(s))
           /\ s[1] \in Qualified => s[1] \in DOMAIN Types
  <1>1. root[2] \in STRING
    BY ResolutionAssumption DEF Symbol
  <1>2. CASE \E p \in Packages : p.path = root[1] /\ s = <<p.id, root[2]>>
    <2>1. PICK p \in Packages : p.path = root[1] /\ s = <<p.id, root[2]>>
      BY <1>2
    <2>2. p.id \in STRING /\ p.id \notin Qualified /\ Public[p.id] = p.path
      BY ResolutionAssumption DEF Package
    <2>3. QED
      BY <1>1, <2>1, <2>2 DEF Symbol, OwnerOf, IsIdentity
  <1>3. CASE \E t \in DOMAIN Types : Public[t] = root[1] /\ s = <<t, root[2]>>
    <2>1. PICK t \in DOMAIN Types : Public[t] = root[1] /\ s = <<t, root[2]>>
      BY <1>3
    <2>2. t \in Qualified /\ t \in STRING /\ \E p \in Packages : p.id = Owner[t]
      BY DeclaredTypes, ResolutionAssumption
    <2>3. QED
      BY <1>1, <2>1, <2>2 DEF Symbol, OwnerOf, IsIdentity
  <1>4. QED
    BY <1>2, <1>3 DEF Scoped

\* What the searches for the root load can be read.
LEMMA SearchedFiles ==
    ASSUME root \in Roots, loaded \subseteq Files, NEW m \in Searched, ~m.failed
    PROVE  m.known \subseteq loaded \cup RootFiles \cup (Files \ unreadable)
  <1>1. PICK s \in Scoped : m = MethodOf(s)
    BY DEF Searched
  <1>2. CASE s[1] \in Qualified
    <2>1. s[1] \in DOMAIN Types /\ loaded \cup RootFiles \in SUBSET Files
      BY <1>1, <1>2, ScopedSymbols, NamedFiles
    <2>2. <<s[1]>> \in Name
      BY <2>1, TypeNamesAreNamed
    <2>3. m = method(<<s[1]>>, s[2], loaded \cup RootFiles)
      BY <1>1, <1>2 DEF MethodOf
    <2>4. QED
      BY <2>1, <2>2, <2>3, MethodLoads
  <1>3. CASE s[1] \notin Qualified
    <2>1. m.known = loaded
      BY <1>1, <1>3 DEF MethodOf, Failed
    <2>2. QED
      BY <2>1
  <1>4. QED
    BY <1>2, <1>3

LEMMA RootLoads ==
    ASSUME root \in Roots, loaded \subseteq Files, unreadable \cap loaded = {},
           Readable(RootFiles), \A m \in Searched : ~m.failed
    PROVE  LET now == loaded \cup RootFiles \cup UNION {m.known : m \in Searched}
           IN  now \subseteq Files /\ unreadable \cap now = {}
  <1>1. ASSUME NEW m \in Searched PROVE m.known \subseteq loaded \cup RootFiles \cup (Files \ unreadable)
    BY SearchedFiles
  <1>2. RootFiles \subseteq Files /\ RootFiles \cap unreadable = {}
    BY NamedFiles DEF Readable
  <1>3. \A m \in Searched : m.known \subseteq Files /\ m.known \cap unreadable = {}
    BY <1>1, <1>2
  <1>4. QED
    BY <1>2, <1>3

-----------------------------------------------------------------------------
(* The root. *)

Meant == {s \in Exported : <<Public[s[1]], s[2]>> = root /\ IsIdentity(OwnerOf(s))}

\* What the root may mean is a candidate, and a candidate that is not meant is the name
\* of an alias.
LEMMA Candidates ==
    ASSUME root \in Roots, loaded \subseteq Files,
           Readable(RootFiles), \A m \in Searched : ~m.failed
    PROVE  /\ \A s \in Meant : s \in Scoped /\ Exists(s)
           /\ \A s \in Scoped : Exists(s) => s \in Meant \/ IsAlias(s[1])
  <1>1. root \in Symbol /\ root = <<root[1], root[2]>>
    BY ResolutionAssumption DEF Symbol
  <1>2. loaded \cup RootFiles \in SUBSET Files
    BY NamedFiles
  <1>3. ASSUME NEW s \in Meant PROVE s \in Scoped /\ Exists(s)
    <2>1. s \in Exported /\ Public[s[1]] = root[1] /\ s[2] = root[2] /\ IsIdentity(OwnerOf(s))
      BY <1>1 DEF Meant
    <2>2. CASE \E d \in Declared : s = d.symbol
      <3>1. PICK d \in Declared : s = d.symbol
        BY <2>2
      <3>2. /\ d.file \in Files /\ s \in Symbol /\ d.package = OwnerOf(s)
            /\ \E p \in Packages : p.id = d.package
        BY <3>1, DeclaredSymbols
      <3>3. s \in Scoped
        <4>1. CASE \E f \in Functions : d = [symbol |-> <<f.owner, f.name>>, package |-> f.owner, file |-> f.file]
          <5>1. PICK p \in Packages : p.id = s[1]
            BY <3>1, <4>1, ResolutionAssumption
          <5>2. p.path = root[1] /\ s = <<p.id, root[2]>>
            BY <2>1, <3>2, <5>1, ResolutionAssumption DEF Symbol
          <5>3. QED
            BY <5>2 DEF Scoped
        <4>2. CASE \E m \in Methods : d = [symbol |-> <<m.of, m.name>>, package |-> Owner[m.of], file |-> m.file]
          <5>1. s[1] \in DOMAIN Types
            BY <3>1, <4>2, MethodTypes
          <5>2. Public[s[1]] = root[1] /\ s = <<s[1], root[2]>>
            BY <2>1, <3>2 DEF Symbol
          <5>3. QED
            BY <5>1, <5>2 DEF Scoped
        <4>3. QED
          BY <4>1, <4>2 DEF Declared
      <3>4. d.file \in FilesNaming(OwnerOf(s), root[2])
        <4>1. PICK p \in Packages : p.id = d.package
          BY <3>2
        <4>2. matchesPackage(p, OwnerOf(s))
          BY <2>1, <3>2, <4>1 DEF matchesPackage
        <4>3. d.symbol[2] = root[2]
          BY <2>1, <3>1
        <4>4. QED
          BY <4>1, <4>2, <4>3 DEF FilesNaming
      <3>5. d.file \in RootFiles
        BY <3>3, <3>4 DEF RootFiles
      <3>6. s \in functions(loaded \cup RootFiles)
        BY <3>1, <3>5 DEF functions
      <3>7. QED
        BY <3>3, <3>6 DEF Exists
    <2>3. CASE ~(\E d \in Declared : s = d.symbol) /\ \E m \in Methods : s = <<m.of, m.name>>
      <3>1. PICK m \in Methods : s = <<m.of, m.name>>
        BY <2>3
      <3>2. m.of \in DOMAIN Types /\ m.name \in STRING /\ m.of \in Qualified /\ m.of \in STRING
        BY MethodTypes, DeclaredTypes
      <3>3. s \in Scoped
        BY <2>1, <3>1, <3>2 DEF Scoped
      <3>4. IsInterfaceType(m.of)
        <4> SUFFICES ASSUME ~IsInterfaceType(m.of) PROVE FALSE
          OBVIOUS
        <4> DEFINE d == [symbol |-> <<m.of, m.name>>, package |-> Owner[m.of], file |-> m.file]
        <4>1. d \in Declared
          BY DEF Declared
        <4>2. d.symbol = s
          BY <3>1
        <4>3. QED
          BY <2>3, <4>1, <4>2
      <3>5. Requires(<<s[1]>>, s[2])
        BY <3>1, <3>4 DEF Requires
      <3>6. s \notin functions(loaded \cup RootFiles)
        BY <2>3 DEF functions
      <3>7. MethodOf(s) = method(<<s[1]>>, s[2], loaded \cup RootFiles) /\ MethodOf(s) \in Searched
        BY <3>1, <3>2, <3>3, <3>6 DEF MethodOf, Searched
      <3>8. MethodOf(s).symbol = <<s[1], s[2]>>
        <4> DEFINE r == method(<<s[1]>>, s[2], loaded \cup RootFiles)
        <4>1. s[1] \in DOMAIN Types
          BY <3>1, <3>2
        <4>2. /\ ~Readable({Types[s[1]].file}) => r.failed
              /\ Readable({Types[s[1]].file}) /\ Requires(<<s[1]>>, s[2]) => r.symbol = <<s[1], s[2]>>
          BY <1>2, <4>1, MethodOfType
        <4>3. ~r.failed
          BY <3>7
        <4>4. QED
          BY <3>5, <3>7, <4>2, <4>3
      <3>9. QED
        BY <3>3, <3>8 DEF Exists, NoSymbol
    <2>4. CASE s \in StandardFunctions
      <3>1. OwnerOf(s) \in Standard
        BY <2>4, ResolutionAssumption DEF OwnerOf
      <3>2. QED
        BY <2>1, <3>1, ResolutionAssumption DEF IsIdentity
    <2>5. QED
      BY <2>1, <2>2, <2>3, <2>4 DEF Exported
  <1>4. ASSUME NEW s \in Scoped, Exists(s), ~IsAlias(s[1]) PROVE s \in Meant
    <2>1. /\ s \in Symbol /\ s[2] = root[2] /\ Public[s[1]] = root[1] /\ IsIdentity(OwnerOf(s))
          /\ s[1] \in Qualified => s[1] \in DOMAIN Types
      BY ScopedSymbols
    <2>2. CASE s \in functions(loaded \cup RootFiles)
      <3>1. s \in Exported
        BY <2>2, DeclaredSymbols DEF functions
      <3>2. QED
        BY <1>1, <2>1, <3>1 DEF Meant
    <2>3. CASE MethodOf(s).symbol # NoSymbol
      <3>1. s[1] \in Qualified
        BY <2>3 DEF MethodOf, Failed
      <3>2. s[1] \in DOMAIN Types /\ ~Types[s[1]].alias
        BY <1>4, <2>1, <3>1 DEF IsAlias
      <3>3. MethodOf(s) = method(<<s[1]>>, s[2], loaded \cup RootFiles)
        BY <3>1 DEF MethodOf
      <3>4. Requires(<<s[1]>>, s[2])
        <4> DEFINE r == method(<<s[1]>>, s[2], loaded \cup RootFiles)
        <4>1. ~Types[s[1]].alias /\ r.symbol # NoSymbol => Requires(<<s[1]>>, s[2])
          BY <1>2, <3>2, MethodOfType
        <4>2. QED
          BY <2>3, <3>2, <3>3, <4>1
      <3>5. PICK m \in Methods : m.of = s[1] /\ m.name = s[2]
        BY <3>4 DEF Requires
      <3>6. s \in Exported
        BY <2>1, <3>5 DEF Exported, Symbol
      <3>7. QED
        BY <1>1, <2>1, <3>6 DEF Meant
    <2>4. QED
      BY <1>4, <2>2, <2>3 DEF Exists
  <1>5. QED
    BY <1>3, <1>4

LEMMA RootIsDecided ==
    ASSUME IInv, ChooseRoot
    PROVE  RootIsUnique'
  <1> DEFINE candidates == {s \in Scoped : Exists(s)}
  <1>1. root' = root /\ root \in Roots /\ loaded \subseteq Files /\ target = NoSymbol
    BY DEF ChooseRoot, given, IInv, SearchInv, TypeOK
  <1>2. /\ \A s \in Meant : s \in candidates
        /\ \A s \in candidates : s \in Meant \/ IsAlias(s[1])
    BY <1>1, Candidates DEF ChooseRoot
  <1>3. /\ target' = IF candidates = {} THEN root ELSE CHOOSE s \in candidates : TRUE
        /\ stage' = IF \E s, t \in candidates : s # t THEN "ambiguous" ELSE "candidates"
    BY DEF ChooseRoot
  <1>4. Meant' = Meant
    BY <1>1 DEF Meant
  <1>5. SUFFICES ASSUME \A s, t \in candidates : s = t
        PROVE  IF Meant = {} THEN target' = root \/ IsAlias(target'[1]) ELSE Meant = {target'}
    BY <1>1, <1>3, <1>4 DEF RootIsUnique, Meant
  <1> HIDE DEF candidates
  <1>6. CASE candidates = {}
    BY <1>2, <1>3, <1>6
  <1>7. CASE candidates # {}
    <2>1. target' \in candidates
      BY <1>3, <1>7
    <2>2. \A s \in candidates : s = target'
      BY <1>5, <2>1
    <2>3. QED
      BY <1>2, <2>1, <2>2
  <1>8. QED
    BY <1>6, <1>7

\* No other step changes what the root is taken for.
LEMMA RootStays ==
    ASSUME IInv, UNCHANGED <<root, target>>,
           stage' = "failed" \/ stage \notin {"root", "failed", "ambiguous"}
    PROVE  RootIsUnique'
  BY DEF IInv, RootIsUnique

-----------------------------------------------------------------------------
(* The edges. *)

LEMMA EdgesStay ==
    ASSUME IInv, UNCHANGED <<root, target, edges, externalCache>>
    PROVE  ExternalInv'
  <1>1. \A s : IsTarget(s)' <=> IsTarget(s)
    BY DEF IsTarget
  <1>2. QED
    BY <1>1 DEF IInv, ExternalInv

LEMMA SymbolsAreSome ==
    ASSUME NEW s \in Symbol
    PROVE  s # NoSymbol /\ s = <<s[1], s[2]>> /\ s[1] \in STRING /\ s[2] \in STRING
  BY DEF Symbol, NoSymbol

\* What a call that is resolved leaves to show: where its edge comes from.
LEMMA CallIsResolved ==
    ASSUME IInv, stage \in {"fields", "packages"},
           NEW id, NEW kind, Resolved(id, kind),
           loaded' \subseteq Files, unreadable \cap loaded' = {},
           \A s \in DOMAIN externalCache' : externalCache'[s] \in BOOLEAN
    PROVE  /\ TypeOK' /\ SearchInv' /\ RootIsUnique'
           /\ kind \notin {"standard-library", "definition-unavailable"} /\ externalCache' = externalCache
                => ExternalInv'
  <1>1. /\ UNCHANGED <<root, unreadable, installed, target, todo, call, receiver, fields, seen>>
        /\ stage' = "calls"
        /\ \A e \in edges' : e \in edges \/ e = [call |-> call, kind |-> kind]
    BY DEF Resolved, given
  <1>2. call \in CallSites /\ target # NoSymbol
    BY DEF IInv, SearchInv
  <1>3. TypeOK'
    BY <1>1, <1>2 DEF IInv, TypeOK
  <1>4. SearchInv'
    BY <1>1, <1>2 DEF IInv, SearchInv
  <1>5. RootIsUnique'
    BY <1>1, RootStays
  <1>6. ASSUME kind \notin {"standard-library", "definition-unavailable"}, externalCache' = externalCache
        PROVE  ExternalInv'
    <2>1. \A s : IsTarget(s)' <=> IsTarget(s)
      BY <1>1 DEF IsTarget
    <2>2. QED
      BY <1>1, <1>6, <2>1 DEF IInv, ExternalInv
  <1>7. QED
    BY <1>3, <1>4, <1>5, <1>6

LEMMA FunctionFilesLoad ==
    ASSUME IInv, Readable(FilesNaming(Ref(receiver), call.name))
    PROVE  LET now == loaded \cup FilesNaming(Ref(receiver), call.name)
           IN  now \subseteq Files /\ unreadable \cap now = {}
  BY NamedFiles DEF IInv, TypeOK, Readable

LEMMA SearchLoads ==
    ASSUME IInv, Readable(FilesNaming(Ref(receiver), call.name))
    PROVE  /\ ~SearchMethod.failed => SearchMethod.known \subseteq Files /\ unreadable \cap SearchMethod.known = {}
           /\ SearchMethod.failed => SearchMethod.symbol = NoSymbol
  <1> DEFINE known == loaded \cup FilesNaming(Ref(receiver), call.name)
  <1>1. known \in SUBSET Files /\ unreadable \cap known = {}
    BY FunctionFilesLoad
  <1>2. receiverID(receiver) \in Name
    BY ReceiverTypes DEF IInv, TypeOK
  <1>3. SearchMethod = method(receiverID(receiver), call.name, known)
    BY DEF SearchMethod
  <1> HIDE DEF known
  <1>4. /\ ~SearchMethod.failed => SearchMethod.known \subseteq known \cup (Files \ unreadable)
        /\ SearchMethod.failed => SearchMethod.symbol = NoSymbol
    BY <1>1, <1>2, <1>3, MethodLoads
  <1>5. QED
    BY <1>1, <1>4

\* The symbol looked for last is that of a call, and its package that of the symbol.
LEMMA LastSymbols ==
    ASSUME IInv, stage = "packages", LastId # NoSymbol
    PROVE  LastId \in Callee /\ LastRef = OwnerOf(LastId)
  <1>1. call \in CallSites /\ (call.receiver = NoName => receiver = NoName)
    BY DEF IInv, SearchInv
  <1>2. call.package \in STRING /\ call.name \in STRING /\ call.package \notin Qualified
    BY <1>1, ResolutionAssumption DEF CallSite
  <1>3. CASE ~HasReceiver
    <2>1. LastReceiver = NoName
      BY <1>1, <1>3 DEF LastReceiver, HasReceiver
    <2>2. LastRef = call.package /\ LastId = <<call.package, call.name>>
      BY <1>3, <2>1 DEF LastRef, LastId, Ref, Id, Named
    <2>3. QED
      BY <1>1, <1>2, <2>2 DEF Callee, Symbol, OwnerOf
  <1>4. CASE HasReceiver
    <2> DEFINE r == LastReceiver
    <2>1. Named(r) /\ LastId = <<Word(r), call.name>> /\ LastRef = Owner[Word(r)]
      BY <1>4 DEF LastRef, LastId, Ref, Id
    <2>2. Word(r) \in Qualified
      BY <2>1 DEF Named, Word
    <2>3. Word(r) \in STRING
      BY <2>2, ResolutionAssumption
    <2> HIDE DEF r
    <2>4. QED
      BY <1>2, <2>1, <2>2, <2>3 DEF Callee, Symbol, OwnerOf
  <1>5. QED
    BY <1>3, <1>4

LEMMA NoTarget ==
    ASSUME IInv, target # NoSymbol
    PROVE  ~IsTarget(NoSymbol)
  BY DEF IsTarget

\* What is remembered of the standard library stays.
LEMMA ExternalIsRemembered ==
    ASSUME NEW s, NEW found \in BOOLEAN, RememberExternal(s, found),
           \A t \in DOMAIN externalCache : externalCache[t] \in BOOLEAN,
           s \in DOMAIN externalCache => externalCache[s] = found
    PROVE  /\ \A t \in DOMAIN externalCache : t \in DOMAIN externalCache' /\ externalCache'[t] = externalCache[t]
           /\ s \in DOMAIN externalCache' /\ externalCache'[s] = found
           /\ \A t \in DOMAIN externalCache' : externalCache'[t] \in BOOLEAN
  BY DEF RememberExternal

LEMMA ExternalIsDecided ==
    ASSUME IInv, DecideExternal
    PROVE  IInv'
  <1> DEFINE found == IF LastId \in DOMAIN externalCache THEN externalCache[LastId]
                      ELSE installed /\ LastId \in StandardFunctions
             kind == IF LastRef \in Standard /\ found THEN "standard-library" ELSE "definition-unavailable"
  <1>1. /\ stage = "packages" /\ loaded' = loaded
        /\ \A p \in Packages : ~matchesPackage(p, LastRef)
    BY DEF DecideExternal
  <1>2. /\ loaded \subseteq Files /\ unreadable \cap loaded = {}
        /\ \A s \in DOMAIN externalCache : externalCache[s] \in BOOLEAN
        /\ target # NoSymbol
    BY <1>1 DEF IInv, TypeOK, SearchInv
  <1>3. found \in BOOLEAN
    BY <1>2
  <1>4. /\ Resolved(LastId, kind)
        /\ IF LastRef \in Standard THEN RememberExternal(LastId, found) ELSE externalCache' = externalCache
    BY DEF DecideExternal
  <1>5. /\ \A t \in DOMAIN externalCache : t \in DOMAIN externalCache' /\ externalCache'[t] = externalCache[t]
        /\ LastRef \in Standard => LastId \in DOMAIN externalCache' /\ externalCache'[LastId] = found
        /\ \A t \in DOMAIN externalCache' : externalCache'[t] \in BOOLEAN
    <2>1. CASE LastRef \in Standard
      <3>1. RememberExternal(LastId, found) /\ (LastId \in DOMAIN externalCache => externalCache[LastId] = found)
        BY <1>4, <2>1
      <3> HIDE DEF found
      <3>2. QED
        BY <1>2, <1>3, <3>1, ExternalIsRemembered
    <2>2. CASE LastRef \notin Standard
      BY <1>2, <1>4, <2>2
    <2>3. QED
      BY <2>1, <2>2
  <1>6. kind = IF LastRef \in Standard /\ found THEN "standard-library" ELSE "definition-unavailable"
    OBVIOUS
  <1> HIDE DEF found, kind
  <1>7. TypeOK' /\ SearchInv' /\ RootIsUnique'
    BY <1>1, <1>2, <1>4, <1>5, CallIsResolved
  <1>8. ExternalInv'
    <2>1. \A s : IsTarget(s)' <=> IsTarget(s)
      BY <1>4 DEF IsTarget, Resolved, given
    <2>2. SUFFICES ASSUME NEW e \in edges'
                   PROVE  /\ e.kind = "standard-library" => \E s \in Callee :
                            /\ IsTarget(s)' /\ OwnerOf(s) \in Standard
                            /\ s \in DOMAIN externalCache' /\ externalCache'[s]
                          /\ e.kind = "definition-unavailable" => \E s \in Callee :
                            /\ IsTarget(s)' /\ \A p \in Packages : ~matchesPackage(p, OwnerOf(s))
                            /\ OwnerOf(s) \in Standard => s \in DOMAIN externalCache' /\ ~externalCache'[s]
      BY DEF ExternalInv
    <2>3. CASE e \in edges
      <3>1. /\ e.kind = "standard-library" => \E s \in Callee :
                /\ IsTarget(s) /\ OwnerOf(s) \in Standard
                /\ s \in DOMAIN externalCache /\ externalCache[s]
            /\ e.kind = "definition-unavailable" => \E s \in Callee :
                /\ IsTarget(s) /\ \A p \in Packages : ~matchesPackage(p, OwnerOf(s))
                /\ OwnerOf(s) \in Standard => s \in DOMAIN externalCache /\ ~externalCache[s]
        BY <2>3 DEF IInv, ExternalInv
      <3>2. QED
        BY <1>5, <2>1, <3>1
    <2>4. CASE e \notin edges
      <3>1. IsTarget(LastId) /\ e = [call |-> call, kind |-> kind]
        BY <1>4, <2>4 DEF Resolved
      <3>2. LastId \in Callee /\ LastRef = OwnerOf(LastId)
        BY <1>1, <1>2, <3>1, NoTarget, LastSymbols
      <3>3. e.kind = kind
        BY <3>1
      <3>4. CASE LastRef \in Standard /\ found
        <4>1. kind = "standard-library" /\ externalCache'[LastId] /\ LastId \in DOMAIN externalCache'
          BY <1>5, <1>6, <3>4
        <4>2. QED
          BY <2>1, <3>1, <3>2, <3>3, <3>4, <4>1
      <3>5. CASE ~(LastRef \in Standard /\ found)
        <4>1. kind = "definition-unavailable"
          BY <1>6, <3>5
        <4>2. LastRef \in Standard => LastId \in DOMAIN externalCache' /\ ~externalCache'[LastId]
          BY <1>5, <3>5
        <4>3. QED
          BY <1>1, <2>1, <3>1, <3>2, <3>3, <4>1, <4>2
      <3>6. QED
        BY <3>4, <3>5
    <2>5. QED
      BY <2>3, <2>4
  <1>9. QED
    BY <1>7, <1>8 DEF IInv

-----------------------------------------------------------------------------
(* The steps. *)

LEMMA Initially ==
    ASSUME Init
    PROVE  IInv
  <1>1. TypeOK
    BY DEF Init, TypeOK, NoName, Name
  <1>2. SearchInv /\ RootIsUnique /\ ExternalInv
    BY DEF Init, SearchInv, RootIsUnique, ExternalInv
  <1>3. QED
    BY <1>1, <1>2 DEF IInv

LEMMA RootIsChosen ==
    ASSUME IInv, ChooseRoot
    PROVE  IInv'
  <1> DEFINE candidates == {s \in Scoped : Exists(s)}
  <1>1. /\ stage = "root" /\ target = NoSymbol /\ edges = {} /\ root \in Roots
        /\ loaded \subseteq Files /\ unreadable \cap loaded = {}
        /\ Readable(RootFiles) /\ \A m \in Searched : ~m.failed
    BY DEF ChooseRoot, IInv, TypeOK, SearchInv
  <1>2. /\ UNCHANGED <<root, unreadable, installed, externalCache, todo, call, receiver, fields, seen, edges>>
        /\ loaded' = loaded \cup RootFiles \cup UNION {m.known : m \in Searched}
        /\ stage' \in {"ambiguous", "candidates"}
        /\ target' = IF candidates = {} THEN root ELSE CHOOSE s \in candidates : TRUE
    BY DEF ChooseRoot, given
  <1>3. target' \in Symbol
    <2>1. target' = root \/ target' \in Scoped
      BY <1>2
    <2>2. QED
      BY <1>1, <2>1, ScopedSymbols, ResolutionAssumption
  <1>4. loaded' \subseteq Files /\ unreadable \cap loaded' = {}
    BY <1>1, <1>2, RootLoads
  <1> HIDE DEF candidates
  <1>5. TypeOK'
    BY <1>2, <1>3, <1>4 DEF IInv, TypeOK
  <1>6. SearchInv'
    BY <1>1, <1>2, <1>3, SymbolsAreSome DEF SearchInv
  <1>7. RootIsUnique'
    BY RootIsDecided
  <1>8. ExternalInv'
    BY <1>1, <1>2 DEF ExternalInv
  <1>9. QED
    BY <1>5, <1>6, <1>7, <1>8 DEF IInv

\* A step that only fails.
LEMMA Fails ==
    ASSUME IInv, stage' = "failed",
           UNCHANGED <<given, target, loaded, externalCache, todo, call, receiver, fields, seen, edges>>
    PROVE  IInv'
  <1>1. TypeOK'
    BY DEF IInv, TypeOK, given
  <1>2. SearchInv'
    BY DEF IInv, SearchInv, given
  <1>3. RootIsUnique' /\ ExternalInv'
    BY RootStays, EdgesStay DEF given
  <1>4. QED
    BY <1>1, <1>2, <1>3 DEF IInv

LEMMA CandidatesAreLoaded ==
    ASSUME IInv, LoadCandidates
    PROVE  IInv'
  <1>1. /\ stage = "candidates" /\ edges = {} /\ target # NoSymbol
        /\ UNCHANGED <<root, unreadable, installed, target, externalCache, call, receiver, fields, seen, edges>>
    BY DEF LoadCandidates, IInv, SearchInv, given
  <1>2. CASE Readable(Mentioning)
    <2>1. /\ loaded' = loaded \cup Mentioning /\ stage' = "calls"
          /\ todo' = {c \in CallSites : c.name = target[2]}
      BY <1>2 DEF LoadCandidates
    <2>2. loaded' \subseteq Files /\ unreadable \cap loaded' = {}
      BY <1>2, <2>1, NamedFiles DEF Readable, IInv, TypeOK
    <2>3. TypeOK'
      BY <1>1, <2>1, <2>2 DEF IInv, TypeOK
    <2>4. SearchInv'
      BY <1>1, <2>1 DEF IInv, SearchInv
    <2>5. RootIsUnique' /\ ExternalInv'
      BY <1>1, RootStays, EdgesStay
    <2>6. QED
      BY <2>3, <2>4, <2>5 DEF IInv
  <1>3. CASE ~Readable(Mentioning)
    BY <1>3, Fails DEF LoadCandidates
  <1>4. QED
    BY <1>2, <1>3

LEMMA CallIsNext ==
    ASSUME IInv, NextCall
    PROVE  IInv'
  <1>1. /\ stage = "calls" /\ stage' = "fields" /\ target # NoSymbol
        /\ UNCHANGED <<root, unreadable, installed, target, loaded, externalCache, edges>>
    BY DEF NextCall, IInv, SearchInv, given
  <1>2. PICK c \in todo : call' = c /\ receiver' = c.receiver /\ fields' = c.fields /\ todo' = todo \ {c}
    BY DEF NextCall
  <1>3. c \in CallSites /\ c.receiver \in Name /\ c.fields \in Seq(STRING)
    BY <1>2, ResolutionAssumption DEF IInv, TypeOK, CallSite
  <1>4. TypeOK'
    BY <1>1, <1>2, <1>3 DEF IInv, TypeOK
  <1>5. SearchInv'
    BY <1>1, <1>2, <1>3 DEF IInv, SearchInv
  <1>6. RootIsUnique' /\ ExternalInv'
    BY <1>1, RootStays, EdgesStay
  <1>7. QED
    BY <1>4, <1>5, <1>6 DEF IInv

LEMMA CallsAreDone ==
    ASSUME IInv, Done
    PROVE  IInv'
  <1>1. /\ stage = "calls" /\ stage' = "done"
        /\ UNCHANGED <<root, unreadable, installed, target, loaded, externalCache, todo, call, receiver,
                       fields, seen, edges>>
    BY DEF Done, given
  <1>2. TypeOK' /\ SearchInv'
    BY <1>1 DEF IInv, TypeOK, SearchInv
  <1>3. RootIsUnique' /\ ExternalInv'
    BY <1>1, RootStays, EdgesStay
  <1>4. QED
    BY <1>2, <1>3 DEF IInv

LEMMA FieldIsFollowed ==
    ASSUME IInv, FollowField
    PROVE  IInv'
  <1> DEFINE base == receiverID(receiver)
             now == loaded \cup (FileFor(base) \ unreadable)
             known == base \notin seen /\ IsKnown(base, now)
             found == known /\ Head(fields) \in DOMAIN FieldsOf[base[1]]
  <1>1. /\ stage = "fields" /\ fields # <<>>
        /\ UNCHANGED <<root, unreadable, installed, target, externalCache, todo, call, stage, edges>>
        /\ loaded' = IF base \in seen THEN loaded ELSE now
        /\ receiver' = IF found THEN FieldsOf[base[1]][Head(fields)]
                       ELSE IF known /\ TypeOf(base).alias THEN TypeOf(base).underlying
                       ELSE NoName
        /\ fields' = IF found THEN Tail(fields)
                     ELSE IF known /\ TypeOf(base).alias THEN fields ELSE <<>>
    BY DEF FollowField, given
  <1>2. /\ loaded \subseteq Files /\ unreadable \cap loaded = {}
        /\ receiver \in Name /\ fields \in Seq(STRING)
        /\ call \in CallSites /\ (call.receiver = NoName => receiver = NoName) /\ target # NoSymbol
    BY <1>1 DEF IInv, TypeOK, SearchInv
  <1>3. now \subseteq Files /\ unreadable \cap now = {}
    BY <1>2, FileForFiles
  <1>4. known => base[1] \in DOMAIN Types /\ Len(base) = 1
    BY DEF IsKnown
  <1>5. receiver' \in Name
    <2>1. CASE found
      <3>1. base[1] \in DOMAIN Types /\ Head(fields) \in DOMAIN FieldsOf[base[1]]
        BY <1>4, <2>1
      <3>2. receiver' = FieldsOf[base[1]][Head(fields)]
        BY <1>1, <2>1
      <3> HIDE DEF base, now, known, found
      <3>3. QED
        BY <3>1, <3>2, ResolutionAssumption
    <2>2. CASE ~found /\ known /\ TypeOf(base).alias
      BY <1>1, <1>4, <2>2, DeclaredTypes DEF TypeOf
    <2>3. CASE ~found /\ ~(known /\ TypeOf(base).alias)
      <3>1. receiver' = NoName
        BY <1>1, <2>3
      <3>2. QED
        BY <3>1 DEF NoName, Name
    <2>4. QED
      BY <2>1, <2>2, <2>3
  <1>6. fields' \in Seq(STRING)
    <2>1. Tail(fields) \in Seq(STRING)
      <3> HIDE DEF base, now, known, found
      <3>1. QED
        BY <1>1, <1>2, HeadTailProperties
    <2>2. fields' \in {Tail(fields), fields, <<>>}
      BY <1>1
    <2> HIDE DEF base, now, known, found
    <2>3. <<>> \in Seq(STRING) /\ fields \in Seq(STRING)
      BY <1>2
    <2>4. QED
      BY <2>1, <2>2, <2>3
  <1>7. call.receiver = NoName => receiver' = NoName
    <2>1. SUFFICES ASSUME receiver = NoName PROVE receiver' = NoName
      BY <1>2
    <2>2. base = NoName
      BY <2>1 DEF receiverID, HasPrefix
    <2>3. ~known
      BY <1>4, <2>2 DEF NoName
    <2>4. QED
      BY <1>1, <2>3
  <1>8. loaded' \subseteq Files /\ unreadable \cap loaded' = {}
    BY <1>1, <1>2, <1>3
  <1> HIDE DEF base, now, known, found
  <1>9. TypeOK'
    BY <1>1, <1>5, <1>6, <1>8 DEF IInv, TypeOK
  <1>10. SearchInv'
    BY <1>1, <1>2, <1>7 DEF IInv, SearchInv
  <1>11. RootIsUnique' /\ ExternalInv'
    BY <1>1, RootStays, EdgesStay
  <1>12. QED
    BY <1>9, <1>10, <1>11 DEF IInv

LEMMA NothingIsResolved ==
    ASSUME IInv, NothingToResolve
    PROVE  IInv'
  <1>1. /\ stage \in {"fields", "packages"} /\ Resolved(NoSymbol, "unknown")
        /\ loaded' = loaded /\ externalCache' = externalCache
    BY DEF NothingToResolve
  <1>2. QED
    BY <1>1, CallIsResolved DEF IInv, TypeOK

\* A symbol that is found decides by the modules.
LEMMA SymbolIsFound ==
    ASSUME IInv, stage = "fields", NEW s, Found(s), externalCache' = externalCache,
           loaded' \subseteq Files, unreadable \cap loaded' = {}
    PROVE  IInv'
  <1>1. \E id : \E kind \in {"resolved", "different-module-series"} : Resolved(id, kind)
    BY DEF Found
  <1>2. PICK id : \E kind \in {"resolved", "different-module-series"} : Resolved(id, kind)
    BY <1>1
  <1>3. \A t \in DOMAIN externalCache' : externalCache'[t] \in BOOLEAN
    BY DEF IInv, TypeOK
  <1>4. QED
    BY <1>2, <1>3, CallIsResolved DEF IInv

LEMMA FunctionIsFound ==
    ASSUME IInv, FindFunction
    PROVE  IInv'
  <1>1. /\ stage = "fields" /\ Found(Id(receiver)) /\ externalCache' = externalCache
        /\ Readable(FilesNaming(Ref(receiver), call.name))
        /\ loaded' = loaded \cup FilesNaming(Ref(receiver), call.name)
    BY DEF FindFunction, AfterFields, Load
  <1>2. QED
    BY <1>1, FunctionFilesLoad, SymbolIsFound

LEMMA MethodIsFound ==
    ASSUME IInv, FindMethod
    PROVE  IInv'
  <1>1. /\ stage = "fields" /\ Found(SearchMethod.symbol) /\ externalCache' = externalCache
        /\ Readable(FilesNaming(Ref(receiver), call.name))
        /\ SearchMethod.symbol # NoSymbol /\ loaded' = loaded \cup SearchMethod.known
    BY DEF FindMethod, NoFunction, AfterFields, Load
  <1>2. loaded' \subseteq Files /\ unreadable \cap loaded' = {}
    BY <1>1, SearchLoads DEF IInv, TypeOK
  <1>3. QED
    BY <1>1, <1>2, SymbolIsFound

LEMMA SymbolIsNotFound ==
    ASSUME IInv, NotFound
    PROVE  IInv'
  <1>1. /\ stage = "fields" /\ stage' = "packages"
        /\ Readable(FilesNaming(Ref(receiver), call.name))
        /\ HasReceiver => ~SearchMethod.failed
        /\ loaded' = loaded \cup (IF HasReceiver THEN SearchMethod.known
                                  ELSE FilesNaming(Ref(receiver), call.name))
        /\ UNCHANGED <<root, unreadable, installed, target, externalCache, todo, call, receiver,
                       fields, seen, edges>>
    BY DEF NotFound, NoFunction, AfterFields, Load, given
  <1>2. loaded' \subseteq Files /\ unreadable \cap loaded' = {}
    BY <1>1, FunctionFilesLoad, SearchLoads DEF IInv, TypeOK
  <1>3. TypeOK'
    BY <1>1, <1>2 DEF IInv, TypeOK
  <1>4. SearchInv'
    BY <1>1 DEF IInv, SearchInv
  <1>5. RootIsUnique' /\ ExternalInv'
    BY <1>1, RootStays, EdgesStay
  <1>6. QED
    BY <1>3, <1>4, <1>5 DEF IInv

LEMMA PackageDecides ==
    ASSUME IInv, DecideByPackage
    PROVE  IInv'
  <1>1. stage = "packages" /\ loaded' = loaded /\ externalCache' = externalCache
    BY DEF DecideByPackage
  <1>2. \E id : \E kind \in {"cgo", "missing-symbol", "different-module-series"} : Resolved(id, kind)
    BY DEF DecideByPackage
  <1>3. PICK id : \E kind \in {"cgo", "missing-symbol", "different-module-series"} : Resolved(id, kind)
    BY <1>2
  <1>4. /\ loaded' \subseteq Files /\ unreadable' = unreadable /\ unreadable \cap loaded' = {}
        /\ \A t \in DOMAIN externalCache' : externalCache'[t] \in BOOLEAN
    BY <1>1, <1>3 DEF IInv, TypeOK, Resolved, given
  <1>5. QED
    BY <1>1, <1>3, <1>4, CallIsResolved DEF IInv

LEMMA InstallationMayChange ==
    ASSUME IInv, InstallationChanges
    PROVE  IInv'
  <1>1. /\ stage = "packages"
        /\ UNCHANGED <<root, unreadable, target, loaded, externalCache, todo, call, receiver, fields,
                       seen, stage, edges>>
    BY DEF InstallationChanges
  <1>2. TypeOK' /\ SearchInv'
    BY <1>1 DEF IInv, TypeOK, SearchInv
  <1>3. RootIsUnique' /\ ExternalInv'
    BY <1>1, RootStays, EdgesStay
  <1>4. QED
    BY <1>2, <1>3 DEF IInv

LEMMA Invariance ==
    ASSUME IInv, [Next]_vars
    PROVE  IInv'
  <1>1. CASE ChooseRoot
    BY <1>1, RootIsChosen
  <1>2. CASE RootFails
    BY <1>2, Fails DEF RootFails
  <1>3. CASE LoadCandidates
    BY <1>3, CandidatesAreLoaded
  <1>4. CASE NextCall
    BY <1>4, CallIsNext
  <1>5. CASE Done
    BY <1>5, CallsAreDone
  <1>6. CASE FollowField
    BY <1>6, FieldIsFollowed
  <1>7. CASE NothingToResolve
    BY <1>7, NothingIsResolved
  <1>8. CASE FindFunction
    BY <1>8, FunctionIsFound
  <1>9. CASE FindMethod
    BY <1>9, MethodIsFound
  <1>10. CASE ResolveFails
    BY <1>10, Fails DEF ResolveFails
  <1>11. CASE NotFound
    BY <1>11, SymbolIsNotFound
  <1>12. CASE DecideByPackage
    BY <1>12, PackageDecides
  <1>13. CASE DecideExternal
    BY <1>13, ExternalIsDecided
  <1>14. CASE InstallationChanges
    BY <1>14, InstallationMayChange
  <1>15. CASE UNCHANGED vars
    <2>1. UNCHANGED <<root, target, loaded, unreadable, installed, externalCache, todo, call,
                      receiver, fields, seen, stage, edges>>
      BY <1>15 DEF vars
    <2>2. TypeOK' /\ SearchInv' /\ RootIsUnique'
      BY <2>1 DEF IInv, TypeOK, SearchInv, RootIsUnique
    <2>3. QED
      BY <2>1, <2>2, EdgesStay DEF IInv
  <1>16. QED
    BY <1>1, <1>2, <1>3, <1>4, <1>5, <1>6, <1>7, <1>8, <1>9, <1>10, <1>11, <1>12, <1>13, <1>14,
       <1>15 DEF Next

\* Where each variable of a search ranges: no unreadable file is ever loaded.
THEOREM TypeTheorem == Spec => []TypeOK
  <1>1. IInv => TypeOK
    BY DEF IInv
  <1>2. QED
    BY Initially, Invariance, <1>1, PTL DEF Spec

\* A target is searched for only when it stands for one symbol, or for none at all: of
\* several packages with its path, none is chosen by what other searches had loaded.
THEOREM RootTheorem == Spec => []RootIsUnique
  <1>1. IInv => RootIsUnique
    BY DEF IInv
  <1>2. QED
    BY Initially, Invariance, <1>1, PTL DEF Spec

-----------------------------------------------------------------------------
(* The standard library. *)

\* A symbol outside the workspace is the target only under its own name.
LEMMA ExternalTarget ==
    ASSUME IInv, target # NoSymbol, NEW s \in Callee, IsTarget(s), ~IsIdentity(OwnerOf(s))
    PROVE  s = target
  <1>1. s \in Symbol /\ (s[1] \in Qualified \/ \E c \in CallSites : c.package = s[1])
    BY DEF Callee
  <1>2. Public[s[1]] = s[1]
    <2>1. OwnerOf(s) \notin {p.id : p \in Packages}
      BY DEF IsIdentity
    <2>2. QED
      BY <1>1, <2>1, ResolutionAssumption DEF OwnerOf
  <1>3. QED
    BY <1>1, <1>2, SymbolsAreSome DEF IsTarget

LEMMA ExternalsAreJudgedAlike ==
    ASSUME IInv
    PROVE  ExternalsAreStable
  <1> SUFFICES ASSUME NEW e \in edges, NEW f \in edges,
                      e.kind = "standard-library", f.kind = "definition-unavailable"
               PROVE  FALSE
    BY DEF ExternalsAreStable
  <1>1. PICK s \in Callee : /\ IsTarget(s) /\ OwnerOf(s) \in Standard
                            /\ s \in DOMAIN externalCache /\ externalCache[s]
    BY DEF IInv, ExternalInv
  <1>2. PICK t \in Callee : /\ IsTarget(t) /\ \A p \in Packages : ~matchesPackage(p, OwnerOf(t))
                            /\ OwnerOf(t) \in Standard => t \in DOMAIN externalCache /\ ~externalCache[t]
    BY DEF IInv, ExternalInv
  <1>3. target # NoSymbol
    BY DEF IInv, SearchInv
  <1>4. ~IsIdentity(OwnerOf(s))
    BY <1>1, ResolutionAssumption DEF IsIdentity
  <1>5. ~IsIdentity(OwnerOf(t))
    BY <1>2 DEF IsIdentity, matchesPackage
  <1>6. s = target /\ t = target
    BY <1>1, <1>2, <1>3, <1>4, <1>5, ExternalTarget
  <1>7. QED
    BY <1>1, <1>2, <1>6

\* All calls of one symbol of the standard library are judged alike, although it could
\* not be read for a part of the run.
THEOREM ExternalsTheorem == Spec => []ExternalsAreStable
  BY Initially, Invariance, ExternalsAreJudgedAlike, PTL DEF Spec

-----------------------------------------------------------------------------
(* Names, with the words in front of the last one. *)

FrontOf(n) == SubSeq(n, 1, Len(n) - 1)

LEMMA Words ==
    ASSUME NEW S, NEW w \in S
    PROVE  /\ <<w>> \in Seq(S) /\ <<w>> # <<>> /\ Len(<<w>>) = 1 /\ Head(<<w>>) = w
           /\ \A n \in Seq(S) : /\ <<w>> \o n \in Seq(S) /\ <<w>> \o n # <<>>
                                /\ Head(<<w>> \o n) = w /\ Tail(<<w>> \o n) = n
                                /\ Len(<<w>> \o n) = Len(n) + 1 /\ (<<w>> \o n)[1] = w
                                /\ \A i \in 1..Len(n) : (<<w>> \o n)[i + 1] = n[i]
           /\ <<w>> \o <<>> = <<w>>
  OBVIOUS

LEMMA FrontsOf ==
    ASSUME NEW S, NEW n \in Seq(S), n # <<>>
    PROVE  /\ FrontOf(n) \in Seq(S) /\ Len(FrontOf(n)) = Len(n) - 1
           /\ \A i \in 1..(Len(n) - 1) : FrontOf(n)[i] = n[i]
           /\ n[Len(n)] \in S /\ Len(n) \in Nat /\ Len(n) >= 1
  <1>1. Len(n) \in Nat /\ Len(n) >= 1
    BY EmptySeq
  <1>2. \A i \in 1..Len(n) : n[i] \in S
    OBVIOUS
  <1>3. FrontOf(n) \in Seq(S) /\ \A i \in 1..(Len(n) - 1) : FrontOf(n)[i] = n[i]
    BY <1>1, <1>2, SubSeqProperties DEF FrontOf
  <1>4. Len(FrontOf(n)) = Len(n) - 1
    <2>1. Len(FrontOf(n)) = IF 1 <= Len(n) - 1 THEN (Len(n) - 1) - 1 + 1 ELSE 0
      <3> DEFINE m == Len(n) - 1
      <3>1. 1 \in Int /\ m \in Int /\ \A i \in 1..m : n[i] \in S
        BY <1>1, <1>2
      <3> HIDE DEF m
      <3>2. Len(SubSeq(n, 1, m)) = IF 1 <= m THEN m - 1 + 1 ELSE 0
        BY <3>1, SubSeqProperties
      <3>3. QED
        BY <3>2 DEF FrontOf, m
    <2>2. CASE Len(n) = 1
      BY <2>1, <2>2
    <2>3. CASE Len(n) # 1
      <3> DEFINE k == Len(n)
      <3>1. k \in Nat /\ k >= 1 /\ k # 1
        BY <1>1, <2>3
      <3> HIDE DEF k
      <3>2. 1 <= k - 1 /\ (k - 1) - 1 + 1 = k - 1
        BY <3>1
      <3>3. Len(FrontOf(n)) = IF 1 <= k - 1 THEN (k - 1) - 1 + 1 ELSE 0
        BY <2>1 DEF k
      <3>4. Len(FrontOf(n)) = k - 1
        BY <3>2, <3>3
      <3>5. QED
        BY <3>4 DEF k
    <2>4. QED
      BY <2>2, <2>3
  <1>5. QED
    BY <1>1, <1>2, <1>3, <1>4

LEMMA FrontsOfPrefixed ==
    ASSUME NEW S, NEW w \in S, NEW n \in Seq(S), n # <<>>
    PROVE  FrontOf(<<w>> \o n) = <<w>> \o FrontOf(n) /\ (<<w>> \o n)[Len(<<w>> \o n)] = n[Len(n)]
  <1> DEFINE p == <<w>> \o n
             q == <<w>> \o FrontOf(n)
  <1>1. /\ p \in Seq(S) /\ p # <<>> /\ Len(p) = Len(n) + 1 /\ p[1] = w
        /\ \A i \in 1..Len(n) : p[i + 1] = n[i]
    BY Words
  <1>2. /\ Len(n) \in Nat /\ Len(n) >= 1
        /\ FrontOf(n) \in Seq(S) /\ Len(FrontOf(n)) = Len(n) - 1
        /\ \A i \in 1..(Len(n) - 1) : FrontOf(n)[i] = n[i]
    BY FrontsOf
  <1>3. /\ FrontOf(p) \in Seq(S) /\ Len(FrontOf(p)) = Len(n)
        /\ \A i \in 1..Len(n) : FrontOf(p)[i] = p[i]
    <2> HIDE DEF p
    <2>1. /\ FrontOf(p) \in Seq(S) /\ Len(FrontOf(p)) = Len(p) - 1
          /\ \A i \in 1..(Len(p) - 1) : FrontOf(p)[i] = p[i]
      BY <1>1, FrontsOf
    <2>2. Len(p) - 1 = Len(n)
      BY <1>1, <1>2
    <2>3. QED
      BY <2>1, <2>2
  <1>4. /\ q \in Seq(S) /\ Len(q) = Len(FrontOf(n)) + 1 /\ q[1] = w
        /\ \A i \in 1..Len(FrontOf(n)) : q[i + 1] = FrontOf(n)[i]
    BY <1>2, Words
  <1> HIDE DEF p, q
  <1>5. ASSUME NEW i \in 1..Len(FrontOf(p)) PROVE FrontOf(p)[i] = q[i]
    <2>1. CASE i = 1
      BY <1>1, <1>2, <1>3, <1>4, <2>1
    <2>2. CASE i # 1
      <3>1. /\ i - 1 \in 1..Len(n) /\ i - 1 \in 1..(Len(n) - 1) /\ i - 1 \in 1..Len(FrontOf(n))
            /\ (i - 1) + 1 = i
        BY <1>2, <1>3, <2>2
      <3>2. p[i] = n[i - 1] /\ q[i] = FrontOf(n)[i - 1]
        BY <1>1, <1>4, <3>1
      <3>3. QED
        BY <1>2, <1>3, <3>1, <3>2
    <2>3. QED
      BY <2>1, <2>2
  <1>6. Len(FrontOf(p)) = Len(q)
    BY <1>2, <1>3, <1>4
  <1>7. FrontOf(p) = q
    BY <1>3, <1>4, <1>5, <1>6, SeqEqual
  <1>8. p[Len(p)] = n[Len(n)]
    <2>1. Len(n) \in 1..Len(n)
      BY <1>2
    <2>2. QED
      BY <1>1, <2>1
  <1>9. QED
    BY <1>7, <1>8 DEF p, q

LEMMA AppendPrefixed ==
    ASSUME NEW S, NEW n \in Seq(S), NEW v \in S, NEW w \in S
    PROVE  Append(<<v>> \o n, w) = <<v>> \o Append(n, w) /\ Append(n, w) \in Seq(S)
  OBVIOUS

LEMMA ConcatPrefixed ==
    ASSUME NEW S, NEW m \in Seq(S), NEW n \in Seq(S), NEW v \in S
    PROVE  (<<v>> \o m) \o n = <<v>> \o (m \o n) /\ m \o n \in Seq(S)
  BY ConcatAssociative, ConcatProperties

LEMMA Split ==
    ASSUME NEW S, NEW n \in Seq(S), n # <<>>
    PROVE  n = <<Head(n)>> \o Tail(n) /\ Tail(n) \in Seq(S) /\ Head(n) \in S
  OBVIOUS

LEMMA Pointers ==
    ASSUME NEW n \in Name
    PROVE  /\ receiverID(n) \in Name
           /\ HasPrefix(n, {"*"}) => n = <<"*">> \o receiverID(n)
           /\ ~HasPrefix(n, {"*"}) => receiverID(n) = n
           /\ <<"*">> \o n \in Name /\ <<"*">> \o n # NoName
           /\ HasPrefix(<<"*">> \o n, {"*"}) /\ receiverID(<<"*">> \o n) = n
  <1>1. n \in Seq(STRING) /\ "*" \in STRING
    BY WordsAssumption DEF Name
  <1>2. ASSUME HasPrefix(n, {"*"}) PROVE receiverID(n) \in Name /\ n = <<"*">> \o receiverID(n)
    <2>1. n # <<>> /\ Head(n) = "*" /\ receiverID(n) = Tail(n)
      BY <1>2 DEF HasPrefix, NoName, receiverID
    <2>2. QED
      BY <1>1, <2>1, Split DEF Name
  <1>3. /\ <<"*">> \o n \in Seq(STRING) /\ <<"*">> \o n # <<>>
        /\ Head(<<"*">> \o n) = "*" /\ Tail(<<"*">> \o n) = n
    BY <1>1, Words
  <1>4. HasPrefix(<<"*">> \o n, {"*"}) /\ receiverID(<<"*">> \o n) = n
    BY <1>3 DEF HasPrefix, receiverID, NoName
  <1>5. ~HasPrefix(n, {"*"}) => receiverID(n) = n
    BY DEF receiverID
  <1>6. QED
    BY <1>2, <1>3, <1>4, <1>5 DEF Name, NoName

LEMMA SingleWords ==
    ASSUME NEW w \in STRING
    PROVE  /\ <<w>> \in Name /\ <<w>> # NoName /\ FrontOf(<<w>>) = NoName /\ Len(<<w>>) = 1
           /\ w # "*" => receiverID(<<w>>) = <<w>> /\ ~HasPrefix(<<w>>, {"*"})
  <1>1. FrontOf(<<w>>) = NoName
    <2>1. 0 < 1 /\ Len(<<w>>) - 1 = 0
      OBVIOUS
    <2>2. QED
      BY <2>1, SubSeqEmpty DEF FrontOf, NoName
  <1>2. <<w>> \in Seq(STRING) /\ <<w>> # <<>> /\ Head(<<w>>) = w /\ Len(<<w>>) = 1
    BY Words
  <1>3. QED
    BY <1>1, <1>2 DEF Name, NoName, receiverID, HasPrefix

\* A name of one word.
LEMMA OneWord ==
    ASSUME NEW n \in Name, Len(n) = 1
    PROVE  n[1] \in STRING /\ n = <<n[1]>>
  BY DEF Name

-----------------------------------------------------------------------------
(* Spelling. *)

LEMMA Spelling ==
    ASSUME NEW w \in STRING
    PROVE  /\ Spelled(w) \in STRING
           /\ w \in Qualified => Spelled(w) = w
           /\ w \notin Qualified => Spelled(w) \notin Qualified
           /\ Spelled(w) = "*" => w = "*"
  <1>1. CASE w \in {"byte", "rune", "any"}
    <2>1. Spelled(w) \in {"uint8", "int32", "interface{}"}
      BY <1>1 DEF Spelled
    <2>2. w \notin Qualified /\ Spelled(w) \notin Qualified /\ Spelled(w) \in STRING
      BY <1>1, <2>1, WordsAssumption
    <2>3. QED
      BY <2>1, <2>2
  <1>2. CASE w \notin {"byte", "rune", "any"}
    <2>1. Spelled(w) = w
      BY <1>2 DEF Spelled
    <2>2. QED
      BY <2>1
  <1>3. QED
    BY <1>1, <1>2

LEMMA SpelledNames ==
    ASSUME NEW n \in Name
    PROVE  /\ SpelledOut(n) \in Name
           /\ SpelledOut(<<"*">> \o n) = <<"*">> \o SpelledOut(n)
  <1>1. n \in Seq(STRING) /\ <<>> \in Seq(STRING) /\ "*" \in STRING
    BY WordsAssumption, EmptySeq DEF Name
  <1>2. CASE n = NoName
    <2>1. SpelledOut(n) = <<>> /\ <<"*">> \o n = <<"*">> /\ <<"*">> \o <<>> = <<"*">>
      BY <1>2, Words DEF SpelledOut, NoName
    <2>2. FrontOf(<<"*">>) = <<>> /\ <<"*">> # NoName /\ Len(<<"*">>) = 1 /\ <<"*">>[1] = "*"
      BY <1>1, SingleWords DEF NoName
    <2>3. SpelledOut(<<"*">>) = Append(FrontOf(<<"*">>), Spelled("*")) /\ Spelled("*") = "*"
      BY <2>2 DEF SpelledOut, FrontOf, Spelled
    <2>4. SpelledOut(<<"*">>) = <<"*">>
      BY <2>2, <2>3
    <2>5. QED
      BY <1>1, <2>1, <2>4 DEF Name
  <1>3. CASE n # NoName
    <2> DEFINE p == <<"*">> \o n
               front == FrontOf(n)
               last == Spelled(n[Len(n)])
    <2>1. n # <<>> /\ p \in Name /\ p # NoName
      BY <1>3, Pointers DEF NoName
    <2>2. front \in Seq(STRING) /\ last \in STRING
      BY <1>1, <2>1, FrontsOf, Spelling
    <2>3. SpelledOut(n) = Append(front, last)
      BY <1>3 DEF SpelledOut, FrontOf
    <2>4. SpelledOut(p) = Append(FrontOf(p), Spelled(p[Len(p)]))
      BY <2>1 DEF SpelledOut, FrontOf
    <2>5. FrontOf(p) = <<"*">> \o front /\ p[Len(p)] = n[Len(n)]
      BY <1>1, <2>1, FrontsOfPrefixed
    <2>6. Append(<<"*">> \o front, last) = <<"*">> \o Append(front, last) /\ Append(front, last) \in Seq(STRING)
      <3> HIDE DEF front, last
      <3>1. QED
        BY <2>2, AppendPrefixed
    <2>7. QED
      BY <2>3, <2>4, <2>5, <2>6 DEF Name
  <1>4. QED
    BY <1>2, <1>3

-----------------------------------------------------------------------------
(* Type identity. *)

Shorter(s) == [name |-> Expanded(s.name), left |-> s.left - 1]

Expands(s) == EndsInAlias(s.name) /\ s.left > 0

LEMMA ExpandedNames ==
    ASSUME NEW n \in Name, EndsInAlias(n)
    PROVE  /\ n # NoName /\ n[Len(n)] \in Aliases
           /\ Expanded(n) = FrontOf(n) \o Types[n[Len(n)]].underlying
           /\ FrontOf(n) \in Name /\ Types[n[Len(n)]].underlying \in Name
           /\ Expanded(n) \in Name
  <1>1. n # NoName /\ n[Len(n)] \in DOMAIN Types /\ Types[n[Len(n)]].alias
    BY DEF EndsInAlias
  <1>2. n \in Seq(STRING) /\ n # <<>>
    BY <1>1 DEF Name, NoName
  <1>3. FrontOf(n) \in Seq(STRING)
    BY <1>2, FrontsOf
  <1>4. Types[n[Len(n)]].underlying \in Seq(STRING)
    BY <1>1, DeclaredTypes DEF Name
  <1>5. Expanded(n) = FrontOf(n) \o Types[n[Len(n)]].underlying
    BY DEF Expanded, FrontOf
  <1>6. Expanded(n) \in Seq(STRING)
    BY <1>3, <1>4, <1>5, ConcatProperties
  <1>7. QED
    BY <1>1, <1>3, <1>4, <1>5, <1>6 DEF Name, Aliases

LEMMA ExpansionEnds ==
    Ends(Expansion, {s \in Expansion : Expands(s)},
         [s \in Expansion |-> IF Expands(s) THEN Shorter(s) ELSE s], [s \in Expansion |-> s.left])
  <1>1. ASSUME NEW s \in Expansion, Expands(s)
        PROVE  Shorter(s) \in Expansion /\ s.left \in Nat /\ s.left > 0 /\ Shorter(s).left = s.left - 1
    <2>1. s.name \in Name /\ s.left \in Nat /\ s.left > 0 /\ EndsInAlias(s.name)
      BY <1>1 DEF Expansion, Expands
    <2>2. Expanded(s.name) \in Name
      BY <2>1, ExpandedNames
    <2>3. QED
      BY <2>1, <2>2 DEF Shorter, Expansion
  <1>2. \A s \in Expansion : s.left \in Nat
    BY DEF Expansion
  <1>3. QED
    BY <1>1, <1>2 DEF Ends

\* Where an expansion starts.
Whole(n) == [name |-> n, left |-> Cardinality(DOMAIN Types) + 1]

LEMMA WholeNames ==
    ASSUME NEW n \in Name
    PROVE  Whole(n) \in Expansion
  <1>1. Cardinality(DOMAIN Types) \in Nat
    BY ResolutionAssumption, FS_CardinalityType
  <1>2. QED
    BY <1>1 DEF Whole, Expansion

\* The expansion is a loop that ends.
LEMMA IdentityLoop ==
    \E f : /\ f = [s \in Expansion |-> IF Expands(s) THEN f[Shorter(s)] ELSE SpelledOut(s.name)]
           /\ \A n : Identity(n) = f[Whole(n)]
  <1> DEFINE Go == {s \in Expansion : Expands(s)}
             next == [s \in Expansion |-> IF Expands(s) THEN Shorter(s) ELSE s]
             result == [s \in Expansion |-> SpelledOut(s.name)]
             size == [s \in Expansion |-> s.left]
             f == CHOOSE f : f = [s \in Expansion |->
                        IF EndsInAlias(s.name) /\ s.left > 0
                        THEN f[[name |-> Expanded(s.name), left |-> s.left - 1]]
                        ELSE SpelledOut(s.name)]
  <1>1. Ends(Expansion, Go, next, size)
    BY ExpansionEnds
  <1>2. \E g : IsLoop(g, Expansion, Go, next, result)
    <2> HIDE DEF Go, next, result, size
    <2>1. QED
      BY <1>1, LoopsEnd
  <1>3. \E g : g = [s \in Expansion |-> IF Expands(s) THEN g[Shorter(s)] ELSE SpelledOut(s.name)]
    <2>1. PICK g : g = [s \in Expansion |-> IF s \in Go THEN g[next[s]] ELSE result[s]]
      BY <1>2 DEF IsLoop
    <2>2. \A s \in Expansion : (IF s \in Go THEN g[next[s]] ELSE result[s])
                = (IF Expands(s) THEN g[Shorter(s)] ELSE SpelledOut(s.name))
      OBVIOUS
    <2>3. g = [s \in Expansion |-> IF Expands(s) THEN g[Shorter(s)] ELSE SpelledOut(s.name)]
      BY <2>1, <2>2
    <2>4. QED
      BY <2>3
  <1>4. \E g : g = [s \in Expansion |->
                        IF EndsInAlias(s.name) /\ s.left > 0
                        THEN g[[name |-> Expanded(s.name), left |-> s.left - 1]]
                        ELSE SpelledOut(s.name)]
    BY <1>3 DEF Expands, Shorter
  <1>5. f = [s \in Expansion |->
                        IF EndsInAlias(s.name) /\ s.left > 0
                        THEN f[[name |-> Expanded(s.name), left |-> s.left - 1]]
                        ELSE SpelledOut(s.name)]
    BY <1>4
  <1>6. \A n : Identity(n) = f[Whole(n)]
    BY DEF Identity, Whole
  <1> HIDE DEF f
  <1>7. f = [s \in Expansion |-> IF Expands(s) THEN f[Shorter(s)] ELSE SpelledOut(s.name)]
    BY <1>5 DEF Expands, Shorter
  <1>8. QED
    BY <1>6, <1>7

\* What holds of the end of an expansion, and of each turn if of the next, holds.
LEMMA ExpansionInduction ==
    ASSUME NEW T, \A s \in Expansion : ~Expands(s) => s \in T,
           \A s \in Expansion : Expands(s) /\ Shorter(s) \in Expansion /\ Shorter(s) \in T => s \in T
    PROVE  \A s \in Expansion : s \in T
  <1> DEFINE Go == {s \in Expansion : Expands(s)}
             next == [s \in Expansion |-> IF Expands(s) THEN Shorter(s) ELSE s]
             size == [s \in Expansion |-> s.left]
  <1>1. Ends(Expansion, Go, next, size)
    BY ExpansionEnds
  <1>2. next \in [Expansion -> Expansion]
    BY <1>1 DEF Ends
  <1>3. \A s \in Expansion : Expands(s) => Shorter(s) \in Expansion
    BY <1>2
  <1>4. HoldsBackwards(Expansion, Go, next, T)
    BY <1>3 DEF HoldsBackwards
  <1> HIDE DEF Go, next, size
  <1>5. QED
    BY <1>1, <1>4, LoopInduction

LEMMA IdentityType ==
    ASSUME NEW n \in Name
    PROVE  Identity(n) \in Name
  <1>1. PICK f : /\ f = [s \in Expansion |-> IF Expands(s) THEN f[Shorter(s)] ELSE SpelledOut(s.name)]
                 /\ \A m : Identity(m) = f[Whole(m)]
    BY IdentityLoop
  <1> DEFINE T == {s \in Expansion : f[s] \in Name}
  <1>2. \A s \in Expansion : ~Expands(s) => s \in T
    BY <1>1, SpelledNames DEF Expansion
  <1>3. \A s \in Expansion : Expands(s) /\ Shorter(s) \in Expansion /\ Shorter(s) \in T => s \in T
    BY <1>1
  <1> HIDE DEF T
  <1>4. \A s \in Expansion : s \in T
    BY <1>2, <1>3, ExpansionInduction
  <1>5. QED
    BY <1>1, <1>4, WholeNames DEF T

\* The pointers to types expand as the types.
LEMMA ExpandedPointers ==
    ASSUME NEW n \in Name
    PROVE  /\ EndsInAlias(<<"*">> \o n) <=> EndsInAlias(n)
           /\ EndsInAlias(n) => Expanded(<<"*">> \o n) = <<"*">> \o Expanded(n)
  <1> DEFINE p == <<"*">> \o n
  <1>1. n \in Seq(STRING) /\ "*" \in STRING /\ p \in Name /\ p # NoName
    BY WordsAssumption, Pointers DEF Name
  <1>2. CASE n = NoName
    <2>1. p = <<"*">> /\ Len(<<"*">>) = 1 /\ <<"*">>[1] = "*"
      BY <1>2, Words DEF NoName
    <2>2. "*" \notin DOMAIN Types
      BY DeclaredTypes, ResolutionAssumption
    <2>3. ~EndsInAlias(p) /\ ~EndsInAlias(n)
      BY <1>2, <2>1, <2>2 DEF EndsInAlias
    <2>4. QED
      BY <2>3
  <1>3. CASE n # NoName
    <2>1. FrontOf(p) = <<"*">> \o FrontOf(n) /\ p[Len(p)] = n[Len(n)]
      BY <1>1, <1>3, FrontsOfPrefixed DEF NoName
    <2>2. EndsInAlias(p) <=> EndsInAlias(n)
      BY <1>1, <1>3, <2>1 DEF EndsInAlias
    <2>3. ASSUME EndsInAlias(n) PROVE Expanded(p) = <<"*">> \o Expanded(n)
      <3> DEFINE u == Types[n[Len(n)]].underlying
      <3>1. /\ Expanded(n) = FrontOf(n) \o u
            /\ FrontOf(n) \in Seq(STRING) /\ u \in Seq(STRING)
        BY <2>3, ExpandedNames DEF Name
      <3>2. Expanded(p) = FrontOf(p) \o u
        BY <2>1, <2>2, <2>3, <1>1, ExpandedNames
      <3> HIDE DEF u, p
      <3>3. (<<"*">> \o FrontOf(n)) \o u = <<"*">> \o (FrontOf(n) \o u)
        BY <1>1, <3>1, ConcatPrefixed
      <3>4. QED
        BY <2>1, <3>1, <3>2, <3>3
    <2>4. QED
      BY <2>2, <2>3
  <1>4. QED
    BY <1>2, <1>3

LEMMA IdentityOfPointer ==
    ASSUME NEW n \in Name
    PROVE  Identity(<<"*">> \o n) = <<"*">> \o Identity(n)
  <1>1. PICK f : /\ f = [s \in Expansion |-> IF Expands(s) THEN f[Shorter(s)] ELSE SpelledOut(s.name)]
                 /\ \A m : Identity(m) = f[Whole(m)]
    BY IdentityLoop
  <1> DEFINE To(s) == [name |-> <<"*">> \o s.name, left |-> s.left]
             T == {s \in Expansion : f[To(s)] = <<"*">> \o f[s]}
  <1>2. ASSUME NEW s \in Expansion
        PROVE  To(s) \in Expansion /\ (Expands(To(s)) <=> Expands(s))
    <2>1. s.name \in Name /\ s.left \in Nat
      BY DEF Expansion
    <2>2. <<"*">> \o s.name \in Name /\ (EndsInAlias(<<"*">> \o s.name) <=> EndsInAlias(s.name))
      BY <2>1, Pointers, ExpandedPointers
    <2>3. QED
      BY <2>1, <2>2 DEF Expansion, Expands
  <1>3. ASSUME NEW s \in Expansion, ~Expands(s) PROVE s \in T
    <2>1. s.name \in Name
      BY DEF Expansion
    <2>2. f[To(s)] = SpelledOut(<<"*">> \o s.name) /\ f[s] = SpelledOut(s.name)
      BY <1>1, <1>2, <1>3
    <2>3. QED
      BY <2>1, <2>2, SpelledNames
  <1>4. ASSUME NEW s \in Expansion, Expands(s), Shorter(s) \in Expansion, Shorter(s) \in T PROVE s \in T
    <2>1. s.name \in Name /\ EndsInAlias(s.name)
      BY <1>4 DEF Expansion, Expands
    <2>2. Expanded(<<"*">> \o s.name) = <<"*">> \o Expanded(s.name)
      BY <2>1, ExpandedPointers
    <2>3. Shorter(To(s)) = To(Shorter(s))
      BY <2>2 DEF Shorter
    <2>4. f[To(s)] = f[Shorter(To(s))] /\ f[s] = f[Shorter(s)]
      BY <1>1, <1>2, <1>4
    <2>5. QED
      BY <1>4, <2>3, <2>4
  <1>5. Whole(<<"*">> \o n) = To(Whole(n))
    BY DEF Whole
  <1> HIDE DEF T
  <1>6. \A s \in Expansion : s \in T
    BY <1>3, <1>4, ExpansionInduction
  <1>7. QED
    BY <1>1, <1>5, <1>6, WholeNames DEF T

\* A word that is no alias is its own type, in the one spelling.
LEMMA WordIdentity ==
    ASSUME NEW w \in STRING, w \notin Aliases
    PROVE  Identity(<<w>>) = <<Spelled(w)>>
  <1>1. PICK f : /\ f = [s \in Expansion |-> IF Expands(s) THEN f[Shorter(s)] ELSE SpelledOut(s.name)]
                 /\ \A m : Identity(m) = f[Whole(m)]
    BY IdentityLoop
  <1>2. <<w>> \in Name /\ <<w>> # NoName /\ FrontOf(<<w>>) = NoName /\ Len(<<w>>) = 1 /\ <<w>>[1] = w
    BY SingleWords
  <1>3. ~EndsInAlias(<<w>>)
    BY <1>2 DEF EndsInAlias, Aliases
  <1>4. Whole(<<w>>) \in Expansion /\ ~Expands(Whole(<<w>>)) /\ Whole(<<w>>).name = <<w>>
    BY <1>2, <1>3, WholeNames DEF Whole, Expands
  <1>5. Identity(<<w>>) = SpelledOut(<<w>>)
    BY <1>1, <1>4
  <1>6. SpelledOut(<<w>>) = Append(FrontOf(<<w>>), Spelled(w))
    BY <1>2 DEF SpelledOut, FrontOf
  <1>7. Append(<<>>, Spelled(w)) = <<Spelled(w)>>
    OBVIOUS
  <1>8. QED
    BY <1>2, <1>5, <1>6, <1>7 DEF NoName

LEMMA NoNameIdentity == Identity(NoName) = NoName
  <1>1. PICK f : /\ f = [s \in Expansion |-> IF Expands(s) THEN f[Shorter(s)] ELSE SpelledOut(s.name)]
                 /\ \A m : Identity(m) = f[Whole(m)]
    BY IdentityLoop
  <1>2. NoName \in Name
    BY DEF NoName, Name
  <1>3. Whole(NoName) \in Expansion /\ ~Expands(Whole(NoName)) /\ Whole(NoName).name = NoName
    BY <1>2, WholeNames DEF Whole, Expands, EndsInAlias
  <1>4. QED
    BY <1>1, <1>3 DEF SpelledOut

\* The words of an expanded name are those in front of the alias and those it stands for.
LEMMA ExpandedWords ==
    ASSUME NEW n \in Name, EndsInAlias(n)
    PROVE  LET u == Types[n[Len(n)]].underlying
               x == Expanded(n)
           IN  /\ Len(n) \in Nat /\ Len(u) \in Nat /\ Len(x) = Len(n) - 1 + Len(u) /\ Len(n) >= 1
               /\ \A i \in 1..(Len(n) - 1) : x[i] = n[i]
               /\ \A i \in 1..Len(u) : x[Len(n) - 1 + i] = u[i]
               /\ \A i \in 1..Len(x) : i <= Len(n) - 1 \/ i - (Len(n) - 1) \in 1..Len(u)
  <1> DEFINE u == Types[n[Len(n)]].underlying
             front == FrontOf(n)
             x == Expanded(n)
  <1>1. n \in Seq(STRING) /\ n # <<>> /\ u \in Seq(STRING) /\ x = front \o u
    BY ExpandedNames DEF Name, NoName
  <1>2. /\ front \in Seq(STRING) /\ Len(front) = Len(n) - 1 /\ Len(n) \in Nat /\ Len(n) >= 1
        /\ \A i \in 1..(Len(n) - 1) : front[i] = n[i]
    BY <1>1, FrontsOf
  <1>3. Len(u) \in Nat
    BY <1>1
  <1> HIDE DEF u, front
  <1>4. /\ Len(front \o u) = Len(front) + Len(u)
        /\ \A i \in 1..(Len(front) + Len(u)) :
            (front \o u)[i] = IF i <= Len(front) THEN front[i] ELSE u[i - Len(front)]
    BY <1>1, <1>2, ConcatProperties
  <1> DEFINE k == Len(n) - 1
             l == Len(u)
  <1>5. k \in Nat /\ l \in Nat /\ Len(front) = k
    BY <1>2, <1>3
  <1> HIDE DEF x, l
  <1>6. /\ Len(x) = k + l
        /\ \A i \in 1..(k + l) : x[i] = IF i <= k THEN front[i] ELSE u[i - k]
    BY <1>1, <1>4, <1>5 DEF l
  <1>7. \A i \in 1..k : x[i] = n[i]
    BY <1>2, <1>5, <1>6
  <1> HIDE DEF k
  <1>8. \A i \in 1..l : k + i \in 1..(k + l) /\ ~(k + i <= k) /\ (k + i) - k = i
    BY <1>5
  <1>9. \A i \in 1..l : x[k + i] = u[i]
    BY <1>6, <1>8
  <1>10. \A i \in 1..(k + l) : i <= k \/ i - k \in 1..l
    BY <1>5
  <1>11. QED
    BY <1>1, <1>2, <1>3, <1>6, <1>7, <1>9, <1>10 DEF k, l, u, x

LEMMA ExpandedWritten ==
    ASSUME NamesAreWritten, NEW n \in Name, EndsInAlias(n), Written(n)
    PROVE  LET u == Types[n[Len(n)]].underlying
               x == Expanded(n)
           IN  /\ Written(x)
               /\ EndsInAlias(x) => EndsInAlias(u) /\ u[Len(u)] = x[Len(x)]
  <1> DEFINE u == Types[n[Len(n)]].underlying
             x == Expanded(n)
             k == Len(n) - 1
             l == Len(u)
  <1>1. n[Len(n)] \in DOMAIN Types /\ Written(u)
    BY DEF NamesAreWritten, EndsInAlias
  <1>2. k \in Nat /\ l \in Nat /\ Len(x) = k + l
    BY ExpandedWords
  <1>3. /\ \A i \in 1..k : x[i] = n[i]
        /\ \A i \in 1..l : x[k + i] = u[i]
        /\ \A i \in 1..Len(x) : i <= k \/ i - k \in 1..l
    BY ExpandedWords
  <1>4. \A i \in 1..k : n[i] \notin Qualified
    BY DEF Written
  <1>5. \A i \in 1..(l - 1) : u[i] \notin Qualified
    BY <1>1 DEF Written
  <1> HIDE DEF u, x, k, l
  <1>6. ASSUME NEW i \in 1..(Len(x) - 1) PROVE x[i] \notin Qualified
    <2>1. CASE i <= k
      <3>1. i \in 1..k
        BY <1>2, <2>1
      <3>2. QED
        BY <1>3, <1>4, <3>1
    <2>2. CASE ~(i <= k)
      <3>1. i - k \in 1..(l - 1) /\ i - k \in 1..l /\ k + (i - k) = i
        BY <1>2, <2>2
      <3>2. x[i] = u[i - k]
        BY <1>3, <3>1
      <3>3. QED
        BY <1>5, <3>1, <3>2
    <2>3. QED
      BY <2>1, <2>2
  <1>7. ASSUME EndsInAlias(x) PROVE l # 0
    <2>0. SUFFICES ASSUME l = 0 PROVE FALSE
      OBVIOUS
    <2>1. Len(x) = k
      BY <1>2, <2>0
    <2>2. x # <<>> /\ x[Len(x)] \in DOMAIN Types
      BY <1>7 DEF EndsInAlias, NoName
    <2>3. x \in Seq(STRING)
      BY ExpandedNames DEF x, Name
    <2>4. Len(x) # 0
      BY <2>2, <2>3
    <2>5. k \in 1..k
      BY <1>2, <2>1, <2>4
    <2>6. x[k] \notin Qualified
      BY <1>3, <1>4, <2>5
    <2>7. QED
      BY <2>1, <2>2, <2>6, DeclaredTypes
  <1>8. ASSUME EndsInAlias(x) PROVE EndsInAlias(u) /\ u[Len(u)] = x[Len(x)]
    <2>1. l \in 1..l
      BY <1>2, <1>7, <1>8
    <2>2. x[Len(x)] = u[l]
      BY <1>2, <1>3, <2>1
    <2>3. u # <<>>
      BY <1>7, <1>8 DEF l
    <2>4. QED
      BY <1>8, <2>2, <2>3 DEF EndsInAlias, NoName, l
  <1>9. Written(x)
    BY <1>6 DEF Written
  <1>10. QED
    BY <1>8, <1>9 DEF x, u

-----------------------------------------------------------------------------
(* Aliases. *)

\* The ranks of the aliases; the last word of n is of a smaller one than alias a.
Rank == CHOOSE rank \in [Aliases -> 1..Cardinality(Aliases)] : \A t \in Aliases :
            LET u == Types[t].underlying
            IN  EndsInAlias(u) => rank[u[Len(u)]] < rank[t]

Below(n, a) == EndsInAlias(n) => Rank[n[Len(n)]] < Rank[a]

LEMMA AliasNumbers ==
    /\ IsFiniteSet(Aliases) /\ Cardinality(Aliases) \in Nat /\ Cardinality(DOMAIN Types) \in Nat
    /\ Cardinality(Aliases) <= Cardinality(DOMAIN Types)
  <1>1. IsFiniteSet(DOMAIN Types) /\ Aliases \subseteq DOMAIN Types
    BY ResolutionAssumption DEF Aliases
  <1>2. QED
    BY <1>1, FS_Subset, FS_CardinalityType

LEMMA Ranks ==
    ASSUME ChainsEnd
    PROVE  /\ \A t \in Aliases : Rank[t] \in Nat /\ 1 <= Rank[t] /\ Rank[t] <= Cardinality(DOMAIN Types)
           /\ \A t \in Aliases : Below(Types[t].underlying, t)
  <1> DEFINE Declines(rank) == \A t \in Aliases :
                LET u == Types[t].underlying IN EndsInAlias(u) => rank[u[Len(u)]] < rank[t]
             N == Cardinality(Aliases)
  <1>1. \E rank \in [Aliases -> 1..N] : Declines(rank)
    BY DEF ChainsEnd
  <1>2. Rank \in [Aliases -> 1..N] /\ Declines(Rank)
    <2>1. Rank = CHOOSE rank \in [Aliases -> 1..N] : Declines(rank)
      BY DEF Rank
    <2> HIDE DEF Declines, N
    <2>2. QED
      BY <1>1, <2>1
  <1>3. \A t \in Aliases : Rank[t] \in Nat /\ 1 <= Rank[t] /\ Rank[t] <= Cardinality(DOMAIN Types)
    <2>1. \A t \in Aliases : Rank[t] \in 1..N
      BY <1>2
    <2>2. QED
      BY <2>1, AliasNumbers
  <1>4. QED
    BY <1>2, <1>3 DEF Below

\* As many aliases may be expanded as the last word of the name needs.
Enough(s) == EndsInAlias(s.name) => Rank[s.name[Len(s.name)]] <= s.left

LEMMA EnoughIsLeft ==
    ASSUME ChainsEnd, NamesAreWritten, NEW s \in Expansion, Written(s.name), Enough(s), Expands(s)
    PROVE  Written(Shorter(s).name) /\ Enough(Shorter(s))
  <1> DEFINE n == s.name
             x == Expanded(n)
             t == n[Len(n)]
             u == Types[t].underlying
  <1>1. n \in Name /\ s.left \in Nat /\ EndsInAlias(n)
    BY DEF Expansion, Expands
  <1>2. t \in Aliases /\ u \in Name
    BY <1>1, ExpandedNames
  <1>3. Written(x) /\ (EndsInAlias(x) => EndsInAlias(u) /\ u[Len(u)] = x[Len(x)])
    BY <1>1, ExpandedWritten
  <1>4. Rank[t] <= s.left /\ Rank[t] \in Nat
    BY <1>1, <1>2, Ranks DEF Enough
  <1>5. ASSUME EndsInAlias(x) PROVE Rank[x[Len(x)]] <= s.left - 1
    <2>1. Rank[u[Len(u)]] < Rank[t] /\ u[Len(u)] \in Aliases
      BY <1>2, <1>3, <1>5, Ranks, ExpandedNames DEF Below
    <2>2. Rank[u[Len(u)]] \in Nat
      BY <2>1, Ranks
    <2> DEFINE a == Rank[t]
               b == Rank[u[Len(u)]]
               l == s.left
    <2>3. a \in Nat /\ b \in Nat /\ l \in Nat /\ b < a /\ a <= l
      BY <1>1, <1>4, <2>1, <2>2
    <2> HIDE DEF a, b, l
    <2>4. b <= l - 1
      BY <2>3
    <2>5. QED
      BY <1>3, <1>5, <2>4 DEF b, l
  <1>6. Shorter(s) = [name |-> x, left |-> s.left - 1]
    BY DEF Shorter
  <1> HIDE DEF x
  <1>7. QED
    BY <1>3, <1>5, <1>6 DEF Enough

\* An alias is identical to what it stands for.
LEMMA IdentityOfAlias ==
    ASSUME ChainsEnd, NamesAreWritten, NEW t \in Aliases
    PROVE  Identity(<<t>>) = Identity(Types[t].underlying)
  <1>1. PICK f : /\ f = [s \in Expansion |-> IF Expands(s) THEN f[Shorter(s)] ELSE SpelledOut(s.name)]
                 /\ \A m : Identity(m) = f[Whole(m)]
    BY IdentityLoop
  <1> DEFINE More(s) == [name |-> s.name, left |-> s.left + 1]
             T == {s \in Expansion : Written(s.name) /\ Enough(s) => f[s] = f[More(s)]}
             u == Types[t].underlying
             K == Cardinality(DOMAIN Types)
  <1>2. ASSUME NEW s \in Expansion
        PROVE  /\ More(s) \in Expansion /\ More(s).name = s.name
               /\ Expands(More(s)) <=> EndsInAlias(s.name)
    BY DEF Expansion, Expands
  <1>3. ASSUME NEW s \in Expansion, ~Expands(s) PROVE s \in T
    <2>1. SUFFICES ASSUME Enough(s) PROVE f[s] = f[More(s)]
      OBVIOUS
    <2>2. ~EndsInAlias(s.name)
      <3>1. SUFFICES ASSUME EndsInAlias(s.name) PROVE FALSE
        OBVIOUS
      <3>2. s.left \in Nat /\ ~(s.left > 0) /\ s.name \in Name
        BY <1>3, <3>1 DEF Expansion, Expands
      <3>3. Rank[s.name[Len(s.name)]] <= s.left /\ s.name[Len(s.name)] \in Aliases
        BY <2>1, <3>1, <3>2, ExpandedNames DEF Enough
      <3>4. QED
        BY <3>2, <3>3, Ranks
    <2>3. QED
      BY <1>1, <1>2, <1>3, <2>2
  <1>4. ASSUME NEW s \in Expansion, Expands(s), Shorter(s) \in Expansion, Shorter(s) \in T PROVE s \in T
    <2>1. SUFFICES ASSUME Written(s.name), Enough(s) PROVE f[s] = f[More(s)]
      OBVIOUS
    <2>2. Expands(More(s))
      BY <1>2, <1>4 DEF Expands
    <2>3. Shorter(More(s)) = More(Shorter(s))
      <3>1. s.left \in Nat
        BY DEF Expansion
      <3>2. (s.left + 1) - 1 = (s.left - 1) + 1
        BY <3>1
      <3>3. QED
        BY <3>2 DEF Shorter
    <2>4. f[Shorter(s)] = f[More(Shorter(s))]
      BY <1>4, <2>1, EnoughIsLeft
    <2>5. QED
      BY <1>1, <1>2, <1>4, <2>2, <2>3, <2>4
  <1> HIDE DEF T
  <1>5. \A s \in Expansion : s \in T
    BY <1>3, <1>4, ExpansionInduction
  <1>6. /\ t \in STRING /\ t \in DOMAIN Types /\ Types[t].alias /\ u \in Name /\ u \in Seq(STRING)
        /\ K \in Nat /\ Written(u)
    BY DeclaredTypes, AliasNumbers DEF Aliases, Name, NamesAreWritten
  <1>7. <<t>> \in Name /\ <<t>> # NoName /\ FrontOf(<<t>>) = NoName /\ Len(<<t>>) = 1 /\ <<t>>[1] = t
    BY <1>6, SingleWords
  <1>8. EndsInAlias(<<t>>) /\ Expanded(<<t>>) = u
    <2>1. EndsInAlias(<<t>>) /\ <<t>>[Len(<<t>>)] = t
      BY <1>6, <1>7 DEF EndsInAlias
    <2>2. Expanded(<<t>>) = FrontOf(<<t>>) \o u
      BY <1>7, <2>1, ExpandedNames
    <2>3. <<>> \o u = u
      BY <1>6
    <2>4. QED
      BY <1>7, <2>1, <2>2, <2>3 DEF NoName
  <1> DEFINE s == [name |-> u, left |-> K]
  <1>9. Whole(<<t>>) \in Expansion /\ Expands(Whole(<<t>>)) /\ Shorter(Whole(<<t>>)) = s
    <2>1. K + 1 > 0 /\ (K + 1) - 1 = K
      BY <1>6
    <2>2. QED
      BY <1>7, <1>8, <2>1, WholeNames DEF Whole, Expands, Shorter
  <1>10. Identity(<<t>>) = f[s]
    BY <1>1, <1>9
  <1>11. s \in Expansion /\ Written(s.name) /\ Enough(s)
    <2>1. s \in Expansion
      BY <1>6 DEF Expansion
    <2>2. EndsInAlias(u) => u[Len(u)] \in Aliases
      BY <1>6, ExpandedNames
    <2>3. QED
      BY <1>6, <2>1, <2>2, Ranks DEF Enough
  <1>12. f[s] = f[More(s)]
    BY <1>5, <1>11 DEF T
  <1>13. More(s) = Whole(u)
    BY DEF Whole
  <1>14. QED
    BY <1>1, <1>10, <1>12, <1>13

LEMMA FirstOfMany ==
    ASSUME NEW k \in Nat, k >= 1, k # 1
    PROVE  1 \in 1..(k - 1) /\ k - 1 >= 1
  OBVIOUS

\* A name that does not start with a package never leads to one of a package.
LEMMA HeadOfIdentity ==
    ASSUME NEW n \in Name, n # NoName, n[1] \notin Qualified
    PROVE  Identity(n) # NoName /\ Identity(n)[1] \in {n[1], Spelled(n[1])}
  <1>1. PICK f : /\ f = [s \in Expansion |-> IF Expands(s) THEN f[Shorter(s)] ELSE SpelledOut(s.name)]
                 /\ \A m : Identity(m) = f[Whole(m)]
    BY IdentityLoop
  <1> DEFINE Fine(m) == m # NoName /\ m[1] \in {n[1], Spelled(n[1])}
             T == {s \in Expansion : s.name # NoName /\ s.name[1] = n[1] => Fine(f[s])}
  <1>2. ASSUME NEW s \in Expansion, ~Expands(s) PROVE s \in T
    <2>1. SUFFICES ASSUME s.name # NoName, s.name[1] = n[1] PROVE Fine(f[s])
      OBVIOUS
    <2> DEFINE m == s.name
    <2>2. m \in Seq(STRING) /\ m # <<>>
      BY <2>1 DEF Expansion, Name, NoName
    <2>3. f[s] = Append(FrontOf(m), Spelled(m[Len(m)]))
      BY <1>1, <1>2, <2>1 DEF SpelledOut, FrontOf
    <2>4. /\ FrontOf(m) \in Seq(STRING) /\ Len(FrontOf(m)) = Len(m) - 1 /\ Len(m) \in Nat /\ Len(m) >= 1
          /\ \A i \in 1..(Len(m) - 1) : FrontOf(m)[i] = m[i]
          /\ m[Len(m)] \in STRING
      BY <2>2, FrontsOf
    <2>5. Spelled(m[Len(m)]) \in STRING
      BY <2>4, Spelling
    <2> DEFINE a == FrontOf(m)
               w == Spelled(m[Len(m)])
    <2>6. a \in Seq(STRING) /\ w \in STRING /\ f[s] = Append(a, w)
      BY <2>3, <2>4, <2>5
    <2>7. CASE Len(m) = 1
      <3>1. Len(a) = 0 /\ w = Spelled(n[1])
        BY <2>1, <2>4, <2>7
      <3> HIDE DEF a, w, m
      <3>2. Append(a, w) # <<>> /\ Append(a, w)[1] = w
        BY <2>6, <3>1
      <3>3. QED
        BY <2>6, <3>1, <3>2 DEF NoName
    <2>8. CASE Len(m) # 1
      <3>1. 1 \in 1..(Len(m) - 1) /\ Len(a) >= 1
        BY <2>4, <2>8, FirstOfMany
      <3>2. a[1] = n[1]
        BY <2>1, <2>4, <3>1
      <3> HIDE DEF a, w, m
      <3>3. Append(a, w) # <<>> /\ Append(a, w)[1] = a[1]
        BY <2>6, <3>1
      <3>4. QED
        BY <2>6, <3>2, <3>3 DEF NoName
    <2>9. QED
      BY <2>7, <2>8
  <1>3. ASSUME NEW s \in Expansion, Expands(s), Shorter(s) \in Expansion, Shorter(s) \in T PROVE s \in T
    <2>1. SUFFICES ASSUME s.name # NoName, s.name[1] = n[1] PROVE Fine(f[s])
      OBVIOUS
    <2> DEFINE m == s.name
               x == Expanded(m)
    <2>2. m \in Name /\ EndsInAlias(m) /\ m[Len(m)] \in Qualified
      BY <1>3, DeclaredTypes DEF Expansion, Expands, EndsInAlias
    <2>3. Len(m) # 1
      BY <2>1, <2>2
    <2>4. /\ x \in Seq(STRING) /\ Len(m) \in Nat /\ Len(m) >= 1
          /\ \A i \in 1..(Len(m) - 1) : x[i] = m[i]
          /\ \E l \in Nat : Len(x) = Len(m) - 1 + l
      BY <2>2, ExpandedWords, ExpandedNames DEF Name
    <2>5. x # <<>> /\ x[1] = n[1]
      <3> DEFINE k == Len(m)
      <3>1. 1 \in 1..(k - 1) /\ k - 1 >= 1 /\ k \in Nat
        BY <2>3, <2>4, FirstOfMany
      <3>2. \E l \in Nat : Len(x) = k - 1 + l
        BY <2>4
      <3>3. x[1] = n[1]
        BY <2>1, <2>4, <3>1
      <3> HIDE DEF k, x
      <3>4. Len(x) # 0
        BY <3>1, <3>2
      <3>5. QED
        BY <3>3, <3>4
    <2>6. Shorter(s).name = x
      BY DEF Shorter
    <2> HIDE DEF x
    <2>7. f[s] = f[Shorter(s)]
      BY <1>1, <1>3
    <2>8. QED
      BY <1>3, <2>5, <2>6, <2>7 DEF NoName
  <1> HIDE DEF T
  <1>4. \A s \in Expansion : s \in T
    BY <1>2, <1>3, ExpansionInduction
  <1>5. Whole(n) \in Expansion /\ Whole(n).name = n
    BY WholeNames DEF Whole
  <1>6. Whole(n) \in T
    BY <1>4, <1>5
  <1>7. Fine(f[Whole(n)])
    BY <1>5, <1>6 DEF T
  <1>8. QED
    BY <1>1, <1>7

\* The types that have methods and fields are those of the words with a package.
LEMMA NamedWords ==
    ASSUME NEW w \in Qualified
    PROVE  /\ w \in STRING /\ w # "*" /\ <<w>> \in Name /\ Named(<<w>>) /\ Word(<<w>>) = w
           /\ receiverID(<<w>>) = <<w>> /\ ~HasPrefix(<<w>>, {"*"})
  <1>1. w \in STRING /\ w # "*"
    BY ResolutionAssumption
  <1>2. QED
    BY <1>1, SingleWords DEF Named, Word

LEMMA WordBase ==
    ASSUME NEW w \in Qualified, w \notin Aliases
    PROVE  Identity(<<w>>) = <<w>> /\ BaseType(<<w>>) = <<w>> /\ BaseType(<<"*">> \o <<w>>) = <<w>>
  <1>1. w \in STRING /\ w # "*" /\ <<w>> \in Name /\ receiverID(<<w>>) = <<w>>
    BY NamedWords
  <1>2. Identity(<<w>>) = <<w>>
    BY <1>1, WordIdentity, Spelling
  <1>3. Identity(<<"*">> \o <<w>>) = <<"*">> \o <<w>>
    BY <1>1, <1>2, IdentityOfPointer
  <1>4. receiverID(<<"*">> \o <<w>>) = <<w>>
    BY <1>1, Pointers
  <1>5. QED
    BY <1>1, <1>2, <1>3, <1>4 DEF BaseType

\* What is not the name of a type with a package does not lead to one.
LEMMA UnnamedBase ==
    ASSUME NEW n \in Name, Written(n), ~HasPrefix(n, {"*"}), ~Named(n)
    PROVE  ~Named(BaseType(n))
  <1>1. CASE n = NoName
    <2>1. BaseType(n) = NoName
      BY <1>1, NoNameIdentity DEF BaseType, receiverID, HasPrefix
    <2>2. QED
      BY <2>1 DEF Named
  <1>2. CASE n # NoName
    <2> DEFINE i == Identity(n)
    <2>1. n \in Seq(STRING) /\ n # <<>> /\ receiverID(n) = n /\ n[1] # "*"
      BY <1>2 DEF Name, NoName, receiverID, HasPrefix
    <2>2. n[1] \in STRING /\ Len(n) \in Nat /\ Len(n) >= 1
      BY <2>1, FrontsOf
    <2>3. n[1] \notin Qualified
      <3>1. CASE Len(n) = 1
        BY <1>2, <2>1, <3>1 DEF Named
      <3>2. CASE Len(n) # 1
        <4>1. 1 \in 1..(Len(n) - 1)
          BY <2>2, <3>2, FirstOfMany
        <4>2. QED
          BY <4>1 DEF Written
      <3>3. QED
        BY <3>1, <3>2
    <2>4. i # NoName /\ i[1] \in {n[1], Spelled(n[1])} /\ i \in Name
      BY <1>2, <2>3, HeadOfIdentity, IdentityType
    <2>5. i[1] \notin Qualified /\ i[1] # "*"
      BY <2>1, <2>2, <2>3, <2>4, Spelling
    <2> HIDE DEF i
    <2>6. Head(i) = i[1]
      BY <2>4 DEF Name, NoName
    <2>7. ~HasPrefix(i, {"*"}) /\ receiverID(i) = i
      BY <2>5, <2>6 DEF HasPrefix, receiverID
    <2>8. BaseType(n) = i
      BY <2>7 DEF BaseType, i
    <2>9. QED
      BY <2>5, <2>7, <2>8 DEF Named
  <1>3. QED
    BY <1>1, <1>2

\* A pointer has the base type of what it points to, if a selector applies to it.
LEMMA SelectableTypes ==
    ASSUME NEW n \in Name, Selectable(n)
    PROVE  /\ BaseType(receiverID(n)) = BaseType(n) /\ receiverID(n) \in Name
           /\ ~HasPrefix(receiverID(n), {"*"}) /\ receiverID(receiverID(n)) = receiverID(n)
           /\ Selectable(receiverID(n)) /\ receiverID(BaseType(n)) = BaseType(n)
           /\ BaseType(n) \in Name
  <1>1. receiverID(n) \in Name /\ Identity(n) \in Name /\ BaseType(n) \in Name
    BY Pointers, IdentityType DEF BaseType
  <1>2. ~HasPrefix(BaseType(n), {"*"})
    BY DEF Selectable
  <1>3. CASE HasPrefix(n, {"*"})
    <2> DEFINE m == receiverID(n)
    <2>1. n = <<"*">> \o m /\ m \in Name
      BY <1>3, Pointers
    <2> HIDE DEF m
    <2>2. Identity(n) = <<"*">> \o Identity(m) /\ Identity(m) \in Name
      BY <2>1, IdentityOfPointer, IdentityType
    <2>3. BaseType(n) = Identity(m)
      BY <2>2, Pointers DEF BaseType
    <2>4. BaseType(m) = Identity(m)
      BY <1>2, <2>3 DEF BaseType, receiverID
    <2>5. ~HasPrefix(m, {"*"})
      <3>1. SUFFICES ASSUME HasPrefix(m, {"*"}) PROVE FALSE
        OBVIOUS
      <3>2. m = <<"*">> \o receiverID(m) /\ receiverID(m) \in Name
        BY <2>1, <3>1, Pointers
      <3>3. Identity(m) = <<"*">> \o Identity(receiverID(m)) /\ Identity(receiverID(m)) \in Name
        BY <3>2, IdentityOfPointer, IdentityType
      <3>4. HasPrefix(Identity(m), {"*"})
        BY <3>3, Pointers
      <3>5. QED
        BY <1>2, <2>3, <3>4
    <2>6. receiverID(m) = m /\ receiverID(BaseType(n)) = BaseType(n)
      BY <1>2, <2>5 DEF receiverID
    <2>7. QED
      BY <1>1, <2>1, <2>3, <2>4, <2>5, <2>6 DEF m, Selectable
  <1>4. CASE ~HasPrefix(n, {"*"})
    <2>1. receiverID(n) = n /\ receiverID(BaseType(n)) = BaseType(n)
      BY <1>2, <1>4 DEF receiverID
    <2>2. QED
      BY <1>1, <1>4, <2>1
  <1>5. QED
    BY <1>3, <1>4

\* The pointer in front of a name is not its last word.
LEMMA ReceiverWords ==
    ASSUME NEW n \in Name
    PROVE  /\ Written(n) => Written(receiverID(n))
           /\ EndsInAlias(receiverID(n)) =>
                EndsInAlias(n) /\ n[Len(n)] = receiverID(n)[Len(receiverID(n))]
  <1> DEFINE m == receiverID(n)
  <1>1. CASE HasPrefix(n, {"*"})
    <2>1. n = <<"*">> \o m /\ m \in Seq(STRING) /\ n # NoName /\ "*" \in STRING
      BY <1>1, Pointers, WordsAssumption DEF Name, HasPrefix
    <2> HIDE DEF m
    <2>2. Len(n) = Len(m) + 1 /\ Len(m) \in Nat /\ \A i \in 1..Len(m) : n[i + 1] = m[i]
      BY <2>1, Words
    <2>3. ASSUME Written(n) PROVE Written(m)
      <3>1. \A i \in 1..(Len(n) - 1) : n[i] \notin Qualified
        BY <2>3 DEF Written
      <3> DEFINE k == Len(m)
      <3>2. k \in Nat /\ \A i \in 1..k : n[i] \notin Qualified
        BY <2>2, <3>1
      <3>3. \A i \in 1..k : n[i + 1] = m[i]
        BY <2>2
      <3> HIDE DEF k
      <3>4. \A i \in 1..(k - 1) : i \in 1..k /\ i + 1 \in 1..k
        BY <3>2
      <3>5. \A i \in 1..(k - 1) : m[i] \notin Qualified
        BY <3>2, <3>3, <3>4
      <3>6. QED
        BY <3>5 DEF k, Written
    <2>4. ASSUME EndsInAlias(m) PROVE EndsInAlias(n) /\ n[Len(n)] = m[Len(m)]
      <3>1. m # <<>>
        BY <2>4 DEF EndsInAlias, NoName
      <3>2. n[Len(n)] = m[Len(m)]
        BY <2>1, <3>1, FrontsOfPrefixed
      <3>3. QED
        BY <2>1, <2>4, <3>2 DEF EndsInAlias
    <2>5. QED
      BY <2>3, <2>4 DEF m
  <1>2. CASE ~HasPrefix(n, {"*"})
    BY <1>2, Pointers
  <1>3. QED
    BY <1>1, <1>2

\* What is known of an alias in a valid program.
LEMMA AliasTypes ==
    ASSUME ValidProgram, NEW t \in Aliases
    PROVE  LET u == Types[t].underlying
           IN  /\ t \in DOMAIN Types /\ t \in Qualified /\ Types[t].alias /\ ~IsInterfaceType(t)
               /\ DOMAIN FieldsOf[t] = {}
               /\ u \in Name /\ Written(u) /\ receiverID(u) \in Name /\ Written(receiverID(u))
               /\ Identity(<<t>>) = Identity(u) /\ BaseType(<<t>>) = BaseType(u)
               /\ Below(u, t) /\ Below(receiverID(u), t)
               /\ Selectable(<<t>>) => /\ BaseType(receiverID(u)) = BaseType(<<t>>)
                                       /\ Selectable(receiverID(u)) /\ ~HasPrefix(receiverID(u), {"*"})
                                       /\ receiverID(receiverID(u)) = receiverID(u)
  <1> DEFINE u == Types[t].underlying
  <1>1. t \in DOMAIN Types /\ t \in Qualified /\ Types[t].alias /\ u \in Name
    BY DeclaredTypes DEF Aliases
  <1>2. Written(u)
    BY <1>1 DEF ValidProgram, NamesAreWritten
  <1>3. ~IsInterfaceType(t) /\ DOMAIN FieldsOf[t] = {}
    BY DEF ValidProgram, AliasesDeclareNothing
  <1>4. receiverID(u) \in Name /\ Written(receiverID(u))
    BY <1>1, <1>2, Pointers, ReceiverWords
  <1>5. Identity(<<t>>) = Identity(u)
    BY IdentityOfAlias DEF ValidProgram
  <1>6. BaseType(<<t>>) = BaseType(u)
    BY <1>5 DEF BaseType
  <1>7. Below(u, t)
    BY Ranks DEF ValidProgram
  <1>8. Below(receiverID(u), t)
    BY <1>1, <1>7, ReceiverWords DEF Below
  <1> HIDE DEF u
  <1>9. ASSUME Selectable(<<t>>)
        PROVE  /\ BaseType(receiverID(u)) = BaseType(<<t>>)
               /\ Selectable(receiverID(u)) /\ ~HasPrefix(receiverID(u), {"*"})
               /\ receiverID(receiverID(u)) = receiverID(u)
    <2>1. Selectable(u)
      BY <1>6, <1>9 DEF Selectable
    <2>2. QED
      BY <1>1, <1>6, <2>1, SelectableTypes
  <1>10. QED
    BY <1>1, <1>2, <1>3, <1>4, <1>5, <1>6, <1>7, <1>8, <1>9 DEF u

-----------------------------------------------------------------------------
(* What the workspace declares. *)

Definitions == {d.symbol : d \in Declared}

\* The requirements of interfaces included.
Workspace == Definitions \cup {<<m.of, m.name>> : m \in Methods}

\* What has a type in its name is one of its methods.
LEMMA MethodsOfTypes ==
    ASSUME AliasesDeclareNothing, NEW w \in Qualified, NEW name, <<w, name>> \in Workspace
    PROVE  /\ w \in DOMAIN Types /\ w \notin Aliases
           /\ <<w, name>> \in Definitions \/ Requires(<<w>>, name)
  <1>1. PICK m \in Methods : m.of = w /\ m.name = name
    <2>1. CASE \E m \in Methods : <<w, name>> = <<m.of, m.name>>
      BY <2>1
    <2>2. CASE <<w, name>> \in Definitions
      <3>1. PICK d \in Declared : d.symbol = <<w, name>>
        BY <2>2 DEF Definitions
      <3>2. CASE \E f \in Functions : d = [symbol |-> <<f.owner, f.name>>, package |-> f.owner, file |-> f.file]
        <4>1. PICK f \in Functions : d.symbol = <<f.owner, f.name>>
          BY <3>2
        <4>2. PICK p \in Packages : p.id = w
          BY <3>1, <4>1, ResolutionAssumption
        <4>3. QED
          BY <4>2, ResolutionAssumption
      <3>3. CASE \E m \in Methods : d = [symbol |-> <<m.of, m.name>>, package |-> Owner[m.of], file |-> m.file]
        BY <3>1, <3>3
      <3>4. QED
        BY <3>2, <3>3 DEF Declared
    <2>3. QED
      BY <2>1, <2>2 DEF Workspace
  <1>2. w \in DOMAIN Types /\ w \notin Aliases
    BY <1>1, MethodTypes DEF AliasesDeclareNothing
  <1>3. CASE IsInterfaceType(w)
    BY <1>1, <1>2, <1>3 DEF Requires
  <1>4. CASE ~IsInterfaceType(w)
    <2> DEFINE d == [symbol |-> <<m.of, m.name>>, package |-> Owner[m.of], file |-> m.file]
    <2>1. d \in Declared
      BY <1>1, <1>4 DEF Declared
    <2>2. d.symbol = <<w, name>>
      BY <1>1
    <2>3. QED
      BY <1>2, <2>1, <2>2 DEF Definitions
  <1>5. QED
    BY <1>2, <1>3, <1>4

LEMMA RequiredMethods ==
    ASSUME NEW t, NEW name, Requires(<<t>>, name)
    PROVE  <<t, name>> \in Workspace /\ t \in DOMAIN Types
  <1>1. PICK m \in Methods : m.of = t /\ m.name = name
    BY DEF Requires
  <1>2. QED
    BY <1>1, MethodTypes DEF Workspace

\* The types of which a type with a package has the methods.
LEMMA NamedTypes ==
    ASSUME NEW n \in Name, ~HasPrefix(n, {"*"}), Named(n)
    PROVE  n[1] \in Qualified /\ n = <<n[1]>> /\ Word(n) = n[1]
  <1>1. receiverID(n) = n
    BY DEF receiverID
  <1>2. QED
    BY <1>1, OneWord DEF Named, Word

-----------------------------------------------------------------------------
(* What the search for a method finds. *)

\* A method that is found is that of the base type, and the workspace declares it.
LEMMA MethodIsDeclared ==
    ASSUME ValidProgram, NEW n \in Name, Selectable(n), NEW name, NEW known \in SUBSET Files,
           method(n, name, known).symbol # NoSymbol
    PROVE  /\ method(n, name, known).symbol = <<BaseType(n)[1], name>>
           /\ <<BaseType(n)[1], name>> \in Workspace
           /\ Named(BaseType(n)) /\ BaseType(n)[1] \in DOMAIN Types
  <1>1. PICK f :
            /\ f = [s \in Search |-> IF Follows(s, name) THEN f[Following(s)] ELSE MethodAt(s, name)]
            /\ \A m, k : method(m, name, k) = f[[type |-> m, known |-> k, seen |-> {}]]
    BY MethodLoop
  <1> DEFINE Fine(s) == /\ f[s].symbol = <<BaseType(s.type)[1], name>>
                        /\ <<BaseType(s.type)[1], name>> \in Workspace
                        /\ Named(BaseType(s.type)) /\ BaseType(s.type)[1] \in DOMAIN Types
             T == {s \in Search : Selectable(s.type) /\ f[s].symbol # NoSymbol => Fine(s)}
             GoOn == {s \in Search : Follows(s, name)}
             next == [s \in Search |-> IF Follows(s, name) THEN Following(s) ELSE s]
             size == [s \in Search |-> SearchSize(s)]
  <1>2. Ends(Search, GoOn, next, size)
    BY FollowingIsSmaller, SearchSizes DEF Ends
  <1>3. ASSUME NEW s \in Search, s \notin GoOn PROVE s \in T
    <2>1. SUFFICES ASSUME Selectable(s.type), f[s].symbol # NoSymbol PROVE Fine(s)
      OBVIOUS
    <2>2. f[s] = MethodAt(s, name) /\ s.type \in Name
      BY <1>1, <1>3 DEF Search
    <2>3. /\ IsLoaded(s)
          /\ \/ Requires(s.type, name) /\ f[s].symbol = <<s.type[1], name>>
             \/ Inherits(s, name) /\ f[s].symbol = <<WrittenAs(s)[1], name>>
      BY <2>1, <2>2 DEF MethodAt, Failed
    <2>4. s.type[1] \in DOMAIN Types /\ s.type = <<s.type[1]>> /\ s.type[1] \in Qualified
      BY <2>2, <2>3, KnownNames, DeclaredTypes DEF IsLoaded
    <2>5. CASE Requires(s.type, name) /\ f[s].symbol = <<s.type[1], name>>
      <3> DEFINE t == s.type[1]
      <3>1. Requires(<<t>>, name) /\ IsInterfaceType(t)
        BY <2>4, <2>5 DEF Requires
      <3>2. t \notin Aliases
        BY <3>1 DEF ValidProgram, AliasesDeclareNothing
      <3>3. BaseType(<<t>>) = <<t>> /\ Named(<<t>>) /\ <<t, name>> \in Workspace
        BY <2>4, <3>1, <3>2, WordBase, NamedWords, RequiredMethods
      <3>4. <<t>>[1] = t
        OBVIOUS
      <3>5. QED
        BY <2>4, <2>5, <3>3, <3>4
    <2>6. CASE Inherits(s, name) /\ f[s].symbol = <<WrittenAs(s)[1], name>>
      <3> DEFINE t == s.type[1]
                 v == WrittenAs(s)[1]
      <3>1. t \in Aliases /\ s.type = <<t>>
        BY <2>4, <2>6 DEF Inherits, TypeOf, Aliases
      <3>2. WrittenAs(s) = receiverID(Types[t].underlying)
        BY DEF WrittenAs, TypeOf
      <3>3. WrittenAs(s) \in Name /\ ~HasPrefix(WrittenAs(s), {"*"}) /\ BaseType(WrittenAs(s)) = BaseType(s.type)
        BY <2>1, <3>1, <3>2, AliasTypes
      <3>4. v \in Qualified /\ WrittenAs(s) = <<v>>
        BY <2>6, <3>3, NamedTypes DEF Inherits
      <3>5. <<v, name>> \in Workspace
        BY <2>6 DEF Inherits, functions, Workspace, Definitions
      <3> HIDE DEF v
      <3>6. v \in DOMAIN Types /\ v \notin Aliases
        BY <3>4, <3>5, MethodsOfTypes DEF ValidProgram
      <3>7. BaseType(<<v>>) = <<v>> /\ Named(<<v>>) /\ <<v>>[1] = v
        BY <3>4, <3>6, WordBase, NamedWords
      <3>8. BaseType(s.type) = <<v>> /\ f[s].symbol = <<v, name>>
        BY <2>6, <3>3, <3>4, <3>7
      <3>9. QED
        BY <3>5, <3>6, <3>7, <3>8
    <2>7. QED
      BY <2>3, <2>5, <2>6
  <1>4. ASSUME NEW s \in Search, s \in GoOn, next[s] \in T PROVE s \in T
    <2>1. SUFFICES ASSUME Selectable(s.type), f[s].symbol # NoSymbol PROVE Fine(s)
      OBVIOUS
    <2>2. f[s] = f[Following(s)] /\ Following(s) \in T /\ s.type \in Name /\ Follows(s, name)
      BY <1>1, <1>4 DEF Search
    <2>3. s.type[1] \in DOMAIN Types /\ s.type = <<s.type[1]>>
      BY <2>2, KnownNames DEF Follows, IsLoaded
    <2> DEFINE t == s.type[1]
    <2>4. t \in Aliases /\ s.type = <<t>>
      BY <2>2, <2>3 DEF Follows, TypeOf, Aliases
    <2>5. Following(s).type = receiverID(Types[t].underlying)
      BY DEF Following, WrittenAs, TypeOf
    <2>6. BaseType(Following(s).type) = BaseType(s.type) /\ Selectable(Following(s).type)
      BY <2>1, <2>4, <2>5, AliasTypes
    <2>7. QED
      BY <2>1, <2>2, <2>6
  <1>5. \A s \in Search : s \in T
    <2>1. HoldsBackwards(Search, GoOn, next, T)
      BY <1>3, <1>4 DEF HoldsBackwards
    <2> HIDE DEF GoOn, next, size, T
    <2>2. QED
      BY <1>2, <2>1, LoopInduction
  <1> DEFINE s == [type |-> n, known |-> known, seen |-> {}]
  <1>6. s \in Search
    BY DEF Search
  <1>7. s \in T
    BY <1>5, <1>6
  <1>8. QED
    BY <1>1, <1>6, <1>7

LEMMA BelowOthers ==
    ASSUME ChainsEnd, NEW n \in Name, EndsInAlias(n)
    PROVE  LET t == n[Len(n)]
           IN  /\ t \in Aliases /\ ~Below(n, t)
               /\ \A m \in Name : \A a \in Aliases : Below(n, a) /\ Below(m, t) => Below(m, a)
  <1> DEFINE t == n[Len(n)]
  <1>1. t \in Aliases
    BY ExpandedNames
  <1>2. Rank[t] \in Nat
    BY <1>1, Ranks
  <1>3. ~Below(n, t)
    BY <1>2 DEF Below
  <1>4. ASSUME NEW m \in Name, NEW a \in Aliases, Below(n, a), Below(m, t), EndsInAlias(m)
        PROVE  Rank[m[Len(m)]] < Rank[a]
    <2>1. Rank[m[Len(m)]] \in Nat /\ Rank[a] \in Nat
      BY <1>4, ExpandedNames, Ranks
    <2>2. Rank[m[Len(m)]] < Rank[t] /\ Rank[t] < Rank[a]
      BY <1>4 DEF Below
    <2>3. QED
      BY <1>2, <2>1, <2>2
  <1>5. QED
    BY <1>1, <1>3, <1>4 DEF Below

LEMMA AliasWords ==
    ASSUME NEW a \in Aliases
    PROVE  <<a>> \in Name /\ EndsInAlias(<<a>>) /\ <<a>>[Len(<<a>>)] = a /\ Named(<<a>>) /\ <<a>> # NoName
  <1>1. a \in STRING /\ a \in Qualified /\ a \in DOMAIN Types /\ Types[a].alias
    BY DeclaredTypes DEF Aliases
  <1>2. <<a>> \in Name /\ <<a>> # NoName /\ Len(<<a>>) = 1 /\ Named(<<a>>)
    BY <1>1, SingleWords, NamedWords
  <1>3. QED
    BY <1>1, <1>2 DEF EndsInAlias

\* Every alias in C is loaded, and what it stands for is in C.
Closed(C, known) ==
    \A t \in Aliases :
        <<t>> \in C /\ Types[t].underlying # NoName =>
            Types[t].file \in known /\ receiverID(Types[t].underlying) \in C

DeclaringFiles(name) == {d.file : d \in {d \in Declared : d.symbol[2] = name}}

\* The search for a method is at a type of which no method of the name is declared,
\* and went through aliases that stand for it.
Goes(s, name) ==
    /\ DeclaringFiles(name) \subseteq s.known
    /\ Selectable(s.type) /\ Written(s.type) /\ ~HasPrefix(s.type, {"*"})
    /\ Named(s.type) => <<s.type[1], name>> \notin Definitions
    /\ \A x \in s.seen : \E a \in Aliases : x = <<a>> /\ Below(s.type, a)

LEMMA NothingAtType ==
    ASSUME ValidProgram, NEW s \in Search, NEW name, Goes(s, name), ~Follows(s, name),
           ~MethodAt(s, name).failed, MethodAt(s, name).symbol = NoSymbol
    PROVE  /\ Named(BaseType(s.type)) => <<BaseType(s.type)[1], name>> \notin Workspace
           /\ s.known \subseteq MethodAt(s, name).known
           /\ Closed({s.type}, MethodAt(s, name).known)
  <1>1. s.type \in Name /\ Selectable(s.type) /\ Written(s.type) /\ ~HasPrefix(s.type, {"*"})
    BY DEF Search, Goes
  <1>2. s.type \notin s.seen
    <2>1. SUFFICES ASSUME NEW a \in Aliases, s.type = <<a>>, Below(s.type, a) PROVE FALSE
      BY DEF Goes
    <2>2. QED
      BY <2>1, AliasWords, BelowOthers DEF ValidProgram
  <1>3. CASE ~Named(s.type)
    <2>1. MethodAt(s, name) = [failed |-> FALSE, symbol |-> NoSymbol, known |-> s.known]
      BY <1>3 DEF MethodAt
    <2>2. ~Named(BaseType(s.type))
      BY <1>1, <1>3, UnnamedBase
    <2>3. \A a \in Aliases : <<a>> # s.type
      BY <1>3, AliasWords
    <2>4. QED
      BY <2>1, <2>2, <2>3 DEF Closed
  <1>4. CASE Named(s.type)
    <2> DEFINE w == s.type[1]
    <2>1. w \in Qualified /\ s.type = <<w>>
      BY <1>1, <1>4, NamedTypes
    <2>2. Readable(FileFor(s.type))
      BY <1>2, <1>4 DEF MethodAt, Failed
    <2>3. <<w, name>> \notin Definitions
      BY <1>4 DEF Goes
    <2>4. MethodAt(s, name).known = Loaded(s) /\ s.known \subseteq Loaded(s)
      BY <1>2, <1>4, <2>2 DEF MethodAt, Loaded
    <2>5. ASSUME w \in DOMAIN Types
          PROVE  /\ IsLoaded(s) /\ Types[w].file \in Loaded(s) /\ TypeOf(s.type) = Types[w]
                 /\ ~Requires(s.type, name) /\ ~Inherits(s, name)
      <3>1. FileFor(<<w>>) = {Types[w].file} /\ IsKnown(<<w>>, Loaded(s)) /\ Types[w].file \in Loaded(s)
        BY <2>1, <2>5, TypeNamesAreNamed DEF Loaded
      <3>2. IsLoaded(s)
        BY <1>2, <1>4, <2>1, <2>2, <3>1 DEF IsLoaded
      <3>3. ~Requires(s.type, name)
        BY <1>2, <1>4, <2>2, <3>2 DEF MethodAt, NoSymbol
      <3>4. ~Inherits(s, name)
        BY <1>2, <1>4, <2>2, <3>2, <3>3 DEF MethodAt, NoSymbol
      <3>5. QED
        BY <3>1, <3>2, <3>3, <3>4 DEF TypeOf
    <2>6. CASE w \notin Aliases
      <3>1. BaseType(s.type) = <<w>> /\ <<w>>[1] = w
        BY <2>1, <2>6, WordBase
      <3>2. <<w, name>> \notin Workspace
        <4>1. SUFFICES ASSUME <<w, name>> \in Workspace PROVE FALSE
          OBVIOUS
        <4>2. w \in DOMAIN Types /\ Requires(<<w>>, name)
          BY <2>1, <2>3, <4>1, MethodsOfTypes DEF ValidProgram
        <4>3. QED
          BY <2>1, <2>5, <4>2
      <3>3. \A a \in Aliases : <<a>> # s.type
        BY <2>1, <2>6
      <3>4. QED
        BY <2>4, <3>1, <3>2, <3>3 DEF Closed
    <2>7. CASE w \in Aliases
      <3>1. w \in DOMAIN Types /\ Types[w].alias
        BY <2>7 DEF Aliases
      <3>2. Types[w].underlying = NoName
        BY <2>5, <3>1 DEF Follows
      <3>3. BaseType(s.type) = NoName
        <4>1. BaseType(<<w>>) = BaseType(NoName)
          BY <2>7, <3>2, AliasTypes
        <4>2. QED
          BY <2>1, <4>1, NoNameIdentity DEF BaseType, receiverID, HasPrefix
      <3>4. ~Named(BaseType(s.type))
        BY <3>3 DEF Named
      <3>5. \A a \in Aliases : <<a>> = s.type => a = w
        BY <2>1
      <3> HIDE DEF w
      <3>6. QED
        BY <2>4, <3>2, <3>4, <3>5 DEF Closed
    <2>8. QED
      BY <2>6, <2>7
  <1>5. QED
    BY <1>3, <1>4

LEMMA FollowedAlias ==
    ASSUME ValidProgram, NEW s \in Search, NEW name, Follows(s, name), Goes(s, name)
    PROVE  /\ \E t \in Aliases : /\ s.type = <<t>> /\ Types[t].file \in Loaded(s)
                                 /\ Following(s).type = receiverID(Types[t].underlying)
           /\ BaseType(Following(s).type) = BaseType(s.type)
           /\ Goes(Following(s), name)
           /\ Following(s).known = Loaded(s) /\ s.known \subseteq Loaded(s)
  <1>1. s.type \in Name /\ Selectable(s.type) /\ IsKnown(s.type, Loaded(s)) /\ ~Inherits(s, name)
    BY DEF Search, Goes, Follows, IsLoaded
  <1>2. PICK t : t = s.type[1] /\ t \in DOMAIN Types /\ s.type = <<t>>
    BY <1>1, KnownNames
  <1>3. t \in Aliases /\ Types[t].file \in Loaded(s) /\ TypeOf(s.type).alias
    BY <1>1, <1>2, TypeNamesAreNamed DEF Follows, TypeOf, Aliases
  <1> DEFINE v == receiverID(Types[t].underlying)
  <1>4. Following(s).type = v /\ WrittenAs(s) = v
    BY <1>2 DEF Following, WrittenAs, TypeOf
  <1>5. /\ v \in Name /\ Written(v) /\ BaseType(v) = BaseType(<<t>>) /\ Selectable(v)
        /\ ~HasPrefix(v, {"*"}) /\ Below(v, t)
    BY <1>1, <1>2, <1>3, AliasTypes
  <1> HIDE DEF v
  <1>6. /\ Following(s).known = Loaded(s) /\ s.known \subseteq Loaded(s)
        /\ Following(s).seen = s.seen \cup {s.type}
    BY DEF Following, Loaded
  <1>7. ASSUME Named(v) PROVE <<v[1], name>> \notin Definitions
    <2>1. <<v[1], name>> \notin functions(Loaded(s))
      BY <1>1, <1>3, <1>4, <1>7 DEF Inherits
    <2>2. SUFFICES ASSUME NEW d \in Declared, d.symbol = <<v[1], name>> PROVE FALSE
      BY DEF Definitions
    <2>3. d.symbol[2] = name
      BY <2>2
    <2>4. d.file \in DeclaringFiles(name)
      BY <2>3 DEF DeclaringFiles
    <2>5. d.file \in Loaded(s)
      BY <1>6, <2>4 DEF Goes
    <2>6. QED
      BY <2>1, <2>2, <2>5 DEF functions
  <1>8. ASSUME NEW x \in Following(s).seen PROVE \E a \in Aliases : x = <<a>> /\ Below(v, a)
    <2>1. CASE x = s.type
      BY <1>2, <1>3, <1>5, <2>1
    <2>2. CASE x # s.type
      <3>1. PICK a \in Aliases : x = <<a>> /\ Below(s.type, a)
        BY <1>6, <1>8, <2>2 DEF Goes
      <3>2. EndsInAlias(<<t>>) /\ <<t>>[Len(<<t>>)] = t
        BY <1>3, AliasWords
      <3>3. Below(v, a)
        BY <1>1, <1>2, <1>5, <3>1, <3>2, BelowOthers DEF ValidProgram
      <3>4. QED
        BY <3>1, <3>3
    <2>3. QED
      BY <2>1, <2>2
  <1>9. Goes(Following(s), name)
    BY <1>4, <1>5, <1>6, <1>7, <1>8 DEF Goes
  <1>10. QED
    BY <1>2, <1>3, <1>4, <1>5, <1>6, <1>9 DEF v

\* A search that finds nothing got to the end: no method of the name is declared, and
\* the aliases on the way are loaded.
LEMMA NoMethodIsDeclared ==
    ASSUME ValidProgram, NEW n \in Name, NEW name, NEW known \in SUBSET Files,
           Goes([type |-> n, known |-> known, seen |-> {}], name),
           ~method(n, name, known).failed, method(n, name, known).symbol = NoSymbol
    PROVE  /\ Named(BaseType(n)) => <<BaseType(n)[1], name>> \notin Workspace
           /\ \E C : n \in C /\ Closed(C, method(n, name, known).known)
  <1>1. PICK f :
            /\ f = [s \in Search |-> IF Follows(s, name) THEN f[Following(s)] ELSE MethodAt(s, name)]
            /\ \A m, k : method(m, name, k) = f[[type |-> m, known |-> k, seen |-> {}]]
    BY MethodLoop
  <1> DEFINE Ended(s) == /\ Named(BaseType(s.type)) => <<BaseType(s.type)[1], name>> \notin Workspace
                         /\ s.known \subseteq f[s].known
                         /\ \E C : s.type \in C /\ Closed(C, f[s].known)
             T == {s \in Search : Goes(s, name) /\ ~f[s].failed /\ f[s].symbol = NoSymbol => Ended(s)}
             GoOn == {s \in Search : Follows(s, name)}
             next == [s \in Search |-> IF Follows(s, name) THEN Following(s) ELSE s]
             size == [s \in Search |-> SearchSize(s)]
  <1>2. Ends(Search, GoOn, next, size)
    BY FollowingIsSmaller, SearchSizes DEF Ends
  <1>3. ASSUME NEW s \in Search, s \notin GoOn PROVE s \in T
    <2>1. SUFFICES ASSUME Goes(s, name), ~f[s].failed, f[s].symbol = NoSymbol PROVE Ended(s)
      OBVIOUS
    <2>2. f[s] = MethodAt(s, name) /\ ~Follows(s, name)
      BY <1>1, <1>3
    <2>3. s.type \in {s.type}
      OBVIOUS
    <2>4. QED
      BY <2>1, <2>2, <2>3, NothingAtType
  <1>4. ASSUME NEW s \in Search, s \in GoOn, next[s] \in T PROVE s \in T
    <2>1. SUFFICES ASSUME Goes(s, name), ~f[s].failed, f[s].symbol = NoSymbol PROVE Ended(s)
      OBVIOUS
    <2>2. f[s] = f[Following(s)] /\ Following(s) \in T /\ Follows(s, name)
      BY <1>1, <1>4
    <2>3. /\ \E t \in Aliases : /\ s.type = <<t>> /\ Types[t].file \in Loaded(s)
                                /\ Following(s).type = receiverID(Types[t].underlying)
          /\ BaseType(Following(s).type) = BaseType(s.type)
          /\ Goes(Following(s), name)
          /\ Following(s).known = Loaded(s) /\ s.known \subseteq Loaded(s)
      BY <2>1, <2>2, FollowedAlias
    <2>4. Ended(Following(s))
      BY <2>1, <2>2, <2>3
    <2>5. PICK C : Following(s).type \in C /\ Closed(C, f[s].known)
      BY <2>2, <2>4
    <2>6. PICK t \in Aliases : /\ s.type = <<t>> /\ Types[t].file \in Loaded(s)
                               /\ Following(s).type = receiverID(Types[t].underlying)
      BY <2>3
    <2>7. Types[t].file \in f[s].known
      BY <2>2, <2>3, <2>4, <2>6
    <2>8. Closed(C \cup {s.type}, f[s].known)
      <3>1. \A a \in Aliases : <<a>> = s.type => a = t
        BY <2>6
      <3>2. QED
        BY <2>5, <2>6, <2>7, <3>1 DEF Closed
    <2>9. s.type \in C \cup {s.type}
      OBVIOUS
    <2>10. QED
      BY <2>2, <2>3, <2>4, <2>8, <2>9
  <1>5. \A s \in Search : s \in T
    <2>1. HoldsBackwards(Search, GoOn, next, T)
      BY <1>3, <1>4 DEF HoldsBackwards
    <2> HIDE DEF GoOn, next, size, T
    <2>2. QED
      BY <1>2, <2>1, LoopInduction
  <1> DEFINE s == [type |-> n, known |-> known, seen |-> {}]
  <1>6. s \in Search /\ s.type = n
    BY DEF Search
  <1>7. s \in T /\ f[s] = method(n, name, known)
    BY <1>1, <1>5, <1>6
  <1> HIDE DEF s
  <1>8. Goes(s, name)
    BY DEF s
  <1>9. QED
    BY <1>6, <1>7, <1>8

-----------------------------------------------------------------------------
(* What a receiver is an alias of. *)

LEMMA OnwardIsSmaller ==
    ASSUME NEW s \in Chain, NEW known, LeadsOn(s, known)
    PROVE  /\ Onward(s) \in Chain
           /\ SearchSize(Onward(s)) < SearchSize(s)
  <1>1. s.type \in Name /\ s.pointer \in BOOLEAN /\ s.seen \subseteq Name
    BY DEF Chain
  <1>2. s.type \notin s.seen /\ IsKnown(s.type, known)
    BY DEF LeadsOn, KnownAlias
  <1>3. s.type[1] \in DOMAIN Types /\ s.type = <<s.type[1]>>
    BY <1>1, <1>2, KnownNames
  <1> DEFINE u == TypeOf(s.type).underlying
  <1>4. Onward(s) \in Chain
    <2>1. receiverID(u) \in Name
      BY <1>3, DeclaredTypes, ReceiverTypes DEF TypeOf
    <2>2. HasPrefix(u, {"*"}) \in BOOLEAN
      BY DEF HasPrefix
    <2> HIDE DEF u
    <2>3. (s.pointer \/ HasPrefix(u, {"*"})) \in BOOLEAN
      BY <1>1, <2>2
    <2>4. Onward(s) = [type |-> receiverID(u), pointer |-> s.pointer \/ HasPrefix(u, {"*"}),
                       seen |-> s.seen \cup {s.type}]
      BY DEF Onward, u
    <2>5. QED
      BY <1>1, <2>1, <2>3, <2>4 DEF Chain
  <1> DEFINE left == {t \in DOMAIN Types : <<t>> \notin s.seen}
             rest == {t \in DOMAIN Types : <<t>> \notin Onward(s).seen}
  <1>5. IsFiniteSet(left)
    BY ResolutionAssumption, FS_Subset
  <1>6. s.type[1] \in left /\ rest = left \ {s.type[1]}
    <2>1. s.type[1] \in left
      BY <1>2, <1>3
    <2>2. \A t \in DOMAIN Types : <<t>> = s.type <=> t = s.type[1]
      BY <1>3
    <2>3. Onward(s).seen = s.seen \cup {s.type}
      BY DEF Onward
    <2>4. QED
      BY <2>1, <2>2, <2>3
  <1> HIDE DEF left, rest
  <1>7. Cardinality(rest) = Cardinality(left) - 1 /\ Cardinality(left) \in Nat
    BY <1>5, <1>6, FS_RemoveElement, FS_CardinalityType
  <1>8. QED
    BY <1>4, <1>7 DEF SearchSize, left, rest

LEMMA ChainEnds ==
    ASSUME NEW known
    PROVE  Ends(Chain, {s \in Chain : LeadsOn(s, known)},
                [s \in Chain |-> IF LeadsOn(s, known) THEN Onward(s) ELSE s],
                [s \in Chain |-> SearchSize(s)])
  <1>1. \A s \in Chain : SearchSize(s) \in Nat
    BY ResolutionAssumption, FS_Subset, FS_CardinalityType DEF SearchSize
  <1>2. QED
    BY <1>1, OnwardIsSmaller DEF Ends

\* Where the chain starts.
ChainOf(n) == [type |-> receiverID(n), pointer |-> HasPrefix(n, {"*"}), seen |-> {}]

LEMMA ChainsStart ==
    ASSUME NEW n \in Name
    PROVE  ChainOf(n) \in Chain
  <1>1. receiverID(n) \in Name /\ HasPrefix(n, {"*"}) \in BOOLEAN
    BY ReceiverTypes DEF HasPrefix
  <1>2. QED
    BY <1>1 DEF ChainOf, Chain

\* The chain is a loop that ends.
LEMMA ChainLoop ==
    ASSUME NEW n, NEW known
    PROVE  \E f : /\ f = [s \in Chain |-> IF LeadsOn(s, known) THEN f[Onward(s)] ELSE EndOfChain(s, n, known)]
                  /\ canonicalAliasReceiver(n, known) = f[ChainOf(n)]
  <1> DEFINE GoOn == {s \in Chain : LeadsOn(s, known)}
             next == [s \in Chain |-> IF LeadsOn(s, known) THEN Onward(s) ELSE s]
             result == [s \in Chain |-> EndOfChain(s, n, known)]
             size == [s \in Chain |-> SearchSize(s)]
             f == CHOOSE f : f = [s \in Chain |->
                    IF LeadsOn(s, known) THEN f[Onward(s)] ELSE EndOfChain(s, n, known)]
  <1>1. Ends(Chain, GoOn, next, size)
    BY ChainEnds
  <1>2. \E g : IsLoop(g, Chain, GoOn, next, result)
    <2> HIDE DEF GoOn, next, result, size
    <2>1. QED
      BY <1>1, LoopsEnd
  <1>3. \E g : g = [s \in Chain |-> IF LeadsOn(s, known) THEN g[Onward(s)] ELSE EndOfChain(s, n, known)]
    <2>1. PICK g : g = [s \in Chain |-> IF s \in GoOn THEN g[next[s]] ELSE result[s]]
      BY <1>2 DEF IsLoop
    <2>2. \A s \in Chain : (IF s \in GoOn THEN g[next[s]] ELSE result[s])
                = (IF LeadsOn(s, known) THEN g[Onward(s)] ELSE EndOfChain(s, n, known))
      OBVIOUS
    <2>3. g = [s \in Chain |-> IF LeadsOn(s, known) THEN g[Onward(s)] ELSE EndOfChain(s, n, known)]
      BY <2>1, <2>2
    <2>4. QED
      BY <2>3
  <1>4. f = [s \in Chain |-> IF LeadsOn(s, known) THEN f[Onward(s)] ELSE EndOfChain(s, n, known)]
    BY <1>3
  <1>5. canonicalAliasReceiver(n, known) = f[ChainOf(n)]
    BY DEF canonicalAliasReceiver, ChainOf
  <1> HIDE DEF f
  <1>6. QED
    BY <1>4, <1>5

LEMMA ChainInduction ==
    ASSUME NEW known, NEW T, \A s \in Chain : ~LeadsOn(s, known) => s \in T,
           \A s \in Chain : LeadsOn(s, known) /\ Onward(s) \in Chain /\ Onward(s) \in T => s \in T
    PROVE  \A s \in Chain : s \in T
  <1> DEFINE GoOn == {s \in Chain : LeadsOn(s, known)}
             next == [s \in Chain |-> IF LeadsOn(s, known) THEN Onward(s) ELSE s]
             size == [s \in Chain |-> SearchSize(s)]
  <1>1. Ends(Chain, GoOn, next, size)
    BY ChainEnds
  <1>2. next \in [Chain -> Chain]
    BY <1>1 DEF Ends
  <1>3. \A s \in Chain : LeadsOn(s, known) => Onward(s) \in Chain
    BY <1>2
  <1>4. HoldsBackwards(Chain, GoOn, next, T)
    BY <1>3 DEF HoldsBackwards
  <1> HIDE DEF GoOn, next, size
  <1>5. QED
    BY <1>1, <1>4, LoopInduction

\* The chain at s leads to the type w, with the pointer it went through.
LeadsTo(s, w) ==
    /\ s.pointer => Identity(s.type) = <<w>>
    /\ ~s.pointer => BaseType(s.type) = <<w>>

LEMMA ChainLeadsTo ==
    ASSUME NEW n \in Name, NEW w \in Qualified
    PROVE  BaseType(n) = <<w>> <=> LeadsTo(ChainOf(n), w)
  <1>1. CASE HasPrefix(n, {"*"})
    <2>1. n = <<"*">> \o receiverID(n) /\ receiverID(n) \in Name
      BY <1>1, Pointers
    <2>2. Identity(n) = <<"*">> \o Identity(receiverID(n)) /\ Identity(receiverID(n)) \in Name
      BY <2>1, IdentityOfPointer, IdentityType
    <2>3. BaseType(n) = Identity(receiverID(n))
      BY <2>2, Pointers DEF BaseType
    <2>4. QED
      BY <1>1, <2>3 DEF LeadsTo, ChainOf
  <1>2. CASE ~HasPrefix(n, {"*"})
    BY <1>2 DEF LeadsTo, ChainOf, receiverID
  <1>3. QED
    BY <1>1, <1>2

\* An alias that is followed leads to the same type.
LEMMA OnwardLeadsTo ==
    ASSUME ValidProgram, NEW s \in Chain, NEW known, LeadsOn(s, known), NEW w \in Qualified
    PROVE  /\ LeadsTo(Onward(s), w) <=> LeadsTo(s, w)
           /\ \E t \in Aliases : /\ s.type = <<t>> /\ Types[t].underlying # NoName
                                 /\ Onward(s).type = receiverID(Types[t].underlying)
  <1>1. s.type \in Name /\ KnownAlias(s.type, known)
    BY DEF Chain, LeadsOn
  <1>2. PICK t : t = s.type[1] /\ t \in DOMAIN Types /\ s.type = <<t>>
    BY <1>1, KnownNames DEF KnownAlias
  <1> DEFINE u == Types[t].underlying
  <1>3. TypeOf(s.type).underlying = u /\ u # NoName /\ t \in Aliases
    BY <1>1, <1>2 DEF KnownAlias, TypeOf, Aliases
  <1>4. u \in Name /\ Identity(s.type) = Identity(u) /\ BaseType(s.type) = BaseType(u)
    BY <1>2, <1>3, AliasTypes
  <1>5. /\ Onward(s).type = receiverID(u)
        /\ Onward(s).pointer <=> s.pointer \/ HasPrefix(u, {"*"})
        /\ ~(s.pointer /\ HasPrefix(u, {"*"}))
    BY <1>3 DEF Onward, LeadsOn
  <1> HIDE DEF u
  <1>6. BaseType(u) = <<w>> <=> LeadsTo(ChainOf(u), w)
    BY <1>4, ChainLeadsTo
  <1>7. LeadsTo(Onward(s), w) <=> LeadsTo(s, w)
    <2>1. CASE HasPrefix(u, {"*"})
      BY <1>4, <1>5, <1>6, <2>1 DEF LeadsTo, ChainOf
    <2>2. CASE ~HasPrefix(u, {"*"})
      <3>1. receiverID(u) = u
        BY <2>2 DEF receiverID
      <3>2. QED
        BY <1>4, <1>5, <2>2, <3>1 DEF LeadsTo
    <2>3. QED
      BY <2>1, <2>2
  <1>8. QED
    BY <1>2, <1>3, <1>5, <1>7 DEF u

\* A type that no alias stands for is the one that the receiver is an alias of.
LEMMA CanonicalIsBase ==
    ASSUME ValidProgram, NEW n \in Name, NEW known, NEW w \in Qualified, w \notin Aliases,
           receiverID(canonicalAliasReceiver(n, known)) = <<w>>
    PROVE  BaseType(n) = <<w>>
  <1>1. PICK f : /\ f = [s \in Chain |-> IF LeadsOn(s, known) THEN f[Onward(s)] ELSE EndOfChain(s, n, known)]
                 /\ canonicalAliasReceiver(n, known) = f[ChainOf(n)]
    BY ChainLoop
  <1> DEFINE T == {s \in Chain : receiverID(f[s]) = <<w>> => f[s] = n \/ LeadsTo(s, w)}
  <1>2. <<w>> \in Name /\ Identity(<<w>>) = <<w>> /\ BaseType(<<w>>) = <<w>> /\ BaseType(<<"*">> \o <<w>>) = <<w>>
    BY WordBase, NamedWords
  <1>3. ASSUME NEW m \in Name, receiverID(m) = <<w>> PROVE BaseType(m) = <<w>>
    <2>1. CASE HasPrefix(m, {"*"})
      BY <1>2, <1>3, <2>1, Pointers
    <2>2. CASE ~HasPrefix(m, {"*"})
      BY <1>2, <1>3, <2>2, Pointers
    <2>3. QED
      BY <2>1, <2>2
  <1>4. ASSUME NEW s \in Chain, ~LeadsOn(s, known) PROVE s \in T
    <2>1. SUFFICES ASSUME receiverID(f[s]) = <<w>>, f[s] # n PROVE LeadsTo(s, w)
      OBVIOUS
    <2>2. f[s] = EndOfChain(s, n, known) /\ s.type \in Name
      BY <1>1, <1>4 DEF Chain
    <2>3. CASE s.pointer
      <3>1. f[s] = <<"*">> \o s.type
        BY <2>1, <2>2, <2>3 DEF EndOfChain
      <3>2. s.type = <<w>>
        BY <2>1, <2>2, <3>1, Pointers
      <3>3. QED
        BY <1>2, <2>3, <3>2 DEF LeadsTo
    <2>4. CASE ~s.pointer
      <3>1. f[s] = s.type
        BY <2>1, <2>2, <2>4 DEF EndOfChain
      <3>2. QED
        BY <1>3, <2>1, <2>2, <2>4, <3>1 DEF LeadsTo
    <2>5. QED
      BY <2>3, <2>4
  <1>5. ASSUME NEW s \in Chain, LeadsOn(s, known), Onward(s) \in Chain, Onward(s) \in T PROVE s \in T
    <2>1. f[s] = f[Onward(s)]
      BY <1>1, <1>5
    <2>2. QED
      BY <1>5, <2>1, OnwardLeadsTo
  <1> HIDE DEF T
  <1>6. \A s \in Chain : s \in T
    BY <1>4, <1>5, ChainInduction
  <1>7. f[ChainOf(n)] = n \/ LeadsTo(ChainOf(n), w)
    BY <1>1, <1>6, ChainsStart DEF T
  <1>8. QED
    BY <1>1, <1>3, <1>7, ChainLeadsTo

\* With the aliases loaded, the chain gets to a type that is not declared.
LEMMA BaseIsCanonical ==
    ASSUME ValidProgram, NEW n \in Name, NEW known, NEW w \in Qualified, w \notin DOMAIN Types,
           BaseType(n) = <<w>>, Written(n), ~HasPrefix(receiverID(n), {"*"}),
           NEW C, receiverID(n) \in C, Closed(C, known)
    PROVE  receiverID(canonicalAliasReceiver(n, known)) = <<w>>
  <1>1. PICK f : /\ f = [s \in Chain |-> IF LeadsOn(s, known) THEN f[Onward(s)] ELSE EndOfChain(s, n, known)]
                 /\ canonicalAliasReceiver(n, known) = f[ChainOf(n)]
    BY ChainLoop
  <1> DEFINE OnTheWay(s) ==
                /\ LeadsTo(s, w) /\ s.type \in C /\ Written(s.type) /\ ~HasPrefix(s.type, {"*"})
                /\ \A x \in s.seen : \E a \in Aliases : x = <<a>> /\ Below(s.type, a)
             T == {s \in Chain : OnTheWay(s) => receiverID(f[s]) = <<w>>}
  <1>2. w # "*" /\ <<w>> \in Name /\ receiverID(<<w>>) = <<w>> /\ Named(<<w>>) /\ ~HasPrefix(<<w>>, {"*"})
    BY NamedWords
  <1>3. ASSUME NEW s \in Chain, OnTheWay(s)
        PROVE  /\ s.type \in Name /\ BaseType(s.type) = <<w>> /\ s.type \notin s.seen
               /\ Named(s.type) /\ s.type[1] \in Qualified /\ s.type = <<s.type[1]>>
    <2>1. s.type \in Name
      BY DEF Chain
    <2>2. BaseType(s.type) = <<w>>
      BY <1>2, <1>3 DEF LeadsTo, BaseType
    <2>3. s.type \notin s.seen
      <3>1. SUFFICES ASSUME NEW a \in Aliases, s.type = <<a>>, Below(s.type, a) PROVE FALSE
        BY <1>3
      <3>2. QED
        BY <3>1, AliasWords, BelowOthers DEF ValidProgram
    <2>4. Named(s.type)
      BY <1>2, <1>3, <2>1, <2>2, UnnamedBase
    <2>5. QED
      BY <1>3, <2>1, <2>2, <2>3, <2>4, NamedTypes
  <1>4. ASSUME NEW s \in Chain, OnTheWay(s), NEW t \in Aliases, s.type = <<t>>
        PROVE  LET u == Types[t].underlying
               IN  /\ u # NoName /\ Types[t].file \in known /\ receiverID(u) \in C
                   /\ KnownAlias(s.type, known) /\ TypeOf(s.type).underlying = u
                   /\ ~(s.pointer /\ HasPrefix(u, {"*"}))
                   /\ ~HasPrefix(receiverID(u), {"*"})
    <2> DEFINE u == Types[t].underlying
    <2>1. u \in Name /\ Identity(s.type) = Identity(u) /\ BaseType(s.type) = BaseType(u) /\ t \in DOMAIN Types
      BY <1>4, AliasTypes
    <2>2. u # NoName
      <3>1. BaseType(NoName) = NoName
        BY NoNameIdentity DEF BaseType, receiverID, HasPrefix
      <3>2. QED
        BY <1>2, <1>3, <1>4, <2>1, <3>1 DEF Named
    <2>3. Types[t].file \in known /\ receiverID(u) \in C
      BY <1>4, <2>2 DEF Closed
    <2>4. KnownAlias(s.type, known) /\ TypeOf(s.type).underlying = u
      BY <1>4, <2>1, <2>2, <2>3, TypeNamesAreNamed DEF KnownAlias, TypeOf, Aliases
    <2>5. ~(s.pointer /\ HasPrefix(u, {"*"}))
      <3>1. SUFFICES ASSUME s.pointer, HasPrefix(u, {"*"}) PROVE FALSE
        OBVIOUS
      <3>2. Identity(u) = <<w>>
        BY <1>4, <2>1, <3>1 DEF LeadsTo
      <3> HIDE DEF u
      <3>3. u = <<"*">> \o receiverID(u) /\ receiverID(u) \in Name
        BY <2>1, <3>1, Pointers
      <3>4. Identity(u) = <<"*">> \o Identity(receiverID(u)) /\ Identity(receiverID(u)) \in Name
        BY <3>3, IdentityOfPointer, IdentityType
      <3>5. QED
        BY <1>2, <3>2, <3>4, Pointers
    <2>6. ~HasPrefix(receiverID(u), {"*"})
      <3>1. Selectable(u)
        <4>1. BaseType(u) = <<w>>
          BY <1>3, <1>4, <2>1
        <4>2. Len(<<w>>) <= 1
          OBVIOUS
        <4>3. QED
          BY <1>2, <4>1, <4>2 DEF Selectable
      <3>2. QED
        BY <2>1, <3>1, SelectableTypes
    <2>7. QED
      BY <2>2, <2>3, <2>4, <2>5, <2>6
  <1>5. ASSUME NEW s \in Chain, ~LeadsOn(s, known) PROVE s \in T
    <2>1. SUFFICES ASSUME OnTheWay(s) PROVE receiverID(f[s]) = <<w>>
      OBVIOUS
    <2> DEFINE v == s.type[1]
    <2>2. /\ s.type \in Name /\ BaseType(s.type) = <<w>> /\ s.type \notin s.seen
          /\ v \in Qualified /\ s.type = <<v>>
      BY <1>3, <2>1
    <2>3. v \notin Aliases
      BY <1>4, <1>5, <2>1, <2>2 DEF LeadsOn
    <2>4. s.type = <<w>>
      BY <2>2, <2>3, WordBase
    <2>5. ~KnownAlias(s.type, known)
      BY <2>4 DEF KnownAlias, IsKnown
    <2>6. f[s] = IF s.pointer THEN <<"*">> \o s.type ELSE s.type
      BY <1>1, <1>5, <2>2, <2>5 DEF EndOfChain
    <2>7. QED
      BY <1>2, <2>4, <2>6, Pointers
  <1>6. ASSUME NEW s \in Chain, LeadsOn(s, known), Onward(s) \in Chain, Onward(s) \in T PROVE s \in T
    <2>1. SUFFICES ASSUME OnTheWay(s) PROVE receiverID(f[s]) = <<w>>
      OBVIOUS
    <2>2. f[s] = f[Onward(s)]
      BY <1>1, <1>6
    <2>3. LeadsTo(Onward(s), w)
      BY <1>6, <2>1, OnwardLeadsTo
    <2>4. PICK t \in Aliases : s.type = <<t>> /\ Onward(s).type = receiverID(Types[t].underlying)
      BY <1>6, OnwardLeadsTo
    <2> DEFINE u == Types[t].underlying
    <2>5. receiverID(u) \in C /\ ~HasPrefix(receiverID(u), {"*"})
      BY <1>4, <2>1, <2>4
    <2>6. Written(receiverID(u)) /\ Below(receiverID(u), t) /\ receiverID(u) \in Name
      BY AliasTypes
    <2>7. Onward(s).seen = s.seen \cup {<<t>>}
      BY <2>4 DEF Onward
    <2>8. ASSUME NEW x \in Onward(s).seen PROVE \E a \in Aliases : x = <<a>> /\ Below(receiverID(u), a)
      <3>1. CASE x = <<t>>
        BY <2>6, <3>1
      <3>2. CASE x # <<t>>
        <4>1. PICK a \in Aliases : x = <<a>> /\ Below(<<t>>, a)
          BY <2>1, <2>4, <2>7, <2>8, <3>2
        <4>2. <<t>> \in Name /\ EndsInAlias(<<t>>) /\ <<t>>[Len(<<t>>)] = t
          BY AliasWords
        <4>3. Below(receiverID(u), a)
          BY <2>6, <4>1, <4>2, BelowOthers DEF ValidProgram
        <4>4. QED
          BY <4>1, <4>3
      <3>3. QED
        BY <3>1, <3>2
    <2>9. OnTheWay(Onward(s))
      BY <2>3, <2>4, <2>5, <2>6, <2>8
    <2>10. QED
      BY <1>6, <2>2, <2>9
  <1> HIDE DEF T
  <1>7. \A s \in Chain : s \in T
    BY <1>5, <1>6, ChainInduction
  <1>8. OnTheWay(ChainOf(n))
    <2>1. LeadsTo(ChainOf(n), w)
      BY ChainLeadsTo
    <2>2. Written(receiverID(n))
      BY ReceiverWords
    <2>3. QED
      BY <2>1, <2>2 DEF ChainOf
  <1>9. QED
    BY <1>1, <1>7, <1>8, ChainsStart DEF T

-----------------------------------------------------------------------------
(* The types of selectors. *)

LEMMA FieldTypes ==
    ASSUME NEW n, NEW f
    PROVE  FieldType(n, f) \in Name
  <1>1. CASE IsDeclared(BaseType(n)) /\ f \in DOMAIN FieldsOf[BaseType(n)[1]]
    <2>1. BaseType(n)[1] \in DOMAIN Types
      BY <1>1 DEF IsDeclared, IsKnown
    <2>2. FieldsOf[BaseType(n)[1]][f] \in Name
      BY <1>1, <2>1, ResolutionAssumption
    <2>3. QED
      BY <1>1, <2>2 DEF FieldType
  <1>2. CASE ~(IsDeclared(BaseType(n)) /\ f \in DOMAIN FieldsOf[BaseType(n)[1]])
    <2>1. FieldType(n, f) = NoName
      BY <1>2 DEF FieldType
    <2>2. QED
      BY <2>1 DEF NoName, Name
  <1>3. QED
    BY <1>1, <1>2

LEMMA NoFieldType ==
    ASSUME NEW n, NEW f, ~Named(BaseType(n)), ~HasPrefix(BaseType(n), {"*"})
    PROVE  FieldType(n, f) = NoName
  <1>1. ~IsDeclared(BaseType(n))
    <2>1. SUFFICES ASSUME IsDeclared(BaseType(n)) PROVE Named(BaseType(n))
      OBVIOUS
    <2>2. Len(BaseType(n)) = 1 /\ BaseType(n)[1] \in DOMAIN Types /\ receiverID(BaseType(n)) = BaseType(n)
      BY <2>1 DEF IsDeclared, IsKnown, receiverID
    <2>3. BaseType(n) # NoName
      BY <2>2 DEF NoName
    <2>4. QED
      BY <2>2, <2>3, DeclaredTypes DEF Named
  <1>2. QED
    BY <1>1 DEF FieldType

\* The next selection.
Selected(s) == [type |-> FieldType(s.type, Head(s.fields)), fields |-> Tail(s.fields)]

LEMMA SelectionEnds ==
    Ends(Selection, {s \in Selection : s.fields # <<>>},
         [s \in Selection |-> IF s.fields # <<>> THEN Selected(s) ELSE s], [s \in Selection |-> Len(s.fields)])
  <1>1. ASSUME NEW s \in Selection, s.fields # <<>>
        PROVE  Selected(s) \in Selection /\ Len(Selected(s).fields) < Len(s.fields)
    <2>1. s.fields \in Seq(STRING)
      BY DEF Selection
    <2>2. Tail(s.fields) \in Seq(STRING) /\ Len(Tail(s.fields)) < Len(s.fields)
      <3> DEFINE p == s.fields
      <3>1. p \in Seq(STRING) /\ p # <<>>
        BY <1>1, <2>1
      <3> HIDE DEF p
      <3>2. Tail(p) \in Seq(STRING) /\ Len(Tail(p)) = Len(p) - 1 /\ Len(p) \in Nat
        BY <3>1, HeadTailProperties
      <3>3. QED
        BY <3>2 DEF p
    <2>3. QED
      BY <2>2, FieldTypes DEF Selected, Selection
  <1>2. \A s \in Selection : Len(s.fields) \in Nat
    BY DEF Selection
  <1>3. QED
    BY <1>1, <1>2 DEF Ends

LEMMA SelectionLoop ==
    \E f : /\ f = [s \in Selection |-> IF s.fields # <<>> THEN f[Selected(s)] ELSE s.type]
           /\ \A n, path : TypeAfter(n, path) = f[[type |-> n, fields |-> path]]
  <1> DEFINE GoOn == {s \in Selection : s.fields # <<>>}
             next == [s \in Selection |-> IF s.fields # <<>> THEN Selected(s) ELSE s]
             result == [s \in Selection |-> s.type]
             size == [s \in Selection |-> Len(s.fields)]
             f == CHOOSE f : f = [s \in Selection |->
                    IF s.fields # <<>>
                    THEN f[[type |-> FieldType(s.type, Head(s.fields)), fields |-> Tail(s.fields)]]
                    ELSE s.type]
  <1>1. Ends(Selection, GoOn, next, size)
    BY SelectionEnds
  <1>2. \E g : IsLoop(g, Selection, GoOn, next, result)
    <2> HIDE DEF GoOn, next, result, size
    <2>1. QED
      BY <1>1, LoopsEnd
  <1>3. \E g : g = [s \in Selection |-> IF s.fields # <<>> THEN g[Selected(s)] ELSE s.type]
    <2>1. PICK g : g = [s \in Selection |-> IF s \in GoOn THEN g[next[s]] ELSE result[s]]
      BY <1>2 DEF IsLoop
    <2>2. \A s \in Selection : (IF s \in GoOn THEN g[next[s]] ELSE result[s])
                = (IF s.fields # <<>> THEN g[Selected(s)] ELSE s.type)
      OBVIOUS
    <2>3. g = [s \in Selection |-> IF s.fields # <<>> THEN g[Selected(s)] ELSE s.type]
      BY <2>1, <2>2
    <2>4. QED
      BY <2>3
  <1>4. \E g : g = [s \in Selection |->
                    IF s.fields # <<>>
                    THEN g[[type |-> FieldType(s.type, Head(s.fields)), fields |-> Tail(s.fields)]]
                    ELSE s.type]
    BY <1>3 DEF Selected
  <1>5. f = [s \in Selection |->
                    IF s.fields # <<>>
                    THEN f[[type |-> FieldType(s.type, Head(s.fields)), fields |-> Tail(s.fields)]]
                    ELSE s.type]
    BY <1>4
  <1>6. \A n, path : TypeAfter(n, path) = f[[type |-> n, fields |-> path]]
    BY DEF TypeAfter
  <1> HIDE DEF f
  <1>7. f = [s \in Selection |-> IF s.fields # <<>> THEN f[Selected(s)] ELSE s.type]
    BY <1>5 DEF Selected
  <1>8. QED
    BY <1>6, <1>7

LEMMA SelectionInduction ==
    ASSUME NEW T, \A s \in Selection : s.fields = <<>> => s \in T,
           \A s \in Selection : s.fields # <<>> /\ Selected(s) \in Selection /\ Selected(s) \in T => s \in T
    PROVE  \A s \in Selection : s \in T
  <1> DEFINE GoOn == {s \in Selection : s.fields # <<>>}
             next == [s \in Selection |-> IF s.fields # <<>> THEN Selected(s) ELSE s]
             size == [s \in Selection |-> Len(s.fields)]
  <1>1. Ends(Selection, GoOn, next, size)
    BY SelectionEnds
  <1>2. next \in [Selection -> Selection]
    BY <1>1 DEF Ends
  <1>3. \A s \in Selection : s.fields # <<>> => Selected(s) \in Selection
    BY <1>2
  <1>4. HoldsBackwards(Selection, GoOn, next, T)
    BY <1>3 DEF HoldsBackwards
  <1> HIDE DEF GoOn, next, size
  <1>5. QED
    BY <1>1, <1>4, LoopInduction

LEMMA Appended ==
    ASSUME NEW S, NEW p \in Seq(S), NEW f \in S
    PROVE  /\ Append(p, f) \in Seq(S) /\ Append(p, f) # <<>>
           /\ p = <<>> => Head(Append(p, f)) = f /\ Tail(Append(p, f)) = <<>>
           /\ p # <<>> => Head(Append(p, f)) = Head(p) /\ Tail(Append(p, f)) = Append(Tail(p), f)
  OBVIOUS

LEMMA LastSelection ==
    ASSUME NEW n \in Name, NEW path \in Seq(STRING), NEW l \in STRING
    PROVE  /\ TypeAfter(n, <<>>) = n
           /\ TypeAfter(n, Append(path, l)) = FieldType(TypeAfter(n, path), l)
           /\ TypeAfter(n, path) \in Name
  <1>1. PICK f : /\ f = [s \in Selection |-> IF s.fields # <<>> THEN f[Selected(s)] ELSE s.type]
                 /\ \A m, p : TypeAfter(m, p) = f[[type |-> m, fields |-> p]]
    BY SelectionLoop
  <1> DEFINE More(s) == [type |-> s.type, fields |-> Append(s.fields, l)]
             T == {s \in Selection : f[s] \in Name /\ f[More(s)] = FieldType(f[s], l)}
  <1>2. ASSUME NEW s \in Selection
        PROVE  /\ s.type \in Name /\ s.fields \in Seq(STRING)
               /\ More(s) \in Selection /\ More(s).fields # <<>>
               /\ f[More(s)] = f[Selected(More(s))]
    <2>1. s.type \in Name /\ s.fields \in Seq(STRING)
      BY DEF Selection
    <2>2. Append(s.fields, l) \in Seq(STRING) /\ Append(s.fields, l) # <<>>
      BY <2>1, Appended
    <2>3. More(s) \in Selection /\ More(s).fields # <<>>
      BY <2>1, <2>2 DEF Selection
    <2>4. QED
      BY <1>1, <2>1, <2>3
  <1>3. ASSUME NEW s \in Selection, s.fields = <<>> PROVE s \in T
    <2>1. Head(More(s).fields) = l /\ Tail(More(s).fields) = <<>>
      BY <1>2, <1>3, Appended
    <2>2. Selected(More(s)) = [type |-> FieldType(s.type, l), fields |-> <<>>]
      BY <2>1 DEF Selected
    <2>3. Selected(More(s)) \in Selection
      <3>1. FieldType(s.type, l) \in Name /\ <<>> \in Seq(STRING)
        BY FieldTypes
      <3>2. \A x \in Name : [type |-> x, fields |-> <<>>] \in Selection
        BY <3>1 DEF Selection
      <3> HIDE DEF More
      <3>3. QED
        BY <2>2, <3>1, <3>2
    <2>4. f[Selected(More(s))] = FieldType(s.type, l) /\ f[s] = s.type
      BY <1>1, <1>3, <2>2, <2>3
    <2>5. QED
      BY <1>2, <2>4
  <1>4. ASSUME NEW s \in Selection, s.fields # <<>>, Selected(s) \in Selection, Selected(s) \in T PROVE s \in T
    <2>1. Head(More(s).fields) = Head(s.fields) /\ Tail(More(s).fields) = Append(Tail(s.fields), l)
      BY <1>2, <1>4, Appended
    <2>2. Selected(More(s)) = More(Selected(s))
      BY <2>1 DEF Selected
    <2>3. f[s] = f[Selected(s)]
      BY <1>1, <1>4
    <2>4. QED
      BY <1>2, <1>4, <2>2, <2>3
  <1> HIDE DEF T
  <1>5. \A s \in Selection : s \in T
    BY <1>3, <1>4, SelectionInduction
  <1>6. [type |-> n, fields |-> path] \in Selection /\ [type |-> n, fields |-> <<>>] \in Selection
    BY DEF Selection
  <1>7. f[[type |-> n, fields |-> <<>>]] = n
    BY <1>1, <1>6
  <1>8. f[[type |-> n, fields |-> Append(path, l)]] = FieldType(f[[type |-> n, fields |-> path]], l)
        /\ f[[type |-> n, fields |-> path]] \in Name
    BY <1>5, <1>6 DEF T
  <1>9. QED
    BY <1>1, <1>7, <1>8

LEMMA LongerPath ==
    ASSUME NEW S, NEW p \in Seq(S), NEW i \in 0..(Len(p) - 1)
    PROVE  /\ SubSeq(p, 1, i) \in Seq(S) /\ SubSeq(p, 1, 0) = <<>> /\ p[i + 1] \in S
           /\ SubSeq(p, 1, i + 1) = Append(SubSeq(p, 1, i), p[i + 1])
  <1>1. Len(p) \in Nat
    OBVIOUS
  <1>2. i \in Nat /\ i + 1 \in 1..Len(p)
    BY <1>1
  <1>3. SubSeq(p, 1, 0) = <<>>
    BY SubSeqEmpty
  <1>4. SubSeq(p, 1, i) \in Seq(S) /\ p[i + 1] \in S
    BY <1>2
  <1>5. SubSeq(p, 1, i + 1) = Append(SubSeq(p, 1, i), p[i + 1])
    BY <1>2
  <1>6. QED
    BY <1>3, <1>4, <1>5

\* The type after one more field.
LEMMA NextType ==
    ASSUME NEW c \in CallSites
    PROVE  /\ TypeAt(c, 0) = c.receiver
           /\ \A i \in 0..(Len(c.fields) - 1) : /\ TypeAt(c, i + 1) = FieldType(TypeAt(c, i), c.fields[i + 1])
                                                /\ TypeAt(c, i) \in Name
  <1>1. c.receiver \in Name /\ c.fields \in Seq(STRING)
    BY ResolutionAssumption DEF CallSite
  <1>2. TypeAt(c, 0) = c.receiver
    <2>1. SubSeq(c.fields, 1, 0) = <<>>
      BY SubSeqEmpty
    <2>2. "*" \in STRING
      BY WordsAssumption
    <2>3. TypeAfter(c.receiver, <<>>) = c.receiver
      BY <1>1, <2>2, LastSelection
    <2>4. QED
      BY <2>1, <2>3 DEF TypeAt
  <1>3. ASSUME NEW i \in 0..(Len(c.fields) - 1)
        PROVE  TypeAt(c, i + 1) = FieldType(TypeAt(c, i), c.fields[i + 1]) /\ TypeAt(c, i) \in Name
    <2>1. /\ SubSeq(c.fields, 1, i) \in Seq(STRING) /\ c.fields[i + 1] \in STRING
          /\ SubSeq(c.fields, 1, i + 1) = Append(SubSeq(c.fields, 1, i), c.fields[i + 1])
      BY <1>1, LongerPath
    <2> DEFINE p == SubSeq(c.fields, 1, i)
               l == c.fields[i + 1]
    <2>2. TypeAt(c, i) = TypeAfter(c.receiver, p) /\ TypeAt(c, i + 1) = TypeAfter(c.receiver, Append(p, l))
      BY <2>1 DEF TypeAt
    <2>3. p \in Seq(STRING) /\ l \in STRING
      BY <2>1
    <2> HIDE DEF p, l
    <2>4. TypeAfter(c.receiver, Append(p, l)) = FieldType(TypeAfter(c.receiver, p), l)
          /\ TypeAfter(c.receiver, p) \in Name
      BY <1>1, <2>3, LastSelection
    <2>5. QED
      BY <2>2, <2>4 DEF l
  <1>4. QED
    BY <1>2, <1>3

LEMMA RestOfPath ==
    ASSUME NEW S, NEW p \in Seq(S)
    PROVE  /\ SubSeq(p, 0 + 1, Len(p)) = p /\ SubSeq(p, Len(p) + 1, Len(p)) = <<>> /\ Len(p) \in Nat
           /\ \A i \in 0..Len(p) :
                LET rest == SubSeq(p, i + 1, Len(p))
                IN  /\ rest = <<>> => i = Len(p)
                    /\ rest # <<>> => /\ i \in 0..(Len(p) - 1) /\ i + 1 \in 0..Len(p)
                                      /\ Head(rest) = p[i + 1]
                                      /\ Tail(rest) = SubSeq(p, (i + 1) + 1, Len(p))
  <1>1. Len(p) \in Nat
    OBVIOUS
  <1>2. SubSeq(p, Len(p) + 1, Len(p)) = <<>>
    BY <1>1, SubSeqEmpty
  <1>3. SubSeq(p, 0 + 1, Len(p)) = p
    BY <1>1, SubSeqFull
  <1>4. ASSUME NEW i \in 0..Len(p), i # Len(p)
        PROVE  LET rest == SubSeq(p, i + 1, Len(p))
               IN  /\ rest # <<>> /\ i \in 0..(Len(p) - 1) /\ i + 1 \in 0..Len(p)
                   /\ Head(rest) = p[i + 1] /\ Tail(rest) = SubSeq(p, (i + 1) + 1, Len(p))
    <2>1. i \in Nat /\ i + 1 \in 1..Len(p) /\ i \in 0..(Len(p) - 1) /\ i + 1 \in 0..Len(p)
      BY <1>1, <1>4
    <2> DEFINE rest == SubSeq(p, (i + 1) + 1, Len(p))
    <2>2. SubSeq(p, i + 1, Len(p)) = <<p[i + 1]>> \o rest
      <3> DEFINE m == i + 1
                 k == Len(p)
      <3>1. m \in 1..Len(p) /\ k \in m..Len(p)
        BY <1>1, <2>1
      <3> HIDE DEF m, k
      <3>2. SubSeq(p, m, k) = <<p[m]>> \o SubSeq(p, m + 1, k)
        BY <3>1, SubSeqRecursiveFirst
      <3>3. QED
        BY <3>2 DEF m, k
    <2>3. rest \in Seq(S) /\ p[i + 1] \in S
      <3> DEFINE m == (i + 1) + 1
      <3>1. m \in Nat /\ m >= 1 /\ p[i + 1] \in S
        BY <2>1
      <3> HIDE DEF m
      <3>2. SubSeq(p, m, Len(p)) \in Seq(S)
        BY <1>1, <3>1
      <3>3. QED
        BY <3>1, <3>2 DEF m
    <2> HIDE DEF rest
    <2>4. <<p[i + 1]>> \o rest # <<>> /\ Head(<<p[i + 1]>> \o rest) = p[i + 1] /\ Tail(<<p[i + 1]>> \o rest) = rest
      BY <2>3, Words
    <2>5. QED
      BY <2>1, <2>2, <2>4 DEF rest
  <1>5. QED
    BY <1>1, <1>2, <1>3, <1>4

LEMMA TypesAtNames ==
    ASSUME NEW c \in CallSites, NEW i \in 0..Len(c.fields)
    PROVE  TypeAt(c, i) \in Name
  <1>1. c.receiver \in Name /\ c.fields \in Seq(STRING) /\ "*" \in STRING
    BY ResolutionAssumption, WordsAssumption DEF CallSite
  <1>2. SubSeq(c.fields, 1, i) \in Seq(STRING)
    BY <1>1
  <1>3. QED
    BY <1>1, <1>2, LastSelection DEF TypeAt

\* Fields of what is no type have none either.
LEMMA NothingAfter ==
    ASSUME NEW c \in CallSites, NEW k \in 0..Len(c.fields), TypeAt(c, k) = NoName
    PROVE  ReceiverType(c) = NoName
  <1> DEFINE Len1 == Len(c.fields)
             D == {j \in 0..Len1 : k <= j /\ TypeAt(c, j) # NoName}
  <1>1. c.fields \in Seq(STRING) /\ Len1 \in Nat
    BY ResolutionAssumption DEF CallSite
  <1>2. BaseType(NoName) = NoName
    BY NoNameIdentity DEF BaseType, receiverID, HasPrefix
  <1>3. D = {}
    <2>1. SUFFICES ASSUME D # {} PROVE FALSE
      OBVIOUS
    <2>2. D \subseteq Nat
      BY <1>1
    <2>3. PICK j \in D : \A l \in D : j <= l
      <3> HIDE DEF D
      <3>1. QED
        BY <2>1, <2>2, LeastElement
    <2>4. j \in 0..Len1 /\ k <= j /\ TypeAt(c, j) # NoName /\ j # k
      OBVIOUS
    <2>5. j - 1 \in 0..(Len1 - 1) /\ j - 1 \in 0..Len1 /\ k <= j - 1 /\ (j - 1) + 1 = j /\ j - 1 < j /\ ~(j <= j - 1)
      BY <1>1, <2>4
    <2>6. TypeAt(c, j - 1) = NoName
      BY <2>3, <2>5
    <2>7. TypeAt(c, j) = FieldType(NoName, c.fields[j])
      BY <2>5, <2>6, NextType
    <2>8. QED
      BY <1>2, <2>4, <2>7, NoFieldType DEF Named, HasPrefix
  <1>4. TypeAt(c, Len1) = NoName
    BY <1>1, <1>3
  <1>5. QED
    BY <1>2, <1>4 DEF ReceiverType

-----------------------------------------------------------------------------
(* The inductive invariant of the calls. *)

\* The calls of the target's name are looked at when its declarations are loaded.
CandidatesInv ==
    /\ stage \in {"calls", "fields", "packages", "done"} => DeclaringFiles(target[2]) \subseteq loaded
    /\ stage \in {"root", "done"} => todo = {}
    /\ \A c \in todo : c.name = target[2]
    /\ stage \in {"fields", "packages"} => call.name = target[2]
    /\ \A s \in DOMAIN externalCache : externalCache[s] => s \in StandardFunctions

\* A target other than the root is declared, or the name of an alias.
TargetInv ==
    target \notin {NoSymbol, root} =>
        \/ target \in Definitions
        \/ /\ target[1] \in DOMAIN Types
           /\ Selectable(<<target[1]>>) =>
                /\ Named(BaseType(<<target[1]>>))
                /\ <<BaseType(<<target[1]>>)[1], target[2]>> \in Workspace

\* The type x was gone through before the receiver that i fields lead to.
WasPassed(x, i) ==
    \/ \E j \in 0..(i - 1) : BaseType(x) = BaseType(TypeAt(call, j))
    \/ \E a \in Aliases : /\ x = <<a>> /\ BaseType(x) = BaseType(TypeAt(call, i))
                          /\ Below(receiver, a)

\* Of the fields, i are followed.
FieldsAreFollowed(i) ==
    /\ fields = SubSeq(call.fields, i + 1, Len(call.fields))
    /\ receiver # NoName => /\ BaseType(receiver) = BaseType(TypeAt(call, i))
                            /\ Written(receiver)
                            /\ \A x \in seen : WasPassed(x, i)
    /\ receiver = NoName /\ HasReceiver /\ unreadable = {} /\ ~Revisits(call) =>
        ~Named(ReceiverType(call))

FieldsInv == stage \in {"fields", "packages"} => \E i \in 0..Len(call.fields) : FieldsAreFollowed(i)

\* What the workspace does not have is left to the packages.
PackagesInv ==
    stage = "packages" =>
        /\ fields = <<>> /\ ~call.indirect
        /\ HasReceiver => receiver # NoName
        /\ GoCallee(call) # NoSymbol => GoCallee(call) = LastId /\ LastRef \in Standard
        /\ target = LastId => target = root \/ LastRef \in Standard

IsFound(c) == \E e \in edges : e.call = c /\ (IsIdentity(OwnerOf(target)) => e.kind = "resolved")

\* The calls that have to be found.
Caller(c) ==
    /\ GoCallee(c) = target
    /\ IsIdentity(OwnerOf(target)) => sameSeries(c.module, ModuleOf(target))
    /\ ~Revisits(c)

CallersInv ==
    stage \in {"calls", "fields", "packages", "done"} /\ unreadable = {} =>
        \A c \in CallSites : Caller(c) =>
            IsFound(c) \/ c \in todo \/ (stage \in {"fields", "packages"} /\ c = call)

CallInv == CandidatesInv /\ TargetInv /\ FieldsInv /\ PackagesInv /\ EdgesAreCalls /\ CallersInv

-----------------------------------------------------------------------------
(* The fields of a receiver. *)

\* The receiver after i fields, as far as the declarations tell.
LEMMA ReceiverIsSelectable ==
    ASSUME ValidProgram, call \in CallSites, HasReceiver, NEW i \in 0..Len(call.fields)
    PROVE  TypeAt(call, i) \in Name /\ Selectable(TypeAt(call, i))
  BY TypesAtNames DEF ValidProgram, SelectorsAreValid, HasReceiver

\* A field of a type that is not the name of a declared one leads nowhere.
LEMMA UnknownType ==
    ASSUME ValidProgram, NEW n \in Name, NEW f, Written(n), ~HasPrefix(n, {"*"}), Selectable(n),
           ~IsKnown(n, Files)
    PROVE  FieldType(n, f) = NoName
  <1>1. CASE Named(n)
    <2> DEFINE w == n[1]
    <2>1. w \in Qualified /\ n = <<w>>
      BY <1>1, NamedTypes
    <2>2. w \notin DOMAIN Types
      BY <2>1, DeclaredTypes, TypeNamesAreNamed
    <2>3. BaseType(n) = n
      BY <2>1, <2>2, WordBase DEF Aliases
    <2>4. ~IsDeclared(BaseType(n))
      BY <2>3 DEF IsDeclared
    <2>5. QED
      BY <2>4 DEF FieldType
  <1>2. CASE ~Named(n)
    BY <1>2, UnnamedBase, NoFieldType DEF Selectable
  <1>3. QED
    BY <1>1, <1>2

LEMMA SameBase ==
    ASSUME NEW m, NEW n, BaseType(m) = BaseType(n)
    PROVE  /\ \A f : FieldType(m, f) = FieldType(n, f)
           /\ Selectable(m) <=> Selectable(n)
  BY DEF FieldType, Selectable

LEMMA FieldsAreFollowedOn ==
    ASSUME ValidProgram, IInv, FieldsInv, FollowField
    PROVE  FieldsInv'
  <1> DEFINE base == receiverID(receiver)
             now == loaded \cup (FileFor(base) \ unreadable)
             known == base \notin seen /\ IsKnown(base, now)
             found == known /\ Head(fields) \in DOMAIN FieldsOf[base[1]]
  <1>1. /\ stage = "fields" /\ fields # <<>> /\ call' = call /\ unreadable' = unreadable
        /\ seen' = seen \cup {base}
        /\ receiver' = IF found THEN FieldsOf[base[1]][Head(fields)]
                       ELSE IF known /\ TypeOf(base).alias THEN TypeOf(base).underlying
                       ELSE NoName
        /\ fields' = IF found THEN Tail(fields)
                     ELSE IF known /\ TypeOf(base).alias THEN fields ELSE <<>>
    BY DEF FollowField, given
  <1>2. call \in CallSites /\ receiver \in Name /\ (call.receiver = NoName => receiver = NoName)
    BY <1>1 DEF IInv, TypeOK, SearchInv
  <1>3. call.fields \in Seq(STRING)
    BY <1>2, ResolutionAssumption DEF CallSite
  <1> DEFINE N == Len(call.fields)
  <1>4. PICK i \in 0..N : FieldsAreFollowed(i)
    BY <1>1 DEF FieldsInv
  <1>5. /\ fields = SubSeq(call.fields, i + 1, N)
        /\ i \in 0..(N - 1) /\ i + 1 \in 0..N /\ i \in Nat
        /\ Head(fields) = call.fields[i + 1] /\ Tail(fields) = SubSeq(call.fields, (i + 1) + 1, N)
    <2>1. fields = SubSeq(call.fields, i + 1, N)
      BY <1>4 DEF FieldsAreFollowed
    <2>2. QED
      BY <1>1, <1>3, <2>1, RestOfPath
  <1>6. N \in Nat /\ N \in 0..N /\ SubSeq(call.fields, N + 1, N) = <<>>
    <2>1. N \in Nat /\ SubSeq(call.fields, N + 1, N) = <<>>
      BY <1>3, RestOfPath
    <2>2. QED
      BY <2>1
  <1>7. HasReceiver' <=> HasReceiver
    BY <1>1 DEF HasReceiver
  \* Nothing is left to follow.
  <1>8. ASSUME receiver' = NoName, fields' = <<>>,
               HasReceiver /\ unreadable = {} /\ ~Revisits(call) => ~Named(ReceiverType(call))
        PROVE  FieldsInv'
    <2>1. FieldsAreFollowed(N)'
      BY <1>1, <1>6, <1>7, <1>8 DEF FieldsAreFollowed
    <2>2. QED
      BY <1>1, <1>6, <2>1 DEF FieldsInv
  <1>9. CASE receiver = NoName
    <2>1. base = NoName
      BY <1>9 DEF receiverID, HasPrefix
    <2>2. ~known
      BY <2>1 DEF IsKnown, NoName
    <2>3. receiver' = NoName /\ fields' = <<>>
      BY <1>1, <2>2
    <2>4. HasReceiver /\ unreadable = {} /\ ~Revisits(call) => ~Named(ReceiverType(call))
      BY <1>4, <1>9 DEF FieldsAreFollowed
    <2> HIDE DEF base, now, known, found, N
    <2>5. QED
      BY <1>8, <2>3, <2>4
  <1>10. CASE receiver # NoName
    <2>1. HasReceiver
      BY <1>2, <1>10 DEF HasReceiver
    <2>2. /\ BaseType(receiver) = BaseType(TypeAt(call, i)) /\ Written(receiver)
          /\ \A x \in seen : WasPassed(x, i)
      BY <1>4, <1>10 DEF FieldsAreFollowed
    <2>3. Selectable(TypeAt(call, i)) /\ TypeAt(call, i) \in Name
      BY <1>2, <2>1, ReceiverIsSelectable
    <2>4. Selectable(receiver)
      BY <2>2, <2>3, SameBase
    <2>5. /\ base \in Name /\ ~HasPrefix(base, {"*"}) /\ Selectable(base) /\ Written(base)
          /\ BaseType(base) = BaseType(TypeAt(call, i))
      BY <1>2, <2>2, <2>4, SelectableTypes, ReceiverWords
    <2>6. \A f : FieldType(base, f) = FieldType(TypeAt(call, i), f)
      BY <2>5, SameBase
    <2>7. TypeAt(call, i + 1) = FieldType(base, Head(fields))
      BY <1>2, <1>5, <2>6, NextType
    <2>8. ASSUME FieldType(base, Head(fields)) = NoName PROVE ~Named(ReceiverType(call))
      <3>1. ReceiverType(call) = NoName
        BY <1>2, <1>5, <2>7, <2>8, NothingAfter
      <3>2. QED
        BY <3>1 DEF Named
    <2>9. CASE base \in seen
      <3>1. receiver' = NoName /\ fields' = <<>>
        BY <1>1, <2>9
      <3>2. Revisits(call)
        <4>1. CASE \E j \in 0..(i - 1) : BaseType(base) = BaseType(TypeAt(call, j))
          <5>1. PICK j \in 0..(i - 1) : BaseType(base) = BaseType(TypeAt(call, j))
            BY <4>1
          <5>2. j \in 0..(N - 1) /\ j < i /\ BaseType(TypeAt(call, j)) = BaseType(TypeAt(call, i))
            BY <1>5, <1>6, <2>5, <5>1
          <5>3. QED
            BY <1>5, <5>2 DEF Revisits
        <4>2. CASE \E a \in Aliases : base = <<a>> /\ Below(receiver, a)
          <5>1. PICK a \in Aliases : base = <<a>> /\ Below(receiver, a)
            BY <4>2
          <5>2. EndsInAlias(base) /\ base[Len(base)] = a
            BY <5>1, AliasWords
          <5>3. EndsInAlias(receiver) /\ receiver[Len(receiver)] = a
            BY <1>2, <5>2, ReceiverWords
          <5>4. QED
            BY <1>2, <5>1, <5>3, BelowOthers DEF ValidProgram
        <4>3. QED
          BY <2>2, <2>9, <4>1, <4>2 DEF WasPassed
      <3> HIDE DEF base, now, known, found, N
      <3>3. QED
        BY <1>8, <3>1, <3>2
    <2>10. CASE base \notin seen /\ ~IsKnown(base, now)
      <3>1. receiver' = NoName /\ fields' = <<>>
        BY <1>1, <2>10
      <3>2. ASSUME unreadable = {} PROVE ~Named(ReceiverType(call))
        <4>1. ~IsKnown(base, Files)
          <5>1. SUFFICES ASSUME IsKnown(base, Files) PROVE FALSE
            OBVIOUS
          <5>2. base[1] \in DOMAIN Types /\ base = <<base[1]>> /\ FileFor(base) = {Types[base[1]].file}
            BY <2>5, <5>1, KnownNames DEF FileFor, TypeOf
          <5>3. Types[base[1]].file \in now
            BY <3>2, <5>2
          <5>4. QED
            BY <2>10, <5>1, <5>2, <5>3 DEF IsKnown
        <4>2. FieldType(base, Head(fields)) = NoName
          BY <2>5, <4>1, UnknownType
        <4>3. QED
          BY <2>8, <4>2
      <3> HIDE DEF base, now, known, found, N
      <3>3. QED
        BY <1>8, <3>1, <3>2
    <2>11. CASE known
      <3> DEFINE t == base[1]
      <3>1. t \in DOMAIN Types /\ base = <<t>> /\ t \in Qualified /\ TypeOf(base) = Types[t]
        BY <2>5, <2>11, KnownNames, DeclaredTypes DEF TypeOf
      <3>2. CASE t \in Aliases
        <4> DEFINE u == Types[t].underlying
        <4>1. /\ DOMAIN FieldsOf[t] = {} /\ Types[t].alias /\ u \in Name /\ Written(u)
              /\ BaseType(base) = BaseType(u) /\ Below(u, t)
          BY <3>1, <3>2, AliasTypes
        <4>2. ~found
          BY <4>1
        <4>3. receiver' = u /\ fields' = fields
          BY <1>1, <2>11, <3>1, <4>1, <4>2
        <4> HIDE DEF base, now, known, found, N, u, t
        <4>4. BaseType(receiver') = BaseType(TypeAt(call, i)) /\ Written(receiver')
          BY <2>5, <4>1, <4>3
        <4>5. ASSUME NEW x \in seen' PROVE WasPassed(x, i)'
          <5>1. ASSUME NEW a \in Aliases, x = <<a>>, BaseType(x) = BaseType(TypeAt(call, i)), Below(u, a)
                PROVE  WasPassed(x, i)'
            BY <1>1, <4>3, <5>1 DEF WasPassed
          <5>2. CASE x = base
            BY <2>5, <3>1, <3>2, <4>1, <5>1, <5>2
          <5>3. CASE x # base
            <6>1. WasPassed(x, i)
              BY <1>1, <2>2, <4>5, <5>3
            <6>2. CASE \E j \in 0..(i - 1) : BaseType(x) = BaseType(TypeAt(call, j))
              BY <1>1, <6>2 DEF WasPassed
            <6>3. CASE \E a \in Aliases : /\ x = <<a>> /\ BaseType(x) = BaseType(TypeAt(call, i))
                                          /\ Below(receiver, a)
              <7>1. PICK a \in Aliases : /\ x = <<a>> /\ BaseType(x) = BaseType(TypeAt(call, i))
                                         /\ Below(receiver, a)
                BY <6>3
              <7>2. EndsInAlias(receiver) /\ receiver[Len(receiver)] = t
                <8>1. EndsInAlias(base) /\ base[Len(base)] = t
                  BY <3>1, <3>2, AliasWords
                <8>2. QED
                  BY <1>2, <8>1, ReceiverWords DEF base
              <7>3. Below(u, a)
                BY <1>2, <4>1, <7>1, <7>2, BelowOthers DEF ValidProgram
              <7>4. QED
                BY <5>1, <7>1, <7>3
            <6>4. QED
              BY <6>1, <6>2, <6>3 DEF WasPassed
          <5>4. QED
            BY <5>2, <5>3
        <4>6. receiver' = NoName /\ HasReceiver /\ unreadable = {} /\ ~Revisits(call) => ~Named(ReceiverType(call))
          <5>1. SUFFICES ASSUME u = NoName PROVE FieldType(base, Head(fields)) = NoName
            BY <2>8, <4>3
          <5>2. BaseType(base) = NoName
            BY <4>1, <5>1, NoNameIdentity DEF BaseType, receiverID, HasPrefix
          <5>3. QED
            BY <5>2, NoFieldType DEF Named, HasPrefix
        <4>7. FieldsAreFollowed(i)'
          BY <1>1, <1>5, <1>7, <4>3, <4>4, <4>5, <4>6 DEF FieldsAreFollowed, N
        <4>8. QED
          BY <1>1, <4>7 DEF FieldsInv, N
      <3>3. CASE t \notin Aliases
        <4>1. BaseType(base) = base /\ ~Types[t].alias
          BY <3>1, <3>2, <3>3, WordBase DEF Aliases
        <4>2. IsDeclared(base)
          BY <3>1, <4>1, TypeNamesAreNamed, DeclaredTypes DEF IsDeclared
        <4>3. FieldType(base, Head(fields)) =
                IF Head(fields) \in DOMAIN FieldsOf[t] THEN FieldsOf[t][Head(fields)] ELSE NoName
          BY <4>1, <4>2 DEF FieldType
        <4>4. CASE found
          <5>1. receiver' = FieldsOf[t][Head(fields)] /\ fields' = Tail(fields) /\ Head(fields) \in DOMAIN FieldsOf[t]
            BY <1>1, <4>4
          <5> HIDE DEF base, now, known, found, N, t
          <5>2. receiver' = TypeAt(call, i + 1) /\ Written(receiver')
            BY <2>7, <3>1, <4>3, <5>1 DEF ValidProgram, NamesAreWritten
          <5>3. ASSUME NEW x \in seen' PROVE WasPassed(x, i + 1)'
            <6>1. ASSUME NEW j \in 0..i, BaseType(x) = BaseType(TypeAt(call, j)) PROVE WasPassed(x, i + 1)'
              <7>1. (i + 1) - 1 = i
                BY <1>5
              <7>2. QED
                BY <1>1, <6>1, <7>1 DEF WasPassed
            <6>2. i \in 0..i /\ \A j \in 0..(i - 1) : j \in 0..i
              BY <1>5
            <6>3. CASE x = base
              BY <2>5, <6>1, <6>2, <6>3
            <6>4. CASE x # base
              <7>1. WasPassed(x, i)
                BY <1>1, <2>2, <5>3, <6>4
              <7>2. QED
                BY <6>1, <6>2, <7>1 DEF WasPassed
            <6>5. QED
              BY <6>3, <6>4
          <5>4. receiver' = NoName => ~Named(ReceiverType(call))
            BY <2>7, <2>8, <5>2
          <5>5. FieldsAreFollowed(i + 1)'
            BY <1>1, <1>5, <1>7, <5>1, <5>2, <5>3, <5>4 DEF FieldsAreFollowed, N
          <5>6. QED
            BY <1>1, <1>5, <5>5 DEF FieldsInv, N
        <4>5. CASE ~found
          <5>1. receiver' = NoName /\ fields' = <<>>
            BY <1>1, <3>1, <4>1, <4>5
          <5>2. FieldType(base, Head(fields)) = NoName
            BY <2>11, <4>3, <4>5
          <5> HIDE DEF base, now, known, found, N
          <5>3. QED
            BY <1>8, <2>8, <5>1, <5>2
        <4>6. QED
          BY <4>4, <4>5
      <3>4. QED
        BY <3>2, <3>3
    <2>12. QED
      BY <2>9, <2>10, <2>11
  <1>11. QED
    BY <1>9, <1>10

-----------------------------------------------------------------------------
(* The callee of a call. *)

LEMMA ExportedSymbols == Exported = Workspace \cup StandardFunctions
  BY DEF Exported, Workspace, Definitions

\* A definition is found in the package of its symbol.
LEMMA DefinitionsAreFound ==
    ASSUME NEW s \in Definitions, NEW known
    PROVE  s \in functions(known \cup FilesNaming(OwnerOf(s), s[2])) /\ IsIdentity(OwnerOf(s)) /\ s \in Symbol
  <1>1. PICK d \in Declared : s = d.symbol
    BY DEF Definitions
  <1>2. /\ d.symbol \in Symbol /\ d.package = OwnerOf(s)
        /\ \E p \in Packages : p.id = d.package
    BY <1>1, DeclaredSymbols
  <1>3. PICK p \in Packages : p.id = d.package
    BY <1>2
  <1>4. matchesPackage(p, OwnerOf(s)) /\ IsIdentity(OwnerOf(s))
    BY <1>2, <1>3 DEF matchesPackage, IsIdentity
  <1>5. d.file \in FilesNaming(OwnerOf(s), s[2])
    BY <1>1, <1>3, <1>4 DEF FilesNaming
  <1>6. QED
    BY <1>1, <1>2, <1>4, <1>5 DEF functions

\* What a call names without a receiver and the workspace declares is a function.
LEMMA FunctionsOfPackages ==
    ASSUME NEW c \in CallSites, <<c.package, c.name>> \in Workspace
    PROVE  <<c.package, c.name>> \in Definitions /\ ~c.cgo
  <1>1. c.package \notin Qualified
    BY ResolutionAssumption
  <1>2. <<c.package, c.name>> \in Definitions
    <2>1. \A m \in Methods : <<c.package, c.name>> # <<m.of, m.name>>
      BY <1>1, MethodTypes, DeclaredTypes
    <2>2. QED
      BY <2>1 DEF Workspace
  <1>3. IsIdentity(c.package)
    <2> DEFINE s == <<c.package, c.name>>
    <2>1. OwnerOf(s) = c.package
      BY <1>1 DEF OwnerOf
    <2>2. QED
      BY <1>2, <2>1, DefinitionsAreFound
  <1>4. ~c.cgo
    BY <1>3, CallsAssumption DEF IsIdentity
  <1>5. QED
    BY <1>2, <1>4

\* The standard library has no type of the workspace.
LEMMA StandardTypes ==
    ASSUME NEW w, NEW name, <<w, name>> \in StandardFunctions
    PROVE  /\ w \in Qualified => Owner[w] \in Standard /\ w \notin DOMAIN Types
           /\ w \notin Qualified => w \in Standard
           /\ OwnerOf(<<w, name>>) \in Standard
  <1>1. \/ w \in Standard
        \/ w \in Qualified /\ Owner[w] \in Standard
    BY ResolutionAssumption
  <1>2. ASSUME w \in Qualified PROVE Owner[w] \in Standard /\ w \notin DOMAIN Types
    <2>1. Owner[w] \in Standard
      BY <1>1, <1>2, ResolutionAssumption
    <2>2. QED
      BY <2>1, ResolutionAssumption
  <1>3. QED
    BY <1>1, <1>2 DEF OwnerOf

LEMMA StandardPackages ==
    ASSUME NEW ref \in Standard
    PROVE  ~IsIdentity(ref) /\ \A p \in Packages : ~matchesPackage(p, ref)
  <1>1. \A p \in Packages : p.id # ref /\ p.path # ref
    BY ResolutionAssumption
  <1>2. QED
    BY <1>1 DEF IsIdentity, matchesPackage

LEMMA CalleeOfPackage ==
    ASSUME NEW c \in CallSites, c.receiver = NoName
    PROVE  GoCallee(c) = IF ~c.indirect /\ ~c.cgo /\ <<c.package, c.name>> \in Exported
                         THEN <<c.package, c.name>> ELSE NoSymbol
  BY DEF GoCallee

LEMMA CalleeOfReceiver ==
    ASSUME ValidProgram, NEW c \in CallSites, c.receiver # NoName
    PROVE  LET t == ReceiverType(c)
           IN  /\ GoCallee(c) = IF Named(t) /\ <<t[1], c.name>> \in Exported THEN <<t[1], c.name>> ELSE NoSymbol
               /\ Named(t) => t[1] \in Qualified /\ t = <<t[1]>>
               /\ TypeAt(c, Len(c.fields)) \in Name /\ Selectable(TypeAt(c, Len(c.fields)))
  <1>1. Len(c.fields) \in 0..Len(c.fields)
    <2>1. c.fields \in Seq(STRING)
      BY ResolutionAssumption DEF CallSite
    <2>2. Len(c.fields) \in Nat
      BY <2>1
    <2>3. QED
      BY <2>2
  <1>2. TypeAt(c, Len(c.fields)) \in Name /\ Selectable(TypeAt(c, Len(c.fields)))
    BY <1>1, TypesAtNames DEF ValidProgram, SelectorsAreValid
  <1> DEFINE t == ReceiverType(c)
  <1>3. receiverID(t) = t /\ t \in Name /\ ~HasPrefix(t, {"*"})
    BY <1>2, SelectableTypes DEF ReceiverType, Selectable
  <1> HIDE DEF t
  <1>4. Word(t) = t[1] /\ (Named(t) => t[1] \in Qualified /\ t = <<t[1]>>)
    BY <1>3, NamedTypes DEF Word
  <1>5. ~c.indirect /\ ~c.cgo
    BY CallsAssumption
  <1>6. GoCallee(c) = IF Named(t) /\ <<t[1], c.name>> \in Exported THEN <<t[1], c.name>> ELSE NoSymbol
    BY <1>4, <1>5 DEF GoCallee, t
  <1>7. QED
    BY <1>2, <1>4, <1>6 DEF t

\* Where the fields have led.
LEMMA LastReceiverType ==
    ASSUME ValidProgram, IInv, FieldsInv, stage \in {"fields", "packages"}, fields = <<>>
    PROVE  /\ call \in CallSites /\ receiver \in Name /\ (call.receiver = NoName => receiver = NoName)
           /\ receiver # NoName =>
                /\ BaseType(receiver) = ReceiverType(call)
                /\ Written(receiver) /\ Selectable(receiver)
           /\ receiver = NoName /\ HasReceiver /\ unreadable = {} /\ ~Revisits(call) =>
                ~Named(ReceiverType(call))
  <1>1. call \in CallSites /\ receiver \in Name /\ (call.receiver = NoName => receiver = NoName)
    BY DEF IInv, TypeOK, SearchInv
  <1>2. PICK i \in 0..Len(call.fields) : FieldsAreFollowed(i)
    BY DEF FieldsInv
  <1>3. i = Len(call.fields)
    <2>1. call.fields \in Seq(STRING)
      BY <1>1, ResolutionAssumption DEF CallSite
    <2>2. SubSeq(call.fields, i + 1, Len(call.fields)) = <<>>
      BY <1>2 DEF FieldsAreFollowed
    <2>3. QED
      BY <2>1, <2>2, RestOfPath
  <1>4. ASSUME receiver # NoName
        PROVE  BaseType(receiver) = ReceiverType(call) /\ Written(receiver) /\ Selectable(receiver)
    <2>1. BaseType(receiver) = BaseType(TypeAt(call, i)) /\ Written(receiver)
      BY <1>2, <1>4 DEF FieldsAreFollowed
    <2>2. call.receiver # NoName
      BY <1>1, <1>4
    <2>3. Selectable(TypeAt(call, Len(call.fields)))
      BY <1>1, <2>2, CalleeOfReceiver
    <2>4. QED
      BY <1>3, <2>1, <2>3, SameBase DEF ReceiverType
  <1>5. QED
    BY <1>1, <1>2, <1>4 DEF FieldsAreFollowed

\* Of the symbols that the root may stand for, one is the target.
LEMMA TargetIsMeant ==
    ASSUME IInv, stage \in {"fields", "packages"}, NEW s \in Exported, IsIdentity(OwnerOf(s)), IsTarget(s)
    PROVE  s = target
  <1>1. SUFFICES ASSUME <<Public[s[1]], s[2]>> = root PROVE s = target
    BY DEF IsTarget
  <1>2. s \in {x \in Exported : <<Public[x[1]], x[2]>> = root /\ IsIdentity(OwnerOf(x))}
    BY <1>1
  <1>3. {x \in Exported : <<Public[x[1]], x[2]>> = root /\ IsIdentity(OwnerOf(x))} = {target}
    BY <1>2 DEF IInv, RootIsUnique
  <1>4. QED
    BY <1>2, <1>3

-----------------------------------------------------------------------------
(* What is not found in the workspace. *)

LEMMA SearchStarts ==
    ASSUME IInv, CandidatesInv, stage = "fields", NoFunction, receiver # NoName,
           Written(receiver), Selectable(receiver)
    PROVE  LET n == receiverID(receiver)
               known == loaded \cup FilesNaming(Ref(receiver), call.name)
           IN  /\ n \in Name /\ known \in SUBSET Files
               /\ SearchMethod = method(n, call.name, known)
               /\ Goes([type |-> n, known |-> known, seen |-> {}], call.name)
  <1> DEFINE n == receiverID(receiver)
             known == loaded \cup FilesNaming(Ref(receiver), call.name)
  <1>1. receiver \in Name /\ call \in CallSites /\ HasReceiver /\ call.name = target[2] /\ loaded \subseteq Files
    BY DEF IInv, TypeOK, SearchInv, HasReceiver, CandidatesInv
  <1>2. n \in Name /\ ~HasPrefix(n, {"*"}) /\ Selectable(n) /\ Written(n) /\ receiverID(n) = n
    BY <1>1, SelectableTypes, ReceiverWords
  <1>3. known \in SUBSET Files
    BY <1>1, NamedFiles
  <1>4. DeclaringFiles(call.name) \subseteq known
    BY <1>1 DEF CandidatesInv
  <1>5. ASSUME Named(n) PROVE <<n[1], call.name>> \notin Definitions
    <2>1. Named(receiver) /\ Word(receiver) = n[1]
      BY <1>2, <1>5 DEF Named, Word, NoName
    <2>2. Ref(receiver) = Owner[n[1]] /\ Id(receiver) = <<n[1], call.name>>
      BY <1>1, <2>1 DEF Ref, Id
    <2>3. n[1] \in Qualified
      BY <1>2, <1>5, NamedTypes
    <2> DEFINE s == <<n[1], call.name>>
    <2>4. OwnerOf(s) = Owner[n[1]] /\ s[2] = call.name
      BY <2>3 DEF OwnerOf
    <2>5. s \notin functions(loaded \cup FilesNaming(OwnerOf(s), s[2]))
      BY <2>2, <2>4 DEF NoFunction
    <2>6. QED
      BY <2>5, DefinitionsAreFound
  <1>6. SearchMethod = method(n, call.name, known)
    BY DEF SearchMethod
  <1> HIDE DEF n, known
  <1>7. Goes([type |-> n, known |-> known, seen |-> {}], call.name)
    BY <1>2, <1>4, <1>5 DEF Goes
  <1>8. QED
    BY <1>2, <1>3, <1>6, <1>7 DEF n, known

\* No definition is missed for a call without a receiver.
LEMMA NoDefinition ==
    ASSUME call \in CallSites, ~HasReceiver, receiver = NoName, NoFunction
    PROVE  /\ <<call.package, call.name>> \notin Workspace
           /\ Ref(receiver) = call.package /\ Id(receiver) = <<call.package, call.name>>
  <1> DEFINE s == <<call.package, call.name>>
  <1>1. Ref(receiver) = call.package /\ Id(receiver) = s
    BY DEF Ref, Id, Named
  <1>2. OwnerOf(s) = call.package /\ s[2] = call.name
    BY ResolutionAssumption DEF OwnerOf
  <1>3. s \notin functions(loaded \cup FilesNaming(OwnerOf(s), s[2]))
    BY <1>1, <1>2 DEF NoFunction
  <1>4. s \notin Definitions
    BY <1>3, DefinitionsAreFound
  <1>5. QED
    BY <1>1, <1>4, FunctionsOfPackages

LEMMA CallsAreLeft ==
    ASSUME ValidProgram, IInv, CallInv, NotFound
    PROVE  PackagesInv'
  <1>1. /\ stage = "fields" /\ fields = <<>> /\ NoFunction
        /\ receiver # NoName \/ ~(HasReceiver \/ call.indirect)
        /\ HasReceiver => ~SearchMethod.failed /\ SearchMethod.symbol = NoSymbol
        /\ loaded' = loaded \cup (IF HasReceiver THEN SearchMethod.known
                                  ELSE FilesNaming(Ref(receiver), call.name))
        /\ UNCHANGED <<root, target, call, receiver, fields>>
    BY DEF NotFound, NoFunction, AfterFields, Load, given
  <1>2. /\ call \in CallSites /\ receiver \in Name /\ (call.receiver = NoName => receiver = NoName)
        /\ receiver # NoName =>
                /\ BaseType(receiver) = ReceiverType(call)
                /\ Written(receiver) /\ Selectable(receiver)
        /\ call.name = target[2] /\ target # NoSymbol
    BY <1>1, LastReceiverType DEF CallInv, CandidatesInv, IInv, SearchInv
  <1>3. ~call.indirect /\ (HasReceiver => receiver # NoName)
    BY <1>1, <1>2, CallsAssumption DEF HasReceiver
  <1>4. HasReceiver' <=> HasReceiver
    BY <1>1 DEF HasReceiver
  <1>5. CASE ~HasReceiver
    <2>1. receiver = NoName /\ call.receiver = NoName
      BY <1>2, <1>5 DEF HasReceiver
    <2>2. /\ <<call.package, call.name>> \notin Workspace
          /\ Ref(receiver) = call.package /\ Id(receiver) = <<call.package, call.name>>
      BY <1>1, <1>2, <1>5, <2>1, NoDefinition
    <2>3. LastReceiver' = receiver
      BY <1>1, <1>4, <1>5 DEF LastReceiver
    <2>4. LastId' = <<call.package, call.name>> /\ LastRef' = call.package
      BY <1>1, <1>4, <1>5, <2>1, <2>3 DEF LastId, LastRef, Id, Ref, Named
    <2>5. ASSUME GoCallee(call) # NoSymbol
          PROVE  GoCallee(call) = <<call.package, call.name>> /\ call.package \in Standard
      <3>1. GoCallee(call) = <<call.package, call.name>> /\ <<call.package, call.name>> \in Exported
        BY <1>2, <2>1, <2>5, CalleeOfPackage
      <3>2. <<call.package, call.name>> \in StandardFunctions
        BY <2>2, <3>1, ExportedSymbols
      <3>3. call.package \notin Qualified
        BY <1>2, ResolutionAssumption
      <3>4. QED
        BY <3>1, <3>2, <3>3, StandardTypes
    <2>6. ASSUME target = <<call.package, call.name>> PROVE target = root
      <3>1. SUFFICES ASSUME target # root PROVE FALSE
        OBVIOUS
      <3>2. target \in Definitions \/ target[1] \in DOMAIN Types
        BY <1>2, <3>1 DEF CallInv, TargetInv
      <3>3. target \notin Definitions
        BY <2>2, <2>6 DEF Workspace
      <3>4. target[1] \notin DOMAIN Types
        BY <1>2, <2>6, ResolutionAssumption, DeclaredTypes
      <3>5. QED
        BY <3>2, <3>3, <3>4
    <2>7. GoCallee(call)' = GoCallee(call)
      BY <1>1
    <2>8. QED
      BY <1>1, <1>3, <1>4, <1>5, <2>4, <2>5, <2>6, <2>7 DEF PackagesInv
  <1>6. CASE HasReceiver
    <2> DEFINE n == receiverID(receiver)
               t == ReceiverType(call)
    <2>1. receiver # NoName /\ call.receiver # NoName
      BY <1>3, <1>6 DEF HasReceiver
    <2>2. /\ n \in Name /\ ~HasPrefix(n, {"*"}) /\ receiverID(n) = n /\ Selectable(n)
          /\ BaseType(n) = t
      BY <1>2, <2>1, SelectableTypes
    <2>3. /\ Named(t) => <<t[1], call.name>> \notin Workspace
          /\ \E C : n \in C /\ Closed(C, loaded')
      <3> DEFINE known == loaded \cup FilesNaming(Ref(receiver), call.name)
      <3>1. /\ n \in Name /\ known \in SUBSET Files
            /\ SearchMethod = method(n, call.name, known)
            /\ Goes([type |-> n, known |-> known, seen |-> {}], call.name)
        BY <1>1, <1>2, <2>1, SearchStarts DEF CallInv
      <3> HIDE DEF n, known
      <3>2. /\ Named(BaseType(n)) => <<BaseType(n)[1], call.name>> \notin Workspace
            /\ \E C : n \in C /\ Closed(C, method(n, call.name, known).known)
        BY <1>1, <1>6, <3>1, NoMethodIsDeclared
      <3>3. SearchMethod.known \subseteq loaded'
        BY <1>1, <1>6
      <3>4. \E C : n \in C /\ Closed(C, loaded')
        BY <3>1, <3>2, <3>3 DEF Closed
      <3>5. QED
        BY <2>2, <3>2, <3>4
    <2>4. /\ GoCallee(call) = IF Named(t) /\ <<t[1], call.name>> \in Exported THEN <<t[1], call.name>> ELSE NoSymbol
          /\ Named(t) => t[1] \in Qualified /\ t = <<t[1]>>
      BY <1>2, <2>1, CalleeOfReceiver
    <2> DEFINE c == canonicalAliasReceiver(receiver, loaded')
    <2>5. LastReceiver' = IF Named(c) /\ Owner[Word(c)] \in Standard THEN c ELSE receiver
      BY <1>1, <1>4, <1>6 DEF LastReceiver
    <2>6. /\ LastId' = IF Named(LastReceiver') THEN <<Word(LastReceiver'), call.name>> ELSE NoSymbol
          /\ LastRef' = IF Named(LastReceiver') THEN Owner[Word(LastReceiver')] ELSE call.package
      BY <1>1, <1>4, <1>6 DEF LastId, LastRef, Id, Ref
    <2>7. ASSUME GoCallee(call) # NoSymbol
          PROVE  GoCallee(call) = LastId' /\ LastRef' \in Standard
      <3>1. Named(t) /\ <<t[1], call.name>> \in StandardFunctions /\ GoCallee(call) = <<t[1], call.name>>
        BY <2>3, <2>4, <2>7, ExportedSymbols
      <3> DEFINE w == t[1]
      <3>2. w \in Qualified /\ t = <<w>> /\ Owner[w] \in Standard /\ w \notin DOMAIN Types
        BY <2>4, <3>1, StandardTypes
      <3>3. PICK C : n \in C /\ Closed(C, loaded')
        BY <2>3
      <3>4. BaseType(receiver) = <<w>> /\ Written(receiver)
        BY <1>2, <2>1, <3>2
      <3> HIDE DEF w, t, c
      <3>5. receiverID(canonicalAliasReceiver(receiver, loaded')) = <<w>>
        BY <1>2, <2>2, <3>2, <3>3, <3>4, BaseIsCanonical
      <3>6. receiverID(c) = <<w>>
        BY <3>5 DEF c
      <3>7. c # NoName
        BY <3>6 DEF receiverID, HasPrefix, NoName
      <3>8. Named(c) /\ Word(c) = w
        BY <3>2, <3>6, <3>7 DEF Named, Word
      <3>9. LastReceiver' = c
        BY <2>5, <3>2, <3>8
      <3>10. QED
        BY <2>6, <3>1, <3>2, <3>8, <3>9 DEF w
    <2>8. ASSUME target = LastId', target # root PROVE LastRef' \in Standard
      <3>1. SUFFICES ASSUME LastReceiver' = receiver PROVE FALSE
        BY <2>5, <2>6
      <3>2. Named(receiver) /\ target = <<Word(receiver), call.name>>
        BY <1>2, <2>6, <2>8, <3>1
      <3> DEFINE w == Word(receiver)
      <3>3. Named(n) /\ n[1] = w /\ n = <<w>> /\ w \in Qualified
        <4>1. Named(n) /\ n[1] = w
          BY <2>2, <3>2 DEF Named, Word, NoName
        <4>2. QED
          BY <2>2, <4>1, NamedTypes
      <3>4. target[1] = w /\ target[2] = call.name
        BY <3>2
      <3>5. CASE target \in Definitions
        <4>1. Id(receiver) = target /\ Ref(receiver) = OwnerOf(target)
          BY <1>6, <3>2, <3>3, <3>4 DEF Id, Ref, OwnerOf
        <4>2. target \in functions(loaded \cup FilesNaming(Ref(receiver), call.name))
          BY <3>4, <3>5, <4>1, DefinitionsAreFound
        <4>3. QED
          BY <1>1, <4>1, <4>2 DEF NoFunction
      <3>6. CASE target \notin Definitions
        <4>1. Named(BaseType(n)) /\ <<BaseType(n)[1], call.name>> \in Workspace
          BY <1>2, <2>2, <2>8, <3>3, <3>4, <3>6 DEF CallInv, TargetInv
        <4>2. QED
          BY <2>2, <2>3, <4>1
      <3>7. QED
        BY <3>5, <3>6
    <2>9. GoCallee(call)' = GoCallee(call)
      BY <1>1
    <2> HIDE DEF n, t, c
    <2>10. QED
      BY <1>1, <1>3, <1>4, <2>1, <2>7, <2>8, <2>9 DEF PackagesInv
  <1>7. QED
    BY <1>5, <1>6

-----------------------------------------------------------------------------
(* Steps. *)

\* A step that leaves the search, its calls and its edges alone.
LEMMA CallsStay ==
    ASSUME CallInv, loaded \subseteq loaded',
           UNCHANGED <<root, target, unreadable, externalCache, todo, call, receiver, fields, seen, edges>>,
           stage' \in {stage, "failed"} \/ (stage = "fields" /\ stage' = "packages"),
           PackagesInv'
    PROVE  CallInv'
  <1>1. CandidatesInv'
    BY DEF CallInv, CandidatesInv
  <1>2. TargetInv'
    BY DEF CallInv, TargetInv
  <1>3. FieldsInv'
    <2>1. \A i : FieldsAreFollowed(i)' <=> FieldsAreFollowed(i)
      BY DEF FieldsAreFollowed, WasPassed, HasReceiver
    <2>2. QED
      BY <2>1 DEF CallInv, FieldsInv
  <1>4. EdgesAreCalls'
    BY DEF CallInv, EdgesAreCalls
  <1>5. CallersInv'
    <2>1. \A c : (Caller(c)' <=> Caller(c)) /\ (IsFound(c)' <=> IsFound(c))
      BY DEF Caller, IsFound
    <2>2. QED
      BY <2>1 DEF CallInv, CallersInv
  <1>6. QED
    BY <1>1, <1>2, <1>3, <1>4, <1>5 DEF CallInv

\* The call is resolved: what its edge says is true, and there is one if it has to be found.
LEMMA CallIsJudged ==
    ASSUME IInv, CallInv, stage \in {"fields", "packages"},
           NEW id, NEW kind, Resolved(id, kind), loaded \subseteq loaded',
           \A s \in DOMAIN externalCache' : externalCache'[s] => s \in StandardFunctions,
           IsTarget(id) /\ kind \in {"resolved", "standard-library"} => GoCallee(call) = target,
           IsTarget(id) /\ kind = "missing-symbol" => target = root /\ GoCallee(call) = NoSymbol,
           unreadable = {} /\ Caller(call) =>
                IsTarget(id) /\ (IsIdentity(OwnerOf(target)) => kind = "resolved")
    PROVE  CallInv'
  <1> DEFINE e == [call |-> call, kind |-> kind]
  <1>1. /\ stage' = "calls"
        /\ UNCHANGED <<root, target, unreadable, todo, call, receiver, fields, seen>>
        /\ edges' = IF IsTarget(id) THEN edges \cup {e} ELSE edges
        /\ e.call = call /\ e.kind = kind
    BY DEF Resolved, given
  <1> HIDE DEF e
  <1>2. CandidatesInv'
    BY <1>1 DEF CallInv, CandidatesInv
  <1>3. TargetInv'
    BY <1>1 DEF CallInv, TargetInv
  <1>4. FieldsInv' /\ PackagesInv'
    BY <1>1 DEF FieldsInv, PackagesInv
  <1>5. EdgesAreCalls'
    <2>1. ASSUME NEW x \in edges'
          PROVE  /\ x.kind \in {"resolved", "standard-library"} => GoCallee(x.call) = target
                 /\ x.kind = "missing-symbol" => target = root /\ GoCallee(x.call) = NoSymbol
      <3>1. CASE x \in edges
        BY <3>1 DEF CallInv, EdgesAreCalls
      <3>2. CASE x \notin edges
        BY <1>1, <2>1, <3>2
      <3>3. QED
        BY <3>1, <3>2
    <2>2. QED
      BY <1>1, <2>1 DEF EdgesAreCalls
  <1>6. CallersInv'
    <2>1. \A c : (Caller(c)' <=> Caller(c)) /\ (IsFound(c) => IsFound(c)')
      BY <1>1 DEF Caller, IsFound
    <2>2. ASSUME unreadable = {}, Caller(call) PROVE IsFound(call)'
      <3>1. e \in edges' /\ (IsIdentity(OwnerOf(target)) => kind = "resolved")
        BY <1>1, <2>2
      <3>2. QED
        BY <1>1, <3>1 DEF IsFound
    <2>3. ASSUME unreadable = {}, NEW c \in CallSites, Caller(c)'
          PROVE  IsFound(c)' \/ c \in todo'
      <3>1. IsFound(c) \/ c \in todo \/ c = call
        BY <2>1, <2>3 DEF CallInv, CallersInv
      <3>2. CASE c = call
        <4>1. IsFound(call)'
          BY <2>1, <2>2, <2>3, <3>2
        <4>2. QED
          BY <1>1, <3>2, <4>1
      <3>3. QED
        BY <1>1, <2>1, <3>1, <3>2
    <2>4. QED
      BY <1>1, <2>3 DEF CallersInv
  <1>7. QED
    BY <1>2, <1>3, <1>4, <1>5, <1>6 DEF CallInv

\* A call is resolved to nothing if it has no callee.
LEMMA NothingIsCalled ==
    ASSUME IInv, CallInv, stage \in {"fields", "packages"}, externalCache' = externalCache,
           NEW kind, Resolved(NoSymbol, kind), loaded \subseteq loaded',
           ~(unreadable = {} /\ Caller(call))
    PROVE  CallInv'
  <1>1. ~IsTarget(NoSymbol)
    BY NoTarget DEF IInv, SearchInv
  <1>2. \A s \in DOMAIN externalCache' : externalCache'[s] => s \in StandardFunctions
    BY DEF CallInv, CandidatesInv
  <1>3. QED
    BY <1>1, <1>2, CallIsJudged

LEMMA NoCallsAtFirst ==
    ASSUME Init
    PROVE  CallInv
  BY DEF Init, CallInv, CandidatesInv, TargetInv, FieldsInv, PackagesInv, EdgesAreCalls, CallersInv

LEMMA TargetIsDeclared ==
    ASSUME ValidProgram, IInv, CallInv, ChooseRoot
    PROVE  CallInv'
  <1> DEFINE candidates == {s \in Scoped : Exists(s)}
  <1>1. /\ stage = "root" /\ target = NoSymbol /\ edges = {} /\ root \in Roots /\ todo = {}
        /\ loaded \subseteq Files /\ stage' \in {"ambiguous", "candidates"}
        /\ UNCHANGED <<root, externalCache, todo, edges>>
        /\ target' = IF candidates = {} THEN root ELSE CHOOSE s \in candidates : TRUE
    BY DEF ChooseRoot, IInv, TypeOK, SearchInv, CallInv, CandidatesInv, given
  <1>2. target' = root \/ (target' \in Scoped /\ Exists(target'))
    BY <1>1
  <1> HIDE DEF candidates
  <1>3. TargetInv'
    <2>1. SUFFICES ASSUME NEW s \in Scoped, Exists(s), s = target'
                   PROVE  \/ s \in Definitions
                          \/ /\ s[1] \in DOMAIN Types
                             /\ Selectable(<<s[1]>>) =>
                                  /\ Named(BaseType(<<s[1]>>))
                                  /\ <<BaseType(<<s[1]>>)[1], s[2]>> \in Workspace
      BY <1>1, <1>2 DEF TargetInv
    <2>2. CASE s \in functions(loaded \cup RootFiles)
      BY <2>2 DEF functions, Definitions
    <2>3. CASE MethodOf(s).symbol # NoSymbol
      <3>1. s[1] \in Qualified
        BY <2>3 DEF MethodOf, Failed
      <3>2. s[1] \in DOMAIN Types
        BY <1>1, <3>1, ScopedSymbols
      <3>3. MethodOf(s) = method(<<s[1]>>, s[2], loaded \cup RootFiles)
        BY <3>1 DEF MethodOf
      <3>4. <<s[1]>> \in Name /\ loaded \cup RootFiles \in SUBSET Files
        BY <1>1, <3>2, TypeNamesAreNamed, NamedFiles
      <3>5. Selectable(<<s[1]>>) =>
                /\ Named(BaseType(<<s[1]>>))
                /\ <<BaseType(<<s[1]>>)[1], s[2]>> \in Workspace
        BY <2>3, <3>3, <3>4, MethodIsDeclared
      <3>6. QED
        BY <3>2, <3>5
    <2>4. QED
      BY <2>1, <2>2, <2>3 DEF Exists
  <1>4. CandidatesInv' /\ FieldsInv' /\ PackagesInv'
    BY <1>1 DEF CallInv, CandidatesInv, FieldsInv, PackagesInv
  <1>5. EdgesAreCalls' /\ CallersInv'
    BY <1>1 DEF EdgesAreCalls, CallersInv
  <1>6. QED
    BY <1>3, <1>4, <1>5 DEF CallInv

\* A call that has to be found has the name of the target.
LEMMA CalleeName ==
    ASSUME NEW c, GoCallee(c) # NoSymbol
    PROVE  GoCallee(c)[2] = c.name
  <1> DEFINE s == IF c.receiver = NoName THEN <<c.package, c.name>>
                  ELSE IF Named(ReceiverType(c)) THEN <<Word(ReceiverType(c)), c.name>> ELSE NoSymbol
  <1>1. GoCallee(c) = s
    BY DEF GoCallee
  <1>2. s = <<c.package, c.name>> \/ s = <<Word(ReceiverType(c)), c.name>> \/ s = NoSymbol
    OBVIOUS
  <1>3. QED
    BY <1>1, <1>2

LEMMA CallsOfTheName ==
    ASSUME IInv, CallInv, LoadCandidates
    PROVE  CallInv'
  <1>1. /\ stage = "candidates" /\ target # NoSymbol
        /\ UNCHANGED <<root, unreadable, target, externalCache, call, receiver, fields, seen, edges>>
    BY DEF LoadCandidates, IInv, SearchInv, given
  <1>2. CASE Readable(Mentioning)
    <2>1. /\ loaded' = loaded \cup Mentioning /\ stage' = "calls"
          /\ todo' = {c \in CallSites : c.name = target[2]}
      BY <1>2 DEF LoadCandidates
    <2>2. DeclaringFiles(target[2]) \subseteq Mentioning
      BY DEF DeclaringFiles, Mentioning
    <2>3. CandidatesInv'
      BY <1>1, <2>1, <2>2 DEF CallInv, CandidatesInv
    <2>4. TargetInv' /\ EdgesAreCalls' /\ FieldsInv' /\ PackagesInv'
      BY <1>1, <2>1 DEF CallInv, TargetInv, EdgesAreCalls, FieldsInv, PackagesInv
    <2>5. ASSUME NEW c \in CallSites, Caller(c)' PROVE c \in todo'
      BY <1>1, <2>1, <2>5, CalleeName DEF Caller
    <2>6. CallersInv'
      BY <2>5 DEF CallersInv
    <2>7. QED
      BY <2>3, <2>4, <2>6 DEF CallInv
  <1>3. CASE ~Readable(Mentioning)
    <2>1. /\ stage' = "failed" /\ loaded' = loaded /\ todo' = todo
      BY <1>3 DEF LoadCandidates
    <2>2. PackagesInv'
      BY <2>1 DEF PackagesInv
    <2>3. QED
      BY <1>1, <2>1, <2>2, CallsStay
  <1>4. QED
    BY <1>2, <1>3

LEMMA CallIsTaken ==
    ASSUME ValidProgram, IInv, CallInv, NextCall
    PROVE  CallInv'
  <1>1. /\ stage = "calls" /\ stage' = "fields" /\ seen' = {} /\ target # NoSymbol
        /\ UNCHANGED <<root, unreadable, target, loaded, externalCache, edges>>
    BY DEF NextCall, IInv, SearchInv, given
  <1>2. PICK c \in todo : call' = c /\ receiver' = c.receiver /\ fields' = c.fields /\ todo' = todo \ {c}
    BY DEF NextCall
  <1>3. c \in CallSites /\ c.fields \in Seq(STRING)
    BY <1>2, ResolutionAssumption DEF IInv, TypeOK, CallSite
  <1>4. CandidatesInv'
    BY <1>1, <1>2 DEF CallInv, CandidatesInv
  <1>5. FieldsInv'
    <2>1. SubSeq(c.fields, 0 + 1, Len(c.fields)) = c.fields /\ Len(c.fields) \in Nat
      BY <1>3, RestOfPath
    <2>2. 0 \in 0..Len(c.fields)
      BY <2>1
    <2>3. TypeAt(c, 0) = c.receiver /\ Written(c.receiver)
      BY <1>3, NextType DEF ValidProgram, NamesAreWritten
    <2>4. ~(receiver' = NoName /\ HasReceiver')
      BY <1>2 DEF HasReceiver
    <2>5. FieldsAreFollowed(0)'
      BY <1>1, <1>2, <2>1, <2>3, <2>4 DEF FieldsAreFollowed
    <2>6. QED
      BY <1>2, <2>2, <2>5 DEF FieldsInv
  <1>6. TargetInv' /\ EdgesAreCalls' /\ PackagesInv'
    BY <1>1 DEF CallInv, TargetInv, EdgesAreCalls, PackagesInv
  <1>7. CallersInv'
    <2>1. \A x : (Caller(x)' <=> Caller(x)) /\ (IsFound(x)' <=> IsFound(x))
      BY <1>1 DEF Caller, IsFound
    <2>2. ASSUME unreadable = {}, NEW x \in CallSites, Caller(x)'
          PROVE  IsFound(x)' \/ x \in todo' \/ x = call'
      <3>1. IsFound(x) \/ x \in todo
        BY <1>1, <2>1, <2>2 DEF CallInv, CallersInv
      <3>2. QED
        BY <1>2, <2>1, <3>1
    <2>3. QED
      BY <1>1, <2>2 DEF CallersInv
  <1>8. QED
    BY <1>4, <1>5, <1>6, <1>7 DEF CallInv

LEMMA AllCallsAreDone ==
    ASSUME CallInv, Done
    PROVE  CallInv'
  <1>1. /\ stage = "calls" /\ stage' = "done" /\ todo = {}
        /\ UNCHANGED <<root, unreadable, target, loaded, externalCache, todo, call, edges>>
    BY DEF Done, given
  <1>2. CandidatesInv' /\ TargetInv' /\ FieldsInv' /\ PackagesInv' /\ EdgesAreCalls'
    BY <1>1 DEF CallInv, CandidatesInv, TargetInv, FieldsInv, PackagesInv, EdgesAreCalls
  <1>3. \A c : (Caller(c)' <=> Caller(c)) /\ (IsFound(c)' <=> IsFound(c))
    BY <1>1 DEF Caller, IsFound
  <1>4. CallersInv'
    BY <1>1, <1>3 DEF CallInv, CallersInv
  <1>5. QED
    BY <1>2, <1>4 DEF CallInv

LEMMA FieldsLeadOn ==
    ASSUME ValidProgram, IInv, CallInv, FollowField
    PROVE  CallInv'
  <1>1. /\ stage = "fields" /\ stage' = "fields" /\ loaded \subseteq loaded'
        /\ UNCHANGED <<root, unreadable, target, externalCache, todo, call, edges>>
    BY DEF FollowField, given
  <1>2. FieldsInv'
    BY FieldsAreFollowedOn DEF CallInv
  <1>3. CandidatesInv' /\ TargetInv' /\ PackagesInv' /\ EdgesAreCalls'
    BY <1>1 DEF CallInv, CandidatesInv, TargetInv, PackagesInv, EdgesAreCalls
  <1>4. \A c : (Caller(c)' <=> Caller(c)) /\ (IsFound(c)' <=> IsFound(c))
    BY <1>1 DEF Caller, IsFound
  <1>5. CallersInv'
    BY <1>1, <1>4 DEF CallInv, CallersInv
  <1>6. QED
    BY <1>2, <1>3, <1>5 DEF CallInv

LEMMA PackagesAreLeft ==
    ASSUME ValidProgram, IInv, CallInv, NotFound
    PROVE  CallInv'
  <1>1. /\ stage = "fields" /\ stage' = "packages" /\ loaded \subseteq loaded'
        /\ UNCHANGED <<root, target, unreadable, externalCache, todo, call, receiver, fields, seen, edges>>
    BY DEF NotFound, NoFunction, AfterFields, Load, given
  <1>2. QED
    BY <1>1, CallsAreLeft, CallsStay

\* A step that only fails, or that changes nothing but the installation.
LEMMA NothingChanges ==
    ASSUME CallInv, stage' \in {stage, "failed"},
           UNCHANGED <<root, target, unreadable, loaded, externalCache, todo, call, receiver, fields,
                       seen, edges>>
    PROVE  CallInv'
  <1>1. PackagesInv'
    <2>1. CASE stage' = "failed"
      BY <2>1 DEF PackagesInv
    <2>2. CASE stage' = stage
      <3>1. LastReceiver' = LastReceiver
        BY DEF LastReceiver, HasReceiver
      <3>2. LastId' = LastId /\ LastRef' = LastRef /\ HasReceiver' = HasReceiver
        BY <3>1 DEF LastId, LastRef, Id, Ref, HasReceiver
      <3>3. QED
        BY <2>2, <3>2 DEF CallInv, PackagesInv
    <2>3. QED
      BY <2>1, <2>2
  <1>2. QED
    BY <1>1, CallsStay

LEMMA CanonicalNames ==
    ASSUME NEW n \in Name, NEW known
    PROVE  canonicalAliasReceiver(n, known) \in Name
  <1>1. PICK f : /\ f = [s \in Chain |-> IF LeadsOn(s, known) THEN f[Onward(s)] ELSE EndOfChain(s, n, known)]
                 /\ canonicalAliasReceiver(n, known) = f[ChainOf(n)]
    BY ChainLoop
  <1> DEFINE T == {s \in Chain : f[s] \in Name}
  <1>2. ASSUME NEW s \in Chain, ~LeadsOn(s, known) PROVE s \in T
    <2>1. s.type \in Name /\ <<"*">> \o s.type \in Name
      BY Pointers DEF Chain
    <2>2. QED
      BY <1>1, <1>2, <2>1 DEF EndOfChain
  <1>3. ASSUME NEW s \in Chain, LeadsOn(s, known), Onward(s) \in Chain, Onward(s) \in T PROVE s \in T
    BY <1>1, <1>3
  <1> HIDE DEF T
  <1>4. \A s \in Chain : s \in T
    BY <1>2, <1>3, ChainInduction
  <1>5. QED
    BY <1>1, <1>4, ChainsStart DEF T

\* A name with a package in its first word is that of a type, or of a pointer to it.
LEMMA WordOfName ==
    ASSUME NEW n \in Name, Named(n)
    PROVE  Word(n) \in Qualified /\ receiverID(n) = <<Word(n)>>
  <1>1. receiverID(n) \in Name /\ Len(receiverID(n)) = 1
    BY ReceiverTypes DEF Named
  <1>2. receiverID(n) = <<receiverID(n)[1]>>
    BY <1>1, OneWord
  <1>3. QED
    BY <1>2 DEF Named, Word

\* The callee of a call with a receiver of a type that is no alias.
LEMMA CalleeOfType ==
    ASSUME ValidProgram, NEW c \in CallSites, c.receiver # NoName,
           NEW w \in Qualified, ReceiverType(c) = <<w>>, <<w, c.name>> \in Exported
    PROVE  GoCallee(c) = <<w, c.name>>
  <1>1. Named(<<w>>) /\ <<w>>[1] = w
    BY NamedWords
  <1>2. QED
    BY <1>1, CalleeOfReceiver

LEMMA NothingToCall ==
    ASSUME ValidProgram, IInv, CallInv, NothingToResolve
    PROVE  CallInv'
  <1>1. /\ stage = "fields" /\ fields = <<>> /\ receiver = NoName /\ (HasReceiver \/ call.indirect)
        /\ Resolved(NoSymbol, "unknown") /\ loaded' = loaded /\ externalCache' = externalCache
    BY DEF NothingToResolve
  <1>2. /\ call \in CallSites /\ target # NoSymbol
        /\ HasReceiver /\ unreadable = {} /\ ~Revisits(call) => ~Named(ReceiverType(call))
    BY <1>1, LastReceiverType DEF CallInv, IInv, SearchInv
  <1>3. ~(unreadable = {} /\ Caller(call))
    <2>1. CASE call.indirect
      BY <1>2, <2>1 DEF Caller, GoCallee
    <2>2. CASE HasReceiver
      <3>1. SUFFICES ASSUME unreadable = {}, ~Revisits(call) PROVE GoCallee(call) = NoSymbol
        BY <1>2 DEF Caller
      <3>2. QED
        BY <1>2, <2>2, <3>1, CalleeOfReceiver DEF HasReceiver
    <2>3. QED
      BY <1>1, <2>1, <2>2
  <1>4. QED
    BY <1>1, <1>3, NothingIsCalled

\* The callee is found in the workspace.
LEMMA CalleeIsFound ==
    ASSUME IInv, CallInv, stage = "fields", NEW s \in Workspace, IsIdentity(OwnerOf(s)), Found(s),
           externalCache' = externalCache, loaded \subseteq loaded', GoCallee(call) = s
    PROVE  CallInv'
  <1>1. CASE sameSeries(call.module, ModuleOf(s))
    <2>1. Resolved(s, "resolved")
      BY <1>1 DEF Found
    <2>2. IsTarget(s) <=> s = target
      BY ExportedSymbols, TargetIsMeant DEF IsTarget
    <2>3. \A t \in DOMAIN externalCache' : externalCache'[t] => t \in StandardFunctions
      BY DEF CallInv, CandidatesInv
    <2>4. Caller(call) => s = target
      BY DEF Caller
    <2>5. QED
      BY <2>1, <2>2, <2>3, <2>4, CallIsJudged
  <1>2. CASE ~sameSeries(call.module, ModuleOf(s))
    <2>1. Resolved(NoSymbol, "different-module-series")
      BY <1>2 DEF Found
    <2>2. ~Caller(call)
      BY <1>2 DEF Caller
    <2>3. QED
      BY <2>1, <2>2, NothingIsCalled
  <1>3. QED
    BY <1>1, <1>2

LEMMA FunctionIsCalled ==
    ASSUME ValidProgram, IInv, CallInv, FindFunction
    PROVE  CallInv'
  <1> DEFINE s == Id(receiver)
  <1>1. /\ stage = "fields" /\ fields = <<>> /\ (receiver # NoName \/ ~(HasReceiver \/ call.indirect))
        /\ Found(s) /\ externalCache' = externalCache /\ loaded \subseteq loaded'
        /\ s \in functions(loaded \cup FilesNaming(Ref(receiver), call.name))
    BY DEF FindFunction, AfterFields, Load
  <1>2. /\ call \in CallSites /\ receiver \in Name /\ (call.receiver = NoName => receiver = NoName)
        /\ receiver # NoName => BaseType(receiver) = ReceiverType(call) /\ Selectable(receiver)
    BY <1>1, LastReceiverType DEF CallInv
  <1>3. s \in Definitions
    BY <1>1 DEF functions, Definitions
  <1>4. s \in Workspace /\ s \in Exported /\ s # NoSymbol /\ IsIdentity(OwnerOf(s))
    <2>1. s \in Symbol /\ IsIdentity(OwnerOf(s))
      BY <1>3, DefinitionsAreFound
    <2>2. s \in Workspace
      BY <1>3 DEF Workspace
    <2>3. QED
      BY <2>1, <2>2, SymbolsAreSome, ExportedSymbols
  <1>5. GoCallee(call) = s
    <2>1. CASE ~HasReceiver
      <3>1. receiver = NoName /\ call.receiver = NoName /\ ~call.indirect
        BY <1>1, <1>2, <2>1 DEF HasReceiver
      <3>2. s = <<call.package, call.name>>
        BY <2>1 DEF Id
      <3>3. ~call.cgo
        BY <1>2, <1>4, <3>2, FunctionsOfPackages
      <3>4. QED
        BY <1>2, <1>4, <3>1, <3>2, <3>3, CalleeOfPackage
    <2>2. CASE HasReceiver
      <3> DEFINE w == Word(receiver)
      <3>1. Named(receiver) /\ s = <<w, call.name>>
        BY <1>4, <2>2 DEF Id
      <3>2. w \in Qualified /\ receiverID(receiver) = <<w>> /\ receiver # NoName
        BY <1>2, <3>1, WordOfName DEF Named
      <3>3. w \notin Aliases
        BY <1>4, <3>1, <3>2, MethodsOfTypes DEF ValidProgram
      <3>4. ReceiverType(call) = <<w>>
        BY <1>2, <3>2, <3>3, WordBase, SelectableTypes
      <3> HIDE DEF w
      <3>5. QED
        BY <1>2, <1>4, <2>2, <3>1, <3>2, <3>4, CalleeOfType DEF HasReceiver
    <2>3. QED
      BY <2>1, <2>2
  <1> HIDE DEF s
  <1>6. QED
    BY <1>1, <1>4, <1>5, CalleeIsFound

LEMMA MethodIsCalled ==
    ASSUME ValidProgram, IInv, CallInv, FindMethod
    PROVE  CallInv'
  <1> DEFINE n == receiverID(receiver)
             t == ReceiverType(call)
             known == loaded \cup FilesNaming(Ref(receiver), call.name)
  <1>1. /\ stage = "fields" /\ fields = <<>> /\ HasReceiver /\ receiver # NoName
        /\ SearchMethod.symbol # NoSymbol /\ SearchMethod = method(n, call.name, known)
        /\ Found(SearchMethod.symbol) /\ externalCache' = externalCache /\ loaded \subseteq loaded'
    BY DEF FindMethod, NoFunction, AfterFields, Load, SearchMethod
  <1>2. /\ call \in CallSites /\ receiver \in Name /\ loaded \subseteq Files
        /\ BaseType(receiver) = t /\ Selectable(receiver)
    BY <1>1, LastReceiverType DEF CallInv, IInv, TypeOK
  <1>3. n \in Name /\ Selectable(n) /\ BaseType(n) = t /\ known \in SUBSET Files
    BY <1>2, SelectableTypes, NamedFiles
  <1>4. Named(t) => t[1] \in Qualified /\ t = <<t[1]>>
    BY <1>1, <1>2, CalleeOfReceiver DEF HasReceiver
  <1> HIDE DEF n, t, known
  <1>5. /\ SearchMethod.symbol = <<t[1], call.name>> /\ <<t[1], call.name>> \in Workspace
        /\ Named(t) /\ t[1] \in DOMAIN Types
    BY <1>1, <1>3, MethodIsDeclared
  <1>6. IsIdentity(OwnerOf(SearchMethod.symbol))
    <2>1. OwnerOf(SearchMethod.symbol) = Owner[t[1]]
      BY <1>4, <1>5 DEF OwnerOf
    <2>2. QED
      BY <1>5, <2>1, ResolutionAssumption DEF IsIdentity
  <1>7. GoCallee(call) = SearchMethod.symbol
    BY <1>1, <1>2, <1>4, <1>5, ExportedSymbols, CalleeOfType DEF HasReceiver, t
  <1>8. QED
    BY <1>1, <1>5, <1>6, <1>7, CalleeIsFound

LEMMA PackageIsJudged ==
    ASSUME IInv, CallInv, DecideByPackage
    PROVE  CallInv'
  <1> DEFINE matching == {p \in Packages : matchesPackage(p, LastRef)}
  <1>1. /\ stage = "packages" /\ loaded' = loaded /\ externalCache' = externalCache
        /\ call.cgo \/ matching # {}
        /\ IF call.cgo THEN Resolved(LastId, "cgo")
           ELSE IF \E p \in matching : sameSeries(call.module, p.module)
           THEN Resolved(LastId, "missing-symbol")
           ELSE Resolved(NoSymbol, "different-module-series")
    BY DEF DecideByPackage
  <1>2. target # NoSymbol /\ \A s \in DOMAIN externalCache' : externalCache'[s] => s \in StandardFunctions
    BY <1>1 DEF CallInv, CandidatesInv, IInv, SearchInv
  <1>3. GoCallee(call) = NoSymbol /\ (~call.cgo => LastRef \notin Standard)
    <2>1. CASE call.cgo
      BY <2>1 DEF GoCallee
    <2>2. CASE ~call.cgo
      <3>1. LastRef \notin Standard
        BY <1>1, <2>2, StandardPackages
      <3>2. QED
        BY <1>1, <3>1 DEF CallInv, PackagesInv
    <2>3. QED
      BY <2>1, <2>2
  <1>4. ~Caller(call)
    BY <1>2, <1>3 DEF Caller
  <1> HIDE DEF matching
  <1>5. CASE call.cgo
    <2>1. Resolved(LastId, "cgo")
      BY <1>1, <1>5
    <2>2. QED
      BY <1>1, <1>2, <1>4, <2>1, CallIsJudged
  <1>6. CASE ~call.cgo /\ Resolved(LastId, "missing-symbol")
    <2>1. IsTarget(LastId) => target = root
      BY <1>1, <1>3, <1>6 DEF IsTarget, CallInv, PackagesInv
    <2>2. QED
      BY <1>1, <1>2, <1>3, <1>4, <1>6, <2>1, CallIsJudged
  <1>7. CASE Resolved(NoSymbol, "different-module-series")
    BY <1>1, <1>4, <1>7, NothingIsCalled
  <1>8. QED
    BY <1>1, <1>5, <1>6, <1>7

\* The symbol of the standard library that is looked for is what the call calls.
LEMMA ExternalCallee ==
    ASSUME ValidProgram, IInv, CallInv, stage = "packages", ~call.cgo, LastId \in StandardFunctions
    PROVE  GoCallee(call) = LastId
  <1>1. /\ fields = <<>> /\ ~call.indirect
        /\ call \in CallSites /\ receiver \in Name /\ (call.receiver = NoName => receiver = NoName)
        /\ receiver # NoName => BaseType(receiver) = ReceiverType(call) /\ Selectable(receiver)
        /\ HasReceiver => receiver # NoName
    BY LastReceiverType DEF CallInv, PackagesInv
  <1>2. LastId \in Exported /\ LastId # NoSymbol
    BY ExportedSymbols, SymbolsAreSome, ResolutionAssumption
  <1>3. CASE ~HasReceiver
    <2>1. call.receiver = NoName /\ LastId = <<call.package, call.name>>
      BY <1>3 DEF HasReceiver, LastId, Id
    <2>2. QED
      BY <1>1, <1>2, <2>1, CalleeOfPackage
  <1>4. CASE HasReceiver
    <2> DEFINE r == LastReceiver
               w == Word(r)
    <2>1. Named(r) /\ LastId = <<w, call.name>>
      BY <1>2, <1>4 DEF LastId, Id
    <2>2. r \in Name /\ (r = receiver \/ r = canonicalAliasReceiver(receiver, loaded))
      BY <1>1, CanonicalNames DEF LastReceiver
    <2> HIDE DEF r
    <2>3. w \in Qualified /\ receiverID(r) = <<w>>
      BY <2>1, <2>2, WordOfName
    <2> HIDE DEF w
    <2>4. w \notin DOMAIN Types
      BY <2>1, <2>3, StandardTypes
    <2>5. w \notin Aliases
      BY <2>4 DEF Aliases
    <2>6. BaseType(receiver) = <<w>>
      <3>1. CASE r = receiver
        BY <1>1, <1>4, <2>3, <2>5, <3>1, WordBase, SelectableTypes
      <3>2. CASE r = canonicalAliasReceiver(receiver, loaded)
        BY <1>1, <2>3, <2>5, <3>2, CanonicalIsBase
      <3>3. QED
        BY <2>2, <3>1, <3>2
    <2>7. QED
      BY <1>1, <1>2, <1>4, <2>1, <2>3, <2>6, CalleeOfType DEF HasReceiver
  <1>5. QED
    BY <1>3, <1>4

LEMMA ExternalIsCalled ==
    ASSUME ValidProgram, IInv, CallInv, DecideExternal
    PROVE  CallInv'
  <1> DEFINE found == IF LastId \in DOMAIN externalCache THEN externalCache[LastId]
                      ELSE installed /\ LastId \in StandardFunctions
             kind == IF LastRef \in Standard /\ found THEN "standard-library" ELSE "definition-unavailable"
  <1>1. /\ stage = "packages" /\ loaded' = loaded /\ ~call.cgo
        /\ Resolved(LastId, kind)
        /\ IF LastRef \in Standard THEN RememberExternal(LastId, found) ELSE externalCache' = externalCache
    BY DEF DecideExternal
  <1>2. /\ target # NoSymbol
        /\ \A s \in DOMAIN externalCache : externalCache[s] => s \in StandardFunctions
    BY <1>1 DEF CallInv, CandidatesInv, IInv, SearchInv
  <1>3. found => LastId \in StandardFunctions
    BY <1>2
  <1>4. /\ kind \notin {"resolved", "missing-symbol"}
        /\ kind = "standard-library" => found /\ LastRef \in Standard
    OBVIOUS
  <1> HIDE DEF found, kind
  <1>5. \A s \in DOMAIN externalCache' : externalCache'[s] => s \in StandardFunctions
    BY <1>1, <1>2, <1>3 DEF RememberExternal
  <1>6. LastRef \in Standard /\ LastId # NoSymbol => LastRef = OwnerOf(LastId) /\ ~IsIdentity(OwnerOf(LastId))
    BY <1>1, LastSymbols, StandardPackages
  <1>7. ASSUME IsTarget(LastId), kind = "standard-library" PROVE GoCallee(call) = target
    <2>1. LastId \in StandardFunctions /\ LastRef \in Standard
      BY <1>3, <1>4, <1>7
    <2>2. LastId # NoSymbol
      BY <1>2, <1>7, NoTarget
    <2>3. LastId \in Callee
      BY <1>1, <2>2, LastSymbols
    <2>4. LastId = target
      BY <1>2, <1>6, <1>7, <2>1, <2>2, <2>3, ExternalTarget
    <2>5. QED
      BY <1>1, <2>1, <2>4, ExternalCallee
  <1>8. ASSUME Caller(call) PROVE IsTarget(LastId) /\ ~IsIdentity(OwnerOf(target))
    <2>1. GoCallee(call) = target
      BY <1>8 DEF Caller
    <2>2. target = LastId /\ LastRef \in Standard
      BY <1>1, <1>2, <2>1 DEF CallInv, PackagesInv
    <2>3. QED
      BY <1>2, <1>6, <2>2 DEF IsTarget
  <1>9. QED
    BY <1>1, <1>4, <1>5, <1>7, <1>8, CallIsJudged

LEMMA CallInvariance ==
    ASSUME ValidProgram, IInv, CallInv, [Next]_vars
    PROVE  CallInv'
  <1>1. CASE ChooseRoot
    BY <1>1, TargetIsDeclared
  <1>2. CASE RootFails
    BY <1>2, NothingChanges DEF RootFails, given
  <1>3. CASE LoadCandidates
    BY <1>3, CallsOfTheName
  <1>4. CASE NextCall
    BY <1>4, CallIsTaken
  <1>5. CASE Done
    BY <1>5, AllCallsAreDone
  <1>6. CASE FollowField
    BY <1>6, FieldsLeadOn
  <1>7. CASE NothingToResolve
    BY <1>7, NothingToCall
  <1>8. CASE FindFunction
    BY <1>8, FunctionIsCalled
  <1>9. CASE FindMethod
    BY <1>9, MethodIsCalled
  <1>10. CASE ResolveFails
    BY <1>10, NothingChanges DEF ResolveFails, given
  <1>11. CASE NotFound
    BY <1>11, PackagesAreLeft
  <1>12. CASE DecideByPackage
    BY <1>12, PackageIsJudged
  <1>13. CASE DecideExternal
    BY <1>13, ExternalIsCalled
  <1>14. CASE InstallationChanges
    BY <1>14, NothingChanges DEF InstallationChanges
  <1>15. CASE UNCHANGED vars
    BY <1>15, NothingChanges DEF vars
  <1>16. QED
    BY <1>1, <1>2, <1>3, <1>4, <1>5, <1>6, <1>7, <1>8, <1>9, <1>10, <1>11, <1>12, <1>13, <1>14,
       <1>15 DEF Next

\* Of valid programs no caller is invented: an edge is a call whose callee by the rules of
\* Go is the target, and a symbol counts as missing only where nothing declares it.
THEOREM EdgesTheorem ==
    ASSUME ValidProgram
    PROVE  Spec => []EdgesAreCalls
  <1>1. Init => CallInv
    BY NoCallsAtFirst
  <1>2. IInv /\ CallInv /\ [Next]_vars => CallInv'
    BY CallInvariance
  <1>3. CallInv => EdgesAreCalls
    BY DEF CallInv
  <1>4. QED
    BY Initially, Invariance, <1>1, <1>2, <1>3, PTL DEF Spec

LEMMA NoCallerIsLeft ==
    ASSUME CallInv
    PROVE  CallersAreFound
  <1>1. SUFFICES ASSUME stage = "done", unreadable = {}, NEW c \in CallSites, Caller(c)
                 PROVE  IsFound(c)
    BY DEF CallersAreFound, Caller, IsFound
  <1>2. todo = {}
    BY <1>1 DEF CallInv, CandidatesInv
  <1>3. QED
    BY <1>1, <1>2 DEF CallInv, CallersInv

\* Of valid programs no caller is lost to the files that other searches had loaded, to the
\* order of the calls, or to a lookup that comes before the load.
THEOREM CallersTheorem ==
    ASSUME ValidProgram
    PROVE  Spec => []CallersAreFound
  <1>1. Init => CallInv
    BY NoCallsAtFirst
  <1>2. IInv /\ CallInv /\ [Next]_vars => CallInv'
    BY CallInvariance
  <1>3. CallInv => CallersAreFound
    BY NoCallerIsLeft
  <1>4. QED
    BY Initially, Invariance, <1>1, <1>2, <1>3, PTL DEF Spec

=============================================================================
