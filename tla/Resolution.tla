----------------------------- MODULE Resolution -----------------------------
(***************************************************************************)
(* One search for the callers of a target: targetSymbol chooses the symbol, *)
(* callersFor takes the calls of its name in any order, and resolve finds   *)
(* the callee of each: through a chain of fields, the functions of the      *)
(* workspace, an alias of a type, the packages with the path, and the       *)
(* declarations of the standard library, which are cached.  Files may have  *)
(* been loaded by other searches, and some cannot be read.  Whether two     *)
(* modules are connected is given (Imports has sameSeries), and no type has *)
(* embedded fields (MethodSets has the search through those).               *)
(***************************************************************************)
EXTENDS Assignability

CONSTANTS
    Packages,           \* of the workspace: [id, path, module, test]
    Connected,          \* the pairs of modules of which sameSeries holds
    Standard,           \* the paths of the standard library
    Owner,              \* the package, or the path, in the name of a type
    Public,             \* type names and package identities as the user writes them
    Functions,          \* the functions that are no methods: [owner, name, file]
    StandardFunctions,  \* what the standard library declares, as symbols
    FieldsOf,           \* the fields of a type: a function from names to types
    CallSites,
    Roots               \* targets as the user writes them

Package == [id : STRING, path : STRING, module : STRING, test : BOOLEAN]

\* A call of a function of `package', or of a method of the type that a chain
\* of fields leads to from the type `receiver'.
CallSite == [caller : STRING, module : STRING, package : STRING, receiver : Name,
             fields : Seq(STRING), name : STRING, indirect : BOOLEAN, cgo : BOOLEAN]

\* A package or the name of a type, and the name of a function or method.
Symbol == STRING \X STRING
NoSymbol == <<>>

ASSUME ResolutionAssumption ==
    /\ Packages \subseteq Package
    /\ \A p \in Packages : /\ p.id \notin {q.path : q \in Packages} \cup Standard \cup Qualified
                            /\ p.path \notin Standard
                            /\ Public[p.id] = p.path
    /\ IsFiniteSet(DOMAIN Types) /\ Qualified \subseteq STRING \ {"*"}
    /\ \A t \in Qualified : Owner[t] \in STRING
    /\ \A t \in DOMAIN Types : \E p \in Packages : p.id = Owner[t]
    /\ \A c \in CallSites : c.package \notin Qualified
    /\ \A t \in Qualified : Owner[t] \notin {p.id : p \in Packages} => Public[t] = t
    /\ \A c \in CallSites : c.package \notin {p.id : p \in Packages} => Public[c.package] = c.package
    /\ Functions \subseteq [owner : {p.id : p \in Packages}, name : STRING, file : Files]
    /\ StandardFunctions \subseteq Symbol /\ Standard \cap Qualified = {}
    /\ \A s \in StandardFunctions :
        s[1] \in Standard \/ (s[1] \in Qualified /\ Owner[s[1]] \in Standard)
    /\ \A t \in DOMAIN Types : \A f \in DOMAIN FieldsOf[t] : FieldsOf[t][f] \in Name
    /\ CallSites \subseteq CallSite
    /\ Roots \subseteq Symbol

\* Words without a package, which are words all the same.
ASSUME WordsAssumption ==
    /\ {"*", "uint8", "int32", "interface{}"} \subseteq STRING
    /\ Qualified \cap {"byte", "rune", "any", "uint8", "int32", "interface{}"} = {}

\* What has a receiver is a method, and cgo has a package of its own.
ASSUME CallsAssumption == \A c \in CallSites :
    /\ c.receiver # NoName => ~c.indirect /\ ~c.cgo
    /\ c.cgo => c.package \notin {p.id : p \in Packages}

VARIABLES
    root,           \* the target as the user writes it
    target,         \* the symbol of the search
    loaded, unreadable,
    installed,      \* the standard library can be read now
    externalCache,  \* whether a declaration was found: a function on symbols
    todo,           \* the calls of the name that are still to be resolved
    call,           \* the call that is being resolved
    receiver,       \* the type of its receiver so far
    fields,         \* the fields still to follow
    seen,           \* the types that the fields went through
    stage,
    edges           \* [call, kind] for the calls of the target

vars == <<root, target, loaded, unreadable, installed, externalCache, todo, call,
          receiver, fields, seen, stage, edges>>

given == <<root, unreadable, installed>>

NoCall == CHOOSE c \in CallSites : TRUE

Init ==
    /\ root \in Roots
    /\ target = NoSymbol
    /\ loaded \in SUBSET Files
    /\ unreadable \in SUBSET (Files \ loaded)
    /\ installed = TRUE
    /\ externalCache = [s \in {} |-> TRUE]
    /\ todo = {}
    /\ call = NoCall
    /\ receiver = NoName
    /\ fields = <<>>
    /\ seen = {}
    /\ stage = "root"
    /\ edges = {}

-----------------------------------------------------------------------------
(* Lookups. *)

IsIdentity(ref) == \E p \in Packages : p.id = ref

\* matchesPackage
matchesPackage(p, ref) == IF IsIdentity(ref) THEN p.id = ref ELSE ~p.test /\ p.path = ref

sameSeries(m, n) == m = n \/ <<m, n>> \in Connected

IsInterfaceType(t) == Types[t].underlying = <<"interface">>

IsAlias(t) == t \in DOMAIN Types /\ Types[t].alias

\* Every function and method with its file, and the requirements of interfaces.
Declared ==
    {[symbol |-> <<f.owner, f.name>>, package |-> f.owner, file |-> f.file] : f \in Functions}
    \cup {[symbol |-> <<m.of, m.name>>, package |-> Owner[m.of], file |-> m.file] :
            m \in {m \in Methods : ~IsInterfaceType(m.of)}}

\* engine.functions when the files in `known' are loaded.
functions(known) == {d.symbol : d \in {d \in Declared : d.file \in known}}

\* definitions(ref, name) for the name of a function or method.
FilesNaming(ref, name) ==
    {d.file : d \in {d \in Declared :
        /\ d.symbol[2] = name
        /\ \E p \in Packages : p.id = d.package /\ matchesPackage(p, ref)}}

Readable(files) == files \cap unreadable = {}

\* The first word of a type name that has a package in it.
Named(n) == n # NoName /\ Len(receiverID(n)) = 1 /\ receiverID(n)[1] \in Qualified
Word(n) == receiverID(n)[1]

Failed == [failed |-> TRUE, symbol |-> NoSymbol, known |-> loaded]

\* Where the search for a method is: at a type, with the files loaded so far.
Search == [type : Name, known : SUBSET Files, seen : SUBSET Name]

\* The files when the type at s is loaded, and the type it is written as.
Loaded(s) == s.known \cup FileFor(s.type)
WrittenAs(s) == receiverID(TypeOf(s.type).underlying)

\* The type at s is found.
IsLoaded(s) ==
    /\ s.type \notin s.seen
    /\ Named(s.type)
    /\ Readable(FileFor(s.type))
    /\ IsKnown(s.type, Loaded(s))

\* It is an interface that requires the method.
Requires(n, name) == IsInterfaceType(n[1]) /\ \E m \in Methods : m.of = n[1] /\ m.name = name

\* It is an alias of a type of which the method is among the functions so far.
Inherits(s, name) ==
    /\ TypeOf(s.type).alias
    /\ Named(WrittenAs(s))
    /\ <<WrittenAs(s)[1], name>> \in functions(Loaded(s))

\* Mutant of Follows: an alias is taken for a type of its own.
FollowsNothing(s, name) == FALSE

\* It is an alias that has to be followed.
Follows(s, name) ==
    /\ IsLoaded(s)
    /\ ~Requires(s.type, name)
    /\ TypeOf(s.type).alias /\ TypeOf(s.type).underlying # NoName
    /\ ~Inherits(s, name)

Following(s) == [type |-> WrittenAs(s), known |-> Loaded(s), seen |-> s.seen \cup {s.type}]

\* What is found at s, where nothing is followed.
MethodAt(s, name) ==
    LET nothing == [failed |-> FALSE, symbol |-> NoSymbol, known |-> Loaded(s)]
    IN  IF s.type \in s.seen \/ ~Named(s.type) THEN [nothing EXCEPT !.known = s.known]
        ELSE IF ~Readable(FileFor(s.type)) THEN Failed
        ELSE IF IsLoaded(s) /\ Requires(s.type, name)
        THEN [nothing EXCEPT !.symbol = <<s.type[1], name>>]
        ELSE IF IsLoaded(s) /\ Inherits(s, name)
        THEN [nothing EXCEPT !.symbol = <<WrittenAs(s)[1], name>>]
        ELSE nothing

method(n, name, known) ==
    LET search[s \in Search] ==
            IF Follows(s, name) THEN search[Following(s)] ELSE MethodAt(s, name)
    IN  search[[type |-> n, known |-> known, seen |-> {}]]

-----------------------------------------------------------------------------
(* targetSymbol *)

\* The symbols that the root may stand for, and whether they exist.
Scoped == {<<p.id, root[2]>> : p \in {p \in Packages : p.path = root[1]}}
            \cup {<<t, root[2]>> : t \in {t \in DOMAIN Types : Public[t] = root[1]}}

OwnerOf(s) == IF s[1] \in Qualified THEN Owner[s[1]] ELSE s[1]

RootFiles == UNION {FilesNaming(OwnerOf(s), root[2]) : s \in Scoped}

MethodOf(s) == IF s[1] \in Qualified THEN method(<<s[1]>>, s[2], loaded \cup RootFiles)
               ELSE [Failed EXCEPT !.failed = FALSE]

Exists(s) == s \in functions(loaded \cup RootFiles) \/ MethodOf(s).symbol # NoSymbol

Searched == {MethodOf(s) : s \in {s \in Scoped : s \notin functions(loaded \cup RootFiles)}}

\* Mutant of ChooseRoot: the first candidate is taken.
ChooseFirstRoot ==
    /\ stage = "root"
    /\ Readable(RootFiles) /\ \A m \in Searched : ~m.failed
    /\ LET candidates == {s \in Scoped : Exists(s)}
       IN  target' = IF candidates = {} THEN root ELSE CHOOSE s \in candidates : TRUE
    /\ loaded' = loaded \cup RootFiles \cup UNION {m.known : m \in Searched}
    /\ stage' = "candidates"
    /\ UNCHANGED <<given, externalCache, todo, call, receiver, fields, seen, edges>>

\* One existing symbol is taken, none leaves the root as it is, several are refused.
ChooseRoot ==
    /\ stage = "root"
    /\ Readable(RootFiles) /\ \A m \in Searched : ~m.failed
    /\ LET candidates == {s \in Scoped : Exists(s)}
       IN  /\ target' = IF candidates = {} THEN root ELSE CHOOSE s \in candidates : TRUE
           /\ stage' = IF \E s, t \in candidates : s # t THEN "ambiguous" ELSE "candidates"
    /\ loaded' = loaded \cup RootFiles \cup UNION {m.known : m \in Searched}
    /\ UNCHANGED <<given, externalCache, todo, call, receiver, fields, seen, edges>>

RootFails ==
    /\ stage = "root"
    /\ ~Readable(RootFiles) \/ \E m \in Searched : m.failed
    /\ stage' = "failed"
    /\ UNCHANGED <<given, target, loaded, externalCache, todo, call, receiver, fields,
                   seen, edges>>

-----------------------------------------------------------------------------
(* callersFor *)

\* The files in which the name of the target occurs as a declaration.
Mentioning == {d.file : d \in {d \in Declared : d.symbol[2] = target[2]}}
                \cup {m.file : m \in {m \in Methods : m.name = target[2]}}

\* Mutant of LoadCandidates: errors are dropped, and the file counts as loaded.
LoadCandidatesAnyway ==
    /\ stage = "candidates"
    /\ loaded' = loaded \cup Mentioning
    /\ todo' = {c \in CallSites : c.name = target[2]}
    /\ stage' = "calls"
    /\ UNCHANGED <<given, target, externalCache, call, receiver, fields, seen, edges>>

\* callerCandidates
LoadCandidates ==
    /\ stage = "candidates"
    /\ IF Readable(Mentioning)
       THEN /\ loaded' = loaded \cup Mentioning
            /\ todo' = {c \in CallSites : c.name = target[2]}
            /\ stage' = "calls"
       ELSE stage' = "failed" /\ UNCHANGED <<loaded, todo>>
    /\ UNCHANGED <<given, target, externalCache, call, receiver, fields, seen, edges>>

NextCall ==
    /\ stage = "calls"
    /\ todo # {}
    /\ \E c \in todo :
        /\ call' = c
        /\ receiver' = c.receiver
        /\ fields' = c.fields
        /\ todo' = todo \ {c}
    /\ seen' = {}
    /\ stage' = "fields"
    /\ UNCHANGED <<given, target, loaded, externalCache, edges>>

Done ==
    /\ stage = "calls"
    /\ todo = {}
    /\ stage' = "done"
    /\ UNCHANGED <<given, target, loaded, externalCache, todo, call, receiver, fields,
                   seen, edges>>

\* Mutant of IsTarget: public names are compared.
IsTargetByName(id) == id # NoSymbol /\ <<Public[id[1]], id[2]>> = <<Public[target[1]], target[2]>>

\* A root that no package declares is called by every reference of that name.
IsTarget(id) ==
    \/ id = target
    \/ /\ id # NoSymbol
       /\ target = root
       /\ <<Public[id[1]], id[2]>> = root

\* resolve returns: the call becomes an edge if it is one of the target.
Resolved(id, kind) ==
    /\ edges' = IF IsTarget(id) THEN edges \cup {[call |-> call, kind |-> kind]} ELSE edges
    /\ stage' = "calls"
    /\ UNCHANGED <<given, target, todo, call, receiver, fields, seen>>

-----------------------------------------------------------------------------
(* resolve *)

\* resolveType: the next field, whose type is searched where its name leads;
\* errors are dropped.  A type that was gone through is not followed again.
FollowField ==
    /\ stage = "fields"
    /\ fields # <<>>
    /\ LET base == receiverID(receiver)
           now == loaded \cup (FileFor(base) \ unreadable)
           known == base \notin seen /\ IsKnown(base, now)
           found == known /\ Head(fields) \in DOMAIN FieldsOf[base[1]]
       IN  /\ loaded' = IF base \in seen THEN loaded ELSE now
           /\ seen' = seen \cup {base}
           /\ receiver' = IF found THEN FieldsOf[base[1]][Head(fields)]
                          ELSE IF known /\ TypeOf(base).alias THEN TypeOf(base).underlying
                          ELSE NoName
           /\ fields' = IF found THEN Tail(fields)
                        ELSE IF known /\ TypeOf(base).alias THEN fields ELSE <<>>
    /\ UNCHANGED <<given, target, externalCache, todo, call, stage, edges>>

HasReceiver == call.receiver # NoName

\* The fields led nowhere, or a function value is called.
NothingToResolve ==
    /\ stage = "fields"
    /\ fields = <<>>
    /\ receiver = NoName
    /\ HasReceiver \/ call.indirect
    /\ Resolved(NoSymbol, "unknown")
    /\ UNCHANGED <<loaded, externalCache>>

\* The symbol that the call names, with r for its receiver, and the package it is
\* looked for in.  A method of a type without a package is no symbol of any.
Ref(r) == IF Named(r) THEN Owner[Word(r)] ELSE call.package
Id(r) == IF ~HasReceiver THEN <<call.package, call.name>>
         ELSE IF Named(r) THEN <<Word(r), call.name>> ELSE NoSymbol

ModuleOf(s) == (CHOOSE p \in Packages : p.id = OwnerOf(s)).module

\* The symbol that is found, if modules are connected.
Found(s) ==
    IF sameSeries(call.module, ModuleOf(s)) THEN Resolved(s, "resolved")
    ELSE Resolved(NoSymbol, "different-module-series")

AfterFields ==
    /\ stage = "fields"
    /\ fields = <<>>
    /\ receiver # NoName \/ ~(HasReceiver \/ call.indirect)

Load(files) == loaded' = loaded \cup files

\* The symbol is a function of the workspace.
FindFunction ==
    /\ AfterFields
    /\ Readable(FilesNaming(Ref(receiver), call.name))
    /\ Id(receiver) \in functions(loaded \cup FilesNaming(Ref(receiver), call.name))
    /\ Load(FilesNaming(Ref(receiver), call.name))
    /\ Found(Id(receiver))
    /\ UNCHANGED externalCache

SearchMethod == method(receiverID(receiver), call.name, loaded \cup FilesNaming(Ref(receiver), call.name))

NoFunction ==
    /\ AfterFields
    /\ Readable(FilesNaming(Ref(receiver), call.name))
    /\ Id(receiver) \notin functions(loaded \cup FilesNaming(Ref(receiver), call.name))

\* It is a requirement of an interface, or a method of what its type is an alias of.
FindMethod ==
    /\ NoFunction
    /\ HasReceiver
    /\ SearchMethod.symbol # NoSymbol
    /\ Load(SearchMethod.known)
    /\ Found(SearchMethod.symbol)
    /\ UNCHANGED externalCache

\* A file of the workspace cannot be read: the analysis fails.
ResolveFails ==
    /\ AfterFields
    /\ \/ ~Readable(FilesNaming(Ref(receiver), call.name))
       \/ NoFunction /\ HasReceiver /\ SearchMethod.failed
    /\ stage' = "failed"
    /\ UNCHANGED <<given, target, loaded, externalCache, todo, call, receiver, fields,
                   seen, edges>>

\* Neither: what is left is looked for by package.
NotFound ==
    /\ NoFunction
    /\ HasReceiver => ~SearchMethod.failed /\ SearchMethod.symbol = NoSymbol
    /\ Load(IF HasReceiver THEN SearchMethod.known ELSE FilesNaming(Ref(receiver), call.name))
    /\ stage' = "packages"
    /\ UNCHANGED <<given, target, externalCache, todo, call, receiver, fields, seen, edges>>

\* Mutant of LastReceiver: aliases of types of the standard library are not followed.
LastReceiverWritten == receiver

\* The receiver, where an alias leads to a type of the standard library.
LastReceiver ==
    LET c == canonicalAliasReceiver(receiver, loaded)
    IN  IF HasReceiver /\ Named(c) /\ Owner[Word(c)] \in Standard THEN c ELSE receiver

LastId == Id(LastReceiver)
LastRef == Ref(LastReceiver)

\* A call by cgo, or of a package of the workspace that lacks the symbol.  Of
\* the two loops over the packages the first decides nothing that the second
\* would not, a module being of its own series.
DecideByPackage ==
    /\ stage = "packages"
    /\ LET matching == {p \in Packages : matchesPackage(p, LastRef)}
       IN  /\ call.cgo \/ matching # {}
           /\ IF call.cgo THEN Resolved(LastId, "cgo")
              ELSE IF \E p \in matching : sameSeries(call.module, p.module)
              THEN Resolved(LastId, "missing-symbol")
              ELSE Resolved(NoSymbol, "different-module-series")
    /\ UNCHANGED <<loaded, externalCache>>

\* Mutant of RememberExternal: only declarations that were found are cached.
RememberFound(s, found) ==
    externalCache' = IF found THEN [t \in DOMAIN externalCache \cup {s} |->
                                        IF t = s THEN found ELSE externalCache[t]]
                     ELSE externalCache

RememberExternal(s, found) ==
    externalCache' = [t \in DOMAIN externalCache \cup {s} |->
                        IF t = s THEN found ELSE externalCache[t]]

\* A declaration of the standard library is read, or remembered.
DecideExternal ==
    /\ stage = "packages"
    /\ ~call.cgo
    /\ \A p \in Packages : ~matchesPackage(p, LastRef)
    /\ LET found == IF LastId \in DOMAIN externalCache THEN externalCache[LastId]
                    ELSE installed /\ LastId \in StandardFunctions
       IN  IF LastRef \in Standard
           THEN /\ RememberExternal(LastId, found)
                /\ Resolved(LastId, IF found THEN "standard-library" ELSE "definition-unavailable")
           ELSE Resolved(LastId, "definition-unavailable") /\ UNCHANGED externalCache
    /\ UNCHANGED loaded

\* The standard library cannot be read for a while, which matters only here.
InstallationChanges ==
    /\ stage = "packages"
    /\ LastRef \in Standard
    /\ installed' = ~installed
    /\ UNCHANGED <<root, unreadable, target, loaded, externalCache, todo, call, receiver,
                   fields, seen, stage, edges>>

Next ==
    \/ ChooseRoot \/ RootFails \/ LoadCandidates \/ NextCall \/ Done
    \/ FollowField \/ NothingToResolve \/ FindFunction \/ FindMethod \/ ResolveFails
    \/ NotFound \/ DecideByPackage \/ DecideExternal \/ InstallationChanges

Spec == Init /\ [][Next]_vars

-----------------------------------------------------------------------------
(***************************************************************************)
(* The callee by the rules of Go, with every declaration at hand.          *)
(***************************************************************************)

\* The type of which n has the fields and methods: n without aliases and pointer.
BaseType(n) == receiverID(Identity(n))

FieldType(n, f) ==
    LET t == BaseType(n)
    IN  IF IsDeclared(t) /\ f \in DOMAIN FieldsOf[t[1]] THEN FieldsOf[t[1]][f] ELSE NoName

\* A type, and the fields to select from it.
Selection == [type : Name, fields : Seq(STRING)]

\* The type that the fields lead to from type n.
TypeAfter(n, path) ==
    LET selected[s \in Selection] ==
            IF s.fields # <<>>
            THEN selected[[type |-> FieldType(s.type, Head(s.fields)), fields |-> Tail(s.fields)]]
            ELSE s.type
    IN  selected[[type |-> n, fields |-> path]]

TypeAt(c, i) == TypeAfter(c.receiver, SubSeq(c.fields, 1, i))

ReceiverType(c) == BaseType(TypeAt(c, Len(c.fields)))

Exported == {d.symbol : d \in Declared} \cup {<<m.of, m.name>> : m \in Methods}
                \cup StandardFunctions

GoCallee(c) ==
    LET s == IF c.receiver = NoName THEN <<c.package, c.name>>
             ELSE IF Named(ReceiverType(c)) THEN <<Word(ReceiverType(c)), c.name>> ELSE NoSymbol
    IN  IF ~c.indirect /\ ~c.cgo /\ s \in Exported THEN s ELSE NoSymbol

\* The chain goes through one type twice.
Revisits(c) ==
    \E i, j \in 0..(Len(c.fields) - 1) :
        i < j /\ BaseType(TypeAt(c, i)) = BaseType(TypeAt(c, j))

-----------------------------------------------------------------------------
(***************************************************************************)
(* Programs in which the callee can be told from the declarations.  A       *)
(* compiler checks the first three parts; the last one leaves out aliases   *)
(* of type literals, and methods that are declared with an alias.           *)
(***************************************************************************)

Aliases == {t \in DOMAIN Types : Types[t].alias}

\* No alias stands for itself: aliases have a rank that declines.
ChainsEnd ==
    \E rank \in [Aliases -> 1..Cardinality(Aliases)] : \A t \in Aliases :
        LET u == Types[t].underlying
        IN  EndsInAlias(u) => rank[u[Len(u)]] < rank[t]

\* A package is only in the last word of a name.
Written(n) == \A i \in 1..(Len(n) - 1) : n[i] \notin Qualified

NamesAreWritten ==
    /\ \A t \in DOMAIN Types : /\ Written(Types[t].underlying)
                              /\ \A f \in DOMAIN FieldsOf[t] : Written(FieldsOf[t][f])
    /\ \A c \in CallSites : Written(c.receiver)

\* Only a type or a pointer to it has fields and methods.
Selectable(n) == Len(BaseType(n)) <= 1 /\ ~HasPrefix(BaseType(n), {"*"})

SelectorsAreValid ==
    \A c \in CallSites : c.receiver # NoName => \A i \in 0..Len(c.fields) : Selectable(TypeAt(c, i))

AliasesDeclareNothing ==
    /\ \A t \in Aliases : ~IsInterfaceType(t) /\ DOMAIN FieldsOf[t] = {}
    /\ \A m \in Methods : m.of \notin Aliases

ValidProgram == ChainsEnd /\ NamesAreWritten /\ SelectorsAreValid /\ AliasesDeclareNothing

-----------------------------------------------------------------------------
(***************************************************************************)
(* Properties.                                                             *)
(***************************************************************************)

\* Where each variable ranges.
TypeOK ==
    /\ target \in Symbol \cup {NoSymbol}
    /\ loaded \subseteq Files /\ unreadable \cap loaded = {}
    /\ \A s \in DOMAIN externalCache : externalCache[s] \in BOOLEAN
    /\ todo \subseteq CallSites
    /\ receiver \in Name /\ fields \in Seq(STRING)
    /\ stage \in {"root", "candidates", "calls", "fields", "packages", "done", "failed", "ambiguous"}
    /\ \A e \in edges : e.call \in CallSites

\* No caller is invented: a call that counts as one of the target has it for
\* its callee in Go, and a symbol counts as missing, which makes the call
\* incompatible, only if nothing declares it and the target is declared nowhere.
EdgesAreCalls ==
    \A e \in edges :
        /\ e.kind \in {"resolved", "standard-library"} => GoCallee(e.call) = target
        /\ e.kind = "missing-symbol" => target = root /\ GoCallee(e.call) = NoSymbol

\* No caller is lost to what other searches had loaded before, to the order of
\* the calls, or to a lookup that comes before the load.  Chains that go through
\* a type twice are given up, and unreadable types leave a receiver unknown.
CallersAreFound ==
    stage = "done" /\ unreadable = {} =>
        \A c \in CallSites :
            /\ GoCallee(c) = target
            /\ IsIdentity(OwnerOf(target)) => sameSeries(c.module, ModuleOf(target))
            /\ ~Revisits(c)
            => \E e \in edges : e.call = c /\ (IsIdentity(OwnerOf(target)) => e.kind = "resolved")

\* A target is searched for only when it stands for one symbol, or for none at
\* all: of packages with one path none is chosen by chance.  Only the name of an
\* alias may be taken for a symbol although it declares no methods.
RootIsUnique ==
    stage \notin {"root", "failed", "ambiguous"} =>
        LET meant == {s \in Exported : /\ <<Public[s[1]], s[2]>> = root
                                       /\ IsIdentity(OwnerOf(s))}
        IN  IF meant = {} THEN target = root \/ IsAlias(target[1]) ELSE meant = {target}

\* All calls of one symbol of the standard library are judged alike in a run,
\* although it could not be read for a part of it.
ExternalsAreStable ==
    \A e, f \in edges :
        e.kind = "standard-library" /\ f.kind = "definition-unavailable" => FALSE

=============================================================================
