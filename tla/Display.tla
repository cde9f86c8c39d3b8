------------------------------ MODULE Display ------------------------------
(***************************************************************************)
(* How the symbols of a result get their names (displayResult of           *)
(* identity.go).  Inside the engine a symbol belongs to a package; the     *)
(* reader sees its path, and its directory too where another symbol has    *)
(* the same path and name.  One action per node and per edge: an edge of   *)
(* the tree and one of the list have names of their own, but share the     *)
(* messages, which are converted once for each.  Any result may come out   *)
(* of the search.  The definitions marked as mutants are wrong on purpose. *)
(***************************************************************************)
EXTENDS Discovery

CONSTANTS
    Target,         \* the name of the function that is asked for
    Functions,      \* names of other functions
    Types,          \* names of types
    BeginsWith,     \* the pairs of type names of which the first begins with the second
    MaxTypes        \* as many types are loaded at most

VARIABLES
    types,          \* engine.types
    root,           \* Result.Root.Name before it is converted
    edges,          \* Result.Edges before they are converted
    nodes,          \* the edges of the nodes below the root, in the order of visit
    messages,       \* the messages of each edge: the types as they stand there
    converted,      \* the number of nodes and edges that are converted
    names,          \* the pairs of a symbol and a name that it has got
    stage           \* "search", "convert" or "done"

displayVars == <<types, root, edges, nodes, messages, converted, names, stage>>

vars == <<discoveryVars, displayVars>>

\* A symbol of a package, or of a path only, if nothing declares it.  In a name
\* for the reader the place of the package is empty or has its label.
InPackage(p, name) == [path |-> p.path, package |-> p.id, name |-> name]
Undeclared(path, name) == [path |-> path, package |-> <<>>, name |-> name]

Init ==
    /\ DiscoveryInit
    /\ types = {}
    /\ root = Undeclared(<<>>, Target)
    /\ edges = <<>>
    /\ nodes = <<>>
    /\ messages = <<>>
    /\ converted = 0
    /\ names = {}
    /\ stage = "search"

FunctionSymbols == {InPackage(p, f) : p \in ToSet(packages), f \in Functions}
TypeSymbols == {InPackage(p, t) : p \in ToSet(packages), t \in Types}

\* A type as it stands in a message before the conversion.
Internal(t) == [type |-> t, name |-> t]

\* AnalyzeWithPolicy up to displayResult: a caller of the root, and one of that
\* caller, with any types loaded.  targetSymbol refuses a target that two packages
\* declare, so nothing else has the name of the root.  The messages mention every
\* type, loaded or not: each mention is converted by itself.
Search ==
    /\ discovery = "done"
    /\ stage = "search"
    /\ types' \in {T \in SUBSET TypeSymbols : Cardinality(T) <= MaxTypes}
    /\ \E p \in ToSet(packages) :
        root' \in {InPackage(p, Target), Undeclared(p.path, Target)}
    /\ \E first, second \in FunctionSymbols :
        edges' = <<[caller |-> first, callee |-> root'], [caller |-> second, callee |-> first]>>
    /\ nodes' = <<1, 2>>
    /\ messages' = [e \in 1..2 |-> {Internal(t) : t \in TypeSymbols}]
    /\ stage' = "convert"
    /\ UNCHANGED <<discoveryVars, converted, names>>

-----------------------------------------------------------------------------

\* publicSymbol
publicSymbol(s) == [s EXCEPT !.package = <<>>]

\* symbolLabel: with the directory and kind of its package, if it has one.
symbolLabel(s) ==
    IF \E p \in ToSet(packages) : p.id = s.package
    THEN LET p == CHOOSE p \in ToSet(packages) : p.id = s.package
         IN  [s EXCEPT !.package = <<p.dir, p.external>>]
    ELSE publicSymbol(s)

\* Mutant of Registered: the callers are left out.
RegisteredCallees == {root} \cup {edges[e].callee : e \in DOMAIN edges}

\* The symbols that register sees.
Registered == {root} \cup UNION {{edges[e].caller, edges[e].callee} : e \in DOMAIN edges}

\* More than one of the symbols S has the public name of s.
Ambiguous(S, s) ==
    \E t, u \in S : t # u /\ publicSymbol(t) = publicSymbol(s) /\ publicSymbol(u) = publicSymbol(s)

label(s) == IF Ambiguous(Registered, s) THEN symbolLabel(s) ELSE publicSymbol(s)

CollidingTypes == {t \in types : Ambiguous(types, t)}

IsInternal(mention) == mention.name = mention.type

\* Mutant of Replaceable: the boundary of the name is not looked at.
ReplaceableInside(mention, t) ==
    /\ IsInternal(mention)
    /\ mention.type.package = t.package
    /\ mention.type = t \/ <<mention.type.name, t.name>> \in BeginsWith

\* replaceDiagnosticType finds the ID of type t, and no letter or digit behind it.
Replaceable(mention, t) ==
    /\ IsInternal(mention)
    /\ mention.type = t

\* A mention after the loop over collidingTypes and the replacer of package scopes.
Converted(mention) ==
    LET by == {t \in CollidingTypes : Replaceable(mention, t)}
    IN  IF ~IsInternal(mention) THEN mention
        ELSE [mention EXCEPT !.name = IF by = {} THEN publicSymbol(mention.type)
                                      ELSE symbolLabel(CHOOSE t \in by : TRUE)]

\* The names of symbols S are converted, which one holder shows.
Name(S) ==
    /\ stage = "convert"
    /\ names' = names \cup {<<s, label(s)>> : s \in S}
    /\ converted' = converted + 1
    /\ UNCHANGED <<discoveryVars, types, root, edges, nodes, stage>>

\* `visit(result.Root)', which has no edge.
ConvertRoot ==
    /\ converted = 0
    /\ Name({root})
    /\ UNCHANGED messages

\* convertEdge
ConvertEdge(e) ==
    /\ Name({edges[e].caller, edges[e].callee})
    /\ messages' = [messages EXCEPT ![e] = {Converted(m) : m \in @}]

\* visit of a node: its name is that of the caller of its edge.
ConvertNode ==
    /\ converted \in 1..Len(nodes)
    /\ ConvertEdge(nodes[converted])

\* `for i := range result.Edges'
ConvertListed ==
    /\ converted > Len(nodes)
    /\ converted <= Len(nodes) + Len(edges)
    /\ ConvertEdge(converted - Len(nodes))

\* displayResult returns.
Show ==
    /\ stage = "convert"
    /\ converted > Len(nodes) + Len(edges)
    /\ stage' = "done"
    /\ UNCHANGED <<discoveryVars, types, root, edges, nodes, messages, converted, names>>

Next ==
    \/ Discover /\ UNCHANGED displayVars
    \/ Search \/ ConvertRoot \/ ConvertNode \/ ConvertListed \/ Show

Spec == Init /\ [][Next]_vars

-----------------------------------------------------------------------------
(***************************************************************************)
(* Properties.                                                             *)
(***************************************************************************)

\* In the tree and in the list of edges, two symbols have two names and a symbol
\* has one, although only the symbols of this result are compared and packages
\* may share a path: outputs that merge by name merge no two symbols.
NamesAreKept ==
    \A a, b \in names : a[1] = b[1] <=> a[2] = b[2]

\* A message that the tree and the list share names each loaded type, after all
\* conversions, by a name of its own and every other type by its public name,
\* however the names of types begin.
MessagesNameTypes ==
    stage = "done" =>
        \A m, n \in UNION {messages[e] : e \in DOMAIN edges} :
            /\ m.name \in {publicSymbol(m.type), symbolLabel(m.type)}
            /\ m.type \notin types => m.name = publicSymbol(m.type)
            /\ m.type \in types /\ n.type \in types =>
                (m.type = n.type <=> m.name = n.name)

=============================================================================
