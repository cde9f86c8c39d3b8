----------------------------- MODULE MethodSets -----------------------------
(***************************************************************************)
(* The two searches for a method by embedding, for one method name:        *)
(*  - interfaceMethod (compatibility.go), breadth first, for the method    *)
(*    set of a type: one action per candidate and per end of a level;      *)
(*  - method (engine.go), depth first with one set of seen types, for the  *)
(*    declaration a call refers to: the operator Method.                   *)
(* They are compared with what the Go specification says of selectors and  *)
(* method sets.  A program gives the declarations; some of them may be in  *)
(* files that do not parse, and any readable ones may be loaded before.    *)
(* Three forms of programs, where the code does not do what Go says, are   *)
(* considered only where Forms names them.  The definitions marked as      *)
(* mutants are wrong on purpose.                                           *)
(***************************************************************************)
EXTENDS Integers, Sequences, FiniteSets

CONSTANTS
    Types,          \* type names
    Predeclared,    \* those that Go declares: never in engine.types
    Programs,       \* the programs that are considered
    Receivers,      \* the types whose method sets are asked for
    LoadedBefore,   \* the sets of declarations that were asked for before
    Forms           \* the forms of programs that are considered besides the others

\* A type as it is written: T or *T.
Ref == [type : Types, pointer : BOOLEAN]

\* What a program declares.  `alias' holds the denoted type of an alias,
\* `method' how the type declares the method: with a receiver or, as an
\* interface, in its list.
Program ==
    [embedded : [Types -> Seq(Ref)], alias : [Types -> Seq(Ref)],
     interfaces : SUBSET Types, field : SUBSET Types,
     method : [Types -> {"none", "value", "pointer", "interface"}],
     broken : SUBSET ({"type", "method"} \X Types)]

ASSUME ProgramAssumption ==
    /\ Predeclared \subseteq Types
    /\ Programs \subseteq Program
    /\ Receivers \subseteq Ref
    /\ Forms \subseteq {"embedded alias", "embedded interface", "unread method"}

VARIABLES
    program,
    receiver,
    known,          \* the declarations in engine.types and engine.functions
    queue,          \* the candidates of the current depth
    next,           \* those of the following depth
    matches,        \* the types whose method is in reach at this depth
    declarations,   \* the fields and methods of that name at this depth
    unknown,        \* a type of this depth is not known
    outcome         \* "searching", "method", "absent" or "unknown"

vars == <<program, receiver, known, queue, next, matches, declarations,
          unknown, outcome>>

HasFunction(p, t) == p.method[t] \in {"value", "pointer"}

Declarations(p) ==
    {<<"type", t>> : t \in Types \ Predeclared}
        \cup {<<"method", t>> : t \in {u \in Types : HasFunction(p, u)}}

Readable(p) == Declarations(p) \ p.broken

-----------------------------------------------------------------------------
(***************************************************************************)
(* The Go specification.                                                   *)
(***************************************************************************)

RECURSIVE Denoted(_, _), Listed(_, _), Paths(_, _, _, _)

\* The type a reference denotes: aliases are other names.
Denoted(p, ref) ==
    IF p.alias[ref.type] = <<>> THEN ref
    ELSE LET r == Denoted(p, p.alias[ref.type][1])
         IN  [r EXCEPT !.pointer = @ \/ ref.pointer]

\* An interface has the methods of the interfaces it embeds: those that list the
\* method of an interface.
Listed(p, t) ==
    (IF p.method[t] = "interface" THEN {t} ELSE {})
        \cup UNION {Listed(p, Denoted(p, p.embedded[t][i]).type) : i \in 1..Len(p.embedded[t])}

IsInterface(p, t) == t \in p.interfaces \cup Predeclared

\* The paths of n embedded fields from a type, without a type twice: what a
\* repetition adds is hidden by its first occurrence.  They end at the types of
\* the set `ends'.
Paths(p, ref, n, ends) ==
    IF n = 0 THEN {<<[field |-> 0, ref |-> Denoted(p, ref)]>>}
    ELSE LET Last(path) == path[Len(path)].ref.type
             Children(path) ==
                {Append(path, [field |-> i, ref |-> Denoted(p, p.embedded[Last(path)][i])]) :
                    i \in 1..Len(p.embedded[Last(path)])}
         IN  {path \in UNION {Children(q) : q \in {q \in Paths(p, ref, n - 1, ends) :
                                                        Last(q) \notin ends}} :
                \A k \in 1..(Len(path) - 1) : path[k].ref.type # Last(path)}

PathsTo(p, ref, ends) == UNION {Paths(p, ref, n, ends) : n \in 0..Cardinality(Types)}

LastType(path) == path[Len(path)].ref.type

\* The types that declare what x.M means for x of type t itself.
Declarers(p, t) ==
    IF IsInterface(p, t) THEN Listed(p, t)
    ELSE IF t \in p.field \/ HasFunction(p, t) THEN {t} ELSE {}

\* The paths to a declaration of the name, at any depth.  An interface is one
\* declaration, whatever it embeds.
Hits(p, ref) ==
    {path \in PathsTo(p, ref, p.interfaces) : Declarers(p, LastType(path)) # {}}

\* Those that no shallower declaration hides.
Shallowest(p, ref) ==
    LET hits == Hits(p, ref)
    IN  {path \in hits : \A other \in hits : Len(path) <= Len(other)}

\* The paths by which the selector x.M, for x of type ref, denotes a method:
\* one or none.
Selected(p, ref) ==
    {path \in Shallowest(p, ref) :
        Cardinality(Shallowest(p, ref)) = 1 /\ LastType(path) \notin p.field}

\* The types whose method of that name is in the method set of ref.
MethodSet(p, ref) ==
    UNION {Declarers(p, LastType(path)) : path \in
        {path \in Selected(p, ref) :
            p.method[LastType(path)] = "pointer" =>
                \E k \in 1..Len(path) : path[k].ref.pointer}}

\* What interfaceMethod has to answer.
GoAnswer(p, ref) ==
    IF MethodSet(p, ref) # {} THEN "method" ELSE "absent"

-----------------------------------------------------------------------------
(***************************************************************************)
(* The programs that are considered.                                       *)
(***************************************************************************)

\* Several ways lead to a declaration of the name, through interfaces as well.
Competes(p, ref) ==
    Cardinality({path \in PathsTo(p, ref, {}) :
        LastType(path) \in p.field \/ p.method[LastType(path)] # "none"}) > 1

EmbedsAlias(p) ==
    \E t \in Types : \E i \in 1..Len(p.embedded[t]) : p.alias[p.embedded[t][i].type] # <<>>

EmbedsInInterface(p) == \E t \in p.interfaces : p.embedded[t] # <<>>

UnreadMethod(p) ==
    \E t \in Types : <<"method", t>> \in Declarations(p) \cap p.broken
                        /\ <<"type", t>> \in Readable(p)

\* Three forms of programs are left out unless Forms names them: several
\* declarations, some of them behind the name of an embedded alias, or in what
\* an interface embeds; a method that cannot be read of a type that can.
IsConsidered(p, ref) ==
    /\ EmbedsAlias(p) /\ Competes(p, ref) => "embedded alias" \in Forms
    /\ EmbedsInInterface(p) /\ Competes(p, ref) => "embedded interface" \in Forms
    /\ UnreadMethod(p) => "unread method" \in Forms

-----------------------------------------------------------------------------

Candidate(ref, pointer, seen) ==
    [type |-> ref.type, pointer |-> pointer \/ ref.pointer, seen |-> seen]

Init ==
    /\ program \in Programs
    /\ receiver \in Receivers
    /\ IsConsidered(program, receiver)
    /\ known \in {Readable(program) \cap loaded : loaded \in LoadedBefore}
    /\ queue = <<Candidate(receiver, FALSE, {})>>
    /\ next = <<>>
    /\ matches = <<>>
    /\ declarations = 0
    /\ unknown = FALSE
    /\ outcome = "searching"

-----------------------------------------------------------------------------
(* interfaceMethod: one candidate of a level. *)

Item == Head(queue)

InLevel == outcome = "searching" /\ queue # <<>>

Done == queue' = Tail(queue)

\* Mutant of Requested: what is asked for is there.
RequestedUnread ==
    known \cup {<<"type", Item.type>>, <<"method", Item.type>>}

\* What is known after the two calls of definitions, whose errors are ignored.
Requested ==
    known \cup (Readable(program) \cap {<<"type", Item.type>>, <<"method", Item.type>>})

IsKnownType == Item.type \notin Predeclared /\ <<"type", Item.type>> \in Requested

SkipSeen ==
    /\ InLevel
    /\ Item.type \in Item.seen
    /\ Done
    /\ UNCHANGED <<program, receiver, known, next, matches, declarations,
                   unknown, outcome>>

\* A type that the engine does not know: builtin, any, error, or missing.
VisitOther ==
    /\ InLevel
    /\ Item.type \notin Item.seen
    /\ ~IsKnownType
    /\ known' = Requested
    /\ Done
    /\ IF Item.type \in Predeclared /\ program.method[Item.type] = "interface"
       THEN /\ declarations' = declarations + 1
            /\ matches' = Append(matches, Item.type)
       ELSE UNCHANGED <<declarations, matches>>
    /\ unknown' = (unknown \/ Item.type \notin Predeclared)
    /\ UNCHANGED <<program, receiver, next, outcome>>

\* Mutant of Followed: a set of seen types that only knows the last one.
FollowedForgetting(refs) ==
    [i \in 1..Len(refs) |-> Candidate(refs[i], Item.pointer, {Item.type})]

\* The candidates that a type leads to.
Followed(refs) ==
    [i \in 1..Len(refs) |->
        Candidate(refs[i], Item.pointer, Item.seen \cup {Item.type})]

VisitAlias ==
    /\ InLevel
    /\ Item.type \notin Item.seen
    /\ IsKnownType
    /\ program.alias[Item.type] # <<>>
    /\ known' = Requested
    /\ next' = next \o Followed(program.alias[Item.type])
    /\ Done
    /\ UNCHANGED <<program, receiver, matches, declarations, unknown, outcome>>

HasField == Item.type \in program.field

HasMethod ==
    \/ program.method[Item.type] = "interface"
    \/ <<"method", Item.type>> \in Requested

\* A pointer receiver needs a pointer on the way.
InReach == program.method[Item.type] # "pointer" \/ Item.pointer

\* Mutant of VisitType: fields do not hide methods.
VisitTypeWithoutFields ==
    /\ InLevel
    /\ Item.type \notin Item.seen
    /\ IsKnownType
    /\ program.alias[Item.type] = <<>>
    /\ known' = Requested
    /\ declarations' = declarations + (IF HasMethod THEN 1 ELSE 0)
    /\ matches' = IF HasMethod /\ InReach THEN Append(matches, Item.type) ELSE matches
    /\ next' = next \o Followed(program.embedded[Item.type])
    /\ Done
    /\ UNCHANGED <<program, receiver, unknown, outcome>>

VisitType ==
    /\ InLevel
    /\ Item.type \notin Item.seen
    /\ IsKnownType
    /\ program.alias[Item.type] = <<>>
    /\ known' = Requested
    /\ declarations' = declarations + (IF HasField THEN 1 ELSE 0)
                                    + (IF HasMethod THEN 1 ELSE 0)
    /\ matches' = IF HasMethod /\ InReach THEN Append(matches, Item.type) ELSE matches
    /\ next' = next \o Followed(program.embedded[Item.type])
    /\ Done
    /\ UNCHANGED <<program, receiver, unknown, outcome>>

-----------------------------------------------------------------------------
(* The end of a level. *)

LevelEnds == outcome = "searching" /\ queue = <<>>

\* Mutant of LevelDecides: a type that is not known is passed over.
LevelDecidesAnyway ==
    /\ LevelEnds
    /\ declarations > 0
    /\ outcome' = IF declarations = 1 /\ Len(matches) = 1 THEN "method" ELSE "absent"
    /\ UNCHANGED <<program, receiver, known, queue, next, matches, declarations,
                   unknown>>

LevelDecides ==
    /\ LevelEnds
    /\ unknown \/ declarations > 0
    /\ outcome' = IF unknown THEN "unknown"
                  ELSE IF declarations = 1 /\ Len(matches) = 1 THEN "method"
                  ELSE "absent"
    /\ UNCHANGED <<program, receiver, known, queue, next, matches, declarations,
                   unknown>>

NextLevel ==
    /\ LevelEnds
    /\ ~unknown /\ declarations = 0
    /\ next # <<>>
    /\ queue' = next
    /\ next' = <<>>
    /\ UNCHANGED <<program, receiver, known, matches, declarations, unknown, outcome>>

SearchEnds ==
    /\ LevelEnds
    /\ ~unknown /\ declarations = 0
    /\ next = <<>>
    /\ outcome' = "absent"
    /\ UNCHANGED <<program, receiver, known, queue, next, matches, declarations,
                   unknown>>

Next ==
    \/ SkipSeen \/ VisitOther \/ VisitAlias \/ VisitType
    \/ LevelDecides \/ NextLevel \/ SearchEnds

\* One call of a function that waits for nothing.
Spec == Init /\ [][Next]_vars /\ WF_vars(Next)

-----------------------------------------------------------------------------
(***************************************************************************)
(* engine.method.  resolve asks it after the files with the name of the    *)
(* method are loaded (LazyLoading), and an error ends the analysis: so     *)
(* every declaration it looks up is known.                                 *)
(***************************************************************************)

NotFound(seen) == [seen |-> seen, found |-> <<>>]

RECURSIVE Method(_, _, _), MethodOfEmbedded(_, _, _, _, _)

\* The method of type t: its declaring type, or nothing; and the set `seen'
\* that the whole search shares.
Method(p, t, seen) ==
    IF t \in seen THEN NotFound(seen)
    ELSE IF t \in Predeclared THEN NotFound(seen \cup {t})
    ELSE IF p.method[t] = "interface" THEN [seen |-> seen \cup {t}, found |-> <<t>>]
    ELSE IF p.alias[t] # <<>>
    THEN LET u == p.alias[t][1].type
         IN  IF HasFunction(p, u) THEN [seen |-> seen \cup {t}, found |-> <<u>>]
             ELSE Method(p, u, seen \cup {t})
    ELSE MethodOfEmbedded(p, t, 1, seen \cup {t}, <<>>)

\* Mutant of MethodOfEmbedded: the functions of an embedded type are not looked up.
MethodBelowEmbedded(p, t, i, seen, found) ==
    IF i > Len(p.embedded[t])
    THEN [seen |-> seen, found |-> IF Len(found) = 1 THEN found ELSE <<>>]
    ELSE LET r == Method(p, p.embedded[t][i].type, seen)
         IN  MethodOfEmbedded(p, t, i + 1, r.seen, found \o r.found)

\* The loop over typ.Embedded from field i on, with what it has found so far.
MethodOfEmbedded(p, t, i, seen, found) ==
    IF i > Len(p.embedded[t])
    THEN [seen |-> seen, found |-> IF Len(found) = 1 THEN found ELSE <<>>]
    ELSE LET base == p.embedded[t][i].type
             r == IF HasFunction(p, base) THEN [seen |-> seen, found |-> <<base>>]
                  ELSE Method(p, base, seen)
         IN  MethodOfEmbedded(p, t, i + 1, r.seen, found \o r.found)

-----------------------------------------------------------------------------
(***************************************************************************)
(* Properties.                                                             *)
(***************************************************************************)

TypeOK ==
    /\ receiver \in Receivers
    /\ known \subseteq Readable(program)
    /\ \A q \in {queue, next} : \A i \in 1..Len(q) :
            q[i].type \in Types /\ q[i].pointer \in BOOLEAN /\ q[i].seen \subseteq Types
    /\ \A i \in 1..Len(matches) : matches[i] \in Types
    /\ declarations \in Nat
    /\ unknown \in BOOLEAN
    /\ outcome \in {"searching", "method", "absent", "unknown"}

\* With every file readable, interfaceMethod answers as Go does, with Go's
\* method, whatever was loaded before: depths, hiding by fields, ambiguity,
\* pointers on the way and types that embed each other.  (An embedded alias, or
\* an interface in an interface, is searched one depth below where Go has it:
\* these two Forms break this where something competes with what they hold.)
AnswersAsGo ==
    program.broken = {} /\ outcome # "searching" =>
        /\ outcome = GoAnswer(program, receiver)
        /\ outcome = "method" => matches[1] \in MethodSet(program, receiver)

\* A definite answer does not rest on what could not be read: where a file that
\* matters does not parse, the answer is Go's or unknown.  (The form "unread
\* method" breaks this: where the type is known, its method counts as absent.)
UnreadableIsUnknown ==
    outcome \in {"method", "absent"} => outcome = GoAnswer(program, receiver)

\* A method that is found when resolve asks for x.M with x of the asked type
\* (which does not itself have a function M: resolve looks there first).
Found == Method(program, receiver.type, {}).found

\* engine.method finds a method that is declared once and hidden by nothing,
\* however deep, through embedded aliases and interfaces: sharing `seen' between
\* the branches loses no only candidate.
OnlyCandidateIsFound ==
    outcome # "searching" /\ ~Competes(program, receiver) =>
        \A path \in Selected(program, receiver) :
            LastType(path) = receiver.type \/ LastType(path) \in Predeclared
                \/ \E t \in Declarers(program, LastType(path)) \ Predeclared : Found = <<t>>

\* The search ends, also when types embed each other.
SearchTerminates == <>(outcome # "searching")

=============================================================================
