--------------------------- MODULE Compatibility ---------------------------
(***************************************************************************)
(* The check of one call against the signature it was resolved to          *)
(* (compatibility.go), with what source.go records of the call.  The       *)
(* counts are compared first; then each argument and each result is a      *)
(* question, whether one type is assignable to another, which is followed  *)
(* through aliases step by step while definitions loads files.  A file     *)
(* that cannot be read leaves types unknown.  interfaceMethod is taken for *)
(* named types without embedded fields; MethodSets has the rest of it.     *)
(* Some forms of a call get a verdict that is not Go's: they are named      *)
(* below, and considered only if Forms names them.  The definitions marked  *)
(* as mutants are wrong on purpose.                                        *)
(***************************************************************************)
EXTENDS Assignability

LOCAL INSTANCE SequencesExt

CONSTANTS
    Calls,      \* the calls of the program
    Forms       \* the forms, of those named below, that are considered

None == <<>>

\* A target that takes any value: `_', or a variable that takes its type from it.
AnyTarget == <<"_">>

\* An expression has the types of its values, or is a constant.  The source
\* model may not know the type (a call of another package, an index).
Expression == [values : Seq(Name), constant : Constant \cup {None}, shown : BOOLEAN]

\* Where the results of a call go: on the right side of an assignment, of a
\* variable declaration or of a return there are `expressions', of which the
\* call is number `at'; `targets' are the types on the left or the results of
\* the declared function, and `literal' those of a function literal that
\* encloses the return.
Context == [kind : {"none", "assign", "var", "return"}, expressions : Nat, at : Nat,
            targets : Seq(Name), literal : Seq(Seq(Name))]

\* A call with its callee's signature, if one is known.  In a method expression
\* `receiver' is the type written, and `declared' is the receiver of a method
\* of the standard library.
Call == [signature : Signature \cup {None}, missing : BOOLEAN,
         arguments : Seq(Expression), spread : BOOLEAN, context : Context,
         receiver : Name, method : STRING, declared : Name, arch : STRING]

ASSUME CallsAssumption == Calls \subseteq Call

VARIABLES
    call,           \* the call under examination
    loaded,         \* the files that are loaded
    unreadable,     \* the files that cannot be read
    questions,      \* the types still to compare: [from, to, constant]
    question,       \* the comparison in progress, or None
    seen,           \* its pairs of types so far
    issues,         \* the kinds of the issues found
    uncertain,      \* some comparison ended without an answer
    status          \* "new", "running", or the verdict

vars == <<call, loaded, unreadable, questions, question, seen, issues, uncertain,
          status>>

readable == loaded \cup (Files \ unreadable)

\* The names of types that occur in call c.
NamesIn(c) ==
    {c.receiver} \cup ToSet(c.context.targets)
        \cup (IF c.signature = None THEN {} ELSE ToSet(c.signature.params \o c.signature.results))
        \cup UNION {ToSet(e.values) : e \in ToSet(c.arguments)}

-----------------------------------------------------------------------------
(* The forms of a call whose verdict is not Go's. *)

\* A single argument with several values counts as one (compatibility.go:72).
HasSeveralResults(c) ==
    Len(c.arguments) = 1 /\ c.arguments[1].constant = None /\ Len(c.arguments[1].values) # 1

\* A pointer to an alias, and a defined type over a pointer or an interface,
\* count as types with nothing behind their names (compatibility.go:275-278, 440).
IsOpaque(n) ==
    \/ HasPrefix(n, {"*"}) /\ EndsInAlias(n)
    \/ Identity(n) \in DeclaredOverTypes
       /\ (HasPrefix(Underlying(n), {"*"}) \/ IsInterface(n))

\* A pointer to an interface gets its methods (compatibility.go:380-383).
IsPointerToInterface(n) ==
    HasPrefix(Identity(n), {"*"}) /\ IsInterface(Tail(Identity(n)))

\* Of the methods of a type and of an interface the names of the types are
\* compared, with their aliases (compatibility.go:229, 237).
HasAliasInMethods(n) ==
    \E m \in Methods : /\ receiverID(Identity(n)) = <<m.of>>
                       /\ \E p \in ToSet(m.signature.params \o m.signature.results) : p # Identity(p)

\* Every number is taken to fit a complex type (compatibility.go:547-548).
IsOutOfRange(e, t) ==
    /\ e.constant # None /\ e.constant.kind \in Numbers
    /\ Underlying(t) \in {<<w>> : w \in Complexes}
    /\ ~Representable(e.constant, t, "amd64")

\* The type under a channel type is in a file that channelType does not load
\* (compatibility.go:307).
IsChannelElsewhere(n) ==
    LET i == Identity(n)
    IN  /\ IsDeclared(i) /\ IsChannel(i)
        /\ FileFor(TypeOf(i).underlying) \ FileFor(i) # {}

\* A return in a function literal is compared with the results of the declared
\* function around it (source.go:1056).
IsReturnOfLiteral(c) == c.context.literal \notin {None, <<c.context.targets>>}

FormsOf(c) ==
    {f \in {"several results", "opaque name", "alias in methods", "pointer to interface",
            "complex range", "channel elsewhere", "hidden target", "literal return"} :
        CASE f = "several results" -> HasSeveralResults(c)
          [] f = "opaque name" -> \E n \in NamesIn(c) : IsOpaque(n)
          [] f = "alias in methods" -> \E n \in NamesIn(c) : HasAliasInMethods(n)
          [] f = "pointer to interface" -> \E n \in NamesIn(c) : IsPointerToInterface(n)
          [] f = "complex range" -> \E e \in ToSet(c.arguments) :
                c.signature # None /\ \E t \in ToSet(c.signature.params) : IsOutOfRange(e, t)
          [] f = "channel elsewhere" -> \E n \in NamesIn(c) : IsChannelElsewhere(n)
          [] f = "hidden target" -> NoName \in ToSet(c.context.targets)
          [] f = "literal return" -> IsReturnOfLiteral(c)}

\* Another form: a method is in an unreadable file and its type is not, so that
\* the type counts as one without the method (compatibility.go:402).
HasUnreadMethod(c) ==
    \E m \in Methods :
        /\ m.file \in unreadable /\ Types[m.of].file \notin unreadable
        /\ \E n \in NamesIn(c) : receiverID(Identity(n)) = <<m.of>>

-----------------------------------------------------------------------------

\* Files matter only to a call in which a type of a package occurs.
FilesOfInterest ==
    IF \E n \in NamesIn(call) : ToSet(n) \cap Qualified # {} THEN Files ELSE {}

Init ==
    /\ call \in Calls
    /\ FormsOf(call) \subseteq Forms
    /\ loaded \in SUBSET FilesOfInterest
    /\ unreadable \in SUBSET (FilesOfInterest \ loaded)
    /\ HasUnreadMethod(call) => "unread method" \in Forms
    /\ questions = <<>>
    /\ question = None
    /\ seen = {}
    /\ issues = {}
    /\ uncertain = FALSE
    /\ status = "new"

\* Mutant of Load: a file that cannot be read counts as loaded.
LoadAnyway(files) == loaded' = loaded \cup files

\* definitions, its error ignored: the files that can be read are loaded.
Load(files) == loaded' = loaded \cup (files \cap readable)

-----------------------------------------------------------------------------
(* What the source model says of the call. *)

\* call and exprType: one type for each argument, which is the type of its only
\* value if the source model has it.
TypeOfArgument(e) ==
    IF e.constant # None THEN <<e.constant.kind>>
    ELSE IF e.shown /\ Len(e.values) = 1 THEN e.values[1] ELSE NoName

\* The type of a target is nil where it has none and where it is not known.
TypeOfTarget(t) == IF t = AnyTarget THEN NoName ELSE t

\* Mutant of resultContext: the position of the call is not looked at.
FirstTarget(c) ==
    IF c.kind # "none" /\ c.expressions = 1
    THEN [count |-> Len(c.targets), types |-> [i \in DOMAIN c.targets |-> TypeOfTarget(c.targets[i])]]
    ELSE IF c.kind \in {"assign", "return"} /\ c.expressions = Len(c.targets)
    THEN [count |-> 1, types |-> <<TypeOfTarget(c.targets[1])>>]
    ELSE [count |-> -1, types |-> <<>>]

\* resultContext: the number of results expected, if any is, and their types.
resultContext(c) ==
    IF c.kind # "none" /\ c.expressions = 1
    THEN [count |-> Len(c.targets), types |-> [i \in DOMAIN c.targets |-> TypeOfTarget(c.targets[i])]]
    ELSE IF c.kind \in {"assign", "return"} /\ c.expressions = Len(c.targets)
    THEN [count |-> 1, types |-> <<TypeOfTarget(c.targets[c.at])>>]
    ELSE [count |-> -1, types |-> <<>>]

-----------------------------------------------------------------------------
(* compatibility *)

IsMethodExpression == call.receiver # NoName /\ call.signature # None

\* The parameters, with the receiver of a method expression in front.
Params ==
    IF IsMethodExpression THEN <<call.receiver>> \o call.signature.params
    ELSE call.signature.params

CountIssues ==
    LET n == Len(Params)
        argc == Len(call.arguments)
        variadic == call.signature.variadic
        expected == resultContext(call.context).count
    IN  {k \in {"variadic", "argument-count", "result-count"} :
            CASE k = "variadic" -> ~variadic /\ call.spread
              [] k = "argument-count" ->
                    \/ ~variadic /\ argc # n
                    \/ variadic /\ argc < n - 1
                    \/ variadic /\ call.spread /\ argc # n
              [] k = "result-count" -> expected \notin {-1, Len(call.signature.results)}}

\* Mutant of WantedBy: the last fixed parameter counts as variadic.
WantedByVariadic(i) ==
    LET n == Len(Params)
        variadic == call.signature.variadic
        j == IF variadic /\ i >= n - 1 THEN n ELSE i
    IN  IF j > n THEN <<>>
        ELSE <<IF variadic /\ ~call.spread /\ HasPrefix(Params[j], {"[]"})
               THEN Tail(Params[j]) ELSE Params[j]>>

\* The parameter type that argument i has to fit, if there is one: the element
\* type for the arguments of a variadic parameter, its slice for a spread one.
WantedBy(i) ==
    LET n == Len(Params)
        variadic == call.signature.variadic
        j == IF variadic /\ i >= n THEN n ELSE i
        want == Params[j]
    IN  IF j > n THEN <<>>
        ELSE IF ~variadic \/ j < n THEN <<want>>
        ELSE IF call.spread
        THEN <<IF HasPrefix(want, {"[]"}) THEN want ELSE <<"[]">> \o want>>
        ELSE <<IF HasPrefix(want, {"[]"}) THEN Tail(want) ELSE want>>

Question(from, to, constant, kind) ==
    [from |-> from, to |-> to, constant |-> constant, kind |-> kind]

Flattened(ss) ==
    LET from[i \in Nat] == IF i > Len(ss) THEN <<>> ELSE ss[i] \o from[i + 1]
    IN  from[1]

ArgumentQuestions ==
    Flattened([i \in DOMAIN call.arguments |->
        LET e == call.arguments[i]
        IN  [k \in DOMAIN WantedBy(i) |->
                Question(TypeOfArgument(e), WantedBy(i)[k], e.constant, "argument-type")]])

\* Results beyond the signature, and targets without a type, are skipped.
ResultQuestions ==
    LET expected == resultContext(call.context).types
        results == call.signature.results
    IN  Flattened([i \in DOMAIN expected |->
            IF i <= Len(results) /\ expected[i] # NoName
            THEN <<Question(results[i], expected[i], None, "result-type")>>
            ELSE <<>>])

\* The method of type `from' that interfaceMethod finds, as far as it is
\* declared in the files known.
OwnMethods(from, name, known) ==
    LET c == canonicalArrayElement(receiverID(from), known).name
        pointer == HasPrefix(from, {"*"}) \/ HasPrefix(c, {"*"})
    IN  {m \in Methods : /\ <<m.of>> = receiverID(c) /\ m.name = name /\ m.file \in known
                         /\ m.pointer => pointer}

\* interfaceMethod knows the type: a declared type, an alias of it or of a
\* pointer to it, or a predeclared type, which has no methods.
KnowsMethods(from, known) ==
    LET c == canonicalArrayElement(receiverID(from), known).name
    IN  c # NoName /\ Len(receiverID(c)) = 1

FilesOfMethod(from, name) ==
    LET c == canonicalArrayElement(receiverID(from), readable)
    IN  c.files \cup {m.file : m \in {m \in Methods : <<m.of>> = receiverID(c.name)
                                                      /\ m.name = name}}

\* The receiver of a method expression has that method, or its receiver is the
\* declared one of the standard library.
MethodExpressionIssue ==
    IF KnowsMethods(call.receiver, readable)
    THEN IF OwnMethods(call.receiver, call.method, readable) = {} THEN "wrong" ELSE "right"
    ELSE LET receiver == canonicalAliasReceiver(call.receiver, loaded')
         IN  IF call.declared = NoName THEN "uncertain"
             ELSE IF receiver = call.declared \/ (/\ HasPrefix(receiver, {"*"})
                                                  /\ receiverID(receiver) = call.declared)
             THEN "right" ELSE "wrong"

\* The call has no signature to check it against.
NoSignature ==
    /\ status = "new"
    /\ call.signature = None
    /\ status' = IF call.missing THEN "incompatible" ELSE "unknown"
    /\ UNCHANGED <<call, loaded, unreadable, questions, question, seen, issues, uncertain>>

\* The statements before the loop over the arguments, and what the loops will ask.
CheckCounts ==
    /\ status = "new"
    /\ call.signature # None
    /\ IF IsMethodExpression
       THEN /\ Load(FilesOfMethod(call.receiver, call.method))
            /\ issues' = CountIssues \cup (IF MethodExpressionIssue = "wrong"
                                           THEN {"method-expression"} ELSE {})
            /\ uncertain' = (MethodExpressionIssue = "uncertain")
       ELSE issues' = CountIssues /\ UNCHANGED <<loaded, uncertain>>
    /\ questions' = ArgumentQuestions \o ResultQuestions
    /\ status' = "running"
    /\ UNCHANGED <<call, unreadable, question, seen>>

Ask ==
    /\ status = "running"
    /\ question = None
    /\ questions # <<>>
    /\ question' = Head(questions)
    /\ questions' = Tail(questions)
    /\ seen' = {}
    /\ UNCHANGED <<call, loaded, unreadable, issues, uncertain, status>>

\* The question in progress is answered.
Answer(verdict) ==
    /\ issues' = IF verdict = "no" THEN issues \cup {question.kind} ELSE issues
    /\ uncertain' = (uncertain \/ verdict = "unknown")
    /\ question' = None
    /\ UNCHANGED <<call, unreadable, questions, seen, status>>

Finish ==
    /\ status = "running"
    /\ question = None
    /\ questions = <<>>
    /\ status' = IF issues # {} THEN "incompatible"
                 ELSE IF uncertain THEN "unknown" ELSE "compatible"
    /\ UNCHANGED <<call, loaded, unreadable, questions, question, seen, issues, uncertain>>

-----------------------------------------------------------------------------
(* assignable *)

\* The first verdict that is one.
First(verdicts) == Head(SelectSeq(verdicts, LAMBDA v : v # "open") \o <<"open">>)

When(condition, verdict) == IF condition THEN verdict ELSE "open"

YesOrNo(condition) == IF condition THEN "yes" ELSE "no"

\* Arrays and slices: of arrays the lengths and the elements must be identical.
ArrayVerdict(from, to) ==
    LET left == canonicalArrayElement(Tail(from), readable).name
        right == canonicalArrayElement(Tail(to), readable).name
    IN  IF ~HasPrefix(from, Arrays \cup {"[]"}) \/ ~HasPrefix(to, Arrays \cup {"[]"})
        THEN "open"
        ELSE First(<<When(HasPrefix(from, Arrays) # HasPrefix(to, Arrays), "no"),
                     When(HasPrefix(from, {"[]"}), "open"),
                     When(Head(from) # Head(to), "no"),
                     When(NoName \notin {left, right}, YesOrNo(left = right))>>)

\* The untyped kinds before they are looked up as types.
UntypedVerdict(kind, to) ==
    CASE kind = "untyped string" -> When(builtin(to), YesOrNo(to = <<"string">>))
      [] kind = "untyped bool" -> When(builtin(to), YesOrNo(to = <<"bool">>))
      [] kind \in {"untyped int", "untyped rune"} -> When(numeric(to), "yes")
      [] kind = "untyped float" -> When(Len(to) = 1 /\ to[1] \in Floats \cup Complexes, "yes")
      [] kind = "untyped complex" -> YesOrNo(Len(to) = 1 /\ to[1] \in Complexes)
      [] OTHER -> "open"

\* What assignable says before it loads anything.
Immediate(from, to) ==
    IF NoName \in {from, to} THEN "unknown"
    ELSE First(<<When(from = to, "yes"),
                 ArrayVerdict(from, to),
                 When(IsAny(to), "yes"),
                 UntypedVerdict(from[1], to),
                 When(builtin(from) /\ builtin(to) /\ Spelled(from[1]) = Spelled(to[1]), "yes"),
                 When(<<from, to>> \in seen, "unknown")>>)

Compared == {Tail(question.from), Tail(question.to)}

FilesOf(names) == UNION {canonicalArrayElement(n, readable).files : n \in names}

Comparing == status = "running" /\ question # None

DecideAtOnce ==
    /\ Comparing
    /\ question.constant = None
    /\ Immediate(question.from, question.to) # "open"
    /\ IF NoName \notin {question.from, question.to} /\ question.from # question.to
          /\ HasPrefix(question.from, Arrays) /\ HasPrefix(question.to, {Head(question.from)})
       THEN Load(FilesOf(Compared))
       ELSE UNCHANGED loaded
    /\ Answer(Immediate(question.from, question.to))

\* The two types are loaded and looked up.
LookingUp ==
    /\ Comparing
    /\ question.constant = None
    /\ Immediate(question.from, question.to) = "open"

Looked == FileFor(receiverID(question.from)) \cup FileFor(receiverID(question.to))
            \cup (IF HasPrefix(question.from, Arrays) /\ HasPrefix(question.to, Arrays)
                  THEN FilesOf(Compared) ELSE {})

\* Mutant of Found: types are looked up where nothing was loaded for them.
FoundBefore(n) == IsKnown(n, loaded)

Found(n) == IsKnown(n, loaded \cup (Looked \cap readable))

\* Mutant of Follow: the pairs of types that were compared are forgotten.
FollowAgain(from, to) ==
    /\ question' = [question EXCEPT !.from = from, !.to = to]
    /\ Load(Looked)
    /\ UNCHANGED <<call, unreadable, questions, seen, issues, uncertain, status>>

Follow(from, to) ==
    /\ question' = [question EXCEPT !.from = from, !.to = to]
    /\ seen' = seen \cup {<<question.from, question.to>>}
    /\ Load(Looked)
    /\ UNCHANGED <<call, unreadable, questions, issues, uncertain, status>>

IsUntyped(n) == n \in {<<"untyped string">>, <<"untyped bool">>} \cup {<<k>> : k \in Numbers}

\* `to' is an alias, or `from' is a constant and `to' no interface.
FollowTo ==
    /\ LookingUp
    /\ Found(question.to)
    /\ TypeOf(question.to).alias \/ (/\ IsUntyped(question.from)
                                     /\ TypeOf(question.to).underlying # <<"interface">>)
    /\ Follow(question.from, TypeOf(question.to).underlying)

ToInterface ==
    /\ Found(question.to)
    /\ ~TypeOf(question.to).alias
    /\ TypeOf(question.to).underlying = <<"interface">>

\* Mutant of ParameterVerdicts: missing names count as equal.
ParameterVerdictsBlind(have, want) ==
    [i \in DOMAIN have |-> When(NoName \notin {have[i], want[i]} /\ have[i] # want[i], "no")]

ParameterVerdicts(have, want) ==
    [i \in DOMAIN have |-> IF NoName \in {have[i], want[i]} THEN "unknown"
                           ELSE When(have[i] # want[i], "no")]

SignatureVerdict(have, want) ==
    IF \/ Len(have.params) # Len(want.params) \/ Len(have.results) # Len(want.results)
       \/ have.variadic # want.variadic
    THEN "no"
    ELSE First(ParameterVerdicts(have.params, want.params)
               \o ParameterVerdicts(have.results, want.results) \o <<"yes">>)

\* What a required method says of `from': the signatures are compared by name.
RequirementVerdict(from, m) ==
    LET verdicts == {SignatureVerdict(own.signature, m.signature) :
                        own \in OwnMethods(from, m.name, readable)}
    IN  IF ~KnowsMethods(from, readable) THEN "unknown"
        ELSE IF verdicts = {} THEN "no"
        ELSE CHOOSE v \in verdicts : TRUE

\* The methods of the interface are taken in map order up to one that `from'
\* does not have for certain.
DecideInterface ==
    /\ LookingUp
    /\ ToInterface
    /\ LET from == question.from
           required == {m \in Methods : <<m.of>> = question.to}
           doubted == {m \in required : RequirementVerdict(from, m) # "yes"}
           Visit(ms) == Load(Looked \cup UNION {FilesOfMethod(from, m.name) : m \in ms})
       IN  IF TypeOf(question.to).embeds THEN Load(Looked) /\ Answer("unknown")
           ELSE IF doubted = {} THEN Visit(required) /\ Answer("yes")
           ELSE \E m \in doubted, before \in SUBSET (required \ doubted) :
                    Visit(before \cup {m}) /\ Answer(RequirementVerdict(from, m))

\* `from' is an alias.
FollowFrom ==
    /\ LookingUp
    /\ ~(Found(question.to) /\ (TypeOf(question.to).alias \/ IsUntyped(question.from)))
    /\ ~ToInterface
    /\ Found(question.from) /\ TypeOf(question.from).alias
    /\ Follow(TypeOf(question.from).underlying, question.to)

\* channelType: follows names through the files loaded so far, and loads none.
channelType(n, known) ==
    LET follow[m \in Name, been \in SUBSET Name] ==
            IF HasPrefix(m, Directions)
            THEN [direction |-> Head(m), element |-> Tail(m), named |-> FALSE]
            ELSE IF m \in been \/ ~IsKnown(m, known) THEN None
            ELSE LET c == follow[TypeOf(m).underlying, been \cup {m}]
                 IN  IF c = None \/ TypeOf(m).alias THEN c ELSE [c EXCEPT !.named = TRUE]
    IN  follow[n, {}]

ChannelVerdict(f, t) ==
    LET left == canonicalArrayElement(f.element, readable).name
        right == canonicalArrayElement(t.element, readable).name
    IN  First(<<When(f.element # t.element /\ NoName \in {left, right}, "unknown"),
                When(f.element # t.element /\ left # right, "no"),
                When(f.named /\ t.named, "no"),
                YesOrNo(f.direction = t.direction \/ f.direction = "chan ")>>)

\* A package-qualified name is part of n, and no bracket is.
IsDotted(n) == \E i \in DOMAIN n : n[i] \in Qualified
HasBracket(n) == \E i \in DOMAIN n : n[i] \in Arrays \cup {"[]", "interface{}"}

\* Types of which all is known are judged; opaque ones are left unknown.
SimpleVerdict(from, to) ==
    First(<<When(builtin(from) /\ builtin(to), "no"),
            When(IsDotted(from) /\ IsDotted(to) /\ ~HasBracket(from \o to),
                 IF Found(receiverID(from)) /\ Found(receiverID(to)) THEN "no" ELSE "unknown"),
            When(HasPrefix(from, {"*"}) # HasPrefix(to, {"*"}) /\ receiverID(from) = receiverID(to),
                 "no"),
            "unknown">>)

DecideOther ==
    /\ LookingUp
    /\ ~ToInterface
    /\ ~(Found(question.to) /\ (TypeOf(question.to).alias \/ IsUntyped(question.from)))
    /\ ~(Found(question.from) /\ TypeOf(question.from).alias)
    /\ LET known == loaded \cup (Looked \cap readable)
           f == channelType(question.from, known)
           t == channelType(question.to, known)
       IN  IF f # None /\ t # None
           THEN /\ Load(Looked \cup (IF f.element = t.element THEN {}
                                     ELSE FilesOf({f.element, t.element})))
                /\ Answer(ChannelVerdict(f, t))
           ELSE Load(Looked) /\ Answer(SimpleVerdict(question.from, question.to))

-----------------------------------------------------------------------------
(* argumentAssignable, for constants *)

\* The type under `to' that decides over a constant, through aliases and
\* defined types, with the files it loads; NoName where the chain breaks off.
BaseOf(to) ==
    LET follow[n \in Name, been \in SUBSET Name] ==
            IF builtin(n) \/ IsAny(n) THEN [name |-> n, files |-> {}, cyclic |-> FALSE]
            ELSE IF n \in been THEN [name |-> NoName, files |-> {}, cyclic |-> TRUE]
            ELSE IF ~IsKnown(n, readable) \/ TypeOf(n).underlying = NoName
            THEN [name |-> NoName, files |-> FileFor(n) \cap readable, cyclic |-> FALSE]
            ELSE [follow[TypeOf(n).underlying, been \cup {n}] EXCEPT !.files = @ \cup FileFor(n)]
    IN  follow[to, {}]

\* Mutant of Limits: int has the width of the host.
HostLimits(base) ==
    LET bits == CASE base = "byte" -> 8 [] base = "rune" -> 32
                  [] base \in {"int8", "uint8"} -> 8 [] base \in {"int16", "uint16"} -> 16
                  [] base \in {"int32", "uint32"} -> 32 [] OTHER -> 64
    IN  IF base \in Unsigned THEN <<0, Power(bits)>> ELSE <<-Power(bits - 1), Power(bits - 1)>>

\* The smallest value of an integer type and the first that is too large.
Limits(base) ==
    LET bits == CASE base = "byte" -> 8 [] base = "rune" -> 32
                  [] base \in {"int8", "uint8"} -> 8 [] base \in {"int16", "uint16"} -> 16
                  [] base \in {"int32", "uint32"} -> 32 [] base \in {"int64", "uint64"} -> 64
                  [] call.arch \in {"386", "arm", "mips", "mipsle"} -> 32
                  [] OTHER -> 64
    IN  IF base \in Unsigned THEN <<0, Power(bits)>> ELSE <<-Power(bits - 1), Power(bits - 1)>>

\* Whether the value fits the numeric type `base'.
NumberVerdict(c, base) ==
    IF base \in Complexes THEN "yes"
    ELSE IF c.kind = "untyped complex" THEN "no"
    ELSE IF base = "float32" THEN YesOrNo(c.place < Power(128) - 1 /\ c.place > 1 - Power(128))
    ELSE IF base = "float64" THEN YesOrNo(c.place < Power(1024) - 1 /\ c.place > 1 - Power(1024))
    ELSE YesOrNo(c.whole /\ c.place >= Limits(base)[1] /\ c.place < Limits(base)[2])

ConstantVerdict(c, base) ==
    IF IsAny(base) THEN "yes"
    ELSE IF c.kind \in Numbers \cup {"untyped complex"}
    THEN IF numeric(base) THEN NumberVerdict(c, base[1]) ELSE "no"
    ELSE UntypedVerdict(c.kind, base)

DecideConstant ==
    /\ Comparing
    /\ question.constant # None
    /\ LET base == BaseOf(question.to)
       IN  /\ Load(base.files)
           /\ IF base.cyclic THEN Answer("unknown")
              ELSE IF base.name # NoName THEN Answer(ConstantVerdict(question.constant, base.name))
              ELSE /\ question' = [question EXCEPT !.constant = None]
                   /\ UNCHANGED <<call, unreadable, questions, seen, issues, uncertain, status>>

-----------------------------------------------------------------------------

Next ==
    \/ NoSignature \/ CheckCounts \/ Ask \/ Finish
    \/ DecideConstant \/ DecideAtOnce \/ FollowTo \/ DecideInterface
    \/ FollowFrom \/ DecideOther

\* One goroutine that waits for nothing.
Spec == Init /\ [][Next]_vars /\ WF_vars(Next)

-----------------------------------------------------------------------------
(***************************************************************************)
(* Go's verdict.  Where the source model hides a type, of an argument, a   *)
(* parameter, a result or a target, `hidden' is taken for the answer.      *)
(***************************************************************************)

HidesMethods(t) ==
    IsInterface(t) /\ \E m \in MethodSet(t) :
        \E ns \in {m[2].params, m[2].results} : \E i \in DOMAIN ns : ns[i] = NoName

Fits(v, t, hidden) ==
    IF NoName \in {v, t} THEN hidden
    ELSE Assignable(v, t) /\ (hidden \/ Identical(v, t) \/ ~HidesMethods(t))

\* An expression, or one value of it, may be passed for type t.
Passes(e, t, hidden) ==
    IF e.constant = None THEN Fits(e.values[1], t, hidden)
    ELSE IF t = NoName THEN hidden ELSE Representable(e.constant, t, call.arch)

\* f(g()) passes all values of g, of which there must be one.
Passed ==
    LET only == call.arguments[1]
    IN  IF Len(call.arguments) = 1 /\ only.constant = None
        THEN [i \in DOMAIN only.values |-> [only EXCEPT !.values = <<only.values[i]>>]]
        ELSE call.arguments

ParameterFor(i) ==
    LET n == Len(Params)
        last == Params[n]
    IN  IF ~call.signature.variadic \/ call.spread \/ i < n THEN Params[i]
        ELSE IF last = NoName THEN NoName ELSE Tail(last)

\* The values that are passed, each with the parameter type that it has to fit.
Passings == {<<Passed[i], ParameterFor(i)>> : i \in DOMAIN Passed}

AcceptsArguments(hidden) ==
    /\ \A e \in ToSet(call.arguments) : e.constant = None => e.values # <<>>
    /\ IF call.signature.variadic /\ ~call.spread THEN Len(Passed) >= Len(Params) - 1
                                                 ELSE Len(Passed) = Len(Params)
    /\ call.spread => call.signature.variadic
    /\ \A p \in Passings : Passes(p[1], p[2], hidden)

\* A return in a function literal returns from the literal.
AcceptsResults(hidden) ==
    LET c == call.context
        results == call.signature.results
        targets == IF c.literal # None THEN c.literal[1] ELSE c.targets
        places == IF c.expressions = 1 THEN targets ELSE <<targets[c.at]>>
    IN  c.kind # "none" =>
            /\ Len(results) = Len(places)
            /\ \A p \in {<<results[i], places[i]>> : i \in DOMAIN places} :
                    p[2] = AnyTarget \/ Fits(p[1], p[2], hidden)

AcceptsReceiver ==
    IsMethodExpression =>
        LET r == Identity(call.receiver)
        IN  IF IsDeclared(receiverID(r))
            THEN \E m \in MethodSet(r) : m[1] = call.method
            ELSE r = call.declared \/ (HasPrefix(r, {"*"}) /\ Tail(r) = call.declared)

Accepts(hidden) == AcceptsArguments(hidden) /\ AcceptsResults(hidden) /\ AcceptsReceiver

-----------------------------------------------------------------------------
(***************************************************************************)
(* Properties.                                                             *)
(***************************************************************************)

TypeOK ==
    /\ loaded \subseteq Files /\ unreadable \subseteq Files \ loaded
    /\ \A q \in {questions[i] : i \in DOMAIN questions} \cup ({question} \ {None}) :
        q.from \in Name /\ q.to \in Name
    /\ seen \subseteq Name \X Name
    /\ uncertain \in BOOLEAN
    /\ status \in {"new", "running", "compatible", "incompatible", "unknown"}

\* `incompatible' cuts the search off, so no call that Go accepts gets it, of any
\* form but the ones that Forms leaves out: not through an alias that was not
\* followed, a file that could not be read, the order in which methods are looked
\* at, or an index into variadic parameters.  It does not hold of "several
\* results", "opaque name", "alias in methods", "literal return" and "unread method".
IncompatibleIsCertain ==
    status = "incompatible" /\ call.signature # None => ~Accepts(TRUE)

\* A call of a form that is considered is called compatible only when Go accepts
\* it, whatever was loaded before the check and whatever the source model does not
\* know.  It does not hold of "pointer to interface", "complex range" and "hidden
\* target".
CompatibleIsCertain ==
    status = "compatible" => Accepts(FALSE)

\* The verdict on a pair of names does not hang on what they hide: channels,
\* arrays of equal length, predeclared types and interfaces without embedding.
IsPlain(v, t) ==
    /\ NoName \notin {v, t}
    /\ \/ IsAny(t)
       \/ IsChannel(v) /\ IsChannel(t)
       \/ HasPrefix(Identity(v), Arrays) /\ HasPrefix(Identity(t), Arrays)
       \/ builtin(Identity(v)) /\ builtin(Identity(t))
       \/ /\ IsInterface(t) /\ IsDeclared(Underlying(t))
          /\ ~TypeOf(Underlying(t)).embeds /\ ~HidesMethods(t)
          /\ IsDeclared(receiverID(Identity(v)))

\* What is merely not loaded yet is no reason for doubt: with every file
\* readable, the plain pairs of types that are all declared get a verdict.  It
\* does not hold of "channel elsewhere".
UnloadedIsNotUnknown ==
    status = "unknown" /\ unreadable = {} /\ call.signature # None =>
        \/ call.context.kind # "none" \/ IsMethodExpression
        \/ \E i \in DOMAIN call.arguments : i <= Len(Params) /\
            LET e == call.arguments[i]
                u == Underlying(Params[i])
            IN  IF e.constant # None THEN ~builtin(u) /\ ~IsAny(u)
                ELSE ~e.shown \/ Len(e.values) # 1 \/ ~IsPlain(e.values[1], Params[i])

\* Every check comes to a verdict, on aliases that form a cycle too.
Termination == <>(status \notin {"new", "running"})

=============================================================================
