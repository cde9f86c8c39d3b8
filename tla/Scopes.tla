------------------------------- MODULE Scopes -------------------------------
(***************************************************************************)
(* analyzeBody (source.go): one walk over the body of a function, which     *)
(* keeps for each place what the names mean there, and resolves the calls. *)
(* A body is the sequence of the nodes that matter, in the order of        *)
(* ast.Inspect; it grows as it is walked, so every body over Nodes is      *)
(* considered.  A statement and the block that only it has (a range) are   *)
(* one scope here.  What the walk finds is compared with Go's scopes.      *)
(* The definitions marked as mutants are wrong on purpose.                 *)
(***************************************************************************)
EXTENDS Integers, Sequences, FiniteSets, FiniteSetsExt

CONSTANTS
    Names,      \* the names a body uses
    Other,      \* an expression that is not the name of a function
    Files,      \* what the file and the signature say of the names
    Unpacked,   \* a result, but the first, of a call that has several
    Nodes,      \* the nodes a body may have
    MaxNodes,   \* the longest body
    Forms       \* the forms of statements that are considered, see IsConsidered

\* The parameters, package variables (and their function values) and types or
\* builtins.  Any other name is a function of the package or an import.
File == [params : SUBSET Names, globals : SUBSET Names,
         globalFuncs : [Names -> Names \cup {Other}], types : SUBSET Names]

\* `define', `assign' and `var' give `name' a value: a name, a call or any other
\* expression.  A node is `joined' if it is a further name on the left side of the
\* statement of the node before it.  A call is `inside' if it is in an expression
\* of the statement before it.  An `open' node starts the scope of a block, a
\* clause or a control statement.
Node == [op : {"open", "close", "define", "assign", "var", "range", "call"},
         name : Names \cup {Other}, value : Names \cup {Other, Unpacked},
         inside : BOOLEAN, joined : BOOLEAN]

ASSUME ScopesAssumption ==
    /\ {Other, Unpacked} \cap Names = {}
    /\ Forms \subseteq {"own name", "hidden function", "unpacked name", "parallel",
                      "inner assignment"}
    /\ Files \subseteq File
    /\ \A f \in Files : \A n \in Names \ f.globals : f.globalFuncs[n] = Other
    /\ Nodes \subseteq Node
    /\ \A node \in Nodes : node.op \notin {"open", "close"} => node.name \in Names
    /\ MaxNodes \in Nat

VARIABLES
    file,
    body,       \* the nodes walked so far
    scope,      \* the current sourceScope
    scopes,     \* the scopes to return to
    calls       \* fn.Calls: for the node of a call, what its name was found to be

vars == <<file, body, scope, scopes, calls>>

\* sourceScope: the variables (without their types), the functions they are
\* known to hold, and the names declared in this very scope.
Init ==
    /\ file \in Files
    /\ body = <<>>
    /\ scope = [vars |-> file.globals \cup file.params,
                funcs |-> [n \in Names |->
                    IF n \in file.params THEN Other ELSE file.globalFuncs[n]],
                declared |-> file.params]
    /\ scopes = <<scope>>
    /\ calls = [k \in {} |-> <<>>]

-----------------------------------------------------------------------------
(***************************************************************************)
(* Go's scopes, for the nodes up to the k-th.                              *)
(***************************************************************************)

\* The number of open scopes after node k; the body itself is one.
Depth(b, k) ==
    1 + Cardinality({i \in 1..k : b[i].op \in {"open", "range"}})
      - Cardinality({i \in 1..k : b[i].op = "close"})

\* The scope of node j is not closed before node k.
Encloses(b, j, k) == \A i \in j..k : Depth(b, i) >= Depth(b, j)

Giving == {"define", "assign", "var"}

Gives(b, j, n) == b[j].name = n /\ b[j].op \in Giving

\* The first node of the statement that node j belongs to.
Start(b, j) == Max({1} \cup {i \in 1..j : ~b[i].joined})

\* Node j declares n: `define' only where n is not declared in the same scope.
DeclaresAt(f, b, j, n) ==
    /\ b[j].name = n
    /\ \/ b[j].op \in {"var", "range"}
       \/ /\ b[j].op = "define"
          /\ ~(n \in f.params /\ Depth(b, j) = 1)
          /\ ~\E i \in 1..(j - 1) : /\ b[i].op \in {"define", "var"}
                                    /\ b[i].name = n
                                    /\ Depth(b, i) = Depth(b, j)
                                    /\ Encloses(b, i, j)

\* The node after which a call stands: an expression of a statement sees nothing
\* of what the statement does, an initializer does not see its variable.
Seen(b, k) == IF b[k].inside THEN Start(b, k - 1) - 1 ELSE k - 1

\* The variable that n denotes after node k: its declaration, or 0 if none is local.
Variable(f, b, n, k) ==
    Max({0} \cup {j \in 1..k : DeclaresAt(f, b, j, n) /\ Encloses(b, j, k)})

IsLocal(f, b, n, k) == Variable(f, b, n, k) # 0 \/ n \in f.params

IsVariable(f, b, n, k) == IsLocal(f, b, n, k) \/ n \in f.globals

\* Node k is a further name of the statement before it: a statement declares no
\* name twice, and all names but the first may have the results of one call.
JoinsAsGo(b, k) ==
    LET before == Start(b, k)..(k - 1)
    IN  /\ k > 1
        /\ b[k].op \in Giving /\ b[k - 1].op = b[k].op
        /\ b[k].op # "assign" => \A i \in before : b[i].name # b[k].name
        /\ b[k - 1].value = Unpacked => b[k].value = Unpacked
        /\ b[k].value = Unpacked =>
                \/ b[k - 1].value = Unpacked
                \/ b[k - 1].value = Other /\ ~b[k - 1].joined

\* The program that the body belongs to is a Go program so far.
IsGo(f, b) ==
    LET k == Len(b)
        node == b[k]
    IN  /\ Depth(b, k) >= 1
        /\ node.op = "var" => ~\E j \in 1..(k - 1) :
                /\ b[j].op \in {"define", "var"} /\ b[j].name = node.name
                /\ Depth(b, j) = Depth(b, k) /\ Encloses(b, j, k)
        /\ node.op = "var" => ~(node.name \in f.params /\ Depth(b, k) = 1)
        /\ node.op = "assign" => IsVariable(f, b, node.name, k - 1)
        /\ node.value \in f.types => IsVariable(f, b, node.value, Start(b, k) - 1)
        /\ node.joined => JoinsAsGo(b, k)
        /\ node.inside => /\ k > 1
                          /\ b[k - 1].op \in Giving \cup {"range"}
                          /\ \E i \in Start(b, k - 1)..(k - 1) : b[i].value = Other

\* A value that is looked for: what is written, and the node after which it stands.
Value(b) == [name : Names \cup {Other, Unpacked}, at : 0..Len(b)]

\* The nodes that give a value to the variable that v.name is after node v.at.
Givers(f, b, v) ==
    {j \in 1..v.at : /\ Gives(b, j, v.name)
                     /\ Variable(f, b, v.name, j) = Variable(f, b, v.name, v.at)}

IsGiven(f, b, v) ==
    v.name \in Names /\ IsVariable(f, b, v.name, v.at) /\ Givers(f, b, v) # {}

\* The value that was given last.  Go evaluates all values of a statement before
\* it gives any.
Given(f, b, v) ==
    LET last == Max(Givers(f, b, v))
    IN  [name |-> b[last].value, at |-> Start(b, last) - 1]

\* What a value is that no node gives.
OwnValue(f, b, v) ==
    IF v.name \in {Other, Unpacked} THEN Other
    ELSE IF ~IsVariable(f, b, v.name, v.at) THEN IF v.name \in f.types THEN Other ELSE v.name
    ELSE IF IsLocal(f, b, v.name, v.at) THEN Other
    ELSE f.globalFuncs[v.name]

\* The function that the name n is when node k is done, if every node of the body
\* is executed, once and in order: the last value given to its variable.
ValueOf(f, b, n, k) ==
    LET value[v \in Value(b)] ==
            IF IsGiven(f, b, v) THEN value[Given(f, b, v)] ELSE OwnValue(f, b, v)
    IN  value[[name |-> n, at |-> k]]

\* What node j gives outlasts no scope but that of the variable: if the scope of
\* node j is closed at node k, then the variable is out of sight there.
KeepsWhatIsGiven(f, b, j, k) ==
    b[j].op \in Giving /\ Variable(f, b, b[j].name, j) = Variable(f, b, b[j].name, k)
        => Encloses(b, j, k)

\* The forms a body may have, so that each can be considered alone:
\*   own name          a declaration whose value uses the name that it declares;
\*   parallel          a further value of a statement is a name that the statement
\*                     itself gives a value before (source.go:528);
\*   inner assignment  a block ends that gave a value to a variable from outside,
\*                     whose function before the block is restored (source.go:487);
\*   hidden function   a range variable hides a variable with a known function;
\*   unpacked name     a variable is declared, or given a value, by a call with
\*                     several results.
IsConsidered(f, b) ==
    LET k == Len(b)
        node == b[k]
    IN  /\ "own name" \in Forms \/
            /\ node.op \in {"define", "var"} => node.value # node.name
            /\ node.inside => \A i \in Start(b, k - 1)..(k - 1) : b[i].name # node.name
        /\ "parallel" \in Forms \/
            (node.joined => \A i \in Start(b, k)..(k - 1) : b[i].name # node.value)
        /\ "inner assignment" \in Forms \/
            (node.op = "close" => \A j \in 1..(k - 1) : KeepsWhatIsGiven(f, b, j, k))
        /\ "hidden function" \in Forms \/
            (node.op = "range" /\ IsVariable(f, b, node.name, k - 1)
                => ValueOf(f, b, node.name, k - 1) = Other)
        /\ "unpacked name" \in Forms \/
            (node.value = Unpacked
                => /\ ~DeclaresAt(f, b, k, node.name)
                   /\ ValueOf(f, b, node.name, k - 1) = Other)

-----------------------------------------------------------------------------
(***************************************************************************)
(* The walk.                                                               *)
(***************************************************************************)

\* functionValue of a name or of another expression.
functionValue(s, v) ==
    IF v = Other THEN Other
    ELSE IF s.funcs[v] # Other THEN s.funcs[v]
    ELSE IF v \notin s.vars \cup file.types THEN v
    ELSE Other

\* The next node of a body of at most MaxNodes nodes.
Walk(node) ==
    /\ Len(body) < MaxNodes
    /\ scopes # <<>>
    /\ body' = Append(body, node)
    /\ IsGo(file, body')
    /\ IsConsidered(file, body')

\* startsSourceScope, cloneScope
Enter(node) ==
    /\ node.op = "open"
    /\ Walk(node)
    /\ scopes' = Append(scopes, scope)
    /\ scope' = [scope EXCEPT !.declared = {}]
    /\ UNCHANGED <<file, calls>>

\* Mutant of Leave: the scope of the block goes on.
LeaveLeaking(node) ==
    /\ node.op = "close"
    /\ Walk(node)
    /\ scopes' = SubSeq(scopes, 1, Len(scopes) - 1)
    /\ UNCHANGED <<file, scope, calls>>

Leave(node) ==
    /\ node.op = "close"
    /\ Walk(node)
    /\ scope' = scopes[Len(scopes)]
    /\ scopes' = SubSeq(scopes, 1, Len(scopes) - 1)
    /\ UNCHANGED <<file, calls>>

\* The name becomes a variable of this scope.
Declare(s, n) == [s EXCEPT !.vars = @ \cup {n}, !.declared = @ \cup {n}]

\* Mutant of Give: where the new value is no function, the old one stays.
GiveFunction(s, n, v) ==
    IF functionValue(s, v) = Other THEN s
    ELSE [s EXCEPT !.funcs[n] = functionValue(s, v)]

\* scope.funcs after the variable n gets the value v.
Give(s, n, v) == [s EXCEPT !.funcs[n] = functionValue(s, v)]

VisitValueSpec(node) ==
    /\ node.op = "var"
    /\ Walk(node)
    /\ scope' = Give(Declare(scope, node.name), node.name, node.value)
    /\ UNCHANGED <<file, scopes, calls>>

VisitAssignStmt(node) ==
    /\ node.op \in {"define", "assign"}
    /\ Walk(node)
    /\ scope' = IF node.value = Unpacked THEN scope
                ELSE IF node.op = "define" /\ node.name \notin scope.declared
                THEN Give(Declare(scope, node.name), node.name, node.value)
                ELSE Give(scope, node.name, node.value)
    /\ UNCHANGED <<file, scopes, calls>>

VisitRangeStmt(node) ==
    /\ node.op = "range"
    /\ Walk(node)
    /\ scopes' = Append(scopes, scope)
    /\ scope' = [scope EXCEPT !.vars = @ \cup {node.name}, !.declared = {}]
    /\ UNCHANGED <<file, calls>>

\* isConversionOrBuiltin
IsConversion(n) == n \notin scope.vars /\ n \in file.types

\* call: a known function value, a symbol of the package or an import, or a
\* variable of which nothing is known.
FoundAs(n) ==
    IF scope.funcs[n] # Other THEN [via |-> "value", name |-> scope.funcs[n]]
    ELSE IF n \notin scope.vars THEN [via |-> "symbol", name |-> n]
    ELSE [via |-> "variable", name |-> Other]

VisitCallExpr(node) ==
    /\ node.op = "call"
    /\ Walk(node)
    /\ calls' = IF IsConversion(node.name) THEN calls
                ELSE [k \in DOMAIN calls \cup {Len(body')} |->
                        IF k \in DOMAIN calls THEN calls[k] ELSE FoundAs(node.name)]
    /\ UNCHANGED <<file, scope, scopes>>

Next ==
    \E node \in Nodes :
        \/ Enter(node) \/ Leave(node) \/ VisitValueSpec(node)
        \/ VisitAssignStmt(node) \/ VisitRangeStmt(node) \/ VisitCallExpr(node)

Spec == Init /\ [][Next]_vars

-----------------------------------------------------------------------------
(***************************************************************************)
(* Properties.                                                             *)
(***************************************************************************)

CallNodes == {k \in 1..Len(body) : body[k].op = "call"}

\* A local name hides the symbol or the import of that name in its scope, and
\* nowhere else: what a block or a clause declares does not reach the code after
\* it, and a conversion is no call unless its name is hidden.  It does not hold of
\* the forms "own name" and "unpacked name".
HidesAsGo ==
    \A k \in CallNodes :
        LET n == body[k].name
            visible == IsVariable(file, body, n, Seen(body, k))
        IN  /\ k \in DOMAIN calls <=> visible \/ n \notin file.types
            /\ k \in DOMAIN calls => (calls[k].via = "symbol" <=> ~visible)

\* A call through a variable is resolved to the function that the variable was
\* given last before it in the text, in whichever block, through copies of
\* variables, and to no other variable's function.  It does not hold of the forms
\* "parallel", "inner assignment", "hidden function" and "unpacked name".
ValuesAsGiven ==
    \A k \in DOMAIN calls :
        calls[k].via # "symbol" =>
            calls[k].name = ValueOf(file, body, body[k].name, Seen(body, k))

=============================================================================
