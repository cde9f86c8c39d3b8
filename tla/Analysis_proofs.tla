-------------------------- MODULE Analysis_proofs --------------------------
(***************************************************************************)
(* Proofs about the lazy engine, for every workspace.                      *)
(*                                                                         *)
(* LazyLoading: whatever is asked for, in whatever order, with whatever    *)
(* errors, the tables match the complete models, a complete definition     *)
(* search knows every declaration, and a cached list of callers is that of *)
(* the whole workspace if no two functions share an ID.                    *)
(*                                                                         *)
(* Analysis, for every request: what is proved of the engine alone holds   *)
(* while a search drives it, the search waits for the engine, and each     *)
(* step of the lazy analysis is a step of Traversal, which has callersFor  *)
(* as one step that knows every call, or leaves the search as it is.       *)
(***************************************************************************)
EXTENDS Analysis, WellFoundedInduction, TLAPS

RequestType ==
    [kind : {"none", "definitions", "candidates"}, name : Names,
     units : SUBSET (Packages \cup Paths),
     unit : {NoUnit} \cup {<<u>> : u \in Packages \cup Paths},
     pending : SUBSET Files, tolerant : BOOLEAN]

-----------------------------------------------------------------------------
(* Facts about the data. *)

\* A file declares functions with the fields of Function.
LEMMA DeclaredType ==
  ASSUME NEW f \in Files
  PROVE  /\ FunctionsOf[f] \in Seq(Function)
         /\ Len(FunctionsOf[f]) \in Nat
         /\ DeclaredIn(f) \subseteq Function
  BY DataAssumption DEF DeclaredIn

\* A nonempty set of positions of a sequence has a last one.
LEMMA LastPosition ==
  ASSUME NEW n \in Nat, NEW at \in SUBSET (1..n), at # {}
  PROVE  \E i \in at : \A j \in at : j <= i
  <1> DEFINE T == {n - i : i \in at}
             R == OpToRel(<, Nat)
  <1>1. \A i \in at : i \in Nat /\ n - i \in Nat
    OBVIOUS
  <1>2. T \subseteq Nat /\ T # {}
    BY <1>1
  <1>3. IsWellFoundedOn(R, Nat)
    BY NatLessThanWellFounded
  <1> HIDE DEF R
  <1>4. PICK x \in T : \A y \in T : <<y, x>> \notin R
    BY <1>2, <1>3, WFMin
  <1>5. \A y \in T : ~(y < x)
    BY <1>2, <1>4 DEF R, OpToRel
  <1>6. PICK i \in at : x = n - i
    BY <1>4
  <1>7. ASSUME NEW j \in at PROVE j <= i
    <2>1. ~(n - j < n - i)
      BY <1>5, <1>6
    <2>2. QED
      BY <1>1, <2>1
  <1>8. QED
    BY <1>7

\* The entry a file leaves under an ID is one of its functions with that ID.
LEMMA LastDeclaredType ==
  ASSUME NEW f \in Files, NEW id \in {fn.id : fn \in DeclaredIn(f)}
  PROVE  /\ LastDeclared(f, id) \in DeclaredIn(f)
         /\ LastDeclared(f, id).id = id
  <1> DEFINE s == FunctionsOf[f]
             at == {i \in 1..Len(s) : s[i].id = id}
  <1>1. at # {}
    BY DEF DeclaredIn
  <1>2. \E i \in at : \A j \in at : j <= i
    BY <1>1, DeclaredType, LastPosition
  <1>3. (CHOOSE i \in at : \A j \in at : j <= i) \in at
    BY <1>2
  <1>4. QED
    BY <1>3 DEF LastDeclared, DeclaredIn

-----------------------------------------------------------------------------
(* Type correctness. *)

LEMMA IdleType == Idle \in RequestType
  BY DataAssumption DEF Idle, RequestType

LEMMA CandidatesType == ASSUME NEW name \in Names
                        PROVE  Candidates(name) \in RequestType
  BY DEF Candidates, RequestType, CallerFiles

LEMMA DefinitionsType ==
  ASSUME NEW ref \in Packages \cup Paths, NEW name \in Names, NEW b \in BOOLEAN
  PROVE  Definitions(ref, name, b) \in RequestType
  <1>1. UnitsOf(ref) \subseteq Packages \cup Paths
    BY DataAssumption DEF UnitsOf, PackageIDs
  <1>2. QED
    BY <1>1 DEF Definitions, RequestType

\* TypeOK with the request as one record.
Typed == TypeOK /\ request \in RequestType

LEMMA InitTyped == Init => Typed
  <1> SUFFICES ASSUME Init PROVE Typed
    OBVIOUS
  <1>1. request \in RequestType
    BY IdleType DEF Init
  <1>2. target \in Symbols
    BY DataAssumption DEF Init
  <1>3. DOMAIN functions = {} /\ DOMAIN callerCache = {}
    BY DEF Init
  <1>4. QED
    BY <1>1, <1>2, <1>3 DEF Init, Typed, TypeOK, RequestType

LEMMA NextTyped == Typed /\ [Next]_vars => Typed'
  <1> SUFFICES ASSUME Typed, [Next]_vars PROVE Typed'
    OBVIOUS
  <1>0. request \in RequestType /\ TypeOK
    BY DEF Typed
  <1>1. request' \in RequestType =>
          /\ request'.kind \in {"none", "definitions", "candidates"}
          /\ request'.name \in Names
          /\ request'.units \subseteq Packages \cup Paths
          /\ \/ request'.unit = NoUnit
             \/ \E u \in Packages \cup Paths : request'.unit = <<u>>
          /\ request'.pending \subseteq Files
          /\ request'.tolerant \in BOOLEAN
    BY DEF RequestType
  <1>2. CASE AskDefinitions
    <2>1. request' \in RequestType
      BY <1>2, DefinitionsType DEF AskDefinitions
    <2>2. QED
      BY <1>0, <1>1, <1>2, <2>1 DEF AskDefinitions, Typed, TypeOK, tables, environment
  <1>3. CASE UnitIsCached
    <2>1. request' \in RequestType
      BY <1>0, <1>3 DEF UnitIsCached, RequestType
    <2>2. QED
      BY <1>0, <1>1, <1>3, <2>1 DEF UnitIsCached, Typed, TypeOK, tables, environment
  <1>4. CASE StartUnit
    <2>1. PICK u \in request.units :
             request' = [request EXCEPT !.units = @ \ {u}, !.unit = <<u>>,
                              !.pending = DefinitionFiles(u, request.name)]
      BY <1>4 DEF StartUnit
    <2>2. u \in Packages \cup Paths /\ DefinitionFiles(u, request.name) \subseteq Files
      BY <1>0 DEF RequestType, DefinitionFiles
    <2>3. request' \in RequestType
      BY <1>0, <2>1, <2>2 DEF RequestType
    <2>4. QED
      BY <1>0, <1>1, <1>4, <2>3 DEF StartUnit, Typed, TypeOK, tables, environment
  <1>5. CASE FinishUnit
    <2>1. request' \in RequestType
      BY <1>0, <1>5 DEF FinishUnit, RequestType
    <2>2. definitionCache' \subseteq (Packages \cup Paths) \X Names
      BY <1>0, <1>5 DEF FinishUnit, TypeOK
    <2>3. QED
      BY <1>0, <1>1, <1>5, <2>1, <2>2 DEF FinishUnit, Typed, TypeOK, tables, environment
  <1>6. CASE AnswerDefinitions
    BY <1>0, <1>1, <1>6, IdleType
       DEF AnswerDefinitions, Typed, TypeOK, tables, environment
  <1>7. CASE LoadIsCached
    <2>1. request' \in RequestType
      BY <1>0, <1>7 DEF LoadIsCached, RequestType
    <2>2. QED
      BY <1>0, <1>1, <1>7, <2>1 DEF LoadIsCached, Typed, TypeOK, tables, environment
  <1>8. CASE LoadFile
    <2>1. PICK f \in request.pending \ models :
             /\ models' = models \cup {f}
             /\ functions' = WithFunctionsOf(f)
             /\ types' = types \cup TypesOf[f]
             /\ request' = [request EXCEPT !.pending = @ \ {f}]
      BY <1>8 DEF LoadFile
    <2>2. f \in Files
      BY <1>0, <2>1 DEF RequestType
    <2>3. request' \in RequestType
      BY <1>0, <2>1 DEF RequestType
    <2>4. /\ DOMAIN functions' \subseteq Symbols
          /\ \A id \in DOMAIN functions' : functions'[id] \in Function
      <3> DEFINE new == {fn.id : fn \in DeclaredIn(f)}
      <3>1. new \subseteq Symbols
        BY <2>2, DeclaredType DEF Function
      <3>2. \A id \in new : LastDeclared(f, id) \in Function
        BY <2>2, DeclaredType, LastDeclaredType
      <3>3. functions' = [id \in DOMAIN functions \cup new |->
                IF id \in new THEN LastDeclared(f, id) ELSE functions[id]]
        BY <2>1 DEF WithFunctionsOf
      <3> HIDE DEF new
      <3>4. QED
        BY <1>0, <3>1, <3>2, <3>3 DEF TypeOK
    <2>5. types' \subseteq Symbols
      BY <1>0, <2>1, <2>2, DataAssumption DEF TypeOK
    <2>6. QED
      BY <1>0, <1>1, <1>8, <2>1, <2>2, <2>3, <2>4, <2>5
         DEF LoadFile, Typed, TypeOK, environment
  <1>9. CASE LoadFails
    BY <1>0, <1>1, <1>9, IdleType DEF LoadFails, Typed, TypeOK, tables, environment
  <1>10. CASE AskCallers
    <2>1. request' \in RequestType /\ target' \in Symbols
      BY <1>10, CandidatesType, DataAssumption DEF AskCallers
    <2>2. QED
      BY <1>0, <1>1, <1>10, <2>1 DEF AskCallers, Typed, TypeOK, tables, environment
  <1>11. CASE TakeSnapshot
    BY <1>0, <1>1, <1>11, IdleType DEF TakeSnapshot, Typed, TypeOK, tables, environment
  <1>12. CASE FinishCallers
    <2>1. /\ DOMAIN callerCache' \subseteq Symbols
          /\ \A id \in DOMAIN callerCache' : callerCache'[id] \subseteq Function
      BY <1>0, <1>12 DEF FinishCallers, TypeOK
    <2>2. QED
      BY <1>0, <1>1, <1>12, <2>1 DEF FinishCallers, Typed, TypeOK, tables, environment
  <1>13. CASE FileChanges
    BY <1>0, <1>1, <1>13 DEF FileChanges, Typed, TypeOK, tables
  <1>14. CASE Cancel
    BY <1>0, <1>1, <1>14 DEF Cancel, Typed, TypeOK, tables
  <1>15. CASE UNCHANGED vars
    BY <1>0, <1>15 DEF vars, Typed, TypeOK
  <1>16. QED
    BY <1>2, <1>3, <1>4, <1>5, <1>6, <1>7, <1>8, <1>9, <1>10, <1>11, <1>12,
       <1>13, <1>14, <1>15 DEF Next

\* The tables, the caches and the request keep their types on every workspace.
THEOREM TypeCorrect == Spec => []TypeOK
  <1>1. Typed => TypeOK
    BY DEF Typed
  <1>2. QED
    BY <1>1, InitTyped, NextTyped, PTL DEF Spec

-----------------------------------------------------------------------------
(* The tables. *)

LEMMA InitTables == Init => TablesMatchModels
  BY DEF Init, TablesMatchModels

LEMMA NextTables == Typed /\ TablesMatchModels /\ [Next]_vars => TablesMatchModels'
  <1> SUFFICES ASSUME Typed, TablesMatchModels, [Next]_vars
               PROVE  TablesMatchModels'
    OBVIOUS
  <1>1. CASE UNCHANGED tables
    BY <1>1 DEF tables, TablesMatchModels
  <1>2. CASE LoadFile
    <2>1. PICK f \in request.pending \ models :
             /\ models' = models \cup {f}
             /\ functions' = WithFunctionsOf(f)
             /\ types' = types \cup TypesOf[f]
      BY <1>2 DEF LoadFile
    <2>2. f \in Files
      BY <2>1 DEF Typed, RequestType
    <2> DEFINE new == {fn.id : fn \in DeclaredIn(f)}
    <2>3. functions' = [id \in DOMAIN functions \cup new |->
              IF id \in new THEN LastDeclared(f, id) ELSE functions[id]]
      BY <2>1 DEF WithFunctionsOf
    <2>4. DOMAIN functions' = {fn.id : fn \in UNION {DeclaredIn(g) : g \in models'}}
      BY <2>1, <2>3 DEF TablesMatchModels
    <2>5. ASSUME NEW id \in DOMAIN functions'
          PROVE  /\ functions'[id].id = id
                 /\ \E g \in models' : functions'[id] \in DeclaredIn(g)
      <3>1. CASE id \in new
        <4>1. LastDeclared(f, id) \in DeclaredIn(f) /\ LastDeclared(f, id).id = id
          BY <2>2, <3>1, LastDeclaredType
        <4>2. functions'[id] = LastDeclared(f, id)
          BY <2>3, <3>1
        <4>3. QED
          BY <2>1, <4>1, <4>2
      <3>2. CASE id \notin new
        <4>1. id \in DOMAIN functions /\ functions'[id] = functions[id]
          BY <2>3, <2>5, <3>2
        <4>2. QED
          BY <2>1, <4>1 DEF TablesMatchModels
      <3>3. QED
        BY <3>1, <3>2
    <2>6. types' = UNION {TypesOf[g] : g \in models'}
      BY <2>1 DEF TablesMatchModels
    <2>7. QED
      BY <2>4, <2>5, <2>6 DEF TablesMatchModels
  <1>3. QED
    BY <1>1, <1>2
       DEF Next, vars, tables, AskDefinitions, UnitIsCached, StartUnit, FinishUnit,
           AnswerDefinitions, LoadIsCached, LoadFails, AskCallers, TakeSnapshot,
           FinishCallers, FileChanges, Cancel

\* What the engine knows is what its complete models declare, whichever loads
\* failed in between (engine.load writes the tables only after a success).
THEOREM TablesTheorem == Spec => []TablesMatchModels
  BY InitTyped, NextTyped, InitTables, NextTables, PTL DEF Spec

-----------------------------------------------------------------------------
(* What has been searched is loaded. *)

\* While a package is searched, its files are loaded or still to be loaded; so
\* are the files of the candidates.  A candidate search is never tolerant: with
\* an error it ends the analysis.
RequestInv ==
    /\ request.kind # "definitions" => request.unit = NoUnit
    /\ request.unit # NoUnit =>
        DefinitionFiles(request.unit[1], request.name) \subseteq models \cup request.pending
    /\ request.kind = "candidates" => ~request.tolerant
    /\ Running /\ phase = "candidates" =>
        /\ request.kind = "candidates"
        /\ CallerFiles(NameOf[target]) \subseteq models \cup request.pending

\* A complete search of a package has loaded all its files with that name; so
\* has the collection of candidates.
SearchedInv ==
    /\ \A u \in Packages \cup Paths, name \in Names :
        <<u, name>> \in definitionCache => DefinitionFiles(u, name) \subseteq models
    /\ phase = "resolving" => CallerFiles(NameOf[target]) \subseteq models

LEMMA InitSearched == Init => RequestInv /\ SearchedInv
  BY DEF Init, RequestInv, SearchedInv, Idle, NoUnit

LEMMA NextSearched ==
  Typed /\ RequestInv /\ SearchedInv /\ [Next]_vars => RequestInv' /\ SearchedInv'
  <1> SUFFICES ASSUME Typed, RequestInv, SearchedInv, [Next]_vars
               PROVE  RequestInv' /\ SearchedInv'
    OBVIOUS
  <1>0. request \in RequestType
    BY DEF Typed
  <1>1. /\ Idle.kind = "none" /\ Idle.unit = NoUnit
        /\ Idle.tolerant = FALSE
    BY DEF Idle
  <1>2. CASE AskDefinitions
    BY <1>1, <1>2
       DEF AskDefinitions, Definitions, RequestInv, SearchedInv, tables, environment,
           Running
  <1>3. CASE UnitIsCached
    BY <1>0, <1>3
       DEF UnitIsCached, RequestType, RequestInv, SearchedInv, tables, environment, Running
  <1>4. CASE StartUnit
    <2>1. PICK u \in request.units :
             request' = [request EXCEPT !.units = @ \ {u}, !.unit = <<u>>,
                              !.pending = DefinitionFiles(u, request.name)]
      BY <1>4 DEF StartUnit
    <2>2. /\ request'.kind = "definitions" /\ request'.unit[1] = u
          /\ request'.name = request.name
          /\ request'.pending = DefinitionFiles(u, request.name)
      BY <1>0, <1>4, <2>1 DEF RequestType, StartUnit
    <2>3. QED
      BY <1>4, <2>2
         DEF StartUnit, RequestInv, SearchedInv, tables, environment, Running
  <1>5. CASE FinishUnit
    <2>1. DefinitionFiles(request.unit[1], request.name) \subseteq models
      BY <1>5 DEF FinishUnit, RequestInv
    <2>2. SearchedInv'
      BY <1>5, <2>1 DEF FinishUnit, SearchedInv, tables
    <2>3. RequestInv'
      BY <1>0, <1>5
         DEF FinishUnit, RequestType, RequestInv, tables, environment, Running
    <2>4. QED
      BY <2>2, <2>3
  <1>6. CASE AnswerDefinitions
    BY <1>1, <1>6
       DEF AnswerDefinitions, RequestInv, SearchedInv, tables, environment, Running
  <1>7. CASE LoadIsCached
    <2>1. PICK f \in models : request' = [request EXCEPT !.pending = @ \ {f}]
      BY <1>7 DEF LoadIsCached
    <2>2. QED
      BY <1>0, <1>7, <2>1
         DEF LoadIsCached, RequestType, RequestInv, SearchedInv, tables, environment, Running
  <1>8. CASE LoadFile
    <2>1. PICK f \in request.pending \ models :
             /\ models' = models \cup {f}
             /\ request' = [request EXCEPT !.pending = @ \ {f}]
      BY <1>8 DEF LoadFile
    <2>2. QED
      BY <1>0, <1>8, <2>1
         DEF LoadFile, RequestType, RequestInv, SearchedInv, environment, Running
  <1>9. CASE LoadFails
    BY <1>1, <1>9
       DEF LoadFails, RequestInv, SearchedInv, tables, environment, Running
  <1>10. CASE AskCallers
    BY <1>10
       DEF AskCallers, Candidates, RequestInv, SearchedInv, tables, environment, Running
  <1>11. CASE TakeSnapshot
    BY <1>1, <1>11
       DEF TakeSnapshot, RequestInv, SearchedInv, tables, environment, Running
  <1>12. CASE FinishCallers
    BY <1>1, <1>12
       DEF FinishCallers, RequestInv, SearchedInv, tables, environment, Running
  <1>13. CASE FileChanges
    BY <1>13 DEF FileChanges, RequestInv, SearchedInv, tables, Running
  <1>14. CASE Cancel
    BY <1>14 DEF Cancel, RequestInv, SearchedInv, tables, Running
  <1>15. CASE UNCHANGED vars
    BY <1>15 DEF vars, RequestInv, SearchedInv, Running
  <1>16. QED
    BY <1>2, <1>3, <1>4, <1>5, <1>6, <1>7, <1>8, <1>9, <1>10, <1>11, <1>12,
       <1>13, <1>14, <1>15 DEF Next

LEMMA SearchedKnown == Typed /\ TablesMatchModels /\ SearchedInv => DefinitionsAreKnown
  <1> SUFFICES ASSUME Typed, TablesMatchModels, SearchedInv, NEW f \in Files
               PROVE  /\ \A fn \in DeclaredIn(f) :
                            <<PackageOf[f], NameOf[fn.id]>> \in definitionCache =>
                                fn.id \in DOMAIN functions
                      /\ \A t \in TypesOf[f] :
                            <<PackageOf[f], NameOf[t]>> \in definitionCache => t \in types
    BY DEF DefinitionsAreKnown
  <1>1. ASSUME NEW name \in DefinitionTokens[f],
               <<PackageOf[f], name>> \in definitionCache
        PROVE  f \in models
    <2>1. PackageOf[f] \in Packages /\ name \in Names
      BY DataAssumption
    <2>2. f \in DefinitionFiles(PackageOf[f], name)
      BY DEF DefinitionFiles
    <2>3. QED
      BY <1>1, <2>1, <2>2 DEF SearchedInv
  <1>2. QED
    BY <1>1, IndexAssumption DEF TablesMatchModels

\* A definition search that counts as complete has missed nothing
\* (engine.loadDefinitions caches a search only when every file was loaded).
THEOREM DefinitionsTheorem == Spec => []DefinitionsAreKnown
  BY InitTyped, NextTyped, InitTables, NextTables, InitSearched, NextSearched,
     SearchedKnown, PTL DEF Spec

-----------------------------------------------------------------------------
(* callersFor. *)

LEMMA InitSnapshot == Init => SnapshotSuffices
  BY DEF Init, SnapshotSuffices

LEMMA NextSnapshot ==
  Typed /\ SearchedInv /\ SnapshotSuffices /\ [Next]_vars => SnapshotSuffices'
  <1> SUFFICES ASSUME Typed, SearchedInv, SnapshotSuffices, [Next]_vars,
                      phase' = "resolving"
               PROVE  \A id \in DOMAIN functions' :
                        target' \in functions'[id].calls => functions'[id] \in snapshot'
    BY DEF SnapshotSuffices
  <1>1. CASE LoadFile
    <2>1. PICK f \in request.pending \ models : functions' = WithFunctionsOf(f)
      BY <1>1 DEF LoadFile
    <2>2. f \in Files
      BY <2>1 DEF Typed, RequestType
    <2>3. UNCHANGED <<phase, target, snapshot>>
      BY <1>1 DEF LoadFile
    <2>4. f \notin CallerFiles(NameOf[target])
      BY <2>1, <2>3 DEF SearchedInv
    <2>5. \A fn \in DeclaredIn(f) : target \notin fn.calls
      BY <2>2, <2>4, IndexAssumption DEF CallerFiles
    <2> DEFINE new == {fn.id : fn \in DeclaredIn(f)}
    <2>6. functions' = [id \in DOMAIN functions \cup new |->
              IF id \in new THEN LastDeclared(f, id) ELSE functions[id]]
      BY <2>1 DEF WithFunctionsOf
    <2>7. ASSUME NEW id \in DOMAIN functions', target' \in functions'[id].calls
          PROVE  functions'[id] \in snapshot'
      <3>1. id \notin new
        <4>1. SUFFICES ASSUME id \in new PROVE FALSE
          OBVIOUS
        <4>2. LastDeclared(f, id) \in DeclaredIn(f)
          BY <2>2, <4>1, LastDeclaredType
        <4>3. functions'[id] = LastDeclared(f, id)
          BY <2>6, <4>1
        <4>4. QED
          BY <2>3, <2>5, <2>7, <4>2, <4>3
      <3>2. id \in DOMAIN functions /\ functions'[id] = functions[id]
        BY <2>6, <2>7, <3>1
      <3>3. QED
        BY <2>3, <2>7, <3>2 DEF SnapshotSuffices
    <2>8. QED
      BY <2>7
  <1>2. CASE TakeSnapshot
    BY <1>2 DEF TakeSnapshot, tables
  <1>3. CASE UNCHANGED <<functions, phase, target, snapshot>>
    BY <1>3 DEF SnapshotSuffices
  <1>4. QED
    BY <1>1, <1>2, <1>3
       DEF Next, vars, tables, AskDefinitions, UnitIsCached, StartUnit, FinishUnit,
           AnswerDefinitions, LoadIsCached, LoadFails, AskCallers, FinishCallers,
           FileChanges, Cancel

\* Resolving the calls of a snapshot loads files and changes the functions
\* table under callersFor, but never by a caller the snapshot lacks.
THEOREM SnapshotTheorem == Spec => []SnapshotSuffices
  BY InitTyped, NextTyped, InitSearched, NextSearched, InitSnapshot, NextSnapshot,
     PTL DEF Spec

\* The snapshot holds functions that the table holds or held.
SnapshotIsDeclared == snapshot \subseteq UNION {DeclaredIn(f) : f \in Files}

LEMMA InitDeclared == Init => SnapshotIsDeclared
  BY DEF Init, SnapshotIsDeclared

LEMMA NextDeclared ==
  Typed /\ TablesMatchModels /\ SnapshotIsDeclared /\ [Next]_vars => SnapshotIsDeclared'
  <1> SUFFICES ASSUME Typed, TablesMatchModels, SnapshotIsDeclared, [Next]_vars
               PROVE  SnapshotIsDeclared'
    OBVIOUS
  <1>1. CASE TakeSnapshot
    <2>1. snapshot' = {functions[id] : id \in DOMAIN functions}
      BY <1>1 DEF TakeSnapshot
    <2>2. \A id \in DOMAIN functions : \E f \in Files : functions[id] \in DeclaredIn(f)
      BY DEF Typed, TypeOK, TablesMatchModels
    <2>3. QED
      BY <2>1, <2>2 DEF SnapshotIsDeclared
  <1>2. CASE UNCHANGED snapshot
    BY <1>2 DEF SnapshotIsDeclared
  <1>3. QED
    BY <1>1, <1>2
       DEF Next, vars, AskDefinitions, UnitIsCached, StartUnit, FinishUnit,
           AnswerDefinitions, LoadIsCached, LoadFile, LoadFails, AskCallers,
           FinishCallers, FileChanges, Cancel

\* When the calls of the snapshot are resolved, it holds every caller.
LEMMA CallersFound ==
  ASSUME UniqueFunctionIDs, Typed, TablesMatchModels, SearchedInv, SnapshotSuffices,
         SnapshotIsDeclared, phase = "resolving"
  PROVE  {fn \in snapshot : target \in fn.calls} = AllCallers(target)
  <1>1. ASSUME NEW fn \in AllCallers(target) PROVE fn \in snapshot
    <2>1. PICK f \in Files : fn \in DeclaredIn(f) /\ target \in fn.calls
      BY <1>1 DEF AllCallers
    <2>2. f \in models
      BY <2>1, IndexAssumption DEF SearchedInv, CallerFiles
    <2>3. fn.id \in DOMAIN functions
      BY <2>1, <2>2 DEF TablesMatchModels
    <2>4. PICK g \in models : functions[fn.id] \in DeclaredIn(g)
      BY <2>3 DEF TablesMatchModels
    <2>5. functions[fn.id].id = fn.id
      BY <2>3 DEF TablesMatchModels
    <2>6. g \in Files
      BY DEF Typed, TypeOK
    <2>7. PICK i \in 1..Len(FunctionsOf[f]) : fn = FunctionsOf[f][i]
      BY <2>1 DEF DeclaredIn
    <2>8. PICK j \in 1..Len(FunctionsOf[g]) : functions[fn.id] = FunctionsOf[g][j]
      BY <2>4 DEF DeclaredIn
    <2>9. f = g /\ i = j
      BY <2>5, <2>6, <2>7, <2>8 DEF UniqueFunctionIDs
    <2>10. functions[fn.id] = fn
      BY <2>7, <2>8, <2>9
    <2>11. QED
      BY <2>1, <2>3, <2>10 DEF SnapshotSuffices
  <1>2. QED
    BY <1>1 DEF AllCallers, SnapshotIsDeclared

LEMMA InitCallers == Init => CallersAreComplete
  BY DEF Init, CallersAreComplete

LEMMA NextCallers ==
  ASSUME UniqueFunctionIDs
  PROVE  Typed /\ TablesMatchModels /\ SearchedInv /\ SnapshotSuffices
           /\ SnapshotIsDeclared /\ CallersAreComplete /\ [Next]_vars
         => CallersAreComplete'
  <1> SUFFICES ASSUME Typed, TablesMatchModels, SearchedInv, SnapshotSuffices,
                      SnapshotIsDeclared, CallersAreComplete, [Next]_vars
               PROVE  CallersAreComplete'
    OBVIOUS
  <1>1. CASE FinishCallers
    <2>1. {fn \in snapshot : target \in fn.calls} = AllCallers(target)
      BY <1>1, CallersFound DEF FinishCallers
    <2>2. callerCache' =
            [id \in DOMAIN callerCache \cup {target} |->
                IF id = target THEN {fn \in snapshot : target \in fn.calls}
                               ELSE callerCache[id]]
      BY <1>1 DEF FinishCallers
    <2>3. QED
      BY <2>1, <2>2 DEF CallersAreComplete
  <1>2. CASE UNCHANGED callerCache
    BY <1>2 DEF CallersAreComplete
  <1>3. QED
    BY <1>1, <1>2
       DEF Next, vars, AskDefinitions, UnitIsCached, StartUnit, FinishUnit,
           AnswerDefinitions, LoadIsCached, LoadFile, LoadFails, AskCallers,
           TakeSnapshot, FileChanges, Cancel

\* Where no two functions share an ID, the callers that callersFor caches are
\* those of every file of the workspace, whatever was loaded before and
\* whichever errors were ignored (engine.callersFor, engine.callerCandidates).
THEOREM CallersTheorem ==
  ASSUME UniqueFunctionIDs
  PROVE  Spec => []CallersAreComplete
  BY InitTyped, NextTyped, InitTables, NextTables, InitSearched, NextSearched,
     InitSnapshot, NextSnapshot, InitDeclared, NextDeclared, InitCallers, NextCallers,
     PTL DEF Spec

-----------------------------------------------------------------------------
(* The engine under the search. *)

EngineInv ==
    /\ Typed
    /\ TablesMatchModels
    /\ RequestInv
    /\ SearchedInv
    /\ SnapshotSuffices
    /\ SnapshotIsDeclared

\* Whatever the search does is something the engine may be asked for.
LEMMA StepOfEngine == [AnalysisNext]_analysisVars => [Next]_vars
  <1>1. AnalysisNext => [Next]_vars
    BY DEF AnalysisNext, Progress, AskRoot, AskRootMethod, RootIsChosen, SearchStep, NoticeCancel, VisitIsCancelled,
           CallCallersFor, EngineStep, EngineFails, StartCalls, StartCall, AskMore,
           FinishCall, CallersForReturns, ContextIsCancelled, FileIsEdited, Next
  <1>2. UNCHANGED analysisVars => UNCHANGED vars
    BY DEF analysisVars
  <1>3. QED
    BY <1>1, <1>2

LEMMA InitEngine == AnalysisInit => EngineInv
  BY InitTyped, InitTables, InitSearched, InitSnapshot, InitDeclared
     DEF AnalysisInit, EngineInv

LEMMA NextEngine == EngineInv /\ [AnalysisNext]_analysisVars => EngineInv'
  BY StepOfEngine, NextTyped, NextTables, NextSearched, NextSnapshot, NextDeclared
     DEF EngineInv

-----------------------------------------------------------------------------
(* The search waits for the engine. *)

\* The search stands before a call of callersFor that is not cached.
Waiting ==
    /\ ~Search!Top.entered
    /\ ~Search!TooDeep
    /\ Search!Top.name \notin DOMAIN edgeCache
    /\ ~noticed

WaitInv ==
    /\ AnalysisTypeOK
    /\ input \in Requests
    /\ DOMAIN edgeCache = DOMAIN callerCache
    /\ phase # "resolving" => todo = {} /\ found = {}
    /\ result = "running" =>
        /\ EngineRests \/ Waiting
        /\ phase # "idle" => rooted /\ target = Search!Top.name
        /\ phase = "resolving" => found \subseteq SitesOf(target)
        /\ noticed => ~Search!Top.entered /\ cancelled

LEMMA InitWait == AnalysisInit => WaitInv
  <1> SUFFICES ASSUME AnalysisInit PROVE WaitInv
    OBVIOUS
  <1>1. input \in Requests /\ input.maxDepth \in Int
    BY SitesAssumption DEF AnalysisInit, Search!Init, Search!Input
  <1>2. Search!Top = Search!Frame(input.root, <<>>, 0)
    BY DEF AnalysisInit, Search!Init, Search!Top
  <1>3. ~Search!Top.entered /\ Search!Top.depth = 0
    BY <1>2 DEF Search!Frame
  <1>4. Waiting
    BY <1>1, <1>3 DEF AnalysisInit, Search!Init, Search!TooDeep, Waiting
  <1>5. AnalysisTypeOK
    BY DEF AnalysisInit, Init, Search!Init, AnalysisTypeOK, Running
  <1>6. QED
    BY <1>1, <1>4, <1>5 DEF AnalysisInit, Init, Search!Init, WaitInv

\* The steps of the engine alone leave the phase and the target.
LEMMA EngineStepPhase ==
  ASSUME EngineStep \/ EngineFails \/ AskRoot \/ AskRootMethod \/ StartCall \/ AskMore \/ ContextIsCancelled \/ FileIsEdited
  PROVE  UNCHANGED <<phase, target, snapshot>>
  BY DEF EngineStep, EngineFails, AskRoot, AskRootMethod, StartCall, AskMore, ContextIsCancelled,
         FileIsEdited, FileChanges, AskDefinitions, UnitIsCached, StartUnit, FinishUnit, AnswerDefinitions,
         LoadIsCached, LoadFile, LoadFails, Cancel

\* A step of the engine needs a request.
LEMMA EngineStepRequest ==
  ASSUME EngineStep \/ LoadFails
  PROVE  request # Idle
  <1>1. /\ Idle.kind = "none" /\ Idle.unit = NoUnit
        /\ Idle.pending = {}
    BY DEF Idle
  <1>2. CASE UnitIsCached \/ StartUnit \/ AnswerDefinitions
    BY <1>1, <1>2 DEF UnitIsCached, StartUnit, AnswerDefinitions
  <1>3. CASE FinishUnit
    BY <1>1, <1>3 DEF FinishUnit
  <1>4. CASE LoadIsCached \/ LoadFile \/ LoadFails
    BY <1>1, <1>4 DEF LoadIsCached, LoadFile, LoadFails
  <1>5. QED
    BY <1>2, <1>3, <1>4 DEF EngineStep

\* Nothing that the wait depends on has changed.
LEMMA SameWait ==
  ASSUME UNCHANGED <<input, stack, edgeCache, noticed>>
  PROVE  /\ Waiting' = Waiting
         /\ Search!Top' = Search!Top
         /\ Search!TooDeep' = Search!TooDeep
  BY DEF Waiting, Search!Top, Search!TooDeep

LEMMA NextWait == EngineInv /\ WaitInv /\ [AnalysisNext]_analysisVars => WaitInv'
  <1> SUFFICES ASSUME EngineInv, WaitInv, [AnalysisNext]_analysisVars PROVE WaitInv'
    OBVIOUS
  <1>0. /\ result = "running" => Running
        /\ current = None \/ \E s \in todo : current = <<s>>
        /\ phase # "resolving" => todo = {} /\ current = None
    BY DEF WaitInv, AnalysisTypeOK
  <1>1. CASE AskRoot
    <2>1. ~EngineRests /\ result = "running"
      BY <1>1 DEF AskRoot, EngineRests, Active
    <2>2. Waiting'
      BY <1>1, <2>1, SameWait DEF AskRoot, searching, reported, WaitInv
    <2>3. UNCHANGED <<phase, target, cancelled, outcome, callerCache>>
      BY <1>1 DEF AskRoot, AskDefinitions, environment
    <2>4. candidates' \subseteq Packages
      BY <1>1 DEF AskRoot, WaitInv, AnalysisTypeOK
    <2>5. UNCHANGED <<rooted, todo, current, found>> /\ asked' \in BOOLEAN
      BY <1>1 DEF AskRoot
    <2>6. QED
      BY <1>1, <2>1, <2>2, <2>3, <2>4, <2>5, SameWait
         DEF AskRoot, searching, reported, WaitInv, AnalysisTypeOK, Running
  <1>2. CASE SearchStep
    <2>1. EngineRests /\ EngineRests' /\ phase' = "idle"
      BY <1>2 DEF SearchStep, vars, rooting, EngineRests
    <2>2. input' = input /\ noticed' = noticed
      BY <1>2 DEF SearchStep, Search!VisitTooDeep, Search!VisitCallers, Search!SkipDuplicate,
             Search!AddLeaf, Search!Descend, Search!LoopEnds
    <2>3. result' \in {"running", "done"}
      BY <1>2 DEF SearchStep, Active, Search!VisitTooDeep, Search!VisitCallers,
             Search!SkipDuplicate, Search!AddLeaf, Search!Descend, Search!LoopEnds,
             Search!Return
    <2>4. ~noticed
      BY <1>2 DEF SearchStep, Active, Search!VisitTooDeep, Search!VisitCallers,
             WaitInv, Search!SkipDuplicate, Search!InLoop, Search!AddLeaf, Search!Descend,
             Search!LoopEnds
    <2>5. DOMAIN edgeCache' = DOMAIN edgeCache
      BY <1>2 DEF SearchStep, Search!VisitTooDeep, Search!VisitCallers, Search!SkipDuplicate,
             Search!AddLeaf, Search!Descend, Search!LoopEnds
    <2>6. QED
      BY <1>2, <2>1, <2>2, <2>3, <2>4, <2>5
         DEF SearchStep, vars, rooting, resolving, Active, WaitInv, AnalysisTypeOK, Running, EngineRests
  <1>3. CASE NoticeCancel
    BY <1>3, SameWait
       DEF NoticeCancel, vars, rooting, resolving, reported, Active, EngineRests, WaitInv,
           AnalysisTypeOK, Running, Search!Top
  <1>4. CASE VisitIsCancelled
    BY <1>4 DEF VisitIsCancelled, vars, resolving, reported, WaitInv, rooting, AnalysisTypeOK
  <1>5. CASE CallCallersFor
    <2>1. ~noticed /\ rooted /\ phase = "idle" /\ result = "running"
      BY <1>5 DEF CallCallersFor, EngineRests, Active, WaitInv
    <2>2. phase' = "candidates" /\ UNCHANGED <<cancelled, outcome>>
      BY <1>5 DEF CallCallersFor, AskCallers, environment
    <2>3. Search!Top.name \notin DOMAIN edgeCache /\ callerCache' = callerCache
      BY <1>5 DEF CallCallersFor, AskCallers, WaitInv
    <2>4. QED
      BY <1>5, <2>1, <2>2, <2>3, SameWait
         DEF CallCallersFor, resolving, searching, reported, WaitInv, rooting, AnalysisTypeOK,
             Running, Waiting
  <1>6. CASE EngineStep
    <2>1. ~EngineRests /\ UNCHANGED <<phase, target, cancelled, outcome, callerCache>>
      BY <1>6, EngineStepRequest, EngineStepPhase
         DEF EngineStep, EngineRests, UnitIsCached, StartUnit, FinishUnit, AnswerDefinitions,
             LoadIsCached, LoadFile, environment
    <2>2. QED
      BY <1>6, <2>1, SameWait
         DEF EngineStep, resolving, searching, reported, WaitInv, rooting, AnalysisTypeOK, Running
  <1>7. CASE EngineFails
    <2>1. ~EngineRests
      BY <1>7, EngineStepRequest DEF EngineFails, EngineRests
    <2>2. UNCHANGED <<phase, target, cancelled, callerCache>>
      BY <1>7 DEF EngineFails, LoadFails, environment
    <2>3. result' = "running" => outcome' = "running"
      BY <1>7 DEF EngineFails, LoadFails
    <2>4. result' \in {"running", "failed"}
      BY <1>7 DEF EngineFails, Active
    <2>5. QED
      BY <1>7, <2>1, <2>2, <2>3, <2>4, SameWait
         DEF EngineFails, Active, resolving, reported, WaitInv, rooting, AnalysisTypeOK, Running
  <1>8. CASE StartCalls
    <2>1. ~EngineRests /\ phase = "candidates" /\ phase' = "resolving" /\ ~EngineRests'
      BY <1>8 DEF StartCalls, TakeSnapshot, EngineRests
    <2>2. UNCHANGED <<target, cancelled, outcome, callerCache>>
      BY <1>8 DEF StartCalls, TakeSnapshot, environment
    <2>3. todo' \subseteq CallSites
      BY <1>8 DEF StartCalls, SitesIn
    <2>4. QED
      BY <1>0, <1>8, <2>1, <2>2, <2>3, SameWait
         DEF StartCalls, searching, reported, WaitInv, rooting, AnalysisTypeOK, Running
  <1>9. CASE StartCall
    <2>1. UNCHANGED <<phase, target, cancelled, outcome, callerCache>>
      BY <1>9 DEF StartCall, AskDefinitions, environment
    <2>2. phase = "resolving" /\ \E s \in todo : current' = <<s>>
      BY <1>0, <1>9 DEF StartCall
    <2>3. QED
      BY <1>9, <2>1, <2>2, SameWait
         DEF StartCall, searching, reported, WaitInv, rooting, AnalysisTypeOK,
             Running, EngineRests
  <1>10. CASE AskMore
    <2>1. UNCHANGED <<phase, target, cancelled, outcome, callerCache>>
      BY <1>10 DEF AskMore, AskDefinitions, environment
    <2>2. phase = "resolving"
      BY <1>0, <1>10 DEF AskMore
    <2>3. QED
      BY <1>10, <2>1, <2>2, SameWait
         DEF AskMore, searching, reported, WaitInv, rooting, AnalysisTypeOK,
             Running, EngineRests
  <1>11. CASE FinishCall
    <2>1. PICK s \in todo : current = <<s>>
      BY <1>0, <1>11 DEF FinishCall
    <2>2. current[1] = s /\ s \in CallSites
      BY <2>1 DEF WaitInv, AnalysisTypeOK
    <2>3. found' \subseteq CallSites /\ (found \subseteq SitesOf(target) => found' \subseteq SitesOf(target))
      BY <1>11, <2>2 DEF FinishCall, SitesOf, WaitInv, AnalysisTypeOK
    <2>4. QED
      BY <1>11, <2>3, SameWait
         DEF FinishCall, vars, searching, reported, WaitInv, rooting, AnalysisTypeOK,
             Running, EngineRests
  <1>12. CASE CallersForReturns
    <2>1. phase = "resolving" /\ phase' = "idle" /\ request = Idle /\ result = "running"
      BY <1>12 DEF CallersForReturns, FinishCallers, Active
    <2>2. UNCHANGED <<cancelled, outcome, request>> /\ current = None /\ todo = {}
      BY <1>0, <1>12 DEF CallersForReturns, FinishCallers, environment
    <2>3. EngineRests' /\ ~noticed
      BY <1>12, <2>1, <2>2 DEF CallersForReturns, rooting, EngineRests, WaitInv, Waiting
    <2>4. DOMAIN edgeCache' = DOMAIN edgeCache \cup {target}
      BY <1>12 DEF CallersForReturns
    <2>5. DOMAIN callerCache' = DOMAIN callerCache \cup {target}
      BY <1>12 DEF CallersForReturns, FinishCallers
    <2>6. QED
      BY <1>12, <2>1, <2>2, <2>3, <2>4, <2>5
         DEF CallersForReturns, reported, WaitInv, rooting, AnalysisTypeOK, Running
  <1>13. CASE ContextIsCancelled
    <2>1. UNCHANGED <<phase, target, request, outcome, callerCache>> /\ cancelled'
      BY <1>13 DEF ContextIsCancelled, Cancel, tables
    <2>2. QED
      BY <1>13, <2>1, SameWait
         DEF ContextIsCancelled, resolving, searching, reported, WaitInv, rooting, AnalysisTypeOK,
             Running, EngineRests
  <1>14. CASE FileIsEdited
    <2>1. UNCHANGED <<phase, target, request, outcome, callerCache, cancelled>>
      BY <1>14 DEF FileIsEdited, FileChanges, tables
    <2>2. QED
      BY <1>14, <2>1, SameWait
         DEF FileIsEdited, resolving, searching, reported, WaitInv, rooting, AnalysisTypeOK,
             Running, EngineRests
  <1>15. CASE UNCHANGED analysisVars
    BY <1>15, SameWait
       DEF analysisVars, vars, resolving, searching, reported, WaitInv, rooting, AnalysisTypeOK,
           Running, EngineRests, environment
  <1>16. CASE AskRootMethod
    <2>1. ~EngineRests /\ result = "running"
      BY <1>16 DEF AskRootMethod, EngineRests, Active
    <2>2. Waiting'
      BY <1>16, <2>1, SameWait DEF AskRootMethod, searching, reported, WaitInv
    <2>3. UNCHANGED <<phase, target, cancelled, outcome, callerCache>>
      BY <1>16 DEF AskRootMethod, AskDefinitions, environment
    <2>4. QED
      BY <1>16, <2>1, <2>2, <2>3, SameWait
         DEF AskRootMethod, rooting, searching, reported, WaitInv, AnalysisTypeOK, Running
  <1>17. CASE RootIsChosen
    <2>1. ~EngineRests /\ result = "running" /\ phase = "idle"
      BY <1>17 DEF RootIsChosen, EngineRests, Active, WaitInv
    <2>2. Waiting'
      BY <1>17, <2>1, SameWait DEF RootIsChosen, searching, reported, WaitInv
    <2>3. QED
      BY <1>17, <2>1, <2>2, SameWait
         DEF RootIsChosen, vars, resolving, searching, reported, WaitInv, rooting, AnalysisTypeOK, Running
  <1>18. QED
    BY <1>1, <1>2, <1>3, <1>4, <1>5, <1>6, <1>7, <1>8, <1>9, <1>10, <1>11, <1>12,
       <1>13, <1>14, <1>15, <1>16, <1>17 DEF AnalysisNext, Progress

\* In every state of an analysis the variables have their types, and an error
\* that is not dropped has ended the search (AnalyzeWithPolicy).
THEOREM AnalysisTypeCorrect == AnalysisSpec => []AnalysisTypeOK
  <1>1. WaitInv => AnalysisTypeOK
    BY DEF WaitInv
  <1>2. QED
    BY <1>1, InitEngine, NextEngine, InitWait, NextWait, PTL DEF AnalysisSpec

\* The search stands still while callersFor works, and callersFor collects only
\* calls of the symbol that is visited (engine.callersFor, visit).
THEOREM WaitTheorem == AnalysisSpec => []SearchWaits
  <1>1. WaitInv => SearchWaits
    BY DEF WaitInv, SearchWaits, EngineRests, Waiting
  <1>2. QED
    BY <1>1, InitEngine, NextEngine, InitWait, NextWait, PTL DEF AnalysisSpec

-----------------------------------------------------------------------------
(* callersFor finds the calls of the whole workspace. *)

\* Each call of the target in the snapshot is found or is still to be resolved.
FoundInv ==
    phase = "resolving" =>
        \A fn \in snapshot : SitesIn(fn) \cap SitesOf(target) \subseteq todo \cup found

LEMMA InitFound == AnalysisInit => FoundInv
  BY DEF AnalysisInit, Init, FoundInv

\* NameOf[s.callee] = NameOf[target] holds of every call of the target.
LEMMA NextFound ==
  WaitInv /\ FoundInv /\ [AnalysisNext]_analysisVars => FoundInv'
  <1> SUFFICES ASSUME WaitInv, FoundInv, [AnalysisNext]_analysisVars, phase' = "resolving",
                      NEW fn \in snapshot', NEW s \in SitesIn(fn), s.callee = target'
               PROVE  s \in todo' \cup found'
    BY DEF FoundInv, SitesIn, SitesOf
  <1>1. CASE StartCalls
    <2>1. target' = target
      BY <1>1 DEF StartCalls, TakeSnapshot
    <2>2. QED
      BY <1>1, <2>1 DEF StartCalls
  <1>2. CASE FinishCall
    <2>1. UNCHANGED <<phase, target, snapshot>>
      BY <1>2 DEF FinishCall, vars
    <2>2. s \in todo \cup found
      BY <2>1 DEF FoundInv, SitesIn, SitesOf
    <2>3. PICK t \in todo : current = <<t>>
      BY <1>2 DEF FinishCall, WaitInv, AnalysisTypeOK
    <2>4. current[1] = t
      BY <2>3
    <2>5. QED
      BY <1>2, <2>1, <2>2, <2>4 DEF FinishCall
  <1>3. CASE UNCHANGED <<phase, target, snapshot, todo, found>>
    BY <1>3 DEF FoundInv, SitesIn, SitesOf
  <1>4. CASE \/ EngineStep \/ EngineFails \/ AskRoot \/ AskRootMethod \/ StartCall
             \/ AskMore \/ ContextIsCancelled \/ FileIsEdited
    BY <1>3, <1>4, EngineStepPhase
       DEF EngineStep, EngineFails, AskRoot, AskRootMethod, StartCall, AskMore, ContextIsCancelled,
           FileIsEdited, resolving
  <1>5. CASE CallCallersFor \/ CallersForReturns
    BY <1>5 DEF CallCallersFor, AskCallers, CallersForReturns, FinishCallers
  <1>6. QED
    BY <1>1, <1>2, <1>3, <1>4, <1>5
       DEF AnalysisNext, Progress, RootIsChosen, SearchStep, NoticeCancel, VisitIsCancelled,
           analysisVars, vars, resolving

\* When every call is resolved, the edges are those of every call of the symbol
\* in the workspace.
LEMMA AllFound ==
  ASSUME UniqueFunctionIDs, EngineInv, WaitInv, FoundInv,
         result = "running", phase = "resolving", todo = {}
  PROVE  found = SitesOf(target)
  <1>1. {fn \in snapshot : target \in fn.calls} = AllCallers(target)
    BY CallersFound DEF EngineInv
  <1>2. ASSUME NEW s \in SitesOf(target) PROVE s \in found
    <2>1. s \in CallSites /\ s.callee = target
      BY DEF SitesOf
    <2>2. PICK f \in Files : \E fn \in DeclaredIn(f) : fn.id = s.caller
      BY <2>1, SitesAssumption
    <2>3. PICK fn \in DeclaredIn(f) : fn.id = s.caller
      BY <2>2
    <2>4. s \in SitesIn(fn)
      BY <2>1, <2>3 DEF SitesIn
    <2>5. target \in fn.calls
      BY <2>1, <2>4, SitesAssumption
    <2>6. fn \in snapshot
      BY <1>1, <2>5 DEF AllCallers
    <2>7. QED
      BY <2>4, <2>6 DEF FoundInv
  <1>3. QED
    BY <1>2 DEF WaitInv

-----------------------------------------------------------------------------
(* The analysis implements the search. *)

\* The steps of the engine that are no step of the search leave it as it is.
LEMMA StepImplementsSearch ==
  ASSUME UniqueFunctionIDs
  PROVE  EngineInv /\ WaitInv /\ FoundInv /\ [AnalysisNext]_analysisVars
         => [Search!Next]_(Search!vars)
  <1> SUFFICES ASSUME EngineInv, WaitInv, FoundInv, [AnalysisNext]_analysisVars
               PROVE  Search!Next \/ UNCHANGED Search!vars
    OBVIOUS
  <1>1. CASE SearchStep
    BY <1>1 DEF SearchStep, Search!Next, Search!Search
  <1>2. CASE NoticeCancel
    BY <1>2 DEF NoticeCancel, Active, Search!Cancel, Search!Next, reported
  <1>3. CASE VisitIsCancelled
    BY <1>3 DEF VisitIsCancelled, Active, WaitInv, Search!VisitFails, Search!Next,
           Search!Search, reported
  <1>4. CASE EngineFails
    <2>1. Waiting /\ result = "running"
      BY <1>4, EngineStepRequest DEF EngineFails, EngineRests, WaitInv, Active
    <2>2. CASE request.tolerant
      BY <1>4, <2>2 DEF EngineFails, Search!vars, reported
    <2>3. CASE ~request.tolerant
      BY <1>4, <2>1, <2>3 DEF EngineFails, Waiting, Search!VisitFails, Search!Next,
             Search!Search, reported
    <2>4. QED
      BY <2>2, <2>3
  <1>5. CASE CallersForReturns
    <2>1. phase = "resolving" /\ result = "running" /\ todo = {}
      BY <1>5 DEF CallersForReturns, FinishCallers, Active
    <2>2. Waiting /\ target = Search!Top.name
      BY <2>1 DEF WaitInv, EngineRests
    <2>3. found = SitesOf(target)
      BY <2>1, AllFound
    <2>4. input.sites = CallSites
      BY SitesAssumption DEF WaitInv
    <2>5. Search!CallersOf(Search!Top.name) = found
      BY <2>2, <2>3, <2>4 DEF Search!CallersOf, Search!SitesOf, SitesOf, Waiting
    <2>6. Search!VisitCallers
      BY <1>5, <2>1, <2>2, <2>5 DEF CallersForReturns, Waiting, Search!VisitCallers, reported
    <2>7. QED
      BY <2>6 DEF Search!Next, Search!Search
  <1>6. CASE UNCHANGED searching
    BY <1>6 DEF searching, reported, Search!vars
  <1>7. QED
    BY <1>1, <1>2, <1>3, <1>4, <1>5, <1>6
       DEF AnalysisNext, Progress, AskRoot, AskRootMethod, RootIsChosen, CallCallersFor, EngineStep, StartCalls,
           StartCall, AskMore, FinishCall, ContextIsCancelled, FileIsEdited,
           analysisVars

\* Where no two functions share an ID, the lazy analysis does what the search
\* does with callersFor as one step that knows every call of the workspace: files
\* that are loaded late, answers from the cache, dropped errors, failures and a
\* cancellation change nothing (AnalyzeWithPolicy, engine.callersFor).
THEOREM AnalysisImplementsSearch ==
  ASSUME UniqueFunctionIDs
  PROVE  AnalysisSpec => Search!Init /\ [][Search!Next]_(Search!vars)
  <1>1. AnalysisInit => Search!Init
    BY DEF AnalysisInit
  <1>2. QED
    BY <1>1, InitEngine, NextEngine, InitWait, NextWait, InitFound, NextFound,
       StepImplementsSearch, PTL DEF AnalysisSpec

=============================================================================
