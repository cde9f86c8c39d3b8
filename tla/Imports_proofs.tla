--------------------------- MODULE Imports_proofs ---------------------------
(***************************************************************************)
(* Proofs about Imports, for every workspace: a package is selected only   *)
(* where it is the nearest one, a known series connects, and a replacement *)
(* of the required version wins.  The argument: after any number of turns  *)
(* the loops know what is true of the packages they have been through.     *)
(***************************************************************************)
EXTENDS Imports, Indices, SequenceTheorems, TLAPS

-----------------------------------------------------------------------------
(* The inductive invariant. *)

ChoiceType == [selected : Nat, best : Nat, count : Nat]

TypeOK ==
    /\ modules \in Workspaces
    /\ series \in Seq(Majors \cup {None})
    /\ selections \in Seq([Paths -> Nat])
    /\ aliases \in Seq([Paths -> Nat])
    /\ Len(aliases) = Len(selections)
    /\ Len(series) <= Count
    /\ Len(selections) # 0 => Len(series) = Count
    /\ considered \in 0..Count
    /\ choices \in [Paths -> ChoiceType]
    /\ leads \in [Paths -> Nat]

\* The series that the paths and the go.mod files give to module m.
SeriesOf(m) ==
    IF MajorOfPath[modules[m].path] # None THEN MajorOfPath[modules[m].path]
    ELSE IF \E v \in Majors : RequiredMajors(m) = {v}
         THEN CHOOSE v \in RequiredMajors(m) : TRUE
    ELSE None

SeriesInv == \A m \in 1..Len(series) : series[m] = SeriesOf(m)

\* The first n packages that have the path, and those of them nearest to module c.
Candidates(p, n) == {m \in 1..n : modules[m].path = p}

Nearest(c, p, n) ==
    {m \in Candidates(p, n) : \A k \in Candidates(p, n) : Rank(c, k) <= Rank(c, m)}

\* A choice knows one of the nearest packages, and whether it is the only one.
IsNearest(choice, c, p, n) ==
    \/ /\ Candidates(p, n) = {}
       /\ choice = NoChoice
    \/ /\ choice.selected \in Nearest(c, p, n)
       /\ choice.best = Rank(c, choice.selected)
       /\ choice.count >= 1
       /\ choice.count = 1 <=> Nearest(c, p, n) = {choice.selected}

IsOnlyNearest(selected, c, p) ==
    IF \E m \in 1..Count : Nearest(c, p, Count) = {m}
    THEN Nearest(c, p, Count) = {selected}
    ELSE selected = 0

ChoicesInv ==
    /\ \A p \in Paths : IsNearest(choices[p], Len(selections) + 1, p, considered)
    /\ \A c \in 1..Len(selections), p \in Paths : IsOnlyNearest(selections[c][p], c, p)

\* The replaces of module c lead from path p to package m.
LeadsTo(c, p, m) == Replaces(c, p) /\ requireTargetsModule(c, p, m)

\* The last one of the first n packages to which they lead, or 0.
IsLastLead(lead, c, p, n) ==
    \/ lead = 0 /\ \A m \in 1..n : ~LeadsTo(c, p, m)
    \/ /\ lead \in 1..n
       /\ LeadsTo(c, p, lead)
       /\ \A m \in (lead + 1)..n : ~LeadsTo(c, p, m)

LeadsInv ==
    /\ \A p \in Paths : IsLastLead(leads[p], Len(selections) + 1, p, considered)
    /\ \A c \in 1..Len(aliases), p \in Paths : IsLastLead(aliases[c][p], c, p, Count)

IInv == TypeOK /\ SeriesInv /\ ChoicesInv /\ LeadsInv

-----------------------------------------------------------------------------
(* What depends on the go.mod files alone does not change. *)

LEMMA ModuleTypes ==
    ASSUME modules \in Workspaces
    PROVE  /\ Count \in Nat
           /\ modules \in Seq(Module(Count))
           /\ \A m \in 1..Count :
                /\ modules[m] \in Module(Count)
                /\ modules[m].path \in Paths
                /\ modules[m].requires \in [Paths -> Versions \cup {None}]
                /\ modules[m].replaces \in [Paths -> Seq(Replacement(Count))]
  <1>1. modules \in Seq(Module(Len(modules)))
    BY ImportsAssumption
  <1>2. Count \in Nat /\ modules \in Seq(Module(Count))
    BY <1>1, LenProperties DEF Count
  <1>3. ASSUME NEW m \in 1..Count PROVE modules[m] \in Module(Count)
    BY <1>2, <1>3, ElementOfSeq DEF Count
  <1>4. QED
    BY <1>2, <1>3 DEF Module

LEMMA RanksAreNumbers ==
    \A c, m \in Nat : Rank(c, m) \in 1..3
  BY DEF Rank

\* A step that leaves the modules alone leaves alone what is read off them.
LEMMA ModulesDecide ==
    ASSUME UNCHANGED modules
    PROVE  /\ Count' = Count
           /\ \A m : SeriesOf(m)' = SeriesOf(m)
           /\ \A p, n : Candidates(p, n)' = Candidates(p, n)
           /\ \A c, p, n : Nearest(c, p, n)' = Nearest(c, p, n)
           /\ \A choice, c, p, n : IsNearest(choice, c, p, n)' = IsNearest(choice, c, p, n)
           /\ \A selected, c, p : IsOnlyNearest(selected, c, p)' = IsOnlyNearest(selected, c, p)
           /\ \A c, p, m : LeadsTo(c, p, m)' = LeadsTo(c, p, m)
           /\ \A lead, c, p, n : IsLastLead(lead, c, p, n)' = IsLastLead(lead, c, p, n)
  <1>1. Count' = Count
    BY DEF Count
  <1>2. \A c, p : selectedReplacement(c, p)' = selectedReplacement(c, p)
    BY DEF selectedReplacement, ReplacementsOf, Requires
  <1>3. \A c, p, m : requireTargetsModule(c, p, m)' = requireTargetsModule(c, p, m)
    BY <1>2 DEF requireTargetsModule
  <1>4. \A c, p : VersionOf(c, p)' = VersionOf(c, p)
    BY <1>2 DEF VersionOf
  <1>5. \A m : RequiredMajors(m)' = RequiredMajors(m)
    BY <1>1, <1>3, <1>4 DEF RequiredMajors, RequiresOf, Requires
  <1>6. \A m : SeriesOf(m)' = SeriesOf(m)
    BY <1>5 DEF SeriesOf
  <1>7. \A p, n : Candidates(p, n)' = Candidates(p, n)
    BY DEF Candidates
  <1>8. \A c, m : Rank(c, m)' = Rank(c, m)
    BY <1>3 DEF Rank, Requires, Replaces
  <1>9. \A c, p, n : Nearest(c, p, n)' = Nearest(c, p, n)
    BY <1>7, <1>8 DEF Nearest
  <1>10. \A choice, c, p, n : IsNearest(choice, c, p, n)' = IsNearest(choice, c, p, n)
    BY <1>7, <1>8, <1>9 DEF IsNearest
  <1>11. \A selected, c, p : IsOnlyNearest(selected, c, p)' = IsOnlyNearest(selected, c, p)
    BY <1>1, <1>9 DEF IsOnlyNearest
  <1>12. \A c, p, m : LeadsTo(c, p, m)' = LeadsTo(c, p, m)
    BY <1>3 DEF LeadsTo, Replaces
  <1>13. \A lead, c, p, n : IsLastLead(lead, c, p, n)' = IsLastLead(lead, c, p, n)
    BY <1>12 DEF IsLastLead
  <1>14. QED
    BY <1>1, <1>6, <1>7, <1>9, <1>10, <1>11, <1>12, <1>13

-----------------------------------------------------------------------------
(* The turns of the loops. *)

LEMMA ImportPackageType ==
    ASSUME NEW c \in Nat, NEW m \in Nat, NEW choice \in ChoiceType
    PROVE  importPackage(c, m, choice) \in ChoiceType
  <1>1. Rank(c, m) \in Nat
    BY RanksAreNumbers
  <1>2. QED
    BY <1>1 DEF importPackage, ChoiceType

\* A package of another path changes nothing for this one.
LEMMA OtherPaths ==
    ASSUME NEW c, NEW p, NEW choice, NEW m \in Nat \ {0}, modules[m].path # p,
           IsNearest(choice, c, p, m - 1)
    PROVE  IsNearest(choice, c, p, m)
  <1>1. Candidates(p, m) = Candidates(p, m - 1)
    BY DEF Candidates
  <1>2. Nearest(c, p, m) = Nearest(c, p, m - 1)
    BY <1>1 DEF Nearest
  <1>3. QED
    BY <1>1, <1>2 DEF IsNearest

\* A turn of importPackage: afterwards the choice is a nearest package of those that
\* had their turn, and it is counted once exactly if it is the only one.
LEMMA TurnKeepsNearest ==
    ASSUME NEW c \in Nat, NEW p, NEW choice \in ChoiceType,
           NEW m \in Nat \ {0}, modules[m].path = p,
           IsNearest(choice, c, p, m - 1)
    PROVE  IsNearest(importPackage(c, m, choice), c, p, m)
  <1> DEFINE before == Candidates(p, m - 1)
             after == importPackage(c, m, choice)
  <1>1. /\ Candidates(p, m) = before \cup {m}
        /\ m \notin before
        /\ before \subseteq Nat
    BY DEF Candidates
  <1>2. \A k \in Nat : Rank(c, k) \in 1..3
    BY RanksAreNumbers
  <1>3. CASE before = {}
    <2>1. choice = NoChoice
      BY <1>3 DEF IsNearest, Nearest
    <2>2. after = [selected |-> m, best |-> Rank(c, m), count |-> 1]
      BY <2>1, <1>2 DEF importPackage, NoChoice
    <2>3. Nearest(c, p, m) = {m}
      BY <1>1, <1>2, <1>3 DEF Nearest
    <2>4. QED
      BY <2>2, <2>3 DEF IsNearest
  <1>4. CASE before # {}
    <2>1. /\ choice.selected \in before
          /\ \A k \in before : Rank(c, k) <= Rank(c, choice.selected)
          /\ choice.best = Rank(c, choice.selected)
          /\ choice.count >= 1
          /\ choice.count = 1 <=> Nearest(c, p, m - 1) = {choice.selected}
      BY <1>4 DEF IsNearest, Nearest
    <2>2. CASE Rank(c, m) > choice.best
      <3>1. after = [selected |-> m, best |-> Rank(c, m), count |-> 1]
        BY <2>2 DEF importPackage
      <3>2. Nearest(c, p, m) = {m}
        BY <1>1, <1>2, <2>1, <2>2 DEF Nearest
      <3>3. QED
        BY <3>1, <3>2 DEF IsNearest
    <2>3. CASE Rank(c, m) = choice.best
      <3>1. /\ after.selected = choice.selected
            /\ after.best = choice.best
            /\ after.count = choice.count + 1
        BY <2>3, <1>2 DEF importPackage, ChoiceType
      <3>2. {choice.selected, m} \subseteq Nearest(c, p, m)
        BY <1>1, <1>2, <2>1, <2>3 DEF Nearest
      <3>3. after.count # 1 /\ after.count >= 1
        BY <3>1, <2>1 DEF ChoiceType
      <3>4. Nearest(c, p, m) # {after.selected}
        BY <3>1, <3>2, <2>1, <1>1
      <3>5. QED
        BY <3>1, <3>2, <3>3, <3>4, <2>1 DEF IsNearest
    <2>4. CASE Rank(c, m) < choice.best
      <3>1. after = choice
        BY <2>4, <1>2, <2>1, <1>1 DEF importPackage
      <3>2. Nearest(c, p, m) = Nearest(c, p, m - 1)
        BY <1>1, <1>2, <2>1, <2>4 DEF Nearest
      <3>3. choice.selected \in Nearest(c, p, m - 1)
        BY <2>1 DEF Nearest
      <3>4. QED
        BY <3>1, <3>2, <3>3, <2>1 DEF IsNearest
    <2>5. QED
      BY <2>2, <2>3, <2>4, <2>1, <1>1, <1>2
  <1>5. QED
    BY <1>3, <1>4

\* A turn of the loop over the packages for the aliases.
LEMMA TurnKeepsLastLead ==
    ASSUME NEW c, NEW p, NEW lead \in Nat, NEW m \in Nat \ {0},
           IsLastLead(lead, c, p, m - 1)
    PROVE  IsLastLead(IF LeadsTo(c, p, m) THEN m ELSE lead, c, p, m)
  <1>1. CASE LeadsTo(c, p, m)
    BY <1>1 DEF IsLastLead
  <1>2. CASE ~LeadsTo(c, p, m)
    <2>1. \A k \in 1..m : k = m \/ k \in 1..(m - 1)
      OBVIOUS
    <2>2. CASE lead = 0 /\ \A k \in 1..(m - 1) : ~LeadsTo(c, p, k)
      BY <1>2, <2>1, <2>2 DEF IsLastLead
    <2>3. CASE /\ lead \in 1..(m - 1)
               /\ LeadsTo(c, p, lead)
               /\ \A k \in (lead + 1)..(m - 1) : ~LeadsTo(c, p, k)
      <3>1. \A k \in (lead + 1)..m : ~LeadsTo(c, p, k)
        <4>1. \A k \in (lead + 1)..m : k = m \/ k \in (lead + 1)..(m - 1)
          BY <2>3
        <4>2. QED
          BY <1>2, <2>3, <4>1
      <3>2. QED
        BY <1>2, <2>3, <3>1 DEF IsLastLead
    <2>4. QED
      BY <2>2, <2>3 DEF IsLastLead
  <1>3. QED
    BY <1>1, <1>2

-----------------------------------------------------------------------------
(* The actions. *)

LEMMA InitInvariant == Init => IInv
  <1> SUFFICES ASSUME Init PROVE IInv
    OBVIOUS
  <1>1. Count \in Nat
    BY ModuleTypes DEF Init
  <1>2. TypeOK
    BY <1>1, EmptySeq DEF Init, TypeOK, ChoiceType, NoChoice
  <1>3. Len(series) = 0 /\ Len(selections) = 0 /\ Len(aliases) = 0
    BY DEF Init
  <1>4. SeriesInv
    BY <1>3 DEF SeriesInv
  <1>5. \A p \in Paths : Candidates(p, considered) = {}
    BY DEF Init, Candidates
  <1>6. ChoicesInv
    BY <1>3, <1>5 DEF Init, ChoicesInv, IsNearest
  <1>7. LeadsInv
    BY <1>3 DEF Init, LeadsInv, IsLastLead
  <1>8. QED
    BY <1>2, <1>4, <1>6, <1>7 DEF IInv

LEMMA SeriesType ==
    ASSUME TypeOK, NEW m \in 1..Count
    PROVE  SeriesOf(m) \in Majors \cup {None}
  <1>1. modules[m].path \in Paths
    BY ModuleTypes DEF TypeOK
  <1>2. MajorOfPath[modules[m].path] \in Majors \cup {None}
    BY <1>1, ImportsAssumption
  <1>3. QED
    BY <1>2 DEF SeriesOf

LEMMA AssignKeeps == IInv /\ AssignSeries => IInv'
  <1> SUFFICES ASSUME IInv, AssignSeries PROVE IInv'
    OBVIOUS
  <1> USE DEF IInv
  <1>1. UNCHANGED <<modules, selections, aliases, considered, choices, leads>>
    BY DEF AssignSeries
  <1>2. /\ Len(series) + 1 \in 1..Count
        /\ series' = Append(series, SeriesOf(Len(series) + 1))
    BY DEF AssignSeries, SeriesOf, TypeOK
  <1>3. SeriesOf(Len(series) + 1) \in Majors \cup {None}
    BY <1>2, SeriesType
  <1>4. /\ series' \in Seq(Majors \cup {None})
        /\ Len(series') = Len(series) + 1
        /\ \A m \in 1..Len(series) : series'[m] = series[m]
        /\ series'[Len(series) + 1] = SeriesOf(Len(series) + 1)
    BY <1>2, <1>3, AppendProperties DEF TypeOK
  <1>5. TypeOK'
    <2>1. Len(selections) = 0
      BY <1>2 DEF TypeOK
    <2>2. QED
      BY <1>1, <1>2, <1>4, <2>1 DEF TypeOK, Count
  <1>6. SeriesInv'
    BY <1>1, <1>2, <1>4, ModulesDecide DEF SeriesInv, TypeOK
  <1>7. ChoicesInv'
    BY <1>1, ModulesDecide DEF ChoicesInv
  <1>8. LeadsInv'
    BY <1>1, ModulesDecide DEF LeadsInv
  <1>9. QED
    BY <1>5, <1>6, <1>7, <1>8

LEMMA ConsiderKeeps == IInv /\ ConsiderPackage => IInv'
  <1> SUFFICES ASSUME IInv, ConsiderPackage PROVE IInv'
    OBVIOUS
  <1> DEFINE c == Len(selections) + 1
             m == considered + 1
             path == modules[m].path
  <1>1. UNCHANGED <<modules, series, selections, aliases>>
    BY DEF ConsiderPackage
  <1>2. /\ c \in 1..Count
        /\ m \in 1..Count
        /\ considered' = m
        /\ choices' = [choices EXCEPT ![path] = importPackage(c, m, choices[path])]
        /\ leads' = [p \in Paths |-> IF LeadsTo(c, p, m) THEN m ELSE leads[p]]
    BY DEF ConsiderPackage, LeadsTo, IInv, TypeOK
  <1>3. path \in Paths
    BY <1>2, ModuleTypes DEF IInv, TypeOK
  <1>4. TypeOK'
    <2>1. choices' \in [Paths -> ChoiceType]
      BY <1>2, <1>3, ImportPackageType DEF IInv, TypeOK
    <2>2. leads' \in [Paths -> Nat]
      BY <1>2 DEF IInv, TypeOK
    <2>3. QED
      BY <1>1, <1>2, <2>1, <2>2 DEF IInv, TypeOK, Count
  <1>5. SeriesInv'
    BY <1>1, ModulesDecide DEF IInv, SeriesInv
  <1>6. ChoicesInv'
    <2>1. ASSUME NEW p \in Paths PROVE IsNearest(choices'[p], c, p, m)
      <3>1. IsNearest(choices[p], c, p, m - 1) /\ choices[p] \in ChoiceType
        BY <1>2 DEF IInv, ChoicesInv, TypeOK
      <3>2. CASE p = path
        <4>1. choices'[p] = importPackage(c, m, choices[p])
          BY <1>2, <3>2, <1>3 DEF IInv, TypeOK
        <4>2. QED
          BY <4>1, <3>1, <3>2, <1>2, TurnKeepsNearest
      <3>3. CASE p # path
        <4>1. choices'[p] = choices[p]
          BY <1>2, <3>3 DEF IInv, TypeOK
        <4>2. QED
          BY <4>1, <3>1, <3>3, <1>2, OtherPaths
      <3>4. QED
        BY <3>2, <3>3
    <2>2. QED
      BY <2>1, <1>1, <1>2, ModulesDecide DEF IInv, ChoicesInv
  <1>7. LeadsInv'
    <2>1. ASSUME NEW p \in Paths PROVE IsLastLead(leads'[p], c, p, m)
      <3>1. IsLastLead(leads[p], c, p, m - 1) /\ leads[p] \in Nat
        BY <1>2 DEF IInv, LeadsInv, TypeOK
      <3>2. leads'[p] = IF LeadsTo(c, p, m) THEN m ELSE leads[p]
        BY <1>2
      <3>3. m \in Nat \ {0}
        BY <1>2
      <3>4. QED
        BY <3>1, <3>2, <3>3, TurnKeepsLastLead
    <2>2. QED
      BY <2>1, <1>1, <1>2, ModulesDecide DEF IInv, LeadsInv
  <1>8. QED
    BY <1>4, <1>5, <1>6, <1>7 DEF IInv

\* The end of the loops: a choice that was counted once is the only nearest package.
LEMMA LastTurnDecides ==
    ASSUME NEW c, NEW p, NEW choice \in ChoiceType, IsNearest(choice, c, p, Count)
    PROVE  IsOnlyNearest(IF choice.count = 1 THEN choice.selected ELSE 0, c, p)
  <1>1. CASE Candidates(p, Count) = {} /\ choice = NoChoice
    <2>1. Nearest(c, p, Count) = {}
      BY <1>1 DEF Nearest
    <2>2. choice.count # 1
      BY <1>1 DEF NoChoice
    <2>3. QED
      BY <2>1, <2>2 DEF IsOnlyNearest
  <1>2. CASE /\ choice.selected \in Nearest(c, p, Count)
             /\ choice.count = 1 <=> Nearest(c, p, Count) = {choice.selected}
    <2>1. choice.selected \in 1..Count
      BY <1>2 DEF Nearest, Candidates
    <2>2. CASE choice.count = 1
      BY <1>2, <2>1, <2>2 DEF IsOnlyNearest
    <2>3. CASE choice.count # 1
      <3>1. ~\E m \in 1..Count : Nearest(c, p, Count) = {m}
        BY <1>2, <2>3
      <3>2. QED
        BY <2>3, <3>1 DEF IsOnlyNearest
    <2>4. QED
      BY <2>2, <2>3
  <1>3. QED
    BY <1>1, <1>2 DEF IsNearest

LEMMA SelectKeeps == IInv /\ SelectImports => IInv'
  <1> SUFFICES ASSUME IInv, SelectImports PROVE IInv'
    OBVIOUS
  <1> DEFINE chosen == [p \in Paths |-> IF choices[p].count = 1 THEN choices[p].selected ELSE 0]
             c == Len(selections) + 1
  <1>1. /\ UNCHANGED <<modules, series>>
        /\ considered = Count
        /\ Len(series) = Count
        /\ selections' = Append(selections, chosen)
        /\ aliases' = Append(aliases, leads)
        /\ considered' = 0
        /\ choices' = [p \in Paths |-> NoChoice]
        /\ leads' = [p \in Paths |-> 0]
    BY DEF SelectImports
  <1>2. chosen \in [Paths -> Nat]
    BY DEF IInv, TypeOK, ChoiceType
  <1>3. /\ selections' \in Seq([Paths -> Nat])
        /\ Len(selections') = c
        /\ c \in Nat
        /\ \A i \in 1..Len(selections) : selections'[i] = selections[i]
        /\ selections'[c] = chosen
    BY <1>1, <1>2, AppendProperties DEF IInv, TypeOK
  <1>4. /\ aliases' \in Seq([Paths -> Nat])
        /\ Len(aliases') = c
        /\ \A i \in 1..Len(aliases) : aliases'[i] = aliases[i]
        /\ aliases'[c] = leads
    BY <1>1, AppendProperties DEF IInv, TypeOK
  <1>5. Count' = Count /\ Count \in Nat
    BY <1>1, ModuleTypes DEF Count, IInv, TypeOK
  <1>6. TypeOK'
    BY <1>1, <1>3, <1>4, <1>5 DEF IInv, TypeOK, ChoiceType, NoChoice
  <1>7. SeriesInv'
    BY <1>1, ModulesDecide DEF IInv, SeriesInv
  <1>8. ChoicesInv'
    <2>1. ASSUME NEW p \in Paths PROVE IsNearest(choices'[p], c + 1, p, 0)
      BY <1>1 DEF IsNearest, Candidates
    <2>2. ASSUME NEW i \in 1..c, NEW p \in Paths
          PROVE  IsOnlyNearest(selections'[i][p], i, p)
      <3>1. CASE i = c
        BY <3>1, <1>1, <1>3, LastTurnDecides DEF IInv, TypeOK, ChoicesInv
      <3>2. CASE i # c
        <4>1. i \in 1..Len(selections)
          BY <3>2, <1>3 DEF IInv, TypeOK
        <4>2. QED
          BY <4>1, <1>3 DEF IInv, ChoicesInv
      <3>3. QED
        BY <3>1, <3>2
    <2>3. QED
      BY <2>1, <2>2, <1>1, <1>3, ModulesDecide DEF ChoicesInv
  <1>9. LeadsInv'
    <2>1. ASSUME NEW p \in Paths PROVE IsLastLead(leads'[p], c + 1, p, 0)
      BY <1>1 DEF IsLastLead
    <2>2. ASSUME NEW i \in 1..c, NEW p \in Paths
          PROVE  IsLastLead(aliases'[i][p], i, p, Count)
      <3>1. CASE i = c
        BY <3>1, <1>1, <1>4 DEF IInv, LeadsInv
      <3>2. CASE i # c
        <4>1. i \in 1..Len(aliases)
          BY <3>2, <1>3 DEF IInv, TypeOK
        <4>2. QED
          BY <4>1, <1>4 DEF IInv, LeadsInv
      <3>3. QED
        BY <3>1, <3>2
    <2>3. QED
      BY <2>1, <2>2, <1>1, <1>3, <1>4, ModulesDecide DEF LeadsInv
  <1>10. QED
    BY <1>6, <1>7, <1>8, <1>9 DEF IInv

LEMMA StutterKeeps == IInv /\ UNCHANGED vars => IInv'
  <1> SUFFICES ASSUME IInv, UNCHANGED vars PROVE IInv'
    OBVIOUS
  <1>1. UNCHANGED <<modules, series, selections, aliases, considered, choices, leads>>
    BY DEF vars
  <1>2. TypeOK'
    BY <1>1 DEF IInv, TypeOK, Count
  <1>3. SeriesInv' /\ ChoicesInv' /\ LeadsInv'
    BY <1>1, ModulesDecide DEF IInv, SeriesInv, ChoicesInv, LeadsInv
  <1>4. QED
    BY <1>2, <1>3 DEF IInv

\* The invariant of the loops, for every workspace.
THEOREM LoopsTheorem == Spec => []IInv
  <1>1. IInv /\ [Next]_vars => IInv'
    BY AssignKeeps, ConsiderKeeps, SelectKeeps, StutterKeeps DEF Next
  <1>2. QED
    BY InitInvariant, <1>1, PTL DEF Spec

-----------------------------------------------------------------------------
(* The properties. *)

\* importPackage selects the one package that is nearest to the module, and none if
\* there is no such one, whatever the order of the packages.
THEOREM SelectionTheorem == Spec => []SelectionIsUnique
  <1>1. IInv => SelectionIsUnique
    <2> SUFFICES ASSUME IInv, Discovered, NEW c \in 1..Count, NEW p \in Paths
                 PROVE  LET best == {m \in 1..Count :
                                /\ modules[m].path = p
                                /\ \A n \in 1..Count :
                                        modules[n].path = p => Rank(c, n) <= Rank(c, m)}
                        IN  IF Cardinality(best) = 1 THEN selections[c][p] \in best
                            ELSE selections[c][p] = 0
      BY DEF SelectionIsUnique
    <2> DEFINE best == {m \in 1..Count :
                            /\ modules[m].path = p
                            /\ \A n \in 1..Count :
                                    modules[n].path = p => Rank(c, n) <= Rank(c, m)}
    <2>1. best = Nearest(c, p, Count)
      BY DEF Nearest, Candidates
    <2>2. Cardinality(best) = 1 <=> \E m \in 1..Count : best = {m}
      BY ModuleTypes, SingletonCardinality DEF IInv, TypeOK
    <2>3. IsOnlyNearest(selections[c][p], c, p)
      BY DEF Discovered, IInv, ChoicesInv
    <2>4. QED
      BY <2>1, <2>2, <2>3 DEF IsOnlyNearest
  <1>2. QED
    BY LoopsTheorem, <1>1, PTL

LEMMA ReplacementIsListed ==
    ASSUME modules \in Workspaces, NEW c \in 1..Count, NEW p \in Paths,
           selectedReplacement(c, p) # <<>>
    PROVE  \E i \in 1..Len(modules[c].replaces[p]) :
                selectedReplacement(c, p) = <<modules[c].replaces[p][i]>>
  <1> DEFINE list == modules[c].replaces[p]
  <1>1. list \in Seq(Replacement(Count))
    BY ModuleTypes
  <1>2. Len(list) \in Nat /\ DOMAIN list = 1..Len(list)
    BY <1>1, LenProperties
  <1>3. \A old : ReplacementsOf(c, p, old) \subseteq 1..Len(list)
    BY <1>2 DEF ReplacementsOf
  <1>4. \A old : ReplacementsOf(c, p, old) # {} =>
            /\ Min(ReplacementsOf(c, p, old)) \in 1..Len(list)
            /\ Max(ReplacementsOf(c, p, old)) \in 1..Len(list)
    BY <1>2, <1>3, IndicesHaveEnds
  <1>5. QED
    BY <1>4 DEF selectedReplacement

LEMMA MajorsAreKnown ==
    ASSUME modules \in Workspaces, NEW c \in 1..Count, NEW m, NEW p \in RequiresOf(c, m)
    PROVE  MajorOf[VersionOf(c, p)] \in Majors
  <1> DEFINE r == selectedReplacement(c, p)
             list == modules[c].replaces[p]
  <1>1. p \in Paths /\ modules[c].requires[p] \in Versions
    BY ModuleTypes DEF RequiresOf, Requires
  <1>2. r # <<>> => r[1].version \in Versions \cup {None}
    <2> HAVE r # <<>>
    <2>1. PICK i \in 1..Len(list) : r = <<list[i]>>
      BY <1>1, ReplacementIsListed
    <2>2. list \in Seq(Replacement(Count))
      BY <1>1, ModuleTypes
    <2>3. list[i] \in Replacement(Count)
      BY <2>1, <2>2, ElementOfSeq
    <2>4. QED
      BY <2>1, <2>3 DEF Replacement
  <1>3. VersionOf(c, p) \in Versions
    BY <1>1, <1>2 DEF VersionOf
  <1>4. QED
    BY <1>3, ImportsAssumption

\* What assignModuleSeries computes for a module and what sameSeries computes for a
\* pair of modules are the same major.
THEOREM SeriesTheorem == Spec => []KnownSeriesConnects
  <1>1. IInv => KnownSeriesConnects
    <2> SUFFICES ASSUME IInv, Discovered, NEW from \in 1..Count, NEW to \in 1..Count,
                        from # to, MajorOfPath[modules[to].path] = None
                 PROVE  sameSeries(from, to) = {series[to] # None}
      BY DEF KnownSeriesConnects
    <2> DEFINE required == RequiresOf(from, to)
    <2>1. modules \in Workspaces /\ series[to] = SeriesOf(to)
      <3>1. Len(series) = Count
        BY ModuleTypes DEF Discovered, IInv, TypeOK
      <3>2. QED
        BY <3>1 DEF IInv, TypeOK, SeriesInv
    <2>2. CASE required = {}
      BY <2>2 DEF sameSeries
    <2>3. CASE required # {}
      <3>1. sameSeries(from, to) = {series[to] = MajorOf[VersionOf(from, p)] : p \in required}
        BY <2>3 DEF sameSeries
      <3>2. \A p \in required : /\ MajorOf[VersionOf(from, p)] \in RequiredMajors(to)
                                /\ MajorOf[VersionOf(from, p)] \in Majors
        BY <2>1, MajorsAreKnown DEF RequiredMajors
      <3>3. CASE \E v \in Majors : RequiredMajors(to) = {v}
        <4>1. PICK v \in Majors : RequiredMajors(to) = {v}
          BY <3>3
        <4>2. series[to] = v
          BY <2>1, <4>1 DEF SeriesOf
        <4>3. v # None
          BY ImportsAssumption
        <4>4. \A p \in required : MajorOf[VersionOf(from, p)] = v
          BY <3>2, <4>1
        <4>5. QED
          BY <3>1, <4>2, <4>3, <4>4, <2>3
      <3>4. CASE ~\E v \in Majors : RequiredMajors(to) = {v}
        <4>1. series[to] = None
          BY <2>1, <3>4 DEF SeriesOf
        <4>2. \A p \in required : MajorOf[VersionOf(from, p)] # None
          BY <3>2, ImportsAssumption
        <4>3. QED
          BY <3>1, <4>1, <4>2, <2>3
      <3>5. QED
        BY <3>3, <3>4
    <2>4. QED
      BY <2>2, <2>3
  <1>2. QED
    BY LoopsTheorem, <1>1, PTL

LEMMA FirstExactIsSelected ==
    ASSUME modules \in Workspaces, NEW c \in 1..Count, NEW p \in Paths,
           NEW i \in 1..Len(modules[c].replaces[p]),
           Requires(c, p),
           modules[c].replaces[p][i].old = modules[c].requires[p],
           \A j \in 1..(i - 1) : modules[c].replaces[p][j].old # modules[c].requires[p]
    PROVE  selectedReplacement(c, p) = <<modules[c].replaces[p][i]>>
  <1> DEFINE list == modules[c].replaces[p]
             exact == ReplacementsOf(c, p, modules[c].requires[p])
  <1>1. list \in Seq(Replacement(Count))
    BY ModuleTypes
  <1>2. Len(list) \in Nat /\ DOMAIN list = 1..Len(list)
    BY <1>1, LenProperties
  <1>3. i \in exact /\ \A k \in exact : i <= k
    BY <1>2 DEF ReplacementsOf
  <1>4. exact \subseteq Nat
    BY <1>2 DEF ReplacementsOf
  <1>5. Min(exact) = i
    BY <1>3, <1>4 DEF Min
  <1>6. QED
    BY <1>3, <1>5 DEF selectedReplacement

\* A replacement of the required version by a module of the workspace wins over all
\* other replacements, and over the packages that have the path.
THEOREM ReplacementTheorem == Spec => []ExactReplacementWins
  <1>1. IInv => ExactReplacementWins
    <2> SUFFICES ASSUME IInv, Discovered, NEW c \in 1..Count, NEW p \in Paths,
                        NEW i \in 1..Len(modules[c].replaces[p]),
                        modules[c].replaces[p][i].old = modules[c].requires[p],
                        modules[c].replaces[p][i].old # None,
                        \A j \in 1..(i - 1) :
                            modules[c].replaces[p][j].old # modules[c].replaces[p][i].old,
                        modules[c].replaces[p][i].dir # 0
                 PROVE  ImportOf(c, p) = modules[c].replaces[p][i].dir
      BY DEF ExactReplacementWins
    <2> DEFINE r == modules[c].replaces[p][i]
    <2>1. modules \in Workspaces
      BY DEF IInv, TypeOK
    <2>2. selectedReplacement(c, p) = <<r>>
      BY <2>1, FirstExactIsSelected DEF Requires
    <2>3. modules[c].replaces[p] \in Seq(Replacement(Count)) /\ Count \in Nat
      BY <2>1, ModuleTypes
    <2>4. r \in Replacement(Count)
      BY <2>3, ElementOfSeq
    <2>5. r.dir \in 1..Count /\ r.path = None
      BY <2>3, <2>4 DEF Replacement
    <2>6. ASSUME NEW m \in 1..Count PROVE LeadsTo(c, p, m) <=> m = r.dir
      <3>1. modules[m].path \in Paths
        BY <2>1, ModuleTypes
      <3>2. r.path # modules[m].path
        BY <3>1, <2>5, ImportsAssumption
      <3>3. Replaces(c, p)
        BY <2>3, EmptySeq DEF Replaces
      <3>4. QED
        BY <2>2, <3>2, <3>3 DEF LeadsTo, requireTargetsModule
    <2>7. IsLastLead(aliases[c][p], c, p, Count)
      BY DEF Discovered, IInv, TypeOK, LeadsInv
    <2>8. aliases[c][p] = r.dir
      BY <2>5, <2>6, <2>7 DEF IsLastLead
    <2>9. QED
      BY <2>5, <2>8 DEF ImportOf
  <1>2. QED
    BY LoopsTheorem, <1>1, PTL

=============================================================================
