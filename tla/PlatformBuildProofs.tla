------------------------ MODULE PlatformBuildProofs ------------------------
(***************************************************************************)
(* Proofs about PlatformBuild, for any packages and dependencies and any   *)
(* number of edits: in the hands of a user whose only habit is make -j,    *)
(* the file times make looks at tell the truth, and a make build that      *)
(* succeeds leaves every package fresh.                                    *)
(***************************************************************************)
EXTENDS PlatformBuild, TLAPS

\* PlatformAssumption with the plan spelled out.
LEMMA Assumed ==
  /\ Deps \in [Package -> SUBSET Package]
  /\ Stable \subseteq Package
  /\ Rank \in [Package -> Nat]
  /\ \A p, q \in Package : Rank[p] = Rank[q] => p = q
  /\ \A p \in Package : \A d \in Deps[p] : Rank[d] < Rank[p]
  /\ MaxVersion \in [Package -> Nat]
  /\ None \notin Nat
  /\ Habits \subseteq AllHabits
BY PlatformAssumption DEF IsBuildPlan

\* Versions are numbers, and None is not one of them.
LEMMA VersionIsNat == Version \subseteq Nat /\ None \notin Version
BY Assumed DEF Version

\* A fresh build directory satisfies the inductive invariant.
LEMMA InitIndInv == Init => IndInv
<1> USE Assumed
<1> SUFFICES ASSUME Init PROVE IndInv
  OBVIOUS
<1>1. TypeOK
  BY DEF Init, TypeOK, Version, Steps, Goals, Singles
<1>2. HashTellsMakefile /\ StampCoversHash /\ OldUseShows /\ BuiltAgainstStamped
  BY DEF Init, HashTellsMakefile, StampCoversHash, OldUseShows, BuiltAgainstStamped
<1>3. StampMeansInstalled /\ RecipeOrder
  BY DEF Init, StampMeansInstalled, RecipeOrder
<1>4. BuildOrder /\ SysrootOfFresh /\ OneGoal /\ NothingLeftToDo
  BY DEF Init, BuildOrder, SysrootOfFresh, OneGoal, NothingLeftToDo, Singles
<1> QED BY <1>1, <1>2, <1>3, <1>4 DEF IndInv

\* No step of make or of the user leaves the types.
LEMMA TypeStep == TypeOK /\ [Next]_vars => TypeOK'
<1> SUFFICES ASSUME TypeOK, [Next]_vars PROVE TypeOK'
  OBVIOUS
<1> USE Assumed
    DEF TypeOK, Steps, Goals, Singles, Goto, files, trees
<1>1. ASSUME NEW p \in Package, Edit(p) PROVE TypeOK'
  <2>1. PICK v \in 0..MaxVersion[p] : makefile' = [makefile EXCEPT ![p] = v]
    BY <1>1 DEF Edit
  <2>2. v \in Version
    BY DEF Version
  <2> QED BY <1>1, <2>1, <2>2 DEF Edit
<1>2. CASE StartBuild
  BY <1>2 DEF StartBuild
<1>3. CASE StartRebuildSysroot
  BY <1>3 DEF StartRebuildSysroot
<1>4. ASSUME NEW p \in Package, NEW goal \in Singles, StartSingle(p, goal)
      PROVE TypeOK'
  BY <1>4 DEF StartSingle
<1>5. ASSUME NEW p \in Package, PackageStep(p) PROVE TypeOK'
  <2>1. CASE HashFile(p)
    BY <2>1 DEF HashFile
  <2>2. CASE Consider(p)
    BY <2>2 DEF Consider
  <2>3. CASE Clean(p)
    BY <2>3 DEF Clean
  <2>4. CASE Unstamp(p)
    BY <2>4 DEF Unstamp
  <2>5. CASE Build(p)
    BY <2>5 DEF Build
  <2>6. CASE Repack(p)
    BY <2>6 DEF Repack
  <2>7. CASE Extract(p)
    BY <2>7 DEF Extract
  <2>8. CASE Stamp(p)
    BY <2>8 DEF Stamp
  <2> QED BY <1>5, <2>1, <2>2, <2>3, <2>4, <2>5, <2>6, <2>7, <2>8 DEF PackageStep
<1>6. ASSUME NEW p \in Package, Fail(p) PROVE TypeOK'
  BY <1>6 DEF Fail
<1>7. CASE EndRun
  BY <1>7 DEF EndRun
<1>8. CASE Interrupt
  BY <1>8 DEF Interrupt
<1>9. CASE UNCHANGED vars
  BY <1>9 DEF vars
<1> QED BY <1>1, <1>2, <1>3, <1>4, <1>5, <1>6, <1>7, <1>8, <1>9 DEF Next

\* With careful use every step keeps the inductive invariant.
LEMMA StepIndInv ==
  ASSUME Habits \subseteq {"parallel"}
  PROVE  IndInv /\ [Next]_vars => IndInv'
<1> SUFFICES ASSUME IndInv, [Next]_vars PROVE IndInv'
  OBVIOUS
<1>t. TypeOK /\ TypeOK'
  BY TypeStep DEF IndInv
<1>v. Version \subseteq Nat /\ None \notin Version
  BY VersionIsNat
<1>n. \A q \in Package :
        /\ makefile[q] \in Nat
        /\ binary[q] # None => binary[q] \in Nat
        /\ hash[q] # None => hash[q] \in Nat
  BY <1>t, <1>v DEF TypeOK
<1>h. /\ "revert" \notin Habits /\ "edit" \notin Habits
      /\ "install" \notin Habits /\ "interrupt" \notin Habits
      /\ "unfinished" \notin Habits
  OBVIOUS
<1> DEFINE Rest == /\ HashTellsMakefile /\ StampCoversHash /\ OldUseShows
                   /\ StampMeansInstalled /\ RecipeOrder /\ BuiltAgainstStamped
                   /\ BuildOrder /\ SysrootOfFresh /\ OneGoal /\ NothingLeftToDo
<1>r. Rest
  BY DEF IndInv
<1> SUFFICES Rest'
  BY <1>t DEF IndInv
<1>s. CASE UNCHANGED vars
  <2> USE <1>s, <1>r DEF vars, files, trees, UpToDate
  <2>1. (HashTellsMakefile /\ StampCoversHash /\ OldUseShows)'
    BY DEF HashTellsMakefile, StampCoversHash, OldUseShows
  <2>2. (StampMeansInstalled /\ RecipeOrder /\ BuiltAgainstStamped)'
    BY DEF StampMeansInstalled, RecipeOrder, BuiltAgainstStamped
  <2>3. (BuildOrder /\ SysrootOfFresh /\ OneGoal /\ NothingLeftToDo)'
    BY DEF BuildOrder, SysrootOfFresh, OneGoal, NothingLeftToDo
  <2> QED BY <2>1, <2>2, <2>3
<1> USE <1>t, <1>v, <1>h, <1>r, Assumed
    DEF TypeOK, files, trees, Goto, Singles, Goals, Steps, Active, DepPairs,
        UpToDate, MayStop, HashTellsMakefile, StampCoversHash, OldUseShows,
        StampMeansInstalled, RecipeOrder, BuiltAgainstStamped, BuildOrder,
        SysrootOfFresh, OneGoal, NothingLeftToDo
<1>1. ASSUME NEW p \in Package, Edit(p) PROVE Rest'
  <2>1. PICK v \in 0..MaxVersion[p] :
          v > makefile[p] /\ makefile' = [makefile EXCEPT ![p] = v]
    BY <1>1 DEF Edit
  <2>2. HashTellsMakefile'
    <3> SUFFICES ASSUME NEW q \in Package
                 PROVE  /\ q \notin mkNewer' => hash'[q] = makefile'[q]
                        /\ hash'[q] # None => hash'[q] <= makefile'[q]
                        /\ binary'[q] # None => binary'[q] <= makefile'[q]
      OBVIOUS
    <3>1. /\ mkNewer' = mkNewer \cup {p} /\ hash' = hash /\ binary' = binary
          /\ makefile'[q] = IF q = p THEN v ELSE makefile[q]
          /\ v \in Nat
      BY <1>1, <2>1 DEF Edit
    <3> QED BY <1>n, <2>1, <3>1
  <2>3. run = "none"
    BY <1>1 DEF Edit
  <2> QED BY <1>1, <2>1, <2>2, <2>3 DEF Edit
<1>2. CASE StartBuild
  BY <1>2 DEF StartBuild
<1>3. CASE StartRebuildSysroot
  <2>1. ASSUME NEW p \in Package PROVE binary[p] = makefile[p]
    <3>1. p \in stamp \ hashNewer /\ hash[p] = makefile[p]
      BY <1>3 DEF StartRebuildSysroot
    <3>2. binary[p] # None /\ makefile[p] <= binary[p] /\ binary[p] <= makefile[p]
      BY <1>n, <3>1
    <3> QED BY <1>n, <3>2
  <2>2. \A e \in usesOld : e[1] \in Stable
    BY <1>3 DEF StartRebuildSysroot
  <2> QED BY <1>3, <2>1, <2>2 DEF StartRebuildSysroot
<1>4. ASSUME NEW p \in Package, NEW goal \in Singles, StartSingle(p, goal)
      PROVE Rest'
  BY <1>4 DEF StartSingle
<1>5. ASSUME NEW p \in Package, HashFile(p) PROVE Rest'
  <2>1. HashTellsMakefile'
    <3>1. CASE p \in mkNewer /\ hash[p] # makefile[p]
      <4>1. /\ hash' = [hash EXCEPT ![p] = makefile[p]]
            /\ mkNewer' = mkNewer \ {p}
            /\ UNCHANGED <<makefile, binary>>
        BY <1>5, <3>1 DEF HashFile
      <4> QED BY <1>n, <4>1
    <3>2. CASE ~(p \in mkNewer /\ hash[p] # makefile[p])
      BY <1>5, <3>2 DEF HashFile
    <3> QED BY <3>1, <3>2
  <2>2. StampCoversHash'
    BY <1>5 DEF HashFile
  <2>3. OldUseShows'
    BY <1>5 DEF HashFile
  <2>4. StampMeansInstalled'
    BY <1>5 DEF HashFile
  <2>5. RecipeOrder'
    BY <1>5 DEF HashFile
  <2>6. BuiltAgainstStamped'
    BY <1>5 DEF HashFile
  <2>7. BuildOrder'
    BY <1>5 DEF HashFile
  <2>8. SysrootOfFresh'
    BY <1>5 DEF HashFile
  <2>9. OneGoal'
    BY <1>5 DEF HashFile
  <2>10. NothingLeftToDo'
    BY <1>5 DEF HashFile
  <2> QED BY <2>1, <2>2, <2>3, <2>4, <2>5, <2>6, <2>7, <2>8, <2>9, <2>10
<1>6. ASSUME NEW p \in Package, Consider(p) PROVE Rest'
  BY <1>6 DEF Consider
<1>7. ASSUME NEW p \in Package, Clean(p) PROVE Rest'
  BY <1>7 DEF Clean
<1>8. ASSUME NEW p \in Package, Unstamp(p) PROVE Rest'
  BY <1>8 DEF Unstamp
<1>9. ASSUME NEW p \in Package, Build(p) PROVE Rest'
  <2>1. HashTellsMakefile'
    <3>1. /\ binary' = [binary EXCEPT ![p] = makefile[p]]
          /\ UNCHANGED <<makefile, hash, mkNewer>>
      BY <1>9 DEF Build
    <3> QED BY <1>n, <3>1
  <2>2. StampCoversHash'
    BY <1>9 DEF Build
  <2>3. OldUseShows'
    BY <1>9 DEF Build
  <2>4. StampMeansInstalled'
    BY <1>9 DEF Build
  <2>5. RecipeOrder'
    BY <1>9 DEF Build
  <2>6. BuiltAgainstStamped'
    BY <1>9 DEF Build
  <2>7. BuildOrder'
    BY <1>9 DEF Build
  <2>8. SysrootOfFresh'
    BY <1>9 DEF Build
  <2>9. OneGoal'
    BY <1>9 DEF Build
  <2>10. NothingLeftToDo'
    BY <1>9 DEF Build
  <2> QED BY <2>1, <2>2, <2>3, <2>4, <2>5, <2>6, <2>7, <2>8, <2>9, <2>10
<1>10. ASSUME NEW p \in Package, Repack(p) PROVE Rest'
  BY <1>10 DEF Repack
<1>11. ASSUME NEW p \in Package, Extract(p) PROVE Rest'
  BY <1>11 DEF Extract
<1>12. ASSUME NEW p \in Package, Stamp(p) PROVE Rest'
  <2>1. HashTellsMakefile'
    BY <1>12 DEF Stamp
  <2>2. StampCoversHash'
    <3>1. /\ stamp' = stamp \cup {p} /\ hashNewer' = hashNewer \ {p}
          /\ UNCHANGED <<hash, binary>>
      BY <1>12 DEF Stamp
    <3>2. binary[p] = makefile[p]
      BY <1>12 DEF Stamp
    <3>3. hash[p] = None \/ hash[p] <= makefile[p]
      OBVIOUS
    <3> QED BY <1>n, <3>1, <3>2, <3>3
  <2>3. OldUseShows'
    BY <1>12 DEF Stamp
  <2>4. StampMeansInstalled'
    BY <1>12 DEF Stamp
  <2>5. RecipeOrder'
    BY <1>12 DEF Stamp
  <2>6. BuiltAgainstStamped'
    BY <1>12 DEF Stamp
  <2>7. BuildOrder'
    BY <1>12 DEF Stamp
  <2>8. SysrootOfFresh'
    BY <1>12 DEF Stamp
  <2>9. OneGoal'
    BY <1>12 DEF Stamp
  <2>10. NothingLeftToDo'
    BY <1>12 DEF Stamp
  <2> QED BY <2>1, <2>2, <2>3, <2>4, <2>5, <2>6, <2>7, <2>8, <2>9, <2>10
<1>13. ASSUME NEW p \in Package, Fail(p) PROVE Rest'
  BY <1>13 DEF Fail
<1>14. CASE EndRun
  BY <1>14 DEF EndRun
<1>15. CASE Interrupt
  BY <1>15 DEF Interrupt
<1> HIDE DEF Singles, Rest
<1> QED BY <1>1, <1>2, <1>3, <1>4, <1>5, <1>6, <1>7, <1>8, <1>9, <1>10, <1>11,
           <1>12, <1>13, <1>14, <1>15, <1>s DEF Next, PackageStep

\* In the hands of a careful user every reachable state satisfies IndInv.
THEOREM Invariance ==
  ASSUME Habits \subseteq {"parallel"}
  PROVE  Spec => []IndInv
BY InitIndInv, StepIndInv, PTL DEF Spec

\* The variables keep their types, whatever the user's habits are.
THEOREM TypeCorrect == Spec => []TypeOK
<1>1. Init => TypeOK
  BY InitIndInv DEF IndInv
<1> QED BY <1>1, TypeStep, PTL DEF Spec

\* If p and its dependencies are stamped, p's stamp is older than none of
\* what it depends on, and the hash is of the present Makefile, p is fresh.
LEMMA TimesTellTruth ==
  ASSUME IndInv, run # "rebuild-sysroot", NEW p \in Package,
         UpToDate(p), hash[p] = makefile[p], Deps[p] \subseteq stamp
  PROVE  Fresh(p)
<1>1. sysroot[p] = "current"
  BY DEF IndInv, StampMeansInstalled, UpToDate
<1>2. binary[p] = makefile[p]
  <2>1. makefile[p] \in Version /\ binary[p] \in Version \cup {None}
    BY DEF IndInv, TypeOK
  <2>2. /\ p \in stamp \ hashNewer
        /\ makefile[p] \in Nat /\ hash[p] # None
        /\ binary[p] # None => binary[p] \in Nat
    BY <2>1, VersionIsNat DEF UpToDate
  <2>3. binary[p] # None /\ makefile[p] <= binary[p] /\ binary[p] <= makefile[p]
    BY <2>2 DEF IndInv, StampCoversHash, HashTellsMakefile
  <2> QED BY <2>2, <2>3
<1>3. ASSUME NEW d \in Deps[p] \ Stable PROVE <<d, p>> \notin usesOld
  <2>1. <<d, p>> \notin depNewer /\ p \in stamp
    BY DEF UpToDate
  <2> QED BY <2>1 DEF IndInv, OldUseShows
<1> QED BY <1>1, <1>2, <1>3 DEF Fresh

\* A make build that succeeded left every package fresh: nothing was edited,
\* failed, interrupted or rebuilt alone that the file times do not show.
THEOREM Freshness ==
  ASSUME Habits \subseteq {"parallel"}
  PROVE  Spec => []SuccessMeansFresh
<1>1. ASSUME IndInv PROVE SuccessMeansFresh
  <2> SUFFICES ASSUME result = "ok", NEW p \in Package PROVE Fresh(p)
    BY DEF SuccessMeansFresh
  <2>1. \A q \in Package : UpToDate(q) /\ hash[q] = makefile[q]
    BY <1>1 DEF IndInv, NothingLeftToDo, HashTellsMakefile
  <2>2. Deps[p] \subseteq stamp
    BY <2>1, Assumed DEF UpToDate
  <2>3. run # "rebuild-sysroot"
    BY <1>1 DEF IndInv, OneGoal
  <2> QED BY <1>1, <2>1, <2>2, <2>3, TimesTellTruth
<1> QED BY <1>1, Invariance, PTL

\* Run again at once, a make build that succeeded would do nothing.
THEOREM Idempotence ==
  ASSUME Habits \subseteq {"parallel"}
  PROVE  Spec => []NothingLeftToDo
<1>1. IndInv => NothingLeftToDo
  BY DEF IndInv
<1> QED BY <1>1, Invariance, PTL

\* The platform goals compile a package only while everything it depends on
\* is in the sysroot, however many jobs make runs.
THEOREM DependenciesFirst ==
  ASSUME Habits \subseteq {"parallel"}
  PROVE  Spec => DepsBuiltFirst
<1>1. ASSUME IndInv, [Next]_vars,
             NEW p \in Package, run \in Goals, Build(p), NEW d \in Deps[p]
      PROVE  sysroot[d] = "current"
  <2>1. run = "build"
    <3>1. run # "rebuild-sysroot"
      <4> SUFFICES ASSUME run = "rebuild-sysroot" PROVE FALSE
        OBVIOUS
      <4>1. binary[p] = makefile[p] /\ makefile[p] \in Version
        BY <1>1 DEF IndInv, SysrootOfFresh, TypeOK
      <4> QED BY <1>1, <4>1, VersionIsNat DEF Build
    <3> QED BY <1>1, <3>1 DEF Goals
  <2>2. d \in Package /\ st[d] = "done"
    BY <1>1, <2>1, Assumed DEF IndInv, BuildOrder, Build, Active
  <2>3. d \in stamp
    BY <1>1, <2>1, <2>2 DEF IndInv, BuildOrder, UpToDate
  <2> QED BY <1>1, <2>1, <2>2, <2>3 DEF IndInv, StampMeansInstalled
<1>2. IndInv /\ [Next]_vars =>
        [\A p \in Package :
           run \in Goals /\ Build(p) => \A d \in Deps[p] : sysroot[d] = "current"]_vars
  BY <1>1
<1> QED BY <1>2, Invariance, PTL DEF Spec, DepsBuiltFirst
=============================================================================
