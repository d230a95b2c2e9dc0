------------------------- MODULE PackageBuildProofs -------------------------
(***************************************************************************)
(* Proofs about PackageBuild, for packages of every kind.  From the build  *)
(* to the sysroot the stamps tell the truth whatever the habits, with -j   *)
(* as without.  Before that they speak for sources, and for the right ones *)
(* only if nothing was unpacked from an archive that fails its checksum:   *)
(* the stamp .extract comes after the check, but says nothing of when the  *)
(* archive was unpacked.  A make without -j sees to it; with -j it is an   *)
(* assumption; README tells the trace of one that was unpacked.            *)
(***************************************************************************)
EXTENDS PackageBuild, TLAPS

\* Nobody removes an archive that is in order.
Careful == "redownload" \notin Habits

\* Nor does make run two commands at a time.
Serial == Habits \cap {"parallel", "redownload"} = {}

\* What every step keeps, whatever the habits.
ChainInv == TypeOK /\ Walks /\ StampChain /\ WorkDone /\ CompilesNow

\* The archive has the right checksum as long as there is the stamp that says so.
Checked == "chksum" \in stamp => archive = "good"

\* The targets whose stamps speak for what gets installed.
Installing == {"build", "do_install", "prune", "strip", "cleanup", "binary", "install"}

-----------------------------------------------------------------------------
(* The targets, their order and their prerequisites *)

\* The order of the targets, one by one.
LEMMA Positions ==
  /\ DOMAIN MakeOrder = 1..19
  /\ MakeOrder[1] = "directory" /\ MakeOrder[2] = "archive" /\ MakeOrder[3] = "chksum"
  /\ MakeOrder[4] = "checksum" /\ MakeOrder[5] = "extract_file" /\ MakeOrder[6] = "extract"
  /\ MakeOrder[7] = "setup" /\ MakeOrder[8] = "patch" /\ MakeOrder[9] = "conf_cmd"
  /\ MakeOrder[10] = "autoreconfigure" /\ MakeOrder[11] = "configure" /\ MakeOrder[12] = "build"
  /\ MakeOrder[13] = "do_install" /\ MakeOrder[14] = "config_scripts" /\ MakeOrder[15] = "prune"
  /\ MakeOrder[16] = "strip" /\ MakeOrder[17] = "cleanup" /\ MakeOrder[18] = "binary"
  /\ MakeOrder[19] = "install"
BY DEF MakeOrder

\* The targets as a set.
LEMMA Targets ==
  Target = {"directory", "archive", "chksum", "checksum", "extract_file", "extract",
    "setup", "patch", "conf_cmd", "autoreconfigure", "configure", "build",
    "do_install", "config_scripts", "prune", "strip", "cleanup", "binary",
    "install"}
<1>1. \A t \in Target : \E k \in 1..19 : t = MakeOrder[k]
  BY Positions DEF Target
<1>2. \A k \in 1..19 : MakeOrder[k] \in Target
  BY Positions DEF Target
<1>3. \A k \in 1..19 : k \in {1, 2, 3, 4, 5, 6, 7, 8, 9, 10, 11, 12, 13, 14, 15, 16, 17, 18, 19}
  OBVIOUS
<1>4. \A t \in Target : t \in {"directory", "archive", "chksum", "checksum", "extract_file", "extract",
    "setup", "patch", "conf_cmd", "autoreconfigure", "configure", "build",
    "do_install", "config_scripts", "prune", "strip", "cleanup", "binary",
    "install"}
  BY <1>1, <1>3, Positions
<1> QED BY <1>2, <1>4, Positions

\* What is earlier in the order is among what comes before.
LEMMA Ordered ==
  ASSUME NEW j \in 1..19, NEW k \in 1..19, j < k
  PROVE  MakeOrder[j] \in Before[MakeOrder[k]]
BY Positions DEF Before, Target

\* What the properties need to know of the order.
LEMMA InBefore ==
  /\ "chksum" \in Before["extract_file"]
  /\ "patch" \in Before["conf_cmd"] \cap Before["autoreconfigure"] \cap Before["configure"] \cap Before["build"]
  /\ {"build", "do_install"} \subseteq Before["prune"]
  /\ "build" \in Before["do_install"]
  /\ {"do_install", "prune", "strip", "cleanup"} \subseteq Before["binary"]
  /\ "binary" \in Before["install"]
BY Ordered, Positions

\* What the proofs need to know of the prerequisites.
LEMMA Prerequisites ==
  /\ Prereq \in [Target -> SUBSET Target]
  /\ Prereq["archive"] = {} /\ Prereq["conf_cmd"] = {} /\ Prereq["strip"] = {}
  /\ Prereq["chksum"] = {"archive"} /\ Prereq["extract_file"] = {"archive"}
  /\ Prereq["patch"] = {"setup"}
  /\ Prereq["checksum"] = {"directory", "chksum"}
  /\ Prereq["extract"] = {"checksum", "extract_file"} /\ Prereq["setup"] = {"extract"}
  /\ {"patch", "conf_cmd"} \subseteq Prereq["configure"]
  /\ Reconf => "autoreconfigure" \in Prereq["configure"]
  /\ Prereq["build"] = {"configure"}
  /\ Prereq["do_install"] = {"build"} /\ Prereq["prune"] = {"do_install"}
  /\ Prereq["cleanup"] = {"config_scripts", "prune", "strip"}
  /\ Prereq["binary"] = {"do_install", "cleanup"} /\ Prereq["install"] = {"binary"}
BY Targets DEF Prereq

-----------------------------------------------------------------------------
(* Types *)

\* cmd_stamp keeps the types of what it changes.
LEMMA StampedTypes ==
  ASSUME TypeOK, NEW t \in Target \ Files, Stamped(t)
  PROVE  /\ stamp' \subseteq Target \ Files
         /\ newer' \subseteq {e \in Target \X Target : e[1] \in Prereq[e[2]]}
         /\ st' \in [Target -> {"todo", "ran", "done"}]
         /\ \A u \in Files \cup {"chksum"} : st'[u] # "ran"
BY Targets DEF TypeOK, Stamped, Goto, Files

\* What the commands put into an install tree is one.
LEMMA ImageTypes ==
  /\ NoImage \in Images /\ Mixed \in Images
  /\ \A old \in Images, b \in BOOLEAN :
       /\ [old EXCEPT !.pruned = b] \in Images
       /\ [old EXCEPT !.stripped = b] \in Images
  /\ \A old, new \in Images :
       /\ Over(old, new) \in Images
       /\ [Over(old, new) EXCEPT !.of = "mixed", !.stripped = FALSE] \in Images
<1>1. NoImage \in Images /\ Mixed \in Images
  BY DEF NoImage, Mixed, Images, Trees
<1>2. ASSUME NEW old \in Images, NEW b \in BOOLEAN
      PROVE  /\ [old EXCEPT !.pruned = b] \in Images
             /\ [old EXCEPT !.stripped = b] \in Images
  BY DEF Images
<1>3. ASSUME NEW old \in Images, NEW new \in Images
      PROVE  /\ Over(old, new) \in Images
             /\ [Over(old, new) EXCEPT !.of = "mixed", !.stripped = FALSE] \in Images
  <2>1. (new.pruned /\ (old = NoImage \/ old.pruned)) \in BOOLEAN
    OBVIOUS
  <2>2. Over(old, new) \in Images
    BY <2>1, <1>2 DEF Over
  <2> QED BY <2>2 DEF Images
<1> QED BY <1>1, <1>2, <1>3

\* A clean build directory is well typed.
LEMMA InitTypes == Init => TypeOK
<1> SUFFICES ASSUME Init PROVE TypeOK
  OBVIOUS
<1>1. st \in [Target -> {"todo", "ran", "done"}] /\ \A t \in Files \cup {"chksum"} : st[t] # "ran"
  BY Targets DEF Init, Files
<1> QED BY <1>1, ImageTypes DEF Init, TypeOK, Trees

\* No step of make or of the user leaves the types.
LEMMA TypeStep == TypeOK /\ [Next]_vars => TypeOK'
<1> SUFFICES ASSUME TypeOK, [Next]_vars PROVE TypeOK'
  OBVIOUS
<1> USE DEF data, Goto
<1>1. CASE StartRebuild
  BY <1>1, Targets, ImageTypes DEF StartRebuild, Remove, TypeOK, Files, Goals, Trees
<1>2. ASSUME NEW goal \in Goals, NEW gone, StartGoal(goal, gone) PROVE TypeOK'
  BY <1>2, Targets DEF StartGoal, Remove, TypeOK, Files
<1>3. CASE EditSources
  BY <1>3 DEF EditSources, TypeOK, Trees
<1>4. CASE RemoveArchive
  BY <1>4 DEF RemoveArchive, TypeOK
<1>5. CASE Download
  BY <1>5, Targets, Prerequisites DEF Download, TypeOK, Files
<1>6. CASE CheckSum
  BY <1>6, StampedTypes, Targets DEF CheckSum, Stamped, TypeOK, Files
<1>7. CASE ExtractFile
  BY <1>7, Targets DEF ExtractFile, Ran, TypeOK, Trees, Files
<1>8. CASE Patch
  BY <1>8, Targets DEF Patch, Ran, TypeOK, Trees, Files
<1>9. CASE ConfCmd
  BY <1>9, Targets, Prerequisites DEF ConfCmd, Autoreconf, TypeOK, Files
<1>10. CASE Autoreconfigure
  BY <1>10, Targets, Prerequisites DEF Autoreconfigure, Autoreconf, TypeOK, Files
<1>11. CASE Configure
  BY <1>11, StampedTypes, Targets DEF Configure, Stamped, TypeOK, Files
<1>12. CASE Build
  BY <1>12, Targets DEF Build, Ran, TypeOK, Files
<1>13. CASE DoInstall
  BY <1>13, Targets DEF DoInstall, Ran, TypeOK, Files, Images
<1>14. CASE Prune
  BY <1>14, Targets, ImageTypes DEF Prune, Ran, TypeOK, Files
<1>15. CASE Strip
  BY <1>15, Targets, ImageTypes DEF Strip, Ran, TypeOK, Files
<1>16. CASE BuildPackages
  BY <1>16, Targets DEF BuildPackages, Ran, TypeOK, Files
<1>17. CASE ExtractPackages
  BY <1>17, Targets DEF ExtractPackages, Over, Ran, TypeOK, Files, Images
<1>18. CASE Interrupt
  BY <1>18, Targets DEF Interrupt, TypeOK, Files
<1>19. CASE EndRun
  BY <1>19, Targets DEF EndRun, Idle, TypeOK, Files
<1>20. ASSUME NEW t \in Target, Skip(t) PROVE TypeOK'
  BY <1>20, Targets DEF Skip, TypeOK, Files
<1>21. ASSUME NEW t \in Target, Mark(t) PROVE TypeOK'
  BY <1>21, StampedTypes, Targets DEF Mark, Stamped, TypeOK, Files
<1>22. ASSUME NEW t \in Target, Touch(t) PROVE TypeOK'
  BY <1>22, StampedTypes, Targets DEF Touch, Stamped, TypeOK, Files
<1>23. ASSUME NEW t \in Target, Fail(t) PROVE TypeOK'
  <2>1. script' \in BOOLEAN
    BY <1>23, PackageAssumption DEF Fail, TypeOK
  <2>2. image' \in Images /\ binary' \in Images /\ sysroot' \in Images
    BY <1>23, ImageTypes DEF Fail, TypeOK
  <2> QED BY <1>23, <2>1, <2>2, Targets DEF Fail, TypeOK, Files, Trees
<1>24. CASE UNCHANGED vars
  BY <1>24 DEF vars, TypeOK
<1> QED
  BY <1>1, <1>2, <1>3, <1>4, <1>5, <1>6, <1>7, <1>8, <1>9, <1>10, <1>11, <1>12, <1>13,
     <1>14, <1>15, <1>16, <1>17, <1>18, <1>19, <1>20, <1>21, <1>22, <1>23, <1>24
     DEF Next, Start, Goals

\* The variables of PackageBuild stay within their types, whatever the habits
\* (all rules of Makefile.package).
THEOREM TypeCorrect == Spec => []TypeOK
BY InitTypes, TypeStep, PTL DEF Spec


-----------------------------------------------------------------------------
(* make *)

\* A new stamp is up to date, and exactly what it is a prerequisite of is not
\* any more.
LEMMA StampTimes ==
  ASSUME TypeOK, NEW t \in Target \ Files, Stamped(t)
  PROVE  /\ UpToDate(t)'
         /\ \A u \in Target \ {t} : UpToDate(u)' <=> UpToDate(u) /\ t \notin Prereq[u]
<1>1. t \notin Prereq[t] /\ t \in stamp'
  BY Targets DEF Prereq, Stamped
<1>2. \A q : <<q, t>> \in newer' => q = t /\ t \in Prereq[t]
  BY Targets, Prerequisites DEF Stamped, TypeOK
<1>3. UpToDate(t)'
  BY <1>1, <1>2 DEF UpToDate, Exists, Files
<1>4. ASSUME NEW u \in Target \ {t}
      PROVE  UpToDate(u)' <=> UpToDate(u) /\ t \notin Prereq[u]
  <2>1. Exists(u)' <=> Exists(u)
    BY DEF Stamped, Exists, data
  <2>2. \A q : <<q, u>> \in newer' <=> <<q, u>> \in newer \/ (q = t /\ u \in stamp /\ t \in Prereq[u])
    BY DEF Stamped
  <2>3. u \notin stamp => Prereq[u] = {} \/ ~Exists(u)
    BY Targets, Prerequisites DEF Exists
  <2>4. t \in Prereq[u] => u \in stamp \/ ~Exists(u)
    BY <2>3
  <2> QED BY <2>1, <2>2, <2>4 DEF UpToDate
<1> QED BY <1>3, <1>4

\* make goes on with t: what it was done with stays up to date.
LEMMA WalkOn ==
  ASSUME TypeOK, Walks, NEW t \in Target, NEW s \in {"ran", "done"},
         Considers(t) \/ st[t] = "ran",
         Goto(t, s), run' = run,
         \A u \in Target : st[u] = "done" /\ UpToDate(u) => UpToDate(u)',
         s = "done" /\ Wanted(t) => UpToDate(t)'
  PROVE  Walks'
<1>1. ~Idle /\ st[t] # "done" /\ \A q \in Prereq[t] : st[q] = "done"
  BY DEF Walks, Considers
<1>2. st' = [st EXCEPT ![t] = s] /\ DOMAIN st = Target
  BY DEF Goto, TypeOK
<1> SUFFICES ASSUME NEW u \in Target, st'[u] # "todo"
             PROVE  /\ ~Idle'
                    /\ \A q \in Prereq[u] : st'[q] = "done"
                    /\ st'[u] = "done" => (Wanted(u) => UpToDate(u)')
  BY DEF Walks, Wanted
<1>3. t \notin Prereq[t] /\ Prereq[u] \subseteq Target /\ Prereq[t] \subseteq Target
  BY <1>1, Prerequisites
<1>4. CASE u = t
  BY <1>1, <1>2, <1>3, <1>4 DEF Idle
<1>5. CASE u # t
  <2>1. st[u] # "todo" /\ st'[u] = st[u]
    BY <1>2, <1>5
  <2>2. \A q \in Prereq[u] : st[q] = "done" /\ q # t
    BY <2>1, <1>1 DEF Walks
  <2>3. st[u] = "done" => (Wanted(u) => UpToDate(u))
    BY <2>1 DEF Walks
  <2> QED BY <1>1, <1>2, <1>3, <2>1, <2>2, <2>3 DEF Idle
<1> QED BY <1>4, <1>5

\* A goal other than rebuild removes stamps of the build only.
LEMMA StartCases ==
  ASSUME Start, ~StartRebuild
  PROVE  \E goal \in Goals \ {"rebuild"} :
           \E gone \in SUBSET {"build", "do_install", "prune", "strip", "binary"} :
             /\ goal = "build" => "build" \in gone
             /\ StartGoal(goal, gone)
<1>1. CASE StartGoal("install", {})
  BY <1>1 DEF Goals
<1>2. CASE StartGoal("build", {"build"})
  BY <1>2 DEF Goals
<1>3. CASE StartGoal("reinstall", {"do_install", "prune", "strip"})
  BY <1>3 DEF Goals
<1>4. CASE StartGoal("repack", {"binary"})
  BY <1>4 DEF Goals
<1> QED BY <1>1, <1>2, <1>3, <1>4 DEF Start

\* cmd_stamp makes no target out of date that make is done with.
LEMMA StampedWalk ==
  ASSUME TypeOK, Walks, NEW t \in Target \ Files,
         Considers(t) \/ st[t] = "ran", Stamped(t)
  PROVE  Walks'
<1>1. Goto(t, "done") /\ run' = run
  BY DEF Stamped
<1>2. ASSUME NEW u \in Target, st[u] = "done", UpToDate(u) PROVE UpToDate(u)'
  <2>1. st[t] # "done" /\ u # t
    BY <1>2 DEF Considers
  <2>2. t \notin Prereq[u]
    BY <1>2, <2>1 DEF Walks
  <2> QED BY <2>1, <2>2, <1>2, StampTimes
<1>3. UpToDate(t)'
  BY StampTimes
<1> QED BY <1>1, <1>2, <1>3, WalkOn

\* Nor does a command.
LEMMA CommandWalk ==
  ASSUME TypeOK, Walks, NEW t \in Target, Considers(t), Goto(t, "ran"),
         stamp' = stamp, newer' = newer, run' = run, archive' = archive, script => script'
  PROVE  Walks'
<1>1. \A u \in Target : UpToDate(u) => UpToDate(u)'
  BY DEF UpToDate, Exists
<1> QED BY <1>1, WalkOn

\* Every step keeps the order in which make gets to targets.
LEMMA WalkStep ==
  ASSUME TypeOK, Walks, [Next]_vars
  PROVE  Walks'
<1> USE DEF data
<1>1. CASE StartRebuild
  BY <1>1 DEF StartRebuild, Walks
<1>2. ASSUME NEW goal \in Goals, NEW gone \in SUBSET Target, StartGoal(goal, gone)
      PROVE  Walks'
  BY <1>2 DEF StartGoal, Walks
<1>3. CASE EditSources
  BY <1>3 DEF EditSources, Walks, Idle
<1>4. CASE RemoveArchive
  BY <1>4 DEF RemoveArchive, Walks, Idle
<1>5. CASE Download
  <2>1. "archive" \in Target /\ Considers("archive") /\ Goto("archive", "done") /\ run' = run
    BY <1>5, Targets DEF Download, Recipe
  <2>2. st["chksum"] # "done" /\ st["extract_file"] # "done"
    BY <2>1, Prerequisites, Targets DEF Considers, Walks
  <2>3. ASSUME NEW u \in Target, st[u] = "done", UpToDate(u) PROVE UpToDate(u)'
    BY <1>5, <2>2, <2>3 DEF Download, UpToDate, Exists
  <2>4. UpToDate("archive")'
    BY <1>5, Prerequisites DEF Download, UpToDate, Exists
  <2> QED BY <2>1, <2>3, <2>4, WalkOn
<1>6. CASE CheckSum
  BY <1>6, StampedWalk, Targets DEF CheckSum, Recipe, Files
<1>7. CASE ExtractFile
  BY <1>7, CommandWalk, Targets DEF ExtractFile, Recipe, Ran
<1>8. CASE Patch
  BY <1>8, CommandWalk, Targets DEF Patch, Recipe, Ran
<1>9. CASE ConfCmd
  <2>1. Considers("conf_cmd") /\ "conf_cmd" \in Target /\ script' = TRUE
    BY <1>9, Targets DEF ConfCmd, Recipe, Autoreconf
  <2>2. st["configure"] # "done"
    BY <2>1, Prerequisites, Targets DEF Considers, Walks
  <2>3. ASSUME NEW u \in Target, st[u] = "done", UpToDate(u) PROVE UpToDate(u)'
    BY <1>9, <2>1, <2>2, <2>3 DEF ConfCmd, Autoreconf, UpToDate, Exists
  <2>4. UpToDate("conf_cmd")'
    BY <1>9, <2>1, Prerequisites DEF UpToDate, Exists
  <2> QED BY <1>9, <2>1, <2>3, <2>4, WalkOn DEF ConfCmd
<1>10. CASE Autoreconfigure
  <2>1. Considers("autoreconfigure") /\ "autoreconfigure" \in Target /\ script' = TRUE /\ Reconf
    BY <1>10, Targets DEF Autoreconfigure, Recipe, Autoreconf, Wanted
  <2>2. st["configure"] # "done"
    BY <2>1, Prerequisites, Targets DEF Considers, Walks
  <2>3. ASSUME NEW u \in Target, st[u] = "done", UpToDate(u) PROVE UpToDate(u)'
    BY <1>10, <2>1, <2>2, <2>3 DEF Autoreconfigure, Autoreconf, UpToDate, Exists
  <2> QED BY <1>10, <2>1, <2>3, WalkOn DEF Autoreconfigure
<1>11. CASE Configure
  BY <1>11, StampedWalk, Targets DEF Configure, Recipe, Files
<1>12. CASE Build
  BY <1>12, CommandWalk, Targets DEF Build, Recipe, Ran
<1>13. CASE DoInstall
  BY <1>13, CommandWalk, Targets DEF DoInstall, Recipe, Ran
<1>14. CASE Prune
  BY <1>14, CommandWalk, Targets DEF Prune, Recipe, Ran
<1>15. CASE Strip
  BY <1>15, CommandWalk, Targets DEF Strip, Recipe, Ran
<1>16. CASE BuildPackages
  BY <1>16, CommandWalk, Targets DEF BuildPackages, Recipe, Ran
<1>17. CASE ExtractPackages
  BY <1>17, CommandWalk, Targets DEF ExtractPackages, Recipe, Ran
<1>18. CASE Interrupt \/ EndRun
  BY <1>18 DEF Interrupt, EndRun, Walks
<1>19. ASSUME NEW t \in Target, Skip(t) PROVE Walks'
  <2>1. \A u \in Target : UpToDate(u) <=> UpToDate(u)'
    BY <1>19 DEF Skip, UpToDate, Exists
  <2> QED BY <1>19, <2>1, WalkOn DEF Skip
<1>20. ASSUME NEW t \in Target, Mark(t) PROVE Walks'
  BY <1>20, StampedWalk DEF Mark, Recipe, Files
<1>21. ASSUME NEW t \in Target, Touch(t) PROVE Walks'
  BY <1>21, StampedWalk DEF Touch, TypeOK
<1>22. ASSUME NEW t \in Target, Fail(t) PROVE Walks'
  BY <1>22 DEF Fail, Walks
<1>23. CASE UNCHANGED vars
  BY <1>23 DEF vars, Walks, Idle, UpToDate, Exists
<1> QED
  BY <1>1, <1>2, <1>3, <1>4, <1>5, <1>6, <1>7, <1>8, <1>9, <1>10, <1>11, <1>12, <1>13,
     <1>14, <1>15, <1>16, <1>17, <1>18, <1>19, <1>20, <1>21, <1>22, <1>23, Targets
     DEF Next, Start, Goals

-----------------------------------------------------------------------------
(* Setup *)

\* What make is done with when it is done with something later.
LEMMA Past ==
  ASSUME Walks
  PROVE  /\ st["setup"] = "done" => st["chksum"] = "done" /\ st["extract_file"] = "done"
         /\ st["configure"] = "done" => st["patch"] = "done" /\ st["setup"] = "done"
         /\ st["build"] = "done" => st["configure"] = "done"
         /\ st["do_install"] = "done" => st["build"] = "done"
         /\ st["cleanup"] = "done" =>
              st["prune"] = "done" /\ st["strip"] = "done" /\ st["do_install"] = "done"
         /\ st["binary"] = "done" => st["cleanup"] = "done"
BY Prerequisites, Targets DEF Walks

\* What make is done with has a stamp and is up to date.
LEMMA Made ==
  ASSUME Walks, NEW t \in Target \ Files, t # "autoreconfigure", st[t] = "done"
  PROVE  UpToDate(t) /\ t \in stamp
BY DEF Walks, Wanted, UpToDate, Exists, Files

\* What make is at has its prerequisites.
LEMMA Needs ==
  ASSUME Walks, NEW t \in Target, Considers(t) \/ st[t] # "todo"
  PROVE  \A q \in Prereq[t] : st[q] = "done"
BY DEF Walks, Considers

\* No command unpacks over sources that were unpacked.
LEMMA Unpacks ==
  ASSUME SetupOnce, Considers("extract_file"), ~UpToDate("extract_file")
  PROVE  /\ "extract_file" \notin stamp /\ tree \notin {"patched", "edited"}
         /\ ~quilt /\ "patch" \notin stamp /\ st["patch"] # "ran"
BY DEF SetupOnce

\* Every step that unpacks no bad archive keeps what is known of the setup.
LEMMA SetupStep ==
  ASSUME Careful, TypeOK, Walks, SetupOnce, [Next]_vars, ExtractFile => archive = "good"
  PROVE  SetupOnce'
<1> USE DEF data
<1>1. CASE StartRebuild
  BY <1>1, Targets DEF StartRebuild, Remove, SetupOnce, TypeOK
<1>2. ASSUME NEW goal \in Goals, NEW gone \in SUBSET {"build", "do_install", "prune", "strip", "binary"},
             StartGoal(goal, gone)
      PROVE  SetupOnce'
  <2>1. UpToDate("extract_file") => UpToDate("extract_file")'
    BY <1>2 DEF StartGoal, Remove, UpToDate, Exists
  <2> QED BY <1>2, <2>1, Targets DEF StartGoal, Remove, SetupOnce, TypeOK
<1>4. CASE EditSources
  BY <1>4 DEF EditSources, SetupOnce, UpToDate, Exists
<1>5. CASE RemoveArchive
  <2>1. archive = "bad"
    BY <1>5 DEF RemoveArchive, Careful
  <2> QED BY <1>5, <2>1 DEF RemoveArchive, SetupOnce
<1>6. CASE Download
  <2>1. archive = "none"
    BY <1>6, Prerequisites DEF Download, Recipe, UpToDate, Exists, Wanted
  <2>2. "extract_file" \notin stamp /\ st["extract_file"] # "ran" /\ "chksum" \notin stamp
    BY <2>1 DEF SetupOnce
  <2> QED BY <1>6, <2>2, Targets DEF Download, SetupOnce, Goto, TypeOK
<1>7. ASSUME NEW t \in Target \ (Files \cup {"extract_file", "patch", "build"}),
             t = "chksum" => archive = "good", Stamped(t)
      PROVE  SetupOnce'
  <2>1. UpToDate("extract_file") => UpToDate("extract_file")'
    BY <1>7, StampTimes, Prerequisites, Targets DEF Files
  <2> QED BY <1>7, <2>1, Targets DEF Stamped, SetupOnce, Goto, TypeOK, Files
<1>8. CASE CheckSum
  BY <1>8, <1>7, Targets DEF CheckSum, Files
<1>9. CASE ExtractFile
  <2>1. "extract_file" \notin stamp /\ ~quilt /\ "patch" \notin stamp /\ st["patch"] # "ran"
    BY <1>9, Unpacks DEF ExtractFile, Recipe, Wanted
  <2>2. archive = "good" /\ tree' = "plain"
    BY <1>9 DEF ExtractFile
  <2> QED BY <1>9, <2>1, <2>2, Targets DEF ExtractFile, Ran, SetupOnce, Goto, TypeOK
<1>10. CASE Patch
  <2>1. st["extract_file"] = "done"
    BY <1>10, Needs, Past, Prerequisites, Targets DEF Patch, Recipe
  <2>2. "extract_file" \in stamp /\ UpToDate("extract_file")
    BY <2>1, Made, Targets DEF Files
  <2>3. UpToDate("extract_file")'
    BY <1>10, <2>2 DEF Patch, Ran, UpToDate, Exists
  <2>4. tree' \in {"patched", "edited"}
    BY <1>10, <2>2 DEF Patch, SetupOnce
  <2> QED BY <1>10, <2>1, <2>2, <2>3, <2>4, Targets DEF Patch, Ran, SetupOnce, Goto, TypeOK
<1>11. CASE ConfCmd
  BY <1>11, Targets DEF ConfCmd, Autoreconf, SetupOnce, Goto, TypeOK, UpToDate, Exists
<1>12. CASE Autoreconfigure
  BY <1>12, Targets DEF Autoreconfigure, Autoreconf, SetupOnce, Goto, TypeOK, UpToDate, Exists
<1>13. CASE Configure
  BY <1>13, <1>7, Targets DEF Configure, Files
<1>14. ASSUME NEW t \in Target \ {"extract_file", "patch", "build"}, Ran(t),
              UNCHANGED <<archive, tree, quilt, objs>>
      PROVE  SetupOnce'
  BY <1>14, Targets DEF Ran, SetupOnce, Goto, TypeOK, UpToDate, Exists
<1>15. CASE Build
  <2>1. st["patch"] = "done"
    BY <1>15, Needs, Past, Prerequisites, Targets DEF Build, Recipe
  <2>2. tree \in {"patched", "edited"}
    BY <2>1, Made, Targets DEF SetupOnce, Files
  <2> QED BY <1>15, <2>2, Targets DEF Build, Ran, SetupOnce, Goto, TypeOK, UpToDate, Exists
<1>16. CASE DoInstall \/ Prune \/ Strip \/ BuildPackages \/ ExtractPackages
  BY <1>16, <1>14, Targets DEF DoInstall, Prune, Strip, BuildPackages, ExtractPackages
<1>17. CASE Interrupt \/ EndRun
  BY <1>17, Targets DEF Interrupt, EndRun, SetupOnce, UpToDate, Exists
<1>18. ASSUME NEW t \in Target, Skip(t) PROVE SetupOnce'
  BY <1>18, Targets DEF Skip, SetupOnce, Goto, TypeOK, UpToDate, Exists
<1>19. ASSUME NEW t \in Target, Mark(t) PROVE SetupOnce'
  BY <1>19, <1>7, Targets DEF Mark, Files
<1>20. ASSUME NEW t \in Target, Touch(t) PROVE SetupOnce'
  <2>1. t \in Target \ Files /\ t # "chksum" /\ Stamped(t) /\ st[t] = "ran"
    BY <1>20 DEF Touch, TypeOK
  <2>2. UpToDate("extract_file") \/ t = "extract_file" => UpToDate("extract_file")'
    BY <2>1, StampTimes, Prerequisites, Targets DEF Files
  <2>3. CASE t = "extract_file"
    BY <2>1, <2>2, <2>3, Targets DEF Stamped, SetupOnce, Goto, TypeOK
  <2>4. CASE t \in {"patch", "build"}
    BY <2>1, <2>2, <2>4, Targets DEF Stamped, SetupOnce, Goto, TypeOK
  <2> QED BY <1>7, <2>1, <2>3, <2>4
<1>21. ASSUME NEW t \in Target, Fail(t) PROVE SetupOnce'
  <2>1. t = "extract_file" => /\ "extract_file" \notin stamp
                              /\ ~quilt /\ "patch" \notin stamp /\ st["patch"] # "ran"
    BY <1>21, Unpacks DEF Fail, Recipe, Wanted
  <2> QED BY <1>21, <2>1, Targets DEF Fail, SetupOnce, UpToDate, Exists
<1>22. CASE UNCHANGED vars
  BY <1>22 DEF vars, SetupOnce, UpToDate, Exists
<1> QED
  BY <1>1, <1>2, <1>4, <1>5, <1>6, <1>8, <1>9, <1>10, <1>11, <1>12, <1>13,
     <1>15, <1>16, <1>17, <1>18, <1>19, <1>20, <1>21, <1>22, StartCases
     DEF Next

\* Every step keeps the word of the stamp .chksum, whatever was unpacked.
LEMMA CheckedStep ==
  ASSUME Careful, TypeOK, Checked, [Next]_vars
  PROVE  Checked'
<1> USE DEF data, Checked
<1>1. CASE StartRebuild \/ EditSources
  BY <1>1, Targets DEF StartRebuild, EditSources, Remove, TypeOK
<1>2. ASSUME NEW goal \in Goals, NEW gone \in SUBSET {"build", "do_install", "prune", "strip", "binary"},
             StartGoal(goal, gone)
      PROVE  Checked'
  BY <1>2 DEF StartGoal, Remove
<1>3. CASE RemoveArchive
  BY <1>3 DEF RemoveArchive, Careful
<1>4. CASE Download
  <2>1. archive = "none"
    BY <1>4, Prerequisites DEF Download, Recipe, UpToDate, Exists, Wanted
  <2> QED BY <1>4, <2>1 DEF Download
<1>5. CASE CheckSum
  BY <1>5 DEF CheckSum, Stamped
<1>6. CASE ExtractFile \/ Patch \/ ConfCmd \/ Autoreconfigure \/ Configure
  BY <1>6, Targets DEF ExtractFile, Patch, ConfCmd, Autoreconfigure, Autoreconf, Configure, Ran, Stamped
<1>7. CASE Build \/ DoInstall \/ Prune \/ Strip \/ BuildPackages \/ ExtractPackages
  BY <1>7 DEF Build, DoInstall, Prune, Strip, BuildPackages, ExtractPackages, Ran
<1>8. CASE Interrupt \/ EndRun \/ UNCHANGED vars
  BY <1>8 DEF Interrupt, EndRun, vars
<1>9. ASSUME NEW t \in Target, Skip(t) \/ Mark(t) \/ Touch(t) \/ Fail(t) PROVE Checked'
  BY <1>9 DEF Skip, Mark, Touch, Fail, Stamped, TypeOK
<1> QED BY <1>1, <1>2, <1>3, <1>4, <1>5, <1>6, <1>7, <1>8, <1>9, StartCases DEF Next

-----------------------------------------------------------------------------
(* From the build to the sysroot *)

\* A step that only removes stamps or makes more of them old brings none up to date.
LEMMA OldTimes ==
  ASSUME stamp' \subseteq stamp, NEW t \in Target \ Files, UpToDate(t)',
         \A q \in Prereq[t] : t \in stamp' /\ <<q, t>> \in newer => <<q, t>> \in newer'
  PROVE  UpToDate(t)
BY Targets DEF UpToDate, Exists, Files

\* A stamp that is set speaks for a command that did its work, and takes the
\* word from those after it.
LEMMA StampedChain ==
  ASSUME ChainInv, NEW t \in Target \ Files,
         Considers(t) \/ st[t] = "ran", Stamped(t),
         t \in {"extract_file", "build", "do_install", "prune", "binary", "install"} => st[t] = "ran"
  PROVE  StampChain' /\ WorkDone'
<1> USE DEF ChainInv, data
<1>1. /\ UpToDate(t)'
      /\ \A u \in Target \ {t} : UpToDate(u)' => UpToDate(u) /\ t \notin Prereq[u]
  BY StampTimes
<1>2. /\ "extract_file" \in stamp' => tree' # "none"
      /\ "build" \in stamp' => objs' # "none"
  BY DEF Stamped, StampChain, WorkDone
<1>3. UpToDate("build")' /\ UpToDate("do_install")' => image'.of = objs'
  BY <1>1, Targets, Prerequisites DEF Stamped, StampChain, WorkDone
<1>4. UpToDate("do_install")' /\ UpToDate("prune")' => image'.pruned
  BY <1>1, Targets, Prerequisites DEF Stamped, StampChain, WorkDone
<1>5. (\A u \in {"do_install", "prune", "strip", "cleanup", "binary"} : UpToDate(u)') => binary' = image'
  <2>1. CASE t \in {"do_install", "prune", "strip", "cleanup"}
    BY <2>1, <1>1, Targets, Prerequisites
  <2>2. CASE t = "binary"
    BY <2>2 DEF Stamped, WorkDone
  <2>3. CASE t \notin {"do_install", "prune", "strip", "cleanup", "binary"}
    BY <2>3, <1>1, Targets DEF Stamped, StampChain
  <2> QED BY <2>1, <2>2, <2>3
<1>6. UpToDate("binary")' /\ UpToDate("install")' => sysroot' = binary'
  BY <1>1, Targets, Prerequisites DEF Stamped, StampChain, WorkDone
<1>7. StampChain'
  BY <1>2, <1>3, <1>4, <1>5, <1>6 DEF Stamped, StampChain
<1>8. WorkDone'
  BY Targets DEF Stamped, Goto, WorkDone, TypeOK
<1> QED BY <1>7, <1>8

\* A command leaves the stamps alone, its own being out of date.
LEMMA CommandRuns ==
  ASSUME TypeOK, NEW t \in Target, Recipe(t), t # "autoreconfigure", Ran(t)
  PROVE  /\ st[t] = "todo" /\ Considers(t)
         /\ \A u \in Target : st'[u] = "ran" => u = t \/ st[u] = "ran"
         /\ stamp' = stamp
         /\ \A u \in Target \ Files : UpToDate(u)' <=> UpToDate(u)
         /\ ~UpToDate(t)
BY Targets DEF Ran, Goto, TypeOK, Recipe, Considers, Wanted, UpToDate, Exists, Files

\* What is unpacked into the sysroot was pruned.
LEMMA InstallsPacked ==
  ASSUME ChainInv, Considers("install")
  PROVE  binary.pruned
<1>1. /\ st["binary"] = "done" /\ st["cleanup"] = "done"
      /\ st["prune"] = "done" /\ st["strip"] = "done" /\ st["do_install"] = "done"
  BY Needs, Past, Prerequisites, Targets DEF ChainInv
<1> QED BY <1>1, Made, Targets DEF ChainInv, StampChain, Files

\* Every step keeps what the stamps speak for.
LEMMA ChainStep ==
  ASSUME ChainInv, [Next]_vars
  PROVE  StampChain' /\ WorkDone'
<1> USE DEF ChainInv, data
<1>1. CASE StartRebuild
  <2>1. \A t \in Target \ Files : ~UpToDate(t)'
    BY <1>1, Targets DEF StartRebuild, Remove, UpToDate, Exists, Files, TypeOK
  <2> QED BY <1>1, <2>1, Targets DEF StartRebuild, Remove, StampChain, WorkDone, TypeOK, Files
<1>2. ASSUME NEW goal \in Goals, NEW gone \in SUBSET {"build", "do_install", "prune", "strip", "binary"},
             StartGoal(goal, gone)
      PROVE  StampChain' /\ WorkDone'
  <2>1. \A t \in Target \ Files : UpToDate(t)' => UpToDate(t)
    BY <1>2, OldTimes DEF StartGoal, Remove
  <2> QED BY <1>2, <2>1, Targets DEF StartGoal, Remove, StampChain, WorkDone, Files
<1>3. CASE EditSources
  <2>1. \A t \in Target : st[t] # "ran"
    BY <1>3 DEF EditSources, Walks
  <2>2. \A t \in Target \ Files : UpToDate(t)' <=> UpToDate(t)
    BY <1>3, Targets DEF EditSources, UpToDate, Exists, Files
  <2> QED BY <1>3, <2>1, <2>2, Targets DEF EditSources, StampChain, WorkDone, Files
<1>4. CASE RemoveArchive
  <2>1. \A t \in Installing : UpToDate(t)' <=> UpToDate(t)
    BY <1>4, Prerequisites, Targets DEF RemoveArchive, UpToDate, Exists, Installing
  <2> QED BY <1>4, <2>1 DEF RemoveArchive, StampChain, WorkDone, Installing
<1>5. CASE Download
  <2>1. \A t \in Target \ Files : UpToDate(t)' => UpToDate(t)
    BY <1>5, OldTimes DEF Download
  <2> QED BY <1>5, <2>1, Targets DEF Download, StampChain, WorkDone, Files, Goto, TypeOK
<1>6. CASE CheckSum
  BY <1>6, StampedChain, Targets DEF CheckSum, Recipe, Files
<1>7. CASE ExtractFile
  <2>1. Recipe("extract_file") /\ Ran("extract_file")
    BY <1>7 DEF ExtractFile
  <2>2. st["build"] # "ran"
    BY <2>1, CommandRuns, Needs, Past, Prerequisites, Targets
  <2> QED BY <1>7, <2>1, <2>2, CommandRuns, Targets DEF ExtractFile, StampChain, WorkDone, Files
<1>8. CASE Patch
  <2>1. Recipe("patch") /\ Ran("patch")
    BY <1>8 DEF Patch
  <2>2. st["build"] # "ran"
    BY <2>1, CommandRuns, Needs, Past, Prerequisites, Targets
  <2> QED BY <1>8, <2>1, <2>2, CommandRuns, Targets DEF Patch, StampChain, WorkDone, Files
<1>9. CASE ConfCmd \/ Autoreconfigure
  <2>1. \A t \in Target \ Files : UpToDate(t)' => UpToDate(t)
    BY <1>9, OldTimes DEF ConfCmd, Autoreconfigure
  <2> QED BY <1>9, <2>1, Targets DEF ConfCmd, Autoreconfigure, Autoreconf, StampChain, WorkDone,
                                   Files, Goto, TypeOK
<1>10. CASE Configure
  BY <1>10, StampedChain, Targets DEF Configure, Recipe, Files
<1>11. CASE Build
  <2>1. Recipe("build") /\ Ran("build") /\ objs' = tree
    BY <1>11 DEF Build
  <2>2. st["extract_file"] = "done" /\ st["do_install"] # "ran"
    BY <2>1, CommandRuns, Needs, Past, Prerequisites, Targets
  <2>3. tree # "none"
    BY <2>2, Made, Targets DEF StampChain, Files
  <2> QED BY <1>11, <2>1, <2>2, <2>3, CommandRuns, Targets DEF Build, StampChain, WorkDone, Files
<1>12. CASE DoInstall
  <2>1. Recipe("do_install") /\ Ran("do_install") /\ image'.of = objs
    BY <1>12 DEF DoInstall
  <2>2. st["prune"] # "ran" /\ st["binary"] # "ran"
    BY <2>1, CommandRuns, Needs, Prerequisites, Targets
  <2> QED BY <1>12, <2>1, <2>2, CommandRuns, Targets DEF DoInstall, StampChain, WorkDone, Files
<1>13. CASE Prune
  <2>1. Recipe("prune") /\ Ran("prune")
    BY <1>13 DEF Prune
  <2>2. st["do_install"] = "done" /\ st["build"] = "done" /\ st["binary"] # "ran"
    BY <2>1, CommandRuns, Needs, Past, Prerequisites, Targets
  <2>3. image # NoImage
    BY <2>2, Made, Targets DEF StampChain, NoImage, Files
  <2>4. image'.of = image.of /\ image'.pruned
    BY <1>13, <2>3 DEF Prune, TypeOK, Images
  <2> QED BY <1>13, <2>1, <2>2, <2>4, CommandRuns, Targets DEF Prune, StampChain, WorkDone, Files
<1>14. CASE Strip
  <2>1. Recipe("strip") /\ Ran("strip")
    BY <1>14 DEF Strip
  <2>2. image'.of = image.of /\ image'.pruned = image.pruned
    BY <1>14 DEF Strip, TypeOK, Images
  <2>3. st["binary"] # "ran"
    BY <2>1, CommandRuns, Needs, Past, Prerequisites, Targets
  <2> QED BY <1>14, <2>1, <2>2, <2>3, CommandRuns, Targets DEF Strip, StampChain, WorkDone, Files
<1>15. CASE BuildPackages
  <2>1. Recipe("binary") /\ Ran("binary")
    BY <1>15 DEF BuildPackages
  <2>2. st["install"] # "ran"
    BY <2>1, CommandRuns, Needs, Prerequisites, Targets
  <2> QED BY <1>15, <2>1, <2>2, CommandRuns, Targets DEF BuildPackages, StampChain, WorkDone, Files
<1>16. CASE ExtractPackages
  <2>1. Recipe("install") /\ Ran("install")
    BY <1>16 DEF ExtractPackages
  <2>2. binary.pruned
    BY <2>1, InstallsPacked DEF Recipe
  <2>3. sysroot' = binary
    BY <1>16, <2>2 DEF ExtractPackages, Over, StampChain, TypeOK, Images
  <2> QED BY <1>16, <2>1, <2>2, <2>3, CommandRuns, Targets DEF ExtractPackages, StampChain, WorkDone, Files
<1>17. CASE Interrupt \/ EndRun
  <2>1. \A t \in Target \ Files : UpToDate(t)' <=> UpToDate(t)
    BY <1>17, Targets DEF Interrupt, EndRun, UpToDate, Exists, Files
  <2> QED BY <1>17, <2>1, Targets DEF Interrupt, EndRun, StampChain, WorkDone, Files
<1>18. ASSUME NEW t \in Target, Skip(t) PROVE StampChain' /\ WorkDone'
  <2>1. \A u \in Target \ Files : UpToDate(u)' <=> UpToDate(u)
    BY <1>18, Targets DEF Skip, UpToDate, Exists, Files
  <2> QED BY <1>18, <2>1, Targets DEF Skip, StampChain, WorkDone, Files, Goto, TypeOK
<1>19. ASSUME NEW t \in Target, Mark(t) PROVE StampChain' /\ WorkDone'
  BY <1>19, StampedChain DEF Mark, Recipe, Files
<1>20. ASSUME NEW t \in Target, Touch(t) PROVE StampChain' /\ WorkDone'
  BY <1>20, StampedChain DEF Touch, TypeOK
<1>21. ASSUME NEW t \in Target, Fail(t) PROVE StampChain' /\ WorkDone'
  <2>1. stamp' = stamp /\ newer' = newer /\ objs' = objs /\ \A u \in Target : st'[u] = "todo"
    BY <1>21 DEF Fail
  <2>2. \A u \in Target \ Files : UpToDate(u)' <=> UpToDate(u)
    BY <2>1, Targets DEF UpToDate, Exists, Files
  <2>3. WorkDone'
    BY <2>1, Targets DEF WorkDone
  <2>4. t # "autoreconfigure" => ~UpToDate(t)
    BY <1>21 DEF Fail, Recipe, Wanted
  <2>5. CASE t = "install"
    <3>1. binary.pruned
      BY <1>21, <2>5, InstallsPacked DEF Fail, Recipe
    <3>2. sysroot'.pruned /\ image' = image /\ binary' = binary /\ tree' = tree
      BY <1>21, <2>5, <3>1 DEF Fail, Over, StampChain, TypeOK, Images
    <3> QED BY <2>1, <2>2, <2>3, <2>4, <2>5, <3>2, Targets DEF StampChain, Files
  <2>6. CASE t = "do_install"
    BY <1>21, <2>1, <2>2, <2>3, <2>4, <2>6, Targets DEF Fail, StampChain, Files
  <2>7. CASE t = "binary"
    BY <1>21, <2>1, <2>2, <2>3, <2>4, <2>7, Targets DEF Fail, StampChain, Files
  <2>8. CASE t \notin {"do_install", "binary", "install"}
    BY <1>21, <2>1, <2>2, <2>3, <2>8, Targets DEF Fail, StampChain, Files
  <2> QED BY <2>5, <2>6, <2>7, <2>8
<1>22. CASE UNCHANGED vars
  BY <1>22 DEF vars, StampChain, WorkDone, UpToDate, Exists
<1> QED
  BY <1>1, <1>2, <1>3, <1>4, <1>5, <1>6, <1>7, <1>8, <1>9, <1>10, <1>11, <1>12, <1>13,
     <1>14, <1>15, <1>16, <1>17, <1>18, <1>19, <1>20, <1>21, <1>22, StartCases
     DEF Next

\* Every step keeps what is known of the goals that compile.
LEMMA CompilesStep ==
  ASSUME ChainInv, [Next]_vars
  PROVE  CompilesNow'
<1> USE DEF ChainInv, data
<1>1. CASE StartRebuild
  BY <1>1, Targets DEF StartRebuild, Remove, CompilesNow, Idle
<1>2. ASSUME NEW goal \in Goals \ {"rebuild"},
             NEW gone \in SUBSET {"build", "do_install", "prune", "strip", "binary"},
             goal = "build" => "build" \in gone,
             StartGoal(goal, gone)
      PROVE  CompilesNow'
  BY <1>2, Targets DEF StartGoal, Remove, CompilesNow, Goals
<1>3. CASE EditSources \/ RemoveArchive
  BY <1>3 DEF EditSources, RemoveArchive, CompilesNow, Idle
<1>4. ASSUME NEW t \in Target, t # "build", NEW s \in {"ran", "done"}, Considers(t), Goto(t, s),
             stamp' = stamp \/ stamp' = stamp \cup {t},
             UNCHANGED <<objs, tree, run, result>>
      PROVE  CompilesNow'
  BY <1>4, Targets DEF Goto, Considers, CompilesNow, Idle, TypeOK
<1>5. CASE Download \/ CheckSum
  BY <1>5, <1>4, Targets DEF Download, CheckSum, Stamped, Recipe
<1>6. CASE ExtractFile
  <2>2. st["build"] # "done"
    BY <1>6, Past DEF ExtractFile, Recipe, Considers
  <2> QED BY <1>6, <2>2, Targets DEF ExtractFile, Ran, Goto, CompilesNow, Idle, Considers, TypeOK, Recipe
<1>7. CASE Patch
  <2>2. st["build"] # "done"
    BY <1>7, Past DEF Patch, Recipe, Considers
  <2> QED BY <1>7, <2>2, Targets DEF Patch, Ran, Goto, CompilesNow, Idle, Considers, TypeOK, Recipe
<1>8. CASE ConfCmd \/ Autoreconfigure \/ Configure
  BY <1>8, <1>4, Targets DEF ConfCmd, Autoreconfigure, Autoreconf, Configure, Stamped, Recipe
<1>9. CASE Build
  BY <1>9, Targets DEF Build, Ran, Goto, CompilesNow, Idle, TypeOK
<1>10. CASE DoInstall \/ Prune \/ Strip
  BY <1>10, <1>4, Targets DEF DoInstall, Prune, Strip, Ran, Recipe
<1>11. CASE BuildPackages \/ ExtractPackages
  BY <1>11, <1>4, Targets DEF BuildPackages, ExtractPackages, Ran, Recipe
<1>12. CASE Interrupt \/ EndRun
  BY <1>12, Targets DEF Interrupt, EndRun, CompilesNow, Idle
<1>13. ASSUME NEW t \in Target, Skip(t) PROVE CompilesNow'
  <2>1. CASE t = "build"
    BY <1>13, <2>1, Targets DEF Skip, Goto, Considers, Wanted, UpToDate, Exists, CompilesNow, Idle, TypeOK
  <2> QED BY <1>13, <2>1, <1>4 DEF Skip
<1>14. ASSUME NEW t \in Target, Mark(t) PROVE CompilesNow'
  BY <1>14, <1>4 DEF Mark, Recipe, Stamped
<1>15. ASSUME NEW t \in Target, Touch(t) PROVE CompilesNow'
  BY <1>15, Targets DEF Touch, Stamped, Goto, CompilesNow, WorkDone, Idle, TypeOK
<1>16. ASSUME NEW t \in Target, Fail(t) PROVE CompilesNow'
  BY <1>16, Targets DEF Fail, CompilesNow, Idle
<1>17. CASE UNCHANGED vars
  BY <1>17 DEF vars, CompilesNow, Idle
<1> QED
  BY <1>1, <1>2, <1>3, <1>5, <1>6, <1>7, <1>8, <1>9, <1>10, <1>11, <1>12, <1>13,
     <1>14, <1>15, <1>16, <1>17, StartCases
     DEF Next

-----------------------------------------------------------------------------
(* The invariants *)

\* In a clean build directory nothing is made.
LEMMA InitInvs == Init => ChainInv /\ SetupOnce /\ Checked
<1> SUFFICES ASSUME Init PROVE ChainInv /\ SetupOnce /\ Checked
  OBVIOUS
<1>1. \A t \in Target : st[t] = "todo"
  BY DEF Init
<1>2. \A t \in Target \ Files : ~UpToDate(t)
  BY Targets DEF Init, UpToDate, Exists, Files
<1>3. Walks /\ SetupOnce /\ Checked /\ WorkDone /\ CompilesNow
  BY <1>1, Targets DEF Init, Walks, SetupOnce, Checked, WorkDone, CompilesNow
<1>4. StampChain
  BY <1>2, Targets DEF Init, StampChain, Files
<1> QED BY <1>3, <1>4, InitTypes DEF ChainInv

\* Together they imply that the stamps tell the truth.
LEMMA Truth == ChainInv /\ SetupOnce => StampsTellTruth
<1> SUFFICES ASSUME ChainInv, SetupOnce PROVE StampsTellTruth
  OBVIOUS
<1>1. \A t \in Target : Settled(t) => UpToDate(t) \/ t = "autoreconfigure"
  BY DEF Settled, Wanted
<1>2. Settled("do_install") \/ Settled("build") => UpToDate("build")
  BY Targets, InBefore DEF Settled, Wanted
<1>3. Settled("prune") => UpToDate("do_install")
  BY Targets, InBefore DEF Settled, Wanted
<1>4. Settled("install") => UpToDate("binary")
  BY Targets, InBefore DEF Settled, Wanted
<1>5. Settled("binary") => \A t \in {"do_install", "prune", "strip", "cleanup"} : UpToDate(t)
  BY Targets, InBefore DEF Settled, Wanted
<1>6. UpToDate("patch") => "patch" \in stamp
  BY DEF UpToDate, Exists
<1>7. UpToDate("build") => "build" \in stamp
  BY DEF UpToDate, Exists
<1> QED BY <1>1, <1>2, <1>3, <1>4, <1>5, <1>6, <1>7, Targets
           DEF StampsTellTruth, ChainInv, StampChain, SetupOnce

\* Every step keeps the chain from the build to the sysroot.
LEMMA ChainKept == ChainInv /\ [Next]_vars => ChainInv'
BY TypeStep, WalkStep, ChainStep, CompilesStep DEF ChainInv

\* And so it holds in all behaviours.
LEMMA ChainHolds == Spec => []ChainInv
<1>1. Init => ChainInv
  BY InitInvs
<1> QED BY <1>1, ChainKept, PTL DEF Spec

\* With the setup, in those that unpack no bad archive.
LEMMA SetupHolds == ASSUME Careful PROVE Spec /\ ExtractsVerified => []SetupOnce
<1>1. Init => SetupOnce
  BY InitInvs
<1>2. ChainInv /\ SetupOnce /\ [Next]_vars /\ [ExtractFile => archive = "good"]_vars => SetupOnce'
  <2> SUFFICES ASSUME ChainInv, SetupOnce, [Next]_vars, [ExtractFile => archive = "good"]_vars
               PROVE  SetupOnce'
    OBVIOUS
  <2>1. CASE UNCHANGED vars
    BY <2>1 DEF vars, data, SetupOnce, UpToDate, Exists
  <2> QED BY <2>1, SetupStep DEF ChainInv
<1> QED BY <1>1, <1>2, ChainHolds, PTL DEF Spec, ExtractsVerified

\* At every moment, after failures and interruptions too, stamps that need no
\* work tell the truth, with -j as well as long as no bad archive was unpacked
\* (cmd_stamp and the rules that use it).
THEOREM Invariance ==
  ASSUME Careful
  PROVE  Spec /\ ExtractsVerified => []StampInv
<1>1. ChainInv /\ SetupOnce => StampInv
  BY Truth DEF ChainInv, StampInv
<1> QED BY <1>1, ChainHolds, SetupHolds, PTL

-----------------------------------------------------------------------------
(* Properties *)

\* Without -j all earlier targets have their stamps.
LEMMA InTurn ==
  ASSUME Serial, Walks, NEW t \in Target, Considers(t)
  PROVE  \A u \in Target \ Files : u \in Before[t] /\ u # "autoreconfigure" => u \in stamp
BY Made DEF Serial, Considers

\* Without -j nothing is unpacked from an archive whose checksum does not match
\* (the rules of .chksum and .extract_file).
THEOREM VerifiedArchives ==
  ASSUME Serial
  PROVE  Spec => ExtractsVerified
<1>1. Careful
  BY DEF Serial, Careful
<1>2. Init => Checked
  BY InitInvs
<1>3. ChainInv /\ Checked /\ [Next]_vars => Checked'
  BY <1>1, CheckedStep DEF ChainInv
<1>4. ASSUME ChainInv, Checked, ExtractFile PROVE archive = "good"
  BY <1>4, InTurn, InBefore, Targets DEF ExtractFile, Recipe, ChainInv, Checked, Files
<1>5. ChainInv /\ Checked => [ExtractFile => archive = "good"]_vars
  BY <1>4
<1> QED BY <1>2, <1>3, <1>5, ChainHolds, PTL DEF Spec, ExtractsVerified

\* So the stamps tell the truth without further assumption, and the inductive
\* invariant holds in every make without -j.
THEOREM SerialInvariance ==
  ASSUME Serial
  PROVE  Spec => []StampInv
<1>1. Careful
  BY DEF Serial, Careful
<1> QED BY <1>1, VerifiedArchives, Invariance, PTL

\* Without -j nothing is configured or compiled before the sources are patched
\* (the order of the prerequisites of .install in Makefile.package).
THEOREM SourcesFirst ==
  ASSUME Serial
  PROVE  Spec => []SetupBeforeBuild
<1>1. ASSUME StampInv PROVE SetupBeforeBuild
  <2> SUFFICES ASSUME NEW t \in {"conf_cmd", "autoreconfigure", "configure", "build"}, Recipe(t)
               PROVE  tree \in {"patched", "edited"}
    BY DEF SetupBeforeBuild
  <2>1. "patch" \in Before[t] /\ t \in Target
    BY InBefore, Targets
  <2>2. "patch" \in stamp
    BY <1>1, <2>1, InTurn, Targets DEF Recipe, StampInv, Files
  <2> QED BY <1>1, <2>2 DEF StampInv, SetupOnce
<1> QED BY <1>1, SerialInvariance, PTL

\* What a goal that succeeded says of the sysroot by itself: it was made from
\* the tree, pruned, and with make install from the objects.
Delivered ==
  /\ result = "build" => sysroot.of = tree
  /\ result = "rebuild" => sysroot.of = tree /\ tree # "edited"
  /\ result # "none" => sysroot.of = objs /\ sysroot.pruned /\ "build" \in stamp

\* Every step keeps the promises of the goals.
LEMMA ResultStep ==
  ASSUME ChainInv, Delivered, [Next]_vars
  PROVE  Delivered'
<1> USE DEF ChainInv, data, Delivered
<1>1. CASE EndRun
  <2>1. \A t \in Target : Wanted(t) => UpToDate(t)
    BY <1>1 DEF EndRun, Walks
  <2>2. \A t \in Target : t # "autoreconfigure" => UpToDate(t)
    BY <2>1 DEF Wanted
  <2>3. sysroot = image /\ image.of = objs /\ image.pruned /\ "build" \in stamp
    BY <2>2, Targets DEF StampChain, UpToDate, Exists
  <2>4. run \in {"build", "rebuild"} => objs = tree
    BY <1>1, Targets DEF EndRun, CompilesNow
  <2> QED BY <1>1, <2>3, <2>4 DEF EndRun, CompilesNow
<1>2. CASE result' = "none"
  BY <1>2
<1>3. CASE result' = result /\ ~Idle
  BY <1>2, <1>3 DEF CompilesNow
<1>4. CASE UNCHANGED <<sysroot, tree, objs, stamp, result>>
  BY <1>4
<1>5. ASSUME NEW t \in Target, Skip(t) \/ Mark(t) \/ Touch(t) \/ Fail(t)
      PROVE  result' = result /\ ~Idle
  BY <1>5 DEF Skip, Mark, Touch, Fail, Recipe, Stamped, Considers, Walks
<1>6. Start \/ EditSources => result' = "none"
  BY DEF Start, StartRebuild, StartGoal, EditSources
<1>7. RemoveArchive \/ UNCHANGED vars => UNCHANGED <<sysroot, tree, objs, stamp, result>>
  BY DEF RemoveArchive, vars
<1>8. Interrupt => result' = result /\ ~Idle
  BY DEF Interrupt
<1>9. Download \/ CheckSum \/ ExtractFile \/ Patch \/ ConfCmd \/ Autoreconfigure \/ Configure
        => result' = result /\ ~Idle
  BY DEF Download, CheckSum, ExtractFile, Patch, ConfCmd, Autoreconfigure, Configure, Recipe,
         Considers, Stamped, Ran
<1>10. Build \/ DoInstall \/ Prune \/ Strip \/ BuildPackages \/ ExtractPackages
         => result' = result /\ ~Idle
  BY DEF Build, DoInstall, Prune, Strip, BuildPackages, ExtractPackages, Recipe, Considers, Ran
<1> QED BY <1>1, <1>2, <1>3, <1>4, <1>5, <1>6, <1>7, <1>8, <1>9, <1>10 DEF Next

\* And so they hold in all behaviours.
LEMMA GoalsDeliver == Spec => []Delivered
<1>1. Init => Delivered
  BY DEF Init, Delivered
<1>2. ChainInv /\ Delivered /\ [Next]_vars => Delivered'
  BY ResultStep
<1> QED BY <1>1, <1>2, ChainHolds, PTL DEF Spec

\* A goal that succeeds has brought what the sources give into the sysroot,
\* <p>/build the user's changes, with -j as well as long as no bad archive was
\* unpacked (the rules from .build to .install in Makefile.package, binary.mk).
THEOREM SourcesInstalled ==
  ASSUME Careful
  PROVE  Spec /\ ExtractsVerified => []InstallsSources
<1>1. SetupOnce /\ Delivered => InstallsSources
  <2> SUFFICES ASSUME SetupOnce, Delivered PROVE InstallsSources
    OBVIOUS
  <2>1. result # "none" => sysroot.of \in {"patched", "edited"}
    BY DEF SetupOnce, Delivered
  <2> QED BY <2>1 DEF Delivered, InstallsSources
<1> QED BY <1>1, GoalsDeliver, SetupHolds, PTL

\* Without -j nothing has to be assumed.
THEOREM SerialSourcesInstalled ==
  ASSUME Serial
  PROVE  Spec => []InstallsSources
<1>1. Careful
  BY DEF Serial, Careful
<1> QED BY <1>1, VerifiedArchives, SourcesInstalled, PTL

\* And no file that prune.mk removes, even after earlier installations that
\* failed half way, whatever the habits (Makefile.prune, binary.mk).
THEOREM PrunedInstalled == Spec => []InstallsPruned
<1>1. Delivered => InstallsPruned
  BY DEF Delivered, InstallsPruned
<1> QED BY <1>1, GoalsDeliver, PTL
=============================================================================
