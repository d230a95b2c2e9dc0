---------------------------- MODULE PackageBuild ----------------------------
(***************************************************************************)
(* The build of one package: scripts/Makefile.package with the rules of    *)
(* packages/autotools.mk (or autotools-reconf.mk), cleanup.mk, prune.mk,   *)
(* strip.mk, config-scripts.mk and binary.mk.  Every step is a stamp file  *)
(* whose rule runs a command and then touches it; make compares the times  *)
(* of the stamps and, without -j, walks the prerequisites in order.  With  *)
(* -j it starts every step whose own prerequisites are made, and nothing   *)
(* else orders two steps.                                                  *)
(*                                                                         *)
(* A run can fail in any command or be stopped between any two; the next   *)
(* one goes on from the stamps.  What the steps really work on (archive,   *)
(* source tree, objects, install tree, binary packages, sysroot) is kept   *)
(* apart from the stamps: do they tell the truth about it?                 *)
(***************************************************************************)
EXTENDS Naturals

CONSTANTS
  Reconf,   \* the package includes autotools-reconf.mk
  Ships,    \* its archive has a configure script
  Patches,  \* it has a series of patches
  Habits    \* what happens beyond a serial make:
            \*   parallel    make -j
            \*   build       the goal <p>/build
            \*   edit        the user edits the sources in the build directory
            \*   redownload  the user removes an archive that is in order

ASSUME PackageAssumption ==
  /\ Reconf \in BOOLEAN /\ Ships \in BOOLEAN /\ Patches \in BOOLEAN
  /\ Habits \subseteq {"parallel", "build", "edit", "redownload"}

\* In the order a serial make gets to them.
MakeOrder ==
  <<"directory", "archive", "chksum", "checksum", "extract_file", "extract",
    "setup", "patch", "conf_cmd", "autoreconfigure", "configure", "build",
    "do_install", "config_scripts", "prune", "strip", "cleanup", "binary",
    "install">>

Target == {MakeOrder[i] : i \in DOMAIN MakeOrder}
Before == [t \in Target |->
  {q \in Target : \E i, j \in DOMAIN MakeOrder :
                    i < j /\ q = MakeOrder[i] /\ t = MakeOrder[j]}]
Files  == {"archive", "conf_cmd"}     \* made, but not stamp files

Prereq == [t \in Target |->
  CASE t = "chksum"         -> {"archive"}
    [] t = "checksum"       -> {"directory", "chksum"}
    [] t = "extract_file"   -> {"archive"}
    [] t = "extract"        -> {"checksum", "extract_file"}
    [] t = "setup"          -> {"extract"}
    [] t = "patch"          -> {"setup"}
    [] t = "configure"      -> {"patch", "conf_cmd"} \cup
                                 (IF Reconf THEN {"autoreconfigure"} ELSE {})
    [] t = "build"          -> {"configure"}
    [] t = "do_install"     -> {"build"}
    [] t = "config_scripts" -> {"do_install"}
    [] t = "prune"          -> {"do_install"}
    [] t = "cleanup"        -> {"config_scripts", "prune", "strip"}
    [] t = "binary"         -> {"do_install", "cleanup"}
    [] t = "install"        -> {"binary"}
    [] OTHER                -> {}]    \* .directory, .strip, .autoreconfigure, ...

Goals == {"install", "rebuild", "build", "reinstall", "repack"}
Trees == {"none", "partial", "bad", "plain", "patched", "edited"}

\* What is in an install tree, a set of binary packages or the sysroot.
Images  == [of : Trees \cup {"mixed"}, pruned : BOOLEAN, stripped : BOOLEAN]
NoImage == [of |-> "none", pruned |-> FALSE, stripped |-> FALSE]
Mixed   == [of |-> "mixed", pruned |-> FALSE, stripped |-> FALSE]

VARIABLES
  stamp,    \* the stamp files that exist
  newer,    \* <<q, t>>: q, a prerequisite of t, is newer than t's stamp
  archive,  \* the file in download/
  tree,     \* the source tree
  script,   \* the source tree has a configure script
  quilt,    \* quilt's records in the tree say all patches are applied
  objs,     \* the sources the objects are compiled from
  image,    \* the install tree
  binary,   \* the binary packages
  sysroot,  \* the package's files in the sysroot
  run,      \* the goal make works on
  st,       \* st[t]: where make is with t
  result    \* the last goal, if it succeeded

data == <<archive, tree, script, quilt, objs, image, binary, sysroot>>
vars == <<stamp, newer, data, run, st, result>>

Init ==
  /\ stamp = {}
  /\ newer = {}
  /\ archive = "none"
  /\ tree = "none"
  /\ script = FALSE
  /\ quilt = FALSE
  /\ objs = "none"
  /\ image = NoImage
  /\ binary = NoImage
  /\ sysroot = NoImage
  /\ run = "none"
  /\ st = [t \in Target |-> "todo"]
  /\ result = "none"

-----------------------------------------------------------------------------
(* The user *)

Idle == run = "none"

\* The stamps in gone are removed, as rm -f does.
Remove(gone) ==
  /\ stamp' = stamp \ gone
  /\ newer' = {e \in newer : e[2] \notin gone}

\* make <p>/rebuild (and the platform's clean and install): clean first.
StartRebuild ==
  /\ Idle
  /\ Remove(Target)
  /\ tree' = "none"
  /\ script' = FALSE
  /\ quilt' = FALSE
  /\ objs' = "none"
  /\ image' = NoImage
  /\ run' = "rebuild"
  /\ st' = [t \in Target |-> "todo"]
  /\ result' = "none"
  /\ UNCHANGED <<archive, binary, sysroot>>

\* Mutant of StartGoal: no stamp is removed.
StartGoalKeeping(goal, gone) ==
  /\ Idle
  /\ Remove({})
  /\ run' = goal
  /\ st' = [t \in Target |-> "todo"]
  /\ result' = "none"
  /\ UNCHANGED data

\* install, <p>/build, <p>/install (reinstall) and <p>/binary (repack): the
\* stamps of the steps to repeat are removed, then make install.
StartGoal(goal, gone) ==
  /\ Idle
  /\ Remove(gone)
  /\ run' = goal
  /\ st' = [t \in Target |-> "todo"]
  /\ result' = "none"
  /\ UNCHANGED data

Start ==
  \/ StartRebuild
  \/ StartGoal("install", {})
  \/ "build" \in Habits /\ StartGoal("build", {"build"})
  \/ StartGoal("reinstall", {"do_install", "prune", "strip"})
  \/ StartGoal("repack", {"binary"})

\* The user changes the sources in the build directory.  Bounded to packages
\* that are installed: earlier edits are compiled with the rest.
EditSources ==
  /\ Idle
  /\ "edit" \in Habits
  /\ tree = "patched" /\ "install" \in stamp
  /\ tree' = "edited"
  /\ result' = "none"
  /\ UNCHANGED <<stamp, newer, archive, script, quilt, objs, image, binary, sysroot, run, st>>

\* The user removes an archive whose checksum did not match.
RemoveArchive ==
  /\ Idle
  /\ archive = "bad" \/ (archive = "good" /\ "redownload" \in Habits)
  /\ archive' = "none"
  /\ newer' = {e \in newer : e[1] # "archive"}
  /\ UNCHANGED <<stamp, tree, script, quilt, objs, image, binary, sysroot, run, st, result>>

-----------------------------------------------------------------------------
(* make *)

Exists(t) ==
  CASE t = "archive"  -> archive # "none"
    [] t = "conf_cmd" -> script
    [] OTHER          -> t \in stamp

UpToDate(t) == Exists(t) /\ \A q \in Prereq[t] : <<q, t>> \notin newer

\* make gets to t: its prerequisites are made and, without -j, so is all
\* that comes before it.
Considers(t) ==
  /\ ~Idle
  /\ st[t] = "todo"
  /\ \A q \in Prereq[t] : st[q] = "done"
  /\ \/ "parallel" \in Habits
     \/ \A q \in Before[t] : st[q] = "done"

Goto(t, s) == st' = [st EXCEPT ![t] = s]

Wanted(t) == t = "autoreconfigure" => Reconf

Skip(t) ==
  /\ Considers(t)
  /\ Wanted(t) => UpToDate(t)
  /\ Goto(t, "done")
  /\ UNCHANGED <<stamp, newer, data, run, result>>

\* t's command starts.
Recipe(t) == Considers(t) /\ Wanted(t) /\ ~UpToDate(t)

\* t's command is done; cmd_stamp comes next.
Ran(t) == Goto(t, "ran") /\ UNCHANGED <<stamp, newer, run, result>>

\* Mutant of Stamped: a stamp file that exists keeps its time.
StampedOnce(t) ==
  /\ stamp' = stamp \cup {t}
  /\ newer' = IF t \in stamp THEN newer
              ELSE newer \cup {<<t, u>> : u \in {v \in stamp : t \in Prereq[v]}}
  /\ Goto(t, "done")
  /\ UNCHANGED <<data, run, result>>

\* $(call cmd,stamp)
Stamped(t) ==
  /\ stamp' = stamp \cup {t}
  /\ newer' = {e \in newer : e[2] # t} \cup
              {<<t, u>> : u \in {v \in stamp : t \in Prereq[v]}}
  /\ Goto(t, "done")
  /\ UNCHANGED <<data, run, result>>

Touch(t) == st[t] = "ran" /\ Stamped(t)

\* Rules with no other command, and commands nothing of which is kept here,
\* are one step with their stamp.
Mark(t) ==
  /\ t \in {"directory", "checksum", "extract", "setup", "config_scripts", "cleanup"}
  /\ Recipe(t)
  /\ Stamped(t)

\* scripts/download: the archive, good or not, dated now or by the server.
Download ==
  /\ Recipe("archive")
  /\ archive' \in {"good", "bad"}
  /\ \/ newer' = newer
     \/ newer' = newer \cup
          {<<"archive", u>> : u \in {"chksum", "extract_file"} \cap stamp}
  /\ Goto("archive", "done")
  /\ UNCHANGED <<stamp, tree, script, quilt, objs, image, binary, sysroot, run, result>>

\* Mutant of CheckSum: the status of sha256sum is lost.
CheckSumAny ==
  /\ Recipe("chksum")
  /\ Stamped("chksum")

\* cmd_checksum_sha256: the step fails for a bad archive.
CheckSum ==
  /\ Recipe("chksum")
  /\ archive = "good"
  /\ Stamped("chksum")

\* cmd_tar_*: unpacks over whatever is there; quilt's records stay.
ExtractFile ==
  /\ Recipe("extract_file")
  /\ tree' = IF archive = "good" THEN "plain" ELSE "bad"
  /\ script' = (script \/ Ships)
  /\ Ran("extract_file")
  /\ UNCHANGED <<archive, quilt, objs, image, binary, sysroot>>

\* Mutant of Patch: quilt may fail in any way.
PatchTolerant ==
  /\ Recipe("patch")
  /\ UNCHANGED <<tree, quilt>>
  /\ Ran("patch")
  /\ UNCHANGED <<archive, script, objs, image, binary, sysroot>>

\* cmd_quilt_patch, if there is a series: push -a, where the exit status 2
\* (fully applied) is fine.  Sources without a series are as good as patched.
\* Patches that apply to what is not the package's sources do not mend it.
Patch ==
  /\ Recipe("patch")
  /\ tree' = IF tree = "plain" /\ ~quilt THEN "patched" ELSE tree
  /\ quilt' = (quilt \/ Patches)
  /\ Ran("patch")
  /\ UNCHANGED <<archive, script, objs, image, binary, sysroot>>

\* autoreconf, which fails without a source tree, writes a new configure.
Autoreconf ==
  /\ tree # "none"
  /\ script' = TRUE
  /\ UNCHANGED <<archive, tree, quilt, objs, image, binary, sysroot>>

\* For a package that ships no configure script.
ConfCmd ==
  /\ Recipe("conf_cmd")
  /\ Autoreconf
  /\ newer' = newer \cup {<<"conf_cmd", u>> : u \in {"configure"} \cap stamp}
  /\ Goto("conf_cmd", "done")
  /\ UNCHANGED <<stamp, run, result>>

\* With autotools-reconf.mk.
Autoreconfigure ==
  /\ Recipe("autoreconfigure")
  /\ Autoreconf
  /\ newer' = newer \cup {<<"conf_cmd", u>> : u \in {"configure"} \cap stamp}
  /\ Goto("autoreconfigure", "ran")
  /\ UNCHANGED <<stamp, run, result>>

\* configure, too, fails without a source tree.
Configure ==
  /\ Recipe("configure")
  /\ script /\ tree # "none"
  /\ Stamped("configure")

\* make in the object directory compiles what changed.
Build ==
  /\ Recipe("build")
  /\ objs' = tree
  /\ Ran("build")
  /\ UNCHANGED <<archive, tree, script, quilt, image, binary, sysroot>>

\* make install DESTDIR=...: pruned files are back, stripped ones are whole.
DoInstall ==
  /\ Recipe("do_install")
  /\ image' = [of |-> objs, pruned |-> FALSE, stripped |-> FALSE]
  /\ Ran("do_install")
  /\ UNCHANGED <<archive, tree, script, quilt, objs, binary, sysroot>>

\* scripts/Makefile.prune on the files that are there.
Prune ==
  /\ Recipe("prune")
  /\ image' = [image EXCEPT !.pruned = image # NoImage]
  /\ Ran("prune")
  /\ UNCHANGED <<archive, tree, script, quilt, objs, binary, sysroot>>

\* scripts/Makefile.strip on the files that are there.
Strip ==
  /\ Recipe("strip")
  /\ image' = [image EXCEPT !.stripped = image # NoImage]
  /\ Ran("strip")
  /\ UNCHANGED <<archive, tree, script, quilt, objs, binary, sysroot>>

\* pbs-install and pbs-binary pack the install tree.
BuildPackages ==
  /\ Recipe("binary")
  /\ binary' = image
  /\ Ran("binary")
  /\ UNCHANGED <<archive, tree, script, quilt, objs, image, sysroot>>

\* tar unpacks over what is there: a file that is no longer in the packages,
\* because it is pruned now, stays.
Over(old, new) == [new EXCEPT !.pruned = @ /\ (old = NoImage \/ old.pruned)]

\* The binary packages are unpacked into the sysroot.
ExtractPackages ==
  /\ Recipe("install")
  /\ sysroot' = Over(sysroot, binary)
  /\ Ran("install")
  /\ UNCHANGED <<archive, tree, script, quilt, objs, image, binary>>

\* t's command fails or is killed half way, and make with it.
Fail(t) ==
  /\ Recipe(t)
  /\ tree' = IF t = "extract_file" THEN "partial" ELSE tree
  /\ script' \in {script} \cup (IF t \in {"conf_cmd", "autoreconfigure"} THEN {tree # "none"}
                             ELSE IF t = "extract_file" THEN {script \/ Ships} ELSE {})
  /\ image' = IF t = "do_install" THEN Mixed ELSE image
  /\ binary' = IF t = "binary" THEN Mixed ELSE binary
  /\ sysroot' = IF t = "install"
                THEN [Over(sysroot, binary) EXCEPT !.of = "mixed", !.stripped = FALSE]
                ELSE sysroot
  /\ run' = "none"
  /\ st' = [u \in Target |-> "todo"]
  /\ UNCHANGED <<stamp, newer, archive, quilt, objs, result>>

\* make is stopped between two commands.
Interrupt ==
  /\ ~Idle
  /\ run' = "none"
  /\ st' = [t \in Target |-> "todo"]
  /\ UNCHANGED <<stamp, newer, data, result>>

EndRun ==
  /\ ~Idle
  /\ \A t \in Target : st[t] = "done"
  /\ result' = run
  /\ run' = "none"
  /\ st' = [t \in Target |-> "todo"]
  /\ UNCHANGED <<stamp, newer, data>>

Next ==
  \/ Start \/ EditSources \/ RemoveArchive
  \/ Download \/ CheckSum \/ ExtractFile \/ Patch
  \/ ConfCmd \/ Autoreconfigure \/ Configure
  \/ Build \/ DoInstall \/ Prune \/ Strip \/ BuildPackages \/ ExtractPackages
  \/ Interrupt \/ EndRun
  \/ \E t \in Target : Skip(t) \/ Mark(t) \/ Touch(t) \/ Fail(t)

Spec == Init /\ [][Next]_vars

-----------------------------------------------------------------------------
(* Properties *)

\* The variables stay within their types.
TypeOK ==
  /\ stamp \subseteq Target \ Files
  /\ newer \subseteq {e \in Target \X Target : e[1] \in Prereq[e[2]]}
  /\ archive \in {"none", "good", "bad"}
  /\ tree \in Trees /\ objs \in Trees
  /\ script \in BOOLEAN /\ quilt \in BOOLEAN
  /\ image \in Images /\ binary \in Images /\ sysroot \in Images
  /\ run \in {"none"} \cup Goals
  /\ st \in [Target -> {"todo", "ran", "done"}]
  /\ \A t \in Files \cup {"chksum"} : st[t] # "ran"
  /\ result \in {"none"} \cup Goals

\* t and all that comes before it in a serial make need no work.
Settled(t) == \A q \in Before[t] \cup {t} : Wanted(q) => UpToDate(q)

\* At any moment, between two commands and after a crash too, stamps that
\* need no work tell the truth about what was made: a run that goes on from
\* them misses nothing (the stamp rules of autotools.mk, prune.mk, binary.mk).
StampsTellTruth ==
  /\ Settled("patch")      => tree \in {"patched", "edited"}
  /\ Settled("build")      => objs \in {"patched", "edited"}
  /\ Settled("do_install") => image.of = objs
  /\ Settled("prune")      => image.pruned
  /\ Settled("binary")     => binary = image
  /\ Settled("install")    => sysroot = binary

\* What the truth of the stamps rests on.  A make in progress has made what
\* the targets it got to are made from.
Walks ==
  \A t \in Target :
    st[t] # "todo" =>
      /\ ~Idle
      /\ \A q \in Prereq[t] : st[q] = "done"
      /\ st[t] = "done" => (Wanted(t) => UpToDate(t))

\* Setup happens once: what is unpacked, patched and compiled is the verified
\* archive, which is not unpacked again before a rebuild has removed tree and
\* stamps.
SetupOnce ==
  /\ "chksum" \in stamp => archive = "good"
  /\ "extract_file" \in stamp => UpToDate("extract_file")
  /\ "extract_file" \in stamp \/ st["extract_file"] = "ran" =>
       archive = "good" /\ tree \in {"plain", "patched", "edited"}
  /\ tree \in {"patched", "edited"} => "extract_file" \in stamp
  /\ quilt \/ "patch" \in stamp \/ st["patch"] = "ran" => tree \in {"patched", "edited"}
  /\ "build" \in stamp \/ st["build"] = "ran" => objs \in {"patched", "edited"}

\* Each stamp speaks for its own command only; a command that was repeated
\* shows in the times of the stamps after it.
StampChain ==
  /\ "extract_file" \in stamp => tree # "none"
  /\ "build" \in stamp => objs # "none"
  /\ UpToDate("build") /\ UpToDate("do_install") => image.of = objs
  /\ UpToDate("do_install") /\ UpToDate("prune") => image.pruned
  /\ (\A t \in {"do_install", "prune", "strip", "cleanup", "binary"} : UpToDate(t)) => binary = image
  /\ UpToDate("binary") /\ UpToDate("install") => sysroot = binary
  /\ sysroot = NoImage \/ sysroot.pruned

\* A command that ran, but has no stamp yet, did its work.
WorkDone ==
  /\ st["extract_file"] = "ran" => tree # "none"
  /\ st["build"] = "ran" => objs = tree /\ tree # "none"
  /\ st["do_install"] = "ran" => image.of = objs
  /\ st["prune"] = "ran" => image.pruned
  /\ st["binary"] = "ran" => binary = image
  /\ st["install"] = "ran" => sysroot = binary

\* <p>/build and <p>/rebuild compile what is there now.
CompilesNow ==
  /\ run \in {"build", "rebuild"} =>
       /\ st["build"] = "todo" => "build" \notin stamp
       /\ st["build"] = "done" => objs = tree
  /\ run = "rebuild" => tree # "edited"
  /\ result # "none" => Idle

\* Types and stamps together.
StampInv ==
  TypeOK /\ StampsTellTruth /\ Walks /\ SetupOnce /\ StampChain /\ WorkDone /\ CompilesNow

\* "1) Setup - the sources will be downloaded, verified and extracted. 2)
\* Build - The package is configured and built": no command of the second
\* step can start before the sources are there and patched.
SetupBeforeBuild ==
  \A t \in {"conf_cmd", "autoreconfigure", "configure", "build"} :
    Recipe(t) => tree \in {"patched", "edited"}

\* The same promise for what gets done: an autoreconf or configure that finds
\* sources finds patched ones (one that finds none fails at once).
ConfiguresPatched ==
  [][ConfCmd \/ Autoreconfigure \/ Configure => tree \in {"patched", "edited"}]_vars

\* Sources are unpacked from an archive with the right checksum only.
ExtractsVerified == [][ExtractFile => archive = "good"]_vars

\* When a goal succeeded, the sysroot has what the sources give: <p>/build
\* has picked up all changes made in the build directory, <p>/rebuild none.
InstallsSources ==
  /\ result = "build" => sysroot.of = tree
  /\ result = "rebuild" => sysroot.of = "patched"
  /\ result # "none" => sysroot.of \in {"patched", "edited"}

\* When a goal succeeded, no pruned file is in the sysroot, not even left over
\* from an earlier installation (prune.mk, binary.mk).
InstallsPruned == result # "none" => sysroot.pruned

\* When a goal succeeded, the marked files are stripped in what is installed:
\* "stripfiles defines all files that should be stripped" (packages.md:79).
InstallsStripped == result # "none" => sysroot.stripped
=============================================================================
