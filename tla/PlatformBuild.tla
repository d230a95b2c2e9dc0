--------------------------- MODULE PlatformBuild ---------------------------
(***************************************************************************)
(* The platform build: the top-level Makefile hands the goals build and    *)
(* rebuild-sysroot to scripts/Makefile.platform, which rebuilds packages   *)
(* along the rules of the generated include/config/depends.mk:             *)
(*                                                                         *)
(*   build/<p>/.install: build/<p>.hash build/<d>/.install ... \           *)
(*                       | build/<stable d>/.install ...                   *)
(*                                                                         *)
(* and the single-package goals <p>/rebuild, <p>/clean and <p>/install.    *)
(* What make compares are file times, so the state keeps, instead of a     *)
(* clock, which prerequisite is newer than which target.  What a build     *)
(* really is made from is kept apart (binary, usesOld, sysroot): the       *)
(* question is whether the file times tell the truth about it.             *)
(*                                                                         *)
(* Packages of one run are built in parallel (make -j) where the rules     *)
(* allow it.  One make runs at a time in a build directory.  A whole       *)
(* package build up to its binary tarballs is the step Build here; module  *)
(* PackageBuild is about its inside.                                       *)
(***************************************************************************)
EXTENDS Naturals, BuildPlan

CONSTANTS
  Package,    \* the selected, non-virtual packages
  Deps,       \* Deps[p]: the packages p is built after
  Stable,     \* packages with HAVE_STABLE_ABI: order-only when needed
  None,       \* there is no hash file, or no built tree
  Rank,       \* position of a package in depends-dirs
  MaxVersion, \* contents p's Makefile takes: 0..MaxVersion[p]
  Habits      \* what the user does beyond the careful use of PBS:
              \*   revert        give a Makefile a content it had before
              \*   edit          edit a Makefile while make runs
              \*   install       use the goal <p>/install
              \*   interrupt     let rebuild-sysroot fail or stop half way
              \*   unfinished    use rebuild-sysroot on a tree whose last
              \*                 build did not succeed
              \*   parallel      give -j to rebuild-sysroot

AllHabits == {"revert", "edit", "install", "interrupt", "unfinished", "parallel"}

Version == UNION {0..MaxVersion[p] : p \in Package}
Goals   == {"build", "rebuild-sysroot"}
Singles == {"rebuild", "clean", "install"}

ASSUME PlatformAssumption ==
  /\ IsBuildPlan(Package, Deps, Stable, Rank)
  /\ MaxVersion \in [Package -> Nat]
  /\ None \notin Nat
  /\ Habits \subseteq AllHabits

VARIABLES
  makefile,   \* makefile[p]: content of <p>/Makefile
  mkNewer,    \* packages whose Makefile is newer than build/<p>.hash
  hash,       \* hash[p]: the content build/<p>.hash was made from
  hashNewer,  \* packages whose hash is newer than build/<p>/.install
  stamp,      \* packages for which build/<p>/.install exists
  depNewer,   \* <<d, p>>: build/<d>/.install newer than build/<p>/.install
  binary,     \* binary[p]: the Makefile content p's build tree was built from
  usesOld,    \* <<d, p>>: that build of p was not made with d's current one
  sysroot,    \* sysroot[p]: what is unpacked of p in the sysroot
  run,        \* the goal make is working on
  st,         \* st[p]: where make is with p
  result      \* how the last run of goal build ended

files == <<makefile, mkNewer, hash, hashNewer, stamp, depNewer>>
trees == <<binary, usesOld, sysroot>>
vars  == <<files, trees, run, st, result>>

DepPairs == {e \in Package \X Package : e[1] \in Deps[e[2]]}
Steps    == {"todo", "hashed", "clean", "make", "extract", "stamp", "done", "failed"}
Active   == {"clean", "make", "extract", "stamp"}

Init ==
  /\ makefile  = [p \in Package |-> 0]
  /\ mkNewer   = Package
  /\ hash      = [p \in Package |-> None]
  /\ hashNewer = {}
  /\ stamp     = {}
  /\ depNewer  = {}
  /\ binary    = [p \in Package |-> None]
  /\ usesOld   = {}
  /\ sysroot   = [p \in Package |-> "none"]
  /\ run       = "none"
  /\ st        = [p \in Package |-> "todo"]
  /\ result    = "none"

Goto(p, s) == st' = [st EXCEPT ![p] = s]

-----------------------------------------------------------------------------
(* The user *)

\* Edit a package's Makefile (or a file its depends.mk adds to the hash).
Edit(p) ==
  /\ run = "none" \/ "edit" \in Habits
  /\ \E v \in 0..MaxVersion[p] :
       /\ v > makefile[p] \/ ("revert" \in Habits /\ v < makefile[p])
       /\ makefile' = [makefile EXCEPT ![p] = v]
  /\ mkNewer' = mkNewer \cup {p}
  /\ result' = "none"
  /\ UNCHANGED <<hash, hashNewer, stamp, depNewer, trees, run, st>>

\* make build
StartBuild ==
  /\ run = "none"
  /\ run' = "build"
  /\ st' = [p \in Package |-> "todo"]
  /\ result' = "none"
  /\ UNCHANGED <<files, trees>>

\* make rebuild-sysroot: all the rebuild-sysroot-% wait for remove-sysroot.
StartRebuildSysroot ==
  /\ run = "none"
  /\ result = "ok" \/ "unfinished" \in Habits
  /\ run' = "rebuild-sysroot"
  /\ st' = [p \in Package |-> "todo"]
  /\ sysroot' = [p \in Package |-> "none"]
  /\ result' = "none"
  /\ UNCHANGED <<files, binary, usesOld>>

\* make <p>/rebuild, <p>/clean, <p>/install: no prerequisite is looked at.
StartSingle(p, goal) ==
  /\ run = "none"
  /\ goal \in Singles
  /\ goal = "install" => "install" \in Habits
  /\ run' = goal
  /\ st' = [q \in Package |->
              IF q # p THEN "done" ELSE IF goal = "install" THEN "make" ELSE "clean"]
  \* %/install removes .do-install, which makes .install out of date.
  /\ stamp' = IF goal = "install" THEN stamp \ {p} ELSE stamp
  /\ result' = "none"
  /\ UNCHANGED <<makefile, mkNewer, hash, hashNewer, depNewer, trees>>

-----------------------------------------------------------------------------
(* make build *)

\* Mutant of HashFile: a hash file that exists is never written again.
HashOnce(p) ==
  /\ run = "build"
  /\ st[p] = "todo"
  /\ IF hash[p] = None
     THEN /\ hash' = [hash EXCEPT ![p] = makefile[p]]
          /\ hashNewer' = hashNewer \cup {p}
          /\ mkNewer' = mkNewer \ {p}
     ELSE UNCHANGED <<hash, hashNewer, mkNewer>>
  /\ Goto(p, "hashed")
  /\ UNCHANGED <<makefile, stamp, depNewer, trees, run, result>>

\* build/%.hash: %/Makefile with cmd_hash_file, which leaves the file and
\* its time alone when the checksum has not changed.
HashFile(p) ==
  /\ run = "build"
  /\ st[p] = "todo"
  /\ IF p \in mkNewer /\ hash[p] # makefile[p]
     THEN /\ hash' = [hash EXCEPT ![p] = makefile[p]]
          /\ hashNewer' = hashNewer \cup {p}
          /\ mkNewer' = mkNewer \ {p}
     ELSE UNCHANGED <<hash, hashNewer, mkNewer>>
  /\ Goto(p, "hashed")
  /\ UNCHANGED <<makefile, stamp, depNewer, trees, run, result>>

\* Mutant of UpToDate: all dependencies are written behind the bar.
UpToDateByHash(p) == p \in stamp /\ p \notin hashNewer

UpToDate(p) ==
  /\ p \in stamp
  /\ p \notin hashNewer
  /\ \A d \in Deps[p] \ Stable : <<d, p>> \notin depNewer

\* Mutants of Consider: dependencies with a stable ABI are not written at
\* all, and no dependency is waited for.
ConsiderUnstable(p) ==
  /\ run = "build"
  /\ st[p] = "hashed"
  /\ \A d \in Deps[p] \ Stable : st[d] = "done"
  /\ Goto(p, IF UpToDate(p) THEN "done" ELSE "clean")
  /\ UNCHANGED <<files, trees, run, result>>

ConsiderAtOnce(p) ==
  /\ run = "build"
  /\ st[p] = "hashed"
  /\ Goto(p, IF UpToDate(p) THEN "done" ELSE "clean")
  /\ UNCHANGED <<files, trees, run, result>>

\* All prerequisites of build/<p>/.install, the order-only ones included,
\* are made: is the stamp older than a normal one?
Consider(p) ==
  /\ run = "build"
  /\ st[p] = "hashed"
  /\ \A d \in Deps[p] : st[d] = "done"
  /\ Goto(p, IF UpToDate(p) THEN "done" ELSE "clean")
  /\ UNCHANGED <<files, trees, run, result>>

\* $(MAKE) $(package)=$* clean: rm -rf $(pkgtree), stamps and objects.
Clean(p) ==
  /\ st[p] = "clean"
  /\ stamp' = stamp \ {p}
  /\ binary' = [binary EXCEPT ![p] = None]
  /\ Goto(p, IF run = "clean" THEN "done" ELSE "make")
  /\ UNCHANGED <<makefile, mkNewer, hash, hashNewer, depNewer, usesOld,
                 sysroot, run, result>>

-----------------------------------------------------------------------------
(* make rebuild-sysroot *)

\* rebuild-sysroot-%: rm -f build/$*/.install.  Without -j the targets are
\* made in the order of depends-dirs.
Unstamp(p) ==
  /\ run = "rebuild-sysroot"
  /\ st[p] = "todo"
  /\ \/ "parallel" \in Habits
     \/ \A q \in Package : Rank[q] < Rank[p] => st[q] = "done"
  /\ stamp' = stamp \ {p}
  /\ Goto(p, "make")
  /\ UNCHANGED <<makefile, mkNewer, hash, hashNewer, depNewer, trees, run, result>>

-----------------------------------------------------------------------------
(* $(MAKE) $(package)=$* install *)

\* Everything up to the binary tarballs, with the Makefile as it is now and
\* against the sysroot as it is now.
Build(p) ==
  /\ st[p] = "make"
  /\ binary[p] = None
  /\ binary' = [binary EXCEPT ![p] = makefile[p]]
  /\ usesOld' = {e \in DepPairs :
                   \/ e \in usesOld /\ e[2] # p
                   \/ e[1] = p
                   \/ e[2] = p /\ sysroot[e[1]] # "current"}
  /\ sysroot' = [sysroot EXCEPT ![p] = IF @ = "current" THEN "old" ELSE @]
  /\ Goto(p, "extract")
  /\ UNCHANGED <<files, run, result>>

\* The build tree is complete: the objects are installed and packed again.
Repack(p) ==
  /\ st[p] = "make"
  /\ binary[p] # None
  /\ Goto(p, "extract")
  /\ UNCHANGED <<files, trees, run, result>>

\* .install, first command: unpack the binary packages into the sysroot.
Extract(p) ==
  /\ st[p] = "extract"
  /\ sysroot' = [sysroot EXCEPT ![p] = "current"]
  /\ Goto(p, "stamp")
  /\ UNCHANGED <<files, binary, usesOld, run, result>>

\* .install, second command: cmd_stamp.
Stamp(p) ==
  /\ st[p] = "stamp"
  /\ stamp' = stamp \cup {p}
  /\ hashNewer' = hashNewer \ {p}
  /\ depNewer' = {e \in DepPairs : e[1] = p \/ (e \in depNewer /\ e[2] # p)}
  /\ Goto(p, "done")
  /\ UNCHANGED <<makefile, mkNewer, hash, trees, run, result>>

-----------------------------------------------------------------------------
(* Failures and the end of a run *)

MayStop == run # "rebuild-sysroot" \/ "interrupt" \in Habits

\* Any of the package's recipes fails.
Fail(p) ==
  /\ MayStop
  /\ st[p] \in {"make", "extract"}
  /\ Goto(p, "failed")
  /\ UNCHANGED <<files, trees, run, result>>

EndRun ==
  /\ run # "none"
  /\ \/ \A p \in Package : st[p] = "done"
     \/ /\ \E p \in Package : st[p] = "failed"
        /\ \A p \in Package : st[p] \notin Active
  /\ run' = "none"
  /\ result' = IF run = "build" /\ \A p \in Package : st[p] = "done"
               THEN "ok" ELSE "none"
  /\ st' = [p \in Package |-> "todo"]
  /\ UNCHANGED <<files, trees>>

\* The machine stops, or the user interrupts make, between two commands.
Interrupt ==
  /\ run # "none"
  /\ MayStop
  /\ run' = "none"
  /\ st' = [p \in Package |-> "todo"]
  /\ UNCHANGED <<files, trees, result>>

-----------------------------------------------------------------------------
PackageStep(p) ==
  \/ HashFile(p) \/ Consider(p) \/ Clean(p) \/ Unstamp(p)
  \/ Build(p) \/ Repack(p) \/ Extract(p) \/ Stamp(p)

Next ==
  \/ StartBuild \/ StartRebuildSysroot \/ EndRun \/ Interrupt
  \/ \E p \in Package :
       \/ Edit(p) \/ PackageStep(p) \/ Fail(p)
       \/ \E goal \in Singles : StartSingle(p, goal)

Spec == Init /\ [][Next]_vars

-----------------------------------------------------------------------------
(* Properties *)

\* The variables stay within their types.
TypeOK ==
  /\ makefile \in [Package -> Version]
  /\ hash \in [Package -> Version \cup {None}]
  /\ binary \in [Package -> Version \cup {None}]
  /\ sysroot \in [Package -> {"none", "old", "current"}]
  /\ st \in [Package -> Steps]
  /\ mkNewer \subseteq Package
  /\ hashNewer \subseteq Package
  /\ stamp \subseteq Package
  /\ depNewer \subseteq DepPairs
  /\ usesOld \subseteq DepPairs
  /\ run \in {"none"} \cup Goals \cup Singles
  /\ result \in {"none", "ok"}

\* What is unpacked of p was built from its present Makefile and with the
\* present builds of the dependencies whose binary interface may change.
Fresh(p) ==
  /\ sysroot[p] = "current"
  /\ binary[p] = makefile[p]
  /\ \A d \in Deps[p] \ Stable : <<d, p>> \notin usesOld

\* When make build says it succeeded, no package is stale, whatever edits,
\* failures, interruptions, single goals and parallel steps came before
\* (the rules write_depends generates, deps.c:571-649).
SuccessMeansFresh == result = "ok" => \A p \in Package : Fresh(p)

\* When make build says it succeeded, every package is in the sysroot.
SuccessMeansInstalled == result = "ok" => \A p \in Package : sysroot[p] = "current"

\* "Each package listed is built prior to the current package": a platform
\* goal compiles p only while all it depends on is in the sysroot.
DepsBuiltFirst ==
  [][\A p \in Package :
       run \in Goals /\ Build(p) => \A d \in Deps[p] : sysroot[d] = "current"]_vars

\* A make build that succeeded leaves nothing to do: run again at once it
\* would compile nothing, so no stamp it wrote is older than what the stamp
\* depends on (the order of hash, dependencies and touch, Makefile.platform:39-45).
NothingLeftToDo ==
  result = "ok" =>
    \A p \in Package :
      /\ UpToDate(p)
      /\ p \in mkNewer => hash[p] = makefile[p]
-----------------------------------------------------------------------------
(* Why make build tells the truth in the hands of a careful user: the      *)
(* parts of an inductive invariant, for Habits \subseteq {"parallel"}.     *)

\* A hash no older than the Makefile is of its content; and nothing was
\* hashed or built from a Makefile that is still to be written.
HashTellsMakefile ==
  \A p \in Package :
    /\ p \notin mkNewer => hash[p] = makefile[p]
    /\ hash[p] # None => hash[p] <= makefile[p]
    /\ binary[p] # None => binary[p] <= makefile[p]

\* A stamp newer than the hash is of a build of that Makefile or a later one.
StampCoversHash ==
  \A p \in stamp \ hashNewer :
    /\ binary[p] # None
    /\ hash[p] = None \/ hash[p] <= binary[p]

\* If p was built with an older d, the stamps show it or d has lost its own.
OldUseShows ==
  \A e \in usesOld :
    e[1] \notin Stable /\ e[1] \in stamp /\ e[2] \in stamp => e \in depNewer

\* A stamped package is in the sysroot, except while that is recreated.
StampMeansInstalled ==
  \A p \in Package :
    /\ p \in stamp /\ run # "rebuild-sysroot" => sysroot[p] = "current"
    /\ st[p] = "stamp" => sysroot[p] = "current"
    /\ run = "rebuild-sysroot" /\ st[p] = "done" => sysroot[p] = "current"

\* What the commands of one package's recipe leave for the next one.
RecipeOrder ==
  \A p \in Package :
    /\ st[p] \in {"make", "extract", "stamp"} => p \notin stamp
    /\ st[p] = "make" /\ run # "rebuild-sysroot" => binary[p] = None
    /\ st[p] \in {"extract", "stamp"} => binary[p] = makefile[p]

\* A build on the way to its stamp missed only dependencies without stamp.
BuiltAgainstStamped ==
  \A e \in usesOld :
    e[1] \notin Stable /\ st[e[2]] \in {"extract", "stamp"} => e[1] \notin stamp

\* During make build: hashes are current from the start, dependencies are
\* done before their dependents, and what is done needs no more work.
BuildOrder ==
  run = "build" =>
    \A p \in Package :
      /\ st[p] # "todo" => hash[p] = makefile[p]
      /\ st[p] \in Active \cup {"done"} => \A d \in Deps[p] : st[d] = "done"
      /\ st[p] = "done" => UpToDate(p)

\* rebuild-sysroot starts from, and keeps, fresh packages.
SysrootOfFresh ==
  run = "rebuild-sysroot" =>
    /\ \A p \in Package : binary[p] = makefile[p] /\ st[p] \notin {"clean", "failed"}
    /\ \A e \in usesOld : e[1] \in Stable

\* One package at a time under the single goals; nothing between two runs.
OneGoal ==
  /\ run # "install"
  /\ run = "none" => \A p \in Package : st[p] = "todo"
  /\ run \in Singles =>
       \A p, q \in Package : st[p] # "done" /\ st[q] # "done" => p = q
  /\ result = "ok" => run = "none"

IndInv ==
  /\ TypeOK
  /\ HashTellsMakefile
  /\ StampCoversHash
  /\ OldUseShows
  /\ StampMeansInstalled
  /\ RecipeOrder
  /\ BuiltAgainstStamped
  /\ BuildOrder
  /\ SysrootOfFresh
  /\ OneGoal
  /\ NothingLeftToDo
=============================================================================
