# PBS in TLA+

PBS (Platform Build System) cross-compiles a few hundred software packages for an
embedded platform. A user selects a platform and packages with kconfig; make then
downloads, patches, compiles and packs each package in dependency order and unpacks
the result into a sysroot, from which images are made. The program is shell, make and
C. In the build, what can go wrong is the order of file operations; in kconfig, which is most
of the code, it is values that depend on each other, a tree that is changed in place, and
the files that one program writes and another reads.

## Inventory

| part | state it keeps | operations | talks to |
|---|---|---|---|
| `scripts/download` | archive, `.part`, lock file, one own lock file per process | lock, fetch, publish, release, traps | other builds, through the files in `download/` |
| `scripts/Makefile.platform` with `include/config/depends.mk` | `build/<p>.hash`, `build/<p>/.install`, sysroot | `build`, `rebuild-sysroot`, and the Makefile's `<p>/rebuild`, `<p>/clean`, `<p>/install` | the package build (one make per package), the generated rules |
| `scripts/Makefile.package` with `packages/*.mk` | one stamp file per step, source tree, objects, install tree, binary packages | download, check, extract, patch, configure, build, install, prune, strip, pack, unpack | `scripts/download`, the sysroot |
| `scripts/kconfig/deps.c` | package list, dependency lists, counters | reads the configuration, writes `depends.mk` and `depends-dirs.mk` | kconfig's symbols; Makefile.platform includes the files |
| `scripts/kconfig/zconf.{y,l}` | the files being read, open blocks, the entry being made | one per keyword, `source`, end of a file | builds the menus, once, when a program starts |
| `scripts/kconfig/{expr,menu}.c` | expressions, properties, the menu tree | make, negate, join, simplify; `menu_finalize` | the parser; everything that walks the tree |
| `scripts/kconfig/symbol.c` | user values, calculated values, flags, change count | `sym_calc_value`, `sym_set_*_value`, `sym_clear_all_valid` | expressions; front ends and files read and set values |
| `scripts/kconfig/confdata.c` | `.config`, `.config.old`, `auto.conf`, `tristate.conf`, `autoconf.h`, `include/config/*.h` | read, write, default configurations, all-set modes | symbols; the Makefiles include `auto.conf` and start `silentoldconfig` when it is older than `.config` |
| `scripts/kconfig/{conf,mconf,nconf,gconf}.c`, `qconf.cc` | menu shown, rows or tree, option mode, file name | questions, keys, clicks, load, save, leave | symbols, files |
| image makers, `watch`, build jail, `configure` | nothing that lasts beyond their output | one pass each | |

Components talk through files only. There are no threads; concurrency comes from
`make -j`, from several builds that share `download/`, from signals, and from the
user, who may stop anything at any time and whose next command finds whatever is there.

What is hard, and what each part must guarantee:

* **download**: lock races, stale knowledge about the archive after a wait, signals in
  any line, killed shells whose wget lives on, full disks. It must never have two
  writers, never publish a partial file, release its lock and only its own.
* **platform build**: make compares times, the truth is in the build trees. After any
  history, success must mean that nothing is stale; dependencies come first; a second
  run has nothing to do.
* **package build**: a step and its stamp are two commands, and several goals remove
  some of the stamps. The stamps that are left must tell the truth.
* **deps.c**: an unbounded recursion, a sort that has to be topological, lists resolved
  in place. It must write exactly the rules the configuration asks for, in an order
  that rebuild-sysroot can use.
* **kconfig, language**: files that source each other, blocks that nest, dependencies handed down and
  simplified. Every declaration must become one entry, and an entry must depend on what was written around it.
* **kconfig, values**: cached values of symbols that depend on each other, choices, modules, ranges. They
  must be fresh and ones the build can have, whatever the user wants.
* **kconfig, files**: order of lines, lines about symbols that cannot be set now, several output files renamed one by
  one. A file must bring back what was saved, and the build must never see a mixture.
* **kconfig, front ends**: trees changed in place, three tests for what one row is. They must show what there is,
  and offer what can be done.

`PROJECT.json` lists the hazards with their lines.

## Modules

### Download, AtomicFetch, MCDownload, DownloadProofs

`Download` has one action per command of `scripts/download` (`WriteOurLock`, `Lock`,
`FoundDst`, ..., `Cleanup`), with the program counter `pc[p]` of each shell. `wget[p]` is
a process of its own, so that it can outlive its shell. A trap runs between commands
(`pending`); `RunTrap` is `trap - $sig; on_exit; kill -$sig`, and a second signal of a
kind whose trap was reset ends the shell at once (`Signal`), before it has released
its lock: contrary to the comment of lines 25-26 the lock then stays for ever, which `LeavesNoLock` leaves out. A failing `ln` changes nothing,
so the polling loop is the absence of `Lock`. `AtomicFetch` is what callers are
promised: the archive appears in one step; `ImplementsAtomicFetch` is the refinement,
with `present` as "DST is whole" and `caller` from the exit status.

The shell is dash, as `/bin/sh` of the usual build hosts: after a trap has re-raised its signal, the
EXIT trap does not run again. A process id with its host is not used twice while its lock
file exists. `mv` within a directory is taken to succeed.

### PlatformBuild, MCPlatformBuild, PlatformBuildProofs

The state is what make sees (`mkNewer`, `hashNewer`, `depNewer`: which prerequisite is
newer than which target; `stamp`, `hash`) and, apart from it, what is true
(`binary`: from which Makefile the build tree was made; `usesOld`: against which
dependencies; `sysroot`). No clock is needed: only the order of two times is compared.
`HashFile` is `cmd_hash_file`, which leaves the time of an unchanged hash alone; `Consider` is make
deciding on `build/<p>/.install` once all prerequisites are made; `Clean`,
`Build`, `Extract`, `Stamp` are the commands of the recipe; `Unstamp` and `Repack` belong to
rebuild-sysroot. `Build` stands for the whole package build up to the binary packages.
`Habits` names what a user may do beyond careful use, so that one module serves for what holds
and for what breaks. Time stamps are taken to differ between two commands.

### PackageBuild, PackageBuildProofs

Each stamp file is a member of `Target`, `Prereq` holds the rules of
Makefile.package, autotools.mk, autotools-reconf.mk, prune.mk, strip.mk, config-scripts.mk,
cleanup.mk and binary.mk, `newer` the pairs of times make compares. A step is a recipe
(`ExtractFile`, `Patch`, `Build`, ...) followed by `Touch`; rules without another
command that matters are one step (`Mark`). Without the habit `parallel` a target is considered only
after all that a serial make gets to before it (`MakeOrder`). `Patch` stamps whatever tree is there: a tree from a bad
archive stays bad, with a series of patches (`Patches`) or without, unless quilt refuses it, which is a `Fail`. `Fail` leaves the partial
result of the step that failed; `Interrupt` stops make between two commands. `Images` say
of which sources an install tree, the packages and the sysroot are, and whether
pruned and stripped.

### DependsGen, MCDependsGen, ListLemmas, DependsGenProofs

First `sym_check_deps` as `conf_parse` calls it for each symbol (`CheckRoot`, `CheckDep`, `CheckReturn`), with
its marks and the symbol it returns on the way up; then `deps.c` function by function: `BuildDeps`, the recursion of
`count_package_deps` with its calls on `stack`, `ResolveDeps`, `WriteDepends`, and `WriteCompat`
with the insertion sort. A configuration is a set of select statements, chosen in `Init`; each is the
conjunction of the selecting symbol and one condition, as `menu_finalize` puts it into
the reverse dependency. A call of `count_package_deps` for a package that is on the stack ends
the model in phase `overflow`, since it can never return.

### BuildPlan

DependsGen and PlatformBuild meet at the generated files. `IsBuildPlan` says what these promise: the rule of a
package names packages that have rules, and depends-dirs has them before it. `DirsInOrder` says that the
generator writes such a plan (`WrittenPlan`), and `PlatformAssumption` that the build works from one; what is
proved of the build under this assumption rests on what is proved of the generator. Which packages a rule names is `RulesMatchSelects`.

### KconfigReader, KconfigReaderProofs

Which file is read where: `stack` are the open files of zconf.l with the next line of each, `files` is util.c's list of the
files that are known, with the busy and scanned marks. `TakeFiles` opens what a `source` or a pattern names, all at once, one on
the other; `EndFile` goes back to the file outside. Of the parser the module says only what it owes to every file: one
entry in the menu tree, with the file noted in it, for each line that declares a symbol, no entry with a symbol for any other line, and none
made or lost by `menu_finalize`. That is little enough to do without recursion, so that it can be reasoned about for any set of files.

### MenuTree, MenuTreeProofs

The links of the menu tree, on top of KconfigReader: `parent`, `list` and `next` of each entry and where the parser goes on (`Tree`).
`WithEntry`, `WithMenu` and `WithEnd` are the three calls with which the grammar grows it (`Parse`). Then `menu_finalize`, which calls itself for the
entries of the lists it changes, step by step: `calls` are its calls under way, each with the loop it is in (along the entries `below`,
along those `behind` that may become its submenu, or along the list it has in the end, to `tidy` it), the entry it is at and
`last_menu`. `FinalizeNext` is the call for the next entry, `EndBehind` makes the submenu, `Tidy` may splice out an entry, `ReturnBelow` and
`ReturnBehind` go back to the caller, which reads the `next` link after the inner call may have changed it. Which entries depend on which and which have a prompt
is left open: any may get a submenu and any may be spliced. Since this needs no expression and no
recursion, it can be reasoned about for trees of any size.

### KconfigExpr, KconfigMenu, KconfigLanguage

`KconfigExpr` has expressions as records (operator, symbol, value, arguments) and `expr.c` function by function: the
alternate elimination of equal parts (`EliminateEq`), of duplicates, the transformations and `expr_trans_bool`.
`KconfigMenu` has menus and properties as two sequences in one record `k`, with what `menu_add_*` do to it and
the pieces of `menu_finalize`: inherit types in a choice and hand down dependencies (`Entered`), tell which
entries belong below the one before (`BelongsTo`), make them its submenu (`Enclose`), and splice what has no prompt (`Splice`). `KconfigLanguage` is
the parser as a state machine that takes one line per action from `KconfigReader`, whose `Openable`, `OpenFiles` and `EndFile` are
its own; `blocks` are the open menus, choices and ifs. A block begins when its options are over, as the grammar has it. After the
parser `menu_finalize` runs on the same `calls` as in MenuTree (`FinishParse`, `FinalizeEntry`, `LeaveList`, `MakeSubmenu`, `TidyNext`, `EndCall`), with
all that it does to expressions, types and properties; `EditSpec`, which the run `kconfig` checks, contains `TreeNext`, so these steps are
steps of MenuTree. `declared` keeps the tree as the parser left it, for `FinalizeKeepsMeaning`.

### KconfigValues, KconfigFiles, KconfigConf

Pure operators on the record `c` (user values, calculated values, flags), one per function of `symbol.c`, `confdata.c`
and `conf.c`. Everything that may calculate a value on its way returns the new `c`, since the order of calculations is
observable through the flags. A file is the sequence of its lines, and a line a symbol and a value. The dialogue of `conf` is
one operator with one answer for all its questions: nothing else happens to the values while it asks.

### ConfigStore

The abstract view of the disk, for any contents: configurations by name, each with its `.old`, and the files of the
build. One action per rename, an end of the process between any two. `UpdateAuto` is what silentoldconfig promises: to touch at
least the headers of what differs from the `auto.conf` it finds. Its proofs are in ConfigEditingProofs.

### ConfigEditing, ConfigEditingProofs

The five configurators and make as they look from the files, on top of `ConfigStore` and `MenuTree`: an editor reads a file
(`StartEditor`, `LoadFile`), changes values (`EditValues`), writes (`EditorWrites`, then the renames up to `SaveEnds`, or
`SaveStops` when one fails) and may end or be killed at any step (`Ends`); `conf` writes configurations (`ConfWrites`) and, as
silentoldconfig, the build's files (`ConfUpdates`). How values are calculated is left open: `Values`, `Meaning` and `Told` are
constant operators (the values in memory, those a file gives, the contents of `auto.conf`), for which MCKconfig puts
`ValuesOf`, `MeaningOf` and `ToldOf` of `KconfigFiles`. What the programs owe each other is in the actions: after
reading, the values are those of the file or count as changed (`Counted`), but for a Load of a file that is
not there, which takes back the mark of unsaved changes and leaves everything else (`lost`); a change that does not count changes no value; what is
written reads back as the values in memory; silentoldconfig writes what the `.config` that is there says, and touches
the headers of all that differs. The run `kconfig` checks all of it of the detailed programs (`EditSpec` is a property of the sessions).

### ConfigMenus, ConfigWindows, ConfigSession, ConfigProperties, MCKconfig

`ConfigMenus` makes the rows of mconf's and nconf's menus (`BuildConf`) and says what their keys do; `ConfigWindows` makes and
updates the trees of gconf (`GtkMerge` is `update_tree`, with nodes removed and inserted as there) and of qconf (`QtMerge` is
`updateMenuList`). `ConfigSession` composes everything: the parser, then one configurator after another on the files of
`ConfigStore`, with builds in between. One action is what a program does for one key or click; files change one rename at
a time; each rename may be the last. The sessions implement ConfigEditing: `EditSpec` is a property of them, in which `BeginAuto` gets the set that
`SplitConfig` really computes, so the promises of ConfigEditing are checked of the detailed code. `EditSpec` implies `StoreSpec`, `ReadSpec` and `TreeSpec`
(`ProgramsImplementStore`, `ProgramsImplementReader`, `ProgramsImplementTree`), which is why these need no run.
The run `kconfig` is on `MCKconfig`, which has the Kconfig files.

Known departures of the code, which properties leave out and say so:

* The simplifications take `FOO && !FOO` for n, which it is not when FOO is m (expr.c:597); `FinalizeKeepsMeaning` is about n and y.
* A configuration in which an optional choice has a new member loses the choice's user value after it was calculated (confdata.c:387).
* Typing a value that a symbol had been given but did not show clears no cache (symbol.c:659).
* SYMBOL_WRITE stays with members of a choice (symbol.c:316), which are then written as not set; and is cleared by a
  `conf_write` whose rename failed, so that the next attempt writes an empty configuration.
* Loading a file that is not there resets the change count before it looks for the file (confdata.c:348), in all four
  front ends with a Load command: changes made before are then left without a question. `lost` remembers it;
  `NothingLostSilently` speaks of sessions without such a load and without a failed rename, and the run `kconfig_load`
  refutes `UnsavedIsAsked`, which leaves out failed renames only.
* gconf: `update_tree` returns after removing the last node of a list, so entries may get their rows late; loading adds the rows of the root menu to those of the menu that is shown.
* gconf: after a load or a change of the option mode in a submenu the root menu is shown, but the Back button stays sensitive; pressed then,
  `on_back_clicked` follows the parent of the root, which is NULL (gconf.c:739). `GtkBack` has no such step.
* A file name with a variable in it is not recognised when it is sourced again (util.c:18); a pattern without files ends the input (zconf.y:412).

## Runs

| run | shows | bounds |
|---|---|---|
| download_safety | one writer, no partial archive, locks released, success means archive, refinement of AtomicFetch; the inductive invariant | three symmetric invocations, one signal that may repeat, all killable, two starts each, disk may fill. Two race for the lock while the third holds it, so that giving it up twice or for somebody else shows; the second start finds what the first one left |
| download_live | every run ends | three invocations (two wait while one holds), one signal, no SIGKILL, disk not full |
| platform_build | nothing stale, nothing left to do, dependencies first; the inductive invariant | a diamond of three packages with one stable, one Makefile edit; all goals of careful use, failures and interruptions anywhere |
| platform_revert | violation: edit, `<p>/rebuild`, edit taken back | the same packages |
| platform_sysroot | violation: rebuild-sysroot stopped half way | the same packages |
| package_build | stamps tell the truth; sources are set up, verified, installed and pruned | a package with autotools-reconf.mk and no configure script of its own; edits of the sources once it is installed |
| package_strip | violation: `<p>/build` installs unstripped files | a package with autotools.mk and without patches |
| package_parallel | violation: -j runs autoreconf before the sources are verified and patched | autotools-reconf.mk with -j |
| depends_gen | rules and order are right, circles are reported, the recursion ends or was announced | three packages, a virtual one, a platform with parent; all sets of at most four of 17 select statements, three providers, two menu orders |
| depends_circular | violation: a circle does not end the program | at most two statements |
| kconfig | the language keeps its meaning; values are legal and fresh; files bring them back; menus and trees show them; the build sees one complete configuration; sessions implement ConfigEditing, whose inductive invariant `SessionInv` (`ReadInv`, `TreeInv` and `EditInv` together) is checked, too | 2419 sets of Kconfig files are read: conditions of every shape, blocks and files in every order, files that are sourced twice, and malformed ones. Four are worked on: menus with a menuconfig and an entry below another; a choice with a member that is not always there, and a string; modules with an optional tristate choice; numbers with two ranges. Each starts with no file or with the files of an older version. Texts that are given include the empty one, which a string without a value counts as a change. Three inputs, one fault |
| kconfig_load | violation: after a Load of a file that is not there unsaved changes no longer count | the numbers with two ranges, as saved before; three inputs, no fault |

What the violations show of the code is told under `findings` in `PROJECT.json`.

Bounds, by name: `MaxRuns` (starts of one invocation), `MaxVersion` (contents a Makefile takes), `MaxSelects`
(statements in a configuration), and in PackageBuild the guard of `EditSources`: sources are edited when the package is
installed; in ConfigSession `MaxInputs` (programs run, changes, loads and saves together), `MaxFaults` (kills and failing renames) and
`MaxDepth` (files open at a time). None of these cuts a behaviour short: each limits only how often the environment acts. Three inputs
are enough for a value that is changed, saved and read by the next program, for two changes that depend on each other, and for a load in
between; a silentoldconfig that was killed is followed by another and a build. Wider bounds (two programs with two changes each) were tried
once and showed nothing else.

Deadlock is not checked in Download (all invocations may have ended) and DependsGen (the
program ends) and kconfig (malformed files end the program, and the inputs are limited); PlatformBuild and PackageBuild can always start another goal.

**Fairness** is assumed in download_live only: weak fairness of each shell and of each wget.
The system scheduler justifies it; wget has timeouts and a bounded number of tries; `ln`
polls once a second, so there is no strong fairness for the lock. This suffices since an invocation that
gets the lock never asks again in its run: each waits for at most all others.
With SIGKILL or a full disk the property is false, which is how the lock is designed
(nobody looks whether its owner is alive).

## Proofs

TLAPS proves, for every value of the constants that the named assumption of the module admits (`ConstantsAssumption`,
`PlatformAssumption`, `PackageAssumption`, `DependsAssumption`, `ConfigAssumption`):

* **Download** (`DownloadProofs`): `IndInv` is inductive. Mutual exclusion alone is not: one has to know that
  the lock file names whoever may touch `.part`, or is blank (`LockNamesHolder`), that a shell about to
  release the lock still owns it and no finished one is named in it (`LockIsExplained`), that a running wget
  belongs to a shell in its wget line or to a dead one (`WgetHasShell`), and that what a shell has read is still true when it acts
  (`PartIsReady`, `StillMissing`). From it follow `MutualExclusion`, `WholeOrAbsent`, `LocksReleased`, `SuccessIsTrue`, and
  step by step the refinement `Implementation`; steps that change neither `dst` nor what a caller sees
  are stutters (`Invisible`).
* **PlatformBuild** (`PlatformBuildProofs`): `TypeCorrect` for all habits; for careful users (`Habits` at most `parallel`) the
  invariant `IndInv`. It ties times to truth: a hash that is not older than the Makefile is of its
  content, a stamp newer than the hash is of a build of that content or a later one (`StampCoversHash`; contents
  grow because nobody takes an edit back), an old dependency in a build shows as a newer stamp
  or as a stamp that is gone (`OldUseShows`). `TimesTellTruth` concludes that an up-to-date package
  is fresh, `Freshness` that make build tells the truth, `Idempotence` that there is nothing left to
  do, `DependenciesFirst` that what is compiled finds its dependencies.
* **PackageBuild** (`PackageBuildProofs`), for packages of every kind. `StampsTellTruth` speaks only of stamps
  before which nothing needs work, and is not inductive. What it rests on is in two parts. `ChainInv` holds in every
  make, whatever the user's habits, with -j and after bad archives: a make in progress has made what the targets it got
  to are made from (`Walks`); each stamp speaks for its own command, and a command that was repeated shows in the times of the
  next stamps (`StampChain`); a command without its stamp yet did its work (`WorkDone`); and the goals that drop a
  stamp compile what is there now (`CompilesNow`). It says of each step from which tree it was made, not that this tree is
  in order. That is `SetupOnce`: patched sources are from the verified archive and not unpacked again. It needs two
  things: nobody removes an archive that is in order (`Careful`), and no bad archive was unpacked (`ExtractsVerified`), which with
  -j is false. So `Invariance` and `SourcesInstalled` have `ExtractsVerified` as a hypothesis of the behaviour, and
  need it: with the configuration of package_parallel TLC refutes `InstallsSources`, too. A bad archive is unpacked before its
  checksum is looked at, make stops, the archive is removed and fetched again with the older time of the server; the
  stamp of the unpacking still holds, the checksum is right, and the bad tree is patched, built and installed. Without
  -j (`Serial`) `ExtractsVerified` is a theorem, `VerifiedArchives`, from the order of the targets, and `SerialInvariance`,
  `SerialSourcesInstalled` and `SourcesFirst` follow with nothing assumed of the archives; the run package_parallel shows why
  `SourcesFirst` needs that order.
  `PrunedInstalled` needs `ChainInv` only and holds for all habits.
* **DependsGen** (`DependsGenProofs`), for any packages, lists and select statements: each recursive call is on the
  path of what it was called for, `RecursionInv`. `CyclesAreReported`: as long as nothing was reported, the symbols
  that are finished have all their references among the finished and no circle (`NoCycleYet`), so at the end there is
  none; and what is reported is a circle on the stack (`CycleOnStack`). `EndlessRecursionIsReported`: a call that
  repeats lies on a circle, though the recursion skips virtual packages (`CycleInCount`). `RulesAreSelects` follows
  each list from the reverse dependencies (`Listed`) through the resolution in place. `DirectoriesInOrder` is the
  argument for the counters, which the source does not give: for every package p that another one, q, waits for, what
  p was counted is ahead of what q was, by one once the outermost call for q is over, and by one more while a call
  under way has counted p and not yet q (`Counted`, `Ahead`). So at the end p's count is greater, the insertion sort
  puts the greater count first (`InsertSortedSorts`, `ListSortSorts`), leaving out packages keeps the order
  (`FilterKeepsOrder`), and the result is a plan (`OrderedIsPlan`). `DependsAssumption` has no statement that is
  conditional on a virtual package; none of the repository's packages has one. `ListLemmas` has what these proofs need
  to know of sequences. Facts about all prefixes of a list are proved by way of a least counterexample
  (`LeastElement`, `UpTo`), since the library's induction theorems take an operator and none of the back ends can
  instantiate those; recursive definitions are functions, which `Recursion` shows to exist.
* **ConfigStore** (`ConfigEditingProofs`): `StoreInv` is inductive for any number of names and symbols and any contents. That the
  three files agree when make looks is not inductive: one has to know what the temporary files hold in each step, and that a
  silentoldconfig which runs although `auto.conf` is up to date comes to the same values (`UpdateAuto`). That nothing is missed has to be
  said of every moment, of `auto.conf` while it is older than `.config` and of the temporary files too: what differs from the
  last build differs in one of two steps (`DifferingTriangle`). `ConfigurationSurvives` is an action property from the same invariant.
* **KconfigReader** (`KconfigReaderProofs`), for any files that source each other in any way: `ReadOnce` says of every moment that each
  known file has given exactly the entries its lines so far declare, and that every file that was sourced is known; and of an accepted input that
  all files were read to their ends, none twice. To count the lines so far one has to know what is still ahead, which is what the stack says only if
  no file is on it twice (`StackInv`); that none is opened again rests on the names that are known (`NamesInv`: names differ
  unless a name is written with a variable), and the end on there being no way to accept with a file open (`DoneInv`). The counts
  are cardinalities: `TakeLine` adds one line and one entry (`ReadInvariance`).
* **MenuTree** (`MenuTreeProofs`), for trees of any size: `EveryEntryOnce`. That one link leads to each entry says too little, since
  `menu_finalize` makes a submenu of the rest of a list while the calls that made its call are still walking along that list. The invariant, `TreeInv`, is that
  the numbers of the entries, which they have from the order of their declaration, are at any time their places in the walk: `list` leads to the next number or nowhere,
  `next` to the least greater number in the same list (`Shape`). A submenu that is made and a list that is spliced both keep this order. Two things make
  it inductive. While a call gathers a submenu the entries it has got have it as parent already, but are in the list they were in (`Over` says which
  list an entry is in). And each call under way waits for one for an entry behind its own, so what an inner call changes lies behind all
  that the outer ones remember (`Nested`, `CallInv`). From the order the walk of all writers follows: it goes from each number to the next
  (`TreeInvariance`, `EveryEntryIsReached`).
* **ConfigEditing** (`ConfigEditingProofs`), for any values, meanings and contents: `NothingIsLostSilently` and `BuildIsToldConfig`. Neither is
  inductive. What an editor has in memory agrees with its file only because what is on its way to the file, in the
  temporary file, reads back as it, and only until a Load of a missing file discards the mark (`lost`); what `NothingIsLostSilently`
  says of the file besides is that there is one, which is why `NoFile` must not be a name (`ConfigAssumption`). And `auto.conf` tells what `.config` says
  only because the pairs on their way do, while no one else
  can be at work on `.config`. `EditInv` adds both, with which program can be at which step, to `StoreInv` (`EditInvariance`). From
  it follows the refinement `ProgramsImplementStore`: that a silentoldconfig which runs although `auto.conf` is up to date
  writes the same again is assumed in `UpdateAuto` and derived here. `ProgramsImplementTree` and `SessionInvariance` put the three
  modules' parts together.

These three modules start from what ConfigEditing, MenuTree and KconfigReader say of the programs, steps of which are facts about
recursive data: that a written file reads back, that reading counts as a change or leaves none, which headers are touched, that
a statement makes one entry, that finalizing changes links only as MenuTree has it. Those facts are checked by TLC, of the detailed modules, in the run `kconfig`; what follows from them for every length of a session
and every content is what is proved.

Only model-checked: liveness (TLAPS does not reach fairness here), and all that the violation runs show; and of
kconfig what depends on how values, expressions and trees are computed: `FinalizeKeepsMeaning`, `CacheIsFresh`, `ValuesAreLegal`,
`SaveLoadsBack`, `DefconfigLoadsBack`, `NoQuestionTwice`, `NoDeadRow`, `EveryEntryReached`, `QtTreeIsFresh`, `GtkShowsVisible`
(all in ConfigProperties), and that the sessions implement ConfigEditing. These modules use RECURSIVE operators, and what
those compute for every input needs inductions that the prover's back ends do not have.

## Not modelled

svn, git and linked sources; packages with several archives; the Linux kernel's and CMake's rules;
`touch`, which stamps without building; `dist`, `watch`, `print`, `license`, `time`; images, cards, build jail and `configure`:
single passes over files. Package descriptions and
the programs PBS compiles. The file tools `pbs-install`, `pbs-binary`, `pbs-strip` are atomic steps that succeed or fail;
that they ignore the status of `cp` and `tar` is noted as a hazard.

Of kconfig: the scanner of characters and help texts; hexadecimal spelling; `option env` and `defconfig_list`; circular dependencies
(`sym_check_deps` is in DependsGen); `KCONFIG_OVERWRITECONFIG`, `KCONFIG_NOSILENTUPDATE`;
randconfig; mconf's single_menu mode, search and help; gconf's split view, its second tree and `update_tree` on the menu that is browsed there;
the left-hand list of qconf's split view; pixmaps and texts of rows; two
configurators at the same time, whose temporary files have different names but whose last rename wins; malformed lines
in configurations, which are only warned about. Symbols are walked in one fixed order instead of that of the hash table.

## Plan

1. *Done*: Download with its proofs (the only concurrent code), PlatformBuild with its proofs (the promise of
   the system), PackageBuild, DependsGen.
2. *Done*: kconfig from its language to its front ends, with the composition in ConfigSession, and ConfigStore with its proofs.
3. *Done*: PackageBuildProofs, with the strengthening of the stamps' truth above.
4. *Done*: DependsGenProofs, and BuildPlan as the contract between the generator and the build.
5. *Done*: KconfigReader and ConfigEditing with their proofs, taken out of the language and the sessions so that what can be said without
   recursion is proved.
6. *Done*: MenuTree with its proofs, and `menu_finalize` as steps in KconfigLanguage.
7. What a step may never do in PackageBuild and PlatformBuild beyond `ExtractsVerified` and `DepsBuiltFirst`, from the invariants that are proved; and
   a window of ConfigSession that can do without recursive operators, so that gconf's and qconf's in-place updates can be reasoned about.
