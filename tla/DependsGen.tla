---------------------------- MODULE DependsGen ----------------------------
(***************************************************************************)
(* scripts/kconfig/deps.c: turns the selected packages and their select    *)
(* statements into include/config/depends.mk (one rule per package) and    *)
(* include/config/depends-dirs.mk (all packages, in an order in which they *)
(* can be built one by one).                                               *)
(*                                                                         *)
(* Before that conf_parse looks for circular dependencies.                 *)
(*                                                                         *)
(* The reverse dependency kconfig keeps of a symbol is the disjunction,    *)
(* over the statements that select it, of the conjunction of the selecting *)
(* symbol and its conditions; a statement here is such a conjunction with  *)
(* one condition.  Packages come in menu order, a virtual package selects  *)
(* the one package it stands for, and packages depend on no package other  *)
(* than through select (those that do are options, see check_deps).        *)
(***************************************************************************)
EXTENDS Naturals, Sequences, FiniteSets, SequencesExt, BuildPlan

CONSTANTS
  Menus,      \* menus, as sequences of the selected packages
  Virtual,    \* VIRTUAL_...
  Platform,   \* PLATFORM_...
  Parents,    \* platforms with a selected child platform
  Stable,     \* packages that select STABLE_ABI
  Off,        \* a symbol that is not selected
  Statements, \* select statements [by, cond, sel] the packages may have:
              \* cond is by when there is no condition
  MaxSelects  \* how many of them there are at most, providers apart

Packages == UNION {ToSet(menu) : menu \in Menus}

\* There is a package; no statement is conditional on a virtual package (none
\* of the repository's packages has such a condition).
ASSUME DependsAssumption ==
  /\ \A menu \in Menus : /\ menu \in Seq(Packages)
                        /\ ToSet(menu) = Packages /\ Len(menu) = Cardinality(Packages)
  /\ Packages # {}
  /\ Virtual \cup Platform \cup Stable \subseteq Packages
  /\ Virtual \cap Platform = {}
  /\ Parents \subseteq Platform
  /\ Off \notin Packages
  /\ IsFiniteSet(Statements)
  /\ \A s \in Statements :
       /\ s.by \in Packages \ Virtual
       /\ s.cond \in (Packages \ Virtual) \cup {Off}
       /\ s.sel \in Packages \ Platform /\ s.sel # s.by
  /\ MaxSelects \in Nat

VARIABLES
  menu,       \* the list of packages
  selects,    \* the statements of the configuration
  provider,   \* the package each virtual package selects
  checked,    \* the symbols with SYMBOL_CHECKED
  found,      \* what sym_check_deps returns on its way up, or Off
  reported,   \* "recursive dependency detected!" was printed
  nerrs,      \* zconfnerrs is not 0
  deps,       \* deps[p]: the list of p's dependencies
  numdeps,    \* numdeps[p]: in how many ways packages lead to p
  phase,      \* the function the program is in
  i,          \* its position in the list
  stack,      \* the calls of the recursive function, outermost first
  rules,      \* depends.mk: prerequisites of each build/<p>/.install
  dirs,       \* depends-dirs
  master      \* master-platform

input == <<selects, provider>>
check == <<checked, found, reported, nerrs>>
files == <<rules, dirs, master>>
vars  == <<menu, input, check, deps, numdeps, phase, i, stack, files>>

Init ==
  /\ menu \in Menus
  /\ selects \in {S \in SUBSET Statements : Cardinality(S) <= MaxSelects}
  /\ provider \in [Virtual -> Packages \ (Virtual \cup Platform)]
  /\ checked = {}
  /\ found = Off
  /\ reported = FALSE
  /\ nerrs = FALSE
  /\ deps = [p \in Packages |-> <<>>]
  /\ numdeps = [p \in Packages |-> 0]
  /\ phase = "conf_parse"
  /\ i = 1
  /\ stack = <<>>
  /\ rules = <<>>
  /\ dirs = <<>>
  /\ master = Off

\* All statements; the disjuncts of the reverse dependencies.
All == selects \cup {[by |-> v, cond |-> v, sel |-> provider[v]] : v \in Virtual}

\* The next package of the list, or the next function.
Advance(next) ==
  IF i < Len(menu) THEN i' = i + 1 /\ UNCHANGED phase
                   ELSE i' = 1 /\ phase' = next

Top == stack[Len(stack)]
OnStack(p) == \E k \in DOMAIN stack : stack[k].package = p
Call(p) == stack' = Append(stack, [package |-> p, dep |-> 1])

\* The callers, the innermost of which goes on to its next dependency.
Callers ==
  IF Len(stack) = 1 THEN <<>> ELSE [Front(stack) EXCEPT ![Len(stack) - 1].dep = @ + 1]

\* A list without the elements that are not in keep.
Filter(list, keep) ==
  LET kept[k \in 0..Len(list)] ==
        IF k = 0 THEN <<>>
        ELSE IF list[k] \in keep THEN Append(kept[k - 1], list[k]) ELSE kept[k - 1]
  IN  kept[Len(list)]

-----------------------------------------------------------------------------
(* conf_parse: sym_check_deps for every symbol *)

\* Mutant of Refs: only the left operand of a conjunction is looked at.
RefsLeft(p) == SetToSeq({s.by : s \in {t \in All : t.sel = p}})

\* The symbols in p's reverse dependency.
Refs(p) == SetToSeq((UNION {{s.by, s.cond} : s \in {t \in All : t.sel = p}}) \ {Off})

\* A symbol that was checked before is fine.
CheckRoot ==
  /\ phase = "conf_parse"
  /\ stack = <<>>
  /\ LET sym == menu[i]
     IN  IF sym \in checked
         THEN Advance("exit?") /\ UNCHANGED <<checked, stack>>
         ELSE /\ Call(sym)
              /\ checked' = checked \cup {sym}
              /\ UNCHANGED <<phase, i>>
  /\ UNCHANGED <<menu, input, found, reported, nerrs, deps, numdeps, files>>

\* Mutant of CheckDep: SYMBOL_CHECKED is tested before SYMBOL_CHECK.
CheckDepSwapped ==
  /\ phase = "conf_parse"
  /\ stack # <<>> /\ found = Off /\ Top.dep <= Len(Refs(Top.package))
  /\ LET sym == Refs(Top.package)[Top.dep]
     IN  \/ /\ sym \in checked
            /\ stack' = [stack EXCEPT ![Len(stack)].dep = @ + 1]
            /\ UNCHANGED checked
         \/ /\ sym \notin checked
            /\ Call(sym)
            /\ checked' = checked \cup {sym}
  /\ UNCHANGED <<menu, input, found, reported, nerrs, deps, numdeps, phase, i, files>>

\* The recursive call for the next symbol: one being checked is reported and
\* found, one that was checked is skipped.
CheckDep ==
  /\ phase = "conf_parse"
  /\ stack # <<>> /\ found = Off /\ Top.dep <= Len(Refs(Top.package))
  /\ LET sym == Refs(Top.package)[Top.dep]
     IN  \/ /\ OnStack(sym)
            /\ reported' = TRUE
            /\ found' = sym
            /\ UNCHANGED <<checked, stack>>
         \/ /\ sym \in checked /\ ~OnStack(sym)
            /\ stack' = [stack EXCEPT ![Len(stack)].dep = @ + 1]
            /\ UNCHANGED <<checked, found, reported>>
         \/ /\ sym \notin checked
            /\ Call(sym)
            /\ checked' = checked \cup {sym}
            /\ UNCHANGED <<found, reported>>
  /\ UNCHANGED <<menu, input, nerrs, deps, numdeps, phase, i, files>>

\* The call returns what was found below it, but NULL if that is its own
\* symbol; the outermost result that is not NULL is an error.
CheckReturn ==
  /\ phase = "conf_parse"
  /\ stack # <<>> /\ (found # Off \/ Top.dep > Len(Refs(Top.package)))
  /\ stack' = Callers
  /\ LET sym2 == IF found = Top.package THEN Off ELSE found
     IN  IF Callers = <<>>
         THEN /\ nerrs' = (nerrs \/ sym2 # Off)
              /\ found' = Off
              /\ Advance("exit?")
         ELSE found' = sym2 /\ UNCHANGED <<nerrs, phase, i>>
  /\ UNCHANGED <<menu, input, checked, reported, deps, numdeps, files>>

\* if (zconfnerrs) exit(1);
ExitOnErrors ==
  /\ phase = "exit?"
  /\ phase' = IF nerrs THEN "exit" ELSE "build_deps"
  /\ UNCHANGED <<menu, input, check, deps, numdeps, i, stack, files>>

-----------------------------------------------------------------------------
(* build_deps *)

\* build_package_deps_expr on one conjunction: nothing when it is false, and
\* else every package it names.
Named(s) == IF s.cond = Off THEN {} ELSE {s.by, s.cond}

\* p is added to the dependencies of all that its reverse dependency names,
\* once for each time it does.
BuildDeps ==
  /\ phase = "build_deps"
  /\ LET p == menu[i]
         uses(q) == Cardinality({s \in All : s.sel = p /\ q \in Named(s)})
     IN  deps' = [q \in Packages |-> deps[q] \o [k \in 1..uses(q) |-> p]]
  /\ Advance("count")
  /\ UNCHANGED <<menu, input, check, numdeps, stack, files>>

-----------------------------------------------------------------------------
(* resolve_deps *)

\* package_resolve_virtual: the first dependency of a virtual package.
Resolve(p) == IF p \in Virtual /\ deps[p] # <<>> THEN Head(deps[p]) ELSE p

CountRoot ==
  /\ phase = "count"
  /\ stack = <<>>
  /\ Call(menu[i])
  /\ UNCHANGED <<menu, input, check, deps, numdeps, phase, i, files>>

\* Mutant of CountDep: the virtual package is not resolved before the call.
CountDepVirtual ==
  /\ phase = "count"
  /\ stack # <<>> /\ Top.dep <= Len(deps[Top.package])
  /\ LET pkg == deps[Top.package][Top.dep]
     IN  /\ Call(pkg)
         /\ phase' = IF OnStack(pkg) THEN "overflow" ELSE phase
  /\ UNCHANGED <<menu, input, check, deps, numdeps, i, files>>

\* The recursive call.  One for a package that is being counted already can
\* never return: the calls repeat until the program's stack overflows.
CountDep ==
  /\ phase = "count"
  /\ stack # <<>> /\ Top.dep <= Len(deps[Top.package])
  /\ LET pkg == Resolve(deps[Top.package][Top.dep])
     IN  /\ Call(pkg)
         /\ phase' = IF OnStack(pkg) THEN "overflow" ELSE phase
  /\ UNCHANGED <<menu, input, check, deps, numdeps, i, files>>

\* Mutant of CountReturn: only direct dependencies of a package are counted.
CountReturnDirect ==
  /\ phase = "count"
  /\ stack # <<>> /\ Top.dep > Len(deps[Top.package])
  /\ stack' = Callers
  /\ IF Callers = <<>>
     THEN Advance("resolve") /\ UNCHANGED numdeps
     ELSE /\ numdeps' = IF Len(stack) = 2
                        THEN [numdeps EXCEPT ![Top.package] = @ + 1] ELSE numdeps
          /\ UNCHANGED <<phase, i>>
  /\ UNCHANGED <<menu, input, check, deps, files>>

\* It returns to a caller, which counts the package, or to resolve_deps.
CountReturn ==
  /\ phase = "count"
  /\ stack # <<>> /\ Top.dep > Len(deps[Top.package])
  /\ stack' = Callers
  /\ IF Callers = <<>>
     THEN Advance("resolve") /\ UNCHANGED numdeps
     ELSE /\ numdeps' = [numdeps EXCEPT ![Top.package] = @ + 1]
          /\ UNCHANGED <<phase, i>>
  /\ UNCHANGED <<menu, input, check, deps, files>>

\* Mutant of ResolveDeps: virtual packages stay.
ResolveDepsNot ==
  /\ phase = "resolve"
  /\ LET p == menu[i]
     IN  deps' = [deps EXCEPT ![p] = Filter(deps[p], Packages \ {p})]
  /\ Advance("write_depends")
  /\ UNCHANGED <<menu, input, check, numdeps, stack, files>>

\* The second loop: virtual packages are replaced, in place, and what then
\* is a dependency of a package on itself is dropped.
ResolveDeps ==
  /\ phase = "resolve"
  /\ LET p == menu[i]
         resolved == [k \in DOMAIN deps[p] |-> Resolve(deps[p][k])]
     IN  deps' = [deps EXCEPT ![p] = Filter(resolved, Packages \ {p})]
  /\ Advance("write_depends")
  /\ UNCHANGED <<menu, input, check, numdeps, stack, files>>

-----------------------------------------------------------------------------
(* write_depends and write_compat *)

Written(p) == p \notin Virtual /\ p \notin Parents

WriteDepends ==
  /\ phase = "write_depends"
  /\ rules' = [p \in {q \in Packages : Written(q)} |->
                 [normal    |-> ToSet(deps[p]) \ Stable,
                  orderOnly |-> ToSet(deps[p]) \cap Stable]]
  /\ phase' = "write_compat"
  /\ UNCHANGED <<menu, input, check, deps, numdeps, i, stack, dirs, master>>

\* list_sort: p goes before the first package with fewer numdeps.
InsertSorted(sorted, p) ==
  LET k == SelectInSeq(sorted, LAMBDA q : numdeps[p] > numdeps[q])
  IN  IF k = 0 THEN Append(sorted, p) ELSE InsertAt(sorted, k, p)

ListSort(list) ==
  LET sorted[k \in 0..Len(list)] ==
        IF k = 0 THEN <<>> ELSE InsertSorted(sorted[k - 1], list[k])
  IN  sorted[Len(list)]

\* Packages first, then platforms; the last of these is the master.
WriteCompat ==
  /\ phase = "write_compat"
  /\ menu' = ListSort(menu)
  /\ LET packages  == Filter(menu', Packages \ (Virtual \cup Platform))
         platforms == Filter(menu', Platform \ Parents)
     IN  /\ dirs' = packages \o platforms
         /\ master' = IF platforms = <<>> THEN Off ELSE Last(platforms)
  /\ phase' = "done"
  /\ UNCHANGED <<input, check, deps, numdeps, i, stack, rules>>

Next ==
  \/ CheckRoot \/ CheckDep \/ CheckReturn \/ ExitOnErrors
  \/ BuildDeps \/ CountRoot \/ CountDep \/ CountReturn \/ ResolveDeps
  \/ WriteDepends \/ WriteCompat

Spec == Init /\ [][Next]_vars

-----------------------------------------------------------------------------
(* Properties *)

Phases == {"conf_parse", "exit?", "exit", "build_deps", "count", "overflow",
           "resolve", "write_depends", "write_compat", "done"}

\* The variables stay within their types.
TypeOK ==
  /\ menu \in Seq(Packages)
  /\ ToSet(menu) = Packages /\ Len(menu) = Cardinality(Packages)
  /\ selects \subseteq Statements
  /\ provider \in [Virtual -> Packages \ (Virtual \cup Platform)]
  /\ checked \subseteq Packages
  /\ found \in Packages \cup {Off}
  /\ {reported, nerrs} \subseteq BOOLEAN
  /\ deps \in [Packages -> Seq(Packages)]
  /\ numdeps \in [Packages -> Nat]
  /\ phase \in Phases
  /\ i \in DOMAIN menu
  /\ stack \in Seq([package : Packages, dep : Nat \ {0}])
  /\ dirs \in Seq(Packages)
  /\ master \in Platform \cup {Off}

\* s makes q depend on p, when all symbols count and when the selected do.
Selection(e) == \E s \in All : s.sel = e[2] /\ e[1] \in {s.by, s.cond}
InForce(e)   == \E s \in All : s.sel = e[2] /\ s.cond # Off /\ e[1] \in {s.by, s.cond}

\* A set of packages each of which depends on another of them or itself.
Circular == \E S \in (SUBSET Packages) \ {{}} : \A p \in S : \E q \in S : Selection(<<p, q>>)

\* Each call on the stack is for the dependency its caller has come to, so the
\* recursion follows dependencies; with the types.
StackIsPath ==
  /\ TypeOK
  /\ \A k \in 2..Len(stack) :
       LET caller == stack[k - 1]
       IN  IF phase = "conf_parse"
           THEN /\ caller.dep \in DOMAIN Refs(caller.package)
                /\ Refs(caller.package)[caller.dep] = stack[k].package
           ELSE /\ caller.dep \in DOMAIN deps[caller.package]
                /\ Resolve(deps[caller.package][caller.dep]) = stack[k].package

\* The packages p waits for: those that p's statements in force select, or
\* that a statement with the condition p selects; virtual ones stand for
\* their provider.
Provided(p) == IF p \in Virtual THEN provider[p] ELSE p
Uses(p)     == {r \in Packages : InForce(<<p, r>>)}
Edges(p)    == {Provided(r) : r \in Uses(p)}
WaitsFor(p) == Edges(p) \ {p}

\* The symbols whose check has returned.
Finished == {p \in checked : ~OnStack(p)}

\* No symbol is being processed twice.
NoneTwice == \A j, k \in DOMAIN stack : stack[j].package = stack[k].package => j = k

\* A list is only walked with recursive calls in two phases, from the
\* element i on.
Walking ==
  /\ phase \notin {"conf_parse", "count", "overflow"} => stack = <<>>
  /\ phase \in {"conf_parse", "count"} /\ stack # <<>> => stack[1].package = menu[i]
  /\ phase = "exit?" => i = 1

\* No cycle is among the symbols whose check has returned, and they refer to
\* nothing else.
NoCycleYet ==
  /\ NoneTwice
  /\ \A p \in Finished : ToSet(Refs(p)) \subseteq Finished
  /\ \A k \in DOMAIN stack : \A m \in DOMAIN Refs(stack[k].package) :
       m < stack[k].dep => Refs(stack[k].package)[m] \in Finished
  /\ \A S \in SUBSET Finished : S # {} => \E p \in S : \A q \in S : ~Selection(<<p, q>>)

\* That is how it is as long as nothing was reported.
Explored ==
  phase = "conf_parse" =>
    /\ found # Off => reported
    /\ \A k \in DOMAIN stack : stack[k].package \in checked
    /\ \A j \in 1..(i - 1) : menu[j] \in checked
    /\ reported => Circular
    /\ ~reported => NoCycleYet

\* The lists of dependencies, in each phase.
Listed ==
  /\ phase \in {"conf_parse", "exit?"} => \A q \in Packages : deps[q] = <<>>
  /\ phase = "build_deps" =>
       \A q \in Packages : ToSet(deps[q]) = {menu[j] : j \in 1..(i - 1)} \cap Uses(q)
  /\ phase \in {"count", "overflow"} => \A q \in Packages : ToSet(deps[q]) = Uses(q)
  /\ phase = "resolve" =>
       \A j \in DOMAIN menu :
         ToSet(deps[menu[j]]) = IF j < i THEN WaitsFor(menu[j]) ELSE Uses(menu[j])
  /\ phase = "write_depends" => \A q \in Packages : ToSet(deps[q]) = WaitsFor(q)

\* resolve_deps has made the outermost call for q; a call for q has come back
\* from one of its calls for p.
RootDone(q) == \E j \in 1..(i - 1) : menu[j] = q
Passed(q, p) ==
  \E k \in DOMAIN stack :
    /\ stack[k].package = q
    /\ \E m \in DOMAIN deps[q] : m < stack[k].dep /\ Resolve(deps[q][m]) = p

\* Each count of q, the outermost call and the call that is under way too, has
\* counted all that q waits for.
Counted ==
  /\ phase \in {"conf_parse", "exit?", "build_deps"} => \A q \in Packages : numdeps[q] = 0
  /\ phase = "count" =>
       /\ NoneTwice
       /\ \A q \in Packages : \A p \in Edges(q) :
            numdeps[p] >= numdeps[q] + (IF RootDone(q) THEN 1 ELSE 0)
                                     + (IF Passed(q, p) THEN 1 ELSE 0)
  /\ phase \in {"resolve", "write_depends", "write_compat"} =>
       \A q \in Packages : \A p \in Edges(q) : numdeps[p] > numdeps[q]

\* The rules are there for the right packages.
Ruled == phase \in {"write_compat", "done"} => DOMAIN rules = {p \in Packages : Written(p)}

\* What the recursions and the loops have done, whenever one looks: the search
\* for cycles (sym_check_deps, symbol.c:1142-1174), the lists of dependencies
\* (build_deps) and the counts (count_package_deps, deps.c:144-190).
RecursionInv == StackIsPath /\ Walking /\ Explored /\ Listed /\ Counted /\ Ruled

\* Circular dependencies are reported, whatever symbol the check starts from
\* and whatever it has marked as checked on the way, and nothing else is
\* (symbol.c:1142-1174).
CircularIsReported == phase \notin {"conf_parse"} => (reported <=> Circular)

\* Whenever count_package_deps would recurse without end, the user was told:
\* virtual packages and conditions bring no cycle kconfig does not see.
OverflowIsReported == phase = "overflow" => reported

\* The rules in depends.mk are those the configuration asks for, and only
\* stable packages are order-only (write_depends, deps.c:571-616).
RulesMatchSelects ==
  phase \in {"write_compat", "done"} =>
    \A p \in DOMAIN rules :
      /\ rules[p].normal = WaitsFor(p) \ Stable
      /\ rules[p].orderOnly = WaitsFor(p) \cap Stable

\* The plan in the two files: what the rule of each package names, which of
\* that is order-only, and where the package is in depends-dirs.
RuleOf(p)   == rules[p].normal \cup rules[p].orderOnly
PlaceOf(p)  == CHOOSE k \in DOMAIN dirs : dirs[k] = p
WrittenPlan ==
  IsBuildPlan(DOMAIN rules, [p \in DOMAIN rules |-> RuleOf(p)], Stable \cap DOMAIN rules,
              [p \in DOMAIN rules |-> PlaceOf(p)])

\* depends-dirs has every package with a rule once, after all packages its
\* rule names, and each of these has a rule: what rebuild-sysroot and
\* PlatformBuild rely on (list_sort and write_compat, deps.c:525-676).
DirsInOrder ==
  phase = "done" =>
    /\ ToSet(dirs) = DOMAIN rules /\ Len(dirs) = Cardinality(DOMAIN rules)
    /\ WrittenPlan

\* Errors end the program: "if (sym_check_deps(sym)) zconfnerrs++;" and
\* "if (zconfnerrs) exit(1);" (zconf.y:556-561).
CircularStops == Circular => phase \in {"conf_parse", "exit?", "exit"}
=============================================================================
