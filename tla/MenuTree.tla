------------------------------ MODULE MenuTree ------------------------------
(* The links of the menu tree: how the parser makes them and how              *)
(* menu_finalize (scripts/kconfig/menu.c) changes them in place while it      *)
(* walks along them.  Which entries depend on which and have a prompt is left *)
(* to KconfigLanguage; here any may.                                          *)
EXTENDS KconfigReader

\* The calls of menu_finalize under way, innermost last: for which entry p, in
\* which of its loops, at which entry, and last_menu (0 for NULL).  It also sets
\* current_entry for the functions it calls; nobody reads that afterwards.
VARIABLE calls

treeVars == <<k, phase, calls>>

\* What k says of the tree: three links of each entry, 0 for NULL, and where
\* the parser goes on (current_menu, current_entry, last_entry_ptr).
Tree == [parent |-> [m \in DOMAIN k.menus |-> k.menus[m].parent],
         list |-> [m \in DOMAIN k.menus |-> k.menus[m].list],
         next |-> [m \in DOMAIN k.menus |-> k.menus[m].next],
         menu |-> k.menu, entry |-> k.entry, last |-> k.last]

TreeInit ==
  /\ Tree = [parent |-> <<0>>, list |-> <<0>>, next |-> <<0>>, menu |-> 1, entry |-> 1, last |-> <<1, "list">>]
  /\ phase = "parsing" /\ calls = <<>>

-----------------------------------------------------------------------------
\* menu_add_entry, menu_add_menu and menu_end_menu.
WithEntry(t) ==
  LET m == Len(t.parent) + 1
      Put(links, name) == Append(IF t.last[2] = name THEN [links EXCEPT ![t.last[1]] = m] ELSE links, 0)
  IN [t EXCEPT !.parent = Append(@, t.menu), !.list = Put(@, "list"), !.next = Put(@, "next"),
               !.entry = m, !.last = <<m, "next">>]
WithMenu(t) == [t EXCEPT !.last = <<t.entry, "list">>, !.menu = t.entry]
WithEnd(t) == [t EXCEPT !.last = <<t.menu, "next">>, !.menu = t.parent[t.menu]]

\* A statement completes the one before it, which may be a menu or an "if",
\* and makes an entry or ends a block.
Completions(t) == {t, WithMenu(WithEntry(t))} \cup (IF t.last = <<t.entry, "next">> THEN {WithMenu(t)} ELSE {})
Statement(t) == {t, WithEntry(t)} \cup (IF t.menu # 1 THEN {WithEnd(t)} ELSE {})
Parse ==
  /\ phase = "parsing" /\ phase' \in {"parsing", "parsed", "failed"}
  /\ \E t \in Completions(Tree) : Tree' \in Statement(t)
  /\ UNCHANGED calls

-----------------------------------------------------------------------------
Call(p, at, loop) == [p |-> p, at |-> at, last |-> 0, loop |-> loop]
\* A call for m begins with the entries below m, or else with those behind it.
Begun(t, m) == IF t.list[m] # 0 THEN {Call(m, t.list[m], "below")} ELSE {Call(m, t.next[m], "behind"), Call(m, 0, "tidy")}

\* The entries behind p up to last get below it.
Absorbed(t, p, last) == [t EXCEPT !.list[p] = t.next[p], !.next[p] = t.next[last], !.next[last] = 0]

\* The entries below m, which are those that have it as parent, take its place.
Spliced(t, p, m) ==
  LET below == {c \in DOMAIN t.parent : t.parent[c] = m}
  IN [t EXCEPT !.parent = [c \in DOMAIN @ |-> IF c \in below THEN p ELSE @[c]],
               !.next = [@ EXCEPT ![Max(below)] = t.next[m], ![m] = t.list[m]],
               !.list[m] = 0]

Inner == Last(calls)
Running(loops) == phase = "parsed" /\ calls # <<>> /\ Inner.loop \in loops
GoesOn(call) == calls' = Append(Front(calls), call) /\ UNCHANGED phase
Turned(call, loop, at) == [call EXCEPT !.loop = loop, !.at = at]

BeginFinalize ==
  /\ phase = "parsed" /\ calls = <<>>
  /\ calls' \in {<<call>> : call \in Begun(Tree, 1)}
  /\ UNCHANGED <<Tree, phase>>

FinalizeNext ==
  /\ Running({"below", "behind"}) /\ Inner.at # 0
  /\ \E call \in Begun(Tree, Inner.at) : calls' = Append(calls, call)
  /\ UNCHANGED <<Tree, phase>>

EndBelow ==
  /\ Running({"below"}) /\ Inner.at = 0
  /\ GoesOn(Turned(Inner, "tidy", Tree.list[Inner.p]))
  /\ UNCHANGED Tree

EndBehind ==
  /\ Running({"behind"})
  /\ Tree' = IF Inner.last = 0 THEN Tree ELSE Absorbed(Tree, Inner.p, Inner.last)
  /\ GoesOn(Turned(Inner, "tidy", Tree'.list[Inner.p]))

Tidy ==
  /\ Running({"tidy"}) /\ Inner.at # 0
  /\ Tree' = Tree \/ (Tree.list[Inner.at] # 0 /\ Tree' = Spliced(Tree, Inner.p, Inner.at))
  /\ GoesOn(Turned(Inner, "tidy", Tree'.next[Inner.at]))

\* Back to the call that made this one, which goes on with the next entry.
Caller == calls[Len(calls) - 1]
ReturnBelow ==
  /\ Running({"tidy"}) /\ Inner.at = 0 /\ Len(calls) > 1 /\ Caller.loop = "below"
  /\ calls' = Append(Front(Front(calls)), [Caller EXCEPT !.at = Tree.next[@]])
  /\ UNCHANGED <<Tree, phase>>
ReturnBehind ==
  /\ Running({"tidy"}) /\ Inner.at = 0 /\ Len(calls) > 1 /\ Caller.loop = "behind"
  /\ calls' = Append(Front(Front(calls)), [Caller EXCEPT !.at = Tree.next[@], !.last = Caller.at])
  /\ Tree' = [Tree EXCEPT !.parent[Caller.at] = Caller.p]
  /\ UNCHANGED phase
EndFinalize ==
  /\ Running({"tidy"}) /\ Inner.at = 0 /\ Len(calls) = 1
  /\ calls' = <<>> /\ phase' = "ready"
  /\ UNCHANGED Tree

TreeNext ==
  \/ Parse \/ BeginFinalize \/ FinalizeNext \/ EndBelow \/ EndBehind \/ Tidy
  \/ ReturnBelow \/ ReturnBehind \/ EndFinalize
TreeSpec == TreeInit /\ [][TreeNext]_treeVars

-----------------------------------------------------------------------------
\* The walk of conf_write and all others: down, or on, or back up and on.
Encloses(a, m) == a <= m /\ \A i \in a + 1 .. m : Tree.parent[i] >= a
Onward(m) == {a \in 1 .. m : Encloses(a, m) /\ Tree.next[a] # 0}
After(m) == IF Tree.list[m] # 0 THEN Tree.list[m] ELSE IF Onward(m) = {} THEN 0 ELSE Tree.next[Max(Onward(m))]

Places == DOMAIN Tree.parent
LinksTo(m) == {l \in Places \X {"list", "next"} : Tree[l[2]][l[1]] = m}

(* Though menu_finalize takes lists apart and joins them while it walks along *)
(* them, at no time an entry is lost or in two places: exactly one link leads *)
(* to it, from an entry made before it.  And when the tree is ready the walk  *)
(* of all writers comes by the entries in the order in which they were        *)
(* declared, each once.                                                       *)
EveryEntryOnce ==
  LET n == Len(Tree.parent)
  IN /\ \A m \in 2 .. n : \E l \in LinksTo(m) : LinksTo(m) = {l} /\ l[1] < m
     /\ phase = "ready" =>
          /\ \A m \in 1 .. n : After(m) = IF m = n THEN 0 ELSE m + 1
          /\ \A m \in 2 .. n : Tree.parent[m] < m /\ Encloses(Tree.parent[m], m)

-----------------------------------------------------------------------------
(* The inductive invariant: the numbers of the entries are at any time their  *)
(* places in the walk, since neither a submenu that is made nor a list that   *)
(* is spliced changes the order.  u[m] is the entry in whose list m is.       *)
Ordered(n, u) ==
  /\ u[1] = 0 /\ \A m \in 2 .. n : u[m] \in 1 .. m - 1
  /\ \A m, i \in 2 .. n : u[m] < i /\ i < m => u[m] <= u[i]
Lists(n, u, list) == \A m \in 1 .. n : list[m] = IF m < n /\ u[m + 1] = m THEN m + 1 ELSE 0
Nexts(n, u, next) == \A m \in 1 .. n :
  /\ next[m] # 0 => next[m] \in m + 1 .. n /\ u[next[m]] = u[m]
  /\ \A j \in m + 1 .. n : u[j] = u[m] => next[m] # 0 /\ next[m] <= j
Shape(n, u, list, next) == Ordered(n, u) /\ Lists(n, u, list) /\ Nexts(n, u, next)

IsTree(t) ==
  /\ t \in [parent : Seq(Nat), list : Seq(Nat), next : Seq(Nat), menu : Nat, entry : Nat,
            last : Nat \X {"list", "next"}]
  /\ t.parent # <<>> /\ Len(t.list) = Len(t.parent) /\ Len(t.next) = Len(t.parent)

\* Where the parser goes on: behind the entry x of the menu it is in, or
\* below an entry that has none yet.
Growing(t) ==
  LET n == Len(t.parent)
  IN /\ t.entry = n /\ t.menu \in 1 .. n
     /\ \A i \in t.menu + 1 .. n : t.parent[i] >= t.menu
     /\ \/ t.last = <<n, "list">> /\ t.menu = n
        \/ \E x \in t.menu + 1 .. n :
             t.last = <<x, "next">> /\ t.parent[x] = t.menu /\ \A i \in x + 1 .. n : t.parent[i] >= x

\* While a call gathers a submenu for p, what it has got has p as parent but is
\* still in the list that p is in.
Gathering(cs) == {cs[i].p : i \in {j \in DOMAIN cs : cs[j].loop = "behind"}}
Over(t, cs) ==
  [m \in DOMAIN t.parent |-> IF t.parent[m] \in Gathering(cs) THEN t.parent[t.parent[m]] ELSE t.parent[m]]

CallInv(t, u, c) ==
  LET n == Len(t.parent)
  IN /\ c.p \in 1 .. n /\ c.at \in 0 .. n /\ c.last \in 0 .. n
     /\ c.at # 0 => c.p < c.at
     /\ c.loop # "behind" /\ c.at # 0 => u[c.at] = c.p
     /\ c.loop = "behind" =>
          /\ t.list[c.p] = 0
          /\ c.at = t.next[IF c.last = 0 THEN c.p ELSE c.last]
          /\ c.last # 0 => c.p < c.last /\ u[c.last] = u[c.p]
          /\ \A j \in 1 .. n : t.parent[j] = c.p <=> c.p < j /\ j <= c.last /\ u[j] = u[c.p]
\* Each call but the innermost waits for one for the entry that it is at.
Nested(cs) ==
  /\ \A i, j \in DOMAIN cs : i < j => cs[i].p < cs[j].p
  /\ \A i \in 1 .. Len(cs) - 1 : cs[i].loop # "tidy" /\ cs[i].at = cs[i + 1].p
CallRecords == [p : Nat, at : Nat, last : Nat, loop : {"below", "behind", "tidy"}]
Sound(t, cs) ==
  LET u == Over(t, cs)
  IN /\ Shape(Len(t.parent), u, t.list, t.next)
     /\ \A i \in DOMAIN cs : CallInv(t, u, cs[i])

TreeInv ==
  /\ IsTree(Tree) /\ calls \in Seq(CallRecords) /\ phase \in {"parsing", "parsed", "ready", "failed"}
  /\ phase = "parsing" => Growing(Tree)
  /\ phase # "parsed" => calls = <<>>
  /\ Nested(calls) /\ Sound(Tree, calls)
=============================================================================
