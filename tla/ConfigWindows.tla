---------------------------- MODULE ConfigWindows ----------------------------
(* The trees of the graphical configurators and what clicks do to the values *)
(* (scripts/kconfig/gconf.c, qconf.cc).  A tree is a sequence of nodes, each *)
(* an entry m with the tree sub below it.  Both programs change the tree     *)
(* they show instead of making a new one; operators that do return the       *)
(* values and the tree, [c, tree].  Columns, pixmaps and the texts in them,  *)
(* gconf's split view (two trees, update_tree on the menu that is browsed),  *)
(* the left-hand list of qconf's and search are left out.                    *)
EXTENDS ConfigMenus

Item(m, sub) == [m |-> m, sub |-> sub]
Shows(c, tree) == [c |-> c, tree |-> tree]

\* fixup_rootmenu: the menus, and outside of all menus every entry.
RECURSIVE RootEntries(_, _, _)
RootEntries(k, m, inMenu) ==
  {m} \cup UNION {IF PromptIs(k, x, "menu") THEN RootEntries(k, x, TRUE)
                  ELSE IF inMenu THEN {} ELSE RootEntries(k, x, FALSE) : x \in Range(Children(k, m))}

\* What the option modes normal, prompt and all show; [c, yes].
Wanted(k, c, opt, m) ==
  CASE opt = "normal" -> IsVisible(k, c, m)
    [] opt = "prompt" -> [c |-> c, yes |-> HasPrompt(k, m)]
    [] opt = "all"    -> [c |-> c, yes |-> HasPrompt(k, m) \/ (HasSym(k, m) /\ ~IsChoice(k, m))]

\* fill_row calculates the value and looks at the members of a choice.
CalcEntry(k, c, m) == IF HasSym(k, m) THEN Calc(k, c, k.menus[m].sym) ELSE c
LookedInto(k, c, m) == IF IsChoice(k, m) THEN VisibleChildren(k, c, m).c ELSE c
FillRow(k, c, m) == LookedInto(k, CalcEntry(k, IsVisible(k, c, m).c, m), m)

RECURSIVE InTree(_, _)
InTree(tree, m) == \E i \in DOMAIN tree : tree[i].m = m \/ InTree(tree[i].sub, m)
-----------------------------------------------------------------------------
\* display_tree, in the full and the single view: a new tree for the entries
\* below m.  Below an entry that is not shown, none is.
RECURSIVE GtkDisplay(_, _, _, _, _), GtkRows(_, _, _, _, _, _)
GtkDisplay(k, c, view, opt, m) == GtkRows(k, Shows(c, <<>>), view, opt, m, Children(k, m))
GtkDeeper(k, view, m, child) == view = "full" \/ (m \in RootEntries(k, 1, FALSE) /\ ~PromptIs(k, child, "menu"))
GtkBelow(k, c, view, opt, m, child) ==
  IF GtkDeeper(k, view, m, child) THEN GtkDisplay(k, c, view, opt, child) ELSE Shows(c, <<>>)
GtkPut(tree, child, yes, below) == Shows(below.c, IF yes THEN Append(tree, Item(child, below.tree)) ELSE tree)
GtkFill(k, v, child) == IF v.yes THEN FillRow(k, v.c, child) ELSE v.c
GtkPlace(k, tree, view, opt, m, child, v) ==
  GtkPut(tree, child, v.yes, GtkBelow(k, GtkFill(k, v, child), view, opt, m, child))
GtkRows(k, g, view, opt, m, kids) ==
  IF kids = <<>> THEN g
  ELSE GtkRows(k, GtkPlace(k, g.tree, view, opt, m, Head(kids), Wanted(k, g.c, opt, Head(kids))), view, opt, m, Tail(kids))

(* update_tree goes through the entries kids and the nodes side by side;     *)
(* done are the nodes it has left behind, rest those it has not.  After the  *)
(* last node is removed it returns, whatever kids there are still.  A row    *)
(* that stays is filled again when SYMBOL_CHANGED is set: outside of the     *)
(* option mode normal what that calculates is left to a later step.          *)
RECURSIVE GtkUpdate(_, _, _, _, _), GtkMerge(_, _, _, _, _, _)
GtkUpdate(k, c, opt, m, tree) == GtkMerge(k, c, opt, Children(k, m), <<>>, tree)
IsNext(rest, m) == rest # <<>> /\ rest[1].m = m
Below(rest, m) == IF IsNext(rest, m) THEN rest[1].sub ELSE <<>>       \* the tree below the node of m
Behind(rest, m) == IF IsNext(rest, m) THEN Tail(rest) ELSE rest
GtkKept(k, opt, kids, done, rest, below) ==
  GtkMerge(k, below.c, opt, Tail(kids), Append(done, Item(kids[1], below.tree)), Behind(rest, kids[1]))
GtkRow(k, c, m, rest) == IF IsNext(rest, m) THEN c ELSE FillRow(k, c, m)
GtkKeep(k, c, opt, kids, done, rest) ==
  GtkKept(k, opt, kids, done, rest, GtkUpdate(k, GtkRow(k, c, kids[1], rest), opt, kids[1], Below(rest, kids[1])))
GtkDrop(k, c, opt, kids, done, rest) ==
  IF Len(rest) <= 1 THEN Shows(c, done) ELSE GtkMerge(k, c, opt, kids, done, Tail(rest))
GtkFit(k, v, opt, kids, done, rest) ==
  LET found == InTree(done \o rest, kids[1])
  IN CASE v.yes /\ (IsNext(rest, kids[1]) \/ ~found) -> GtkKeep(k, v.c, opt, kids, done, rest)
       [] ~v.yes /\ ~found -> GtkMerge(k, v.c, opt, Tail(kids), done, rest)
       [] OTHER -> GtkDrop(k, v.c, opt, kids, done, rest)
GtkMerge(k, c, opt, kids, done, rest) ==
  IF kids = <<>> THEN Shows(c, done \o rest) ELSE GtkFit(k, Wanted(k, c, opt, kids[1]), opt, kids, done, rest)

\* change_sym_value: a value out of range means y.
GtkSet(k, c, s, v) == SetTri(k, c, s, IF WithinRange(k, c, s, v) THEN v ELSE "y").c

\* Mutant of GtkRefresh: nothing is done outside of the full view.
GtkRefreshFull(k, c, w, inPlace) == IF w.view = "full" THEN GtkUpdate(k, c, w.opt, 1, w.tree) ELSE Shows(c, w.tree)
\* The tree after a change: in the single view it is built again, unless the
\* change is one that updates it in place, from the root menu on.
GtkRefresh(k, c, w, inPlace) ==
  IF w.view = "full" \/ inPlace THEN GtkUpdate(k, c, w.opt, 1, w.tree) ELSE GtkDisplay(k, c, w.view, w.opt, w.at)

\* on_back_clicked: the menu around, twice up when that is no menu.
GtkParent(k, m) ==
  LET p == k.menus[m].parent IN IF PromptIs(k, p, "menu") THEN p ELSE k.menus[p].parent
-----------------------------------------------------------------------------
\* menuSkip, whose opposite is yes; v is what menu_is_visible says of m.
QtShown(k, v, opt, m) == CASE opt = "normal" -> v
                           [] opt = "prompt" -> [v EXCEPT !.yes = HasPrompt(k, m)]
                           [] opt = "all"    -> [v EXCEPT !.yes = TRUE]

\* updateMenuList: the nodes tree of what is below m are made to fit.  In the
\* views other than full, a menu has nothing below it.
RECURSIVE QtUpdate(_, _, _, _, _, _), QtMerge(_, _, _, _, _)
QtEnd(acc) == Shows(acc.c, acc.done \o acc.rest)
QtUpdate(k, c, view, opt, m, tree) ==
  QtEnd(QtMerge(k, [c |-> c, done |-> <<>>, rest |-> tree], view, opt, Children(k, m)))
QtPut(acc, child, below) ==
  [c |-> below.c, done |-> Append(acc.done, Item(child, below.tree)), rest |-> Behind(acc.rest, child)]
QtBelow(k, c, view, opt, child, sub) ==
  IF view = "full" \/ ~PromptIs(k, child, "menu") THEN QtUpdate(k, c, view, opt, child, sub) ELSE Shows(c, <<>>)
\* An entry that an "if" left behind.
IsEmpty(k, m) == ~HasSym(k, m) /\ k.menus[m].list = 0 /\ ~HasPrompt(k, m)
QtFit(k, acc, view, opt, child, v) ==
  CASE ~v.yes -> [acc EXCEPT !.c = v.c, !.rest = Behind(acc.rest, child)]
    [] v.yes /\ IsEmpty(k, child) -> [acc EXCEPT !.c = v.c]
    [] OTHER -> QtPut(acc, child, QtBelow(k, CalcEntry(k, v.c, child), view, opt, child, Below(acc.rest, child)))
\* In the symbol list there are no menus.
QtSeen(k, c, view, opt, m) ==
  IF view = "symbol" /\ m \in RootEntries(k, 1, FALSE) THEN [c |-> c, yes |-> FALSE]
  ELSE QtShown(k, IsVisible(k, c, m), opt, m)
QtMerge(k, acc, view, opt, kids) ==
  IF kids = <<>> THEN acc
  ELSE QtMerge(k, QtFit(k, acc, view, opt, Head(kids), QtSeen(k, acc.c, view, opt, Head(kids))), view, opt, Tail(kids))

\* updateList: a symbol whose menu is shown has a node of its own, on top.
QtRefresh(k, c, w) ==
  LET own == /\ w.view = "single" \/ (w.view = "symbol" /\ w.at \notin RootEntries(k, 1, FALSE))
             /\ HasSym(k, w.at)
      sub == CASE ~own -> w.tree [] own /\ w.tree = <<>> -> <<>> [] OTHER -> w.tree[1].sub
      On(below) == Shows(below.c, IF own THEN <<Item(w.at, below.tree)>> ELSE below.tree)
  IN On(QtUpdate(k, c, w.view, w.opt, w.at, sub))
=============================================================================
