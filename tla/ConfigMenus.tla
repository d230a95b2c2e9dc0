----------------------------- MODULE ConfigMenus -----------------------------
(* The menus of the text-mode configurators: which rows mconf.c and nconf.c  *)
(* show in a menu and what their keys do to the values.  A row is an entry   *)
(* with its tag: m opens a menu, t is a tristate, s a string and : a label.  *)
(* Indentation, scrolling, search, help and single_menu mode are left out.   *)
EXTENDS KconfigConf

Row(m, tag) == [m |-> m, tag |-> tag]

(* build_conf, the same in both programs, adds the rows of entry m to         *)
(* g = [c, rows].  The display v has the menu that is shown (at), whether all *)
(* entries are to be shown (all) or, of these, those with a prompt (prompts), *)
(* and whether the values are calculated before they are looked at (fresh).   *)
Display(at, all, prompts, fresh) == [at |-> at, all |-> all, prompts |-> prompts, fresh |-> fresh]
\* mconf shows of all entries those with a prompt.
MconfDisplay(at, all) == Display(at, all, all, TRUE)
\* nconf shows all, and then calculates the values only after it has looked.
NconfDisplay(at, all) == Display(at, all, FALSE, ~all)

\* The tag of the row of m, "" for none; member is what the choice m has taken.
RowTag(k, c, v, m, member) ==
  LET s == k.menus[m].sym
  IN CASE s = "" /\ (m = v.at \/ ~HasPrompt(k, m)) -> ""
       [] s = "" /\ m # v.at /\ PromptIs(k, m, "menu") -> "m"
       [] s # "" /\ s \in k.choices /\ (Changable(c, s) \/ member # 0) -> "t"
       [] s = "" \/ s \in k.choices \/ m = v.at \/ (s \in k.values /\ c.curr[s] = "y") -> ":"
       [] OTHER -> IF k.type[s] \in TriTypes THEN "t" ELSE "s"

\* Below such a row there are no others of this menu.
RowCloses(k, c, v, m, tag) ==
  LET s == k.menus[m].sym
  IN CASE s = ""           -> tag = "m"
       [] s \in k.choices  -> c.curr[s] = "y"
       [] OTHER            -> m # v.at /\ tag # "s" /\ PromptIs(k, m, "menu")

\* The last visible member of choice m that is the one it has taken, or 0.
LastOf(k, seen, s) == [c |-> seen.c, m |-> Max({0} \cup {child \in Range(seen.rows) : k.menus[child].sym = s})]
DefMenu(k, c, m) == IF IsChoice(k, m) THEN LastOf(k, VisibleChildren(k, c, m), c.chosen[k.menus[m].sym])
                    ELSE [c |-> c, m |-> 0]

RECURSIVE BuildConf(_, _, _, _), BuildRows(_, _, _, _)
BuildRows(k, v, g, ms) == IF ms = <<>> THEN g ELSE BuildRows(k, v, BuildConf(k, v, g, Head(ms)), Tail(ms))
AddRow(k, c, rows, m, tag) ==
  IF tag = "" THEN [c |-> c, rows |-> rows] ELSE [c |-> IsVisible(k, c, m).c, rows |-> Append(rows, Row(m, tag))]
RowsBelow(k, v, g, m, closes, member) ==
  CASE ~closes -> BuildRows(k, v, g, Children(k, m))
    [] closes /\ member # 0 /\ k.menus[member].list # 0 -> BuildRows(k, v, g, <<member>>)
    [] OTHER -> g
Tagged(k, v, c, rows, m, tag, member) ==
  RowsBelow(k, v, AddRow(k, c, rows, m, tag), m, RowCloses(k, c, v, m, tag), member)
RowFor(k, v, rows, m, d) == Tagged(k, v, d.c, rows, m, RowTag(k, d.c, v, m, d.m), d.m)
RowIf(k, v, rows, m, r) == IF (v.prompts /\ ~HasPrompt(k, m)) \/ ~(v.all \/ r.yes) THEN [c |-> r.c, rows |-> rows]
                           ELSE RowFor(k, v, rows, m, DefMenu(k, r.c, m))
BuildConf(k, v, g, m) ==
  RowIf(k, v, g.rows, m, IF v.fresh THEN IsVisible(k, g.c, m) ELSE [c |-> g.c, yes |-> TRUE])

TextRows(k, c, v) == BuildConf(k, v, [c |-> c, rows |-> <<>>], v.at)

\* The members that the dialog of a choice offers.
Symbolic(k, seen) == [seen EXCEPT !.rows = SelectSeq(@, LAMBDA child : HasSym(k, child))]
ChoiceRows(k, c, m) == Symbolic(k, VisibleChildren(k, c, m))

-----------------------------------------------------------------------------
\* Mutant of Opens: a menuconfig entry has no menu.
OpensNoConfig(k, c, row, key) ==
  CASE row.tag = "m" /\ key \in {"enter", "space"} -> "menu"
    [] row.tag = "t" /\ key = "enter" /\ k.menus[row.m].sym \in k.choices -> "choice"
    [] row.tag = "s" /\ key = "enter" -> "string"
    [] OTHER -> ""
\* The menu or dialog that Enter (and for menus the space bar) opens, or "".
Opens(k, c, row, key) ==
  LET s == k.menus[row.m].sym
  IN CASE row.tag = "m" /\ key \in {"enter", "space"} -> "menu"
       [] row.tag = "t" /\ key = "enter" ->
            IF s \in k.choices /\ c.curr[s] = "y" THEN "choice"
            ELSE IF PromptIs(k, row.m, "menu") THEN "menu" ELSE ""
       [] row.tag = "s" /\ key = "enter" -> "string"
       [] OTHER -> ""

\* The keys that change the value of a row in mconf.
MconfKey(k, c, row, key) ==
  LET s == k.menus[row.m].sym
      Level(v) == IF v = "y" /\ ~Settable(k, c, s, v) THEN "m" ELSE v
  IN CASE row.tag = "t" /\ key \in TriConst -> SetTri(k, c, s, Level(key)).c
       [] row.tag = "t" /\ key = "space"    -> Toggle(k, c, s)
       [] OTHER                             -> c

\* In nconf Enter toggles a value when it opens nothing.
NconfKey(k, c, row, key) ==
  MconfKey(k, c, row, IF key = "enter" /\ Opens(k, c, row, key) = "" THEN "space" ELSE key)
=============================================================================
