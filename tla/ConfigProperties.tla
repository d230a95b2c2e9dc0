--------------------------- MODULE ConfigProperties ---------------------------
(* What is asked of kconfig: of reading the Kconfig files, of the values and  *)
(* the files they are kept in, and of what the configurators show.            *)
EXTENDS ConfigSession

-----------------------------------------------------------------------------
\* The dependencies as they are declared: of what is around entry m, of e in m.
RECURSIVE Around(_, _)
Around(val, m) ==
  LET menus == declared.menus
      p == menus[m].parent
      prompt == IF menus[p].prompt = 0 THEN NoExpr ELSE declared.props[menus[p].prompt].visible
  IN IF p = 0 THEN 2
     ELSE IF IsChoice(declared, p) THEN ExprValue(val, Sym(menus[p].sym))
     ELSE Min({ExprValue(val, prompt), ExprValue(val, menus[p].dep), Around(val, p)})
Declared(val, m, e) == Min({ExprValue(val, e), ExprValue(val, declared.menus[m].dep), Around(val, m)})

Valuations == [{s \in Symbols : k.type[s] \in TriTypes} -> {"n", "y"}]

(* menu_finalize hands dependencies down, negates, joins and shortens them    *)
(* (expr.c).  For symbols that are n or y this changes nothing of what they   *)
(* say: an entry, each of its properties and each reverse dependency has the  *)
(* value that follows from its own condition and those of all blocks around.  *)
(* (For m some of the rules are wrong: FOO && !FOO becomes n.)                *)
FinalizeKeepsMeaning ==
  [][phase = "parsed" /\ phase' = "ready" =>
       \A val \in Valuations :
         /\ \A m \in 2 .. Len(declared.menus) :
              /\ ExprValue(val, k'.menus[m].dep) = Declared(val, m, NoExpr)
              /\ \A i \in PropsOf(declared, m) :
                   ExprValue(val, k'.props[i].visible) = Declared(val, m, declared.props[i].visible)
         /\ \A s \in Symbols \ k.choices :
              k'.rev[s] # NoExpr =>
                ExprValue(val, k'.rev[s]) =
                  Max({Min({Tri(val[p.sym]), Declared(val, p.menu, p.visible)}) :
                         p \in {q \in Range(declared.props) : q.type = "select" /\ q.expr.sym = s}})]_parseVars

-----------------------------------------------------------------------------
Recalculated(c1) == CalcAll(k, [c1 EXCEPT !.valid = {}])
Reread(lines) == ConfRead(k, NewValues(k), lines)

Doubtful == k.choices \cap k.optional
Ignored(s) == /\ s \in c.has /\ IsString(k, s) /\ c.vis[s] # 0
              /\ Calc(k, [c EXCEPT !.valid = @ \ {s}], s).curr[s] # c.curr[s]
SameAs(c1) == \A s \in c.valid :
  c1.curr[s] # c.curr[s] => s \in Doubtful \/ (s \in k.values /\ ChoiceOf(k, s) \in Doubtful)
IsFresh(c1) == SameAs(c1) \/ \E s \in Symbols : Ignored(s)
(* The values are calculated when they are needed and kept as long as they    *)
(* are valid.  What a configurator has calculated is what it would get now.   *)
(* Not so for an optional choice, whose value conf_read takes back after      *)
(* calculating it when a member is new, nor after a string or number has been *)
(* typed that the symbol had been given before but did not show: it is taken, *)
(* but no value is made invalid.                                              *)
CacheIsFresh == Idle(Editors) => IsFresh(Recalculated(c))

NumberLegal(v, s, r) == r.i # 0 => Between(v.curr[s], Bounds(v, k.props[r.i].expr))
Legal(v) ==
  /\ \A s \in Symbols : IsTri(k, s) =>
       /\ v.curr[s] = "m" => k.type[s] = "tristate" /\ v.curr[Modules] # "n"
       /\ k.rev[s] # NoExpr => Tri(v.curr[s]) >= ExprValue(v.curr, k.rev[s])
  /\ \A s \in Symbols : k.type[s] = "int" => NumberLegal(v, s, RangeProp(k, v, s))
  /\ \A ch \in k.choices : v.curr[ch] = "y" =>
       Cardinality({s \in Range(Members(k, ch)) : v.curr[s] = "y" /\ v.vis[s] # 0}) = 1
(* Whatever the user, the files and the Kconfig files want, the values are    *)
(* ones the build can have: no module without modules, nothing below what is  *)
(* selected, numbers in their range, and of a choice that is y exactly one    *)
(* member that can be seen.                                                   *)
ValuesAreLegal == Idle(Editors) => Legal(Recalculated(c))

(* A configuration that was written brings back every value when it is read,  *)
(* in whatever order its lines meet the choices and conditions they are about.*)
(* (It may count as changed: members of a choice are written, as not set,     *)
(* after they have become invisible, as SYMBOL_WRITE stays with them; and     *)
(* after a rename that failed the next attempt writes nothing at all.)        *)
SaveLoadsBack ==
  step = "old" /\ ~failed => Meaning(k, text) = Values(k, c)

(* A default configuration, though it names only what is not the default,     *)
(* brings back every value.                                                   *)
DefconfigLoadsBack ==
  step = "direct" =>
    Values(k, CalcAll(k, SetAllNew(k, Reread(text), "default"))) = Values(k, c)

(* After any configurator has saved .config, the silentoldconfig of the build *)
(* has nothing to ask.                                                        *)
NoQuestionTwice ==
  step = "old" /\ ~failed => Update(k, NewRun(Reread(text), "silent", "none")).end = ""

-----------------------------------------------------------------------------
(* What a row offers to change can be changed: the test that decides how it   *)
(* is drawn (sym_is_changable) agrees with the one that refuses values.       *)
NoDeadRow ==
  Idle(TextUIs) =>
    \A row \in Rows :
      row.tag = "t" /\ IsVisible(k, c, row.m).yes /\ Changable(c, k.menus[row.m].sym) =>
        \E v \in TriConst \ {c.curr[k.menus[row.m].sym]} : SetTri(k, c, k.menus[row.m].sym, v).ok

\* The rows that one gets to from the menu at.
RECURSIVE Reached(_)
Reached(at) ==
  LET Under(row, opened) == CASE opened = "menu" /\ row.m # at -> {row.m} \cup Reached(row.m)
                              [] opened = "choice" -> {row.m} \cup Range(ChoiceRows(k, c, row.m).rows)
                              [] OTHER -> {row.m}
  IN UNION {Under(row, Opens(k, c, row, "enter")) : row \in Range(TextRows(k, c, MconfDisplay(at, FALSE)).rows)}

RECURSIVE Visible(_)
Visible(m) == m = 1 \/ (IsVisible(k, c, m).yes /\ Visible(k.menus[m].parent))
(* Every entry that is visible with all that is around it has a row in some   *)
(* menu that one can open, or in the dialog of its choice.                    *)
EveryEntryReached ==
  Idle({"mconf"}) => {m \in 2 .. Len(k.menus) : Visible(m)} \subseteq Reached(1)

(* The window of qconf is changed entry by entry; it always shows what a new  *)
(* one would.                                                                 *)
QtTreeIsFresh ==
  Idle({"qconf"}) => w.tree = QtRefresh(k, c, [w EXCEPT !.tree = <<>>]).tree

(* gconf may be late in showing entries but shows none that is not visible,   *)
(* until it loads a configuration: that adds the rows of the root menu to     *)
(* those of the menu it shows.                                                *)
GtkShowsVisible ==
  LET rows == [i \in DOMAIN w.tree |-> w.tree[i].m]
      OfOneMenu == IsInjective(rows) /\ \E p \in DOMAIN k.menus : Range(rows) \subseteq Range(Children(k, p))
  IN Idle({"gconf"}) /\ w.opt = "normal" /\ OfOneMenu =>
       \A m \in Entries(w.tree) : IsVisible(k, c, m).yes
=============================================================================
