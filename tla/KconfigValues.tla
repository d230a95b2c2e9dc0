--------------------------- MODULE KconfigValues ---------------------------
(* The values of the symbols (scripts/kconfig/symbol.c, menu_is_visible of   *)
(* menu.c): how they are calculated, kept and changed.  k is the finished    *)
(* data of KconfigMenu; all that changes afterwards is one record c:         *)
(*   def, has  the user's value (S_DEF_USER) of a symbol and the symbols     *)
(*             that have one (SYMBOL_DEF_USER); pick the user's member of a  *)
(*             choice                                                        *)
(*   curr, chosen  the value calculated last, of a choice also the member    *)
(*   vis, rev, dirdep  visible, rev_dep.tri and dir_dep.tri, as 0, 1 and 2   *)
(*   valid, write  the symbols with SYMBOL_VALID and SYMBOL_WRITE            *)
(*   modules   modules_val                                                   *)
(*   changed   sym_change_count is not 0                                     *)
(* Operators that may calculate values on their way return the new c as well.*)
(* Numbers are the strings in Numerals; hex differs from int in spelling only *)
(* and is left out.                                                          *)
EXTENDS KconfigMenu

CONSTANT Numerals      \* the numbers there are: Numerals[i] spells i - 1

TriTypes == {"bool", "tristate"}
IsTri(k, s) == k.type[s] \in TriTypes
IsString(k, s) == k.type[s] \in {"string", "int"}
Num(v) == IF v \in Range(Numerals) THEN (CHOOSE i \in DOMAIN Numerals : Numerals[i] = v) - 1 ELSE 0
TriName(t) == <<"n", "m", "y">>[t + 1]

\* The NULL that the user's value of a string or number is at first.
NullText == "<none>"

\* A process that has just parsed the files.
NewValues(k) ==
  LET all(v) == [s \in Symbols |-> v]
  IN [def |-> [s \in Symbols |-> IF k.type[s] \in TriTypes THEN "n" ELSE NullText], has |-> {}, pick |-> all(""),
      curr |-> [s \in Symbols |-> IF k.type[s] = "unknown" THEN s ELSE IF k.type[s] \in TriTypes THEN "n" ELSE ""],
      chosen |-> all(""), vis |-> all(0), rev |-> all(0), dirdep |-> all(0),
      valid |-> {}, write |-> {}, modules |-> "n", changed |-> TRUE]

Props(k, s, types) ==
  SelectSeq([i \in DOMAIN k.props |-> i], LAMBDA i : k.props[i].sym = s /\ k.props[i].type \in types)
Visibles(k, props) == [i \in DOMAIN props |-> k.props[props[i]].visible]
Members(k, ch) == k.props[Props(k, ch, {"choice"})[1]].list
ChoiceOf(k, s) == k.props[Props(k, s, {"choice"})[1]].expr.sym
\* The symbols without a name, which are not written (SYMBOL_AUTO).
Auto(k) == k.choices \cup {Modules}
\* Mutant of GetType: what MODULES says is not looked at.
GetTypeDeclared(k, c, s) == k.type[s]
GetType(k, c, s) ==
  IF k.type[s] = "tristate" /\ ((s \in k.values /\ c.vis[s] = 2) \/ c.modules = "n") THEN "bool" ELSE k.type[s]

RECURSIVE Calc(_, _, _), CalcSyms(_, _, _), CalcExpr(_, _, _), CalcExprs(_, _, _)
CalcSyms(k, c, syms) == IF syms = <<>> THEN c ELSE CalcSyms(k, Calc(k, c, Head(syms)), Tail(syms))
CalcExprs(k, c, es) == IF es = <<>> THEN c ELSE CalcExprs(k, CalcExpr(k, c, Head(es)), Tail(es))
\* expr_calc_value, which calculates every symbol of the expression: the
\* values c after that and the value t.
CalcExpr(k, c, e) ==
  IF e.args # <<>> THEN CalcExprs(k, c, e.args) ELSE CalcSyms(k, c, IF e.val = "" THEN <<e.sym>> ELSE <<e.sym, e.val>>)
Valued(c, e) == [c |-> c, t |-> ExprValue(c.curr, e)]
Value(k, c, e) == Valued(CalcExpr(k, c, e), e)

\* The three parts of sym_calc_visibility: the prompts, dir_dep and rev_dep.
Highest(c, conditions) == Max({0} \cup {ExprValue(c.curr, e) : e \in Range(conditions)})
SetVisible(k, c, s, t) ==
  [c EXCEPT !.vis[s] = IF t = 1 /\ (k.type[s] # "tristate" \/ c.modules = "n") THEN 2 ELSE t]
Prompted(k, c, s, conditions) == SetVisible(k, c, s, Highest(c, conditions))
SetRev(k, s, r) == [r.c EXCEPT !.rev[s] = IF k.rev[s] = NoExpr THEN 0
                                          ELSE IF r.t = 1 /\ GetType(k, r.c, s) = "bool" THEN 2 ELSE r.t]
SetDep(s, r) == [r.c EXCEPT !.dirdep[s] = IF r.t = 0 THEN 0 ELSE 2]
Selected(k, c, s) == SetRev(k, s, Value(k, c, k.rev[s]))
Depending(k, c, s) == IF s \in k.values THEN c ELSE Selected(k, SetDep(s, Value(k, c, k.dir[s])), s)
Seen(k, c, s, conditions) == Prompted(k, CalcExprs(k, c, conditions), s, conditions)
CalcVisibility(k, c, s) == Depending(k, Seen(k, c, s, Visibles(k, Props(k, s, {"prompt", "menu"}))), s)

\* The first default (or range) whose condition is not n: its index i and the
\* value t of the condition.
NoProp(c) == [c |-> c, i |-> 0, t |-> 0]
RECURSIVE FirstProp(_, _, _)
FirstOr(k, props, r) ==
  IF r.t # 0 THEN [c |-> r.c, i |-> props[1], t |-> r.t] ELSE FirstProp(k, r.c, Tail(props))
FirstProp(k, c, props) ==
  IF props = <<>> THEN NoProp(c) ELSE FirstOr(k, props, Value(k, c, k.props[props[1]].visible))
DefaultProp(k, c, s) == FirstProp(k, c, Props(k, s, {"default"}))
RangeProp(k, c, s) == FirstProp(k, c, Props(k, s, {"range"}))

\* The member a choice takes by itself, or "".
ChoiceDefault(k, c, ch) ==
  LET ok == SelectSeq(Props(k, ch, {"default"}),
                      LAMBDA i : ExprValue(c.curr, k.props[i].visible) # 0 /\ c.vis[k.props[i].expr.sym] # 0)
      seen == SelectSeq(Members(k, ch), LAMBDA s : c.vis[s] # 0)
  IN CASE ok # <<>>   -> k.props[ok[1]].expr.sym
       [] seen # <<>> -> seen[1]
       [] OTHER       -> ""

RECURSIVE CalcVisibilities(_, _, _)
CalcVisibilities(k, c, syms) ==
  IF syms = <<>> THEN c ELSE CalcVisibilities(k, CalcVisibility(k, c, Head(syms)), Tail(syms))

Takes(c, ch, d) == [c EXCEPT !.chosen[ch] = d, !.curr[ch] = IF d = "" THEN "n" ELSE @]
TakesDefault(k, c, ch) == Takes(c, ch, ChoiceDefault(k, c, ch))
Choose(k, c, ch) == IF c.pick[ch] # "" /\ c.vis[c.pick[ch]] # 0 THEN Takes(c, ch, c.pick[ch])
                    ELSE TakesDefault(k, CalcExprs(k, c, Visibles(k, Props(k, ch, {"default"}))), ch)
CalcChoice(k, c, ch) == Choose(k, CalcVisibilities(k, c, Members(k, ch)), ch)

\* The value of a bool or tristate symbol.
SetCurr(k, c, s, v) ==
  [c EXCEPT !.curr[s] = IF v = 1 /\ GetType(k, c, s) = "bool" THEN "y" ELSE TriName(v)]
AtMost(d, r) == [c |-> r.c, i |-> d.i, t |-> Min({r.t, d.t})]
TriDefault(k, d) == IF d.i = 0 THEN d ELSE AtMost(d, Value(k, d.c, k.props[d.i].expr))
TakesTri(k, s, d) ==
  LET c == SetCurr(k, d.c, s, Max({d.t, d.c.rev[s]}))
  IN [c EXCEPT !.write = IF d.c.vis[s] # 0 \/ d.c.rev[s] # 0 \/ d.i # 0 THEN @ \cup {s} ELSE @]
NewTri(k, c, s) ==
  CASE s \in k.values /\ c.vis[s] = 2 -> [c EXCEPT !.curr[s] = IF c.chosen[ChoiceOf(k, s)] = s THEN "y" ELSE "n"]
    [] c.vis[s] # 0 /\ s \in c.has    -> TakesTri(k, s, [NoProp(c) EXCEPT !.t = Min({Tri(c.def[s]), c.vis[s]})])
    [] OTHER -> TakesTri(k, s, TriDefault(k, IF s \in k.choices THEN NoProp(c) ELSE DefaultProp(k, c, s)))

\* The value of a string or a number.
TextOf(c, s) == IF s \in Symbols THEN c.curr[s] ELSE s
Gets(c, s, v) == [c EXCEPT !.curr[s] = v, !.write = @ \cup {s}]
Copies(c, s, from) == Gets(c, s, TextOf(c, from))
NoText(c, s) == [c EXCEPT !.write = IF c.vis[s] # 0 THEN @ \cup {s} ELSE @]
TextDefault(k, s, d) == IF d.i # 0 /\ k.props[d.i].expr.op = "sym"
                        THEN Copies(CalcExpr(k, d.c, k.props[d.i].expr), s, k.props[d.i].expr.sym)
                        ELSE NoText(d.c, s)
NewString(k, c, s) ==
  IF c.vis[s] # 0 /\ s \in c.has THEN Gets(c, s, c.def[s]) ELSE TextDefault(k, s, DefaultProp(k, c, s))

\* A number out of its range takes the end of the range.
Bounds(c, e) == <<Num(TextOf(c, e.sym)), Num(TextOf(c, e.val))>>
Clamped(c, s, n, b) == IF n < b[1] THEN [c EXCEPT !.curr[s] = Numerals[b[1] + 1]]
                       ELSE IF n > b[2] THEN [c EXCEPT !.curr[s] = Numerals[b[2] + 1]] ELSE c
Within(c, s, e) == Clamped(c, s, Num(c.curr[s]), Bounds(c, e))
InRange(k, s, r) ==
  IF r.i = 0 THEN r.c ELSE Within(CalcExpr(k, r.c, k.props[r.i].expr), s, k.props[r.i].expr)
ValidateRange(k, c, s) == IF k.type[s] # "int" THEN c ELSE InRange(k, s, RangeProp(k, c, s))

\* The steps of sym_calc_value.
Fresh(k, c, s) == [c EXCEPT !.curr[s] = IF IsTri(k, s) THEN "n" ELSE "", !.chosen[s] = ""]
NewValue(k, c, s) == IF IsTri(k, s) THEN NewTri(k, c, s) ELSE NewString(k, c, s)
Chooses(k, c, s) == IF s \in k.choices /\ c.curr[s] = "y" THEN CalcChoice(k, c, s) ELSE c
\* The visible members of a choice that is written are written, too.
Written(k, c, s) ==
  [c EXCEPT !.modules = IF s = Modules THEN c.curr[s] ELSE @,
            !.write = (IF s \in k.choices \cap @ THEN @ \cup {m \in Range(Members(k, s)) : c.vis[m] # 0}
                       ELSE @) \ ({s} \cap Auto(k))]
Starts(k, c, s) == [c EXCEPT !.valid = @ \cup {s}, !.write = IF s \in k.values THEN @ ELSE @ \ {s}]
CalcNew(k, c, s) == NewValue(k, Fresh(k, CalcVisibility(k, c, s), s), s)
Calc(k, c, s) ==
  CASE s \notin Symbols \ c.valid -> c
    [] k.type[s] = "unknown"      -> [c EXCEPT !.valid = @ \cup {s}]
    [] OTHER -> Written(k, ValidateRange(k, Chooses(k, CalcNew(k, Starts(k, c, s), s), s), s), s)

\* for_all_symbols: those without a name hash to 0 and come first.
RECURSIVE Listed(_)
Listed(S) == IF S = {} THEN <<>> ELSE LET s == CHOOSE x \in S : TRUE IN Append(Listed(S \ {s}), s)
AllSymbols(k) == Listed(Auto(k)) \o Listed(Symbols \ Auto(k))
CalcAll(k, c) == CalcSyms(k, c, AllSymbols(k))
\* Mutants of ClearAllValid: values stay valid, or the change is not counted.
ClearNothing(k, c) == [c EXCEPT !.changed = TRUE]
ClearUncounted(k, c) == Calc(k, [c EXCEPT !.valid = {}], Modules)
ClearAllValid(k, c) == Calc(k, [c EXCEPT !.valid = {}, !.changed = TRUE], Modules)

-----------------------------------------------------------------------------
\* Setting values.  ok is what the function returns.
WithinRange(k, c, s, v) ==
  LET type == GetType(k, c, s)
  IN /\ c.vis[s] # 0 /\ type \in TriTypes
     /\ ~(type = "bool" /\ v = "m")
     /\ c.vis[s] > c.rev[s]
     /\ IF s \in k.values /\ c.vis[s] = 2 THEN v = "y" ELSE Tri(v) \in c.rev[s] .. c.vis[s]

Settable(k, c, s, v) == c.curr[s] = v \/ WithinRange(k, c, s, v)
\* A member of a choice set to y also gives the choice and all its visible
\* members a value.
GiveTri(k, c, s, v) ==
  LET ch == ChoiceOf(k, s)
      chosen == s \in k.values /\ v = "y"
      given == {s} \cup IF chosen THEN {ch} \cup {m \in Range(Members(k, ch)) : c.vis[m] # 0} ELSE {}
  IN [c EXCEPT !.def[s] = v, !.has = @ \cup given, !.pick = IF chosen THEN [@ EXCEPT ![ch] = s] ELSE @]
ClearUnless(k, same, c) == IF same THEN c ELSE ClearAllValid(k, c)
SetTri(k, c, s, v) == IF Settable(k, c, s, v)
                      THEN [ok |-> TRUE, c |-> ClearUnless(k, c.curr[s] = v, GiveTri(k, c, s, v))]
                      ELSE [ok |-> FALSE, c |-> c]

\* The next value that can be set, in the order n, m, y, n.
Toggle(k, c, s) ==
  LET Next(v) == CASE v = "n" -> "m" [] v = "m" -> "y" [] OTHER -> "n"
      old == c.curr[s]
  IN SetTri(k, c, s, SelectSeq(<<Next(old), Next(Next(old)), old>>, LAMBDA v : Settable(k, c, s, v))[1]).c

StringValid(k, s, v) == k.type[s] = "string" \/ (k.type[s] = "int" /\ v \in Range(Numerals))

\* For strings and numbers, as is SetString.
Between(v, b) == Num(v) \in b[1] .. b[2]
FitsRange(k, v, r) ==
  r.i # 0 => Between(v, Bounds(CalcExpr(k, r.c, k.props[r.i].expr), k.props[r.i].expr))
StringWithinRange(k, c, s, v) ==
  StringValid(k, s, v) /\ (k.type[s] = "int" => FitsRange(k, v, RangeProp(k, c, s)))

\* A text like the one before clears nothing; the empty text is not like none.
GiveString(k, c, s, v) == ClearUnless(k, c.def[s] = v, [c EXCEPT !.has = @ \cup {s}, !.def[s] = v])
SetString(k, c, s, v) == IF StringWithinRange(k, c, s, v) THEN GiveString(k, c, s, v) ELSE c

\* The value s has when the user gives it none.
TriNamed(k, c, s, v) ==
  IF v = 1 /\ ((s \notin k.values /\ c.curr[Modules] = "n") \/ k.type[s] = "bool") THEN "y" ELSE TriName(v)
DefaultText(k, s, e, r, t) ==
  [c |-> r.c, v |-> IF IsTri(k, s) THEN TriNamed(k, r.c, s, Max({r.c.rev[s], Min({r.t, t})}))
                    ELSE IF e.op = "sym" THEN TextOf(r.c, e.sym) ELSE ""]
DefaultFrom(k, s, d, e) == DefaultText(k, s, e, Value(k, d.c, e), d.t)
DefaultBy(k, s, d) == DefaultFrom(k, s, d, IF d.i = 0 THEN NoExpr ELSE k.props[d.i].expr)
StringDefault(k, c, s) == DefaultBy(k, s, DefaultProp(k, Calc(k, CalcVisibility(k, c, s), Modules), s))

\* Mutant of Changable: off by one.
ChangableToo(c, s) == c.vis[s] >= c.rev[s]
Changable(c, s) == c.vis[s] > c.rev[s]

-----------------------------------------------------------------------------
\* Whether entry m is shown.  An entry that is not visible itself but has a
\* visible one below it counts as set by the user from then on.
RECURSIVE IsVisible(_, _, _), AnyVisible(_, _, _)
AnyOther(k, ms, r) == IF r.yes THEN r ELSE AnyVisible(k, r.c, ms)
AnyVisible(k, c, ms) ==
  IF ms = <<>> THEN [c |-> c, yes |-> FALSE] ELSE AnyOther(k, Tail(ms), IsVisible(k, c, ms[1]))

Counts(s, r) == [r EXCEPT !.c.has = IF r.yes THEN @ \cup {s} ELSE @]
ItsPrompt(k, c, m) ==
  CASE ExprValue(c.curr, PromptOf(k, m).visible) # 0 -> [c |-> c, yes |-> TRUE]
    [] HasSym(k, m) /\ c.curr[k.menus[m].sym] \in {"m", "y"}
         -> Counts(k.menus[m].sym, AnyVisible(k, c, Children(k, m)))
    [] OTHER -> [c |-> c, yes |-> FALSE]
InMenu(k, m, r) ==
  IF r.t = 0 THEN [c |-> r.c, yes |-> FALSE]
  ELSE ItsPrompt(k, CalcExpr(k, r.c, IF HasSym(k, m) THEN Sym(k.menus[m].sym) ELSE PromptOf(k, m).visible), m)
IsVisible(k, c, m) == IF HasPrompt(k, m) THEN InMenu(k, m, Value(k, c, k.menus[m].visibility))
                      ELSE [c |-> c, yes |-> FALSE]
=============================================================================
