----------------------------- MODULE KconfigConf -----------------------------
(* The line-oriented configurator (scripts/kconfig/conf.c): which symbols it *)
(* asks for, in what order, and what the answers change.  The user gives the *)
(* same answer to all questions, and Enter where it is not accepted: "" is   *)
(* Enter, "none" that there is no terminal.  The state of a run, a, holds    *)
(*   c              the values                                               *)
(*   mode, answer   input_mode; oldask, old, silent, oldno or listnew        *)
(*   root           rootEntry                                                *)
(*   asked          conf_cnt is not 0                                        *)
(*   end            "" as long as it runs, then aborted (no terminal) or     *)
(*                  stuck (a question no answer of this user ends)           *)
EXTENDS KconfigFiles

NewRun(c, mode, answer) ==
  [c |-> c, mode |-> mode, root |-> 1, asked |-> FALSE, end |-> "",
   answer |-> IF mode \in {"oldask", "old"} /\ answer = "none" THEN "" ELSE answer]

\* conf_askvalue: what can be changed is asked for when it has no value.
IsAsked(a, s) == Changable(a.c, s) /\ (a.mode = "oldask" \/ s \notin a.c.has)
Aborts(a) == a.mode # "oldask" /\ a.answer = "none"

AskSym(k, a, s) ==
  LET given == a.answer \in TriConst /\ Settable(k, a.c, s, a.answer)
  IN CASE ~IsAsked(a, s) -> a
       [] IsAsked(a, s) /\ Aborts(a) -> [a EXCEPT !.end = "aborted"]
       [] OTHER -> [a EXCEPT !.c = SetTri(k, @, s, IF given THEN a.answer ELSE @.curr[s]).c]

\* The default, which is what Enter means, may not be allowed either; ok are
\* the answers that are.
Tries(a) == {a.answer} \ {"", "none"}
TakeAnswer(k, a, s, ok) ==
  IF ok = {} THEN [a EXCEPT !.end = "stuck"]
  ELSE [a EXCEPT !.c = GiveString(k, @, s, IF ok \cap Tries(a) # {} THEN a.answer ELSE @.curr[s])]
AskString(k, a, s) ==
  CASE ~IsAsked(a, s) -> a
    [] IsAsked(a, s) /\ Aborts(a) -> [a EXCEPT !.end = "aborted"]
    [] OTHER -> TakeAnswer(k, a, s, {v \in Tries(a) \cup {a.c.curr[s]} : StringWithinRange(k, a.c, s, v)})

RECURSIVE ParentMenu(_, _)
ParentMenu(k, m) ==
  IF m = 1 \/ PromptIs(k, m, "menu") THEN m ELSE ParentMenu(k, k.menus[m].parent)

\* The visible ones of the entries ms, after rows; c changes on the way.
RECURSIVE VisibleOf(_, _, _, _)
VisibleMore(k, v, ms, rows) == VisibleOf(k, v.c, Tail(ms), IF v.yes THEN Append(rows, Head(ms)) ELSE rows)
VisibleOf(k, c, ms, rows) ==
  IF ms = <<>> THEN [c |-> c, rows |-> rows] ELSE VisibleMore(k, IsVisible(k, c, Head(ms)), ms, rows)
VisibleChildren(k, c, m) == VisibleOf(k, c, Children(k, m), <<>>)

RECURSIVE Conf(_, _, _), ConfAll(_, _, _), ConfChoice(_, _, _, _), CheckConf(_, _, _), CheckAll(_, _, _)
ConfAll(k, a, ms) == IF ms = <<>> THEN a ELSE ConfAll(k, Conf(k, a, Head(ms)), Tail(ms))
CheckAll(k, a, ms) == IF ms = <<>> THEN a ELSE CheckAll(k, CheckConf(k, a, Head(ms)), Tail(ms))

\* The members of a choice, after the choice itself; isNew: it had no value.
\* What is picked from rows is an index, or one too large when the choice has
\* taken none of them.
Picked(k, a, rows, ch, asks) ==
  CASE Len(rows) = 1 -> 1
    [] Len(rows) # 1 /\ asks /\ Num(a.answer) \in 1 .. Len(rows) -> Num(a.answer)
    [] OTHER -> Min({i \in DOMAIN rows : k.menus[rows[i]].sym = a.c.chosen[ch]} \cup {Len(rows) + 1})
PickRow(k, a, rows, i) ==
  IF i > Len(rows) THEN [a EXCEPT !.end = "stuck"]
  ELSE ConfAll(k, [a EXCEPT !.c = SetTri(k, @, k.menus[rows[i]].sym, "y").c], Children(k, rows[i]))
AskMember(k, a, rows, ch, asks) ==
  IF Len(rows) # 1 /\ asks /\ Aborts(a) THEN [a EXCEPT !.end = "aborted"]
  ELSE PickRow(k, a, rows, Picked(k, a, rows, ch, asks))
FromRows(k, a, seen, ch, asks) ==
  AskMember(k, [a EXCEPT !.c = seen.c], SelectSeq(seen.rows, LAMBDA r : HasSym(k, r)), ch, asks)
ConfChoice(k, a, m, isNew) ==
  IF a.end # "" \/ a.c.curr[k.menus[m].sym] # "y" THEN a
  ELSE FromRows(k, a, VisibleChildren(k, a.c, m), k.menus[m].sym, a.mode = "oldask" \/ isNew)

\* Asks for entry m and all below it.  A choice that is y is asked for its
\* member instead.
AskEntry(k, a, m) ==
  CASE ~HasSym(k, m)                                -> a
    [] HasSym(k, m) /\ IsString(k, k.menus[m].sym) -> AskString(k, a, k.menus[m].sym)
    [] OTHER                                        -> AskSym(k, a, k.menus[m].sym)
AsChoice(k, a, m, isNew) ==
  IF IsChoice(k, m) THEN ConfChoice(k, [a EXCEPT !.c = Calc(k, @, k.menus[m].sym)], m, isNew) ELSE a
ConfBelow(k, a, m) == IF IsChoice(k, m) /\ a.c.curr[k.menus[m].sym] # "m" THEN a ELSE ConfAll(k, a, Children(k, m))
Ask(k, a, m) == ConfBelow(k, AsChoice(k, AskEntry(k, a, m), m, k.menus[m].sym \notin a.c.has), m)
ConfEntry(k, a, m) ==
  IF PromptIs(k, m, "menu") /\ a.mode = "silent" /\ a.root # m THEN CheckConf(k, a, m) ELSE Ask(k, a, m)
ConfSeen(k, a, m, v) == IF v.yes THEN ConfEntry(k, [a EXCEPT !.c = v.c], m) ELSE [a EXCEPT !.c = v.c]
Conf(k, a, m) == IF a.end # "" THEN a ELSE ConfSeen(k, a, m, IsVisible(k, a.c, m))

\* Looks for new symbols, and asks for the whole menu of the first one.
IsNew(k, c, s) == s # "" /\ s \notin c.has /\ (Changable(c, s) \/ (s \in k.choices /\ c.curr[s] = "y"))
ConfMenu(k, a, menu) == Conf(k, [a EXCEPT !.asked = TRUE, !.root = menu], menu)
AskNew(k, a, m) == IF IsNew(k, a.c, k.menus[m].sym) /\ a.mode \notin {"listnew", "oldno"}
                   THEN ConfMenu(k, a, ParentMenu(k, m)) ELSE a
CheckSeen(k, a, m, v) == IF v.yes THEN CheckAll(k, AskNew(k, [a EXCEPT !.c = v.c], m), Children(k, m))
                         ELSE [a EXCEPT !.c = v.c]
CheckConf(k, a, m) == IF a.end # "" THEN a ELSE CheckSeen(k, a, m, IsVisible(k, a.c, m))

\* Until a loop caused no more changes.
RECURSIVE Update(_, _)
Again(k, a) == IF a.end = "" /\ a.asked THEN Update(k, a) ELSE a
Update(k, a) == Again(k, CheckConf(k, [a EXCEPT !.asked = FALSE], 1))

\* The dialogue of each mode, from the values that were read.
Asking == {"oldask", "old", "silent"}
Dialogue(k, c, mode, answer) ==
  LET a == NewRun(c, mode, answer)
      new == [allno |-> "n", allyes |-> "y", allmod |-> "m", alldef |-> "default", def |-> "default"]
  IN CASE mode \in Asking \cup {"oldno", "listnew"} ->
            Update(k, IF mode = "oldask" THEN [Conf(k, a, 1) EXCEPT !.mode = "silent"] ELSE a)
       [] mode \in DOMAIN new -> [a EXCEPT !.c = SetAllNew(k, c, new[mode])]
       [] mode = "savedef" -> a
=============================================================================
