---------------------------- MODULE KconfigMenu ----------------------------
(* The menu tree of kconfig (scripts/kconfig/menu.c): the calls by which the *)
(* parser builds it and menu_finalize, which distributes dependencies, finds *)
(* submenus and splices out entries without a prompt.                        *)
(*                                                                           *)
(* All of the program's data is one record k:                                *)
(*   menus  the entries in the order of their creation, the first one being  *)
(*          the root; list, next and parent are indices, 0 for NULL          *)
(*   props  the properties in the order of prop_alloc                        *)
(*   type, rev, dir  of a symbol: type, reverse and direct dependency        *)
(*   choices, values, optional  symbols with SYMBOL_CHOICE, SYMBOL_CHOICEVAL *)
(*          and SYMBOL_OPTIONAL                                              *)
(*   entry, menu, last  current_entry, current_menu and last_entry_ptr.      *)
(* Texts, help and line numbers are left out.                                *)
EXTENDS KconfigExpr

CONSTANTS
  Symbols,     \* names of configuration symbols and choices
  Modules      \* modules_sym

NewMenu(sym, parent, file) ==
  [sym |-> sym, parent |-> parent, file |-> file, list |-> 0, next |-> 0,
   prompt |-> 0, dep |-> NoExpr, visibility |-> NoExpr]

\* The root menu with its prompt, as conf_parse sets it up.
MenuInit(file) ==
  [menus |-> <<[NewMenu("", 0, file) EXCEPT !.prompt = 1]>>,
   props |-> <<[type |-> "menu", sym |-> "", menu |-> 1, expr |-> NoExpr,
                visible |-> NoExpr, list |-> <<>>]>>,
   type |-> [s \in Symbols |-> IF s = Modules THEN "bool" ELSE "unknown"],
   rev |-> [s \in Symbols |-> NoExpr], dir |-> [s \in Symbols |-> NoExpr],
   choices |-> {}, values |-> {}, optional |-> {},
   entry |-> 1, menu |-> 1, last |-> <<1, "list">>]

SetLink(k, ptr, m) == [k EXCEPT !.menus[ptr[1]] =
                         IF ptr[2] = "list" THEN [@ EXCEPT !.list = m] ELSE [@ EXCEPT !.next = m]]

AddEntry(k, sym, file) ==
  LET m == Len(k.menus) + 1
      k1 == [k EXCEPT !.menus = Append(@, NewMenu(sym, k.menu, file)), !.entry = m, !.last = <<m, "next">>]
  IN SetLink(k1, k.last, m)

AddMenu(k) == [k EXCEPT !.last = <<k.entry, "list">>, !.menu = k.entry]
EndMenu(k) == [k EXCEPT !.last = <<k.menu, "next">>, !.menu = k.menus[k.menu].parent]

AddDep(k, e) == [k EXCEPT !.menus[k.entry].dep = AllocAnd(@, CheckDep(e, Modules))]

\* A type given before stays.
SetType(k, entry, t) ==
  IF k.type[k.menus[entry].sym] = "unknown" THEN [k EXCEPT !.type[k.menus[entry].sym] = t] ELSE k

AddProp(k, type, prompt, expr, dep) ==
  LET RECURSIVE Upper(_, _)                  \* the visibility of all menus above
      Upper(e, m) == IF m = 0 THEN e ELSE Upper(AllocAnd(e, k.menus[m].visibility), k.menus[m].parent)
      vis == IF type = "prompt" THEN Upper(CheckDep(dep, Modules), k.menus[k.entry].parent)
                                ELSE CheckDep(dep, Modules)
      prop == [type |-> type, sym |-> k.menus[k.entry].sym, menu |-> k.entry,
               expr |-> expr, visible |-> vis, list |-> <<>>]
  IN [k EXCEPT !.props = Append(@, prop),
               !.menus[k.entry].prompt = IF prompt THEN Len(k.props) + 1 ELSE @]

AddPrompt(k, type, dep) == AddProp(k, type, TRUE, NoExpr, dep)
AddExpr(k, type, e, dep) == AddProp(k, type, FALSE, e, dep)
AddSymbol(k, type, s, dep) == AddProp(k, type, FALSE, Sym(s), dep)
AddVisibility(k, e) == [k EXCEPT !.menus[k.entry].visibility = AllocAnd(@, e)]

-----------------------------------------------------------------------------
\* The entries of a list, following the next pointers.
RECURSIVE Siblings(_, _)
Siblings(k, m) == IF m = 0 THEN <<>> ELSE <<m>> \o Siblings(k, k.menus[m].next)
Children(k, m) == Siblings(k, k.menus[m].list)

HasSym(k, m) == k.menus[m].sym # ""
HasPrompt(k, m) == k.menus[m].prompt # 0
PromptOf(k, m) == k.props[k.menus[m].prompt]
PromptIs(k, m, type) == HasPrompt(k, m) /\ PromptOf(k, m).type = type
IsChoice(k, m) == k.menus[m].sym \in k.choices
\* s with other elements at some indices.
EachWith(s, at, Other(_)) == [i \in DOMAIN s |-> IF i \in at THEN Other(i) ELSE s[i]] \o <<>>
\* The properties that entry m gave its symbol, or its prompt.
PropsOf(k, m) == IF HasSym(k, m)
                 THEN {i \in DOMAIN k.props : k.props[i].menu = m /\ k.props[i].sym = k.menus[m].sym}
                 ELSE {k.menus[m].prompt} \ {0}

\* A choice without a type takes that of its first member that has one, its
\* members without a type take that of the choice.
TypeChoice(k, p) ==
  LET typed == SelectSeq(Children(k, p), LAMBDA m : HasSym(k, m) /\ k.type[k.menus[m].sym] # "unknown")
      Member(acc, m) == IF HasSym(acc, m) THEN SetType(acc, m, acc.type[acc.menus[p].sym]) ELSE acc
  IN Fold(Member, IF typed = <<>> THEN k ELSE SetType(k, p, k.type[k.menus[typed[1]].sym]), Children(k, p))

\* Entry m and its properties inherit the dependency of the menu above; what
\* it selects notes the reverse dependency.
Condition(k, above, e) == EliminateDups(k.type, AllocAnd(above, Transform(k.type, e)))
Plain(k, m, e) == IF HasSym(k, m) /\ k.type[k.menus[m].sym] # "tristate" THEN TransBool(k.type, e) ELSE e
Conditioned(k, m, prop) == [prop EXCEPT !.visible = Plain(k, m, Condition(k, k.menus[m].dep, @))]
Inherit(k, m, ps) ==
  [k EXCEPT !.props = [i \in DOMAIN @ |-> IF i \in ps THEN Conditioned(k, m, @[i]) ELSE @[i]] \o <<>>]
NoteSelects(k, m, ps) ==
  LET Select(acc, i) == [acc EXCEPT !.rev[acc.props[i].expr.sym] =
                           AllocOr(@, AllocAnd(Sym(k.menus[m].sym), acc.props[i].visible))]
  IN Fold(Select, k, SelectSeq([i \in DOMAIN k.props |-> i], LAMBDA i : i \in ps /\ k.props[i].type = "select"))
InheritDep(k, m, parentdep) ==
  NoteSelects(Inherit([k EXCEPT !.menus[m].dep = Condition(k, parentdep, @)], m, PropsOf(k, m)), m, PropsOf(k, m))

\* What decides whether one sees entry m.
Shown(k, m) == IF HasPrompt(k, m) THEN PromptOf(k, m).visible ELSE k.menus[m].dep
ParentDep(k, p) == IF IsChoice(k, p) THEN Sym(k.menus[p].sym)
                   ELSE Shown(k, p)

\* The first member check: m depends on the symbol of p, or p is seen
\* whenever m is.
When(k, e) == EliminateDups(k.type, Transform(k.type, TransCompare(e, "neq", "n")))
Follows(k, shown, p) ==
  /\ ContainsSymbol(shown, k.menus[p].sym)
  /\ \/ DependsSymbol(shown, k.menus[p].sym)
     \/ EliminateEq(When(k, shown), When(k, IF HasPrompt(k, p) THEN PromptOf(k, p).visible ELSE NoExpr))[2] = Yes
BelongsTo(k, m, p) == Follows(k, Shown(k, m), p)

\* The prompt of a member with a type of its own in a tristate choice also
\* needs the choice to be y.
AddChoiceValue(k, p, m) ==
  LET ch == k.menus[p].sym
      value == k.menus[m].sym
      isY == Cmp("eq", ch, "y")
      mine == {i \in DOMAIN k.props : k.props[i].menu = m /\ k.props[i].sym = value}
      of == Min({i \in DOMAIN k.props : k.props[i].type = "choice" /\ k.props[i].sym = ch})
      Link(k1) == [k1 EXCEPT !.values = @ \cup {value},
                             !.props = Append([@ EXCEPT ![of].list = Append(@, value)],
                                              [type |-> "choice", sym |-> value, menu |-> m,
                                               expr |-> Sym(ch), visible |-> NoExpr, list |-> <<>>])]
  IN Link(IF k.type[ch] = "tristate" /\ k.type[value] # "tristate"
          THEN [k EXCEPT !.menus[m].dep = AllocAnd(isY, @),
                         !.props = EachWith(@, mine, LAMBDA i : [k.props[i] EXCEPT !.visible = AllocAnd(isY, @)])]
          ELSE k)

\* The entries under m, which has no prompt, take its place in the list.
Adopt(k, p, ms) == [k EXCEPT !.menus = EachWith(@, Range(ms), LAMBDA i : [k.menus[i] EXCEPT !.parent = p])]
\* Mutant of Splice: the last entry below m is not joined to what follows m.
SpliceOpen(k, p, m) ==
  [Adopt(k, p, Children(k, m)) EXCEPT !.menus[m].next = k.menus[m].list, !.menus[m].list = 0]
Splice(k, p, m) ==
  [Adopt(k, p, Children(k, m)) EXCEPT !.menus[Last(Children(k, m))].next = k.menus[m].next,
                                      !.menus[m].next = k.menus[m].list, !.menus[m].list = 0]

ChoiceValue(k, p, m) == IF IsChoice(k, p) /\ HasSym(k, m) /\ k.menus[m].sym \notin k.values
                        THEN AddChoiceValue(k, p, m) ELSE k
Splices(k, p, m) == IF k.menus[m].list # 0 /\ ~HasPrompt(k, m) THEN Splice(k, p, m) ELSE k
TidyEntry(k, p, m) == Splices(ChoiceValue(k, p, m), p, m)

\* The siblings that follow p up to last become its submenu.
Enclose(k, p, last) ==
  [k EXCEPT !.menus[p].list = k.menus[p].next, !.menus[p].next = k.menus[last].next, !.menus[last].next = 0]

\* Blocks hand their dependency down before what is below them is finalized.
RECURSIVE InheritAll(_, _, _)
InheritAll(k, ms, dep) == IF ms = <<>> THEN k ELSE InheritAll(InheritDep(k, Head(ms), dep), Tail(ms), dep)
HandDown(k, p) == InheritAll(k, Children(k, p), ParentDep(k, p))
Entered(k, p) == IF k.menus[p].list = 0 THEN k ELSE HandDown(IF IsChoice(k, p) THEN TypeChoice(k, p) ELSE k, p)
\* A prompt lets the user set the symbol to m.
UserSets(k, p) == IF HasSym(k, p) /\ k.menus[p].sym \notin k.optional /\ HasPrompt(k, p)
                  THEN [k EXCEPT !.rev[k.menus[p].sym] = AllocOr(@, AllocAnd(PromptOf(k, p).visible, Mod))]
                  ELSE k
=============================================================================
