-------------------------- MODULE KconfigLanguage --------------------------
(* Reading the Kconfig files: the grammar's actions (scripts/kconfig/zconf.y) *)
(* on the lines that KconfigReader brings.  A line also has an expression e   *)
(* and an "if" condition c.                                                   *)
(* An error of any kind makes conf_parse exit in the end (zconfnerrs); what   *)
(* the parser still reads after one has no effect and is left out.            *)
EXTENDS KconfigMenu, MenuTree

CONSTANTS
  Programs,    \* the sets of files to read
  MaxDepth     \* bound: files open at a time

VARIABLES
  blocks,      \* the blocks that are open, innermost last
  open,        \* the statement whose options are being read
  declared     \* k as the parser has left it, for FinalizeKeepsMeaning

parseVars == <<readVars, blocks, open, calls, declared>>

Line(t, x, e, c) == [t |-> t, x |-> x, e |-> e, c |-> c, files |-> <<>>]
SourceLine(x, name) == [Line("source", x, NoExpr, NoExpr) EXCEPT !.files = <<name>>]
GlobLine(list) == [Line("glob", "", NoExpr, NoExpr) EXCEPT !.files = list]
None == Line("none", "", NoExpr, NoExpr)

ParseInit ==
  /\ program \in Programs
  /\ files = <<[name |-> Root, state |-> "busy"]>>
  /\ stack = <<[file |-> 1, pos |-> 1]>>
  /\ blocks = <<>>
  /\ open = None
  /\ k = MenuInit(1)
  /\ phase = "parsing"
  /\ calls = <<>>
  /\ declared = <<>>

Fail == /\ phase' = "failed"
        /\ UNCHANGED <<program, files, stack, blocks, open, k>>

-----------------------------------------------------------------------------
(* A statement is complete when the first token after its options has been    *)
(* seen: only then a block begins, and menuconfig changes its prompt.  The    *)
(* entry of an "if" is made as late as that, too.                             *)
Completed ==
  CASE open.t \in {"menu", "choice"} -> AddMenu(k)
    [] open.t = "if" -> AddMenu(AddDep(AddEntry(k, "", File), open.e))
    [] open.t = "menuconfig" /\ k.menus[k.entry].prompt # 0
         -> [k EXCEPT !.props[k.menus[k.entry].prompt].type = "menu"]
    [] OTHER -> k
CompletedBlocks == IF open.t \in {"menu", "choice", "if"} THEN Append(blocks, open.t) ELSE blocks

\* Menus and choices have no place directly in a choice.
MayStand(t) == ~(t \in {"menu", "choice"} /\ CompletedBlocks # <<>> /\ Last(CompletedBlocks) = "choice")

\* A statement begins: the one before it is completed, k1 results.
Begin(k1) ==
  /\ MayStand(Cur.t)
  /\ Read
  /\ k' = k1
  /\ blocks' = CompletedBlocks
  /\ open' = Cur
  /\ UNCHANGED <<program, files, phase>>

ConfigStmt ==
  /\ More /\ Cur.t = "config"
  /\ Begin([AddEntry(Completed, Cur.x, File) EXCEPT !.optional = @ \cup {Cur.x}])

MenuconfigStmt ==
  /\ More /\ Cur.t = "menuconfig"
  /\ Begin([AddEntry(Completed, Cur.x, File) EXCEPT !.optional = @ \cup {Cur.x}])

ChoiceStmt ==
  /\ More /\ Cur.t = "choice"
  /\ Begin(AddExpr([AddEntry(Completed, Cur.x, File) EXCEPT !.choices = @ \cup {Cur.x}],
                   "choice", NoExpr, NoExpr))

IfStmt == More /\ Cur.t = "if" /\ Begin(Completed)
MenuStmt == More /\ Cur.t = "menu" /\ Begin(AddPrompt(AddEntry(Completed, "", File), "menu", NoExpr))
CommentStmt == More /\ Cur.t = "comment" /\ Begin(AddPrompt(AddEntry(Completed, "", File), "comment", NoExpr))

-----------------------------------------------------------------------------
ConfigTypes == {"config", "menuconfig"}
\* An option of the statement that is open, or a syntax error.
Option(t, of, k1) ==
  /\ More /\ Cur.t = t /\ open.t \in of
  /\ Read
  /\ k' = k1
  /\ UNCHANGED <<program, files, blocks, open, phase>>

TypeOption == /\ Option("type", ConfigTypes \cup {"choice"}, SetType(k, k.entry, Cur.x))
              /\ open.t = "choice" => Cur.x \in {"bool", "tristate"}
PromptOption == Option("prompt", ConfigTypes \cup {"choice"}, AddPrompt(k, "prompt", Cur.c))
DefaultOption == Option("default", ConfigTypes, AddExpr(k, "default", Cur.e, Cur.c))
ChoiceDefaultOption == Option("default", {"choice"}, AddSymbol(k, "default", Cur.x, Cur.c))
SelectOption == Option("select", ConfigTypes, AddSymbol(k, "select", Cur.x, Cur.c))
RangeOption == Option("range", ConfigTypes, AddExpr(k, "range", Cur.e, Cur.c))
OptionalOption == Option("optional", {"choice"}, [k EXCEPT !.optional = @ \cup {open.x}])
DependsOption == Option("depends", ConfigTypes \cup {"choice", "menu", "comment"}, AddDep(k, Cur.e))
\* "visible if" comes before "depends on".
VisibleOption == /\ Option("visible", {"menu"}, AddVisibility(k, Cur.e))
                 /\ k.menus[k.entry].dep = NoExpr
\* modules: the symbol decides whether m is a value at all.
ModulesOption ==
  Option("modules", ConfigTypes,
         [k EXCEPT !.props = Append(@, [type |-> "default", sym |-> Modules, menu |-> 0,
            expr |-> Sym(open.x), visible |-> NoExpr, list |-> <<>>])])

OptionsOf(t) ==
  CASE t \in {"type", "prompt", "default"} -> ConfigTypes \cup {"choice"}
    [] t \in {"select", "range", "modules"} -> ConfigTypes
    [] t = "optional" -> {"choice"}
    [] t = "visible"  -> {"menu"}
    [] t = "depends"  -> ConfigTypes \cup {"choice", "menu", "comment"}
    [] OTHER -> {}

Statements == {"config", "menuconfig", "choice", "if", "menu", "comment", "source", "glob", "end"}
SyntaxError ==
  /\ More
  /\ \/ Cur.t \in Statements /\ ~MayStand(Cur.t)
     \/ Cur.t \notin Statements /\ open.t \notin OptionsOf(Cur.t)
     \/ Cur.t = "type" /\ open.t = "choice" /\ Cur.x \notin {"bool", "tristate"}
     \/ Cur.t = "visible" /\ open.t = "menu" /\ k.menus[k.entry].dep # NoExpr
  /\ Fail

-----------------------------------------------------------------------------
\* The end of a block must be of its kind and in its file (zconf_endtoken).
EndFits == /\ CompletedBlocks # <<>> /\ Last(CompletedBlocks) = Cur.x
           /\ Completed.menus[Completed.menu].file = File
EndStmt ==
  /\ More /\ Cur.t = "end"
  /\ IF EndFits
     THEN /\ Read
          /\ k' = EndMenu(Completed)
          /\ blocks' = Front(CompletedBlocks)
          /\ open' = None
          /\ UNCHANGED <<program, files, phase>>
     ELSE Fail

\* The files of the line are opened, or one of them cannot be.
Source ==
  IF Openable
  THEN /\ Len(stack) + Len(Cur.files) <= MaxDepth
       /\ OpenFiles
       /\ k' = Completed
       /\ blocks' = CompletedBlocks
       /\ open' = None
       /\ UNCHANGED <<program, phase>>
  ELSE Fail

SourceStmt == More /\ Cur.t = "source" /\ Source

\* All files that match are opened at once.  When there is none, the parser
\* accepts what it has read so far.
GlobStmt ==
  /\ More /\ Cur.t = "glob"
  /\ IF Cur.files # <<>> THEN Source
     ELSE /\ phase' = "parsed"
          /\ k' = Completed
          /\ UNCHANGED <<program, files, stack, blocks, open>>

\* A T_EOL to the parser.
EndOfFile == EndFile /\ UNCHANGED <<blocks, open>>

\* The end of the last file: fine outside of all blocks.
EndInput ==
  /\ phase = "parsing" /\ stack = <<>>
  /\ IF open.t = "if" \/ CompletedBlocks # <<>> THEN Fail
     ELSE /\ phase' = "parsed"
          /\ k' = Completed
          /\ UNCHANGED <<program, files, stack, blocks, open>>

-----------------------------------------------------------------------------
\* The rest of conf_parse.  What sym_check_deps finds is printed only: a
\* circular dependency does not keep the program from going on.
WithModules == IF \E i \in DOMAIN k.props : k.props[i].sym = Modules THEN k
               ELSE [k EXCEPT !.props = Append(@, [type |-> "default", sym |-> Modules, menu |-> 0,
                       expr |-> Sym("MODULES"), visible |-> NoExpr, list |-> <<>>])]

\* menu_finalize(p) up to its first loop along the entries, and that loop:
\* along those below p, or of a symbol along those behind it.
Enter(k1, p) == k' = Entered(k1, p)
NewCall(p) == CASE k.menus[p].list # 0 -> Call(p, k.menus[p].list, "below")
                [] HasSym(k, p)        -> Call(p, k.menus[p].next, "behind")
                [] OTHER               -> Call(p, 0, "tidy")
Finalizes(loops) == Running(loops) /\ UNCHANGED <<program, files, stack, blocks, open, declared>>

InLoop == Inner.at # 0 /\ (Inner.loop = "behind" => BelongsTo(k, Inner.at, Inner.p))

FinishParse ==
  /\ phase = "parsed" /\ calls = <<>>
  /\ Enter(WithModules, 1) /\ calls' = <<NewCall(1)>>
  /\ declared' = k
  /\ UNCHANGED <<program, files, stack, blocks, open, phase>>

FinalizeEntry ==
  /\ Finalizes({"below", "behind"}) /\ InLoop
  /\ Enter(k, Inner.at) /\ calls' = Append(calls, NewCall(Inner.at))
  /\ UNCHANGED phase

LeaveList ==
  /\ Finalizes({"below"}) /\ ~InLoop
  /\ GoesOn(Turned(Inner, "tidy", k.menus[Inner.p].list))
  /\ UNCHANGED k

\* The entries that belong to p become its submenu.
MakeSubmenu ==
  /\ Finalizes({"behind"}) /\ ~InLoop
  /\ k' = [(IF Inner.last = 0 THEN k ELSE Enclose(k, Inner.p, Inner.last)) EXCEPT !.dir[k.menus[Inner.p].sym] = k.menus[Inner.p].dep]
  /\ GoesOn(Turned(Inner, "tidy", k'.menus[Inner.p].list))

TidyNext ==
  /\ Finalizes({"tidy"}) /\ Inner.at # 0
  /\ k' = TidyEntry(k, Inner.p, Inner.at)
  /\ GoesOn(Turned(Inner, "tidy", k'.menus[Inner.at].next))

\* The end of the call: the one that made it goes on with the next entry.
EndCall ==
  /\ Finalizes({"tidy"}) /\ Inner.at = 0
  /\ LET k1 == UserSets(k, Inner.p)
         Resumed(call) == [call EXCEPT !.at = k.menus[@].next, !.last = IF call.loop = "behind" THEN call.at ELSE 0]
     IN IF Len(calls) = 1 THEN k' = k1 /\ calls' = <<>> /\ phase' = "ready"
        ELSE /\ k' = IF Caller.loop = "behind" THEN [k1 EXCEPT !.menus[Caller.at].parent = Caller.p] ELSE k1
             /\ calls' = Append(Front(Front(calls)), Resumed(Caller))
             /\ UNCHANGED phase

ReadStatement ==
  \/ ConfigStmt \/ MenuconfigStmt \/ ChoiceStmt \/ IfStmt \/ MenuStmt \/ CommentStmt
  \/ TypeOption \/ PromptOption \/ DefaultOption \/ ChoiceDefaultOption \/ SelectOption \/ RangeOption
  \/ OptionalOption \/ DependsOption \/ VisibleOption \/ ModulesOption
  \/ SyntaxError \/ EndStmt \/ SourceStmt \/ GlobStmt \/ EndOfFile \/ EndInput

ParseNext ==
  \/ ReadStatement /\ UNCHANGED <<calls, declared>>
  \/ FinishParse \/ FinalizeEntry \/ LeaveList \/ MakeSubmenu \/ TidyNext \/ EndCall

ParseSpec == ParseInit /\ [][ParseNext]_parseVars
=============================================================================
