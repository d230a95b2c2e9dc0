---------------------------- MODULE ConfigSession ----------------------------
(* kconfig in use: the configurators conf, mconf, nconf, gconf and qconf run *)
(* one after the other on the same files, each from reading the Kconfig      *)
(* files and .config to its end, which can be a kill; in between, the build. *)
(* What a user does inside a program is one action, up to the next key or    *)
(* click; what the program does to its files is one action for each rename.  *)
(* Runs of conf that change nothing (listnewconfig, a silentoldconfig        *)
(* without .config or without a terminal to ask) are stuttering steps.       *)
EXTENDS KconfigLanguage, ConfigWindows, ConfigEditing

CONSTANTS
  Edited,      \* the programs that the configurators run on
  OldFiles,    \* the configurations on disk at first: Names -> lines or NoFile
  All, Defconfig,  \* the names of all.config and of the default configuration
  Modes,       \* input modes of conf
  Answers,     \* what the user answers to all questions of conf
  Strings,     \* what the user types as values
  MaxInputs,   \* bound: programs run, changes of values or of the view, loads, saves
  MaxFaults    \* bound: kills and renames that fail

VARIABLES
  w,           \* what it shows: view, entry at, option mode, rows or tree, the menus above
  name,        \* filename of mconf and nconf
  after,       \* when .config is written: stay, exit or auto
  left         \* what the bounds leave

progVars == <<ui, c, w, name, after, source, failed, lost>>
sessionVars == <<progVars, left>>
vars == <<parseVars, storeVars, sessionVars>>

NoDisplay == [view |-> "none", at |-> 1, opt |-> "normal", tree |-> <<>>, up |-> <<>>]

Init ==
  /\ ParseInit
  /\ now \in IF program \in Edited THEN OldFiles ELSE {[f \in Names |-> NoFile]}
  /\ StoreInit
  /\ ui = "none" /\ c = <<>> /\ w = NoDisplay
  /\ name = Config /\ after = "exit" /\ source = NoFile /\ failed = FALSE /\ lost = FALSE
  /\ left = [inputs |-> MaxInputs, faults |-> MaxFaults]

Spends(what) == left[what] > 0 /\ left' = [left EXCEPT ![what] = @ - 1]
\* No program runs and the Kconfig files are fine.
Free == ui = "none" /\ phase = "ready" /\ program \in Edited
Exit == /\ ui' = "none" /\ c' = <<>> /\ w' = NoDisplay /\ name' = Config
       /\ after' = "exit" /\ source' = NoFile /\ failed' = FALSE /\ lost' = FALSE

-----------------------------------------------------------------------------
\* conf_read(NULL)
ReadDefault == IF now[Config] = NoFile THEN ConfReadMissing(k, NewValues(k), FALSE)
               ELSE ConfRead(k, NewValues(k), now[Config])

\* What main of conf.c reads, and when it ends at once.
SetModes == {"allno", "allyes", "allmod", "alldef"}
ConfInput(mode) ==
  LET name1 == CASE mode \in SetModes -> All [] mode = "def" -> Defconfig [] OTHER -> Config
  IN CASE now[name1] # NoFile -> IF mode \in SetModes THEN ReadPlain(k, NewValues(k), now[name1])
                               ELSE ConfRead(k, NewValues(k), now[name1])
       [] now[name1] = NoFile /\ mode \in SetModes -> NewValues(k)
       [] OTHER -> ConfReadMissing(k, NewValues(k), FALSE)
Refuses(mode) == \/ mode = "silent" /\ now[Config] = NoFile
                 \/ mode = "def" /\ now[Defconfig] = NoFile
                 \/ mode = "listnew"

\* conf_write(f) begins: new is what ConfWrite has made.
Save(new, f, then) == BeginWrite(f, new.lines) /\ c' = new.c /\ after' = then

\* What the dialogue a of a run of conf has made of the values goes to a file,
\* unless silentoldconfig has nothing to save.
SaveShort(short) == BeginDirect(Defconfig, short.lines) /\ c' = short.c /\ after' = "exit"
ConfEnds(mode, a) ==
  /\ a.end = ""
  /\ CASE mode = "savedef" -> SaveShort(WriteDefconfig(k, a.c))
       [] mode = "silent" /\ ~a.c.changed -> c' = a.c /\ after' = "auto" /\ UNCHANGED storeVars
       [] OTHER -> Save(ConfWrite(k, a.c), Config, IF mode = "silent" THEN "auto" ELSE "exit")
RunConf(mode, answer) ==
  /\ Free /\ step = "idle" /\ ~Refuses(mode)
  /\ mode \in Asking \/ answer = ""
  /\ Spends("inputs")
  /\ ConfEnds(mode, Dialogue(k, ConfInput(mode), mode, answer))
  /\ ui' = "conf"
  /\ UNCHANGED <<w, name, source, failed, lost, parseVars>>

\* conf_write_autoconf of silentoldconfig begins, when .config is there.
StartAuto ==
  /\ ui = "conf" /\ step = "idle" /\ after = "auto"
  /\ c' = CalcAll(k, ClearAllValid(k, c))
  /\ BeginAuto(AutoConf(k, c'), SplitConfig(k, c', auto))
  /\ after' = "exit"
  /\ UNCHANGED <<ui, w, name, source, failed, lost, left, parseVars>>

-----------------------------------------------------------------------------
\* The steps of a program that writes.
GoOn == (RenameOld \/ RenameHeader \/ RenameTristate) /\ UNCHANGED <<sessionVars, parseVars>>

\* .config, or another configuration, is there; mconf and nconf go on with it.
Saved ==
  /\ RenameNew
  /\ IF after = "exit" THEN Exit
     ELSE /\ c' = [c EXCEPT !.changed = FALSE]
          /\ name' = IF ui \in TextUIs THEN target ELSE name
          /\ IF after = "stay" THEN source' = target /\ lost' = FALSE ELSE UNCHANGED <<source, lost>>
          /\ UNCHANGED <<ui, w, after, failed>>
  /\ UNCHANGED <<left, parseVars>>

Finished == (EndDirect \/ RenameAuto) /\ Exit /\ UNCHANGED <<left, parseVars>>

\* The second rename of conf_write fails: reported, and fatal unless the
\* program goes on.  The values keep what conf_write did to them.
SaveFails ==
  /\ step = "new" /\ StopStore
  /\ Spends("faults")
  /\ IF after = "stay" THEN failed' = TRUE /\ UNCHANGED <<ui, c, w, name, after, source, lost>> ELSE Exit
  /\ UNCHANGED parseVars

Kill ==
  /\ IF step = "idle" THEN ui = "conf" /\ UNCHANGED storeVars ELSE StopStore
  /\ Spends("faults")
  /\ Exit
  /\ UNCHANGED parseVars

BuildAll == ui = "none" /\ Build /\ UNCHANGED <<sessionVars, parseVars>>

-----------------------------------------------------------------------------
\* What a program shows of the values c1 in w1, and the values after that.
Lines(r) == Shows(r.c, r.rows)
TextPicture(u, c1, w1) ==
  Lines(TextRows(k, c1, IF u = "mconf" THEN MconfDisplay(w1.at, w1.opt = "all")
                        ELSE NconfDisplay(w1.at, w1.opt = "all")))
Picture(u, c1, w1) ==
  CASE u \in TextUIs -> TextPicture(u, c1, w1)
    [] u = "gconf" -> GtkDisplay(k, c1, w1.view, w1.opt, w1.at)
    [] u = "qconf" -> QtRefresh(k, c1, w1)

Draw(w1, r) == c' = r.c /\ w' = [w1 EXCEPT !.tree = r.tree]

Start(u) ==
  /\ Free /\ step = "idle"
  /\ Spends("inputs")
  /\ ui' = u
  /\ LET w1 == [NoDisplay EXCEPT !.view = CASE u = "gconf" -> "full" [] u = "qconf" -> "symbol" [] OTHER -> "text"]
     IN Draw(w1, Picture(u, ReadDefault, w1))
  /\ source' = IF now[Config] = NoFile THEN NoFile ELSE Config
  /\ UNCHANGED <<name, after, failed, lost, storeVars, parseVars>>

Runs(uis) == ui \in uis /\ step = "idle" /\ UNCHANGED <<ui, after, failed, storeVars, parseVars>>
Stays == UNCHANGED <<name, source, lost>>

\* The user's step left other values c1; r is how they are shown in w.
Edit(c1, r) == c1 # c /\ Spends("inputs") /\ Draw(w, r) /\ Stays
\* Another view w1 of the same values, shown as r.
Look(w1, r) == Draw(w1, r) /\ Stays

-----------------------------------------------------------------------------
\* mconf and nconf.  In nconf a row that is not visible does nothing.
Rows == Range(w.tree)
RowSeen(row) == IF ui = "nconf" THEN IsVisible(k, c, row.m) ELSE [c |-> c, yes |-> TRUE]
Opening(row, key) == IF RowSeen(row).yes THEN Opens(k, c, row, key) ELSE ""
TextEdit(c1) == Edit(c1, TextPicture(ui, c1, w))
TextLook(w1) == Look(w1, TextPicture(ui, c, w1))

Handled(v, row, key) ==
  IF v.yes THEN (IF ui = "mconf" THEN MconfKey(k, v.c, row, key) ELSE NconfKey(k, v.c, row, key)) ELSE v.c
Pressed(v, row, key) ==
  /\ v.yes => Opens(k, c, row, key) = ""
  /\ TextEdit(Handled(v, row, key))
PressKey(row, key) == Runs(TextUIs) /\ Pressed(RowSeen(row), row, key)

OpenMenu(row) ==
  /\ Runs(TextUIs)
  /\ Opening(row, "enter") = "menu"
  /\ TextLook([w EXCEPT !.at = row.m, !.up = Append(@, w.at)])
  /\ UNCHANGED left

\* Escape in a menu; a menu without rows closes by itself.
CloseMenu ==
  /\ Runs(TextUIs)
  /\ w.up # <<>>
  /\ TextLook([w EXCEPT !.at = Last(w.up), !.up = Front(@)])
  /\ UNCHANGED left

PickMember(row) ==
  /\ Runs(TextUIs)
  /\ Opening(row, "enter") = "choice"
  /\ LET seen == ChoiceRows(k, RowSeen(row).c, row.m)
     IN \E m \in Range(seen.rows) : TextEdit(SetTri(k, seen.c, k.menus[m].sym, "y").c)

\* A value that is not taken leads back to the dialog, which Escape ends.
TypeString(row) ==
  /\ Runs(TextUIs)
  /\ Opening(row, "enter") = "string"
  /\ \E v \in Strings : TextEdit(SetString(k, c, k.menus[row.m].sym, v))

ShowAll ==
  /\ Runs(TextUIs)
  /\ Spends("inputs")
  /\ TextLook([w EXCEPT !.opt = IF @ = "all" THEN "normal" ELSE "all"])

-----------------------------------------------------------------------------
\* gconf.  Clicks and keys change the value of any row of the tree.
RECURSIVE Entries(_)
Entries(tree) == UNION {{tree[i].m} \cup Entries(tree[i].sub) : i \in DOMAIN tree}
HasTri(m) == HasSym(k, m) /\ IsTri(k, k.menus[m].sym)
HasText(m) == HasSym(k, m) /\ IsString(k, k.menus[m].sym)

GtkEdit(c1, inPlace) == Edit(c1, GtkRefresh(k, c1, w, inPlace))
GtkLook(w1) == Look(w1, GtkDisplay(k, c, w1.view, w1.opt, w1.at))

GtkToggle(m) ==
  /\ Runs({"gconf"}) /\ HasTri(m)
  /\ GtkEdit(Toggle(k, c, k.menus[m].sym), FALSE)

GtkChange(m, v) ==
  /\ Runs({"gconf"}) /\ HasTri(m)
  /\ GtkEdit(GtkSet(k, c, k.menus[m].sym, v), FALSE)

\* renderer_edited does so in every view.
GtkType(m, v) ==
  /\ Runs({"gconf"}) /\ HasText(m)
  /\ GtkEdit(SetString(k, c, k.menus[m].sym, v), TRUE)

GtkOpen(m) ==
  /\ Runs({"gconf"})
  /\ w.view = "single" /\ PromptIs(k, m, "menu")
  /\ GtkLook([w EXCEPT !.at = m])
  /\ UNCHANGED left

GtkBack ==
  /\ Runs({"gconf"})
  /\ w.view = "single" /\ w.at # 1
  /\ GtkLook([w EXCEPT !.at = GtkParent(k, w.at)])
  /\ UNCHANGED left

GtkView(view) ==
  /\ Runs({"gconf"}) /\ view \in {"full", "single"}
  /\ Spends("inputs")
  /\ GtkLook([w EXCEPT !.view = view, !.at = 1])

GtkOption(opt) ==
  /\ Runs({"gconf"})
  /\ Spends("inputs")
  /\ GtkLook([w EXCEPT !.opt = opt, !.at = 1])

-----------------------------------------------------------------------------
\* qconf.  A value that a click leaves alone leaves the tree as it is, too.
QtEdit(c1, refresh) == Edit(c1, IF refresh THEN QtRefresh(k, c1, w) ELSE Shows(c1, w.tree))
QtLook(w1) == Look(w1, QtRefresh(k, c, w1))

QtToggled(c1, s) == QtEdit(c1, c1.def[s] # c.curr[s])
QtChange(m) ==
  LET s == k.menus[m].sym
  IN Runs({"qconf"}) /\ HasTri(m) /\ QtToggled(Toggle(k, c, s), s)

QtTaken(r) == r.ok /\ QtEdit(r.c, TRUE)
QtSet(m, v) == Runs({"qconf"}) /\ HasTri(m) /\ QtTaken(SetTri(k, c, k.menus[m].sym, v))

QtType(m, v) ==
  /\ Runs({"qconf"}) /\ HasText(m)
  /\ QtEdit(SetString(k, c, k.menus[m].sym, v), TRUE)

\* Mutant of QtRoot: the nodes of the old menu stay.
QtRootKept(m) == [w EXCEPT !.at = m]
\* setRootMenu clears the tree first.
QtRoot(m) == IF m = w.at THEN w ELSE [w EXCEPT !.at = m, !.tree = <<>>]

QtOpen(m) ==
  /\ Runs({"qconf"})
  /\ w.view \in {"single", "symbol"} /\ PromptIs(k, m, "menu") /\ m # w.at
  /\ QtLook(QtRoot(m))
  /\ UNCHANGED left

QtBack ==
  /\ Runs({"qconf"})
  /\ w.at # 1
  /\ QtLook(QtRoot(ParentMenu(k, k.menus[w.at].parent)))
  /\ UNCHANGED left

QtView(view) ==
  /\ Runs({"qconf"})
  /\ Spends("inputs")
  /\ QtLook([QtRoot(1) EXCEPT !.view = view])

QtOption(opt) ==
  /\ Runs({"qconf"})
  /\ Spends("inputs")
  /\ QtLook([w EXCEPT !.opt = opt])

-----------------------------------------------------------------------------
\* Loading, saving and leaving.  gconf goes back to the root menu and adds its
\* rows to those there are; the text programs go on with the file.
LoadedIn == IF ui = "gconf" THEN [w EXCEPT !.at = 1] ELSE w
Redrawn(r) == Draw(LoadedIn, IF ui = "gconf" THEN [r EXCEPT !.tree = w.tree \o @] ELSE r)
\* In mconf the way to files and out is in the main menu only.
AtFiles == ui = "mconf" => w.up = <<>>
Replaced(c1) == [c1 EXCEPT !.changed = @ \/ ui \in TextUIs]
Load(f) ==
  /\ Runs(Editors) /\ AtFiles
  /\ Spends("inputs")
  /\ IF now[f] = NoFile
     THEN c' = ConfReadMissing(k, c, TRUE) /\ lost' = (lost \/ c.changed) /\ UNCHANGED <<w, name, source>>
     ELSE /\ Redrawn(Picture(ui, Replaced(ConfRead(k, c, now[f])), LoadedIn))
          /\ name' = IF ui \in TextUIs THEN f ELSE name
          /\ source' = f /\ lost' = FALSE

\* The windows have Save for .config and Save As.  A user who leaves saves to
\* the file that is edited, when asked.
SaveAs(f, then) ==
  /\ ui \in Editors /\ step = "idle" /\ AtFiles
  /\ IF then = "stay" THEN Spends("inputs")
     ELSE /\ c.changed
          /\ f = IF ui \in TextUIs THEN name ELSE Config
          /\ UNCHANGED left
  /\ Save(ConfWrite(k, c), f, then)
  /\ UNCHANGED <<ui, w, name, source, failed, lost, parseVars>>

\* Nothing has changed, or the user does not want it saved, or it cannot be.
Leave ==
  /\ ui \in Editors /\ step = "idle" /\ AtFiles
  /\ Exit
  /\ UNCHANGED <<left, storeVars, parseVars>>

-----------------------------------------------------------------------------
ParseStep == ParseNext /\ UNCHANGED <<storeVars, sessionVars>>

TextStep ==
  \/ \E row \in Rows :
       \/ \E key \in {"y", "n", "m", "space", "enter"} : PressKey(row, key)
       \/ OpenMenu(row) \/ PickMember(row) \/ TypeString(row)
  \/ CloseMenu \/ ShowAll

WindowStep ==
  \/ \E m \in Entries(w.tree) :
       \/ GtkToggle(m) \/ GtkOpen(m) \/ QtChange(m) \/ QtOpen(m)
       \/ \E v \in TriConst : GtkChange(m, v) \/ QtSet(m, v)
       \/ \E v \in Strings : GtkType(m, v) \/ QtType(m, v)
  \/ GtkBack \/ QtBack
  \/ \E view \in {"full", "single", "symbol"} : GtkView(view) \/ QtView(view)
  \/ \E opt \in {"normal", "prompt", "all"} : GtkOption(opt) \/ QtOption(opt)

Next ==
  \/ ParseStep
  \/ \E mode \in Modes, answer \in Answers : RunConf(mode, answer)
  \/ StartAuto \/ GoOn \/ Saved \/ Finished \/ SaveFails \/ Kill \/ BuildAll
  \/ \E u \in Editors : Start(u)
  \/ (ui \in TextUIs /\ TextStep) \/ (ui \in WindowUIs /\ WindowStep)
  \/ \E f \in Names : Load(f) \/ \E then \in {"stay", "exit"} : SaveAs(f, then)
  \/ Leave

Spec == Init /\ [][Next]_vars
=============================================================================
