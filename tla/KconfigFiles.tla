---------------------------- MODULE KconfigFiles ----------------------------
(* Reading and writing configurations (scripts/kconfig/confdata.c).  A file  *)
(* is a sequence of lines [sym, val]; "# CONFIG_X is not set" is the value n. *)
(* Comments, quoting and the CONFIG_ prefix are left out; auto.conf,         *)
(* autoconf.h and tristate.conf are the set of their <<symbol, value>> pairs. *)
EXTENDS KconfigValues

Entry(s, v) == [sym |-> s, val |-> v]

\* Mutant of Fits: "is not set" is no value.
FitsSet(k, s, v) == k.type[s] = "unknown" \/ (v # "n" /\ (k.type[s] \in TriTypes \/ StringValid(k, s, v)))
\* The value of a line is one its symbol can have.
Fits(k, s, v) == CASE k.type[s] \in TriTypes -> v \in {"n", "y"} \/ (v = "m" /\ k.type[s] = "tristate")
                   [] k.type[s] = "unknown"  -> TRUE
                   [] OTHER                  -> StringValid(k, s, v)

\* Mutant of NoteChoice: the choice does not learn which member it was.
NoteNoMember(k, c, s) == [c EXCEPT !.def[ChoiceOf(k, s)] = TriName(Max({Tri(@), Tri(c.def[s])}))]
\* A member of a choice that gets a value tells what the choice is.
NoteChoice(k, c, s) ==
  LET ch == ChoiceOf(k, s)
      t  == c.def[s]
      c1 == [c EXCEPT !.def[ch] = TriName(Max({Tri(@), Tri(t)}))]
  IN CASE t = "m" /\ c.def[ch] = "y" -> [c1 EXCEPT !.has = @ \ {ch}, !.warned = TRUE]
       [] t = "y" -> [c1 EXCEPT !.pick[ch] = s, !.warned = @ \/ c.def[ch] # "n"]
       [] OTHER -> c1

\* One line.  An unknown symbol makes the configuration one to be saved.
ReadLine(k, c, line) ==
  LET s == line.sym
      fits == Fits(k, s, line.val)
      sets == fits /\ k.type[s] # "unknown"
      c1 == [c EXCEPT !.warned = @ \/ s \in c.has \/ ~fits,
                      !.def[s] = IF sets THEN line.val ELSE @,
                      !.has = IF sets THEN @ \cup {s} ELSE @]
  IN IF s \notin Symbols THEN [c EXCEPT !.changed = TRUE]
     ELSE IF s \in k.values /\ fits THEN NoteChoice(k, c1, s)
     ELSE c1

\* The user's values are those of the file, and nothing is valid any more.
\* The result has one field more, warned: conf_warnings is not 0.
Forget(k, c) == [c EXCEPT !.def = NewValues(k).def, !.pick = NewValues(k).pick, !.has = k.choices, !.valid = {}]
RECURSIVE ReadLines(_, _, _)
ReadLines(k, c, lines) == IF lines = <<>> THEN c ELSE ReadLines(k, ReadLine(k, c, Head(lines)), Tail(lines))
ReadSimple(k, c, lines) == Calc(k, ReadLines(k, Forget(k, c) @@ [warned |-> FALSE], lines), Modules)

\* Does the value calculated for s agree with the one that was saved?
Agrees(k, c, s) ==
  \/ s \in k.choices \/ s = Modules
  \/ s \in c.has /\ s \in c.write /\ c.def[s] = c.curr[s]
  \/ s \notin c.has /\ s \notin c.write

\* A choice is new as long as one of its visible members is.
ChoiceIsNew(k, c, ch) == \E m \in Range(Members(k, ch)) : c.vis[m] # 0 /\ m \notin c.has

\* conf_read of a file that exists.
Noted(k, c, s) ==
  [c EXCEPT !.unsaved = @ \/ ~Agrees(k, c, s),
            !.has = IF s \in k.choices /\ ChoiceIsNew(k, c, s) THEN @ \ {s} ELSE @]
RECURSIVE CheckValues(_, _, _)
CheckValues(k, c, syms) ==
  IF syms = <<>> THEN c ELSE CheckValues(k, Noted(k, Calc(k, c, Head(syms)), Head(syms)), Tail(syms))
Refused(k, c, s) == IsString(k, s) /\ ~StringWithinRange(k, c, s, c.def[s])
ResetValue(k, c, s) ==
  CASE s \notin c.has \/ s \in k.values -> c
    [] s \in c.has \ k.values /\ Refused(k, c, s) ->
         [c EXCEPT !.has = @ \ {s}, !.valid = @ \ {s}, !.unsaved = TRUE]
    [] OTHER -> [c EXCEPT !.has = IF c.vis[s] = 0 /\ ~c.unsaved THEN @ \ {s} ELSE @]
RECURSIVE ResetValues(_, _, _)
ResetValues(k, c, syms) == IF syms = <<>> THEN c ELSE ResetValues(k, ResetValue(k, c, Head(syms)), Tail(syms))
ReadPlain(k, c, lines) == LET read == ReadSimple(k, c, lines) IN [f \in DOMAIN c |-> read[f]]
ReadResult(k, c) ==
  [f \in DOMAIN NewValues(k) |-> IF f = "changed" THEN c.changed \/ c.warned \/ c.unsaved ELSE c[f]]
ConfRead(k, c, lines) ==
  ReadResult(k, ResetValues(k, CheckValues(k, ReadSimple(k, [c EXCEPT !.changed = FALSE], lines)
                                                @@ [unsaved |-> FALSE], AllSymbols(k)), AllSymbols(k)))

\* conf_read of a file that does not exist: the change count is cleared first.
\* Without a name the default file was meant, and it is to be written.
ConfReadMissing(k, c, named) ==
  IF named THEN [c EXCEPT !.changed = FALSE] ELSE Calc(k, [c EXCEPT !.changed = TRUE], Modules)

\* The values of the symbols that have a name, as data hold and as lines give them.
ValuesOf(k, c) == [s \in Symbols \ Auto(k) |-> c.curr[s]]
FromLines(k, lines) == CalcAll(k, [ConfRead(k, NewValues(k), lines) EXCEPT !.valid = {}])
MeaningOf(k, lines) == ValuesOf(k, FromLines(k, lines))

-----------------------------------------------------------------------------
\* The entries in the order in which all writers visit them.
RECURSIVE Outside(_, _), Walk(_, _)
Outside(k, m) == IF m = 0 THEN 0 ELSE IF k.menus[m].next # 0 THEN k.menus[m].next ELSE Outside(k, k.menus[m].parent)
Walk(k, m) == IF m = 0 THEN <<>>
              ELSE <<m>> \o Walk(k, IF k.menus[m].list # 0 THEN k.menus[m].list ELSE Outside(k, m))
WriteOrder(k) == Walk(k, k.menus[1].list)

\* The lines of a configuration and what writing them does to the values.
PutLine(k, lines, s, c) ==
  [c |-> [c EXCEPT !.write = @ \ {s}],
   lines |-> IF s \notin c.write \/ k.type[s] = "unknown" THEN lines ELSE Append(lines, Entry(s, c.curr[s]))]
WriteEntry(k, acc, m) ==
  CASE ~HasSym(k, m)  -> [acc EXCEPT !.c = IsVisible(k, acc.c, m).c]
    [] IsChoice(k, m) -> acc
    [] OTHER          -> PutLine(k, acc.lines, k.menus[m].sym, Calc(k, acc.c, k.menus[m].sym))
RECURSIVE WriteEntries(_, _, _)
WriteEntries(k, acc, ms) == IF ms = <<>> THEN acc ELSE WriteEntries(k, WriteEntry(k, acc, Head(ms)), Tail(ms))
ConfWrite(k, c) ==
  WriteEntries(k, [c |-> ClearUnless(k, c.changed, c), lines |-> <<>>], WriteOrder(k))

\* Mutant of Implied: whatever its choice would take.
ImpliedAny(k, c, s) == s \in k.values /\ k.type[s] = "bool" /\ c.curr[s] = "y"
\* A member that its choice takes anyway.
Implied(k, c, s) ==
  /\ s \in k.values
  /\ ChoiceOf(k, s) \notin k.optional
  /\ ChoiceDefault(k, c, ChoiceOf(k, s)) = s
  /\ k.type[s] = "bool" /\ c.curr[s] = "y"

\* conf_write_defconfig: only what differs from the defaults.
PutUnless(k, lines, s, d) ==
  [c |-> d.c, lines |-> IF d.v = d.c.curr[s] \/ Implied(k, d.c, s) THEN lines
                        ELSE Append(lines, Entry(s, d.c.curr[s]))]
TryDefault(k, lines, s, c, was) ==
  IF was /\ Changable(c, s) THEN PutUnless(k, lines, s, StringDefault(k, c, s)) ELSE [c |-> c, lines |-> lines]
DefLine(k, lines, s, c) == TryDefault(k, lines, s, [c EXCEPT !.write = @ \ {s}], s \in c.write)
DefEntry(k, acc, m) ==
  CASE ~HasSym(k, m)  -> [acc EXCEPT !.c = IsVisible(k, acc.c, m).c]
    [] IsChoice(k, m) -> acc
    [] OTHER          -> DefLine(k, acc.lines, k.menus[m].sym, Calc(k, acc.c, k.menus[m].sym))
RECURSIVE DefEntries(_, _, _)
DefEntries(k, acc, ms) == IF ms = <<>> THEN acc ELSE DefEntries(k, DefEntry(k, acc, Head(ms)), Tail(ms))
WriteDefconfig(k, c) == DefEntries(k, [c |-> ClearAllValid(k, c), lines |-> <<>>], WriteOrder(k))

\* What the build is told of the values c, all calculated: no value is n.
AutoConf(k, c) == {<<s, c.curr[s]>> : s \in {x \in c.write \ k.choices : c.curr[x] # "n" /\ k.type[x] # "unknown"}}

ToldOf(k, lines) == AutoConf(k, FromLines(k, lines))

\* Mutant of SplitConfig: only symbols that have a value are compared.
SplitConfigSet(k, c, old) ==
  {s \in c.write \ (k.choices \cup {Modules}) : c.curr[s] # "n" /\ <<s, c.curr[s]>> \notin old}
\* conf_split_config: the symbols whose header is touched, for the build to
\* notice that they differ from the auto.conf of before.
SplitConfig(k, c, old) ==
  LET named == Symbols \ (k.choices \cup {Modules})
      Old(s) == {p[2] : p \in {q \in old : q[1] = s /\ Fits(k, s, q[2])}}
      Changed(s) == CASE s \notin c.write -> Old(s) # {}
                      [] Old(s) = {}      -> c.curr[s] # "n"
                      [] OTHER            -> Old(s) # {c.curr[s]}
  IN {s \in named \cup {p[1] : p \in old} : s \in named => Changed(s)}

\* conf_set_all_new_symbols: v is the value for all that have none, or
\* "default".  A choice then only takes what its members have.
TakesMembers(k, c, ch) ==
  [c EXCEPT !.def = [s \in Symbols |-> IF s \in Range(Members(k, ch)) \ c.has THEN "n" ELSE @[s]],
            !.has = @ \cup {ch}, !.valid = @ \ {ch}]
RECURSIVE SetChoices(_, _, _)
SetChoices(k, c, syms) ==
  IF syms = <<>> THEN c
  ELSE SetChoices(k, IF Head(syms) \in k.choices \ c.has THEN TakesMembers(k, Calc(k, c, Head(syms)), Head(syms)) ELSE c,
                  Tail(syms))
GiveAll(c, new, v) == [c EXCEPT !.has = @ \cup new, !.def = [s \in Symbols |-> IF s \in new THEN v ELSE @[s]]]
New(k, c, v) == IF v = "default" THEN {} ELSE {s \in Symbols \ c.has : GetType(k, c, s) \in TriTypes}
SetAllNew(k, c, v) == SetChoices(k, ClearAllValid(k, GiveAll(c, New(k, c, v), v)), AllSymbols(k))
=============================================================================
