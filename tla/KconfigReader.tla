---------------------------- MODULE KconfigReader ----------------------------
(* Which file is read where: the scanner's stack of files (zconf.l) and the   *)
(* list of the files that are known (util.c).  Of the parser, which           *)
(* KconfigLanguage describes, this module says only what it owes every file:  *)
(* an entry in the menu tree for each line that declares something.           *)
(* A file is a sequence of lines.  A line has a keyword t, a name x and the   *)
(* files it sources: one, whose name x stands for, or all that match.         *)
EXTENDS Naturals, Sequences, FiniteSets, SequencesExt

CONSTANT Root       \* the file conf_parse is given

VARIABLES
  program,     \* the files there are: a function from names to lines
  files,       \* file_list, oldest first: name, and new, busy or scanned
  stack,       \* the files being read, innermost last: index in files, next line
  k,           \* the data the parser makes; here only its entries matter
  phase        \* parsing, parsed (accepted), ready (finalized) or failed

readVars == <<program, files, stack, k, phase>>

IsList(s) == s \in Seq(Range(s))
IsProgram(p) ==
  /\ Root \in DOMAIN p
  /\ \A f \in DOMAIN p : IsList(p[f]) /\ \A i \in DOMAIN p[f] : IsList(p[f][i].files)

\* The next line, when there is one in the innermost file.
Pos == Last(stack).pos
File == Last(stack).file
Text == program[files[File].name]
More == phase = "parsing" /\ stack # <<>> /\ Pos <= Len(Text)
Cur == Text[Pos]
Advanced == [stack EXCEPT ![Len(stack)].pos = @ + 1]
Read == stack' = Advanced

Sourcing == {"source", "glob"}
\* The names a list is looked up by (file_lookup): a name with a variable in
\* it as it is written, which is not how the file is known afterwards.
LookedUp(line) == IF line.t = "source" THEN <<line.x>> ELSE line.files
Known == {files[f].name : f \in {g \in DOMAIN files : files[g].state # "new"}}

\* All files of the line are there, and none is busy or has been scanned.
Openable ==
  /\ Range(Cur.files) \subseteq DOMAIN program
  /\ \A i \in DOMAIN Cur.files :
       /\ LookedUp(Cur)[i] \notin Known
       /\ \A j \in 1 .. i - 1 : LookedUp(Cur)[i] # Cur.files[j]

\* They are opened one on the other, so the last one is read first.
OpenFiles ==
  LET n == Len(Cur.files)
  IN /\ files' = files \o [i \in 1 .. n |-> [name |-> Cur.files[i], state |-> "busy"]]
     /\ stack' = Advanced \o [i \in 1 .. n |-> [file |-> Len(files) + i, pos |-> 1]]

\* Mutant of EndFile: a file that was read counts as new.
EndFileNew ==
  /\ phase = "parsing" /\ stack # <<>> /\ Pos > Len(Text)
  /\ files' = [files EXCEPT ![File].state = "new"]
  /\ stack' = Front(stack)
  /\ UNCHANGED <<program, k, phase>>
\* End of a file: the reader goes on in the file outside.
EndFile ==
  /\ phase = "parsing" /\ stack # <<>> /\ Pos > Len(Text)
  /\ files' = [files EXCEPT ![File].state = "scanned"]
  /\ stack' = Front(stack)
  /\ UNCHANGED <<program, k, phase>>

-----------------------------------------------------------------------------
\* The entries that have a symbol, with the file they were made for.
Declaring == {"config", "menuconfig", "choice"}
Declarations == {[menu |-> m, sym |-> k.menus[m].sym, file |-> k.menus[m].file] :
                   m \in {n \in DOMAIN k.menus : k.menus[n].sym # ""}}
NewDeclaration ==
  \E m \in DOMAIN k'.menus :
    /\ \A d \in Declarations : d.menu # m
    /\ Declarations' = Declarations \cup {[menu |-> m, sym |-> Cur.x, file |-> File]}
KeepsDeclarations == Declarations' = Declarations

ReadInit ==
  /\ IsProgram(program)
  /\ files = <<[name |-> Root, state |-> "busy"]>>
  /\ stack = <<[file |-> 1, pos |-> 1]>>
  /\ Declarations = {}
  /\ phase = "parsing"

TakeLine ==
  /\ More /\ Cur.t \notin Sourcing
  /\ Read
  /\ IF Cur.t \in Declaring THEN NewDeclaration ELSE KeepsDeclarations
  /\ UNCHANGED <<program, files, phase>>

TakeFiles ==
  /\ More /\ Cur.t \in Sourcing
  /\ Openable /\ OpenFiles
  /\ KeepsDeclarations
  /\ UNCHANGED <<program, phase>>

\* An error, or all is read: a list that matches no file ends the input.
Stop == phase = "parsing" /\ phase' = "failed" /\ UNCHANGED <<program, files, stack, k>>
Accept ==
  /\ phase = "parsing"
  /\ stack = <<>> \/ (More /\ Cur.t = "glob" /\ Cur.files = <<>>)
  /\ phase' = "parsed"
  /\ KeepsDeclarations
  /\ UNCHANGED <<program, files, stack>>

\* menu_finalize moves entries, but makes and loses none.
GetReady ==
  /\ phase = "parsed" /\ phase' \in {"parsed", "ready"}
  /\ KeepsDeclarations
  /\ UNCHANGED <<program, files, stack>>

ReadNext == TakeLine \/ TakeFiles \/ EndFile \/ Stop \/ Accept \/ GetReady
ReadSpec == ReadInit /\ [][ReadNext]_readVars

-----------------------------------------------------------------------------
LinesOf(f) == program[files[f].name]
\* The lines of a file that the parser has had.
Ahead(f, i) == \E d \in DOMAIN stack : stack[d].file = f /\ stack[d].pos <= i
Taken(f) == {i \in DOMAIN LinesOf(f) : ~Ahead(f, i)}

DeclaringLines(f, s) == {i \in Taken(f) : LinesOf(f)[i].t \in Declaring /\ LinesOf(f)[i].x = s}
EntriesFor(f, s) == {d \in Declarations : d.file = f /\ d.sym = s}
Words == UNION {{program[f][i].x : i \in DOMAIN program[f]} : f \in DOMAIN program}
Sourced(f) == UNION {Range(LinesOf(f)[i].files) : i \in {j \in Taken(f) : LinesOf(f)[j].t \in Sourcing}}

\* Two ways around are known: a name with a variable in it is not recognised
\* again, and a list that matches no file ends the input.
Regular(line) == /\ line.t = "source" => line.files = <<line.x>>
                 /\ line.t = "glob" => line.files # <<>>
AllRegular == \A f \in DOMAIN files : \A i \in DOMAIN LinesOf(f) : Regular(LinesOf(f)[i])

(* Whatever sources what, at any time every file on the list has given        *)
(* exactly the entries that the lines read so far declare, and every file     *)
(* that one of them sources is on the list.  When all is accepted, the files  *)
(* were read to their ends and none of them twice.                            *)
DeclarationsOnce ==
  /\ \A d \in Declarations : d.file \in DOMAIN files /\ d.sym \in Words
  /\ \A f \in DOMAIN files :
       /\ \A s \in Words : Cardinality(EntriesFor(f, s)) = Cardinality(DeclaringLines(f, s))
       /\ \A x \in Sourced(f) : \E g \in DOMAIN files : files[g].name = x
  /\ phase \in {"parsed", "ready"} /\ AllRegular =>
       /\ stack = <<>>
       /\ \A f, g \in DOMAIN files : files[f].name = files[g].name => f = g

-----------------------------------------------------------------------------
\* The inductive invariant: no file is open twice, which tells what is still
\* ahead, and names differ and are known at any time, not only at the end.
FileRecords == [name : DOMAIN program, state : {"busy", "scanned"}]
Frames == [file : DOMAIN files, pos : Nat \ {0}]
TypeInv ==
  /\ IsProgram(program)
  /\ files \in Seq(FileRecords)
  /\ stack \in Seq(Frames)
  /\ phase \in {"parsing", "parsed", "ready", "failed"}
StackInv == \A d, e \in DOMAIN stack : stack[d].file = stack[e].file => d = e
NamesInv == AllRegular => \A f, g \in DOMAIN files : files[f].name = files[g].name => f = g
DoneInv == phase \in {"parsed", "ready"} /\ AllRegular => stack = <<>>
SourcesInv == \A f \in DOMAIN files : \A x \in Sourced(f) : \E g \in DOMAIN files : files[g].name = x
EntriesInv == \A d \in Declarations : d.file \in DOMAIN files /\ d.sym \in Words
CountInv == \A f \in DOMAIN files : \A s \in Words : Cardinality(EntriesFor(f, s)) = Cardinality(DeclaringLines(f, s))
ReadInv ==
  /\ TypeInv /\ StackInv /\ NamesInv /\ DoneInv /\ SourcesInv
  /\ IsFiniteSet(Declarations) /\ EntriesInv /\ CountInv
=============================================================================
