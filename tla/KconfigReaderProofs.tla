------------------------- MODULE KconfigReaderProofs -------------------------
(* Proofs about KconfigReader, for all sets of files.  ReadInv is inductive:  *)
(* as no file is open twice, a line is either ahead in the one place where    *)
(* its file is being read or has been taken, and taking a line adds one to    *)
(* what its file declares and, if the parser keeps its promise, one entry.    *)
EXTENDS KconfigReader, ListLemmas

-----------------------------------------------------------------------------
\* The files and what is read of them, as the invariant types them.

LEMMA ListFacts ==
  ASSUME NEW s, IsList(s)
  PROVE  Len(s) \in Nat /\ DOMAIN s = 1 .. Len(s) /\ \A i \in 1 .. Len(s) : s[i] \in Range(s)
  BY DEF IsList, Range

\* A list of S has elements of S.
LEMMA ListElement ==
  ASSUME NEW S, NEW s \in Seq(S), NEW i \in DOMAIN s
  PROVE  s[i] \in S /\ Len(s) \in Nat /\ DOMAIN s = 1 .. Len(s)
  OBVIOUS

LEMMA ListOfMore == ASSUME NEW S, NEW T, S \subseteq T, NEW s \in Seq(S) PROVE s \in Seq(T)
  OBVIOUS

LEMMA Joined ==
  ASSUME NEW S, NEW s \in Seq(S), NEW t \in Seq(S)
  PROVE  /\ s \o t \in Seq(S) /\ Len(s \o t) = Len(s) + Len(t)
         /\ \A i \in 1 .. Len(s) + Len(t) : (s \o t)[i] = IF i <= Len(s) THEN s[i] ELSE t[i - Len(s)]
  OBVIOUS

\* Numbers beyond a, and how far beyond.
LEMMA Beyond ==
  ASSUME NEW a \in Nat, NEW b \in Nat
  PROVE  /\ \A d \in Nat : b < d => a + (d - b) \notin 1 .. a
         /\ \A f \in Nat, n \in Nat : f - a \in 1 .. n =>
              /\ b + (f - a) \in Nat /\ b < b + (f - a) /\ b + (f - a) <= b + n
              /\ a + ((b + (f - a)) - b) = f
  OBVIOUS

LEMMA ElementFacts ==
  ASSUME TypeInv
  PROVE  /\ Len(files) \in Nat /\ DOMAIN files = 1 .. Len(files)
         /\ Len(stack) \in Nat /\ DOMAIN stack = 1 .. Len(stack)
         /\ \A f \in DOMAIN files : files[f] \in FileRecords
         /\ \A d \in DOMAIN stack : stack[d] \in Frames
  BY ListElement DEF TypeInv

LEMMA LinesFacts ==
  ASSUME TypeInv, NEW f \in DOMAIN files
  PROVE  /\ files[f].name \in DOMAIN program
         /\ Len(LinesOf(f)) \in Nat /\ DOMAIN LinesOf(f) = 1 .. Len(LinesOf(f))
         /\ \A i \in DOMAIN LinesOf(f) :
              LET list == LinesOf(f)[i].files IN Len(list) \in Nat /\ DOMAIN list = 1 .. Len(list)
<1>1. files[f].name \in DOMAIN program
  BY ElementFacts DEF FileRecords
<1>2. IsList(LinesOf(f)) /\ \A i \in DOMAIN LinesOf(f) : IsList(LinesOf(f)[i].files)
  BY <1>1 DEF TypeInv, IsProgram, LinesOf
<1> QED BY <1>1, <1>2, ListFacts

LEMMA TopFacts ==
  ASSUME TypeInv, stack # <<>>
  PROVE  /\ Len(stack) \in Nat \ {0} /\ DOMAIN stack = 1 .. Len(stack)
         /\ File \in DOMAIN files /\ Pos \in Nat \ {0}
         /\ stack[Len(stack)].file = File /\ stack[Len(stack)].pos = Pos
         /\ Text = LinesOf(File)
<1>1. Len(stack) \in Nat \ {0} /\ DOMAIN stack = 1 .. Len(stack)
  BY DEF TypeInv
<1>2. stack[Len(stack)] \in Frames
  BY <1>1, ElementFacts
<1> QED BY <1>1, <1>2 DEF Frames, File, Pos, Last, Text, LinesOf

LEMMA CurFacts ==
  ASSUME TypeInv, More
  PROVE  /\ stack # <<>> /\ phase = "parsing"
         /\ Pos \in DOMAIN LinesOf(File) /\ Cur = LinesOf(File)[Pos]
         /\ Len(Cur.files) \in Nat /\ DOMAIN Cur.files = 1 .. Len(Cur.files)
<1>1. stack # <<>> /\ phase = "parsing" /\ Pos <= Len(Text)
  BY DEF More
<1>2. Pos \in DOMAIN LinesOf(File) /\ Cur = LinesOf(File)[Pos]
  BY <1>1, TopFacts, LinesFacts DEF Cur
<1> QED BY <1>1, <1>2, TopFacts, LinesFacts

LEMMA AdvancedFacts ==
  ASSUME TypeInv, stack # <<>>
  PROVE  /\ Advanced \in Seq(Frames)
         /\ Len(Advanced) = Len(stack) /\ DOMAIN Advanced = DOMAIN stack
         /\ \A d \in DOMAIN stack :
              /\ Advanced[d].file = stack[d].file
              /\ Advanced[d].pos = IF d = Len(stack) THEN Pos + 1 ELSE stack[d].pos
<1> DEFINE n == Len(stack)
           top == [stack[n] EXCEPT !.pos = @ + 1]
<1>1. n \in 1 .. Len(stack) /\ n = Len(stack) /\ stack \in Seq(Frames) /\ stack[n] \in Frames /\ DOMAIN stack = 1 .. n
  BY TopFacts, ElementFacts DEF TypeInv
<1>2. top \in Frames /\ top.file = stack[n].file /\ top.pos = Pos + 1
  BY <1>1, TopFacts DEF Frames
<1>3. Advanced = [stack EXCEPT ![n] = top]
  BY DEF Advanced
<1> HIDE DEF top
<1>4. Advanced \in Seq(Frames) /\ Len(Advanced) = n
  BY <1>1, <1>2, <1>3
<1>5. \A d \in DOMAIN stack : Advanced[d] = IF d = n THEN top ELSE stack[d]
  BY <1>1, <1>3
<1>6. DOMAIN Advanced = DOMAIN stack
  BY <1>3
<1> QED BY <1>1, <1>2, <1>4, <1>5, <1>6

\* Lines are counted from 1, before and after a step.
LEMMA LinesFromOne == TypeInv => \A f \in DOMAIN files : DOMAIN LinesOf(f) \subseteq Nat \ {0}
  BY LinesFacts
LEMMA LinesFromOneNext == TypeInv' => (\A f \in DOMAIN files : DOMAIN LinesOf(f) \subseteq Nat \ {0})'
  BY LinesFromOne, PTL

\* Taking a line leaves one line less ahead.
LEMMA AdvancedAhead ==
  ASSUME TypeInv, StackInv, stack # <<>>, NEW f, NEW i \in Nat
  PROVE  (\E d \in DOMAIN Advanced : Advanced[d].file = f /\ Advanced[d].pos <= i)
           <=> Ahead(f, i) /\ ~(f = File /\ i = Pos)
<1> USE TopFacts, AdvancedFacts
<1>0. \A d \in DOMAIN stack : stack[d].pos \in Nat
  BY ElementFacts DEF Frames
<1>1. CASE f = File
  <2>1. \A d \in DOMAIN stack : stack[d].file = f => d = Len(stack)
    BY <1>1 DEF StackInv
  <2>2. Ahead(f, i) <=> Pos <= i
    BY <1>1, <2>1 DEF Ahead
  <2>3. (\E d \in DOMAIN Advanced : Advanced[d].file = f /\ Advanced[d].pos <= i) <=> Pos + 1 <= i
    BY <1>1, <2>1
  <2> QED BY <1>1, <2>2, <2>3
<1>2. CASE f # File
  BY <1>2 DEF Ahead
<1> QED BY <1>1, <1>2

-----------------------------------------------------------------------------
\* What each action takes.

LEMMA LineTaken ==
  ASSUME TypeInv, StackInv, More, stack' = Advanced, UNCHANGED <<program, files>>, NEW f \in DOMAIN files
  PROVE  /\ LinesOf(f)' = LinesOf(f)
         /\ Taken(f)' = Taken(f) \cup (IF f = File THEN {Pos} ELSE {})
         /\ f = File => Pos \notin Taken(f)
<1>1. LinesOf(f)' = LinesOf(f) /\ DOMAIN LinesOf(f) \subseteq Nat
  BY LinesFacts DEF LinesOf
<1>2. \A i \in DOMAIN LinesOf(f) : Ahead(f, i)' <=> Ahead(f, i) /\ ~(f = File /\ i = Pos)
  <2> SUFFICES ASSUME NEW i \in DOMAIN LinesOf(f) PROVE Ahead(f, i)' <=> Ahead(f, i) /\ ~(f = File /\ i = Pos)
    OBVIOUS
  <2> QED BY <1>1, AdvancedAhead, CurFacts DEF Ahead
<1>3. f = File => Pos \in DOMAIN LinesOf(f) /\ Ahead(f, Pos)
  BY CurFacts, TopFacts DEF Ahead
<1> QED BY <1>1, <1>2, <1>3 DEF Taken

LEMMA EndFacts ==
  ASSUME TypeInv, StackInv, EndFile
  PROVE  /\ stack # <<>> /\ DOMAIN stack' = 1 .. Len(stack) - 1
         /\ \A d \in DOMAIN stack' : d \in DOMAIN stack /\ stack'[d] = stack[d]
         /\ TypeInv'
         /\ DOMAIN files' = DOMAIN files
         /\ \A f \in DOMAIN files : files'[f].name = files[f].name
<1> USE DEF EndFile
<1>1. stack # <<>> /\ stack \in Seq(Frames) /\ files \in Seq(FileRecords)
  BY DEF TypeInv
<1>2. /\ stack' \in Seq(Frames) /\ Len(stack') = Len(stack) - 1
      /\ \A d \in 1 .. (Len(stack) - 1) : stack'[d] = stack[d]
  BY <1>1, FrontElements
<1>3. [files[File] EXCEPT !.state = "scanned"] \in FileRecords
  BY ElementFacts, TopFacts DEF FileRecords
<1>4. files' = [files EXCEPT ![File] = [files[File] EXCEPT !.state = "scanned"]]
  OBVIOUS
<1>5. files' \in Seq(FileRecords) /\ DOMAIN files' = DOMAIN files
  BY <1>1, <1>3, <1>4, TopFacts
<1>6. \A f \in DOMAIN files : files'[f].name = files[f].name
  BY <1>1, <1>4, TopFacts
<1>7. DOMAIN stack' = 1 .. Len(stack) - 1 /\ \A d \in DOMAIN stack' : d \in DOMAIN stack
  BY <1>2, TopFacts
<1>8. FileRecords' = FileRecords /\ Frames' = Frames
  BY <1>5 DEF FileRecords, Frames
<1> QED BY <1>1, <1>2, <1>5, <1>6, <1>7, <1>8 DEF TypeInv

LEMMA EndTakesNothing ==
  ASSUME TypeInv, StackInv, EndFile, NEW f \in DOMAIN files
  PROVE  LinesOf(f)' = LinesOf(f) /\ Taken(f)' = Taken(f)
<1>1. LinesOf(f)' = LinesOf(f)
  BY EndFacts DEF LinesOf, EndFile
<1>2. ASSUME NEW i \in DOMAIN LinesOf(f) PROVE Ahead(f, i)' <=> Ahead(f, i)
  <2>1. i \in Nat /\ i <= Len(LinesOf(f))
    BY LinesFacts
  <2>2. f = File => i < Pos
    BY <2>1, TopFacts, LinesFacts DEF EndFile
  <2>3. ~(stack[Len(stack)].file = f /\ stack[Len(stack)].pos <= i)
    BY <2>1, <2>2, TopFacts, EndFacts
  <2>4. \A d \in DOMAIN stack : d \in DOMAIN stack' \/ d = Len(stack)
    BY EndFacts, TopFacts
  <2> QED BY <2>3, <2>4, EndFacts DEF Ahead
<1> QED BY <1>1, <1>2 DEF Taken

\* The files of a list are added to those that are known and to the stack.
LEMMA OpenedFiles ==
  ASSUME TypeInv, TakeFiles
  PROVE  /\ Len(files') = Len(files) + Len(Cur.files) /\ DOMAIN files' = 1 .. Len(files')
         /\ \A f \in DOMAIN files : f \in DOMAIN files' /\ files'[f] = files[f]
         /\ \A f \in DOMAIN files' \ DOMAIN files :
              /\ f - Len(files) \in DOMAIN Cur.files
              /\ files'[f] = [name |-> Cur.files[f - Len(files)], state |-> "busy"]
         /\ files' \in Seq(FileRecords)
<1> USE DEF TakeFiles, OpenFiles
<1> DEFINE n == Len(Cur.files)
           added == [i \in 1 .. n |-> [name |-> Cur.files[i], state |-> "busy"]]
<1>1. n \in Nat /\ DOMAIN Cur.files = 1 .. n /\ files \in Seq(FileRecords) /\ Len(files) \in Nat /\ DOMAIN files = 1 .. Len(files)
  BY CurFacts, ElementFacts DEF TypeInv
<1>2. \A i \in 1 .. n : Cur.files[i] \in DOMAIN program
  BY <1>1 DEF Openable, Range
<1>3. added \in Seq(FileRecords) /\ Len(added) = n /\ \A i \in 1 .. n : added[i] = [name |-> Cur.files[i], state |-> "busy"]
  BY <1>1, <1>2 DEF FileRecords
<1>4. files' = files \o added
  OBVIOUS
<1> HIDE DEF added
<1>5. /\ files' \in Seq(FileRecords) /\ Len(files') = Len(files) + n
      /\ \A f \in 1 .. Len(files') : files'[f] = IF f <= Len(files) THEN files[f] ELSE added[f - Len(files)]
  BY <1>1, <1>3, <1>4
<1> QED BY <1>1, <1>3, <1>5

LEMMA OpenedStack ==
  ASSUME TypeInv, TakeFiles
  PROVE  /\ Len(stack') = Len(stack) + Len(Cur.files) /\ DOMAIN stack' = 1 .. Len(stack')
         /\ \A d \in DOMAIN stack : d \in DOMAIN stack' /\ stack'[d] = Advanced[d]
         /\ \A d \in DOMAIN stack' \ DOMAIN stack : stack'[d] = [file |-> Len(files) + (d - Len(stack)), pos |-> 1]
         /\ TypeInv'
<1> USE DEF TakeFiles, OpenFiles
<1> DEFINE n == Len(Cur.files)
           added == [i \in 1 .. n |-> [file |-> Len(files) + i, pos |-> 1]]
<1>1. n \in Nat /\ stack # <<>> /\ Len(files) \in Nat /\ DOMAIN stack = 1 .. Len(stack) /\ Len(stack) \in Nat
  BY CurFacts, ElementFacts
<1>2. Advanced \in Seq(Frames) /\ Len(Advanced) = Len(stack)
  BY <1>1, AdvancedFacts
<1>3. FileRecords' = FileRecords /\ Frames' = [file : DOMAIN files', pos : Nat \ {0}] /\ Frames \subseteq Frames'
  BY OpenedFiles DEF FileRecords, Frames
<1>4. Advanced \in Seq(Frames')
  BY <1>2, <1>3, ListOfMore, ZenonT(30)
<1>5. added \in Seq(Frames') /\ Len(added) = n /\ \A i \in 1 .. n : added[i] = [file |-> Len(files) + i, pos |-> 1]
  BY <1>1, <1>3, OpenedFiles
<1>6. stack' = Advanced \o added
  OBVIOUS
<1> HIDE DEF added
<1> HIDE DEF n
<1>7. /\ stack' \in Seq(Frames') /\ Len(stack') = Len(stack) + n
      /\ \A d \in 1 .. Len(stack') : stack'[d] = IF d <= Len(stack) THEN Advanced[d] ELSE added[d - Len(stack)]
  <2>1. /\ Advanced \o added \in Seq(Frames') /\ Len(Advanced \o added) = Len(Advanced) + Len(added)
        /\ \A i \in 1 .. Len(Advanced) + Len(added) :
             (Advanced \o added)[i] = IF i <= Len(Advanced) THEN Advanced[i] ELSE added[i - Len(Advanced)]
    BY <1>4, <1>5, Joined
  <2> QED BY <2>1, <1>2, <1>5, <1>6
<1>8. TypeInv'
  BY <1>3, <1>7, OpenedFiles DEF TypeInv
<1>9. \A d \in DOMAIN stack' \ DOMAIN stack : d - Len(stack) \in 1 .. n /\ ~(d <= Len(stack))
  BY <1>1, <1>7
<1> QED BY <1>1, <1>2, <1>5, <1>7, <1>8, <1>9 DEF n

LEMMA FilesTaken ==
  ASSUME TypeInv, StackInv, TakeFiles, NEW f \in DOMAIN files'
  PROVE  IF f \in DOMAIN files
         THEN /\ LinesOf(f)' = LinesOf(f)
              /\ Taken(f)' = Taken(f) \cup (IF f = File THEN {Pos} ELSE {})
              /\ f = File => Pos \notin Taken(f)
         ELSE Taken(f)' = {}
<1>0. /\ More /\ stack # <<>> /\ Len(Cur.files) \in Nat /\ DOMAIN Cur.files = 1 .. Len(Cur.files)
      /\ Len(stack) \in Nat /\ DOMAIN stack = 1 .. Len(stack)
      /\ Len(files) \in Nat /\ DOMAIN files = 1 .. Len(files)
  BY CurFacts, ElementFacts DEF TakeFiles
<1>a. DOMAIN Advanced = DOMAIN stack
  BY <1>0, AdvancedFacts
<1>b. /\ DOMAIN stack' = 1 .. Len(stack) + Len(Cur.files)
      /\ \A d \in DOMAIN stack : stack'[d] = Advanced[d]
      /\ \A d \in DOMAIN stack' \ DOMAIN stack : stack'[d] = [file |-> Len(files) + (d - Len(stack)), pos |-> 1]
      /\ TypeInv'
  BY OpenedStack
<1>c. /\ DOMAIN files' = 1 .. Len(files) + Len(Cur.files)
      /\ \A g \in DOMAIN files : files'[g] = files[g]
  BY OpenedFiles
<1>1. CASE f \in DOMAIN files
  <2>1. LinesOf(f)' = LinesOf(f) /\ DOMAIN LinesOf(f) \subseteq Nat
    BY <1>1, <1>c, LinesFromOne DEF LinesOf, TakeFiles
  <2>2. ASSUME NEW i \in DOMAIN LinesOf(f) PROVE Ahead(f, i)' <=> Ahead(f, i) /\ ~(f = File /\ i = Pos)
    <3>1. ASSUME NEW d \in DOMAIN stack' \ DOMAIN stack PROVE stack'[d].file # f
      <4>1. d \in Nat /\ d > Len(stack) /\ stack'[d].file = Len(files) + (d - Len(stack))
        <5>1. d \in 1 .. Len(stack) + Len(Cur.files) /\ d \notin 1 .. Len(stack)
          BY <1>0, <1>b
        <5>2. d \in Nat /\ d > Len(stack)
          BY <1>0, <5>1
        <5>3. stack'[d] = [file |-> Len(files) + (d - Len(stack)), pos |-> 1]
          BY <1>b, Zenon
        <5> QED BY <5>2, <5>3
      <4> QED BY <4>1, <1>0, <1>1, Beyond
    <3>2. Ahead(f, i)' <=> \E d \in DOMAIN Advanced : Advanced[d].file = f /\ Advanced[d].pos <= i
      BY <1>0, <1>a, <1>b, <3>1 DEF Ahead
    <3> QED BY <1>0, <2>1, <3>2, AdvancedAhead
  <2>3. f = File => Pos \in DOMAIN LinesOf(f) /\ Ahead(f, Pos)
    <3>1. Pos \in DOMAIN LinesOf(File) /\ stack[Len(stack)].file = File /\ stack[Len(stack)].pos = Pos /\ Pos \in Nat
      BY <1>0, CurFacts, TopFacts
    <3>2. Len(stack) \in DOMAIN stack
      BY <1>0, TopFacts
    <3> QED BY <3>1, <3>2 DEF Ahead
  <2> QED BY <1>1, <2>1, <2>2, <2>3 DEF Taken
<1>2. CASE f \notin DOMAIN files
  <2>1. DOMAIN LinesOf(f)' \subseteq Nat \ {0}
    BY <1>b, LinesFromOneNext
  <2>2. f \in Nat /\ f - Len(files) \in 1 .. Len(Cur.files)
    BY <1>0, <1>c, <1>2
  <2> DEFINE d == Len(stack) + (f - Len(files))
  <2>3. d \in DOMAIN stack' /\ stack'[d] = [file |-> f, pos |-> 1]
    <3>1. d \in DOMAIN stack' \ DOMAIN stack /\ Len(files) + (d - Len(stack)) = f
      <4>1. d \in Nat /\ Len(stack) < d /\ d <= Len(stack) + Len(Cur.files) /\ Len(files) + (d - Len(stack)) = f
        BY <1>0, <2>2, Beyond
      <4> HIDE DEF d
      <4>2. d \in 1 .. Len(stack) + Len(Cur.files) /\ d \notin 1 .. Len(stack)
        BY <4>1, <1>0
      <4> QED BY <1>0, <1>b, <4>1, <4>2
    <3> HIDE DEF d
    <3> QED BY <1>b, <3>1
  <2> HIDE DEF d
  <2>4. ASSUME NEW i \in DOMAIN LinesOf(f)' PROVE Ahead(f, i)'
    <3>1. i \in Nat /\ 1 <= i
      BY <2>1
    <3> QED BY <2>3, <3>1 DEF Ahead
  <2> QED BY <1>2, <2>4 DEF Taken
<1> QED BY <1>1, <1>2

\* The actions that touch neither the files nor the stack.
Rests == (Stop \/ Accept \/ GetReady \/ UNCHANGED readVars)

LEMMA RestFacts ==
  ASSUME Rests
  PROVE  program' = program /\ files' = files /\ stack' = stack /\ Declarations' = Declarations
<1>1. UNCHANGED <<program, files, stack>>
  BY DEF Rests, Stop, Accept, GetReady, readVars
<1>2. k' = k => Declarations' = Declarations
  BY DEF Declarations
<1> QED BY <1>1, <1>2 DEF Rests, Stop, Accept, GetReady, KeepsDeclarations, readVars

LEMMA RestTakesNothing ==
  ASSUME Rests, NEW f
  PROVE  LinesOf(f)' = LinesOf(f) /\ Taken(f)' = Taken(f)
  BY RestFacts DEF LinesOf, Taken, Ahead

-----------------------------------------------------------------------------
\* No file is open twice.

LEMMA StackKept ==
  ASSUME TypeInv, StackInv, TakeLine \/ TakeFiles \/ EndFile \/ Rests
  PROVE  TypeInv' /\ StackInv'
<1>1. CASE TakeLine
  <2>1. stack # <<>> /\ stack' = Advanced /\ UNCHANGED <<program, files, phase>>
    BY <1>1 DEF TakeLine, More, Read
  <2>2. FileRecords' = FileRecords /\ Frames' = Frames
    BY <2>1 DEF FileRecords, Frames
  <2>3. TypeInv'
    BY <2>1, <2>2, AdvancedFacts DEF TypeInv
  <2> QED BY <2>1, <2>3, AdvancedFacts DEF StackInv
<1>2. CASE TakeFiles
  <2>1. /\ Len(stack) \in Nat /\ DOMAIN stack = 1 .. Len(stack) /\ Len(files) \in Nat /\ DOMAIN files = 1 .. Len(files)
        /\ \A d \in DOMAIN stack : stack[d].file \in DOMAIN files
    BY ElementFacts DEF Frames
  <2>2. /\ TypeInv' /\ Len(Cur.files) \in Nat /\ DOMAIN stack' = 1 .. Len(stack) + Len(Cur.files)
        /\ \A d \in DOMAIN stack : stack'[d].file = stack[d].file
    BY <1>2, OpenedStack, CurFacts, AdvancedFacts DEF TakeFiles
  <2>3. ASSUME NEW d \in DOMAIN stack' \ DOMAIN stack
        PROVE  d \in Nat /\ Len(stack) < d /\ stack'[d].file = Len(files) + (d - Len(stack))
    <3>1. d \in 1 .. Len(stack) + Len(Cur.files) /\ d \notin 1 .. Len(stack)
      BY <2>1, <2>2
    <3>2. stack'[d] = [file |-> Len(files) + (d - Len(stack)), pos |-> 1]
      BY <1>2, OpenedStack, Zenon
    <3> QED BY <2>1, <2>2, <3>1, <3>2
  <2>4. ASSUME NEW d \in DOMAIN stack', NEW e \in DOMAIN stack', stack'[d].file = stack'[e].file PROVE d = e
    <3>1. CASE d \in DOMAIN stack /\ e \in DOMAIN stack
      BY <3>1, <2>2, <2>4 DEF StackInv
    <3>2. CASE d \in DOMAIN stack /\ e \notin DOMAIN stack
      BY <3>2, <2>1, <2>2, <2>3, <2>4, Beyond
    <3>3. CASE d \notin DOMAIN stack /\ e \in DOMAIN stack
      BY <3>3, <2>1, <2>2, <2>3, <2>4, Beyond
    <3>4. CASE d \notin DOMAIN stack /\ e \notin DOMAIN stack
      <4>1. /\ d \in Nat /\ e \in Nat /\ Len(files) \in Nat /\ Len(stack) \in Nat
            /\ Len(files) + (d - Len(stack)) = Len(files) + (e - Len(stack))
        BY <3>4, <2>1, <2>3, <2>4
      <4> QED BY <4>1
    <3> QED BY <3>1, <3>2, <3>3, <3>4
  <2> QED BY <2>2, <2>4 DEF StackInv
<1>3. CASE EndFile
  BY <1>3, EndFacts DEF StackInv
<1>4. CASE Rests
  <2>1. phase' \in {"parsing", "parsed", "ready", "failed"}
    BY <1>4 DEF TypeInv, Rests, Stop, Accept, GetReady, readVars
  <2> QED BY <1>4, <2>1, RestFacts DEF TypeInv, StackInv, FileRecords, Frames
<1> QED BY <1>1, <1>2, <1>3, <1>4

-----------------------------------------------------------------------------
\* Names are told apart, and what a line sources is known.

\* An action that adds no file leaves the names as they are.
LEMMA SameNames ==
  ASSUME TypeInv, StackInv, TakeLine \/ EndFile \/ Rests
  PROVE  /\ program' = program /\ DOMAIN files' = DOMAIN files
         /\ \A f \in DOMAIN files : files'[f].name = files[f].name
         /\ AllRegular' <=> AllRegular
<1>1. /\ program' = program /\ DOMAIN files' = DOMAIN files
      /\ \A f \in DOMAIN files : files'[f].name = files[f].name
  BY EndFacts, RestFacts DEF TakeLine, EndFile
<1> QED BY <1>1 DEF AllRegular, LinesOf

LEMMA NewNames ==
  ASSUME TypeInv, NamesInv, TakeFiles
  PROVE  AllRegular' => AllRegular /\ \A f, g \in DOMAIN files' : files'[f].name = files'[g].name => f = g
<1> SUFFICES ASSUME AllRegular' PROVE AllRegular /\ \A f, g \in DOMAIN files' : files'[f].name = files'[g].name => f = g
  OBVIOUS
<1>1. /\ More /\ Openable /\ Cur.t \in Sourcing /\ program' = program
      /\ File \in DOMAIN files /\ Pos \in DOMAIN LinesOf(File) /\ Cur = LinesOf(File)[Pos]
      /\ Len(files) \in Nat /\ DOMAIN files = 1 .. Len(files)
      /\ Len(Cur.files) \in Nat /\ DOMAIN Cur.files = 1 .. Len(Cur.files)
  BY CurFacts, TopFacts, ElementFacts DEF TakeFiles
<1>2. /\ \A f \in DOMAIN files : f \in DOMAIN files' /\ files'[f] = files[f]
      /\ \A f \in DOMAIN files' \ DOMAIN files :
           f - Len(files) \in DOMAIN Cur.files /\ files'[f].name = Cur.files[f - Len(files)]
      /\ DOMAIN files' \subseteq Nat
  <2>1. \A f \in DOMAIN files' \ DOMAIN files :
          /\ f - Len(files) \in DOMAIN Cur.files
          /\ files'[f] = [name |-> Cur.files[f - Len(files)], state |-> "busy"]
    BY OpenedFiles, Zenon
  <2>2. \A f \in DOMAIN files' \ DOMAIN files : files'[f].name = Cur.files[f - Len(files)]
    BY <2>1
  <2>3. /\ \A f \in DOMAIN files : f \in DOMAIN files' /\ files'[f] = files[f]
        /\ DOMAIN files' = 1 .. Len(files) + Len(Cur.files)
    BY OpenedFiles
  <2>4. DOMAIN files' \subseteq Nat
    BY <1>1, <2>3
  <2> QED BY <2>1, <2>2, <2>3, <2>4
<1>3. AllRegular
  BY <1>1, <1>2 DEF AllRegular, LinesOf
<1>4. \A i \in DOMAIN Cur.files : LookedUp(Cur)[i] = Cur.files[i]
  BY <1>1, <1>3 DEF AllRegular, Regular, LookedUp, Sourcing
<1>5. \A f \in DOMAIN files : files[f].name \in Known
  BY ElementFacts DEF Known, FileRecords
<1>6. /\ \A i \in DOMAIN Cur.files : Cur.files[i] \notin Known
      /\ \A i \in DOMAIN Cur.files : \A j \in 1 .. i - 1 : Cur.files[i] # Cur.files[j]
  BY <1>1, <1>4 DEF Openable
<1>7. \A i, j \in DOMAIN Cur.files : Cur.files[i] = Cur.files[j] => i = j
  <2> SUFFICES ASSUME NEW i \in DOMAIN Cur.files, NEW j \in DOMAIN Cur.files, Cur.files[i] = Cur.files[j], i # j PROVE FALSE
    OBVIOUS
  <2>1. i \in 1 .. j - 1 \/ j \in 1 .. i - 1
    BY <1>1
  <2> QED BY <2>1, <1>6
<1>8. ASSUME NEW f \in DOMAIN files', NEW g \in DOMAIN files', files'[f].name = files'[g].name PROVE f = g
  <2>1. CASE f \in DOMAIN files /\ g \in DOMAIN files
    BY <2>1, <1>2, <1>3, <1>8 DEF NamesInv
  <2>2. CASE f \in DOMAIN files /\ g \notin DOMAIN files
    BY <2>2, <1>2, <1>5, <1>6, <1>8
  <2>3. CASE f \notin DOMAIN files /\ g \in DOMAIN files
    BY <2>3, <1>2, <1>5, <1>6, <1>8
  <2>4. CASE f \notin DOMAIN files /\ g \notin DOMAIN files
    <3>1. f - Len(files) = g - Len(files)
      BY <2>4, <1>2, <1>7, <1>8
    <3>2. f \in Nat /\ g \in Nat
      BY <1>2
    <3> QED BY <1>1, <3>1, <3>2
  <2> QED BY <2>1, <2>2, <2>3, <2>4
<1> QED BY <1>3, <1>8

LEMMA NamesKept ==
  ASSUME TypeInv, StackInv, NamesInv, DoneInv, TakeLine \/ TakeFiles \/ EndFile \/ Rests
  PROVE  NamesInv' /\ DoneInv'
<1>1. CASE TakeLine \/ EndFile \/ Rests
  <2>1. NamesInv'
    BY <1>1, SameNames DEF NamesInv
  <2>2. CASE Accept
    <3>1. stack = <<>> \/ ~AllRegular
      <4>1. CASE More /\ Cur.t = "glob" /\ Cur.files = <<>>
        <5>1. File \in DOMAIN files /\ Pos \in DOMAIN LinesOf(File) /\ ~Regular(LinesOf(File)[Pos])
          BY <4>1, CurFacts, TopFacts DEF Regular
        <5> QED BY <5>1 DEF AllRegular
      <4> QED BY <2>2, <4>1 DEF Accept
    <3> QED BY <2>1, <2>2, <3>1, <1>1, SameNames DEF Accept, DoneInv
  <2>3. CASE ~Accept
    <3>1. phase' \in {"parsed", "ready"} => phase \in {"parsed", "ready"} /\ stack' = stack
      BY <1>1, <2>3 DEF TakeLine, More, EndFile, Rests, Stop, GetReady, readVars
    <3> QED BY <2>1, <1>1, <3>1, SameNames DEF DoneInv
  <2> QED BY <2>1, <2>2, <2>3
<1>2. CASE TakeFiles
  BY <1>2, NewNames DEF NamesInv, DoneInv, TakeFiles, More
<1> QED BY <1>1, <1>2

LEMMA SourcesKept ==
  ASSUME TypeInv, StackInv, SourcesInv, TakeLine \/ TakeFiles \/ EndFile \/ Rests
  PROVE  SourcesInv'
<1>1. CASE TakeLine
  <2>1. ASSUME NEW f \in DOMAIN files PROVE Sourced(f)' = Sourced(f)
    <3>1. /\ More /\ stack' = Advanced /\ UNCHANGED <<program, files>>
          /\ (f = File => LinesOf(f)[Pos].t \notin Sourcing)
      BY <1>1, CurFacts DEF TakeLine, Read
    <3>2. LinesOf(f)' = LinesOf(f) /\ Taken(f)' = Taken(f) \cup (IF f = File THEN {Pos} ELSE {})
      BY <3>1, LineTaken
    <3>3. {j \in Taken(f)' : LinesOf(f)[j].t \in Sourcing} = {j \in Taken(f) : LinesOf(f)[j].t \in Sourcing}
      BY <3>1, <3>2
    <3> QED BY <3>2, <3>3 DEF Sourced
  <2> QED BY <1>1, <2>1 DEF SourcesInv, TakeLine
<1>2. CASE TakeFiles
  <2> SUFFICES ASSUME NEW f \in DOMAIN files', NEW x \in Sourced(f)' PROVE \E g \in DOMAIN files' : files'[g].name = x
    BY DEF SourcesInv
  <2>1. PICK j \in Taken(f)' : LinesOf(f)'[j].t \in Sourcing /\ x \in Range(LinesOf(f)'[j].files)
    BY DEF Sourced
  <2>2. f \in DOMAIN files /\ LinesOf(f)' = LinesOf(f) /\ (j \in Taken(f) \/ (f = File /\ j = Pos))
    BY <1>2, <2>1, FilesTaken
  <2>3. CASE j \in Taken(f)
    <3>1. x \in Sourced(f)
      BY <2>1, <2>2, <2>3 DEF Sourced
    <3>2. PICK g \in DOMAIN files : files[g].name = x
      BY <2>2, <3>1 DEF SourcesInv
    <3> QED BY <1>2, <3>2, OpenedFiles
  <2>4. CASE f = File /\ j = Pos
    <3>1. /\ x \in Range(Cur.files) /\ Len(Cur.files) \in Nat /\ DOMAIN Cur.files = 1 .. Len(Cur.files)
          /\ Len(files) \in Nat /\ DOMAIN files = 1 .. Len(files)
      BY <1>2, <2>1, <2>2, <2>4, CurFacts, ElementFacts DEF TakeFiles
    <3>2. PICK i \in 1 .. Len(Cur.files) : Cur.files[i] = x
      BY <3>1 DEF Range
    <3> DEFINE g == Len(files) + i
    <3>3. DOMAIN files' = 1 .. Len(files) + Len(Cur.files)
      BY <1>2, OpenedFiles
    <3>4. g \in 1 .. Len(files) + Len(Cur.files) /\ g \notin 1 .. Len(files) /\ g - Len(files) = i
      BY <3>1
    <3> HIDE DEF g
    <3>5. g \in DOMAIN files' \ DOMAIN files
      BY <3>1, <3>3, <3>4
    <3>6. files'[g] = [name |-> Cur.files[g - Len(files)], state |-> "busy"]
      BY <1>2, <3>5, OpenedFiles, Zenon
    <3> QED BY <3>2, <3>4, <3>5, <3>6
  <2> QED BY <2>2, <2>3, <2>4
<1>3. CASE EndFile \/ Rests
  <2>1. ASSUME NEW f \in DOMAIN files PROVE Sourced(f)' = Sourced(f)
    <3>1. LinesOf(f)' = LinesOf(f) /\ Taken(f)' = Taken(f)
      BY <1>3, EndTakesNothing, RestTakesNothing
    <3> QED BY <3>1 DEF Sourced
  <2> QED BY <1>3, <2>1, SameNames DEF SourcesInv
<1> QED BY <1>1, <1>2, <1>3

-----------------------------------------------------------------------------
\* One entry for each declaration.

LEMMA EntriesKept ==
  ASSUME TypeInv, StackInv, IsFiniteSet(Declarations), EntriesInv, TakeLine \/ TakeFiles \/ EndFile \/ Rests
  PROVE  IsFiniteSet(Declarations') /\ EntriesInv'
<1>0. program' = program /\ Words' = Words
  BY RestFacts DEF TakeLine, TakeFiles, EndFile, Words
<1>1. CASE TakeLine /\ Cur.t \in Declaring
  <2>1. PICK m : Declarations' = Declarations \cup {[menu |-> m, sym |-> Cur.x, file |-> File]}
    BY <1>1 DEF TakeLine, NewDeclaration
  <2>2. IsFiniteSet(Declarations')
    BY <2>1, FS_AddElement
  <2>3. File \in DOMAIN files /\ files' = files
    BY <1>1, CurFacts, TopFacts DEF TakeLine
  <2>4. Cur.x \in Words
    <3>1. files[File].name \in DOMAIN program /\ Pos \in DOMAIN program[files[File].name] /\ Cur = program[files[File].name][Pos]
      BY <1>1, <2>3, CurFacts, LinesFacts DEF TakeLine, LinesOf
    <3> QED BY <3>1 DEF Words
  <2> QED BY <1>0, <2>1, <2>2, <2>3, <2>4 DEF EntriesInv
<1>2. CASE ~(TakeLine /\ Cur.t \in Declaring)
  <2>1. EndFile => Declarations' = Declarations
    BY DEF EndFile, Declarations
  <2>2. Declarations' = Declarations
    BY <1>2, <2>1, RestFacts DEF TakeLine, TakeFiles, KeepsDeclarations
  <2>3. DOMAIN files \subseteq DOMAIN files'
    BY EndFacts, RestFacts, OpenedFiles DEF TakeLine
  <2> QED BY <1>0, <2>2, <2>3 DEF EntriesInv
<1> QED BY <1>1, <1>2

\* What a file declares changes only where the declaration is taken.
LEMMA DeclaringKept ==
  ASSUME TypeInv, StackInv, TakeLine \/ TakeFiles \/ EndFile \/ Rests, NEW f \in DOMAIN files, NEW s,
         ~(TakeLine /\ f = File /\ Cur.t \in Declaring /\ Cur.x = s)
  PROVE  DeclaringLines(f, s)' = DeclaringLines(f, s)
<1>1. CASE TakeLine \/ TakeFiles
  <2>1. More /\ (f = File => Pos \in DOMAIN LinesOf(f) /\ LinesOf(f)[Pos] = Cur)
    BY <1>1, CurFacts DEF TakeLine, TakeFiles
  <2>2. f \in DOMAIN files' /\ LinesOf(f)' = LinesOf(f) /\ Taken(f)' = Taken(f) \cup (IF f = File THEN {Pos} ELSE {})
    BY <1>1, LineTaken, FilesTaken, OpenedFiles DEF TakeLine, Read
  <2>3. f = File => ~(Cur.t \in Declaring /\ Cur.x = s)
    BY <1>1 DEF TakeFiles, Sourcing, Declaring
  <2> QED BY <2>1, <2>2, <2>3 DEF DeclaringLines
<1>2. CASE EndFile \/ Rests
  <2>1. LinesOf(f)' = LinesOf(f) /\ Taken(f)' = Taken(f)
    BY <1>2, EndTakesNothing, RestTakesNothing
  <2> QED BY <2>1 DEF DeclaringLines
<1> QED BY <1>1, <1>2

LEMMA CountsKept ==
  ASSUME TypeInv, StackInv, IsFiniteSet(Declarations), EntriesInv, CountInv, TakeLine \/ TakeFiles \/ EndFile \/ Rests
  PROVE  CountInv'
<1>0. Words' = Words
  BY RestFacts DEF TakeLine, TakeFiles, EndFile, Words
<1> SUFFICES ASSUME NEW f \in DOMAIN files', NEW s \in Words
             PROVE  Cardinality(EntriesFor(f, s))' = Cardinality(DeclaringLines(f, s))'
  BY <1>0 DEF CountInv
<1>1. CASE TakeLine /\ f = File /\ Cur.t \in Declaring /\ Cur.x = s
  <2>1. PICK m : /\ \A d \in Declarations : d.menu # m
                 /\ Declarations' = Declarations \cup {[menu |-> m, sym |-> Cur.x, file |-> File]}
    BY <1>1 DEF TakeLine, NewDeclaration
  <2> DEFINE new == [menu |-> m, sym |-> Cur.x, file |-> File]
  <2>2. EntriesFor(f, s)' = EntriesFor(f, s) \cup {new} /\ new \notin EntriesFor(f, s)
    BY <1>1, <2>1 DEF EntriesFor
  <2>3. IsFiniteSet(EntriesFor(f, s))
    BY FS_Subset DEF EntriesFor
  <2>4. f \in DOMAIN files /\ Pos \in DOMAIN LinesOf(f) /\ LinesOf(f)[Pos] = Cur
    BY <1>1, CurFacts, TopFacts DEF TakeLine
  <2>5. LinesOf(f)' = LinesOf(f) /\ Taken(f)' = Taken(f) \cup {Pos} /\ Pos \notin Taken(f)
    BY <1>1, <2>4, LineTaken DEF TakeLine, Read
  <2>6. DeclaringLines(f, s)' = DeclaringLines(f, s) \cup {Pos} /\ Pos \notin DeclaringLines(f, s)
    BY <1>1, <2>4, <2>5 DEF DeclaringLines
  <2>7. IsFiniteSet(DeclaringLines(f, s))
    <3>1. IsFiniteSet(1 .. Len(LinesOf(f))) /\ DeclaringLines(f, s) \subseteq 1 .. Len(LinesOf(f))
      BY <2>4, LinesFacts, Interval DEF DeclaringLines, Taken
    <3> QED BY <3>1, FS_Subset
  <2>8. Cardinality(EntriesFor(f, s)) = Cardinality(DeclaringLines(f, s))
    BY <2>4 DEF CountInv
  <2> HIDE DEF new
  <2>9. Cardinality(EntriesFor(f, s) \cup {new}) = Cardinality(EntriesFor(f, s)) + 1
    BY <2>2, <2>3, FS_AddElement
  <2>10. Cardinality(DeclaringLines(f, s) \cup {Pos}) = Cardinality(DeclaringLines(f, s)) + 1
    BY <2>6, <2>7, FS_AddElement
  <2>11. /\ Cardinality(EntriesFor(f, s))' = Cardinality(EntriesFor(f, s) \cup {new})
         /\ Cardinality(DeclaringLines(f, s))' = Cardinality(DeclaringLines(f, s) \cup {Pos})
    BY <2>2, <2>6
  <2> QED BY <2>8, <2>9, <2>10, <2>11
<1>2. CASE ~(TakeLine /\ f = File /\ Cur.t \in Declaring /\ Cur.x = s)
  <2>1. f \in DOMAIN files => EntriesFor(f, s)' = EntriesFor(f, s) /\ DeclaringLines(f, s)' = DeclaringLines(f, s)
    <3>1. EntriesFor(f, s)' = EntriesFor(f, s)
      <4>1. CASE TakeLine /\ Cur.t \in Declaring
        BY <1>2, <4>1 DEF TakeLine, NewDeclaration, EntriesFor
      <4>2. CASE ~(TakeLine /\ Cur.t \in Declaring)
        <5>1. EndFile => Declarations' = Declarations
          BY DEF EndFile, Declarations
        <5>2. Declarations' = Declarations
          BY <4>2, <5>1, RestFacts DEF TakeLine, TakeFiles, KeepsDeclarations
        <5> QED BY <5>2 DEF EntriesFor
      <4> QED BY <4>1, <4>2
    <3> QED BY <1>2, <3>1, DeclaringKept
  <2>2. CASE f \in DOMAIN files
    BY <2>1, <2>2 DEF CountInv
  <2>3. CASE f \notin DOMAIN files
    <3>1. TakeFiles
      BY <2>3, EndFacts, RestFacts DEF TakeLine
    <3>2. Declarations' = Declarations
      BY <3>1 DEF TakeFiles, KeepsDeclarations
    <3>3. EntriesFor(f, s)' = {}
      BY <2>3, <3>2 DEF EntriesFor, EntriesInv
    <3>4. DeclaringLines(f, s)' = {}
      BY <2>3, <3>1, FilesTaken DEF DeclaringLines
    <3> QED BY <3>3, <3>4
  <2> QED BY <2>2, <2>3
<1> QED BY <1>1, <1>2

-----------------------------------------------------------------------------
LEMMA ReadInvInit == ReadInit => ReadInv
<1> SUFFICES ASSUME ReadInit PROVE ReadInv
  OBVIOUS
<1>1. IsProgram(program)
  BY DEF ReadInit
<1>2. files \in Seq(FileRecords) /\ DOMAIN files = {1} /\ files[1].name = Root
  BY <1>1 DEF ReadInit, FileRecords, IsProgram
<1>3. stack \in Seq(Frames) /\ DOMAIN stack = {1} /\ stack[1] = [file |-> 1, pos |-> 1]
  BY <1>2 DEF ReadInit, Frames
<1>4. TypeInv
  BY <1>1, <1>2, <1>3 DEF ReadInit, TypeInv
<1>5. Taken(1) = {}
  <2>1. DOMAIN LinesOf(1) \subseteq Nat \ {0}
    BY <1>2, <1>4, LinesFromOne
  <2> QED BY <1>3, <2>1 DEF Taken, Ahead
<1>6. StackInv /\ NamesInv /\ DoneInv
  BY <1>2, <1>3 DEF ReadInit, StackInv, NamesInv, DoneInv
<1>7. SourcesInv
  BY <1>2, <1>5 DEF SourcesInv, Sourced
<1>8. IsFiniteSet(Declarations) /\ EntriesInv
  BY FS_EmptySet DEF ReadInit, EntriesInv
<1>9. CountInv
  <2>1. \A s : EntriesFor(1, s) = {} /\ DeclaringLines(1, s) = {}
    BY <1>5 DEF ReadInit, EntriesFor, DeclaringLines
  <2> QED BY <1>2, <2>1 DEF CountInv
<1> QED BY <1>4, <1>6, <1>7, <1>8, <1>9 DEF ReadInv

LEMMA ReadInvKept == ReadInv /\ [ReadNext]_readVars => ReadInv'
<1> SUFFICES ASSUME ReadInv, TakeLine \/ TakeFiles \/ EndFile \/ Rests PROVE ReadInv'
  BY DEF ReadNext, Rests
<1>1. TypeInv /\ StackInv /\ NamesInv /\ DoneInv /\ SourcesInv /\ IsFiniteSet(Declarations) /\ EntriesInv /\ CountInv
  BY DEF ReadInv
<1>2. TypeInv' /\ StackInv'
  BY <1>1, StackKept
<1>3. NamesInv' /\ DoneInv'
  BY <1>1, NamesKept
<1>4. SourcesInv'
  BY <1>1, SourcesKept
<1>5. IsFiniteSet(Declarations') /\ EntriesInv'
  BY <1>1, EntriesKept
<1>6. CountInv'
  BY <1>1, CountsKept
<1> QED BY <1>2, <1>3, <1>4, <1>5, <1>6 DEF ReadInv

\* The inductive invariant of reading the Kconfig files.
THEOREM ReadInvariance == ReadSpec => []ReadInv
<1> QED BY ReadInvInit, ReadInvKept, PTL DEF ReadSpec

\* Every declaration that was read has its entry, every file that was sourced
\* is there, and no file is read twice when all is accepted.
THEOREM ReadOnce == ReadSpec => []DeclarationsOnce
<1>1. ReadInv => DeclarationsOnce
  BY DEF ReadInv, EntriesInv, CountInv, SourcesInv, NamesInv, DoneInv, DeclarationsOnce
<1> QED BY ReadInvariance, <1>1, PTL
=============================================================================
