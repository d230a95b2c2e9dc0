------------------------- MODULE ConfigEditingProofs -------------------------
(* Proofs about ConfigEditing and the store it works on, for all names,       *)
(* values, meanings of files and contents of auto.conf.  First the store by   *)
(* itself: StoreInv says what the temporary files hold while the three files  *)
(* of the build are replaced, and that whatever differs from the last build   *)
(* has been touched at any time, not only when make looks.  Then the          *)
(* programs: what is on the way to a file is what the program has in memory,  *)
(* and what is on the way to auto.conf is what .config says, until the last   *)
(* rename makes it so for all to see.  With that they implement the three     *)
(* specifications they are made of: the store of ConfigStore, the reader of   *)
(* KconfigReader and the tree of MenuTree.                                    *)
EXTENDS ConfigEditing, KconfigReaderProofs, MenuTreeProofs

-----------------------------------------------------------------------------
(* The store. *)

\* What differs between the ends differs in one of two steps.
LEMMA DifferingTriangle ==
  ASSUME NEW a, NEW b, NEW d
  PROVE  Differing(a, d) \subseteq Differing(a, b) \cup Differing(b, d)
  BY DEF Differing

LEMMA DifferingSame == ASSUME NEW a PROVE Differing(a, a) = {}
  BY DEF Differing

LEMMA StoreInvInit == StoreInit => StoreInv
  BY DifferingSame, ConfigAssumption DEF StoreInit, StoreInv, OneConfiguration, Updating

\* Configurations are written while nothing is updated.
LEMMA WritingKeepsInv ==
  ASSUME StoreInv,
         \/ \E f \in Names : text' # NoFile /\ (BeginWrite(f, text') \/ BeginDirect(f, text'))
         \/ RenameOld \/ RenameNew \/ EndDirect
  PROVE  StoreInv'
<1>1. CASE \E f \in Names : text' # NoFile /\ BeginWrite(f, text')
  BY <1>1 DEF StoreInv, OneConfiguration, Updating, BeginWrite, buildVars, Differing
<1>2. CASE \E f \in Names : BeginDirect(f, text')
  BY <1>2 DEF StoreInv, OneConfiguration, Updating, BeginDirect, buildVars, Differing
<1>3. CASE RenameOld
  BY <1>3 DEF StoreInv, OneConfiguration, Updating, RenameOld, buildVars, Differing
<1>4. CASE RenameNew
  BY <1>4 DEF StoreInv, OneConfiguration, Updating, RenameNew, buildVars, Differing
<1>5. CASE EndDirect
  BY <1>5 DEF StoreInv, OneConfiguration, Updating, EndDirect, buildVars, Differing
<1> QED BY <1>1, <1>2, <1>3, <1>4, <1>5

\* The update of the build's files, and its end at any point.
LEMMA UpdatingKeepsInv ==
  ASSUME StoreInv,
         UpdateAuto \/ RenameHeader \/ RenameTristate \/ RenameAuto \/ StopStore \/ Build
  PROVE  StoreInv'
<1>1. CASE UpdateAuto
  BY <1>1 DEF StoreInv, OneConfiguration, Updating, UpdateAuto, BeginAuto, Differing
<1>2. CASE RenameHeader
  BY <1>2 DEF StoreInv, OneConfiguration, Updating, RenameHeader, Differing
<1>3. CASE RenameTristate
  BY <1>3 DEF StoreInv, OneConfiguration, Updating, RenameTristate, Differing
<1>4. CASE RenameAuto
  <2>1. Differing(built, pairs) \subseteq touched
    BY <1>4, DifferingTriangle DEF StoreInv, OneConfiguration, Updating, RenameAuto
  <2>2. header = pairs /\ tristate = pairs
    BY <1>4 DEF StoreInv, RenameAuto
  <2> QED BY <1>4, <2>1, <2>2 DEF StoreInv, OneConfiguration, Updating, RenameAuto
<1>5. CASE StopStore
  BY <1>5 DEF StoreInv, OneConfiguration, Updating, StopStore, buildVars, Differing
<1>6. CASE Build
  <2>1. Differing(header, auto) = {}
    BY <1>6, DifferingSame DEF StoreInv, OneConfiguration, Build
  <2> QED BY <1>6, <2>1 DEF StoreInv, OneConfiguration, Updating, Build
<1> QED BY <1>1, <1>2, <1>3, <1>4, <1>5, <1>6

\* The inductive invariant of all writers of configurations.
THEOREM StoreInvariance == StoreSpec => []StoreInv
<1>1. StoreInv /\ [StoreNext]_storeVars => StoreInv'
  <2> SUFFICES ASSUME StoreInv, [StoreNext]_storeVars PROVE StoreInv'
    OBVIOUS
  <2>1. CASE StoreNext
    BY <2>1, WritingKeepsInv, UpdatingKeepsInv DEF StoreNext
  <2>2. CASE UNCHANGED storeVars
    BY <2>2 DEF storeVars, StoreInv, OneConfiguration, Updating, Differing
  <2> QED BY <2>1, <2>2
<1> QED BY StoreInvInit, <1>1, PTL DEF StoreSpec

\* The files the build reads are of one configuration whenever make takes
\* auto.conf for up to date.
THEOREM BuildReadsOneConfiguration == StoreSpec => []OneConfiguration
<1>1. StoreInv => OneConfiguration
  BY DEF StoreInv
<1> QED BY StoreInvariance, <1>1, PTL

\* The build misses no changed symbol, whatever happened since the last one.
THEOREM BuildMissesNothing == StoreSpec => []NothingMissed
<1>1. StoreInv => NothingMissed
  BY DEF StoreInv, OneConfiguration, NothingMissed
<1> QED BY StoreInvariance, <1>1, PTL

\* No process that ends early destroys the configuration there is.
THEOREM ConfigurationSurvives == StoreSpec => AtomicSave
<1> DEFINE Kept == Current' # Current => step = "new" /\ target = Config /\ Current' = text
<1>1. ASSUME StoreInv, [StoreNext]_storeVars PROVE [Kept]_storeVars
  <2> SUFFICES ASSUME StoreNext PROVE Kept
    BY <1>1
  <2>1. CASE \E f \in Names : BeginWrite(f, text') \/ BeginDirect(f, text')
    BY <2>1, <1>1, ConfigAssumption DEF Current, BeginWrite, BeginDirect, StoreInv, buildVars
  <2>2. CASE RenameOld
    BY <2>2, <1>1, ConfigAssumption DEF Current, RenameOld, StoreInv, buildVars
  <2>3. CASE RenameNew
    BY <2>3, <1>1, ConfigAssumption DEF Current, RenameNew, StoreInv, buildVars
  <2>4. CASE EndDirect
    BY <2>4, <1>1, ConfigAssumption DEF Current, EndDirect, StoreInv, buildVars
  <2>5. CASE UpdateAuto \/ StopStore \/ Build
    BY <2>5 DEF Current, UpdateAuto, BeginAuto, StopStore, Build, buildVars
  <2>6. CASE RenameHeader \/ RenameTristate \/ RenameAuto
    BY <2>6 DEF Current, RenameHeader, RenameTristate, RenameAuto
  <2> QED BY <2>1, <2>2, <2>3, <2>4, <2>5, <2>6 DEF StoreNext
<1> QED BY StoreInvariance, <1>1, PTL DEF StoreSpec, AtomicSave

-----------------------------------------------------------------------------
(* The programs. *)

LEMMA ProgramNames == /\ "none" \notin Editors /\ "conf" \notin Editors
  BY DEF Editors, TextUIs, WindowUIs

-----------------------------------------------------------------------------
\* Every step is one of the store's, or leaves it alone: what silentoldconfig
\* makes again while auto.conf is up to date is the same, as .config is.
LEMMA StepOfStore == EditInv /\ [EditNext]_allEditVars => [StoreNext]_storeVars
<1> SUFFICES ASSUME EditInv, EditNext PROVE StoreNext \/ UNCHANGED storeVars
  BY DEF allEditVars
<1>1. CASE ReadNext /\ TreeNext /\ UNCHANGED <<storeVars, editVars>>
  BY <1>1
<1>2. CASE StartEditor \/ EditValues \/ \E f \in Names : LoadFile(f)
  BY <1>2 DEF StartEditor, EditValues, LoadFile
<1>3. CASE ConfWrites \/ \E f \in Names : EditorWrites(f)
  BY <1>3 DEF ConfWrites, EditorWrites, StoreNext
<1>4. CASE ConfUpdates
  <2>1. ~stale => pairs' = auto
    BY <1>4 DEF ConfUpdates, EditInv, BuildSeesConfig
  <2> QED BY <1>4, <2>1 DEF ConfUpdates, UpdateAuto, StoreNext
<1>5. CASE WriteOn \/ SaveEnds \/ SaveStops \/ Ends \/ Builds
  BY <1>5 DEF WriteOn, SaveEnds, SaveStops, Ends, Builds, StoreNext
<1> QED BY <1>1, <1>2, <1>3, <1>4, <1>5 DEF EditNext, EditStep

LEMMA StoreInvKept == EditInv /\ [EditNext]_allEditVars => StoreInv'
<1> SUFFICES ASSUME EditInv, [EditNext]_allEditVars PROVE StoreInv'
  OBVIOUS
<1>1. [StoreNext]_storeVars
  BY StepOfStore
<1>2. CASE StoreNext
  BY <1>2, WritingKeepsInv, UpdatingKeepsInv DEF StoreNext, EditInv
<1>3. CASE UNCHANGED storeVars
  BY <1>3 DEF EditInv, storeVars, StoreInv, OneConfiguration, Updating, Differing
<1> QED BY <1>1, <1>2, <1>3

-----------------------------------------------------------------------------
LEMMA EditInvInit == EditInit => EditInv
  BY StoreInvInit, ProgramNames
  DEF EditInit, EditInv, StoreInit, ReadInit, Updating, NothingLostSilently, BuildSeesConfig, Idle

\* Reading the Kconfig files, before any program runs.
LEMMA ReadingKeepsEditInv ==
  ASSUME EditInv, StoreInv', ReadNext, UNCHANGED <<storeVars, editVars>>
  PROVE  EditInv'
<1>1. phase # "ready"
  BY DEF ReadNext, TakeLine, TakeFiles, More, EndFile, Stop, Accept, GetReady
<1>2. stale /\ ui = "none" /\ step = "idle"
  BY <1>1 DEF EditInv
<1>3. stale' /\ ui' = "none" /\ step' = "idle" /\ source' = source /\ lost' = lost
  BY <1>2 DEF storeVars, editVars
<1> QED BY <1>3, ProgramNames DEF EditInv, Updating, NothingLostSilently, BuildSeesConfig, Idle

\* Reading and changing values leaves the files alone.
LEMMA EditingKeepsEditInv ==
  ASSUME EditInv, StoreInv', phase = "ready", UNCHANGED readVars,
         StartEditor \/ EditValues \/ \E f \in Names : LoadFile(f)
  PROVE  EditInv'
<1>1. UNCHANGED storeVars /\ step = "idle" /\ ui' \in Editors
  BY DEF StartEditor, EditValues, LoadFile, Idle
<1>2. /\ now' = now /\ step' = "idle" /\ auto' = auto /\ stale' = stale /\ phase' = "ready" /\ k' = k
  BY <1>1 DEF storeVars, readVars
<1>3. source' \in Names \cup {NoFile} /\ lost' \in BOOLEAN
  BY ConfigAssumption DEF StartEditor, EditValues, LoadFile, EditFile, EditInv
<1>4. NothingLostSilently'
  <2>1. CASE EditValues
    BY <2>1, <1>2 DEF EditValues, EditInv, NothingLostSilently, Idle
  <2>2. ASSUME NEW f \in Names, EditFile(f) PROVE NothingLostSilently'
    BY <2>2, <1>2, ConfigAssumption DEF EditFile, Counted, NothingLostSilently
  <2>3. CASE StartEditor
    BY <2>2, <2>3, ConfigAssumption DEF StartEditor, NothingLostSilently
  <2>4. CASE \E f \in Names : LoadFile(f)
    \* A file that is not there: nothing has changed, or the mark is lost.
    <3>1. PICK f \in Names : LoadFile(f)
      BY <2>4
    <3>2. CASE now[f] # NoFile
      BY <2>2, <3>1, <3>2 DEF LoadFile
    <3>3. CASE now[f] = NoFile
      <4>1. ~lost' => ~c.changed /\ ~lost /\ source' = source /\ Values(k, c') = Values(k, c)
        BY <3>1, <3>3 DEF LoadFile, EditInv
      <4> QED BY <1>2, <3>1, <4>1 DEF LoadFile, EditInv, NothingLostSilently, Idle
    <3> QED BY <3>2, <3>3
  <2> QED BY <2>1, <2>3, <2>4
<1> QED BY <1>1, <1>2, <1>3, <1>4, ProgramNames DEF EditInv, BuildSeesConfig, Updating

\* A write begins, or the update of the build's files.
LEMMA BeginningKeepsEditInv ==
  ASSUME EditInv, StoreInv', phase = "ready", UNCHANGED readVars,
         ConfWrites \/ ConfUpdates \/ \E f \in Names : EditorWrites(f)
  PROVE  EditInv'
<1>0. phase' = "ready" /\ k' = k /\ source' \in Names \cup {NoFile} /\ lost' \in BOOLEAN
  BY DEF readVars, ConfWrites, ConfUpdates, EditorWrites, EditInv
<1>1. CASE ConfUpdates
  <2>1. /\ now' = now /\ auto' = auto /\ stale' = stale /\ step' = "header" /\ ui' = "conf"
        /\ now[Config] # NoFile /\ pairs' = Told(k, now[Config])
    BY <1>1 DEF ConfUpdates, BeginAuto, Idle
  <2> QED BY <1>0, <2>1, ProgramNames DEF EditInv, NothingLostSilently, BuildSeesConfig, Idle, Updating
<1>2. CASE ConfWrites
  <2>1. /\ ui' = "conf" /\ step' \in {"idle", "old", "direct"} /\ auto' = auto /\ stale' = stale
        /\ now'[Config] = now[Config]
    BY <1>2, ConfigAssumption DEF ConfWrites, BeginWrite, BeginDirect, buildVars, storeVars, Idle, EditInv, StoreInv
  <2> QED BY <1>0, <2>1, ProgramNames DEF EditInv, NothingLostSilently, BuildSeesConfig, Idle, Updating
<1>3. CASE \E f \in Names : EditorWrites(f)
  <2>1. /\ ui' \in Editors /\ step' = "old" /\ auto' = auto /\ stale' = stale /\ now' = now
        /\ failed' \/ Values(k, c') = Meaning(k, text')
    BY <1>3 DEF EditorWrites, BeginWrite, buildVars, Idle
  <2> QED BY <1>0, <2>1, ProgramNames DEF EditInv, NothingLostSilently, BuildSeesConfig, Idle, Updating
<1> QED BY <1>1, <1>2, <1>3

\* The renames, those that fail, and the end of a program.
LEMMA RenamingKeepsEditInv ==
  ASSUME EditInv, StoreInv', phase = "ready", UNCHANGED readVars,
         WriteOn \/ SaveEnds \/ SaveStops \/ Ends \/ Builds
  PROVE  EditInv'
<1>0. phase' = "ready" /\ k' = k
  BY DEF readVars
<1>1. CASE WriteOn
  <2>1. CASE RenameOld
    <3>1. /\ step = "old" /\ step' = "new" /\ auto' = auto /\ stale' = stale /\ text' = text /\ target' = target
          /\ now' = [now EXCEPT ![target] = NoFile] /\ UNCHANGED editVars
      BY <1>1, <2>1 DEF WriteOn, RenameOld, buildVars
    <3>2. now'[Config] # NoFile => now[Config] = now'[Config]
      BY <3>1, ConfigAssumption DEF EditInv, StoreInv
    <3> QED BY <1>0, <3>1, <3>2 DEF EditInv, NothingLostSilently, BuildSeesConfig, Idle, Updating, editVars
  <2>2. CASE RenameHeader \/ RenameTristate
    BY <1>0, <1>1, <2>2, ProgramNames
    DEF WriteOn, RenameHeader, RenameTristate, EditInv, NothingLostSilently, BuildSeesConfig, Idle, Updating, editVars
  <2> QED BY <1>1, <2>1, <2>2 DEF WriteOn
<1>2. CASE SaveEnds
  <2>1. /\ step = "new" /\ step' = "idle" /\ auto' = auto /\ text' = text /\ target \in Names
        /\ now' = [now EXCEPT ![target] = text] /\ DOMAIN now = Names
        /\ stale' = (stale \/ target = Config)
    BY <1>2 DEF SaveEnds, RenameNew, buildVars, EditInv, StoreInv
  <2>2. BuildSeesConfig'
    <3>1. ~stale' => ~stale /\ now'[Config] = now[Config]
      BY <2>1, ConfigAssumption
    <3> QED BY <1>0, <2>1, <3>1 DEF BuildSeesConfig, EditInv
  <2>3. now'[target] = text
    BY <2>1
  <2>4. CASE Gone
    BY <1>0, <2>1, <2>2, <2>4, ProgramNames DEF Gone, EditInv, NothingLostSilently, Idle, Updating
  <2>5. CASE ui = "conf" /\ UNCHANGED <<ui, source, failed, lost>>
    BY <1>0, <2>1, <2>2, <2>5, ProgramNames DEF EditInv, NothingLostSilently, Idle, Updating
  <2>6. CASE ui \in Editors /\ source' = target /\ lost' = FALSE /\ UNCHANGED <<ui, failed>>
              /\ Values(k, c') = Values(k, c)
    <3>0. source' # NoFile
      BY <2>1, <2>6, ConfigAssumption
    <3>1. ~failed' => Values(k, c') = Meaning(k, now'[source'])
      BY <2>1, <2>3, <2>6 DEF EditInv
    <3> QED BY <1>0, <2>1, <2>2, <2>6, <3>0, <3>1, ProgramNames DEF EditInv, NothingLostSilently, Idle, Updating
  <2> QED BY <1>2, <2>4, <2>5, <2>6 DEF SaveEnds
<1>3. CASE SaveStops
  <2>1. step' = "idle" /\ UNCHANGED <<now, auto, stale, ui, source, lost>> /\ failed'
    BY <1>3 DEF SaveStops, StopStore, buildVars
  <2> QED BY <1>0, <2>1 DEF EditInv, NothingLostSilently, BuildSeesConfig, Idle, Updating
<1>4. CASE Ends
  <2>1. ui' = "none" /\ source' = NoFile /\ lost' = FALSE
    BY <1>4 DEF Ends, Gone
  <2>2. step' = "idle" /\ BuildSeesConfig'
    <3>1. CASE EndDirect
      <4>1. step' = "idle" /\ auto' = auto /\ stale' = stale /\ now'[Config] = now[Config]
        BY <3>1, ConfigAssumption DEF EndDirect, buildVars, EditInv, StoreInv
      <4> QED BY <1>0, <4>1 DEF EditInv, BuildSeesConfig
    <3>2. CASE RenameAuto
      BY <1>0, <3>2 DEF RenameAuto, EditInv, BuildSeesConfig, Updating
    <3>3. CASE StopStore
      BY <1>0, <3>3 DEF StopStore, buildVars, EditInv, BuildSeesConfig
    <3>4. CASE step = "idle" /\ UNCHANGED storeVars
      BY <1>0, <3>4 DEF storeVars, EditInv, BuildSeesConfig
    <3> QED BY <1>4, <3>1, <3>2, <3>3, <3>4 DEF Ends
  <2> QED BY <1>0, <2>1, <2>2, ProgramNames DEF EditInv, NothingLostSilently, Idle, Updating
<1>5. CASE Builds
  <2>1. UNCHANGED <<now, auto, stale, step, ui, source, lost>> /\ step = "idle" /\ ui = "none"
    BY <1>5 DEF Builds, Build, editVars
  <2> QED BY <1>0, <2>1, ProgramNames DEF EditInv, NothingLostSilently, BuildSeesConfig, Idle, Updating
<1> QED BY <1>1, <1>2, <1>3, <1>4, <1>5

LEMMA EditInvKept == EditInv /\ [EditNext]_allEditVars => EditInv'
<1> SUFFICES ASSUME EditInv, [EditNext]_allEditVars PROVE EditInv'
  OBVIOUS
<1>0. StoreInv'
  BY StoreInvKept
<1>1. CASE ReadNext /\ TreeNext /\ UNCHANGED <<storeVars, editVars>>
  BY <1>0, <1>1, ReadingKeepsEditInv
<1>2. CASE phase = "ready" /\ EditStep /\ UNCHANGED <<readVars, calls>>
  BY <1>0, <1>2, EditingKeepsEditInv, BeginningKeepsEditInv, RenamingKeepsEditInv DEF EditStep
<1>3. CASE UNCHANGED allEditVars
  BY <1>0, <1>3 DEF allEditVars, readVars, storeVars, editVars,
     EditInv, NothingLostSilently, BuildSeesConfig, Idle, Updating
<1> QED BY <1>1, <1>2, <1>3 DEF EditNext

-----------------------------------------------------------------------------
\* The inductive invariant of the programs and the files they share.
THEOREM EditInvariance == EditSpec => []EditInv
<1> QED BY EditInvInit, EditInvKept, PTL DEF EditSpec

\* An editor that would exit without a question has what its file says.
THEOREM NothingIsLostSilently == EditSpec => []NothingLostSilently
<1>1. EditInv => NothingLostSilently
  BY DEF EditInv
<1> QED BY EditInvariance, <1>1, PTL

\* What the build includes is what .config says.
THEOREM BuildIsToldConfig == EditSpec => []BuildSeesConfig
<1>1. EditInv => BuildSeesConfig
  BY DEF EditInv
<1> QED BY EditInvariance, <1>1, PTL

\* The programs keep the promises that ConfigStore makes for them ...
THEOREM ProgramsImplementStore == EditSpec => StoreSpec
<1>1. EditInit => StoreInit
  BY DEF EditInit
<1> QED BY <1>1, EditInvariance, StepOfStore, PTL DEF EditSpec, StoreSpec

\* ... read the Kconfig files as KconfigReader says ...
THEOREM ProgramsImplementReader == EditSpec => ReadSpec
<1>1. EditInit => ReadInit
  BY DEF EditInit
<1>2. [EditNext]_allEditVars => [ReadNext]_readVars
  BY DEF EditNext, allEditVars
<1> QED BY <1>1, <1>2, PTL DEF EditSpec, ReadSpec

\* ... and rebuild the menu tree as MenuTree says.
THEOREM ProgramsImplementTree == EditSpec => TreeSpec
<1>1. EditInit => TreeInit
  BY DEF EditInit
<1>2. [EditNext]_allEditVars => [TreeNext]_treeVars
  BY DEF EditNext, allEditVars, readVars, treeVars
<1> QED BY <1>1, <1>2, PTL DEF EditSpec, TreeSpec

\* So all three invariants hold together, whoever reads, edits, writes, builds
\* or is killed.
THEOREM SessionInvariance == EditSpec => []SessionInv
<1>1. ReadInv /\ TreeInv /\ EditInv => SessionInv
  BY DEF SessionInv
<1> QED BY <1>1, ProgramsImplementReader, ReadInvariance, ProgramsImplementTree, TreeInvariance, EditInvariance, PTL
=============================================================================
