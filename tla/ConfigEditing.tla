---------------------------- MODULE ConfigEditing ----------------------------
(* What the programs of kconfig owe their user and the build, whatever they   *)
(* show and however values are calculated: an editor (mconf, nconf, gconf or  *)
(* qconf) counts as changed unless its values are those of the file it has    *)
(* read or written, and what it writes reads back as its values; conf makes   *)
(* the build's files from the .config that is there.  ConfigSession has the   *)
(* programs in full.                                                          *)
EXTENDS ConfigStore, MenuTree

CONSTANTS
  Values(_, _),   \* of k and a program's data: the values of all symbols
  Meaning(_, _),  \* of k and the lines of a file: the values that they give
  Told(_, _)      \* of k and the lines of .config: what the build is told

VARIABLES
  ui,          \* the program that runs, or none
  c,           \* its data: values, and whether they count as changed
  source,      \* the file that was read or written last
  failed,      \* a rename has failed
  lost         \* the mark of unsaved changes was taken back for a file that is not there

editVars == <<ui, c, source, failed, lost>>

TextUIs == {"mconf", "nconf"}
WindowUIs == {"gconf", "qconf"}
Editors == TextUIs \cup WindowUIs
Idle(uis) == ui \in uis /\ step = "idle"

EditInit ==
  /\ ReadInit /\ TreeInit /\ StoreInit
  /\ ui = "none" /\ source = NoFile /\ failed = FALSE /\ lost = FALSE

\* The program has ended.
Gone == ui' = "none" /\ source' = NoFile /\ failed' = FALSE /\ lost' = FALSE

\* The values are those of lines, or count as changed.
Counted(lines) == c'.changed \/ Values(k, c') = Meaning(k, lines)

-----------------------------------------------------------------------------
\* An editor reads a file.
EditFile(f) == source' = f /\ Counted(now[f]) /\ lost' = FALSE

\* Without .config it starts with values that no file has.
StartEditor ==
  /\ Idle({"none"}) /\ ui' \in Editors /\ UNCHANGED <<failed, storeVars>>
  /\ IF now[Config] # NoFile THEN EditFile(Config)
     ELSE c'.changed /\ UNCHANGED <<source, lost>>

\* Told to load a file that is not there, it keeps its values, but counts them
\* as unchanged from then on.
LoadFile(f) ==
  /\ Idle(Editors) /\ UNCHANGED <<ui, failed, storeVars>>
  /\ IF now[f] # NoFile THEN EditFile(f)
     ELSE /\ ~c'.changed /\ Values(k, c') = Values(k, c)
          /\ lost' = (lost \/ c.changed)
          /\ UNCHANGED source

\* Once the mark is lost, values that were never calculated can still change.
EditValues ==
  /\ Idle(Editors) /\ UNCHANGED <<ui, source, failed, lost, storeVars>>
  /\ c'.changed \/ (~c.changed /\ (lost \/ Values(k, c') = Values(k, c)))

\* conf_write, for an editor and for conf.  After a rename that failed the next
\* attempt finds nothing to write.
EditorWrites(f) ==
  /\ Idle(Editors) /\ UNCHANGED <<ui, source, failed, lost>>
  /\ BeginWrite(f, text') /\ text' # NoFile
  /\ failed \/ Values(k, c') = Meaning(k, text')

ConfWrites ==
  /\ Idle({"none"}) /\ ui' = "conf"
  /\ \/ UNCHANGED storeVars
     \/ \E f \in Names : text' # NoFile /\ (BeginWrite(f, text') \/ BeginDirect(f, text'))
  /\ UNCHANGED <<source, failed, lost>>

ConfUpdates ==
  /\ Idle({"conf"})
  /\ now[Config] # NoFile
  /\ BeginAuto(pairs', touched')
  /\ pairs' = Told(k, now[Config])
  /\ Differing(auto, pairs') \subseteq touched'
  /\ UNCHANGED <<ui, source, failed, lost>>

\* The renames.  An editor goes on with the file it has written; one that
\* fails does not end it.
WriteOn == (RenameOld \/ RenameHeader \/ RenameTristate) /\ UNCHANGED editVars
SaveEnds ==
  /\ RenameNew
  /\ \/ Gone
     \/ ui = "conf" /\ UNCHANGED <<ui, source, failed, lost>>
     \/ /\ ui \in Editors /\ source' = target /\ lost' = FALSE /\ UNCHANGED <<ui, failed>>
        /\ Values(k, c') = Values(k, c)
SaveStops ==
  /\ step = "new" /\ StopStore
  /\ failed' = TRUE /\ UNCHANGED <<ui, c, source, lost>>

\* A program ends, is killed or fails.
Ends ==
  /\ ui # "none" /\ Gone
  /\ EndDirect \/ RenameAuto \/ StopStore \/ (step = "idle" /\ UNCHANGED storeVars)
Builds == ui = "none" /\ Build /\ UNCHANGED editVars

EditStep ==
  \/ StartEditor \/ EditValues \/ ConfWrites \/ ConfUpdates
  \/ \E f \in Names : LoadFile(f) \/ EditorWrites(f)
  \/ WriteOn \/ SaveEnds \/ SaveStops \/ Ends \/ Builds

\* No program runs before the Kconfig files have been read.
EditNext ==
  \/ ReadNext /\ TreeNext /\ UNCHANGED <<storeVars, editVars>>
  \/ phase = "ready" /\ EditStep /\ UNCHANGED <<readVars, calls>>

allEditVars == <<readVars, calls, storeVars, editVars>>
EditSpec == EditInit /\ [][EditNext]_allEditVars

-----------------------------------------------------------------------------
(* A configurator that would exit without a question has nothing to lose: it  *)
(* has read or written a file, and the file says what it has in memory.  So   *)
(* it is until a rename of conf_write fails, or a load of a file that is not  *)
(* there takes back the mark of unsaved changes: UnsavedIsAsked is without    *)
(* this second exception, and refuted by a run of its own.                    *)
NothingLostSilently ==
  Idle(Editors) /\ ~c.changed /\ ~failed /\ ~lost =>
    source # NoFile /\ Values(k, c) = Meaning(k, now[source])

(* Values that no file has are not left without a question (qconf.cc's "ask   *)
(* for saving configuration before quitting", mconf's and nconf's "Do you     *)
(* wish to save your new configuration?").                                    *)
UnsavedIsAsked ==
  Idle(Editors) /\ ~c.changed /\ ~failed =>
    source # NoFile /\ Values(k, c) = Meaning(k, now[source])

(* What the build includes is what .config says whenever auto.conf passes     *)
(* for up to date, whoever wrote .config and whoever was killed meanwhile.    *)
BuildSeesConfig == ~stale /\ now[Config] # NoFile => auto = Told(k, now[Config])

\* What is on the way to a file, too, is what the program has or what .config
\* says, and who can be at which step.
EditInv ==
  /\ StoreInv
  /\ phase # "ready" => stale /\ ui = "none"
  /\ ui = "none" => step = "idle"
  /\ ui \in Editors => step \in {"idle", "old", "new"}
  /\ source \in Names \cup {NoFile} /\ lost \in BOOLEAN
  /\ Updating => now[Config] # NoFile /\ pairs = Told(k, now[Config])
  /\ ui \in Editors /\ step \in {"old", "new"} /\ ~failed => Values(k, c) = Meaning(k, text)
  /\ NothingLostSilently /\ BuildSeesConfig

(* The inductive invariant of all that happens, from the first line of the    *)
(* Kconfig files to the end of the last program: that of the reader, of the   *)
(* menu tree, and of the programs and the files they share.                   *)
SessionInv == ReadInv /\ TreeInv /\ EditInv
=============================================================================
