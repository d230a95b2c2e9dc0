\* Kconfig files that are read, and sessions of up to three inputs on four of them.
CONSTANTS
  Symbols <- MCSymbols
  Modules <- Mods
  Numerals <- MCNumerals
  Programs <- MCPrograms
  Edited <- MCEdited
  Root = "top"
  MaxDepth = 3
  Names = {".config", "alt", "all.config", "defconfig"}
  Config = ".config"
  All = "all.config"
  Defconfig = "defconfig"
  NoFile = NoFile
  Empty <- MCEmpty
  Values <- ValuesOf
  Meaning <- MeaningOf
  Told <- ToldOf
  OldFiles <- MCOldFiles
  Modes = {"oldask", "old", "silent", "oldno", "allno", "allyes", "allmod", "alldef", "def", "savedef"}
  Answers = {"", "y", "none"}
  Strings = {"", "2", "4", "x"}
  MaxInputs = 3
  MaxFaults = 1
SPECIFICATION Spec
INVARIANTS
  EveryEntryOnce
  DeclarationsOnce
  CacheIsFresh
  ValuesAreLegal
  SaveLoadsBack
  DefconfigLoadsBack
  NoQuestionTwice
  NothingLostSilently
  BuildSeesConfig
  NoDeadRow
  EveryEntryReached
  QtTreeIsFresh
  GtkShowsVisible
  OneConfiguration
  SessionInv
  NothingMissed
PROPERTIES
  FinalizeKeepsMeaning
  AtomicSave
  EditSpec
CHECK_DEADLOCK FALSE
