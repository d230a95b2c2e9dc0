\* An editor that is started, changed, and told to load a file that is not there.
CONSTANTS
  Symbols <- MCSymbols
  Modules <- Mods
  Numerals <- MCNumerals
  Programs <- MCNumbers
  Edited <- MCNumbers
  Root = "top"
  MaxDepth = 3
  Names = {".config", "alt", "all.config", "defconfig"}
  Config = ".config"
  All = "all.config"
  Defconfig = "defconfig"
  NoFile = NoFile
  Empty <- MCEmpty
  Values <- ValuesOf
  Meaning <- MeaningOf
  Told <- ToldOf
  OldFiles <- MCSaved
  Modes = {"old"}
  Answers = {"", "y", "none"}
  Strings = {"", "2", "4", "x"}
  MaxInputs = 3
  MaxFaults = 0
SPECIFICATION Spec
INVARIANTS
  UnsavedIsAsked
CHECK_DEADLOCK FALSE
