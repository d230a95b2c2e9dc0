\* One package, make without -j, every goal, edits of the sources.
CONSTANTS
  Reconf = TRUE
  Ships = FALSE
  Patches = TRUE
  Habits = {"build", "edit"}
SPECIFICATION Spec
INVARIANTS
  StampInv
  SetupBeforeBuild
  InstallsSources
  InstallsPruned
PROPERTY
  ExtractsVerified
