\* The goal <p>/build of a package without patches, make without -j.
CONSTANTS
  Reconf = FALSE
  Ships = TRUE
  Patches = FALSE
  Habits = {"build"}
SPECIFICATION Spec
INVARIANT
  InstallsStripped
