\* make -j on a package with autotools-reconf.mk.
CONSTANTS
  Reconf = TRUE
  Ships = FALSE
  Patches = TRUE
  Habits = {"parallel"}
SPECIFICATION Spec
PROPERTY
  ConfiguresPatched
