\* Careful use: make build in parallel, single packages rebuilt and cleaned,
\* rebuild-sysroot after a successful build; lib's Makefile is edited once.
CONSTANTS
  Package <- MCPackage
  Deps <- MCDeps
  Rank <- MCRank
  MaxVersion <- MCMaxVersion
  Stable = {"libc"}
  None = None
  Habits = {"parallel"}
SPECIFICATION Spec
INVARIANTS
  IndInv
  SuccessMeansFresh
  NothingLeftToDo
PROPERTIES
  DepsBuiltFirst
