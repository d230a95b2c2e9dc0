\* A package Makefile is edited, the package rebuilt alone, the edit taken back.
CONSTANTS
  Package <- MCPackage
  Deps <- MCDeps
  Rank <- MCRank
  MaxVersion <- MCMaxVersion
  Stable = {"libc"}
  None = None
  Habits = {"revert"}
SPECIFICATION Spec
INVARIANT
  SuccessMeansFresh
