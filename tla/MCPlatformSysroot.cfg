\* rebuild-sysroot fails or is interrupted half way; then make build.
CONSTANTS
  Package <- MCPackage
  Deps <- MCDeps
  Rank <- MCRank
  MaxVersion <- MCMaxVersion
  Stable = {"libc"}
  None = None
  Habits = {"interrupt"}
SPECIFICATION Spec
INVARIANT
  SuccessMeansInstalled
