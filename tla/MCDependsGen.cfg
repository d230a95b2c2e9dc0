\* All configurations of at most four select statements.
CONSTANTS
  Menus <- MCMenus
  Virtual = {"v"}
  Platform = {"parent", "board"}
  Parents = {"parent"}
  Stable = {"c"}
  Off = "off"
  Statements <- MCStatements
  MaxSelects = 4
SPECIFICATION Spec
INVARIANTS RecursionInv
  CircularIsReported
  OverflowIsReported
  RulesMatchSelects
  DirsInOrder
CHECK_DEADLOCK FALSE
