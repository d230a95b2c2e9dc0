\* Circular select statements: does kconfig stop?
CONSTANTS
  Menus <- MCMenus
  Virtual = {"v"}
  Platform = {"parent", "board"}
  Parents = {"parent"}
  Stable = {"c"}
  Off = "off"
  Statements <- MCStatements
  MaxSelects = 2
SPECIFICATION Spec
INVARIANT
  CircularStops
CHECK_DEADLOCK FALSE
