SPECIFICATION Spec
CONSTANTS
  Checker = checker
  Contract = contract
  Build = build
  Code = code
  Gate = {g1, g2}
  None = none
  MaxVersion = 2
SYMMETRY Symmetry
INVARIANTS
  TypeOK
  ToolsUnchanged
  OkMeansPassed
PROPERTIES
  VerifiedLayers
CHECK_DEADLOCK FALSE
