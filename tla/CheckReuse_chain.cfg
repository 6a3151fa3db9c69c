SPECIFICATION Spec
CONSTANTS
  unit = unit
  plugin = plugin
  lib = lib
  util = util
  data = data
  runner = runner
  testUnit = testUnit
  testPlugin = testPlugin
  Tools = tools
  None = none
  Path <- MCPath
  Tracked <- MCTracked
  Common = {runner}
  Check <- MCCheck
  Before <- MCBefore
  Module <- MCModule
  Declared <- MCDeclared
  Imports <- MCImports
  Loads <- MCLoads
  Dynamic = {plugin}
  ObservedOnce = TRUE
  MaxVersion = 2
  MaxRuns = 2
INVARIANTS
  TypeOK
  TimingTruthful
PROPERTIES
  PassedMeansPasses
  RecordedPassesHold
CHECK_DEADLOCK FALSE
