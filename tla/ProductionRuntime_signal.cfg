CONSTANTS
  Release = {r1, r2}
  Deployer = {d1}
  Timer = Timer
  Purger = Purger
  None = None
  LateSignal = TRUE
  MaxDeploys = 1
  MaxJobs = 0
  MaxKills = 0
  MaxWrites = 0
  MaxSchema = 1
SYMMETRY Symmetry
SPECIFICATION Spec
INVARIANT RunningOrReported
CHECK_DEADLOCK FALSE
