CONSTANTS
  Release = {r1, r2}
  Deployer = {d1, d2}
  Timer = Timer
  Purger = Purger
  None = None
  LateSignal = FALSE
  MaxDeploys = 2
  MaxJobs = 1
  MaxKills = 1
  MaxWrites = 1
  MaxSchema = 1
SYMMETRY Symmetry
SPECIFICATION Spec
INVARIANTS TypeOK RunningOrReported FirstReleaseOnly RetentionAlone
PROPERTIES MigratedOnlyBackedUp SuccessMeansSettled ImplementsSafeRelease
CHECK_DEADLOCK FALSE
