CONSTANTS
  Job = {j1}
  MaxAttempts = 2
  MaxRestarts = 2
SPECIFICATION FairSpec
INVARIANTS TypeOK StateIsTruthful OnlyLastClaimActive TiffDuringCall
PROPERTIES NoCallAfterAnswer ImplementsFaxDelivery EventuallySettled
CHECK_DEADLOCK FALSE
