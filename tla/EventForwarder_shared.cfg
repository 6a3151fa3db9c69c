CONSTANTS
  call = call
  fax = fax
  attempt = attempt
  None = None
  Name = {call,attempt}
  Rewritten = {}
  Raced = {}
  Broken = {attempt}
  MaxWrites = 1
  MaxSources = 0
  MaxCrashes = 1
  Kind <- MCKind
SPECIFICATION FairSpec
PROPERTY EventuallyFiled
