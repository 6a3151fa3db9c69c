CONSTANTS
  call = call
  fax = fax
  attempt = attempt
  None = None
  Name = {attempt}
  Rewritten = {attempt}
  Raced = {attempt}
  Broken = {}
  MaxWrites = 2
  MaxSources = 1
  MaxCrashes = 0
  Kind <- MCKind
SPECIFICATION Spec
INVARIANT SentWasAccepted
