CONSTANTS
  old = old
  new = new
  small = small
  None = None
  Blank = Blank
  Config = {old, new, small}
  MaxChanges = 3
  MaxRestarts = 1
  Extensions <- MCExtensions
SPECIFICATION FairSpec
INVARIANT TypeOK
PROPERTIES AckedEndpointsServed EndpointsConverge
