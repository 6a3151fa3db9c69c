CONSTANTS
  old = old
  new = new
  small = small
  None = None
  Blank = Blank
  Config = {old, new}
  MaxChanges = 1
  MaxRestarts = 0
  Extensions <- MCExtensions
SPECIFICATION Spec
PROPERTY AckedIsLoaded
