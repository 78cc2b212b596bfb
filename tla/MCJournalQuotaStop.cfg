CONSTANTS
  j1 = j1
  j2 = j2
  Jobs = {j1, j2}
  Limits <- MCLimits
  MaxCount = 4
  RecordLimit = 60
  MaxResult = 1
  MaxSize = 3
SPECIFICATION Spec
INVARIANT StopFits
