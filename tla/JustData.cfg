SPECIFICATION Spec
CONSTANTS
  Prime = 3
  NaN = NaN
  Order = 2
  Board = "board"
  Clamp = "clamp"
  CvRatio = 2
  Edited <- MCEdited
  Corrections = {0, 2}
  Coefficients = {2}
  Arguments = {0, 1, 2}
  Statuses = {300}
  Stored = {"clamp"}
  MaxEdits = 3
INVARIANTS
  TypeOK
  SentNodesFit
  UnadjustedClampIsBoard
