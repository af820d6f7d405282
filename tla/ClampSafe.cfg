CONSTANTS
  k1 = k1
  k2 = k2
  Channels = {5, 6}
  Clamps = {k1, k2}
  Types = {CL120A, EMOB200DC}
  DualType = EMOB200DC
  Undefined = undefined
  NoClamp = noclamp
  None = none
  Other = other
  PipeSize = 1
  MaxMoves = 3
  MaxFaults = 1
  Prompt = FALSE

SPECIFICATION Spec
SYMMETRY Symmetric
INVARIANTS
  HashMatchesStatus
  NoDanglingRange
  NoMissedPlug
PROPERTIES
  RemovedIsGone
