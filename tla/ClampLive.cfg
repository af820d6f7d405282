CONSTANTS
  k1 = k1
  k2 = k2
  Channels = {5, 6}
  Clamps = {k1}
  Types = {CL120A, EMOB200DC}
  DualType = EMOB200DC
  Undefined = undefined
  NoClamp = noclamp
  None = none
  Other = other
  PipeSize = 2
  MaxMoves = 4
  MaxFaults = 0
  Prompt = TRUE

SPECIFICATION FairSpec
INVARIANTS
  NoLostWakeup
PROPERTIES
  EventuallyKnown
