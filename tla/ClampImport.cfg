SPECIFICATION Spec
CONSTANTS
  Clamps = {c1, c2}
  Types = {"CL120A", "CL1000A"}
  RangeNames = {"C100A", "C50A"}
  RangesOf <- MCRangesOf
  Serials = {"s1", "s2"}
  Factory = "1234567890"
  Undefined = "Undefined"
  Values = {0, 1}
  New = 0
  Strange = Strange
  DocLists <- MCDocLists
  NoClamp = NoClamp
  Bad = Bad
  None = None
  Ack = "ack"
  ErrXml = "errxml"
  ErrExec = "errexec"
  MaxEdits = 2
  MaxFaults = 1
INVARIANTS
  TypeOK
  OnlyNamedClamps
  AckedAllProgrammed
PROPERTIES
  AckedSurvives
