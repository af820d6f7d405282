SPECIFICATION Spec
CONSTANTS
  Board = {v, i}
  Guests = {c}
  Values = {0, 1}
  Docs <- MCDocs
  Pcbs = {p1}
  Minors = {m1, m2}
  Serials = {s1, s2}
  Name = Name
  Unknown = Unknown
  Bad = Bad
  None = None
  MaxEdits = 1
  MaxFaults = 1
SYMMETRY Symmetry
INVARIANTS
  TypeOK
  AdjustedIsEarned
  AckedIsUsed
PROPERTIES
  NothingNewWithoutSwitch
  AckedIsFound
  AckedIsPlugged
