CONSTANTS
  p1 = p1
  p2 = p2
  s1 = s1
  s2 = s2
  Peers = {p1, p2}
  ScpiSocket = scpi
  Ids = {}
  NoId = noid
  Strings = {s1, s2}
  Mute = mute
  Flaky = {s2}
  Askable = {s1, s2, mute}
  Registrants = {p1, p2, scpi}
  MaxRegistrations = 3

SPECIFICATION Spec
SYMMETRY Symmetric
INVARIANTS
  NotifiedOnce
  OldestFirst
PROPERTIES
  NoneLost
  OwnStringWhenNoneWaits

\* A crash of the process ends a behaviour.
CHECK_DEADLOCK FALSE
