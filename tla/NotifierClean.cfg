CONSTANTS
  p1 = p1
  p2 = p2
  s1 = s1
  s2 = s2
  Peers = {p1, p2}
  ScpiSocket = scpi
  Ids = {c1, c2}
  NoId = noid
  Strings = {s1, s2}
  Mute = mute
  Flaky = {}
  Askable = {s1, s2}
  Registrants = {p1, p2}
  MaxRegistrations = 2

SPECIFICATION Spec
INVARIANTS
  SilentAfterGone
  StaysAlive
PROPERTIES
  ImplementsSubscriptions
