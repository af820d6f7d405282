SPECIFICATION Spec
CONSTANTS
  Channels <- MCChannels
  Below <- MCBelow
  Names <- MCNames
  Modes <- MCModes
  AC = "AC"
  HF = "HF"
  Fixed <- MCFixed
  Types <- MCTypes
  Lent <- MCLent
  NoClamp = "none"
  Codes <- MCCodes
  NoName = ""
  MaxFaults = 1
INVARIANTS
  TypeOK
  ControllerInStep
  AvailabilityFollowsMode
  SelectedWasAvailable
PROPERTIES
  ChangesAreTold
