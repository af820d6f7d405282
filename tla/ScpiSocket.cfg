SPECIFICATION Spec
CONSTANTS
  PllChannels <- MCPllChannels
  SampleRanges <- MCSampleRanges
  Channels = {"m6", "m8"}
  Ranges = {"F20Hz", "F60Hz"}
  PowerUp = {3}
  Ack = "ack"
  Nak = "nak"
  ErrExec = "errexec"
  Silence = "silence"
  Anything = "anything"
  Idle = Idle
  MaxClients = 2
  MaxLines = 3
  MaxFaults = 1
INVARIANTS
  TypeOK
  OneAnswerEach
PROPERTIES
  ToldIsAcked
  Served
