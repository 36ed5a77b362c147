\* Ports: two programs on the device, or on the link, three computers, three
\* comings of the device; three system calls, three bytes from the modem, four
\* changes of carrier (one for CUSE).  Commands: six keys or pastes, two reads,
\* lines of 64 characters.
CONSTANTS
  Bytes = {plus, other}
  None = None
  Escapes = {plus, None}
  Guards <- MCGuards
  MaxLate = 1
  MaxNow = 8
  MaxTyped = 4
  Programs = {p1, p2}
  Calls <- MCCalls
  MaxCalls = 3
  MaxLines = 1
  MaxSent = 3
  MaxChanges = 4
  DUPLEX = 2
  CHUNK = 2
  BUFFER_LIMIT = 2
  MaxDevices = 3
  MaxHangUps = 3
  MaxComputers = 3
  PtyPrograms = {p1, p2}
  MAX_LINE = 64
  Registers <- MCRegisters
  Keys <- MCKeys
  Pastes <- MCPastes
  Inits <- MCInits
  Reads <- MCReads
  MaxKeys = 6
SPECIFICATION TerminalSpec
INVARIANTS
  Transparent
  NeverMissed
  CallsServed
  PortSound
PROPERTIES
  NeverByChance
  CommandsKept
  PortsGoOn
CHECK_DEADLOCK FALSE
