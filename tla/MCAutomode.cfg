CONSTANTS
  SignalTicks = 4
  MessageTicks = 5
  ShortTicks = 3
  TransactionTicks = 50
  BisSilenceTicks = 4
  SilenceTicks = 20
  AnsamTicks = 50
  TeTicks = 10
  GapTicks = 1
  TaTicks = 30
  MarkTicks = 2
  SigcTicks = 5
  ToneTicks = 4
  CarrierTicks = 4
  Usb1Ticks = 2
  LastTick = 150
  Calls <- MCCalls
SPECIFICATION Spec
INVARIANTS
  CommonMode
  NobodyLeftBehind
  InTime
CHECK_DEADLOCK FALSE
