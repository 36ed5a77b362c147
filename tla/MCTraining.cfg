CONSTANTS
  CjSilence = 4
  RetrainSilence = 4
  AnswerDelay = 2
  ToneTail = 1
  ToneFirst = 3
  HeldTail = 8
  L1Ticks = 3
  L2Most = 12
  L2Settle = 1
  L2Measured = 5
  L2Least = 3
  AfterInfo = 1
  ReplyMost = 30
  Info1Most = 30
  AloneTicks = 2
  Info0Ticks = 3
  Info1Ticks = 3
  TrainSilence = 4
  STicks = 3
  PpTicks = 3
  TrnTicks = 6
  TrnLeast = 4
  TrnHeard = 5
  B1Ticks = 1
  AckedLeast = 3
  RetrainTone = 3
  ETimeout = 60
  TopRate = 3
  S1Ticks = 2
  DecideTicks = 9
  ChangeTicks = 12
  ReadyTicks = 4
  RepeatTicks = 24
  ReplyTicks = 20
  LostTicks = 4
  StepDownTicks = 300
  Usb1Ticks = 3
  ScrambledTicks = 5
  WaitTicks = 9
  SettleTicks = 15
  SdTicks = 3
  Trn1Ticks = 4
  DilTicks = 5
  RiTicks = 3
  Trn2Ticks = 3
  RdTicks = 3
  B1dTicks = 1
  CpAckTicks = 4
  RiMargin = 12
  SdMost = 30
  EdMost = 30
  QuietTicks = 30
  Trainings <- MCTrainings
SPECIFICATION Spec
INVARIANTS
  InTime
  EndsAgree
  RoundTripRight
CHECK_DEADLOCK FALSE
