SPECIFICATION DiagnosticsSpec
CONSTANTS
  MailboxSize = 1
  StopTimeout = 2
  BlinkPeriod = 2
  SysFlags <- TwoFlags
  BlinkStop = FALSE
  AutoSlowOn = FALSE
  NotifyLossy = FALSE
  Commands <- TapeCommands
  Levels <- ThreeLevels
  DacMax = 3
  RampSteps <- Steps
  s_lamp <- TwoLamps
INVARIANTS RecordLampShown
