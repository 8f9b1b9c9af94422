SPECIFICATION Spec
CONSTANTS
  MailboxSize = 1
  StopTimeout = 2
  BlinkPeriod = 2
  SysFlags <- AtStopFlags
  BlinkStop = FALSE
  AutoSlowOn = FALSE
  NotifyLossy = FALSE
  Commands <- CommandsFewIpc
  IpcCommands <- FewIpc
  CommanderSize = 1
  ArmCloses = FALSE
  SpiPreempts = FALSE
  Buttons <- StopAndRecord
PROPERTIES
  SendsAreOrderly
