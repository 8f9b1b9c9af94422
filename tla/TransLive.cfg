SPECIFICATION FairSpec
CONSTANTS
  MailboxSize = 3
  StopTimeout = 2
  BlinkPeriod = 2
  SysFlags <- DefaultFlags
  BlinkStop = TRUE
  AutoSlowOn = FALSE
  NotifyLossy = FALSE
  Commands <- CommandsNoIpc
  IpcCommands <- NoIpc
  CommanderSize = 2
  ArmCloses = TRUE
  SpiPreempts = FALSE
  Buttons <- StopButton
PROPERTIES
  ArmIsObeyed
  PendingResolves
  HaltObeyed
