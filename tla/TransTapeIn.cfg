SPECIFICATION FairSpec
CONSTANTS
  MailboxSize = 3
  StopTimeout = 2
  BlinkPeriod = 2
  SysFlags <- DefaultFlags
  BlinkStop = FALSE
  AutoSlowOn = FALSE
  NotifyLossy = FALSE
  Commands <- CommandsNoIpc
  IpcCommands <- NoIpc
  CommanderSize = 3
  ArmCloses = TRUE
  SpiPreempts = FALSE
  Buttons <- NoButtons
PROPERTIES
  TapeInStops
