SPECIFICATION ControllerSpec
CONSTANTS
  MailboxSize = 2
  StopTimeout = 3
  BlinkPeriod = 2
  SysFlags <- AtStopFlags
  BlinkStop = FALSE
  AutoSlowOn = TRUE
  NotifyLossy = FALSE
  Commands <- FewCommands
INVARIANTS
  TypeOK
  CompletedIsServoMode
  BrakesOffInMotion
  LiftersInShuttle
  HaltIsSafe
PROPERTIES
  BrakeArmedAfterMotion
  HaltHoldsTape
