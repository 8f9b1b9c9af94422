SPECIFICATION OrderlySpec
CONSTANTS
  MailboxSize = 1
  StopTimeout = 3
  BlinkPeriod = 2
  SysFlags <- DefaultFlags
  BlinkStop = TRUE
  AutoSlowOn = TRUE
  NotifyLossy = FALSE
  Commands <- AllCommands
INVARIANTS
  TypeOK
  CompletedIsServoMode
  BrakesOffInMotion
  LiftersInShuttle
  HaltIsSafe
  RecordOnlyInPlay
  RecordLampTrue
  StcTracksMode
PROPERTIES
  BrakeArmedAfterMotion
  HaltHoldsTape
  KeepsPromise
