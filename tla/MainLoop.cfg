SPECIFICATION FairSpec
CONSTANTS
  Debounce = 2
  EotSamples = 1
  Heartbeat = 2
  LampSettings <- StopOrPlay
  Buttons <- PlayRecord
  None = None
INVARIANTS
  StcIsCurrent
PROPERTIES
  LampsShown
  SwitchesFollowed
  EotReported
