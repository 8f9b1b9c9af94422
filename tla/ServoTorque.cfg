CONSTANTS
  DacMax = 4
  CvMin <- MCCvMin
  CvMax = 3
  Den = 2
  ShuttleGains <- MCGains
  PlayGains <- MCGains
  Tension <- MCTension
  BrakeTorque = 1
  Threshold = 0
  Velocities = {2}
  AutoSlow = 2
  BoostTicks = 2
  BoostEnd = 2
  Arms = {1}
  Offsets <- MCOffsets
  Holdbacks = {0, 1}
  MaxSpeed = 3
  Jitter = 1
SPECIFICATION Spec
INVARIANTS ServoTypeOK OnScale
PROPERTIES ReversalBrakes StopStops ShuttleTurns BoostEnds
