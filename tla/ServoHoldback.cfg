CONSTANTS
  DacMax = 4
  CvMin <- MCCvMin
  CvMax = 3
  Den = 2
  ShuttleGains <- MCGains
  PlayGains <- MCGains
  Tension <- MCTension
  BrakeTorque = 1
  Threshold = 1
  Velocities = {3}
  AutoSlow = 3
  BoostTicks = 2
  BoostEnd = 2
  Arms = {1}
  Offsets = {1}
  Holdbacks = {0, 1}
  MaxSpeed = 4
  Jitter = 2
SPECIFICATION Spec
PROPERTIES ReversalNeverSpeedsUp
