CONSTANTS
  Halves <- MCHalves
  Dflt <- MCDflt
  Requests <- AnyRequests
  MaxSeq = 4
  MaxNoise = 2
  MaxCuts = 1
  MaxWire = 1
  None = None
SPECIFICATION Spec
INVARIANTS OneFramePerNoise KnownInForce PromiseKept
