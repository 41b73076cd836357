SPECIFICATION Spec
CONSTANTS
  Keys = {k1}
  NoKey = NoKey
  Sides = {"open"}
  Legs = 1
  MaxBuilds = 1
  MaxInstances = 1
  MaxQueue = 1
  Faults <- NoFaults
  TransportErrors = {"timeout"}
  MaxFaults = 0
INVARIANTS FailedOpenIsReleased
