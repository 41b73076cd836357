SPECIFICATION Spec
CONSTANTS
  Keys = {k1}
  NoKey = NoKey
  Sides = {"open", "exit", "swap"}
  Legs = 1
  MaxBuilds = 1
  MaxInstances = 1
  MaxQueue = 1
  Faults <- NoFaults
  TransportErrors = {"timeout", "fetch-failed"}
  MaxFaults = 1
INVARIANTS NotSubmittedIsDefinite
