SPECIFICATION Spec
CONSTANTS
  Keys = {k1}
  Sides = {"swap"}
  Legs = 2
  MaxBuilds = 3
  MaxInstances = 2
  MaxQueue = 2
  Faults <- SwapTimeout
INVARIANTS FailedMeansNothingSent
