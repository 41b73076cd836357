SPECIFICATION WorldSpec
CONSTANTS
  Keys = {k1, k2}
  NoKey = NoKey
  Sides = {"open", "exit", "swap"}
  Legs = 1
  MaxBuilds = 1
  MaxInstances = 2
  MaxQueue = 2
  Faults <- LpTimeouts
  TransportErrors = {"timeout"}
  MaxFaults = 1
SYMMETRY KeySymmetry
INVARIANTS TypeOK InFlightIsNamed OneOrderInFlight NotSubmittedIsDefinite
PROPERTIES KeepsPromise
