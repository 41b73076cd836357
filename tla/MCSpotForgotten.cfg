SPECIFICATION Spec
CONSTANTS
  Buys = {1, 2}
  Deposit = 1
  MaxMoves = 1
  MaxCrashes = 1
  Faults = {"late"}
INVARIANTS BoughtIsKnown
