SPECIFICATION WorldSpec
CONSTANTS
  Keys = {k1}
  Sides = {"open", "exit", "swap"}
  Legs = 2
  MaxBuilds = 3
  MaxInstances = 3
  MaxQueue = 2
  Faults <- Survived
  Order <- OddOrder
  Enabled = {"meteora-dlmm-direct", "jupiter-v1", "jupiter-v2", "okx", "raydium"}
  Calls = {1, 2}
  Requests <- ThreeRequests
  CooldownMs = 1
  NoRouteTtlMs = 1
  NegativeTtlMs = 1
  MaxFailures = 2
  SwapFaults = {}
INVARIANTS TypeOK EvidenceCoversExposure OneBuildPerIntent FailedMeansNothingSent WholeBatch SwapsOnce
PROPERTIES SubmittedIsFinal LockReleased
