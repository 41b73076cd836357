SPECIFICATION FairSpec
CONSTANTS
  Pools = 4
  MaximumPools = 2
  DiscoveryPools = 1
  Life = 1
  MaxFlips = 0
  MaxRestarts = 0
PROPERTIES NoPoolStarves
