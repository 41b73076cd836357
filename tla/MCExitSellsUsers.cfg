SPECIFICATION Spec
CONSTANTS
  Lps = {1, 2}
  Deposit = 1
  MaxMoves = 2
  MaxCrashes = 1
  Values = {"unknown", "dust", "eligible"}
  Faults = {"hidden"}
INVARIANTS UsersTokensStay
