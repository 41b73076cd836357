SPECIFICATION CompSpec
CONSTANTS
  Orders = {o1, o2}
  Amounts = {1, 2, 3}
  MaxSingle = 2
  MaxHourly = 3
  MaxDaily = 4
  ResetHour = 0
  FirstHour = 22
  LastHour = 25
  ClockMovesInside = FALSE
  Endpoints = {1, 2}
  Candidates <- BothWays
  MaxConcurrency = 1
  MinInterval = 1
  RateCooldown = 2
  TimeoutCooldown = 1
  MaxWait = 1
  Decay = 1
  MaxMultiplier = 2
  MaxRun = 1
  QuoteDegraded = 1
  QuoteOpen = 2
  ReconcileOpen = 2
  SuccessTicks = 2
  Pools = {pool}
  Stale = 2
  GmgnTtl = 3
  Lease = 2
  Retirement = 2
  Lps = {1, 2}
  Buys = {1, 2}
  Deposit = 1
  MaxMoves = 1
  Values = {"unknown", "dust", "eligible"}
  Workers = {p1, p2, p3}
  Capacity = 2
  Window = 2
  LockTimeout = 1
  MaxCrashes = 1
  BufferSize = 2
  BatchSize = 2
  Threshold = 1
  MaxLines = 3
  MaxFailures = 1
  MaxRestarts = 1
  Ledgers = {"book", "solo", "hand"}
  OpensIn <- OpensOf
  ForeignIn <- ForeignOf
  DeathsIn <- DeathsOf
  Markets = {"two", "twin"}
  PoolsIn <- PoolsOf
  Mints = {"a", "b"}
  MintOf <- MintOfOf
  MaxPositions = 1
INVARIANTS CompTypeOK AccountedFor RowsKeepUp WindowHolds ExitIsNotVetoed OpensAreClean ClosesWhenGone ClosedIsGone OnePerPosition OfferedHasEvidence RetiredStaysOut EntryIsOurs OwnTokensOnly DayBalances OutIsBooked
PROPERTIES StartsArePaced OpensNeedHealth OperatorModeIsKept OwnedStaysNamed ForeignLeftAlone WithinLimits
