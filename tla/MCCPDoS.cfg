SPECIFICATION MCSpec
CONSTANTS
  Clean = Clean
  NoEntry = NoEntry
  Broken = Broken
  MaxAggressiveRequests = 6
  MaxRetries = 1
INVARIANTS TypeOK NoResidualFinding HeaderFindingsGenuine FirstVulnerableFound
PROPERTIES Terminates KeepsPromise
CHECK_DEADLOCK FALSE
