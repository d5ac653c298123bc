SPECIFICATION MCSpec
CONSTANTS
  Clean = Clean
  NoEntry = NoEntry
  host = host
  Names <- MCNames
  Wordlist <- MCWordlist
  Extra <- MCExtra
  MaxAggressiveRequests = 5
  MaxRetries = 1
INVARIANTS FindingsGenuine CanonicalClean MissesNothing
PROPERTIES Terminates KeepsPromise
CHECK_DEADLOCK FALSE
