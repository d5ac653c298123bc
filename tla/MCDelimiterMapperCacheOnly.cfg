SPECIFICATION MCSpec
CONSTANTS
  Clean = Clean
  NoEntry = NoEntry
  semicolon = semicolon
  dollar = dollar
  Characters <- MCCharacters
  Delimiters <- MCDelimiters
  MaxAggressiveRequests = 15
  MaxRetries = 1
  MaxFaults = 0
INVARIANT CacheOnlyGenuine
CHECK_DEADLOCK FALSE
