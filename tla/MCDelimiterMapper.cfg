SPECIFICATION MCSpec
CONSTANTS
  Clean = Clean
  NoEntry = NoEntry
  semicolon = semicolon
  dollar = dollar
  Characters <- MCCharacters
  Delimiters <- MCDelimiters
  MaxAggressiveRequests = 15
  MaxRetries = 1
  MaxFaults = 1
INVARIANTS TypeOK DelimitersGenuine NormalizationGenuine CanonicalClean NothingMissed
PROPERTIES QuirksAccumulate
CHECK_DEADLOCK FALSE
