SPECIFICATION Spec
CONSTANTS
  Clean = Clean
  NoEntry = NoEntry
  Broken = Broken
  MaxAggressiveRequests = 6
  MaxRetries = 0
INVARIANT MetaCharacterFindingGenuine
CHECK_DEADLOCK FALSE
