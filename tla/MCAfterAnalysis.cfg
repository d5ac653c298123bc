SPECIFICATION MCSpec
CONSTANTS
  Registry <- MCRegistry
  MaxClock = 14
  MaxStart = 3
  MaxEvents = 1
INVARIANTS TypeOK StaleVerdictsGenuine CacheVerdictsGenuine ValidatorsGenuine CredentialsReported
CHECK_DEADLOCK FALSE
