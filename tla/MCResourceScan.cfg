SPECIFICATION MCSpec
CONSTANTS
  Suffixes <- MCSuffixes
  Prefixes = 2
  Forms <- MCForms
  Collisions <- MCForms
  FatBodies <- MCFatBodies
  Cloaked <- MCCloaked
  Dimensions <- MCDimensions
  Nodes <- MCNodes
  MaxRequests = 7
  MaxFaults = 1
  IsGet = TRUE
  Probes = 3
INVARIANTS TypeOK CanonicalKept PoisoningGenuine EntanglementFindsAll DeceptionGenuine ExplosionGenuine VaryVerdictsGenuine
CHECK_DEADLOCK FALSE
