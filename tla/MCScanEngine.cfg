SPECIFICATION Spec
CONSTANTS
  r1 = r1
  r2 = r2
  r3 = r3
  Resources <- Three
  Id <- ThreeIds
  Selected <- ChainAndReaders
  Faulty <- AnalysisFaulty
  MaxConcurrency = 2
  MaxResourceConcurrency = 2
INVARIANTS ChainRunsAlone ChainProbesFirst ReadsOwnResult SkippedOnlyWithoutAnalysis
PROPERTIES Terminates
CHECK_DEADLOCK FALSE
