CONSTANTS
  Forgets = FALSE
  MaxFaults = 3
SPECIFICATION Spec
INVARIANTS TypeOK FlagMeansImported NodeRunsOnWholeState
PROPERTIES VerifiedDownloadIsKept EventuallyRuns
