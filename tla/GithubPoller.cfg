SPECIFICATION PollerFairSpec
CONSTANTS
  Releases = {1, 2, 3}
  Genuine = {1, 3}
  MaxListing = 3
  MaxFaults = 2
INVARIANT ImportedIsStored
PROPERTIES AnswersAreFresh CheckAnswered
\* GitHub changes and faults are bounded
CHECK_DEADLOCK FALSE
