SPECIFICATION FairSpec
CONSTANTS
  Assets = {photo}
  Uploads = {p1, p2, p3}
  Workers = {w1, w2}
  None = None
  MAX_JOB_ATTEMPTS = 3
  MaxStops = 3
INVARIANTS IInv ReadyHasFiles
PROPERTY JobsSettle
