SPECIFICATION FairSpec
CONSTANTS
  Installed = 1
  Releases = {2, 3}
  MaxRequests = 2
  MaxFaults = 2
  MaxSignals = 1
INVARIANTS CompletedIsInstalled IInv
PROPERTIES RolledBackIsPrevious RequestsSettle
