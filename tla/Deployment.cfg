SPECIFICATION FairSpec
CONSTANTS
  Screens = {t1, t2}
  Owners = {t1}
  Plans = {11, 12}
  Releases = {1, 2}
  MaxFaults = 1
INVARIANTS CompletedIsSettled InstalledIsTrue InstallsAreGranted
PROPERTIES OffersSettle
\* plans and faults are bounded
CHECK_DEADLOCK FALSE
