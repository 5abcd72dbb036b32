SPECIFICATION FairSpec
CONSTANTS
  MaxRevision = 4
  MaxFaults = 3
  MaxDamage = 2
INVARIANT InUseIsKept
PROPERTIES Implements BootShowsLoadable Converges
