SPECIFICATION FairSpec
CONSTANTS
  Targets = {"instance"}
  Applications = {a}
  Requests = {r1, r2}
  None = None
  MaxAttempts = 2
  MaxGeneration = 2
  Refusable = {a}
  MaxEvents = 3
  MaxChanges = 1
INVARIANTS LockoutHolds InventoryAllowed Tracked NoOpenDoor
PROPERTY DoorCloses
\* events are bounded
CHECK_DEADLOCK FALSE
