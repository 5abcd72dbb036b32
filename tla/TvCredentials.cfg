SPECIFICATION FairSpec
CONSTANTS
  Keys = {1, 2, 3, 4, 5, 6}
  NoKey = 0
  Workers = {w1}
  MaxFaults = 3
CONSTRAINT DrawnInOrder
INVARIANTS NoLockout RetiredKeysStayOut IInv
PROPERTIES PromotionFollowsServer RotationEnds
\* keys and faults are bounded: the system may stop when they run out
CHECK_DEADLOCK FALSE
