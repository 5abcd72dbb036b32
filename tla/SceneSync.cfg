SPECIFICATION FairSpec
CONSTANTS
  Scenes = {home}
  Home = home
  Targets = {"instance"}
  Slots = {1}
  Notices = {n1}
  None = None
  MaxDraft = 2
  MaxRevision = 3
  MaxTime = 1
INVARIANT NeverAhead
PROPERTY CatchesUp
\* time, revisions and rows are bounded
CHECK_DEADLOCK FALSE
