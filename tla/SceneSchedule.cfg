SPECIFICATION FairServerSpec
CONSTANTS
  Scenes = {home, event}
  Home = home
  Targets = {"tv", "instance"}
  Slots = {1, 2}
  Notices = {}
  None = None
  MaxDraft = 1
  MaxRevision = 3
  MaxTime = 2
CONSTRAINT FilledInOrder
INVARIANT NoOverlap
PROPERTIES ChangeBumps WindowsClose
\* time, revisions and rows are bounded
CHECK_DEADLOCK FALSE
