SPECIFICATION Spec
CONSTANTS
  Scenes = {home}
  Home = home
  Targets = {"instance"}
  Slots = {}
  Notices = {}
  None = None
  MaxDraft = 2
  MaxRevision = 3
  MaxTime = 0
INVARIANT UpToDateScene
CHECK_DEADLOCK FALSE
