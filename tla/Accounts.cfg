SPECIFICATION Spec
CONSTANTS
  Users = {u1, u2}
  Sessions = {s1, s2}
  Workers = {w1, w2}
  None = None
  MaxCounter = 1
  MaxGeneration = 4
  MaxInvitations = 2
SYMMETRY Symmetric
INVARIANTS OwnerRemains CodesOnce ChangeEndsAccess
PROPERTIES ActivationFollowsInvitation
\* counters, credentials and invitations are bounded
CHECK_DEADLOCK FALSE
