SPECIFICATION CertFairSpec
CONSTANTS
  MaxAttempts = 3
  Sticky = TRUE
  MaxEnrolments = 2
  MaxAged = 3
INVARIANTS OfThisEnrolment NoDeadEnd
PROPERTY CertificateComes
\* a screen that stays revoked, a request that was given up: nothing to do
CHECK_DEADLOCK FALSE
