SPECIFICATION FairSpec
CONSTANTS
  Caller = {c1, c2}
  Free = Free
  Pace = 1
  MaxDelay = 2
  DecayThreshold = 2
  MaxRetries = 1
  BaseDelay = 1
  MaxBackoff = 1
  MaxProviderDelay = 1
  Hints <- MCHints
  Resumes <- MCResumes
INVARIANTS TypeOK SingleLogin
PROPERTIES PacedDispatch CallsReturn DelayRecovers
CHECK_DEADLOCK FALSE
