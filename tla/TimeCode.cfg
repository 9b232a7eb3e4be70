SPECIFICATION TimeCodeSpec
CONSTANTS
  Timestamps = {0, 1, 2}
  Timeouts = {0, 1, 2}
  MaxClock = 4
INVARIANTS LateIsDropped WinsOnlyWithOldCode ChallengeIsNotShown
CHECK_DEADLOCK FALSE
