SPECIFICATION FairSpec
CONSTANTS
  Actions = {a1}
  MinWorkers = 2
  Processes = 1
  MaxAttempts = 2
  MaxDeaths = 1
  MaxFailures = 2
  MaxResets = 1
INVARIANTS WorkingForIt NothingLost
PROPERTIES Delivered
CHECK_DEADLOCK FALSE
