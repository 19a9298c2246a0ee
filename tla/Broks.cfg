SPECIFICATION FairSpec
CONSTANTS
  s1 = s1
  s2 = s2
  m1 = m1
  Schedulers <- TwoSchedulers
  Modules = {m1}
  Internal = TRUE
  None = None
  MaxQueue = 1
  MaxKept = 2
  InitPeriod = 2
  MaxBroks <- TwoAndNone
  MaxFaults = 1
INVARIANTS InOrderOnce SameBroks NothingLost
PROPERTIES Managed
