SPECIFICATION FairSpec
CONSTANTS
  s1 = s1
  s2 = s2
  Schedulers <- TwoSchedulers
  Lines <- MCLines
  MaxAttempts = 2
  MaxCommands = 2
  MaxFaults = 2
  MaxCount = 1
INVARIANTS AtMostOnce InOrder
PROPERTIES Executed
