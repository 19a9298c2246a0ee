SPECIFICATION FairSpec
CONSTANTS
  router = router
  host = host
  svc = svc
  r1 = r1
  h1 = h1
  h2 = h2
  s1 = s1
  s2 = s2
  Items = {host, svc}
  CheckIds = {h1, s1}
  ItemOf <- MCItemOf
  ActDependOf <- MCActDependOf
  Internal = {}
  FreshnessItems = {svc}
  Exits = {0, 3}
  TimeoutExit = 3
  Commands <- NoCommands
  Orphanage = TRUE
  MaxCopies = 1
  MaxResults = 1
PROPERTIES InProgressConsumed WaitEnds
