SPECIFICATION Spec
CONSTANTS
  router = router
  host = host
  svc = svc
  r1 = r1
  h1 = h1
  h2 = h2
  s1 = s1
  s2 = s2
  Items = {host, svc}
  CheckIds = {h1, s1}
  ItemOf <- MCItemOf
  ActDependOf <- MCActDependOf
  Internal = {}
  FreshnessItems = {}
  Exits = {0, 3}
  TimeoutExit = 3
  Commands <- ForceHost
  Orphanage = FALSE
  MaxCopies = 1
  MaxResults = 1
INVARIANT NoCrash
