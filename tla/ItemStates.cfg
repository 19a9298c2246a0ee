SPECIFICATION Spec
CONSTANTS
  router = router
  switch = switch
  host = host
  svc = svc
  Items = {router, switch, host, svc}
  ActDependOf <- MCActDependOf
  Rank <- MCRank
  MaxAttempts <- MCMaxAttempts
  Volatile = {svc}
  None = None
  MaxRestarts = 1
INVARIANTS ImpactsLinked ProblemsAreReal DependentsKnow OwnStateKept HardAfterMaxAttempts
