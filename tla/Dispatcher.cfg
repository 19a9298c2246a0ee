SPECIFICATION FairSpec
CONSTANTS
  s1 = s1
  p1 = p1
  c1 = c1
  Schedulers <- SchedulerLinks
  Spares = {}
  Satellites <- SatelliteLinks
  Types <- PollerType
  Realms <- OneRealm
  Must <- MustHave
  LaunchList <- BothLaunched
  MaxAttempts = 2
  Tries = 3
  MaxRestarts = 1
  MaxTimeouts = 1
  MaxReloads = 1
INVARIANTS NeverRaises SchedulersReady
PROPERTIES Delivered Reconfigured
