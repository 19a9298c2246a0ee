SPECIFICATION FairSpec
CONSTANTS
  svc = svc
  fix = fix
  maint1 = maint1
  maint2 = maint2
  flex = flex
  trig = trig
  Items = {svc}
  Volatile = {svc}
  Downtimes = {flex, trig, maint1, maint2}
  Fixed = {maint1, maint2}
  Maintenance = {maint1, maint2}
  None = None
  Ref <- MCRef
  Start <- MCStart
  End <- MCEnd
  Duration <- MCDuration
  Trigger <- MCTrigger
  MaxTime = 4
  MaxExcess = 1
INVARIANTS SilentInDowntime DepthExact
PROPERTIES DowntimeEnds
