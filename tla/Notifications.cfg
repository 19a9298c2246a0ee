SPECIFICATION Spec
CONSTANTS
  admin = admin
  boss = boss
  mail = mail
  pager = pager
  Contacts = {admin, boss}
  WaysOf <- MCWaysOf
  Ways <- MCWays
  Escalations <- MCEscalations
  Cycle = 2
  FlapHistory = 2
  LowFlap = 25
  HighFlap = 50
  Confs <- MCConfs
  Statuses = {"OK", "CRITICAL", "UNKNOWN"}
  CheckInterval = 2
  MaxNumber = 2
  MaxCommands = 1
  MaxOrphans = 1
  MaxChildren = 1
  MaxAge = 2
INVARIANTS NobodyForgotten OneReminder CountRestarts NotifiedSoon
