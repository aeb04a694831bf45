SPECIFICATION FairSpec
CONSTANTS
  Daemons = {d1, d2}
  Services = {s1, s2}
  Clients = {c1, c2}
  DBs = {b}
  Plugins = {g}
  NoProc = NoProc
INVARIANTS LifetimesNest ConnectionDiesWithService
PROPERTIES NoZombieStays EveryClientAnswered
ACTION_CONSTRAINT PrivateStepsAlone
CHECK_DEADLOCK FALSE
