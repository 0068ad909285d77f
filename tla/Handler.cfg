SPECIFICATION FairSpec
CONSTANTS
  home = home
  work = work
  fifo = fifo
  nowhere = nowhere
  sub = sub
  none = none
  quick = quick
  slow = slow
  serves = serves
  Dirs = {home, work}
  Files = {}
  Endless = {fifo}
  Nowhere = nowhere
  Home = home
  Names = {sub}
  Join <- MCJoin
  NoArg = none
  Commands = {quick, slow, serves}
  Slow = {slow}
  Floods = {}
  Forks = {serves}
  MaxProcs = 2
  MaxSessions = 1
  MaxIds = 2
  ModelCalls <- MCModelCalls
  MaxCalls = 2
  MaxRounds = 2
  SlashCalls <- MCSlashCalls
  Texts <- MCTexts
  Saved <- MCSaved
INVARIANTS TypeOK RunsOnce Accounted OwnId
PROPERTY EveryMessageAnswered
CHECK_DEADLOCK FALSE
