SPECIFICATION MCSpec
CONSTANTS
  Clients = {c1, c2}
  Addresses <- MCAddresses
  Data = {d1, d2}
  Boosters = {c1, c2}
  Asked <- MCAsked
  CallersClear = TRUE
  Readers = {r1}
  Calls <- MCCalls
  W = 2
  Fuse <- MCFuse
  Threads = {t1, t2}
  Sockets = {0, 1, 2}
  Processor <- MCProcessor
  LinkIds = {1, 3, 8}
  Callers = {g1, g2}
  MaxCount = 2
  Arguments <- MCArguments
SYMMETRY Same
INVARIANTS
  TypeOK
  LandsUnlessOvertaken
  ChangedOrTold
  WholeUnlessCarried
  NoHalfValue
  LinkIsOfItsSocket
  StatisticIsOfItsCall
  WordTellsTheCall
  ReadsBack
PROPERTIES
  HiddenUntouched
