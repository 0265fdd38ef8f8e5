\* Two requests at a time, each of which may use the database and publish; up
\* to three connections are dialled, and lost; one signal. The process exits.
SPECIFICATION ServerSpec
CONSTANTS
  g1 = g1
  g2 = g2
  c1 = c1
  c2 = c2
  c3 = c3
  Goroutines = {g1, g2}
  Conns = {c1, c2, c3}
  NoConn = NoConn
  Free = Free
INVARIANTS
  ServerTypeOK
  NoConnectionLeaked
  FailureIsExcused
  CleanExit
PROPERTIES
  PublishReturns
  ShutdownEnds
CHECK_DEADLOCK FALSE
