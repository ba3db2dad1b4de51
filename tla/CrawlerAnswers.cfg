SPECIFICATION Spec
CONSTANTS
  job1 = job1
  job2 = job2
  Callers = {job1, job2}
  Clients = {"lunch", "library"}
  Ttl <- Ttls
  Delay = 1
  DayLength = 3
  FirstDay = 4
  Lag = 1
  MaxTime = 12
  Faults = {"redis", "crawler"}
SYMMETRY Symmetry
INVARIANTS
  CacheTypeOK
  WeekHoldsItsPage
PROPERTIES
  AnswersFresh
\* The clock stops at MaxTime.
CHECK_DEADLOCK FALSE
