SPECIFICATION Spec
CONSTANTS
  job1 = job1
  job2 = job2
  Callers = {job1}
  Clients = {"lunch"}
  Ttl <- Ttls
  Delay = 1
  DayLength = 3
  FirstDay = 4
  Lag = 1
  MaxTime = 12
  Faults = {"redis", "crawler"}
INVARIANTS
  MenuOfTheDay
\* The clock stops at MaxTime.
CHECK_DEADLOCK FALSE
