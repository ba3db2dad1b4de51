SPECIFICATION Spec
CONSTANTS
  b1 = b1
  b2 = b2
  f1 = f1
  f2 = f2
  tab1 = tab1
  s1 = s1
  s2 = s2
  Callbacks = {b1, b2}
  Calls = {f1, f2, tab1}
  Inits = {tab1}
  States = {s1, s2}
  MaxTokens = 3
  MaxEvents = 3
  Faults = {"redis", "network", "discord", "db"}
SYMMETRY Symmetry
INVARIANTS
  WebTypeOK
  SessionAlive
  WelcomeOnce
  OneLoginPerState

  
\* Every bound is reached.
CHECK_DEADLOCK FALSE
