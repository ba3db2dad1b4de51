SPECIFICATION Spec
CONSTANTS
  me = me
  you = you
  c1 = c1
  c2 = c2
  c3 = c3
  h1 = h1
  h2 = h2
  None = None
  Stations = {"konkuk", ""}
  Seconds = {28800, 28802, 34200}
  Users = {me, you}
  Me = me
  Calls = {c1, c2, c3}
  Handlers = {h1, h2}
  Bodies <- SomeBodies
  Others <- OtherRequests
  MaxId = 2
  MaxEvents = 2
  Faults = {"db", "network"}
SYMMETRY Symmetry
INVARIANTS
  DashTypeOK
  ViewAgrees
  StoredConfigsChecked
PROPERTIES
  FieldsKept
\* Every bound is reached.
CHECK_DEADLOCK FALSE
