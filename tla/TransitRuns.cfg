SPECIFICATION Spec
CONSTANTS
  u1 = u1
  admin = admin
  konkuk = konkuk
  t1 = t1
  t2 = t2
  NoId = NoId
  NoTrain = NoTrain
  NoAnswer = NoAnswer
  Never = Never
  Users = {u1}
  RequestIds = {}
  NotificationIds = {1, 2}
  RequestOwner <- NoOwners
  NotificationOwner <- OwnerTwo
  Admins <- OneAdmin
  Trains = {t1, t2}
  Stations = {konkuk}
  Responses <- SomeResponses
  Garbled = Garbled
  Unknown = Unknown
  Configs <- Mixed
  DayLength = 3
  MaxTime = 3
  MaxEvents = 1
  MaxRelogins = 1
  MaxDms = 1
  Faults = {"db"}
  Troubles = {"redis", "restart"}
INVARIANTS
  TransitTypeOK
  OneReportAtATime
  NoSilencedSubscription
  OncePerTrain
PROPERTIES
  ReportsSpaced
  ServedOrAlerted
\* The clock stops at MaxTime.
CHECK_DEADLOCK FALSE
