SPECIFICATION Spec
CONSTANTS
  u1 = u1
  u2 = u2
  admin = admin
  NoId = NoId
  Absent = Absent
  Users = {u1, u2}
  RequestIds = {}
  NotificationIds = {1, 2}
  RequestOwner <- NoOwners
  NotificationOwner <- OwnerTwo
  Admins <- NoAdmins
  Rooms = {1}
  MaxSeats = 1
  MaxEvents = 2
  MaxRelogins = 0
  MaxDms = 1
  Faults = {}
  Troubles = {"redis", "expiry", "restart"}
INVARIANTS
  LibTypeOK
  AlertsAreMarked
PROPERTIES
  NoRepeatBeforeRecovery
\* The system may rest: with no subscription, everyone waits for users.
CHECK_DEADLOCK FALSE
