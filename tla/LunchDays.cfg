SPECIFICATION Spec
CONSTANTS
  u1 = u1
  NoId = NoId
  Users = {u1}
  RequestIds = {}
  NotificationIds = {1}
  RequestOwner <- NoOwners
  NotificationOwner <- OwnerOne
  Admins <- NoAdmins
  DayLength = 5
  Period = 1
  Grace = 3
  MaxDays = 1
  MaxEvents = 3
  MaxRelogins = 1
  MaxDms = 1
  Faults = {"crawler"}
  Troubles = {"redis", "restart", "slow"}
INVARIANTS
  LunchTypeOK
  OncePerDay
  GraceAbsorbs
\* The clock stops at the end of the last day.
CHECK_DEADLOCK FALSE
