SPECIFICATION FairSpec
CONSTANTS
  u1 = u1
  u2 = u2
  admin = admin
  NoId = NoId
  Absent = Absent
  Users = {u1}
  RequestIds = {}
  NotificationIds = {1}
  RequestOwner <- NoOwners
  NotificationOwner <- OwnerOne
  Admins <- OneAdmin
  Rooms = {1}
  MaxSeats = 1
  MaxEvents = 3
  MaxRelogins = 1
  MaxDms = 1
  Faults = {"crawler", "unexpected"}
  Troubles = {"expiry"}
PROPERTIES
  EveryDipReported
\* The system may rest: with no subscription, everyone waits for users.
CHECK_DEADLOCK FALSE
