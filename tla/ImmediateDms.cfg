SPECIFICATION Spec
CONSTANTS
  u1 = u1
  u2 = u2
  admin = admin
  NoId = NoId
  Users = {u1}
  RequestIds = {1}
  NotificationIds = {}
  RequestOwner <- OwnerOne
  NotificationOwner <- NoOwners
  RequestType <- TypeOne
  Admins <- NoAdmins
  Jobs = {"LUNCH", "TRANSIT", "LIBRARY"}
  PollLimit = 1
  MaxRestarts = 2
  MaxRelogins = 1
  MaxDms = 2
  Faults = {"discord", "unexpected", "ambiguous", "crawler"}
INVARIANTS
  DmsBounded
  SuccessIsTrue
PROPERTIES
  FateIsFinal
\* The system may rest: with nothing pending, everyone waits for users.
CHECK_DEADLOCK FALSE
