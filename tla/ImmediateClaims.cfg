SPECIFICATION Spec
CONSTANTS
  u1 = u1
  u2 = u2
  admin = admin
  NoId = NoId
  Users = {u1}
  RequestIds = {1, 2}
  NotificationIds = {}
  RequestOwner <- OwnerSame
  NotificationOwner <- NoOwners
  RequestType <- TypeSame
  Admins <- NoAdmins
  Jobs = {"LUNCH", "TRANSIT", "LIBRARY"}
  PollLimit = 2
  MaxRestarts = 1
  MaxRelogins = 0
  MaxDms = 2
  Faults = {"discord", "unexpected", "db", "crawler", "escape"}
INVARIANTS
  TypeOK
  SingleLiveCopy
  InflightCoversPipeline
\* The system may rest: with nothing pending, everyone waits for users.
CHECK_DEADLOCK FALSE
