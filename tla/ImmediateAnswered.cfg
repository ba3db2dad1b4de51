SPECIFICATION FairSpec
CONSTANTS
  u1 = u1
  u2 = u2
  admin = admin
  NoId = NoId
  Users = {u1, u2}
  RequestIds = {1, 2}
  NotificationIds = {}
  RequestOwner <- OwnerTwo
  NotificationOwner <- NoOwners
  RequestType <- TypeTwo
  Admins <- OneAdmin
  Jobs = {"LUNCH", "LIBRARY"}
  PollLimit = 1
  MaxRestarts = 1
  MaxRelogins = 0
  MaxDms = 2
  Faults = {"discord", "crawler"}
INVARIANTS
  NoStrandedRequest
PROPERTIES
  FailureIsTrueWhenRecorded
  EveryRequestAnswered
\* The system may rest: with nothing pending, everyone waits for users.
CHECK_DEADLOCK FALSE
