-------------------------- MODULE MCImmediateSend ---------------------------
(***************************************************************************)
(* Small instances of ImmediateSend for TLC.                               *)
(***************************************************************************)
EXTENDS ImmediateSend

CONSTANTS u1, u2, admin

OneAdmin == <<admin>>
NoAdmins == <<>>
NoOwners == <<>>

\* One request.
OwnerOne == [r \in {1} |-> u1]
TypeOne  == [r \in {1} |-> "LIBRARY"]

\* Two requests of one user for the same job.
OwnerSame == [r \in {1, 2} |-> u1]
TypeSame  == [r \in {1, 2} |-> "LIBRARY"]

\* Two requests of two users for two jobs.
OwnerTwo == [r \in {1, 2} |-> IF r = 1 THEN u1 ELSE u2]
TypeTwo  == [r \in {1, 2} |-> IF r = 1 THEN "LUNCH" ELSE "LIBRARY"]
=============================================================================
