---------------------------- MODULE MCLibraryJob ----------------------------
(***************************************************************************)
(* Small instances of LibraryJob for TLC.                                  *)
(***************************************************************************)
EXTENDS LibraryJob

CONSTANTS u1, u2, admin

OneAdmin == <<admin>>
NoAdmins == <<>>
NoOwners == <<>>

\* One subscription.
OwnerOne == [n \in {1} |-> u1]

\* Two subscriptions, of one user or of two.
OwnerSame == [n \in {1, 2} |-> u1]
OwnerTwo  == [n \in {1, 2} |-> IF n = 1 THEN u1 ELSE u2]
=============================================================================
