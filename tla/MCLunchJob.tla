----------------------------- MODULE MCLunchJob -----------------------------
(***************************************************************************)
(* Small instances of LunchJob for TLC.                                    *)
(***************************************************************************)
EXTENDS LunchJob

CONSTANTS u1

NoAdmins == <<>>
NoOwners == <<>>

\* One subscription.
OwnerOne == [n \in {1} |-> u1]
=============================================================================
