---------------------------- MODULE MCTransitJob ----------------------------
(***************************************************************************)
(* Small instances of TransitJob for TLC.                                  *)
(***************************************************************************)
EXTENDS TransitJob

CONSTANTS u1, admin, konkuk, t1, t2

OneAdmin == <<admin>>
NoOwners == <<>>
OwnerTwo == [n \in {1, 2} |-> u1]

\* An arrival subscription and a recurring one, both of one station.
Report == [mode |-> "recurring", station |-> konkuk, heading |-> "up", start |-> 0,
           end |-> 9, plain |-> TRUE, interval |-> 2, before |-> 0]
Approach == [mode |-> "arrival", station |-> konkuk, heading |-> "up", start |-> 1,
             end |-> 2, plain |-> TRUE, interval |-> 1, before |-> 2]
Mixed == {Report, Approach}

Row0(train, heading, barvlDt, recptnDt) ==
  [btrainNo |-> train, heading |-> heading, barvlDt |-> barvlDt, recptnDt |-> recptnDt,
   arvlCd |-> 99]

\* A row without a train, a train that is near, its age unknown, one that will
\* be near, one of the other direction.
Board == << Row0(NoTrain, "up", 2, 0), Row0(t2, "up", 2, Garbled), Row0(t1, "up", 3, 1),
            Row0(t1, "down", 2, 0) >>

\* Beside the board: no trains at this hour, a wrong key, a row that cannot be
\* parsed.
SomeResponses == {[code |-> "INFO-000", rows |-> Board],
               [code |-> "INFO-200", rows |-> <<>>],
               [code |-> "INFO-100", rows |-> <<>>],
               [code |-> "INFO-000", rows |-> <<[Board[2] EXCEPT !.arvlCd = Garbled]>>]}
=============================================================================
