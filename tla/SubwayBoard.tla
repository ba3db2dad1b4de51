---------------------------- MODULE SubwayBoard -----------------------------
(***************************************************************************)
(* What SubwayClient makes of an answer of the arrivals API of Seoul, and  *)
(* how the transit job reads it later: a field may be missing or garbled,  *)
(* and the clock runs on while the answer lies in the cache.               *)
(***************************************************************************)
EXTENDS Integers, Sequences

CONSTANTS Trains,   \* btrainNo of the trains
          NoTrain,  \* the empty btrainNo
          Garbled,  \* a field that cannot be parsed
          Unknown   \* received_at None

Codes == {"INFO-000", "INFO-200", "INFO-100", "ERROR"}

\* A row of realtimeArrivalList; heading stands for subwayId and updnLine.
BoardRow == [btrainNo : Trains \cup {NoTrain}, heading : STRING, barvlDt : Nat \cup {Garbled},
        recptnDt : Nat \cup {Garbled}, arvlCd : {99, Garbled}]

Response == [code : Codes, rows : Seq(BoardRow)]

Arrival == [train : Trains \cup {NoTrain}, heading : STRING, seconds : Nat,
            received : Nat \cup {Unknown}]

\* _row_to_arrival, with _parse_recptn_dt.
row_to_arrival(row) ==
  [train |-> row.btrainNo, heading |-> row.heading,
   seconds |-> IF row.barvlDt = Garbled THEN 0 ELSE row.barvlDt,
   received |-> IF row.recptnDt = Garbled THEN Unknown ELSE row.recptnDt]

\* _parse_response: INFO-200 is a station without trains, the other codes are
\* errors the job catches (SubwayApiUnavailable, SubwayApiAuthFailed).
Refuses(response) == response.code \notin {"INFO-000", "INFO-200"}

\* int() of an arvlCd that is no number, which nobody catches.
Raises(response) == /\ response.code = "INFO-000"
                    /\ \E i \in DOMAIN response.rows : response.rows[i].arvlCd = Garbled

Parsed(response) ==
  IF response.code = "INFO-000"
    THEN [i \in DOMAIN response.rows |-> row_to_arrival(response.rows[i])]
    ELSE <<>>

\* _effective_seconds: never below 0, and as it was when the age is unknown.
Effective(arrival, t) ==
  LET left == arrival.seconds - (t - arrival.received)
  IN  IF arrival.received = Unknown THEN arrival.seconds ELSE IF left > 0 THEN left ELSE 0
=============================================================================
