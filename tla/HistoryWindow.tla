--------------------------- MODULE HistoryWindow ----------------------------
(***************************************************************************)
(* GET /me/notifications/history (F-17): the window that _resolve_window   *)
(* makes of two optional UTC days, and the rows of notification_history    *)
(* that list_history_for_user answers with.  Instants are seconds, day d   *)
(* begins at d * 86400.                                                    *)
(***************************************************************************)
EXTENDS Integers, FiniteSets

CONSTANTS Users, Notifications, Requests,
          None  \* a parameter that is not given, a foreign key that is NULL

DayLength == 86400
Midnight(day) == day * DayLength

HISTORY_MAX_WINDOW == 30 * DayLength

Days == Int \cup {None}

\* InvalidHistoryDateRange otherwise.
Accepted(date_from, date_to) ==
  date_from # None /\ date_to # None =>
    /\ date_from <= date_to
    /\ Midnight(date_to + 1) - Midnight(date_from) <= HISTORY_MAX_WINDOW

\* sent_at_from, which belongs to the window, and sent_at_to, which does not.
SentAtFrom(date_from, date_to, now) ==
  IF date_from # None THEN Midnight(date_from)
  ELSE (IF date_to # None THEN Midnight(date_to + 1) ELSE now) - HISTORY_MAX_WINDOW

SentAtTo(date_from, date_to, now) ==
  IF date_to # None THEN Midnight(date_to + 1)
  ELSE IF date_from # None THEN Midnight(date_from) + HISTORY_MAX_WINDOW ELSE now

Row == [user : Users, sent_at : Int, status : {"SUCCESS", "FAILED"},
        type            : {"TRANSIT", "LUNCH", "LIBRARY"},  \* derived_type
        notification_id : Notifications \cup {None},
        request_id      : Requests \cup {None}]

\* The WHERE clause; the row of an administrator's alert has neither key, and
\* so has one whose subscription was deleted.  Absent filters take every row.
Matching(rows, user, date_from, date_to, now, type, status) ==
  {r \in rows : /\ r.user = user
                /\ r.sent_at >= SentAtFrom(date_from, date_to, now)
                /\ r.sent_at < SentAtTo(date_from, date_to, now)
                /\ r.notification_id # None \/ r.request_id # None
                /\ type # None => r.type = type
                /\ status # None => r.status = status}

\* ORDER BY sent_at DESC LIMIT limit.
IsAnswer(answer, matching, limit) ==
  /\ answer \subseteq matching
  /\ \A r \in answer, s \in matching \ answer : s.sent_at <= r.sent_at
  /\ Cardinality(answer) = IF Cardinality(matching) <= limit THEN Cardinality(matching)
                                                              ELSE limit
=============================================================================
