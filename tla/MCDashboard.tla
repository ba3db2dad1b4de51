----------------------------- MODULE MCDashboard ----------------------------
(***************************************************************************)
(* Small instances of Dashboard for TLC.                                   *)
(***************************************************************************)
EXTENDS Dashboard, TLC

CONSTANTS me, you, c1, c2, c3, h1, h2

Symmetry == Permutations(Handlers) \cup Permutations(Calls)

At8 == [at |-> 28800, form |-> "plain"]

New(type) == defaultConfig(type, "konkuk", <<28800, 34200>>)

\* The form of a new rule, another line and a window shorter than the trigger,
\* a window of no length, an urgent threshold that is no lower than the
\* threshold, and a direction of another line, which no form sends.
Morning == New("TRANSIT")
Every5  == [normalizeConfig([Morning EXCEPT !.line = "line 4"])
              EXCEPT !.mode = "recurring", !.repeat_interval_minutes = 5,
                     !.end_time = [At8 EXCEPT !.at = 28802]]
NoTime  == [Morning EXCEPT !.end_time = At8]
Crossed == [Morning EXCEPT !.direction = "up"]
Library == New("LIBRARY")
Urgent  == [Library EXCEPT !.urgent_threshold = 20]

Request0(op, u, n, body) == [op |-> op, user |-> u, id |-> n, type |-> None,
                             enabled |-> None, body |-> body]

SomeBodies == {Morning, Every5, NoTime, Crossed, Urgent}

\* The other device deletes a rule or the account, another user knows an id,
\* and a client of the API creates what the form does not send.
OtherRequests == {Request0("delete", me, 1, None), Request0("leave", me, None, None),
                  Request0("delete", you, 1, None),
                  [Request0("create", me, None, Crossed) EXCEPT !.enabled = TRUE]}
=============================================================================
