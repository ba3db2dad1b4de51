------------------------------ MODULE Database ------------------------------
(***************************************************************************)
(* The PostgreSQL tables that the API server and the bot share, as far as  *)
(* the delivery of direct messages depends on them: users.status, the rows *)
(* of notifications, and notification_history with its foreign keys and    *)
(* its partial unique index.  Each action is one committed transaction, or *)
(* one statement of a transaction whose effects others can run between.    *)
(* A request id and a notification id name a row together with its         *)
(* immutable columns, so owners are constants.                             *)
(***************************************************************************)
EXTENDS Integers, Sequences, FiniteSets

CONSTANTS Users,              \* rows of users (never physically deleted)
          RequestIds,         \* ids immediate_send_requests may allocate
          NotificationIds,    \* ids notifications may allocate
          RequestOwner,       \* user_id of an immediate_send_requests row
          NotificationOwner,  \* user_id of a notifications row
          NoId,               \* SQL NULL in an id column
          MaxRelogins         \* bound: returns of a deleted account

ASSUME IdsAssumption == /\ RequestIds \subseteq Nat
                        /\ NotificationIds \subseteq Nat
                        /\ NoId \notin Nat
ASSUME OwnerAssumption == /\ RequestOwner \in [RequestIds -> Users]
                          /\ NotificationOwner \in [NotificationIds -> Users]
ASSUME ReloginAssumption == MaxRelogins \in Nat

VARIABLES status,        \* users.status
          subscription,  \* a notifications row: its enabled flag, if it exists
          history,       \* committed rows of notification_history
          erasing,       \* users whose DELETE /me transaction is open
          captured,      \* history rows the open DELETE statements have locked
          relogins       \* how often a deleted account came back

dbVars == <<status, subscription, history, erasing, captured, relogins>>

\* A row of notification_history: of a subscription, of a request, or of
\* neither (payload and sent_at are left out).
Row == {h \in [notification : NotificationIds \cup {NoId},
               request      : RequestIds \cup {NoId},
               user         : Users,
               status       : {"SUCCESS", "FAILED"}] :
          h.notification = NoId \/ h.request = NoId}

DbTypeOK == /\ status \in [Users -> {"ACTIVE", "DELETED"}]
            /\ subscription \in
                 [NotificationIds -> {"unused", "enabled", "disabled", "deleted"}]
            /\ history \subseteq Row
            /\ erasing \subseteq Users
            /\ captured \subseteq Row
            /\ relogins \in Nat

DbInit == /\ status = [u \in Users |-> "ACTIVE"]
          /\ subscription \in [NotificationIds -> {"unused", "enabled"}]
          /\ history = {}
          /\ erasing = {}
          /\ captured = {}
          /\ relogins = 0

Exists(n) == subscription[n] \in {"enabled", "disabled"}

\* list_active_subscriptions_with_user returns the subscription.
Listed(n) == subscription[n] = "enabled" /\ status[NotificationOwner[n]] = "ACTIVE"

\* The history row of request r, seen through the LEFT JOIN of list_pending.
Recorded(r) == \E h \in history : h.request = r

-----------------------------------------------------------------------------
\* An INSERT that would duplicate a key whose row an open transaction has
\* deleted waits for that transaction.
InsertBlocked(row) == row.request # NoId /\ \E h \in captured : h.request = row.request

\* Foreign keys on user_id and notification_id, and the partial unique index
\* on immediate_send_request_id.
InsertAllowed(row) ==
  /\ row.user \in Users
  /\ row.notification # NoId => Exists(row.notification)
  /\ row.request # NoId => ~Recorded(row.request)

\* Mutant of InsertResult: the row replaces the one the request already has.
UpsertResult(row) ==
  /\ ~InsertBlocked(row)
  /\ row.notification # NoId => Exists(row.notification)
  /\ history' = {h \in history : h.request = NoId \/ h.request # row.request}
                  \cup {row}
  /\ UNCHANGED <<status, subscription, erasing, captured, relogins>>

\* insert_result, flush and commit.
InsertResult(row) == /\ ~InsertBlocked(row)
                     /\ InsertAllowed(row)
                     /\ history' = history \cup {row}
                     /\ UNCHANGED <<status, subscription, erasing, captured, relogins>>

-----------------------------------------------------------------------------
\* DELETE /me, first half: get_current_user finds the user ACTIVE and
\* delete_history_for_user deletes the rows committed by now.
EraseHistory(u) ==
  /\ status[u] = "ACTIVE"
  /\ u \notin erasing
  /\ erasing' = erasing \cup {u}
  /\ captured' = captured \cup {h \in history : h.user = u}
  /\ UNCHANGED <<status, subscription, history, relogins>>

\* ON DELETE SET NULL of notification_history.notification_id.
SetNull(rows, ids) ==
  {IF h.notification \in ids THEN [h EXCEPT !.notification = NoId] ELSE h : h \in rows}

\* DELETE /me, second half: delete_all_for_user, soft_delete and the commit
\* of get_session.
CommitDeletion(u) ==
  LET owned == {n \in NotificationIds : NotificationOwner[n] = u /\ Exists(n)}
      mine  == {h \in captured : h.user = u}
  IN  /\ u \in erasing
      /\ erasing' = erasing \ {u}
      /\ captured' = captured \ mine
      /\ history' = SetNull(history \ mine, owned)
      /\ subscription' = [n \in NotificationIds |->
                            IF n \in owned THEN "deleted" ELSE subscription[n]]
      /\ status' = [status EXCEPT ![u] = "DELETED"]
      /\ UNCHANGED relogins

\* upsert_by_discord_id: logging in again brings a deleted account back.
Relogin(u) == /\ status[u] = "DELETED"
              /\ relogins < MaxRelogins
              /\ status' = [status EXCEPT ![u] = "ACTIVE"]
              /\ relogins' = relogins + 1
              /\ UNCHANGED <<subscription, history, erasing, captured>>

-----------------------------------------------------------------------------
(* The subscriptions an ACTIVE user writes through the API.                *)

\* POST /notifications/*: a row under an id above all others.
CreateSubscription(n) ==
  /\ subscription[n] = "unused"
  /\ \A m \in NotificationIds : subscription[m] # "unused" => m < n
  /\ status[NotificationOwner[n]] = "ACTIVE"
  /\ \E flag \in {"enabled", "disabled"} :
       subscription' = [subscription EXCEPT ![n] = flag]
  /\ UNCHANGED <<status, history, erasing, captured, relogins>>

\* PATCH /notifications/*/{id}: the owner of an existing row.
MayUpdate(n) == Exists(n) /\ status[NotificationOwner[n]] = "ACTIVE"

\* DELETE /notifications/{id}.  ON DELETE SET NULL waits for an open DELETE
\* that has locked the history rows.
RemoveSubscription(n) ==
  /\ MayUpdate(n)
  /\ \A h \in captured : h.notification # n
  /\ subscription' = [subscription EXCEPT ![n] = "deleted"]
  /\ history' = SetNull(history, {n})
  /\ UNCHANGED <<status, erasing, captured, relogins>>
=============================================================================
