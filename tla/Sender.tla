------------------------------- MODULE Sender -------------------------------
(***************************************************************************)
(* The bot's DM pipeline: one unbounded FIFO queue of SendDmTask and the   *)
(* single coroutine run_sender_worker that consumes it.  Jobs claim an id  *)
(* in an in-flight set before they put a task; the sender's finally block  *)
(* gives the id back.  Everything here except the database lives in the    *)
(* memory of the bot process.                                              *)
(*                                                                         *)
(* asyncio switches coroutines at an await that suspends, so each action   *)
(* runs from one such await to the next.                                   *)
(***************************************************************************)
EXTENDS Database

CONSTANTS Admins,   \* settings.admin_discord_ids, a sequence of Discord ids
          Faults,   \* what may go wrong in this instance
          MaxDms    \* bound: DMs per request while database faults repeat them

\* "discord": the send raises DiscordException; "unexpected": it raises
\* anything else; "ambiguous": either may happen after Discord delivered;
\* "db": a query or an INSERT fails; "crawler": a crawler reports failure;
\* "escape": a crawler raises what the job does not catch.
FaultKinds == {"discord", "unexpected", "ambiguous", "db", "crawler", "escape"}

AdminIds == {Admins[i] : i \in 1..Len(Admins)}

ASSUME FaultsAssumption == Faults \subseteq FaultKinds /\ MaxDms \in Nat
\* A Discord snowflake is no primary key of users.
ASSUME AdminsAssumption == /\ Admins \in Seq(AdminIds)
                           /\ AdminIds \cap Users = {}

MaxAttempts == 3    \* _MAX_ATTEMPTS

\* SendDmTask.  Both ids NoId: an administrator alert (F-22).
Task == {task \in [notification : NotificationIds \cup {NoId},
                   request      : RequestIds \cup {NoId},
                   user         : Users \cup AdminIds] :
           task.notification = NoId \/ task.request = NoId}

RequestTask(r) == [notification |-> NoId, request |-> r, user |-> RequestOwner[r]]
AdminTask(a)   == [notification |-> NoId, request |-> NoId, user |-> a]
NoTask         == [notification |-> NoId, request |-> NoId, user |-> NoId]

IsAdminTask(task) == task.notification = NoId /\ task.request = NoId

VARIABLES queue,                      \* asyncio.Queue[SendDmTask]
          sender,                     \* the worker coroutine
          in_flight,                  \* in_flight_notification_ids
          immediate_inflight,         \* immediate_send_inflight
          delivered                   \* DMs the user received per request (not
                                      \* in the code: what Discord did)

senderVars == <<queue, sender, in_flight, immediate_inflight, delivered>>

SenderState == [pc      : {"starting", "get", "guard", "send", "record", "finally"},
                task    : Task \cup {NoTask},
                attempt : 1..MaxAttempts,
                result  : {"SUCCESS", "FAILED"}]

\* Between queue.get() and the end of finally the sender holds a task.
Holding == sender.pc \in {"guard", "send", "record", "finally"}

SenderTypeOK == /\ queue \in Seq(Task)
                /\ sender \in SenderState
                /\ Holding => sender.task \in Task
                /\ in_flight \subseteq NotificationIds
                /\ immediate_inflight \subseteq RequestIds
                /\ delivered \in [RequestIds -> Nat]

IdleSender(pc) == [pc |-> pc, task |-> NoTask, attempt |-> 1, result |-> "FAILED"]

SenderInit == /\ queue = <<>>
              /\ sender = IdleSender("starting")
              /\ in_flight = {}
              /\ immediate_inflight = {}
              /\ delivered = [r \in RequestIds |-> 0]

-----------------------------------------------------------------------------
\* enqueue_admin_alerts: one task per administrator, in the settings' order.
AdminAlerts == [i \in 1..Len(Admins) |-> AdminTask(Admins[i])]

\* wait_until_ready returns.
Ready == /\ sender.pc = "starting"
         /\ sender' = IdleSender("get")
         /\ UNCHANGED <<queue, in_flight, immediate_inflight, delivered, dbVars>>

\* queue.get(); an administrator task skips the check of the user's status.
Get == /\ sender.pc = "get"
       /\ queue # <<>>
       /\ sender' = [pc      |-> IF IsAdminTask(Head(queue)) THEN "send" ELSE "guard",
                     task    |-> Head(queue),
                     attempt |-> 1,
                     result  |-> "FAILED"]
       /\ queue' = Tail(queue)
       /\ UNCHANGED <<in_flight, immediate_inflight, delivered, dbVars>>

\* get_user_status: send to an ACTIVE user, record user_deleted otherwise.
CheckUser ==
  /\ sender.pc = "guard"
  /\ sender' = [sender EXCEPT
       !.pc = IF status[sender.task.user] = "ACTIVE" THEN "send" ELSE "record"]
  /\ UNCHANGED <<queue, in_flight, immediate_inflight, delivered, dbVars>>

\* The recipient gets one more DM (counted for requests only).
Delivery == delivered' =
  IF sender.task.request = NoId THEN delivered
  ELSE [delivered EXCEPT ![sender.task.request] = @ + 1]

\* A failed send normally delivered nothing, but the failure may also be a
\* reply that was lost after Discord accepted the message.
FailedDelivery == \/ UNCHANGED delivered
                  \/ "ambiguous" \in Faults /\ Delivery

\* Mutant of SendSucceeds: the result keeps its initial value.
SendForgetsResult == /\ sender.pc = "send"
                     /\ Delivery
                     /\ sender' = [sender EXCEPT !.pc = "record"]
                     /\ UNCHANGED <<queue, in_flight, immediate_inflight, dbVars>>

\* send_embed returns.
SendSucceeds == /\ sender.pc = "send"
                /\ Delivery
                /\ sender' = [sender EXCEPT !.pc = "record", !.result = "SUCCESS"]
                /\ UNCHANGED <<queue, in_flight, immediate_inflight, dbVars>>

\* Mutant of SendFails: one attempt too many.
SendFailsOnceMore ==
  /\ sender.pc = "send"
  /\ "discord" \in Faults
  /\ FailedDelivery
  /\ sender' = IF sender.attempt <= MaxAttempts
                 THEN [sender EXCEPT !.attempt = @ + 1]
                 ELSE [sender EXCEPT !.pc = "record"]
  /\ UNCHANGED <<queue, in_flight, immediate_inflight, dbVars>>

\* send_embed raises DiscordException: back off and retry, or give up.
SendFails ==
  /\ sender.pc = "send"
  /\ "discord" \in Faults
  /\ FailedDelivery
  /\ sender' = IF sender.attempt < MaxAttempts
                 THEN [sender EXCEPT !.attempt = @ + 1]
                 ELSE [sender EXCEPT !.pc = "record"]
  /\ UNCHANGED <<queue, in_flight, immediate_inflight, dbVars>>

\* Mutant of SendRaises: whatever ends the loop counts as sent.
SendRaisesAsSuccess == /\ sender.pc = "send"
                       /\ "unexpected" \in Faults
                       /\ FailedDelivery
                       /\ sender' = [sender EXCEPT !.pc = "record", !.result = "SUCCESS"]
                       /\ UNCHANGED <<queue, in_flight, immediate_inflight, dbVars>>

\* send_embed raises anything else: unexpected_error, with no retry.
SendRaises == /\ sender.pc = "send"
              /\ "unexpected" \in Faults
              /\ FailedDelivery
              /\ sender' = [sender EXCEPT !.pc = "record"]
              /\ UNCHANGED <<queue, in_flight, immediate_inflight, dbVars>>

ResultRow == [notification |-> sender.task.notification,
              request      |-> sender.task.request,
              user         |-> sender.task.user,
              status       |-> sender.result]

\* insert_result and commit; the database has the row before the coroutine
\* runs on.
Record == /\ sender.pc = "record"
          /\ InsertResult(ResultRow)
          /\ sender' = [sender EXCEPT !.pc = "finally"]
          /\ UNCHANGED <<queue, in_flight, immediate_inflight, delivered>>

\* A query or the INSERT raises: run_sender_worker logs it and goes on to
\* finally without a history row.
RecordRejected == /\ sender.pc = "record"
                  /\ ~InsertBlocked(ResultRow)
                  /\ ~InsertAllowed(ResultRow)
                  /\ sender' = [sender EXCEPT !.pc = "finally"]
                  /\ UNCHANGED <<queue, in_flight, immediate_inflight, delivered, dbVars>>

DatabaseRaises == /\ sender.pc \in {"guard", "record"}
                  /\ "db" \in Faults
                  /\ \A r \in RequestIds : delivered[r] < MaxDms
                  /\ sender' = [sender EXCEPT !.pc = "finally"]
                  /\ UNCHANGED <<queue, in_flight, immediate_inflight, delivered, dbVars>>

\* Mutant of Release: the whole in-flight set is cleared.
ReleaseAll == /\ sender.pc = "finally"
              /\ in_flight' = in_flight \ {sender.task.notification}
              /\ immediate_inflight' = {}
              /\ sender' = IdleSender("get")
              /\ UNCHANGED <<queue, delivered, dbVars>>

\* finally: task_done and the two discards.
Release == /\ sender.pc = "finally"
           /\ in_flight' = in_flight \ {sender.task.notification}
           /\ immediate_inflight' = immediate_inflight \ {sender.task.request}
           /\ sender' = IdleSender("get")
           /\ UNCHANGED <<queue, delivered, dbVars>>

\* What the sender does by itself.
SenderStep == \/ Ready \/ Get \/ CheckUser
              \/ SendSucceeds \/ SendFails \/ SendRaises
              \/ Record \/ RecordRejected \/ DatabaseRaises
              \/ Release

\* The bot process ends, by shutdown or by a crash, and starts again: queue,
\* coroutine and in-flight sets are gone, the database is not.
SenderLost == /\ queue' = <<>>
              /\ sender' = IdleSender("starting")
              /\ in_flight' = {}
              /\ immediate_inflight' = {}
              /\ UNCHANGED delivered
=============================================================================
