---------------------------- MODULE SenderProofs ----------------------------
(***************************************************************************)
(* Lemmas about the Database and the Sender that the proofs of the modules *)
(* built on them share: the tables and the pipeline keep their types.      *)
(***************************************************************************)
EXTENDS Sender, SequenceTheorems, TLAPS

USE IdsAssumption, OwnerAssumption, ReloginAssumption, FaultsAssumption,
    AdminsAssumption

-----------------------------------------------------------------------------
\* enqueue_admin_alerts puts well-formed administrator tasks.
LEMMA AdminAlertsType ==
  /\ AdminAlerts \in Seq(Task)
  /\ Len(AdminAlerts) = Len(Admins)
  /\ \A i \in 1..Len(AdminAlerts) : AdminAlerts[i].request = NoId
<1>1. \A i \in 1..Len(Admins) : AdminTask(Admins[i]) \in Task
  BY DEF AdminTask, Task, AdminIds
<1>2. Len(Admins) \in Nat
  BY LenProperties
<1>3. AdminAlerts \in Seq(Task)
  BY <1>1, <1>2, IsASeq DEF AdminAlerts
<1>4. Len(AdminAlerts) = Len(Admins)
  BY <1>2, <1>3, LenProperties DEF AdminAlerts
<1> QED
  BY <1>3, <1>4 DEF AdminAlerts, AdminTask

\* A committed INSERT of a well-formed row keeps the tables well-formed.
LEMMA InsertKeepsDbType ==
  ASSUME DbTypeOK, NEW row \in Row, InsertResult(row)
  PROVE  DbTypeOK'
BY DEF DbTypeOK, InsertResult

\* Nulling the notification_id of a row keeps it a row.
LEMMA SetNullType ==
  ASSUME NEW rows \in SUBSET Row, NEW ids
  PROVE  SetNull(rows, ids) \subseteq Row
<1> SUFFICES ASSUME NEW h \in rows
             PROVE  [h EXCEPT !.notification = NoId] \in Row
  BY DEF SetNull
<1> QED
  BY DEF Row

LEMMA AccountKeepsDbType ==
  ASSUME DbTypeOK, NEW u \in Users,
         EraseHistory(u) \/ CommitDeletion(u) \/ Relogin(u)
  PROVE  DbTypeOK'
<1>1. CASE EraseHistory(u)
  BY <1>1 DEF DbTypeOK, EraseHistory
<1>2. CASE CommitDeletion(u)
  <2> DEFINE mine == {h \in captured : h.user = u}
             owned == {n \in NotificationIds : NotificationOwner[n] = u /\ Exists(n)}
  <2>1. SetNull(history \ mine, owned) \subseteq Row
    BY SetNullType DEF DbTypeOK
  <2> QED
    BY <1>2, <2>1 DEF DbTypeOK, CommitDeletion
<1>3. CASE Relogin(u)
  BY <1>3 DEF DbTypeOK, Relogin
<1> QED
  BY <1>1, <1>2, <1>3

LEMMA ResultRowType ==
  ASSUME SenderTypeOK, Holding, sender.task.user \in Users
  PROVE  ResultRow \in Row
BY DEF SenderTypeOK, SenderState, ResultRow, Row, Task

LEMMA SenderStepKeepsType ==
  ASSUME DbTypeOK, SenderTypeOK, SenderStep
  PROVE  DbTypeOK' /\ SenderTypeOK'
<1> USE DEF SenderTypeOK, SenderState, Holding, dbVars, MaxAttempts
<1>0. UNCHANGED dbVars => DbTypeOK'
  BY DEF DbTypeOK
<1>1. CASE Ready
  BY <1>0, <1>1 DEF Ready, IdleSender
<1>2. CASE Get
  <2>1. Head(queue) \in Task /\ Tail(queue) \in Seq(Task)
    BY <1>2, HeadTailProperties DEF Get
  <2> QED
    BY <1>0, <1>2, <2>1 DEF Get
<1>3. CASE CheckUser
  BY <1>0, <1>3 DEF CheckUser
<1>4. Holding /\ (Delivery \/ FailedDelivery) => delivered' \in [RequestIds -> Nat]
  BY DEF Delivery, FailedDelivery, Task
<1>5. CASE SendSucceeds
  BY <1>0, <1>4, <1>5 DEF SendSucceeds
<1>6. CASE SendFails
  <2>1. delivered' \in [RequestIds -> Nat]
    BY <1>4, <1>6 DEF SendFails
  <2>2. sender' \in SenderState
    <3>1. CASE sender.attempt < 3
      <4>1. sender.attempt + 1 \in 1..3
        BY <3>1
      <4> QED
        BY <1>6, <3>1, <4>1 DEF SendFails
    <3>2. CASE ~(sender.attempt < 3)
      BY <1>6, <3>2 DEF SendFails
    <3> QED
      BY <3>1, <3>2
  <2>3. sender'.task = sender.task
    BY <1>6 DEF SendFails
  <2> QED
    BY <1>0, <1>6, <2>1, <2>2, <2>3 DEF SendFails
<1>7. CASE SendRaises
  BY <1>0, <1>4, <1>7 DEF SendRaises
<1>8. CASE Record
  <2>1. ResultRow \in Row
    BY <1>8, ResultRowType DEF Record, InsertResult, InsertAllowed, ResultRow
  <2> QED
    BY <1>8, <2>1, InsertKeepsDbType DEF Record
<1>9. CASE RecordRejected \/ DatabaseRaises
  BY <1>0, <1>9 DEF RecordRejected, DatabaseRaises
<1>10. CASE Release
  <2>1. sender' = [pc |-> "get", task |-> NoTask, attempt |-> 1, result |-> "FAILED"]
    BY <1>10 DEF Release, IdleSender
  <2>2. sender' \in SenderState /\ ~Holding'
    BY <2>1
  <2> QED
    BY <1>0, <1>10, <2>2 DEF Release
<1> QED
  BY <1>1, <1>2, <1>3, <1>5, <1>6, <1>7, <1>8, <1>9, <1>10 DEF SenderStep

\* The API's writes of subscriptions.
LEMMA SubscriptionKeepsDbType ==
  ASSUME DbTypeOK, NEW n \in NotificationIds,
         CreateSubscription(n) \/ RemoveSubscription(n)
  PROVE  DbTypeOK'
<1>1. CASE CreateSubscription(n)
  BY <1>1 DEF DbTypeOK, CreateSubscription
<1>2. CASE RemoveSubscription(n)
  <2>1. SetNull(history, {n}) \subseteq Row
    BY SetNullType DEF DbTypeOK
  <2> QED
    BY <1>2, <2>1 DEF DbTypeOK, RemoveSubscription
<1> QED
  BY <1>1, <1>2

\* A restart leaves an idle sender and an empty queue.
LEMMA SenderLostType ==
  ASSUME SenderTypeOK, SenderLost
  PROVE  SenderTypeOK'
BY DEF SenderTypeOK, SenderLost, SenderState, IdleSender, MaxAttempts, Holding
=============================================================================
