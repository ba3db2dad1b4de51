--------------------------- MODULE ImmediateSend ----------------------------
(***************************************************************************)
(* "Send now": the API server inserts a row into immediate_send_requests,  *)
(* and three polling jobs of the bot (lunch, transit, library), which      *)
(* share the set immediate_send_inflight, turn pending rows into tasks of  *)
(* the Sender.  A row is pending while its owner is ACTIVE and             *)
(* notification_history has no row for it.                                 *)
(***************************************************************************)
EXTENDS Sender

CONSTANTS RequestType,    \* type of an immediate_send_requests row
          Jobs,           \* jobs whose clients main() could build
          PollLimit,      \* LIMIT of list_pending
          MaxRestarts     \* bound: restarts of the bot

Types == {"LUNCH", "TRANSIT", "LIBRARY"}

ASSUME TypeAssumption == RequestType \in [RequestIds -> Types]
ASSUME JobsAssumption == Jobs \subseteq Types
ASSUME BoundAssumption == PollLimit \in Nat /\ MaxRestarts \in Nat

VARIABLES requests,    \* a row: absent, accepted (the handler runs), committed
          job,         \* the run of each polling job (max_instances=1)
          restarts     \* how often the bot restarted

vars == <<dbVars, senderVars, requests, job, restarts>>

Job == [pc    : {"idle", "polled", "fetch", "fail", "failed"},
        rows  : SUBSET RequestIds,       \* still ahead of the for loop
        row   : RequestIds \cup {NoId},  \* the row in hand
        alert : BOOLEAN]                 \* the failure is reported to admins

IdleJob == [pc |-> "idle", rows |-> {}, row |-> NoId, alert |-> FALSE]

InHand(t, r) == job[t].pc \in {"fetch", "fail", "failed"} /\ job[t].row = r

TypeOK == /\ DbTypeOK
          /\ SenderTypeOK
          /\ requests \in [RequestIds -> {"absent", "accepted", "committed"}]
          /\ job \in [Types -> Job]
          /\ \A t \in Types :
               job[t].pc \in {"fetch", "fail", "failed"} => job[t].row \in RequestIds
          /\ restarts \in Nat

Init == /\ DbInit
        /\ SenderInit
        /\ requests = [r \in RequestIds |-> "absent"]
        /\ job = [t \in Types |-> IdleJob]
        /\ restarts = 0

-----------------------------------------------------------------------------
(* The API server.                                                         *)

\* POST /me/immediate-send/*: get_current_user finds the user ACTIVE.
Accept(r) == /\ requests[r] = "absent"
             /\ status[RequestOwner[r]] = "ACTIVE"
             /\ requests' = [requests EXCEPT ![r] = "accepted"]
             /\ UNCHANGED <<dbVars, senderVars, job, restarts>>

\* create() flushed the row and get_session commits it; nothing looks at the
\* user's status or at other rows again.
Commit(r) == /\ requests[r] = "accepted"
             /\ requests' = [requests EXCEPT ![r] = "committed"]
             /\ UNCHANGED <<dbVars, senderVars, job, restarts>>

\* DELETE /me and the OAuth2 login, as far as requests depend on them.
Delete(u) == EraseHistory(u) /\ UNCHANGED <<senderVars, requests, job, restarts>>
Deleted(u) == CommitDeletion(u) /\ UNCHANGED <<senderVars, requests, job, restarts>>
Return(u) == Relogin(u) /\ UNCHANGED <<senderVars, requests, job, restarts>>

-----------------------------------------------------------------------------
(* The polling jobs.                                                       *)

\* Mutant of Pending: without the LEFT JOIN on notification_history.
PendingAll(t) == {r \in RequestIds : /\ requests[r] = "committed"
                                     /\ RequestType[r] = t
                                     /\ status[RequestOwner[r]] = "ACTIVE"}

\* list_pending, up to its ORDER BY.
Pending(t) == {r \in RequestIds : /\ requests[r] = "committed"
                                  /\ RequestType[r] = t
                                  /\ status[RequestOwner[r]] = "ACTIVE"
                                  /\ ~Recorded(r)}

\* ORDER BY id LIMIT n
FirstRows(rows, n) == {r \in rows : Cardinality({q \in rows : q < r}) < n}

\* The SELECT of list_pending is evaluated; the job resumes later.
Poll(t) == /\ t \in Jobs
           /\ job[t].pc = "idle"
           /\ Pending(t) # {}
           /\ job' = [job EXCEPT ![t] =
                        [pc |-> "polled", row |-> NoId, alert |-> FALSE,
                         rows |-> FirstRows(Pending(t), PollLimit)]]
           /\ UNCHANGED <<dbVars, senderVars, requests, restarts>>

\* Mutant of Advance: the check of the in-flight set is missing.
AdvanceUnchecked(t, flight) ==
  LET free == job[t].rows
  IN  \/ /\ free = {}
         /\ job' = [job EXCEPT ![t] = IdleJob]
         /\ immediate_inflight' = flight
      \/ \E r \in free :
           /\ \A q \in free : r <= q
           /\ job' = [job EXCEPT ![t] =
                        [pc |-> "fetch", row |-> r, alert |-> FALSE,
                         rows |-> {q \in job[t].rows : q > r}]]
           /\ immediate_inflight' = flight \cup {r}

\* The for loop up to its next await: rows in flight are skipped, the next
\* free row is claimed.  flight is the in-flight set at this point.
Advance(t, flight) ==
  LET free == job[t].rows \ flight
  IN  \/ /\ free = {}
         /\ job' = [job EXCEPT ![t] = IdleJob]
         /\ immediate_inflight' = flight
      \/ \E r \in free :
           /\ \A q \in free : r <= q
           /\ job' = [job EXCEPT ![t] =
                        [pc |-> "fetch", row |-> r, alert |-> FALSE,
                         rows |-> {q \in job[t].rows : q > r}]]
           /\ immediate_inflight' = flight \cup {r}

Resume(t) == /\ job[t].pc = "polled"
             /\ Advance(t, immediate_inflight)
             /\ UNCHANGED <<dbVars, queue, sender, in_flight, delivered,
                            requests, restarts>>

\* The crawler answers: build the embed, put the task.
FetchSucceeds(t) == /\ job[t].pc = "fetch"
                    /\ queue' = Append(queue, RequestTask(job[t].row))
                    /\ Advance(t, immediate_inflight)
                    /\ UNCHANGED <<dbVars, sender, in_flight, delivered,
                                   requests, restarts>>

\* An exception the loop does not catch ends the run of the job; the row in
\* hand stays in immediate_send_inflight.  It is one of the database or of
\* Redis: every BotException of the crawlers is caught in the loop, so that
\* the alerts of the except clause behind it stay out.
JobRaises(t) == /\ job' = [job EXCEPT ![t] = IdleJob]
                /\ UNCHANGED <<dbVars, senderVars, requests, restarts>>

\* Mutant of FetchFails: the crawler's exception is not caught in the loop.
FetchFailsUncaught(t) == /\ job[t].pc = "fetch"
                         /\ "crawler" \in Faults
                         /\ JobRaises(t)

\* The crawler fails, or answers without the requested reading room (which
\* only the library job can see, and reports to nobody).
FetchFails(t) ==
  /\ job[t].pc = "fetch"
  /\ \E alert \in BOOLEAN :
       /\ IF alert THEN "crawler" \in Faults ELSE t = "LIBRARY"
       /\ job' = [job EXCEPT ![t] = [@ EXCEPT !.pc = "fail", !.alert = alert]]
  /\ UNCHANGED <<dbVars, senderVars, requests, restarts>>

FetchRaises(t) == job[t].pc = "fetch" /\ "escape" \in Faults /\ JobRaises(t)

FailureRow(r) == [notification |-> NoId, request |-> r,
                  user |-> RequestOwner[r], status |-> "FAILED"]

\* The job itself inserts the FAILED row and commits.
RecordFailure(t) ==
  /\ job[t].pc = "fail"
  /\ InsertResult(FailureRow(job[t].row))
  /\ job' = [job EXCEPT ![t].pc = "failed"]
  /\ UNCHANGED <<senderVars, requests, restarts>>

FailureRejected(t) ==
  /\ job[t].pc = "fail"
  /\ ~InsertBlocked(FailureRow(job[t].row))
  /\ \/ ~InsertAllowed(FailureRow(job[t].row))
     \/ "db" \in Faults
  /\ JobRaises(t)

\* After the commit: discard the row, alert the administrators, go on.
FinishFailure(t) ==
  /\ job[t].pc = "failed"
  /\ queue' = IF job[t].alert THEN queue \o AdminAlerts ELSE queue
  /\ Advance(t, immediate_inflight \ {job[t].row})
  /\ UNCHANGED <<dbVars, sender, in_flight, delivered, requests, restarts>>

JobStep(t) == \/ Poll(t) \/ Resume(t) \/ FetchSucceeds(t) \/ FetchFails(t)
              \/ FetchRaises(t) \/ RecordFailure(t) \/ FailureRejected(t)
              \/ FinishFailure(t)

Restart == /\ restarts < MaxRestarts
           /\ restarts' = restarts + 1
           /\ SenderLost
           /\ job' = [t \in Types |-> IdleJob]
           /\ UNCHANGED <<dbVars, requests>>

SenderRuns == SenderStep /\ UNCHANGED <<requests, job, restarts>>

Next == \/ \E r \in RequestIds : Accept(r) \/ Commit(r)
        \/ \E u \in Users : Delete(u) \/ Deleted(u) \/ Return(u)
        \/ \E t \in Types : JobStep(t)
        \/ SenderRuns
        \/ Restart

Spec == Init /\ [][Next]_vars

\* APScheduler fires every job again and again, asyncio runs every ready
\* coroutine, and the API server finishes the transactions it opened.
Fairness == /\ WF_vars(SenderRuns)
            /\ \A t \in Types : WF_vars(JobStep(t))
            /\ \A r \in RequestIds : WF_vars(Commit(r))
            /\ \A u \in Users : WF_vars(Deleted(u))

FairSpec == Spec /\ Fairness

-----------------------------------------------------------------------------
(* Properties.                                                             *)

Busy(r) == Holding /\ sender.task.request = r
Queued(r) == \E i \in 1..Len(queue) : queue[i].request = r
Live(r) == Busy(r) \/ Queued(r) \/ \E t \in Types : InHand(t, r)

\* A request has at most one copy between the claim of a job and the finally
\* block of the sender: in the hand of one job, at one place of the queue, or
\* with the sender.  The jobs read list_pending long before they act on it,
\* so only the claim in immediate_send_inflight can prevent a second copy.
SingleLiveCopy ==
  /\ \A i, j \in 1..Len(queue) :
       queue[i].request \in RequestIds /\ queue[i].request = queue[j].request => i = j
  /\ \A r \in RequestIds :
       /\ Queued(r) => ~Busy(r) /\ \A t \in Types : ~InHand(t, r)
       /\ Busy(r) => \A t \in Types : ~InHand(t, r)
       /\ \A s, t \in Types : InHand(s, r) /\ InHand(t, r) => s = t

\* Whatever is on its way to the user is claimed (the comment on the sets in
\* main()), so that no job picks it up again.
InflightCoversPipeline == \A r \in RequestIds : Live(r) => r \in immediate_inflight

\* A claimed request is on its way, or its fate is recorded, or its owner has
\* left: no request is claimed for good and never sent.
NoStrandedRequest ==
  \A r \in immediate_inflight :
    Live(r) \/ Recorded(r) \/ status[RequestOwner[r]] = "DELETED"

\* How often one task can reach the user: once, or with every attempt when a
\* reply of Discord can be lost.
PerTask == IF "ambiguous" \in Faults THEN MaxAttempts ELSE 1

\* A restart between the send and the commit repeats a DM; so does a job
\* whose list_pending answer is older than the sender's commit and release,
\* once; and so does every return of a deleted account, twice.  Nothing else,
\* as long as the database stores the rows.
DmsBounded == \A r \in RequestIds :
                delivered[r] <= PerTask * (2 + restarts + 2 * relogins)

\* notification_history tells the truth: a SUCCESS row means the user got the
\* DM, and no FAILED row is written for a request the user has the DM of,
\* unless the bot restarted or the user left in between.
SuccessIsTrue == \A h \in history : h.status = "SUCCESS" /\ h.request # NoId
                                      => delivered[h.request] > 0
FailureIsTrueWhenRecorded ==
  [][\A h \in history' \ history :
       h.status = "FAILED" /\ h.request # NoId
         => \/ delivered[h.request] = 0
            \/ restarts + relogins > 0
            \/ status[h.user] = "DELETED"]_vars

\* A recorded fate is final: a row of notification_history for a request
\* never changes, and only the deletion of the account removes it.
FateIsFinal ==
  [][\A h \in history : h.request # NoId /\ h \notin history'
       => status'[h.user] = "DELETED"]_vars

\* Every request whose owner stays and whose job runs is answered: by a DM
\* or by a FAILED row.
EveryRequestAnswered ==
  \A r \in RequestIds :
    requests[r] = "committed" /\ RequestType[r] \in Jobs
      ~> Recorded(r) \/ status[RequestOwner[r]] = "DELETED"

=============================================================================
