----------------------------- MODULE LibraryJob -----------------------------
(***************************************************************************)
(* run_library_job (F-13, F-14): every tick reads the enabled LIBRARY      *)
(* subscriptions and one snapshot of the reading rooms, and puts an alert  *)
(* for every subscription whose room has dropped to the threshold.  The    *)
(* last evaluation is kept in Redis under library_alert:{user}:{room}, so  *)
(* that a room that stays low is reported once.                            *)
(*                                                                         *)
(* The job (max_instances=1), the Sender, the API server and the reading   *)
(* rooms run concurrently.                                                 *)
(***************************************************************************)
EXTENDS Sender

CONSTANTS Rooms,      \* reading_room_id
          MaxSeats,   \* bound: most free seats in a room
          Absent,     \* the answer of the library leaves the room out
          Troubles,   \* what may go wrong around the job in this instance
          MaxEvents   \* bound: steps of users and rooms, faults of the job

\* "redis": a command raises RedisError; "expiry": a state key reaches the
\* end of its TTL of 24 h; "restart": the bot restarts.
TroubleKinds == {"redis", "expiry", "restart"}

Levels == 0..MaxSeats

ASSUME SeatsAssumption == MaxSeats \in Nat /\ Absent \notin Nat
ASSUME TroublesAssumption == Troubles \subseteq TroubleKinds /\ MaxEvents \in Nat

VARIABLES alert_state,  \* Redis: library_alert:{user_id}:{room_id}
          library,      \* the run of run_library_job
          config,       \* notifications.config
          seats,        \* free seats per room, as fetch_seats answers (its
                        \* cache of 15 s included)
          phase,        \* what became of the alert of a subscription for a
                        \* room since the last recovery (not in the code)
          events        \* steps counted against MaxEvents

envVars == <<config, seats>>
vars == <<dbVars, senderVars, alert_state, library, envVars, phase, events>>

Config == [room : Rooms, threshold : Levels]

\* A row of list_active_subscriptions_with_user.
Sub == [id : NotificationIds, config : Config]

Snapshots == [Rooms -> Levels \cup {Absent}]

Library == [pc       : {"idle", "listed", "loop", "mark"},
            subs     : SUBSET Sub,          \* not finished in the for loop
            snapshot : Snapshots,
            mark     : {"above", "below"}]  \* the state about to be SET

IdleLibrary == [pc |-> "idle", subs |-> {}, mark |-> "above",
                snapshot |-> [r \in Rooms |-> Absent]]

\* "quiet": no alert yet, or evaluated above since; "queued": put on the queue;
\* "told": the sender is done with it; "unmarked": put, but its mark was lost.
Phases == {"quiet", "queued", "told", "unmarked"}

LibTypeOK == /\ DbTypeOK
             /\ SenderTypeOK
             /\ alert_state \in [Users \X Rooms -> {"none", "above", "below"}]
             /\ library \in Library
             /\ library.pc # "idle" => library.subs # {}
             /\ config \in [NotificationIds -> Config]
             /\ seats \in Snapshots
             /\ phase \in [NotificationIds \X Rooms -> Phases]
             /\ events \in Nat

Init == /\ DbInit
        /\ SenderInit
        /\ alert_state = [k \in Users \X Rooms |-> "none"]
        /\ library = IdleLibrary
        /\ config \in [NotificationIds -> Config]
        /\ seats \in Snapshots
        /\ phase = [k \in NotificationIds \X Rooms |-> "quiet"]
        /\ events = 0

Counted == events < MaxEvents /\ events' = events + 1

-----------------------------------------------------------------------------
(* One tick of the job.                                                    *)

\* Mutant of Key: all users share the key of a room.
KeyOfRoom(sub) == <<CHOOSE u \in Users : TRUE, sub.config.room>>

Key(sub) == <<NotificationOwner[sub.id], sub.config.room>>
Cell(sub) == <<sub.id, sub.config.room>>

\* ORDER BY id
InHand(sub) == sub \in library.subs /\ \A other \in library.subs : sub.id <= other.id

\* Mutant of Leave: the loop goes on behind the last row.
LeaveOpen(sub) ==
  library' = [library EXCEPT !.pc = "loop", !.subs = @ \ {sub}, !.mark = "above"]

\* The loop goes on behind sub, or the run ends.
Leave(sub) ==
  library' = IF library.subs = {sub} THEN IdleLibrary
             ELSE [library EXCEPT !.pc = "loop", !.subs = @ \ {sub}, !.mark = "above"]

\* The SELECT; with no subscription the run ends before it asks the library.
Poll == LET subs == {[id |-> n, config |-> config[n]] : n \in
                       {n \in NotificationIds : Listed(n)}}
        IN  /\ library.pc = "idle"
            /\ subs # {}
            /\ library' = [library EXCEPT !.pc = "listed", !.subs = subs]
            /\ UNCHANGED <<dbVars, senderVars, alert_state, envVars, phase, events>>

\* fetch_seats answers.
Snapshot == /\ library.pc = "listed"
            /\ library' = [library EXCEPT !.pc = "loop", !.snapshot = seats]
            /\ UNCHANGED <<dbVars, senderVars, alert_state, envVars, phase, events>>

\* LibraryCrawlerFailed ends the run and alerts the administrators.
SnapshotFails == /\ library.pc = "listed"
                 /\ "crawler" \in Faults
                 /\ Counted
                 /\ queue' = queue \o AdminAlerts
                 /\ library' = IdleLibrary
                 /\ UNCHANGED <<dbVars, sender, in_flight, immediate_inflight,
                                delivered, alert_state, envVars, phase>>

Known(sub) == library.snapshot[sub.config.room] # Absent
Low(sub) == library.snapshot[sub.config.room] <= sub.config.threshold

\* A missing key counts as above.
WasLow(sub) == alert_state[Key(sub)] = "below"

\* At the SELECT of sub's turn in the loop.
Turn(sub) == library.pc = "loop" /\ InHand(sub)

Put(sub) == queue' = Append(queue, [notification |-> sub.id, request |-> NoId,
                                    user |-> NotificationOwner[sub.id]])

\* Mutant of Alert: the stored state is not looked at.
AlertAlways(sub) ==
  /\ Turn(sub) /\ Known(sub) /\ Low(sub)
  /\ Put(sub)
  /\ library' = [library EXCEPT !.pc = "mark", !.mark = "below"]
  /\ phase' = [phase EXCEPT ![Cell(sub)] = "queued"]
  /\ UNCHANGED <<dbVars, sender, in_flight, immediate_inflight, delivered,
                 alert_state, envVars, events>>

\* The GET and what follows up to the SET: the room has dropped, so the alert
\* is put first and the state is stored next.
Alert(sub) ==
  /\ Turn(sub) /\ Known(sub) /\ Low(sub) /\ ~WasLow(sub)
  /\ Put(sub)
  /\ library' = [library EXCEPT !.pc = "mark", !.mark = "below"]
  /\ phase' = [phase EXCEPT ![Cell(sub)] = "queued"]
  /\ UNCHANGED <<dbVars, sender, in_flight, immediate_inflight, delivered,
                 alert_state, envVars, events>>

\* Mutant of Recover: a recovery leaves the stored state alone.
RecoverUnseen(sub) == /\ Turn(sub) /\ Known(sub) /\ ~Low(sub) /\ WasLow(sub)
                      /\ Leave(sub)
                      /\ phase' = [phase EXCEPT ![Cell(sub)] = "quiet"]
                      /\ UNCHANGED <<dbVars, senderVars, alert_state, envVars, events>>

\* The room has recovered: only the state is stored.
Recover(sub) == /\ Turn(sub) /\ Known(sub) /\ ~Low(sub) /\ WasLow(sub)
                /\ library' = [library EXCEPT !.pc = "mark", !.mark = "above"]
                /\ phase' = [phase EXCEPT ![Cell(sub)] = "quiet"]
                /\ UNCHANGED <<dbVars, senderVars, alert_state, envVars, events>>

\* Nothing to do for sub: no such room, still low, or still above.
Skip(sub) == /\ Turn(sub)
             /\ Known(sub) => (Low(sub) <=> WasLow(sub))
             /\ Leave(sub)
             /\ phase' = IF Known(sub) /\ ~Low(sub)
                           THEN [phase EXCEPT ![Cell(sub)] = "quiet"] ELSE phase
             /\ UNCHANGED <<dbVars, senderVars, alert_state, envVars, events>>

\* The SET.
Mark(sub) == /\ library.pc = "mark" /\ InHand(sub)
             /\ alert_state' = [alert_state EXCEPT ![Key(sub)] = library.mark]
             /\ Leave(sub)
             /\ UNCHANGED <<dbVars, senderVars, envVars, phase, events>>

\* An alert is on the queue and its mark is not stored yet.
MarkDue(k) == /\ library.pc = "mark" /\ library.mark = "below"
              /\ \E sub \in library.subs : InHand(sub) /\ Cell(sub) = k

MarkLost == phase' = [k \in NotificationIds \X Rooms |->
                        IF MarkDue(k) THEN "unmarked" ELSE phase[k]]

\* A Redis command raises: neither except clause of the job catches it.  The
\* command may still have been executed.
RedisRaises ==
  /\ library.pc # "idle"
  /\ "redis" \in Troubles
  /\ Counted
  /\ library' = IdleLibrary
  /\ \/ UNCHANGED alert_state /\ MarkLost
     \/ /\ library.pc = "mark"
        /\ \E sub \in library.subs :
             /\ InHand(sub)
             /\ alert_state' = [alert_state EXCEPT ![Key(sub)] = library.mark]
        /\ UNCHANGED phase
  /\ UNCHANGED <<dbVars, senderVars, envVars>>

LibraryStep == \/ Poll \/ Snapshot
               \/ \E sub \in library.subs :
                    Alert(sub) \/ Recover(sub) \/ Skip(sub) \/ Mark(sub)

-----------------------------------------------------------------------------
(* Everything around the job.                                              *)

SenderRuns ==
  /\ SenderStep
  /\ phase' = [k \in NotificationIds \X Rooms |->
                 IF /\ sender.pc = "finally" /\ sender.task.notification = k[1]
                    /\ phase[k] = "queued"
                   THEN "told" ELSE phase[k]]
  /\ UNCHANGED <<alert_state, library, envVars, events>>

\* EX 86400 runs out; an alert it stood for may be repeated.
Expire(k) ==
  /\ "expiry" \in Troubles
  /\ alert_state[k] # "none"
  /\ Counted
  /\ alert_state' = [alert_state EXCEPT ![k] = "none"]
  /\ phase' = [c \in NotificationIds \X Rooms |->
                 IF /\ <<NotificationOwner[c[1]], c[2]>> = k
                    /\ phase[c] \in {"queued", "told"} /\ ~MarkDue(c)
                   THEN "unmarked" ELSE phase[c]]
  /\ UNCHANGED <<dbVars, senderVars, library, envVars>>

Restart == /\ "restart" \in Troubles
           /\ Counted
           /\ SenderLost
           /\ library' = IdleLibrary
           /\ MarkLost
           /\ UNCHANGED <<dbVars, alert_state, envVars>>

\* Readers come and go.
SeatsChange(r, level) == /\ Counted
                         /\ seats' = [seats EXCEPT ![r] = level]
                         /\ UNCHANGED <<dbVars, senderVars, alert_state, library,
                                        config, phase>>

\* POST and PATCH /notifications/library, DELETE /notifications/{id}.
Subscribe(n, c) == /\ Counted
                   /\ CreateSubscription(n)
                   /\ config' = [config EXCEPT ![n] = c]
                   /\ UNCHANGED <<senderVars, alert_state, library, seats, phase>>

Edit(n, flag, c) == /\ Counted
                    /\ MayUpdate(n)
                    /\ subscription' = [subscription EXCEPT ![n] = flag]
                    /\ config' = [config EXCEPT ![n] = c]
                    /\ UNCHANGED <<status, history, erasing, captured, relogins,
                                   senderVars, alert_state, library, seats, phase>>

Unsubscribe(n) == /\ Counted
                  /\ RemoveSubscription(n)
                  /\ UNCHANGED <<senderVars, alert_state, library, envVars, phase>>

\* DELETE /me and the return of the user.
Account(u) == /\ EraseHistory(u) \/ CommitDeletion(u) \/ Relogin(u)
              /\ UNCHANGED <<senderVars, alert_state, library, envVars, phase, events>>

Next == \/ LibraryStep \/ SnapshotFails \/ RedisRaises
        \/ SenderRuns
        \/ \E k \in Users \X Rooms : Expire(k)
        \/ Restart
        \/ \E r \in Rooms, level \in Levels \cup {Absent} : SeatsChange(r, level)
        \/ \E n \in NotificationIds :
             \/ \E c \in Config : \/ Subscribe(n, c)
                                  \/ \E flag \in {"enabled", "disabled"} : Edit(n, flag, c)
             \/ Unsubscribe(n)
        \/ \E u \in Users : Account(u)

Spec == Init /\ [][Next]_vars

\* APScheduler keeps firing the job and asyncio runs what is ready.
FairSpec == Spec /\ WF_vars(LibraryStep) /\ WF_vars(SenderRuns)

-----------------------------------------------------------------------------
(* Properties.                                                             *)

\* The step that puts an alert of subscription k[1] about room k[2].
Alerting(k) == /\ library.pc = "loop"
               /\ library'.pc = "mark" /\ library'.mark = "below"
               /\ \E sub \in library.subs : InHand(sub) /\ Cell(sub) = k

\* F-14: a subscription is alerted about a room only if it was not before, or
\* was evaluated above its threshold since, or the mark of the last alert got
\* lost (Redis failed, the key expired, the bot restarted before the SET):
\* each loss repeats one alert, and nothing else does.
NoRepeatBeforeRecovery ==
  [][\A k \in NotificationIds \X Rooms :
       Alerting(k) => phase[k] \notin {"queued", "told"}]_vars

\* Between the queue and Redis no alert is forgotten: what was reported and
\* has not recovered is marked below, or the SET that marks it is due.  (Each
\* user has one subscription here; see NoResendWhileLow.)
AlertsAreMarked ==
  \A k \in NotificationIds \X Rooms :
    phase[k] \in {"queued", "told"} =>
      alert_state[<<NotificationOwner[k[1]], k[2]>>] = "below" \/ MarkDue(k)

\* F-13: when an enabled subscription's room is at or under the threshold, it
\* comes to an alert the sender has dealt with, or the room recovers.
Dip(n, r) == /\ Listed(n)
             /\ config[n].room = r
             /\ seats[r] # Absent
             /\ seats[r] <= config[n].threshold

EveryDipReported ==
  \A n \in NotificationIds, r \in Rooms :
    Dip(n, r) ~> phase[<<n, r>>] = "told" \/ ~Dip(n, r)

-----------------------------------------------------------------------------
(* What a comment says of the code, and the code does not do.              *)

\* The module's docstring: without a recovery no alert is sent again.
NoResendWhileLow ==
  [][\A k \in NotificationIds \X Rooms :
       Alerting(k) => phase[k] \notin {"queued", "told", "unmarked"}]_vars
=============================================================================
