------------------------------ MODULE LunchJob ------------------------------
(***************************************************************************)
(* run_lunch_job (F-11): a tick every 60 s; each enabled LUNCH             *)
(* subscription is announced in the 180 s that start at its notify_at,     *)
(* once per day of Seoul, which the Redis key lunch_sent:{id}:{date}       *)
(* ensures.  The key is stored before the task is put.                     *)
(*                                                                         *)
(* Time is counted in units finer than a tick, because notify_at and the   *)
(* phase of the ticks are independent of each other.                       *)
(***************************************************************************)
EXTENDS Sender

CONSTANTS DayLength,  \* bound: units of a day
          Period,     \* LUNCH_TICK_SECONDS, in units
          Grace,      \* _NOTIFY_AT_GRACE_SECONDS, in units
          MaxDays,    \* bound: days
          Troubles,   \* what may go wrong around the job in this instance
          MaxEvents   \* bound: troubles and steps of users

\* "redis": a command raises RedisError; "restart": the bot restarts; "slow":
\* a run outlasts its unit, or the trigger misfires.
TroubleKinds == {"redis", "restart", "slow"}

ASSUME TimeAssumption == /\ {DayLength, Period, Grace} \subseteq Nat \ {0}
                         /\ MaxDays \in Nat /\ MaxEvents \in Nat
ASSUME TroublesAssumption == Troubles \subseteq TroubleKinds

VARIABLES day, time,  \* the clock of Seoul
          due,        \* units until the trigger fires
          lunch,      \* the run of run_lunch_job
          sent_keys,  \* Redis: lunch_sent:{id}:{date}
          notify_at,  \* notifications.config
          announced,  \* tasks put per subscription and day (not in the code)
          lost,       \* keys stored whose task was never put (not in the code)
          steady,     \* subscriptions enabled and untouched all day
          setbacks,   \* ticks of the day that something disturbed
          events      \* steps counted against MaxEvents

clockVars == <<day, time, due>>
ghostVars == <<announced, lost, steady, setbacks>>
vars == <<dbVars, senderVars, clockVars, lunch, sent_keys, notify_at, ghostVars, events>>

Days  == 0..MaxDays
Times == 0..(DayLength - 1)

\* A row of list_active_subscriptions_with_user.
Sub == [id : NotificationIds, notify_at : Times]

Lunch == [pc    : {"idle", "list", "loop", "fetch", "put"},
          subs  : SUBSET Sub,   \* not finished in the for loop
          date  : Days,         \* kst_date and now_kst of the tick
          at    : Times,
          alert : BOOLEAN]      \* _last_crawler_exc is set

IdleLunch == [pc |-> "idle", subs |-> {}, date |-> 0, at |-> 0, alert |-> FALSE]

LunchTypeOK == /\ DbTypeOK
               /\ SenderTypeOK
               /\ day \in Days /\ time \in Times /\ due \in 0..Period
               /\ lunch \in Lunch
               /\ lunch.pc \in {"loop", "fetch", "put"} => lunch.subs # {}
               /\ sent_keys \subseteq NotificationIds \X Days
               /\ notify_at \in [NotificationIds -> Times]
               /\ announced \in [NotificationIds \X Days -> Nat]
               /\ lost \subseteq NotificationIds \X Days
               /\ steady \subseteq NotificationIds
               /\ setbacks \in Nat /\ events \in Nat

ListedIds == {n \in NotificationIds : Listed(n)}

\* A midnight; the bot has been running for a while.
Init == /\ DbInit
        /\ SenderInit
        /\ day = 0 /\ time = 0 /\ due \in 0..(Period - 1)
        /\ lunch = IdleLunch
        /\ sent_keys = {}
        /\ notify_at \in [NotificationIds -> Times]
        /\ announced = [k \in NotificationIds \X Days |-> 0]
        /\ lost = {}
        /\ steady = ListedIds
        /\ setbacks = 0
        /\ events = 0

Counted == events < MaxEvents /\ events' = events + 1
Setback == Counted /\ setbacks' = setbacks + 1

-----------------------------------------------------------------------------
(* The clock and the trigger.                                              *)

\* A run ends within its unit unless "slow" is one of the troubles.
Advance == /\ due > 0
           /\ lunch.pc = "idle" \/ "slow" \in Troubles
           /\ due' = due - 1
           /\ IF time + 1 < DayLength
                THEN time' = time + 1 /\ UNCHANGED <<day, steady, setbacks>>
                ELSE /\ day < MaxDays
                     /\ time' = 0
                     /\ day' = day + 1
                     /\ steady' = ListedIds
                     /\ setbacks' = 0
           /\ UNCHANGED <<dbVars, senderVars, lunch, sent_keys, notify_at, announced,
                          lost, events>>

\* The trigger fires: the run takes the time and opens its session.
Tick == /\ due = 0
        /\ lunch.pc = "idle"
        /\ due' = Period
        /\ lunch' = [IdleLunch EXCEPT !.pc = "list", !.date = day, !.at = time]
        /\ UNCHANGED <<dbVars, senderVars, day, time, sent_keys, notify_at, ghostVars,
                       events>>

\* max_instances=1 or misfire_grace_time drops a tick.
DropTick == /\ due = 0
            /\ "slow" \in Troubles
            /\ Setback
            /\ due' = Period
            /\ UNCHANGED <<dbVars, senderVars, day, time, lunch, sent_keys, notify_at,
                           announced, lost, steady>>

-----------------------------------------------------------------------------
(* The run.                                                                *)

\* ORDER BY id
InHand(sub) == sub \in lunch.subs /\ \A other \in lunch.subs : sub.id <= other.id

\* Mutant of Leave: the loop goes on behind the last row.
LeaveOpen(sub, before, alert) ==
  /\ lunch' = [lunch EXCEPT !.pc = "loop", !.subs = @ \ {sub}, !.alert = alert]
  /\ queue' = before

\* The loop goes on behind sub, or the run ends and, if a crawler failed,
\* alerts the administrators once.  before: the queue with what sub put.
Leave(sub, before, alert) ==
  IF lunch.subs = {sub}
    THEN /\ lunch' = IdleLunch
         /\ queue' = IF alert THEN before \o AdminAlerts ELSE before
    ELSE /\ lunch' = [lunch EXCEPT !.pc = "loop", !.subs = @ \ {sub}, !.alert = alert]
         /\ queue' = before

pipelineRest == <<sender, in_flight, immediate_inflight, delivered>>

List == LET subs == {[id |-> n, notify_at |-> notify_at[n]] : n \in ListedIds}
        IN  /\ lunch.pc = "list"
            /\ lunch' = IF subs = {} THEN IdleLunch
                        ELSE [lunch EXCEPT !.pc = "loop", !.subs = subs]
            /\ UNCHANGED <<dbVars, senderVars, clockVars, sent_keys, notify_at,
                           ghostVars, events>>

\* Mutant of InWindow: the comparison forgets the grace.
InWindowExact(sub) == lunch.at = sub.notify_at

\* now_kst >= notify_at_dt and now_kst < grace_end_dt, both on the tick's date.
InWindow(sub) == lunch.at >= sub.notify_at /\ lunch.at < sub.notify_at + Grace

\* Mutant of Claimable: the key is not looked at.
ClaimableAlways(sub) == InWindow(sub)

\* The window check and the GET of the key.
Claimable(sub) == InWindow(sub) /\ <<sub.id, lunch.date>> \notin sent_keys

Consider(sub) ==
  /\ lunch.pc = "loop" /\ InHand(sub)
  /\ IF Claimable(sub)
       THEN lunch' = [lunch EXCEPT !.pc = "fetch"] /\ UNCHANGED queue
       ELSE Leave(sub, queue, lunch.alert)
  /\ UNCHANGED <<dbVars, pipelineRest, clockVars, sent_keys, notify_at, ghostVars, events>>

\* LunchCrawlerFailed or RestaurantsCrawlerFailed: no key, the next tick of
\* the window tries again.
FetchFails(sub) ==
  /\ lunch.pc = "fetch" /\ InHand(sub)
  /\ "crawler" \in Faults
  /\ Setback
  /\ Leave(sub, queue, TRUE)
  /\ UNCHANGED <<dbVars, pipelineRest, clockVars, sent_keys, notify_at, announced, lost,
                 steady>>

\* Both crawlers answered; the key is stored ...
Claim(sub) ==
  /\ lunch.pc = "fetch" /\ InHand(sub)
  /\ sent_keys' = sent_keys \cup {<<sub.id, lunch.date>>}
  /\ lunch' = [lunch EXCEPT !.pc = "put"]
  /\ UNCHANGED <<dbVars, senderVars, clockVars, notify_at, ghostVars, events>>

LunchTask(sub) == [notification |-> sub.id, request |-> NoId,
                   user |-> NotificationOwner[sub.id]]

\* ... and the task is put.
Put(sub) ==
  /\ lunch.pc = "put" /\ InHand(sub)
  /\ Leave(sub, Append(queue, LunchTask(sub)), lunch.alert)
  /\ announced' = [announced EXCEPT ![<<sub.id, lunch.date>>] = @ + 1]
  /\ UNCHANGED <<dbVars, pipelineRest, clockVars, sent_keys, notify_at, lost, steady,
                 setbacks, events>>

\* A Redis command raises and ends the run; a SET may have been executed.
RedisRaises ==
  /\ lunch.pc \in {"loop", "fetch"}
  /\ "redis" \in Troubles
  /\ Setback
  /\ lunch' = IdleLunch
  /\ \/ UNCHANGED <<sent_keys, lost>>
     \/ /\ lunch.pc = "fetch"
        /\ \E sub \in lunch.subs :
             /\ InHand(sub)
             /\ sent_keys' = sent_keys \cup {<<sub.id, lunch.date>>}
             /\ lost' = lost \cup {<<sub.id, lunch.date>>}
  /\ UNCHANGED <<dbVars, senderVars, clockVars, notify_at, announced, steady>>

LunchStep == \/ List
             \/ \E sub \in lunch.subs : Consider(sub) \/ FetchFails(sub)
                                          \/ Claim(sub) \/ Put(sub)
             \/ RedisRaises

-----------------------------------------------------------------------------
(* Everything around the job.                                              *)

SenderRuns == /\ SenderStep
              /\ UNCHANGED <<clockVars, lunch, sent_keys, notify_at, ghostVars, events>>

\* The new scheduler fires a full period later; a run under way is lost, too.
Restart == /\ "restart" \in Troubles
           /\ Counted
           /\ setbacks' = setbacks + (IF lunch.pc = "idle" THEN 1 ELSE 2)
           /\ SenderLost
           /\ lunch' = IdleLunch
           /\ due' = Period
           /\ lost' = lost \cup {<<sub.id, lunch.date>> : sub \in
                                   {s \in lunch.subs : lunch.pc = "put" /\ InHand(s)}}
           /\ UNCHANGED <<dbVars, day, time, sent_keys, notify_at, announced, steady>>

\* POST and PATCH /notifications/lunch, DELETE /notifications/{id}.
Subscribe(n, at) ==
  /\ Counted
  /\ CreateSubscription(n)
  /\ notify_at' = [notify_at EXCEPT ![n] = at]
  /\ UNCHANGED <<senderVars, clockVars, lunch, sent_keys, ghostVars>>

Edit(n, flag, at) ==
  /\ Counted
  /\ MayUpdate(n)
  /\ subscription' = [subscription EXCEPT ![n] = flag]
  /\ notify_at' = [notify_at EXCEPT ![n] = at]
  /\ steady' = steady \ {n}
  /\ UNCHANGED <<status, history, erasing, captured, relogins, senderVars, clockVars,
                 lunch, sent_keys, announced, lost, setbacks>>

Unsubscribe(n) ==
  /\ Counted
  /\ RemoveSubscription(n)
  /\ steady' = steady \ {n}
  /\ UNCHANGED <<senderVars, clockVars, lunch, sent_keys, notify_at, announced, lost,
                 setbacks>>

\* DELETE /me and the return of the user.
Account(u) ==
  /\ EraseHistory(u) \/ CommitDeletion(u) \/ Relogin(u)
  /\ steady' = {n \in steady : NotificationOwner[n] # u}
  /\ UNCHANGED <<senderVars, clockVars, lunch, sent_keys, notify_at, announced, lost,
                 setbacks, events>>

Next == \/ Advance \/ Tick \/ DropTick
        \/ LunchStep
        \/ SenderRuns \/ Restart
        \/ \E n \in NotificationIds :
             \/ \E at \in Times : \/ Subscribe(n, at)
                                  \/ \E flag \in {"enabled", "disabled"} : Edit(n, flag, at)
             \/ Unsubscribe(n)
        \/ \E u \in Users : Account(u)

Spec == Init /\ [][Next]_vars

-----------------------------------------------------------------------------
(* Properties.                                                             *)

\* The dedup key: a subscription is announced at most once on a day of Seoul,
\* whatever the user edits, however the run, Redis or the bot fails, and even
\* when a run that started before midnight ends after it.
OncePerDay == \A k \in NotificationIds \X Days : announced[k] <= 1

\* The grace of three ticks: a subscription nobody touches is announced by the
\* end of its window although two ticks of the day were lost to a failing
\* crawler, to Redis, to a slow run or to a restart.  (Only a failure between
\* the key and the put loses the day, by the order the code chose.)
GraceAbsorbs ==
  \A n \in steady :
    /\ time >= notify_at[n] + Grace
    /\ setbacks <= 2
    /\ lunch.pc = "idle"
    /\ <<n, day>> \notin lost
    => announced[<<n, day>>] = 1

=============================================================================
