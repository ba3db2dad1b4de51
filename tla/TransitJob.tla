----------------------------- MODULE TransitJob -----------------------------
(***************************************************************************)
(* run_transit_job: a tick every 5 s over the enabled TRANSIT              *)
(* subscriptions.  A "recurring" one (F-07) is reported once per interval  *)
(* inside its window; in_flight_notification_ids and the last SUCCESS row  *)
(* keep its reports apart.  An "arrival" one (F-06) reports each train     *)
(* once per day of Seoul when it is near; a Redis set remembers the trains *)
(* and is written before the task is put.                                  *)
(*                                                                         *)
(* One unit of now is one tick.  An action of the run ends where the       *)
(* coroutine waits for PostgreSQL, Redis or the crawler.                   *)
(***************************************************************************)
EXTENDS Sender, SubwayBoard

CONSTANTS Stations,
          Responses,  \* what the API may answer in this instance
          NoAnswer,   \* the station is no key of arrivals_cache
          Configs,    \* the configurations users choose from
          Never,      \* get_last_sent_at returns None
          DayLength,  \* bound: units of a day
          MaxTime,    \* bound: units
          Troubles,   \* what may go wrong around the job in this instance
          MaxEvents   \* bound: troubles and steps of users

Instants == 0..MaxTime
DateOf(t)  == t \div DayLength  \* the date and the time of day in Seoul
ClockOf(t) == t % DayLength
Dates      == {DateOf(t) : t \in Instants}

\* What fetch_arrivals may return.
Answers == {Parsed(r) : r \in {r \in Responses : ~Refuses(r) /\ ~Raises(r)}}

\* A validated config, in units; interval is of "recurring", heading and
\* before are of "arrival".  plain: the times have no fraction of a second and
\* no zone, which the API accepts and _parse_config_time does not read.
Config == {c \in [mode     : {"recurring", "arrival"},
                  station  : Stations,
                  heading  : STRING,
                  start    : Nat,
                  end      : Nat,
                  plain    : BOOLEAN,
                  interval : Nat \ {0},
                  before   : Nat] : c.start < c.end}

\* "redis": a command raises; "restart": the bot restarts.
ASSUME TransitAssumption == /\ Responses \subseteq Response
                            /\ NoAnswer \notin Answers
                            /\ NoTrain \notin Trains
                            /\ Configs \subseteq Config
                            /\ Never \notin Int
                            /\ DayLength \in Nat \ {0}
                            /\ MaxTime \in Nat /\ MaxEvents \in Nat
                            /\ Troubles \subseteq {"redis", "restart"}

VARIABLES now,          \* the clock
          due,          \* the trigger has fired
          transit,      \* the run of run_transit_job
          sent_trains,  \* Redis: transit_arrival_sent:{id}:{date}
          config,       \* notifications.config
          last_sent,    \* sent_at of the newest SUCCESS row per subscription
          guarded_at,   \* start of the sender's transaction, the row's sent_at
          announced,    \* tasks put per subscription, day and train (not in the code)
          lost,         \* trains remembered by a run cut before the put (not in the code)
          edited,       \* subscriptions changed by PATCH (not in the code)
          events        \* steps counted against MaxEvents

runVars == <<transit, sent_trains, announced, lost>>
bookVars == <<last_sent, guarded_at>>
vars == <<dbVars, senderVars, now, due, runVars, config, bookVars, edited, events>>

Sub == [id : NotificationIds, config : Configs]

Transit == [pc      : {"idle", "list", "loop", "last", "fetch", "use", "sadd", "put"},
            listed  : SUBSET Sub,      \* subs
            todo    : SUBSET Sub,      \* not finished in the for loop
            at      : Instants,        \* now of the run
            answers : [Stations -> Answers \cup {NoAnswer}],  \* arrivals_cache
            sent    : SUBSET Trains,   \* sent_train_nos
            left    : SUBSET Nat,      \* positions of the candidates not put yet
            failed  : SUBSET NotificationIds,  \* _subway_fail_exc is set by one
            outcome : {"ended", "cut"}]        \* of the last run

IdleTransit(outcome) ==
  [pc |-> "idle", listed |-> {}, todo |-> {}, at |-> 0,
   answers |-> [s \in Stations |-> NoAnswer], sent |-> {}, left |-> {},
   failed |-> {}, outcome |-> outcome]

Sent == NotificationIds \X Dates \X Trains

TransitTypeOK ==
  /\ DbTypeOK
  /\ SenderTypeOK
  /\ now \in Instants /\ due \in BOOLEAN
  /\ transit \in Transit
  /\ transit.todo \subseteq transit.listed
  /\ transit.pc \notin {"idle", "list"} => transit.todo # {}
  /\ transit.pc \in {"sadd", "put"} => transit.left # {}
  /\ sent_trains \subseteq Sent
  /\ config \in [NotificationIds -> Configs]
  /\ last_sent \in [NotificationIds -> Instants \cup {Never}]
  /\ guarded_at \in Instants
  /\ announced \in [Sent -> Nat]
  /\ lost \subseteq Sent
  /\ edited \subseteq NotificationIds
  /\ events \in Nat

Init == /\ DbInit
        /\ SenderInit
        /\ now = 0 /\ due = FALSE
        /\ transit = IdleTransit("ended")
        /\ sent_trains = {}
        /\ config \in [NotificationIds -> Configs]
        /\ last_sent = [n \in NotificationIds |-> Never]
        /\ guarded_at = 0
        /\ announced = [k \in Sent |-> 0]
        /\ lost = {}
        /\ edited = {}
        /\ events = 0

Counted == events < MaxEvents /\ events' = events + 1

aroundRun == <<dbVars, now, due, config, bookVars, edited, lost>>

-----------------------------------------------------------------------------
(* The clock and the trigger.                                              *)

Advance == /\ now < MaxTime
           /\ now' = now + 1
           /\ due' = TRUE
           /\ UNCHANGED <<dbVars, senderVars, runVars, config, bookVars, edited, events>>

\* max_instances=1: a trigger that fires during a run is dropped.
Tick == /\ due
        /\ due' = FALSE
        /\ transit' = IF transit.pc = "idle"
                        THEN [IdleTransit("ended") EXCEPT !.pc = "list", !.at = now]
                        ELSE transit
        /\ UNCHANGED <<dbVars, senderVars, now, sent_trains, announced, lost, config,
                       bookVars, edited, events>>

-----------------------------------------------------------------------------
(* The run.                                                                *)

pipelineRest == <<sender, immediate_inflight, delivered>>

\* list_active_subscriptions_with_user
List == LET subs == {[id |-> n, config |-> config[n]] : n \in
                       {m \in NotificationIds : Listed(m)}}
        IN  /\ transit.pc = "list"
            /\ transit' = IF subs = {} THEN IdleTransit("ended")
                          ELSE [transit EXCEPT !.pc = "loop", !.listed = subs, !.todo = subs]
            /\ UNCHANGED <<aroundRun, senderVars, sent_trains, announced, events>>

\* ORDER BY id
InHand(sub) == sub \in transit.todo /\ \A other \in transit.todo : sub.id <= other.id

Recurring(sub) == sub.config.mode = "recurring"

\* Mutant of Leave: the loop breaks when a fetch has failed.
LeaveBroken(sub, before, failed) ==
  IF transit.todo = {sub} \/ failed # {}
    THEN /\ transit' = IdleTransit("ended")
         /\ queue' = IF failed # {} THEN before \o AdminAlerts ELSE before
    ELSE /\ transit' = [transit EXCEPT !.pc = "loop", !.todo = @ \ {sub},
                                       !.sent = {}, !.left = {}, !.failed = failed]
         /\ queue' = before

\* Mutant of Leave: the run does not end behind the last subscription.
LeaveOpen(sub, before, failed) ==
  /\ transit' = [transit EXCEPT !.pc = "loop", !.todo = @ \ {sub},
                                !.sent = {}, !.left = {}, !.failed = failed]
  /\ queue' = before

\* continue: the next subscription, or the end of the run, where a failed
\* crawler alerts the administrators once.  before: the queue with what sub put.
Leave(sub, before, failed) ==
  IF transit.todo = {sub}
    THEN /\ transit' = IdleTransit("ended")
         /\ queue' = IF failed # {} THEN before \o AdminAlerts ELSE before
    ELSE /\ transit' = [transit EXCEPT !.pc = "loop", !.todo = @ \ {sub},
                                       !.sent = {}, !.left = {}, !.failed = failed]
         /\ queue' = before

\* start_time and end_time against now_kst_time, both inclusive; times that
\* cannot be read do not restrict.
InWindow(c, t) == c.plain => ClockOf(t) >= c.start /\ ClockOf(t) <= c.end

\* Where the run goes when it needs the station's arrivals.
FetchPc(sub) == IF transit.answers[sub.config.station] = NoAnswer THEN "fetch" ELSE "use"

SentOn(n, date) == {train \in Trains : <<n, date, train>> \in sent_trains}

\* Mutant of ConsiderRecurring: the interval is looked up first, the claim later.
ConsiderUnclaimed(sub) ==
  /\ transit.pc = "loop" /\ InHand(sub) /\ Recurring(sub)
  /\ IF InWindow(sub.config, transit.at)
       THEN transit' = [transit EXCEPT !.pc = "last"] /\ UNCHANGED queue
       ELSE Leave(sub, queue, transit.failed)
  /\ UNCHANGED <<aroundRun, pipelineRest, in_flight, sent_trains, announced, events>>

\* Mutant of ConsiderRecurring: claims the id as soon as it is found free.
ConsiderClaiming(sub) ==
  /\ transit.pc = "loop" /\ InHand(sub) /\ Recurring(sub)
  /\ IF InWindow(sub.config, transit.at) /\ sub.id \notin in_flight
       THEN /\ transit' = [transit EXCEPT !.pc = "last"]
            /\ in_flight' = in_flight \cup {sub.id}
            /\ UNCHANGED queue
       ELSE Leave(sub, queue, transit.failed) /\ UNCHANGED in_flight
  /\ UNCHANGED <<aroundRun, pipelineRest, sent_trains, announced, events>>

\* The window and in_flight_notification_ids; get_last_sent_at is called.
ConsiderRecurring(sub) ==
  /\ transit.pc = "loop" /\ InHand(sub) /\ Recurring(sub)
  /\ IF InWindow(sub.config, transit.at) /\ sub.id \notin in_flight
       THEN transit' = [transit EXCEPT !.pc = "last"] /\ UNCHANGED queue
       ELSE Leave(sub, queue, transit.failed)
  /\ UNCHANGED <<aroundRun, pipelineRest, in_flight, sent_trains, announced, events>>

\* _process_arrival_subscription up to the answer of SMEMBERS.
ConsiderArrival(sub) ==
  /\ transit.pc = "loop" /\ InHand(sub) /\ ~Recurring(sub)
  /\ IF InWindow(sub.config, transit.at)
       THEN /\ transit' = [transit EXCEPT !.pc = FetchPc(sub),
                                          !.sent = SentOn(sub.id, DateOf(transit.at))]
            /\ UNCHANGED queue
       ELSE Leave(sub, queue, transit.failed)
  /\ UNCHANGED <<aroundRun, pipelineRest, in_flight, sent_trains, announced, events>>

\* Mutant of IntervalElapsed: one unit early.
IntervalAlmostElapsed(sub) ==
  \/ last_sent[sub.id] = Never
  \/ transit.at - last_sent[sub.id] >= sub.config.interval - 1

\* elapsed_seconds counts from the newest SUCCESS row to now of the run.
IntervalElapsed(sub) ==
  \/ last_sent[sub.id] = Never
  \/ transit.at - last_sent[sub.id] >= sub.config.interval

\* get_last_sent_at answers.
LastSent(sub) ==
  /\ transit.pc = "last" /\ InHand(sub)
  /\ IF IntervalElapsed(sub)
       THEN transit' = [transit EXCEPT !.pc = FetchPc(sub)] /\ UNCHANGED queue
       ELSE Leave(sub, queue, transit.failed)
  /\ UNCHANGED <<aroundRun, pipelineRest, in_flight, sent_trains, announced, events>>

\* fetch_arrivals answers; the other subscriptions of the station share it.
Fetch(sub) ==
  /\ transit.pc = "fetch" /\ InHand(sub)
  /\ \E answer \in Answers :
       transit' = [transit EXCEPT !.pc = "use", !.answers[sub.config.station] = answer]
  /\ UNCHANGED <<aroundRun, senderVars, sent_trains, announced, events>>

\* An answer that is refused, or none: the next subscription goes on, and the
\* next one of this station tries again.
FetchFails(sub) ==
  /\ transit.pc = "fetch" /\ InHand(sub)
  /\ "crawler" \in Faults \/ \E r \in Responses : Refuses(r)
  /\ Counted
  /\ Leave(sub, queue, transit.failed \cup {sub.id})
  /\ UNCHANGED <<aroundRun, pipelineRest, in_flight, sent_trains, announced>>

TransitTask(sub) == [notification |-> sub.id, request |-> NoId,
                     user |-> NotificationOwner[sub.id]]

\* The id is claimed and the task put, with no await between.
PutRecurring(sub) ==
  /\ transit.pc = "use" /\ InHand(sub) /\ Recurring(sub)
  /\ in_flight' = in_flight \cup {sub.id}
  /\ Leave(sub, Append(queue, TransitTask(sub)), transit.failed)
  /\ UNCHANGED <<aroundRun, pipelineRest, sent_trains, announced, events>>

\* The filter of _process_arrival_subscription.
Near(arrival, c, sent, t) == /\ arrival.heading = c.heading
                             /\ arrival.train # NoTrain
                             /\ arrival.train \notin sent
                             /\ Effective(arrival, t) <= c.before

\* The positions of the trains to announce.
Candidates(answer, c, sent, t) == {i \in DOMAIN answer : Near(answer[i], c, sent, t)}

Filter(sub) ==
  LET answer == transit.answers[sub.config.station]
      near   == Candidates(answer, sub.config, transit.sent, transit.at)
  IN  /\ transit.pc = "use" /\ InHand(sub) /\ ~Recurring(sub)
      /\ IF near = {}
           THEN Leave(sub, queue, transit.failed)
           ELSE /\ transit' = [transit EXCEPT !.pc = "sadd", !.left = near]
                /\ UNCHANGED queue
      /\ UNCHANGED <<aroundRun, pipelineRest, in_flight, sent_trains, announced, events>>

\* The for loop over the candidates, in the order of the answer.
InTurn(i) == i \in transit.left /\ \A j \in transit.left : i <= j

Train(sub, i) == transit.answers[sub.config.station][i].train
Key(sub, i)   == <<sub.id, DateOf(transit.at), Train(sub, i)>>

\* Mutant of Remember: the train is not added.
RememberNothing(sub) ==
  /\ transit.pc = "sadd" /\ InHand(sub)
  /\ transit' = [transit EXCEPT !.pc = "put"]
  /\ UNCHANGED <<aroundRun, senderVars, sent_trains, announced, events>>

\* SADD ...
Remember(sub) ==
  /\ transit.pc = "sadd" /\ InHand(sub)
  /\ \E i \in transit.left : InTurn(i) /\ sent_trains' = sent_trains \cup {Key(sub, i)}
  /\ transit' = [transit EXCEPT !.pc = "put"]
  /\ UNCHANGED <<aroundRun, senderVars, announced, events>>

\* ... EXPIRE, and the task is put.
PutArrival(sub) ==
  LET before == Append(queue, TransitTask(sub))
  IN  /\ transit.pc = "put" /\ InHand(sub)
      /\ \E i \in transit.left :
           /\ InTurn(i)
           /\ announced' = [announced EXCEPT ![Key(sub, i)] = @ + 1]
           /\ IF transit.left = {i}
                THEN Leave(sub, before, transit.failed)
                ELSE /\ transit' = [transit EXCEPT !.pc = "sadd", !.left = @ \ {i},
                                                   !.sent = @ \cup {Train(sub, i)}]
                     /\ queue' = before
      /\ UNCHANGED <<aroundRun, pipelineRest, in_flight, sent_trains, events>>

\* SADD has been executed for it and the put has not come: the train in turn.
Marked == {k \in Sent : /\ transit.pc = "put"
                        /\ \E sub \in transit.todo, i \in transit.left :
                             InHand(sub) /\ InTurn(i) /\ k = Key(sub, i)}

\* SADD is executed and its answer does not come.
AddedUnanswered == /\ transit.pc = "sadd"
                   /\ \E sub \in transit.todo, i \in transit.left :
                        /\ InHand(sub) /\ InTurn(i)
                        /\ sent_trains' = sent_trains \cup {Key(sub, i)}
                        /\ lost' = lost \cup {Key(sub, i)}

\* What no except of the job catches ends the run without an alert: an error
\* of PostgreSQL, of Redis (the command may have been executed), or of the
\* parser.  A failing EXPIRE leaves the train remembered and unannounced.
RunRaises ==
  /\ \/ /\ \/ transit.pc \in {"list", "last"} /\ "db" \in Faults
           \/ transit.pc = "fetch" /\ \E r \in Responses : Raises(r)
           \/ transit.pc \in {"loop", "fetch", "sadd", "put"} /\ "redis" \in Troubles
        /\ lost' = lost \cup Marked
        /\ UNCHANGED sent_trains
     \/ "redis" \in Troubles /\ AddedUnanswered
  /\ Counted
  /\ transit' = IdleTransit("cut")
  /\ UNCHANGED <<dbVars, senderVars, now, due, config, bookVars, edited, announced>>

TransitStep == \/ List
               \/ \E sub \in transit.todo :
                    \/ ConsiderRecurring(sub) \/ ConsiderArrival(sub) \/ LastSent(sub)
                    \/ Fetch(sub) \/ FetchFails(sub)
                    \/ PutRecurring(sub)
                    \/ Filter(sub) \/ Remember(sub) \/ PutArrival(sub)
               \/ RunRaises

\* The TTL of 28 hours: a key goes in the day after its own at the earliest,
\* and no run lasts until then.
Expire(date) == /\ date < DateOf(now)
                /\ transit.pc = "idle" \/ DateOf(transit.at) # date
                /\ sent_trains' = {k \in sent_trains : k[2] # date}
                /\ UNCHANGED <<aroundRun, senderVars, transit, announced, events>>

-----------------------------------------------------------------------------
(* The sender: the transaction that get_user_status opens and the INSERT   *)
(* closes gives the row its sent_at.                                       *)

Guard == /\ CheckUser
         /\ guarded_at' = now
         /\ UNCHANGED last_sent

RowStored == LET n == sender.task.notification
             IN  /\ Record
                 /\ last_sent' = IF n # NoId /\ sender.result = "SUCCESS"
                                   THEN [last_sent EXCEPT ![n] = guarded_at]
                                   ELSE last_sent
                 /\ UNCHANGED guarded_at

OtherSenderStep == /\ \/ Ready \/ Get
                      \/ SendSucceeds \/ SendFails \/ SendRaises
                      \/ RecordRejected \/ DatabaseRaises
                      \/ Release
                   /\ UNCHANGED bookVars

SenderRuns == /\ Guard \/ RowStored \/ OtherSenderStep
              /\ UNCHANGED <<now, due, runVars, config, edited, events>>

-----------------------------------------------------------------------------
(* Everything around the job.                                              *)

Restart == /\ "restart" \in Troubles
           /\ Counted
           /\ SenderLost
           /\ transit' = IdleTransit("cut")
           /\ due' = FALSE
           /\ lost' = lost \cup Marked
           /\ UNCHANGED <<dbVars, now, sent_trains, announced, config, bookVars, edited>>

\* POST and PATCH /notifications/transit, DELETE /notifications/{id}.
Subscribe(n, c) ==
  /\ Counted
  /\ CreateSubscription(n)
  /\ config' = [config EXCEPT ![n] = c]
  /\ UNCHANGED <<senderVars, now, due, runVars, bookVars, edited>>

Edit(n, flag, c) ==
  /\ Counted
  /\ MayUpdate(n)
  /\ subscription' = [subscription EXCEPT ![n] = flag]
  /\ config' = [config EXCEPT ![n] = c]
  /\ edited' = edited \cup {n}
  /\ UNCHANGED <<status, history, erasing, captured, relogins, senderVars, now, due,
                 runVars, bookVars>>

\* A row that goes takes its history along (notification_id becomes NULL).
Forgotten == last_sent' = [n \in NotificationIds |->
               IF subscription'[n] = "deleted" THEN Never ELSE last_sent[n]]

Unsubscribe(n) ==
  /\ Counted
  /\ RemoveSubscription(n)
  /\ Forgotten
  /\ UNCHANGED <<senderVars, now, due, runVars, config, guarded_at, edited>>

\* DELETE /me and the return of the user.
Account(u) ==
  /\ Counted
  /\ EraseHistory(u) \/ CommitDeletion(u) \/ Relogin(u)
  /\ Forgotten
  /\ UNCHANGED <<senderVars, now, due, runVars, config, guarded_at, edited>>

Next == \/ Advance \/ Tick
        \/ TransitStep
        \/ \E date \in Dates : Expire(date)
        \/ SenderRuns \/ Restart
        \/ \E n \in NotificationIds :
             \/ \E c \in Configs : \/ Subscribe(n, c)
                                   \/ \E flag \in {"enabled", "disabled"} : Edit(n, flag, c)
             \/ Unsubscribe(n)
        \/ \E u \in Users : Account(u)

Spec == Init /\ [][Next]_vars

-----------------------------------------------------------------------------
(* Properties.                                                             *)

Holds(n) == Holding /\ sender.task.notification = n

\* The tasks of n that wait or are being sent.
Waiting(n) == {i \in DOMAIN queue : queue[i].notification = n}
Copies(n)  == Cardinality(Waiting(n)) + (IF Holds(n) THEN 1 ELSE 0)

\* in_flight_notification_ids is read before two awaits and written after
\* them: a recurring subscription whose mode nobody changed still has at most
\* one report in the pipeline, and is claimed exactly as long as it has one.
OneReportAtATime ==
  \A n \in NotificationIds \ edited :
    config[n].mode = "recurring" =>
      Copies(n) <= 1 /\ (n \in in_flight <=> Copies(n) = 1)

\* A claim that outlived its task would silence the subscription until the
\* bot restarts: whatever fails, and whatever users change, there is none.
NoSilencedSubscription ==
  \A n \in in_flight : Waiting(n) # {} \/ Holds(n)

\* The interval: two SUCCESS rows of a recurring subscription that nobody
\* edited are at least its interval apart, through failed sends, lost rows,
\* late runs and restarts.
ReportsSpaced ==
  [][\A n \in NotificationIds \ edited :
       /\ config[n].mode = "recurring"
       /\ last_sent[n] # Never
       /\ last_sent'[n] \notin {last_sent[n], Never}
       => last_sent'[n] - last_sent[n] >= config[n].interval]_vars

\* The set of trains in Redis: a train is announced to a subscription at most
\* once on a day of Seoul, through restarts, failing commands and edits, as
\* long as no answer lists a train twice.
OncePerTrain == \A k \in Sent : announced[k] <= 1

EndsRegularly == transit.pc # "idle" /\ transit'.pc = "idle" /\ transit'.outcome = "ended"

\* Every train near to sub has been put on the queue that day, by this run or
\* an earlier one, but for those an earlier run remembered and was cut before
\* it could put them.
HasTold(sub) ==
  LET answer == transit.answers[sub.config.station]
  IN  /\ answer # NoAnswer
      /\ \A i \in Candidates(answer, sub.config, {}, transit.at) :
           announced'[Key(sub, i)] > 0 \/ Key(sub, i) \in lost'

HasFailed(sub) == \/ sub.id \in transit.failed
                  \/ transit.pc = "fetch" /\ InHand(sub)

AlertsPut == AdminAlerts = SubSeq(queue', Len(queue') - Len(Admins) + 1, Len(queue'))

\* A failing crawler is isolated: when a run ends regularly, every train that
\* is near to an arrival subscription in its window has been announced to it
\* that day, whatever failed for the others, but for the trains a run that
\* was cut had remembered and not yet put, which no run announces any more.
\* Where the subscription's own fetch failed, the administrators are told.
ServedOrAlerted ==
  [][EndsRegularly =>
       \A sub \in transit.listed :
         ~Recurring(sub) /\ InWindow(sub.config, transit.at) =>
           IF HasFailed(sub) THEN AlertsPut ELSE HasTold(sub)]_vars
=============================================================================
