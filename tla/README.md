# ku-helper: formal models

ku-helper sends Discord direct messages about transit, the cafeteria and the reading rooms of a
campus. An API server (`src/backend`) keeps accounts, subscriptions and "send now" requests in
PostgreSQL; a Discord bot (`src/bot`) polls the database, asks crawlers and sends; a web client
(`src/frontend`) talks to the API. Server and bot never call each other: they meet in PostgreSQL.

This directory holds TLA+ models of the parts whose correctness depends on the order of events,
TLC configurations that check them on small instances, and TLAPS proofs of the invariants that
matter most for every size of the system.

## Inventory

| Part | Code | State | Operations | What makes it correct | Modelled in |
|---|---|---|---|---|---|
| Shared tables | `backend/app/domains/{users,notifications}`, `bot/app/notifications/{,history_}repository.py` | `users.status`, rows of `notifications` and `notification_history` | insert a result, `DELETE /users/me` (two statements others can run between), return of an account | foreign keys, unique index on the request id, a recorded fate is final | `Database` |
| DM sender | `bot/app/notifications/sender.py` | one `asyncio.Queue`, one coroutine, `in_flight_notification_ids`, `immediate_send_inflight` | take a task, check the user, send up to three times, insert the result, release the claim | the row says what happened, a claim never outlives its task | `Sender` |
| Administrator alerts (F-22) | `bot/app/admin/alerts.py` | none | one task per administrator behind a crawler failure | the user is answered with or without the alert | `Sender`, `ImmediateSend`, the jobs |
| "Send now" | `backend/app/domains/immediate_send`, `run_immediate_send_*_job`, `lunch/repository.py` | rows of `immediate_send_requests`, the run of each of three jobs | accept, commit, poll, claim, fetch, put, record a failure | one live copy, bounded number of DMs, every request answered | `ImmediateSend` |
| Library job (F-13, F-14) | `bot/app/notifications/library/worker.py` | Redis `library_alert:{user}:{room}` | poll, snapshot, compare, put, store the state | every dip is reported, and reported once | `LibraryJob` |
| Lunch job (F-11) | `run_lunch_job` in `lunch/worker.py` | Redis `lunch_sent:{id}:{date}` | poll, window, dedup, fetch, store the key, put | once a day, and every day | `LunchJob` |
| Transit job (F-06, F-07) | `run_transit_job`, `_process_arrival_subscription` in `transit/worker.py` | in-flight ids, last SUCCESS row, Redis set of announced trains, per-tick cache of stations | window, interval, claim, filter, SADD, put | reports an interval apart, a train once a day, one failing station keeps nobody else from a report | `TransitJob`, `SubwayBoard` |
| Crawlers and caches | `bot/app/crawlers/*/client.py` | four kinds of Redis keys | GET, source, SETEX; parse an answer of the arrivals API | an answer is no older than the TTL and a call; a week of menus is that week's | `CrawlerCache`, `SubwayBoard` |
| Sessions (F-01, F-05) | `backend/app/domains/auth`, `core/security.py` | Redis whitelist of refresh jtis, used OAuth states, the `users` row of a login | login, callback, upsert, welcome DM, refresh in three commands, logout | a state lets one login in, a browser keeps a token it can use, one welcome | `AuthSession` |
| Subscription API | `backend/app/domains/notifications/{router,service,repository,schemas}.py`, `users/router.py` | rows of `notifications`, row locks, open transactions | list, create, PATCH, delete, `DELETE /users/me` | ownership, no lost field, what is stored passed the schemas as a whole | `SubscriptionApi`, `Configs` |
| History (F-17) | `notifications/service.py`, `repository.py` | none | the window of two optional days, filters, limit | whole UTC days, never more than 30, no row twice or never | `HistoryWindow` |
| Web client (F-16) | `frontend/src` | tokens in `localStorage`, the rules the screens show | init, `authFetch` with one refresh, logout; optimistic switches, category switch, editor and reload | the screens agree with the server at rest | `WebSession`, `Dashboard` |
| Process wiring | `bot/app/main.py`, `scheduler/jobs.py` | none of its own | start, tick, stop | `max_instances=1`; a restart loses memory and keeps the databases | inside each job |
| Embeds, administration API, migrations, IAM tokens, deployment | several | none that steps change | formatting, one read-only endpoint, provisioning | | no, see the end |

How the parts interact: every job puts `SendDmTask`s on the one queue; the sender is its only
consumer. The job claims an id before the put and the sender releases it in its `finally` block.
The sender reads `users.status`, which the API writes, and writes the history rows that
`list_pending` and `get_last_sent_at` read. `DELETE /users/me` runs against all of them. The bot
reads the configs that the API's schemas let in. The web client meets the API by HTTP only, and
its tabs meet each other in `localStorage`.

The behaviours that are hard: rows read before an `await` and used after it; a DM that was sent
and not yet recorded when the bot ends; a Discord failure whose message arrived all the same;
Redis keys stored before or after the put they stand for, and keys that expire or outlive what
they stood for; a deletion committing between a check and the INSERT that relied on it; a commit
that runs behind the response (FastAPI 0.136 of `src/backend/uv.lock` leaves `get_session` when
the response and its background tasks are out); a refresh of three Redis
commands without a lock; replies that are lost or arrive in another order; a run that outlasts its
period or midnight; two clocks nine hours apart. `PROJECT.json` lists each as a hazard at its
line.

## Modules

| Module | Extends | Content |
|---|---|---|
| `Database` | | tables as the bot meets them, each action one commit or one statement others can run behind |
| `Sender` | `Database` | queue and sender; each action runs from one suspending `await` to the next |
| `ImmediateSend` | `Sender` | requests, three polling jobs, restart |
| `LibraryJob` | `Sender` | `run_library_job`, state keys, reading rooms, users' edits |
| `LunchJob` | `Sender` | `run_lunch_job`, the clock of Seoul, dedup keys, users' edits |
| `SubwayBoard` | | pure: what `fetch_arrivals` makes of an answer of the API, and how seconds age |
| `TransitJob` | `Sender`, `SubwayBoard` | `run_transit_job` with both modes, the clock, the set of announced trains |
| `FreshAnswers` | | abstract: a call is answered with what the source said at most `MaxAge` ago, or fails |
| `CrawlerCache` | | the four clients with their Redis keys; implements `FreshAnswers` |
| `AuthSession` | | what the API server keeps of sessions |
| `WebSession` | `AuthSession` | the browser's side: tokens, init, `authFetch`, logout |
| `Configs` | | pure: what the form sends, the schemas accept and store, and the jobs can use, in seconds |
| `SubscriptionApi` | `Configs` | requests as transactions of statements, locks, response and commit |
| `Dashboard` | `SubscriptionApi` | the screens of the web client and another device |
| `HistoryWindow` | | pure: the window of the history |
| `MC*` | the module they name | owners, answers, bodies and symmetry of the small instances |
| `*Proofs` | the component, TLAPS | the theorems; `SenderProofs` holds the typing lemmas the four jobs share, `ApiProofs` the theorems about `SubscriptionApi`, `Dashboard` and `HistoryWindow` |

**Bot.** The sender's `pc` follows `_process_task`: `starting` (`wait_until_ready`), `get`, `guard`
(`get_user_status`), `send` (the attempts), `record` (INSERT and commit), `finally`. An exception
of the database ends in `finally` without a row, as the `except` of `run_sender_worker` does. A
database transaction of the bot is one action unless something can run between its statements.
`DELETE /users/me` is split: `EraseHistory` is the first DELETE, which locks the rows committed by
then, `CommitDeletion` the rest; an INSERT that collides with a deleted, uncommitted key waits
(`InsertBlocked`), and so does an update of a locked row (`RemoveSubscription`).

In `ImmediateSend` a run of a job is `polled` (rows read, nothing claimed), `fetch` (a row claimed,
its crawler awaited), `fail` (the job's own FAILED row being inserted) and `failed` (committed, the
claim to be dropped). The check of the in-flight set and the claim have no `await` between them,
so `Advance` does both. In `LibraryJob` the put and the GET before it are one action (`Alert`: an
unbounded `queue.put` does not suspend) and the SET behind it is another (`Mark`). In `LunchJob` it
is the other way round: `Claim` stores the key, `Put` puts the task. That order is the difference
the two sets of properties are about.

In `TransitJob` a run takes its rows in the order of their ids. A recurring row is looked up in the
claims, then its last SUCCESS row is read (`last`), then its station is asked (`fetch`), and only
then it is claimed and put: two awaits between check and claim. An arrival row computes its
candidates once, then does SADD (and EXPIRE) and put for one after another (`sadd`, `put`). A
crawler error marks the row in `failed` and the run goes on; an error of PostgreSQL or Redis ends
the run (`outcome = "cut"`) and no administrator hears of it. A train is added to the
set before its task is put, so a run that is cut between the two leaves a train no run announces any
more; the models keep it in `lost`.

In `AuthSession` a state that expires unused is `late`: its JWT was verified before, its key
`state_used:{jti}` is not there, and the SET NX lets it through. A refresh that a 401 answers is
`refused`, one that ends in a 500 `failed`.

In `CrawlerCache` the content of an answer is the instant at which the source said it, and the day
in a key is the container's, `Lag` behind Seoul. `Dashboard` and `SubscriptionApi` keep the row a
request has read, the statement that locks, the response and the commit apart; `Accepted` and
`Dumped` of `Configs` are the validators and `model_dump`; what a job needs (`Works`) falls into what
the schemas check (`Checked`) and what they do not (`Unchecked`: a direction the line has, a window
that a tick of the trigger meets, a time the job can read). What the editor saves has gone through
`normalizeConfig`. `Request` is what the routes let through: a PATCH names its row, and its path the
type whose schema reads the body. A handler sends its requests over any free calls, which makes calls
interchangeable, and the run takes their symmetry.

Variables that are not in the code record what happened so that a property can speak of it:
`delivered`, `phase`, `announced`, `lost`, `steady`, `setbacks`, `edited`, `cut`, `failed`,
`loose`, `behind`. No guard of an action that models code reads them, except `delivered` in the
bound `MaxDms`.

Definitions named `... Mutant of X` are plausible bugs of X; no specification uses them. Each
property has one it must catch.

## Runs

| Run | Instance | Checks |
|---|---|---|
| `ImmediateClaims` | 1 user, 2 requests, batch of 2, all faults but lost replies, 1 restart | `TypeOK`, `SingleLiveCopy`, `InflightCoversPipeline` |
| `ImmediateDms` | 1 user, 1 request, lost replies, 2 restarts, deletion and return | `DmsBounded`, `SuccessIsTrue`, `FateIsFinal` |
| `ImmediateAnswered` | 2 users, 2 jobs, 1 administrator, failing crawlers and sends, 1 restart, fair | `NoStrandedRequest`, `FailureIsTrueWhenRecorded`, `EveryRequestAnswered` |
| `LibraryMarks` | 2 users with a subscription each, 1 room, failing Redis, expiry, restart | `LibTypeOK`, `AlertsAreMarked`, `NoRepeatBeforeRecovery` |
| `LibraryDips` | 1 subscription, 1 administrator, failing crawler and sends, expiry, deletion and return, fair | `EveryDipReported` |
| `LunchDays` | 1 subscription, 2 days of 5 units, window of 3 ticks, every trouble, deletion and return | `LunchTypeOK`, `OncePerDay`, `GraceAbsorbs` |
| `TransitRuns` | a recurring and an arrival subscription of one station, 2 trains, a day of 3 ticks and the next, 1 administrator, answers that are empty, refused, garbled or unparsable, failing PostgreSQL and Redis, restart, edit, deletion and return | `TransitTypeOK`, `OneReportAtATime`, `NoSilencedSubscription`, `OncePerTrain`, `ReportsSpaced`, `ServedOrAlerted` |
| `WebSessions` | 2 callbacks, 2 calls of a tab and 1 page load, 2 states, 3 tokens, every fault | `WebTypeOK`, `SessionAlive`, `LiveSessionKept`, `WelcomeOnce`, `OneLoginPerState` |
| `Dashboard` | 2 handlers, 3 requests, 2 ids, 2 users, 5 bodies (one of no form), another device, failing statements and commits, lost replies | `DashTypeOK`, `ViewAgrees`, `StoredConfigsChecked`, `FieldsKept` |
| `CrawlerAnswers` | 2 callers, lunch and library clients, a Friday to the Monday behind it, failing sources and Redis | `CacheTypeOK`, `WeekHoldsItsPage`, `AnswersFresh` |
| `LibraryShared` | no fault, 2 subscriptions of one user on one room | violates `NoResendWhileLow` |
| `LunchMenuDay` | 1 caller of the lunch client | violates `MenuOfTheDay` |

What the passing runs show.

* *Send now*: a request is never in two hands at once and whatever is on its way is claimed; the
  user gets at most one DM per task, one task more per restart, one more when a job works from a
  stale list, two more per return of a deleted account, and three times as many when replies of
  Discord get lost (`DmsBounded`); a SUCCESS row means a DM, a FAILED row means none unless a
  restart or a deletion intervened; a request is answered as long as crawlers raise only what the
  job catches.
* *Library*: between the queue and Redis no alert is forgotten, an alert is repeated only after a
  recovery or when its mark got lost, and every dip reaches the sender or ends.
* *Lunch*: never twice a day, and the window of three ticks survives the loss of two.
* *Transit*: although the claim of a report is looked up two awaits before it is made, there is one
  report at a time, its SUCCESS rows are an interval apart, and no claim stays behind; a train is
  announced once a day as long as no answer lists it twice; when a run ends regularly, every near
  train has been put on the queue that day (`announced`), by this run or an earlier one, but for those
  an earlier run added to the set and then lost (`lost`); a failing fetch costs only its own
  subscription a tick and the administrators hear of it.
* *Sessions*: with concurrent refreshes, replies in any order and tabs that share two keys of
  `localStorage`, a refresh token that is in the browser is good, or on its way to its successor, or
  something cut its rotation short (`cut`: Redis or the network failed behind the DEL, or the
  expiry). That says nothing of a browser that has none: `LiveSessionKept` says who may remove a
  token that the server would still take. A logout does, and so does a page load that is turned
  down, in three cases (disagreements, below); a call of a tab that is refused never does. Racing
  logins greet a new user once.
* *Subscriptions*: at rest the screens show what the server has. `loose` holds the exceptions, which
  last until a list arrives that nobody has written behind: ids that two calls wrote at a time or
  another device wrote; ids that a commit behind its response or a lost reply left open; ids that an
  edit or a creation wrote, if the list behind it was refused (`reloadNotifications` swallows the
  error, and the new rule is not shown) or was sent before the commit; and where a category switch
  met a refusal, the ids whose switch the server has written and the rules of the category that it
  had not captured (`handleCategoryToggle` puts its old rules back, and a rule that was added
  meanwhile vanishes). Overlapping PATCHes lose no field of each other, because the ORM writes
  changed columns only. What the schemas check holds of every stored row; it is less than the jobs
  need, and `FormsWork` says for which rules the form makes up the rest.
* *Crawlers*: two callers that miss at a time and a slow SETEX cost nothing but age, and that is
  bounded by the TTL and one call; the week of a menu is the week of its page although the clock
  that names it is nine hours behind, because nobody asks on a weekend.

### Disagreements between the code and what is said of it

Two have a run:

1. `LibraryShared`. The state key names user and room, the threshold belongs to the subscription:
   with two thresholds on one room the subscriptions reset each other's state and one of them is
   alerted at every tick (`library/worker.py:45` against lines 6-7 of the same file and F-14).
2. `LunchMenuDay`. `fetch_today_menu` takes `date.today()` of a container that runs on UTC: until
   09:00 in Seoul the menu is the one of the day before, and on a Monday there is none
   (`crawlers/lunch/client.py:76` against F-11).

Others were met while modelling; the models behave as the code does, and no run is spent on them.

* Send now. A second DM without a restart: a job reads `list_pending`, the sender records and
  releases a row of that list, the job finds it unclaimed (`bot/ROADMAP.md:45` names a restart as
  the only danger). `DELETE /users/me` erases the rows that mark requests as handled and keeps the
  requests, so a returned account is answered again (`lunch/repository.py:41`). An exception that is
  not the crawler's leaves the id claimed until the next start. The documented 429 is not
  implemented (`immediate_send/service.py:18`).
* Sender. The history row of an administrator's alert violates the foreign key on users, so alerts
  are never recorded (`RecordRejected`); a row inserted behind `DELETE /users/me` stays.
* Library. The state key expires 24 h after the last transition even if the room stayed low, and a
  deleted subscription leaves its key to its successor.
* Lunch. The window is built on the tick's date, so a `notify_at` behind the last tick of the day
  is never announced (the API accepts seconds); times with a fraction of a second or a zone are
  accepted by the API and skipped by the bot (`transit/worker.py:47` takes `HH:MM:SS` for granted).
* Transit. An answer that lists a train twice is announced twice (the set is read once per
  subscription); a row whose `arvlCd` is no number raises `ValueError` (`subway/client.py:223`),
  which is no crawler error and ends the tick without an alert; rows without `recptnDt` are not
  corrected for their age; a recurring embed sorts by the uncorrected seconds (`embeds.py:64`).
* Crawlers. A slow SETEX overwrites a newer value (`bot/ROADMAP.md:5` calls the race one of equal
  values); a week whose menu is not published is cached for seven days.
* Sessions. Two concurrent refreshes with one token both succeed, where `backend/ROADMAP.md:81` has
  the second use refused; F-05 names seven days, the code thirty; a logout whose POST fails is
  forgotten by the browser and keeps its token alive, and so does one that races a refresh; access
  tokens issued before a deletion work again after the next login. Init of `App.jsx` treats any
  failing `fetchMe` like a 401 and removes whatever tokens are stored by then (`App.jsx:54`, `71-72`):
  a second tab whose refresh is refused, because the first has rotated the token, erases the good
  pair the first has stored; a 500 of the refresh or of the retry behind it ends the session; and so
  does a first login whose commit is slower than the page load behind its redirect. F-05 knows no such
  end of a session; the run explores all of them.
* Configs. The schemas take any of the four directions with any `line`, although the description of
  the field (`schemas.py:41-44`) ties them: an API client can store `2호선` with `상행`, which no train
  matches (`transit/worker.py:336-337`). The web client's form normalizes the direction and sends no
  such rule. A window shorter than the 5 s of the trigger is stored too and may meet no tick.
* Subscriptions. A POST that passed `get_current_user` commits behind `DELETE /users/me` and leaves
  a subscription; `handleCategoryToggle` restores all rules though some PATCHes succeeded; `Btn`
  (`ui.jsx:29`) ignores `disabled`.
* History. The text promises `date_to − 30d`, the code takes the end of that day; deleting a
  subscription sets the rows' key to NULL (the router says cascade), and the history hides them.

### Bounds

| Bound | Values | Why it is enough |
|---|---|---|
| requests, subscriptions | 1 or 2 | the properties relate at most two copies, two rows of a batch or two subscriptions of a loop |
| `PollLimit` | 1 or 2 (50 in the code) | 2 lets a row wait behind another's crawler, which is what makes a list stale |
| `MaxRestarts`, `MaxRelogins` | up to 2 and 1 | `DmsBounded` counts them, so more of them only scale it; the proofs have no bound |
| `MaxDms` | 1 or 2 | with failing history INSERTs a request is sent for ever; the bound stops that loop |
| `MaxEvents` | 0 to 3 | a fault, a step of a user or of the rooms, and one to follow it; 3 reaches two setbacks and an edit. In `TransitRuns` it is 1: the answers of the API, which do not count, make up the rest |
| `MaxSeats` | 1 | thresholds 0 and 1 and the levels 0, 1 and *absent* give low, not low and unknown for both |
| `LunchDays` clock | days of 5, Period 1, Grace 3 ticks, 2 days | Grace is three periods in the code too (180 s, 60 s); the day holds the window and more |
| `TransitRuns` clock | days of 3, `MaxTime` 3, interval 2, `minutes_before` 2 | a report, its interval and midnight fit in; a train comes near while it is listed |
| `WebSessions` | 3 tokens, 3 events | a login and two refreshes, or two logins and a refresh; a repetition, a fault and a click |
| `Dashboard` | 2 ids, 3 requests, 2 events | a rule and a new one; two handlers and another device; a click and a fault or a second click. Times are three seconds of the day, two of them closer than the trigger |
| `CrawlerAnswers` clock | a unit is 8 h, `Lag` 1, `Delay` 1, from Friday, `MaxTime` 12 | the lunch TTL (21 units) and the weekend are the point, and a shorter TTL (2) of a second client makes entries end. Lag is nine hours in the code; while lag and call together stay under two days, the weekend lies between |

`CHECK_DEADLOCK FALSE` is set throughout: with nothing pending the system rests until a user acts,
and clocks and bounds end.

### Fairness

Only `ImmediateAnswered` and `LibraryDips` check liveness. Weak fairness of each polling job, of
the sender and of commits that are under way, and nothing of users, faults, expiry, restarts.
APScheduler fires the jobs for ever, asyncio runs what is ready, an open transaction ends. The
crawlers answer or raise (they have timeouts). Faults need no fairness: their numbers are bounded
per run, except for a crawler that fails every time, which "send now" answers with a FAILED row and
the library job survives because `SnapshotFails` is not part of the fair step and counts as an
event. The web client promises no progress: whatever is refused is left to the user.

### Refinement

`CrawlerCache` implements `FreshAnswers` under the mapping `Promise`: a call that waits for Redis
or the source is `asked`, its reading becomes visible when it is answered, and `MaxAge` is the TTL
plus the time one call takes. Steps on the cache are stutters of the promise. The run checks it as
the property `AnswersFresh`, and `ClientsKeepPromise` proves it.

## Theorems

All hold for every value of the constants that satisfies the named assumptions (ids are naturals,
owners are users, administrators' Discord ids are no user ids, bounds are naturals), for any set
of faults, unless the row names a further hypothesis. Every safety property of the passing runs is
one of them.

| Theorem | States |
|---|---|
| `ImmediateSendProofs!TypeCorrect` | `Spec => []TypeOK` |
| `ImmediateSendProofs!OneLiveCopy` | `Spec => []SingleLiveCopy` |
| `ImmediateSendProofs!ClaimsCover` | `Spec => []InflightCoversPipeline` |
| `ImmediateSendProofs!RecordedFateStands` | `Spec => FateIsFinal` |
| `ImmediateSendProofs!SuccessRowsAreTrue` | `Spec => []SuccessIsTrue` |
| `ImmediateSendProofs!FailedRowsAreTrue` | without faults of the database and lost replies, `Spec => FailureIsTrueWhenRecorded` |
| `ImmediateSendProofs!NothingStranded` | without faults of the database, escaping exceptions and returns of accounts, `Spec => []NoStrandedRequest` |
| `ImmediateSendProofs!DmsAreBounded` | without faults of the database, `Spec => []DmsBounded` |
| `LibraryJobProofs!LibTypeCorrect` | `Spec => []LibTypeOK` |
| `LibraryJobProofs!AlertsStayMarked` | with one subscription per user, `Spec => []AlertsAreMarked` |
| `LibraryJobProofs!OneAlertPerDip` | with one subscription per user, `Spec => NoRepeatBeforeRecovery` |
| `LunchJobProofs!LunchTypeCorrect` | `Spec => []LunchTypeOK` |
| `LunchJobProofs!AnnouncedOnce` | `Spec => []OncePerDay` |
| `LunchJobProofs!GraceIsEnough` | if `Grace >= 3 * Period`, `Spec => []GraceAbsorbs` |
| `TransitJobProofs!TransitTypeCorrect` | `Spec => []TransitTypeOK` |
| `TransitJobProofs!ClaimsEnd` | `Spec => []NoSilencedSubscription` |
| `TransitJobProofs!OneReport` | `Spec => []OneReportAtATime` |
| `TransitJobProofs!IntervalKept` | `Spec => ReportsSpaced` |
| `TransitJobProofs!TrainsOnce` | if no answer lists a train of a direction twice, `Spec => []OncePerTrain` |
| `TransitJobProofs!FailuresAreIsolated` | `Spec => ServedOrAlerted` (announced, but for `lost`) |
| `CrawlerCacheProofs!CacheTypeCorrect` | `Spec => []CacheTypeOK` |
| `CrawlerCacheProofs!ClientsKeepPromise` | `Spec => AnswersFresh` |
| `CrawlerCacheProofs!WeeksHoldTheirPage` | if `Lag + Delay <= 2 * DayLength`, `Spec => []WeekHoldsItsPage` |
| `WebSessionProofs!WebTypeCorrect` | `Spec => []WebTypeOK` |
| `WebSessionProofs!SessionKept` | `Spec => []SessionAlive` |
| `WebSessionProofs!GoodTokenStays` | `Spec => LiveSessionKept` |
| `WebSessionProofs!OneLogin` | `Spec => []OneLoginPerState` |
| `WebSessionProofs!Welcomed` | `Spec => []WelcomeOnce` |
| `ApiProofs!DashTypes` | `Spec => []DashTypeOK` |
| `ApiProofs!StoredConfigsServe` | `Spec => []StoredConfigsChecked` |
| `ApiProofs!FormsWork` | a rule of whole minutes on a line the crawler knows, normalized by the form and accepted, works |
| `ApiProofs!FieldsStay` | `Spec => FieldsKept` |
| `ApiProofs!ScreensAgree` | `Spec => []ViewAgrees` |
| `ApiProofs!WindowIsBounded` | an accepted window is not empty, at most 30 days long, and means whole days |
| `ApiProofs!NeighboursMeet` | the answers for two neighbouring windows, if shorter than the limit, hold each row of the range once |

The further hypotheses are about the code or about what the property leaves out:

* *The database stores rows* (`"db" \notin Faults`). A history INSERT that fails leaves no trace of
  a DM, so the next poll sends it again, without a bound; and it leaves a claim that
  `_insert_immediate_failure` does not give back. The runs of these properties make the same
  restriction, `ImmediateClaims` checks the claims with every fault.
* *No lost replies* for FAILED rows: a `DiscordException` behind a delivered message is recorded as
  a failure, and nothing in the code could know better.
* *No escaping exceptions, no returns* for `NoStrandedRequest`: both strand a claim until the next
  start (disagreements, above).
* *Three periods of grace*: 180 s and 60 s in the code. *Lag and call within a weekend*: nine hours
  and the timeouts of Playwright against two days.

* **One live copy.** Neither half is inductive. A second copy can only be made by a job that claims
  a free id, so uniqueness needs that live copies are claimed; the sender's release keeps that only
  if the copy it releases is the last one. The conjunction with the type invariant is inductive.
* **Fates.** `history` is written by `InsertResult`, which refuses a second row of a request, and
  by the statements of a deletion; `SetNull` changes rows of subscriptions only. That no step but
  these disturbs a row is a case analysis over `Next`; that a SUCCESS row means a DM needs
  `TruthInv`, which says the same of the result the sender is about to record. For FAILED rows
  `AccountedInv` says that, before any restart or return, a request with a DM has a row, or an owner
  who left, or the sender is about to record its SUCCESS; one live copy keeps a job from recording
  a failure of it meanwhile.
* **Stranded requests.** `OwnersInv` ties a task and a claimed row to the user of the request; then
  a claim loses its live copy only by the release behind a row, or behind the guard that found the
  owner deleted.
* **Bounded DMs.** `Potential(r)` is the number of DMs that the request can still cause without
  another restart or return: its live copy, one stale row in a list that a job has read, and one
  task until a fate is recorded. `BoundInv` says that the DMs so far and the potential stay below the
  bound: a send takes one from the potential and adds one DM, a restart refills at most one task,
  a return of the account two, and every other step leaves it or lowers it. A second stale row
  cannot come up behind the first, because only the list of the request's own job can hold it.
* **Marks.** The mark of an alert is stored a step after the put, so the invariant lets it be due.
  Strengthened by: a list has one row per subscription, and a SET of "above" is due only for a
  subscription that was just evaluated above. The assumption of one subscription per user is what
  `LibraryShared` shows to be necessary: without it a key stands for several thresholds.
* **Once a day.** That a put is the first of its day rests on the key stored before it
  (`AnnouncedAreKeyed`) and on nobody storing the key of the row in hand while its crawlers run
  (`HandIsFresh`), which holds because there is one run at a time and a list has one row per
  subscription. The date is the run's, so midnight plays no role.
* **Grace.** `GraceInv` counts: while the day's announcement of an untouched subscription is open,
  the next tick comes at most one period per setback, and one for a run that has the subscription
  still to do, behind the first tick of the window (`OnTime`). With two setbacks that is before the
  end of a window of three periods. It needs that the list of a run has every steady subscription
  (`SteadyAreListed`), that no run is of a day to come (`RunsAreOfToday`) and that a key without an
  announcement is lost or its put is next (`KeysAreAccounted`).
* **Reports apart.** `SpacedInv` is the type invariant with `PipeInv` (claims and tasks of a
  subscription match, and a task that waits or is held is due against the last SUCCESS row) and
  `RunInv` (the rows of a run are rows of the table, and a recurring row in hand stays unclaimed
  until its put). The check of the claim is old when it is used; what makes it good is that only
  the job claims and there is one run at a time. The look at the last SUCCESS row is old, too, and
  good because a row can only come from a task, and there is none.
* **Trains once.** `OnceInv`: what was announced is in the set of Redis, or its day is over
  (`BooksInv`), and the candidates of the row in hand are different trains, none announced yet
  (`TurnsInv`). Redis is asked once per subscription, before the fetch; that answer stays good
  because only this run adds to the set, and the TTL takes no key of the run's day. That an answer
  lists a train once is assumed (`TrainsAreListedOnce`): the filter runs before the loop that
  updates `sent_train_nos`, so the code does not ensure it.
* **Failures isolated.** `ServedInv` says of the rows behind the run that their fetch has failed, or
  that the cached answer has no near train which the set of the day lacks (`BehindInv`), and of the
  row in hand how far it is (`Effort`): what is still to announce is among the candidates left, and
  the one in turn is in the set before its task is put. SADD only shrinks what others have left, the
  TTL spares the day of a run, and a fetch is only made for a station without an answer, so no
  settled row is unsettled. A run ends regularly behind its last row, and puts the alerts there. What
  is in the set was announced, is the train in turn between SADD and put, or is in `lost`
  (`AccountedInv`).
* **Fresh answers.** `FreshInv`: an entry ends at most the TTL and one call behind its reading,
  because a call reads and stores within `Delay`. A hit before that end is fresh enough, whichever
  caller stored the entry and however late.
* **Weeks.** A lunch call works for the container's day it began on, no weekend day
  (`PagesInv`). The page is read less than `Lag + Delay` behind the end of that day, which from a
  Friday reaches at most the end of the Sunday, so the page is still of the week of the key.
* **Sessions.** `SessionInv` adds to `SessionAlive` that a token on its way to the browser, in a
  redirect or in the reply of a refresh, is in the whitelist, on its way once, and nobody else's:
  not the stored one, not the one of a logout, not the old one of any refresh. Nobody can revoke
  what the browser has not seen, and that is what makes a reply good whenever it arrives. For
  `LiveSessionKept` `GoneInv` adds that a refusal, like a grant, is about a token that has left the
  whitelist and never comes back: a load that is refused removes a good token only if it is another.
* **One login, one welcome.** A callback behind the lock has a state that is used or expired
  (`StateInv`); one that inserts holds the row while there is no committed account, so it is alone,
  and one that revives found a committed row (`GreetInv`).
* **The API.** `ApiInv` says of each open request what it holds and what its row will be when it
  commits (`Fits`): a creation holds a new id, an update a row of its user and type that differs
  from the table's only in what the request names, a deletion nothing behind it. Touched rows of two
  requests are disjoint: that is the lock. An UPDATE is built from an older reading, but it takes the
  unnamed columns from the table, which is why no field is lost and why every row is one accepted
  body as a whole (`GoodRow`).
* **The screens.** `Links` says which call each handler awaits and what it asks for. `ViewInv`
  then says of every id that is not in `loose` that at most one call names it (`Alone`), that the
  screens show what that call will leave behind, or what a failure will be undone to (`Awaited`), and
  that otherwise they show the row (`Kept`); and of every reload that its list is right for the ids nobody
  writes behind it (`Lists`). At rest there is no call and no handler. What this costs is in `loose`,
  whose exceptions are those of `ViewAgrees`.

Only model-checked: liveness (`EveryRequestAnswered`, `EveryDipReported`), which is out of the
prover's reach, as is ENABLED. `NoResendWhileLow` and `MenuOfTheDay` are refuted by their runs.

## Not modelled

* Embeds, the administration API (one read-only endpoint), migrations, IAM tokens and deployment
  have no control state. What a model needs of them is in it: `_effective_seconds` in
  `SubwayBoard`, the unique index in `Database`, the time zone of the container in `CrawlerCache`.
* The parsing of the cafeteria page, the library page and the Naver search, the sample of
  restaurants, the statistics and the history screen of the web client and its development mode:
  functions of data, without steps that could interleave.
* JWT signatures and claims (a token is its identity), the contents of messages and payloads,
  back-off delays, log lines.
* The 25 h TTL of the lunch keys, which outlive the date they name; time in `LibraryJob` and
  `ImmediateSend`, where a tick may come at any moment; F-15, which only colours the embed; two
  bots on one database, which the deployment does not have.

## Plan

1. An abstract ledger of requests (requested, sent or failed, never back) that `ImmediateSend`
   implements when nobody deletes an account: the mapping as a property of a run, and the step
   simulation as a theorem, from `CopyInv`.
2. The composition of `SubscriptionApi` with the jobs: a PATCH between the list of a run and its
   put, with the full config of `Configs` in place of the units of `TransitJob`.
3. Lemmas about `SubwayBoard`: the aging of seconds is monotone, and a refused answer is never a
   list.
