---------------------------- MODULE CrawlerCache ----------------------------
(***************************************************************************)
(* The four crawler clients of the bot, which read their source through a  *)
(* cache in Redis: GET, on a miss the source, then SETEX.  Several jobs    *)
(* call one client at a time and nothing locks; the keys of the lunch menu *)
(* and of the restaurants name the week and the day of the container's     *)
(* clock.                                                                  *)
(*                                                                         *)
(* What a source says is abstracted to the instant at which it said it.    *)
(* Instant 0 is a midnight of Seoul.                                       *)
(***************************************************************************)
EXTENDS Integers

CONSTANTS Callers,    \* coroutines of the jobs
          Clients,    \* the clients of this instance
          Ttl,        \* _REDIS_TTL_SECONDS per client
          Delay,      \* bound: how long a call waits for Redis and the source
          DayLength,  \* units of a day
          FirstDay,   \* weekday of the day of instant 0; Monday is 0
          Lag,        \* units the clock of the container is behind Seoul
          MaxTime,    \* bound: the clock
          Faults      \* "redis": a command raises; "crawler": the source fails

ASSUME CacheAssumption == /\ Clients \subseteq {"subway", "library", "lunch", "restaurants"}
                          /\ Ttl \in [Clients -> Nat \ {0}]
                          /\ Delay \in Nat /\ Lag \in Nat /\ FirstDay \in 0..6
                          /\ DayLength \in Nat \ {0}
                          /\ MaxTime \in Nat
                          /\ Faults \subseteq {"redis", "crawler"}

VARIABLES now,   \* the clock
          cache, \* Redis: the live keys of the clients
          call   \* fetch_arrivals, fetch_seats, fetch_today_menu, fetch_pool

cacheVars == <<now, cache, call>>

SeoulDay(t) == t \div DayLength
LocalDay(t) == (t - Lag) \div DayLength  \* date.today()
WeekOf(day)  == (day + FirstDay) \div 7
Weekend(day) == (day + FirstDay) % 7 >= 5

\* subway:arrivals:{station} (one station), library:rooms:{url},
\* lunch:menu:{week}, restaurants:pool:{day}
KeyOf(client, day) == <<client, CASE client = "lunch" -> WeekOf(day)
                                  [] client = "restaurants" -> day
                                  [] OTHER -> 0>>

Keys == Clients \X Int

\* at: the source's reading; expires: the end of the TTL.
Entry == [key : Keys, at : Nat, expires : Nat]

Idle == [pc |-> "idle"]

\* day is taken when the call begins, seen is the reading that is in hand.
Pending  == [pc : {"get", "fetch"}, client : Clients, since : Nat, day : Int]
Finished == [pc : {"set", "answered"}, client : Clients, since : Nat, day : Int, seen : Nat]

CacheTypeOK == /\ now \in Nat
               /\ cache \subseteq Entry
               /\ \A e, f \in cache : e.key = f.key => e = f
               /\ \A e \in cache : e.expires > now
               /\ call \in [Callers -> {Idle} \cup Pending \cup Finished]

Init == now = 0 /\ cache = {} /\ call = [c \in Callers |-> Idle]

Waiting(c) == call[c].pc \in {"get", "fetch", "set"}

\* Redis removes a key when its TTL ends.  The timeouts of httpx and Playwright
\* end a call.
Advance == /\ now < MaxTime
           /\ \A c \in Callers : Waiting(c) => now < call[c].since + Delay
           /\ now' = now + 1
           /\ cache' = {e \in cache : e.expires > now'}
           /\ UNCHANGED call

Begin(c, client, day) ==
  [pc |-> "get", client |-> client, since |-> now, day |-> day]

With(c, pc, seen) ==
  [pc |-> pc, client |-> call[c].client, since |-> call[c].since, day |-> call[c].day,
   seen |-> seen]

Becomes(c, new) == call' = [call EXCEPT ![c] = new] /\ UNCHANGED now

\* Mutant of Ask: fetch_today_menu does not ask whether the day is a weekend.
AskAnyDay(c, client) ==
  /\ call[c].pc = "idle"
  /\ Becomes(c, Begin(c, client, LocalDay(now)))
  /\ UNCHANGED cache

\* On a weekend there is no menu (NoMenu).
Ask(c, client) ==
  /\ call[c].pc = "idle"
  /\ ~(client = "lunch" /\ Weekend(LocalDay(now)))
  /\ Becomes(c, Begin(c, client, LocalDay(now)))
  /\ UNCHANGED cache

NoMenu(c) ==
  /\ call[c].pc = "idle"
  /\ "lunch" \in Clients /\ Weekend(LocalDay(now))
  /\ Becomes(c, [pc |-> "answered", client |-> "lunch", since |-> now,
                 day |-> LocalDay(now), seen |-> now])
  /\ UNCHANGED cache

Key(c) == KeyOf(call[c].client, call[c].day)

\* Mutant of Hit: every hit begins a new TTL.
HitRenewing(c) ==
  /\ call[c].pc = "get"
  /\ \E e \in cache :
       /\ e.key = Key(c)
       /\ Becomes(c, With(c, "answered", e.at))
       /\ cache' = (cache \ {e}) \cup {[e EXCEPT !.expires = now + Ttl[call[c].client]]}

\* A week in the cache has its five days, so a hit always has today.
Hit(c) == /\ call[c].pc = "get"
          /\ \E e \in cache : e.key = Key(c) /\ Becomes(c, With(c, "answered", e.at))
          /\ UNCHANGED cache

Miss(c) == /\ call[c].pc = "get"
           /\ \A e \in cache : e.key # Key(c)
           /\ Becomes(c, [call[c] EXCEPT !.pc = "fetch"])
           /\ UNCHANGED cache

Fetch(c) == /\ call[c].pc = "fetch"
            /\ Becomes(c, With(c, "set", now))
            /\ UNCHANGED cache

\* Mutant of Stored: the new value does not replace the old one.
StoredBeside(c, ttl) ==
  cache \cup {[key |-> Key(c), at |-> call[c].seen, expires |-> now + ttl]}

Stored(c, ttl) == {e \in cache : e.key # Key(c)} \cup
                    {[key |-> Key(c), at |-> call[c].seen, expires |-> now + ttl]}

SetEx(c) == /\ call[c].pc = "set"
            /\ cache' = Stored(c, Ttl[call[c].client])
            /\ Becomes(c, With(c, "answered", call[c].seen))

\* The exception of the source, or of Redis, is the caller's; the SETEX may
\* have been executed.
Raises(c) == /\ \/ call[c].pc = "fetch" /\ "crawler" \in Faults /\ UNCHANGED cache
                \/ call[c].pc \in {"get", "set"} /\ "redis" \in Faults /\ UNCHANGED cache
                \/ /\ call[c].pc = "set" /\ "redis" \in Faults
                   /\ cache' = Stored(c, Ttl[call[c].client])
             /\ Becomes(c, Idle)

\* The caller goes on with the answer.
Taken(c) == call[c].pc = "answered" /\ Becomes(c, Idle) /\ UNCHANGED cache

Next == \/ Advance
        \/ \E c \in Callers :
             \/ \E client \in Clients : Ask(c, client)
             \/ NoMenu(c) \/ Hit(c) \/ Miss(c) \/ Fetch(c) \/ SetEx(c) \/ Raises(c) \/ Taken(c)

Spec == Init /\ [][Next]_cacheVars

-----------------------------------------------------------------------------
(* Properties.                                                             *)

\* What its caller can see of a call.
Shown(k) == CASE k.pc = "idle"     -> Idle
              [] k.pc = "answered" -> [pc |-> "answered", client |-> k.client,
                                       since |-> k.since, seen |-> k.seen]
              [] OTHER -> [pc |-> "asked", client |-> k.client, since |-> k.since]

Promise == INSTANCE FreshAnswers WITH
             asked  <- [c \in Callers |-> Shown(call[c])],
             MaxAge <- [client \in Clients |-> Ttl[client] + Delay]

\* The clients implement FreshAnswers: however calls overlap, and although a
\* slow SETEX overwrites a newer value with an older one for a whole TTL, no
\* answer is older than the TTL and the time one call takes.
AnswersFresh == Promise!AbsSpec

\* The page of the cafeteria shows the current week of Seoul; fetch_today_menu
\* files its columns for seven days under the week of the container's day it
\* took before it waited for the page.  The weekend keeps the two apart: no
\* week of the cache holds the page of another week.
WeekHoldsItsPage ==
  \A e \in cache : e.key[1] = "lunch" => WeekOf(SeoulDay(e.at)) = e.key[2]

-----------------------------------------------------------------------------
(* What a document says of the program, and the code does not do.          *)

\* features.md, F-11: the menu is the one of the day (of Seoul, by which the
\* lunch job announces).
MenuOfTheDay ==
  \A c \in Callers : call[c].pc # "idle" /\ call[c].client = "lunch"
                       => call[c].day = SeoulDay(call[c].since)
=============================================================================
