------------------------- MODULE CrawlerCacheProofs -------------------------
(***************************************************************************)
(* Theorems about CrawlerCache, for every set of callers and clients,      *)
(* every TTL and duration of a call, and every combination of faults.      *)
(***************************************************************************)
EXTENDS CrawlerCache, TLAPS

USE CacheAssumption

-----------------------------------------------------------------------------
LEMMA KeyType ==
  ASSUME NEW client \in Clients, NEW day \in Int
  PROVE  KeyOf(client, day) \in Keys /\ KeyOf(client, day)[1] = client
<1>1. WeekOf(day) \in Int
  BY DEF WeekOf
<1> QED
  BY <1>1 DEF KeyOf, Keys

LEMMA DayType == ASSUME NEW t \in Nat PROVE LocalDay(t) \in Int
BY DEF LocalDay

LEMMA CallType ==
  ASSUME CacheTypeOK, NEW c \in Callers
  PROVE  /\ call[c] \in {Idle} \cup Pending \cup Finished
         /\ call[c].pc = "idle" => call[c] = Idle
         /\ call[c].pc \in {"get", "fetch"} => call[c] \in Pending
         /\ call[c].pc \in {"set", "answered"} => call[c] \in Finished
BY DEF CacheTypeOK, Idle, Pending, Finished

\* The key of a call that is under way.
LEMMA KeyInHand ==
  ASSUME CacheTypeOK, NEW c \in Callers, Waiting(c)
  PROVE  /\ call[c].client \in Clients /\ call[c].since \in Nat /\ call[c].day \in Int
         /\ Key(c) \in Keys /\ Key(c)[1] = call[c].client
         /\ Ttl[call[c].client] \in Nat \ {0}
<1>1. call[c].client \in Clients /\ call[c].since \in Nat /\ call[c].day \in Int
  BY CallType DEF Waiting, Pending, Finished
<1> QED
  BY <1>1, KeyType DEF Key

\* The cache of a step that stores.
LEMMA StoredType ==
  ASSUME CacheTypeOK, NEW c \in Callers, call[c].pc = "set", now' = now,
         cache' = Stored(c, Ttl[call[c].client])
  PROVE  /\ cache' \subseteq Entry
         /\ \A e, f \in cache' : e.key = f.key => e = f
         /\ \A e \in cache' : e.expires > now'
<1> DEFINE ttl == Ttl[call[c].client]
           new == [key |-> Key(c), at |-> call[c].seen, expires |-> now + ttl]
<1>1. ttl \in Nat \ {0} /\ Key(c) \in Keys
  BY KeyInHand DEF Waiting
<1>2. call[c].seen \in Nat
  BY CallType DEF Finished
<1>3. new \in Entry /\ new.expires > now /\ new.key = Key(c)
  BY <1>1, <1>2 DEF CacheTypeOK, Entry
<1>4. cache' = {e \in cache : e.key # Key(c)} \cup {new}
  BY DEF Stored
<1> HIDE DEF new
<1> QED
  BY <1>3, <1>4 DEF CacheTypeOK

LEMMA StepType == CacheTypeOK /\ [Next]_cacheVars => CacheTypeOK'
<1> SUFFICES ASSUME CacheTypeOK, [Next]_cacheVars
             PROVE  CacheTypeOK'
  OBVIOUS
<1> USE DEF CacheTypeOK
<1> DEFINE Calls == {Idle} \cup Pending \cup Finished
<1>1. CASE Advance
  <2>1. now' \in Nat /\ cache' \subseteq cache /\ \A e \in cache' : e.expires > now'
    BY <1>1 DEF Advance
  <2> QED
    BY <1>1, <2>1 DEF Advance
<1>2. ASSUME NEW c \in Callers, NEW new \in Calls, Becomes(c, new), UNCHANGED cache
      PROVE  CacheTypeOK'
  BY <1>2 DEF Becomes
<1>3. ASSUME NEW c \in Callers, NEW client \in Clients, Ask(c, client)
      PROVE  CacheTypeOK'
  <2>1. Begin(c, client, LocalDay(now)) \in Calls
    BY DayType DEF Begin, Pending
  <2> QED
    BY <1>2, <1>3, <2>1 DEF Ask
<1>4. ASSUME NEW c \in Callers, NoMenu(c)
      PROVE  CacheTypeOK'
  <2> DEFINE new == [pc |-> "answered", client |-> "lunch", since |-> now,
                     day |-> LocalDay(now), seen |-> now]
  <2>1. new \in Calls
    BY <1>4, DayType DEF NoMenu, Finished
  <2> QED
    BY <1>2, <1>4, <2>1 DEF NoMenu
<1>5. ASSUME NEW c \in Callers, Waiting(c), NEW pc \in {"set", "answered"}, NEW seen \in Nat
      PROVE  With(c, pc, seen) \in Calls
  BY <1>5, KeyInHand DEF With, Finished
<1>6. ASSUME NEW c \in Callers, Hit(c)
      PROVE  CacheTypeOK'
  <2>1. PICK e \in cache : e.key = Key(c) /\ Becomes(c, With(c, "answered", e.at))
    BY <1>6 DEF Hit
  <2>2. e.at \in Nat
    BY DEF Entry
  <2> QED
    BY <1>2, <1>5, <1>6, <2>1, <2>2 DEF Hit, Waiting
<1>7. ASSUME NEW c \in Callers, Miss(c)
      PROVE  CacheTypeOK'
  <2>1. [call[c] EXCEPT !.pc = "fetch"] \in Calls
    BY <1>7, CallType DEF Miss, Pending
  <2> QED
    BY <1>2, <1>7, <2>1 DEF Miss
<1>8. ASSUME NEW c \in Callers, Fetch(c)
      PROVE  CacheTypeOK'
  BY <1>2, <1>5, <1>8 DEF Fetch, Waiting
<1>9. ASSUME NEW c \in Callers, NEW new \in Calls, call[c].pc = "set", Becomes(c, new),
             cache' = Stored(c, Ttl[call[c].client])
      PROVE  CacheTypeOK'
  <2>1. now' = now /\ call' \in [Callers -> Calls]
    BY <1>9 DEF Becomes
  <2> QED
    BY <1>9, <2>1, StoredType
<1>10. ASSUME NEW c \in Callers, SetEx(c)
       PROVE  CacheTypeOK'
  <2>1. call[c].seen \in Nat
    BY <1>10, CallType DEF SetEx, Finished
  <2> QED
    BY <1>5, <1>9, <1>10, <2>1 DEF SetEx, Waiting
<1>11. ASSUME NEW c \in Callers, Raises(c)
       PROVE  CacheTypeOK'
  BY <1>2, <1>9, <1>11 DEF Raises
<1>12. ASSUME NEW c \in Callers, Taken(c)
       PROVE  CacheTypeOK'
  BY <1>2, <1>12 DEF Taken
<1>13. CASE UNCHANGED cacheVars
  BY <1>13 DEF cacheVars
<1> QED
  BY <1>1, <1>3, <1>4, <1>6, <1>7, <1>8, <1>10, <1>11, <1>12, <1>13 DEF Next

\* Every reachable state of the clients and their cache is typed; no key has
\* two values, and no value outlives its TTL.
THEOREM CacheTypeCorrect == Spec => []CacheTypeOK
<1>1. Init => CacheTypeOK
  BY DEF Init, CacheTypeOK
<1> QED
  BY <1>1, StepType, PTL DEF Spec

-----------------------------------------------------------------------------
(* The refinement.                                                         *)

\* What keeps an answer fresh.  The SETEX of a call begins a TTL at most Delay
\* after its reading, because a call ends within Delay and reads in between.
Timely ==
  /\ \A e \in cache : e.at <= now /\ e.expires <= e.at + Ttl[e.key[1]] + Delay
  /\ \A c \in Callers :
       /\ call[c].pc # "idle" => call[c].since <= now
       /\ Waiting(c) => now <= call[c].since + Delay
       /\ call[c].pc = "set" => call[c].since <= call[c].seen /\ call[c].seen <= now

FreshInv == CacheTypeOK /\ Timely

\* What one call must obey at time t.
TimelyCall(k, t) ==
  /\ k.pc # "idle" => k.since <= t
  /\ k.pc \in {"get", "fetch", "set"} => t <= k.since + Delay
  /\ k.pc = "set" => k.since <= k.seen /\ k.seen <= t

LEMMA CallMoves ==
  ASSUME FreshInv, NEW c \in Callers, NEW new, Becomes(c, new), TimelyCall(new, now)
  PROVE  /\ \A d \in Callers : TimelyCall(call'[d], now')
         /\ (UNCHANGED cache) => Timely'
<1>1. now' = now /\ \A d \in Callers : call'[d] = IF d = c THEN new ELSE call[d]
  BY DEF FreshInv, CacheTypeOK, Becomes
<1>2. \A d \in Callers : TimelyCall(call'[d], now')
  BY <1>1 DEF FreshInv, Timely, TimelyCall, Waiting
<1> QED
  BY <1>1, <1>2 DEF FreshInv, Timely, TimelyCall, Waiting

\* A SETEX keeps the entries timely.
LEMMA StoreTimely ==
  ASSUME FreshInv, NEW c \in Callers, call[c].pc = "set", now' = now,
         cache' = Stored(c, Ttl[call[c].client])
  PROVE  \A e \in cache' : e.at <= now' /\ e.expires <= e.at + Ttl[e.key[1]] + Delay
<1> DEFINE ttl == Ttl[call[c].client]
           new == [key |-> Key(c), at |-> call[c].seen, expires |-> now + ttl]
<1>1. Key(c)[1] = call[c].client /\ ttl \in Nat
  BY KeyInHand DEF Waiting, FreshInv
<1>2. /\ call[c].since \in Nat /\ call[c].seen \in Nat /\ now \in Nat
      /\ now <= call[c].since + Delay
      /\ call[c].since <= call[c].seen /\ call[c].seen <= now
  BY CallType DEF FreshInv, CacheTypeOK, Timely, Waiting, Finished
<1>3. now + ttl <= call[c].seen + ttl + Delay
  BY <1>1, <1>2
<1>4. ASSUME NEW e \in cache'
      PROVE  e \in cache \/ e = new
  BY <1>4 DEF Stored
<1>5. new.at <= now' /\ new.expires <= new.at + Ttl[new.key[1]] + Delay
  BY <1>1, <1>2, <1>3
<1> QED
  BY <1>4, <1>5 DEF FreshInv, Timely

LEMMA StepTimely == FreshInv /\ [Next]_cacheVars => Timely'
<1> SUFFICES ASSUME FreshInv, [Next]_cacheVars
             PROVE  Timely'
  OBVIOUS
<1>0. /\ CacheTypeOK /\ Timely /\ now \in Nat
      /\ \A c \in Callers : TimelyCall(call[c], now)
  BY DEF FreshInv, CacheTypeOK, Timely, TimelyCall, Waiting
<1>1. CASE Advance
  <2>1. cache' \subseteq cache /\ call' = call /\ now' = now + 1
    BY <1>1 DEF Advance
  <2>2. \A e \in cache' : e.at <= now' /\ e.expires <= e.at + Ttl[e.key[1]] + Delay
    BY <1>0, <2>1 DEF Timely, CacheTypeOK, Entry
  <2>3. ASSUME NEW c \in Callers
        PROVE  TimelyCall(call[c], now + 1)
    <3>1. CASE call[c].pc = "idle"
      BY <3>1 DEF TimelyCall
    <3>2. CASE Waiting(c)
      <4>1. call[c].since \in Nat /\ now < call[c].since + Delay
        BY <1>0, <1>1, <3>2, KeyInHand DEF Advance
      <4>2. call[c].pc = "set" => call[c].seen \in Nat
        BY <1>0, CallType DEF Finished
      <4> QED
        BY <1>0, <4>1, <4>2 DEF TimelyCall
    <3>3. CASE call[c].pc = "answered"
      <4>1. call[c].since \in Nat
        BY <1>0, <3>3, CallType DEF Finished
      <4> QED
        BY <1>0, <3>3, <4>1 DEF TimelyCall
    <3> QED
      BY <1>0, <3>1, <3>2, <3>3, CallType DEF Waiting, Idle, Pending, Finished
  <2> QED
    BY <2>1, <2>2, <2>3 DEF Timely, TimelyCall, Waiting
<1>2. ASSUME NEW c \in Callers, NEW client \in Clients, Ask(c, client)
      PROVE  Timely'
  BY <1>0, <1>2, CallMoves DEF Ask, Begin, TimelyCall
<1>3. ASSUME NEW c \in Callers, NoMenu(c)
      PROVE  Timely'
  BY <1>0, <1>3, CallMoves DEF NoMenu, TimelyCall
<1>4. ASSUME NEW c \in Callers, Hit(c)
      PROVE  Timely'
  <2>1. PICK e \in cache : Becomes(c, With(c, "answered", e.at))
    BY <1>4 DEF Hit
  <2>2. TimelyCall(With(c, "answered", e.at), now)
    BY <1>0, <1>4 DEF Hit, TimelyCall, With
  <2> QED
    BY <1>4, <2>1, <2>2, CallMoves DEF Hit
<1>5. ASSUME NEW c \in Callers, Miss(c)
      PROVE  Timely'
  <2>1. TimelyCall([call[c] EXCEPT !.pc = "fetch"], now)
    BY <1>0, <1>5, CallType DEF Miss, TimelyCall, Pending
  <2> QED
    BY <1>5, <2>1, CallMoves DEF Miss
<1>6. ASSUME NEW c \in Callers, Fetch(c)
      PROVE  Timely'
  <2>1. TimelyCall(With(c, "set", now), now)
    BY <1>0, <1>6 DEF Fetch, TimelyCall, With
  <2> QED
    BY <1>6, <2>1, CallMoves DEF Fetch
<1>7. ASSUME NEW c \in Callers, NEW new, call[c].pc = "set", Becomes(c, new),
             TimelyCall(new, now), cache' = Stored(c, Ttl[call[c].client])
      PROVE  Timely'
  <2>1. now' = now
    BY <1>7 DEF Becomes
  <2>2. \A e \in cache' : e.at <= now' /\ e.expires <= e.at + Ttl[e.key[1]] + Delay
    BY <1>7, <2>1, StoreTimely
  <2>3. \A d \in Callers : TimelyCall(call'[d], now')
    BY <1>7, CallMoves
  <2> QED
    BY <2>2, <2>3 DEF Timely, TimelyCall, Waiting
<1>8. ASSUME NEW c \in Callers, SetEx(c)
      PROVE  Timely'
  <2>1. TimelyCall(With(c, "answered", call[c].seen), now)
    BY <1>0, <1>8 DEF SetEx, TimelyCall, With
  <2> QED
    BY <1>7, <1>8, <2>1 DEF SetEx
<1>9. ASSUME NEW c \in Callers, Raises(c) \/ Taken(c)
      PROVE  Timely'
  <2>1. TimelyCall(Idle, now)
    BY DEF TimelyCall, Idle
  <2> QED
    BY <1>7, <1>9, <2>1, CallMoves DEF Raises, Taken
<1>10. CASE UNCHANGED cacheVars
  BY <1>0, <1>10 DEF cacheVars, Timely, Waiting
<1> QED
  BY <1>1, <1>2, <1>3, <1>4, <1>5, <1>6, <1>8, <1>9, <1>10 DEF Next

\* What the cache and the calls hold is fresh enough, in every reachable state.
LEMMA FreshInvariant == Spec => []FreshInv
<1>1. Init => FreshInv
  BY DEF Init, FreshInv, CacheTypeOK, Timely, Waiting, Idle
<1>2. FreshInv /\ [Next]_cacheVars => FreshInv'
  BY StepType, StepTimely DEF FreshInv
<1> QED
  BY <1>1, <1>2, PTL DEF Spec

-----------------------------------------------------------------------------
\* What the callers see: the variable asked of FreshAnswers.
Seen == [c \in Callers |-> Shown(call[c])]

LEMMA SeenMoves ==
  ASSUME CacheTypeOK, NEW c \in Callers, NEW new, Becomes(c, new)
  PROVE  now' = now /\ Seen' = [Seen EXCEPT ![c] = Shown(new)]
BY DEF CacheTypeOK, Becomes, Seen

\* A call that is answered with a reading at least as young as MaxAge.
LEMMA AnswerStep ==
  ASSUME CacheTypeOK, NEW c \in Callers, Waiting(c), NEW seen \in Nat, seen <= now,
         seen >= call[c].since - (Ttl[call[c].client] + Delay),
         Becomes(c, With(c, "answered", seen))
  PROVE  Promise!Answer(c)
<1>1. /\ Seen[c] = [pc |-> "asked", client |-> call[c].client, since |-> call[c].since]
      /\ call[c].client \in Clients /\ call[c].since \in Nat
      /\ Ttl[call[c].client] \in Nat
  BY KeyInHand DEF Seen, Shown, Waiting
<1>2. Shown(With(c, "answered", seen)) = Promise!Answered(Seen[c], seen)
  BY <1>1 DEF Shown, With, Promise!Answered
<1>3. seen \in (Seen[c].since - (Ttl[Seen[c].client] + Delay)) .. now
  BY <1>1 DEF CacheTypeOK
<1> QED
  BY <1>1, <1>2, <1>3, SeenMoves DEF Promise!Answer, Promise!Put, Seen

LEMMA StepRefines == FreshInv /\ [Next]_cacheVars => [Promise!AbsNext]_<<now, Seen>>
<1> SUFFICES ASSUME FreshInv, [Next]_cacheVars
             PROVE  Promise!AbsNext \/ UNCHANGED <<now, Seen>>
  OBVIOUS
<1>0. CacheTypeOK /\ Timely /\ now \in Nat
  BY DEF FreshInv, CacheTypeOK
<1>1. CASE Advance
  BY <1>1 DEF Advance, Promise!AbsNext, Promise!Pass, Seen
<1>2. ASSUME NEW c \in Callers, call[c].pc = "idle", NEW client \in Clients, NEW new,
             Becomes(c, new),
             Shown(new) \in {Promise!Asked(client),
                             Promise!Answered(Promise!Asked(client), now)}
      PROVE  Promise!AbsNext
  <2>1. Seen[c].pc = "idle"
    BY <1>2 DEF Seen, Shown, Idle
  <2>2. now' = now /\ Seen' = [Seen EXCEPT ![c] = Shown(new)]
    BY <1>0, <1>2, SeenMoves
  <2>3. \/ Promise!Put(c, Promise!Asked(client))
        \/ Promise!Put(c, Promise!Answered(Promise!Asked(client), now))
    BY <1>2, <2>2 DEF Promise!Put, Seen
  <2>4. Promise!Call(c)
    BY <1>2, <2>1, <2>3 DEF Promise!Call, Seen
  <2> QED
    BY <2>4 DEF Promise!AbsNext
<1>3. ASSUME NEW c \in Callers, NEW client \in Clients, Ask(c, client)
      PROVE  Promise!AbsNext
  <2>1. Shown(Begin(c, client, LocalDay(now))) = Promise!Asked(client)
    BY DEF Shown, Begin, Promise!Asked
  <2> QED
    BY <1>2, <1>3, <2>1 DEF Ask
<1>4. ASSUME NEW c \in Callers, NoMenu(c)
      PROVE  Promise!AbsNext
  <2> DEFINE new == [pc |-> "answered", client |-> "lunch", since |-> now,
                     day |-> LocalDay(now), seen |-> now]
  <2>1. Shown(new) = Promise!Answered(Promise!Asked("lunch"), now)
    BY DEF Shown, Promise!Answered, Promise!Asked
  <2>2. call[c].pc = "idle" /\ "lunch" \in Clients /\ Becomes(c, new)
    BY <1>4 DEF NoMenu
  <2> HIDE DEF new
  <2> QED
    BY <1>2, <2>1, <2>2
<1>5. ASSUME NEW c \in Callers, Hit(c)
      PROVE  Promise!AbsNext
  <2>1. PICK e \in cache : e.key = Key(c) /\ Becomes(c, With(c, "answered", e.at))
    BY <1>5 DEF Hit
  <2>2. Waiting(c)
    BY <1>5 DEF Hit, Waiting
  <2>3. /\ call[c].since \in Nat /\ Key(c)[1] = call[c].client
        /\ Ttl[call[c].client] \in Nat /\ call[c].since <= now
    BY <1>0, <1>5, <2>2, KeyInHand DEF Timely, Hit
  <2>4. /\ e.at \in Nat /\ e.expires \in Nat /\ e.expires > now /\ e.at <= now
        /\ e.expires <= e.at + Ttl[call[c].client] + Delay
    BY <1>0, <2>1, <2>3 DEF CacheTypeOK, Entry, Timely
  <2>5. e.at >= call[c].since - (Ttl[call[c].client] + Delay)
    BY <1>0, <2>3, <2>4
  <2> QED
    BY <1>0, <2>1, <2>2, <2>4, <2>5, AnswerStep DEF Promise!AbsNext
<1>6. ASSUME NEW c \in Callers, NEW new, Becomes(c, new), Shown(new) = Shown(call[c])
      PROVE  UNCHANGED <<now, Seen>>
  <2>1. Seen' = [Seen EXCEPT ![c] = Seen[c]] /\ now' = now
    BY <1>0, <1>6, SeenMoves DEF Seen
  <2> QED
    BY <2>1 DEF Seen
<1>7. ASSUME NEW c \in Callers, Miss(c)
      PROVE  UNCHANGED <<now, Seen>>
  <2>1. Shown([call[c] EXCEPT !.pc = "fetch"]) = Shown(call[c])
    BY <1>0, <1>7, CallType DEF Miss, Shown, Pending
  <2> QED
    BY <1>6, <1>7, <2>1 DEF Miss
<1>8. ASSUME NEW c \in Callers, Fetch(c)
      PROVE  UNCHANGED <<now, Seen>>
  <2>1. Shown(With(c, "set", now)) = Shown(call[c])
    BY <1>0, <1>8, CallType DEF Fetch, Shown, Pending, With
  <2> QED
    BY <1>6, <1>8, <2>1 DEF Fetch
<1>9. ASSUME NEW c \in Callers, SetEx(c)
      PROVE  Promise!AbsNext
  <2>1. Waiting(c)
    BY <1>9 DEF SetEx, Waiting
  <2>2. /\ call[c].seen \in Nat /\ call[c].since \in Nat
        /\ Ttl[call[c].client] \in Nat
        /\ call[c].since <= call[c].seen /\ call[c].seen <= now
    BY <1>0, <1>9, <2>1, CallType, KeyInHand DEF SetEx, Timely, Finished
  <2>3. call[c].seen >= call[c].since - (Ttl[call[c].client] + Delay)
    BY <2>2
  <2> QED
    BY <1>0, <1>9, <2>1, <2>2, <2>3, AnswerStep DEF SetEx, Promise!AbsNext
<1>10. ASSUME NEW c \in Callers, Raises(c) \/ Taken(c)
       PROVE  Promise!AbsNext
  <2>1. Becomes(c, Idle) /\ call[c].pc # "idle"
    BY <1>10 DEF Raises, Taken
  <2>2. Seen[c].pc # "idle" /\ Shown(Idle) = Promise!Idle
    BY <1>0, <2>1, CallType DEF Seen, Shown, Pending, Finished, Idle, Promise!Idle
  <2> QED
    BY <1>0, <2>1, <2>2, SeenMoves DEF Promise!AbsNext, Promise!Over, Promise!Put, Seen
<1>11. CASE UNCHANGED cacheVars
  BY <1>11 DEF cacheVars, Seen
<1> QED
  BY <1>1, <1>3, <1>4, <1>5, <1>7, <1>8, <1>9, <1>10, <1>11 DEF Next

\* Every behaviour of the clients, however their calls overlap and whatever
\* fails, is one of FreshAnswers: no answer is older than the TTL and the time
\* one call takes.
THEOREM ClientsKeepPromise == Spec => AnswersFresh
<1>1. Init => Promise!AbsInit
  <2>1. ASSUME Init PROVE Seen = [c \in Callers |-> Promise!Idle]
    BY <2>1 DEF Init, Seen, Shown, Idle, Promise!Idle
  <2> QED
    BY <2>1 DEF Init, Promise!AbsInit, Seen
<1>2. FreshInv /\ [Next]_cacheVars => [Promise!AbsNext]_(Promise!absVars)
  BY StepRefines DEF Promise!absVars, Seen
<1> QED
  BY <1>1, <1>2, FreshInvariant, PTL DEF Spec, AnswersFresh, Promise!AbsSpec
-----------------------------------------------------------------------------
(* The weeks of the cafeteria's pages.                                     *)

\* A call of the lunch client works for the container's day it began on, and
\* that day is no day of a weekend.
OnWeekday(k) ==
  k.client = "lunch" => k.day = LocalDay(k.since) /\ ~Weekend(k.day)

PagesInv == /\ \A c \in Callers : Waiting(c) => OnWeekday(call[c])
            /\ WeekHoldsItsPage

\* A quotient by the length of a day, as the provers need it.
LEMMA DayBounds ==
  ASSUME NEW t \in Int
  PROVE  /\ t \div DayLength \in Int
         /\ (t \div DayLength) * DayLength <= t
         /\ t < (t \div DayLength) * DayLength + DayLength
<1>1. DayLength \in Nat /\ DayLength >= 1
  OBVIOUS
<1> QED
  BY <1>1, Z3

\* t is d days and less than one day more.
LEMMA DaysBefore ==
  ASSUME NEW q \in Int, NEW d \in Int, q * DayLength < (d + 1) * DayLength
  PROVE  q <= d
<1>1. DayLength \in Nat /\ DayLength >= 1
  OBVIOUS
<1>2. CASE q > d
  <2>1. d + 1 <= q
    BY <1>2
  <2>2. (d + 1) * DayLength <= q * DayLength
    BY <1>1, <2>1, Z3
  <2>3. (d + 1) * DayLength \in Int /\ q * DayLength \in Int
    BY <1>1
  <2> QED
    BY <2>2, <2>3
<1> QED
  BY <1>2

\* A page that is fetched within Delay of a call that began on a weekday of the
\* container is of that day of Seoul or of one of the next two.
LEMMA PageDays ==
  ASSUME Lag + Delay <= 2 * DayLength,
         NEW since \in Nat, NEW at \in Nat, since <= at, at <= since + Delay
  PROVE  LocalDay(since) <= SeoulDay(at) /\ SeoulDay(at) <= LocalDay(since) + 2
<1> DEFINE D == DayLength
           d == (since - Lag) \div D
           q == at \div D
<1>1. /\ D \in Nat /\ D >= 1 /\ Lag \in Nat /\ Delay \in Nat
      /\ since - Lag \in Int
  OBVIOUS
<1>2. /\ d \in Int /\ d * D <= since - Lag /\ since - Lag < d * D + D
      /\ q \in Int /\ q * D <= at /\ at < q * D + D
  BY <1>1, DayBounds
<1>3. LocalDay(since) = d /\ SeoulDay(at) = q
  BY DEF LocalDay, SeoulDay
<1> HIDE DEF d, q
<1>4. /\ d * D \in Int /\ q * D \in Int /\ (q + 1) * D = q * D + D
      /\ (d + 2 + 1) * D = d * D + 3 * D
  BY <1>1, <1>2, Z3
<1>5. d * D < (q + 1) * D
  BY <1>1, <1>2, <1>4
<1>6. q * D < (d + 2 + 1) * D
  BY <1>1, <1>2, <1>4
<1>7. d <= q /\ q <= d + 2
  BY <1>2, <1>5, <1>6, DaysBefore
<1> QED
  BY <1>3, <1>7

\* From a weekday, the next two days are of the same week.
LEMMA SameWeek ==
  ASSUME NEW d \in Int, NEW q \in Int, ~Weekend(d), d <= q, q <= d + 2
  PROVE  WeekOf(q) = WeekOf(d)
<1>1. FirstDay \in Int
  OBVIOUS
<1>2. (d + FirstDay) % 7 < 5
  BY <1>1 DEF Weekend
<1>3. (q + FirstDay) \div 7 = (d + FirstDay) \div 7
  BY <1>1, <1>2
<1> QED
  BY <1>3 DEF WeekOf

\* Steps of one caller that leave the cache alone.
LEMMA PageCalls ==
  ASSUME CacheTypeOK, PagesInv, NEW c \in Callers, NEW new, Becomes(c, new), UNCHANGED cache,
         new.pc \in {"get", "fetch", "set"} => OnWeekday(new)
  PROVE  PagesInv'
<1>1. \A k \in Callers : call'[k] = IF k = c THEN new ELSE call[k]
  BY DEF CacheTypeOK, Becomes
<1>2. WeekHoldsItsPage'
  BY DEF PagesInv, WeekHoldsItsPage
<1>3. ASSUME NEW k \in Callers, Waiting(k)'
      PROVE  OnWeekday(call[k])'
  <2>1. CASE k = c
    BY <1>1, <1>3, <2>1 DEF Waiting, OnWeekday
  <2>2. CASE k # c
    BY <1>1, <1>3, <2>2 DEF Waiting, OnWeekday, PagesInv
  <2> QED
    BY <2>1, <2>2
<1> QED
  BY <1>2, <1>3 DEF PagesInv

\* The SETEX of a lunch call files the page under the week of its day.
LEMMA PageStored ==
  ASSUME Lag + Delay <= 2 * DayLength, FreshInv, PagesInv,
         NEW c \in Callers, call[c].pc = "set",
         cache' = Stored(c, Ttl[call[c].client])
  PROVE  WeekHoldsItsPage'
<1> DEFINE new == [key |-> Key(c), at |-> call[c].seen,
                   expires |-> now + Ttl[call[c].client]]
<1>1. ASSUME NEW e \in cache' PROVE e \in cache \/ e = new
  BY <1>1 DEF Stored
<1>2. ASSUME new.key[1] = "lunch"
      PROVE  WeekOf(SeoulDay(new.at)) = new.key[2]
  <2>1. /\ call[c].since \in Nat /\ call[c].seen \in Nat /\ call[c].day \in Int
        /\ now \in Nat /\ now <= call[c].since + Delay
        /\ call[c].since <= call[c].seen /\ call[c].seen <= now
    BY CallType DEF FreshInv, CacheTypeOK, Timely, Waiting, Finished
  <2>2. call[c].client = "lunch" /\ new.key[2] = WeekOf(call[c].day)
    BY <1>2, KeyInHand DEF FreshInv, Waiting, Key, KeyOf
  <2>3. call[c].day = LocalDay(call[c].since) /\ ~Weekend(call[c].day)
    BY <2>2 DEF PagesInv, Waiting, OnWeekday
  <2>4. call[c].seen <= call[c].since + Delay
    BY <2>1
  <2>5. /\ call[c].day <= SeoulDay(call[c].seen)
        /\ SeoulDay(call[c].seen) <= call[c].day + 2
    BY <2>1, <2>3, <2>4, PageDays
  <2>6. call[c].seen \in Int
    BY <2>1
  <2>7. SeoulDay(call[c].seen) \in Int
    BY <2>6, DayBounds DEF SeoulDay
  <2> QED
    BY <2>1, <2>2, <2>3, <2>5, <2>7, SameWeek
<1> HIDE DEF new
<1> QED
  BY <1>1, <1>2 DEF PagesInv, WeekHoldsItsPage

LEMMA StepPages ==
  Lag + Delay <= 2 * DayLength => (FreshInv /\ PagesInv /\ [Next]_cacheVars => PagesInv')
<1> SUFFICES ASSUME Lag + Delay <= 2 * DayLength, FreshInv, PagesInv, [Next]_cacheVars
             PROVE  PagesInv'
  OBVIOUS
<1>0. CacheTypeOK
  BY DEF FreshInv
<1>1. CASE Advance
  <2>1. call' = call /\ cache' \subseteq cache
    BY <1>1 DEF Advance
  <2> QED
    BY <2>1 DEF PagesInv, WeekHoldsItsPage, Waiting, OnWeekday
<1>2. ASSUME NEW c \in Callers, NEW client \in Clients, Ask(c, client)
      PROVE  PagesInv'
  <2>1. OnWeekday(Begin(c, client, LocalDay(now)))
    BY <1>2 DEF Ask, Begin, OnWeekday
  <2> QED
    BY <1>0, <1>2, <2>1, PageCalls DEF Ask
<1>3. ASSUME NEW c \in Callers, NoMenu(c)
      PROVE  PagesInv'
  BY <1>0, <1>3, PageCalls DEF NoMenu
<1>4. ASSUME NEW c \in Callers, Hit(c)
      PROVE  PagesInv'
  <2>1. PICK e \in cache : Becomes(c, With(c, "answered", e.at))
    BY <1>4 DEF Hit
  <2>2. With(c, "answered", e.at).pc = "answered"
    BY DEF With
  <2> QED
    BY <1>0, <1>4, <2>1, <2>2, PageCalls DEF Hit
<1>5. ASSUME NEW c \in Callers, Miss(c)
      PROVE  PagesInv'
  <2>1. OnWeekday([call[c] EXCEPT !.pc = "fetch"])
    BY <1>0, <1>5, CallType DEF Miss, PagesInv, Waiting, OnWeekday, Pending
  <2> QED
    BY <1>0, <1>5, <2>1, PageCalls DEF Miss
<1>6. ASSUME NEW c \in Callers, Fetch(c)
      PROVE  PagesInv'
  <2>1. OnWeekday(With(c, "set", now))
    BY <1>6 DEF Fetch, PagesInv, Waiting, OnWeekday, With
  <2> QED
    BY <1>0, <1>6, <2>1, PageCalls DEF Fetch
<1>7. ASSUME NEW c \in Callers, NEW new, call[c].pc = "set", Becomes(c, new),
             new.pc \notin {"get", "fetch", "set"},
             cache' = Stored(c, Ttl[call[c].client])
      PROVE  PagesInv'
  <2>1. \A k \in Callers : call'[k] = IF k = c THEN new ELSE call[k]
    BY <1>0, <1>7 DEF CacheTypeOK, Becomes
  <2>2. \A k \in Callers : Waiting(k)' => call'[k] = call[k] /\ Waiting(k)
    BY <1>7, <2>1 DEF Waiting
  <2>3. WeekHoldsItsPage'
    BY <1>7, PageStored
  <2> QED
    BY <2>2, <2>3 DEF PagesInv, OnWeekday
<1>8. ASSUME NEW c \in Callers, SetEx(c)
      PROVE  PagesInv'
  <2>1. With(c, "answered", call[c].seen).pc = "answered"
    BY DEF With
  <2> QED
    BY <1>7, <1>8, <2>1 DEF SetEx
<1>9. ASSUME NEW c \in Callers, Raises(c) \/ Taken(c)
      PROVE  PagesInv'
  <2>1. Idle.pc \notin {"get", "fetch", "set"}
    BY DEF Idle
  <2> QED
    BY <1>0, <1>7, <1>9, <2>1, PageCalls DEF Raises, Taken
<1>10. CASE UNCHANGED cacheVars
  BY <1>10 DEF cacheVars, PagesInv, WeekHoldsItsPage, Waiting, OnWeekday
<1> QED
  BY <1>1, <1>2, <1>3, <1>4, <1>5, <1>6, <1>8, <1>9, <1>10 DEF Next

\* The menu page that is cached for a week is of that week, although the
\* container's day is taken before the page is waited for and is not Seoul's:
\* provided that the lag of the container's clock (nine hours) and the time of
\* one call are together at most two days, the length of a weekend.
THEOREM WeeksHoldTheirPage ==
  ASSUME Lag + Delay <= 2 * DayLength
  PROVE  Spec => []WeekHoldsItsPage
<1>1. Init => PagesInv
  BY DEF Init, PagesInv, WeekHoldsItsPage, Waiting, Idle
<1>2. FreshInv /\ PagesInv /\ [Next]_cacheVars => PagesInv'
  BY StepPages
<1>3. PagesInv => WeekHoldsItsPage
  BY DEF PagesInv
<1> QED
  BY <1>1, <1>2, <1>3, FreshInvariant, PTL DEF Spec
=============================================================================
