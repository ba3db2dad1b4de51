--------------------------- MODULE LunchJobProofs ---------------------------
(***************************************************************************)
(* Theorems about LunchJob, for every set of subscriptions, every length   *)
(* of the day, period and grace, and every combination of faults.          *)
(***************************************************************************)
EXTENDS LunchJob, SenderProofs

USE IdsAssumption, OwnerAssumption, ReloginAssumption, FaultsAssumption,
    AdminsAssumption, TimeAssumption, TroublesAssumption

Keys == NotificationIds \X Days

\* The parts of LunchTypeOK about the run, the clock and the ghosts.
RunTypeOK == /\ lunch \in Lunch
             /\ lunch.pc \in {"loop", "fetch", "put"} => lunch.subs # {}

ClockTypeOK == day \in Days /\ time \in Times /\ due \in 0..Period

BookTypeOK == /\ sent_keys \subseteq Keys
              /\ notify_at \in [NotificationIds -> Times]
              /\ announced \in [Keys -> Nat]
              /\ lost \subseteq Keys
              /\ steady \subseteq NotificationIds
              /\ setbacks \in Nat /\ events \in Nat

\* (A fact about one state, and the same fact about the next.)
LEMMA SplitType ==
  /\ LunchTypeOK <=>
       DbTypeOK /\ SenderTypeOK /\ RunTypeOK /\ ClockTypeOK /\ BookTypeOK
  /\ LunchTypeOK' <=>
       DbTypeOK' /\ SenderTypeOK' /\ RunTypeOK' /\ ClockTypeOK' /\ BookTypeOK'
BY DEF LunchTypeOK, RunTypeOK, ClockTypeOK, BookTypeOK, Keys

LEMMA FramesKeepType ==
  /\ UNCHANGED dbVars => (DbTypeOK => DbTypeOK')
  /\ UNCHANGED senderVars => (SenderTypeOK => SenderTypeOK')
  /\ UNCHANGED clockVars => (ClockTypeOK => ClockTypeOK')
  /\ UNCHANGED lunch => (RunTypeOK => RunTypeOK')
  /\ UNCHANGED <<sent_keys, notify_at, ghostVars, events>> => (BookTypeOK => BookTypeOK')
BY DEF dbVars, DbTypeOK, senderVars, SenderTypeOK, Holding, clockVars, ClockTypeOK,
       RunTypeOK, ghostVars, BookTypeOK

LEMMA IdleType == IdleLunch \in Lunch /\ IdleLunch.pc = "idle"
<1>1. 0 \in Days /\ 0 \in Times
  BY DEF Days, Times
<1> QED
  BY <1>1 DEF IdleLunch, Lunch

LEMMA RowType ==
  ASSUME lunch \in Lunch, NEW sub \in lunch.subs
  PROVE  /\ sub \in Sub /\ sub.id \in NotificationIds
         /\ <<sub.id, lunch.date>> \in Keys
BY DEF Lunch, Sub, Keys

LEMMA CountOneMore ==
  ASSUME NEW S, NEW f \in [S -> Nat], NEW k \in S
  PROVE  [f EXCEPT ![k] = @ + 1] \in [S -> Nat]
OBVIOUS

\* Leaving a subscription keeps the run and the queue well-formed.
LEMMA LeaveType ==
  ASSUME RunTypeOK, SenderTypeOK, NEW sub \in lunch.subs,
         NEW before \in Seq(Task), NEW alert \in BOOLEAN,
         Leave(sub, before, alert), UNCHANGED pipelineRest
  PROVE  RunTypeOK' /\ SenderTypeOK'
<1>1. RunTypeOK'
  <2>1. CASE lunch.subs = {sub}
    BY <2>1, IdleType DEF Leave, RunTypeOK
  <2>2. CASE lunch.subs # {sub}
    <3>1. lunch' = [lunch EXCEPT !.pc = "loop", !.subs = @ \ {sub}, !.alert = alert]
      BY <2>2 DEF Leave
    <3>2. lunch.subs \ {sub} # {}
      BY <2>2
    <3> QED
      BY <3>1, <3>2 DEF RunTypeOK, Lunch
  <2> QED
    BY <2>1, <2>2
<1>2. queue' \in Seq(Task)
  <2>1. before \o AdminAlerts \in Seq(Task)
    BY AdminAlertsType, ConcatProperties
  <2> QED
    BY <2>1 DEF Leave
<1> QED
  BY <1>1, <1>2 DEF SenderTypeOK, Holding, pipelineRest

LEMMA TickKeepsType ==
  ASSUME LunchTypeOK, Advance \/ Tick \/ DropTick
  PROVE  LunchTypeOK'
<1> USE FramesKeepType, SplitType
<1>0. DbTypeOK /\ SenderTypeOK /\ RunTypeOK /\ ClockTypeOK /\ BookTypeOK
  OBVIOUS
<1>1. CASE Advance
  <2>1. ClockTypeOK'
    BY <1>0, <1>1 DEF Advance, ClockTypeOK, Days, Times
  <2>2. steady' \subseteq NotificationIds /\ setbacks' \in Nat
    <3>1. CASE time + 1 < DayLength
      BY <1>0, <1>1, <3>1 DEF Advance, BookTypeOK
    <3>2. CASE ~(time + 1 < DayLength)
      BY <1>1, <3>2 DEF Advance, ListedIds
    <3> QED
      BY <3>1, <3>2
  <2>3. BookTypeOK'
    <3>1. UNCHANGED <<sent_keys, notify_at, announced, lost, events>>
      BY <1>1 DEF Advance
    <3> QED
      BY <1>0, <2>2, <3>1 DEF BookTypeOK
  <2> QED
    BY <1>0, <1>1, <2>1, <2>3 DEF Advance
<1>2. CASE Tick
  <2>1. lunch' \in Lunch /\ lunch'.pc = "list"
    BY <1>0, <1>2, IdleType DEF Tick, Lunch, ClockTypeOK
  <2>2. ClockTypeOK'
    BY <1>0, <1>2 DEF Tick, ClockTypeOK
  <2> QED
    BY <1>0, <1>2, <2>1, <2>2 DEF Tick, RunTypeOK
<1>3. CASE DropTick
  <2>1. ClockTypeOK' /\ BookTypeOK'
    BY <1>0, <1>3 DEF DropTick, Setback, Counted, ClockTypeOK, BookTypeOK
  <2> QED
    BY <1>0, <1>3, <2>1 DEF DropTick
<1> QED
  BY <1>1, <1>2, <1>3

LEMMA LunchStepKeepsType ==
  ASSUME LunchTypeOK, LunchStep
  PROVE  LunchTypeOK'
<1> USE FramesKeepType, SplitType
<1>0. /\ DbTypeOK /\ SenderTypeOK /\ RunTypeOK /\ ClockTypeOK /\ BookTypeOK
      /\ lunch \in Lunch /\ queue \in Seq(Task) /\ lunch.alert \in BOOLEAN
  BY DEF RunTypeOK, SenderTypeOK, Lunch
<1>1. CASE List
  <2> DEFINE subs == {[id |-> n, notify_at |-> notify_at[n]] : n \in ListedIds}
  <2>1. subs \in SUBSET Sub
    BY <1>0 DEF BookTypeOK, Sub, ListedIds
  <2>2. RunTypeOK'
    <3>1. CASE subs = {}
      BY <1>1, <3>1, IdleType DEF List, RunTypeOK
    <3>2. CASE subs # {}
      BY <1>0, <1>1, <2>1, <3>2 DEF List, RunTypeOK, Lunch
    <3> QED
      BY <3>1, <3>2
  <2> QED
    BY <1>0, <1>1, <2>2 DEF List
<1>2. ASSUME NEW sub \in lunch.subs, Consider(sub)
      PROVE  LunchTypeOK'
  <2>1. CASE Claimable(sub)
    <3>1. RunTypeOK'
      BY <1>0, <1>2, <2>1 DEF Consider, RunTypeOK, Lunch
    <3>2. SenderTypeOK'
      BY <1>0, <1>2, <2>1 DEF Consider, pipelineRest, SenderTypeOK, Holding
    <3> QED
      BY <1>0, <1>2, <3>1, <3>2 DEF Consider
  <2>2. CASE ~Claimable(sub)
    <3>1. RunTypeOK' /\ SenderTypeOK'
      BY <1>0, <1>2, <2>2, LeaveType DEF Consider
    <3> QED
      BY <1>0, <1>2, <3>1 DEF Consider
  <2> QED
    BY <2>1, <2>2
<1>3. ASSUME NEW sub \in lunch.subs, FetchFails(sub)
      PROVE  LunchTypeOK'
  <2>1. RunTypeOK' /\ SenderTypeOK'
    BY <1>0, <1>3, LeaveType DEF FetchFails
  <2>2. BookTypeOK'
    BY <1>0, <1>3 DEF FetchFails, Setback, Counted, BookTypeOK
  <2> QED
    BY <1>0, <1>3, <2>1, <2>2 DEF FetchFails
<1>4. ASSUME NEW sub \in lunch.subs, Claim(sub)
      PROVE  LunchTypeOK'
  <2>1. RunTypeOK'
    BY <1>0, <1>4 DEF Claim, RunTypeOK, Lunch
  <2>2. BookTypeOK'
    BY <1>0, <1>4, RowType DEF Claim, BookTypeOK, ghostVars
  <2> QED
    BY <1>0, <1>4, <2>1, <2>2 DEF Claim
<1>5. ASSUME NEW sub \in lunch.subs, Put(sub)
      PROVE  LunchTypeOK'
  <2>1. LunchTask(sub) \in Task
    BY <1>0, RowType DEF LunchTask, Task
  <2>2. Append(queue, LunchTask(sub)) \in Seq(Task)
    BY <1>0, <2>1, AppendProperties
  <2>3. RunTypeOK' /\ SenderTypeOK'
    <3>1. PICK before \in Seq(Task) : before = Append(queue, LunchTask(sub))
      BY <2>2
    <3>2. Leave(sub, before, lunch.alert) /\ UNCHANGED pipelineRest
      BY <1>5, <3>1 DEF Put
    <3> QED
      BY <1>0, <3>2, LeaveType
  <2>4. BookTypeOK'
    <3>1. announced' = [announced EXCEPT ![<<sub.id, lunch.date>>] = @ + 1]
      BY <1>5 DEF Put
    <3>2. announced' \in [Keys -> Nat]
      BY <1>0, <3>1, CountOneMore, RowType DEF BookTypeOK
    <3>3. UNCHANGED <<sent_keys, notify_at, lost, steady, setbacks, events>>
      BY <1>5 DEF Put
    <3> QED
      BY <1>0, <3>2, <3>3 DEF BookTypeOK
  <2> QED
    BY <1>0, <1>5, <2>3, <2>4 DEF Put
<1>6. CASE RedisRaises
  <2>1. sent_keys' \subseteq Keys /\ lost' \subseteq Keys
    BY <1>0, <1>6, RowType DEF RedisRaises, BookTypeOK
  <2>2. BookTypeOK'
    BY <1>0, <1>6, <2>1 DEF RedisRaises, Setback, Counted, BookTypeOK
  <2> QED
    BY <1>0, <1>6, <2>2, IdleType DEF RedisRaises, RunTypeOK
<1> QED
  BY <1>1, <1>2, <1>3, <1>4, <1>5, <1>6 DEF LunchStep

\* What happens around the run and the clock.
OutsideStep ==
  \/ SenderRuns \/ Restart
  \/ \E n \in NotificationIds :
       \/ \E at \in Times : \/ Subscribe(n, at)
                            \/ \E flag \in {"enabled", "disabled"} : Edit(n, flag, at)
       \/ Unsubscribe(n)
  \/ \E u \in Users : Account(u)

LEMMA OutsideStepKeepsType ==
  ASSUME LunchTypeOK, OutsideStep
  PROVE  LunchTypeOK'
<1> USE FramesKeepType, SplitType
<1>0. /\ DbTypeOK /\ SenderTypeOK /\ RunTypeOK /\ ClockTypeOK /\ BookTypeOK
      /\ lunch \in Lunch
  BY DEF RunTypeOK
<1>1. CASE SenderRuns
  <2>1. DbTypeOK' /\ SenderTypeOK'
    BY <1>0, <1>1, SenderStepKeepsType DEF SenderRuns
  <2> QED
    BY <1>0, <1>1, <2>1 DEF SenderRuns
<1>2. CASE Restart
  <2>1. SenderTypeOK'
    BY <1>0, <1>2, SenderLostType DEF Restart
  <2>2. RunTypeOK' /\ ClockTypeOK'
    BY <1>0, <1>2, IdleType DEF Restart, RunTypeOK, ClockTypeOK
  <2>3. lost' \subseteq Keys
    BY <1>0, <1>2, RowType DEF Restart, BookTypeOK
  <2>4. setbacks' \in Nat
    BY <1>0, <1>2 DEF Restart, BookTypeOK
  <2>5. BookTypeOK'
    BY <1>0, <1>2, <2>3, <2>4 DEF Restart, Counted, BookTypeOK
  <2> QED
    BY <1>0, <1>2, <2>1, <2>2, <2>5 DEF Restart
<1>3. ASSUME NEW n \in NotificationIds, NEW at \in Times, Subscribe(n, at)
      PROVE  LunchTypeOK'
  <2>1. BookTypeOK'
    BY <1>0, <1>3 DEF Subscribe, Counted, BookTypeOK, ghostVars
  <2> QED
    BY <1>0, <1>3, <2>1, SubscriptionKeepsDbType DEF Subscribe
<1>4. ASSUME NEW n \in NotificationIds, NEW at \in Times,
             NEW flag \in {"enabled", "disabled"}, Edit(n, flag, at)
      PROVE  LunchTypeOK'
  <2>1. BookTypeOK'
    BY <1>0, <1>4 DEF Edit, Counted, BookTypeOK
  <2>2. DbTypeOK'
    BY <1>0, <1>4 DEF Edit, DbTypeOK
  <2> QED
    BY <1>0, <1>4, <2>1, <2>2 DEF Edit
<1>5. ASSUME NEW n \in NotificationIds, Unsubscribe(n)
      PROVE  LunchTypeOK'
  <2>1. BookTypeOK'
    BY <1>0, <1>5 DEF Unsubscribe, Counted, BookTypeOK
  <2> QED
    BY <1>0, <1>5, <2>1, SubscriptionKeepsDbType DEF Unsubscribe
<1>6. ASSUME NEW u \in Users, Account(u)
      PROVE  LunchTypeOK'
  <2>1. BookTypeOK'
    BY <1>0, <1>6 DEF Account, BookTypeOK
  <2> QED
    BY <1>0, <1>6, <2>1, AccountKeepsDbType DEF Account
<1> QED
  BY <1>1, <1>2, <1>3, <1>4, <1>5, <1>6 DEF OutsideStep

LEMMA LunchInitType == Init => LunchTypeOK
<1> SUFFICES ASSUME Init PROVE LunchTypeOK
  OBVIOUS
<1>1. DbTypeOK
  BY DEF Init, DbInit, DbTypeOK
<1>2. SenderTypeOK
  BY DEF Init, SenderInit, SenderTypeOK, SenderState, IdleSender, MaxAttempts, Holding
<1>3. RunTypeOK
  BY IdleType DEF Init, RunTypeOK
<1>4. ClockTypeOK
  BY DEF Init, ClockTypeOK, Days, Times
<1>5. BookTypeOK
  BY DEF Init, BookTypeOK, Keys, ListedIds
<1> QED
  BY <1>1, <1>2, <1>3, <1>4, <1>5, SplitType

LEMMA LunchStepType == LunchTypeOK /\ [Next]_vars => LunchTypeOK'
<1> SUFFICES ASSUME LunchTypeOK, [Next]_vars
             PROVE  LunchTypeOK'
  OBVIOUS
<1>1. CASE Advance \/ Tick \/ DropTick
  BY <1>1, TickKeepsType
<1>2. CASE LunchStep
  BY <1>2, LunchStepKeepsType
<1>3. CASE OutsideStep
  BY <1>3, OutsideStepKeepsType
<1>4. CASE UNCHANGED vars
  <2>1. UNCHANGED <<dbVars, senderVars, clockVars, lunch>>
    BY <1>4 DEF vars
  <2>2. UNCHANGED <<sent_keys, notify_at, ghostVars, events>>
    BY <1>4 DEF vars
  <2> QED
    BY <2>1, <2>2, FramesKeepType, SplitType
<1> QED
  BY <1>1, <1>2, <1>3, <1>4 DEF Next, OutsideStep

\* Every reachable state of the lunch job and its surroundings is typed.
THEOREM LunchTypeCorrect == Spec => []LunchTypeOK
BY LunchInitType, LunchStepType, PTL DEF Spec

-----------------------------------------------------------------------------
(* Once a day.  OncePerDay is not inductive: that a put cannot be the      *)
(* second one rests on the key, which is stored before every put, and on   *)
(* nobody storing the key of the row in hand while its crawlers answer.    *)

RowsAreDistinct == \A a, b \in lunch.subs : a.id = b.id => a = b

\* Every announcement left its key behind.
AnnouncedAreKeyed == \A k \in Keys : announced[k] <= 1 /\ (announced[k] > 0 => k \in sent_keys)

\* The row in hand: no key while its crawlers run, a fresh key before its put.
HandIsFresh ==
  \A sub \in lunch.subs :
    InHand(sub) =>
      /\ lunch.pc = "fetch" => <<sub.id, lunch.date>> \notin sent_keys
      /\ lunch.pc = "put"   => /\ <<sub.id, lunch.date>> \in sent_keys
                               /\ announced[<<sub.id, lunch.date>>] = 0

OnceInv == LunchTypeOK /\ RowsAreDistinct /\ AnnouncedAreKeyed /\ HandIsFresh

LEMMA OnceFrame ==
  ASSUME RowsAreDistinct, AnnouncedAreKeyed, HandIsFresh,
         UNCHANGED <<lunch, sent_keys, announced>>
  PROVE  RowsAreDistinct' /\ AnnouncedAreKeyed' /\ HandIsFresh'
BY DEF RowsAreDistinct, AnnouncedAreKeyed, HandIsFresh, InHand

\* A run that is over or between two rows has nothing in hand to be fresh.
LEMMA NothingInHand ==
  ASSUME lunch'.pc \notin {"fetch", "put"}
  PROVE  HandIsFresh'
BY DEF HandIsFresh

\* Leaving a row never adds one.
LEMMA LeaveIsOnce ==
  ASSUME lunch \in Lunch, RowsAreDistinct,
         NEW sub \in lunch.subs, NEW before, NEW alert, Leave(sub, before, alert)
  PROVE  RowsAreDistinct' /\ HandIsFresh'
<1>1. CASE lunch.subs = {sub}
  <2>1. lunch' = IdleLunch
    BY <1>1 DEF Leave
  <2> QED
    BY <2>1, NothingInHand DEF IdleLunch, RowsAreDistinct
<1>2. CASE lunch.subs # {sub}
  <2>1. lunch' = [lunch EXCEPT !.pc = "loop", !.subs = @ \ {sub}, !.alert = alert]
    BY <1>2 DEF Leave
  <2>2. lunch'.pc = "loop" /\ lunch'.subs = lunch.subs \ {sub}
    BY <2>1 DEF Lunch
  <2> QED
    BY <2>2, NothingInHand DEF RowsAreDistinct
<1> QED
  BY <1>1, <1>2

LEMMA ListIsOnce ==
  ASSUME OnceInv, List
  PROVE  RowsAreDistinct' /\ AnnouncedAreKeyed' /\ HandIsFresh'
<1> DEFINE subs == {[id |-> n, notify_at |-> notify_at[n]] : n \in ListedIds}
<1>1. AnnouncedAreKeyed'
  BY DEF OnceInv, List, ghostVars, AnnouncedAreKeyed
<1>2. CASE subs = {}
  <2>1. lunch' = IdleLunch
    BY <1>2 DEF List
  <2> QED
    BY <1>1, <2>1, NothingInHand DEF IdleLunch, RowsAreDistinct
<1>3. CASE subs # {}
  <2>1. lunch' = [lunch EXCEPT !.pc = "loop", !.subs = subs]
    BY <1>3 DEF List
  <2>2. lunch'.pc = "loop" /\ lunch'.subs = subs
    BY <2>1 DEF OnceInv, LunchTypeOK, Lunch
  <2>3. RowsAreDistinct'
    BY <2>2 DEF RowsAreDistinct
  <2> QED
    BY <1>1, <2>2, <2>3, NothingInHand
<1> QED
  BY <1>2, <1>3

LEMMA ConsiderIsOnce ==
  ASSUME OnceInv, NEW sub \in lunch.subs, Consider(sub)
  PROVE  RowsAreDistinct' /\ AnnouncedAreKeyed' /\ HandIsFresh'
<1>0. lunch \in Lunch /\ RowsAreDistinct
  BY DEF OnceInv, LunchTypeOK
<1>1. AnnouncedAreKeyed' /\ UNCHANGED <<sent_keys, announced>>
  BY DEF OnceInv, Consider, ghostVars, AnnouncedAreKeyed
<1>2. CASE Claimable(sub)
  <2>1. lunch' = [lunch EXCEPT !.pc = "fetch"]
    BY <1>2 DEF Consider
  <2>2. lunch'.pc = "fetch" /\ lunch'.subs = lunch.subs /\ lunch'.date = lunch.date
    BY <1>0, <2>1 DEF Lunch
  <2>3. RowsAreDistinct'
    BY <1>0, <2>2 DEF RowsAreDistinct
  <2>4. ASSUME NEW other \in lunch.subs, InHand(other)'
        PROVE  <<other.id, lunch.date>> \notin sent_keys
    <3>1. other.id \in Nat /\ sub.id \in Nat
      BY <1>0, IdsAssumption, RowType
    <3>2. other.id <= sub.id /\ sub.id <= other.id
      BY <2>2, <2>4 DEF InHand, Consider
    <3>3. other.id = sub.id
      BY <3>1, <3>2
    <3> QED
      BY <1>2, <3>3 DEF Claimable
  <2>5. HandIsFresh'
    BY <1>1, <2>2, <2>4 DEF HandIsFresh
  <2> QED
    BY <1>1, <2>3, <2>5
<1>3. CASE ~Claimable(sub)
  BY <1>0, <1>1, <1>3, LeaveIsOnce DEF Consider
<1> QED
  BY <1>2, <1>3

LEMMA ClaimIsOnce ==
  ASSUME OnceInv, NEW sub \in lunch.subs, Claim(sub)
  PROVE  RowsAreDistinct' /\ AnnouncedAreKeyed' /\ HandIsFresh'
<1> DEFINE key == <<sub.id, lunch.date>>
<1>0. /\ lunch \in Lunch /\ RowsAreDistinct /\ AnnouncedAreKeyed /\ HandIsFresh
      /\ announced \in [Keys -> Nat]
  BY DEF OnceInv, LunchTypeOK, Keys
<1>1. /\ lunch'.pc = "put" /\ lunch'.subs = lunch.subs /\ lunch'.date = lunch.date
      /\ sent_keys' = sent_keys \cup {key} /\ announced' = announced
  BY <1>0 DEF Claim, ghostVars, Lunch
<1>2. RowsAreDistinct' /\ AnnouncedAreKeyed'
  BY <1>0, <1>1 DEF RowsAreDistinct, AnnouncedAreKeyed
<1>3. key \in Keys /\ key \notin sent_keys
  BY <1>0, RowType DEF Claim, HandIsFresh
<1>4. announced[key] = 0
  BY <1>0, <1>3 DEF AnnouncedAreKeyed
<1>5. ASSUME NEW other \in lunch.subs, InHand(other)'
      PROVE  other.id = sub.id
  <2>1. other.id \in Nat /\ sub.id \in Nat
    BY <1>0, IdsAssumption, RowType
  <2>2. other.id <= sub.id /\ sub.id <= other.id
    BY <1>1, <1>5 DEF InHand, Claim
  <2> QED
    BY <2>1, <2>2
<1>6. HandIsFresh'
  BY <1>1, <1>4, <1>5 DEF HandIsFresh
<1> QED
  BY <1>2, <1>6

LEMMA PutIsOnce ==
  ASSUME OnceInv, NEW sub \in lunch.subs, Put(sub)
  PROVE  RowsAreDistinct' /\ AnnouncedAreKeyed' /\ HandIsFresh'
<1> DEFINE key == <<sub.id, lunch.date>>
<1>0. /\ lunch \in Lunch /\ RowsAreDistinct /\ AnnouncedAreKeyed /\ HandIsFresh
      /\ announced \in [Keys -> Nat]
  BY DEF OnceInv, LunchTypeOK, Keys
<1>1. key \in sent_keys /\ announced[key] = 0
  BY <1>0 DEF Put, HandIsFresh
<1>2. announced' = [announced EXCEPT ![key] = @ + 1] /\ sent_keys' = sent_keys
  BY DEF Put
<1>3. AnnouncedAreKeyed'
  <2> SUFFICES ASSUME NEW k \in Keys
               PROVE  announced'[k] <= 1 /\ (announced'[k] > 0 => k \in sent_keys')
    BY DEF AnnouncedAreKeyed
  <2>1. CASE k = key
    BY <1>0, <1>1, <1>2, <2>1
  <2>2. CASE k # key
    BY <1>0, <1>2, <2>2 DEF AnnouncedAreKeyed
  <2> QED
    BY <2>1, <2>2
<1> QED
  BY <1>0, <1>3, LeaveIsOnce DEF Put

LEMMA OtherStepsAreOnce ==
  ASSUME OnceInv, Advance \/ Tick \/ DropTick \/ OutsideStep
  PROVE  RowsAreDistinct' /\ AnnouncedAreKeyed' /\ HandIsFresh'
<1>0. lunch \in Lunch /\ RowsAreDistinct /\ AnnouncedAreKeyed /\ HandIsFresh
  BY DEF OnceInv, LunchTypeOK
<1>1. CASE Tick
  <2>1. lunch'.pc = "list" /\ lunch'.subs = {} /\ UNCHANGED <<sent_keys, announced>>
    BY <1>1 DEF Tick, IdleLunch, ghostVars
  <2> QED
    BY <1>0, <2>1, NothingInHand DEF RowsAreDistinct, AnnouncedAreKeyed
<1>2. CASE Restart
  <2>1. lunch'.pc = "idle" /\ lunch'.subs = {} /\ UNCHANGED <<sent_keys, announced>>
    BY <1>2 DEF Restart, IdleLunch
  <2> QED
    BY <1>0, <2>1, NothingInHand DEF RowsAreDistinct, AnnouncedAreKeyed
<1>3. CASE Advance \/ DropTick \/ SenderRuns
  <2>1. UNCHANGED <<lunch, sent_keys, announced>>
    BY <1>3 DEF Advance, DropTick, SenderRuns, ghostVars
  <2> QED
    BY <1>0, <2>1, OnceFrame
<1>4. ASSUME NEW n \in NotificationIds, NEW at \in Times,
             Subscribe(n, at) \/ (\E flag \in {"enabled", "disabled"} : Edit(n, flag, at))
      PROVE  UNCHANGED <<lunch, sent_keys, announced>>
  BY <1>4 DEF Subscribe, Edit, ghostVars
<1>5. ASSUME NEW n \in NotificationIds, Unsubscribe(n)
      PROVE  UNCHANGED <<lunch, sent_keys, announced>>
  BY <1>5 DEF Unsubscribe
<1>6. ASSUME NEW u \in Users, Account(u)
      PROVE  UNCHANGED <<lunch, sent_keys, announced>>
  BY <1>6 DEF Account
<1> QED
  BY <1>0, <1>1, <1>2, <1>3, <1>4, <1>5, <1>6, OnceFrame DEF OutsideStep

LEMMA OnceInitially == Init => OnceInv
<1> SUFFICES ASSUME Init PROVE OnceInv
  OBVIOUS
<1>1. RowsAreDistinct /\ HandIsFresh
  BY DEF Init, IdleLunch, RowsAreDistinct, HandIsFresh
<1>2. AnnouncedAreKeyed
  BY DEF Init, AnnouncedAreKeyed, Keys
<1> QED
  BY <1>1, <1>2, LunchInitType DEF OnceInv

LEMMA OnceStep == OnceInv /\ [Next]_vars => OnceInv'
<1> SUFFICES ASSUME OnceInv, [Next]_vars
             PROVE  OnceInv'
  OBVIOUS
<1>0. /\ LunchTypeOK /\ lunch \in Lunch
      /\ RowsAreDistinct /\ AnnouncedAreKeyed /\ HandIsFresh
  BY DEF OnceInv, LunchTypeOK
<1>1. LunchTypeOK'
  BY <1>0, LunchStepType
<1>2. CASE Advance \/ Tick \/ DropTick \/ OutsideStep
  BY <1>1, <1>2, OtherStepsAreOnce DEF OnceInv
<1>3. CASE List
  BY <1>1, <1>3, ListIsOnce DEF OnceInv
<1>4. ASSUME NEW sub \in lunch.subs, Consider(sub)
      PROVE  OnceInv'
  BY <1>1, <1>4, ConsiderIsOnce DEF OnceInv
<1>5. ASSUME NEW sub \in lunch.subs, FetchFails(sub)
      PROVE  OnceInv'
  <2>1. UNCHANGED <<sent_keys, announced>> /\ Leave(sub, queue, TRUE)
    BY <1>5 DEF FetchFails
  <2>2. RowsAreDistinct' /\ HandIsFresh'
    BY <1>0, <2>1, LeaveIsOnce
  <2>3. AnnouncedAreKeyed'
    BY <1>0, <2>1 DEF AnnouncedAreKeyed
  <2> QED
    BY <1>1, <2>2, <2>3 DEF OnceInv
<1>6. ASSUME NEW sub \in lunch.subs, Claim(sub)
      PROVE  OnceInv'
  BY <1>1, <1>6, ClaimIsOnce DEF OnceInv
<1>7. ASSUME NEW sub \in lunch.subs, Put(sub)
      PROVE  OnceInv'
  BY <1>1, <1>7, PutIsOnce DEF OnceInv
<1>8. CASE RedisRaises
  <2>1. lunch' = IdleLunch /\ announced' = announced /\ sent_keys \subseteq sent_keys'
    BY <1>8 DEF RedisRaises
  <2>2. RowsAreDistinct' /\ HandIsFresh'
    BY <2>1, NothingInHand DEF IdleLunch, RowsAreDistinct
  <2>3. AnnouncedAreKeyed'
    BY <1>0, <2>1 DEF AnnouncedAreKeyed
  <2> QED
    BY <1>1, <2>2, <2>3 DEF OnceInv
<1>9. CASE UNCHANGED vars
  <2>1. UNCHANGED <<lunch, sent_keys, announced>>
    BY <1>9 DEF vars, ghostVars
  <2> QED
    BY <1>0, <1>1, <2>1, OnceFrame DEF OnceInv
<1> QED
  BY <1>2, <1>3, <1>4, <1>5, <1>6, <1>7, <1>8, <1>9 DEF Next, OutsideStep, LunchStep

\* The dedup of F-11: a subscription is announced at most once a day, for any
\* number of subscriptions, restarts, edits and failures of Redis and the
\* crawlers, and whatever the relation of period, grace and day.
THEOREM AnnouncedOnce == Spec => []OncePerDay
<1>1. OnceInv => OncePerDay
  BY DEF OnceInv, AnnouncedAreKeyed, OncePerDay, Keys
<1> QED
  BY <1>1, OnceInitially, OnceStep, PTL DEF Spec
-----------------------------------------------------------------------------
(* The grace.  A subscription that nobody touches and that is neither      *)
(* announced today nor lost is met by the next tick less than one period   *)
(* after its notify_at, and one more period later for every setback.       *)
(* While a run is on its way to the subscription, the trigger is one       *)
(* period ahead.                                                           *)

\* A subscription that is steady is one the job lists.
SteadyAreListed == steady \subseteq ListedIds

\* No run is of a day to come.
RunsAreOfToday == lunch.pc # "idle" => lunch.date <= day

\* A key that is stored is of an announcement, of a put in hand, or lost.
KeysAreAccounted ==
  \A k \in sent_keys :
    \/ announced[k] > 0 \/ k \in lost
    \/ lunch.pc = "put" /\ \E sub \in lunch.subs : InHand(sub) /\ k = <<sub.id, lunch.date>>

\* Nobody touched n today, and it is neither announced nor lost.
Open(n) == n \in steady /\ announced[<<n, day>>] = 0 /\ <<n, day>> \notin lost

\* The row of n in the lists of today.
RowOf(n) == [id |-> n, notify_at |-> notify_at[n]]

\* The run is not before n's window and on its way to n.
Covers(n) == /\ lunch.pc # "idle" /\ lunch.date = day /\ lunch.at >= notify_at[n]
             /\ lunch.pc = "list" \/ RowOf(n) \in lunch.subs

\* The ticks of the window that are spent, or about to be.
Spent(n) == setbacks + (IF Covers(n) THEN 1 ELSE 0)

\* The latest time of the next tick, when k ticks of the window are spent.
Latest(n, k) == notify_at[n] + Period - 1 + Period * k

OnTime(n) == /\ time + due <= Latest(n, Spent(n))
             /\ Covers(n) => lunch.at < notify_at[n] + Grace

OpenAreOnTime == \A n \in NotificationIds : Open(n) /\ setbacks <= 2 => OnTime(n)

\* What the proof keeps besides OnceInv, in two parts.
BooksInv == SteadyAreListed /\ RunsAreOfToday /\ KeysAreAccounted
GraceInv == OnceInv /\ BooksInv /\ OpenAreOnTime

LEMMA LatestGrows ==
  ASSUME LunchTypeOK, NEW n \in NotificationIds, NEW k \in Nat
  PROVE  /\ Latest(n, k) \in Int
         /\ Latest(n, k + 1) = Latest(n, k) + Period
         /\ Latest(n, 0) = notify_at[n] + Period - 1
         /\ Latest(n, 2) = notify_at[n] + 3 * Period - 1
         /\ Latest(n, 0) <= Latest(n, k)
<1>1. notify_at[n] \in Int /\ Period \in Nat /\ Period >= 1
  BY DEF LunchTypeOK, Times
<1>2. Period * k \in Nat /\ Period * (k + 1) = Period * k + Period
  BY <1>1, Z3
<1>3. PICK p \in Nat : p = Period * k
  BY <1>2
<1>4. Latest(n, k) = notify_at[n] + Period - 1 + p
  BY <1>3 DEF Latest
<1>5. Latest(n, k + 1) = notify_at[n] + Period - 1 + (p + Period)
  BY <1>2, <1>3 DEF Latest
<1>6. Latest(n, 0) = notify_at[n] + Period - 1
  BY <1>1 DEF Latest
<1>7. Latest(n, 2) = notify_at[n] + 3 * Period - 1
  BY <1>1 DEF Latest
<1>8. Latest(n, k) \in Int /\ Latest(n, 0) <= Latest(n, k)
  BY <1>1, <1>4, <1>6
<1>9. Latest(n, k + 1) = Latest(n, k) + Period
  BY <1>1, <1>4, <1>5
<1> QED
  BY <1>6, <1>7, <1>8, <1>9

LEMMA LatestOrder ==
  ASSUME LunchTypeOK, NEW n \in NotificationIds, NEW j \in Nat, NEW k \in Nat, j <= k
  PROVE  Latest(n, j) <= Latest(n, k)
<1>1. notify_at[n] \in Int /\ Period \in Nat
  BY DEF LunchTypeOK, Times
<1>2. Period * j \in Int /\ Period * k \in Int /\ Period * j <= Period * k
  BY <1>1, Z3
<1>3. \A x, y \in Int : x <= y => notify_at[n] + Period - 1 + x <= notify_at[n] + Period - 1 + y
  BY <1>1
<1> QED
  BY <1>2, <1>3 DEF Latest

LEMMA SpentType ==
  ASSUME LunchTypeOK, NEW n \in NotificationIds
  PROVE  Spent(n) \in Nat /\ setbacks \in Nat /\ setbacks <= Spent(n)
BY DEF LunchTypeOK, Spent

\* The row in hand is the only one.
LEMMA OneInHand ==
  ASSUME lunch \in Lunch, NEW a \in lunch.subs, NEW b \in lunch.subs, InHand(a), InHand(b)
  PROVE  a.id = b.id
<1>1. a.id \in Nat /\ b.id \in Nat
  BY IdsAssumption, RowType
<1>2. a.id <= b.id /\ b.id <= a.id
  BY DEF InHand
<1> QED
  BY <1>1, <1>2

\* How far the run may lose or gain n without harm.
LEMMA StaysOnTime ==
  ASSUME LunchTypeOK, LunchTypeOK', NEW n \in NotificationIds, OnTime(n),
         notify_at'[n] = notify_at[n],
         \/ time' + due' = time + due /\ Spent(n)' >= Spent(n)
         \/ time' + due' <= time + due + Period /\ Spent(n)' >= Spent(n) + 1,
         Covers(n)' => Covers(n) /\ lunch'.at = lunch.at
  PROVE  OnTime(n)'
<1>1. /\ time + due \in Int /\ time' + due' \in Int
      /\ Spent(n) \in Nat /\ Spent(n)' \in Nat /\ Period \in Nat
  <2>1. Spent(n) \in Nat
    BY SpentType
  <2>2. Spent(n)' \in Nat
    BY DEF LunchTypeOK, Spent
  <2> QED
    BY <2>1, <2>2 DEF LunchTypeOK, Times
<1>2. \A k \in Nat : Latest(n, k)' = notify_at[n] + Period - 1 + Period * k
  BY DEF Latest
<1>3. Latest(n, Spent(n))' = Latest(n, Spent(n)')
  BY <1>1, <1>2 DEF Latest
<1>4. /\ Latest(n, Spent(n)) \in Int /\ Latest(n, Spent(n)') \in Int
      /\ Latest(n, Spent(n) + 1) = Latest(n, Spent(n)) + Period
  BY <1>1, LatestGrows
<1>5. Spent(n)' >= Spent(n) + 1 => Latest(n, Spent(n) + 1) <= Latest(n, Spent(n)')
  BY <1>1, LatestOrder
<1>6. Spent(n)' >= Spent(n) => Latest(n, Spent(n)) <= Latest(n, Spent(n)')
  BY <1>1, LatestOrder
<1>7. time + due <= Latest(n, Spent(n))
  BY DEF OnTime
<1>8. time' + due' <= Latest(n, Spent(n)')
  <2>1. CASE time' + due' = time + due /\ Spent(n)' >= Spent(n)
    BY <1>1, <1>4, <1>6, <1>7, <2>1
  <2>2. CASE time' + due' <= time + due + Period /\ Spent(n)' >= Spent(n) + 1
    BY <1>1, <1>4, <1>5, <1>7, <2>2
  <2> QED
    BY <2>1, <2>2
<1> QED
  BY <1>3, <1>8 DEF OnTime

\* Leaving a row loses no other one.
LEMMA LeaveCovers ==
  ASSUME lunch \in Lunch, NEW n \in NotificationIds, NEW sub \in lunch.subs,
         NEW before, NEW alert, Leave(sub, before, alert), lunch.pc # "list", lunch.pc # "idle",
         day' = day, notify_at'[n] = notify_at[n]
  PROVE  /\ Covers(n)' => Covers(n) /\ lunch'.at = lunch.at
         /\ Covers(n) /\ sub # RowOf(n) => Covers(n)'
<1>1. CASE lunch.subs = {sub}
  BY <1>1 DEF Leave, IdleLunch, Covers, RowOf
<1>2. CASE lunch.subs # {sub}
  <2>1. lunch' = [lunch EXCEPT !.pc = "loop", !.subs = @ \ {sub}, !.alert = alert]
    BY <1>2 DEF Leave
  <2>2. /\ lunch'.pc = "loop" /\ lunch'.subs = lunch.subs \ {sub}
        /\ lunch'.at = lunch.at /\ lunch'.date = lunch.date
    BY <2>1 DEF Lunch
  <2> QED
    BY <2>2 DEF Covers, RowOf
<1> QED
  BY <1>1, <1>2

LEMMA SenderKeepsLists ==
  ASSUME SenderStep
  PROVE  UNCHANGED <<status, subscription>>
BY DEF SenderStep, Ready, Get, CheckUser, SendSucceeds, SendFails, SendRaises, Record,
       InsertResult, RecordRejected, DatabaseRaises, Release, dbVars

\* What happens around the run: nothing about a subscription that stays open.
LEMMA OutsideFrames ==
  ASSUME LunchTypeOK, SteadyAreListed, OutsideStep
  PROVE  /\ UNCHANGED <<day, time, sent_keys, announced>>
         /\ steady' \subseteq steady /\ lost \subseteq lost'
         /\ \A n \in steady' : Listed(n)' /\ notify_at'[n] = notify_at[n]
         /\ \/ Restart
            \/ UNCHANGED <<lunch, due, lost, setbacks>>
<1>0. steady \subseteq NotificationIds /\ \A n \in steady : Listed(n)
  BY DEF LunchTypeOK, SteadyAreListed, ListedIds
<1>1. CASE SenderRuns
  <2>1. UNCHANGED <<status, subscription>>
    BY <1>1, SenderKeepsLists DEF SenderRuns
  <2> QED
    BY <1>0, <1>1, <2>1 DEF SenderRuns, ghostVars, clockVars, Listed
<1>2. CASE Restart
  BY <1>0, <1>2 DEF Restart, dbVars, Listed
<1>3. ASSUME NEW m \in NotificationIds, NEW at \in Times, Subscribe(m, at)
      PROVE  /\ UNCHANGED <<clockVars, lunch, sent_keys, ghostVars>>
             /\ \A n \in steady : Listed(n)' /\ notify_at'[n] = notify_at[n]
  <2>1. m \notin steady /\ status' = status
    BY <1>0, <1>3 DEF Subscribe, CreateSubscription, Listed
  <2>2. \A n \in steady : subscription'[n] = subscription[n] /\ notify_at'[n] = notify_at[n]
    BY <1>0, <1>3, <2>1 DEF Subscribe, CreateSubscription, LunchTypeOK, DbTypeOK
  <2> QED
    BY <1>0, <1>3, <2>1, <2>2 DEF Subscribe, Listed
<1>4. ASSUME NEW m \in NotificationIds, NEW at \in Times,
             NEW flag \in {"enabled", "disabled"}, Edit(m, flag, at)
      PROVE  /\ UNCHANGED <<clockVars, lunch, sent_keys, announced, lost, setbacks>>
             /\ steady' \subseteq steady
             /\ \A n \in steady' : Listed(n)' /\ notify_at'[n] = notify_at[n]
  BY <1>0, <1>4 DEF Edit, LunchTypeOK, DbTypeOK, Listed
<1>5. ASSUME NEW m \in NotificationIds, Unsubscribe(m)
      PROVE  /\ UNCHANGED <<clockVars, lunch, sent_keys, announced, lost, setbacks>>
             /\ steady' \subseteq steady
             /\ \A n \in steady' : Listed(n)' /\ notify_at'[n] = notify_at[n]
  BY <1>0, <1>5 DEF Unsubscribe, RemoveSubscription, LunchTypeOK, DbTypeOK, Listed
<1>6. ASSUME NEW u \in Users, Account(u)
      PROVE  /\ UNCHANGED <<clockVars, lunch, sent_keys, announced, lost, setbacks>>
             /\ steady' \subseteq steady
             /\ \A n \in steady' : Listed(n)' /\ notify_at'[n] = notify_at[n]
  <2>1. \A n \in steady' : n \in steady /\ NotificationOwner[n] # u
    BY <1>6 DEF Account
  <2>2. \A n \in steady' : Listed(n)'
    <3>1. CASE EraseHistory(u)
      BY <1>0, <2>1, <3>1 DEF EraseHistory, Listed
    <3>2. status \in [Users -> {"ACTIVE", "DELETED"}]
      BY DEF LunchTypeOK, DbTypeOK
    <3>3. CASE CommitDeletion(u)
      <4>1. \A n \in steady' : status'[NotificationOwner[n]] = status[NotificationOwner[n]]
        BY <1>0, <2>1, <3>2, <3>3 DEF CommitDeletion
      <4>2. \A n \in steady' : subscription'[n] = subscription[n]
        BY <1>0, <2>1, <3>3 DEF CommitDeletion
      <4> QED
        BY <1>0, <2>1, <4>1, <4>2 DEF Listed
    <3>4. CASE Relogin(u)
      BY <1>0, <2>1, <3>2, <3>4 DEF Relogin, Listed
    <3> QED
      BY <1>6, <3>1, <3>3, <3>4 DEF Account
  <2> QED
    BY <1>6, <2>1, <2>2 DEF Account
<1>7. CASE SenderRuns \/ Restart
  BY <1>1, <1>2, <1>7 DEF clockVars, ghostVars
<1>8. ASSUME NEW m \in NotificationIds, NEW at \in Times, Subscribe(m, at)
      PROVE  /\ UNCHANGED <<clockVars, lunch, sent_keys, announced, lost, setbacks>>
             /\ steady' \subseteq steady
             /\ \A n \in steady' : Listed(n)' /\ notify_at'[n] = notify_at[n]
  BY <1>3, <1>8 DEF ghostVars
<1>9. CASE ~(SenderRuns \/ Restart)
  <2>1. /\ UNCHANGED <<clockVars, lunch, sent_keys, announced, lost, setbacks>>
        /\ steady' \subseteq steady
        /\ \A n \in steady' : Listed(n)' /\ notify_at'[n] = notify_at[n]
    BY <1>4, <1>5, <1>6, <1>8, <1>9 DEF OutsideStep
  <2> QED
    BY <2>1 DEF clockVars
<1> QED
  BY <1>7, <1>9

\* The steps of a run write neither tables nor the clock.
LEMMA RunFrames ==
  ASSUME LunchTypeOK, LunchStep
  PROVE  /\ UNCHANGED <<dbVars, clockVars, notify_at, steady>>
         /\ lunch.pc # "idle"
         /\ lunch'.pc = "idle" \/ (lunch'.date = lunch.date /\ lunch'.at = lunch.at)
<1>0. lunch \in Lunch
  BY DEF LunchTypeOK
<1>1. ASSUME NEW sub \in lunch.subs, NEW before, NEW alert, Leave(sub, before, alert)
      PROVE  lunch'.pc = "idle" \/ (lunch'.date = lunch.date /\ lunch'.at = lunch.at)
  <2>1. CASE lunch.subs = {sub}
    BY <1>1, <2>1 DEF Leave, IdleLunch
  <2>2. CASE lunch.subs # {sub}
    <3>1. lunch' = [lunch EXCEPT !.pc = "loop", !.subs = @ \ {sub}, !.alert = alert]
      BY <1>1, <2>2 DEF Leave
    <3> QED
      BY <1>0, <3>1 DEF Lunch
  <2> QED
    BY <2>1, <2>2
<1>2. CASE List
  BY <1>0, <1>2 DEF List, ghostVars, IdleLunch, Lunch
<1>3. ASSUME NEW sub \in lunch.subs, Consider(sub)
      PROVE  /\ UNCHANGED <<dbVars, clockVars, notify_at, steady>>
             /\ lunch.pc # "idle"
             /\ lunch'.pc = "idle" \/ (lunch'.date = lunch.date /\ lunch'.at = lunch.at)
  <2>1. UNCHANGED <<dbVars, clockVars, notify_at, steady>> /\ lunch.pc # "idle"
    BY <1>3 DEF Consider, ghostVars
  <2>2. CASE Claimable(sub)
    BY <1>0, <1>3, <2>1, <2>2 DEF Consider, Lunch
  <2>3. CASE ~Claimable(sub)
    BY <1>1, <1>3, <2>1, <2>3 DEF Consider
  <2> QED
    BY <2>2, <2>3
<1>4. ASSUME NEW sub \in lunch.subs, FetchFails(sub) \/ Put(sub)
      PROVE  /\ UNCHANGED <<dbVars, clockVars, notify_at, steady>>
             /\ lunch.pc # "idle"
             /\ lunch'.pc = "idle" \/ (lunch'.date = lunch.date /\ lunch'.at = lunch.at)
  BY <1>1, <1>4 DEF FetchFails, Put
<1>5. ASSUME NEW sub \in lunch.subs, Claim(sub)
      PROVE  /\ UNCHANGED <<dbVars, clockVars, notify_at, steady>>
             /\ lunch.pc # "idle"
             /\ lunch'.pc = "idle" \/ (lunch'.date = lunch.date /\ lunch'.at = lunch.at)
  BY <1>0, <1>5 DEF Claim, ghostVars, Lunch
<1>6. CASE RedisRaises
  BY <1>6 DEF RedisRaises, IdleLunch
<1> QED
  BY <1>2, <1>3, <1>4, <1>5, <1>6 DEF LunchStep

\* A step that stores no key and does not end a put.
LEMMA AccountedFrame ==
  ASSUME KeysAreAccounted, sent_keys' \subseteq sent_keys,
         announced' = announced, lost \subseteq lost',
         lunch.pc # "put" \/ UNCHANGED lunch
  PROVE  KeysAreAccounted'
BY DEF KeysAreAccounted, InHand

LEMMA RunAccounts ==
  ASSUME OnceInv, KeysAreAccounted, LunchStep
  PROVE  KeysAreAccounted'
<1>0. LunchTypeOK /\ lunch \in Lunch /\ announced \in [Keys -> Nat] /\ sent_keys \subseteq Keys
  BY DEF OnceInv, LunchTypeOK, Keys
<1>1. CASE UNCHANGED <<sent_keys, announced, lost>> /\ lunch.pc # "put"
  BY <1>0, <1>1, AccountedFrame
<1>2. CASE List
  BY <1>1, <1>2 DEF List, ghostVars
<1>3. ASSUME NEW sub \in lunch.subs, Consider(sub) \/ FetchFails(sub)
      PROVE  KeysAreAccounted'
  BY <1>1, <1>3 DEF Consider, FetchFails, ghostVars
<1>4. ASSUME NEW sub \in lunch.subs, Claim(sub)
      PROVE  KeysAreAccounted'
  <2>1. /\ lunch'.pc = "put" /\ lunch'.subs = lunch.subs /\ lunch'.date = lunch.date
        /\ sent_keys' = sent_keys \cup {<<sub.id, lunch.date>>}
        /\ UNCHANGED <<announced, lost>> /\ lunch.pc # "put" /\ InHand(sub)
    BY <1>0, <1>4 DEF Claim, ghostVars, Lunch
  <2>2. InHand(sub)'
    BY <2>1 DEF InHand
  <2> QED
    BY <2>1, <2>2 DEF KeysAreAccounted
<1>5. ASSUME NEW sub \in lunch.subs, Put(sub)
      PROVE  KeysAreAccounted'
  <2> DEFINE key == <<sub.id, lunch.date>>
  <2>1. /\ InHand(sub) /\ announced' = [announced EXCEPT ![key] = @ + 1]
        /\ UNCHANGED <<sent_keys, lost>>
    BY <1>5 DEF Put
  <2>2. key \in Keys
    BY <1>0, RowType
  <2>3. announced'[key] > 0 /\ \A k \in Keys : k # key => announced'[k] = announced[k]
    BY <1>0, <2>1, <2>2
  <2>4. \A other \in lunch.subs : InHand(other) => <<other.id, lunch.date>> = key
    BY <1>0, <2>1, OneInHand
  <2> HIDE DEF key
  <2> QED
    BY <1>0, <2>1, <2>3, <2>4 DEF KeysAreAccounted
<1>6. CASE RedisRaises
  <2>1. announced' = announced /\ lost \subseteq lost' /\ lunch.pc # "put"
    BY <1>6 DEF RedisRaises
  <2>2. \A k \in sent_keys' : k \in sent_keys \/ k \in lost'
    BY <1>6 DEF RedisRaises
  <2> QED
    BY <2>1, <2>2 DEF KeysAreAccounted
<1> QED
  BY <1>2, <1>3, <1>4, <1>5, <1>6 DEF LunchStep

LEMMA BooksStep ==
  ASSUME OnceInv, BooksInv, [Next]_vars
  PROVE  BooksInv'
<1>0. /\ LunchTypeOK /\ SteadyAreListed /\ RunsAreOfToday /\ KeysAreAccounted
      /\ announced \in [Keys -> Nat] /\ lunch \in Lunch /\ day \in Nat
  BY DEF OnceInv, BooksInv, LunchTypeOK, Days, Keys
<1>1. CASE Advance
  <2>1. /\ UNCHANGED <<dbVars, lunch, sent_keys, announced, lost>>
        /\ steady' \in {steady, ListedIds} /\ day' \in {day, day + 1}
    BY <1>1 DEF Advance
  <2>2. SteadyAreListed' /\ RunsAreOfToday'
    BY <1>0, <2>1 DEF SteadyAreListed, RunsAreOfToday, ListedIds, Listed, dbVars, Lunch, Days
  <2>3. KeysAreAccounted'
    BY <1>0, <2>1 DEF KeysAreAccounted, InHand
  <2> QED
    BY <2>2, <2>3 DEF BooksInv
<1>2. CASE Tick
  <2>1. /\ UNCHANGED <<dbVars, sent_keys, announced, lost, steady, day>>
        /\ lunch.pc = "idle" /\ lunch'.date = day
    BY <1>2 DEF Tick, ghostVars, IdleLunch
  <2>2. SteadyAreListed' /\ RunsAreOfToday'
    BY <1>0, <2>1 DEF SteadyAreListed, RunsAreOfToday, ListedIds, Listed, dbVars
  <2>3. KeysAreAccounted'
    BY <1>0, <2>1 DEF KeysAreAccounted
  <2> QED
    BY <2>2, <2>3 DEF BooksInv
<1>3. CASE DropTick \/ UNCHANGED vars
  <2>1. UNCHANGED <<dbVars, lunch, sent_keys, announced, lost, steady, day>>
    BY <1>3 DEF DropTick, vars, ghostVars, clockVars
  <2>2. SteadyAreListed' /\ RunsAreOfToday' /\ KeysAreAccounted'
    BY <1>0, <2>1 DEF SteadyAreListed, RunsAreOfToday, ListedIds, Listed, dbVars,
       KeysAreAccounted, InHand
  <2> QED
    BY <2>2 DEF BooksInv
<1>4. CASE LunchStep
  <2>1. SteadyAreListed' /\ RunsAreOfToday'
    BY <1>0, <1>4, RunFrames DEF SteadyAreListed, RunsAreOfToday, ListedIds, Listed, dbVars,
       clockVars
  <2> QED
    BY <1>0, <1>4, <2>1, RunAccounts DEF BooksInv
<1>5. CASE OutsideStep
  <2>1. SteadyAreListed'
    BY <1>0, <1>5, OutsideFrames DEF SteadyAreListed, ListedIds, LunchTypeOK
  <2>2. CASE Restart
    <3>1. /\ lunch' = IdleLunch /\ UNCHANGED <<sent_keys, announced>> /\ lost \subseteq lost'
      BY <2>2 DEF Restart
    <3>2. \A sub \in lunch.subs :
            lunch.pc = "put" /\ InHand(sub) => <<sub.id, lunch.date>> \in lost'
      BY <2>2 DEF Restart
    <3>3. RunsAreOfToday'
      BY <3>1 DEF RunsAreOfToday, IdleLunch
    <3>4. KeysAreAccounted'
      BY <1>0, <3>1, <3>2 DEF KeysAreAccounted
    <3> QED
      BY <2>1, <3>3, <3>4 DEF BooksInv
  <2>3. CASE UNCHANGED <<lunch, due, lost, setbacks>>
    <3>1. UNCHANGED <<day, sent_keys, announced>>
      BY <1>0, <1>5, OutsideFrames
    <3>2. RunsAreOfToday' /\ KeysAreAccounted'
      BY <1>0, <2>3, <3>1 DEF RunsAreOfToday, KeysAreAccounted, InHand
    <3> QED
      BY <2>1, <3>2 DEF BooksInv
  <2> QED
    BY <1>0, <1>5, <2>2, <2>3, OutsideFrames
<1> QED
  BY <1>1, <1>2, <1>3, <1>4, <1>5 DEF Next, OutsideStep

LEMMA GraceTypes ==
  ASSUME GraceInv
  PROVE  /\ LunchTypeOK /\ SteadyAreListed /\ RunsAreOfToday /\ KeysAreAccounted
         /\ OpenAreOnTime
         /\ lunch \in Lunch /\ setbacks \in Nat
         /\ time \in Nat /\ due \in Nat /\ day \in Nat
         /\ Period \in Nat /\ Grace \in Nat
         /\ \A n \in NotificationIds : notify_at[n] \in Nat
<1>1. LunchTypeOK /\ BooksInv /\ OpenAreOnTime
  BY DEF GraceInv, OnceInv
<1>2. lunch \in Lunch /\ setbacks \in Nat /\ Period \in Nat /\ Grace \in Nat
  BY <1>1 DEF LunchTypeOK
<1>3. time \in Nat /\ due \in Nat /\ day \in Nat
  BY <1>1, <1>2 DEF LunchTypeOK, Times, Days
<1>4. \A n \in NotificationIds : notify_at[n] \in Nat
  BY <1>1 DEF LunchTypeOK, Times
<1> QED
  BY <1>1, <1>2, <1>3, <1>4 DEF BooksInv

LEMMA TicksOnTime ==
  ASSUME Grace >= 3 * Period, GraceInv, LunchTypeOK', Advance \/ Tick \/ DropTick
  PROVE  OpenAreOnTime'
<1>0. /\ LunchTypeOK /\ RunsAreOfToday /\ OpenAreOnTime /\ setbacks \in Nat
      /\ time \in Nat /\ due \in Nat /\ day \in Nat /\ Period \in Nat /\ Grace \in Nat
      /\ \A n \in NotificationIds : notify_at[n] \in Nat
      /\ lunch \in Lunch /\ setbacks' \in Nat
  BY GraceTypes DEF LunchTypeOK
<1>1. ASSUME NEW n \in NotificationIds, Open(n)', setbacks' <= 2, day' = day, steady' = steady,
             UNCHANGED <<announced, lost>>, setbacks <= setbacks'
      PROVE  OnTime(n)
  <2>1. Open(n) /\ setbacks <= 2
    BY <1>0, <1>1 DEF Open
  <2> QED
    BY <1>0, <2>1 DEF OpenAreOnTime
<1>2. CASE Advance
  <2>1. /\ UNCHANGED <<lunch, notify_at, announced, lost>>
        /\ due' = due - 1
    BY <1>2 DEF Advance
  <2>2. CASE time + 1 < DayLength
    <3>1. time' = time + 1 /\ UNCHANGED <<day, steady, setbacks>>
      BY <1>2, <2>2 DEF Advance
    <3>2. \A n \in NotificationIds : OnTime(n) => OnTime(n)'
      BY <1>0, <2>1, <3>1 DEF OnTime, Spent, Covers, RowOf, Latest
    <3> QED
      BY <1>0, <1>1, <2>1, <3>1, <3>2 DEF OpenAreOnTime
  <2>3. CASE ~(time + 1 < DayLength)
    <3>1. time' = 0 /\ day' = day + 1 /\ setbacks' = 0
      BY <1>2, <2>3 DEF Advance
    <3>2. due' <= Period - 1
      BY <1>0, <2>1 DEF LunchTypeOK
    <3>3. ASSUME NEW n \in NotificationIds
          PROVE  OnTime(n)'
      <4>1. ~Covers(n)'
        BY <1>0, <2>1, <3>1 DEF Covers, RunsAreOfToday, Lunch, Days
      <4>2. Spent(n)' = 0
        BY <3>1, <4>1 DEF Spent
      <4>3. Latest(n, 0) = notify_at[n] + Period - 1 /\ Latest(n, Spent(n))' = Latest(n, 0)
        BY <1>0, <2>1, <4>2, LatestGrows DEF Latest
      <4>4. time' + due' <= Latest(n, 0)
        BY <1>0, <2>1, <3>1, <3>2, <4>3
      <4> QED
        BY <4>1, <4>3, <4>4 DEF OnTime
    <3> QED
      BY <3>3 DEF OpenAreOnTime
  <2> QED
    BY <2>2, <2>3
<1>3. CASE Tick
  <2>1. /\ UNCHANGED <<day, time, notify_at, steady, announced, lost, setbacks>>
        /\ lunch.pc = "idle" /\ due = 0 /\ due' = Period
        /\ lunch'.pc = "list" /\ lunch'.date = day /\ lunch'.at = time
    BY <1>3 DEF Tick, ghostVars, IdleLunch
  <2>2. ASSUME NEW n \in NotificationIds, OnTime(n), setbacks <= 2
        PROVE  OnTime(n)'
    <3>1. /\ ~Covers(n) /\ Spent(n) = setbacks
          /\ time <= Latest(n, setbacks)
      BY <1>0, <2>1, <2>2 DEF Covers, Spent, OnTime
    <3>2. /\ Latest(n, setbacks) \in Int /\ Latest(n, setbacks) <= Latest(n, 2)
          /\ Latest(n, 2) = notify_at[n] + 3 * Period - 1
          /\ Latest(n, setbacks + 1) = Latest(n, setbacks) + Period
          /\ Latest(n, 0) = notify_at[n] + Period - 1 /\ Latest(n, 0) <= Latest(n, setbacks)
      BY <1>0, <2>2, LatestGrows, LatestOrder
    <3>3. time < notify_at[n] + Grace
      <4>1. /\ time \in Int /\ Grace \in Int /\ notify_at[n] \in Int /\ Period \in Int
            /\ Grace >= 3 * Period
        BY <1>0
      <4>2. time <= notify_at[n] + 3 * Period - 1
        BY <3>1, <3>2, <4>1
      <4> QED
        BY <4>1, <4>2
    <3>4. \A k \in Nat : Latest(n, k)' = Latest(n, k)
      BY <2>1 DEF Latest
    <3>5. CASE time >= notify_at[n]
      <4>1. Spent(n)' = setbacks + 1
        BY <2>1, <3>5 DEF Spent, Covers
      <4>2. time' + due' <= Latest(n, setbacks + 1)
        BY <1>0, <2>1, <3>1, <3>2
      <4>3. Latest(n, Spent(n))' = Latest(n, setbacks + 1)
        BY <2>1, <4>1 DEF Latest
      <4> QED
        BY <2>1, <3>3, <4>2, <4>3 DEF OnTime
    <3>6. CASE time < notify_at[n]
      <4>1. ~Covers(n)' /\ Spent(n)' = setbacks
        BY <1>0, <2>1, <3>6 DEF Spent, Covers
      <4>2. time' + due' <= Latest(n, setbacks)
        <5>1. time' + due' = time + Period /\ time + Period <= notify_at[n] + Period - 1
          BY <1>0, <2>1, <3>6
        <5>2. time + Period <= Latest(n, 0)
          BY <3>2, <5>1
        <5>3. time + Period \in Int /\ Latest(n, 0) \in Int
          BY <1>0, LatestGrows
        <5> QED
          BY <3>2, <5>1, <5>2, <5>3
      <4>3. Latest(n, Spent(n))' = Latest(n, setbacks)
        BY <2>1, <4>1 DEF Latest
      <4> QED
        BY <4>1, <4>2, <4>3 DEF OnTime
    <3> QED
      BY <1>0, <3>5, <3>6
  <2> QED
    BY <1>0, <1>1, <2>1, <2>2 DEF OpenAreOnTime
<1>4. CASE DropTick
  <2>1. /\ UNCHANGED <<day, time, lunch, notify_at, steady, announced, lost>>
        /\ due = 0 /\ due' = Period /\ setbacks' = setbacks + 1
    BY <1>4 DEF DropTick, Setback
  <2>2. ASSUME NEW n \in NotificationIds, OnTime(n)
        PROVE  OnTime(n)'
    <3>1. Covers(n)' <=> Covers(n)
      BY <2>1 DEF Covers, RowOf
    <3>2. Spent(n)' = Spent(n) + 1
      BY <1>0, <2>1, <3>1 DEF Spent
    <3>3. Spent(n)' >= Spent(n) + 1 /\ time' + due' <= time + due + Period
      BY <1>0, <2>1, <3>2, SpentType
    <3> QED
      BY <1>0, <2>1, <2>2, <3>1, <3>3, StaysOnTime
  <2> QED
    BY <1>0, <1>1, <2>1, <2>2 DEF OpenAreOnTime
<1> QED
  BY <1>2, <1>3, <1>4

\* A run on its way to n gets there, and announces n unless something is
\* counted.
LEMMA RunOnTime ==
  ASSUME GraceInv, LunchTypeOK', LunchStep, NEW n \in NotificationIds,
         Open(n)', setbacks' <= 2
  PROVE  OnTime(n)'
<1>0. /\ LunchTypeOK /\ RunsAreOfToday /\ KeysAreAccounted /\ SteadyAreListed
      /\ OpenAreOnTime /\ setbacks \in Nat /\ lunch \in Lunch
      /\ announced \in [Keys -> Nat]
  BY GraceTypes DEF LunchTypeOK, Keys
<1>1. /\ UNCHANGED <<day, time, due, notify_at, steady>> /\ lunch.pc # "idle"
      /\ lunch'.pc = "idle" \/ (lunch'.date = lunch.date /\ lunch'.at = lunch.at)
  BY <1>0, RunFrames DEF clockVars
<1>2. lost \subseteq lost' /\ setbacks' \in {setbacks, setbacks + 1}
  BY <1>0 DEF LunchStep, List, Consider, FetchFails, Claim, Put, RedisRaises, ghostVars,
     Setback
<1>3. announced[<<n, day>>] = 0
  <2>1. CASE announced' = announced
    BY <1>1, <2>1 DEF Open
  <2>2. ASSUME NEW sub \in lunch.subs, Put(sub)
        PROVE  announced[<<n, day>>] = 0
    <3>1. announced' = [announced EXCEPT ![<<sub.id, lunch.date>>] = @ + 1]
      BY <2>2 DEF Put
    <3>2. <<n, day>> \in Keys /\ announced'[<<n, day>>] = 0
      BY <1>0, <1>1 DEF Open, Keys, LunchTypeOK
    <3>3. CASE <<sub.id, lunch.date>> = <<n, day>>
      BY <1>0, <3>1, <3>2, <3>3
    <3>4. CASE <<sub.id, lunch.date>> # <<n, day>>
      BY <1>0, <3>1, <3>2, <3>4
    <3> QED
      BY <3>3, <3>4
  <2> QED
    BY <2>1, <2>2 DEF LunchStep, List, Consider, FetchFails, Claim, RedisRaises, ghostVars
<1>4. Open(n) /\ setbacks <= 2
  BY <1>0, <1>1, <1>2, <1>3 DEF Open
<1>5. OnTime(n)
  BY <1>0, <1>4 DEF OpenAreOnTime
<1>6. Spent(n) = setbacks \/ (Covers(n) /\ Spent(n) = setbacks + 1)
  BY <1>0 DEF Spent
<1>7. ASSUME Covers(n)' => Covers(n) /\ lunch'.at = lunch.at,
             Covers(n) => Covers(n)' \/ setbacks' = setbacks + 1
      PROVE  OnTime(n)'
  <2>1. Spent(n)' >= Spent(n)
    BY <1>0, <1>2, <1>7 DEF Spent
  <2> QED
    BY <1>0, <1>1, <1>5, <1>7, <2>1, StaysOnTime
<1>8. CASE List
  <2> DEFINE subs == {[id |-> m, notify_at |-> notify_at[m]] : m \in ListedIds}
  <2>1. RowOf(n) \in subs
    BY <1>0, <1>4 DEF Open, SteadyAreListed, RowOf
  <2>2. lunch' = [lunch EXCEPT !.pc = "loop", !.subs = subs] /\ lunch.pc = "list"
    BY <1>8, <2>1 DEF List
  <2>3. /\ lunch'.pc = "loop" /\ lunch'.subs = subs
        /\ lunch'.at = lunch.at /\ lunch'.date = lunch.date
    BY <1>0, <2>2 DEF Lunch
  <2>4. RowOf(n)' = RowOf(n)
    BY <1>1 DEF RowOf
  <2> HIDE DEF subs
  <2>5. Covers(n)' <=> Covers(n)
    BY <1>1, <2>1, <2>2, <2>3, <2>4 DEF Covers
  <2> QED
    BY <1>7, <2>3, <2>5
<1>9. ASSUME NEW sub \in lunch.subs, lunch.pc \in {"loop", "fetch", "put"}, NEW before, NEW alert,
             Leave(sub, before, alert),
             Covers(n) => sub # RowOf(n) \/ setbacks' = setbacks + 1
      PROVE  OnTime(n)'
  <2>1. /\ Covers(n)' => Covers(n) /\ lunch'.at = lunch.at
        /\ Covers(n) /\ sub # RowOf(n) => Covers(n)'
    BY <1>0, <1>1, <1>9, LeaveCovers
  <2> QED
    BY <1>7, <1>9, <2>1
<1>10. ASSUME lunch'.pc \in {"fetch", "put"}, lunch.pc # "list", lunch'.subs = lunch.subs,
              lunch'.date = lunch.date, lunch'.at = lunch.at
       PROVE  OnTime(n)'
  <2>1. Covers(n)' <=> Covers(n)
    BY <1>1, <1>10 DEF Covers, RowOf
  <2> QED
    BY <1>7, <1>10, <2>1
<1>11. ASSUME NEW sub \in lunch.subs, Consider(sub)
       PROVE  OnTime(n)'
  <2>1. CASE Claimable(sub)
    <3>1. lunch' = [lunch EXCEPT !.pc = "fetch"] /\ lunch.pc = "loop"
      BY <1>11, <2>1 DEF Consider
    <3>2. /\ lunch'.pc = "fetch" /\ lunch'.subs = lunch.subs
          /\ lunch'.date = lunch.date /\ lunch'.at = lunch.at
      BY <1>0, <3>1 DEF Lunch
    <3> QED
      BY <1>10, <3>1, <3>2
  <2>2. CASE ~Claimable(sub)
    <3>1. ASSUME Covers(n), sub = RowOf(n)
          PROVE  FALSE
      <4>1. InWindow(sub)
        BY <1>5, <3>1 DEF OnTime, Covers, InWindow, RowOf
      <4>2. <<n, day>> \in sent_keys
        BY <2>2, <3>1, <4>1 DEF Claimable, Covers, RowOf
      <4>3. announced[<<n, day>>] = 0 /\ <<n, day>> \notin lost /\ lunch.pc = "loop"
        BY <1>4, <1>11 DEF Open, Consider
      <4> QED
        BY <1>0, <4>2, <4>3 DEF KeysAreAccounted
    <3>2. Leave(sub, queue, lunch.alert) /\ lunch.pc = "loop"
      BY <1>11, <2>2 DEF Consider
    <3> QED
      BY <1>9, <3>1, <3>2
  <2> QED
    BY <2>1, <2>2
<1>12. ASSUME NEW sub \in lunch.subs, FetchFails(sub)
       PROVE  OnTime(n)'
  BY <1>9, <1>12 DEF FetchFails, Setback
<1>13. ASSUME NEW sub \in lunch.subs, Claim(sub)
       PROVE  OnTime(n)'
  <2>1. lunch' = [lunch EXCEPT !.pc = "put"] /\ lunch.pc = "fetch"
    BY <1>13 DEF Claim
  <2>2. /\ lunch'.pc = "put" /\ lunch'.subs = lunch.subs
        /\ lunch'.date = lunch.date /\ lunch'.at = lunch.at
    BY <1>0, <2>1 DEF Lunch
  <2> QED
    BY <1>10, <2>1, <2>2
<1>14. ASSUME NEW sub \in lunch.subs, Put(sub)
       PROVE  OnTime(n)'
  <2>1. ASSUME Covers(n), sub = RowOf(n)
        PROVE  FALSE
    <3>1. <<sub.id, lunch.date>> = <<n, day>>
      BY <2>1 DEF Covers, RowOf
    <3>2. announced' = [announced EXCEPT ![<<n, day>>] = @ + 1] /\ <<n, day>> \in Keys
      BY <1>0, <1>14, <3>1 DEF Put, Keys, LunchTypeOK
    <3>3. announced'[<<n, day>>] = 1
      BY <1>0, <1>3, <3>2
    <3> QED
      BY <1>1, <3>3 DEF Open
  <2>2. lunch.pc = "put" /\ Leave(sub, Append(queue, LunchTask(sub)), lunch.alert)
    BY <1>14 DEF Put
  <2> QED
    BY <1>9, <2>1, <2>2
<1>15. CASE RedisRaises
  <2>1. lunch'.pc = "idle" /\ setbacks' = setbacks + 1
    BY <1>15 DEF RedisRaises, Setback, IdleLunch
  <2> QED
    BY <1>7, <2>1 DEF Covers
<1> QED
  BY <1>8, <1>11, <1>12, <1>13, <1>14, <1>15 DEF LunchStep

LEMMA OutsideOnTime ==
  ASSUME GraceInv, LunchTypeOK', OutsideStep, NEW n \in NotificationIds,
         Open(n)', setbacks' <= 2
  PROVE  OnTime(n)'
<1>0. /\ LunchTypeOK /\ SteadyAreListed /\ OpenAreOnTime /\ setbacks \in Nat
      /\ time \in Nat /\ due \in Nat /\ Period \in Nat
  BY GraceTypes
<1>1. /\ UNCHANGED <<day, time, announced>> /\ n \in steady /\ lost \subseteq lost'
      /\ notify_at'[n] = notify_at[n]
  BY <1>0, OutsideFrames DEF Open
<1>2. setbacks <= setbacks'
  <2>1. CASE Restart
    BY <1>0, <2>1 DEF Restart
  <2> QED
    BY <1>0, <2>1, OutsideFrames
<1>3. setbacks' \in Nat
  BY DEF LunchTypeOK
<1>4. Open(n) /\ setbacks <= 2
  BY <1>0, <1>1, <1>2, <1>3 DEF Open
<1>5. OnTime(n)
  BY <1>0, <1>4 DEF OpenAreOnTime
<1>6. CASE Restart
  <2>1. /\ lunch'.pc = "idle" /\ due' = Period
        /\ setbacks' = setbacks + (IF lunch.pc = "idle" THEN 1 ELSE 2)
    BY <1>6 DEF Restart, IdleLunch
  <2>2. ~Covers(n)' /\ Spent(n)' = setbacks'
    BY <1>3, <2>1 DEF Covers, Spent
  <2>3. Spent(n)' >= Spent(n) + 1
    BY <1>0, <2>1, <2>2 DEF Covers, Spent
  <2>4. time' + due' <= time + due + Period
    BY <1>0, <1>1, <2>1
  <2> QED
    BY <1>0, <1>1, <1>5, <2>2, <2>3, <2>4, StaysOnTime
<1>7. CASE UNCHANGED <<lunch, due, lost, setbacks>>
  <2>1. Covers(n)' <=> Covers(n)
    BY <1>1, <1>7 DEF Covers, RowOf
  <2>2. Spent(n)' >= Spent(n) /\ time' + due' = time + due
    BY <1>0, <1>1, <1>7, <2>1 DEF Spent
  <2> QED
    BY <1>0, <1>1, <1>5, <1>7, <2>1, <2>2, StaysOnTime
<1> QED
  BY <1>0, <1>6, <1>7, OutsideFrames

LEMMA GraceInitially == Init => GraceInv
<1> SUFFICES ASSUME Init PROVE GraceInv
  OBVIOUS
<1>1. OnceInv /\ LunchTypeOK
  BY OnceInitially DEF OnceInv
<1>2. BooksInv
  BY DEF Init, BooksInv, SteadyAreListed, RunsAreOfToday, KeysAreAccounted, IdleLunch
<1>3. ASSUME NEW n \in NotificationIds
      PROVE  OnTime(n)
  <2>1. ~Covers(n) /\ Spent(n) = 0
    BY DEF Init, IdleLunch, Covers, Spent
  <2>2. Latest(n, 0) = notify_at[n] + Period - 1 /\ notify_at[n] \in Nat
    <3>1. notify_at[n] \in Nat /\ Period \in Nat
      BY <1>1 DEF LunchTypeOK, Times
    <3> QED
      BY <3>1 DEF Latest
  <2>3. time + due <= Latest(n, 0)
    BY <2>2 DEF Init
  <2> QED
    BY <2>1, <2>3 DEF OnTime
<1> QED
  BY <1>1, <1>2, <1>3 DEF GraceInv, OpenAreOnTime

LEMMA GraceStep ==
  Grace >= 3 * Period => (GraceInv /\ [Next]_vars => GraceInv')
<1> SUFFICES ASSUME Grace >= 3 * Period, GraceInv, [Next]_vars
             PROVE  GraceInv'
  OBVIOUS
<1>1. OnceInv' /\ LunchTypeOK'
  BY OnceStep DEF GraceInv, OnceInv
<1>2. BooksInv'
  BY BooksStep DEF GraceInv
<1>3. CASE Advance \/ Tick \/ DropTick
  BY <1>1, <1>2, <1>3, TicksOnTime DEF GraceInv
<1>4. CASE LunchStep
  BY <1>1, <1>2, <1>4, RunOnTime DEF GraceInv, OpenAreOnTime
<1>5. CASE OutsideStep
  BY <1>1, <1>2, <1>5, OutsideOnTime DEF GraceInv, OpenAreOnTime
<1>6. CASE UNCHANGED vars
  <2>1. OpenAreOnTime'
    BY <1>6 DEF vars, clockVars, ghostVars, GraceInv, OpenAreOnTime, Open, OnTime, Covers,
       Spent, Latest, RowOf
  <2> QED
    BY <1>1, <1>2, <2>1 DEF GraceInv
<1> QED
  BY <1>3, <1>4, <1>5, <1>6 DEF Next, OutsideStep

\* The grace of F-11 is worth what it is for: when it is at least three periods
\* of the trigger (in the code 180 s and 60 s), a subscription that nobody
\* touched is announced by the end of its window on every day with at most two
\* setbacks, for any number of subscriptions and whatever disturbs which tick.
THEOREM GraceIsEnough ==
  ASSUME Grace >= 3 * Period
  PROVE  Spec => []GraceAbsorbs
<1>1. ASSUME GraceInv PROVE GraceAbsorbs
  <2> SUFFICES ASSUME NEW n \in steady, time >= notify_at[n] + Grace, setbacks <= 2,
                      lunch.pc = "idle", <<n, day>> \notin lost
               PROVE  announced[<<n, day>>] = 1
    BY DEF GraceAbsorbs
  <2>0. /\ LunchTypeOK /\ n \in NotificationIds /\ <<n, day>> \in Keys
        /\ time \in Nat /\ due \in Nat /\ setbacks \in Nat /\ Period \in Nat
        /\ notify_at[n] \in Nat /\ announced \in [Keys -> Nat]
    <3>1. LunchTypeOK
      BY <1>1, GraceTypes
    <3>2. n \in NotificationIds /\ <<n, day>> \in Keys /\ announced \in [Keys -> Nat]
      BY <3>1 DEF LunchTypeOK, Keys
    <3> QED
      BY <1>1, <3>1, <3>2, GraceTypes
  <2>1. announced[<<n, day>>] \in {0, 1}
    BY <1>1, <2>0 DEF GraceInv, OnceInv, AnnouncedAreKeyed
  <2>2. CASE announced[<<n, day>>] = 0
    <3>1. OnTime(n) /\ Spent(n) = setbacks
      BY <1>1, <2>0, <2>2 DEF GraceInv, OpenAreOnTime, Open, Spent, Covers
    <3>2. time + due <= Latest(n, setbacks)
      BY <3>1 DEF OnTime
    <3>3. /\ Latest(n, setbacks) \in Int /\ Latest(n, setbacks) <= Latest(n, 2)
          /\ Latest(n, 2) = notify_at[n] + 3 * Period - 1
      BY <2>0, LatestGrows, LatestOrder
    <3>4. time + due <= notify_at[n] + 3 * Period - 1
      BY <2>0, <3>2, <3>3
    <3>5. time + due >= notify_at[n] + 3 * Period
      BY <2>0
    <3> QED
      BY <2>0, <3>4, <3>5
  <2> QED
    BY <2>1, <2>2
<1>2. GraceInv /\ [Next]_vars => GraceInv'
  BY GraceStep
<1>3. GraceInv => GraceAbsorbs
  BY <1>1
<1> QED
  BY <1>2, <1>3, GraceInitially, PTL DEF Spec
=============================================================================
