-------------------------- MODULE TransitJobProofs --------------------------
(***************************************************************************)
(* Theorems about TransitJob, for every set of subscriptions, every answer *)
(* of the subway API, every length of the day, and every combination of    *)
(* faults.                                                                 *)
(***************************************************************************)
EXTENDS TransitJob, SenderProofs, FiniteSetTheorems

USE IdsAssumption, OwnerAssumption, ReloginAssumption, FaultsAssumption,
    AdminsAssumption, TransitAssumption

-----------------------------------------------------------------------------
(* Types.                                                                  *)

\* The parts of TransitTypeOK about the run, the clock and the books.
RunTypeOK == /\ transit \in Transit
             /\ transit.todo \subseteq transit.listed
             /\ transit.pc \notin {"idle", "list"} => transit.todo # {}
             /\ transit.pc \in {"sadd", "put"} => transit.left # {}

ClockTypeOK == now \in Instants /\ due \in BOOLEAN

BookTypeOK == /\ sent_trains \subseteq Sent
              /\ config \in [NotificationIds -> Configs]
              /\ last_sent \in [NotificationIds -> Instants \cup {Never}]
              /\ guarded_at \in Instants
              /\ announced \in [Sent -> Nat]
              /\ lost \subseteq Sent
              /\ edited \subseteq NotificationIds
              /\ events \in Nat

\* What TransitTypeOK needs to be inductive: the rows of a run differ in their
\* ids, and what the run takes from the cached answer is there.
RowsAreDistinct == \A a, b \in transit.listed : a.id = b.id => a = b

HandIsServed ==
  \A sub \in transit.todo :
    InHand(sub) =>
      /\ transit.pc \in {"use", "sadd", "put"} =>
           transit.answers[sub.config.station] \in Answers
      /\ transit.pc \in {"sadd", "put"} =>
           \A i \in transit.left : Train(sub, i) \in Trains

TypeInv == TransitTypeOK /\ RowsAreDistinct /\ HandIsServed

\* (A fact about one state, and the same fact about the next.)
LEMMA SplitType ==
  /\ TransitTypeOK <=>
       DbTypeOK /\ SenderTypeOK /\ RunTypeOK /\ ClockTypeOK /\ BookTypeOK
  /\ TransitTypeOK' <=>
       DbTypeOK' /\ SenderTypeOK' /\ RunTypeOK' /\ ClockTypeOK' /\ BookTypeOK'
BY DEF TransitTypeOK, RunTypeOK, ClockTypeOK, BookTypeOK

LEMMA FramesKeepType ==
  /\ UNCHANGED dbVars => (DbTypeOK => DbTypeOK')
  /\ UNCHANGED senderVars => (SenderTypeOK => SenderTypeOK')
  /\ UNCHANGED <<now, due>> => (ClockTypeOK => ClockTypeOK')
  /\ UNCHANGED transit =>
       (RunTypeOK /\ RowsAreDistinct /\ HandIsServed
          => RunTypeOK' /\ RowsAreDistinct' /\ HandIsServed')
  /\ UNCHANGED <<sent_trains, config, bookVars, announced, lost, edited, events>>
       => (BookTypeOK => BookTypeOK')
BY DEF dbVars, DbTypeOK, senderVars, SenderTypeOK, Holding, ClockTypeOK, RunTypeOK,
       RowsAreDistinct, HandIsServed, InHand, Train, bookVars, BookTypeOK

LEMMA ArrivalType ==
  ASSUME NEW answer \in Answers
  PROVE  answer \in Seq(Arrival)
<1>1. PICK r \in Responses : answer = Parsed(r)
  BY DEF Answers
<1>2. r.rows \in Seq(BoardRow)
  BY DEF Response
<1>3. ASSUME NEW i \in DOMAIN r.rows
      PROVE  row_to_arrival(r.rows[i]) \in Arrival
  <2>1. r.rows[i] \in BoardRow
    BY <1>2
  <2> QED
    BY <2>1 DEF row_to_arrival, BoardRow, Arrival
<1>4. CASE r.code = "INFO-000"
  <2>1. answer = [i \in 1..Len(r.rows) |-> row_to_arrival(r.rows[i])]
    BY <1>1, <1>2, <1>4 DEF Parsed
  <2> QED
    BY <1>2, <1>3, <2>1, IsASeq, LenProperties
<1>5. CASE r.code # "INFO-000"
  BY <1>1, <1>5 DEF Parsed
<1> QED
  BY <1>4, <1>5

LEMMA RowType ==
  ASSUME TypeInv, NEW sub \in transit.todo
  PROVE  /\ sub \in transit.listed /\ sub \in Sub
         /\ sub.id \in NotificationIds /\ sub.id \in Nat
         /\ sub.config \in Configs /\ sub.config \in Config
         /\ sub.config.station \in Stations
<1>1. sub \in transit.listed /\ sub \in Sub
  BY DEF TypeInv, TransitTypeOK, Transit
<1>2. sub.id \in NotificationIds /\ sub.config \in Configs
  BY <1>1 DEF Sub
<1>3. sub.config \in Config
  BY <1>2
<1>4. sub.config.station \in Stations
  BY <1>3 DEF Config
<1> QED
  BY <1>1, <1>2, <1>3, <1>4

LEMMA OneInHand ==
  ASSUME TypeInv, NEW a \in transit.todo, NEW b \in transit.todo, InHand(a), InHand(b)
  PROVE  a = b
<1>1. a.id \in Nat /\ b.id \in Nat /\ a.id <= b.id /\ b.id <= a.id
  BY RowType DEF InHand
<1>2. a.id = b.id
  BY <1>1
<1> QED
  BY <1>2, RowType DEF TypeInv, RowsAreDistinct

LEMMA DateType == ASSUME NEW t \in Instants PROVE t \in Nat /\ DateOf(t) \in Dates
BY DEF Instants, Dates

LEMMA IdleType ==
  ASSUME NEW outcome \in {"ended", "cut"}
  PROVE  /\ IdleTransit(outcome) \in Transit
         /\ IdleTransit(outcome).pc = "idle"
         /\ IdleTransit(outcome).listed = {} /\ IdleTransit(outcome).todo = {}
<1>1. 0 \in Instants
  BY DEF Instants
<1> QED
  BY <1>1 DEF IdleTransit, Transit

\* A run that is over.
LEMMA IdleRun ==
  ASSUME NEW outcome \in {"ended", "cut"}, transit' = IdleTransit(outcome)
  PROVE  RunTypeOK' /\ RowsAreDistinct' /\ HandIsServed'
BY IdleType DEF RunTypeOK, RowsAreDistinct, HandIsServed

\* A step of the run within its rows, to where no answer is needed.
LEMMA MovedRun ==
  ASSUME TypeInv, transit' \in Transit, transit'.listed = transit.listed,
         transit'.todo \subseteq transit.todo, transit'.todo # {},
         transit'.pc \notin {"use", "sadd", "put"}
  PROVE  RunTypeOK' /\ RowsAreDistinct' /\ HandIsServed'
BY DEF TypeInv, TransitTypeOK, RunTypeOK, RowsAreDistinct, HandIsServed

\* Leaving a subscription keeps the run and the queue well-formed.
LEMMA LeaveType ==
  ASSUME TypeInv, NEW sub \in transit.todo, NEW before \in Seq(Task),
         NEW failed \in SUBSET NotificationIds,
         Leave(sub, before, failed), UNCHANGED pipelineRest,
         in_flight' \subseteq NotificationIds
  PROVE  SenderTypeOK' /\ RunTypeOK' /\ RowsAreDistinct' /\ HandIsServed'
<1>1. RunTypeOK' /\ RowsAreDistinct' /\ HandIsServed'
  <2>1. CASE transit.todo = {sub}
    BY <2>1, IdleRun DEF Leave
  <2>2. CASE transit.todo # {sub}
    <3>1. transit' = [transit EXCEPT !.pc = "loop", !.todo = @ \ {sub},
                                     !.sent = {}, !.left = {}, !.failed = failed]
      BY <2>2 DEF Leave
    <3>2. transit.todo \ {sub} # {}
      BY <2>2
    <3>3. /\ transit' \in Transit /\ transit'.listed = transit.listed
          /\ transit'.todo = transit.todo \ {sub} /\ transit'.pc = "loop"
      BY <3>1 DEF TypeInv, TransitTypeOK, Transit
    <3> QED
      BY <3>2, <3>3, MovedRun
  <2> QED
    BY <2>1, <2>2
<1>2. queue' \in Seq(Task)
  <2>1. before \o AdminAlerts \in Seq(Task)
    BY AdminAlertsType, ConcatProperties
  <2> QED
    BY <2>1 DEF Leave
<1> QED
  BY <1>1, <1>2 DEF TypeInv, TransitTypeOK, SenderTypeOK, Holding, pipelineRest

LEMMA TickKeepsType ==
  ASSUME TypeInv, Advance \/ Tick
  PROVE  TypeInv'
<1> USE FramesKeepType, SplitType DEF TypeInv
<1>0. /\ DbTypeOK /\ SenderTypeOK /\ RunTypeOK /\ ClockTypeOK /\ BookTypeOK
      /\ RowsAreDistinct /\ HandIsServed
  OBVIOUS
<1>1. CASE Advance
  <2>1. ClockTypeOK'
    BY <1>0, <1>1 DEF Advance, ClockTypeOK, Instants
  <2> QED
    BY <1>0, <1>1, <2>1 DEF Advance, runVars
<1>2. CASE Tick
  <2>1. ClockTypeOK'
    BY <1>0, <1>2 DEF Tick, ClockTypeOK
  <2>2. RunTypeOK' /\ RowsAreDistinct' /\ HandIsServed'
    <3>1. CASE transit.pc = "idle"
      <4> DEFINE new == [IdleTransit("ended") EXCEPT !.pc = "list", !.at = now]
      <4>1. new \in Transit /\ new.pc = "list" /\ new.todo = {} /\ new.listed = {}
        BY <1>0, IdleType DEF Transit, ClockTypeOK
      <4>2. transit' = new
        BY <1>2, <3>1 DEF Tick
      <4> HIDE DEF new
      <4> QED
        BY <4>1, <4>2 DEF RunTypeOK, RowsAreDistinct, HandIsServed
    <3>2. CASE transit.pc # "idle"
      BY <1>0, <1>2, <3>2 DEF Tick
    <3> QED
      BY <3>1, <3>2
  <2> QED
    BY <1>0, <1>2, <2>1, <2>2 DEF Tick
<1> QED
  BY <1>1, <1>2

\* The steps that look at a subscription and wait, or leave it.
LEMMA ConsiderKeepsType ==
  ASSUME TypeInv, NEW sub \in transit.todo,
         ConsiderRecurring(sub) \/ ConsiderArrival(sub) \/ LastSent(sub)
  PROVE  TypeInv'
<1> USE FramesKeepType, SplitType DEF TypeInv
<1>0. /\ DbTypeOK /\ SenderTypeOK /\ RunTypeOK /\ ClockTypeOK /\ BookTypeOK
      /\ RowsAreDistinct /\ HandIsServed
      /\ transit \in Transit /\ transit.failed \in SUBSET NotificationIds
      /\ queue \in Seq(Task) /\ in_flight \subseteq NotificationIds
  BY DEF RunTypeOK, Transit, SenderTypeOK
<1>1. InHand(sub) /\ UNCHANGED <<aroundRun, pipelineRest, in_flight, sent_trains, announced, events>>
  BY DEF ConsiderRecurring, ConsiderArrival, LastSent
<1>2. CASE Leave(sub, queue, transit.failed)
  <2>1. SenderTypeOK' /\ RunTypeOK' /\ RowsAreDistinct' /\ HandIsServed'
    BY <1>0, <1>1, <1>2, LeaveType
  <2> QED
    BY <1>0, <1>1, <2>1 DEF aroundRun
<1>3. ASSUME UNCHANGED queue, NEW trains \in SUBSET Trains,
             NEW pc \in {"last", FetchPc(sub)},
             transit' = [transit EXCEPT !.pc = pc, !.sent = trains]
      PROVE  TypeInv'
  <2>1. SenderTypeOK'
    BY <1>0, <1>1, <1>3 DEF SenderTypeOK, Holding, pipelineRest
  <2>2. /\ transit' \in Transit /\ transit'.listed = transit.listed
        /\ transit'.todo = transit.todo /\ transit'.pc = pc
        /\ transit'.answers = transit.answers
    BY <1>0, <1>3 DEF Transit, FetchPc
  <2>3. RunTypeOK' /\ RowsAreDistinct' /\ HandIsServed'
    <3>1. CASE pc \in {"last", "fetch"}
      BY <1>0, <2>2, <3>1, MovedRun
    <3>2. CASE pc = "use"
      <4>1. transit.answers[sub.config.station] # NoAnswer
        BY <3>2, <1>3 DEF FetchPc
      <4>2. transit.answers[sub.config.station] \in Answers
        BY <1>0, <4>1, RowType DEF Transit
      <4>3. \A other \in transit.todo : InHand(other)' => other = sub
        <5> SUFFICES ASSUME NEW other \in transit.todo, InHand(other)'
                     PROVE  other = sub
          OBVIOUS
        <5>1. InHand(other)
          BY <2>2 DEF InHand
        <5> QED
          BY <1>1, <5>1, OneInHand
      <4> QED
        BY <1>0, <2>2, <3>2, <4>2, <4>3
        DEF RunTypeOK, RowsAreDistinct, HandIsServed
    <3> QED
      BY <3>1, <3>2, <1>3 DEF FetchPc
  <2> QED
    BY <1>0, <1>1, <2>1, <2>3 DEF aroundRun
<1>4. transit.sent \in SUBSET Trains /\ SentOn(sub.id, DateOf(transit.at)) \in SUBSET Trains
  BY <1>0 DEF Transit, SentOn
<1>5. \A pc : [transit EXCEPT !.pc = pc] = [transit EXCEPT !.pc = pc, !.sent = transit.sent]
  BY <1>0 DEF Transit
<1>6. CASE ConsiderRecurring(sub)
  BY <1>2, <1>3, <1>4, <1>5, <1>6 DEF ConsiderRecurring
<1>7. CASE ConsiderArrival(sub)
  BY <1>2, <1>3, <1>4, <1>7 DEF ConsiderArrival
<1>8. CASE LastSent(sub)
  BY <1>2, <1>3, <1>4, <1>5, <1>8 DEF LastSent
<1> QED
  BY <1>6, <1>7, <1>8

\* The crawler's answer, or its failure.
LEMMA FetchKeepsType ==
  ASSUME TypeInv, NEW sub \in transit.todo, Fetch(sub) \/ FetchFails(sub)
  PROVE  TypeInv'
<1> USE FramesKeepType, SplitType DEF TypeInv
<1>0. /\ DbTypeOK /\ SenderTypeOK /\ RunTypeOK /\ ClockTypeOK /\ BookTypeOK
      /\ RowsAreDistinct /\ HandIsServed
      /\ transit \in Transit /\ transit.failed \in SUBSET NotificationIds
      /\ queue \in Seq(Task) /\ in_flight \subseteq NotificationIds
  BY DEF RunTypeOK, Transit, SenderTypeOK
<1>1. CASE Fetch(sub)
  <2>1. PICK answer \in Answers :
          transit' = [transit EXCEPT !.pc = "use", !.answers[sub.config.station] = answer]
    BY <1>1 DEF Fetch
  <2>2. /\ transit' \in Transit /\ transit'.listed = transit.listed
        /\ transit'.todo = transit.todo /\ transit'.pc = "use"
        /\ transit'.answers[sub.config.station] = answer
    BY <1>0, <2>1, RowType DEF Transit
  <2>3. \A other \in transit.todo : InHand(other)' => other = sub
    <3> SUFFICES ASSUME NEW other \in transit.todo, InHand(other)'
                 PROVE  other = sub
      OBVIOUS
    <3>1. InHand(other) /\ InHand(sub)
      BY <1>1, <2>2 DEF InHand, Fetch
    <3> QED
      BY <3>1, OneInHand
  <2>4. RunTypeOK' /\ RowsAreDistinct' /\ HandIsServed'
    BY <1>0, <2>2, <2>3 DEF RunTypeOK, RowsAreDistinct, HandIsServed
  <2> QED
    BY <1>0, <1>1, <2>4 DEF Fetch, aroundRun
<1>2. CASE FetchFails(sub)
  <2>1. transit.failed \cup {sub.id} \in SUBSET NotificationIds
    BY <1>0, RowType
  <2>2. SenderTypeOK' /\ RunTypeOK' /\ RowsAreDistinct' /\ HandIsServed'
    BY <1>0, <1>2, <2>1, LeaveType DEF FetchFails
  <2>3. BookTypeOK'
    BY <1>0, <1>2 DEF FetchFails, Counted, aroundRun, bookVars, BookTypeOK
  <2> QED
    BY <1>0, <1>2, <2>2, <2>3 DEF FetchFails, aroundRun
<1> QED
  BY <1>1, <1>2

LEMMA TaskType ==
  ASSUME TypeInv, NEW sub \in transit.todo
  PROVE  /\ TransitTask(sub) \in Task
         /\ Append(queue, TransitTask(sub)) \in Seq(Task)
<1>1. TransitTask(sub) \in Task
  BY RowType DEF TransitTask, Task
<1> QED
  BY <1>1, AppendProperties DEF TypeInv, TransitTypeOK, SenderTypeOK

\* The train whose turn it is.
LEMMA KeyType ==
  ASSUME TypeInv, NEW sub \in transit.todo, InHand(sub), transit.pc \in {"sadd", "put"},
         NEW i \in transit.left
  PROVE  Train(sub, i) \in Trains /\ Key(sub, i) \in Sent
<1>1. transit.at \in Instants
  BY DEF TypeInv, TransitTypeOK, Transit
<1> QED
  BY <1>1, DateType, RowType DEF TypeInv, HandIsServed, Key, Sent

LEMMA CountOneMore ==
  ASSUME NEW S, NEW f \in [S -> Nat], NEW k \in S
  PROVE  [f EXCEPT ![k] = @ + 1] \in [S -> Nat]
OBVIOUS

\* The steps that use an answer.
LEMMA UseKeepsType ==
  ASSUME TypeInv, NEW sub \in transit.todo,
         PutRecurring(sub) \/ Filter(sub) \/ Remember(sub) \/ PutArrival(sub)
  PROVE  TypeInv'
<1> USE FramesKeepType, SplitType DEF TypeInv
<1>0. /\ DbTypeOK /\ SenderTypeOK /\ RunTypeOK /\ ClockTypeOK /\ BookTypeOK
      /\ RowsAreDistinct /\ HandIsServed
      /\ transit \in Transit /\ transit.failed \in SUBSET NotificationIds
      /\ queue \in Seq(Task) /\ in_flight \subseteq NotificationIds
  BY DEF RunTypeOK, Transit, SenderTypeOK
<1>1. CASE PutRecurring(sub)
  <2>1. in_flight' \subseteq NotificationIds
    BY <1>0, <1>1, RowType DEF PutRecurring
  <2>2. SenderTypeOK' /\ RunTypeOK' /\ RowsAreDistinct' /\ HandIsServed'
    BY <1>0, <1>1, <2>1, TaskType, LeaveType DEF PutRecurring
  <2> QED
    BY <1>0, <1>1, <2>2 DEF PutRecurring, aroundRun
<1>2. ASSUME transit.pc \in {"use", "sadd", "put"}, InHand(sub),
             NEW pc \in {"sadd", "put"}, NEW left \in SUBSET Nat, left # {},
             NEW trains \in SUBSET Trains,
             transit' = [transit EXCEPT !.pc = pc, !.left = left, !.sent = trains],
             \A i \in left : Train(sub, i) \in Trains
      PROVE  RunTypeOK' /\ RowsAreDistinct' /\ HandIsServed'
  <2>1. /\ transit' \in Transit /\ transit'.listed = transit.listed
        /\ transit'.todo = transit.todo /\ transit'.pc = pc
        /\ transit'.answers = transit.answers /\ transit'.left = left
    BY <1>0, <1>2 DEF Transit
  <2>2. ASSUME NEW other \in transit.todo, InHand(other)'
        PROVE  other = sub
    <3>1. InHand(other)
      BY <2>1, <2>2 DEF InHand
    <3> QED
      BY <1>2, <3>1, OneInHand
  <2>3. transit.answers[sub.config.station] \in Answers
    BY <1>0, <1>2 DEF HandIsServed
  <2>4. HandIsServed'
    BY <1>2, <2>1, <2>2, <2>3 DEF HandIsServed, Train
  <2> QED
    BY <1>0, <1>2, <2>1, <2>4 DEF RunTypeOK, RowsAreDistinct
<1>3. CASE Filter(sub)
  <2> DEFINE answer == transit.answers[sub.config.station]
             near   == Candidates(answer, sub.config, transit.sent, transit.at)
  <2>0. InHand(sub) /\ transit.pc = "use"
    BY <1>3 DEF Filter
  <2>1. CASE near = {}
    <3>1. SenderTypeOK' /\ RunTypeOK' /\ RowsAreDistinct' /\ HandIsServed'
      BY <1>0, <1>3, <2>1, LeaveType DEF Filter
    <3> QED
      BY <1>0, <1>3, <3>1 DEF Filter, aroundRun
  <2>2. CASE near # {}
    <3>1. answer \in Seq(Arrival)
      BY <1>0, <2>0, ArrivalType DEF HandIsServed
    <3>2. near \in SUBSET Nat
      BY <3>1 DEF Candidates
    <3>3. ASSUME NEW i \in near
          PROVE  Train(sub, i) \in Trains
      <4>1. i \in DOMAIN answer /\ answer[i].train # NoTrain
        BY DEF Candidates, Near
      <4>2. answer[i] \in Arrival
        BY <3>1, <4>1
      <4> QED
        BY <4>1, <4>2 DEF Train, Arrival
    <3>4. transit' = [transit EXCEPT !.pc = "sadd", !.left = near, !.sent = transit.sent]
      BY <1>0, <1>3, <2>2 DEF Filter, Transit
    <3>5. transit.sent \in SUBSET Trains
      BY <1>0 DEF Transit
    <3> HIDE DEF near
    <3>6. RunTypeOK' /\ RowsAreDistinct' /\ HandIsServed'
      BY <1>2, <2>0, <2>2, <3>2, <3>3, <3>4, <3>5
    <3>7. SenderTypeOK'
      BY <1>0, <1>3, <2>2 DEF Filter, SenderTypeOK, Holding, pipelineRest, near
    <3> QED
      BY <1>0, <1>3, <3>6, <3>7 DEF Filter, aroundRun
  <2> QED
    BY <2>1, <2>2
<1>4. CASE Remember(sub)
  <2>1. PICK i \in transit.left : sent_trains' = sent_trains \cup {Key(sub, i)}
    BY <1>4 DEF Remember
  <2>2. BookTypeOK'
    <3>1. Key(sub, i) \in Sent
      BY <1>4, KeyType DEF Remember
    <3> QED
      BY <1>0, <1>4, <2>1, <3>1 DEF Remember, aroundRun, bookVars, BookTypeOK
  <2>3. transit' = [transit EXCEPT !.pc = "put", !.left = transit.left, !.sent = transit.sent]
    BY <1>0, <1>4 DEF Remember, Transit
  <2>4. /\ InHand(sub) /\ transit.pc = "sadd" /\ transit.left # {}
        /\ transit.left \in SUBSET Nat /\ transit.sent \in SUBSET Trains
    BY <1>0, <1>4 DEF Remember, RunTypeOK, Transit
  <2>5. \A j \in transit.left : Train(sub, j) \in Trains
    BY <2>4, KeyType
  <2>6. RunTypeOK' /\ RowsAreDistinct' /\ HandIsServed'
    BY <1>2, <2>3, <2>4, <2>5
  <2> QED
    BY <1>0, <1>4, <2>2, <2>6 DEF Remember, aroundRun
<1>5. CASE PutArrival(sub)
  <2> DEFINE before == Append(queue, TransitTask(sub))
  <2>0. /\ InHand(sub) /\ transit.pc = "put"
        /\ UNCHANGED <<aroundRun, pipelineRest, in_flight, sent_trains, events>>
    BY <1>5 DEF PutArrival
  <2>1. PICK i \in transit.left :
          /\ announced' = [announced EXCEPT ![Key(sub, i)] = @ + 1]
          /\ IF transit.left = {i}
               THEN Leave(sub, before, transit.failed)
               ELSE /\ transit' = [transit EXCEPT !.pc = "sadd", !.left = @ \ {i},
                                                  !.sent = @ \cup {Train(sub, i)}]
                    /\ queue' = before
    BY <1>5 DEF PutArrival
  <2>2. \A j \in transit.left : Train(sub, j) \in Trains /\ Key(sub, j) \in Sent
    BY <2>0, KeyType
  <2>3. announced' \in [Sent -> Nat]
    BY <1>0, <2>1, <2>2, CountOneMore DEF BookTypeOK
  <2>4. BookTypeOK'
    BY <1>0, <2>0, <2>3 DEF BookTypeOK, aroundRun, bookVars
  <2>5. before \in Seq(Task)
    BY TaskType
  <2>6. CASE transit.left = {i}
    <3>1. SenderTypeOK' /\ RunTypeOK' /\ RowsAreDistinct' /\ HandIsServed'
      BY <1>0, <2>0, <2>1, <2>5, <2>6, LeaveType
    <3> QED
      BY <1>0, <2>0, <2>4, <3>1 DEF aroundRun
  <2>7. CASE transit.left # {i}
    <3> DEFINE rest == transit.left \ {i}
               trains == transit.sent \cup {Train(sub, i)}
    <3>1. rest \in SUBSET Nat /\ rest # {} /\ trains \in SUBSET Trains
      BY <1>0, <2>2, <2>7 DEF Transit
    <3>2. transit' = [transit EXCEPT !.pc = "sadd", !.left = rest, !.sent = trains]
      BY <1>0, <2>1, <2>7 DEF Transit
    <3>3. \A j \in rest : Train(sub, j) \in Trains
      BY <2>2
    <3> HIDE DEF rest, trains
    <3>4. RunTypeOK' /\ RowsAreDistinct' /\ HandIsServed'
      BY <1>2, <2>0, <3>1, <3>2, <3>3
    <3>5. SenderTypeOK'
      BY <1>0, <2>0, <2>1, <2>5, <2>7 DEF SenderTypeOK, Holding, pipelineRest
    <3> QED
      BY <1>0, <2>0, <2>4, <3>4, <3>5 DEF aroundRun
  <2> QED
    BY <2>6, <2>7
<1> QED
  BY <1>1, <1>3, <1>4, <1>5

\* The listing, the end of a run that raises, and the TTL of the Redis keys.
LEMMA ListKeepsType ==
  ASSUME TypeInv, List \/ RunRaises \/ (\E date \in Dates : Expire(date))
  PROVE  TypeInv'
<1> USE FramesKeepType, SplitType DEF TypeInv
<1>0. /\ DbTypeOK /\ SenderTypeOK /\ RunTypeOK /\ ClockTypeOK /\ BookTypeOK
      /\ RowsAreDistinct /\ HandIsServed
      /\ transit \in Transit
  BY DEF RunTypeOK
<1>1. CASE List
  <2> DEFINE subs == {[id |-> n, config |-> config[n]] : n \in
                       {m \in NotificationIds : Listed(m)}}
  <2>1. subs \in SUBSET Sub
    BY <1>0 DEF BookTypeOK, Sub
  <2>2. RunTypeOK' /\ RowsAreDistinct' /\ HandIsServed'
    <3>1. CASE subs = {}
      BY <1>1, <3>1, IdleRun DEF List
    <3>2. CASE subs # {}
      <4>1. transit' = [transit EXCEPT !.pc = "loop", !.listed = subs, !.todo = subs]
        BY <1>1, <3>2 DEF List
      <4>2. /\ transit' \in Transit /\ transit'.pc = "loop"
            /\ transit'.listed = subs /\ transit'.todo = subs
        BY <1>0, <2>1, <4>1 DEF Transit
      <4> QED
        BY <3>2, <4>2 DEF RunTypeOK, RowsAreDistinct, HandIsServed
    <3> QED
      BY <3>1, <3>2
  <2> QED
    BY <1>0, <1>1, <2>2 DEF List, aroundRun
<1>2. CASE RunRaises
  <2>1. sent_trains' \subseteq Sent /\ lost' \subseteq Sent
    <3>1. CASE AddedUnanswered
      BY <1>0, <3>1, KeyType DEF AddedUnanswered, BookTypeOK
    <3>2. CASE ~AddedUnanswered
      BY <1>0, <1>2, <3>2 DEF RunRaises, BookTypeOK, Marked
    <3> QED
      BY <3>1, <3>2
  <2>2. BookTypeOK'
    BY <1>0, <1>2, <2>1 DEF RunRaises, Counted, bookVars, BookTypeOK
  <2>3. RunTypeOK' /\ RowsAreDistinct' /\ HandIsServed'
    BY <1>2, IdleRun DEF RunRaises
  <2> QED
    BY <1>0, <1>2, <2>2, <2>3 DEF RunRaises
<1>3. ASSUME NEW date \in Dates, Expire(date)
      PROVE  TypeInv'
  <2>1. BookTypeOK'
    BY <1>0, <1>3 DEF Expire, aroundRun, bookVars, BookTypeOK
  <2> QED
    BY <1>0, <1>3, <2>1 DEF Expire, aroundRun
<1> QED
  BY <1>1, <1>2, <1>3

\* What happens around the run, the clock and Redis.
OutsideStep ==
  \/ SenderRuns \/ Restart
  \/ \E n \in NotificationIds :
       \/ \E c \in Configs : \/ Subscribe(n, c)
                             \/ \E flag \in {"enabled", "disabled"} : Edit(n, flag, c)
       \/ Unsubscribe(n)
  \/ \E u \in Users : Account(u)

LEMMA ForgottenType ==
  ASSUME TypeInv, Forgotten
  PROVE  last_sent' \in [NotificationIds -> Instants \cup {Never}]
BY DEF TypeInv, TransitTypeOK, Forgotten

LEMMA OutsideStepKeepsType ==
  ASSUME TypeInv, OutsideStep
  PROVE  TypeInv'
<1> USE FramesKeepType, SplitType DEF TypeInv
<1>0. /\ DbTypeOK /\ SenderTypeOK /\ RunTypeOK /\ ClockTypeOK /\ BookTypeOK
      /\ RowsAreDistinct /\ HandIsServed
  OBVIOUS
<1>1. CASE SenderRuns
  <2>1. UNCHANGED <<now, due, runVars, config, edited, events>> /\ SenderStep
    BY <1>1 DEF SenderRuns, Guard, RowStored, OtherSenderStep, SenderStep
  <2>2. DbTypeOK' /\ SenderTypeOK'
    BY <1>0, <2>1, SenderStepKeepsType
  <2>3. /\ guarded_at' \in Instants
        /\ last_sent' \in [NotificationIds -> Instants \cup {Never}]
    <3>1. CASE Guard
      BY <1>0, <3>1 DEF Guard, BookTypeOK, ClockTypeOK
    <3>2. CASE RowStored
      BY <1>0, <3>2 DEF RowStored, BookTypeOK
    <3>3. CASE OtherSenderStep
      BY <1>0, <3>3 DEF OtherSenderStep, bookVars, BookTypeOK
    <3> QED
      BY <1>1, <3>1, <3>2, <3>3 DEF SenderRuns
  <2>4. BookTypeOK'
    BY <1>0, <2>1, <2>3 DEF BookTypeOK, runVars
  <2> QED
    BY <1>0, <2>1, <2>2, <2>4 DEF runVars
<1>2. CASE Restart
  <2>1. SenderTypeOK'
    BY <1>0, <1>2, SenderLostType DEF Restart
  <2>2. RunTypeOK' /\ RowsAreDistinct' /\ HandIsServed'
    BY <1>2, IdleRun DEF Restart
  <2>3. ClockTypeOK'
    BY <1>0, <1>2 DEF Restart, ClockTypeOK
  <2>4. BookTypeOK'
    BY <1>0, <1>2 DEF Restart, Counted, BookTypeOK, bookVars, Marked
  <2> QED
    BY <1>0, <1>2, <2>1, <2>2, <2>3, <2>4 DEF Restart
<1>3. ASSUME NEW n \in NotificationIds, NEW c \in Configs, Subscribe(n, c)
      PROVE  TypeInv'
  <2>1. BookTypeOK'
    BY <1>0, <1>3 DEF Subscribe, Counted, BookTypeOK, bookVars, runVars
  <2> QED
    BY <1>0, <1>3, <2>1, SubscriptionKeepsDbType DEF Subscribe, runVars
<1>4. ASSUME NEW n \in NotificationIds, NEW c \in Configs,
             NEW flag \in {"enabled", "disabled"}, Edit(n, flag, c)
      PROVE  TypeInv'
  <2>1. BookTypeOK'
    BY <1>0, <1>4 DEF Edit, Counted, BookTypeOK, bookVars, runVars
  <2>2. DbTypeOK'
    BY <1>0, <1>4 DEF Edit, DbTypeOK
  <2> QED
    BY <1>0, <1>4, <2>1, <2>2 DEF Edit, runVars
<1>5. ASSUME NEW n \in NotificationIds, Unsubscribe(n)
      PROVE  TypeInv'
  <2>1. BookTypeOK'
    BY <1>0, <1>5, ForgottenType DEF Unsubscribe, Counted, BookTypeOK, runVars
  <2> QED
    BY <1>0, <1>5, <2>1, SubscriptionKeepsDbType DEF Unsubscribe, runVars
<1>6. ASSUME NEW u \in Users, Account(u)
      PROVE  TypeInv'
  <2>1. BookTypeOK'
    BY <1>0, <1>6, ForgottenType DEF Account, Counted, BookTypeOK, runVars
  <2> QED
    BY <1>0, <1>6, <2>1, AccountKeepsDbType DEF Account, runVars
<1> QED
  BY <1>1, <1>2, <1>3, <1>4, <1>5, <1>6 DEF OutsideStep

LEMMA TypeInitially == Init => TypeInv
<1> SUFFICES ASSUME Init PROVE TypeInv
  OBVIOUS
<1>1. DbTypeOK
  BY DEF Init, DbInit, DbTypeOK
<1>2. SenderTypeOK
  BY DEF Init, SenderInit, SenderTypeOK, SenderState, IdleSender, MaxAttempts, Holding
<1>3. RunTypeOK /\ RowsAreDistinct /\ HandIsServed
  BY IdleType DEF Init, RunTypeOK, RowsAreDistinct, HandIsServed
<1>4. 0 \in Instants
  BY DEF Instants
<1>5. ClockTypeOK
  BY <1>4 DEF Init, ClockTypeOK
<1>6. BookTypeOK
  BY <1>4 DEF Init, BookTypeOK
<1> QED
  BY <1>1, <1>2, <1>3, <1>5, <1>6, SplitType DEF TypeInv

LEMMA TypeStep == TypeInv /\ [Next]_vars => TypeInv'
<1> SUFFICES ASSUME TypeInv, [Next]_vars
             PROVE  TypeInv'
  OBVIOUS
<1>1. CASE Advance \/ Tick
  BY <1>1, TickKeepsType
<1>2. CASE List \/ RunRaises \/ (\E date \in Dates : Expire(date))
  BY <1>2, ListKeepsType
<1>3. ASSUME NEW sub \in transit.todo,
             ConsiderRecurring(sub) \/ ConsiderArrival(sub) \/ LastSent(sub)
      PROVE  TypeInv'
  BY <1>3, ConsiderKeepsType
<1>4. ASSUME NEW sub \in transit.todo, Fetch(sub) \/ FetchFails(sub)
      PROVE  TypeInv'
  BY <1>4, FetchKeepsType
<1>5. ASSUME NEW sub \in transit.todo,
             PutRecurring(sub) \/ Filter(sub) \/ Remember(sub) \/ PutArrival(sub)
      PROVE  TypeInv'
  BY <1>5, UseKeepsType
<1>6. CASE OutsideStep
  BY <1>6, OutsideStepKeepsType
<1>7. CASE UNCHANGED vars
  <2>1. UNCHANGED <<dbVars, senderVars, transit>> /\ UNCHANGED <<now, due>>
    BY <1>7 DEF vars, runVars
  <2>2. UNCHANGED <<sent_trains, config, bookVars, announced, lost, edited, events>>
    BY <1>7 DEF vars, runVars
  <2> QED
    BY <2>1, <2>2, FramesKeepType, SplitType DEF TypeInv
<1> QED
  BY <1>1, <1>2, <1>3, <1>4, <1>5, <1>6, <1>7 DEF Next, TransitStep, OutsideStep

\* Every reachable state of the transit job and its surroundings is typed: a
\* run never works without a row, and never takes a train from an answer that
\* does not name it.
THEOREM TransitTypeCorrect == Spec => []TransitTypeOK
<1>1. TypeInv => TransitTypeOK
  BY DEF TypeInv
<1> QED
  BY <1>1, TypeInitially, TypeStep, PTL DEF Spec

-----------------------------------------------------------------------------
(* The pipeline.  None of the three properties below is inductive.  That a *)
(* put cannot be the second one rests on the claim, which only the run     *)
(* makes and only the end of a task takes back; that it is due rests on    *)
(* the newest SUCCESS row, which nobody writes while the run waits, since  *)
(* the subscription has no task then.                                      *)

Copied(n) == Waiting(n) # {} \/ Holds(n)

\* A recurring subscription whose config nobody changed.
Recurs(n) == n \notin edited /\ config[n].mode = "recurring"

\* The claim is as long as the one task.
Single(n) == /\ \A i, j \in Waiting(n) : i = j
             /\ Holds(n) => Waiting(n) = {}
             /\ n \in in_flight <=> Copied(n)

\* The newest report of n is at least its interval older than t.
Due(n, t) == last_sent[n] = Never \/ t - last_sent[n] >= config[n].interval

TasksAreKnown == \A n \in NotificationIds : Copied(n) => subscription[n] # "unused"

TasksAreSingle == \A n \in NotificationIds : Recurs(n) => Single(n)

TasksAreDue ==
  \A n \in NotificationIds :
    Recurs(n) =>
      /\ Waiting(n) # {} \/ (Holds(n) /\ sender.pc = "guard") => Due(n, now)
      /\ Holds(n) /\ sender.pc \in {"send", "record"} => Due(n, guarded_at)

PipeInv == /\ NoSilencedSubscription /\ TasksAreKnown
           /\ TasksAreSingle /\ TasksAreDue

\* The rows of a run are rows of the table, with its config unless edited.
RowsAreKnown ==
  \A sub \in transit.listed :
    /\ subscription[sub.id] # "unused"
    /\ sub.id \notin edited => sub.config = config[sub.id]

\* A recurring row in hand stays unclaimed until its put, and is due once its
\* newest report has been looked up.
HandIsFree ==
  \A sub \in transit.todo :
    InHand(sub) =>
      /\ transit.pc \in {"last", "fetch", "use"} /\ Recurring(sub) => sub.id \notin in_flight
      /\ transit.pc \in {"fetch", "use"} /\ Recurring(sub) /\ sub.id \notin edited
           => Due(sub.id, now)
      /\ transit.pc \in {"sadd", "put"} => ~Recurring(sub)

RunInv == transit.at <= now /\ RowsAreKnown /\ HandIsFree

SpacedInv == TypeInv /\ PipeInv /\ RunInv

LEMMA NumberTypes ==
  ASSUME TypeInv
  PROVE  /\ now \in Nat /\ guarded_at \in Nat /\ transit.at \in Nat
         /\ \A n \in NotificationIds : /\ last_sent[n] \in Nat \cup {Never}
                                       /\ config[n].interval \in Nat
         /\ Never \notin Nat
<1>1. \A n \in NotificationIds : config[n] \in Config
  BY DEF TypeInv, TransitTypeOK
<1> QED
  BY <1>1 DEF TypeInv, TransitTypeOK, Transit, Instants, Config

\* The pipeline of the next state has the tasks and claims of this one.
SamePipe == /\ \A n \in NotificationIds : Waiting(n)' = Waiting(n) /\ (Holds(n)' <=> Holds(n))
            /\ in_flight' = in_flight

LEMMA PipeFrame ==
  ASSUME TypeInv, PipeInv, SamePipe, sender'.pc = sender.pc,
         UNCHANGED <<subscription, config, edited, last_sent, guarded_at>>,
         now' \in Nat, now <= now'
  PROVE  PipeInv'
<1>1. NoSilencedSubscription' /\ TasksAreKnown' /\ TasksAreSingle'
  BY DEF TypeInv, TransitTypeOK, SenderTypeOK, PipeInv, SamePipe, NoSilencedSubscription,
         TasksAreKnown, TasksAreSingle, Copied, Recurs, Single
<1>2. ASSUME NEW n \in NotificationIds, Due(n, now)
      PROVE  Due(n, now)'
  <2>1. last_sent[n] \in Nat \cup {Never} /\ config[n].interval \in Nat /\ now \in Nat
    BY NumberTypes
  <2>2. CASE last_sent[n] = Never
    BY <2>2 DEF Due
  <2>3. CASE last_sent[n] # Never
    <3>1. now - last_sent[n] >= config[n].interval
      BY <1>2, <2>3 DEF Due
    <3>2. now' - last_sent[n] >= config[n].interval
      BY <2>1, <2>3, <3>1
    <3> QED
      BY <3>2 DEF Due
  <2> QED
    BY <2>2, <2>3
<1>3. \A n \in NotificationIds : Due(n, guarded_at)' <=> Due(n, guarded_at)
  BY DEF Due
<1>4. TasksAreDue'
  BY <1>2, <1>3 DEF PipeInv, SamePipe, TasksAreDue, Recurs
<1> QED
  BY <1>1, <1>4 DEF PipeInv

\* A queue that grew by administrator tasks, and by at most one of sub.
LEMMA QueueGrows ==
  ASSUME TypeInv, NEW before \in Seq(Task), queue' \in {before, before \o AdminAlerts},
         NEW n \in NotificationIds
  PROVE  /\ before = queue => Waiting(n)' = Waiting(n)
         /\ \A sub \in transit.todo :
              before = Append(queue, TransitTask(sub)) =>
                Waiting(n)' = IF sub.id = n THEN Waiting(n) \cup {Len(queue) + 1}
                                            ELSE Waiting(n)
<1>0. queue \in Seq(Task) /\ AdminAlerts \in Seq(Task) /\ n # NoId
  BY AdminAlertsType DEF TypeInv, TransitTypeOK, SenderTypeOK
<1>1. ASSUME NEW i \in DOMAIN AdminAlerts
      PROVE  AdminAlerts[i].notification # n
  <2>1. Len(AdminAlerts) = Len(Admins) /\ DOMAIN AdminAlerts = 1..Len(AdminAlerts)
    BY <1>0, AdminAlertsType
  <2>2. AdminAlerts[i] = AdminTask(Admins[i])
    BY <1>1, <2>1 DEF AdminAlerts
  <2> QED
    BY <1>0, <2>2 DEF AdminTask
<1>2. ASSUME NEW b \in Seq(Task)
      PROVE  {i \in DOMAIN (b \o AdminAlerts) : (b \o AdminAlerts)[i].notification = n}
               = {i \in DOMAIN b : b[i].notification = n}
  <2>1. /\ DOMAIN (b \o AdminAlerts) = 1 .. (Len(b) + Len(AdminAlerts))
        /\ DOMAIN b = 1..Len(b) /\ Len(b) \in Nat /\ Len(AdminAlerts) \in Nat
        /\ DOMAIN AdminAlerts = 1..Len(AdminAlerts)
    BY <1>0, ConcatProperties, LenProperties
  <2>2. \A i \in 1 .. (Len(b) + Len(AdminAlerts)) :
          (b \o AdminAlerts)[i] = IF i <= Len(b) THEN b[i] ELSE AdminAlerts[i - Len(b)]
    BY <1>0, ConcatProperties
  <2>3. \A i \in 1 .. (Len(b) + Len(AdminAlerts)) :
          ~(i <= Len(b)) => i - Len(b) \in DOMAIN AdminAlerts
    BY <2>1
  <2> QED
    BY <1>1, <2>1, <2>2, <2>3
<1>3. Waiting(n)' = {i \in DOMAIN before : before[i].notification = n}
  BY <1>2 DEF Waiting
<1>4. ASSUME NEW sub \in transit.todo, before = Append(queue, TransitTask(sub))
      PROVE  Waiting(n)' = IF sub.id = n THEN Waiting(n) \cup {Len(queue) + 1}
                                         ELSE Waiting(n)
  <2>1. /\ DOMAIN before = 1 .. (Len(queue) + 1) /\ DOMAIN queue = 1..Len(queue)
        /\ \A i \in 1..Len(queue) : before[i] = queue[i]
        /\ before[Len(queue) + 1] = TransitTask(sub) /\ Len(queue) \in Nat
    BY <1>0, <1>4, TaskType, AppendProperties, LenProperties
  <2>2. TransitTask(sub).notification = sub.id
    BY DEF TransitTask
  <2> QED
    BY <1>3, <2>1, <2>2 DEF Waiting
<1> QED
  BY <1>3, <1>4 DEF Waiting

\* The run goes on, or ends, and puts nothing of its rows.
LEMMA RunMovesOn ==
  ASSUME SpacedInv, queue' \in {queue, queue \o AdminAlerts},
         UNCHANGED <<aroundRun, pipelineRest, in_flight>>
  PROVE  PipeInv'
<1>1. queue \in Seq(Task)
  BY DEF SpacedInv, TypeInv, TransitTypeOK, SenderTypeOK
<1>2. SamePipe
  BY <1>1, QueueGrows DEF SpacedInv, SamePipe, Holds, Holding, pipelineRest
<1>3. /\ sender'.pc = sender.pc /\ now' = now
      /\ UNCHANGED <<subscription, config, edited, last_sent, guarded_at>>
  BY DEF aroundRun, dbVars, bookVars, pipelineRest
<1> QED
  BY <1>2, <1>3, NumberTypes, PipeFrame DEF SpacedInv

LEMMA RestingRun ==
  ASSUME SpacedInv, transit'.pc \in {"idle", "list", "loop"},
         transit'.listed \in {transit.listed, {}}, transit'.at <= now',
         UNCHANGED <<subscription, config, edited>>
  PROVE  RunInv'
BY DEF SpacedInv, RunInv, RowsAreKnown, HandIsFree

\* continue.
LEMMA LeavingRun ==
  ASSUME SpacedInv, NEW sub \in transit.todo, NEW before, NEW failed,
         Leave(sub, before, failed), UNCHANGED aroundRun
  PROVE  RunInv' /\ queue' \in {before, before \o AdminAlerts}
<1>1. UNCHANGED <<subscription, config, edited>> /\ now' = now
  BY DEF aroundRun, dbVars
<1>2. /\ transit'.pc \in {"idle", "loop"} /\ transit'.listed \in {transit.listed, {}}
      /\ transit'.at <= now'
  <2>1. CASE transit.todo = {sub}
    BY <1>1, <2>1, NumberTypes DEF SpacedInv, Leave, IdleTransit
  <2>2. CASE transit.todo # {sub}
    <3>1. transit' = [transit EXCEPT !.pc = "loop", !.todo = @ \ {sub},
                                     !.sent = {}, !.left = {}, !.failed = failed]
      BY <2>2 DEF Leave
    <3>2. transit \in Transit /\ transit.at <= now
      BY DEF SpacedInv, TypeInv, TransitTypeOK, RunInv
    <3> QED
      BY <1>1, <3>1, <3>2 DEF Transit
  <2> QED
    BY <2>1, <2>2
<1> QED
  BY <1>1, <1>2, RestingRun DEF Leave

\* A step to another point of the same row.
LEMMA SameRow ==
  ASSUME SpacedInv, NEW sub \in transit.todo, InHand(sub), UNCHANGED <<aroundRun, in_flight>>,
         transit'.listed = transit.listed, transit'.todo = transit.todo,
         transit'.at = transit.at,
         transit'.pc \in {"last", "fetch", "use"} /\ Recurring(sub) => sub.id \notin in_flight,
         transit'.pc \in {"fetch", "use"} /\ Recurring(sub) /\ sub.id \notin edited
           => Due(sub.id, now),
         transit'.pc \in {"sadd", "put"} => ~Recurring(sub)
  PROVE  RunInv'
<1>1. UNCHANGED <<subscription, config, edited, last_sent>> /\ now' = now
  BY DEF aroundRun, dbVars, bookVars
<1>2. ASSUME NEW other \in transit.todo, InHand(other)'
      PROVE  other = sub
  <2>1. InHand(other)
    BY <1>2 DEF InHand
  <2> QED
    BY <2>1, OneInHand DEF SpacedInv
<1>3. HandIsFree'
  BY <1>1, <1>2 DEF HandIsFree, Recurring, Due
<1> QED
  BY <1>1, <1>3 DEF SpacedInv, RunInv, RowsAreKnown

LEMMA ConsiderIsSpaced ==
  ASSUME SpacedInv, NEW sub \in transit.todo,
         ConsiderRecurring(sub) \/ ConsiderArrival(sub) \/ LastSent(sub)
  PROVE  PipeInv' /\ RunInv'
<1>0. /\ transit \in Transit /\ transit.at <= now
      /\ InHand(sub) /\ UNCHANGED <<aroundRun, pipelineRest, in_flight>>
  BY DEF SpacedInv, TypeInv, TransitTypeOK, RunInv, ConsiderRecurring, ConsiderArrival, LastSent
<1>1. CASE Leave(sub, queue, transit.failed)
  BY <1>0, <1>1, LeavingRun, RunMovesOn
<1>2. ASSUME UNCHANGED queue, transit'.listed = transit.listed, transit'.todo = transit.todo,
             transit'.at = transit.at,
             transit'.pc \in {"last", "fetch", "use"},
             Recurring(sub) => sub.id \notin in_flight,
             transit'.pc \in {"fetch", "use"} /\ Recurring(sub) /\ sub.id \notin edited
               => Due(sub.id, now)
      PROVE  PipeInv' /\ RunInv'
  BY <1>0, <1>2, RunMovesOn, SameRow
<1>3. CASE ConsiderRecurring(sub) /\ ~Leave(sub, queue, transit.failed)
  BY <1>0, <1>2, <1>3 DEF ConsiderRecurring, Transit
<1>4. CASE ConsiderArrival(sub) /\ ~Leave(sub, queue, transit.failed)
  <2>1. /\ transit' = [transit EXCEPT !.pc = FetchPc(sub),
                                     !.sent = SentOn(sub.id, DateOf(transit.at))]
        /\ UNCHANGED queue /\ ~Recurring(sub)
    BY <1>4 DEF ConsiderArrival
  <2>2. FetchPc(sub) \in {"fetch", "use"}
    BY DEF FetchPc
  <2>3. /\ transit'.listed = transit.listed /\ transit'.todo = transit.todo
        /\ transit'.at = transit.at /\ transit'.pc = FetchPc(sub)
    BY <1>0, <2>1 DEF Transit
  <2> QED
    BY <1>2, <2>1, <2>2, <2>3
<1>5. CASE LastSent(sub) /\ ~Leave(sub, queue, transit.failed)
  <2>1. /\ IntervalElapsed(sub) /\ transit.pc = "last" /\ UNCHANGED queue
        /\ transit' = [transit EXCEPT !.pc = FetchPc(sub)]
    BY <1>5 DEF LastSent
  <2>2. Recurring(sub) => sub.id \notin in_flight
    BY <1>0, <2>1 DEF SpacedInv, RunInv, HandIsFree
  <2>3. sub.id \notin edited => Due(sub.id, now)
    <3> SUFFICES ASSUME sub.id \notin edited, last_sent[sub.id] # Never
                 PROVE  now - last_sent[sub.id] >= config[sub.id].interval
      BY DEF Due
    <3>1. sub.config = config[sub.id] /\ sub.id \in NotificationIds
      BY RowType DEF SpacedInv, RunInv, RowsAreKnown
    <3>2. transit.at - last_sent[sub.id] >= config[sub.id].interval
      BY <2>1, <3>1 DEF IntervalElapsed
    <3>3. /\ transit.at \in Nat /\ now \in Nat /\ last_sent[sub.id] \in Nat
          /\ config[sub.id].interval \in Nat /\ transit.at <= now
      BY <1>0, <3>1, NumberTypes DEF SpacedInv
    <3> QED
      BY <3>2, <3>3
  <2> QED
    BY <1>0, <1>2, <2>1, <2>2, <2>3 DEF FetchPc, Transit
<1> QED
  BY <1>1, <1>3, <1>4, <1>5

LEMMA FetchIsSpaced ==
  ASSUME SpacedInv, NEW sub \in transit.todo, Fetch(sub) \/ FetchFails(sub)
  PROVE  PipeInv' /\ RunInv'
<1>0. transit \in Transit /\ transit.at <= now
  BY DEF SpacedInv, TypeInv, TransitTypeOK, RunInv
<1>1. CASE FetchFails(sub)
  BY <1>1, LeavingRun, RunMovesOn DEF FetchFails
<1>2. CASE Fetch(sub)
  <2>1. /\ InHand(sub) /\ transit.pc = "fetch"
        /\ UNCHANGED <<aroundRun, pipelineRest, in_flight>> /\ UNCHANGED queue
    BY <1>2 DEF Fetch, senderVars, pipelineRest
  <2>2. PICK answer \in Answers :
          transit' = [transit EXCEPT !.pc = "use", !.answers[sub.config.station] = answer]
    BY <1>2 DEF Fetch
  <2>3. /\ transit'.listed = transit.listed /\ transit'.todo = transit.todo
        /\ transit'.at = transit.at /\ transit'.pc = "use"
    BY <1>0, <2>2 DEF Transit
  <2>4. Recurring(sub) =>
          sub.id \notin in_flight /\ (sub.id \notin edited => Due(sub.id, now))
    BY <2>1 DEF SpacedInv, RunInv, HandIsFree
  <2> QED
    BY <2>1, <2>3, <2>4, RunMovesOn, SameRow
<1> QED
  BY <1>1, <1>2

\* The put of a recurring subscription: the claim was free, so there was no
\* task.
LEMMA ReportIsSpaced ==
  ASSUME SpacedInv, NEW sub \in transit.todo, PutRecurring(sub)
  PROVE  PipeInv' /\ RunInv'
<1> DEFINE before == Append(queue, TransitTask(sub))
<1>0. /\ InHand(sub) /\ Recurring(sub) /\ transit.pc = "use"
      /\ in_flight' = in_flight \cup {sub.id}
      /\ Leave(sub, before, transit.failed)
      /\ UNCHANGED <<aroundRun, pipelineRest>>
      /\ sub.id \in NotificationIds /\ before \in Seq(Task) /\ queue \in Seq(Task)
  BY RowType, TaskType DEF PutRecurring, SpacedInv, TypeInv, TransitTypeOK, SenderTypeOK
<1>1. /\ UNCHANGED <<subscription, config, edited, last_sent, guarded_at>>
      /\ now' = now /\ sender' = sender
  BY <1>0 DEF aroundRun, dbVars, bookVars, pipelineRest
<1>2. RunInv' /\ queue' \in {before, before \o AdminAlerts}
  BY <1>0, LeavingRun
<1>3. \A n \in NotificationIds :
        /\ Waiting(n)' = IF sub.id = n THEN Waiting(n) \cup {Len(queue) + 1} ELSE Waiting(n)
        /\ Holds(n)' <=> Holds(n)
  BY <1>0, <1>1, <1>2, QueueGrows DEF SpacedInv, Holds, Holding
<1>4. /\ sub.id \notin in_flight /\ (sub.id \notin edited => Due(sub.id, now))
      /\ subscription[sub.id] # "unused" /\ sub \in transit.listed
  BY <1>0, RowType DEF SpacedInv, RunInv, HandIsFree, RowsAreKnown
<1>5. NoSilencedSubscription' /\ TasksAreKnown'
  BY <1>0, <1>1, <1>3, <1>4
  DEF SpacedInv, TypeInv, TransitTypeOK, SenderTypeOK, PipeInv, NoSilencedSubscription,
      TasksAreKnown, Copied
<1>6. TasksAreSingle'
  <2> SUFFICES ASSUME NEW n \in NotificationIds, Recurs(n)
               PROVE  Single(n)'
    BY <1>1 DEF TasksAreSingle, Recurs
  <2>1. Single(n)
    BY DEF SpacedInv, PipeInv, TasksAreSingle
  <2>2. CASE sub.id = n
    <3>1. Waiting(n) = {} /\ ~Holds(n)
      BY <1>4, <2>1, <2>2 DEF Single, Copied
    <3> QED
      BY <1>0, <1>3, <2>2, <3>1 DEF Single, Copied
  <2>3. CASE sub.id # n
    BY <1>0, <1>3, <2>1, <2>3 DEF Single, Copied
  <2> QED
    BY <2>2, <2>3
<1>7. TasksAreDue'
  BY <1>1, <1>3, <1>4 DEF SpacedInv, PipeInv, TasksAreDue, Recurs, Due
<1> QED
  BY <1>2, <1>5, <1>6, <1>7 DEF PipeInv

\* The steps of an arrival subscription: no task of a recurring one.
LEMMA ArrivalIsSpaced ==
  ASSUME SpacedInv, NEW sub \in transit.todo,
         Filter(sub) \/ Remember(sub) \/ PutArrival(sub)
  PROVE  PipeInv' /\ RunInv'
<1>0. transit \in Transit /\ queue \in Seq(Task)
  BY DEF SpacedInv, TypeInv, TransitTypeOK, SenderTypeOK
<1>1. ASSUME InHand(sub), ~Recurring(sub), UNCHANGED <<aroundRun, in_flight>>,
             NEW pc \in {"sadd", "put"}, NEW left, NEW trains,
             transit' = [transit EXCEPT !.pc = pc, !.left = left, !.sent = trains]
      PROVE  RunInv'
  <2>1. /\ transit'.listed = transit.listed /\ transit'.todo = transit.todo
        /\ transit'.at = transit.at /\ transit'.pc = pc
    BY <1>0, <1>1 DEF Transit
  <2> QED
    BY <1>1, <2>1, SameRow
<1>2. CASE Filter(sub)
  <2>1. /\ InHand(sub) /\ ~Recurring(sub)
        /\ UNCHANGED <<aroundRun, pipelineRest, in_flight>>
    BY <1>2 DEF Filter
  <2>2. CASE Leave(sub, queue, transit.failed)
    BY <2>1, <2>2, LeavingRun, RunMovesOn
  <2>3. CASE ~Leave(sub, queue, transit.failed)
    <3>1. PICK left : queue' = queue /\ transit' = [transit EXCEPT !.pc = "sadd", !.left = left]
      BY <1>2, <2>3 DEF Filter
    <3>2. transit' = [transit EXCEPT !.pc = "sadd", !.left = left, !.sent = transit.sent]
      BY <1>0, <3>1 DEF Transit
    <3> QED
      BY <1>1, <2>1, <3>1, <3>2, RunMovesOn
  <2> QED
    BY <2>2, <2>3
<1>3. CASE Remember(sub)
  <2>1. /\ InHand(sub) /\ transit.pc = "sadd" /\ queue' = queue
        /\ UNCHANGED <<aroundRun, pipelineRest, in_flight>>
    BY <1>3 DEF Remember, senderVars, pipelineRest
  <2>2. ~Recurring(sub)
    BY <2>1 DEF SpacedInv, RunInv, HandIsFree
  <2>3. transit' = [transit EXCEPT !.pc = "put", !.left = transit.left, !.sent = transit.sent]
    BY <1>0, <1>3 DEF Remember, Transit
  <2> QED
    BY <1>1, <2>1, <2>2, <2>3, RunMovesOn
<1>4. CASE PutArrival(sub)
  <2> DEFINE before == Append(queue, TransitTask(sub))
  <2>0. /\ InHand(sub) /\ transit.pc = "put"
        /\ UNCHANGED <<aroundRun, pipelineRest, in_flight>>
        /\ sub.id \in NotificationIds /\ before \in Seq(Task)
    BY <1>4, RowType, TaskType DEF PutArrival, SpacedInv
  <2>1. ~Recurring(sub) /\ sub \in transit.listed
    BY <2>0, RowType DEF SpacedInv, RunInv, HandIsFree
  <2>2. RunInv' /\ queue' \in {before, before \o AdminAlerts}
    <3>1. PICK i \in transit.left :
            IF transit.left = {i}
              THEN Leave(sub, before, transit.failed)
              ELSE /\ transit' = [transit EXCEPT !.pc = "sadd", !.left = @ \ {i},
                                                 !.sent = @ \cup {Train(sub, i)}]
                   /\ queue' = before
      BY <1>4 DEF PutArrival
    <3>2. CASE Leave(sub, before, transit.failed)
      BY <2>0, <3>2, LeavingRun
    <3>3. CASE ~Leave(sub, before, transit.failed)
      <4>1. transit' = [transit EXCEPT !.pc = "sadd", !.left = transit.left \ {i},
                                       !.sent = transit.sent \cup {Train(sub, i)}]
        BY <1>0, <3>1, <3>3 DEF Transit
      <4> QED
        BY <1>1, <2>0, <2>1, <3>1, <3>3, <4>1
    <3> QED
      BY <3>2, <3>3
  <2>3. /\ UNCHANGED <<subscription, config, edited, last_sent, guarded_at>>
        /\ now' = now /\ sender' = sender
    BY <2>0 DEF aroundRun, dbVars, bookVars, pipelineRest
  <2>4. \A n \in NotificationIds :
          /\ Waiting(n)' = IF sub.id = n THEN Waiting(n) \cup {Len(queue) + 1} ELSE Waiting(n)
          /\ Holds(n)' <=> Holds(n)
    BY <2>0, <2>2, <2>3, QueueGrows DEF SpacedInv, Holds, Holding
  <2>5. ~Recurs(sub.id) /\ subscription[sub.id] # "unused"
    BY <2>1 DEF SpacedInv, RunInv, RowsAreKnown, Recurs, Recurring
  <2>6. NoSilencedSubscription' /\ TasksAreKnown'
    BY <2>0, <2>3, <2>4, <2>5
    DEF SpacedInv, TypeInv, TransitTypeOK, SenderTypeOK, PipeInv, NoSilencedSubscription,
        TasksAreKnown, Copied
  <2>7. TasksAreSingle'
    <3> SUFFICES ASSUME NEW n \in NotificationIds, Recurs(n)'
                 PROVE  Single(n)'
      BY DEF TasksAreSingle
    <3>1. Recurs(n) /\ n # sub.id
      BY <2>3, <2>5 DEF Recurs
    <3>2. Waiting(n)' = Waiting(n) /\ (Holds(n)' <=> Holds(n))
      BY <2>4, <3>1
    <3>3. Single(n)
      BY <3>1 DEF SpacedInv, PipeInv, TasksAreSingle
    <3> QED
      BY <2>0, <3>2, <3>3 DEF Single, Copied
  <2>8. TasksAreDue'
    BY <2>3, <2>4, <2>5 DEF SpacedInv, PipeInv, TasksAreDue, Recurs, Due
  <2> QED
    BY <2>2, <2>6, <2>7, <2>8 DEF PipeInv
<1> QED
  BY <1>2, <1>3, <1>4

\* What a step outside the run may do to the rows of the run.
LEMMA RunFrame ==
  ASSUME SpacedInv, UNCHANGED transit, in_flight' \subseteq in_flight,
         now' \in Nat, now <= now', edited \subseteq edited',
         \A n \in NotificationIds : subscription[n] # "unused" =>
           subscription'[n] # "unused" /\ (n \notin edited' => config'[n] = config[n]),
         \A n \in NotificationIds : Recurs(n) /\ n \notin in_flight =>
           last_sent'[n] \in {last_sent[n], Never}
  PROVE  RunInv'
<1>1. /\ transit.at \in Nat /\ now \in Nat /\ transit.at <= now
      /\ RowsAreKnown /\ HandIsFree
  BY NumberTypes DEF SpacedInv, RunInv
<1>2. \A sub \in transit.listed : sub.id \in NotificationIds
  BY DEF SpacedInv, TypeInv, TransitTypeOK, Transit, Sub
<1>3. RowsAreKnown'
  BY <1>1, <1>2 DEF RowsAreKnown
<1>4. HandIsFree'
  <2> SUFFICES ASSUME NEW sub \in transit.todo, InHand(sub)
               PROVE  /\ transit.pc \in {"last", "fetch", "use"} /\ Recurring(sub)
                           => sub.id \notin in_flight'
                      /\ transit.pc \in {"fetch", "use"} /\ Recurring(sub) /\ sub.id \notin edited'
                           => Due(sub.id, now)'
                      /\ transit.pc \in {"sadd", "put"} => ~Recurring(sub)
    BY DEF HandIsFree, InHand, Recurring
  <2>1. ASSUME transit.pc \in {"fetch", "use"}, Recurring(sub), sub.id \notin edited'
        PROVE  Due(sub.id, now)'
    <3>1. /\ Due(sub.id, now) /\ sub.id \notin in_flight /\ sub.id \notin edited
          /\ sub.id \in NotificationIds /\ sub \in transit.listed
      BY <1>1, <2>1, RowType DEF HandIsFree, SpacedInv
    <3>2. /\ config'[sub.id] = config[sub.id] /\ Recurs(sub.id)
      BY <1>1, <2>1, <3>1 DEF RowsAreKnown, Recurs, Recurring
    <3>3. /\ last_sent'[sub.id] \in {last_sent[sub.id], Never}
          /\ last_sent[sub.id] \in Nat \cup {Never} /\ config[sub.id].interval \in Nat
      BY <3>1, <3>2, NumberTypes DEF SpacedInv
    <3>4. CASE last_sent'[sub.id] = Never
      BY <3>4 DEF Due
    <3>5. CASE last_sent'[sub.id] # Never
      <4>1. now - last_sent[sub.id] >= config[sub.id].interval
        BY <3>1, <3>3, <3>5 DEF Due
      <4>2. now' - last_sent'[sub.id] >= config'[sub.id].interval
        BY <1>1, <3>2, <3>3, <3>5, <4>1
      <4> QED
        BY <4>2 DEF Due
    <3> QED
      BY <3>4, <3>5
  <2> QED
    BY <1>1, <2>1 DEF HandIsFree
<1> QED
  BY <1>1, <1>3, <1>4 DEF RunInv

LEMMA ListIsSpaced ==
  ASSUME SpacedInv, List \/ RunRaises \/ (\E date \in Dates : Expire(date))
  PROVE  PipeInv' /\ RunInv'
<1>0. /\ transit \in Transit /\ transit.at <= now /\ now \in Nat
      /\ config \in [NotificationIds -> Configs]
  BY NumberTypes DEF SpacedInv, TypeInv, TransitTypeOK, RunInv
<1>1. /\ UNCHANGED <<dbVars, now, config, bookVars, edited>>
      /\ UNCHANGED <<queue, sender, immediate_inflight, delivered, in_flight>>
  BY DEF List, RunRaises, Expire, aroundRun, senderVars
<1>3. UNCHANGED <<subscription, config, edited, last_sent, guarded_at>> /\ now' = now
  BY <1>1 DEF dbVars, bookVars
<1>2. PipeInv'
  <2>1. SamePipe
    BY <1>1 DEF SamePipe, Waiting, Holds, Holding
  <2> QED
    BY <1>0, <1>1, <1>3, <2>1, PipeFrame DEF SpacedInv
<1>4. CASE List
  <2> DEFINE subs == {[id |-> n, config |-> config[n]] : n \in
                       {m \in NotificationIds : Listed(m)}}
  <2>1. CASE subs = {}
    <3>1. transit' = IdleTransit("ended")
      BY <1>4, <2>1 DEF List
    <3> QED
      BY <1>0, <1>2, <1>3, <3>1, RestingRun DEF IdleTransit
  <2>2. CASE subs # {}
    <3>1. transit' = [transit EXCEPT !.pc = "loop", !.listed = subs, !.todo = subs]
      BY <1>4, <2>2 DEF List
    <3>2. /\ transit'.pc = "loop" /\ transit'.listed = subs /\ transit'.at <= now'
      BY <1>0, <1>3, <3>1 DEF Transit
    <3>3. RowsAreKnown' /\ HandIsFree'
      BY <1>0, <1>3, <3>2 DEF RowsAreKnown, HandIsFree, Listed
    <3> QED
      BY <1>2, <3>2, <3>3 DEF RunInv
  <2> QED
    BY <2>1, <2>2
<1>5. CASE RunRaises
  <2>1. transit' = IdleTransit("cut")
    BY <1>5 DEF RunRaises
  <2> QED
    BY <1>0, <1>2, <1>3, <2>1, RestingRun DEF IdleTransit
<1>6. ASSUME NEW date \in Dates, Expire(date)
      PROVE  RunInv'
  <2>1. transit' = transit
    BY <1>6 DEF Expire
  <2> QED
    BY <1>0, <1>1, <1>3, <2>1, RunFrame
<1> QED
  BY <1>2, <1>4, <1>5, <1>6

LEMMA TickIsSpaced ==
  ASSUME SpacedInv, Advance \/ Tick
  PROVE  PipeInv' /\ RunInv'
<1>0. /\ UNCHANGED <<dbVars, senderVars, config, bookVars, edited>>
      /\ now' \in Nat /\ now <= now' /\ now \in Nat
  <2>1. now \in Nat
    BY NumberTypes DEF SpacedInv
  <2>2. CASE Advance
    BY <2>1, <2>2 DEF Advance
  <2>3. CASE Tick
    BY <2>1, <2>3 DEF Tick
  <2> QED
    BY <2>1, <2>2, <2>3
<1>1. PipeInv'
  <2>1. SamePipe
    BY <1>0 DEF SamePipe, Waiting, Holds, Holding, senderVars
  <2> QED
    BY <1>0, <2>1, PipeFrame DEF SpacedInv, dbVars, senderVars, bookVars
<1>2. CASE transit' = transit
  <2>1. UNCHANGED <<subscription, config, edited, last_sent, in_flight>>
    BY <1>0 DEF senderVars, dbVars, bookVars
  <2> QED
    BY <1>0, <1>1, <1>2, <2>1, RunFrame
<1>3. CASE transit' # transit
  <2>1. transit' = [IdleTransit("ended") EXCEPT !.pc = "list", !.at = now] /\ now' = now
    BY <1>3 DEF Advance, Tick, runVars
  <2> QED
    BY <1>0, <1>1, <2>1, RestingRun DEF IdleTransit, dbVars
<1> QED
  BY <1>1, <1>2, <1>3

\* The head of the queue becomes the task in hand.
LEMMA GetIsSpaced ==
  ASSUME SpacedInv, Get, UNCHANGED <<config, bookVars, edited, now>>
  PROVE  PipeInv'
<1>0. /\ queue \in Seq(Task) /\ queue # <<>> /\ in_flight \subseteq NotificationIds
      /\ sender' = [pc      |-> IF IsAdminTask(Head(queue)) THEN "send" ELSE "guard",
                    task    |-> Head(queue), attempt |-> 1, result  |-> "FAILED"]
      /\ queue' = Tail(queue) /\ in_flight' = in_flight /\ sender.pc = "get"
      /\ UNCHANGED <<subscription, config, edited, last_sent, guarded_at, now>>
  BY DEF SpacedInv, TypeInv, TransitTypeOK, SenderTypeOK, Get, dbVars, bookVars
<1>1. /\ Len(queue) \in Nat /\ Len(queue) > 0 /\ Head(queue) = queue[1]
      /\ DOMAIN queue = 1..Len(queue) /\ DOMAIN Tail(queue) = 1 .. (Len(queue) - 1)
      /\ \A i \in 1 .. (Len(queue) - 1) : Tail(queue)[i] = queue[i + 1]
  BY <1>0, HeadTailProperties, LenProperties, EmptySeq
<1>2. ASSUME NEW n \in NotificationIds
      PROVE  /\ ~Holds(n)
             /\ Holds(n)' <=> 1 \in Waiting(n)
             /\ \A i \in Nat : i \in Waiting(n)' <=> i # 0 /\ i + 1 \in Waiting(n)
             /\ Holds(n)' => sender'.pc = "guard"
             /\ Waiting(n) \in SUBSET Nat /\ Waiting(n)' \in SUBSET Nat
             /\ 0 \notin Waiting(n)
  <2>1. ~Holds(n) /\ (Holds(n)' <=> queue[1].notification = n)
    BY <1>0, <1>1 DEF Holds, Holding
  <2>2. Holds(n)' => sender'.pc = "guard"
    BY <1>0, <1>1, <2>1 DEF IsAdminTask
  <2>3. \A i \in Nat : i \in Waiting(n)' <=> i # 0 /\ i + 1 \in Waiting(n)
    BY <1>0, <1>1 DEF Waiting
  <2> QED
    BY <1>0, <1>1, <2>1, <2>2, <2>3 DEF Waiting
<1>3. ASSUME NEW n \in NotificationIds
      PROVE  Copied(n) <=> Copied(n)'
  <2>1. ASSUME NEW i \in Waiting(n)
        PROVE  Copied(n)'
    <3>1. i \in Nat /\ i # 0
      BY <1>2
    <3>2. CASE i = 1
      BY <1>2, <2>1, <3>2 DEF Copied
    <3>3. CASE i # 1
      <4>1. i - 1 \in Nat /\ i - 1 # 0 /\ (i - 1) + 1 = i
        BY <3>1, <3>3
      <4>2. i - 1 \in Waiting(n)'
        BY <1>2, <2>1, <4>1
      <4> QED
        BY <4>2 DEF Copied
    <3> QED
      BY <3>2, <3>3
  <2>2. ASSUME NEW i \in Waiting(n)'
        PROVE  Copied(n)
    BY <1>2, <2>2 DEF Copied
  <2> QED
    BY <1>2, <2>1, <2>2 DEF Copied
<1>4. NoSilencedSubscription' /\ TasksAreKnown'
  BY <1>0, <1>3 DEF SpacedInv, PipeInv, NoSilencedSubscription, TasksAreKnown, Copied
<1>5. TasksAreSingle'
  <2> SUFFICES ASSUME NEW n \in NotificationIds, Recurs(n)
               PROVE  Single(n)'
    BY <1>0 DEF TasksAreSingle, Recurs
  <2>1. Single(n)
    BY DEF SpacedInv, PipeInv, TasksAreSingle
  <2>2. ASSUME NEW i \in Waiting(n)', NEW j \in Waiting(n)'
        PROVE  i = j
    <3>1. i \in Nat /\ j \in Nat /\ i + 1 = j + 1
      BY <1>2, <2>1, <2>2 DEF Single
    <3> QED
      BY <3>1
  <2>3. ASSUME NEW i \in Waiting(n)', Holds(n)'
        PROVE  FALSE
    <3>1. i \in Nat /\ i # 0 /\ i + 1 = 1
      BY <1>2, <2>1, <2>3 DEF Single
    <3> QED
      BY <3>1
  <2> QED
    BY <1>0, <1>3, <2>1, <2>2, <2>3 DEF Single
<1>6. TasksAreDue'
  BY <1>0, <1>2, <1>3 DEF SpacedInv, PipeInv, TasksAreDue, Recurs, Due, Copied
<1> QED
  BY <1>4, <1>5, <1>6 DEF PipeInv

\* The end of a task takes its claim back.
LEMMA ReleaseIsSpaced ==
  ASSUME SpacedInv, Release, UNCHANGED <<config, bookVars, edited, now>>
  PROVE  PipeInv'
<1> DEFINE done == sender.task.notification
<1>0. /\ in_flight \subseteq NotificationIds /\ in_flight' = in_flight \ {done}
      /\ sender.pc = "finally" /\ sender'.pc = "get"
      /\ UNCHANGED <<queue, subscription, config, edited, last_sent, guarded_at, now>>
  BY DEF SpacedInv, TypeInv, TransitTypeOK, SenderTypeOK, Release, IdleSender, dbVars, bookVars
<1>1. \A n \in NotificationIds : /\ Waiting(n)' = Waiting(n) /\ ~Holds(n)'
                                 /\ Holds(n) <=> n = done
  BY <1>0 DEF Waiting, Holds, Holding
<1>2. NoSilencedSubscription' /\ TasksAreKnown'
  BY <1>0, <1>1 DEF SpacedInv, PipeInv, NoSilencedSubscription, TasksAreKnown, Copied
<1>3. TasksAreSingle'
  <2>1. \A n \in NotificationIds : Recurs(n)' <=> Recurs(n)
    BY <1>0 DEF Recurs
  <2>2. ASSUME NEW n \in NotificationIds, Single(n)
        PROVE  Single(n)'
    BY <1>0, <1>1, <2>2 DEF Single, Copied
  <2> QED
    BY <2>1, <2>2 DEF SpacedInv, PipeInv, TasksAreSingle
<1>4. TasksAreDue'
  BY <1>0, <1>1 DEF SpacedInv, PipeInv, TasksAreDue, Recurs, Due
<1> QED
  BY <1>2, <1>3, <1>4 DEF PipeInv

\* The steps in between keep the task, and the newest report changes only
\* with the row of a SUCCESS.
LEMMA SendingIsSpaced ==
  ASSUME SpacedInv, SenderRuns, ~Get, ~Release
  PROVE  /\ PipeInv'
         /\ \A n \in NotificationIds :
              last_sent'[n] # last_sent[n] =>
                Holds(n) /\ sender.pc = "record" /\ last_sent'[n] = guarded_at
<1>0. /\ UNCHANGED <<queue, in_flight, subscription, config, edited, now>>
      /\ in_flight \subseteq NotificationIds
      /\ last_sent \in [NotificationIds -> Instants \cup {Never}]
  BY DEF SpacedInv, TypeInv, TransitTypeOK, SenderTypeOK, SenderRuns, Guard, RowStored,
         OtherSenderStep, Ready, CheckUser, SendSucceeds, SendFails, SendRaises, Record,
         RecordRejected, DatabaseRaises, InsertResult, dbVars
<1>1. /\ Holding' <=> Holding
      /\ Holding => sender'.task = sender.task
      /\ \/ sender.pc = "guard" /\ guarded_at' = now /\ last_sent' = last_sent
         \/ /\ sender.pc = "guard" /\ sender'.pc = "finally"
            /\ UNCHANGED <<last_sent, guarded_at>>
         \/ /\ sender.pc # "guard" /\ guarded_at' = guarded_at
            /\ sender.pc \in {"send", "record"} \/ sender'.pc \notin {"guard", "send", "record"}
            /\ sender'.pc # "guard"
            /\ last_sent' # last_sent =>
                 /\ sender.pc = "record" /\ sender'.pc = "finally"
                 /\ sender.task.notification \in NotificationIds
                 /\ last_sent' = [last_sent EXCEPT ![sender.task.notification] = guarded_at]
  <2>0. sender \in SenderState /\ (Holding => sender.task \in Task)
    BY DEF SpacedInv, TypeInv, TransitTypeOK, SenderTypeOK
  <2> USE <2>0 DEF SenderState, Holding, bookVars
  <2>1. CASE Guard
    BY <2>1 DEF Guard, CheckUser
  <2>2. CASE RowStored
    BY <2>2 DEF RowStored, Record, Task
  <2>3. CASE Ready
    BY <2>3 DEF SenderRuns, Guard, RowStored, OtherSenderStep, Ready, IdleSender, CheckUser, Record
  <2>4. CASE OtherSenderStep /\ (SendSucceeds \/ SendFails \/ SendRaises)
    BY <2>4 DEF OtherSenderStep, SendSucceeds, SendFails, SendRaises
  <2>5. CASE OtherSenderStep /\ (RecordRejected \/ DatabaseRaises)
    BY <2>5 DEF OtherSenderStep, RecordRejected, DatabaseRaises
  <2> QED
    BY <2>1, <2>2, <2>3, <2>4, <2>5 DEF SenderRuns, OtherSenderStep
<1>2. \A n \in NotificationIds : Waiting(n)' = Waiting(n) /\ (Holds(n)' <=> Holds(n))
  BY <1>0, <1>1 DEF Waiting, Holds
<1>3. \A n \in NotificationIds :
        last_sent'[n] # last_sent[n] =>
          /\ Holds(n) /\ sender.pc = "record" /\ sender'.pc = "finally"
          /\ last_sent'[n] = guarded_at
  BY <1>0, <1>1 DEF Holds, Holding
<1>4. NoSilencedSubscription' /\ TasksAreKnown' /\ TasksAreSingle'
  BY <1>0, <1>2
  DEF SpacedInv, PipeInv, NoSilencedSubscription, TasksAreKnown, TasksAreSingle, Copied,
      Recurs, Single
<1>5. TasksAreDue'
  <2> SUFFICES ASSUME NEW n \in NotificationIds, Recurs(n)
               PROVE  /\ Waiting(n) # {} \/ (Holds(n) /\ sender'.pc = "guard") => Due(n, now)'
                      /\ Holds(n) /\ sender'.pc \in {"send", "record"} => Due(n, guarded_at)'
    BY <1>0, <1>2 DEF TasksAreDue, Recurs
  <2>1. /\ Waiting(n) # {} \/ (Holds(n) /\ sender.pc = "guard") => Due(n, now)
        /\ Holds(n) /\ sender.pc \in {"send", "record"} => Due(n, guarded_at)
        /\ Holds(n) => Waiting(n) = {}
    BY DEF SpacedInv, PipeInv, TasksAreDue, TasksAreSingle, Single
  <2>2. CASE last_sent'[n] = last_sent[n]
    BY <1>0, <1>1, <2>1, <2>2 DEF Due
  <2>3. CASE last_sent'[n] # last_sent[n]
    BY <1>3, <2>1, <2>3
  <2> QED
    BY <2>2, <2>3
<1> QED
  BY <1>3, <1>4, <1>5 DEF PipeInv

\* Users and the accounts: rows come under new ids, an edit is marked, and a
\* row that goes takes its reports along.
LEMMA OutsideFrame ==
  ASSUME SpacedInv, UNCHANGED <<senderVars, transit, guarded_at, now>>, edited \subseteq edited',
         \A n \in NotificationIds : subscription[n] # "unused" =>
           subscription'[n] # "unused" /\ (n \notin edited' => config'[n] = config[n]),
         \A n \in NotificationIds : last_sent'[n] \in {last_sent[n], Never}
  PROVE  PipeInv' /\ RunInv'
<1>0. /\ in_flight' = in_flight /\ in_flight \subseteq NotificationIds /\ sender' = sender
      /\ \A n \in NotificationIds : /\ Waiting(n)' = Waiting(n)
                                    /\ (Holds(n)' <=> Holds(n)) /\ (Copied(n)' <=> Copied(n))
  BY DEF SpacedInv, TypeInv, TransitTypeOK, SenderTypeOK, senderVars, Waiting, Holds, Holding,
         Copied
<1>1. RunInv'
  BY <1>0, NumberTypes, RunFrame DEF SpacedInv
<1>2. NoSilencedSubscription' /\ TasksAreKnown'
  BY <1>0 DEF SpacedInv, PipeInv, NoSilencedSubscription, TasksAreKnown, Copied
<1>3. ASSUME NEW n \in NotificationIds, ~Copied(n)
      PROVE  n \notin in_flight /\ Waiting(n) = {} /\ ~Holds(n)
  BY <1>3 DEF SpacedInv, PipeInv, NoSilencedSubscription, Copied
<1>4. ASSUME NEW n \in NotificationIds, Copied(n), Recurs(n)'
      PROVE  Recurs(n) /\ config'[n] = config[n]
  BY <1>4 DEF SpacedInv, PipeInv, TasksAreKnown, Recurs
<1>5. TasksAreSingle'
  BY <1>0, <1>3, <1>4 DEF SpacedInv, PipeInv, TasksAreSingle, Single, Copied
<1>6. TasksAreDue'
  <2> SUFFICES ASSUME NEW n \in NotificationIds, Recurs(n)', Copied(n)
               PROVE  /\ Waiting(n) # {} \/ (Holds(n) /\ sender.pc = "guard") => Due(n, now)'
                      /\ Holds(n) /\ sender.pc \in {"send", "record"} => Due(n, guarded_at)'
    BY <1>0 DEF TasksAreDue, Copied
  <2>1. Recurs(n) /\ config'[n] = config[n]
    BY <1>4
  <2>2. /\ Due(n, now) => Due(n, now)'
        /\ Due(n, guarded_at) => Due(n, guarded_at)'
    BY <2>1 DEF Due
  <2> QED
    BY <2>1, <2>2 DEF SpacedInv, PipeInv, TasksAreDue
<1> QED
  BY <1>1, <1>2, <1>5, <1>6 DEF PipeInv

LEMMA OutsideIsSpaced ==
  ASSUME SpacedInv, OutsideStep
  PROVE  PipeInv' /\ RunInv'
<1>0. /\ subscription \in
           [NotificationIds -> {"unused", "enabled", "disabled", "deleted"}]
      /\ config \in [NotificationIds -> Configs]
      /\ in_flight \subseteq NotificationIds /\ now \in Nat /\ transit.at \in Nat
      /\ last_sent \in [NotificationIds -> Instants \cup {Never}]
  BY NumberTypes DEF SpacedInv, TypeInv, TransitTypeOK, DbTypeOK, SenderTypeOK
<1>1. CASE SenderRuns
  <2>1. UNCHANGED <<transit, now, config, edited>>
    BY <1>1 DEF SenderRuns, runVars
  <2>2. PipeInv' /\ in_flight' \subseteq in_flight /\ subscription' = subscription
    <3>1. CASE Get
      BY <1>1, <2>1, <3>1, GetIsSpaced
      DEF SenderRuns, Guard, RowStored, OtherSenderStep, CheckUser, Record, Get, bookVars, dbVars
    <3>2. CASE Release
      BY <1>1, <2>1, <3>2, ReleaseIsSpaced
      DEF SenderRuns, Guard, RowStored, OtherSenderStep, CheckUser, Record, Release, bookVars,
          dbVars
    <3>3. CASE ~Get /\ ~Release
      <4>1. UNCHANGED <<in_flight, subscription>>
        BY <1>1, <3>3
        DEF SenderRuns, Guard, RowStored, OtherSenderStep, Ready, CheckUser, SendSucceeds,
            SendFails, SendRaises, Record, RecordRejected, DatabaseRaises, InsertResult, dbVars
      <4> QED
        BY <1>1, <3>3, <4>1, SendingIsSpaced
    <3> QED
      BY <3>1, <3>2, <3>3
  <2>3. ASSUME NEW n \in NotificationIds, Recurs(n), n \notin in_flight
        PROVE  last_sent'[n] = last_sent[n]
    <3>1. ~Holds(n)
      BY <2>3 DEF SpacedInv, PipeInv, TasksAreSingle, Single, Copied
    <3>2. CASE Get \/ Release
      BY <1>1, <3>2
      DEF SenderRuns, Guard, RowStored, OtherSenderStep, CheckUser, Record, Get, Release, bookVars
    <3>3. CASE ~Get /\ ~Release
      BY <1>1, <3>1, <3>3, SendingIsSpaced
    <3> QED
      BY <3>2, <3>3
  <2>4. RunInv'
    BY <1>0, <2>1, <2>2, <2>3, RunFrame
  <2> QED
    BY <2>2, <2>4
<1>2. CASE Restart
  <2>1. /\ queue' = <<>> /\ in_flight' = {} /\ sender'.pc = "starting"
        /\ transit' = IdleTransit("cut")
        /\ UNCHANGED <<subscription, config, edited, now>>
    BY <1>2 DEF Restart, SenderLost, IdleSender, dbVars
  <2>2. \A n \in NotificationIds : Waiting(n)' = {} /\ ~Holds(n)'
    BY <2>1 DEF Waiting, Holds, Holding
  <2>3. PipeInv'
    BY <2>1, <2>2 DEF PipeInv, NoSilencedSubscription, TasksAreKnown, TasksAreSingle, Single,
                      Copied, TasksAreDue
  <2>4. RunInv'
    BY <1>0, <2>1, RestingRun DEF IdleTransit
  <2> QED
    BY <2>3, <2>4
<1>3. ASSUME NEW n \in NotificationIds, NEW c \in Configs, Subscribe(n, c)
      PROVE  PipeInv' /\ RunInv'
  <2>1. /\ subscription[n] = "unused" /\ config' = [config EXCEPT ![n] = c]
        /\ \E flag : subscription' = [subscription EXCEPT ![n] = flag]
        /\ UNCHANGED <<senderVars, transit, guarded_at, now, edited, last_sent>>
    BY <1>3 DEF Subscribe, CreateSubscription, runVars, bookVars
  <2> QED
    BY <1>0, <2>1, OutsideFrame
<1>4. ASSUME NEW n \in NotificationIds, NEW c \in Configs,
             NEW flag \in {"enabled", "disabled"}, Edit(n, flag, c)
      PROVE  PipeInv' /\ RunInv'
  <2>1. /\ config' = [config EXCEPT ![n] = c] /\ edited' = edited \cup {n}
        /\ subscription' = [subscription EXCEPT ![n] = flag]
        /\ UNCHANGED <<senderVars, transit, guarded_at, now, last_sent>>
    BY <1>4 DEF Edit, runVars, bookVars
  <2> QED
    BY <1>0, <2>1, OutsideFrame
<1>5. ASSUME UNCHANGED <<senderVars, now, runVars, config, guarded_at, edited>>, Forgotten,
             \A n \in NotificationIds : subscription'[n] \in {subscription[n], "deleted"}
      PROVE  PipeInv' /\ RunInv'
  <2>1. \A n \in NotificationIds : last_sent'[n] \in {last_sent[n], Never}
    BY <1>5 DEF Forgotten
  <2> QED
    BY <1>0, <1>5, <2>1, OutsideFrame DEF runVars
<1>6. ASSUME NEW n \in NotificationIds, Unsubscribe(n)
      PROVE  PipeInv' /\ RunInv'
  BY <1>0, <1>5, <1>6 DEF Unsubscribe, RemoveSubscription
<1>7. ASSUME NEW u \in Users, Account(u)
      PROVE  PipeInv' /\ RunInv'
  <2>1. \A n \in NotificationIds : subscription'[n] \in {subscription[n], "deleted"}
    BY <1>0, <1>7 DEF Account, EraseHistory, CommitDeletion, Relogin
  <2> QED
    BY <1>5, <1>7, <2>1 DEF Account
<1> QED
  BY <1>1, <1>2, <1>3, <1>4, <1>6, <1>7 DEF OutsideStep

LEMMA SpacedInitially == Init => SpacedInv
<1> SUFFICES ASSUME Init PROVE SpacedInv
  OBVIOUS
<1>1. \A n \in NotificationIds : Waiting(n) = {} /\ ~Holds(n)
  BY DEF Init, SenderInit, IdleSender, Waiting, Holds, Holding
<1>2. PipeInv
  BY <1>1 DEF Init, SenderInit, PipeInv, NoSilencedSubscription, TasksAreKnown,
              TasksAreSingle, Single, Copied, TasksAreDue
<1>3. RunInv
  BY DEF Init, IdleTransit, RunInv, RowsAreKnown, HandIsFree
<1> QED
  BY <1>2, <1>3, TypeInitially DEF SpacedInv

LEMMA SpacedStep == SpacedInv /\ [Next]_vars => SpacedInv'
<1> SUFFICES ASSUME SpacedInv, [Next]_vars
             PROVE  PipeInv' /\ RunInv'
  BY TypeStep DEF SpacedInv
<1>1. CASE Advance \/ Tick
  BY <1>1, TickIsSpaced
<1>2. CASE List \/ RunRaises \/ (\E date \in Dates : Expire(date))
  BY <1>2, ListIsSpaced
<1>3. ASSUME NEW sub \in transit.todo,
             \/ ConsiderRecurring(sub) \/ ConsiderArrival(sub) \/ LastSent(sub)
             \/ Fetch(sub) \/ FetchFails(sub)
             \/ PutRecurring(sub)
             \/ Filter(sub) \/ Remember(sub) \/ PutArrival(sub)
      PROVE  PipeInv' /\ RunInv'
  BY <1>3, ConsiderIsSpaced, FetchIsSpaced, ReportIsSpaced, ArrivalIsSpaced
<1>4. CASE OutsideStep
  BY <1>4, OutsideIsSpaced
<1>5. CASE UNCHANGED vars
  <2>1. /\ UNCHANGED <<senderVars, transit, guarded_at, now>> /\ edited' = edited
        /\ subscription' = subscription /\ config' = config /\ last_sent' = last_sent
    BY <1>5 DEF vars, runVars, bookVars, dbVars
  <2> QED
    BY <2>1, OutsideFrame
<1> QED
  BY <1>1, <1>2, <1>3, <1>4, <1>5 DEF Next, TransitStep, OutsideStep

LEMMA SpacedInvariant == Spec => []SpacedInv
BY SpacedInitially, SpacedStep, PTL DEF Spec

\* The claims of F-07 never outlive their tasks, whatever fails and whatever
\* users change: no subscription falls silent until the bot restarts.
THEOREM ClaimsEnd == Spec => []NoSilencedSubscription
<1>1. SpacedInv => NoSilencedSubscription
  BY DEF SpacedInv, PipeInv
<1> QED
  BY <1>1, SpacedInvariant, PTL

\* A recurring subscription has at most one report in the pipeline, although
\* its claim is read two awaits before it is made.
THEOREM OneReport == Spec => []OneReportAtATime
<1>1. SpacedInv => OneReportAtATime
  <2> SUFFICES ASSUME SpacedInv, NEW n \in NotificationIds \ edited,
                      config[n].mode = "recurring"
               PROVE  Copies(n) <= 1 /\ (n \in in_flight <=> Copies(n) = 1)
    BY DEF OneReportAtATime
  <2>1. Single(n)
    BY DEF SpacedInv, PipeInv, TasksAreSingle, Recurs
  <2>2. CASE Waiting(n) = {}
    <3>1. Cardinality(Waiting(n)) = 0
      BY <2>2, FS_EmptySet
    <3> QED
      BY <2>1, <2>2, <3>1 DEF Single, Copied, Copies
  <2>3. CASE Waiting(n) # {}
    <3>1. PICK i \in Waiting(n) : Waiting(n) = {i}
      BY <2>1, <2>3 DEF Single
    <3>2. Cardinality(Waiting(n)) = 1
      BY <3>1, FS_Singleton
    <3> QED
      BY <2>1, <2>3, <3>2 DEF Single, Copied, Copies
  <2> QED
    BY <2>2, <2>3
<1> QED
  BY <1>1, SpacedInvariant, PTL

\* The interval of F-07, for every interval and every schedule of job, sender
\* and users: two delivered reports of a subscription that nobody edited are at
\* least its interval apart.
THEOREM IntervalKept == Spec => ReportsSpaced
<1> DEFINE Apart(n) == /\ config[n].mode = "recurring"
                       /\ last_sent[n] # Never
                       /\ last_sent'[n] \notin {last_sent[n], Never}
                       => last_sent'[n] - last_sent[n] >= config[n].interval
           Step == \A n \in NotificationIds \ edited : Apart(n)
<1>1. SpacedInv /\ [Next]_vars => [Step]_vars
  <2> SUFFICES ASSUME SpacedInv, Next, NEW n \in NotificationIds \ edited,
                      config[n].mode = "recurring", last_sent[n] # Never,
                      last_sent'[n] \notin {last_sent[n], Never}
               PROVE  last_sent'[n] - last_sent[n] >= config[n].interval
    OBVIOUS
  <2>1. SenderRuns
    <3>1. CASE Advance \/ Tick \/ List \/ RunRaises \/ (\E date \in Dates : Expire(date))
      BY <3>1 DEF Advance, Tick, List, RunRaises, Expire, aroundRun, bookVars
    <3>2. ASSUME NEW sub \in transit.todo,
                 \/ ConsiderRecurring(sub) \/ ConsiderArrival(sub) \/ LastSent(sub)
                 \/ Fetch(sub) \/ FetchFails(sub)
                 \/ PutRecurring(sub)
                 \/ Filter(sub) \/ Remember(sub) \/ PutArrival(sub)
          PROVE  last_sent' = last_sent
      BY <3>2 DEF ConsiderRecurring, ConsiderArrival, LastSent, Fetch, FetchFails, PutRecurring,
                  Filter, Remember, PutArrival, aroundRun, bookVars
    <3>3. ASSUME NEW m \in NotificationIds, NEW c \in Configs,
                 Subscribe(m, c) \/ (\E flag \in {"enabled", "disabled"} : Edit(m, flag, c))
          PROVE  last_sent' = last_sent
      BY <3>3 DEF Subscribe, Edit, bookVars
    <3>4. ~Forgotten
      BY DEF Forgotten
    <3>5. ASSUME NEW m \in NotificationIds, Unsubscribe(m)
          PROVE  FALSE
      BY <3>4, <3>5 DEF Unsubscribe
    <3>6. ASSUME NEW u \in Users, Account(u)
          PROVE  FALSE
      BY <3>4, <3>6 DEF Account
    <3>7. CASE Restart
      BY <3>7 DEF Restart, bookVars
    <3> QED
      BY <3>1, <3>2, <3>3, <3>5, <3>6, <3>7 DEF Next, TransitStep
  <2>2. ~Get /\ ~Release
    BY <2>1 DEF SenderRuns, Guard, RowStored, OtherSenderStep, CheckUser, Record, Get, Release,
                bookVars
  <2>3. Holds(n) /\ sender.pc = "record" /\ last_sent'[n] = guarded_at
    BY <2>1, <2>2, SendingIsSpaced
  <2>4. Due(n, guarded_at)
    BY <2>3 DEF SpacedInv, PipeInv, TasksAreDue, Recurs
  <2> QED
    BY <2>3, <2>4 DEF Due
<1> QED
  BY <1>1, SpacedInvariant, PTL DEF Spec, ReportsSpaced

-----------------------------------------------------------------------------
(* Trains.  The set in Redis is read once per subscription, before the     *)
(* station is asked; what the run announces afterwards it adds itself.     *)

\* An answer lists a train of a direction once.
TrainsAreListedOnce ==
  \A r \in Responses : \A i, j \in DOMAIN r.rows :
    /\ r.rows[i].btrainNo = r.rows[j].btrainNo /\ r.rows[i].btrainNo # NoTrain
    /\ r.rows[i].heading = r.rows[j].heading
    => i = j

\* No run looks at the keys of that day any more.
Past(k) == /\ k[2] < DateOf(now)
           /\ transit.pc = "idle" \/ DateOf(transit.at) # k[2]

\* What was announced is in the set, or its day is over.
BooksInv ==
  \A k \in Sent : /\ announced[k] \in {0, 1}
                  /\ announced[k] = 1 => k \in sent_trains \/ Past(k)

\* The candidates of the row in hand are different trains, none announced yet.
Turn(sub) ==
  /\ transit.pc = "last" => Recurring(sub)
  /\ transit.pc \in {"fetch", "use"} /\ ~Recurring(sub) =>
       SentOn(sub.id, DateOf(transit.at)) \subseteq transit.sent
  /\ transit.pc \in {"sadd", "put"} =>
       \A i \in transit.left :
         /\ announced[Key(sub, i)] = 0
         /\ \A j \in transit.left : Train(sub, i) = Train(sub, j) => i = j
  /\ transit.pc = "put" =>
       \A i \in transit.left : InTurn(i) => Key(sub, i) \in sent_trains

TurnsInv == \A sub \in transit.todo : InHand(sub) => Turn(sub)

OnceInv == SpacedInv /\ BooksInv /\ TurnsInv

LEMMA DaysGoOn == ASSUME NEW t \in Nat PROVE DateOf(t) <= DateOf(t + 1)
<1> DEFINE D == DayLength
           q == t \div D
           p == (t + 1) \div D
<1>1. D \in Nat /\ D >= 1
  OBVIOUS
<1>2. /\ q \in Int /\ p \in Int
      /\ q * D <= t /\ t + 1 < p * D + D
  BY <1>1, Z3
<1>3. CASE p < q
  <2>1. p + 1 <= q
    BY <1>2, <1>3
  <2>2. (p + 1) * D <= q * D
    BY <1>1, <1>2, <2>1, Z3
  <2>3. (p + 1) * D = p * D + D
    BY <1>1, <1>2, Z3
  <2> QED
    BY <1>1, <1>2, <2>2, <2>3
<1> QED
  BY <1>2, <1>3 DEF DateOf

\* Steps that announce nothing and take nothing from the set.
LEMMA BooksHold ==
  ASSUME BooksInv, announced' = announced, sent_trains \subseteq sent_trains',
         UNCHANGED now, transit'.pc = "idle" \/ (transit'.at = transit.at /\ transit.pc # "idle")
  PROVE  BooksInv'
BY DEF BooksInv, Past

LEMMA AnswerListsOnce ==
  ASSUME TrainsAreListedOnce, NEW answer \in Answers, NEW i \in DOMAIN answer, NEW j \in DOMAIN answer,
         answer[i].train = answer[j].train, answer[i].train # NoTrain,
         answer[i].heading = answer[j].heading
  PROVE  i = j
<1>1. PICK r \in Responses : answer = Parsed(r)
  BY DEF Answers
<1>2. CASE r.code = "INFO-000"
  BY <1>1, <1>2 DEF Parsed, row_to_arrival, TrainsAreListedOnce
<1>3. CASE r.code # "INFO-000"
  BY <1>1, <1>3 DEF Parsed
<1> QED
  BY <1>2, <1>3

\* continue: the next row begins from scratch.
LEMMA LeavingOnce ==
  ASSUME OnceInv, NEW sub \in transit.todo, NEW before, NEW failed,
         Leave(sub, before, failed)
  PROVE  TurnsInv' /\ (transit'.pc = "idle" \/ transit'.at = transit.at)
<1>1. transit'.pc \in {"idle", "loop"} /\ (transit'.pc = "idle" \/ transit'.at = transit.at)
  <2>1. CASE transit.todo = {sub}
    BY <2>1 DEF Leave, IdleTransit
  <2>2. CASE transit.todo # {sub}
    <3>1. transit' = [transit EXCEPT !.pc = "loop", !.todo = transit.todo \ {sub},
                                     !.sent = {}, !.left = {}, !.failed = failed]
      BY <2>2 DEF Leave
    <3>2. transit \in Transit
      BY DEF OnceInv, SpacedInv, TypeInv, TransitTypeOK
    <3> QED
      BY <3>1, <3>2 DEF Transit
  <2> QED
    BY <2>1, <2>2
<1> QED
  BY <1>1 DEF TurnsInv, Turn

LEMMA SameTurn ==
  ASSUME OnceInv, NEW sub \in transit.todo, InHand(sub), transit'.todo = transit.todo, Turn(sub)'
  PROVE  TurnsInv'
<1>1. ASSUME NEW other \in transit'.todo, InHand(other)' PROVE other = sub
  <2>1. other \in transit.todo /\ InHand(other)
    BY <1>1 DEF InHand
  <2> QED
    BY <2>1, OneInHand DEF OnceInv, SpacedInv
<1> QED
  BY <1>1 DEF TurnsInv

LEMMA ConsiderIsOnce ==
  ASSUME OnceInv, NEW sub \in transit.todo,
         ConsiderRecurring(sub) \/ ConsiderArrival(sub) \/ LastSent(sub)
  PROVE  BooksInv' /\ TurnsInv'
<1>0. /\ transit \in Transit /\ InHand(sub) /\ transit.pc \in {"loop", "last"}
      /\ UNCHANGED <<now, sent_trains, announced>>
  BY DEF OnceInv, SpacedInv, TypeInv, TransitTypeOK, ConsiderRecurring, ConsiderArrival, LastSent,
         aroundRun
<1>1. CASE Leave(sub, queue, transit.failed)
  BY <1>0, <1>1, LeavingOnce, BooksHold DEF OnceInv
<1>2. CASE ~Leave(sub, queue, transit.failed)
  <2>1. /\ transit'.todo = transit.todo /\ transit'.at = transit.at
        /\ transit'.pc \in {"last", "fetch", "use"}
        /\ transit'.pc = "last" => Recurring(sub)
        /\ transit'.pc \in {"fetch", "use"} /\ ~Recurring(sub) =>
             transit'.sent = SentOn(sub.id, DateOf(transit.at))
    <3>1. CASE ConsiderRecurring(sub)
      BY <1>0, <1>2, <3>1 DEF ConsiderRecurring, Transit
    <3>2. CASE ConsiderArrival(sub)
      <4>1. /\ transit' = [transit EXCEPT !.pc = FetchPc(sub),
                                         !.sent = SentOn(sub.id, DateOf(transit.at))]
            /\ FetchPc(sub) \in {"fetch", "use"}
        BY <1>2, <3>2 DEF ConsiderArrival, FetchPc
      <4>2. /\ transit'.todo = transit.todo /\ transit'.at = transit.at
            /\ transit'.pc = FetchPc(sub)
            /\ transit'.sent = SentOn(sub.id, DateOf(transit.at))
        BY <1>0, <4>1 DEF Transit
      <4> QED
        BY <4>1, <4>2
    <3>3. CASE LastSent(sub)
      <4>1. Recurring(sub)
        BY <1>0, <3>3 DEF LastSent, OnceInv, TurnsInv, Turn
      <4> QED
        BY <1>0, <1>2, <3>3, <4>1 DEF LastSent, FetchPc, Transit
    <3> QED
      BY <3>1, <3>2, <3>3
  <2>2. BooksInv'
    BY <1>0, <2>1, BooksHold DEF OnceInv
  <2>3. Turn(sub)'
    BY <1>0, <2>1 DEF Turn, SentOn, Recurring
  <2> QED
    BY <1>0, <2>1, <2>2, <2>3, SameTurn
<1> QED
  BY <1>1, <1>2

LEMMA FetchIsOnce ==
  ASSUME OnceInv, NEW sub \in transit.todo,
         Fetch(sub) \/ FetchFails(sub) \/ PutRecurring(sub)
  PROVE  BooksInv' /\ TurnsInv'
<1>0. /\ transit \in Transit /\ InHand(sub) /\ transit.pc \in {"fetch", "use"}
      /\ UNCHANGED <<now, sent_trains, announced>>
  BY DEF OnceInv, SpacedInv, TypeInv, TransitTypeOK, Fetch, FetchFails, PutRecurring, aroundRun
<1>1. CASE Fetch(sub)
  <2>1. /\ transit'.todo = transit.todo /\ transit'.at = transit.at /\ transit'.pc = "use"
        /\ transit'.sent = transit.sent
    BY <1>0, <1>1 DEF Fetch, Transit
  <2>2. BooksInv'
    BY <1>0, <2>1, BooksHold DEF OnceInv
  <2>3. transit.pc = "fetch"
    BY <1>1 DEF Fetch
  <2>4. ~Recurring(sub) => SentOn(sub.id, DateOf(transit.at)) \subseteq transit.sent
    BY <1>0, <2>3 DEF OnceInv, TurnsInv, Turn
  <2>5. Turn(sub)'
    BY <1>0, <2>1, <2>4 DEF Turn, SentOn, Recurring
  <2> QED
    BY <1>0, <2>1, <2>2, <2>5, SameTurn
<1>2. CASE FetchFails(sub) \/ PutRecurring(sub)
  <2>1. \E before, failed : Leave(sub, before, failed)
    BY <1>2 DEF FetchFails, PutRecurring
  <2> QED
    BY <1>0, <2>1, LeavingOnce, BooksHold DEF OnceInv
<1> QED
  BY <1>1, <1>2

\* The candidates come from one answer, and from what Redis did not have.
LEMMA FilterIsOnce ==
  ASSUME TrainsAreListedOnce, OnceInv, NEW sub \in transit.todo, Filter(sub)
  PROVE  BooksInv' /\ TurnsInv'
<1> DEFINE answer == transit.answers[sub.config.station]
           near   == Candidates(answer, sub.config, transit.sent, transit.at)
<1>0. /\ transit \in Transit /\ InHand(sub) /\ transit.pc = "use" /\ ~Recurring(sub)
      /\ TypeInv /\ UNCHANGED <<now, sent_trains, announced>>
  BY DEF OnceInv, SpacedInv, TypeInv, TransitTypeOK, Filter, aroundRun
<1>1. CASE near = {}
  BY <1>0, <1>1, LeavingOnce, BooksHold DEF Filter, OnceInv
<1>2. CASE near # {}
  <2>1. transit' = [transit EXCEPT !.pc = "sadd", !.left = near]
    BY <1>2 DEF Filter
  <2>2. /\ transit'.todo = transit.todo /\ transit'.at = transit.at /\ transit'.pc = "sadd"
        /\ transit'.left = near /\ transit'.answers = transit.answers
    BY <1>0, <2>1 DEF Transit
  <2>3. BooksInv'
    BY <1>0, <2>2, BooksHold DEF OnceInv
  <2>4. /\ answer \in Answers
        /\ SentOn(sub.id, DateOf(transit.at)) \subseteq transit.sent
    BY <1>0 DEF TypeInv, HandIsServed, OnceInv, TurnsInv, Turn
  <2>5. ASSUME NEW i \in near
        PROVE  /\ i \in DOMAIN answer /\ answer[i].heading = sub.config.heading
               /\ answer[i].train \in Trains /\ answer[i].train \notin transit.sent
               /\ answer[i].train # NoTrain
    <3>1. /\ i \in DOMAIN answer /\ answer[i].heading = sub.config.heading
          /\ answer[i].train # NoTrain /\ answer[i].train \notin transit.sent
      BY <2>5 DEF Candidates, Near
    <3>2. answer[i] \in Arrival
      BY <2>4, <3>1, ArrivalType
    <3> QED
      BY <3>1, <3>2 DEF Arrival
  <2>6. ASSUME NEW i \in near
        PROVE  announced[Key(sub, i)] = 0
    <3>1. Train(sub, i) \in Trains /\ Train(sub, i) \notin transit.sent
      BY <2>5 DEF Train
    <3>2. Key(sub, i) \in Sent /\ Key(sub, i)[2] = DateOf(transit.at)
      BY <1>0, <3>1, DateType, RowType DEF Key, Sent, Transit
    <3>3. Key(sub, i) \notin sent_trains
      BY <2>4, <3>1 DEF SentOn, Key
    <3>4. ~Past(Key(sub, i))
      BY <1>0, <3>2 DEF Past
    <3> QED
      BY <3>2, <3>3, <3>4 DEF OnceInv, BooksInv
  <2>7. ASSUME NEW i \in near, NEW j \in near, Train(sub, i) = Train(sub, j)
        PROVE  i = j
    <3> HIDE DEF near, answer
    <3>1. /\ i \in DOMAIN answer /\ j \in DOMAIN answer
          /\ answer[i].heading = answer[j].heading /\ answer[i].train # NoTrain
      BY <2>5
    <3>2. answer[i].train = answer[j].train
      BY <2>7 DEF Train, answer
    <3> QED
      BY <2>4, <3>1, <3>2, AnswerListsOnce
  <2> HIDE DEF near, answer
  <2>8. Turn(sub)'
    BY <1>0, <2>2, <2>6, <2>7 DEF Turn, Key, Train
  <2> QED
    BY <1>0, <2>2, <2>3, <2>8, SameTurn
<1> QED
  BY <1>1, <1>2

\* SADD, and the task with the count of what was announced.
LEMMA AnnounceIsOnce ==
  ASSUME OnceInv, NEW sub \in transit.todo, Remember(sub) \/ PutArrival(sub)
  PROVE  BooksInv' /\ TurnsInv'
<1>0. /\ transit \in Transit /\ InHand(sub) /\ transit.pc \in {"sadd", "put"} /\ UNCHANGED now
      /\ TypeInv /\ announced \in [Sent -> Nat] /\ transit.left \subseteq Nat
  BY DEF OnceInv, SpacedInv, TypeInv, TransitTypeOK, Transit, Remember, PutArrival, aroundRun
<1>1. /\ \A j \in transit.left : announced[Key(sub, j)] = 0 /\ Key(sub, j) \in Sent
      /\ \A j, k \in transit.left : Train(sub, j) = Train(sub, k) => j = k
  BY <1>0, KeyType DEF OnceInv, TurnsInv, Turn
<1>2. CASE Remember(sub)
  <2>1. /\ transit'.todo = transit.todo /\ transit'.at = transit.at /\ transit'.pc = "put"
        /\ transit'.left = transit.left /\ transit'.answers = transit.answers
        /\ announced' = announced
    BY <1>0, <1>2 DEF Remember, Transit
  <2>2. PICK i \in transit.left : InTurn(i) /\ sent_trains' = sent_trains \cup {Key(sub, i)}
    BY <1>2 DEF Remember
  <2>3. BooksInv'
    BY <1>0, <2>1, <2>2, BooksHold DEF OnceInv
  <2>4. ASSUME NEW j \in transit.left, InTurn(j)' PROVE j = i
    BY <1>0, <2>1, <2>2, <2>4 DEF InTurn
  <2>5. \A j : Key(sub, j)' = Key(sub, j) /\ Train(sub, j)' = Train(sub, j)
    BY <2>1 DEF Key, Train
  <2>6. Turn(sub)'
    BY <1>1, <2>1, <2>2, <2>4, <2>5 DEF Turn
  <2> QED
    BY <1>0, <2>1, <2>3, <2>6, SameTurn
<1>3. CASE PutArrival(sub)
  <2>1. PICK i \in transit.left :
          /\ InTurn(i)
          /\ announced' = [announced EXCEPT ![Key(sub, i)] = @ + 1]
          /\ IF transit.left = {i}
               THEN Leave(sub, Append(queue, TransitTask(sub)), transit.failed)
               ELSE transit' = [transit EXCEPT !.pc = "sadd", !.left = @ \ {i},
                                               !.sent = @ \cup {Train(sub, i)}]
    BY <1>3 DEF PutArrival
  <2>2. transit.pc = "put" /\ sent_trains' = sent_trains
    BY <1>3 DEF PutArrival
  <2>3. Key(sub, i) \in sent_trains
    BY <1>0, <2>1, <2>2 DEF OnceInv, TurnsInv, Turn
  <2>4. \A k \in Sent : announced'[k] = IF k = Key(sub, i) THEN 1 ELSE announced[k]
    BY <1>0, <1>1, <2>1
  <2>5. ASSUME transit'.pc = "idle" \/ transit'.at = transit.at
        PROVE  BooksInv'
    <3>1. \A k \in Sent : Past(k) => Past(k)'
      BY <1>0, <2>5 DEF Past
    <3> QED
      BY <2>2, <2>3, <2>4, <3>1 DEF OnceInv, BooksInv
  <2>6. CASE transit.left = {i}
    BY <2>1, <2>5, <2>6, LeavingOnce
  <2>7. CASE transit.left # {i}
    <3>1. /\ transit'.todo = transit.todo /\ transit'.at = transit.at /\ transit'.pc = "sadd"
          /\ transit'.left = transit.left \ {i} /\ transit'.answers = transit.answers
      <4>1. transit' = [transit EXCEPT !.pc = "sadd", !.left = @ \ {i},
                                       !.sent = @ \cup {Train(sub, i)}]
        BY <2>1, <2>7
      <4>2. transit \in Transit
        BY <1>0
      <4> QED
        BY <4>1, <4>2 DEF Transit
    <3>2. \A j : Key(sub, j)' = Key(sub, j) /\ Train(sub, j)' = Train(sub, j)
      BY <3>1 DEF Key, Train
    <3>3. ASSUME NEW j \in transit.left \ {i} PROVE announced'[Key(sub, j)] = 0
      <4>1. Key(sub, j) # Key(sub, i)
        BY <1>1 DEF Key
      <4> QED
        BY <1>1, <2>4, <4>1
    <3>4. Turn(sub)'
      BY <1>1, <3>1, <3>2, <3>3 DEF Turn
    <3> QED
      BY <1>0, <2>5, <3>1, <3>4, SameTurn
  <2> QED
    BY <2>6, <2>7
<1> QED
  BY <1>2, <1>3

LEMMA OnceFrame ==
  ASSUME OnceInv, UNCHANGED <<now, runVars>>
  PROVE  BooksInv' /\ TurnsInv'
<1>1. UNCHANGED <<now, transit, sent_trains, announced>>
  BY DEF runVars
<1>2. BooksInv'
  BY <1>1 DEF OnceInv, BooksInv, Past
<1>3. \A sub \in transit.todo : (InHand(sub)' <=> InHand(sub)) /\ Turn(sub)' = Turn(sub)
  BY <1>1 DEF InHand, Turn, SentOn, Key, Train, InTurn
<1> QED
  BY <1>1, <1>2, <1>3 DEF OnceInv, TurnsInv

LEMMA DateTypes ==
  ASSUME OnceInv
  PROVE  /\ DateOf(now) \in Int /\ DateOf(transit.at) \in Int
         /\ \A k \in Sent : k[2] \in Int
<1>1. now \in Nat /\ transit.at \in Nat
  BY NumberTypes DEF OnceInv, SpacedInv
<1>2. \A t \in Nat : DateOf(t) \in Int
  BY DEF DateOf
<1>3. Dates \subseteq Int
  BY <1>2 DEF Dates, Instants
<1> QED
  BY <1>1, <1>2, <1>3 DEF Sent

\* A run that is about to begin works on the current day: what is past is out
\* of its sight.  The TTL takes past keys only.
LEMMA ListIsOnce ==
  ASSUME OnceInv,
         Advance \/ Tick \/ List \/ RunRaises \/ (\E date \in Dates : Expire(date))
  PROVE  BooksInv' /\ TurnsInv'
<1>0. /\ transit \in Transit /\ sent_trains \subseteq Sent
      /\ TypeInv /\ now \in Nat /\ BooksInv /\ TurnsInv
  BY NumberTypes DEF OnceInv, SpacedInv, TypeInv, TransitTypeOK
<1>1. CASE Advance
  <2>1. now' = now + 1 /\ UNCHANGED runVars
    BY <1>1 DEF Advance
  <2>2. DateOf(now) <= DateOf(now') /\ DateOf(now') \in Int
    BY <1>0, <2>1, DaysGoOn DEF DateOf
  <2>3. \A k \in Sent : Past(k) => Past(k)'
    BY <2>1, <2>2, DateTypes DEF Past, runVars
  <2>4. BooksInv'
    BY <1>0, <2>1, <2>3 DEF BooksInv, runVars
  <2>5. UNCHANGED <<transit, sent_trains, announced>>
    BY <2>1 DEF runVars
  <2>6. \A sub \in transit.todo : (InHand(sub)' <=> InHand(sub)) /\ Turn(sub)' = Turn(sub)
    BY <2>5 DEF InHand, Turn, SentOn, Key, Train, InTurn
  <2>7. TurnsInv'
    BY <1>0, <2>5, <2>6 DEF TurnsInv
  <2> QED
    BY <2>4, <2>7
<1>2. CASE Tick
  <2>1. UNCHANGED <<now, sent_trains, announced>>
    BY <1>2 DEF Tick
  <2>2. CASE transit.pc = "idle"
    <3>1. transit'.pc = "list" /\ transit'.todo = {} /\ transit'.at = now
      BY <1>2, <2>2 DEF Tick, IdleTransit
    <3>2. \A k \in Sent : Past(k) => Past(k)'
      BY <2>1, <3>1, DateTypes DEF Past
    <3> QED
      BY <1>0, <2>1, <3>1, <3>2 DEF BooksInv, TurnsInv
  <2>3. CASE transit.pc # "idle"
    BY <1>2, <2>3, OnceFrame DEF Tick, runVars
  <2> QED
    BY <2>2, <2>3
<1>3. CASE List
  <2>1. /\ UNCHANGED <<now, sent_trains, announced>> /\ transit.pc = "list"
        /\ transit'.pc = "idle" \/ (transit'.pc = "loop" /\ transit'.at = transit.at)
    BY <1>0, <1>3 DEF List, aroundRun, IdleTransit, Transit
  <2> QED
    BY <1>0, <2>1, BooksHold DEF TurnsInv, Turn
<1>4. CASE RunRaises
  <2>1. /\ UNCHANGED <<now, announced>> /\ sent_trains \subseteq sent_trains'
        /\ transit'.pc = "idle"
    BY <1>4 DEF RunRaises, AddedUnanswered, IdleTransit
  <2> QED
    BY <1>0, <2>1, BooksHold DEF TurnsInv, Turn
<1>5. ASSUME NEW date \in Dates, Expire(date)
      PROVE  BooksInv' /\ TurnsInv'
  <2>1. /\ UNCHANGED <<now, transit, announced>> /\ date < DateOf(now)
        /\ transit.pc = "idle" \/ DateOf(transit.at) # date
        /\ sent_trains' = {k \in sent_trains : k[2] # date}
    BY <1>5 DEF Expire, aroundRun
  <2>2. \A k \in Sent : k \in sent_trains /\ k \notin sent_trains' => Past(k)'
    BY <2>1 DEF Past
  <2>3. BooksInv'
    BY <1>0, <2>1, <2>2 DEF BooksInv, Past
  <2>4. TurnsInv'
    <3> SUFFICES ASSUME NEW sub \in transit.todo, InHand(sub)
                 PROVE  Turn(sub)'
      BY <2>1 DEF TurnsInv, InHand
    <3>1. Turn(sub)
      BY <1>0 DEF TurnsInv
    <3>2. \A i : Key(sub, i)[2] = DateOf(transit.at)
      BY DEF Key
    <3> QED
      BY <2>1, <3>1, <3>2 DEF Turn, SentOn, Key, Train, InTurn
  <2> QED
    BY <2>3, <2>4
<1> QED
  BY <1>1, <1>2, <1>3, <1>4, <1>5

LEMMA OutsideIsOnce ==
  ASSUME OnceInv, OutsideStep \/ UNCHANGED vars
  PROVE  BooksInv' /\ TurnsInv'
<1>1. CASE UNCHANGED <<now, runVars>>
  BY <1>1, OnceFrame
<1>2. CASE Restart
  <2>1. UNCHANGED <<now, sent_trains, announced>> /\ transit'.pc = "idle" /\ transit'.todo = {}
    BY <1>2 DEF Restart, IdleTransit
  <2> QED
    BY <2>1, BooksHold DEF OnceInv, TurnsInv
<1>3. CASE UNCHANGED vars
  BY <1>1, <1>3 DEF vars
<1>4. CASE OutsideStep /\ ~Restart
  BY <1>1, <1>4 DEF OutsideStep, SenderRuns, Subscribe, Edit, Unsubscribe, Account
<1> QED
  BY <1>2, <1>3, <1>4

LEMMA OnceInitially == Init => OnceInv
<1> SUFFICES ASSUME Init PROVE OnceInv
  OBVIOUS
<1>1. BooksInv /\ TurnsInv
  BY DEF Init, IdleTransit, BooksInv, TurnsInv
<1> QED
  BY <1>1, SpacedInitially DEF OnceInv

LEMMA OnceStep == ASSUME TrainsAreListedOnce PROVE OnceInv /\ [Next]_vars => OnceInv'
<1> SUFFICES ASSUME OnceInv, [Next]_vars
             PROVE  BooksInv' /\ TurnsInv'
  BY SpacedStep DEF OnceInv
<1>1. CASE \/ Advance \/ Tick \/ List \/ RunRaises
           \/ (\E date \in Dates : Expire(date))
  BY <1>1, ListIsOnce
<1>2. ASSUME NEW sub \in transit.todo,
             \/ ConsiderRecurring(sub) \/ ConsiderArrival(sub) \/ LastSent(sub)
             \/ Fetch(sub) \/ FetchFails(sub)
             \/ PutRecurring(sub)
             \/ Filter(sub) \/ Remember(sub) \/ PutArrival(sub)
      PROVE  BooksInv' /\ TurnsInv'
  BY <1>2, ConsiderIsOnce, FetchIsOnce, FilterIsOnce, AnnounceIsOnce
<1>3. CASE OutsideStep \/ UNCHANGED vars
  BY <1>3, OutsideIsOnce
<1> QED
  BY <1>1, <1>2, <1>3 DEF Next, TransitStep, OutsideStep

\* F-06 announces a train to a subscription at most once on a day of Seoul,
\* for every schedule of job, sender, users, Redis and restarts, if no answer
\* of the API lists a train of a direction twice.
THEOREM TrainsOnce == TrainsAreListedOnce /\ Spec => []OncePerTrain
<1>1. OnceInv => OncePerTrain
  BY DEF OnceInv, BooksInv, OncePerTrain
<1>2. ASSUME TrainsAreListedOnce PROVE Spec => []OncePerTrain
  <2>1. OnceInv /\ [Next]_vars => OnceInv'
    BY <1>2, OnceStep
  <2> QED
    BY <1>1, <2>1, OnceInitially, PTL DEF Spec
<1> QED
  BY <1>2

-----------------------------------------------------------------------------
(* Service.  A row the run is done with has a failed fetch, or an answer    *)
(* with no near train that the set of the day lacks; SADD only shrinks what *)
(* is left to announce, and the TTL takes no key of the run's day.          *)

Today(sub) == SentOn(sub.id, DateOf(transit.at))

\* The trains of the cached answer that sub has not been told of.
Untold(sub) ==
  Candidates(transit.answers[sub.config.station], sub.config, Today(sub), transit.at)

Asks(sub) == ~Recurring(sub) /\ InWindow(sub.config, transit.at)

Settled(sub) == \/ sub.id \in transit.failed
                \/ transit.answers[sub.config.station] # NoAnswer /\ Untold(sub) = {}

\* How far the run is with the row in hand.
Effort(sub) ==
  /\ transit.pc = "last" => Recurring(sub)
  /\ transit.pc = "fetch" => transit.answers[sub.config.station] = NoAnswer
  /\ transit.pc \in {"fetch", "use"} /\ ~Recurring(sub) => transit.sent \subseteq Today(sub)
  /\ transit.pc \in {"sadd", "put"} => ~Recurring(sub) /\ Untold(sub) \subseteq transit.left
  /\ transit.pc = "put" =>
       \A i \in transit.left : InTurn(i) => Key(sub, i) \in sent_trains

EffortsInv == \A sub \in transit.todo : InHand(sub) => Effort(sub)

BehindInv == /\ transit.pc \in {"idle", "list"} => transit.listed = {}
             /\ \A sub \in transit.listed \ transit.todo : Asks(sub) => Settled(sub)

ServedInv == TypeInv /\ EffortsInv /\ BehindInv

LEMMA CandidatesShrink ==
  ASSUME NEW answer, NEW c, NEW t, NEW sent, NEW more, sent \subseteq more
  PROVE  Candidates(answer, c, more, t) \subseteq Candidates(answer, c, sent, t)
BY DEF Candidates, Near

\* A step that keeps the answers and takes nothing of today from the set.
LEMMA UntoldShrinks ==
  ASSUME NEW sub, UNCHANGED transit.at, UNCHANGED transit.answers,
         Today(sub) \subseteq Today(sub)'
  PROVE  Untold(sub)' \subseteq Untold(sub)
BY CandidatesShrink DEF Untold

LEMMA ListedType ==
  ASSUME TypeInv, NEW sub \in transit.listed
  PROVE  /\ sub \in Sub /\ sub.id \in NotificationIds
         /\ sub.config.station \in Stations
<1>1. sub \in Sub
  BY DEF TypeInv, TransitTypeOK, Transit
<1>2. sub.id \in NotificationIds /\ sub.config \in Config
  BY <1>1 DEF Sub
<1> QED
  BY <1>1, <1>2 DEF Config

\* Rows that were settled stay so while the run goes on.
LEMMA StaysSettled ==
  ASSUME NEW sub \in transit.listed, Asks(sub) => Settled(sub),
         transit'.at = transit.at, transit.failed \subseteq transit'.failed,
         transit.answers[sub.config.station] # NoAnswer =>
           transit'.answers[sub.config.station] = transit.answers[sub.config.station],
         Today(sub) \subseteq Today(sub)'
  PROVE  (Asks(sub) => Settled(sub))'
<1> SUFFICES ASSUME Asks(sub)', sub.id \notin transit'.failed
             PROVE  /\ transit'.answers[sub.config.station] # NoAnswer
                    /\ Untold(sub)' = {}
  BY DEF Settled
<1>1. Asks(sub)
  BY DEF Asks, Recurring, InWindow
<1>2. transit.answers[sub.config.station] # NoAnswer /\ Untold(sub) = {}
  BY <1>1 DEF Settled
<1>3. Untold(sub)' \subseteq Untold(sub)
  BY <1>2, CandidatesShrink DEF Untold
<1> QED
  BY <1>2, <1>3

\* The run leaves a row that is settled, or whose fetch has just failed.
Finishes(sub) ==
  \E before \in Seq(Task), failed \in SUBSET NotificationIds :
    /\ Leave(sub, before, failed)
    /\ UNCHANGED sent_trains
    /\ IF transit.pc = "fetch" THEN failed = transit.failed \cup {sub.id}
                               ELSE /\ failed = transit.failed
                                    /\ Asks(sub) => Settled(sub)

\* The run goes on with the row in hand.
Continues == transit'.pc # "idle" /\ EffortsInv' /\ BehindInv'

\* A step of the run that finishes no row and leaves the answers alone.
LEMMA SameEffort ==
  ASSUME ServedInv, NEW sub \in transit.todo, InHand(sub),
         transit'.todo = transit.todo, transit'.listed = transit.listed,
         transit'.at = transit.at, transit'.failed = transit.failed,
         transit'.answers = transit.answers, transit'.pc \notin {"idle", "list"},
         sent_trains \subseteq sent_trains', Effort(sub)'
  PROVE  Continues
<1>1. ASSUME NEW other \in transit'.todo, InHand(other)' PROVE other = sub
  <2>1. other \in transit.todo /\ InHand(other)
    BY <1>1 DEF InHand
  <2> QED
    BY <2>1, OneInHand DEF ServedInv
<1>2. \A other : Today(other) \subseteq Today(other)'
  BY DEF Today, SentOn
<1>3. ASSUME NEW other \in transit'.listed \ transit'.todo PROVE (Asks(other) => Settled(other))'
  <2>1. other \in transit.listed /\ (Asks(other) => Settled(other))
    BY <1>3 DEF ServedInv, BehindInv
  <2> QED
    BY <1>2, <2>1, StaysSettled
<1> QED
  BY <1>1, <1>3 DEF Continues, EffortsInv, BehindInv

LEMMA Finish ==
  ASSUME ServedInv, NEW sub \in transit.todo, transit.pc # "fetch",
         NEW before \in Seq(Task), Leave(sub, before, transit.failed), UNCHANGED sent_trains,
         Asks(sub) => Settled(sub)
  PROVE  Finishes(sub)
BY DEF Finishes, ServedInv, TypeInv, TransitTypeOK, Transit

\* continue: the next row begins from scratch.
LEMMA LeavingServed ==
  ASSUME ServedInv, NEW sub \in transit.todo, Finishes(sub)
  PROVE  EffortsInv' /\ BehindInv'
<1>0. PICK before, failed : /\ Leave(sub, before, failed) /\ UNCHANGED sent_trains
                            /\ transit.failed \subseteq failed
                            /\ Asks(sub) => Settled(sub) \/ sub.id \in failed
  BY DEF Finishes
<1>1. CASE transit.todo = {sub}
  BY <1>0, <1>1 DEF Leave, IdleTransit, EffortsInv, BehindInv
<1>2. CASE transit.todo # {sub}
  <2>1. /\ transit'.pc = "loop" /\ transit'.todo = transit.todo \ {sub}
        /\ transit'.listed = transit.listed /\ transit'.at = transit.at
        /\ transit'.answers = transit.answers /\ transit'.failed = failed
    <3>1. transit \in Transit
      BY DEF ServedInv, TypeInv, TransitTypeOK
    <3>2. transit' = [transit EXCEPT !.pc = "loop", !.todo = @ \ {sub},
                                     !.sent = {}, !.left = {}, !.failed = failed]
      BY <1>0, <1>2 DEF Leave
    <3> QED
      BY <3>1, <3>2 DEF Transit
  <2>2. EffortsInv'
    BY <2>1 DEF EffortsInv, Effort
  <2>3. \A other : Today(other)' = Today(other)
    BY <1>0, <2>1 DEF Today, SentOn
  <2>4. ASSUME NEW other \in transit.listed \ transit.todo
        PROVE  (Asks(other) => Settled(other))'
    <3>1. Asks(other) => Settled(other)
      BY DEF ServedInv, BehindInv
    <3> QED
      BY <1>0, <2>1, <2>3, <3>1, StaysSettled
  <2>5. (Asks(sub) => Settled(sub))'
    <3>1. Asks(sub)' => Asks(sub)
      BY <2>1 DEF Asks, Recurring, InWindow
    <3>2. Untold(sub)' = Untold(sub)
      BY <2>1, <2>3 DEF Untold
    <3>3. Settled(sub) \/ sub.id \in failed => Settled(sub)'
      BY <1>0, <2>1, <3>2 DEF Settled
    <3> QED
      BY <1>0, <3>1, <3>3
  <2>6. BehindInv'
    BY <2>1, <2>4, <2>5 DEF BehindInv
  <2> QED
    BY <2>2, <2>6
<1> QED
  BY <1>1, <1>2

LEMMA ConsiderIsServed ==
  ASSUME ServedInv, NEW sub \in transit.todo,
         ConsiderRecurring(sub) \/ ConsiderArrival(sub) \/ LastSent(sub)
  PROVE  Finishes(sub) \/ Continues
<1>0. /\ transit \in Transit /\ InHand(sub) /\ Effort(sub) /\ UNCHANGED sent_trains
      /\ transit.pc \in {"loop", "last"} /\ queue \in Seq(Task)
  BY DEF ServedInv, EffortsInv, TypeInv, TransitTypeOK, SenderTypeOK, ConsiderRecurring,
         ConsiderArrival, LastSent
<1>1. CASE Leave(sub, queue, transit.failed)
  <2>1. CASE Asks(sub)
    <3>1. ~ConsiderRecurring(sub)
      BY <2>1 DEF ConsiderRecurring, Asks
    <3>2. ~LastSent(sub)
      BY <1>0, <2>1 DEF LastSent, Effort, Asks
    <3>3. transit' = [transit EXCEPT !.pc = FetchPc(sub),
                                     !.sent = SentOn(sub.id, DateOf(transit.at))]
      BY <2>1, <3>1, <3>2 DEF ConsiderArrival, Asks
    <3>4. transit'.pc \in {"fetch", "use"}
      BY <1>0, <3>3 DEF FetchPc, Transit
    <3>5. transit'.pc \in {"idle", "loop"}
      <4>1. CASE transit.todo = {sub}
        BY <1>1, <4>1 DEF Leave, IdleTransit
      <4>2. CASE transit.todo # {sub}
        BY <1>0, <1>1, <4>2 DEF Leave, Transit
      <4> QED
        BY <4>1, <4>2
    <3> QED
      BY <3>4, <3>5
  <2>2. CASE ~Asks(sub)
    BY <1>0, <1>1, <2>2, Finish
  <2> QED
    BY <2>1, <2>2
<1>2. CASE ~Leave(sub, queue, transit.failed)
  <2>1. \/ transit' = [transit EXCEPT !.pc = "last"] /\ Recurring(sub)
        \/ transit' = [transit EXCEPT !.pc = FetchPc(sub), !.sent = Today(sub)]
        \/ transit' = [transit EXCEPT !.pc = FetchPc(sub)] /\ Recurring(sub)
    BY <1>0, <1>2 DEF ConsiderRecurring, ConsiderArrival, LastSent, Effort, Today
  <2>2. /\ transit'.todo = transit.todo /\ transit'.listed = transit.listed
        /\ transit'.at = transit.at /\ transit'.failed = transit.failed
        /\ transit'.answers = transit.answers
        /\ transit'.pc \in {"last", "fetch", "use"}
        /\ transit'.pc = "last" => Recurring(sub)
        /\ transit'.pc = "fetch" => transit.answers[sub.config.station] = NoAnswer
        /\ ~Recurring(sub) => transit'.sent = Today(sub)
    <3>1. CASE transit' = [transit EXCEPT !.pc = "last"] /\ Recurring(sub)
      BY <1>0, <3>1 DEF Transit
    <3>2. CASE transit' = [transit EXCEPT !.pc = FetchPc(sub), !.sent = Today(sub)]
      BY <1>0, <3>2 DEF FetchPc, Transit
    <3>3. CASE transit' = [transit EXCEPT !.pc = FetchPc(sub)] /\ Recurring(sub)
      BY <1>0, <3>3 DEF FetchPc, Transit
    <3> QED
      BY <2>1, <3>1, <3>2, <3>3
  <2>3. Today(sub)' = Today(sub)
    BY <1>0, <2>2 DEF Today, SentOn
  <2>4. Effort(sub)'
    BY <2>2, <2>3 DEF Effort, Recurring
  <2> QED
    BY <1>0, <2>2, <2>4, SameEffort
<1> QED
  BY <1>1, <1>2

\* A fetch answers for a station that no settled row has been served from.
LEMMA FetchIsServed ==
  ASSUME ServedInv, NEW sub \in transit.todo,
         Fetch(sub) \/ FetchFails(sub) \/ PutRecurring(sub)
  PROVE  Finishes(sub) \/ Continues
<1>0. /\ transit \in Transit /\ InHand(sub) /\ Effort(sub) /\ TypeInv /\ UNCHANGED sent_trains
      /\ queue \in Seq(Task)
  BY DEF ServedInv, EffortsInv, TypeInv, TransitTypeOK, SenderTypeOK, Fetch, FetchFails,
         PutRecurring
<1>1. CASE Fetch(sub)
  <2>1. PICK answer \in Answers :
          transit' = [transit EXCEPT !.pc = "use", !.answers[sub.config.station] = answer]
    BY <1>1 DEF Fetch
  <2>2. /\ transit'.todo = transit.todo /\ transit'.listed = transit.listed
        /\ transit'.at = transit.at /\ transit'.failed = transit.failed
        /\ transit'.sent = transit.sent /\ transit'.pc = "use"
        /\ \A s \in Stations : s # sub.config.station =>
             transit'.answers[s] = transit.answers[s]
    BY <1>0, <2>1 DEF Transit
  <2>3. transit.pc = "fetch" /\ transit.answers[sub.config.station] = NoAnswer
    BY <1>0, <1>1 DEF Fetch, Effort
  <2>4. \A other : Today(other)' = Today(other)
    BY <1>0, <2>2 DEF Today, SentOn
  <2>5. ASSUME NEW other \in transit'.todo, InHand(other)' PROVE Effort(other)'
    <3>1. other \in transit.todo /\ InHand(other)
      BY <2>2, <2>5 DEF InHand
    <3>2. other = sub
      BY <1>0, <3>1, OneInHand
    <3>3. ~Recurring(sub) => transit.sent \subseteq Today(sub)
      BY <1>0, <2>3 DEF Effort
    <3> QED
      BY <2>2, <2>4, <3>2, <3>3 DEF Effort, Recurring
  <2>6. ASSUME NEW other \in transit'.listed \ transit'.todo PROVE (Asks(other) => Settled(other))'
    <3>1. other \in transit.listed /\ (Asks(other) => Settled(other))
      BY <2>2, <2>6 DEF ServedInv, BehindInv
    <3>2. other.config.station \in Stations
      BY <1>0, <3>1, ListedType
    <3>3. transit.answers[other.config.station] # NoAnswer =>
            transit'.answers[other.config.station] = transit.answers[other.config.station]
      BY <2>2, <2>3, <3>2
    <3> QED
      BY <2>2, <2>4, <3>1, <3>3, StaysSettled
  <2> QED
    BY <2>2, <2>5, <2>6 DEF Continues, EffortsInv, BehindInv
<1>2. CASE FetchFails(sub)
  <2>1. PICK failed : failed = transit.failed \cup {sub.id}
    OBVIOUS
  <2>2. Leave(sub, queue, failed) /\ transit.pc = "fetch"
    BY <1>2, <2>1 DEF FetchFails
  <2>3. failed \in SUBSET NotificationIds
    BY <1>0, <2>1, RowType DEF Transit
  <2> QED
    BY <1>0, <2>1, <2>2, <2>3 DEF Finishes
<1>3. CASE PutRecurring(sub)
  <2>1. PICK before : before = Append(queue, TransitTask(sub))
    OBVIOUS
  <2>2. Leave(sub, before, transit.failed) /\ ~Asks(sub) /\ transit.pc = "use"
    BY <1>3, <2>1 DEF PutRecurring, Asks
  <2>3. before \in Seq(Task)
    BY <1>0, <2>1, TaskType
  <2> QED
    BY <1>0, <2>2, <2>3, Finish
<1> QED
  BY <1>1, <1>2, <1>3

LEMMA FilterIsServed ==
  ASSUME ServedInv, NEW sub \in transit.todo, Filter(sub)
  PROVE  Finishes(sub) \/ Continues
<1>1. PICK near : near = Candidates(transit.answers[sub.config.station], sub.config,
                                    transit.sent, transit.at)
  OBVIOUS
<1>0. /\ transit \in Transit /\ InHand(sub) /\ Effort(sub) /\ TypeInv /\ UNCHANGED sent_trains
      /\ transit.pc = "use" /\ ~Recurring(sub) /\ queue \in Seq(Task)
  BY DEF ServedInv, EffortsInv, TypeInv, TransitTypeOK, SenderTypeOK, Filter
<1>2. Untold(sub) \subseteq near
  BY <1>0, <1>1, CandidatesShrink DEF Effort, Untold
<1>3. CASE near = {}
  <2>1. transit.answers[sub.config.station] # NoAnswer
    BY <1>0 DEF TypeInv, HandIsServed
  <2>2. Settled(sub)
    BY <1>2, <1>3, <2>1 DEF Settled
  <2>3. Leave(sub, queue, transit.failed)
    BY <1>1, <1>3 DEF Filter
  <2> QED
    BY <1>0, <2>2, <2>3, Finish
<1>4. CASE near # {}
  <2>1. transit' = [transit EXCEPT !.pc = "sadd", !.left = near]
    BY <1>1, <1>4 DEF Filter
  <2>2. /\ transit'.todo = transit.todo /\ transit'.listed = transit.listed
        /\ transit'.at = transit.at /\ transit'.failed = transit.failed
        /\ transit'.answers = transit.answers /\ transit'.left = near /\ transit'.pc = "sadd"
    BY <1>0, <2>1 DEF Transit
  <2>3. Untold(sub)' = Untold(sub)
    BY <1>0, <2>2 DEF Untold, Today, SentOn
  <2>4. Effort(sub)'
    BY <1>0, <1>2, <2>2, <2>3 DEF Effort, Recurring
  <2> QED
    BY <1>0, <2>2, <2>4, SameEffort
<1> QED
  BY <1>3, <1>4

\* SADD makes the train known; the task that follows leaves the others.
LEMMA AnnounceIsServed ==
  ASSUME ServedInv, NEW sub \in transit.todo, Remember(sub) \/ PutArrival(sub)
  PROVE  Finishes(sub) \/ Continues
<1>0. /\ transit \in Transit /\ InHand(sub) /\ Effort(sub) /\ TypeInv
      /\ transit.pc \in {"sadd", "put"} /\ transit.left \subseteq Nat
  BY DEF ServedInv, EffortsInv, TypeInv, TransitTypeOK, Transit, Remember, PutArrival
<1>1. ~Recurring(sub) /\ Untold(sub) \subseteq transit.left
  BY <1>0 DEF Effort
<1>2. CASE Remember(sub)
  <2>1. PICK i \in transit.left : InTurn(i) /\ sent_trains' = sent_trains \cup {Key(sub, i)}
    BY <1>2 DEF Remember
  <2>2. transit' = [transit EXCEPT !.pc = "put"]
    BY <1>2 DEF Remember
  <2>3. /\ transit'.todo = transit.todo /\ transit'.listed = transit.listed
        /\ transit'.at = transit.at /\ transit'.failed = transit.failed
        /\ transit'.answers = transit.answers /\ transit'.left = transit.left
        /\ transit'.pc = "put"
    BY <1>0, <2>2 DEF Transit
  <2>4. Today(sub) \subseteq Today(sub)'
    BY <2>1, <2>3 DEF Today, SentOn
  <2>5. Untold(sub)' \subseteq Untold(sub)
    BY <2>3, <2>4, UntoldShrinks
  <2>6. ASSUME NEW j \in transit'.left, InTurn(j)' PROVE Key(sub, j)' \in sent_trains'
    <3>1. j = i
      BY <1>0, <2>1, <2>3, <2>6 DEF InTurn
    <3> QED
      BY <2>1, <2>3, <3>1 DEF Key, Train
  <2>7. Effort(sub)'
    BY <1>1, <2>3, <2>5, <2>6 DEF Effort, Recurring
  <2> QED
    BY <1>0, <2>1, <2>3, <2>7, SameEffort
<1>3. CASE PutArrival(sub)
  <2>0. PICK before : before = Append(queue, TransitTask(sub))
    OBVIOUS
  <2>1. PICK i \in transit.left :
          /\ InTurn(i)
          /\ IF transit.left = {i}
               THEN Leave(sub, before, transit.failed)
               ELSE transit' = [transit EXCEPT !.pc = "sadd", !.left = @ \ {i},
                                               !.sent = @ \cup {Train(sub, i)}]
    BY <1>3, <2>0 DEF PutArrival
  <2>2. transit.pc = "put" /\ sent_trains' = sent_trains
    BY <1>3 DEF PutArrival
  <2>3. /\ Key(sub, i) \in sent_trains /\ Train(sub, i) \in Trains
        /\ transit.answers[sub.config.station] # NoAnswer
    BY <1>0, <2>1, <2>2 DEF Effort, TypeInv, HandIsServed
  <2>4. Train(sub, i) \in Today(sub)
    BY <2>3 DEF Today, SentOn, Key
  <2>5. i \notin Untold(sub)
    BY <2>4 DEF Untold, Candidates, Near, Train
  <2>6. CASE transit.left = {i}
    <3>1. Settled(sub)
      BY <1>1, <2>3, <2>5, <2>6 DEF Settled
    <3>2. before \in Seq(Task)
      BY <1>0, <2>0, TaskType
    <3> QED
      BY <2>1, <2>2, <2>6, <3>1, <3>2, Finish
  <2>7. CASE transit.left # {i}
    <3>1. /\ transit'.todo = transit.todo /\ transit'.listed = transit.listed
          /\ transit'.at = transit.at /\ transit'.failed = transit.failed
          /\ transit'.answers = transit.answers /\ transit'.left = transit.left \ {i}
          /\ transit'.pc = "sadd"
      <4>1. transit' = [transit EXCEPT !.pc = "sadd", !.left = @ \ {i},
                                       !.sent = @ \cup {Train(sub, i)}]
        BY <2>1, <2>7
      <4>2. transit \in Transit
        BY <1>0
      <4> QED
        BY <4>1, <4>2 DEF Transit
    <3>2. Untold(sub)' = Untold(sub)
      BY <2>2, <3>1 DEF Untold, Today, SentOn
    <3>3. Effort(sub)'
      BY <1>1, <2>5, <3>1, <3>2 DEF Effort, Recurring
    <3> QED
      BY <1>0, <2>2, <3>1, <3>3, SameEffort
  <2> QED
    BY <2>6, <2>7
<1> QED
  BY <1>2, <1>3

LEMMA ServedFrame ==
  ASSUME ServedInv, UNCHANGED <<transit, sent_trains>>
  PROVE  EffortsInv' /\ BehindInv'
<1>1. \A sub : Today(sub)' = Today(sub)
  BY DEF Today, SentOn
<1>2. \A sub, i : Key(sub, i)' = Key(sub, i)
  BY DEF Key, Train
<1>3. ASSUME NEW sub \in transit.todo, InHand(sub)' PROVE Effort(sub)'
  BY <1>1, <1>2, <1>3 DEF ServedInv, EffortsInv, Effort, Untold, InHand, InTurn, Recurring
<1>4. ASSUME NEW sub \in transit.listed \ transit.todo PROVE (Asks(sub) => Settled(sub))'
  BY <1>1, <1>4 DEF ServedInv, BehindInv, Asks, Settled, Untold, Recurring, InWindow
<1> QED
  BY <1>3, <1>4 DEF ServedInv, EffortsInv, BehindInv

\* The TTL spares the day of a run.
LEMMA ClockIsServed ==
  ASSUME ServedInv,
         Advance \/ Tick \/ List \/ RunRaises \/ (\E date \in Dates : Expire(date))
  PROVE  EffortsInv' /\ BehindInv'
<1>0. transit \in Transit
  BY DEF ServedInv, TypeInv, TransitTypeOK
<1>1. CASE Advance
  BY <1>1, ServedFrame DEF Advance, runVars
<1>2. CASE Tick
  <2>1. CASE transit.pc = "idle"
    <3>1. transit'.pc = "list" /\ transit'.todo = {} /\ transit'.listed = {}
      BY <1>2, <2>1 DEF Tick, IdleTransit
    <3> QED
      BY <3>1 DEF EffortsInv, BehindInv
  <2>2. CASE transit.pc # "idle"
    BY <1>2, <2>2, ServedFrame DEF Tick
  <2> QED
    BY <2>1, <2>2
<1>3. CASE List
  <2>1. \/ transit'.pc = "idle" /\ transit'.listed = {} /\ transit'.todo = {}
        \/ transit'.pc = "loop" /\ transit'.todo = transit'.listed
    BY <1>0, <1>3 DEF List, IdleTransit, Transit
  <2> QED
    BY <2>1 DEF EffortsInv, BehindInv, Effort
<1>4. CASE RunRaises
  <2>1. transit'.pc = "idle" /\ transit'.listed = {} /\ transit'.todo = {}
    BY <1>4 DEF RunRaises, IdleTransit
  <2> QED
    BY <2>1 DEF EffortsInv, BehindInv
<1>5. ASSUME NEW date \in Dates, Expire(date)
      PROVE  EffortsInv' /\ BehindInv'
  <2>1. /\ UNCHANGED transit
        /\ transit.pc = "idle" \/ DateOf(transit.at) # date
        /\ sent_trains' = {k \in sent_trains : k[2] # date}
    BY <1>5 DEF Expire
  <2>2. CASE transit.pc = "idle"
    <3>1. transit.listed = {} /\ transit.todo = {}
      BY <2>2 DEF ServedInv, BehindInv, TypeInv, TransitTypeOK
    <3> QED
      BY <2>1, <2>2, <3>1 DEF EffortsInv, BehindInv
  <2>3. CASE transit.pc # "idle"
    <3>1. \A sub : Today(sub)' = Today(sub)
      BY <2>1, <2>3 DEF Today, SentOn
    <3>2. \A sub, i : Key(sub, i) \in sent_trains <=> Key(sub, i)' \in sent_trains'
      BY <2>1, <2>3 DEF Key, Train
    <3> QED
      BY <2>1, <3>1, <3>2
      DEF ServedInv, EffortsInv, BehindInv, Effort, Asks, Settled, Untold, InHand, InTurn,
          Recurring, InWindow
  <2> QED
    BY <2>2, <2>3
<1> QED
  BY <1>1, <1>2, <1>3, <1>4, <1>5

LEMMA OutsideIsServed ==
  ASSUME ServedInv, OutsideStep \/ UNCHANGED vars
  PROVE  EffortsInv' /\ BehindInv'
<1>1. CASE Restart
  BY <1>1 DEF Restart, IdleTransit, EffortsInv, BehindInv
<1>2. CASE ~Restart
  <2>1. UNCHANGED <<transit, sent_trains>>
    BY <1>2 DEF OutsideStep, SenderRuns, Subscribe, Edit, Unsubscribe, Account, runVars, vars
  <2> QED
    BY <2>1, ServedFrame
<1> QED
  BY <1>1, <1>2

LEMMA ServedInitially == Init => ServedInv
BY TypeInitially DEF Init, IdleTransit, ServedInv, EffortsInv, BehindInv

\* The nine actions of the run on the row in hand.
RowStep(sub) == \/ ConsiderRecurring(sub) \/ ConsiderArrival(sub) \/ LastSent(sub)
                \/ Fetch(sub) \/ FetchFails(sub)
                \/ PutRecurring(sub)
                \/ Filter(sub) \/ Remember(sub) \/ PutArrival(sub)

LEMMA RowIsServed ==
  ASSUME ServedInv, NEW sub \in transit.todo, RowStep(sub)
  PROVE  Finishes(sub) \/ Continues
BY ConsiderIsServed, FetchIsServed, FilterIsServed, AnnounceIsServed DEF RowStep

LEMMA ServedStep == ServedInv /\ [Next]_vars => ServedInv'
<1> SUFFICES ASSUME ServedInv, [Next]_vars
             PROVE  EffortsInv' /\ BehindInv'
  BY TypeStep DEF ServedInv
<1>1. CASE \/ Advance \/ Tick \/ List \/ RunRaises
           \/ (\E date \in Dates : Expire(date))
  BY <1>1, ClockIsServed
<1>2. ASSUME NEW sub \in transit.todo, RowStep(sub)
      PROVE  EffortsInv' /\ BehindInv'
  BY <1>2, RowIsServed, LeavingServed DEF Continues
<1>3. CASE OutsideStep \/ UNCHANGED vars
  BY <1>3, OutsideIsServed
<1> QED
  BY <1>1, <1>2, <1>3 DEF Next, TransitStep, OutsideStep, RowStep

\* The alerts are the last tasks of the queue they are put behind.
LEMMA AlertsAreLast ==
  ASSUME NEW before \in Seq(Task), queue' = before \o AdminAlerts
  PROVE  AdminAlerts = SubSeq(queue', Len(queue') - Len(Admins) + 1, Len(queue'))
BY AdminAlertsType, ConcatProperties, SubSeqProperties

\* A run that ends regularly has asked for every row: it ends behind the last one.
LEMMA EndsBehindARow ==
  ASSUME ServedInv, Next, EndsRegularly, transit.listed # {}
  PROVE  \E sub \in transit.todo : transit.todo = {sub} /\ Finishes(sub)
<1>0. transit.pc # "idle" /\ transit'.pc = "idle" /\ transit'.outcome = "ended"
  BY DEF EndsRegularly
<1>1. ASSUME NEW sub \in transit.todo, RowStep(sub)
      PROVE  transit.todo = {sub} /\ Finishes(sub)
  <2>1. Finishes(sub)
    BY <1>0, <1>1, RowIsServed DEF Continues
  <2>2. transit \in Transit
    BY DEF ServedInv, TypeInv, TransitTypeOK
  <2>3. CASE transit.todo # {sub}
    <3>1. PICK failed : transit' = [transit EXCEPT !.pc = "loop", !.todo = @ \ {sub},
                                                   !.sent = {}, !.left = {}, !.failed = failed]
      BY <2>1, <2>3 DEF Finishes, Leave
    <3> QED
      BY <1>0, <2>2, <3>1 DEF Transit
  <2> QED
    BY <2>1, <2>3
<1>2. ~List
  BY DEF List, ServedInv, BehindInv
<1>3. ~RunRaises /\ ~Restart
  BY <1>0 DEF RunRaises, Restart, IdleTransit
<1>4. ~Tick
  BY <1>0 DEF Tick
<1>5. transit' # transit
  BY <1>0
<1>6. ~Advance /\ ~(\E date \in Dates : Expire(date))
  BY <1>5 DEF Advance, Expire, runVars
<1>7. ~OutsideStep
  BY <1>3, <1>5 DEF OutsideStep, SenderRuns, Subscribe, Edit, Unsubscribe, Account, runVars
<1> QED
  BY <1>1, <1>2, <1>3, <1>4, <1>6, <1>7 DEF Next, TransitStep, OutsideStep, RowStep

\* A train that the set of its day has was announced, or it is lost, or the run
\* in hand is about to announce it.
Accounted(k) == announced[k] > 0 \/ k \in lost \/ k \in Marked
AccountedInv == \A k \in sent_trains : Accounted(k)

ToldInv == ServedInv /\ AccountedInv

LEMMA NothingMarked == transit.pc # "put" => Marked = {}
BY DEF Marked

\* The steps of the run that come before SADD and those that put no train.
LEMMA EarlierIsAccounted ==
  ASSUME AccountedInv, transit.pc # "put", UNCHANGED <<sent_trains, announced, lost>>
  PROVE  AccountedInv'
BY NothingMarked DEF AccountedInv, Accounted

LEMMA AroundIsAccounted ==
  ASSUME AccountedInv, UNCHANGED <<transit, announced, lost>>,
         sent_trains' \subseteq sent_trains
  PROVE  AccountedInv'
<1>1. Marked' = Marked
  BY DEF Marked, InHand, InTurn, Key, Train
<1> QED
  BY <1>1 DEF AccountedInv, Accounted

\* SADD: the train is the one in turn until its task is put.
LEMMA RememberIsAccounted ==
  ASSUME ToldInv, NEW sub \in transit.todo, Remember(sub)
  PROVE  AccountedInv'
<1>0. TypeInv /\ transit \in Transit /\ InHand(sub) /\ transit.pc = "sadd"
  BY DEF ToldInv, ServedInv, TypeInv, TransitTypeOK, Remember
<1>1. PICK i \in transit.left : InTurn(i) /\ sent_trains' = sent_trains \cup {Key(sub, i)}
  BY DEF Remember
<1>2. /\ transit' = [transit EXCEPT !.pc = "put"] /\ UNCHANGED <<announced, lost>>
  BY DEF Remember, aroundRun
<1>3. /\ transit'.pc = "put" /\ transit'.todo = transit.todo /\ transit'.left = transit.left
      /\ transit'.at = transit.at /\ transit'.answers = transit.answers
  BY <1>0, <1>2 DEF Transit
<1>4. InHand(sub)' /\ InTurn(i)' /\ Key(sub, i)' = Key(sub, i)
  BY <1>0, <1>1, <1>3 DEF InHand, InTurn, Key, Train
<1>5. Key(sub, i) \in Sent
  BY <1>0, KeyType
<1>6. Key(sub, i) \in Marked'
  BY <1>3, <1>4, <1>5 DEF Marked
<1>7. \A k \in sent_trains : announced[k] > 0 \/ k \in lost
  BY <1>0, NothingMarked DEF ToldInv, AccountedInv, Accounted
<1> QED
  BY <1>1, <1>2, <1>6, <1>7 DEF AccountedInv, Accounted

\* The put: what was marked is announced.
LEMMA PutIsAccounted ==
  ASSUME ToldInv, NEW sub \in transit.todo, PutArrival(sub)
  PROVE  AccountedInv'
<1>0. /\ TypeInv /\ transit \in Transit /\ InHand(sub) /\ transit.pc = "put"
      /\ announced \in [Sent -> Nat] /\ sent_trains \subseteq Sent
  BY DEF ToldInv, ServedInv, TypeInv, TransitTypeOK, PutArrival
<1>1. PICK i \in transit.left :
        InTurn(i) /\ announced' = [announced EXCEPT ![Key(sub, i)] = @ + 1]
  BY DEF PutArrival
<1>2. UNCHANGED <<sent_trains, lost>>
  BY DEF PutArrival, aroundRun
<1>3. Key(sub, i) \in Sent
  BY <1>0, KeyType
<1>4. \A k \in Marked : k = Key(sub, i)
  <2> SUFFICES ASSUME NEW k \in Marked PROVE k = Key(sub, i)
    OBVIOUS
  <2>1. PICK other \in transit.todo, j \in transit.left :
          InHand(other) /\ InTurn(j) /\ k = Key(other, j)
    BY DEF Marked
  <2>2. other = sub
    BY <1>0, <2>1, OneInHand
  <2>3. i \in Nat /\ j \in Nat /\ i <= j /\ j <= i
    BY <1>0, <1>1, <2>1 DEF Transit, InTurn
  <2> QED
    BY <2>1, <2>2, <2>3
<1>5. announced'[Key(sub, i)] > 0
  BY <1>0, <1>1, <1>3
<1>6. ASSUME NEW k \in sent_trains, k # Key(sub, i)
      PROVE  announced'[k] > 0 \/ k \in lost'
  <2>1. announced[k] > 0 \/ k \in lost
    BY <1>4, <1>6 DEF ToldInv, AccountedInv, Accounted
  <2>2. announced'[k] = announced[k]
    BY <1>0, <1>1, <1>6
  <2> QED
    BY <1>2, <2>1, <2>2
<1> QED
  BY <1>2, <1>5, <1>6 DEF AccountedInv, Accounted

\* The run is cut: what was marked is lost.
LEMMA CutIsAccounted ==
  ASSUME ToldInv, RunRaises \/ Restart
  PROVE  AccountedInv'
<1>1. CASE /\ UNCHANGED <<sent_trains, announced>> /\ lost' = lost \cup Marked
  BY <1>1 DEF ToldInv, AccountedInv, Accounted
<1>2. CASE AddedUnanswered /\ UNCHANGED announced
  <2>1. PICK k : sent_trains' = sent_trains \cup {k} /\ lost' = lost \cup {k}
    BY <1>2 DEF AddedUnanswered
  <2>2. Marked = {}
    BY <1>2, NothingMarked DEF AddedUnanswered
  <2> QED
    BY <1>2, <2>1, <2>2 DEF ToldInv, AccountedInv, Accounted
<1> QED
  BY <1>1, <1>2 DEF RunRaises, Restart

LEMMA ToldStep == ToldInv /\ [Next]_vars => ToldInv'
<1> SUFFICES ASSUME ToldInv, [Next]_vars
             PROVE  AccountedInv'
  BY ServedStep DEF ToldInv
<1>0. AccountedInv /\ transit \in Transit
  BY DEF ToldInv, ServedInv, TypeInv, TransitTypeOK
<1>1. CASE Tick
  <2>1. CASE transit.pc = "idle"
    BY <1>0, <1>1, <2>1, EarlierIsAccounted DEF Tick
  <2>2. CASE transit.pc # "idle"
    BY <1>0, <1>1, <2>2, AroundIsAccounted DEF Tick
  <2> QED
    BY <2>1, <2>2
<1>2. CASE Advance \/ (\E date \in Dates : Expire(date)) \/ UNCHANGED vars
  BY <1>0, <1>2, AroundIsAccounted DEF Advance, Expire, aroundRun, runVars, vars
<1>3. CASE List
  BY <1>0, <1>3, EarlierIsAccounted DEF List, aroundRun
<1>4. ASSUME NEW sub \in transit.todo, RowStep(sub), ~Remember(sub), ~PutArrival(sub)
      PROVE  AccountedInv'
  <2>1. transit.pc # "put" /\ UNCHANGED <<sent_trains, announced, lost>>
    BY <1>4 DEF RowStep, ConsiderRecurring, ConsiderArrival, LastSent, Fetch, FetchFails,
                PutRecurring, Filter, aroundRun
  <2> QED
    BY <1>0, <2>1, EarlierIsAccounted
<1>5. ASSUME NEW sub \in transit.todo, Remember(sub) \/ PutArrival(sub)
      PROVE  AccountedInv'
  BY <1>5, RememberIsAccounted, PutIsAccounted
<1>6. CASE RunRaises \/ Restart
  BY <1>6, CutIsAccounted
<1>7. CASE OutsideStep /\ ~Restart
  <2>1. UNCHANGED runVars
    BY <1>7 DEF OutsideStep, SenderRuns, Subscribe, Edit, Unsubscribe, Account
  <2> QED
    BY <1>0, <2>1, AroundIsAccounted DEF runVars
<1> QED
  BY <1>1, <1>2, <1>3, <1>4, <1>5, <1>6, <1>7 DEF Next, TransitStep, OutsideStep, RowStep

LEMMA ToldInitially == Init => ToldInv
BY ServedInitially DEF Init, ToldInv, AccountedInv

\* F-06 isolates a failing crawler: when a run ends regularly, every train that
\* is near to an arrival subscription in its window has been put on the queue
\* for it that day, but for those a run that was cut remembered and never put;
\* where the subscription's own fetch failed the administrators are alerted.
THEOREM FailuresAreIsolated == Spec => ServedOrAlerted
<1> DEFINE Served(sub) ==
             ~Recurring(sub) /\ InWindow(sub.config, transit.at) =>
               IF HasFailed(sub) THEN AlertsPut ELSE HasTold(sub)
           Step == EndsRegularly => \A sub \in transit.listed : Served(sub)
<1>1. ToldInv /\ ToldInv' /\ [Next]_vars => [Step]_vars
  <2> SUFFICES ASSUME ToldInv, ToldInv', Next,
                      EndsRegularly, NEW sub \in transit.listed, Asks(sub)
               PROVE  IF HasFailed(sub) THEN AlertsPut ELSE HasTold(sub)
    BY DEF Asks
  <2>0. ServedInv
    BY DEF ToldInv
  <2>1. PICK row \in transit.todo : transit.todo = {row} /\ Finishes(row)
    BY <2>0, EndsBehindARow
  <2>2. PICK before \in Seq(Task), failed \in SUBSET NotificationIds :
          /\ Leave(row, before, failed) /\ UNCHANGED sent_trains
          /\ IF transit.pc = "fetch" THEN failed = transit.failed \cup {row.id}
                                     ELSE /\ failed = transit.failed
                                          /\ Asks(row) => Settled(row)
    BY <2>1 DEF Finishes
  <2>3. CASE HasFailed(sub)
    <3>1. failed # {}
      BY <2>2, <2>3 DEF HasFailed
    <3>2. queue' = before \o AdminAlerts
      BY <2>1, <2>2, <3>1 DEF Leave
    <3> QED
      BY <2>3, <3>2, AlertsAreLast DEF AlertsPut
  <2>4. CASE ~HasFailed(sub)
    <3>1. Settled(sub)
      <4>1. CASE sub = row
        <5>1. InHand(row)
          BY <2>0, <2>1, RowType DEF InHand, ServedInv
        <5> QED
          BY <2>2, <2>4, <4>1, <5>1 DEF HasFailed
      <4>2. CASE sub # row
        BY <2>0, <2>1, <4>2 DEF ServedInv, BehindInv
      <4> QED
        BY <4>1, <4>2
    <3>2. transit.answers[sub.config.station] # NoAnswer /\ Untold(sub) = {}
      BY <2>4, <3>1 DEF Settled, HasFailed
    <3>3. ASSUME NEW i \in Candidates(transit.answers[sub.config.station], sub.config, {},
                                     transit.at)
          PROVE  announced'[Key(sub, i)] > 0 \/ Key(sub, i) \in lost'
      <4>1. Train(sub, i) \in Today(sub)
        BY <3>2, <3>3 DEF Untold, Candidates, Near, Train
      <4>2. Key(sub, i) \in sent_trains'
        BY <2>2, <4>1 DEF Today, SentOn, Key
      <4>3. Marked' = {}
        BY DEF EndsRegularly, Marked
      <4> QED
        BY <4>2, <4>3 DEF ToldInv, AccountedInv, Accounted
    <3> QED
      BY <2>4, <3>2, <3>3 DEF HasTold
  <2> QED
    BY <2>3, <2>4
<1> QED
  BY <1>1, ToldInitially, ToldStep, PTL DEF Spec, ServedOrAlerted
=============================================================================
