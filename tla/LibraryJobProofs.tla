-------------------------- MODULE LibraryJobProofs --------------------------
(***************************************************************************)
(* Theorems about LibraryJob, for every set of users, subscriptions and    *)
(* rooms, every number of seats and every combination of faults.           *)
(***************************************************************************)
EXTENDS LibraryJob, SenderProofs

USE IdsAssumption, OwnerAssumption, ReloginAssumption, FaultsAssumption,
    AdminsAssumption, SeatsAssumption, TroublesAssumption

Cells == NotificationIds \X Rooms
Keys  == Users \X Rooms

\* The parts of LibTypeOK about the job and its surroundings.
JobTypeOK == /\ alert_state \in [Keys -> {"none", "above", "below"}]
             /\ library \in Library
             /\ library.pc # "idle" => library.subs # {}
             /\ phase \in [Cells -> Phases]

EnvTypeOK == /\ config \in [NotificationIds -> Config]
             /\ seats \in Snapshots
             /\ events \in Nat

\* (A fact about one state; its primed form is the same fact about the next.)
LEMMA SplitType ==
  /\ LibTypeOK <=> DbTypeOK /\ SenderTypeOK /\ JobTypeOK /\ EnvTypeOK
  /\ LibTypeOK' <=> DbTypeOK' /\ SenderTypeOK' /\ JobTypeOK' /\ EnvTypeOK'
BY DEF LibTypeOK, JobTypeOK, EnvTypeOK, Cells, Keys

LEMMA KeyType ==
  ASSUME NEW sub \in Sub
  PROVE  Key(sub) \in Keys /\ Cell(sub) \in Cells
BY DEF Sub, Config, Key, Cell, Keys, Cells

LEMMA IdleType == IdleLibrary \in Library /\ IdleLibrary.pc = "idle"
BY DEF IdleLibrary, Library, Snapshots

LEMMA LeaveType ==
  ASSUME library \in Library, NEW sub \in library.subs, Leave(sub)
  PROVE  library' \in Library /\ (library'.pc # "idle" => library'.subs # {})
<1>1. CASE library.subs = {sub}
  BY <1>1, IdleType DEF Leave
<1>2. CASE library.subs # {sub}
  <2>1. library' = [library EXCEPT !.pc = "loop", !.subs = @ \ {sub}, !.mark = "above"]
    BY <1>2 DEF Leave
  <2>2. library.subs \ {sub} # {}
    BY <1>2
  <2> QED
    BY <2>1, <2>2 DEF Library
<1> QED
  BY <1>1, <1>2

LEMMA FramesKeepType ==
  /\ UNCHANGED dbVars => (DbTypeOK => DbTypeOK')
  /\ UNCHANGED senderVars => (SenderTypeOK => SenderTypeOK')
  /\ UNCHANGED <<envVars, events>> => (EnvTypeOK => EnvTypeOK')
BY DEF dbVars, DbTypeOK, senderVars, SenderTypeOK, Holding, envVars, EnvTypeOK

\* Putting tasks on the queue disturbs nothing else of the pipeline.
LEMMA PutKeepsSenderType ==
  ASSUME SenderTypeOK, NEW tasks \in Seq(Task), queue' = queue \o tasks,
         UNCHANGED <<sender, in_flight, immediate_inflight, delivered>>
  PROVE  SenderTypeOK'
<1>1. queue' \in Seq(Task)
  BY ConcatProperties DEF SenderTypeOK
<1> QED
  BY <1>1 DEF SenderTypeOK, Holding

LEMMA MarkLostType ==
  ASSUME phase \in [Cells -> Phases], MarkLost
  PROVE  phase' \in [Cells -> Phases]
BY DEF MarkLost, Cells, Phases

LEMMA LibraryStepKeepsType ==
  ASSUME LibTypeOK, LibraryStep
  PROVE  LibTypeOK'
<1> USE FramesKeepType, SplitType
<1>0. /\ DbTypeOK /\ SenderTypeOK /\ JobTypeOK /\ EnvTypeOK
      /\ library \in Library /\ library.subs \subseteq Sub
  BY DEF JobTypeOK, Library
<1>1. CASE Poll
  <2> DEFINE subs == {[id |-> n, config |-> config[n]] :
                        n \in {n \in NotificationIds : Listed(n)}}
  <2>1. subs \in SUBSET Sub
    BY <1>0 DEF EnvTypeOK, Sub
  <2>2. library' \in Library /\ library'.subs # {}
    BY <1>0, <1>1, <2>1 DEF Poll, Library
  <2> QED
    BY <1>0, <1>1, <2>2 DEF Poll, JobTypeOK
<1>2. CASE Snapshot
  <2>1. seats \in Snapshots
    BY <1>0 DEF EnvTypeOK
  <2>2. library' \in Library
    BY <1>0, <1>2, <2>1 DEF Snapshot, Library
  <2>3. library.subs # {}
    BY <1>0, <1>2 DEF Snapshot, JobTypeOK
  <2> QED
    BY <1>0, <1>2, <2>2, <2>3 DEF Snapshot, JobTypeOK, Library
<1>3. ASSUME NEW sub \in library.subs, Alert(sub)
      PROVE  LibTypeOK'
  <2> DEFINE task == [notification |-> sub.id, request |-> NoId,
                      user |-> NotificationOwner[sub.id]]
  <2>1. task \in Task
    BY <1>0 DEF Sub, Task
  <2>2. SenderTypeOK'
    <3>1. queue' \in Seq(Task)
      BY <1>0, <1>3, <2>1, AppendProperties DEF Alert, Put, SenderTypeOK
    <3> QED
      BY <1>0, <1>3, <3>1 DEF Alert, SenderTypeOK, Holding
  <2>3. JobTypeOK'
    BY <1>0, <1>3, KeyType DEF Alert, JobTypeOK, Library, Phases
  <2> QED
    BY <1>0, <1>3, <2>2, <2>3 DEF Alert
<1>4. ASSUME NEW sub \in library.subs, Recover(sub)
      PROVE  LibTypeOK'
  <2>1. JobTypeOK'
    BY <1>0, <1>4, KeyType DEF Recover, JobTypeOK, Library, Phases
  <2> QED
    BY <1>0, <1>4, <2>1 DEF Recover
<1>5. ASSUME NEW sub \in library.subs, Skip(sub)
      PROVE  LibTypeOK'
  <2>1. library' \in Library /\ (library'.pc # "idle" => library'.subs # {})
    BY <1>0, <1>5, LeaveType DEF Skip
  <2>2. phase' \in [Cells -> Phases]
    BY <1>0, <1>5 DEF Skip, JobTypeOK, Phases
  <2> QED
    BY <1>0, <1>5, <2>1, <2>2 DEF Skip, JobTypeOK
<1>6. ASSUME NEW sub \in library.subs, Mark(sub)
      PROVE  LibTypeOK'
  <2>1. library' \in Library /\ (library'.pc # "idle" => library'.subs # {})
    BY <1>0, <1>6, LeaveType DEF Mark
  <2>2. alert_state' \in [Keys -> {"none", "above", "below"}]
    BY <1>0, <1>6 DEF Mark, JobTypeOK, Library
  <2> QED
    BY <1>0, <1>6, <2>1, <2>2 DEF Mark, JobTypeOK
<1> QED
  BY <1>1, <1>2, <1>3, <1>4, <1>5, <1>6 DEF LibraryStep

\* The faults of the job, the Sender and the restart.
LEMMA FaultsKeepType ==
  ASSUME LibTypeOK,
         \/ SnapshotFails \/ RedisRaises \/ SenderRuns \/ Restart
         \/ \E k \in Users \X Rooms : Expire(k)
  PROVE  LibTypeOK'
<1> USE FramesKeepType, SplitType
<1>0. /\ DbTypeOK /\ SenderTypeOK /\ JobTypeOK /\ EnvTypeOK
      /\ library \in Library /\ library.subs \subseteq Sub
  BY DEF JobTypeOK, Library
<1>1. Counted /\ UNCHANGED envVars => EnvTypeOK'
  BY <1>0 DEF Counted, EnvTypeOK, envVars
<1>2. CASE SnapshotFails
  <2>1. SenderTypeOK'
    BY <1>0, <1>2, AdminAlertsType, PutKeepsSenderType DEF SnapshotFails
  <2>2. JobTypeOK'
    BY <1>0, <1>2, IdleType DEF SnapshotFails, JobTypeOK
  <2> QED
    BY <1>0, <1>1, <1>2, <2>1, <2>2 DEF SnapshotFails
<1>3. CASE RedisRaises
  <2>1. alert_state' \in [Keys -> {"none", "above", "below"}]
    <3>1. CASE UNCHANGED alert_state
      BY <1>0, <3>1 DEF JobTypeOK
    <3>2. ASSUME NEW sub \in library.subs,
                 alert_state' = [alert_state EXCEPT ![Key(sub)] = library.mark]
          PROVE  alert_state' \in [Keys -> {"none", "above", "below"}]
      BY <1>0, <3>2 DEF JobTypeOK, Library
    <3> QED
      BY <1>3, <3>1, <3>2 DEF RedisRaises
  <2>2. phase' \in [Cells -> Phases]
    BY <1>0, <1>3, MarkLostType DEF RedisRaises, JobTypeOK
  <2> QED
    BY <1>0, <1>1, <1>3, <2>1, <2>2, IdleType DEF RedisRaises, JobTypeOK
<1>4. CASE SenderRuns
  <2>1. DbTypeOK' /\ SenderTypeOK'
    BY <1>0, <1>4, SenderStepKeepsType DEF SenderRuns
  <2>2. phase' \in [Cells -> Phases]
    BY <1>0, <1>4 DEF SenderRuns, JobTypeOK, Cells, Phases
  <2> QED
    BY <1>0, <1>4, <2>1, <2>2 DEF SenderRuns, JobTypeOK
<1>5. CASE Restart
  <2>1. SenderTypeOK'
    BY <1>0, <1>5, SenderLostType DEF Restart
  <2>2. phase' \in [Cells -> Phases]
    BY <1>0, <1>5, MarkLostType DEF Restart, JobTypeOK
  <2> QED
    BY <1>0, <1>1, <1>5, <2>1, <2>2, IdleType DEF Restart, JobTypeOK
<1>6. ASSUME NEW k \in Users \X Rooms, Expire(k)
      PROVE  LibTypeOK'
  <2>1. alert_state' \in [Keys -> {"none", "above", "below"}]
    BY <1>0, <1>6 DEF Expire, JobTypeOK
  <2>2. phase' \in [Cells -> Phases]
    BY <1>0, <1>6 DEF Expire, JobTypeOK, Cells, Phases
  <2> QED
    BY <1>0, <1>1, <1>6, <2>1, <2>2 DEF Expire, JobTypeOK
<1> QED
  BY <1>2, <1>3, <1>4, <1>5, <1>6

\* What users and readers do around the job.
UserStep ==
  \/ \E r \in Rooms, level \in Levels \cup {Absent} : SeatsChange(r, level)
  \/ \E n \in NotificationIds :
       \/ \E c \in Config : \/ Subscribe(n, c)
                            \/ \E flag \in {"enabled", "disabled"} : Edit(n, flag, c)
       \/ Unsubscribe(n)
  \/ \E u \in Users : Account(u)

LEMMA UserStepKeepsType ==
  ASSUME LibTypeOK, UserStep
  PROVE  LibTypeOK'
<1> USE FramesKeepType, SplitType
<1>0. DbTypeOK /\ SenderTypeOK /\ JobTypeOK /\ EnvTypeOK
  OBVIOUS
<1>a. UNCHANGED <<alert_state, library, phase>> => JobTypeOK'
  BY <1>0 DEF JobTypeOK
<1>1. ASSUME NEW r \in Rooms, NEW level \in Levels \cup {Absent}, SeatsChange(r, level)
      PROVE  LibTypeOK'
  <2>1. EnvTypeOK'
    BY <1>0, <1>1 DEF SeatsChange, Counted, EnvTypeOK, Snapshots
  <2> QED
    BY <1>0, <1>1, <1>a, <2>1 DEF SeatsChange
<1>2. ASSUME NEW n \in NotificationIds, NEW c \in Config, Subscribe(n, c)
      PROVE  LibTypeOK'
  <2>1. EnvTypeOK'
    BY <1>0, <1>2 DEF Subscribe, Counted, EnvTypeOK
  <2>2. phase' \in [Cells -> Phases]
    BY <1>0, <1>2 DEF Subscribe, JobTypeOK, Cells, Phases
  <2>3. JobTypeOK'
    BY <1>0, <1>2, <2>2 DEF Subscribe, JobTypeOK
  <2> QED
    BY <1>0, <1>2, <2>1, <2>3, SubscriptionKeepsDbType DEF Subscribe
<1>3. ASSUME NEW n \in NotificationIds, NEW c \in Config,
             NEW flag \in {"enabled", "disabled"}, Edit(n, flag, c)
      PROVE  LibTypeOK'
  <2>1. EnvTypeOK'
    BY <1>0, <1>3 DEF Edit, Counted, EnvTypeOK
  <2>2. DbTypeOK'
    BY <1>0, <1>3 DEF Edit, DbTypeOK
  <2> QED
    BY <1>0, <1>3, <1>a, <2>1, <2>2 DEF Edit
<1>4. ASSUME NEW n \in NotificationIds, Unsubscribe(n)
      PROVE  LibTypeOK'
  <2>1. EnvTypeOK'
    BY <1>0, <1>4 DEF Unsubscribe, Counted, EnvTypeOK, envVars
  <2> QED
    BY <1>0, <1>4, <1>a, <2>1, SubscriptionKeepsDbType DEF Unsubscribe
<1>5. ASSUME NEW u \in Users, Account(u)
      PROVE  LibTypeOK'
  BY <1>0, <1>5, <1>a, AccountKeepsDbType DEF Account
<1> QED
  BY <1>1, <1>2, <1>3, <1>4, <1>5 DEF UserStep

LEMMA LibInitType == Init => LibTypeOK
<1> SUFFICES ASSUME Init PROVE LibTypeOK
  OBVIOUS
<1>1. DbTypeOK
  BY DEF Init, DbInit, DbTypeOK
<1>2. SenderTypeOK
  BY DEF Init, SenderInit, SenderTypeOK, SenderState, IdleSender, MaxAttempts, Holding
<1>3. JobTypeOK
  BY IdleType DEF Init, JobTypeOK, Keys, Cells, Phases
<1>4. EnvTypeOK
  BY DEF Init, EnvTypeOK
<1> QED
  BY <1>1, <1>2, <1>3, <1>4, SplitType

LEMMA LibStepType == LibTypeOK /\ [Next]_vars => LibTypeOK'
<1> SUFFICES ASSUME LibTypeOK, [Next]_vars
             PROVE  LibTypeOK'
  OBVIOUS
<1>1. CASE LibraryStep
  BY <1>1, LibraryStepKeepsType
<1>2. CASE \/ SnapshotFails \/ RedisRaises \/ SenderRuns \/ Restart
           \/ \E k \in Users \X Rooms : Expire(k)
  BY <1>2, FaultsKeepType
<1>3. CASE UserStep
  BY <1>3, UserStepKeepsType
<1>4. CASE UNCHANGED vars
  <2>1. UNCHANGED <<dbVars, senderVars, envVars, alert_state, library, phase, events>>
    BY <1>4 DEF vars
  <2> QED
    BY <2>1, FramesKeepType, SplitType DEF JobTypeOK
<1> QED
  BY <1>1, <1>2, <1>3, <1>4 DEF Next, UserStep

\* Every reachable state of the library job and its surroundings is typed.
THEOREM LibTypeCorrect == Spec => []LibTypeOK
BY LibInitType, LibStepType, PTL DEF Spec

-----------------------------------------------------------------------------
(* Alerts and marks.                                                       *)

\* Without this assumption two subscriptions share a key, and AlertsAreMarked
\* fails (see the run LibraryShared).
OneSubscriptionPerUser ==
  \A m, n \in NotificationIds : NotificationOwner[m] = NotificationOwner[n] => m = n

\* A list has one row per subscription.
RowsAreDistinct == \A s, t \in library.subs : s.id = t.id => s = t

\* When the SET of a recovery is due, the subscription in hand has recovered.
RecoveryIsKnown ==
  library.pc = "mark" /\ library.mark = "above" =>
    \A sub \in library.subs : InHand(sub) => phase[Cell(sub)] \notin {"queued", "told"}

MarkInv == LibTypeOK /\ RowsAreDistinct /\ AlertsAreMarked /\ RecoveryIsKnown

\* The key under which the evaluation of a cell is stored.
KeyOf(k) == <<NotificationOwner[k[1]], k[2]>>

LEMMA KeysAreApart ==
  ASSUME OneSubscriptionPerUser, NEW sub \in Sub, NEW k \in Cells
  PROVE  /\ KeyOf(Cell(sub)) = Key(sub)
         /\ KeyOf(k) = Key(sub) => k = Cell(sub)
<1>1. /\ k = <<k[1], k[2]>> /\ k[1] \in NotificationIds
      /\ sub.id \in NotificationIds
  BY DEF Cells, Sub
<1> QED
  BY <1>1 DEF OneSubscriptionPerUser, KeyOf, Key, Cell

LEMMA InHandIsUnique ==
  ASSUME LibTypeOK, RowsAreDistinct, NEW s, NEW t, InHand(s), InHand(t)
  PROVE  s = t
<1>1. s \in library.subs /\ t \in library.subs /\ s.id \in Nat /\ t.id \in Nat
  BY DEF InHand, LibTypeOK, Library, Sub
<1>2. s.id <= t.id /\ t.id <= s.id
  BY <1>1 DEF InHand
<1> QED
  BY <1>1, <1>2 DEF RowsAreDistinct

LEMMA LeaveKeepsRows ==
  ASSUME LibTypeOK, RowsAreDistinct, NEW sub \in library.subs, Leave(sub)
  PROVE  RowsAreDistinct' /\ library'.pc # "mark"
<1>1. library'.subs \subseteq library.subs /\ library'.pc # "mark"
  BY DEF Leave, IdleLibrary, LibTypeOK, Library
<1> QED
  BY <1>1 DEF RowsAreDistinct

\* When no SET is due before the step or after it.
LEMMA IdleMarks ==
  ASSUME library'.pc # "mark", RowsAreDistinct',
         \A k \in Cells : phase'[k] \in {"queued", "told"}
                           => alert_state'[KeyOf(k)] = "below"
  PROVE  RowsAreDistinct' /\ AlertsAreMarked' /\ RecoveryIsKnown'
BY DEF AlertsAreMarked, RecoveryIsKnown, KeyOf, Cells

LEMMA TickKeepsMarks ==
  ASSUME OneSubscriptionPerUser, MarkInv, LibraryStep
  PROVE  RowsAreDistinct' /\ AlertsAreMarked' /\ RecoveryIsKnown'
<1>0. /\ LibTypeOK /\ RowsAreDistinct /\ AlertsAreMarked /\ RecoveryIsKnown
      /\ library \in Library /\ library.subs \subseteq Sub
      /\ alert_state \in [Keys -> {"none", "above", "below"}]
      /\ phase \in [Cells -> Phases]
  BY DEF MarkInv, LibTypeOK, Library, Keys, Cells
<1>a. ASSUME library.pc # "mark", NEW k \in Cells, phase[k] \in {"queued", "told"}
      PROVE  alert_state[KeyOf(k)] = "below"
  BY <1>0, <1>a DEF AlertsAreMarked, MarkDue, KeyOf, Cells
<1>1. CASE Poll \/ Snapshot
  <2>1. RowsAreDistinct' /\ library'.pc # "mark" /\ library.pc # "mark"
        /\ UNCHANGED <<alert_state, phase>>
    <3>1. CASE Poll
      BY <1>0, <3>1 DEF Poll, RowsAreDistinct, Library
    <3>2. CASE Snapshot
      BY <1>0, <3>2 DEF Snapshot, RowsAreDistinct, Library
    <3> QED
      BY <1>1, <3>1, <3>2
  <2> QED
    BY <1>a, <2>1, IdleMarks
<1>2. ASSUME NEW sub \in library.subs, Alert(sub)
      PROVE  RowsAreDistinct' /\ AlertsAreMarked' /\ RecoveryIsKnown'
  <2>1. library' = [library EXCEPT !.pc = "mark", !.mark = "below"]
    BY <1>2 DEF Alert
  <2>2. /\ library'.pc = "mark" /\ library'.mark = "below"
        /\ library'.subs = library.subs
    BY <1>0, <2>1 DEF Library
  <2>3. RowsAreDistinct' /\ RecoveryIsKnown'
    BY <1>0, <2>2 DEF RowsAreDistinct, RecoveryIsKnown
  <2>4. MarkDue(Cell(sub))'
    BY <1>2, <2>2 DEF Alert, Turn, MarkDue, InHand, Cell
  <2>5. ASSUME NEW k \in Cells, phase'[k] \in {"queued", "told"}
        PROVE  alert_state'[KeyOf(k)] = "below" \/ MarkDue(k)'
    <3>1. CASE k = Cell(sub)
      BY <2>4, <3>1
    <3>2. CASE k # Cell(sub)
      <4>1. phase[k] \in {"queued", "told"}
        BY <1>0, <1>2, <2>5, <3>2 DEF Alert
      <4> QED
        BY <1>2, <1>a, <4>1 DEF Alert, Turn
    <3> QED
      BY <3>1, <3>2
  <2> QED
    BY <2>3, <2>5 DEF AlertsAreMarked, KeyOf, Cells
<1>3. ASSUME NEW sub \in library.subs, Recover(sub)
      PROVE  RowsAreDistinct' /\ AlertsAreMarked' /\ RecoveryIsKnown'
  <2>1. library' = [library EXCEPT !.pc = "mark", !.mark = "above"]
    BY <1>3 DEF Recover
  <2>2. library'.pc = "mark" /\ library'.subs = library.subs
    BY <1>0, <2>1 DEF Library
  <2>3. RowsAreDistinct'
    BY <1>0, <2>2 DEF RowsAreDistinct
  <2>4. phase'[Cell(sub)] = "quiet"
    BY <1>0, <1>3, KeyType DEF Recover
  <2>5. RecoveryIsKnown'
    <3>1. ASSUME NEW s \in library'.subs, InHand(s)'
          PROVE  s = sub
      <4>1. InHand(s) /\ InHand(sub)
        BY <1>3, <2>2, <3>1 DEF InHand, Recover, Turn
      <4> QED
        BY <1>0, <4>1, InHandIsUnique
    <3> QED
      BY <2>4, <3>1 DEF RecoveryIsKnown, Cell
  <2>6. ASSUME NEW k \in Cells, phase'[k] \in {"queued", "told"}
        PROVE  alert_state'[KeyOf(k)] = "below"
    <3>1. phase[k] \in {"queued", "told"}
      BY <1>0, <1>3, <2>4, <2>6 DEF Recover
    <3> QED
      BY <1>3, <1>a, <3>1 DEF Recover, Turn
  <2> QED
    BY <2>3, <2>5, <2>6 DEF AlertsAreMarked, KeyOf, Cells
<1>4. ASSUME NEW sub \in library.subs, Skip(sub)
      PROVE  RowsAreDistinct' /\ AlertsAreMarked' /\ RecoveryIsKnown'
  <2>1. RowsAreDistinct' /\ library'.pc # "mark"
    BY <1>0, <1>4, LeaveKeepsRows DEF Skip
  <2>2. ASSUME NEW k \in Cells, phase'[k] \in {"queued", "told"}
        PROVE  alert_state'[KeyOf(k)] = "below"
    <3>1. phase[k] \in {"queued", "told"}
      BY <1>0, <1>4, <2>2 DEF Skip
    <3> QED
      BY <1>4, <1>a, <3>1 DEF Skip, Turn
  <2> QED
    BY <2>1, <2>2, IdleMarks
<1>5. ASSUME NEW sub \in library.subs, Mark(sub)
      PROVE  RowsAreDistinct' /\ AlertsAreMarked' /\ RecoveryIsKnown'
  <2>1. RowsAreDistinct' /\ library'.pc # "mark"
    BY <1>0, <1>5, LeaveKeepsRows DEF Mark
  <2>2. ASSUME NEW k \in Cells, phase'[k] \in {"queued", "told"}
        PROVE  alert_state'[KeyOf(k)] = "below"
    <3>0. /\ phase[k] \in {"queued", "told"}
          /\ library.pc = "mark" /\ InHand(sub) /\ sub \in Sub
          /\ alert_state' = [alert_state EXCEPT ![Key(sub)] = library.mark]
          /\ Key(sub) \in Keys
      BY <1>0, <1>5, <2>2, KeyType DEF Mark
    <3>1. CASE k = Cell(sub)
      <4>1. library.mark = "below"
        BY <1>0, <3>0, <3>1 DEF RecoveryIsKnown, Library
      <4> QED
        BY <1>0, <3>0, <3>1, <4>1, KeysAreApart
    <3>2. CASE k # Cell(sub)
      <4>1. ~MarkDue(k)
        BY <1>0, <3>0, <3>2, InHandIsUnique DEF MarkDue
      <4>2. alert_state[KeyOf(k)] = "below"
        BY <1>0, <3>0, <4>1 DEF AlertsAreMarked, KeyOf, Cells
      <4>3. KeyOf(k) # Key(sub)
        BY <3>0, <3>2, KeysAreApart
      <4> QED
        BY <1>0, <3>0, <4>2, <4>3
    <3> QED
      BY <3>1, <3>2
  <2> QED
    BY <2>1, <2>2, IdleMarks
<1> QED
  BY <1>1, <1>2, <1>3, <1>4, <1>5 DEF LibraryStep

\* A step that leaves the job and its marks alone.
LEMMA FrameKeepsMarks ==
  ASSUME RowsAreDistinct, AlertsAreMarked, RecoveryIsKnown,
         UNCHANGED <<library, alert_state>>,
         \A k \in Cells : phase'[k] \in {"queued", "told"}
                           => phase[k] \in {"queued", "told"},
         library \in Library, library.subs \subseteq Sub
  PROVE  RowsAreDistinct' /\ AlertsAreMarked' /\ RecoveryIsKnown'
<1>1. RowsAreDistinct'
  BY DEF RowsAreDistinct
<1>2. \A k \in Cells : MarkDue(k) => MarkDue(k)'
  BY DEF MarkDue, InHand, Cell
<1>3. AlertsAreMarked'
  BY <1>2 DEF AlertsAreMarked, Cells
<1>4. RecoveryIsKnown'
  BY KeyType DEF RecoveryIsKnown, InHand, Cell
<1> QED
  BY <1>1, <1>3, <1>4

\* A run that ends with its mark lost forgets only the alert in hand.
LEMMA LossKeepsMarks ==
  ASSUME MarkInv, library' = IdleLibrary, UNCHANGED alert_state, MarkLost
  PROVE  RowsAreDistinct' /\ AlertsAreMarked' /\ RecoveryIsKnown'
<1>1. RowsAreDistinct' /\ library'.pc # "mark"
  BY DEF RowsAreDistinct, IdleLibrary
<1>2. ASSUME NEW k \in Cells, phase'[k] \in {"queued", "told"}
      PROVE  alert_state'[KeyOf(k)] = "below"
  <2>1. ~MarkDue(k) /\ phase[k] \in {"queued", "told"}
    BY <1>2 DEF MarkLost, Cells
  <2> QED
    BY <2>1 DEF MarkInv, AlertsAreMarked, KeyOf, Cells
<1> QED
  BY <1>1, <1>2, IdleMarks

LEMMA FaultsKeepMarks ==
  ASSUME OneSubscriptionPerUser, MarkInv,
         \/ SnapshotFails \/ RedisRaises \/ SenderRuns \/ Restart
         \/ \E k \in Users \X Rooms : Expire(k)
  PROVE  RowsAreDistinct' /\ AlertsAreMarked' /\ RecoveryIsKnown'
<1>0. /\ LibTypeOK /\ RowsAreDistinct /\ AlertsAreMarked /\ RecoveryIsKnown
      /\ library \in Library /\ library.subs \subseteq Sub
      /\ alert_state \in [Keys -> {"none", "above", "below"}]
      /\ phase \in [Cells -> Phases]
  BY DEF MarkInv, LibTypeOK, Library, Keys, Cells
<1>1. CASE SnapshotFails
  <2>1. RowsAreDistinct' /\ library'.pc # "mark"
    BY <1>1 DEF SnapshotFails, RowsAreDistinct, IdleLibrary
  <2>2. library.pc # "mark" /\ UNCHANGED <<alert_state, phase>>
    BY <1>1 DEF SnapshotFails
  <2>3. \A k \in Cells : phase[k] \in {"queued", "told"}
                          => alert_state[KeyOf(k)] = "below"
    BY <1>0, <2>2 DEF AlertsAreMarked, MarkDue, KeyOf, Cells
  <2> QED
    BY <2>1, <2>2, <2>3, IdleMarks
<1>2. CASE RedisRaises
  <2>1. library' = IdleLibrary
    BY <1>2 DEF RedisRaises
  <2>2. CASE UNCHANGED alert_state /\ MarkLost
    BY <2>1, <2>2, LossKeepsMarks
  <2>3. ASSUME NEW sub \in library.subs, library.pc = "mark", InHand(sub),
               alert_state' = [alert_state EXCEPT ![Key(sub)] = library.mark],
               UNCHANGED phase
        PROVE  RowsAreDistinct' /\ AlertsAreMarked' /\ RecoveryIsKnown'
    <3>1. RowsAreDistinct' /\ library'.pc # "mark"
      BY <2>1 DEF RowsAreDistinct, IdleLibrary
    <3>2. ASSUME NEW k \in Cells, phase'[k] \in {"queued", "told"}
          PROVE  alert_state'[KeyOf(k)] = "below"
      <4>0. phase[k] \in {"queued", "told"} /\ sub \in Sub /\ Key(sub) \in Keys
        BY <1>0, <2>3, <3>2, KeyType
      <4>1. CASE k = Cell(sub)
        <5>1. library.mark = "below"
          BY <1>0, <2>3, <4>0, <4>1 DEF RecoveryIsKnown, Library
        <5> QED
          BY <1>0, <2>3, <4>0, <4>1, <5>1, KeysAreApart
      <4>2. CASE k # Cell(sub)
        <5>1. ~MarkDue(k)
          BY <1>0, <2>3, <4>2, InHandIsUnique DEF MarkDue
        <5>2. alert_state[KeyOf(k)] = "below"
          BY <1>0, <4>0, <5>1 DEF AlertsAreMarked, KeyOf, Cells
        <5>3. KeyOf(k) # Key(sub)
          BY <4>0, <4>2, KeysAreApart
        <5> QED
          BY <1>0, <2>3, <4>0, <5>2, <5>3
      <4> QED
        BY <4>1, <4>2
    <3> QED
      BY <3>1, <3>2, IdleMarks
  <2> QED
    BY <1>2, <2>2, <2>3 DEF RedisRaises
<1>3. CASE SenderRuns
  <2>1. \A k \in Cells : phase'[k] \in {"queued", "told"}
                          => phase[k] \in {"queued", "told"}
    BY <1>0, <1>3 DEF SenderRuns, Cells
  <2> QED
    BY <1>0, <1>3, <2>1, FrameKeepsMarks DEF SenderRuns
<1>4. CASE Restart
  BY <1>4, LossKeepsMarks DEF Restart
<1>5. ASSUME NEW key \in Users \X Rooms, Expire(key)
      PROVE  RowsAreDistinct' /\ AlertsAreMarked' /\ RecoveryIsKnown'
  <2>1. UNCHANGED library
    BY <1>5 DEF Expire
  <2>2. \A k \in Cells : phase'[k] \in {"queued", "told"}
                          => phase[k] \in {"queued", "told"}
    BY <1>0, <1>5 DEF Expire, Cells
  <2>3. RowsAreDistinct' /\ RecoveryIsKnown'
    <3>1. RowsAreDistinct'
      BY <1>0, <2>1 DEF RowsAreDistinct
    <3>2. RecoveryIsKnown'
      BY <1>0, <2>1, <2>2, KeyType DEF RecoveryIsKnown, InHand, Cell
    <3> QED
      BY <3>1, <3>2
  <2>4. ASSUME NEW k \in Cells, phase'[k] \in {"queued", "told"}
        PROVE  alert_state'[KeyOf(k)] = "below" \/ MarkDue(k)'
    <3>1. MarkDue(k) => MarkDue(k)'
      BY <2>1 DEF MarkDue, InHand, Cell
    <3>2. alert_state[KeyOf(k)] = "below" \/ MarkDue(k)
      BY <1>0, <2>2, <2>4 DEF AlertsAreMarked, KeyOf, Cells
    <3>3. KeyOf(k) = key => MarkDue(k)
      BY <1>0, <1>5, <2>2, <2>4 DEF Expire, KeyOf, Cells
    <3>4. KeyOf(k) # key => alert_state'[KeyOf(k)] = alert_state[KeyOf(k)]
      <4>1. KeyOf(k) \in Keys
        BY DEF KeyOf, Keys, Cells
      <4> QED
        BY <1>0, <1>5, <4>1 DEF Expire, Keys
    <3> QED
      BY <3>1, <3>2, <3>3, <3>4
  <2> QED
    BY <2>3, <2>4 DEF AlertsAreMarked, KeyOf, Cells
<1> QED
  BY <1>1, <1>2, <1>3, <1>4, <1>5

LEMMA UserStepKeepsMarks ==
  ASSUME MarkInv, UserStep
  PROVE  RowsAreDistinct' /\ AlertsAreMarked' /\ RecoveryIsKnown'
<1>0. /\ RowsAreDistinct /\ AlertsAreMarked /\ RecoveryIsKnown
      /\ library \in Library /\ library.subs \subseteq Sub
      /\ phase \in [Cells -> Phases]
  BY DEF MarkInv, LibTypeOK, Library, Cells
<1>1. UNCHANGED <<library, alert_state>>
  BY DEF UserStep, SeatsChange, Subscribe, Edit, Unsubscribe, Account
<1>2. \A k \in Cells : phase'[k] \in {"queued", "told"}
                        => phase[k] \in {"queued", "told"}
  <2>1. UNCHANGED phase \/ \E n \in NotificationIds, c \in Config : Subscribe(n, c)
    BY DEF UserStep, SeatsChange, Edit, Unsubscribe, Account
  <2>2. ASSUME NEW n \in NotificationIds, NEW c \in Config, Subscribe(n, c)
        PROVE  \A k \in Cells : phase'[k] \in {"queued", "told"}
                                 => phase[k] \in {"queued", "told"}
    BY <1>0, <2>2 DEF Subscribe, Cells
  <2> QED
    BY <2>1, <2>2
<1> QED
  BY <1>0, <1>1, <1>2, FrameKeepsMarks

LEMMA MarkStep ==
  ASSUME OneSubscriptionPerUser, MarkInv, [Next]_vars
  PROVE  MarkInv'
<1>1. LibTypeOK'
  BY LibStepType DEF MarkInv
<1>2. CASE LibraryStep
  BY <1>1, <1>2, TickKeepsMarks DEF MarkInv
<1>3. CASE \/ SnapshotFails \/ RedisRaises \/ SenderRuns \/ Restart
           \/ \E k \in Users \X Rooms : Expire(k)
  BY <1>1, <1>3, FaultsKeepMarks DEF MarkInv
<1>4. CASE UserStep
  BY <1>1, <1>4, UserStepKeepsMarks DEF MarkInv
<1>5. CASE UNCHANGED vars
  <2>1. UNCHANGED <<library, alert_state, phase>>
    BY <1>5 DEF vars
  <2>2. library \in Library /\ library.subs \subseteq Sub
    BY DEF MarkInv, LibTypeOK, Library
  <2> QED
    BY <1>1, <2>1, <2>2, FrameKeepsMarks DEF MarkInv
<1> QED
  BY <1>2, <1>3, <1>4, <1>5 DEF Next, UserStep

LEMMA MarkInit == Init => MarkInv
<1> SUFFICES ASSUME Init PROVE MarkInv
  OBVIOUS
<1>1. /\ library.pc = "idle" /\ library.subs = {}
      /\ \A k \in NotificationIds \X Rooms : phase[k] = "quiet"
  BY DEF Init, IdleLibrary
<1> QED
  BY <1>1, LibInitType DEF MarkInv, RowsAreDistinct, AlertsAreMarked, RecoveryIsKnown

\* An alert is put only where nothing is marked, hence where the last alert
\* has recovered or lost its mark.
LEMMA AlertFollowsRecovery ==
  ASSUME MarkInv, Next, NEW k \in NotificationIds \X Rooms, Alerting(k)
  PROVE  phase[k] \notin {"queued", "told"}
<1>0. library.pc = "loop" /\ library'.pc = "mark" /\ library'.mark = "below"
  BY DEF Alerting
<1>1. PICK sub \in library.subs : InHand(sub) /\ Cell(sub) = k
  BY DEF Alerting
<1>2. \E s \in library.subs : Alert(s)
  <2>1. CASE LibraryStep
    <3>1. ~Poll /\ ~Snapshot
      BY <1>0 DEF Poll, Snapshot
    <3>2. ASSUME NEW s \in library.subs, Recover(s) \/ Skip(s) \/ Mark(s)
          PROVE  FALSE
      <4>1. library \in Library
        BY DEF MarkInv, LibTypeOK
      <4>2. ~Mark(s)
        BY <1>0 DEF Mark
      <4>3. ~Skip(s)
        <5>1. Leave(s) => library'.pc \in {"idle", "loop"}
          BY <4>1 DEF Leave, IdleLibrary, Library
        <5> QED
          BY <1>0, <5>1 DEF Skip
      <4>4. ~Recover(s)
        BY <1>0, <4>1 DEF Recover, Library
      <4> QED
        BY <3>2, <4>2, <4>3, <4>4
    <3> QED
      BY <2>1, <3>1, <3>2 DEF LibraryStep
  <2>2. CASE \/ SnapshotFails \/ RedisRaises \/ SenderRuns \/ Restart
             \/ \E key \in Users \X Rooms : Expire(key)
    BY <1>0, <2>2 DEF SnapshotFails, RedisRaises, SenderRuns, Restart, Expire,
                      IdleLibrary
  <2>3. CASE UserStep
    BY <1>0, <2>3 DEF UserStep, SeatsChange, Subscribe, Edit, Unsubscribe, Account
  <2> QED
    BY <2>1, <2>2, <2>3 DEF Next, UserStep
<1>3. PICK s \in library.subs : Alert(s)
  BY <1>2
<1>4. s = sub
  BY <1>1, <1>3, InHandIsUnique DEF Alert, Turn, MarkInv
<1>5. alert_state[Key(sub)] # "below"
  BY <1>3, <1>4 DEF Alert, WasLow
<1>6. Key(sub) = <<NotificationOwner[k[1]], k[2]>> /\ ~MarkDue(k)
  BY <1>0, <1>1 DEF Key, Cell, MarkDue
<1> QED
  BY <1>5, <1>6 DEF MarkInv, AlertsAreMarked

\* F-14, when a user has one subscription: no alert is forgotten before its
\* recovery ...
THEOREM AlertsStayMarked ==
  ASSUME OneSubscriptionPerUser
  PROVE  Spec => []AlertsAreMarked
<1>1. Init => MarkInv
  BY MarkInit
<1>2. MarkInv /\ [Next]_vars => MarkInv'
  BY MarkStep
<1>3. MarkInv => AlertsAreMarked
  BY DEF MarkInv
<1> QED
  BY <1>1, <1>2, <1>3, PTL DEF Spec

\* ... and so none is repeated.
THEOREM OneAlertPerDip ==
  ASSUME OneSubscriptionPerUser
  PROVE  Spec => NoRepeatBeforeRecovery
<1>1. Init => MarkInv
  BY MarkInit
<1>2. MarkInv /\ [Next]_vars => MarkInv'
  BY MarkStep
<1>3. MarkInv /\ [Next]_vars =>
        [\A k \in NotificationIds \X Rooms :
           Alerting(k) => phase[k] \notin {"queued", "told"}]_vars
  BY AlertFollowsRecovery
<1> QED
  BY <1>1, <1>2, <1>3, PTL DEF Spec, NoRepeatBeforeRecovery
=============================================================================
