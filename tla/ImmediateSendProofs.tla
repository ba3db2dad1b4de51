------------------------ MODULE ImmediateSendProofs -------------------------
(***************************************************************************)
(* Theorems about ImmediateSend, for every set of users and requests,      *)
(* every PollLimit and every combination of faults.                        *)
(***************************************************************************)
EXTENDS ImmediateSend, SenderProofs

USE IdsAssumption, OwnerAssumption, ReloginAssumption, FaultsAssumption,
    AdminsAssumption, TypeAssumption, JobsAssumption, BoundAssumption

-----------------------------------------------------------------------------
(* Type correctness.                                                       *)

LEMMA RequestTaskType == \A r \in RequestIds : RequestTask(r) \in Task
BY DEF RequestTask, Task

LEMMA FailureRowType == \A r \in RequestIds : FailureRow(r) \in Row
BY DEF FailureRow, Row

\* The part of TypeOK about the polling jobs.
JobsTypeOK ==
  /\ job \in [Types -> Job]
  /\ \A t \in Types :
       job[t].pc \in {"fetch", "fail", "failed"} => job[t].row \in RequestIds

LEMMA AdvanceType ==
  ASSUME JobsTypeOK, NEW t \in Types, NEW flight \in SUBSET RequestIds,
         Advance(t, flight)
  PROVE  JobsTypeOK' /\ immediate_inflight' \in SUBSET RequestIds
<1> DEFINE free == job[t].rows \ flight
<1>1. free \subseteq RequestIds
  BY DEF JobsTypeOK, Job
<1>2. CASE job' = [job EXCEPT ![t] = IdleJob] /\ immediate_inflight' = flight
  BY <1>2 DEF JobsTypeOK, Job, IdleJob
<1>3. ASSUME NEW r \in free,
             job' = [job EXCEPT ![t] =
                       [pc |-> "fetch", row |-> r, alert |-> FALSE,
                        rows |-> {q \in job[t].rows : q > r}]],
             immediate_inflight' = flight \cup {r}
      PROVE  JobsTypeOK' /\ immediate_inflight' \in SUBSET RequestIds
  <2>1. {q \in job[t].rows : q > r} \in SUBSET RequestIds
    BY DEF JobsTypeOK, Job
  <2> QED
    BY <1>1, <1>3, <2>1 DEF JobsTypeOK, Job
<1> QED
  BY <1>2, <1>3 DEF Advance

LEMMA JobRaisesType ==
  ASSUME JobsTypeOK, NEW t \in Types, JobRaises(t)
  PROVE  JobsTypeOK'
BY DEF JobsTypeOK, Job, JobRaises, IdleJob

\* A job that keeps its row in hand and only moves on keeps its type.
LEMMA StageType ==
  ASSUME JobsTypeOK, NEW t \in Types, job[t].pc \in {"fetch", "fail"},
         NEW pc \in {"fail", "failed"}, NEW alert \in BOOLEAN,
         job' = [job EXCEPT ![t] = [job[t] EXCEPT !.pc = pc, !.alert = alert]]
  PROVE  JobsTypeOK'
<1>1. /\ job[t] \in Job
      /\ job[t].row \in RequestIds
  BY DEF JobsTypeOK
<1>2. /\ [job[t] EXCEPT !.pc = pc, !.alert = alert] \in Job
      /\ [job[t] EXCEPT !.pc = pc, !.alert = alert].row = job[t].row
  BY <1>1 DEF Job
<1> QED
  BY <1>1, <1>2 DEF JobsTypeOK

LEMMA JobStepKeepsType ==
  ASSUME TypeOK, NEW t \in Types, JobStep(t)
  PROVE  TypeOK'
<1> USE DEF TypeOK
<1>0. JobsTypeOK /\ immediate_inflight \in SUBSET RequestIds /\ queue \in Seq(Task)
  BY DEF JobsTypeOK, SenderTypeOK
<1>a. UNCHANGED dbVars => DbTypeOK'
  BY DEF dbVars, DbTypeOK
<1>b. UNCHANGED senderVars => SenderTypeOK'
  BY DEF senderVars, SenderTypeOK, Holding
<1>c. JobsTypeOK' => /\ job' \in [Types -> Job]
                     /\ \A s \in Types : job'[s].pc \in {"fetch", "fail", "failed"}
                                           => job'[s].row \in RequestIds
  BY DEF JobsTypeOK
<1>d. UNCHANGED <<sender, in_flight, delivered>> /\ queue' \in Seq(Task)
        /\ immediate_inflight' \in SUBSET RequestIds => SenderTypeOK'
  BY DEF SenderTypeOK, Holding
<1>1. CASE Poll(t)
  <2>1. FirstRows(Pending(t), PollLimit) \in SUBSET RequestIds
    BY DEF FirstRows, Pending
  <2>2. JobsTypeOK'
    BY <1>0, <1>1, <2>1 DEF Poll, JobsTypeOK, Job
  <2> QED
    BY <1>1, <1>a, <1>b, <1>c, <2>2 DEF Poll
<1>2. CASE Resume(t)
  <2>1. JobsTypeOK' /\ immediate_inflight' \in SUBSET RequestIds
    BY <1>0, <1>2, AdvanceType DEF Resume
  <2> QED
    BY <1>0, <1>2, <1>a, <1>c, <1>d, <2>1 DEF Resume
<1>3. CASE FetchSucceeds(t)
  <2>1. JobsTypeOK' /\ immediate_inflight' \in SUBSET RequestIds
    BY <1>0, <1>3, AdvanceType DEF FetchSucceeds
  <2>2. RequestTask(job[t].row) \in Task
    BY <1>0, <1>3, RequestTaskType DEF FetchSucceeds, JobsTypeOK
  <2>3. queue' \in Seq(Task)
    BY <1>0, <1>3, <2>2, AppendProperties DEF FetchSucceeds
  <2> QED
    BY <1>3, <1>a, <1>c, <1>d, <2>1, <2>3 DEF FetchSucceeds
<1>4. CASE FetchFails(t)
  <2>1. PICK alert \in BOOLEAN :
          job' = [job EXCEPT ![t] = [job[t] EXCEPT !.pc = "fail", !.alert = alert]]
    BY <1>4 DEF FetchFails
  <2>2. JobsTypeOK'
    BY <1>0, <1>4, <2>1, StageType DEF FetchFails
  <2> QED
    BY <1>4, <1>a, <1>b, <1>c, <2>2 DEF FetchFails
<1>5. CASE FetchRaises(t) \/ FailureRejected(t)
  <2>1. JobRaises(t)
    BY <1>5 DEF FetchRaises, FailureRejected
  <2>2. JobsTypeOK'
    BY <1>0, <2>1, JobRaisesType
  <2> QED
    BY <1>a, <1>b, <1>c, <2>1, <2>2 DEF JobRaises
<1>6. CASE RecordFailure(t)
  <2>1. DbTypeOK'
    BY <1>0, <1>6, FailureRowType, InsertKeepsDbType DEF RecordFailure, JobsTypeOK
  <2>2. job[t].alert \in BOOLEAN
    BY <1>0 DEF JobsTypeOK, Job
  <2>3. job' = [job EXCEPT ![t] =
                  [job[t] EXCEPT !.pc = "failed", !.alert = job[t].alert]]
    BY <1>0, <1>6 DEF RecordFailure, JobsTypeOK, Job
  <2>4. JobsTypeOK'
    BY <1>0, <1>6, <2>2, <2>3, StageType DEF RecordFailure
  <2> QED
    BY <1>6, <1>b, <1>c, <2>1, <2>4 DEF RecordFailure
<1>7. CASE FinishFailure(t)
  <2>1. immediate_inflight \ {job[t].row} \in SUBSET RequestIds
    BY <1>0
  <2>2. JobsTypeOK' /\ immediate_inflight' \in SUBSET RequestIds
    BY <1>0, <1>7, <2>1, AdvanceType DEF FinishFailure
  <2>3. queue' \in Seq(Task)
    BY <1>0, <1>7, AdminAlertsType, ConcatProperties DEF FinishFailure
  <2> QED
    BY <1>7, <1>a, <1>c, <1>d, <2>2, <2>3 DEF FinishFailure
<1> QED
  BY <1>1, <1>2, <1>3, <1>4, <1>5, <1>6, <1>7 DEF JobStep

LEMMA InitType == Init => TypeOK
BY DEF Init, TypeOK, DbInit, DbTypeOK, SenderInit, SenderTypeOK, SenderState,
       IdleSender, MaxAttempts, Holding, IdleJob, Job

LEMMA StepType == TypeOK /\ [Next]_vars => TypeOK'
<1> SUFFICES ASSUME TypeOK, [Next]_vars
             PROVE  TypeOK'
  OBVIOUS
<1>a. UNCHANGED senderVars => SenderTypeOK'
  BY DEF TypeOK, senderVars, SenderTypeOK, Holding
<1>b. UNCHANGED dbVars => DbTypeOK'
  BY DEF TypeOK, dbVars, DbTypeOK
<1>1. ASSUME NEW r \in RequestIds, Accept(r) \/ Commit(r)
      PROVE  TypeOK'
  BY <1>1, <1>a, <1>b DEF TypeOK, Accept, Commit
<1>2. ASSUME NEW u \in Users, Delete(u) \/ Deleted(u) \/ Return(u)
      PROVE  TypeOK'
  BY <1>2, <1>a, AccountKeepsDbType DEF TypeOK, Delete, Deleted, Return
<1>3. ASSUME NEW t \in Types, JobStep(t)
      PROVE  TypeOK'
  BY <1>3, JobStepKeepsType
<1>4. CASE SenderRuns
  BY <1>4, SenderStepKeepsType DEF TypeOK, SenderRuns
<1>5. CASE Restart
  <2>1. SenderTypeOK'
    BY <1>5 DEF TypeOK, Restart, SenderLost, SenderTypeOK, SenderState,
                IdleSender, MaxAttempts, Holding
  <2> QED
    BY <1>5, <1>b, <2>1 DEF TypeOK, Restart, IdleJob, Job
<1>6. CASE UNCHANGED vars
  BY <1>6, <1>a, <1>b DEF TypeOK, vars
<1> QED
  BY <1>1, <1>2, <1>3, <1>4, <1>5, <1>6 DEF Next

\* Every variable of the immediate-send system keeps its type.
THEOREM TypeCorrect == Spec => []TypeOK
BY InitType, StepType, PTL DEF Spec

-----------------------------------------------------------------------------
(* One live copy of every request, and the claim that protects it.         *)

\* Neither half is inductive alone: a job may claim a row because the claim
\* set covers every live copy, and the sender may give a claim back because
\* no other copy lives.
CopyInv == TypeOK /\ SingleLiveCopy /\ InflightCoversPipeline

\* A step that moves no copy forward and gives no claim back.
LEMMA FrameKeepsCopies ==
  ASSUME SingleLiveCopy, InflightCoversPipeline,
         queue' = queue,
         immediate_inflight \subseteq immediate_inflight',
         \A r \in RequestIds : Busy(r)' => Busy(r),
         \A t \in Types, r \in RequestIds : InHand(t, r)' => InHand(t, r)
  PROVE  SingleLiveCopy' /\ InflightCoversPipeline'
<1>1. \A r \in RequestIds : Queued(r)' <=> Queued(r)
  BY DEF Queued
<1>2. \A r \in RequestIds : Live(r)' => Live(r)
  BY <1>1 DEF Live
<1>3. InflightCoversPipeline'
  BY <1>2 DEF InflightCoversPipeline
<1>4. SingleLiveCopy'
  BY <1>1 DEF SingleLiveCopy
<1> QED
  BY <1>3, <1>4

\* What the for loop of a job does to the claims.
LEMMA AdvanceClaims ==
  ASSUME JobsTypeOK, NEW t \in Types, NEW flight \in SUBSET RequestIds,
         Advance(t, flight)
  PROVE  /\ \A s \in Types \ {t}, r \in RequestIds : InHand(s, r)' <=> InHand(s, r)
         /\ \A r \in RequestIds :
              InHand(t, r)' => r \notin flight /\ r \in immediate_inflight'
         /\ flight \subseteq immediate_inflight'
<1>1. CASE job' = [job EXCEPT ![t] = IdleJob] /\ immediate_inflight' = flight
  BY <1>1 DEF JobsTypeOK, InHand, IdleJob
<1>2. ASSUME NEW r \in job[t].rows \ flight,
             job' = [job EXCEPT ![t] =
                       [pc |-> "fetch", row |-> r, alert |-> FALSE,
                        rows |-> {q \in job[t].rows : q > r}]],
             immediate_inflight' = flight \cup {r}
      PROVE  /\ \A s \in Types \ {t}, q \in RequestIds : InHand(s, q)' <=> InHand(s, q)
             /\ \A q \in RequestIds :
                  InHand(t, q)' => q \notin flight /\ q \in immediate_inflight'
             /\ flight \subseteq immediate_inflight'
  BY <1>2 DEF JobsTypeOK, InHand
<1> QED
  BY <1>1, <1>2 DEF Advance

\* The sender takes the head of the queue.
LEMMA GetKeepsCopies ==
  ASSUME CopyInv, Get, UNCHANGED job
  PROVE  SingleLiveCopy' /\ InflightCoversPipeline'
<1> USE DEF CopyInv, TypeOK, SenderTypeOK
<1>1. /\ Len(queue) \in Nat \ {0}
      /\ Head(queue) = queue[1]
      /\ queue' \in Seq(Task)
      /\ Len(queue') = Len(queue) - 1
      /\ \A i \in 1..Len(queue') : queue'[i] = queue[i + 1]
  BY HeadTailProperties, LenProperties, EmptySeq DEF Get
<1>2. \A r \in RequestIds : Busy(r)' => queue[1].request = r
  BY <1>1 DEF Get, Busy
<1>3. \A r \in RequestIds : ~Busy(r)
  BY DEF Get, Busy, Holding
<1>4. \A r \in RequestIds : Queued(r)' => \E i \in 2..Len(queue) : queue[i].request = r
  <2> SUFFICES ASSUME NEW r \in RequestIds, Queued(r)'
               PROVE  \E i \in 2..Len(queue) : queue[i].request = r
    OBVIOUS
  <2>1. PICK i \in 1..Len(queue') : queue'[i].request = r
    BY Zenon DEF Queued
  <2>2. i + 1 \in 2..Len(queue) /\ queue[i + 1].request = r
    BY <1>1, <2>1
  <2> QED
    BY <2>2
<1>5. \A t \in Types, r \in RequestIds : InHand(t, r)' <=> InHand(t, r)
  BY DEF InHand
<1>6. \A r \in RequestIds : Busy(r)' \/ Queued(r)' => Queued(r)
  BY <1>1, <1>2, <1>4 DEF Queued
<1>7. \A r \in RequestIds : Queued(r)' => ~Busy(r)'
  <2> SUFFICES ASSUME NEW r \in RequestIds, Queued(r)', Busy(r)'
               PROVE  FALSE
    OBVIOUS
  <2>1. PICK i \in 2..Len(queue) : queue[i].request = r
    BY <1>4
  <2>2. queue[1].request = r
    BY <1>2, Zenon
  <2>3. 1 \in 1..Len(queue) /\ i \in 1..Len(queue) /\ i # 1
    BY <1>1, <2>1
  <2> QED
    BY <2>1, <2>2, <2>3 DEF SingleLiveCopy
<1>8. ASSUME NEW i \in 1..Len(queue'), NEW j \in 1..Len(queue'),
             queue'[i].request \in RequestIds, queue'[i].request = queue'[j].request
      PROVE  i = j
  <2>1. i + 1 \in 1..Len(queue) /\ j + 1 \in 1..Len(queue)
    BY <1>1, <1>8
  <2>2. queue[i + 1].request \in RequestIds /\ queue[i + 1].request = queue[j + 1].request
    BY <1>1, <1>8
  <2>3. i + 1 = j + 1
    BY <2>1, <2>2 DEF SingleLiveCopy
  <2> QED
    BY <2>3
<1>9. SingleLiveCopy'
  BY <1>5, <1>6, <1>7, <1>8 DEF SingleLiveCopy
<1>10. \A r \in RequestIds : Live(r)' => Live(r)
  BY <1>5, <1>6 DEF Live
<1>11. InflightCoversPipeline'
  BY <1>10 DEF InflightCoversPipeline, Get
<1> QED
  BY <1>9, <1>11

\* finally gives a claim back; the copy it was for is the only one.
LEMMA ReleaseKeepsCopies ==
  ASSUME CopyInv, Release, UNCHANGED job
  PROVE  SingleLiveCopy' /\ InflightCoversPipeline'
<1> USE DEF CopyInv
<1>1. \A r \in RequestIds : ~Busy(r)'
  BY DEF Release, IdleSender, Busy, Holding
<1>2. \A r \in RequestIds : Queued(r)' <=> Queued(r)
  BY DEF Queued, Release
<1>3. \A t \in Types, r \in RequestIds : InHand(t, r)' <=> InHand(t, r)
  BY DEF InHand
<1>4. SingleLiveCopy'
  BY <1>1, <1>2, <1>3 DEF SingleLiveCopy, Release
<1>5. ASSUME NEW r \in RequestIds, Live(r)'
      PROVE  r \in immediate_inflight'
  <2>1. Queued(r) \/ \E t \in Types : InHand(t, r)
    BY <1>1, <1>2, <1>3, <1>5, Zenon DEF Live
  <2>2. ~Busy(r)
    BY <2>1 DEF SingleLiveCopy
  <2>3. sender.task.request # r
    BY <2>2 DEF Busy, Holding, Release
  <2>4. r \in immediate_inflight
    BY <2>1 DEF InflightCoversPipeline, Live
  <2> QED
    BY <2>3, <2>4 DEF Release
<1>6. InflightCoversPipeline'
  BY <1>5 DEF InflightCoversPipeline
<1> QED
  BY <1>4, <1>6

\* The loop of a job goes on after it has parted with the row in hand: to the
\* queue (put), to the database (a failure), or with none in hand.
LEMMA AdvanceKeepsCopies ==
  ASSUME CopyInv, NEW t \in Types, NEW flight \in SUBSET RequestIds,
         Advance(t, flight), sender' = sender,
         \A r \in RequestIds : Queued(r)' => Queued(r) \/ InHand(t, r),
         \A r \in RequestIds : InHand(t, r) => Queued(r)' \/ r \notin flight,
         \A r \in immediate_inflight : r \in flight \/ InHand(t, r),
         \A r \in RequestIds : Queued(r)' => r \in flight,
         \A i, j \in 1..Len(queue') :
           queue'[i].request \in RequestIds /\ queue'[i].request = queue'[j].request
             => i = j
  PROVE  SingleLiveCopy' /\ InflightCoversPipeline'
<1> USE DEF CopyInv
<1>0. JobsTypeOK
  BY DEF TypeOK, JobsTypeOK
<1>1. /\ \A s \in Types \ {t}, r \in RequestIds : InHand(s, r)' <=> InHand(s, r)
      /\ \A r \in RequestIds :
           InHand(t, r)' => r \notin flight /\ r \in immediate_inflight'
      /\ flight \subseteq immediate_inflight'
  BY <1>0, AdvanceClaims
<1>2. \A r \in RequestIds : Busy(r)' <=> Busy(r)
  BY DEF Busy, Holding
<1>3. \A r \in RequestIds : Busy(r) => r \in flight
  BY DEF InflightCoversPipeline, Live, SingleLiveCopy
<1>4. \A s \in Types \ {t}, r \in RequestIds : InHand(s, r) => r \in flight
  BY DEF InflightCoversPipeline, Live, SingleLiveCopy
<1>5. InflightCoversPipeline'
  <2> SUFFICES ASSUME NEW r \in RequestIds, Live(r)'
               PROVE  r \in immediate_inflight'
    BY DEF InflightCoversPipeline
  <2>1. CASE Busy(r)'
    BY <1>1, <1>2, <1>3, <2>1
  <2>2. CASE Queued(r)'
    BY <1>1, <2>2
  <2>3. ASSUME NEW s \in Types, InHand(s, r)'
        PROVE  r \in immediate_inflight'
    BY <1>1, <1>4, <2>3
  <2>4. Busy(r)' \/ Queued(r)' \/ \E s \in Types : InHand(s, r)'
    BY Zenon DEF Live
  <2> QED
    BY <2>1, <2>2, <2>3, <2>4
<1>6. \A r \in RequestIds : Queued(r)' => ~Busy(r)'
  BY <1>2 DEF SingleLiveCopy
<1>7. \A s \in Types, r \in RequestIds : Busy(r)' => ~InHand(s, r)'
  BY <1>1, <1>2, <1>3 DEF SingleLiveCopy
<1>8. \A s \in Types, r \in RequestIds : Queued(r)' => ~InHand(s, r)'
  <2> SUFFICES ASSUME NEW s \in Types, NEW r \in RequestIds, Queued(r)', InHand(s, r)'
               PROVE  FALSE
    OBVIOUS
  <2>1. s # t /\ InHand(s, r)
    BY <1>1
  <2>2. Queued(r) \/ InHand(t, r)
    OBVIOUS
  <2> QED
    BY <2>1, <2>2 DEF SingleLiveCopy
<1>9. \A a, b \in Types, r \in RequestIds : InHand(a, r)' /\ InHand(b, r)' => a = b
  BY <1>1, <1>4 DEF SingleLiveCopy
<1>10. SingleLiveCopy'
  BY <1>6, <1>7, <1>8, <1>9 DEF SingleLiveCopy
<1> QED
  BY <1>5, <1>10

LEMMA ResumeKeepsCopies ==
  ASSUME CopyInv, NEW t \in Types, Resume(t)
  PROVE  SingleLiveCopy' /\ InflightCoversPipeline'
<1> USE DEF CopyInv
<1>1. immediate_inflight \in SUBSET RequestIds
  BY DEF TypeOK, SenderTypeOK
<1>2. \A r \in RequestIds : ~InHand(t, r)
  BY DEF Resume, InHand
<1>3. \A r \in RequestIds : Queued(r)' <=> Queued(r)
  BY DEF Resume, Queued
<1>4. \A r \in RequestIds : Queued(r)' => r \in immediate_inflight
  BY <1>3 DEF InflightCoversPipeline, Live
<1>5. \A i, j \in 1..Len(queue') :
        queue'[i].request \in RequestIds /\ queue'[i].request = queue'[j].request
          => i = j
  BY DEF Resume, SingleLiveCopy
<1> QED
  BY <1>1, <1>2, <1>3, <1>4, <1>5, AdvanceKeepsCopies DEF Resume

LEMMA PutKeepsCopies ==
  ASSUME CopyInv, NEW t \in Types, FetchSucceeds(t)
  PROVE  SingleLiveCopy' /\ InflightCoversPipeline'
<1> USE DEF CopyInv
<1> PICK row \in RequestIds : row = job[t].row
  BY DEF TypeOK, FetchSucceeds
<1>0. /\ immediate_inflight \in SUBSET RequestIds
      /\ queue \in Seq(Task)
  BY DEF TypeOK, SenderTypeOK
<1>1. RequestTask(row) \in Task /\ RequestTask(row).request = row
  BY <1>0, RequestTaskType DEF RequestTask
<1>2. /\ Len(queue) \in Nat
      /\ Len(queue') = Len(queue) + 1
      /\ \A i \in 1..Len(queue) : queue'[i] = queue[i]
      /\ queue'[Len(queue) + 1].request = row
  BY <1>0, <1>1, AppendProperties, LenProperties DEF FetchSucceeds
<1>3. \A r \in RequestIds : InHand(t, r) <=> r = row
  BY <1>0 DEF FetchSucceeds, InHand
<1>4. ~Queued(row) /\ row \in immediate_inflight
  BY <1>0, <1>3 DEF SingleLiveCopy, InflightCoversPipeline, Live
<1>5. \A r \in RequestIds : Queued(r)' => Queued(r) \/ r = row
  <2> SUFFICES ASSUME NEW r \in RequestIds, Queued(r)', r # row
               PROVE  Queued(r)
    OBVIOUS
  <2>1. PICK i \in 1..Len(queue') : queue'[i].request = r
    BY Zenon DEF Queued
  <2>2. i \in 1..Len(queue)
    BY <1>2, <2>1
  <2> QED
    BY <1>2, <2>1, <2>2 DEF Queued
<1>6. Queued(row)'
  <2>1. Len(queue) + 1 \in 1..Len(queue')
    BY <1>2
  <2>2. \E i \in 1..Len(queue') : queue'[i].request = row
    BY <1>2, <2>1
  <2> QED
    BY <2>2, Zenon DEF Queued
<1>7. \A r \in RequestIds : Queued(r)' => r \in immediate_inflight
  BY <1>4, <1>5 DEF InflightCoversPipeline, Live
<1>8. \A i \in 1..Len(queue) : queue[i].request # row
  BY <1>4 DEF Queued
<1>9. \A i, j \in 1..Len(queue') :
        queue'[i].request \in RequestIds /\ queue'[i].request = queue'[j].request
          => i = j
  <2> SUFFICES ASSUME NEW i \in 1..Len(queue'), NEW j \in 1..Len(queue'),
                      queue'[i].request \in RequestIds,
                      queue'[i].request = queue'[j].request
               PROVE  i = j
    OBVIOUS
  <2>1. CASE i \in 1..Len(queue) /\ j \in 1..Len(queue)
    BY <1>2, <2>1 DEF SingleLiveCopy
  <2>2. ASSUME NEW n \in 1..Len(queue'), queue'[n].request # row
        PROVE  n \in 1..Len(queue)
    BY <1>2, <2>2
  <2>3. ASSUME NEW n \in 1..Len(queue'), queue'[n].request = row
        PROVE  n = Len(queue) + 1
    BY <1>2, <1>8, <2>3
  <2>4. CASE queue'[i].request # row
    BY <2>1, <2>2, <2>4
  <2>5. CASE queue'[i].request = row
    BY <2>3, <2>5
  <2> QED
    BY <2>4, <2>5
<1>10. \A r \in RequestIds : InHand(t, r) => Queued(r)'
  BY <1>3, <1>6
<1>11. \A r \in RequestIds : Queued(r)' => Queued(r) \/ InHand(t, r)
  BY <1>3, <1>5
<1> QED
  BY <1>0, <1>7, <1>9, <1>10, <1>11, AdvanceKeepsCopies DEF FetchSucceeds

LEMMA FinishFailureKeepsCopies ==
  ASSUME CopyInv, NEW t \in Types, FinishFailure(t)
  PROVE  SingleLiveCopy' /\ InflightCoversPipeline'
<1> USE DEF CopyInv
<1> DEFINE row    == job[t].row
           flight == immediate_inflight \ {row}
<1>0. /\ flight \in SUBSET RequestIds
      /\ queue \in Seq(Task)
      /\ row \in RequestIds
  BY DEF TypeOK, SenderTypeOK, FinishFailure
<1>1. \A r \in RequestIds : InHand(t, r) <=> r = row
  BY <1>0 DEF FinishFailure, InHand
<1>2. ~Queued(row)
  BY <1>0, <1>1 DEF SingleLiveCopy
<1>3. /\ Len(queue) \in Nat /\ Len(queue') \in Nat
      /\ Len(queue) <= Len(queue')
      /\ \A i \in 1..Len(queue) : queue'[i] = queue[i]
      /\ \A i \in 1..Len(queue') :
           i \notin 1..Len(queue) => queue'[i].request = NoId
  <2>1. CASE ~job[t].alert
    BY <1>0, <2>1, LenProperties DEF FinishFailure
  <2>2. CASE job[t].alert
    <3>1. queue' = queue \o AdminAlerts
      BY <2>2 DEF FinishFailure
    <3>2. /\ Len(queue') = Len(queue) + Len(AdminAlerts)
          /\ \A i \in 1..Len(queue') :
               queue'[i] = IF i <= Len(queue) THEN queue[i]
                           ELSE AdminAlerts[i - Len(queue)]
      <4>1. AdminAlerts \in Seq(Task)
        BY AdminAlertsType
      <4> HIDE DEF row, flight
      <4> QED
        BY <1>0, <3>1, <4>1, ConcatProperties
    <3>3. Len(queue) \in Nat /\ Len(AdminAlerts) \in Nat
      BY <1>0, AdminAlertsType, LenProperties
    <3>4. ASSUME NEW i \in 1..Len(queue'), i \notin 1..Len(queue)
          PROVE  queue'[i].request = NoId
      <4>1. i - Len(queue) \in 1..Len(AdminAlerts) /\ ~(i <= Len(queue))
        BY <3>2, <3>3, <3>4
      <4> QED
        BY <3>2, <4>1, AdminAlertsType
    <3>5. \A i \in 1..Len(queue) : i \in 1..Len(queue') /\ i <= Len(queue)
      BY <3>2, <3>3
    <3> QED
      BY <3>2, <3>3, <3>4, <3>5
  <2> QED
    BY <2>1, <2>2
<1>4. \A r \in RequestIds : Queued(r)' => Queued(r)
  <2> SUFFICES ASSUME NEW r \in RequestIds, Queued(r)'
               PROVE  Queued(r)
    OBVIOUS
  <2>1. PICK i \in 1..Len(queue') : queue'[i].request = r
    BY Zenon DEF Queued
  <2>2. i \in 1..Len(queue)
    BY <1>3, <2>1
  <2> QED
    BY <1>3, <2>1, <2>2 DEF Queued
<1>5. \A r \in RequestIds : Queued(r)' => r \in flight
  BY <1>2, <1>4 DEF InflightCoversPipeline, Live
<1>6. \A i, j \in 1..Len(queue') :
        queue'[i].request \in RequestIds /\ queue'[i].request = queue'[j].request
          => i = j
  <2> SUFFICES ASSUME NEW i \in 1..Len(queue'), NEW j \in 1..Len(queue'),
                      queue'[i].request \in RequestIds,
                      queue'[i].request = queue'[j].request
               PROVE  i = j
    OBVIOUS
  <2>1. i \in 1..Len(queue) /\ j \in 1..Len(queue)
    BY <1>3
  <2> QED
    BY <1>3, <2>1 DEF SingleLiveCopy
<1>7. \A r \in RequestIds : InHand(t, r) => r \notin flight
  BY <1>1
<1>8. \A r \in immediate_inflight : r \in flight \/ InHand(t, r)
  BY <1>0, <1>1
<1> QED
  BY <1>0, <1>4, <1>5, <1>6, <1>7, <1>8, AdvanceKeepsCopies DEF FinishFailure

\* What the sender does while it holds a task, or before it takes one.
LEMMA SenderKeepsCopies ==
  ASSUME CopyInv, SenderStep, UNCHANGED job
  PROVE  SingleLiveCopy' /\ InflightCoversPipeline'
<1> USE DEF CopyInv
<1>1. CASE Get
  BY <1>1, GetKeepsCopies
<1>2. CASE Release
  BY <1>2, ReleaseKeepsCopies
<1>3. CASE Ready \/ CheckUser \/ SendSucceeds \/ SendFails \/ SendRaises
           \/ Record \/ RecordRejected \/ DatabaseRaises
  <2>1. sender \in SenderState
    BY DEF TypeOK, SenderTypeOK
  <2>2. UNCHANGED <<queue, immediate_inflight>>
    BY <1>3 DEF Ready, CheckUser, SendSucceeds, SendFails, SendRaises, Record,
                RecordRejected, DatabaseRaises
  <2>3. Holding' => Holding /\ sender'.task = sender.task
    <3> USE DEF Holding, SenderState
    <3>1. CASE Ready
      BY <3>1 DEF Ready, IdleSender
    <3>2. CASE CheckUser
      BY <2>1, <3>2 DEF CheckUser
    <3>3. CASE SendSucceeds \/ SendRaises
      BY <2>1, <3>3 DEF SendSucceeds, SendRaises
    <3>4. CASE SendFails
      BY <2>1, <3>4 DEF SendFails
    <3>5. CASE Record \/ RecordRejected \/ DatabaseRaises
      BY <2>1, <3>5 DEF Record, RecordRejected, DatabaseRaises
    <3> QED
      BY <1>3, <3>1, <3>2, <3>3, <3>4, <3>5
  <2>4. \A r \in RequestIds : Busy(r)' => Busy(r)
    BY <2>3 DEF Busy
  <2>5. \A t \in Types, r \in RequestIds : InHand(t, r)' => InHand(t, r)
    BY DEF InHand
  <2> QED
    BY <2>2, <2>4, <2>5, FrameKeepsCopies
<1> QED
  BY <1>1, <1>2, <1>3 DEF SenderStep

LEMMA JobKeepsCopies ==
  ASSUME CopyInv, NEW t \in Types, JobStep(t)
  PROVE  SingleLiveCopy' /\ InflightCoversPipeline'
<1> USE DEF CopyInv
<1>1. CASE Resume(t)
  BY <1>1, ResumeKeepsCopies
<1>2. CASE FetchSucceeds(t)
  BY <1>2, PutKeepsCopies
<1>3. CASE FinishFailure(t)
  BY <1>3, FinishFailureKeepsCopies
<1>4. CASE Poll(t) \/ FetchFails(t) \/ FetchRaises(t) \/ RecordFailure(t)
           \/ FailureRejected(t)
  <2>1. job \in [Types -> Job]
    BY DEF TypeOK
  <2>2. UNCHANGED <<queue, sender, immediate_inflight>>
    BY <1>4 DEF Poll, FetchFails, FetchRaises, RecordFailure, FailureRejected,
                JobRaises, senderVars
  <2>3. \A s \in Types, r \in RequestIds : InHand(s, r)' => InHand(s, r)
    <3>1. CASE Poll(t)
      BY <2>1, <3>1 DEF Poll, InHand
    <3>2. CASE FetchFails(t)
      BY <2>1, <3>2 DEF FetchFails, InHand, Job
    <3>3. CASE RecordFailure(t)
      BY <2>1, <3>3 DEF RecordFailure, InHand, Job
    <3>4. CASE FetchRaises(t) \/ FailureRejected(t)
      BY <2>1, <3>4 DEF FetchRaises, FailureRejected, JobRaises, InHand, IdleJob
    <3> QED
      BY <1>4, <3>1, <3>2, <3>3, <3>4
  <2>4. \A r \in RequestIds : Busy(r)' => Busy(r)
    BY <2>2 DEF Busy, Holding
  <2> QED
    BY <2>2, <2>3, <2>4, FrameKeepsCopies
<1> QED
  BY <1>1, <1>2, <1>3, <1>4 DEF JobStep

LEMMA CopyInitially == Init => CopyInv
<1> SUFFICES ASSUME Init
             PROVE  CopyInv
  OBVIOUS
<1>1. TypeOK
  BY InitType
<1>2. \A r \in RequestIds : ~Busy(r) /\ ~Queued(r) /\ \A t \in Types : ~InHand(t, r)
  BY DEF Init, SenderInit, IdleSender, Busy, Holding, Queued, InHand, IdleJob
<1>3. Len(queue) = 0
  BY DEF Init, SenderInit
<1> QED
  BY <1>1, <1>2, <1>3 DEF CopyInv, SingleLiveCopy, InflightCoversPipeline, Live

LEMMA CopyStep == CopyInv /\ [Next]_vars => CopyInv'
<1> SUFFICES ASSUME CopyInv, [Next]_vars
             PROVE  SingleLiveCopy' /\ InflightCoversPipeline'
  BY StepType DEF CopyInv
<1>a. UNCHANGED <<queue, sender, immediate_inflight, job>>
        => SingleLiveCopy' /\ InflightCoversPipeline'
  <2> SUFFICES ASSUME UNCHANGED <<queue, sender, immediate_inflight, job>>
               PROVE  SingleLiveCopy' /\ InflightCoversPipeline'
    OBVIOUS
  <2>1. /\ \A r \in RequestIds : Busy(r)' => Busy(r)
        /\ \A t \in Types, r \in RequestIds : InHand(t, r)' => InHand(t, r)
    BY DEF Busy, Holding, InHand
  <2> QED
    BY <2>1, FrameKeepsCopies DEF CopyInv
<1>1. ASSUME NEW r \in RequestIds, Accept(r) \/ Commit(r)
      PROVE  SingleLiveCopy' /\ InflightCoversPipeline'
  BY <1>1, <1>a DEF Accept, Commit, senderVars
<1>2. ASSUME NEW u \in Users, Delete(u) \/ Deleted(u) \/ Return(u)
      PROVE  SingleLiveCopy' /\ InflightCoversPipeline'
  BY <1>2, <1>a DEF Delete, Deleted, Return, senderVars
<1>3. ASSUME NEW t \in Types, JobStep(t)
      PROVE  SingleLiveCopy' /\ InflightCoversPipeline'
  BY <1>3, JobKeepsCopies
<1>4. CASE SenderRuns
  BY <1>4, SenderKeepsCopies DEF SenderRuns
<1>5. CASE Restart
  <2>1. \A r \in RequestIds : ~Busy(r)' /\ ~Queued(r)'
                              /\ \A t \in Types : ~InHand(t, r)'
    BY <1>5 DEF Restart, SenderLost, IdleSender, Busy, Holding, Queued, InHand,
                IdleJob
  <2>2. Len(queue') = 0
    BY <1>5 DEF Restart, SenderLost
  <2> QED
    BY <2>1, <2>2 DEF SingleLiveCopy, InflightCoversPipeline, Live
<1>6. CASE UNCHANGED vars
  BY <1>6, <1>a DEF vars, senderVars
<1> QED
  BY <1>1, <1>2, <1>3, <1>4, <1>5, <1>6 DEF Next

\* At every moment a request has at most one live copy, in the hand of a job,
\* in the queue or with the sender: no interleaving of the three polling jobs
\* with the sender, and no fault, lets two jobs work on one request.
THEOREM OneLiveCopy == Spec => []SingleLiveCopy
<1>1. CopyInv => SingleLiveCopy
  BY DEF CopyInv
<1> QED
  BY CopyInitially, CopyStep, <1>1, PTL DEF Spec

\* Whatever is on its way to a user, in the hand of a job, in the queue or with
\* the sender, is claimed in immediate_send_inflight.
THEOREM ClaimsCover == Spec => []InflightCoversPipeline
<1>1. CopyInv => InflightCoversPipeline
  BY DEF CopyInv
<1> QED
  BY CopyInitially, CopyStep, <1>1, PTL DEF Spec

-----------------------------------------------------------------------------
(* What becomes of a request in notification_history.                      *)

\* The deletion of an account, for the rows of requests: its owner's rows that
\* the DELETE locked go, every other row stays as it is, and no row appears.
LEMMA DeletionAndRequests ==
  ASSUME DbTypeOK, NEW u \in Users, CommitDeletion(u)
  PROVE  /\ \A h \in history' : h.request # NoId => h \in history
         /\ \A h \in history : h.request # NoId /\ h \notin history' => h.user = u
         /\ status' = [status EXCEPT ![u] = "DELETED"]
<1> DEFINE mine  == {h \in captured : h.user = u}
           owned == {n \in NotificationIds : NotificationOwner[n] = u /\ Exists(n)}
<1>1. history' = SetNull(history \ mine, owned) /\ status' = [status EXCEPT ![u] = "DELETED"]
  BY DEF CommitDeletion
<1>2. \A h \in history : h.request # NoId => h.notification \notin owned
  <2>1. \A h \in history : h.request # NoId => h.notification = NoId
    BY DEF DbTypeOK, Row
  <2>2. NoId \notin owned
    OBVIOUS
  <2> QED
    BY <2>1, <2>2
<1>3. ASSUME NEW h \in history', h.request # NoId
      PROVE  h \in history
  <2>1. PICK g \in history \ mine :
          h = IF g.notification \in owned THEN [g EXCEPT !.notification = NoId] ELSE g
    BY <1>1, <1>3 DEF SetNull
  <2>2. h.request = g.request
    BY <2>1 DEF DbTypeOK, Row
  <2> QED
    BY <1>2, <1>3, <2>1, <2>2
<1>4. ASSUME NEW h \in history, h.request # NoId, h \notin history'
      PROVE  h.user = u
  <2>1. h \in history \ mine => h \in history'
    BY <1>1, <1>2, <1>4 DEF SetNull
  <2> QED
    BY <1>4, <2>1
<1> QED
  BY <1>1, <1>3, <1>4

\* What the five kinds of steps leave alone.
LEMMA StepFrames ==
  ASSUME [Next]_vars
  PROVE  \/ /\ SenderRuns
            /\ UNCHANGED <<job, restarts, status, relogins>>
         \/ \E t \in Types :
              /\ JobStep(t)
              /\ UNCHANGED <<sender, delivered, restarts, status, relogins>>
              /\ UNCHANGED history \/ RecordFailure(t)
         \/ \E u \in Users :
              /\ Delete(u) \/ Deleted(u) \/ Return(u)
              /\ UNCHANGED <<queue, sender, immediate_inflight, delivered, job, restarts>>
         \/ Restart /\ UNCHANGED <<delivered, status, history, relogins>>
         \/ UNCHANGED <<queue, sender, immediate_inflight, delivered, job, restarts,
                        status, history, relogins>>
<1>1. CASE SenderRuns
  BY <1>1 DEF SenderRuns, SenderStep, Ready, Get, CheckUser, SendSucceeds, SendFails,
              SendRaises, Record, InsertResult, RecordRejected, DatabaseRaises,
              Release, dbVars
<1>2. ASSUME NEW t \in Types, JobStep(t)
      PROVE  /\ UNCHANGED <<sender, delivered, restarts, status, relogins>>
             /\ UNCHANGED history \/ RecordFailure(t)
  BY <1>2 DEF JobStep, Poll, Resume, FetchSucceeds, FetchFails, FetchRaises,
              RecordFailure, InsertResult, FailureRejected, FinishFailure, JobRaises,
              dbVars, senderVars
<1>3. ASSUME NEW u \in Users, Delete(u) \/ Deleted(u) \/ Return(u)
      PROVE  UNCHANGED <<queue, sender, immediate_inflight, delivered, job, restarts>>
  BY <1>3 DEF Delete, Deleted, Return, senderVars
<1>4. CASE Restart
  BY <1>4 DEF Restart, SenderLost, dbVars
<1>5. ASSUME UNCHANGED vars \/ \E r \in RequestIds : Accept(r) \/ Commit(r)
      PROVE  UNCHANGED <<queue, sender, immediate_inflight, delivered, job, restarts,
                         status, history, relogins>>
  BY <1>5 DEF Accept, Commit, vars, dbVars, senderVars
<1> QED
  BY <1>1, <1>2, <1>3, <1>4, <1>5 DEF Next

\* Which steps write notification_history: the sender's INSERT, a job's INSERT,
\* and the deletion of an account.
LEMMA HistoryWrites ==
  ASSUME [Next]_vars
  PROVE  \/ UNCHANGED history
         \/ Record /\ SenderRuns
         \/ \E t \in Types : RecordFailure(t)
         \/ \E u \in Users : Deleted(u)
<1>1. ASSUME NEW u \in Users, Delete(u) \/ Return(u)
      PROVE  UNCHANGED history
  BY <1>1 DEF Delete, Return, EraseHistory, Relogin
<1>2. CASE SenderRuns
  BY <1>2 DEF SenderRuns, SenderStep, Ready, Get, CheckUser, SendSucceeds, SendFails,
              SendRaises, RecordRejected, DatabaseRaises, Release, dbVars
<1> QED
  BY <1>1, <1>2, StepFrames

\* A row that notification_history has for a request never changes, and only
\* the deletion of its user's account removes it: neither a second task for
\* the request, nor a job's FAILED row, nor the removal of a subscription
\* rewrites what was recorded.
THEOREM RecordedFateStands == Spec => FateIsFinal
<1> DEFINE Stands == \A h \in history : h.request # NoId /\ h \notin history'
                                        => status'[h.user] = "DELETED"
<1>1. TypeOK /\ [Next]_vars => Stands
  <2> SUFFICES ASSUME TypeOK, [Next]_vars
               PROVE  Stands
    OBVIOUS
  <2>1. CASE UNCHANGED history \/ Record \/ \E t \in Types : RecordFailure(t)
    BY <2>1 DEF Record, RecordFailure, InsertResult
  <2>2. ASSUME NEW u \in Users, Deleted(u)
        PROVE  Stands
    BY <2>2, DeletionAndRequests DEF Deleted, TypeOK, DbTypeOK, Row
  <2> QED
    BY <2>1, <2>2, HistoryWrites
<1>2. Stands => [Stands]_vars
  OBVIOUS
<1> QED
  BY InitType, StepType, <1>1, PTL DEF Spec, FateIsFinal

\* Which steps reach Discord, and what they do to the count of DMs.
LEMMA DeliveredWrites ==
  ASSUME TypeOK, [Next]_vars
  PROVE  \/ UNCHANGED delivered
         \/ /\ SendSucceeds \/ SendFails \/ SendRaises
            /\ sender.task.request \in RequestIds
            /\ delivered' = [delivered EXCEPT ![sender.task.request] = @ + 1]
<1>1. CASE SendSucceeds \/ SendFails \/ SendRaises
  <2>1. sender.task \in Task
    BY <1>1 DEF TypeOK, SenderTypeOK, Holding, SendSucceeds, SendFails, SendRaises
  <2>2. sender.task.request \in RequestIds \cup {NoId}
    BY <2>1 DEF Task
  <2> QED
    BY <1>1, <2>2 DEF SendSucceeds, SendFails, SendRaises, Delivery, FailedDelivery
<1>2. CASE SenderRuns /\ ~(SendSucceeds \/ SendFails \/ SendRaises)
  BY <1>2 DEF SenderRuns, SenderStep, Ready, Get, CheckUser, Record, RecordRejected,
              DatabaseRaises, Release
<1> QED
  BY <1>1, <1>2, StepFrames

\* A DM cannot be taken back.
LEMMA DmsNeverDecrease ==
  ASSUME TypeOK, [Next]_vars
  PROVE  \A r \in RequestIds : delivered'[r] \in Nat /\ delivered[r] <= delivered'[r]
<1>1. delivered \in [RequestIds -> Nat]
  BY DEF TypeOK, SenderTypeOK
<1>2. CASE UNCHANGED delivered
  BY <1>1, <1>2
<1>3. CASE /\ sender.task.request \in RequestIds
           /\ delivered' = [delivered EXCEPT ![sender.task.request] = @ + 1]
  BY <1>1, <1>3
<1> QED
  BY <1>2, <1>3, DeliveredWrites

\* A SUCCESS result is about a request whose user has a DM, in the history and
\* already while the sender is about to record it.
TruthInv ==
  /\ TypeOK
  /\ SuccessIsTrue
  /\ Holding /\ sender.result = "SUCCESS" /\ sender.task.request # NoId
       => delivered[sender.task.request] > 0

LEMMA ResultIsTrue ==
  ASSUME TruthInv, [Next]_vars,
         Holding', sender'.result = "SUCCESS", sender'.task.request # NoId
  PROVE  delivered'[sender'.task.request] > 0
<1> USE DEF TruthInv, Holding
<1>1. sender \in SenderState
  BY DEF TypeOK, SenderTypeOK
<1>2. TypeOK'
  BY StepType
<1>3. sender'.task.request \in RequestIds
  BY <1>2 DEF TypeOK, SenderTypeOK, Task
<1>4. ASSUME Holding, sender'.task = sender.task, sender.result = "SUCCESS"
      PROVE  delivered'[sender'.task.request] > 0
  <2>1. sender.task.request \in RequestIds /\ delivered[sender.task.request] > 0
    BY <1>3, <1>4
  <2>2. PICK r \in RequestIds : r = sender.task.request
    BY <2>1
  <2>3. delivered'[r] \in Nat /\ delivered[r] <= delivered'[r]
    BY DmsNeverDecrease
  <2>4. delivered[r] \in Nat /\ delivered[r] > 0
    BY <2>1, <2>2 DEF TypeOK, SenderTypeOK
  <2>5. delivered'[r] > 0
    BY <2>3, <2>4
  <2> QED
    BY <1>4, <2>2, <2>5
<1>5. CASE SenderRuns
  <2>1. CASE Ready \/ Get \/ Release
    BY <2>1 DEF Ready, Get, Release, IdleSender
  <2>2. CASE SendSucceeds
    <3>1. sender'.task = sender.task /\ delivered \in [RequestIds -> Nat]
      BY <1>1, <2>2 DEF SendSucceeds, SenderState, TypeOK, SenderTypeOK
    <3> QED
      BY <1>3, <2>2, <3>1 DEF SendSucceeds, Delivery
  <2>3. CASE CheckUser
    BY <1>1, <1>4, <2>3 DEF CheckUser, SenderState
  <2>4. CASE SendFails
    BY <1>1, <1>4, <2>4 DEF SendFails, SenderState
  <2>5. CASE SendRaises \/ Record \/ RecordRejected \/ DatabaseRaises
    BY <1>1, <1>4, <2>5 DEF SendRaises, Record, RecordRejected, DatabaseRaises,
                            SenderState
  <2> QED
    BY <1>5, <2>1, <2>2, <2>3, <2>4, <2>5 DEF SenderRuns, SenderStep
<1>6. CASE Restart
  BY <1>6 DEF Restart, SenderLost, IdleSender
<1>7. CASE UNCHANGED sender
  BY <1>4, <1>7
<1> QED
  BY <1>5, <1>6, <1>7, StepFrames

LEMMA HistoryIsTrue ==
  ASSUME TruthInv, [Next]_vars
  PROVE  SuccessIsTrue'
<1> SUFFICES ASSUME NEW h \in history', h.status = "SUCCESS", h.request # NoId
             PROVE  delivered'[h.request] > 0
  BY DEF SuccessIsTrue
<1> USE DEF TruthInv
<1>1. ASSUME h \in history
      PROVE  delivered'[h.request] > 0
  <2>1. h.request \in RequestIds /\ delivered[h.request] > 0
    BY <1>1 DEF TypeOK, DbTypeOK, Row, SuccessIsTrue
  <2>2. delivered[h.request] \in Nat
    BY <2>1 DEF TypeOK, SenderTypeOK
  <2>3. delivered'[h.request] \in Nat /\ delivered[h.request] <= delivered'[h.request]
    <3>1. TypeOK
      OBVIOUS
    <3> QED
      BY <2>1, <3>1, DmsNeverDecrease
  <2> QED
    BY <2>1, <2>2, <2>3
<1>2. CASE Record /\ h = ResultRow
  BY <1>2 DEF Record, ResultRow, Holding
<1>3. ASSUME NEW t \in Types, RecordFailure(t)
      PROVE  delivered'[h.request] > 0
  BY <1>1, <1>3 DEF RecordFailure, InsertResult, FailureRow
<1>4. ASSUME NEW u \in Users, Deleted(u)
      PROVE  delivered'[h.request] > 0
  BY <1>1, <1>4, DeletionAndRequests DEF Deleted, TypeOK
<1>5. CASE Record
  BY <1>1, <1>2, <1>5 DEF Record, InsertResult
<1> QED
  BY <1>1, <1>3, <1>4, <1>5, HistoryWrites

\* notification_history never claims a DM that was not sent: a SUCCESS row of
\* a request means that its user has received at least one DM for it, whatever
\* fails, restarts or is deleted in between.
THEOREM SuccessRowsAreTrue == Spec => []SuccessIsTrue
<1>1. Init => TruthInv
  BY InitType DEF Init, DbInit, SenderInit, IdleSender, TruthInv, SuccessIsTrue, Holding
<1>2. TruthInv /\ [Next]_vars => TruthInv'
  BY StepType, ResultIsTrue, HistoryIsTrue DEF TruthInv
<1>3. TruthInv => SuccessIsTrue
  BY DEF TruthInv
<1> QED
  BY <1>1, <1>2, <1>3, PTL DEF Spec

-----------------------------------------------------------------------------
(* Every task and every history row of a request is about its owner.       *)

OwnedTask == {task \in Task : task.request # NoId => task.user = RequestOwner[task.request]}

OwnersMatch ==
  /\ \A h \in history : h.request # NoId => h.user = RequestOwner[h.request]
  /\ queue \in Seq(OwnedTask)
  /\ Holding => sender.task \in OwnedTask

OwnersInv == TypeOK /\ OwnersMatch

LEMMA AdminAlertsOwned == AdminAlerts \in Seq(OwnedTask)
<1>1. \A i \in 1..Len(Admins) : AdminTask(Admins[i]) \in OwnedTask
  BY DEF AdminTask, OwnedTask, Task, AdminIds
<1>2. Len(Admins) \in Nat
  BY LenProperties
<1> QED
  BY <1>1, <1>2, IsASeq DEF AdminAlerts

LEMMA RequestTaskOwned == \A r \in RequestIds : RequestTask(r) \in OwnedTask
BY RequestTaskType DEF RequestTask, OwnedTask

LEMMA SenderKeepsOwners ==
  ASSUME OwnersInv, SenderRuns
  PROVE  queue' \in Seq(OwnedTask) /\ (Holding' => sender'.task \in OwnedTask)
<1> USE DEF OwnersInv, OwnersMatch, Holding
<1>1. sender \in SenderState
  BY DEF TypeOK, SenderTypeOK
<1>2. CASE Get
  <2>1. Head(queue) \in OwnedTask /\ Tail(queue) \in Seq(OwnedTask)
    BY <1>2, HeadTailProperties DEF Get
  <2> QED
    BY <1>2, <2>1 DEF Get
<1>3. CASE Ready \/ Release
  BY <1>3 DEF Ready, Release, IdleSender
<1>4. CASE CheckUser
  BY <1>1, <1>4 DEF CheckUser, SenderState
<1>5. CASE SendFails
  BY <1>1, <1>5 DEF SendFails, SenderState
<1>6. CASE SendSucceeds \/ SendRaises
  BY <1>1, <1>6 DEF SendSucceeds, SendRaises, SenderState
<1>7. CASE Record \/ RecordRejected \/ DatabaseRaises
  BY <1>1, <1>7 DEF Record, RecordRejected, DatabaseRaises, SenderState
<1> QED
  BY <1>2, <1>3, <1>4, <1>5, <1>6, <1>7 DEF SenderRuns, SenderStep

LEMMA QueueKeepsOwners ==
  ASSUME OwnersInv, [Next]_vars
  PROVE  queue' \in Seq(OwnedTask) /\ (Holding' => sender'.task \in OwnedTask)
<1> USE DEF OwnersInv, OwnersMatch
<1>1. UNCHANGED sender => (Holding' => sender'.task \in OwnedTask)
  BY DEF Holding
<1>2. UNCHANGED <<queue, sender>> => queue' \in Seq(OwnedTask)
                                     /\ (Holding' => sender'.task \in OwnedTask)
  BY <1>1
<1>3. ASSUME NEW r \in RequestIds, Accept(r) \/ Commit(r)
      PROVE  UNCHANGED <<queue, sender>>
  BY <1>3 DEF Accept, Commit, senderVars
<1>4. ASSUME NEW u \in Users, Delete(u) \/ Deleted(u) \/ Return(u)
      PROVE  UNCHANGED <<queue, sender>>
  BY <1>4 DEF Delete, Deleted, Return, senderVars
<1>5. ASSUME NEW t \in Types, JobStep(t)
      PROVE  UNCHANGED sender /\ queue' \in Seq(OwnedTask)
  <2>1. CASE FetchSucceeds(t)
    <3>1. job[t].row \in RequestIds
      BY <2>1 DEF FetchSucceeds, TypeOK
    <3>2. RequestTask(job[t].row) \in OwnedTask
      BY <3>1, RequestTaskOwned
    <3> QED
      BY <2>1, <3>2, AppendProperties DEF FetchSucceeds
  <2>2. CASE FinishFailure(t)
    <3>1. queue \o AdminAlerts \in Seq(OwnedTask)
      BY AdminAlertsOwned, ConcatProperties
    <3> QED
      BY <2>2, <3>1 DEF FinishFailure
  <2>3. CASE Poll(t) \/ Resume(t) \/ FetchFails(t) \/ FetchRaises(t)
             \/ RecordFailure(t) \/ FailureRejected(t)
    BY <2>3 DEF Poll, Resume, FetchFails, FetchRaises, RecordFailure, FailureRejected,
                JobRaises, senderVars
  <2> QED
    BY <1>5, <2>1, <2>2, <2>3 DEF JobStep
<1>6. CASE SenderRuns
  BY <1>6, SenderKeepsOwners
<1>7. CASE Restart
  <2>1. queue' = <<>> /\ ~Holding'
    BY <1>7 DEF Restart, SenderLost, IdleSender, Holding
  <2> QED
    BY <2>1, EmptySeq
<1>8. CASE UNCHANGED vars
  BY <1>2, <1>8 DEF vars, senderVars
<1> QED
  BY <1>1, <1>2, <1>3, <1>4, <1>5, <1>6, <1>7, <1>8 DEF Next

LEMMA OwnersInitially == Init => OwnersInv
BY InitType, EmptySeq DEF Init, DbInit, SenderInit, IdleSender, Holding, OwnersInv,
                          OwnersMatch

LEMMA OwnersStep == OwnersInv /\ [Next]_vars => OwnersInv'
<1> SUFFICES ASSUME OwnersInv, [Next]_vars
             PROVE  OwnersInv'
  OBVIOUS
<1> USE DEF OwnersInv, OwnersMatch
<1>1. TypeOK'
  BY StepType
<1> SUFFICES ASSUME NEW h \in history', h.request # NoId
             PROVE  h.user = RequestOwner[h.request]
  BY <1>1, QueueKeepsOwners
<1>2. CASE Record
  BY <1>2 DEF Record, InsertResult, ResultRow, Holding, OwnedTask
<1>3. ASSUME NEW t \in Types, RecordFailure(t)
      PROVE  h.user = RequestOwner[h.request]
  BY <1>3 DEF RecordFailure, InsertResult, FailureRow
<1>4. ASSUME NEW u \in Users, Deleted(u)
      PROVE  h.user = RequestOwner[h.request]
  BY <1>4, DeletionAndRequests DEF Deleted, TypeOK
<1> QED
  BY <1>2, <1>3, <1>4, HistoryWrites

-----------------------------------------------------------------------------
(* How the pipeline moves: who may come to hold a request, and who lets go. *)

\* A request whose fate was recorded, or whose owner has left, stays so unless
\* the account comes back.
Settled(r) == Recorded(r) \/ status[RequestOwner[r]] = "DELETED"

LEMMA StatusWrites ==
  ASSUME [Next]_vars
  PROVE  \/ UNCHANGED <<status, relogins>>
         \/ \E u \in Users : Deleted(u) /\ UNCHANGED relogins
         \/ \E u \in Users : Return(u) /\ relogins < MaxRelogins
                             /\ relogins' = relogins + 1
<1>1. ASSUME NEW u \in Users, Delete(u)
      PROVE  UNCHANGED <<status, relogins>>
  BY <1>1 DEF Delete, EraseHistory
<1>2. ASSUME NEW u \in Users, Deleted(u)
      PROVE  UNCHANGED relogins
  BY <1>2 DEF Deleted, CommitDeletion
<1>3. ASSUME NEW u \in Users, Return(u)
      PROVE  relogins < MaxRelogins /\ relogins' = relogins + 1
  BY <1>3 DEF Return, Relogin
<1> QED
  BY <1>1, <1>2, <1>3, StepFrames

LEMMA SettledStays ==
  ASSUME OwnersInv, [Next]_vars, NEW r \in RequestIds, Settled(r), UNCHANGED relogins
  PROVE  Settled(r)'
<1> USE DEF OwnersInv
<1>0. NoId # r /\ RequestOwner[r] \in Users
  OBVIOUS
<1>1. CASE status[RequestOwner[r]] = "DELETED"
  <2>1. CASE UNCHANGED status
    BY <1>1, <2>1 DEF Settled
  <2>2. ASSUME NEW u \in Users, Deleted(u)
        PROVE  status'[RequestOwner[r]] = "DELETED"
    BY <1>0, <1>1, <2>2, DeletionAndRequests DEF Deleted, TypeOK, DbTypeOK
  <2>3. ASSUME relogins' = relogins + 1
        PROVE  FALSE
    BY <2>3 DEF TypeOK, DbTypeOK
  <2> QED
    BY <2>1, <2>2, <2>3, StatusWrites DEF Settled
<1>2. ASSUME NEW h \in history, h.request = r
      PROVE  Settled(r)'
  <2>1. h.user = RequestOwner[r]
    BY <1>0, <1>2 DEF OwnersMatch
  <2>2. CASE h \in history'
    BY <1>2, <2>2 DEF Settled, Recorded
  <2>3. CASE h \notin history'
    <3>1. PICK u \in Users : Deleted(u)
      BY <2>3, HistoryWrites DEF Record, RecordFailure, InsertResult
    <3>2. h.user = u /\ status' = [status EXCEPT ![u] = "DELETED"]
      BY <1>0, <1>2, <2>3, <3>1, DeletionAndRequests DEF Deleted, TypeOK
    <3> QED
      BY <2>1, <3>2 DEF Settled, TypeOK, DbTypeOK
  <2> QED
    BY <2>2, <2>3
<1> QED
  BY <1>1, <1>2 DEF Settled, Recorded

\* Restarts and returns of an account are only counted upwards.
Disturbed == restarts + relogins > 0

LEMMA CountsGrow ==
  ASSUME TypeOK, [Next]_vars
  PROVE  /\ restarts \in Nat /\ restarts' \in Nat /\ restarts <= restarts'
         /\ relogins \in Nat /\ relogins' \in Nat /\ relogins <= relogins'
<1>1. restarts \in Nat /\ relogins \in Nat
  BY DEF TypeOK, DbTypeOK
<1>2. restarts' = restarts \/ restarts' = restarts + 1
  BY StepFrames DEF Restart
<1>3. relogins' = relogins \/ relogins' = relogins + 1
  BY StatusWrites
<1> QED
  BY <1>1, <1>2, <1>3

-----------------------------------------------------------------------------
(* A FAILED row is only written for a request without a DM.                *)

\* A request whose user has the DM is recorded, or its owner has left, or the
\* sender is about to record SUCCESS, or the counts show why it is not so.
Accounted(r) == delivered[r] > 0
                  => \/ Settled(r)
                     \/ Busy(r) /\ sender.pc = "record" /\ sender.result = "SUCCESS"
                     \/ Disturbed

AccountedInv == CopyInv /\ OwnersInv /\ \A r \in RequestIds : Accounted(r)

\* What the sender does next with a request whose SUCCESS it must record.
LEMMA SenderRecordsSuccess ==
  ASSUME AccountedInv, "db" \notin Faults, SenderRuns, NEW r \in RequestIds,
         Busy(r), sender.pc = "record", sender.result = "SUCCESS"
  PROVE  Settled(r)'
<1> USE DEF AccountedInv, OwnersInv
<1>1. sender.task \in OwnedTask /\ sender.task \in Task /\ sender.task.request = r
  BY DEF Busy, OwnersMatch, OwnedTask
<1>2. CASE Record
  <2>1. ResultRow \in history' /\ ResultRow.request = r
    BY <1>1, <1>2 DEF Record, InsertResult, ResultRow
  <2> QED
    BY <2>1 DEF Settled, Recorded
<1>3. CASE RecordRejected
  <2>1. ResultRow.user \in Users /\ ResultRow.notification = NoId /\ ResultRow.request = r
    BY <1>1 DEF ResultRow, OwnedTask, Task
  <2>2. Recorded(r)
    BY <1>3, <2>1 DEF RecordRejected, InsertAllowed
  <2> QED
    BY <1>3, <2>2 DEF RecordRejected, dbVars, Settled, Recorded
<1> QED
  BY <1>2, <1>3 DEF SenderRuns, SenderStep, Ready, Get, CheckUser, SendSucceeds,
                    SendFails, SendRaises, DatabaseRaises, Release

LEMMA SenderKeepsAccounts ==
  ASSUME AccountedInv, "db" \notin Faults, "ambiguous" \notin Faults, SenderRuns,
         NEW r \in RequestIds
  PROVE  Accounted(r)'
<1> USE DEF AccountedInv, OwnersInv
<1>0. /\ UNCHANGED <<restarts, relogins>>
      /\ sender \in SenderState /\ delivered \in [RequestIds -> Nat]
  BY DEF SenderRuns, SenderStep, Ready, Get, CheckUser, SendSucceeds, SendFails, SendRaises,
         Record, InsertResult, RecordRejected, DatabaseRaises, Release, dbVars,
         TypeOK, SenderTypeOK
<1>1. CASE delivered[r] > 0
  <2>1. CASE Settled(r)
    BY <1>0, <2>1, SettledStays DEF Accounted, Next
  <2>2. CASE Busy(r) /\ sender.pc = "record" /\ sender.result = "SUCCESS"
    BY <2>2, SenderRecordsSuccess DEF Accounted
  <2>3. CASE Disturbed
    BY <1>0, <2>3 DEF Accounted, Disturbed
  <2> QED
    BY <1>1, <2>1, <2>2, <2>3 DEF Accounted
<1>2. CASE ~(delivered[r] > 0)
  <2>1. CASE SendSucceeds
    BY <1>0, <1>2, <2>1 DEF SendSucceeds, Delivery, Accounted, Busy, Holding, SenderState
  <2>2. CASE ~SendSucceeds
    <3>1. UNCHANGED delivered
      BY <2>2 DEF SenderRuns, SenderStep, Ready, Get, CheckUser, SendFails, SendRaises,
                  FailedDelivery, Record, RecordRejected, DatabaseRaises, Release
    <3> QED
      BY <1>2, <3>1 DEF Accounted
  <2> QED
    BY <2>1, <2>2
<1> QED
  BY <1>1, <1>2

LEMMA AccountsStep ==
  ASSUME "db" \notin Faults, "ambiguous" \notin Faults, AccountedInv, [Next]_vars
  PROVE  AccountedInv'
<1> USE DEF AccountedInv, OwnersInv
<1> SUFFICES ASSUME NEW r \in RequestIds
             PROVE  Accounted(r)'
  BY CopyStep, OwnersStep
<1>1. CASE SenderRuns
  BY <1>1, SenderKeepsAccounts
<1>2. CASE Disturbed'
  BY <1>2 DEF Accounted
<1>3. CASE ~SenderRuns /\ ~Disturbed'
  <2>1. ~Restart /\ UNCHANGED relogins /\ ~Disturbed
    BY <1>3, CountsGrow DEF Restart, Disturbed
  <2>2. UNCHANGED <<sender, delivered>>
    <3>1. ASSUME NEW q \in RequestIds, Accept(q) \/ Commit(q)
          PROVE  UNCHANGED <<sender, delivered>>
      BY <3>1 DEF Accept, Commit, senderVars
    <3>2. ASSUME NEW u \in Users, Delete(u) \/ Deleted(u) \/ Return(u)
          PROVE  UNCHANGED <<sender, delivered>>
      BY <3>2 DEF Delete, Deleted, Return, senderVars
    <3>3. ASSUME NEW t \in Types, JobStep(t)
          PROVE  UNCHANGED <<sender, delivered>>
      BY <3>3 DEF JobStep, Poll, Resume, FetchSucceeds, FetchFails, FetchRaises,
                  RecordFailure, FailureRejected, FinishFailure, JobRaises, senderVars
    <3> QED
      BY <1>3, <2>1, <3>1, <3>2, <3>3 DEF Next, vars, senderVars
  <2> QED
    BY <2>1, <2>2, SettledStays DEF Accounted, Busy, Holding
<1> QED
  BY <1>1, <1>2, <1>3

\* Without database failures and lost replies, a FAILED row is never written
\* for a request whose user already has the DM, by the sender or by a polling
\* job, unless the bot restarted, or the user left (and perhaps came back).
THEOREM FailedRowsAreTrue ==
  ASSUME "db" \notin Faults, "ambiguous" \notin Faults
  PROVE  Spec => FailureIsTrueWhenRecorded
<1> DEFINE True == \A h \in history' \ history :
                     h.status = "FAILED" /\ h.request # NoId
                       => \/ delivered[h.request] = 0
                          \/ restarts + relogins > 0
                          \/ status[h.user] = "DELETED"
<1>1. Init => AccountedInv
  BY CopyInitially, OwnersInitially
     DEF Init, SenderInit, AccountedInv, Accounted
<1>2. AccountedInv /\ [Next]_vars => AccountedInv'
  BY AccountsStep
<1>3. AccountedInv /\ [Next]_vars => True
  <2> SUFFICES ASSUME AccountedInv, [Next]_vars,
                      NEW h \in history' \ history,
                      h.status = "FAILED", h.request # NoId,
                      restarts + relogins <= 0
               PROVE  delivered[h.request] = 0 \/ status[h.user] = "DELETED"
    BY CountsGrow DEF AccountedInv, OwnersInv
  <2> USE DEF AccountedInv, OwnersInv
  <2>1. ASSUME NEW r \in RequestIds, ~Recorded(r),
               ~(Busy(r) /\ sender.pc = "record" /\ sender.result = "SUCCESS")
        PROVE  delivered[r] = 0 \/ status[RequestOwner[r]] = "DELETED"
    <3>1. ~Disturbed /\ delivered[r] \in Nat
      BY CountsGrow DEF Disturbed, TypeOK, SenderTypeOK
    <3> QED
      BY <2>1, <3>1 DEF Accounted, Settled
  <2>2. CASE Record
    <3>1. sender.task \in OwnedTask /\ sender.task \in Task /\ h = ResultRow
      BY <2>2 DEF Record, InsertResult, Holding, OwnersMatch, OwnedTask
    <3>2. /\ h.request \in RequestIds /\ h.user = RequestOwner[h.request]
          /\ sender.result = "FAILED"
      BY <3>1 DEF ResultRow, OwnedTask, Task
    <3>3. ~Recorded(h.request)
      BY <2>2, <3>1 DEF Record, InsertResult, InsertAllowed
    <3> QED
      BY <2>1, <3>2, <3>3
  <2>3. ASSUME NEW t \in Types, RecordFailure(t)
        PROVE  delivered[h.request] = 0 \/ status[h.user] = "DELETED"
    <3>1. job[t].row \in RequestIds /\ h = FailureRow(job[t].row)
      BY <2>3 DEF RecordFailure, InsertResult, TypeOK
    <3>2. h.request = job[t].row /\ h.user = RequestOwner[h.request]
      BY <3>1 DEF FailureRow
    <3>3. ~Recorded(h.request)
      BY <2>3, <3>1 DEF RecordFailure, InsertResult, InsertAllowed
    <3>4. ~Busy(h.request)
      BY <2>3, <3>1, <3>2 DEF RecordFailure, InHand, CopyInv, SingleLiveCopy
    <3> QED
      BY <2>1, <3>1, <3>2, <3>3, <3>4
  <2>4. ASSUME NEW u \in Users, Deleted(u)
        PROVE  FALSE
    BY <2>4, DeletionAndRequests DEF Deleted, TypeOK
  <2> QED
    BY <2>2, <2>3, <2>4, HistoryWrites
<1> QED
  BY <1>1, <1>2, <1>3, PTL DEF Spec, FailureIsTrueWhenRecorded

-----------------------------------------------------------------------------
(* No request is claimed for good.                                         *)

\* A task at some place of the queue is at some place of a longer queue.
LEMMA QueuedStays ==
  ASSUME queue \in Seq(Task), NEW more \in Seq(Task), queue' = queue \o more,
         NEW r \in RequestIds, Queued(r)
  PROVE  Queued(r)'
<1>1. PICK i \in 1..Len(queue) : queue[i].request = r
  BY Zenon DEF Queued
<1>2. i \in 1..Len(queue') /\ queue'[i] = queue[i]
  BY ConcatProperties, LenProperties
<1>3. \E j \in 1..Len(queue') : queue'[j].request = r
  BY <1>1, <1>2
<1> QED
  BY <1>3, Zenon DEF Queued

\* The head of the queue comes to the sender, the rest stays queued.
LEMMA GetMovesOne ==
  ASSUME queue \in Seq(Task), Get, NEW r \in RequestIds, Queued(r)
  PROVE  Busy(r)' \/ Queued(r)'
<1>1. PICK i \in 1..Len(queue) : queue[i].request = r
  BY Zenon DEF Queued
<1>2. /\ Len(queue) \in Nat \ {0} /\ Head(queue) = queue[1]
      /\ Len(queue') = Len(queue) - 1
      /\ \A j \in 1..Len(queue') : queue'[j] = queue[j + 1]
  BY HeadTailProperties, LenProperties, EmptySeq DEF Get
<1>3. CASE i = 1
  BY <1>1, <1>2, <1>3 DEF Get, Busy, Holding
<1>4. CASE i # 1
  <2>1. i - 1 \in 1..Len(queue') /\ queue'[i - 1].request = r
    BY <1>1, <1>2, <1>4
  <2>2. \E j \in 1..Len(queue') : queue'[j].request = r
    BY <2>1
  <2> QED
    BY <2>2, Zenon DEF Queued
<1> QED
  BY <1>3, <1>4

LEMMA SenderMoves ==
  ASSUME TypeOK, SenderRuns, NEW r \in RequestIds, Live(r), r \in immediate_inflight'
  PROVE  Live(r)'
<1>1. sender \in SenderState /\ queue \in Seq(Task) /\ UNCHANGED job
  BY DEF TypeOK, SenderTypeOK, SenderRuns
<1>2. \A t \in Types : InHand(t, r) => InHand(t, r)'
  BY <1>1 DEF InHand
<1>3. ASSUME Busy(r)
      PROVE  Busy(r)'
  <2>1. ~Release /\ ~Ready /\ ~Get
    BY <1>3 DEF Release, Ready, Get, Busy, Holding
  <2>2. CASE CheckUser
    BY <1>1, <1>3, <2>2 DEF CheckUser, SenderState, Busy, Holding
  <2>3. CASE SendFails
    BY <1>1, <1>3, <2>3 DEF SendFails, SenderState, Busy, Holding
  <2>4. CASE SendSucceeds \/ SendRaises \/ Record \/ RecordRejected \/ DatabaseRaises
    BY <1>1, <1>3, <2>4 DEF SendSucceeds, SendRaises, Record, RecordRejected,
                            DatabaseRaises, SenderState, Busy, Holding
  <2> QED
    BY <2>1, <2>2, <2>3, <2>4 DEF SenderRuns, SenderStep
<1>4. ASSUME Queued(r)
      PROVE  Busy(r)' \/ Queued(r)'
  <2>1. CASE Get
    BY <1>1, <1>4, <2>1, GetMovesOne
  <2>2. CASE ~Get
    <3>1. UNCHANGED queue
      BY <2>2 DEF SenderRuns, SenderStep, Ready, CheckUser, SendSucceeds, SendFails,
                  SendRaises, Record, RecordRejected, DatabaseRaises, Release
    <3> QED
      BY <1>4, <3>1 DEF Queued
  <2> QED
    BY <2>1, <2>2
<1> QED
  BY <1>2, <1>3, <1>4 DEF Live

\* What the for loop does to a claim: it adds the row it takes in hand.
LEMMA AdvanceTakes ==
  ASSUME JobsTypeOK, NEW t \in Types, NEW flight \in SUBSET RequestIds,
         Advance(t, flight), NEW r \in RequestIds, r \in immediate_inflight'
  PROVE  r \in flight \/ InHand(t, r)'
BY DEF Advance, JobsTypeOK, InHand

LEMMA JobMoves ==
  ASSUME CopyInv, "escape" \notin Faults, "db" \notin Faults,
         NEW t \in Types, JobStep(t), NEW r \in RequestIds,
         r \in immediate_inflight', r \in immediate_inflight => Live(r)
  PROVE  Live(r)' \/ Recorded(r)
<1> USE DEF CopyInv
<1>0. /\ JobsTypeOK /\ immediate_inflight \in SUBSET RequestIds /\ queue \in Seq(Task)
      /\ job \in [Types -> Job]
  BY DEF TypeOK, JobsTypeOK, SenderTypeOK
<1>1. UNCHANGED sender
  BY DEF JobStep, Poll, Resume, FetchSucceeds, FetchFails, FetchRaises,
         RecordFailure, FailureRejected, FinishFailure, JobRaises, senderVars
<1>2. Busy(r) => Busy(r)'
  BY <1>1 DEF Busy, Holding
<1>3. UNCHANGED queue => (Queued(r) => Queued(r)')
  BY DEF Queued
<1>4. CASE Poll(t) \/ FetchFails(t) \/ RecordFailure(t)
  <2>1. UNCHANGED <<queue, immediate_inflight>>
    BY <1>4 DEF Poll, FetchFails, RecordFailure, senderVars
  <2>2. \A s \in Types : InHand(s, r) => InHand(s, r)'
    <3>1. CASE Poll(t)
      BY <1>0, <3>1 DEF Poll, InHand
    <3>2. CASE FetchFails(t)
      BY <1>0, <3>2 DEF FetchFails, InHand, Job
    <3>3. CASE RecordFailure(t)
      BY <1>0, <3>3 DEF RecordFailure, InHand, Job
    <3> QED
      BY <1>4, <3>1, <3>2, <3>3
  <2> QED
    BY <1>2, <1>3, <2>1, <2>2 DEF Live
<1>5. CASE FailureRejected(t)
  <2>1. job[t].row \in RequestIds
    BY <1>5 DEF FailureRejected, TypeOK
  <2>2. Recorded(job[t].row)
    BY <1>5, <2>1 DEF FailureRejected, InsertAllowed, FailureRow
  <2>3. CASE r = job[t].row
    BY <2>2, <2>3
  <2>4. CASE r # job[t].row
    <3>1. UNCHANGED <<queue, immediate_inflight>>
      BY <1>5 DEF FailureRejected, JobRaises, senderVars
    <3>2. \A s \in Types : InHand(s, r) => InHand(s, r)'
      BY <1>0, <1>5, <2>4 DEF FailureRejected, JobRaises, InHand
    <3> QED
      BY <1>2, <1>3, <3>1, <3>2 DEF Live
  <2> QED
    BY <2>3, <2>4
<1>6. CASE Resume(t)
  <2>1. /\ \A s \in Types \ {t} : InHand(s, r)' <=> InHand(s, r)
        /\ r \in immediate_inflight \/ InHand(t, r)'
    BY <1>0, <1>6, AdvanceClaims, AdvanceTakes DEF Resume
  <2>2. ~InHand(t, r) /\ UNCHANGED queue
    BY <1>6 DEF Resume, InHand
  <2> QED
    BY <1>2, <1>3, <2>1, <2>2 DEF Live
<1>7. CASE FetchSucceeds(t)
  <2>1. /\ \A s \in Types \ {t} : InHand(s, r)' <=> InHand(s, r)
        /\ r \in immediate_inflight \/ InHand(t, r)'
    BY <1>0, <1>7, AdvanceClaims, AdvanceTakes DEF FetchSucceeds
  <2>2. job[t].row \in RequestIds
    BY <1>7 DEF FetchSucceeds, TypeOK
  <2>3. Queued(r) => Queued(r)'
    <3>1. RequestTask(job[t].row) \in Task
      BY <2>2, RequestTaskType
    <3>2. <<RequestTask(job[t].row)>> \in Seq(Task)
      BY <3>1, SMT
    <3>3. queue' = queue \o <<RequestTask(job[t].row)>>
      BY <1>0, <1>7, <3>1, AppendIsConcat DEF FetchSucceeds
    <3> QED
      BY <1>0, <3>2, <3>3, QueuedStays
  <2>4. InHand(t, r) => Queued(r)'
    <3> SUFFICES ASSUME r = job[t].row
                 PROVE  Queued(r)'
      BY DEF InHand
    <3>1. RequestTask(r) \in Task /\ RequestTask(r).request = r
      BY RequestTaskType DEF RequestTask
    <3>2. Len(queue') \in 1..Len(queue') /\ queue'[Len(queue')].request = r
      BY <1>0, <1>7, <3>1, AppendProperties, LenProperties DEF FetchSucceeds
    <3>3. \E i \in 1..Len(queue') : queue'[i].request = r
      BY <3>2
    <3> QED
      BY <3>3, Zenon DEF Queued
  <2> QED
    BY <1>2, <2>1, <2>3, <2>4 DEF Live
<1>8. CASE FinishFailure(t)
  <2> DEFINE flight == immediate_inflight \ {job[t].row}
  <2>1. flight \in SUBSET RequestIds /\ Advance(t, flight)
    BY <1>0, <1>8 DEF FinishFailure
  <2>2. /\ \A s \in Types \ {t} : InHand(s, r)' <=> InHand(s, r)
        /\ r \in flight \/ InHand(t, r)'
    <3> HIDE DEF flight
    <3> QED
      BY <1>0, <2>1, AdvanceClaims, AdvanceTakes
  <2>3. Queued(r) => Queued(r)'
    <3>1. CASE job[t].alert
      BY <1>0, <1>8, <3>1, AdminAlertsType, QueuedStays DEF FinishFailure
    <3>2. CASE ~job[t].alert
      BY <1>3, <1>8, <3>2 DEF FinishFailure
    <3> QED
      BY <3>1, <3>2
  <2>4. r \in flight => ~InHand(t, r)
    BY DEF InHand
  <2> QED
    BY <1>2, <2>2, <2>3, <2>4 DEF Live
<1> QED
  BY <1>4, <1>5, <1>6, <1>7, <1>8 DEF JobStep, FetchRaises

\* Without exceptions that end the run of a polling job, and as long as no
\* deleted account comes back (its history is gone, a claim may not be), a
\* claimed request is always on its way, or recorded, or its owner has left.
THEOREM NothingStranded ==
  ASSUME "escape" \notin Faults, "db" \notin Faults, MaxRelogins = 0
  PROVE  Spec => []NoStrandedRequest
<1> DEFINE Inv == CopyInv /\ OwnersInv /\ NoStrandedRequest
<1>1. Init => Inv
  BY CopyInitially, OwnersInitially DEF Init, SenderInit, NoStrandedRequest
<1>2. Inv /\ [Next]_vars => Inv'
  <2> SUFFICES ASSUME Inv, [Next]_vars,
                      NEW r \in immediate_inflight', ~Settled(r)'
               PROVE  Live(r)'
    BY CopyStep, OwnersStep DEF NoStrandedRequest, Settled
  <2>1. r \in RequestIds /\ UNCHANGED relogins
    <3>1. TypeOK /\ TypeOK'
      BY StepType DEF OwnersInv
    <3>2. relogins \in Nat
      BY <3>1 DEF TypeOK, DbTypeOK
    <3> QED
      BY <3>1, <3>2, StatusWrites DEF TypeOK, SenderTypeOK
  <2>2. ~Settled(r)
    BY <2>1, SettledStays
  <2>3. r \in immediate_inflight => Live(r)
    BY <2>2 DEF NoStrandedRequest, Settled
  <2>4. CASE SenderRuns
    <3>1. r \in immediate_inflight
      BY <2>4 DEF SenderRuns, SenderStep, Ready, Get, CheckUser, SendSucceeds, SendFails,
                  SendRaises, Record, RecordRejected, DatabaseRaises, Release
    <3> QED
      BY <2>1, <2>3, <2>4, <3>1, SenderMoves DEF OwnersInv
  <2>5. ASSUME NEW t \in Types, JobStep(t)
        PROVE  Live(r)'
    BY <2>1, <2>2, <2>3, <2>5, JobMoves DEF Settled
  <2>6. CASE Restart
    BY <2>6 DEF Restart, SenderLost
  <2>7. ASSUME UNCHANGED <<senderVars, job>>
        PROVE  Live(r)'
    BY <2>3, <2>7 DEF senderVars, Live, Busy, Holding, Queued, InHand
  <2>8. ASSUME NEW q \in RequestIds, Accept(q) \/ Commit(q)
        PROVE  UNCHANGED <<senderVars, job>>
    BY <2>8 DEF Accept, Commit
  <2>9. ASSUME NEW u \in Users, Delete(u) \/ Deleted(u) \/ Return(u)
        PROVE  UNCHANGED <<senderVars, job>>
    BY <2>9 DEF Delete, Deleted, Return
  <2> QED
    BY <2>4, <2>5, <2>6, <2>7, <2>8, <2>9 DEF Next, vars
<1>3. Inv => NoStrandedRequest
  OBVIOUS
<1> HIDE DEF Inv
<1> QED
  BY <1>1, <1>2, <1>3, PTL DEF Spec

-----------------------------------------------------------------------------
(* How many DMs a request can still cause.                                 *)

\* What the attempts left to the sender can still deliver.
SendsLeft == IF "ambiguous" \in Faults THEN MaxAttempts + 1 - sender.attempt ELSE 1

AtSend(r)   == Busy(r) /\ sender.pc = "send"
AtRecord(r) == Busy(r) /\ sender.pc = "record"

\* A copy of the request is on its way to the sender's guard.
Ahead(r) == \/ Queued(r)
            \/ Busy(r) /\ sender.pc = "guard"
            \/ \E t \in Types : job[t].pc = "fetch" /\ job[t].row = r

\* A polling job has the request among the rows it read and not yet handled;
\* it claims it although the fate may have been recorded since.
Stale(r) == r \in job[RequestType[r]].rows

\* DMs the request can still cause without a further restart or return.  Its
\* owner gone, only an attempt past the guard; its fate recorded, the live
\* copy and one stale row; otherwise one task that will be recorded, and the
\* stale row that a poll leaves behind meanwhile.
LiveLeft(r)  == IF AtSend(r) THEN SendsLeft ELSE IF Ahead(r) THEN PerTask ELSE 0
StaleLeft(r) == IF Stale(r) THEN PerTask ELSE 0

Potential(r) ==
  IF status[RequestOwner[r]] = "DELETED" THEN IF AtSend(r) THEN SendsLeft ELSE 0
  ELSE IF Recorded(r) THEN LiveLeft(r) + StaleLeft(r)
  ELSE IF AtSend(r) THEN SendsLeft + PerTask
  ELSE IF AtRecord(r) THEN PerTask ELSE 2 * PerTask

\* A job only reads rows of its own type, and the first attempt is the first.
RowsMatch == /\ \A t \in Types : \A r \in job[t].rows : RequestType[r] = t
             /\ sender.pc = "guard" => sender.attempt = 1

\* The invariant of the step lemmas, and the one of the theorem.
CountInv == CopyInv /\ OwnersInv /\ RowsMatch

BoundInv == /\ CountInv
            /\ \A r \in RequestIds :
                 delivered[r] + Potential(r) <= PerTask * (2 + restarts + 2 * relogins)

\* What a put adds to the queue.
LEMMA AppendedOnly ==
  ASSUME queue \in Seq(Task), NEW row \in RequestIds,
         queue' = Append(queue, RequestTask(row)), NEW r \in RequestIds, Queued(r)'
  PROVE  Queued(r) \/ r = row
<1>1. PICK i \in 1..Len(queue') : queue'[i].request = r
  BY Zenon DEF Queued
<1>2. RequestTask(row) \in Task /\ RequestTask(row).request = row
  BY RequestTaskType DEF RequestTask
<1>3. /\ Len(queue) \in Nat /\ Len(queue') = Len(queue) + 1
      /\ \A j \in 1..Len(queue) : queue'[j] = queue[j]
      /\ queue'[Len(queue) + 1].request = row
  BY <1>2, AppendProperties, LenProperties
<1>4. CASE i \in 1..Len(queue)
  <2>1. \E j \in 1..Len(queue) : queue[j].request = r
    BY <1>1, <1>3, <1>4
  <2> QED
    BY <2>1, Zenon DEF Queued
<1>5. CASE i = Len(queue) + 1
  BY <1>1, <1>3, <1>5
<1> QED
  BY <1>1, <1>3, <1>4, <1>5

\* What the administrator alerts add to the queue.
LEMMA AlertsOnly ==
  ASSUME queue \in Seq(Task), queue' = queue \o AdminAlerts, NEW r \in RequestIds,
         Queued(r)'
  PROVE  Queued(r)
<1>1. PICK i \in 1..Len(queue') : queue'[i].request = r
  BY Zenon DEF Queued
<1>2. /\ Len(queue) \in Nat /\ Len(AdminAlerts) \in Nat
      /\ Len(queue') = Len(queue) + Len(AdminAlerts)
      /\ \A j \in 1..Len(queue') : queue'[j] = IF j <= Len(queue) THEN queue[j]
                                              ELSE AdminAlerts[j - Len(queue)]
  <2>1. AdminAlerts \in Seq(Task)
    BY AdminAlertsType
  <2> QED
    BY <2>1, ConcatProperties, LenProperties
<1>3. CASE i \in 1..Len(queue)
  <2>1. \E j \in 1..Len(queue) : queue[j].request = r
    BY <1>1, <1>2, <1>3
  <2> QED
    BY <2>1, Zenon DEF Queued
<1>4. CASE i \notin 1..Len(queue)
  <2>1. i - Len(queue) \in 1..Len(AdminAlerts) /\ ~(i <= Len(queue))
    BY <1>1, <1>2, <1>4
  <2>2. queue'[i].request = NoId
    BY <1>2, <2>1, AdminAlertsType
  <2> QED
    BY <1>1, <2>2
<1> QED
  BY <1>3, <1>4

LEMMA SendsLeftRange ==
  TypeOK => /\ PerTask \in {1, 3} /\ SendsLeft \in 1..PerTask
            /\ sender.attempt = 1 => SendsLeft = PerTask
BY DEF TypeOK, SenderTypeOK, SenderState, PerTask, SendsLeft, MaxAttempts

PotentialBounded ==
  \A r \in RequestIds : Potential(r) \in Nat /\ Potential(r) <= 2 * PerTask

LEMMA PotentialRange == TypeOK => PotentialBounded
<1> SUFFICES ASSUME TypeOK, NEW r \in RequestIds
             PROVE  Potential(r) \in Nat /\ Potential(r) <= 2 * PerTask
  BY DEF PotentialBounded
<1>1. SendsLeft \in Nat /\ SendsLeft <= PerTask /\ PerTask \in Nat
  BY SendsLeftRange
<1>2. /\ LiveLeft(r) \in Nat /\ LiveLeft(r) <= PerTask
      /\ StaleLeft(r) \in Nat /\ StaleLeft(r) <= PerTask
  BY <1>1 DEF LiveLeft, StaleLeft
<1> QED
  BY <1>1, <1>2 DEF Potential

\* Steps that leave the fate and the owner alone do not raise the potential,
\* when whatever comes ahead of the guard was a stale row, and a row becomes
\* stale only while nothing is recorded.
LEMMA PotentialKept ==
  ASSUME TypeOK, TypeOK', NEW r \in RequestIds,
         status'[RequestOwner[r]] = status[RequestOwner[r]],
         Recorded(r)' <=> Recorded(r),
         AtSend(r)' <=> AtSend(r),
         AtSend(r) => UNCHANGED sender,
         Recorded(r) \/ (AtRecord(r)' <=> AtRecord(r)),
         Stale(r)' => Stale(r) \/ ~Recorded(r),
         Ahead(r)' => Ahead(r) \/ (Stale(r) /\ ~Stale(r)')
  PROVE  Potential(r)' <= Potential(r)
<1>1. /\ PerTask \in Nat /\ SendsLeft \in Nat /\ SendsLeft' \in Nat
      /\ PerTask' = PerTask
      /\ AtSend(r) => SendsLeft' = SendsLeft
  <2>1. (SendsLeft \in 1..PerTask /\ PerTask \in {1, 3})'
    BY SendsLeftRange, PTL
  <2>2. PerTask' = PerTask
    BY DEF PerTask
  <2> QED
    BY <2>1, <2>2, SendsLeftRange DEF SendsLeft
<1>2. CASE status[RequestOwner[r]] = "DELETED"
  BY <1>1, <1>2 DEF Potential
<1>3. CASE status[RequestOwner[r]] # "DELETED" /\ ~Recorded(r)
  <2>1. CASE AtSend(r)
    BY <1>1, <1>3, <2>1 DEF Potential
  <2>2. CASE ~AtSend(r)
    <3>1. Potential(r) = IF AtRecord(r) THEN PerTask ELSE 2 * PerTask
      BY <1>1, <1>3, <2>2 DEF Potential
    <3>3. Potential(r)' = IF AtRecord(r)' THEN PerTask' ELSE 2 * PerTask'
      BY <1>1, <1>3, <2>2 DEF Potential
    <3>4. AtRecord(r)' <=> AtRecord(r)
      BY <1>3
    <3> QED
      BY <1>1, <3>1, <3>3, <3>4
  <2> QED
    BY <2>1, <2>2
<1>4. CASE status[RequestOwner[r]] # "DELETED" /\ Recorded(r)
  <2>1. /\ LiveLeft(r) \in Nat /\ StaleLeft(r) \in Nat
        /\ LiveLeft(r)' \in Nat /\ StaleLeft(r)' \in Nat
    BY <1>1 DEF LiveLeft, StaleLeft
  <2>2. LiveLeft(r)' + StaleLeft(r)' <= LiveLeft(r) + StaleLeft(r)
    <3>1. Stale(r)' => Stale(r)
      BY <1>4
    <3>2. StaleLeft(r)' <= StaleLeft(r)
      BY <1>1, <3>1 DEF StaleLeft
    <3>3. CASE AtSend(r) \/ (Ahead(r)' => Ahead(r))
      <4>1. LiveLeft(r)' <= LiveLeft(r)
        BY <1>1, <3>3 DEF LiveLeft
      <4> QED
        BY <2>1, <3>2, <4>1
    <3>4. CASE ~AtSend(r) /\ Stale(r) /\ ~Stale(r)'
      <4>1. LiveLeft(r)' <= PerTask /\ StaleLeft(r) = PerTask /\ StaleLeft(r)' = 0
        BY <1>1, <3>4 DEF LiveLeft, StaleLeft
      <4> QED
        BY <1>1, <2>1, <4>1
    <3> QED
      BY <3>3, <3>4
  <2>3. Potential(r) = LiveLeft(r) + StaleLeft(r)
    BY <1>4 DEF Potential
  <2>4. Potential(r)' = LiveLeft(r)' + StaleLeft(r)'
    BY <1>4 DEF Potential
  <2> QED
    BY <2>2, <2>3, <2>4
<1> QED
  BY <1>2, <1>3, <1>4

\* The polling jobs, while they do not record a failure.
LEMMA JobPotential ==
  ASSUME CountInv, TypeOK', NEW t \in Types, JobStep(t), ~RecordFailure(t),
         NEW r \in RequestIds
  PROVE  Potential(r)' <= Potential(r)
<1> USE DEF CountInv, CopyInv
<1>0. /\ JobsTypeOK /\ immediate_inflight \in SUBSET RequestIds /\ queue \in Seq(Task)
      /\ job \in [Types -> Job] /\ RequestType[r] \in Types
  BY DEF TypeOK, JobsTypeOK, SenderTypeOK
<1>1. UNCHANGED <<sender, status, history>>
  BY DEF JobStep, Poll, Resume, FetchSucceeds, FetchFails, FetchRaises,
         FailureRejected, FinishFailure, JobRaises, senderVars, dbVars
<1>2. /\ status'[RequestOwner[r]] = status[RequestOwner[r]]
      /\ Recorded(r)' <=> Recorded(r)
      /\ AtSend(r)' <=> AtSend(r)
      /\ AtSend(r) => UNCHANGED sender
      /\ Recorded(r) \/ (AtRecord(r)' <=> AtRecord(r))
  BY <1>1 DEF Recorded, AtSend, AtRecord, Busy, Holding
<1>3. ASSUME UNCHANGED queue,
             \A s \in Types : job'[s].pc = "fetch"
                              => job[s].pc = "fetch" /\ job'[s].row = job[s].row
      PROVE  Ahead(r)' => Ahead(r)
  BY <1>1, <1>3 DEF Ahead, Queued, Busy, Holding
<1>4. CASE Poll(t)
  <2>1. Ahead(r)' => Ahead(r)
    BY <1>0, <1>3, <1>4 DEF Poll, senderVars
  <2>2. Stale(r)' => Stale(r) \/ ~Recorded(r)
    <3>1. CASE RequestType[r] = t
      BY <1>0, <1>4, <3>1 DEF Poll, Stale, FirstRows, Pending
    <3>2. CASE RequestType[r] # t
      BY <1>0, <1>4, <3>2 DEF Poll, Stale
    <3> QED
      BY <3>1, <3>2
  <2> QED
    BY <1>2, <2>1, <2>2, PotentialKept
<1>5. CASE FetchFails(t) \/ FetchRaises(t) \/ FailureRejected(t)
  <2>1. /\ UNCHANGED queue
        /\ \A s \in Types : job'[s].pc = "fetch"
                            => job[s].pc = "fetch" /\ job'[s].row = job[s].row
        /\ Stale(r)' => Stale(r)
    <3>1. CASE FetchFails(t)
      BY <1>0, <3>1 DEF FetchFails, Job, Stale, senderVars
    <3>2. CASE FetchRaises(t) \/ FailureRejected(t)
      <4>1. job' = [job EXCEPT ![t] = IdleJob] /\ UNCHANGED queue
        BY <3>2 DEF FetchRaises, FailureRejected, JobRaises, senderVars
      <4>2. job'[t].pc = "idle" /\ job'[t].rows = {}
        BY <1>0, <4>1 DEF IdleJob
      <4>3. \A s \in Types \ {t} : job'[s] = job[s]
        BY <1>0, <4>1
      <4> QED
        BY <1>0, <4>1, <4>2, <4>3 DEF Stale
    <3> QED
      BY <1>5, <3>1, <3>2
  <2>2. Ahead(r)' => Ahead(r)
    BY <1>3, <2>1
  <2> QED
    BY <1>2, <2>1, <2>2, PotentialKept
<1>6. ASSUME NEW flight \in SUBSET RequestIds, Advance(t, flight)
      PROVE  /\ Stale(r)' => Stale(r)
             /\ \A s \in Types : job'[s].pc = "fetch" /\ job'[s].row = r
                   => \/ s # t /\ job[s].pc = "fetch" /\ job[s].row = r
                      \/ Stale(r) /\ ~Stale(r)'
  <2>1. CASE job' = [job EXCEPT ![t] = IdleJob]
    BY <1>0, <2>1 DEF Stale, IdleJob
  <2>2. ASSUME NEW q \in job[t].rows \ flight,
               job' = [job EXCEPT ![t] =
                         [pc |-> "fetch", row |-> q, alert |-> FALSE,
                          rows |-> {p \in job[t].rows : p > q}]]
        PROVE  /\ Stale(r)' => Stale(r)
               /\ \A s \in Types : job'[s].pc = "fetch" /\ job'[s].row = r
                     => \/ s # t /\ job[s].pc = "fetch" /\ job[s].row = r
                        \/ Stale(r) /\ ~Stale(r)'
    <3>1. RequestType[q] = t /\ q \in Nat /\ ~(q > q)
      BY <1>0, <2>2 DEF RowsMatch, Job
    <3>2. Stale(r)' => Stale(r)
      BY <1>0, <2>2 DEF Stale
    <3>3. q = r => Stale(r) /\ ~Stale(r)'
      BY <1>0, <2>2, <3>1 DEF Stale
    <3>4. ASSUME NEW s \in Types, job'[s].pc = "fetch", job'[s].row = r
          PROVE  \/ s # t /\ job[s].pc = "fetch" /\ job[s].row = r
                 \/ Stale(r) /\ ~Stale(r)'
      BY <1>0, <2>2, <3>3, <3>4
    <3> QED
      BY <3>2, <3>4
  <2> QED
    BY <1>6, <2>1, <2>2 DEF Advance
<1>7. ASSUME Queued(r)' => Queued(r) \/ (job[t].pc = "fetch" /\ job[t].row = r),
             NEW flight \in SUBSET RequestIds, Advance(t, flight)
      PROVE  Potential(r)' <= Potential(r)
  <2>1. Ahead(r)' => Ahead(r) \/ (Stale(r) /\ ~Stale(r)')
    BY <1>1, <1>6, <1>7 DEF Ahead, Busy, Holding
  <2> QED
    BY <1>2, <1>6, <1>7, <2>1, PotentialKept
<1>8. CASE Resume(t)
  BY <1>0, <1>7, <1>8 DEF Resume, Queued
<1>9. CASE FetchSucceeds(t)
  <2>1. job[t].row \in RequestIds
    BY <1>9 DEF FetchSucceeds, TypeOK
  <2>2. Queued(r)' => Queued(r) \/ r = job[t].row
    BY <1>0, <1>9, <2>1, AppendedOnly DEF FetchSucceeds
  <2> QED
    BY <1>0, <1>7, <1>9, <2>2 DEF FetchSucceeds
<1>10. CASE FinishFailure(t)
  <2>1. Queued(r)' => Queued(r)
    BY <1>0, <1>10, AlertsOnly DEF FinishFailure, Queued
  <2> QED
    BY <1>0, <1>7, <1>10, <2>1 DEF FinishFailure
<1> QED
  BY <1>4, <1>5, <1>8, <1>9, <1>10 DEF JobStep

\* A job records a failure: for the row in its hand nothing is ahead any more.
LEMMA FailurePotential ==
  ASSUME CountInv, TypeOK', NEW t \in Types, RecordFailure(t), NEW r \in RequestIds
  PROVE  Potential(r)' <= Potential(r)
<1> USE DEF CountInv, CopyInv
<1> DEFINE row == job[t].row
<1>0. /\ row \in RequestIds /\ job \in [Types -> Job] /\ RequestType[r] \in Types
      /\ InHand(t, row)
  BY DEF TypeOK, RecordFailure, InHand
<1>1. /\ UNCHANGED <<queue, sender, status>>
      /\ history' = history \cup {FailureRow(row)}
      /\ ~Recorded(row)
  <2>1. FailureRow(row).request = row /\ row # NoId
    BY <1>0 DEF FailureRow
  <2> QED
    BY <2>1 DEF RecordFailure, InsertResult, InsertAllowed, senderVars
<1>2. /\ \A s \in Types \ {t} : job'[s] = job[s]
      /\ job'[t].pc = "failed" /\ job'[t].rows = job[t].rows
  BY <1>0 DEF RecordFailure, Job
<1>3. /\ AtSend(r)' <=> AtSend(r)
      /\ AtRecord(r)' <=> AtRecord(r)
      /\ Stale(r)' <=> Stale(r)
      /\ Ahead(r)' => Ahead(r)
  BY <1>0, <1>1, <1>2 DEF AtSend, AtRecord, Stale, Ahead, Busy, Holding, Queued
<1>4. CASE r = row
  <2>1. Recorded(r)' /\ ~Recorded(r)
    <3>1. FailureRow(row) \in history' /\ FailureRow(row).request = row
      BY <1>1 DEF FailureRow
    <3> QED
      BY <1>1, <1>4, <3>1 DEF Recorded
  <2>2. ~Busy(r) /\ ~Queued(r) /\ \A s \in Types : InHand(s, r) => s = t
    BY <1>0, <1>4 DEF SingleLiveCopy
  <2>3. ~Ahead(r)' /\ ~AtSend(r) /\ ~AtRecord(r) /\ ~AtSend(r)'
    <3>1. \A s \in Types : job[s].pc = "fetch" /\ job[s].row = r => s = t
      BY <2>2 DEF InHand
    <3> QED
      BY <1>1, <1>2, <2>2, <3>1 DEF Ahead, AtSend, AtRecord, Busy, Holding, Queued
  <2>4. PerTask \in Nat /\ PerTask' = PerTask
    BY DEF PerTask, MaxAttempts
  <2>5. CASE status[RequestOwner[r]] = "DELETED"
    BY <1>1, <2>3, <2>5 DEF Potential
  <2>6. CASE status[RequestOwner[r]] # "DELETED"
    <3>1. Potential(r) = 2 * PerTask
      BY <2>1, <2>3, <2>6 DEF Potential
    <3>2. Potential(r)' = LiveLeft(r)' + StaleLeft(r)'
      BY <1>1, <2>1, <2>6 DEF Potential
    <3>3. LiveLeft(r)' = 0 /\ StaleLeft(r)' \in Nat /\ StaleLeft(r)' <= PerTask
      BY <2>3, <2>4 DEF LiveLeft, StaleLeft
    <3> QED
      BY <2>4, <3>1, <3>2, <3>3
  <2> QED
    BY <2>5, <2>6
<1>5. CASE r # row
  <2>1. Recorded(r)' <=> Recorded(r)
    BY <1>1, <1>5 DEF Recorded, FailureRow
  <2>2. status'[RequestOwner[r]] = status[RequestOwner[r]]
    BY <1>1
  <2> QED
    BY <1>1, <1>3, <2>1, <2>2, PotentialKept
<1> QED
  BY <1>4, <1>5

\* The sender about other requests, and in the steps that neither send nor
\* record.
LEMMA SenderElsewhere ==
  ASSUME CountInv, TypeOK', SenderRuns, NEW r \in RequestIds, Get \/ ~Busy(r)
  PROVE  delivered'[r] = delivered[r] /\ Potential(r)' <= Potential(r)
<1> USE DEF CountInv, CopyInv
<1>0. /\ sender \in SenderState /\ queue \in Seq(Task) /\ UNCHANGED <<job, status>>
      /\ delivered \in [RequestIds -> Nat]
  BY DEF TypeOK, SenderTypeOK, SenderRuns, SenderStep, Ready, Get, CheckUser, SendSucceeds,
         SendFails, SendRaises, Record, InsertResult, RecordRejected, DatabaseRaises,
         Release, dbVars
<1>1. ~Busy(r)
  BY DEF Get, Busy, Holding
<1>2. Stale(r)' <=> Stale(r)
  BY <1>0 DEF Stale
<1>3. Recorded(r)' <=> Recorded(r)
  BY <1>1 DEF SenderRuns, SenderStep, Ready, Get, CheckUser, SendSucceeds, SendFails,
              SendRaises, Record, InsertResult, ResultRow, Recorded, RecordRejected,
              DatabaseRaises, Release, dbVars, Busy, Holding
<1>4. delivered'[r] = delivered[r]
  BY <1>0, <1>1 DEF SenderRuns, SenderStep, Ready, Get, CheckUser, SendSucceeds, SendFails,
              SendRaises, Delivery, FailedDelivery, Record, RecordRejected,
              DatabaseRaises, Release, Busy, Holding
<1>5. CASE Get
  <2>1. ~AtSend(r)' /\ ~AtRecord(r)' /\ ~AtSend(r) /\ ~AtRecord(r)
    BY <1>1, <1>5 DEF Get, AtSend, AtRecord, Busy, IsAdminTask
  <2>2. Ahead(r)' => Ahead(r)
    <3>1. queue[1] = Head(queue) /\ Len(queue) \in Nat \ {0}
          /\ Len(queue') = Len(queue) - 1
          /\ \A i \in 1..Len(queue') : queue'[i] = queue[i + 1]
      BY <1>0, <1>5, HeadTailProperties, LenProperties, EmptySeq DEF Get
    <3>2. ASSUME Queued(r)'
          PROVE  Queued(r)
      <4>1. PICK i \in 1..Len(queue') : queue'[i].request = r
        BY <3>2, Zenon DEF Queued
      <4>2. i + 1 \in 1..Len(queue) /\ queue[i + 1].request = r
        BY <3>1, <4>1
      <4>3. \E j \in 1..Len(queue) : queue[j].request = r
        BY <4>2
      <4> QED
        BY <4>3, Zenon DEF Queued
    <3>3. ASSUME Busy(r)'
          PROVE  Queued(r)
      <4>1. 1 \in 1..Len(queue) /\ queue[1].request = r
        BY <1>5, <3>1, <3>3 DEF Get, Busy
      <4>2. \E j \in 1..Len(queue) : queue[j].request = r
        BY <4>1
      <4> QED
        BY <4>2, Zenon DEF Queued
    <3> QED
      BY <1>0, <3>2, <3>3 DEF Ahead
  <2>3. status'[RequestOwner[r]] = status[RequestOwner[r]]
    BY <1>0
  <2> QED
    BY <1>2, <1>3, <1>4, <2>1, <2>2, <2>3, PotentialKept
<1>6. CASE ~Get
  <2>1. /\ UNCHANGED queue
        /\ ~Busy(r)'
    <3>1. UNCHANGED queue
      BY <1>6 DEF SenderRuns, SenderStep, Ready, CheckUser, SendSucceeds, SendFails,
                  SendRaises, Record, RecordRejected, DatabaseRaises, Release
    <3>2. CASE Ready \/ Release
      BY <3>1, <3>2 DEF Ready, Release, IdleSender, Busy, Holding
    <3>3. CASE SendFails
      BY <1>0, <1>1, <3>1, <3>3 DEF SendFails, SenderState, Busy, Holding
    <3>4. CASE CheckUser
      BY <1>0, <1>1, <3>1, <3>4 DEF CheckUser, SenderState, Busy, Holding
    <3>5. CASE SendSucceeds \/ SendRaises \/ Record \/ RecordRejected \/ DatabaseRaises
      BY <1>0, <1>1, <3>1, <3>5 DEF SendSucceeds, SendRaises, Record, RecordRejected,
                                    DatabaseRaises, SenderState, Busy, Holding
    <3> QED
      BY <1>6, <3>2, <3>3, <3>4, <3>5 DEF SenderRuns, SenderStep
  <2>2. ~AtSend(r)' /\ ~AtRecord(r)' /\ ~AtSend(r) /\ ~AtRecord(r)
    BY <1>1, <2>1 DEF AtSend, AtRecord
  <2>3. Ahead(r)' => Ahead(r)
    BY <1>0, <2>1 DEF Ahead, Queued
  <2>4. status'[RequestOwner[r]] = status[RequestOwner[r]]
    BY <1>0
  <2> QED
    BY <1>2, <1>3, <1>4, <2>2, <2>3, <2>4, PotentialKept
<1> QED
  BY <1>5, <1>6

\* The sender about the request it holds: what a send delivers it also takes
\* from the potential, and the INSERT ends what no stale row repeats.
LEMMA SenderPotential ==
  ASSUME CountInv, TypeOK', "db" \notin Faults, SenderRuns,
         NEW r \in RequestIds, Busy(r)
  PROVE  delivered'[r] + Potential(r)' <= delivered[r] + Potential(r)
<1> USE DEF CountInv, CopyInv
<1>0. /\ sender \in SenderState /\ UNCHANGED <<job, status>>
      /\ delivered \in [RequestIds -> Nat] /\ delivered[r] \in Nat
      /\ sender.task.request = r
      /\ RequestOwner[r] \in Users
  BY DEF TypeOK, SenderTypeOK, SenderRuns, SenderStep, Ready, Get, CheckUser, SendSucceeds,
         SendFails, SendRaises, Record, InsertResult, RecordRejected, DatabaseRaises,
         Release, dbVars, Busy
<1>1. /\ PerTask \in Nat /\ PerTask' = PerTask
      /\ SendsLeft \in Nat /\ SendsLeft >= 1 /\ SendsLeft <= PerTask
      /\ SendsLeft' \in Nat
      /\ StaleLeft(r) \in Nat /\ StaleLeft(r)' = StaleLeft(r) /\ StaleLeft(r) <= PerTask
  <2>1. (SendsLeft \in 1..PerTask /\ PerTask \in {1, 3})'
    BY SendsLeftRange, PTL
  <2>2. PerTask' = PerTask
    BY DEF PerTask
  <2>3. Stale(r)' <=> Stale(r)
    BY <1>0 DEF Stale
  <2>4. PerTask \in Nat /\ SendsLeft \in Nat /\ SendsLeft >= 1 /\ SendsLeft <= PerTask
    BY SendsLeftRange
  <2> QED
    BY <2>1, <2>2, <2>3, <2>4 DEF StaleLeft
<1>2. Potential(r) \in Nat /\ Potential(r)' \in Nat
  <2>1. PotentialBounded /\ PotentialBounded'
    BY PotentialRange, PTL
  <2> QED
    BY <2>1 DEF PotentialBounded
<1>3. ~Queued(r) /\ ~(\E t \in Types : job[t].pc = "fetch" /\ job[t].row = r)
  BY DEF SingleLiveCopy, InHand
<1>4. UNCHANGED history => (Recorded(r)' <=> Recorded(r))
  BY DEF Recorded
<1>5. CASE CheckUser
  <2>1. /\ sender' = [sender EXCEPT !.pc =
                        IF status[sender.task.user] = "ACTIVE" THEN "send" ELSE "record"]
        /\ sender.pc = "guard" /\ UNCHANGED <<delivered, history>>
    BY <1>5 DEF CheckUser, dbVars
  <2>2. sender.task.user = RequestOwner[r]
    BY <1>0, <2>1 DEF OwnersInv, OwnersMatch, Holding, OwnedTask
  <2>3. status[RequestOwner[r]] \in {"ACTIVE", "DELETED"}
    BY <1>0 DEF TypeOK, DbTypeOK
  <2>4. Ahead(r) /\ ~AtSend(r) /\ ~AtRecord(r)
    BY <2>1 DEF Ahead, AtSend, AtRecord
  <2>5. CASE status[RequestOwner[r]] = "DELETED"
    <3>1. sender'.pc = "record"
      BY <1>0, <2>1, <2>2, <2>5 DEF SenderState
    <3>2. ~AtSend(r)'
      BY <3>1 DEF AtSend
    <3> QED
      BY <1>0, <1>2, <2>1, <2>5, <3>2 DEF Potential
  <2>6. CASE status[RequestOwner[r]] = "ACTIVE"
    <3>1. sender' = [sender EXCEPT !.pc = "send"]
      BY <2>1, <2>2, <2>6
    <3>2. AtSend(r)' /\ SendsLeft' = SendsLeft /\ SendsLeft = PerTask
      BY <1>0, <2>1, <3>1, SendsLeftRange
         DEF AtSend, Busy, Holding, SenderState, SendsLeft, RowsMatch
    <3>3. CASE Recorded(r)
      <4>1. Potential(r) = PerTask + StaleLeft(r)
        BY <2>4, <2>6, <3>3 DEF Potential, LiveLeft
      <4>2. Potential(r)' = SendsLeft' + StaleLeft(r)'
        BY <1>0, <1>4, <2>1, <2>6, <3>2, <3>3 DEF Potential, LiveLeft
      <4> QED
        BY <1>0, <1>1, <2>1, <3>2, <4>1, <4>2
    <3>4. CASE ~Recorded(r)
      <4>1. Potential(r) = 2 * PerTask
        BY <2>4, <2>6, <3>4 DEF Potential
      <4>2. Potential(r)' = SendsLeft' + PerTask'
        BY <1>0, <1>4, <2>1, <2>6, <3>2, <3>4 DEF Potential
      <4> QED
        BY <1>0, <1>1, <2>1, <3>2, <4>1, <4>2
    <3> QED
      BY <3>3, <3>4
  <2> QED
    BY <2>3, <2>5, <2>6
<1>6. CASE SendSucceeds \/ SendFails \/ SendRaises
  <2>1. AtSend(r) /\ UNCHANGED <<queue, history>>
    BY <1>6 DEF SendSucceeds, SendFails, SendRaises, AtSend, dbVars
  <2>2. sender'.task = sender.task /\ sender'.pc \in {"send", "record"} /\ Busy(r)'
    <3>1. CASE SendFails
      BY <1>0, <3>1 DEF SendFails, SenderState, Busy, Holding
    <3>2. CASE SendSucceeds \/ SendRaises
      BY <1>0, <3>2 DEF SendSucceeds, SendRaises, SenderState, Busy, Holding
    <3> QED
      BY <1>6, <3>1, <3>2
  <2>3. \/ /\ AtSend(r)' /\ delivered'[r] \in Nat
           /\ delivered'[r] + SendsLeft' <= delivered[r] + SendsLeft
        \/ /\ AtRecord(r)' /\ ~AtSend(r)' /\ delivered'[r] \in Nat
           /\ delivered'[r] <= delivered[r] + SendsLeft
    <3>1. CASE sender'.pc = "record"
      <4>1. delivered'[r] = delivered[r] \/ delivered'[r] = delivered[r] + 1
        BY <1>0, <1>6 DEF SendSucceeds, SendFails, SendRaises, FailedDelivery, Delivery
      <4>2. AtRecord(r)' /\ ~AtSend(r)'
        BY <2>2, <3>1 DEF AtRecord, AtSend
      <4> QED
        BY <1>0, <1>1, <4>1, <4>2
    <3>2. CASE sender'.pc = "send"
      <4>1. SendFails /\ sender.attempt < 3 /\ sender.attempt \in 1..3
        BY <1>0, <1>6, <3>2 DEF SendSucceeds, SendFails, SendRaises, SenderState, MaxAttempts
      <4>2. sender'.attempt = sender.attempt + 1
        BY <1>0, <4>1 DEF SendFails, SenderState, MaxAttempts
      <4>3. AtSend(r)'
        BY <2>2, <3>2 DEF AtSend
      <4>4. CASE "ambiguous" \in Faults
        <5>1. delivered'[r] = delivered[r] \/ delivered'[r] = delivered[r] + 1
          BY <1>0, <4>1 DEF SendFails, FailedDelivery, Delivery
        <5>2. SendsLeft = 4 - sender.attempt /\ SendsLeft' = 4 - sender'.attempt
          BY <4>1, <4>2, <4>4 DEF SendsLeft, MaxAttempts
        <5>3. SendsLeft' = SendsLeft - 1 /\ SendsLeft \in Int
          BY <4>1, <4>2, <5>2
        <5>4. delivered[r] \in Nat /\ delivered'[r] \in Nat
          BY <1>0, <5>1
        <5> QED
          BY <4>3, <5>1, <5>3, <5>4
      <4>5. CASE "ambiguous" \notin Faults
        BY <1>0, <4>1, <4>3, <4>5 DEF SendFails, FailedDelivery, SendsLeft
      <4> QED
        BY <4>4, <4>5
    <3> QED
      BY <2>2, <3>1, <3>2
  <2>4. ~Ahead(r)'
    <3>1. ~Queued(r)' /\ sender'.pc # "guard"
      BY <1>3, <2>1, <2>2 DEF Queued
    <3> QED
      BY <1>0, <1>3, <3>1 DEF Ahead
  <2>5. CASE status[RequestOwner[r]] = "DELETED"
    BY <1>0, <1>1, <2>1, <2>3, <2>5 DEF Potential
  <2>6. CASE status[RequestOwner[r]] # "DELETED" /\ Recorded(r)
    <3>1. Potential(r) = SendsLeft + StaleLeft(r)
      BY <2>1, <2>6 DEF Potential, LiveLeft
    <3>2. Potential(r)' = (IF AtSend(r)' THEN SendsLeft' ELSE 0) + StaleLeft(r)'
      BY <1>0, <1>4, <2>1, <2>4, <2>6 DEF Potential, LiveLeft
    <3>5. /\ delivered[r] \in Int /\ delivered'[r] \in Int
          /\ SendsLeft \in Int /\ SendsLeft' \in Int
          /\ StaleLeft(r) \in Int /\ StaleLeft(r)' = StaleLeft(r)
      BY <1>0, <1>1, <2>3
    <3>3. CASE AtSend(r)'
      <4>1. /\ delivered'[r] + SendsLeft' <= delivered[r] + SendsLeft
            /\ Potential(r)' = SendsLeft' + StaleLeft(r)
        BY <1>1, <2>3, <3>2, <3>3
      <4>2. delivered'[r] + Potential(r)' = (delivered'[r] + SendsLeft') + StaleLeft(r)
        BY <3>5, <4>1
      <4>3. delivered[r] + Potential(r) = (delivered[r] + SendsLeft) + StaleLeft(r)
        BY <3>1, <3>5
      <4>4. PICK a \in Int, b \in Int, c \in Int :
               /\ a = delivered'[r] + SendsLeft' /\ b = delivered[r] + SendsLeft
               /\ c = StaleLeft(r)
        BY <3>5
      <4>5. a + c <= b + c
        BY <4>1, <4>4
      <4> QED
        BY <4>2, <4>3, <4>4, <4>5
    <3>4. CASE ~AtSend(r)'
      <4>1. /\ delivered'[r] <= delivered[r] + SendsLeft
            /\ Potential(r)' = StaleLeft(r)
        BY <1>1, <2>3, <3>2, <3>4
      <4> QED
        BY <3>1, <3>5, <4>1
    <3> QED
      BY <3>3, <3>4
  <2>7. CASE status[RequestOwner[r]] # "DELETED" /\ ~Recorded(r)
    <3>1. Potential(r) = SendsLeft + PerTask
      BY <2>1, <2>7 DEF Potential
    <3>2. AtSend(r)' => Potential(r)' = SendsLeft' + PerTask'
      BY <1>0, <1>4, <2>1, <2>7 DEF Potential
    <3>3. AtRecord(r)' /\ ~AtSend(r)' => Potential(r)' = PerTask'
      BY <1>0, <1>4, <2>1, <2>7 DEF Potential
    <3>4. CASE AtSend(r)'
      <4>1. /\ delivered'[r] + SendsLeft' <= delivered[r] + SendsLeft
            /\ Potential(r)' = SendsLeft' + PerTask
        BY <1>1, <2>3, <3>2, <3>4
      <4>2. PICK a \in Int, b \in Int, p \in Int :
               /\ a = delivered'[r] + SendsLeft' /\ b = delivered[r] + SendsLeft
               /\ p = PerTask
        BY <1>0, <1>1, <2>3
      <4>3. delivered'[r] + Potential(r)' = a + p
        BY <1>1, <2>3, <4>1, <4>2
      <4>4. delivered[r] + Potential(r) = b + p
        BY <1>0, <1>1, <3>1, <4>2
      <4>5. a + p <= b + p
        BY <4>1, <4>2
      <4> QED
        BY <4>3, <4>4, <4>5
    <3>5. CASE ~AtSend(r)'
      <4>1. /\ delivered'[r] <= delivered[r] + SendsLeft
            /\ Potential(r)' = PerTask
        BY <1>1, <2>3, <3>3, <3>5
      <4> QED
        BY <1>0, <1>1, <2>3, <3>1, <4>1
    <3> QED
      BY <3>4, <3>5
  <2> QED
    BY <2>5, <2>6, <2>7
<1>7. CASE Record \/ RecordRejected \/ Release
  <2>1. UNCHANGED <<queue, delivered>>
    BY <1>7 DEF Record, RecordRejected, Release
  <2>2. ~AtSend(r) /\ ~AtSend(r)' /\ ~Ahead(r)' /\ ~AtRecord(r)'
    <3>1. sender.pc \in {"record", "finally"} /\ sender'.pc \in {"finally", "get"}
      BY <1>0, <1>7 DEF Record, RecordRejected, Release, IdleSender, SenderState
    <3>2. ~Queued(r)'
      BY <1>3, <2>1 DEF Queued
    <3> QED
      BY <1>0, <1>3, <3>1, <3>2 DEF AtSend, AtRecord, Ahead, Busy, Holding
  <2>3. Recorded(r) => Recorded(r)'
    BY <1>7 DEF Record, InsertResult, RecordRejected, Release, dbVars, Recorded
  <2>4. AtRecord(r) => Recorded(r)'
    <3> SUFFICES ASSUME AtRecord(r)
                 PROVE  Recorded(r)'
      OBVIOUS
    <3>1. CASE Record
      <4>1. ResultRow \in history' /\ ResultRow.request = r
        BY <1>0, <3>1 DEF Record, InsertResult, ResultRow
      <4> QED
        BY <4>1 DEF Recorded
    <3>2. CASE RecordRejected
      <4>1. sender.task \in OwnedTask /\ sender.task \in Task
        BY DEF OwnersInv, OwnersMatch, Busy, OwnedTask
      <4>2. /\ ResultRow.user \in Users /\ ResultRow.notification = NoId
            /\ ResultRow.request = r
        BY <1>0, <4>1 DEF ResultRow, OwnedTask, Task
      <4>3. Recorded(r)
        BY <3>2, <4>2 DEF RecordRejected, InsertAllowed
      <4> QED
        BY <2>3, <4>3
    <3> QED
      BY <1>7, <3>1, <3>2 DEF Release, AtRecord
  <2>5. CASE status[RequestOwner[r]] = "DELETED"
    BY <1>0, <1>2, <2>1, <2>2, <2>5 DEF Potential
  <2>6. CASE status[RequestOwner[r]] # "DELETED" /\ Recorded(r)
    <3>1. Potential(r) = LiveLeft(r) + StaleLeft(r) /\ LiveLeft(r) \in Nat
      BY <1>1, <2>6 DEF Potential, LiveLeft
    <3>2. Potential(r)' = LiveLeft(r)' + StaleLeft(r)' /\ LiveLeft(r)' = 0
      BY <1>0, <2>2, <2>3, <2>6 DEF Potential, LiveLeft
    <3> QED
      BY <1>0, <1>1, <2>1, <3>1, <3>2
  <2>7. CASE status[RequestOwner[r]] # "DELETED" /\ ~Recorded(r)
    <3>1. CASE Recorded(r)'
      <4>1. Potential(r)' = StaleLeft(r)
        BY <1>0, <1>1, <2>2, <2>7, <3>1 DEF Potential, LiveLeft
      <4>2. Potential(r) >= PerTask
        BY <1>1, <2>2, <2>7 DEF Potential
      <4> QED
        BY <1>0, <1>1, <1>2, <2>1, <4>1, <4>2
    <3>2. CASE ~Recorded(r)'
      <4>1. ~AtRecord(r)
        BY <2>4, <3>2
      <4>2. Potential(r) = 2 * PerTask
        BY <2>2, <2>7, <4>1 DEF Potential
      <4> QED
        BY <1>0, <1>1, <1>2, <2>1, <2>2, <2>7, <3>2, <4>2 DEF Potential
    <3> QED
      BY <3>1, <3>2
  <2> QED
    BY <2>5, <2>6, <2>7
<1> QED
  BY <1>5, <1>6, <1>7 DEF SenderRuns, SenderStep, Ready, Get, DatabaseRaises, Busy, Holding

\* The deletion of an account takes from the potential of its requests.
LEMMA DeletionPotential ==
  ASSUME CountInv, TypeOK', NEW u \in Users, Deleted(u), NEW r \in RequestIds
  PROVE  Potential(r)' <= Potential(r)
<1> USE DEF CountInv, CopyInv
<1>0. /\ UNCHANGED <<queue, sender, job>> /\ RequestOwner[r] \in Users /\ r # NoId
      /\ status' = [status EXCEPT ![u] = "DELETED"] /\ status \in [Users -> {"ACTIVE", "DELETED"}]
  BY DEF Deleted, CommitDeletion, senderVars, TypeOK, DbTypeOK
<1>1. /\ AtSend(r)' <=> AtSend(r)
      /\ AtRecord(r)' <=> AtRecord(r)
      /\ Stale(r)' <=> Stale(r)
      /\ Ahead(r)' <=> Ahead(r)
  BY <1>0 DEF AtSend, AtRecord, Stale, Ahead, Busy, Holding, Queued
<1>2. CASE RequestOwner[r] = u
  <2>1. /\ PerTask \in Nat /\ SendsLeft \in Nat /\ SendsLeft' = SendsLeft
        /\ LiveLeft(r) \in Nat /\ StaleLeft(r) \in Nat
        /\ AtSend(r) => LiveLeft(r) = SendsLeft
    BY <1>0, SendsLeftRange DEF SendsLeft, LiveLeft, StaleLeft
  <2>2. Potential(r)' = IF AtSend(r) THEN SendsLeft ELSE 0
    <3>1. status'[RequestOwner[r]] = "DELETED"
      BY <1>0, <1>2
    <3> QED
      BY <1>1, <2>1, <3>1 DEF Potential
  <2>3. CASE AtSend(r)
    <3>1. Potential(r) >= SendsLeft
      BY <2>1, <2>3 DEF Potential
    <3> QED
      BY <2>1, <2>2, <2>3, <3>1
  <2>4. CASE ~AtSend(r)
    <3>1. Potential(r) \in Nat
      BY PotentialRange DEF PotentialBounded
    <3> QED
      BY <2>2, <2>4, <3>1
  <2> QED
    BY <2>3, <2>4
<1>3. CASE RequestOwner[r] # u
  <2>1. Recorded(r)' <=> Recorded(r)
    <3>1. \A h \in history : h.request = r => h \in history'
      BY <1>0, <1>3, DeletionAndRequests DEF Deleted, TypeOK, OwnersInv, OwnersMatch
    <3>2. \A h \in history' : h.request = r => h \in history
      BY <1>0, DeletionAndRequests DEF Deleted, TypeOK
    <3> QED
      BY <3>1, <3>2 DEF Recorded
  <2>2. status'[RequestOwner[r]] = status[RequestOwner[r]]
    BY <1>0, <1>3
  <2> QED
    BY <1>0, <1>1, <2>1, <2>2, PotentialKept
<1> QED
  BY <1>2, <1>3

\* A restart drops the live copy; what it can cost is one task more.
LEMMA RestartPotential ==
  ASSUME CountInv, TypeOK', Restart, NEW r \in RequestIds
  PROVE  Potential(r)' <= Potential(r) + PerTask
<1> USE DEF CountInv, CopyInv
<1>1. /\ PerTask \in Nat /\ PerTask' = PerTask
      /\ SendsLeft \in Nat /\ Potential(r) \in Nat
      /\ LiveLeft(r) \in Nat /\ StaleLeft(r) \in Nat
  BY SendsLeftRange, PotentialRange DEF PotentialBounded, PerTask, LiveLeft, StaleLeft
<1>2. /\ ~AtSend(r)' /\ ~AtRecord(r)' /\ ~Ahead(r)' /\ ~Stale(r)'
      /\ UNCHANGED <<status, history>>
  BY DEF Restart, SenderLost, IdleSender, IdleJob, dbVars, AtSend, AtRecord, Ahead, Stale,
         Busy, Holding, Queued
<1>3. CASE status[RequestOwner[r]] = "DELETED"
  BY <1>1, <1>2, <1>3 DEF Potential
<1>4. CASE status[RequestOwner[r]] # "DELETED" /\ Recorded(r)
  <2>1. Potential(r)' = 0
    BY <1>1, <1>2, <1>4 DEF Potential, Recorded, LiveLeft, StaleLeft
  <2> QED
    BY <1>1, <2>1
<1>5. CASE status[RequestOwner[r]] # "DELETED" /\ ~Recorded(r)
  <2>1. Potential(r)' = 2 * PerTask
    BY <1>1, <1>2, <1>5 DEF Potential, Recorded
  <2>2. Potential(r) >= PerTask
    BY <1>1, <1>5 DEF Potential
  <2> QED
    BY <1>1, <2>1, <2>2
<1> QED
  BY <1>3, <1>4, <1>5

\* A job that only moves on to another stage keeps its rows.
LEMMA StageRows ==
  ASSUME job \in [Types -> Job], NEW t \in Types, NEW alert,
         job' = [job EXCEPT ![t] = [@ EXCEPT !.pc = "fail", !.alert = alert]]
  PROVE  \A s \in Types : job'[s].rows = job[s].rows
BY DEF Job

LEMMA RowsStep ==
  ASSUME CountInv, [Next]_vars
  PROVE  RowsMatch'
<1> USE DEF CountInv, CopyInv
<1>0. job \in [Types -> Job] /\ sender \in SenderState
  BY DEF TypeOK, SenderTypeOK
<1>1. UNCHANGED sender \/ (SenderRuns /\ UNCHANGED job) \/ Restart
  <2>1. ASSUME NEW q \in RequestIds, Accept(q) \/ Commit(q)
        PROVE  UNCHANGED sender
    BY <2>1 DEF Accept, Commit, senderVars
  <2>2. ASSUME NEW u \in Users, Delete(u) \/ Deleted(u) \/ Return(u)
        PROVE  UNCHANGED sender
    BY <2>2 DEF Delete, Deleted, Return, senderVars
  <2>3. ASSUME NEW t \in Types, JobStep(t)
        PROVE  UNCHANGED sender
    BY <2>3 DEF JobStep, Poll, Resume, FetchSucceeds, FetchFails, FetchRaises,
                RecordFailure, FailureRejected, FinishFailure, JobRaises, senderVars
  <2> QED
    BY <2>1, <2>2, <2>3 DEF Next, SenderRuns, vars, senderVars
<1>2. (sender.pc = "guard" => sender.attempt = 1)'
  <2>1. CASE UNCHANGED sender
    BY <2>1 DEF RowsMatch
  <2>2. CASE Restart
    BY <2>2 DEF Restart, SenderLost, IdleSender
  <2>3. CASE SenderRuns
    <3>1. CASE Get \/ Ready \/ Release
      BY <3>1 DEF Get, Ready, Release, IdleSender
    <3>2. CASE SendFails \/ CheckUser
      BY <1>0, <3>2 DEF SendFails, CheckUser, SenderState
    <3>3. CASE SendSucceeds \/ SendRaises \/ Record \/ RecordRejected \/ DatabaseRaises
      BY <1>0, <3>3 DEF SendSucceeds, SendRaises, Record, RecordRejected, DatabaseRaises,
                        SenderState
    <3> QED
      BY <2>3, <3>1, <3>2, <3>3 DEF SenderRuns, SenderStep
  <2> QED
    BY <1>1, <2>1, <2>2, <2>3
<1>3. ASSUME NEW t \in Types, \A s \in Types \ {t} : job'[s].rows = job[s].rows,
             job'[t].rows \subseteq job[t].rows
                \/ \A r \in job'[t].rows : RequestType[r] = t
      PROVE  \A s \in Types : \A r \in job'[s].rows : RequestType[r] = s
  BY <1>3 DEF RowsMatch
<1>4. ASSUME NEW t \in Types, JobStep(t)
      PROVE  \A s \in Types : \A r \in job'[s].rows : RequestType[r] = s
  <2>1. CASE Poll(t)
    <3>1. \A r \in FirstRows(Pending(t), PollLimit) : RequestType[r] = t
      BY DEF FirstRows, Pending
    <3>2. job'[t].rows = FirstRows(Pending(t), PollLimit)
          /\ \A s \in Types \ {t} : job'[s].rows = job[s].rows
      BY <1>0, <2>1 DEF Poll
    <3> QED
      BY <1>3, <3>1, <3>2
  <2>2. ASSUME NEW flight, Advance(t, flight)
        PROVE  /\ \A s \in Types \ {t} : job'[s].rows = job[s].rows
               /\ job'[t].rows \subseteq job[t].rows
    BY <1>0, <2>2 DEF Advance, IdleJob
  <2>3. CASE Resume(t) \/ FetchSucceeds(t) \/ FinishFailure(t)
    BY <1>3, <2>2, <2>3 DEF Resume, FetchSucceeds, FinishFailure
  <2>4. CASE FetchFails(t)
    BY <1>0, <1>3, <2>4, StageRows DEF FetchFails
  <2>5. CASE RecordFailure(t)
    <3>1. job' = [job EXCEPT ![t].pc = "failed"] /\ job[t] \in Job
      BY <1>0, <2>5 DEF RecordFailure
    <3>2. \A s \in Types : job'[s].rows = job[s].rows
      BY <1>0, <3>1 DEF Job
    <3> QED
      BY <1>3, <3>2
  <2>6. CASE FetchRaises(t) \/ FailureRejected(t)
    <3>1. job' = [job EXCEPT ![t] = IdleJob] /\ IdleJob.rows = {}
      BY <2>6 DEF FetchRaises, FailureRejected, JobRaises, IdleJob
    <3> QED
      BY <1>0, <1>3, <3>1
  <2> QED
    BY <1>4, <2>1, <2>3, <2>4, <2>5, <2>6 DEF JobStep
<1>5. CASE \E t \in Types : JobStep(t)
  BY <1>2, <1>4, <1>5 DEF RowsMatch
<1>6. CASE Restart
  <2>1. \A t \in Types : job'[t].rows = {}
    BY <1>6 DEF Restart, IdleJob
  <2> QED
    BY <1>2, <2>1 DEF RowsMatch
<1>7. CASE UNCHANGED job
  BY <1>2, <1>7 DEF RowsMatch
<1>8. \/ \E t \in Types : JobStep(t)
      \/ Restart
      \/ UNCHANGED job
  BY DEF Next, Accept, Commit, Delete, Deleted, Return, SenderRuns, vars
<1> QED
  BY <1>5, <1>6, <1>7, <1>8

LEMMA CountStep == CountInv /\ [Next]_vars => CountInv'
BY CopyStep, OwnersStep, RowsStep DEF CountInv

\* What each step can add to the DMs a request has caused or can still cause:
\* one task with a restart, two with the return of an account, nothing else.
LEMMA BoundPerStep ==
  ASSUME CountInv, [Next]_vars, "db" \notin Faults, NEW r \in RequestIds
  PROVE  \/ /\ UNCHANGED <<restarts, relogins>>
            /\ delivered'[r] + Potential(r)' <= delivered[r] + Potential(r)
         \/ /\ restarts' = restarts + 1 /\ relogins' = relogins
            /\ delivered'[r] + Potential(r)' <= delivered[r] + Potential(r) + PerTask
         \/ /\ restarts' = restarts /\ relogins' = relogins + 1
            /\ delivered'[r] + Potential(r)' <= delivered[r] + Potential(r) + 2 * PerTask
<1>0. /\ TypeOK /\ TypeOK' /\ CountInv'
      /\ delivered[r] \in Nat /\ delivered'[r] \in Nat /\ PerTask \in Nat
      /\ Potential(r) \in Nat /\ Potential(r)' \in Nat /\ Potential(r)' <= 2 * PerTask
  <2>1. TypeOK /\ TypeOK' /\ CountInv'
    BY CountStep DEF CountInv, CopyInv
  <2>2. PotentialBounded /\ PotentialBounded'
    BY <2>1, PotentialRange, PTL
  <2>3. PerTask' = PerTask /\ PerTask \in Nat
    BY DEF PerTask, MaxAttempts
  <2>4. Potential(r)' \in Nat /\ Potential(r)' <= 2 * PerTask' /\ Potential(r) \in Nat
    BY <2>2 DEF PotentialBounded
  <2> QED
    BY <2>1, <2>3, <2>4 DEF TypeOK, SenderTypeOK
<1> DEFINE Calm == /\ UNCHANGED <<restarts, relogins>>
                   /\ delivered'[r] + Potential(r)' <= delivered[r] + Potential(r)
<1>1. CASE Restart
  <2>1. /\ restarts' = restarts + 1 /\ relogins' = relogins /\ delivered' = delivered
        /\ Potential(r)' <= Potential(r) + PerTask
    BY <1>0, <1>1, RestartPotential DEF Restart, SenderLost, dbVars
  <2> QED
    BY <1>0, <2>1
<1>2. ASSUME NEW u \in Users, Return(u)
      PROVE  /\ restarts' = restarts /\ relogins' = relogins + 1
             /\ delivered'[r] + Potential(r)' <= delivered[r] + Potential(r) + 2 * PerTask
  <2>1. restarts' = restarts /\ relogins' = relogins + 1 /\ delivered' = delivered
    BY <1>2 DEF Return, Relogin, senderVars
  <2> QED
    BY <1>0, <2>1
<1>3. UNCHANGED <<delivered, restarts, relogins>> /\ Potential(r)' <= Potential(r) => Calm
  BY <1>0
<1>4. UNCHANGED <<queue, sender, job, status, history, delivered, restarts, relogins>> => Calm
  BY <1>0, <1>3, PotentialKept
     DEF Recorded, AtSend, AtRecord, Stale, Ahead, Busy, Holding, Queued
<1>5. ASSUME NEW q \in RequestIds, Accept(q) \/ Commit(q)
      PROVE  Calm
  BY <1>4, <1>5 DEF Accept, Commit, dbVars, senderVars
<1>6. ASSUME NEW u \in Users, Delete(u)
      PROVE  Calm
  BY <1>4, <1>6 DEF Delete, EraseHistory, senderVars
<1>7. ASSUME NEW u \in Users, Deleted(u)
      PROVE  Calm
  BY <1>0, <1>3, <1>7, DeletionPotential DEF Deleted, CommitDeletion, senderVars
<1>8. ASSUME NEW t \in Types, JobStep(t)
      PROVE  Calm
  <2>1. UNCHANGED <<delivered, restarts, relogins>>
    BY <1>8 DEF JobStep, Poll, Resume, FetchSucceeds, FetchFails, FetchRaises,
                RecordFailure, InsertResult, FailureRejected, FinishFailure, JobRaises,
                senderVars, dbVars
  <2>2. Potential(r)' <= Potential(r)
    BY <1>0, <1>8, FailurePotential, JobPotential
  <2> QED
    BY <1>3, <2>1, <2>2
<1>9. CASE SenderRuns
  <2>1. UNCHANGED <<restarts, relogins>>
    BY <1>9 DEF SenderRuns, SenderStep, Ready, Get, CheckUser, SendSucceeds, SendFails,
                SendRaises, Record, InsertResult, RecordRejected, DatabaseRaises, Release,
                dbVars
  <2>2. CASE Get \/ ~Busy(r)
    BY <1>0, <1>9, <2>1, <2>2, SenderElsewhere
  <2>3. CASE Busy(r)
    BY <1>0, <1>9, <2>1, <2>3, SenderPotential
  <2> QED
    BY <2>2, <2>3
<1>10. CASE UNCHANGED vars
  BY <1>4, <1>10 DEF vars, dbVars, senderVars
<1> QED
  BY <1>1, <1>2, <1>5, <1>6, <1>7, <1>8, <1>9, <1>10 DEF Next

\* Without database failures a request reaches its user at most once for each
\* attempt of two tasks (the one that is recorded, and one that a job claimed
\* from a list read before), once more for each restart and twice more for
\* each return of a deleted account, for any number of requests and jobs.
THEOREM DmsAreBounded ==
  ASSUME "db" \notin Faults
  PROVE  Spec => []DmsBounded
<1>0. PerTask \in {1, 3}
  BY DEF PerTask, MaxAttempts
<1>1. Init => BoundInv
  <2> SUFFICES ASSUME Init
               PROVE  BoundInv
    OBVIOUS
  <2>1. CountInv
    BY CopyInitially, OwnersInitially
       DEF Init, SenderInit, IdleSender, IdleJob, CountInv, RowsMatch
  <2>2. ASSUME NEW r \in RequestIds
        PROVE  delivered[r] + Potential(r) <= PerTask * (2 + restarts + 2 * relogins)
    <3>1. delivered[r] = 0 /\ restarts = 0 /\ relogins = 0
      BY DEF Init, SenderInit, DbInit
    <3>2. Potential(r) \in Nat /\ Potential(r) <= 2 * PerTask
      BY <2>1, PotentialRange DEF CountInv, CopyInv, PotentialBounded
    <3> QED
      BY <1>0, <3>1, <3>2
  <2> QED
    BY <2>1, <2>2 DEF BoundInv
<1>2. BoundInv /\ [Next]_vars => BoundInv'
  <2> SUFFICES ASSUME BoundInv, [Next]_vars, NEW r \in RequestIds
               PROVE  delivered'[r] + Potential(r)'
                        <= PerTask * (2 + restarts' + 2 * relogins')
    BY CountStep DEF BoundInv, PerTask
  <2>0. TypeOK /\ TypeOK'
    BY StepType DEF BoundInv, CountInv, CopyInv
  <2>1. PotentialBounded /\ PotentialBounded'
    BY <2>0, PotentialRange, PTL
  <2>2. /\ delivered[r] \in Nat /\ delivered'[r] \in Nat
        /\ Potential(r) \in Nat /\ Potential(r)' \in Nat
        /\ restarts \in Nat /\ relogins \in Nat /\ restarts' \in Nat /\ relogins' \in Nat
    BY <2>0, <2>1, CountsGrow DEF TypeOK, SenderTypeOK, PotentialBounded
  <2>3. delivered[r] + Potential(r) <= PerTask * (2 + restarts + 2 * relogins)
    BY DEF BoundInv
  <2>4. CASE UNCHANGED <<restarts, relogins>>
    <3>1. delivered'[r] + Potential(r)' <= delivered[r] + Potential(r)
      BY <2>2, <2>4, BoundPerStep DEF BoundInv
    <3> QED
      BY <1>0, <2>2, <2>3, <2>4, <3>1
  <2>5. CASE restarts' = restarts + 1 /\ relogins' = relogins
    <3>1. delivered'[r] + Potential(r)' <= delivered[r] + Potential(r) + PerTask
      BY <2>2, <2>5, BoundPerStep DEF BoundInv
    <3>2. PICK k \in Nat, a \in Nat, b \in Nat, p \in {1, 3} :
             /\ k = 2 + restarts + 2 * relogins /\ p = PerTask
             /\ a = delivered'[r] + Potential(r)' /\ b = delivered[r] + Potential(r)
      <4>1. /\ 2 + restarts + 2 * relogins \in Nat
            /\ delivered'[r] + Potential(r)' \in Nat /\ delivered[r] + Potential(r) \in Nat
        BY <2>2
      <4> QED
        BY <1>0, <4>1, Zenon
    <3>3. 2 + restarts' + 2 * relogins' = k + 1 /\ a <= b + p /\ b <= p * k
      BY <2>2, <2>3, <2>5, <3>1, <3>2
    <3>4. a <= p * (k + 1)
      BY <3>3
    <3> QED
      BY <3>2, <3>3, <3>4
  <2>6. CASE restarts' = restarts /\ relogins' = relogins + 1
    <3>1. delivered'[r] + Potential(r)' <= delivered[r] + Potential(r) + 2 * PerTask
      BY <2>2, <2>6, BoundPerStep DEF BoundInv
    <3>2. PICK k \in Nat, a \in Nat, b \in Nat, p \in {1, 3} :
             /\ k = 2 + restarts + 2 * relogins /\ p = PerTask
             /\ a = delivered'[r] + Potential(r)' /\ b = delivered[r] + Potential(r)
      <4>1. /\ 2 + restarts + 2 * relogins \in Nat
            /\ delivered'[r] + Potential(r)' \in Nat /\ delivered[r] + Potential(r) \in Nat
        BY <2>2
      <4> QED
        BY <1>0, <4>1, Zenon
    <3>3. 2 + restarts' + 2 * relogins' = k + 2 /\ a <= b + 2 * p /\ b <= p * k
      BY <2>2, <2>3, <2>6, <3>1, <3>2
    <3>4. a <= p * (k + 2)
      BY <3>3
    <3> QED
      BY <3>2, <3>3, <3>4
  <2> QED
    BY <2>4, <2>5, <2>6, BoundPerStep DEF BoundInv
<1>3. BoundInv => DmsBounded
  <2> SUFFICES ASSUME BoundInv, NEW r \in RequestIds
               PROVE  delivered[r] <= PerTask * (2 + restarts + 2 * relogins)
    BY DEF DmsBounded
  <2>1. TypeOK /\ delivered[r] + Potential(r) <= PerTask * (2 + restarts + 2 * relogins)
    BY DEF BoundInv, CountInv, CopyInv
  <2>2. /\ delivered[r] \in Nat /\ Potential(r) \in Nat /\ restarts \in Nat
        /\ relogins \in Nat
    BY <2>1, PotentialRange DEF TypeOK, DbTypeOK, SenderTypeOK, PotentialBounded
  <2> QED
    BY <1>0, <2>1, <2>2
<1> QED
  BY <1>1, <1>2, <1>3, PTL DEF Spec
=============================================================================
