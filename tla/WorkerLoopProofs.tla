-------------------------- MODULE WorkerLoopProofs --------------------------
(***************************************************************************)
(* Proofs about WorkerLoop, for every set of jobs, threads and processes,  *)
(* every queue capacity and attempt budget, and every kind and number of   *)
(* faults: the handler of a job is executed by one thread at a time, and   *)
(* at most MaxAttempts times.                                              *)
(***************************************************************************)
EXTENDS WorkerJobProofs

-----------------------------------------------------------------------------
(* The whole next-state relation.                                          *)

\* The rows the clean-up job holds were submitted.
CleaningSubmitted == \A j \in cleaning : sub[j] # "new"

IInv == TypeOK /\ JobInv /\ CleaningSubmitted

\* The fault counter stays within its bound.
LEMMA FaultTypes ==
    ASSUME faults \in 0..MaxFaults, NEW k, NoFault \/ Fault(k)
    PROVE  faults' \in 0..MaxFaults
BY WorkerConstants DEF NoFault, Fault

\* A step of a thread keeps the types of the queue and of the rest.
LEMMA WorkerKeepsTypes ==
    ASSUME TypeOK, JobInv, NEW w \in Workers, WorkerStep(w) \/ WorkerError(w)
    PROVE  QueueTypeOK' /\ AdminTypeOK' /\ (CleaningSubmitted => CleaningSubmitted')
<1> USE DEF TypeOK
<1>1. /\ UNCHANGED <<sub, stopping, drain, drainPc, cleaning>>
      /\ NoFault \/ \E k \in FaultKinds : Fault(k)
  <2>1. CASE WorkerStep(w)
    BY <2>1 DEF WorkerStep, Dequeue, DequeueRecord, AcquireSlot, StopRequeue, Claim,
         StartAttempt, Succeed, Refresh, HandlerRaises, AttemptFails, ScheduleRetry,
         ScheduleRetryRefused, Ack, FailHget, FailHdel, FailPush, jobVars, adminVars
  <2>2. CASE WorkerError(w)
    BY <2>2 DEF WorkerError, DequeueLost, DequeueRaises, StopRequeueRaises, ClaimFails,
         StartFails, QueryRaises, RefreshRaises, AttemptFails, FailureBranchRaises,
         ScheduleRetryRaises, AckRaises, FailRaises, FaultKinds, jobVars, adminVars
  <2>3. QED
    BY <2>1, <2>2
<1>2. AdminTypeOK' /\ (CleaningSubmitted => CleaningSubmitted')
  <2>1. faults' \in 0..MaxFaults
    BY <1>1, WorkerConstants DEF AdminTypeOK, NoFault, Fault
  <2>2. QED
    BY <1>1, <2>1 DEF AdminTypeOK, CleaningSubmitted
<1>3. wpc[w] # "idle" => wjob[w] \in Jobs
  BY DEF JobInv, ThreadsHoldJobs
<1>4. (Dequeue(w) \/ DequeueLost(w)) => QueueTypeOK'
  BY QueueCommandTypes DEF Dequeue, DequeueLost
<1>5. (DequeueRecord(w) \/ FailHdel(w) \/ ScheduleRetry(w)) => QueueTypeOK'
  BY <1>3, QueueCommandTypes DEF DequeueRecord, FailHdel, ScheduleRetry, Goto
<1>6. Ack(w) => QueueTypeOK'
  BY <1>3, QueueCommandTypes DEF Ack, Finish
<1>7. (StopRequeue(w) \/ StopRequeueRaises(w)) => QueueTypeOK'
  BY <1>3, QueueCommandTypes DEF StopRequeue, StopRequeueRaises, Finish
<1>8. FailPush(w) => QueueTypeOK'
  BY <1>3, DeadLetterTypes DEF FailPush, Finish, PayloadOf
<1>9. UNCHANGED queueVars => QueueTypeOK'
  BY DEF queueVars, QueueTypeOK
<1>10. (DequeueRaises(w) \/ ScheduleRetryRaises(w) \/ AckRaises(w)) => QueueTypeOK'
  BY <1>3, QueueCommandTypes DEF DequeueRaises, ScheduleRetryRaises, AckRaises, Goto,
                                        Finish, Unanswered
<1>11. ASSUME FailRaises(w) PROVE QueueTypeOK'
  <2>1. wjob[w] \in Jobs
    BY <1>3, <1>11 DEF FailRaises, Finish
  <2>2. \/ RemoveInflight(wjob[w]) \/ PushDeadLetterTwice(wjob[w], PayloadOf(w))
        \/ UNCHANGED queueVars
    BY <1>11 DEF FailRaises, Unanswered
  <2>3. PayloadOf(w) \in {"kept", "missing"}
    BY DEF PayloadOf
  <2>4. QED
    BY <2>1, <2>2, <2>3, DeadLetterTypes, QueueCommandTypes
<1>12. ASSUME WorkerStep(w) PROVE QueueTypeOK'
  <2>1. \/ Dequeue(w) \/ DequeueRecord(w) \/ FailHdel(w) \/ ScheduleRetry(w) \/ Ack(w)
        \/ StopRequeue(w) \/ FailPush(w) \/ UNCHANGED queueVars
    BY <1>12 DEF WorkerStep, AcquireSlot, Claim, StartAttempt, Succeed, Refresh,
         HandlerRaises, AttemptFails, ScheduleRetryRefused, FailHget
  <2>2. QED
    BY <1>4, <1>5, <1>6, <1>7, <1>8, <1>9, <2>1
<1>13. ASSUME WorkerError(w) PROVE QueueTypeOK'
  <2>1. \/ DequeueLost(w) \/ DequeueRaises(w) \/ StopRequeueRaises(w)
        \/ ScheduleRetryRaises(w) \/ AckRaises(w) \/ FailRaises(w) \/ UNCHANGED queueVars
    BY <1>13 DEF WorkerError, ClaimFails, StartFails, QueryRaises, RefreshRaises,
         AttemptFails, FailureBranchRaises
  <2>2. QED
    BY <1>4, <1>7, <1>9, <1>10, <1>11, <2>1
<1>14. QED
  BY <1>2, <1>12, <1>13

\* What is left of the dead letter list after LTRIM is a list of letters.
LEMMA TrimTypes ==
    ASSUME dlq \in Seq(Letters), NEW n \in Nat
    PROVE  SubSeq(dlq, n + 1, Len(dlq)) \in Seq(Letters)
<1>1. \A i \in (n + 1)..Len(dlq) : dlq[i] \in Letters
  OBVIOUS
<1>2. Len(dlq) \in Int /\ n + 1 \in Int
  OBVIOUS
<1>3. QED
  BY <1>1, <1>2, SubSeqProperties

\* The drain of dead letters, its failures and those of a replay and of the
\* clean-up job keep the invariant.
LEMMA DrainKeeps ==
    ASSUME IInv, Drain \/ AdminError
    PROVE  IInv'
<1> USE DEF IInv, TypeOK
<1>1. JobTypeOK' /\ JobInv'
  BY OthersKeepJobs DEF Drain, DrainPeek, DrainTrim, DrainEnqueue, DrainEnd, AdminError,
     DrainTrimRaises, DrainTrimTwice, DrainEnqueueRaises, CleanupFails, ReplayTwice
<1>2. CleaningSubmitted'
  BY DEF CleaningSubmitted, Drain, DrainPeek, DrainTrim, DrainEnqueue, DrainEnd, jobVars,
     AdminError, DrainTrimRaises, DrainTrimTwice, DrainEnqueueRaises, CleanupFails,
     ReplayTwice, adminVars
<1>3. faults' \in 0..MaxFaults
  BY FaultTypes DEF AdminTypeOK, Drain, DrainPeek, DrainTrim, DrainEnqueue, DrainEnd,
     AdminError, DrainTrimRaises, DrainTrimTwice, DrainEnqueueRaises, CleanupFails,
     ReplayTwice
<1>4. CASE DrainPeek
  <2> DEFINE n == IF Len(dlq) < DrainLimit THEN Len(dlq) ELSE DrainLimit
  <2>1. dlq \in Seq(Letters) /\ n \in 0..Len(dlq)
    BY WorkerConstants DEF QueueTypeOK
  <2>2. SubSeq(dlq, 1, n) \in Seq(Letters)
    BY <2>1, LettersSubSeq
  <2>3. QueueTypeOK'
    BY <1>4 DEF DrainPeek, queueVars, QueueTypeOK
  <2>4. QED
    BY <1>1, <1>2, <1>3, <1>4, <2>2, <2>3 DEF DrainPeek, AdminTypeOK
<1>5. CASE DrainTrim \/ DrainTrimTwice \/ DrainTrimRaises
  <2>1. DrainLimit \in Nat /\ 2 * DrainLimit \in Nat /\ dlq \in Seq(Letters)
    BY WorkerConstants DEF QueueTypeOK
  <2>2. dlq' \in Seq(Letters)
    BY <1>5, <2>1, TrimTypes, Zenon DEF DrainTrim, DrainTrimTwice, DrainTrimRaises
  <2>3. QueueTypeOK'
    BY <1>5, <2>2 DEF DrainTrim, DrainTrimTwice, DrainTrimRaises, recoverVars, QueueTypeOK
  <2>4. AdminTypeOK'
    <3>1. drain' \in Seq(Letters)
      <4>1. CASE DrainTrim \/ DrainTrimTwice
        BY <4>1 DEF DrainTrim, DrainTrimTwice, AdminTypeOK
      <4>2. CASE DrainTrimRaises
        BY <4>2 DEF DrainTrimRaises
      <4>3. QED
        BY <1>5, <4>1, <4>2
    <3>2. QED
      BY <1>3, <1>5, <3>1 DEF DrainTrim, DrainTrimTwice, DrainTrimRaises, AdminTypeOK
  <2>5. QED
    BY <1>1, <1>2, <2>3, <2>4
<1>6. CASE DrainEnqueue \/ DrainEnqueueRaises
  <2>1. Head(drain) \in Letters /\ Tail(drain) \in Seq(Letters)
    BY <1>6 DEF DrainEnqueue, DrainEnqueueRaises, AdminTypeOK
  <2>2. Head(drain).job \in Jobs
    BY <2>1 DEF Letters
  <2>3. QueueTypeOK'
    BY <1>6, <2>2, QueueCommandTypes DEF DrainEnqueue, DrainEnqueueRaises
  <2>4. AdminTypeOK'
    BY <1>3, <1>6, <2>1 DEF DrainEnqueue, DrainEnqueueRaises, AdminTypeOK
  <2>5. QED
    BY <1>1, <1>2, <2>3, <2>4
<1>7. CASE DrainEnd \/ CleanupFails
  BY <1>1, <1>2, <1>3, <1>7 DEF DrainEnd, CleanupFails, AdminTypeOK, queueVars, QueueTypeOK
<1>8. ASSUME NEW j \in Jobs, ReplayTwice(j)
      PROVE  IInv'
  <2>1. QueueTypeOK'
    BY <1>8, QueueCommandTypes DEF ReplayTwice
  <2>2. AdminTypeOK'
    BY <1>3, <1>8 DEF ReplayTwice, adminVars, AdminTypeOK
  <2>3. QED
    BY <1>1, <1>2, <2>1, <2>2
<1>9. QED
  BY <1>4, <1>5, <1>6, <1>7, <1>8 DEF Drain, AdminError

\* Every step keeps the inductive invariant.
LEMMA StepKeeps ==
    ASSUME IInv, [Next]_vars
    PROVE  IInv'
<1> USE DEF IInv, TypeOK
<1>1. ASSUME NEW j \in Jobs, SubmitStep(j) \/ SubmitError(j)
      PROVE  IInv'
  <2> USE DEF SubmitStep, SubmitRow, SubmitEnqueue, SubmitRefusedLocally, SubmitRefused,
              SubmitAbort, SubmitError, SubmitRaises, SubmitTwice, SubmitAbortFails
  <2>1. JobTypeOK' /\ JobInv'
    BY <1>1, SubmitKeepsJobs
  <2>2. QueueTypeOK'
    BY <1>1, QueueCommandTypes DEF Unanswered
  <2>3. AdminTypeOK'
    BY <1>1, FaultTypes DEF AdminTypeOK, adminVars
  <2>4. CleaningSubmitted'
    BY <1>1 DEF CleaningSubmitted, adminVars, JobTypeOK, AdminTypeOK
  <2>5. QED
    BY <2>1, <2>2, <2>3, <2>4
<1>2. ASSUME NEW j \in Jobs, Promote(j) \/ VisibilityTimeout(j)
      PROVE  IInv'
  <2>1. JobTypeOK' /\ JobInv'
    BY <1>2, OthersKeepJobs DEF Promote, VisibilityTimeout
  <2>2. QueueTypeOK'
    BY <1>2, QueueCommandTypes DEF Promote, VisibilityTimeout
  <2>3. AdminTypeOK' /\ CleaningSubmitted'
    BY <1>2, FaultTypes DEF Promote, VisibilityTimeout, AdminTypeOK, adminVars, jobVars,
                            CleaningSubmitted
  <2>4. QED
    BY <2>1, <2>2, <2>3
<1>3. ASSUME NEW w \in Workers, WorkerStep(w) \/ WorkerError(w)
      PROVE  IInv'
  BY <1>3, WorkerKeepsJobs, WorkerKeepsTypes
<1>4. ASSUME NEW h \in Hosts, Stop(h)
      PROVE  IInv'
  <2>1. JobTypeOK' /\ JobInv'
    BY <1>4, OthersKeepJobs DEF Stop
  <2>2. QueueTypeOK'
    BY <1>4 DEF Stop, queueVars, QueueTypeOK
  <2>3. AdminTypeOK' /\ CleaningSubmitted'
    BY <1>4, FaultTypes DEF Stop, AdminTypeOK, adminVars, jobVars, CleaningSubmitted
  <2>4. QED
    BY <2>1, <2>2, <2>3
<1>5. ASSUME NEW h \in Hosts, Die(h) \/ Exit(h) \/ ExitTimesOut(h)
      PROVE  IInv'
  <2>1. Gone(h) /\ (NoFault \/ \E k \in FaultKinds : Fault(k))
    BY <1>5 DEF Die, Exit, ExitTimesOut, FaultKinds
  <2>2. QueueTypeOK'
    BY <2>1, RecoverTypes DEF Gone
  <2>3. AdminTypeOK' /\ CleaningSubmitted'
    BY <2>1, FaultTypes DEF Gone, AdminTypeOK, adminVars, jobVars, CleaningSubmitted
  <2>4. QED
    BY <2>1, <2>2, <2>3, GoneKeepsJobs
<1>6. ASSUME NEW h \in Hosts, Recover(h) \/ RecoverError(h)
      PROVE  IInv'
  <2>1. JobTypeOK' /\ JobInv'
    BY <1>6, OthersKeepJobs DEF Recover, RecoverError
  <2>2. QueueTypeOK'
    BY <1>6, RecoverTypes DEF Recover, RecoverError
  <2>3. AdminTypeOK' /\ CleaningSubmitted'
    BY <1>6, FaultTypes DEF Recover, RecoverError, AdminTypeOK, adminVars, jobVars,
                            CleaningSubmitted
  <2>4. QED
    BY <2>1, <2>2, <2>3
<1>7. CASE Operator
  <2>1. JobTypeOK' /\ JobInv'
    BY <1>7, OthersKeepJobs DEF Operator
  <2>2. QueueTypeOK'
    BY <1>7, DeadLetterTypes DEF Operator
  <2>3. AdminTypeOK' /\ CleaningSubmitted'
    BY <1>7, FaultTypes DEF Operator, AdminTypeOK, adminVars, jobVars, CleaningSubmitted
  <2>4. QED
    BY <2>1, <2>2, <2>3
<1>8. CASE Drain \/ AdminError
  BY <1>8, DrainKeeps
<1>9. CASE CleanupSelect
  <2>1. JobTypeOK' /\ JobInv'
    BY <1>9, OthersKeepJobs DEF CleanupSelect
  <2>2. QueueTypeOK' /\ AdminTypeOK'
    BY <1>9, FaultTypes DEF CleanupSelect, queueVars, QueueTypeOK, AdminTypeOK
  <2>3. CleaningSubmitted'
    BY <1>9 DEF CleanupSelect, jobVars, CleaningSubmitted, JobInv, NewIsAbsent
  <2>4. QED
    BY <2>1, <2>2, <2>3
<1>10. CASE CleanupCommit
  <2>1. JobTypeOK' /\ JobInv'
    BY <1>10, CleanupKeepsJobs DEF CleaningSubmitted
  <2>2. QueueTypeOK' /\ AdminTypeOK' /\ CleaningSubmitted'
    BY <1>10, FaultTypes DEF CleanupCommit, queueVars, QueueTypeOK, AdminTypeOK,
                             CleaningSubmitted
  <2>3. QED
    BY <2>1, <2>2
<1>11. CASE UNCHANGED vars
  <2>1. JobTypeOK' /\ JobInv'
    BY <1>11, OthersKeepJobs DEF vars
  <2>2. QueueTypeOK' /\ AdminTypeOK' /\ CleaningSubmitted'
    BY <1>11 DEF vars, queueVars, adminVars, jobVars, QueueTypeOK, AdminTypeOK,
                 CleaningSubmitted
  <2>3. QED
    BY <2>1, <2>2
<1>12. QED
  BY <1>1, <1>2, <1>3, <1>4, <1>5, <1>6, <1>7, <1>8, <1>9, <1>10, <1>11 DEF Next, Cleanup

\* The invariant holds initially.
LEMMA InitKeeps == Init => IInv
<1> SUFFICES ASSUME Init PROVE IInv
  OBVIOUS
<1>1. QueueTypeOK
  BY DEF Init, QueueInit, QueueTypeOK, Entries
<1>2. JobTypeOK /\ AdminTypeOK
  BY WorkerConstants DEF Init, JobTypeOK, AdminTypeOK, Statuses, Steps
<1>3. JobInv /\ CleaningSubmitted
  BY WorkerConstants DEF Init, JobInv, ThreadsHoldJobs, NewIsAbsent, ActiveNotPending,
     ActiveExclusive, AttemptsLeft, Active, CleaningSubmitted
<1>4. QED
  BY <1>1, <1>2, <1>3 DEF IInv, TypeOK

\* The inductive invariant is an invariant of the specification.
THEOREM JobInvariant == Spec => []IInv
BY InitKeeps, StepKeeps, PTL DEF Spec

\* The rows, the threads and the four Redis structures keep their types
\* through every fault.
THEOREM WorkerTypeCorrect == Spec => []TypeOK
<1>1. IInv => TypeOK
  BY DEF IInv
<1>2. QED
  BY <1>1, JobInvariant, PTL

\* However messages are duplicated, redelivered, replayed or lost, the
\* handler of a job is executed by one thread at a time (_try_claim_job).
THEOREM HandlerIsExclusive == Spec => []HandlerExclusive
<1>1. IInv => HandlerExclusive
  BY DEF IInv, JobInv, ActiveExclusive, Active, HandlerExclusive, Executing
<1>2. QED
  BY <1>1, JobInvariant, PTL

\* However messages are duplicated, redelivered, replayed or lost, a job is
\* attempted at most max_attempts times (_execute_job_inline).
THEOREM AttemptsAreBounded == Spec => []AttemptsBounded
<1>1. IInv => AttemptsBounded
  BY DEF IInv, JobInv, AttemptsLeft, AttemptsBounded
<1>2. QED
  BY <1>1, JobInvariant, PTL
=============================================================================
