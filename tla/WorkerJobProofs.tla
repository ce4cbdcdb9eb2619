-------------------------- MODULE WorkerJobProofs ---------------------------
(***************************************************************************)
(* The inductive invariant of WorkerLoop, and what the steps of a thread,  *)
(* of a submission, of a process and of the clean-up do to the job rows.   *)
(***************************************************************************)
EXTENDS WorkerLoop, QueueProofs

-----------------------------------------------------------------------------
(* The inductive invariant.                                                *)

\* Threads that may still write the row of the job they claimed.
Active(w) == wpc[w] \in {"start", "run", "refresh"}

ThreadsHoldJobs == \A w \in Workers : wpc[w] # "idle" => wjob[w] \in Jobs

NewIsAbsent == \A j \in Jobs : sub[j] = "new" <=> status[j] = "absent"

ActiveNotPending ==
    \A w \in Workers : Active(w) => status[wjob[w]] \notin {"absent", "pending"}

ActiveExclusive ==
    \A v, w \in Workers : v # w /\ Active(v) /\ Active(w) => wjob[v] # wjob[w]

AttemptsLeft ==
    /\ \A j \in Jobs : attempts[j] <= MaxAttempts
    /\ \A j \in Jobs : status[j] \in {"absent", "pending"} => attempts[j] < MaxAttempts
    /\ \A w \in Workers : wpc[w] = "start" => attempts[wjob[w]] < MaxAttempts
    /\ \A w \in Workers : attemptNo[w] <= MaxAttempts

JobInv ==
    /\ ThreadsHoldJobs
    /\ NewIsAbsent
    /\ ActiveNotPending
    /\ ActiveExclusive
    /\ AttemptsLeft

-----------------------------------------------------------------------------
(* Steps of a thread, by what they do to the job rows.                     *)

rowVars == <<status, attempts, sub>>

\* A thread moves on without touching a row, to a step at which it holds no
\* claim.
LEMMA PassiveStep ==
    ASSUME JobTypeOK, JobInv, NEW w \in Workers,
           NEW b \in Steps \ {"idle", "start", "run", "refresh"},
           wpc[w] # "idle", wpc' = [wpc EXCEPT ![w] = b],
           UNCHANGED <<rowVars, wjob, attemptNo>>, kept' \subseteq Workers
    PROVE  JobTypeOK' /\ JobInv'
<1>1. JobTypeOK'
  BY DEF JobTypeOK, rowVars
<1>2. ThreadsHoldJobs' /\ NewIsAbsent'
  BY DEF JobInv, ThreadsHoldJobs, NewIsAbsent, JobTypeOK, rowVars
<1>3. \A v \in Workers : Active(v)' => Active(v)
  BY DEF Active, JobTypeOK
<1>4. ActiveNotPending' /\ ActiveExclusive'
  BY <1>3 DEF JobInv, ActiveNotPending, ActiveExclusive, rowVars
<1>5. AttemptsLeft'
  BY DEF JobInv, AttemptsLeft, JobTypeOK, rowVars
<1>6. QED
  BY <1>1, <1>2, <1>4, <1>5 DEF JobInv

\* A thread gives up its message.
LEMMA FinishStep ==
    ASSUME JobTypeOK, JobInv, NEW w \in Workers, NEW a, Finish(w, a), UNCHANGED rowVars
    PROVE  JobTypeOK' /\ JobInv'
<1>1. JobTypeOK'
  BY DEF JobTypeOK, rowVars, Finish, Steps
<1>2. ThreadsHoldJobs' /\ NewIsAbsent'
  BY DEF JobInv, ThreadsHoldJobs, NewIsAbsent, JobTypeOK, rowVars, Finish
<1>3. \A v \in Workers : Active(v)' => Active(v) /\ wjob'[v] = wjob[v]
  BY DEF Active, JobTypeOK, Finish
<1>4. ActiveNotPending' /\ ActiveExclusive'
  BY <1>3 DEF JobInv, ActiveNotPending, ActiveExclusive, rowVars
<1>5. AttemptsLeft'
  BY WorkerConstants DEF JobInv, AttemptsLeft, JobTypeOK, rowVars, Finish
<1>6. QED
  BY <1>1, <1>2, <1>4, <1>5 DEF JobInv

\* The claim: the only way to become active, and it needs a pending row.
LEMMA ClaimStep ==
    ASSUME JobTypeOK, JobInv, NEW w \in Workers, ClaimJob(w, wjob[w]),
           UNCHANGED <<attempts, sub, attemptNo, kept>>
    PROVE  JobTypeOK' /\ JobInv'
<1>1. wjob[w] \in Jobs
  BY DEF JobInv, ThreadsHoldJobs, ClaimJob, Goto
<1>2. JobTypeOK'
  BY <1>1 DEF JobTypeOK, ClaimJob, Goto, SetStatus, Steps, Statuses
<1>3. ThreadsHoldJobs' /\ NewIsAbsent'
  BY <1>1 DEF JobInv, ThreadsHoldJobs, NewIsAbsent, JobTypeOK, ClaimJob, Goto, SetStatus
<1>4. \A v \in Workers \ {w} : Active(v)' => Active(v) /\ wjob[v] # wjob[w]
  BY DEF Active, JobTypeOK, JobInv, ActiveNotPending, ClaimJob, Goto
<1>5. ActiveNotPending'
  BY <1>1, <1>4 DEF JobInv, ActiveNotPending, JobTypeOK, ClaimJob, Goto, SetStatus
<1>6. ActiveExclusive'
  BY <1>4 DEF JobInv, ActiveExclusive, ClaimJob, Goto
<1>7. AttemptsLeft'
  BY <1>1 DEF JobInv, AttemptsLeft, JobTypeOK, ClaimJob, Goto, SetStatus
<1>8. QED
  BY <1>2, <1>3, <1>5, <1>6, <1>7 DEF JobInv

\* What leaves rows and threads alone keeps the job invariant.
LEMMA OthersKeepJobs ==
    ASSUME JobTypeOK, JobInv, UNCHANGED <<jobVars, threadVars>>
    PROVE  JobTypeOK' /\ JobInv'
BY DEF jobVars, threadVars, JobTypeOK, JobInv, ThreadsHoldJobs, NewIsAbsent,
       ActiveNotPending, ActiveExclusive, AttemptsLeft, Active

\* A claim that was committed but not answered: the row leaves pending and
\* nobody is active for it.
LEMMA LostClaimStep ==
    ASSUME JobTypeOK, JobInv, NEW w \in Workers, Goto(w, "claim", "ack"),
           status[wjob[w]] = "pending", SetStatus(wjob[w], "running"),
           UNCHANGED <<attempts, sub, attemptNo, kept>>
    PROVE  JobTypeOK' /\ JobInv'
<1>1. wjob[w] \in Jobs
  BY DEF JobInv, ThreadsHoldJobs, Goto
<1>2. JobTypeOK'
  BY <1>1 DEF JobTypeOK, Goto, SetStatus, Steps, Statuses
<1>3. ThreadsHoldJobs' /\ NewIsAbsent'
  BY <1>1 DEF JobInv, ThreadsHoldJobs, NewIsAbsent, JobTypeOK, Goto, SetStatus
<1>4. \A v \in Workers : Active(v)' => Active(v)
  BY DEF Active, JobTypeOK, Goto
<1>5. ActiveNotPending'
  BY <1>1, <1>4 DEF JobInv, ActiveNotPending, JobTypeOK, Goto, SetStatus
<1>6. ActiveExclusive'
  BY <1>4 DEF JobInv, ActiveExclusive, Goto
<1>7. AttemptsLeft'
  BY <1>1 DEF JobInv, AttemptsLeft, JobTypeOK, Goto, SetStatus
<1>8. QED
  BY <1>2, <1>3, <1>5, <1>6, <1>7 DEF JobInv

\* The owner of a claim writes its row: the row leaves pending for good, or
\* the owner stops being active.
LEMMA OwnerStep ==
    ASSUME JobTypeOK, JobInv, NEW w \in Workers, Active(w),
           NEW b \in Steps \ {"idle", "start"},
           NEW s \in {"pending", "running", "success", "failed"},
           NEW n \in Nat, n <= MaxAttempts, s = "pending" => n < MaxAttempts,
           NEW k \in Nat, k <= MaxAttempts,
           b \in {"run", "refresh"} => s # "pending",
           wpc' = [wpc EXCEPT ![w] = b],
           status' = [status EXCEPT ![wjob[w]] = s],
           attempts' = [attempts EXCEPT ![wjob[w]] = n],
           attemptNo' = [attemptNo EXCEPT ![w] = k],
           UNCHANGED <<sub, wjob, kept>>
    PROVE  JobTypeOK' /\ JobInv'
<1>1. wjob[w] \in Jobs
  BY DEF JobInv, ThreadsHoldJobs, Active
<1>2. JobTypeOK'
  BY <1>1 DEF JobTypeOK, Statuses
<1>3. ThreadsHoldJobs'
  BY <1>1 DEF JobInv, ThreadsHoldJobs, JobTypeOK
<1>4. NewIsAbsent'
  BY <1>1 DEF JobInv, NewIsAbsent, JobTypeOK, ActiveNotPending
<1>5. \A v \in Workers \ {w} : Active(v)' => Active(v) /\ wjob[v] # wjob[w]
  BY DEF Active, JobTypeOK, JobInv, ActiveExclusive
<1>6. ActiveNotPending'
  <2>1. ASSUME NEW v \in Workers, Active(v)'
        PROVE  status'[wjob'[v]] \notin {"absent", "pending"}
    <3>1. CASE v = w
      BY <1>1, <2>1, <3>1 DEF Active, JobTypeOK
    <3>2. CASE v # w
      BY <1>1, <1>5, <2>1, <3>2 DEF JobInv, ActiveNotPending, JobTypeOK, ThreadsHoldJobs, Active
    <3>3. QED
      BY <3>1, <3>2
  <2>2. QED
    BY <2>1 DEF ActiveNotPending
<1>7. ActiveExclusive'
  BY <1>5 DEF JobInv, ActiveExclusive
<1>8. AttemptsLeft'
  <2>1. \A v \in Workers : wpc'[v] = "start" => attempts'[wjob'[v]] < MaxAttempts
    <3>1. ASSUME NEW v \in Workers, wpc'[v] = "start"
          PROVE  v # w /\ wpc[v] = "start" /\ wjob[v] # wjob[w]
      BY <1>5, <3>1 DEF JobTypeOK, Active
    <3>2. QED
      BY <1>1, <3>1 DEF JobInv, AttemptsLeft, JobTypeOK, ThreadsHoldJobs
  <2>2. QED
    BY <1>1, <2>1 DEF JobInv, AttemptsLeft, JobTypeOK
<1>9. QED
  BY <1>2, <1>3, <1>4, <1>6, <1>7, <1>8 DEF JobInv

-----------------------------------------------------------------------------
(* The steps of process_one_job.                                           *)

\* Every step and every failure of a thread keeps the job invariant.
LEMMA WorkerKeepsJobs ==
    ASSUME JobTypeOK, JobInv, NEW w \in Workers, WorkerStep(w) \/ WorkerError(w)
    PROVE  JobTypeOK' /\ JobInv'
<1> USE DEF rowVars, jobVars
<1>1. CASE Dequeue(w)
  <2>1. PICK j \in Jobs : wjob' = [wjob EXCEPT ![w] = j]
    BY <1>1, Zenon DEF Dequeue
  <2>2. JobTypeOK'
    BY <1>1, <2>1 DEF JobTypeOK, Dequeue, Steps
  <2>3. ThreadsHoldJobs' /\ NewIsAbsent'
    BY <1>1, <2>1 DEF JobInv, ThreadsHoldJobs, NewIsAbsent, JobTypeOK, Dequeue
  <2>4. \A v \in Workers : Active(v)' => Active(v) /\ wjob'[v] = wjob[v]
    BY <1>1, <2>1 DEF Active, JobTypeOK, Dequeue
  <2>5. ActiveNotPending' /\ ActiveExclusive'
    BY <1>1, <2>4 DEF JobInv, ActiveNotPending, ActiveExclusive, Dequeue
  <2>6. AttemptsLeft'
    BY <1>1, <2>1 DEF JobInv, AttemptsLeft, JobTypeOK, Dequeue
  <2>7. QED
    BY <2>2, <2>3, <2>5, <2>6 DEF JobInv
<1>2. CASE DequeueRecord(w)
  BY <1>2, PassiveStep, Zenon DEF DequeueRecord, Goto, Steps, JobTypeOK
<1>3. CASE AcquireSlot(w)
  BY <1>3, PassiveStep, Zenon DEF AcquireSlot, Goto, Steps, JobTypeOK
<1>4. CASE StopRequeue(w) \/ StopRequeueRaises(w)
  BY <1>4, FinishStep DEF StopRequeue, StopRequeueRaises
<1>5. CASE Claim(w)
  <2>1. CASE ClaimJob(w, wjob[w])
    BY <1>5, <2>1, ClaimStep DEF Claim
  <2>2. CASE ClaimMissed(w, wjob[w])
    BY <1>5, <2>2, PassiveStep, Zenon DEF Claim, ClaimMissed, Goto, Steps, JobTypeOK
  <2>3. QED
    BY <1>5, <2>1, <2>2 DEF Claim
<1>6. CASE StartAttempt(w)
  <2> DEFINE j == wjob[w]
  <2>1. j \in Jobs /\ Active(w) /\ attempts[j] \in Nat /\ attempts[j] < MaxAttempts
    BY <1>6 DEF StartAttempt, Goto, JobInv, ThreadsHoldJobs, AttemptsLeft, Active, JobTypeOK
  <2>2. status[j] \in {"running", "success", "failed"}
    BY <2>1 DEF JobInv, ActiveNotPending, JobTypeOK, Statuses
  <2>3. attempts[j] + 1 \in Nat /\ attempts[j] + 1 <= MaxAttempts
    BY <2>1, WorkerConstants
  <2>4. CASE SetStatus(j, "running") /\ attempts' = [attempts EXCEPT ![j] = @ + 1]
    <3>1. attempts' = [attempts EXCEPT ![j] = attempts[j] + 1]
      BY <2>1, <2>4, Zenon DEF JobTypeOK
    <3>2. QED
      BY <1>6, <2>1, <2>3, <2>4, <3>1, OwnerStep, Zenon DEF StartAttempt, Goto, SetStatus, Steps
  <2>5. CASE UNCHANGED <<status, attempts>>
    <3>1. /\ status' = [status EXCEPT ![j] = status[j]]
          /\ attempts' = [attempts EXCEPT ![j] = attempts[j]]
      BY <2>1, <2>5 DEF JobTypeOK
    <3>2. attempts[j] <= MaxAttempts
      BY <2>1, WorkerConstants
    <3>3. QED
      BY <1>6, <2>1, <2>2, <2>3, <3>1, <3>2, OwnerStep, Zenon DEF StartAttempt, Goto, Steps
  <2>6. QED
    BY <1>6, <2>4, <2>5 DEF StartAttempt
<1>7. ASSUME wpc[w] \in {"start", "run", "refresh"}
      PROVE  /\ Active(w) /\ wjob[w] \in Jobs
             /\ attemptNo[w] \in Nat /\ attemptNo[w] <= MaxAttempts
             /\ Counted(w) \in Nat /\ Counted(w) <= MaxAttempts
             /\ UNCHANGED attemptNo => attemptNo' = [attemptNo EXCEPT ![w] = attemptNo[w]]
  BY <1>7 DEF Active, JobInv, ThreadsHoldJobs, AttemptsLeft, JobTypeOK, Counted
<1>8. CASE Succeed(w)
  BY <1>7, <1>8, OwnerStep, Zenon DEF Succeed, Goto, SetStatus, Steps
<1>9. CASE Refresh(w)
  BY <1>9, PassiveStep, ZenonT(30) DEF Refresh, Goto, Steps, JobTypeOK
<1>10. ASSUME NEW a \in {"start", "run", "refresh"}, AttemptFails(w, a)
       PROVE  JobTypeOK' /\ JobInv'
  <2>1. CASE Reschedule(w, a)
    BY <1>7, <1>10, <2>1, OwnerStep, ZenonT(30) DEF AttemptFails, Reschedule, RetryAllowed, CountAttempt,
                                         Goto, SetStatus, Steps
  <2>2. CASE GiveUp(w, a)
    BY <1>7, <1>10, <2>2, OwnerStep, Zenon DEF AttemptFails, GiveUp, CountAttempt, Goto, SetStatus, Steps
  <2>3. QED
    BY <1>10, <2>1, <2>2 DEF AttemptFails
<1>11. CASE HandlerRaises(w) \/ QueryRaises(w) \/ RefreshRaises(w)
  BY <1>10, <1>11 DEF HandlerRaises, QueryRaises, RefreshRaises
<1>12. CASE FailureBranchRaises(w)
  <2>1. PICK a \in {"start", "run", "refresh"} : Goto(w, a, "hget")
    BY <1>12 DEF FailureBranchRaises
  <2>2. CASE UNCHANGED <<status, attempts>>
    BY <1>12, <2>1, <2>2, PassiveStep, Zenon DEF FailureBranchRaises, Goto, Steps, JobTypeOK
  <2>3. CASE SetStatus(wjob[w], "failed") /\ CountAttempt(w)
    BY <1>7, <1>12, <2>1, <2>3, OwnerStep, ZenonT(30)
    DEF FailureBranchRaises, CountAttempt, Goto, SetStatus, Steps
  <2>4. CASE RetryAllowed(w) /\ SetStatus(wjob[w], "pending") /\ CountAttempt(w)
    BY <1>7, <1>12, <2>1, <2>4, OwnerStep, Zenon
    DEF FailureBranchRaises, RetryAllowed, CountAttempt, Goto, SetStatus, Steps
  <2>5. QED
    BY <1>12, <2>2, <2>3, <2>4 DEF FailureBranchRaises
<1>13. CASE ScheduleRetry(w) \/ ScheduleRetryRefused(w) \/ ScheduleRetryRaises(w)
  BY <1>13, PassiveStep DEF ScheduleRetry, ScheduleRetryRefused, ScheduleRetryRaises, Goto,
                            Steps, JobTypeOK
<1>14. CASE Ack(w) \/ FailPush(w)
  BY <1>14, FinishStep DEF Ack, FailPush
<1>15. CASE FailHget(w)
  BY <1>15, PassiveStep, Zenon DEF FailHget, Goto, Steps, JobTypeOK
<1>16. CASE FailHdel(w) \/ AckRaises(w) \/ StartFails(w)
  BY <1>16, PassiveStep DEF FailHdel, AckRaises, StartFails, Goto, Steps, JobTypeOK
<1>17. CASE DequeueRaises(w) \/ FailRaises(w)
  BY <1>17, FinishStep DEF DequeueRaises, FailRaises
<1>18. CASE ClaimFails(w)
  <2>1. CASE UNCHANGED status
    BY <1>18, <2>1, PassiveStep, Zenon DEF ClaimFails, Goto, Steps, JobTypeOK
  <2>2. CASE status[wjob[w]] = "pending" /\ SetStatus(wjob[w], "running")
    BY <1>18, <2>2, LostClaimStep DEF ClaimFails
  <2>3. QED
    BY <1>18, <2>1, <2>2 DEF ClaimFails
<1>19. CASE DequeueLost(w)
  BY <1>19, OthersKeepJobs DEF DequeueLost
<1>20. QED
  BY <1>1, <1>2, <1>3, <1>4, <1>5, <1>6, <1>8, <1>9, <1>11, <1>12, <1>13, <1>14,
     <1>15, <1>16, <1>17, <1>18, <1>19 DEF WorkerStep, WorkerError

-----------------------------------------------------------------------------
(* The steps of everybody else.                                            *)

\* Submission keeps the job invariant: a row is created pending only while
\* nobody can have claimed it.
LEMMA SubmitKeepsJobs ==
    ASSUME JobTypeOK, JobInv, NEW j \in Jobs, SubmitStep(j) \/ SubmitError(j)
    PROVE  JobTypeOK' /\ JobInv'
<1> USE DEF threadVars
<1>1. CASE SubmitRow(j)
  <2>1. JobTypeOK'
    BY <1>1 DEF JobTypeOK, SubmitRow, SetStatus, Statuses
  <2>2. ThreadsHoldJobs' /\ NewIsAbsent'
    BY <1>1 DEF JobInv, ThreadsHoldJobs, NewIsAbsent, JobTypeOK, SubmitRow, SetStatus
  <2>3. \A w \in Workers : Active(w)' => Active(w) /\ wjob[w] # j
    BY <1>1 DEF Active, SubmitRow, JobInv, NewIsAbsent, ActiveNotPending
  <2>4. ActiveNotPending' /\ ActiveExclusive'
    BY <1>1, <2>3 DEF JobInv, ActiveNotPending, ActiveExclusive, SubmitRow, SetStatus, JobTypeOK
  <2>5. AttemptsLeft'
    BY <1>1 DEF JobInv, AttemptsLeft, NewIsAbsent, JobTypeOK, SubmitRow, SetStatus
  <2>6. QED
    BY <2>1, <2>2, <2>4, <2>5 DEF JobInv
<1>2. CASE SubmitAbort(j) \/ SubmitRefusedLocally(j)
  <2>1. PICK d \in {"done", "error"} :
            /\ sub[j] \in {"row", "error"} /\ sub' = [sub EXCEPT ![j] = d]
            /\ status' = [status EXCEPT ![j] = "failed"]
            /\ UNCHANGED <<attempts, threadVars>>
    BY <1>2 DEF SubmitAbort, SubmitRefusedLocally, SetStatus
  <2>2. JobTypeOK'
    BY <2>1 DEF JobTypeOK, Statuses
  <2>3. ThreadsHoldJobs' /\ NewIsAbsent'
    BY <2>1 DEF JobInv, ThreadsHoldJobs, NewIsAbsent, JobTypeOK
  <2>4. ActiveNotPending' /\ ActiveExclusive'
    BY <2>1 DEF JobInv, ActiveNotPending, ActiveExclusive, JobTypeOK, Active
  <2>5. AttemptsLeft'
    BY <2>1 DEF JobInv, AttemptsLeft, JobTypeOK
  <2>6. QED
    BY <2>2, <2>3, <2>4, <2>5 DEF JobInv
<1>3. CASE SubmitEnqueue(j) \/ SubmitRefused(j) \/ SubmitError(j)
  <2>1. PICK d \in {"done", "error"} :
            /\ sub[j] \in {"row", "error"} /\ sub' = [sub EXCEPT ![j] = d]
            /\ UNCHANGED <<status, attempts, threadVars>>
    BY <1>3 DEF SubmitEnqueue, SubmitRefused, SubmitError, SubmitRaises, SubmitTwice,
                SubmitAbortFails
  <2>2. JobTypeOK' /\ NewIsAbsent'
    BY <2>1 DEF JobTypeOK, JobInv, NewIsAbsent
  <2>3. QED
    BY <2>1, <2>2 DEF JobInv, ThreadsHoldJobs, ActiveNotPending, ActiveExclusive,
                      AttemptsLeft, Active
<1>4. QED
  BY <1>1, <1>2, <1>3 DEF SubmitStep

\* The end of a process, and the clean-up job, keep the job invariant.
LEMMA GoneKeepsJobs ==
    ASSUME JobTypeOK, JobInv, NEW h \in Hosts, Gone(h)
    PROVE  JobTypeOK' /\ JobInv'
<1> USE DEF jobVars
<1>1. JobTypeOK'
  BY DEF JobTypeOK, Gone, Steps
<1>2. ThreadsHoldJobs' /\ NewIsAbsent'
  BY DEF JobInv, ThreadsHoldJobs, NewIsAbsent, Gone
<1>3. \A v \in Workers : Active(v)' => Active(v) /\ wjob'[v] = wjob[v]
  BY DEF Active, Gone
<1>4. ActiveNotPending' /\ ActiveExclusive'
  BY <1>3 DEF JobInv, ActiveNotPending, ActiveExclusive, Gone
<1>5. AttemptsLeft'
  BY WorkerConstants DEF JobInv, AttemptsLeft, Gone
<1>6. QED
  BY <1>1, <1>2, <1>4, <1>5 DEF JobInv

LEMMA CleanupKeepsJobs ==
    ASSUME JobTypeOK, JobInv, AdminTypeOK, CleanupCommit, \A j \in cleaning : sub[j] # "new"
    PROVE  JobTypeOK' /\ JobInv'
<1> USE DEF threadVars
<1>1. JobTypeOK'
  BY DEF JobTypeOK, CleanupCommit, Statuses
<1>2. ThreadsHoldJobs' /\ NewIsAbsent'
  BY DEF JobInv, ThreadsHoldJobs, NewIsAbsent, CleanupCommit, JobTypeOK
<1>3. ActiveNotPending' /\ ActiveExclusive'
  BY DEF JobInv, ActiveNotPending, ActiveExclusive, CleanupCommit, Active, ThreadsHoldJobs
<1>4. AttemptsLeft'
  BY DEF JobInv, AttemptsLeft, CleanupCommit
<1>5. QED
  BY <1>1, <1>2, <1>3, <1>4 DEF JobInv
=============================================================================
