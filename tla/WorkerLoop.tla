----------------------------- MODULE WorkerLoop -----------------------------
(***************************************************************************)
(* The life of an asynchronous job in distributed mode: submission         *)
(* (async_job_service.py), the worker threads (worker_loop.py) that        *)
(* dequeue, claim, execute, retry, acknowledge and dead-letter it, the     *)
(* stale-recovery threads, the operator's drain of dead letters and the    *)
(* hourly clean-up of old pending rows (scheduler_service.py).             *)
(*                                                                         *)
(* One action is one database transaction or one Redis command.            *)
(*                                                                         *)
(* Faults selects which failures of the environment may happen, MaxFaults  *)
(* how many of them in one behaviour (a drain of dead letters is not       *)
(* counted):                                                               *)
(*   "stop"    SIGTERM of a worker process                                 *)
(*   "crash"   death of a worker process, at any point                     *)
(*   "late"    death of a worker process, none of whose threads is between *)
(*             BRPOP and HSET or between HDEL and LPUSH                    *)
(*   "slow"    a thread that is still between two steps when the join of   *)
(*             the exiting process gives up on it                          *)
(*   "requeue" the enqueue of a stopping worker that fails or whose reply  *)
(*             is lost                                                     *)
(*   "redis"   any other Redis command that fails or whose reply is lost   *)
(*   "db"      a database statement that fails or whose answer is lost     *)
(*   "cleanup" a run of the clean-up job                                   *)
(*   "operator" a dead letter operation                                    *)
(***************************************************************************)
EXTENDS RedisQueue

CONSTANTS
    Workers,        \* worker threads
    HostOf,         \* HostOf[w]: the process of thread w
    Slots,          \* WORKER_MAX_CONCURRENT_JOBS, 0 for no limit
    MaxAttempts,    \* JobLog.max_attempts
    DrainLimit,     \* max_items of drain_dead_letters
    Faults,
    MaxFaults

FaultKinds == {"stop", "crash", "late", "slow", "requeue", "redis", "db",
               "cleanup", "operator"}

ASSUME WorkerConstants ==
    /\ HostOf \in [Workers -> Hosts]
    /\ Slots \in Nat
    /\ MaxAttempts \in Nat \ {0}
    /\ DrainLimit \in Nat \ {0}
    /\ Faults \subseteq FaultKinds
    /\ MaxFaults \in Nat

VARIABLES
    status,     \* status[j]: JobLog.status, "absent" before the row exists
    attempts,   \* attempts[j]: JobLog.attempt_count
    sub,        \* sub[j]: progress of the submitting request
    wpc,        \* wpc[w]: next step of thread w in process_one_job
    wjob,       \* wjob[w]: the message thread w holds
    attemptNo,  \* attemptNo[w]: attempt_no in _execute_job_inline
    kept,       \* threads whose fail() read a payload from the in-flight hash
    stopping,   \* processes in which _STOP is set
    drain,      \* dead letters drain_dead_letters holds
    drainPc,
    cleaning,   \* rows the clean-up job selected and has not yet committed
    faults

jobVars == <<status, attempts, sub>>
threadVars == <<wpc, wjob, attemptNo, kept>>
adminVars == <<drain, drainPc, cleaning>>
vars == <<queueVars, jobVars, threadVars, stopping, adminVars, faults>>

Statuses == {"absent", "pending", "running", "success", "failed"}
Steps == {"idle", "popped", "slot", "claim", "start", "run", "refresh",
          "retry", "ack", "hget", "hdel", "push"}

JobTypeOK ==
    /\ status \in [Jobs -> Statuses]
    /\ attempts \in [Jobs -> Nat]
    /\ sub \in [Jobs -> {"new", "row", "error", "done"}]
    /\ wpc \in [Workers -> Steps]
    /\ wjob \in [Workers -> Jobs \cup {NoJob}]
    /\ attemptNo \in [Workers -> Nat]
    /\ kept \subseteq Workers

AdminTypeOK ==
    /\ stopping \subseteq Hosts
    /\ drain \in Seq(Letters)
    /\ drainPc \in {"idle", "trim", "enqueue"}
    /\ cleaning \subseteq Jobs
    /\ faults \in 0..MaxFaults

\* Type correctness of the job rows, the threads and the queue.
TypeOK == QueueTypeOK /\ JobTypeOK /\ AdminTypeOK

Init ==
    /\ QueueInit
    /\ status = [j \in Jobs |-> "absent"]
    /\ attempts = [j \in Jobs |-> 0]
    /\ sub = [j \in Jobs |-> "new"]
    /\ wpc = [w \in Workers |-> "idle"]
    /\ wjob = [w \in Workers |-> NoJob]
    /\ attemptNo = [w \in Workers |-> 0]
    /\ kept = {}
    /\ stopping = {}
    /\ drain = <<>> /\ drainPc = "idle"
    /\ cleaning = {}
    /\ faults = 0

NoFault == UNCHANGED faults
Fault(kind) == kind \in Faults /\ faults < MaxFaults /\ faults' = faults + 1

SetStatus(j, s) == status' = [status EXCEPT ![j] = s]

-----------------------------------------------------------------------------
(* _submit_async_job_inner.                                                *)

\* The row is committed as pending before anything is enqueued.
SubmitRow(j) ==
    /\ sub[j] = "new"
    /\ sub' = [sub EXCEPT ![j] = "row"]
    /\ SetStatus(j, "pending")
    /\ NoFault
    /\ UNCHANGED <<queueVars, attempts, threadVars, stopping, adminVars>>

SubmitEnqueue(j) ==
    /\ sub[j] = "row"
    /\ Enqueue(j)
    /\ sub' = [sub EXCEPT ![j] = "done"]
    /\ NoFault
    /\ UNCHANGED <<status, attempts, threadVars, stopping, adminVars>>

\* The process has MAX_QUEUE_SIZE submissions under way: the row is committed
\* as failed and the exception goes the way of every other one.
SubmitRefusedLocally(j) ==
    /\ sub[j] = "row"
    /\ sub' = [sub EXCEPT ![j] = "error"]
    /\ SetStatus(j, "failed")
    /\ NoFault
    /\ UNCHANGED <<queueVars, attempts, threadVars, stopping, adminVars>>

\* QueueSaturatedError of the Redis queue.
SubmitRefused(j) ==
    /\ sub[j] = "row" /\ Saturated
    /\ sub' = [sub EXCEPT ![j] = "error"]
    /\ NoFault
    /\ UNCHANGED <<queueVars, status, attempts, threadVars, stopping, adminVars>>

\* The enqueue raises, with or without effect on Redis.
SubmitRaises(j) ==
    /\ sub[j] = "row"
    /\ Fault("redis")
    /\ Unanswered(Enqueue(j))
    /\ sub' = [sub EXCEPT ![j] = "error"]
    /\ UNCHANGED <<status, attempts, threadVars, stopping, adminVars>>

\* The reply is lost and the retry succeeds: two messages.
SubmitTwice(j) ==
    /\ sub[j] = "row"
    /\ Fault("redis")
    /\ EnqueueTwice(j)
    /\ sub' = [sub EXCEPT ![j] = "done"]
    /\ UNCHANGED <<status, attempts, threadVars, stopping, adminVars>>

\* The except branch: the row is written failed, whatever it says by now.
SubmitAbort(j) ==
    /\ sub[j] = "error"
    /\ sub' = [sub EXCEPT ![j] = "done"]
    /\ SetStatus(j, "failed")
    /\ NoFault
    /\ UNCHANGED <<queueVars, attempts, threadVars, stopping, adminVars>>

\* The events that commit the failed row cannot be written: rollback.
SubmitAbortFails(j) ==
    /\ sub[j] = "error"
    /\ sub' = [sub EXCEPT ![j] = "done"]
    /\ Fault("db")
    /\ UNCHANGED <<queueVars, status, attempts, threadVars, stopping, adminVars>>

SubmitStep(j) ==
    \/ SubmitRow(j) \/ SubmitEnqueue(j) \/ SubmitRefusedLocally(j)
    \/ SubmitRefused(j) \/ SubmitAbort(j)

SubmitError(j) == SubmitRaises(j) \/ SubmitTwice(j) \/ SubmitAbortFails(j)

-----------------------------------------------------------------------------
(* process_one_job.                                                        *)

\* Thread w, at step a, goes on to step b with the message it holds.
Goto(w, a, b) ==
    /\ wpc[w] = a
    /\ wpc' = [wpc EXCEPT ![w] = b]
    /\ UNCHANGED wjob

\* Thread w, at step a, is done with its message.
Finish(w, a) ==
    /\ wpc[w] = a
    /\ wpc' = [wpc EXCEPT ![w] = "idle"]
    /\ wjob' = [wjob EXCEPT ![w] = NoJob]
    /\ attemptNo' = [attemptNo EXCEPT ![w] = 0]
    /\ kept' = kept \ {w}

Dequeue(w) ==
    /\ wpc[w] = "idle" /\ HostOf[w] \notin stopping
    /\ \E j \in Jobs : Pop(j) /\ wjob' = [wjob EXCEPT ![w] = j]
    /\ wpc' = [wpc EXCEPT ![w] = "popped"]
    /\ NoFault
    /\ UNCHANGED <<jobVars, attemptNo, kept, stopping, adminVars>>

DequeueRecord(w) ==
    /\ Goto(w, "popped", "slot")
    /\ RecordInflight(wjob[w])
    /\ NoFault
    /\ UNCHANGED <<jobVars, attemptNo, kept, stopping, adminVars>>

\* The reply of BRPOP is lost, and with it the message.
DequeueLost(w) ==
    /\ wpc[w] = "idle" /\ HostOf[w] \notin stopping
    /\ \E j \in Jobs : Pop(j)
    /\ Fault("redis")
    /\ UNCHANGED <<jobVars, threadVars, stopping, adminVars>>

\* HSET raises, or get_metrics after it: the exception reaches
\* _single_thread_loop.
DequeueRaises(w) ==
    /\ Finish(w, "popped")
    /\ Fault("redis")
    /\ Unanswered(RecordInflight(wjob[w]))
    /\ UNCHANGED <<jobVars, stopping, adminVars>>

\* Threads of w's process that hold a slot of the semaphore.
Holders(w) == {v \in Workers : HostOf[v] = HostOf[w] /\ wpc[v] \notin {"idle", "popped", "slot"}}
SlotFree(w) == Slots = 0 \/ Cardinality(Holders(w)) < Slots

AcquireSlot(w) ==
    /\ SlotFree(w)
    /\ Goto(w, "slot", "claim")
    /\ NoFault
    /\ UNCHANGED <<queueVars, jobVars, attemptNo, kept, stopping, adminVars>>

\* Mutant of StopRequeue: the message is acknowledged on the way out.
StopAck(w) ==
    /\ ~SlotFree(w) /\ HostOf[w] \in stopping
    /\ Finish(w, "slot")
    /\ RemoveInflight(wjob[w])
    /\ NoFault
    /\ UNCHANGED <<jobVars, stopping, adminVars>>

\* _STOP while waiting: the message is put back, its entry stays.
StopRequeue(w) ==
    /\ ~SlotFree(w) /\ HostOf[w] \in stopping
    /\ Finish(w, "slot")
    /\ Enqueue(wjob[w]) \/ (Saturated /\ UNCHANGED queueVars)
    /\ NoFault
    /\ UNCHANGED <<jobVars, stopping, adminVars>>

\* The enqueue raises or is executed twice; the in-flight entry stays.
StopRequeueRaises(w) ==
    /\ ~SlotFree(w) /\ HostOf[w] \in stopping
    /\ Finish(w, "slot")
    /\ UNCHANGED queueVars \/ EnqueueTwice(wjob[w])
    /\ Fault("requeue")
    /\ UNCHANGED <<jobVars, stopping, adminVars>>

\* Mutant of ClaimJob: the filter on the status is dropped.
ClaimAny(w, j) == Goto(w, "claim", "start") /\ SetStatus(j, "running")

\* UPDATE ... SET status = 'running' WHERE id = j AND status = 'pending'.
ClaimJob(w, j) ==
    /\ Goto(w, "claim", "start")
    /\ status[j] = "pending"
    /\ SetStatus(j, "running")

\* No row was updated: the message is acknowledged.
ClaimMissed(w, j) ==
    /\ Goto(w, "claim", "ack")
    /\ status[j] # "pending"
    /\ UNCHANGED status

Claim(w) ==
    /\ ClaimJob(w, wjob[w]) \/ ClaimMissed(w, wjob[w])
    /\ NoFault
    /\ UNCHANGED <<queueVars, attempts, sub, attemptNo, kept, stopping, adminVars>>

\* The UPDATE or its commit raises, executed or not: False, so the message is
\* acknowledged all the same.
ClaimFails(w) ==
    /\ Goto(w, "claim", "ack")
    /\ Fault("db")
    /\ \/ status[wjob[w]] = "pending" /\ SetStatus(wjob[w], "running")
       \/ UNCHANGED status
    /\ UNCHANGED <<queueVars, attempts, sub, attemptNo, kept, stopping, adminVars>>

-----------------------------------------------------------------------------
(* _execute_job_inline.                                                    *)

\* The attempt is numbered; the write reaches the database now only if the
\* started event is emitted, which commits the session.
StartAttempt(w) ==
    LET j == wjob[w] IN
    /\ Goto(w, "start", "run")
    /\ attemptNo' = [attemptNo EXCEPT ![w] = attempts[j] + 1]
    /\ \/ /\ SetStatus(j, "running")
          /\ attempts' = [attempts EXCEPT ![j] = @ + 1]
       \/ UNCHANGED <<status, attempts>>
    /\ NoFault
    /\ UNCHANGED <<queueVars, sub, kept, stopping, adminVars>>

\* _fetch_job_data, or the root event ahead of the try, raises: the exception
\* reaches process_one_job.
StartFails(w) ==
    /\ Goto(w, "start", "hget")
    /\ Fault("db")
    /\ UNCHANGED <<queueVars, jobVars, attemptNo, kept, stopping, adminVars>>

\* The handler returns and the row is committed.
Succeed(w) ==
    LET j == wjob[w] IN
    /\ Goto(w, "run", "refresh")
    /\ SetStatus(j, "success")
    /\ attempts' = [attempts EXCEPT ![j] = attemptNo[w]]
    /\ NoFault
    /\ UNCHANGED <<queueVars, sub, attemptNo, kept, stopping, adminVars>>

Refresh(w) ==
    /\ Goto(w, "refresh", "ack")
    /\ NoFault
    /\ UNCHANGED <<queueVars, jobVars, attemptNo, kept, stopping, adminVars>>

\* attempt_count once the except branch has corrected it (the rollback may
\* have undone the increment of this attempt).
Counted(w) ==
    IF attempts[wjob[w]] < attemptNo[w] THEN attemptNo[w] ELSE attempts[wjob[w]]

\* Mutant of RetryAllowed: one attempt too many.
RetryAllowedOnceMore(w) == Counted(w) <= MaxAttempts

RetryAllowed(w) == Counted(w) < MaxAttempts

\* Mutant of Reschedule: the row is pending again but nothing is dispatched.
RescheduleOnly(w, a) ==
    /\ Goto(w, a, "ack")
    /\ RetryAllowed(w)
    /\ SetStatus(wjob[w], "pending")

\* The except branch with attempts left: pending is committed, then the
\* retry is scheduled.
Reschedule(w, a) ==
    /\ Goto(w, a, "retry")
    /\ RetryAllowed(w)
    /\ SetStatus(wjob[w], "pending")

\* The except branch with none left, or for a terminal error.
GiveUp(w, a) ==
    /\ Goto(w, a, "ack")
    /\ SetStatus(wjob[w], "failed")

CountAttempt(w) == attempts' = [attempts EXCEPT ![wjob[w]] = Counted(w)]

AttemptFails(w, a) ==
    /\ Reschedule(w, a) \/ GiveUp(w, a)
    /\ CountAttempt(w)
    /\ UNCHANGED <<queueVars, sub, attemptNo, kept, stopping, adminVars>>

HandlerRaises(w) == AttemptFails(w, "run") /\ NoFault

\* The query of the row raises inside the try, with attempt_no still 0.
QueryRaises(w) == AttemptFails(w, "start") /\ Fault("db")

\* db.refresh raises after the success was committed, or its commit does: the
\* attempt is handled as a failed one.
RefreshRaises(w) == AttemptFails(w, "refresh") /\ Fault("db")

\* The except branch raises itself (emit_error_event, a commit): the exception
\* reaches process_one_job, and what the branch wrote was committed, by an
\* earlier emit or by the commit that raised, or was not.
FailureBranchRaises(w) ==
    /\ \E a \in {"start", "run", "refresh"} : Goto(w, a, "hget")
    /\ Fault("db")
    /\ \/ /\ \/ SetStatus(wjob[w], "failed")
             \/ RetryAllowed(w) /\ SetStatus(wjob[w], "pending")
          /\ CountAttempt(w)
       \/ UNCHANGED <<status, attempts>>
    /\ UNCHANGED <<queueVars, sub, attemptNo, kept, stopping, adminVars>>

\* _schedule_job_retry.
ScheduleRetry(w) ==
    /\ Goto(w, "retry", "ack")
    /\ EnqueueDelayed(wjob[w])
    /\ NoFault
    /\ UNCHANGED <<jobVars, attemptNo, kept, stopping, adminVars>>

\* The queue is full: the exception reaches process_one_job.
ScheduleRetryRefused(w) ==
    /\ Goto(w, "retry", "hget")
    /\ Saturated
    /\ NoFault
    /\ UNCHANGED <<queueVars, jobVars, attemptNo, kept, stopping, adminVars>>

\* The enqueue raises, executed or not (a second ZADD finds the member of the
\* first), and so does process_one_job.
ScheduleRetryRaises(w) ==
    /\ Goto(w, "retry", "hget")
    /\ Unanswered(EnqueueDelayed(wjob[w]))
    /\ Fault("redis")
    /\ UNCHANGED <<jobVars, attemptNo, kept, stopping, adminVars>>

-----------------------------------------------------------------------------
(* ack and fail.                                                           *)

Ack(w) ==
    /\ Finish(w, "ack")
    /\ RemoveInflight(wjob[w])
    /\ NoFault
    /\ UNCHANGED <<jobVars, stopping, adminVars>>

\* HDEL raises inside the try, executed or not: the job is dead-lettered.
AckRaises(w) ==
    /\ Goto(w, "ack", "hget")
    /\ Unanswered(RemoveInflight(wjob[w]))
    /\ Fault("redis")
    /\ UNCHANGED <<jobVars, attemptNo, kept, stopping, adminVars>>

FailHget(w) ==
    /\ Goto(w, "hget", "hdel")
    /\ kept' = IF inflight[wjob[w]] = "none" THEN kept ELSE kept \cup {w}
    /\ NoFault
    /\ UNCHANGED <<queueVars, jobVars, attemptNo, stopping, adminVars>>

FailHdel(w) ==
    /\ Goto(w, "hdel", "push")
    /\ RemoveInflight(wjob[w])
    /\ NoFault
    /\ UNCHANGED <<jobVars, attemptNo, kept, stopping, adminVars>>

PayloadOf(w) == IF w \in kept THEN "kept" ELSE "missing"

FailPush(w) ==
    /\ Finish(w, "push")
    /\ PushDeadLetter(wjob[w], PayloadOf(w))
    /\ NoFault
    /\ UNCHANGED <<jobVars, stopping, adminVars>>

\* A command of fail() raises, executed or not, and the exception reaches
\* _single_thread_loop; or the letter is pushed twice.
FailRaises(w) ==
    /\ \/ Finish(w, "hget") /\ UNCHANGED queueVars
       \/ Finish(w, "hdel") /\ Unanswered(RemoveInflight(wjob[w]))
       \/ Finish(w, "push") /\ Unanswered(PushDeadLetterTwice(wjob[w], PayloadOf(w)))
    /\ Fault("redis")
    /\ UNCHANGED <<jobVars, stopping, adminVars>>

WorkerStep(w) ==
    \/ Dequeue(w) \/ DequeueRecord(w) \/ AcquireSlot(w) \/ StopRequeue(w)
    \/ Claim(w) \/ StartAttempt(w) \/ Succeed(w) \/ Refresh(w) \/ HandlerRaises(w)
    \/ ScheduleRetry(w) \/ ScheduleRetryRefused(w)
    \/ Ack(w) \/ FailHget(w) \/ FailHdel(w) \/ FailPush(w)

WorkerError(w) ==
    \/ DequeueLost(w) \/ DequeueRaises(w) \/ StopRequeueRaises(w)
    \/ ClaimFails(w) \/ StartFails(w) \/ QueryRaises(w) \/ RefreshRaises(w)
    \/ FailureBranchRaises(w) \/ ScheduleRetryRaises(w) \/ AckRaises(w)
    \/ FailRaises(w)

-----------------------------------------------------------------------------
(* Processes: SIGTERM, exit, death.  A process that is gone is restarted.  *)

Threads(h) == {w \in Workers : HostOf[w] = h}

Stop(h) ==
    /\ h \notin stopping
    /\ stopping' = stopping \cup {h}
    /\ Fault("stop")
    /\ UNCHANGED <<queueVars, jobVars, threadVars, adminVars>>

\* The process is gone, and its daemon threads with it.
Gone(h) ==
    /\ wpc' = [w \in Workers |-> IF w \in Threads(h) THEN "idle" ELSE wpc[w]]
    /\ wjob' = [w \in Workers |-> IF w \in Threads(h) THEN NoJob ELSE wjob[w]]
    /\ attemptNo' = [w \in Workers |-> IF w \in Threads(h) THEN 0 ELSE attemptNo[w]]
    /\ kept' = kept \ Threads(h)
    /\ stopping' = stopping \ {h}
    /\ RecovererDies(h)
    /\ UNCHANGED <<jobVars, adminVars>>

\* With a concurrency of 1 the loop runs in the main thread, which nothing
\* interrupts; otherwise every thread is joined for ten seconds.
Joined(h) == Cardinality(Threads(h)) > 1

\* All threads have left their loop, or are in a handler that outlasts the join.
Exit(h) ==
    /\ h \in stopping
    /\ \A w \in Threads(h) : wpc[w] = "idle" \/ (Joined(h) /\ wpc[w] = "run")
    /\ snapshot[h] = {} /\ removed[h] = NoJob
    /\ Gone(h)
    /\ NoFault

\* The joins give up on a thread, or on the recovery thread, wherever it is.
ExitTimesOut(h) ==
    /\ h \in stopping
    /\ ~Joined(h) => \A w \in Threads(h) : wpc[w] = "idle"
    /\ Gone(h)
    /\ Fault("slow")

\* Nothing of process h is between two Redis commands that move a message.
Settled(h) == removed[h] = NoJob /\ \A w \in Threads(h) : wpc[w] \notin {"popped", "push"}

Die(h) ==
    /\ Gone(h)
    /\ Fault("crash") \/ (Settled(h) /\ Fault("late"))

-----------------------------------------------------------------------------
(* The rest of the deployment.                                             *)

\* The leader's _process_queue_delayed_jobs.
Promote(j) ==
    /\ PromoteDelayed(j)
    /\ NoFault
    /\ UNCHANGED <<jobVars, threadVars, stopping, adminVars>>

VisibilityTimeout(j) ==
    /\ Expire(j)
    /\ NoFault
    /\ UNCHANGED <<jobVars, threadVars, stopping, adminVars>>

\* _run_stale_recovery leaves its loop once _STOP is set.
Recover(h) ==
    /\ h \in stopping => snapshot[h] # {} \/ removed[h] # NoJob
    /\ RecoverStep(h)
    /\ NoFault
    /\ UNCHANGED <<jobVars, threadVars, stopping, adminVars>>

RecoverError(h) ==
    /\ RemoveStaleReplyLost(h) \/ PushStaleFails(h)
    /\ Fault("redis")
    /\ UNCHANGED <<jobVars, threadVars, stopping, adminVars>>

Operator ==
    /\ OperatorStep
    /\ Fault("operator")
    /\ UNCHANGED <<jobVars, threadVars, stopping, adminVars>>

\* drain_dead_letters(requeue=True): LRANGE, LTRIM, then one enqueue each.
DrainPeek ==
    /\ drainPc = "idle" /\ dlq # <<>>
    /\ drain' = SubSeq(dlq, 1, IF Len(dlq) < DrainLimit THEN Len(dlq) ELSE DrainLimit)
    /\ drainPc' = "trim"
    /\ "operator" \in Faults /\ NoFault
    /\ UNCHANGED <<queueVars, jobVars, threadVars, stopping, cleaning>>

DrainTrim ==
    /\ drainPc = "trim"
    /\ dlq' = SubSeq(dlq, DrainLimit + 1, Len(dlq))
    /\ drainPc' = "enqueue"
    /\ NoFault
    /\ UNCHANGED <<queue, delayed, inflight, recoverVars, jobVars, threadVars,
                   stopping, drain, cleaning>>

\* A letter without payload, or a full queue, is an error string: the letter is gone.
DrainEnqueue ==
    /\ drainPc = "enqueue" /\ drain # <<>>
    /\ drain' = Tail(drain)
    /\ IF Head(drain).payload = "kept" /\ ~Saturated
       THEN Enqueue(Head(drain).job)
       ELSE UNCHANGED queueVars
    /\ NoFault
    /\ UNCHANGED <<jobVars, threadVars, stopping, drainPc, cleaning>>

\* LTRIM raises, executed or not, and ends the drain.
DrainTrimRaises ==
    /\ drainPc = "trim"
    /\ dlq' = SubSeq(dlq, DrainLimit + 1, Len(dlq)) \/ UNCHANGED dlq
    /\ drain' = <<>> /\ drainPc' = "idle"
    /\ Fault("redis")
    /\ UNCHANGED <<queue, delayed, inflight, recoverVars, jobVars, threadVars,
                   stopping, cleaning>>

\* The reply of LTRIM is lost and the retry trims as many letters again.
DrainTrimTwice ==
    /\ drainPc = "trim"
    /\ dlq' = SubSeq(dlq, 2 * DrainLimit + 1, Len(dlq))
    /\ drainPc' = "enqueue"
    /\ Fault("redis")
    /\ UNCHANGED <<queue, delayed, inflight, recoverVars, jobVars, threadVars,
                   stopping, drain, cleaning>>

\* An enqueue of the drain or of a replay raises without effect, which is an
\* error string, or is executed twice.
DrainEnqueueRaises ==
    /\ drainPc = "enqueue" /\ drain # <<>>
    /\ drain' = Tail(drain)
    /\ \/ Head(drain).payload = "kept" /\ EnqueueTwice(Head(drain).job)
       \/ UNCHANGED queueVars
    /\ Fault("redis")
    /\ UNCHANGED <<jobVars, threadVars, stopping, drainPc, cleaning>>

ReplayTwice(j) ==
    /\ Replayable(j)
    /\ EnqueueTwice(j)
    /\ Fault("redis")
    /\ UNCHANGED <<jobVars, threadVars, stopping, adminVars>>

DrainEnd ==
    /\ drainPc = "enqueue" /\ drain = <<>>
    /\ drainPc' = "idle"
    /\ NoFault
    /\ UNCHANGED <<queueVars, jobVars, threadVars, stopping, drain, cleaning>>

\* _cleanup_stale_logs: SELECT the pending rows that are old enough ...
CleanupSelect ==
    /\ cleaning = {}
    /\ \E S \in SUBSET {j \in Jobs : status[j] = "pending"} :
          S # {} /\ cleaning' = S
    /\ Fault("cleanup")
    /\ UNCHANGED <<queueVars, jobVars, threadVars, stopping, drain, drainPc>>

\* ... and write them failed, by id.
CleanupCommit ==
    /\ cleaning # {}
    /\ status' = [j \in Jobs |-> IF j \in cleaning THEN "failed" ELSE status[j]]
    /\ cleaning' = {}
    /\ NoFault
    /\ UNCHANGED <<queueVars, attempts, sub, threadVars, stopping, drain, drainPc>>

\* The commit raises without effect: rollback.
CleanupFails ==
    /\ cleaning # {}
    /\ cleaning' = {}
    /\ Fault("db")
    /\ UNCHANGED <<queueVars, jobVars, threadVars, stopping, drain, drainPc>>

Drain == DrainPeek \/ DrainTrim \/ DrainEnqueue \/ DrainEnd
Cleanup == CleanupSelect \/ CleanupCommit

AdminError ==
    \/ DrainTrimRaises \/ DrainTrimTwice \/ DrainEnqueueRaises \/ CleanupFails
    \/ \E j \in Jobs : ReplayTwice(j)

-----------------------------------------------------------------------------
Next ==
    \/ \E j \in Jobs : SubmitStep(j) \/ SubmitError(j) \/ Promote(j) \/ VisibilityTimeout(j)
    \/ \E w \in Workers : WorkerStep(w) \/ WorkerError(w)
    \/ \E h \in Hosts : \/ Stop(h) \/ Exit(h) \/ ExitTimesOut(h) \/ Die(h)
                        \/ Recover(h) \/ RecoverError(h)
    \/ Operator \/ Drain \/ Cleanup \/ AdminError

Spec == Init /\ [][Next]_vars

\* Every thread that can go on does, the leader promotes what is due, the
\* visibility timeout elapses and the stale-recovery threads keep scanning.
Fairness ==
    /\ \A j \in Jobs : WF_vars(SubmitEnqueue(j) \/ SubmitRefused(j) \/ SubmitAbort(j))
    /\ \A j \in Jobs : WF_vars(Promote(j)) /\ WF_vars(VisibilityTimeout(j))
    /\ \A w \in Workers : WF_vars(WorkerStep(w))
    /\ \A h \in Hosts : WF_vars(Exit(h)) /\ WF_vars(Recover(h))

FairSpec == Spec /\ Fairness

-----------------------------------------------------------------------------
(* Properties.                                                             *)

Executing(w) == wpc[w] \in {"start", "run"}
Holds(w, j) == wjob[w] = j /\ wpc[w] \in {"popped", "slot", "claim", "retry"}

\* No two threads execute the handler of one job at the same time, whatever
\* is redelivered, replayed or retried: the claim in _try_claim_job is the
\* guard the worker's header relies on.
HandlerExclusive ==
    \A v, w \in Workers : v # w /\ Executing(v) /\ Executing(w) => wjob[v] # wjob[w]

\* A job is never started more than max_attempts times, duplicates, crashes
\* and dead letter replays included (_execute_job_inline's attempt_no).
AttemptsBounded ==
    /\ \A j \in Jobs : attempts[j] <= MaxAttempts
    /\ \A w \in Workers : attemptNo[w] <= MaxAttempts

\* A submitted job whose row is pending has a message somewhere that will
\* bring it to a worker: nothing between the row's commit and its claim drops it.
PendingIsDeliverable ==
    \A j \in Jobs :
        status[j] = "pending" /\ sub[j] = "done" =>
            InRedis(j) \/ \E w \in Workers : Holds(w, j)

\* Messages of j, wherever they are, entries of the in-flight hash included.
Copies(j) ==
    Cardinality({i \in 1..Len(queue) : queue[i] = j}) + delayed[j]
    + Cardinality({h \in Hosts : removed[h] = j})
    + Cardinality({w \in Workers : wjob[w] = j /\ wpc[w] = "popped"})
    + (IF inflight[j] = "none" THEN 0 ELSE 1)

\* Redelivery does not multiply messages: besides the one that was submitted
\* there is at most one per attempt that was started (its retry), however many
\* recovery threads scan the same stale entry.  It is said of a deployment
\* without slots whose Redis answers: a worker that stops while it waits for a
\* slot puts a copy back, and so does an enqueue that is executed twice.
RedeliveryBounded == \A j \in Jobs : Copies(j) <= 1 + attempts[j]

\* A committed success is not taken back by redelivery: a second message of a
\* finished job does not run it again.  It is said of a database that answers
\* and of rows the clean-up job has not selected: RefreshRaises and
\* CleanupCommit overwrite a success.
SuccessIsFinal ==
    [][\A j \in Jobs : status[j] = "success" => status'[j] = "success"]_vars

\* Every submitted job ends: it succeeds, or it is reported failed.
JobEnds ==
    \A j \in Jobs : sub[j] = "done" ~> status[j] \in {"success", "failed"}

\* fail() preserves the payload in the dead letter.
DeadLettersReplayable == \A i \in 1..Len(dlq) : dlq[i].payload = "kept"

\* The stale-recovery threads own the recovery of a job whose worker died:
\* a running row is eventually finished, failed or offered again.
RunningIsRecovered ==
    \A j \in Jobs : status[j] = "running" ~> status[j] # "running"
=============================================================================
