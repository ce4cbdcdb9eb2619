# Verification of the A.I.N.D.Y. runtime

TLA+ specifications of the concurrent protocols of the runtime in `src/AINDY`,
TLC configurations that check them on small instances, and TLAPS proofs of
their main properties for every value of the constants. `PROJECT.json` ties
every definition to the lines it models and lists the runs, the mutants that
show that each property can fail, the hazards and the theorems.

## 1. The system

Several processes share one PostgreSQL database and one Redis server: API
processes, which accept requests and run a background scheduler, and worker
processes, which execute queued jobs.

| Part | State | Operations | What is hard |
|---|---|---|---|
| Leadership (`platform_layer/leadership.py`) | one lease row; `_hold`, `_is_leader` per process | claim, renew, take over, release, fence check | stale clock readings, skew, pauses, database errors, crash, shutdown order |
| Leader-only jobs (`scheduler_service.py`, `async_job_service.py`) | deferred job rows, APScheduler | the deferred scan and other periodic jobs | a deposed leader in the middle of a scan |
| Job queue (`core/distributed_queue.py`) | list, delayed set, in-flight hash, dead letters | enqueue, dequeue, ack, fail, promote, stale recovery, dead letter operations | two commands per operation, lost replies, redelivery, capacity |
| Workers (`worker/worker_loop.py`) and job service (`async_job_service.py`) | job row, attempt count, threads, slots | submit, claim, execute, retry, ack, stop | late workers, retries, crash anywhere |
| Wait/resume (`kernel/scheduler/*`, `core/flow_run_rehydration.py`) | waits in memory, in Redis and in the database; resume queues | register, notify, tick, rehydrate, cross-instance resume | three copies of one wait, several instances |
| Flow runs (`runtime/flow_engine/*`, `recovery_jobs.py`, `stuck_run_service.py`, `execution_unit_service.py`) | status of a run, of its unit and its checkpoints | execute, park, resume, expire, recover | scans that race with the runner |
| Effect ledger (`kernel/effect_ledger.py`) | one row per effect, advisory lock | resolve, complete, reconcile | a slow writer whose slot is reclaimed |
| Circuit breaker, resource manager (`kernel/*`) | state, probe, counters | enter, succeed, fail; admit, start, release | late outcomes, check-then-act |
| Agents, memory, Nodus, extensions, routes | mostly rows written by one request | | sequential or pure I/O for the most part |

The parts meet at two places that the models keep: the leader's scheduler
promotes delayed jobs and cleans up old job rows, and the deferred scan hands
jobs to the dispatcher.

## 2. Modules

| Module | Models |
|---|---|
| `BackgroundLease` | the lease row, the elector thread of every process, the fence |
| `LeaderJobs` (extends it) | `process_deferred_jobs` as every process's scheduler runs it |
| `RedisQueue` | every Redis command of the queue backend that changes state |
| `WorkerLoop` (extends it) | submission, worker threads, processes, stale recovery, drain of dead letters, clean-up |
| `MCBackgroundLease`, `MCLeaderJobs`, `MCWorkerLoop` | instances for TLC |
| `LeaseProofs`, `LeaseExclusionProofs`, `LeaseTimeProofs` | types and fence; leaders do not overlap; what a punctual process can rely on |
| `LeaderJobsProofs` | the composition implements the lease; checked dispatches |
| `QueueProofs`, `WorkerJobProofs`, `WorkerLoopProofs` | types of the queue; the inductive invariant step by step; the theorems |

### BackgroundLease

`lease` is the row (`NoLease` when absent), `hold` and `is_leader` are the
fields of the elector, `pc` is the position of its thread and `life` that of the
thread that starts and stops it. The first round runs in the starting thread,
the others in the loop (`EnterLoop`). A round is
`ReadClock` (the `now` that `claim_lease` computes *before* it waits for the row
lock), then one of `ClaimAbsent`/`Insert`/`InsertRaceLost`, `Renew`, `TakeOver`,
`Refused` or `ClaimFails`, then `Apply*` (the call-backs that start and stop the
scheduler) and the wait for the next round. `StandDown` is the end of
`shutdown(wait=True)`. Orderly shutdown is `StopElector` (at any point of a
round), `Join` or `JoinTimesOut`, `ReleaseLease`, `ReleaseFails` or
`NothingToRelease`, `ForgetLeadership`, and `StopScheduler`, in the order of
`stop()` and `startup.py`. The elector thread goes on with its round meanwhile
and leaves the loop at its end (`LeaveLoop`); after `JoinTimesOut` it may claim
the row and call `_apply(True)` in a process that has already released it.
`ClaimFails` and `ReleaseFails` raise with or without effect on the row. `Crash`
may happen anywhere. A job reads the fence (`ReadFence`), checks it
(`AssertLeaseFence`, `FenceRefused`, or `FenceSkipped` without a fence) and
holds the row FOR SHARE (`shared`) until `EndTransaction`.

Time is the counter `now`; each process reads a clock with a fixed offset of at
most `Skew`. A process in the history variable `onTime` has ended its last round
in the instant in which it read the clock and has not stalled since; time cannot
pass its next round. Every other process is arbitrarily slow, so pauses need no
parameter.

### LeaderJobs

The scan selects a set of due rows once and then decides on each: ignore, defer
or dispatch. A dispatch is fence, check, commit as `pending`, hand over. Only
the dispatch write is fenced, as in the code. `JobRaises` closes the session at
any point. `SpecPunctual`, `SpecNoRelease`, `SpecOrderly` differ in what the
processes may do: keep their schedule and crash; also pause and meet database
errors; keep their schedule, crash and shut down promptly. `stop()`
of the scheduler waits for running jobs only as long as its budget lasts, so
`StopScheduler` may happen in the middle of a scan (`ShutdownStep`).

### RedisQueue and WorkerLoop

A Redis command, and a Lua script, is one action; operations of several commands
are several actions. A message is the id of its job, because the worker reads
everything else from the row. The in-flight entry is `none`, `fresh` or `stale`;
`Expire` is the visibility timeout, which may strike at any time.

A thread goes through `wpc`: `popped` (between BRPOP and HSET), `slot`, `claim`,
`start`, `run`, `refresh`, `retry`, then `ack`, or `hget`, `hdel`, `push` of
`fail()`. A database transaction is one action: the claim is the conditional
UPDATE, and a retry commits `pending` before it is enqueued. `StartAttempt`
leaves open whether the started event commits the attempt number.
`Faults` names the failures a behaviour may meet and `MaxFaults` how many:

| Fault | Steps |
|---|---|
| `stop` | SIGTERM; the process exits when its threads have ended |
| `slow` | the joins of a stopping process time out and it exits with work in hand |
| `crash`, `late` | a process dies anywhere; `late` only with every message settled in Redis or claimed |
| `requeue` | the enqueue that puts a message back, for want of a slot, fails or is executed twice |
| `redis` | any other command fails, is executed with its reply lost, or is executed twice by the retry of `_redis_retry` |
| `db` | a statement or commit fails, or a commit takes effect and raises |
| `cleanup` | the clean-up of old pending rows |
| `operator` | drain, replay or deletion of dead letters |

Without faults, handlers still fail, queues still fill and visibility timeouts
still strike.

## 3. Runs

Passing runs:

| Run | Instance | Shows |
|---|---|---|
| `lease` | 2 processes, TTL 2, heartbeat 1, time 0..3; crashes, pauses, errors, shutdowns with joins that time out and releases that fail | types; of the processes that have not been told to stop at most one leads on a hold that no clock can call expired; a process that keeps its heartbeat owns the row it leads on |
| `jobs_punctual` | 2 processes, 1 row, TTL 4, heartbeat 1, skew 1, time 0..6 | at most one process acts as leader, a leader is not deposed, no row is dispatched twice, none is ignored after its dispatch |
| `jobs_no_release` | 2 processes, 1 row, TTL 2, time 0..4; crashes, pauses, errors | the fence names one tenure, no takeover commits under a checked transaction, failover is bounded, a checked dispatch is the owner's |
| `worker_nominal` | 1 job, 2 processes of one thread, 2 attempts, one SIGTERM, with fairness | a pending job always has a message (in Redis or in the hands of a thread), redelivery does not multiply messages, a success is final, every job ends |
| `worker_shared` | 2 jobs of one attempt, 2 threads of one process with one slot, capacity 1, any two of SIGTERM and failed requeue | a refused submission is reported failed, and a message whose thread waits for a slot survives the stop |
| `worker_faults` | 1 job, 2 processes, 2 attempts, any two faults of any kind | types; one handler at a time; at most `max_attempts` attempts |

Runs that show a disagreement between the code and what it says of itself:

| Run | Counterexample |
|---|---|
| `fence_reuse` | `release_lease` deletes the row and the next claim inserts it with fence 1, so a job that had read fence 1 passes the check under the next owner |
| `stale_dispatch` | a refused claim clears the hold, so a job that still runs reads no fence, its check is skipped, and its write commits after the takeover |
| `orderly_shutdown` | the lease is released before the scheduler stops, so two processes run leader-only jobs |
| `late_ack` | `ack` deletes the entry by job id: a late ack removes the entry of the next delivery, whose worker then dies |
| `late_fail` | `fail` takes the payload from an entry that is already gone and writes a dead letter that cannot be replayed |
| `crash_running` | after a crash the row is `running`, so the redelivered message fails the claim and is acknowledged: the row stays `running` |

`LeaseExclusive` leaves out a process that has been told to stop. Its round may
outlast the join of `stop()`; the lease is then released, another process inserts
the row, and the late round still calls `_apply(True)`. `orderly_shutdown` shows
two acting leaders even when every join succeeds.

`PendingIsDeliverable` is checked where no retry can be refused: with a full queue
a refused retry leaves a pending row with a dead letter only (`late_fail` reaches
this state).

Deadlock is not checked: the lease modules end when the model's clock does, and
a queue with all jobs finished is at rest. `JobEnds` covers what a deadlock check
would be for in the queue.

### Bounds

- Two processes suffice for every race over one row: one owner and one claimant.
  The proofs remove the bound.
- `MaxTime` leaves room for a tenure to be claimed, to expire and to be taken
  over (TTL 2, time 4; time 3 in `lease`, where shutdowns multiply the states),
  and with skew for one renewal as well (TTL 4, time 6).
  TTL and heartbeat keep the code's relation, `HB + 2 * Skew < TTL` (60 s
  against 20 s).
- One job and two threads are enough for late, duplicated and recovered
  deliveries, because jobs interact only through the capacity and the slots;
  two jobs are used where those are the subject.
- Two attempts are the least with a retry; two faults are the least for a fault
  in the handling of a fault.
- Processes in `lease`, and worker processes with their threads in
  `worker_faults` and `worker_shared`, are interchangeable: no definition names one
  of them, so the symmetry is sound. Runs with liveness use none.
- `dispatched` counts to 2, which stands for twice or more.

### Fairness

`FairSpec` assumes weak fairness of every worker thread, of the submitting
request once the row exists, of the exit of a stopping process, of the leader's
promotion, of the stale-recovery threads and of the visibility timeout. All but
the last are loops that the code never leaves before `_STOP`, on threads that the
operating system schedules; the last is the clock, which makes every in-flight
entry old if nobody removes it. Without it `RunningIsRecovered` would fail for the
trivial reason that the entry of a dead worker never becomes stale. No fairness is
assumed of submissions, faults or the operator.

`JobEnds` is checked with one thread per process. With fewer slots than threads
a thread that waits for a slot may lose every race for it while its message is
redelivered again and again, and weak fairness does not exclude that;
`worker_shared` therefore checks safety only.

## 4. Proofs

Assumptions on the constants are `LeaseConstants`, `TTLIsWide`, `LogConstants`,
`QueueConstants` and `WorkerConstants`; TLC evaluates them in the runs. Nothing
is assumed about the number of processes, threads, jobs or faults.

| Theorem | Statement | Argument |
|---|---|---|
| `LeaseTypeCorrect` | `LeaseSpec => []LeaseTypeOK` | inductive as it stands |
| `FenceSound` | `LeaseSpecNoRelease => []` of the fence properties | `FenceInv`: no hold and no expected fence is above the row's, and one that equals it belongs to the owner. The fence moves exactly when the owner does, and a claim waits for `shared` |
| `LeaseIsExclusive` | `LeaseSpec => []LeaseExclusive` | `ExclusiveInv`: a process that is not stopping and whose hold is live owns the row, and the row expires no earlier than the hold; `ReadingsPast` (a reading is never ahead of `now + Skew`) makes `Lapsed` false for such a row, and only its owner deletes it. `HoldPast` bounds a hold by the reading of its claim, so that a claim that commits and raises, or a renewal, moves the row's expiry forward only. Every kind of shutdown of other processes is included |
| `PunctualLeaderKeepsLease` | `LeaseSpec => []PunctualLeaderOwns` | `PunctualInv`: the row of a punctual leader outlasts its next round by `TTL - HB - Skew`, which exceeds `Skew` by `TTLIsWide`, so no other clock sees it lapsed |
| `FailoverIsBounded` | `LeaseSpecNoRelease => []FailoverBound` | `FailoverInv`: the expiry is tied to the next round of every punctual process. A released row is absent until the next round, so orderly shutdown is excluded |
| `JobsImplementLease` | `SpecNoRelease => LeaseSpecNoRelease` | every step of the composition is a step of the lease or leaves it alone; the lease theorems carry over |
| `CheckedDispatchIsOwners` | `SpecNoRelease => CheckedDispatchByOwner` | between the check and the commit the job is in `shared`; then `FenceSound` |
| `WorkerTypeCorrect`, `HandlerIsExclusive`, `AttemptsAreBounded` | `Spec => []` of the property, for every set of faults | the invariant below |

`HandlerExclusive` and `AttemptsBounded` are not inductive. `IInv` adds that a
thread past its claim works on a row that is not pending (`ActiveNotPending`), so
that the conditional UPDATE cannot let a second one in, up to and including the
refresh after a success (`ActiveExclusive`), and that a pending row and a claimed
one that has not been numbered have an attempt left (`AttemptsLeft`).
`CleaningSubmitted` and `NewIsAbsent` say that the submission creates the row and
that the clean-up cannot write one that does not exist. The actions are grouped by
what they do to a job (`PassiveStep`, `FinishStep`, `ClaimStep`, `LostClaimStep`
for a claim that commits and raises, `OwnerStep`), one lemma each. A process that
goes, by exit, death or after joins that time out, drops its threads' positions and
touches no row (`GoneKeepsJobs`).

Only model-checked:

- `JobEnds` and `RunningIsRecovered`: liveness under fairness is beyond the prover.
- `PendingIsDeliverable`, `RedeliveryBounded` and `SuccessIsFinal`: they hold for
  restricted faults only, and `RedeliveryBounded` counts over a sequence.
- `OneActingLeader`, `DispatchedAtMostOnce` and `DispatchedNotIgnored`: they hold
  while all processes are punctual; the proof is planned.

## 5. Not modelled

- In the queue: the client-side circuit breaker, metrics, the heartbeat key, and
  resume messages. The in-memory backend and thread mode.
- In the job service: admission limits and the decision to defer a submission.
- In the scheduler: periodic jobs other than the deferred scan, the promotion of
  delayed jobs and the clean-up of old rows.
- Four windows are steps of the models but no property covers them: a round that
  outlasts the join leads in a process that shuts down; a death or a lost reply
  between BRPOP and HSET, or between HDEL and LPUSH, loses the message; a recovery thread with an old
  snapshot may delete the entry of a newer delivery, which only redelivers it
  early; the clean-up overwrites a row that was claimed after it was selected.
- Everything else in the table of section 1; `PROJECT.json` gives the reason
  for each part. Providers, telemetry, schemas and routes are I/O or data.

## 6. Plan

In this order, each with its instances, mutants and proofs:

1. `WaitSpec`: one wait as an abstract machine (parked, woken at most once, never
   lost while its event or deadline comes). `WaitScheduler`: memory, Redis
   registry and backup rows of several instances, with rehydration, cross-instance
   resume and ticks, shown to implement it.
2. `FlowRun`: statuses of a run and of its execution unit under the runner, the
   resume claim, expiry and the recovery of stuck runs, composed with the waits.
3. `EffectLedger`: the exactly-once gate with stale reclaim, late writers and
   unknown outcomes.
4. `CircuitBreaker` and `ResourceManager`: late outcomes, the single probe,
   check-then-act of the concurrency limit.
5. The in-memory backend as a second implementation of the queue, with the switch
   back to Redis; thread mode with its recovery at start-up.
6. Proofs: `SuccessIsFinal` and `PendingIsDeliverable` without faults, one acting
   leader for punctual processes, the uniqueness of a resume, the refinement of
   the waits, and the invariants of the ledger and the breaker.
