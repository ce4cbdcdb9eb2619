----------------------------- MODULE LeaderJobs -----------------------------
(***************************************************************************)
(* The composition of the lease with a leader-only job that checks the     *)
(* fence: process_deferred_jobs (AINDY/platform_layer/async_job_service.py)*)
(* as the APScheduler of every process runs it (one instance at a time,    *)
(* max_instances=1).  The scan selects the due deferred logs once, then    *)
(* decides on each of them, one transaction per log.                       *)
(***************************************************************************)
EXTENDS BackgroundLease

CONSTANTS
    Logs,       \* JobLog rows that start out deferred
    NoLog

ASSUME LogConstants == NoLog \notin Logs /\ IsFiniteSet(Logs)

VARIABLES
    jobPc,      \* jobPc[p]: where the scan of p is
    todo,       \* todo[p]: rows of the snapshot that are still to be visited
    cur,        \* cur[p]: the row being dispatched
    status,     \* JobLog.status
    dispatched  \* times the row was handed to the dispatcher (2 = twice or more)

jobVars == <<jobPc, todo, cur, status, dispatched>>
vars == <<leaseVars, jobVars>>

JobStates == {"idle", "scan", "fence", "assert", "commit", "dispatch"}

\* Type correctness of the lease and of the scans; a scan of
\* process_deferred_jobs holds a row exactly while it dispatches it.
TypeOK ==
    /\ LeaseTypeOK
    /\ jobPc \in [Procs -> JobStates]
    /\ todo \in [Procs -> SUBSET Logs]
    /\ cur \in [Procs -> Logs \cup {NoLog}]
    /\ status \in [Logs -> {"deferred", "pending", "ignored"}]
    /\ dispatched \in [Logs -> 0..2]
    /\ \A p \in Procs : cur[p] = NoLog <=> jobPc[p] \in {"idle", "scan"}

Init ==
    /\ LeaseInit
    /\ jobPc = [p \in Procs |-> "idle"]
    /\ todo = [p \in Procs |-> {}]
    /\ cur = [p \in Procs |-> NoLog]
    /\ status = [i \in Logs |-> "deferred"]
    /\ dispatched = [i \in Logs |-> 0]

-----------------------------------------------------------------------------
\* The query: any deferred row may be due.
Deferred == {i \in Logs : status[i] = "deferred"}

\* The scheduler fires the job; the rows are read once.
SelectDeferred(p) ==
    /\ scheduler[p]
    /\ jobPc[p] = "idle"
    /\ \E S \in SUBSET Deferred \ {{}} :
         todo' = [todo EXCEPT ![p] = S]
    /\ jobPc' = [jobPc EXCEPT ![p] = "scan"]
    /\ UNCHANGED <<leaseVars, cur, status, dispatched>>

EndScan(p) ==
    /\ jobPc[p] = "scan"
    /\ todo[p] = {}
    /\ jobPc' = [jobPc EXCEPT ![p] = "idle"]
    /\ UNCHANGED <<leaseVars, todo, cur, status, dispatched>>

\* "ignore": the row is written and committed, no fence.
DecideIgnore(p) ==
    /\ jobPc[p] = "scan"
    /\ \E i \in todo[p] :
         /\ status' = [status EXCEPT ![i] = "ignored"]
         /\ todo' = [todo EXCEPT ![p] = @ \ {i}]
    /\ UNCHANGED <<leaseVars, jobPc, cur, dispatched>>

\* "defer": only scheduled_for is written, no fence.
DecideDefer(p) ==
    /\ jobPc[p] = "scan"
    /\ \E i \in todo[p] : todo' = [todo EXCEPT ![p] = @ \ {i}]
    /\ UNCHANGED <<leaseVars, jobPc, cur, status, dispatched>>

\* Otherwise the row is set to pending in the open transaction.
DecideDispatch(p) ==
    /\ jobPc[p] = "scan"
    /\ \E i \in todo[p] :
         /\ cur' = [cur EXCEPT ![p] = i]
         /\ todo' = [todo EXCEPT ![p] = @ \ {i}]
    /\ jobPc' = [jobPc EXCEPT ![p] = "fence"]
    /\ UNCHANGED <<leaseVars, status, dispatched>>

\* background_leader_fence() is evaluated here, per row.
JobReadsFence(p) ==
    /\ jobPc[p] = "fence"
    /\ ReadFence(p)
    /\ jobPc' = [jobPc EXCEPT ![p] = "assert"]
    /\ UNCHANGED <<todo, cur, status, dispatched>>

JobPassesFence(p) ==
    /\ jobPc[p] = "assert"
    /\ AssertLeaseFence(p) \/ FenceSkipped(p)
    /\ jobPc' = [jobPc EXCEPT ![p] = "commit"]
    /\ UNCHANGED <<todo, cur, status, dispatched>>

\* Mutant of JobRefused: the scan returns with the row still in hand.
JobRefusedKeeps(p) ==
    /\ jobPc[p] = "assert"
    /\ FenceRefused(p)
    /\ jobPc' = [jobPc EXCEPT ![p] = "idle"]
    /\ todo' = [todo EXCEPT ![p] = {}]
    /\ UNCHANGED <<cur, status, dispatched>>

\* LeaseFenceLost: rollback and return.
JobRefused(p) ==
    /\ jobPc[p] = "assert"
    /\ FenceRefused(p)
    /\ jobPc' = [jobPc EXCEPT ![p] = "idle"]
    /\ todo' = [todo EXCEPT ![p] = {}]
    /\ cur' = [cur EXCEPT ![p] = NoLog]
    /\ UNCHANGED <<status, dispatched>>

CommitPending(p) ==
    /\ jobPc[p] = "commit"
    /\ status' = [status EXCEPT ![cur[p]] = "pending"]
    /\ EndTransaction(p)
    /\ jobPc' = [jobPc EXCEPT ![p] = "dispatch"]
    /\ UNCHANGED <<todo, cur, dispatched>>

Dispatch(p) ==
    /\ jobPc[p] = "dispatch"
    /\ dispatched' = [dispatched EXCEPT ![cur[p]] = IF @ = 2 THEN 2 ELSE @ + 1]
    /\ cur' = [cur EXCEPT ![p] = NoLog]
    /\ jobPc' = [jobPc EXCEPT ![p] = "scan"]
    /\ UNCHANGED <<leaseVars, todo, status>>

\* Any call of the scan may raise: the session is closed, the job returns.
JobRaises(p) ==
    /\ jobPc[p] # "idle"
    /\ EndTransaction(p)
    /\ jobPc' = [jobPc EXCEPT ![p] = "idle"]
    /\ todo' = [todo EXCEPT ![p] = {}]
    /\ cur' = [cur EXCEPT ![p] = NoLog]
    /\ UNCHANGED <<status, dispatched>>

-----------------------------------------------------------------------------
\* Crash takes the job thread with it.
CrashAll(p) ==
    /\ Crash(p)
    /\ jobPc' = [jobPc EXCEPT ![p] = "idle"]
    /\ todo' = [todo EXCEPT ![p] = {}]
    /\ cur' = [cur EXCEPT ![p] = NoLog]
    /\ UNCHANGED <<status, dispatched>>

\* on_lose calls stop() without a timeout: it returns only when the job has.
StandDownIdle(p) ==
    /\ jobPc[p] = "idle"
    /\ StandDown(p)
    /\ UNCHANGED jobVars

ElectorStep(p) ==
    /\ \/ Boot(p) \/ ReadClock(p) \/ ClaimLease(p) \/ InsertLease(p) \/ Apply(p)
    /\ UNCHANGED jobVars

JobStep(p) ==
    \/ SelectDeferred(p) \/ EndScan(p) \/ DecideIgnore(p) \/ DecideDefer(p)
    \/ DecideDispatch(p) \/ JobReadsFence(p) \/ JobPassesFence(p)
    \/ JobRefused(p) \/ CommitPending(p) \/ Dispatch(p) \/ JobRaises(p)

\* A step of a process that keeps its schedule and whose database answers.
PunctualStep(p) ==
    ElectorStep(p) \/ StandDownIdle(p) \/ JobStep(p) \/ CrashAll(p)

SlowStep(p) ==
    /\ Stall(p) \/ ClaimFails(p)
    /\ UNCHANGED jobVars

\* stop(timeout) may return while the job still runs, and the job goes on.
ShutdownStep(p) == StoppingStep(p) /\ UNCHANGED jobVars

TickAll == Tick /\ UNCHANGED jobVars

\* No thread is in the middle of a round or late for one, and a shutdown waits
\* for nothing but the scheduler.
AllPunctual ==
    \A p \in Procs :
        \/ pc[p] \in {"off", "standdown"}
        \/ pc[p] = "wait" /\ now < due[p]
        \/ pc[p] = "ended" /\ life[p] \in {"cleared", "stopped"}

\* No pauses, no database errors, no orderly shutdown (crashes happen).
NextPunctualTick == AllPunctual /\ TickAll
NextPunctual == NextPunctualTick \/ \E p \in Procs : PunctualStep(p)
\* Everything but orderly shutdown.
NextNoRelease ==
    \/ TickAll
    \/ \E p \in Procs : PunctualStep(p) \/ SlowStep(p)
Next == NextNoRelease \/ \E p \in Procs : ShutdownStep(p)

\* Punctual processes that may also be shut down in order.
PromptStopAll(p) == PromptStop(p) /\ UNCHANGED jobVars
NextOrderly ==
    NextPunctualTick \/ \E p \in Procs : PunctualStep(p) \/ PromptStopAll(p)

SpecPunctual == Init /\ [][NextPunctual]_vars
SpecOrderly == Init /\ [][NextOrderly]_vars
SpecNoRelease == Init /\ [][NextNoRelease]_vars
Spec == Init /\ [][Next]_vars

-----------------------------------------------------------------------------
(* Properties.                                                             *)

\* p runs leader-only work: its scheduler takes jobs or its scan is under way.
ActsAsLeader(p) == scheduler[p] \/ jobPc[p] # "idle"

\* The deployment contract: "exactly one participating runtime process runs
\* the APScheduler maintenance jobs at a time" (never two).
OneActingLeader ==
    \A p, q \in Procs : ActsAsLeader(p) /\ ActsAsLeader(q) => p = q

\* While every process keeps its heartbeat, a deferred log is handed to the
\* dispatcher at most once, whatever crashes: the leaders' scans never overlap.
DispatchedAtMostOnce == \A i \in Logs : dispatched[i] <= 1

\* The unfenced write of the scan is harmless too: a log that was dispatched
\* is not afterwards written off as ignored.
DispatchedNotIgnored ==
    [][\A i \in Logs : dispatched[i] > 0 => status'[i] # "ignored"]_vars

CommitsDispatch(p) == jobPc[p] = "commit" /\ jobPc'[p] = "dispatch"

\* What the fence gives when pauses and errors are allowed: a dispatch write
\* that was checked against a fence commits on the owner of the lease.
CheckedDispatchByOwner ==
    [][\A p \in Procs :
         CommitsDispatch(p) /\ expected[p] # NoFence => lease.owner = p]_vars

\* leadership.py: "a takeover that already committed leaves a higher fence, so
\* the stale leader is REFUSED rather than asked to notice": the write that
\* dispatches a log commits only on the owner of the lease.
DispatchByOwner ==
    [][\A p \in Procs : CommitsDispatch(p) => lease.owner = p]_vars
=============================================================================
