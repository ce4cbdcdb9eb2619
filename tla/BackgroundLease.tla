--------------------------- MODULE BackgroundLease ---------------------------
(***************************************************************************)
(* Background-task leadership (AINDY/platform_layer/leadership.py): one    *)
(* row of background_task_leases, claimed, renewed, taken over and         *)
(* released by the elector thread of every process, and the fence that a   *)
(* leader-only transaction checks before it commits.                       *)
(*                                                                         *)
(* Time is a counter.  A process reads its own clock, which is off by a    *)
(* fixed skew, BEFORE it waits for the row lock, so a claim may use a      *)
(* reading that is already old.  onTime is a history variable: the         *)
(* processes whose last round ended in the instant in which it read the    *)
(* clock and that have not stalled since; the clock cannot pass the next   *)
(* round of such a process.  Every other process is arbitrarily slow.      *)
(*                                                                         *)
(* Two threads of a process touch the elector: its own, whose place is pc, *)
(* and the one that starts the process and shuts it down, whose place is   *)
(* life.  stop() waits for the first only as long as its join lasts.       *)
(***************************************************************************)
EXTENDS Integers, FiniteSets

CONSTANTS
    Procs,      \* lease-electing processes; a process is its owner_id
    NoProc,     \* owner of the absent row
    TTL,        \* LEASE_TTL_SECONDS
    HB,         \* LEASE_HEARTBEAT_SECONDS
    Skew,       \* bound on the offset of a process's clock
    MaxTime     \* bound of the model's clock

ASSUME LeaseConstants ==
    /\ NoProc \notin Procs
    /\ TTL \in Nat \ {0} /\ HB \in Nat \ {0}
    /\ Skew \in Nat /\ MaxTime \in Nat

\* The clock note of leadership.py (60 s against 20 s): the TTL outlasts one
\* heartbeat interval and the skew of two clocks.
ASSUME TTLIsWide == HB + 2 * Skew < TTL

VARIABLES
    now,        \* real time
    skew,       \* skew[p]: offset of p's clock
    lease,      \* the row: owner_id, expires_at, fence
    pc,         \* pc[p]: where the elector thread of p is
    read,       \* read[p]: the `now` of p's claim in progress
    hold,       \* _hold: what p's last claim returned
    is_leader,  \* _is_leader
    due,        \* due[p]: when _stop.wait(interval) of p ends
    scheduler,  \* scheduler[p]: APScheduler of p accepts jobs
    life,       \* life[p]: where start-up and shutdown of p's elector are
    onTime,
    expected,   \* expected[p]: fence p's running job passes to the check
    shared      \* processes whose transaction holds the row FOR SHARE

electorVars == <<pc, read, hold, is_leader, due, scheduler, onTime, life>>
leaseVars == <<now, skew, lease, pc, read, hold, is_leader, due, scheduler,
               onTime, life, expected, shared>>

NoLease == [owner |-> NoProc, expires |-> 0, fence |-> 0]
NoHold  == [expires |-> 0, fence |-> 0]       \* _hold is None
NoFence == 0                                  \* expected_fence is None

Rows  == [owner : Procs \cup {NoProc}, expires : Int, fence : Nat]
Holds == [expires : Int, fence : Nat]
ElectorStates == {"off", "start", "wait", "claiming", "inserting", "won",
                  "lost", "failed", "standdown", "ended"}
LifeStates == {"boot", "looping", "stopping", "joined", "released", "cleared",
               "stopped"}

\* p's elector has not been told to stop.
Serving(p) == life[p] \in {"boot", "looping"}

\* Type correctness of the row, of the elector and starting threads of every
\* process, and of the fence its job holds (a fence is a natural number).
LeaseTypeOK ==
    /\ now \in 0..MaxTime
    /\ skew \in [Procs -> -Skew..Skew]
    /\ lease \in Rows
    /\ pc \in [Procs -> ElectorStates]
    /\ read \in [Procs -> Int]
    /\ hold \in [Procs -> Holds]
    /\ is_leader \in [Procs -> BOOLEAN]
    /\ due \in [Procs -> Int]
    /\ scheduler \in [Procs -> BOOLEAN]
    /\ onTime \in SUBSET Procs
    /\ life \in [Procs -> LifeStates]
    /\ expected \in [Procs -> Nat]
    /\ shared \in SUBSET Procs

LeaseInit ==
    /\ now = 0
    /\ skew \in [Procs -> -Skew..Skew]
    /\ lease = NoLease
    /\ pc = [p \in Procs |-> "off"]
    /\ read = [p \in Procs |-> 0]
    /\ hold = [p \in Procs |-> NoHold]
    /\ is_leader = [p \in Procs |-> FALSE]
    /\ due = [p \in Procs |-> 0]
    /\ scheduler = [p \in Procs |-> FALSE]
    /\ onTime = {}
    /\ life = [p \in Procs |-> "boot"]
    /\ expected = [p \in Procs |-> NoFence]
    /\ shared = {}

clock(p) == now + skew[p]

-----------------------------------------------------------------------------
(* The elector thread.                                                     *)

\* The process starts: it elects once at once, then every HB.
Boot(p) ==
    /\ pc[p] = "off"
    /\ pc' = [pc EXCEPT ![p] = "start"]
    /\ UNCHANGED <<now, skew, lease, read, hold, is_leader, due, scheduler,
                   onTime, life, expected, shared>>

\* claim_lease reads the clock, then waits for the row lock.
ReadClock(p) ==
    /\ pc[p] = "start" \/ (pc[p] = "wait" /\ Serving(p) /\ now >= due[p])
    /\ pc' = [pc EXCEPT ![p] = "claiming"]
    /\ read' = [read EXCEPT ![p] = clock(p)]
    /\ due' = [due EXCEPT ![p] = 0]
    /\ UNCHANGED <<now, skew, lease, hold, is_leader, scheduler, onTime, life,
                   expected, shared>>

\* Mutant of RowUnlocked: the row is read without waiting for its lock.
RowAvailable == TRUE

\* SELECT ... FOR UPDATE waits for every transaction that holds FOR SHARE.
RowUnlocked == shared = {}

\* Mutants of Lapsed: a claim that never waits, and one that never takes over.
LapsedAlways(t) == TRUE
LapsedNever(t) == FALSE

\* The previous leader's lease has lapsed on the clock of the claimant.
Lapsed(t) == lease.expires <= t

\* Mutant of NextFence: a takeover that does not move the fence.
SameFence == lease.fence

NextFence == lease.fence + 1

Hold(p, f) == [expires |-> read[p] + TTL, fence |-> f]

\* History: did this round of a serving elector end in the instant in which
\* it read the clock?
NoteTime(p) ==
    onTime' = IF read[p] = clock(p) /\ Serving(p) THEN onTime \cup {p}
                                                 ELSE onTime \ {p}

\* The reading is a local of claim_lease.
EndClaim(p) == read' = [read EXCEPT ![p] = 0]

\* The row as p's claim commits it.
WriteRow(p, f) == lease' = [owner |-> p, expires |-> read[p] + TTL, fence |-> f]

Acquire(p, f) ==
    /\ WriteRow(p, f)
    /\ hold' = [hold EXCEPT ![p] = Hold(p, f)]
    /\ NoteTime(p)
    /\ pc' = [pc EXCEPT ![p] = "won"]
    /\ EndClaim(p)

\* The row lock is granted and the row is read.
Locked(p) ==
    /\ pc[p] = "claiming"
    /\ RowUnlocked
    /\ UNCHANGED <<now, skew, is_leader, due, scheduler, life, expected, shared>>

\* Nothing to lock: the INSERT follows.
ClaimAbsent(p) ==
    /\ Locked(p)
    /\ lease = NoLease
    /\ pc' = [pc EXCEPT ![p] = "inserting"]
    /\ UNCHANGED <<lease, read, hold, onTime>>

Renew(p) ==
    /\ Locked(p)
    /\ lease.owner = p
    /\ Acquire(p, lease.fence)

TakeOver(p) ==
    /\ Locked(p)
    /\ lease.owner \notin {p, NoProc}
    /\ Lapsed(read[p])
    /\ Acquire(p, NextFence)

\* Live lease of another owner.
Refused(p) ==
    /\ Locked(p)
    /\ lease.owner \notin {p, NoProc}
    /\ ~Lapsed(read[p])
    /\ hold' = [hold EXCEPT ![p] = NoHold]
    /\ NoteTime(p)
    /\ pc' = [pc EXCEPT ![p] = "lost"]
    /\ EndClaim(p)
    /\ UNCHANGED lease

ClaimLease(p) == ClaimAbsent(p) \/ Renew(p) \/ TakeOver(p) \/ Refused(p)

\* UNIQUE(name) resolves the insert race: the loser gets IntegrityError.
Insert(p) ==
    /\ pc[p] = "inserting"
    /\ lease = NoLease
    /\ Acquire(p, 1)
    /\ UNCHANGED <<now, skew, is_leader, due, scheduler, life, expected, shared>>

InsertRaceLost(p) ==
    /\ pc[p] = "inserting"
    /\ lease # NoLease
    /\ hold' = [hold EXCEPT ![p] = NoHold]
    /\ onTime' = onTime \ {p}
    /\ pc' = [pc EXCEPT ![p] = "lost"]
    /\ EndClaim(p)
    /\ UNCHANGED <<now, skew, lease, is_leader, due, scheduler, life, expected,
                   shared>>

InsertLease(p) == Insert(p) \/ InsertRaceLost(p)

\* The commit takes effect and its answer is lost.
CommitUnanswered(p) ==
    \/ pc[p] = "claiming" /\ RowUnlocked /\ lease.owner = p
       /\ WriteRow(p, lease.fence)
    \/ pc[p] = "claiming" /\ RowUnlocked /\ lease.owner \notin {p, NoProc}
       /\ Lapsed(read[p]) /\ WriteRow(p, NextFence)
    \/ pc[p] = "inserting" /\ lease = NoLease /\ WriteRow(p, 1)

\* The database raised, with or without effect on the row: elect_once treats
\* it as not acquired, _hold is stale.
ClaimFails(p) ==
    /\ pc[p] \in {"claiming", "inserting"}
    /\ CommitUnanswered(p) \/ UNCHANGED lease
    /\ pc' = [pc EXCEPT ![p] = "failed"]
    /\ EndClaim(p)
    /\ onTime' = onTime \ {p}
    /\ UNCHANGED <<now, skew, hold, is_leader, due, scheduler, life, expected,
                   shared>>

\* start() follows the first round, which the starting thread runs itself.
EnterLoop(p) ==
    life' = [life EXCEPT ![p] = IF @ = "boot" THEN "looping" ELSE @]

\* Mutant of NextRound: the heartbeat interval is the TTL.
NextRoundSlow(p) ==
    /\ pc' = [pc EXCEPT ![p] = "wait"]
    /\ due' = [due EXCEPT ![p] = now + TTL]
    /\ EnterLoop(p)

NextRound(p) ==
    /\ pc' = [pc EXCEPT ![p] = "wait"]
    /\ due' = [due EXCEPT ![p] = now + HB]
    /\ EnterLoop(p)

\* _apply(True): a new leader starts its scheduler; an exception raised by
\* on_acquire is swallowed, and the process leads without one.
ApplyWon(p) ==
    /\ pc[p] = "won"
    /\ is_leader' = [is_leader EXCEPT ![p] = TRUE]
    /\ \/ ~is_leader[p] /\ scheduler' = [scheduler EXCEPT ![p] = TRUE]
       \/ UNCHANGED scheduler
    /\ NextRound(p)
    /\ UNCHANGED <<now, skew, lease, read, hold, onTime, expected, shared>>

\* _apply(False) on the leader: on_lose stops the scheduler, which refuses new
\* jobs at once and then waits for the ones that run.
ApplyLost(p) ==
    /\ pc[p] \in {"lost", "failed"}
    /\ is_leader[p]
    /\ is_leader' = [is_leader EXCEPT ![p] = FALSE]
    /\ scheduler' = [scheduler EXCEPT ![p] = FALSE]
    /\ pc' = [pc EXCEPT ![p] = "standdown"]
    /\ onTime' = onTime \ {p}
    /\ UNCHANGED <<now, skew, lease, read, hold, due, life, expected, shared>>

\* _apply(False) on a follower.
ApplyFollower(p) ==
    /\ pc[p] \in {"lost", "failed"}
    /\ ~is_leader[p]
    /\ NextRound(p)
    /\ UNCHANGED <<now, skew, lease, read, hold, is_leader, scheduler, onTime,
                   expected, shared>>

Apply(p) == ApplyWon(p) \/ ApplyLost(p) \/ ApplyFollower(p)

\* The scheduler's shutdown(wait=True) returns.
StandDown(p) ==
    /\ pc[p] = "standdown"
    /\ NextRound(p)
    /\ UNCHANGED <<now, skew, lease, read, hold, is_leader, scheduler, onTime,
                   expected, shared>>

-----------------------------------------------------------------------------
(* Orderly shutdown: the elector is dropped and the lease released BEFORE   *)
(* the scheduler is stopped, "so a standby takes over promptly".  A round   *)
(* that outlasts the join goes on meanwhile, and may lead again.            *)

\* _ELECTOR = None and _stop.set().
StopElector(p) ==
    /\ life[p] = "looping"
    /\ life' = [life EXCEPT ![p] = "stopping"]
    /\ onTime' = onTime \ {p}
    /\ UNCHANGED <<now, skew, lease, pc, read, hold, is_leader, due, scheduler,
                   expected, shared>>

\* _stop.wait returns: the elector thread leaves its loop.
LeaveLoop(p) ==
    /\ pc[p] = "wait" /\ ~Serving(p)
    /\ pc' = [pc EXCEPT ![p] = "ended"]
    /\ due' = [due EXCEPT ![p] = 0]
    /\ UNCHANGED <<now, skew, lease, read, hold, is_leader, scheduler, onTime,
                   life, expected, shared>>

\* The shutdown goes from step a to step b.
Shutdown(p, a, b) ==
    /\ life[p] = a
    /\ life' = [life EXCEPT ![p] = b]
    /\ UNCHANGED <<now, skew, pc, read, due, onTime, expected, shared>>

Join(p) ==
    /\ Shutdown(p, "stopping", "joined")
    /\ pc[p] = "ended"
    /\ UNCHANGED <<lease, hold, is_leader, scheduler>>

\* join(timeout=max(1, interval)) gives up on a round in progress.
JoinTimesOut(p) ==
    /\ Shutdown(p, "stopping", "joined")
    /\ pc[p] \notin {"wait", "ended"}
    /\ UNCHANGED <<lease, hold, is_leader, scheduler>>

\* release_lease deletes the row if this owner still has it.
ReleaseLease(p) ==
    /\ Shutdown(p, "joined", "released")
    /\ is_leader[p] /\ lease.owner = p
    /\ RowUnlocked
    /\ lease' = NoLease
    /\ UNCHANGED <<hold, is_leader, scheduler>>

\* The process does not lead, or the row is not its own any more.
NothingToRelease(p) ==
    /\ Shutdown(p, "joined", "released")
    /\ ~is_leader[p] \/ lease.owner # p
    /\ UNCHANGED <<lease, hold, is_leader, scheduler>>

\* The database raised: rolled back, a warning is logged, the row stays.
ReleaseFails(p) ==
    /\ Shutdown(p, "joined", "released")
    /\ is_leader[p]
    /\ UNCHANGED <<lease, hold, is_leader, scheduler>>

\* The last line of stop(), outside the lock of _apply.
ForgetLeadership(p) ==
    /\ Shutdown(p, "released", "cleared")
    /\ is_leader' = [is_leader EXCEPT ![p] = FALSE]
    /\ UNCHANGED <<lease, hold, scheduler>>

\* scheduler_service.stop; what is left of the shutdown is a Crash.
StopScheduler(p) ==
    /\ Shutdown(p, "cleared", "stopped")
    /\ scheduler' = [scheduler EXCEPT ![p] = FALSE]
    /\ UNCHANGED <<lease, hold, is_leader>>

\* The process dies, or exits at the end of its shutdown: its threads and its
\* open transaction are gone.
Crash(p) ==
    /\ pc[p] # "off"
    /\ pc' = [pc EXCEPT ![p] = "off"]
    /\ EndClaim(p)
    /\ hold' = [hold EXCEPT ![p] = NoHold]
    /\ is_leader' = [is_leader EXCEPT ![p] = FALSE]
    /\ due' = [due EXCEPT ![p] = 0]
    /\ scheduler' = [scheduler EXCEPT ![p] = FALSE]
    /\ onTime' = onTime \ {p}
    /\ life' = [life EXCEPT ![p] = "boot"]
    /\ expected' = [expected EXCEPT ![p] = NoFence]
    /\ shared' = shared \ {p}
    /\ UNCHANGED <<now, skew, lease>>

\* A long pause: p is no longer known to keep its schedule.
Stall(p) ==
    /\ p \in onTime
    /\ onTime' = onTime \ {p}
    /\ UNCHANGED <<now, skew, lease, pc, read, hold, is_leader, due,
                   scheduler, life, expected, shared>>

Tick ==
    /\ now < MaxTime
    /\ \A p \in onTime : pc[p] = "wait" /\ now < due[p]
    /\ now' = now + 1
    /\ UNCHANGED <<skew, lease, electorVars, expected, shared>>

-----------------------------------------------------------------------------
(* The fence, as a leader-only job uses it.                                *)

\* Mutant of Fence: off by one.
FenceBefore(p) == hold[p].fence - 1

\* background_leader_fence(): None without an elector or when not leader.
Fence(p) ==
    IF is_leader[p] /\ Serving(p) THEN hold[p].fence ELSE NoFence

ReadFence(p) ==
    /\ expected' = [expected EXCEPT ![p] = Fence(p)]
    /\ UNCHANGED <<now, skew, lease, electorVars, shared>>

\* Mutant of FenceMatches: a row is enough.
FenceHeld(p) == lease # NoLease

FenceMatches(p) == lease # NoLease /\ lease.fence = expected[p]

\* assert_lease_fence with a fence: the row stays locked FOR SHARE.
AssertLeaseFence(p) ==
    /\ expected[p] # NoFence
    /\ FenceMatches(p)
    /\ shared' = shared \cup {p}
    /\ UNCHANGED <<now, skew, lease, electorVars, expected>>

\* LeaseFenceLost: the job rolls back.
FenceRefused(p) ==
    /\ expected[p] # NoFence
    /\ ~FenceMatches(p)
    /\ expected' = [expected EXCEPT ![p] = NoFence]
    /\ UNCHANGED <<now, skew, lease, electorVars, shared>>

\* assert_lease_fence(None): "the check is skipped".
FenceSkipped(p) ==
    /\ expected[p] = NoFence
    /\ UNCHANGED leaseVars

\* Commit or rollback of the transaction.
EndTransaction(p) ==
    /\ shared' = shared \ {p}
    /\ expected' = [expected EXCEPT ![p] = NoFence]
    /\ UNCHANGED <<now, skew, lease, electorVars>>

-----------------------------------------------------------------------------
(* The lease on its own: any process may run a fenced transaction at any   *)
(* time (LeaderJobs says when the runtime does).                           *)

FencedStep(p) ==
    ReadFence(p) \/ AssertLeaseFence(p) \/ FenceRefused(p) \/ EndTransaction(p)

RunningStep(p) ==
    \/ Boot(p) \/ ReadClock(p) \/ ClaimLease(p) \/ InsertLease(p)
    \/ ClaimFails(p) \/ Apply(p) \/ StandDown(p) \/ Crash(p) \/ Stall(p)
    \/ FencedStep(p)

\* A shutdown in which the round ends in time and the database answers.
PromptStop(p) ==
    \/ StopElector(p) \/ LeaveLoop(p) \/ Join(p)
    \/ ReleaseLease(p) \/ NothingToRelease(p) \/ ForgetLeadership(p)
    \/ StopScheduler(p)

StoppingStep(p) == PromptStop(p) \/ JoinTimesOut(p) \/ ReleaseFails(p)

\* No orderly shutdown: the row, once inserted, is never deleted.
LeaseNextNoRelease == Tick \/ \E p \in Procs : RunningStep(p)
LeaseNext == LeaseNextNoRelease \/ \E p \in Procs : StoppingStep(p)

LeaseSpecNoRelease == LeaseInit /\ [][LeaseNextNoRelease]_leaseVars
LeaseSpec == LeaseInit /\ [][LeaseNext]_leaseVars

-----------------------------------------------------------------------------
(* Properties.                                                             *)

\* The fence names one tenure: a process whose last claim returned the fence
\* that is in the row owns the row (claim_lease moves the fence exactly when
\* the owner changes).
FenceIdentifiesOwner ==
    \A p \in Procs :
        hold[p] # NoHold /\ hold[p].fence = lease.fence => lease.owner = p

\* p leads on a hold that no clock of the fleet can call expired.
LeadsLive(p) == is_leader[p] /\ hold[p].expires > now + Skew

\* No split brain within the TTL: of the processes that lead and have not been
\* told to stop, at most one leads on a live hold, whatever stalls, crashes,
\* fails or is shut down around them.  (A process that has been told to stop
\* is left out: its last round may outlast the join and call _apply(True)
\* after the row was deleted and somebody else inserted it.)
LeaseExclusive ==
    \A p, q \in Procs :
        Serving(p) /\ LeadsLive(p) /\ Serving(q) /\ LeadsLive(q) => p = q

\* A leader that keeps its heartbeat is never deposed: the TTL is wide enough
\* for one missed interval and the skew of two clocks.
PunctualLeaderOwns ==
    \A p \in onTime :
        is_leader[p] /\ pc[p] = "wait" => lease.owner = p

\* Failover is prompt: while some process keeps its heartbeat, the row is
\* never left expired for longer than one interval plus the skew.
FailoverBound ==
    (\E p \in onTime : pc[p] = "wait")
        => /\ lease # NoLease
           /\ now <= lease.expires + HB + Skew

\* The FOR SHARE check: while a transaction that passed assert_lease_fence is
\* open, its process owns the lease (no takeover commits under it).
FencedTxnByOwner ==
    \A p \in shared : lease.owner = p
=============================================================================
