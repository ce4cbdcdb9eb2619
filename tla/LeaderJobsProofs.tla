-------------------------- MODULE LeaderJobsProofs --------------------------
(***************************************************************************)
(* The leader-only scan, composed with the lease, is a use of the lease as *)
(* BackgroundLease describes it; what is proved there carries over, and    *)
(* gives what the fence check is for.                                      *)
(***************************************************************************)
EXTENDS LeaderJobs, LeaseProofs

\* A step of the composition is a step of the lease, or leaves it alone.
LEMMA StepImplementsLease ==
  [NextNoRelease]_vars => [LeaseNextNoRelease]_leaseVars
<1> SUFFICES ASSUME [NextNoRelease]_vars PROVE [LeaseNextNoRelease]_leaseVars
  OBVIOUS
<1>1. ASSUME NEW p \in Procs, PunctualStep(p) PROVE [LeaseNextNoRelease]_leaseVars
  <2>1. CASE ElectorStep(p)
    BY <2>1 DEF ElectorStep, LeaseNextNoRelease, RunningStep
  <2>2. CASE StandDownIdle(p)
    BY <2>2 DEF StandDownIdle, LeaseNextNoRelease, RunningStep
  <2>3. CASE CrashAll(p)
    BY <2>3 DEF CrashAll, LeaseNextNoRelease, RunningStep
  <2>4. CASE JobStep(p)
    <3>1. CASE JobReadsFence(p) \/ JobRefused(p) \/ CommitPending(p) \/ JobRaises(p)
      BY <3>1 DEF JobReadsFence, JobRefused, CommitPending, JobRaises,
                  LeaseNextNoRelease, RunningStep, FencedStep
    <3>2. CASE JobPassesFence(p)
      BY <3>2 DEF JobPassesFence, FenceSkipped, LeaseNextNoRelease, RunningStep,
                  FencedStep
    <3>3. CASE \/ SelectDeferred(p) \/ EndScan(p) \/ DecideIgnore(p)
               \/ DecideDefer(p) \/ DecideDispatch(p) \/ Dispatch(p)
      BY <3>3 DEF SelectDeferred, EndScan, DecideIgnore, DecideDefer,
                  DecideDispatch, Dispatch
    <3>4. QED
      BY <2>4, <3>1, <3>2, <3>3 DEF JobStep
  <2>5. QED
    BY <1>1, <2>1, <2>2, <2>3, <2>4 DEF PunctualStep
<1>2. ASSUME NEW p \in Procs, SlowStep(p) PROVE [LeaseNextNoRelease]_leaseVars
  BY <1>2 DEF SlowStep, LeaseNextNoRelease, RunningStep
<1>3. CASE TickAll
  BY <1>3 DEF TickAll, LeaseNextNoRelease
<1>4. CASE UNCHANGED vars
  BY <1>4 DEF vars
<1>5. QED
  BY <1>1, <1>2, <1>3, <1>4 DEF NextNoRelease

\* The composition implements the lease: the scan adds no step that the lease
\* does not allow any process to take.
THEOREM JobsImplementLease == SpecNoRelease => LeaseSpecNoRelease
  BY StepImplementsLease, PTL DEF SpecNoRelease, LeaseSpecNoRelease, Init

\* Between the check and the commit the job holds the row FOR SHARE.
CheckedHoldsRow ==
    /\ jobPc \in [Procs -> JobStates]
    /\ \A p \in Procs :
         jobPc[p] = "commit" /\ expected[p] # NoFence => p \in shared

\* Every step keeps the row locked between a passed check and its commit.
LEMMA CheckedHoldsRowStep ==
  LeaseTypeOK /\ CheckedHoldsRow /\ [NextNoRelease]_vars => CheckedHoldsRow'
<1> SUFFICES ASSUME LeaseTypeOK, CheckedHoldsRow, [NextNoRelease]_vars
             PROVE  CheckedHoldsRow'
  OBVIOUS
<1> USE DEF LeaseTypeOK, CheckedHoldsRow, JobStates, electorVars, leaseVars
<1>1. ASSUME UNCHANGED <<jobPc, expected, shared>> PROVE CheckedHoldsRow'
  BY <1>1
<1>2. ASSUME NEW p \in Procs, PunctualStep(p) PROVE CheckedHoldsRow'
  <2>1. CASE Boot(p) /\ UNCHANGED jobVars
    BY <2>1, <1>1 DEF Boot, jobVars
  <2>2. CASE ReadClock(p) /\ UNCHANGED jobVars
    BY <2>2, <1>1 DEF ReadClock, jobVars
  <2>3. CASE ClaimLease(p) /\ UNCHANGED jobVars
    BY <2>3, <1>1 DEF ClaimLease, ClaimAbsent, Renew, TakeOver, Refused, Locked, jobVars
  <2>4. CASE InsertLease(p) /\ UNCHANGED jobVars
    BY <2>4, <1>1 DEF InsertLease, Insert, InsertRaceLost, jobVars
  <2>5. CASE Apply(p) /\ UNCHANGED jobVars
    BY <2>5, <1>1 DEF Apply, ApplyWon, ApplyLost, ApplyFollower, jobVars
  <2>6. CASE StandDownIdle(p)
    BY <2>6, <1>1 DEF StandDownIdle, StandDown, jobVars
  <2>7. CASE CrashAll(p)
    BY <2>7 DEF CrashAll, Crash
  <2>8. CASE SelectDeferred(p) \/ EndScan(p) \/ DecideDispatch(p) \/ Dispatch(p)
    BY <2>8 DEF SelectDeferred, EndScan, DecideDispatch, Dispatch
  <2>9. CASE DecideIgnore(p) \/ DecideDefer(p)
    BY <2>9, <1>1 DEF DecideIgnore, DecideDefer
  <2>10. CASE JobReadsFence(p)
    BY <2>10 DEF JobReadsFence, ReadFence
  <2>11. CASE JobPassesFence(p)
    BY <2>11 DEF JobPassesFence, AssertLeaseFence, FenceSkipped
  <2>12. CASE JobRefused(p)
    BY <2>12 DEF JobRefused, FenceRefused
  <2>13. CASE CommitPending(p)
    BY <2>13 DEF CommitPending, EndTransaction
  <2>14. CASE JobRaises(p)
    BY <2>14 DEF JobRaises, EndTransaction
  <2>15. QED
    BY <1>2, <2>1, <2>2, <2>3, <2>4, <2>5, <2>6, <2>7, <2>8, <2>9, <2>10,
       <2>11, <2>12, <2>13, <2>14 DEF PunctualStep, ElectorStep, JobStep
<1>3. ASSUME NEW p \in Procs, SlowStep(p) PROVE CheckedHoldsRow'
  BY <1>3, <1>1 DEF SlowStep, Stall, ClaimFails, jobVars
<1>4. CASE TickAll \/ UNCHANGED vars
  BY <1>4, <1>1 DEF TickAll, Tick, jobVars, vars
<1>5. QED
  BY <1>2, <1>3, <1>4 DEF NextNoRelease

\* The fence does its job wherever it is consulted: a dispatch write that was
\* checked against a fence commits on the owner of the lease, for any number
\* of processes and whatever stalls, crashes or fails.
THEOREM CheckedDispatchIsOwners == SpecNoRelease => CheckedDispatchByOwner
<1>1. Init => LeaseTypeOK /\ FenceInv /\ CheckedHoldsRow
  BY LeaseTypeInit, FenceInvInit DEF Init, CheckedHoldsRow, JobStates
<1>2. LeaseTypeOK /\ FenceInv /\ CheckedHoldsRow /\ [NextNoRelease]_vars
        => LeaseTypeOK' /\ FenceInv' /\ CheckedHoldsRow'
  BY StepImplementsLease, LeaseTypeStep, NoReleaseStep, FenceInvStep,
     CheckedHoldsRowStep
<1>3. FenceInv /\ CheckedHoldsRow
        => \A p \in Procs :
             CommitsDispatch(p) /\ expected[p] # NoFence => lease.owner = p
  BY DEF FenceInv, CheckedHoldsRow, CommitsDispatch
<1>4. QED
  BY <1>1, <1>2, <1>3, PTL DEF SpecNoRelease, CheckedDispatchByOwner
=============================================================================
