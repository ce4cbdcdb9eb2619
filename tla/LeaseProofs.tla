----------------------------- MODULE LeaseProofs -----------------------------
(***************************************************************************)
(* Proofs about BackgroundLease, for every set of processes and every      *)
(* TTL, heartbeat, skew and bound of the clock.                            *)
(***************************************************************************)
EXTENDS BackgroundLease, TLAPS

\* Every step keeps the variables of the lease and the electors in their types.
LEMMA LeaseTypeStep == LeaseTypeOK /\ [LeaseNext]_leaseVars => LeaseTypeOK'
<1> SUFFICES ASSUME LeaseTypeOK, [LeaseNext]_leaseVars PROVE LeaseTypeOK'
  OBVIOUS
<1> USE LeaseConstants DEF LeaseTypeOK, Rows, Holds, ElectorStates, NoLease,
        NoHold, NoFence, electorVars, LifeStates
<1>1. CASE Tick
  BY <1>1 DEF Tick
<1>2. ASSUME NEW p \in Procs, RunningStep(p) PROVE LeaseTypeOK'
  <2>1. CASE Boot(p)
    BY <2>1 DEF Boot
  <2>2. CASE ReadClock(p)
    BY <2>2 DEF ReadClock, clock
  <2>3. CASE ClaimLease(p)
    <3>1. CASE ClaimAbsent(p)
      BY <3>1 DEF ClaimAbsent, Locked
    <3>2. CASE Renew(p)
      BY <3>2 DEF Renew, Locked, Acquire, WriteRow, Hold, EndClaim, NoteTime
    <3>3. CASE TakeOver(p)
      BY <3>3 DEF TakeOver, Locked, Acquire, WriteRow, Hold, EndClaim, NoteTime,
                  NextFence
    <3>4. CASE Refused(p)
      BY <3>4 DEF Refused, Locked, EndClaim, NoteTime
    <3>5. QED
      BY <2>3, <3>1, <3>2, <3>3, <3>4 DEF ClaimLease
  <2>4. CASE InsertLease(p)
    <3>1. CASE Insert(p)
      BY <3>1 DEF Insert, Acquire, WriteRow, Hold, EndClaim, NoteTime
    <3>2. CASE InsertRaceLost(p)
      BY <3>2 DEF InsertRaceLost, EndClaim
    <3>3. QED
      BY <2>4, <3>1, <3>2 DEF InsertLease
  <2>5. CASE ClaimFails(p)
    <3>1. lease' \in Rows
      BY <2>5 DEF ClaimFails, CommitUnanswered, WriteRow, NextFence
    <3>2. QED
      BY <2>5, <3>1 DEF ClaimFails, EndClaim
  <2>6. CASE Apply(p)
    <3>1. CASE ApplyWon(p)
      <4>1. scheduler' \in [Procs -> BOOLEAN]
        BY <3>1, Zenon DEF ApplyWon
      <4>2. is_leader' \in [Procs -> BOOLEAN]
        BY <3>1 DEF ApplyWon
      <4>3. life' \in [Procs -> LifeStates]
        BY <3>1 DEF ApplyWon, NextRound, EnterLoop
      <4>4. QED
        BY <3>1, <4>1, <4>2, <4>3 DEF ApplyWon, NextRound
    <3>2. CASE ApplyLost(p)
      BY <3>2 DEF ApplyLost
    <3>3. CASE ApplyFollower(p)
      BY <3>3 DEF ApplyFollower, NextRound, EnterLoop
    <3>4. QED
      BY <2>6, <3>1, <3>2, <3>3 DEF Apply
  <2>7. CASE StandDown(p)
    BY <2>7 DEF StandDown, NextRound, EnterLoop
  <2>8. CASE Crash(p)
    BY <2>8 DEF Crash, EndClaim
  <2>9. CASE Stall(p)
    BY <2>9 DEF Stall
  <2>10. CASE FencedStep(p)
    BY <2>10 DEF FencedStep, ReadFence, AssertLeaseFence, FenceRefused,
                 EndTransaction, Fence
  <2>11. QED
    BY <1>2, <2>1, <2>2, <2>3, <2>4, <2>5, <2>6, <2>7, <2>8, <2>9, <2>10
       DEF RunningStep
<1>3. ASSUME NEW p \in Procs, StoppingStep(p) PROVE LeaseTypeOK'
  <2>1. CASE StopElector(p)
    BY <2>1 DEF StopElector
  <2>2. CASE LeaveLoop(p)
    BY <2>2 DEF LeaveLoop
  <2>3. CASE Join(p) \/ JoinTimesOut(p)
    BY <2>3 DEF Join, JoinTimesOut, Shutdown
  <2>4. CASE ReleaseLease(p)
    BY <2>4 DEF ReleaseLease, Shutdown
  <2>5. CASE NothingToRelease(p) \/ ReleaseFails(p)
    BY <2>5 DEF NothingToRelease, ReleaseFails, Shutdown
  <2>6. CASE ForgetLeadership(p)
    BY <2>6 DEF ForgetLeadership, Shutdown
  <2>7. CASE StopScheduler(p)
    BY <2>7 DEF StopScheduler, Shutdown
  <2>8. QED
    BY <1>3, <2>1, <2>2, <2>3, <2>4, <2>5, <2>6, <2>7
       DEF StoppingStep, PromptStop
<1>4. CASE UNCHANGED leaseVars
  BY <1>4 DEF leaseVars
<1>5. QED
  BY <1>1, <1>2, <1>3, <1>4 DEF LeaseNext, LeaseNextNoRelease

LEMMA LeaseTypeInit == LeaseInit => LeaseTypeOK
  BY LeaseConstants DEF LeaseInit, LeaseTypeOK, Rows, Holds, ElectorStates,
     LifeStates, NoLease, NoHold, NoFence

\* Type correctness of the lease and the electors.
THEOREM LeaseTypeCorrect == LeaseSpec => []LeaseTypeOK
  BY LeaseTypeInit, LeaseTypeStep, PTL DEF LeaseSpec

-----------------------------------------------------------------------------
\* What a successful claim writes: the row and the hold of the claimant agree,
\* and no other process is touched.
Acquired(p, f) ==
    /\ lease'.owner = p /\ lease'.fence = f
    /\ lease'.expires = read[p] + TTL
    /\ hold'[p].fence = f /\ hold'[p].expires = read[p] + TTL
    /\ pc'[p] = "won"
    /\ \A q \in Procs \ {p} : /\ hold'[q] = hold[q] /\ pc'[q] = pc[q]
                              /\ read'[q] = read[q]
                              /\ q \in onTime' <=> q \in onTime
    /\ p \in onTime' <=> read[p] = now + skew[p] /\ Serving(p)

\* What a claim writes whose commit took effect although it raised: the row
\* names the claimant, whose hold is the old one.
WrittenUnanswered(p) ==
    /\ lease'.owner = p /\ lease'.expires = read[p] + TTL
    /\ \/ /\ pc[p] = "claiming" /\ shared = {} /\ lease.owner = p
          /\ lease'.fence = lease.fence
       \/ /\ pc[p] = "claiming" /\ shared = {}
          /\ lease.owner \notin {p, NoProc} /\ lease.expires <= read[p]
          /\ lease'.fence = lease.fence + 1
       \/ pc[p] = "inserting" /\ lease = NoLease /\ lease'.fence = 1

\* claim_lease writes what Acquired says.
LEMMA AcquireFacts ==
  ASSUME LeaseTypeOK, NEW p \in Procs, NEW f \in Nat, Acquire(p, f)
  PROVE  Acquired(p, f)
  BY DEF Acquired, LeaseTypeOK, Holds, Acquire, WriteRow, Hold, EndClaim, NoteTime, clock

\* claim_lease that raises after its commit writes what WrittenUnanswered says.
LEMMA UnansweredFacts ==
  ASSUME LeaseTypeOK, NEW p \in Procs, CommitUnanswered(p)
  PROVE  WrittenUnanswered(p)
  BY DEF WrittenUnanswered, LeaseTypeOK, CommitUnanswered, WriteRow, RowUnlocked, Lapsed, NextFence

(***************************************************************************)
(* The fence.  The invariant that is inductive bounds every fence a        *)
(* process remembers, in its hold or in a running job, by the fence of the *)
(* row; equality then pins the owner.  It needs the row to survive: with   *)
(* release_lease it is false.                                              *)
(***************************************************************************)
RowWellFormed ==
    \/ lease = NoLease
    \/ lease.owner \in Procs /\ lease.fence >= 1

FenceInv ==
    /\ RowWellFormed
    /\ \A p \in Procs :
         /\ hold[p] = NoHold \/ hold[p].fence >= 1
         /\ hold[p].fence <= lease.fence /\ expected[p] <= lease.fence
         /\ hold[p].fence >= 1 /\ hold[p].fence = lease.fence
              => lease.owner = p
         /\ expected[p] >= 1 /\ expected[p] = lease.fence => lease.owner = p
    /\ \A p \in shared : lease.owner = p

LEMMA FenceInvInit == LeaseInit => FenceInv
  BY LeaseConstants DEF LeaseInit, FenceInv, RowWellFormed, NoLease, NoHold,
     NoFence

\* Every step without release keeps the fences bounded by the row's.
LEMMA FenceInvStep ==
  LeaseTypeOK /\ FenceInv /\ [LeaseNextNoRelease]_leaseVars => FenceInv'
<1> SUFFICES ASSUME LeaseTypeOK, FenceInv, [LeaseNextNoRelease]_leaseVars
             PROVE  FenceInv'
  OBVIOUS
<1> USE LeaseConstants DEF LeaseTypeOK, FenceInv, RowWellFormed, Rows, Holds,
        NoLease, NoHold, NoFence, electorVars
<1>1. ASSUME UNCHANGED <<lease, hold, expected, shared>> PROVE FenceInv'
  BY <1>1
<1>2. ASSUME NEW p \in Procs, hold' = [hold EXCEPT ![p] = NoHold],
             UNCHANGED <<lease, expected, shared>>
      PROVE  FenceInv'
  <2>1. \A q \in Procs : hold'[q] = hold[q] \/ hold'[q] = NoHold
    BY <1>2
  <2>2. /\ lease' = lease /\ shared' = shared
        /\ \A q \in Procs : expected'[q] = expected[q]
    BY <1>2
  <2>3. QED
    BY <2>1, <2>2, SMTT(20)
<1>3. ASSUME NEW p \in Procs, RunningStep(p) PROVE FenceInv'
  <2>1. CASE Boot(p) \/ ReadClock(p) \/ StandDown(p) \/ Stall(p)
    <3>1. UNCHANGED <<lease, hold, expected, shared>>
      BY <2>1 DEF Boot, ReadClock, StandDown, Stall
    <3>2. QED
      BY <3>1, <1>1
  <2>12. CASE ClaimFails(p)
    <3>1. UNCHANGED <<hold, expected, shared>>
      BY <2>12 DEF ClaimFails
    <3>2. CASE UNCHANGED lease
      BY <3>1, <3>2, <1>1
    <3>3. CASE CommitUnanswered(p)
      <4>1. WrittenUnanswered(p)
        BY <3>3, UnansweredFacts
      <4>2. QED
        BY <3>1, <4>1 DEF WrittenUnanswered
    <3>4. QED
      BY <2>12, <3>2, <3>3 DEF ClaimFails
  <2>2. CASE ClaimAbsent(p)
    BY <2>2, <1>1 DEF ClaimAbsent, Locked
  <2>3. CASE Renew(p)
    <3>1. lease.fence \in Nat /\ Acquire(p, lease.fence) /\ lease.owner = p
      BY <2>3 DEF Renew
    <3>2. UNCHANGED <<expected, shared>> /\ shared = {}
      BY <2>3 DEF Renew, Locked, RowUnlocked
    <3>3. Acquired(p, lease.fence)
      BY <3>1, AcquireFacts
    <3>4. QED
      BY <3>1, <3>2, <3>3 DEF Acquired
  <2>4. CASE TakeOver(p)
    <3>1. NextFence \in Nat /\ NextFence = lease.fence + 1 /\ Acquire(p, NextFence)
      BY <2>4 DEF TakeOver, NextFence
    <3>2. UNCHANGED <<expected, shared>> /\ shared = {}
      BY <2>4 DEF TakeOver, Locked, RowUnlocked
    <3>3. Acquired(p, NextFence)
      BY <3>1, AcquireFacts
    <3>4. QED
      BY <3>1, <3>2, <3>3 DEF Acquired
  <2>5. CASE Refused(p)
    BY <2>5, <1>2 DEF Refused, Locked
  <2>6. CASE Insert(p)
    <3>1. Acquire(p, 1) /\ lease = NoLease /\ UNCHANGED <<expected, shared>>
      BY <2>6 DEF Insert
    <3>2. shared = {}
      BY <3>1
    <3>3. Acquired(p, 1)
      BY <3>1, AcquireFacts
    <3>4. QED
      BY <3>1, <3>2, <3>3 DEF Acquired
  <2>7. CASE InsertRaceLost(p)
    BY <2>7, <1>2 DEF InsertRaceLost
  <2>8. CASE Apply(p)
    BY <2>8, <1>1 DEF Apply, ApplyWon, ApplyLost, ApplyFollower
  <2>9. CASE Crash(p)
    BY <2>9 DEF Crash
  <2>10. CASE FencedStep(p)
    <3>1. CASE ReadFence(p)
      BY <3>1 DEF ReadFence, Fence
    <3>2. CASE AssertLeaseFence(p)
      BY <3>2 DEF AssertLeaseFence, FenceMatches
    <3>3. CASE FenceRefused(p)
      BY <3>3 DEF FenceRefused
    <3>4. CASE EndTransaction(p)
      BY <3>4 DEF EndTransaction
    <3>5. QED
      BY <2>10, <3>1, <3>2, <3>3, <3>4 DEF FencedStep
  <2>11. QED
    BY <1>3, <2>1, <2>2, <2>3, <2>4, <2>5, <2>6, <2>7, <2>8, <2>9, <2>10, <2>12
       DEF RunningStep, ClaimLease, InsertLease
<1>4. CASE Tick \/ UNCHANGED leaseVars
  BY <1>4, <1>1 DEF Tick, leaseVars
<1>5. QED
  BY <1>3, <1>4 DEF LeaseNextNoRelease

\* The lease without release is a special case of the lease.
LEMMA NoReleaseStep == [LeaseNextNoRelease]_leaseVars => [LeaseNext]_leaseVars
  BY DEF LeaseNext

\* Fencing is sound as long as the row is never deleted: the fence names one
\* tenure, and a fenced transaction is always the owner's.
THEOREM FenceSound ==
  LeaseSpecNoRelease => [](FenceIdentifiesOwner /\ FencedTxnByOwner)
<1>1. LeaseInit => LeaseTypeOK /\ FenceInv
  BY LeaseTypeInit, FenceInvInit
<1>2. LeaseTypeOK /\ FenceInv /\ [LeaseNextNoRelease]_leaseVars
        => LeaseTypeOK' /\ FenceInv'
  BY LeaseTypeStep, FenceInvStep, NoReleaseStep
<1>3. LeaseTypeOK /\ FenceInv => FenceIdentifiesOwner /\ FencedTxnByOwner
  BY DEF FenceInv, FenceIdentifiesOwner, FencedTxnByOwner, NoHold, NoFence
<1>4. QED
  BY <1>1, <1>2, <1>3, PTL DEF LeaseSpecNoRelease
==============================================================================
