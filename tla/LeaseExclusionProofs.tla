------------------------ MODULE LeaseExclusionProofs -------------------------
(***************************************************************************)
(* Leaders of BackgroundLease that serve do not overlap within the TTL.    *)
(***************************************************************************)
EXTENDS LeaseProofs

(***************************************************************************)
(* Readings never run ahead: a claim in progress uses a reading that is at *)
(* most the present time of its own clock.  This, and not the order of the *)
(* claims, is what keeps two leaders apart.                                *)
(***************************************************************************)
ReadingsPast ==
    \A p \in Procs :
        pc[p] \in {"claiming", "inserting"} => read[p] <= now + Skew

\* Nor do holds: a claim that writes the row without learning of it writes an
\* expiry that is at least the one p remembers.
HoldPast ==
    \A p \in Procs :
        /\ pc[p] \in {"claiming", "inserting"} => read[p] <= now + skew[p]
        /\ hold[p].expires <= now + skew[p] + TTL
        /\ pc[p] \in {"claiming", "inserting"} => hold[p].expires <= read[p] + TTL

\* p serves and leads or is about to, on a hold that no clock can call expired.
HoldsLive(p) ==
    /\ Serving(p)
    /\ is_leader[p] \/ pc[p] = "won"
    /\ hold[p].expires > now + Skew

ExclusiveInv ==
    /\ ReadingsPast
    /\ HoldPast
    /\ \A p \in Procs :
         HoldsLive(p) => /\ lease.owner = p
                         /\ lease.expires >= hold[p].expires

LEMMA ExclusiveInvInit == LeaseInit => ExclusiveInv
  BY LeaseConstants, TTLIsWide
     DEF LeaseInit, ExclusiveInv, ReadingsPast, HoldPast, HoldsLive, NoHold

\* A successful claim of p on a row that no other live holder owns.
LEMMA ExclusiveAcquire ==
  ASSUME LeaseTypeOK, ExclusiveInv, NEW p \in Procs, NEW f \in Nat,
         Acquire(p, f), UNCHANGED <<now, skew, is_leader, life>>,
         pc[p] \in {"claiming", "inserting"},
         \A q \in Procs \ {p} : ~HoldsLive(q)
  PROVE  ExclusiveInv'
<1> USE LeaseConstants DEF LeaseTypeOK, Holds, Rows
<1>1. Acquired(p, f)
  BY AcquireFacts
<1>2. ReadingsPast'
  BY <1>1 DEF Acquired, ExclusiveInv, ReadingsPast
<1>3. HoldPast'
  <2> SUFFICES ASSUME NEW q \in Procs
               PROVE  /\ pc'[q] \in {"claiming", "inserting"} => read'[q] <= now' + skew'[q]
                      /\ hold'[q].expires <= now' + skew'[q] + TTL
                      /\ pc'[q] \in {"claiming", "inserting"}
                           => hold'[q].expires <= read'[q] + TTL
    BY DEF HoldPast
  <2>1. CASE q = p
    <3>1. read[p] <= now + skew[p]
      BY DEF ExclusiveInv, HoldPast
    <3>2. QED
      BY <1>1, <2>1, <3>1 DEF Acquired
  <2>2. CASE q # p
    BY <1>1, <2>2 DEF Acquired, ExclusiveInv, HoldPast
  <2>3. QED
    BY <2>1, <2>2
<1>4. \A q \in Procs : HoldsLive(q)' => q = p
  BY <1>1 DEF Acquired, HoldsLive, Serving
<1>5. lease'.owner = p /\ lease'.expires >= hold'[p].expires
  BY <1>1 DEF Acquired
<1>6. QED
  BY <1>2, <1>3, <1>4, <1>5 DEF ExclusiveInv

\* A claim of p that writes the row although it raised.
LEMMA ExclusiveUnanswered ==
  ASSUME LeaseTypeOK, ExclusiveInv, NEW p \in Procs, ClaimFails(p),
         CommitUnanswered(p)
  PROVE  ExclusiveInv'
<1> USE LeaseConstants DEF LeaseTypeOK, Holds, Rows
<1>1. /\ UNCHANGED <<now, skew, hold, is_leader, life>>
      /\ pc' = [pc EXCEPT ![p] = "failed"] /\ read' = [read EXCEPT ![p] = 0]
      /\ pc[p] \in {"claiming", "inserting"}
  BY DEF ClaimFails, EndClaim
<1>2. ReadingsPast' /\ HoldPast'
  BY <1>1 DEF ExclusiveInv, ReadingsPast, HoldPast
<1>7. WrittenUnanswered(p)
  BY UnansweredFacts
<1>3. \A q \in Procs \ {p} : ~HoldsLive(q)
  BY <1>1, <1>7 DEF WrittenUnanswered, ExclusiveInv, ReadingsPast, HoldsLive, NoLease
<1>4. \A q \in Procs : HoldsLive(q)' => q = p
  BY <1>1, <1>3 DEF HoldsLive, Serving
<1>5. lease'.owner = p /\ lease'.expires >= hold'[p].expires
  BY <1>1, <1>7 DEF WrittenUnanswered, ExclusiveInv, HoldPast
<1>6. QED
  BY <1>2, <1>4, <1>5 DEF ExclusiveInv

\* Every step, orderly shutdown included, keeps the live holds of the processes
\* that serve exclusive.
LEMMA ExclusiveInvStep ==
  LeaseTypeOK /\ ExclusiveInv /\ [LeaseNext]_leaseVars => ExclusiveInv'
<1> SUFFICES ASSUME LeaseTypeOK, ExclusiveInv, [LeaseNext]_leaseVars
             PROVE  ExclusiveInv'
  OBVIOUS
<1> USE LeaseConstants DEF LeaseTypeOK, ElectorStates, Rows, Holds, NoLease, NoHold
<1>1. ASSUME NEW p \in Procs, RunningStep(p) PROVE ExclusiveInv'
  <2>1. CASE Boot(p)
    BY <2>1 DEF Boot, ExclusiveInv, ReadingsPast, HoldPast, HoldsLive, Serving
  <2>2. CASE ReadClock(p)
    BY <2>2 DEF ReadClock, clock, ExclusiveInv, ReadingsPast, HoldPast, HoldsLive, Serving
  <2>3. CASE ClaimAbsent(p)
    BY <2>3 DEF ClaimAbsent, Locked, ExclusiveInv, ReadingsPast, HoldPast, HoldsLive, Serving
  <2>4. CASE Renew(p)
    <3>1. lease.fence \in Nat /\ Acquire(p, lease.fence)
      BY <2>4 DEF Renew
    <3>2. \A q \in Procs \ {p} : ~HoldsLive(q)
      BY <2>4 DEF Renew, ExclusiveInv
    <3>3. UNCHANGED <<now, skew, is_leader, life>> /\ pc[p] \in {"claiming", "inserting"}
      BY <2>4 DEF Renew, Locked
    <3>4. QED
      BY <3>1, <3>2, <3>3, ExclusiveAcquire
  <2>5. CASE TakeOver(p)
    <3>1. NextFence \in Nat /\ Acquire(p, NextFence)
      BY <2>5 DEF TakeOver, NextFence
    <3>2. lease.expires <= now + Skew
      BY <2>5 DEF TakeOver, Lapsed, Locked, ExclusiveInv, ReadingsPast
    <3>3. \A q \in Procs : ~HoldsLive(q)
      BY <3>2 DEF ExclusiveInv, HoldsLive, Serving
    <3>4. UNCHANGED <<now, skew, is_leader, life>> /\ pc[p] \in {"claiming", "inserting"}
      BY <2>5 DEF TakeOver, Locked
    <3>5. QED
      BY <3>1, <3>3, <3>4, ExclusiveAcquire
  <2>6. CASE Insert(p)
    <3>1. Acquire(p, 1) /\ UNCHANGED <<now, skew, is_leader, life>> /\ pc[p] \in {"claiming", "inserting"}
      BY <2>6 DEF Insert
    <3>2. \A q \in Procs : ~HoldsLive(q)
      BY <2>6 DEF Insert, ExclusiveInv
    <3>3. QED
      BY <3>1, <3>2, ExclusiveAcquire
  <2>7. CASE Refused(p)
    BY <2>7, TTLIsWide DEF Refused, Locked, EndClaim, ExclusiveInv, ReadingsPast, HoldPast,
                            HoldsLive, Serving
  <2>8. CASE InsertRaceLost(p)
    BY <2>8, TTLIsWide DEF InsertRaceLost, EndClaim, ExclusiveInv, ReadingsPast, HoldPast,
                            HoldsLive, Serving
  <2>9. CASE ClaimFails(p)
    <3>1. CASE UNCHANGED lease
      BY <2>9, <3>1 DEF ClaimFails, EndClaim, ExclusiveInv, ReadingsPast, HoldPast,
                        HoldsLive, Serving
    <3>2. CASE CommitUnanswered(p)
      BY <2>9, <3>2, ExclusiveUnanswered, Zenon
    <3>3. QED
      BY <2>9, <3>1, <3>2 DEF ClaimFails
  <2>10. CASE ApplyWon(p)
    BY <2>10 DEF ApplyWon, NextRound, EnterLoop, ExclusiveInv, ReadingsPast, HoldPast, HoldsLive, Serving
  <2>11. CASE ApplyLost(p)
    BY <2>11 DEF ApplyLost, ExclusiveInv, ReadingsPast, HoldPast, HoldsLive, Serving
  <2>12. CASE ApplyFollower(p) \/ StandDown(p)
    BY <2>12 DEF ApplyFollower, StandDown, NextRound, EnterLoop, ExclusiveInv,
                 ReadingsPast, HoldPast, HoldsLive, Serving
  <2>13. CASE Crash(p)
    BY <2>13, TTLIsWide DEF Crash, EndClaim, ExclusiveInv, ReadingsPast, HoldPast,
                            HoldsLive, Serving
  <2>14. CASE Stall(p) \/ FencedStep(p)
    BY <2>14 DEF Stall, FencedStep, ReadFence, AssertLeaseFence, FenceRefused,
                 EndTransaction, electorVars, ExclusiveInv, ReadingsPast, HoldPast, HoldsLive, Serving
  <2>15. QED
    BY <1>1, <2>1, <2>2, <2>3, <2>4, <2>5, <2>6, <2>7, <2>8, <2>9, <2>10,
       <2>11, <2>12, <2>13, <2>14
       DEF RunningStep, ClaimLease, InsertLease, Apply
<1>2. ASSUME NEW p \in Procs, StoppingStep(p) PROVE ExclusiveInv'
  <2>1. CASE StopElector(p)
    BY <2>1 DEF StopElector, ExclusiveInv, ReadingsPast, HoldPast, HoldsLive, Serving
  <2>2. CASE LeaveLoop(p)
    BY <2>2 DEF LeaveLoop, ExclusiveInv, ReadingsPast, HoldPast, HoldsLive, Serving
  <2>3. CASE Join(p) \/ JoinTimesOut(p)
    BY <2>3 DEF Join, JoinTimesOut, Shutdown, ExclusiveInv, ReadingsPast, HoldPast, HoldsLive, Serving
  <2>4. CASE ReleaseLease(p)
    BY <2>4 DEF ReleaseLease, Shutdown, ExclusiveInv, ReadingsPast, HoldPast, HoldsLive, Serving
  <2>5. CASE NothingToRelease(p) \/ ReleaseFails(p)
    BY <2>5 DEF NothingToRelease, ReleaseFails, Shutdown, ExclusiveInv, ReadingsPast, HoldPast, HoldsLive, Serving
  <2>6. CASE ForgetLeadership(p)
    BY <2>6 DEF ForgetLeadership, Shutdown, ExclusiveInv, ReadingsPast, HoldPast, HoldsLive, Serving
  <2>7. CASE StopScheduler(p)
    BY <2>7 DEF StopScheduler, Shutdown, ExclusiveInv, ReadingsPast, HoldPast, HoldsLive, Serving
  <2>8. QED
    BY <1>2, <2>1, <2>2, <2>3, <2>4, <2>5, <2>6, <2>7
       DEF StoppingStep, PromptStop
<1>3. CASE Tick
  BY <1>3 DEF Tick, electorVars, ExclusiveInv, ReadingsPast, HoldPast, HoldsLive, Serving
<1>4. CASE UNCHANGED leaseVars
  BY <1>4 DEF leaseVars, ExclusiveInv, ReadingsPast, HoldPast, HoldsLive, Serving
<1>5. QED
  BY <1>1, <1>2, <1>3, <1>4 DEF LeaseNext, LeaseNextNoRelease

\* No split brain within the TTL: two processes that have not been told to stop
\* never both lead on a hold that no clock can call expired.  Stalls, crashes,
\* database errors (also of a commit that took effect) and the shutdown of any
\* process, in the middle of its round or not, are all allowed.
THEOREM LeaseIsExclusive == LeaseSpec => []LeaseExclusive
<1>1. LeaseInit => LeaseTypeOK /\ ExclusiveInv
  BY LeaseTypeInit, ExclusiveInvInit
<1>2. LeaseTypeOK /\ ExclusiveInv /\ [LeaseNext]_leaseVars
        => LeaseTypeOK' /\ ExclusiveInv'
  BY LeaseTypeStep, ExclusiveInvStep
<1>3. ExclusiveInv => LeaseExclusive
  BY DEF ExclusiveInv, HoldsLive, LeadsLive, LeaseExclusive
<1>4. QED
  BY <1>1, <1>2, <1>3, PTL DEF LeaseSpec
==============================================================================
