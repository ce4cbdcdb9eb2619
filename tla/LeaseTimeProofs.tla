--------------------------- MODULE LeaseTimeProofs ---------------------------
(***************************************************************************)
(* What a process that keeps its heartbeat can rely on in BackgroundLease: *)
(* it is not deposed, and a lapsed lease is soon taken over.               *)
(***************************************************************************)
EXTENDS LeaseExclusionProofs

(***************************************************************************)
(* A punctual leader.  Its lease runs at least TTL - HB - Skew past the    *)
(* moment of its next round, so that no reading can call it lapsed.        *)
(***************************************************************************)
Margin == TTL - HB - Skew

PunctualAt(p) ==
    /\ pc[p] \in {"off", "start", "standdown"} => ~is_leader[p]
    /\ ~Serving(p) => p \notin onTime
    /\ p \in onTime /\ is_leader[p] /\ pc[p] = "wait" =>
         lease.owner = p /\ now <= due[p] /\ lease.expires >= due[p] + Margin
    /\ p \in onTime /\ is_leader[p] /\ pc[p] \in {"claiming", "inserting"} =>
         lease.owner = p /\ lease.expires >= now + Margin
    /\ p \in onTime /\ pc[p] = "won" =>
         lease.owner = p /\ lease.expires >= now + HB + Margin

PunctualInv == ReadingsPast /\ \A p \in Procs : PunctualAt(p)

LEMMA MarginOutlastsSkew == Margin \in Int /\ Margin > Skew
  BY LeaseConstants, TTLIsWide DEF Margin

LEMMA PunctualInvInit == LeaseInit => PunctualInv
  BY DEF LeaseInit, PunctualInv, PunctualAt, ReadingsPast, Serving

\* A claim of p on a row that is p's, absent, or lapsed for every clock.
LEMMA PunctualAcquire ==
  ASSUME LeaseTypeOK, PunctualInv, NEW p \in Procs, NEW f \in Nat, Acquire(p, f),
         UNCHANGED <<now, skew, is_leader, due, life>>,
         \A q \in Procs \ {p} : lease.owner # q \/ lease.expires <= now + Skew
  PROVE  PunctualInv'
<1>5. Acquired(p, f)
  BY AcquireFacts
<1>1. ReadingsPast'
  BY <1>5 DEF Acquired, PunctualInv, ReadingsPast
<1>2. PunctualAt(p)'
  BY <1>5, LeaseConstants DEF Acquired, PunctualAt, Margin, LeaseTypeOK, Serving
<1>3. ASSUME NEW q \in Procs \ {p} PROVE PunctualAt(q)'
  <2>1. /\ PunctualAt(q) /\ pc'[q] = pc[q]
        /\ q \in onTime' <=> q \in onTime
    BY <1>3, <1>5 DEF Acquired, PunctualInv
  <2>2. ~(q \in onTime /\ is_leader[q] /\ pc[q] \in {"wait", "claiming", "inserting"})
    BY <1>3, <2>1, MarginOutlastsSkew, LeaseConstants
       DEF PunctualAt, LeaseTypeOK, Rows
  <2>3. ~(q \in onTime /\ pc[q] = "won")
    BY <1>3, <2>1, MarginOutlastsSkew, LeaseConstants
       DEF PunctualAt, LeaseTypeOK, Rows
  <2>4. QED
    BY <2>1, <2>2, <2>3 DEF PunctualAt, Serving
<1>4. QED
  BY <1>1, <1>2, <1>3 DEF PunctualInv

\* A claim of p that writes the row although it raised: p itself is not on
\* time any more, and nobody else owned the row in time.
LEMMA PunctualUnanswered ==
  ASSUME LeaseTypeOK, PunctualInv, NEW p \in Procs, ClaimFails(p),
         CommitUnanswered(p)
  PROVE  PunctualInv'
<1> USE LeaseConstants, MarginOutlastsSkew DEF LeaseTypeOK, Rows
<1>1. /\ UNCHANGED <<now, skew, is_leader, due, life>>
      /\ pc' = [pc EXCEPT ![p] = "failed"] /\ read' = [read EXCEPT ![p] = 0]
      /\ pc[p] \in {"claiming", "inserting"} /\ onTime' = onTime \ {p}
  BY DEF ClaimFails, EndClaim
<1>2. ReadingsPast'
  BY <1>1 DEF PunctualInv, ReadingsPast
<1>3. PunctualAt(p)'
  BY <1>1 DEF PunctualAt
<1>7. WrittenUnanswered(p)
  BY UnansweredFacts
<1>4. \A q \in Procs \ {p} : lease.owner # q \/ lease.expires <= now + Skew
  BY <1>1, <1>7 DEF WrittenUnanswered, PunctualInv, ReadingsPast, NoLease
<1>5. ASSUME NEW q \in Procs \ {p} PROVE PunctualAt(q)'
  <2>1. /\ PunctualAt(q) /\ pc'[q] = pc[q]
        /\ q \in onTime' <=> q \in onTime
    BY <1>1, <1>5 DEF PunctualInv
  <2>2. ~(q \in onTime /\ is_leader[q] /\ pc[q] \in {"wait", "claiming", "inserting"})
    BY <1>4, <1>5, <2>1 DEF PunctualAt
  <2>3. ~(q \in onTime /\ pc[q] = "won")
    BY <1>4, <1>5, <2>1 DEF PunctualAt
  <2>4. QED
    BY <1>1, <2>1, <2>2, <2>3 DEF PunctualAt, Serving
<1>6. QED
  BY <1>2, <1>3, <1>5 DEF PunctualInv

\* Every step keeps a punctual leader's lease ahead of every clock.
LEMMA PunctualInvStep ==
  LeaseTypeOK /\ PunctualInv /\ [LeaseNext]_leaseVars => PunctualInv'
<1> SUFFICES ASSUME LeaseTypeOK, PunctualInv, [LeaseNext]_leaseVars
             PROVE  PunctualInv'
  OBVIOUS
<1> USE LeaseConstants, MarginOutlastsSkew DEF LeaseTypeOK, ElectorStates, Rows, NoLease
<1>1. ASSUME NEW p \in Procs, RunningStep(p) PROVE PunctualInv'
  <2>1. CASE Boot(p)
    BY <2>1 DEF Boot, PunctualInv, PunctualAt, ReadingsPast,
                Serving
  <2>2. CASE ReadClock(p)
    BY <2>2 DEF ReadClock, clock, PunctualInv, PunctualAt, ReadingsPast,
                Serving
  <2>3. CASE ClaimAbsent(p)
    BY <2>3 DEF ClaimAbsent, Locked, PunctualInv, PunctualAt, ReadingsPast,
                Serving
  <2>4. CASE Renew(p)
    <3>1. lease.fence \in Nat /\ Acquire(p, lease.fence)
      BY <2>4 DEF Renew
    <3>2. lease.owner = p /\ UNCHANGED <<now, skew, is_leader, due, life>>
      BY <2>4 DEF Renew, Locked
    <3>3. QED
      BY <3>1, <3>2, PunctualAcquire
  <2>5. CASE TakeOver(p)
    <3>1. NextFence \in Nat /\ Acquire(p, NextFence)
      BY <2>5 DEF TakeOver, NextFence
    <3>2. lease.expires <= now + Skew
      BY <2>5 DEF TakeOver, Lapsed, Locked, PunctualInv, ReadingsPast
    <3>3. UNCHANGED <<now, skew, is_leader, due, life>>
      BY <2>5 DEF TakeOver, Locked
    <3>4. QED
      BY <3>1, <3>2, <3>3, PunctualAcquire
  <2>6. CASE Insert(p)
    <3>1. /\ Acquire(p, 1) /\ UNCHANGED <<now, skew, is_leader, due, life>>
          /\ lease.owner = NoProc
      BY <2>6 DEF Insert
    <3>2. QED
      BY <3>1, PunctualAcquire
  <2>7. CASE Refused(p)
    BY <2>7 DEF Refused, Locked, EndClaim, NoteTime, PunctualInv, PunctualAt, ReadingsPast,
                Serving
  <2>8. CASE InsertRaceLost(p)
    BY <2>8 DEF InsertRaceLost, EndClaim, PunctualInv, PunctualAt, ReadingsPast,
                Serving
  <2>9. CASE ClaimFails(p)
    <3>1. CASE UNCHANGED lease
      BY <2>9, <3>1 DEF ClaimFails, EndClaim, PunctualInv, PunctualAt, ReadingsPast,
                        Serving
    <3>2. CASE CommitUnanswered(p)
      BY <2>9, <3>2, PunctualUnanswered
    <3>3. QED
      BY <2>9, <3>1, <3>2 DEF ClaimFails
  <2>10. CASE ApplyWon(p)
    BY <2>10 DEF ApplyWon, NextRound, EnterLoop, PunctualInv, PunctualAt, ReadingsPast,
                Serving
  <2>11. CASE ApplyLost(p)
    BY <2>11 DEF ApplyLost, PunctualInv, PunctualAt, ReadingsPast,
                Serving
  <2>12. CASE ApplyFollower(p)
    BY <2>12 DEF ApplyFollower, NextRound, EnterLoop, PunctualInv, PunctualAt, ReadingsPast,
                Serving
  <2>13. CASE StandDown(p)
    BY <2>13 DEF StandDown, NextRound, EnterLoop, PunctualInv, PunctualAt, ReadingsPast,
                Serving
  <2>14. CASE Crash(p)
    BY <2>14 DEF Crash, EndClaim, PunctualInv, PunctualAt, ReadingsPast,
                Serving
  <2>15. CASE Stall(p) \/ FencedStep(p)
    BY <2>15 DEF Stall, FencedStep, ReadFence, AssertLeaseFence, FenceRefused,
                 EndTransaction, electorVars, PunctualInv, PunctualAt, ReadingsPast,
                Serving
  <2>16. QED
    BY <1>1, <2>1, <2>2, <2>3, <2>4, <2>5, <2>6, <2>7, <2>8, <2>9, <2>10,
       <2>11, <2>12, <2>13, <2>14, <2>15
       DEF RunningStep, ClaimLease, InsertLease, Apply
<1>2. ASSUME NEW p \in Procs, StoppingStep(p) PROVE PunctualInv'
  <2>1. CASE StopElector(p)
    BY <2>1 DEF StopElector, PunctualInv, PunctualAt, ReadingsPast, Serving
  <2>2. CASE LeaveLoop(p)
    BY <2>2 DEF LeaveLoop, PunctualInv, PunctualAt, ReadingsPast, Serving
  <2>3. CASE Join(p) \/ JoinTimesOut(p)
    BY <2>3 DEF Join, JoinTimesOut, Shutdown, PunctualInv, PunctualAt, ReadingsPast, Serving
  <2>4. CASE ReleaseLease(p)
    BY <2>4 DEF ReleaseLease, Shutdown, PunctualInv, PunctualAt, ReadingsPast, Serving
  <2>5. CASE NothingToRelease(p) \/ ReleaseFails(p)
    BY <2>5 DEF NothingToRelease, ReleaseFails, Shutdown, PunctualInv, PunctualAt, ReadingsPast, Serving
  <2>6. CASE ForgetLeadership(p)
    BY <2>6 DEF ForgetLeadership, Shutdown, PunctualInv, PunctualAt, ReadingsPast, Serving
  <2>7. CASE StopScheduler(p)
    BY <2>7 DEF StopScheduler, Shutdown, PunctualInv, PunctualAt, ReadingsPast, Serving
  <2>8. QED
    BY <1>2, <2>1, <2>2, <2>3, <2>4, <2>5, <2>6, <2>7
       DEF StoppingStep, PromptStop
<1>3. CASE Tick
  BY <1>3 DEF Tick, electorVars, PunctualInv, PunctualAt, ReadingsPast,
                Serving
<1>4. CASE UNCHANGED leaseVars
  BY <1>4 DEF leaseVars, PunctualInv, PunctualAt, ReadingsPast,
                Serving
<1>5. QED
  BY <1>1, <1>2, <1>3, <1>4 DEF LeaseNext, LeaseNextNoRelease

\* A leader that keeps its heartbeat is never deposed, for every TTL that
\* outlasts one interval and the skew of two clocks.
THEOREM PunctualLeaderKeepsLease == LeaseSpec => []PunctualLeaderOwns
<1>1. LeaseInit => LeaseTypeOK /\ PunctualInv
  BY LeaseTypeInit, PunctualInvInit
<1>2. LeaseTypeOK /\ PunctualInv /\ [LeaseNext]_leaseVars
        => LeaseTypeOK' /\ PunctualInv'
  BY LeaseTypeStep, PunctualInvStep
<1>3. LeaseTypeOK /\ PunctualInv => PunctualLeaderOwns
  BY DEF LeaseTypeOK, PunctualInv, PunctualAt, PunctualLeaderOwns
<1>4. QED
  BY <1>1, <1>2, <1>3, PTL DEF LeaseSpec

(***************************************************************************)
(* Failover.  Without release the expiry of the row never moves back (a    *)
(* renewal's reading is not older than the one before it), so what a       *)
(* punctual round saw is still true at the next.                           *)
(***************************************************************************)
FailoverAt(p) ==
    /\ pc[p] \in {"off", "start", "failed", "standdown"}
         => p \notin onTime
    /\ lease.owner = p => lease.expires <= now + skew[p] + TTL
    /\ pc[p] \in {"claiming", "inserting"} => read[p] <= now + skew[p]
    /\ lease.owner = p /\ pc[p] = "claiming" => lease.expires <= read[p] + TTL
    /\ p \in onTime /\ pc[p] \in {"won", "lost"} =>
         lease # NoLease /\ lease.expires >= now - Skew
    /\ p \in onTime /\ pc[p] = "wait" =>
         /\ lease # NoLease /\ now <= due[p]
         /\ lease.expires >= due[p] - HB - Skew

FailoverInv == RowWellFormed /\ \A p \in Procs : FailoverAt(p)

LEMMA FailoverInvInit == LeaseInit => FailoverInv
  BY LeaseConstants DEF LeaseInit, FailoverInv, FailoverAt, RowWellFormed, NoLease

\* A successful claim that does not move the expiry back.
LEMMA FailoverAcquire ==
  ASSUME LeaseTypeOK, FailoverInv, NEW p \in Procs, NEW f \in Nat, Acquire(p, f),
         f >= 1, pc[p] \in {"claiming", "inserting"},
         UNCHANGED <<now, skew, due>>,
         lease = NoLease \/ lease.expires <= read[p] + TTL
  PROVE  FailoverInv'
<1> USE LeaseConstants DEF LeaseTypeOK, Rows
<1>1. Acquired(p, f)
  BY AcquireFacts
<1>2. RowWellFormed' /\ lease' # NoLease
  BY <1>1 DEF Acquired, RowWellFormed, NoLease
<1>3. FailoverAt(p)'
  <2>1. FailoverAt(p) /\ read[p] <= now + skew[p]
    BY DEF FailoverInv, FailoverAt
  <2>2. QED
    BY <1>1, <1>2, <2>1 DEF Acquired, FailoverAt
<1>4. ASSUME NEW q \in Procs \ {p} PROVE FailoverAt(q)'
  <2>1. FailoverAt(q)
    BY DEF FailoverInv
  <2>2. /\ lease'.owner = p /\ lease'.expires = read[p] + TTL
        /\ pc'[q] = pc[q] /\ read'[q] = read[q] /\ (q \in onTime' <=> q \in onTime)
    BY <1>1 DEF Acquired
  <2>3. QED
    BY <1>2, <2>1, <2>2 DEF FailoverAt
<1>5. QED
  BY <1>2, <1>3, <1>4 DEF FailoverInv

\* A claim of p that writes the row although it raised.
LEMMA FailoverUnanswered ==
  ASSUME LeaseTypeOK, FailoverInv, NEW p \in Procs, ClaimFails(p),
         CommitUnanswered(p)
  PROVE  FailoverInv'
<1> USE LeaseConstants DEF LeaseTypeOK, Rows
<1>8. WrittenUnanswered(p)
  BY UnansweredFacts
<1>1. /\ UNCHANGED <<now, skew, due>>
      /\ pc' = [pc EXCEPT ![p] = "failed"] /\ read' = [read EXCEPT ![p] = 0]
      /\ pc[p] \in {"claiming", "inserting"} /\ onTime' = onTime \ {p}
  BY DEF ClaimFails, EndClaim
<1>2. RowWellFormed'
  BY <1>8 DEF WrittenUnanswered, FailoverInv, RowWellFormed, NoLease
<1>3. lease' # NoLease
  BY <1>8 DEF WrittenUnanswered, NoLease
<1>4. lease = NoLease \/ lease.expires <= read[p] + TTL
  <2>1. FailoverAt(p)
    BY DEF FailoverInv
  <2>2. QED
    BY <1>1, <1>8, <2>1 DEF WrittenUnanswered, FailoverAt
<1>9. lease'.owner = p /\ lease'.expires = read[p] + TTL
  BY <1>8 DEF WrittenUnanswered
<1>5. FailoverAt(p)'
  <2>1. read[p] <= now + skew[p]
    BY <1>1 DEF FailoverInv, FailoverAt
  <2>2. QED
    BY <1>1, <1>3, <1>9, <2>1 DEF FailoverAt
<1>6. ASSUME NEW q \in Procs \ {p} PROVE FailoverAt(q)'
  <2>1. FailoverAt(q)
    BY DEF FailoverInv
  <2>2. QED
    BY <1>1, <1>3, <1>4, <1>9, <2>1 DEF FailoverAt
<1>7. QED
  BY <1>2, <1>5, <1>6 DEF FailoverInv

\* Every step without release keeps the expiry where a punctual round saw it.
LEMMA FailoverInvStep ==
  LeaseTypeOK /\ FailoverInv /\ [LeaseNextNoRelease]_leaseVars => FailoverInv'
<1> SUFFICES ASSUME LeaseTypeOK, FailoverInv, [LeaseNextNoRelease]_leaseVars
             PROVE  FailoverInv'
  OBVIOUS
<1> USE LeaseConstants DEF LeaseTypeOK, ElectorStates, Rows, NoLease, RowWellFormed
<1>1. ASSUME NEW p \in Procs, RunningStep(p) PROVE FailoverInv'
  <2>1. CASE Boot(p)
    BY <2>1 DEF Boot, FailoverInv, FailoverAt
  <2>2. CASE ReadClock(p)
    BY <2>2 DEF ReadClock, clock, FailoverInv, FailoverAt
  <2>3. CASE ClaimAbsent(p)
    BY <2>3 DEF ClaimAbsent, Locked, FailoverInv, FailoverAt
  <2>4. CASE Renew(p)
    <3>1. /\ lease.fence \in Nat /\ lease.fence >= 1 /\ Acquire(p, lease.fence)
          /\ lease.owner = p /\ pc[p] = "claiming" /\ UNCHANGED <<now, skew, due>>
      BY <2>4 DEF Renew, Locked, FailoverInv
    <3>2. lease.expires <= read[p] + TTL
      BY <3>1 DEF FailoverInv, FailoverAt
    <3>3. QED
      BY <3>1, <3>2, FailoverAcquire
  <2>5. CASE TakeOver(p)
    <3>1. /\ NextFence \in Nat /\ NextFence >= 1 /\ Acquire(p, NextFence)
          /\ pc[p] = "claiming" /\ UNCHANGED <<now, skew, due>>
      BY <2>5 DEF TakeOver, Locked, NextFence
    <3>2. lease.expires <= read[p] + TTL
      BY <2>5 DEF TakeOver, Lapsed
    <3>3. QED
      BY <3>1, <3>2, FailoverAcquire
  <2>6. CASE Insert(p)
    BY <2>6, FailoverAcquire DEF Insert
  <2>7. CASE Refused(p)
    BY <2>7 DEF Refused, Lapsed, Locked, EndClaim, NoteTime, clock, FailoverInv, FailoverAt
  <2>8. CASE InsertRaceLost(p)
    BY <2>8 DEF InsertRaceLost, EndClaim, FailoverInv, FailoverAt
  <2>9. CASE ClaimFails(p)
    <3>1. CASE UNCHANGED lease
      BY <2>9, <3>1 DEF ClaimFails, EndClaim, FailoverInv, FailoverAt
    <3>2. CASE CommitUnanswered(p)
      BY <2>9, <3>2, FailoverUnanswered
    <3>3. QED
      BY <2>9, <3>1, <3>2 DEF ClaimFails
  <2>10. CASE ApplyWon(p)
    BY <2>10 DEF ApplyWon, NextRound, EnterLoop, FailoverInv, FailoverAt
  <2>11. CASE ApplyLost(p)
    BY <2>11 DEF ApplyLost, FailoverInv, FailoverAt
  <2>12. CASE ApplyFollower(p)
    BY <2>12 DEF ApplyFollower, NextRound, EnterLoop, FailoverInv, FailoverAt
  <2>13. CASE StandDown(p)
    BY <2>13 DEF StandDown, NextRound, EnterLoop, FailoverInv, FailoverAt
  <2>14. CASE Crash(p)
    BY <2>14 DEF Crash, EndClaim, FailoverInv, FailoverAt
  <2>15. CASE Stall(p) \/ FencedStep(p)
    BY <2>15 DEF Stall, FencedStep, ReadFence, AssertLeaseFence, FenceRefused,
                 EndTransaction, electorVars, FailoverInv, FailoverAt
  <2>16. QED
    BY <1>1, <2>1, <2>2, <2>3, <2>4, <2>5, <2>6, <2>7, <2>8, <2>9, <2>10,
       <2>11, <2>12, <2>13, <2>14, <2>15
       DEF RunningStep, ClaimLease, InsertLease, Apply
<1>2. CASE Tick
  BY <1>2 DEF Tick, electorVars, FailoverInv, FailoverAt
<1>3. CASE UNCHANGED leaseVars
  BY <1>3 DEF leaseVars, FailoverInv, FailoverAt
<1>4. QED
  BY <1>1, <1>2, <1>3 DEF LeaseNextNoRelease

\* While some process keeps its heartbeat and no row is deleted, the lease is
\* never left expired for longer than one interval plus the skew.
THEOREM FailoverIsBounded == LeaseSpecNoRelease => []FailoverBound
<1>1. LeaseInit => LeaseTypeOK /\ FailoverInv
  BY LeaseTypeInit, FailoverInvInit
<1>2. LeaseTypeOK /\ FailoverInv /\ [LeaseNextNoRelease]_leaseVars
        => LeaseTypeOK' /\ FailoverInv'
  BY LeaseTypeStep, FailoverInvStep, NoReleaseStep
<1>3. LeaseTypeOK /\ FailoverInv => FailoverBound
  BY LeaseConstants DEF LeaseTypeOK, Rows, FailoverInv, FailoverAt, FailoverBound
<1>4. QED
  BY <1>1, <1>2, <1>3, PTL DEF LeaseSpecNoRelease
==============================================================================
