---------------------------- MODULE QueueProofs -----------------------------
(***************************************************************************)
(* Each Redis command of RedisQueue keeps the types of the queue.          *)
(***************************************************************************)
EXTENDS RedisQueue, SequenceTheorems, TLAPS

\* A list to which an element is added twice, at either end, is a list.
LEMMA TwiceTypes ==
    ASSUME NEW S, NEW s \in Seq(S), NEW x \in S
    PROVE  s \o <<x, x>> \in Seq(S) /\ <<x, x>> \o s \in Seq(S)
<1>1. <<x, x>> \in Seq(S)
  OBVIOUS
<1> DEFINE t == <<x, x>>
<1> HIDE DEF t
<1>2. s \o t \in Seq(S) /\ t \o s \in Seq(S)
  BY <1>1, ConcatProperties DEF t
<1>3. QED
  BY <1>2 DEF t

\* The commands of the queue module that take a job keep QueueTypeOK.
LEMMA QueueCommandTypes ==
    ASSUME QueueTypeOK, NEW j \in Jobs,
           \/ Enqueue(j) \/ EnqueueDelayed(j) \/ PromoteDelayed(j) \/ Pop(j)
           \/ RecordInflight(j) \/ RemoveInflight(j) \/ Expire(j)
           \/ EnqueueTwice(j) \/ UNCHANGED queueVars
    PROVE  QueueTypeOK'
<1>1. CASE Enqueue(j)
  BY <1>1 DEF QueueTypeOK, Enqueue, recoverVars
<1>2. CASE EnqueueDelayed(j)
  BY <1>2 DEF QueueTypeOK, EnqueueDelayed, recoverVars
<1>3. CASE PromoteDelayed(j)
  BY <1>3 DEF QueueTypeOK, PromoteDelayed, recoverVars
<1>4. CASE Pop(j)
  BY <1>4 DEF QueueTypeOK, Pop, recoverVars
<1>5. CASE RecordInflight(j)
  BY <1>5 DEF QueueTypeOK, RecordInflight, recoverVars, Entries
<1>6. CASE RemoveInflight(j)
  BY <1>6 DEF QueueTypeOK, RemoveInflight, recoverVars, Entries
<1>7. CASE Expire(j)
  BY <1>7 DEF QueueTypeOK, Expire, recoverVars, Entries
<1>8. CASE UNCHANGED queueVars
  BY <1>8 DEF QueueTypeOK, queueVars
<1>9. CASE EnqueueTwice(j)
  BY <1>9 DEF QueueTypeOK, EnqueueTwice, recoverVars
<1>10. QED
  BY <1>1, <1>2, <1>3, <1>4, <1>5, <1>6, <1>7, <1>8, <1>9

\* The steps of a stale-recovery thread keep QueueTypeOK.
LEMMA RecoverTypes ==
    ASSUME QueueTypeOK, NEW h \in Hosts,
           \/ RecoverStep(h) \/ RemoveStaleReplyLost(h) \/ PushStaleFails(h)
           \/ RecovererDies(h)
    PROVE  QueueTypeOK'
<1>1. CASE ScanInflight(h)
  BY <1>1 DEF QueueTypeOK, ScanInflight, Stale
<1>2. CASE RemoveStale(h)
  BY <1>2 DEF QueueTypeOK, RemoveStale, HdelStale, Entries
<1>3. CASE PushStale(h)
  BY <1>3 DEF QueueTypeOK, PushStale
<1>4. CASE RemoveStaleReplyLost(h)
  BY <1>4 DEF QueueTypeOK, RemoveStaleReplyLost, Entries
<1>5. CASE PushStaleFails(h)
  <2>1. removed[h] \in Jobs /\ queue \in Seq(Jobs)
    BY <1>5 DEF QueueTypeOK, PushStaleFails
  <2> DEFINE twice == queue \o <<removed[h], removed[h]>>
  <2>2. twice \in Seq(Jobs)
    BY <2>1, TwiceTypes
  <2> HIDE DEF twice
  <2>3. queue' = twice \/ queue' = queue
    BY <1>5, Zenon DEF PushStaleFails, twice
  <2>4. queue' \in Seq(Jobs)
    BY <2>1, <2>2, <2>3
  <2>5. QED
    BY <1>5, <2>4 DEF QueueTypeOK, PushStaleFails
<1>6. CASE RecovererDies(h)
  BY <1>6 DEF QueueTypeOK, RecovererDies
<1>7. QED
  BY <1>1, <1>2, <1>3, <1>4, <1>5, <1>6 DEF RecoverStep

\* A prefix or a suffix of the dead letter list is a list of letters.
LEMMA LettersSubSeq ==
    ASSUME NEW s \in Seq(Letters), NEW m \in 1..(Len(s) + 1), NEW n \in (m - 1)..Len(s)
    PROVE  SubSeq(s, m, n) \in Seq(Letters)
BY SubSeqProperties

\* Dead letter operations keep QueueTypeOK.
LEMMA DeadLetterTypes ==
    ASSUME QueueTypeOK,
           \/ OperatorStep
           \/ \E j \in Jobs, p \in {"kept", "missing"} :
                 PushDeadLetter(j, p) \/ PushDeadLetterTwice(j, p)
    PROVE  QueueTypeOK'
<1>1. ASSUME NEW j \in Jobs, NEW p \in {"kept", "missing"},
             PushDeadLetter(j, p) \/ PushDeadLetterTwice(j, p)
      PROVE  QueueTypeOK'
  <2>1. Letter(j, p) \in Letters
    BY DEF Letter, Letters
  <2> DEFINE once == <<Letter(j, p)>> \o dlq
             twice == <<Letter(j, p), Letter(j, p)>> \o dlq
  <2>2. once \in Seq(Letters) /\ twice \in Seq(Letters)
    <3>1. dlq \in Seq(Letters)
      BY DEF QueueTypeOK
    <3>2. once \in Seq(Letters)
      BY <2>1, <3>1
    <3>3. twice \in Seq(Letters)
      BY <2>1, <3>1, TwiceTypes
    <3>4. QED
      BY <3>2, <3>3
  <2> HIDE DEF once, twice
  <2>3. dlq' \in Seq(Letters)
    <3>1. dlq' = once \/ dlq' = twice
      BY <1>1 DEF PushDeadLetter, PushDeadLetterTwice, once, twice
    <3>2. QED
      BY <2>2, <3>1
  <2>4. QED
    BY <1>1, <2>3 DEF QueueTypeOK, PushDeadLetter, PushDeadLetterTwice, recoverVars
<1>2. ASSUME NEW j \in Jobs, ReplayDeadLetter(j)
      PROVE  QueueTypeOK'
  BY <1>2, QueueCommandTypes DEF ReplayDeadLetter
<1>3. ASSUME NEW j \in Jobs, RemoveDeadLetter(j)
      PROVE  QueueTypeOK'
  <2>1. PICK i \in 1..Len(dlq) :
            dlq' = SubSeq(dlq, 1, i - 1) \o SubSeq(dlq, i + 1, Len(dlq))
    BY <1>3, Zenon DEF RemoveDeadLetter
  <2>2. /\ SubSeq(dlq, 1, i - 1) \in Seq(Letters)
        /\ SubSeq(dlq, i + 1, Len(dlq)) \in Seq(Letters)
    BY LettersSubSeq DEF QueueTypeOK
  <2>3. dlq' \in Seq(Letters)
    BY <2>1, <2>2
  <2>4. QED
    BY <1>3, <2>3 DEF QueueTypeOK, RemoveDeadLetter, recoverVars
<1>4. CASE DiscardDeadLetters
  BY <1>4 DEF QueueTypeOK, DiscardDeadLetters, recoverVars
<1>5. QED
  BY <1>1, <1>2, <1>3, <1>4 DEF OperatorStep
=============================================================================
