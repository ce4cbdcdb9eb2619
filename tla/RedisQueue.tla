----------------------------- MODULE RedisQueue -----------------------------
(***************************************************************************)
(* The Redis backend of the distributed job queue                          *)
(* (AINDY/core/distributed_queue.py): the main list, the delayed sorted    *)
(* set, the in-flight hash and the dead letter list, and every command     *)
(* sequence the backend issues on them.  One action is one Redis command   *)
(* (a Lua script is one command); a method that issues several is several  *)
(* actions, between which any other client may run.  A command whose reply *)
(* is lost is retried (_redis_retry), so that it may be executed twice, or *)
(* executed although the method raises.                                    *)
(*                                                                         *)
(* A message is the id of its job: the worker reads everything else from   *)
(* the database.  The age of an in-flight entry is abstracted to fresh or  *)
(* stale (older than the visibility timeout).                              *)
(***************************************************************************)
EXTENDS Integers, Sequences, FiniteSets, Functions

CONSTANTS
    Jobs,           \* job ids
    NoJob,
    Hosts,          \* worker processes, each with a stale-recovery thread
    MaxQueueSize

ASSUME QueueConstants ==
    /\ NoJob \notin Jobs /\ IsFiniteSet(Jobs)
    /\ MaxQueueSize \in Nat \ {0}

VARIABLES
    queue,      \* aindy:jobs, oldest message first
    delayed,    \* delayed[j]: messages of j in aindy:jobs:delayed
    inflight,   \* inflight[j]: the entry of j in the in-flight hash
    dlq,        \* aindy:jobs:dead, newest letter first
    snapshot,   \* snapshot[r]: stale entries of r's HGETALL still to visit
    removed     \* removed[r]: the entry r has deleted and is about to push

recoverVars == <<snapshot, removed>>
queueVars == <<queue, delayed, inflight, dlq, snapshot, removed>>

Entries == {"none", "fresh", "stale"}

\* A dead letter: the job and whether its payload was still known.
Letters == [job : Jobs, payload : {"kept", "missing"}]
Letter(j, p) == [job |-> j, payload |-> p]

QueueTypeOK ==
    /\ queue \in Seq(Jobs)
    /\ delayed \in [Jobs -> Nat]
    /\ inflight \in [Jobs -> Entries]
    /\ dlq \in Seq(Letters)
    /\ snapshot \in [Hosts -> SUBSET Jobs]
    /\ removed \in [Hosts -> Jobs \cup {NoJob}]

QueueInit ==
    /\ queue = <<>>
    /\ delayed = [j \in Jobs |-> 0]
    /\ inflight = [j \in Jobs |-> "none"]
    /\ dlq = <<>>
    /\ snapshot = [r \in Hosts |-> {}]
    /\ removed = [r \in Hosts |-> NoJob]

-----------------------------------------------------------------------------
(* Commands.                                                               *)

\* The capacity check of both enqueue scripts: LLEN + ZCARD.
Saturated == Len(queue) + SumFunction(delayed) >= MaxQueueSize

\* The method raises: its command was executed, or it was not.
Unanswered(Command) == Command \/ UNCHANGED queueVars

\* enqueue: one script, LPUSH unless saturated.
Enqueue(j) ==
    /\ ~Saturated
    /\ queue' = Append(queue, j)
    /\ UNCHANGED <<delayed, inflight, dlq, recoverVars>>

\* The script of enqueue is executed, its reply lost, and executed again.
EnqueueTwice(j) ==
    /\ Len(queue) + SumFunction(delayed) + 1 < MaxQueueSize
    /\ queue' = queue \o <<j, j>>
    /\ UNCHANGED <<delayed, inflight, dlq, recoverVars>>

\* enqueue_delayed: one script, ZADD unless saturated.
EnqueueDelayed(j) ==
    /\ ~Saturated
    /\ delayed' = [delayed EXCEPT ![j] = @ + 1]
    /\ UNCHANGED <<queue, inflight, dlq, recoverVars>>

\* Mutant of PromoteDelayed: members are moved without being looked up.
PromoteUnguarded(j) ==
    /\ delayed' = [delayed EXCEPT ![j] = @ - 1]
    /\ queue' = Append(queue, j)
    /\ UNCHANGED <<inflight, dlq, recoverVars>>

\* process_delayed_jobs: one script moves the messages that are due.
PromoteDelayed(j) ==
    /\ delayed[j] > 0
    /\ delayed' = [delayed EXCEPT ![j] = @ - 1]
    /\ queue' = Append(queue, j)
    /\ UNCHANGED <<inflight, dlq, recoverVars>>

\* dequeue, first command: BRPOP.
Pop(j) ==
    /\ queue # <<>> /\ j = Head(queue)
    /\ queue' = Tail(queue)
    /\ UNCHANGED <<delayed, inflight, dlq, recoverVars>>

\* dequeue, second command: HSET of the in-flight entry.
RecordInflight(j) ==
    /\ inflight' = [inflight EXCEPT ![j] = "fresh"]
    /\ UNCHANGED <<queue, delayed, dlq, recoverVars>>

\* HDEL, as ack and fail issue it.
RemoveInflight(j) ==
    /\ inflight' = [inflight EXCEPT ![j] = "none"]
    /\ UNCHANGED <<queue, delayed, dlq, recoverVars>>

\* fail, last command: LPUSH of the dead letter.
PushDeadLetter(j, payload) ==
    /\ dlq' = <<Letter(j, payload)>> \o dlq
    /\ UNCHANGED <<queue, delayed, inflight, recoverVars>>

PushDeadLetterTwice(j, payload) ==
    /\ dlq' = <<Letter(j, payload), Letter(j, payload)>> \o dlq
    /\ UNCHANGED <<queue, delayed, inflight, recoverVars>>

\* The visibility timeout of the entry elapses.
Expire(j) ==
    /\ inflight[j] = "fresh"
    /\ inflight' = [inflight EXCEPT ![j] = "stale"]
    /\ UNCHANGED <<queue, delayed, dlq, recoverVars>>

-----------------------------------------------------------------------------
(* requeue_stale_jobs: HGETALL, then HDEL and LPUSH for every stale entry.  *)

Stale == {j \in Jobs : inflight[j] = "stale"}

ScanInflight(r) ==
    /\ snapshot[r] = {} /\ removed[r] = NoJob
    /\ Stale # {}
    /\ snapshot' = [snapshot EXCEPT ![r] = Stale]
    /\ UNCHANGED <<queue, delayed, inflight, dlq, removed>>

\* Mutant of HdelStale: the number of deleted fields is not looked at.
HdelAlways(r, j) ==
    /\ inflight' = [inflight EXCEPT ![j] = "none"]
    /\ removed' = [removed EXCEPT ![r] = j]

\* HDEL of the field: whoever deletes it pushes the message.
HdelStale(r, j) ==
    /\ inflight' = [inflight EXCEPT ![j] = "none"]
    /\ removed' = [removed EXCEPT ![r] = IF inflight[j] = "none" THEN NoJob ELSE j]

RemoveStale(r) ==
    /\ removed[r] = NoJob
    /\ \E j \in snapshot[r] :
         /\ HdelStale(r, j)
         /\ snapshot' = [snapshot EXCEPT ![r] = @ \ {j}]
    /\ UNCHANGED <<queue, delayed, dlq>>

PushStale(r) ==
    /\ removed[r] # NoJob
    /\ queue' = Append(queue, removed[r])
    /\ removed' = [removed EXCEPT ![r] = NoJob]
    /\ UNCHANGED <<delayed, inflight, dlq, snapshot>>

\* The reply of an executed HDEL is lost and the retried HDEL answers 0, or it
\* raises, executed or not: the entry is skipped.
RemoveStaleReplyLost(r) ==
    /\ removed[r] = NoJob
    /\ \E j \in snapshot[r] :
         /\ inflight' = [inflight EXCEPT ![j] = "none"] \/ UNCHANGED inflight
         /\ snapshot' = [snapshot EXCEPT ![r] = @ \ {j}]
    /\ UNCHANGED <<queue, delayed, dlq, removed>>

\* LPUSH raises without effect, which is logged and skipped, or it is executed
\* twice.
PushStaleFails(r) ==
    /\ removed[r] # NoJob
    /\ queue' = queue \o <<removed[r], removed[r]>> \/ UNCHANGED queue
    /\ removed' = [removed EXCEPT ![r] = NoJob]
    /\ UNCHANGED <<delayed, inflight, dlq, snapshot>>

\* The process of the recovery thread dies.
RecovererDies(r) ==
    /\ snapshot' = [snapshot EXCEPT ![r] = {}]
    /\ removed' = [removed EXCEPT ![r] = NoJob]
    /\ UNCHANGED <<queue, delayed, inflight, dlq>>

RecoverStep(r) == ScanInflight(r) \/ RemoveStale(r) \/ PushStale(r)

-----------------------------------------------------------------------------
(* Dead letters, by an operator.                                           *)

\* i is the place of the newest letter of j.
Newest(i, j) == dlq[i].job = j /\ \A k \in 1..(i - 1) : dlq[k].job # j

Replayable(j) == \E i \in 1..Len(dlq) : Newest(i, j) /\ dlq[i].payload = "kept"

\* replay_dead_letter: enqueue the payload of the newest letter, which stays.
ReplayDeadLetter(j) == Replayable(j) /\ Enqueue(j)

\* remove_dead_letter: LREM of the letter that LRANGE found first.
RemoveDeadLetter(j) ==
    /\ \E i \in 1..Len(dlq) :
         /\ Newest(i, j)
         /\ dlq' = SubSeq(dlq, 1, i - 1) \o SubSeq(dlq, i + 1, Len(dlq))
    /\ UNCHANGED <<queue, delayed, inflight, recoverVars>>

\* drain_dead_letters of the backend: DEL.
DiscardDeadLetters ==
    /\ dlq # <<>>
    /\ dlq' = <<>>
    /\ UNCHANGED <<queue, delayed, inflight, recoverVars>>

OperatorStep ==
    \/ \E j \in Jobs : ReplayDeadLetter(j) \/ RemoveDeadLetter(j)
    \/ DiscardDeadLetters

-----------------------------------------------------------------------------
Queued(j) == \E i \in 1..Len(queue) : queue[i] = j

\* A message of j, or the means to bring one back, is in Redis or in the
\* hands of a stale-recovery thread.
InRedis(j) ==
    \/ Queued(j) \/ delayed[j] > 0 \/ inflight[j] # "none"
    \/ \E i \in 1..Len(dlq) : dlq[i] = Letter(j, "kept")
    \/ \E r \in Hosts : removed[r] = j
=============================================================================
