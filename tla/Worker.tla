------------------------------- MODULE Worker -------------------------------
(***************************************************************************)
(* cmd/worker: each worker takes one job at a time off the queue, reads    *)
(* the list, checks it and records the outcome; beside it, one loop writes *)
(* snapshots of the counters and the feed, and one deletes old objects     *)
(* from the bucket.  One step per command sent to Redis or to the bucket.  *)
(***************************************************************************)
EXTENDS RedisStore, PubSub, Snapshot

VARIABLES
  work,   \* per worker: where ProcessJob is, the job, the list read, the outcome
  sweep   \* per worker: where cleanupBucket is
workerVars == <<work, sweep, snapshot>>

WorkPC == {"pop", "announce", "mark", "read", "set_result", "set_status",
           "put_result", "incr_total", "incr_verdict", "log_push", "log_trim",
           "publish"}
\* id and order are those of the job; at "pop" they mean nothing.
Work == [pc : WorkPC, id : Ids \cup {NoId}, order : Orders,
         content : Contents \cup {NoList}, outcome : Report]
Idle == [pc |-> "pop", id |-> NoId, order |-> "asc", content |-> NoList,
         outcome |-> NoReport]

Sweep == [pc : {"idle", "list", "delete"}, prefix : Prefixes,
          cutoff : Int, todo : SUBSET Ids]
Resting == [pc |-> "idle", prefix |-> "lists", cutoff |-> 0, todo |-> {}]

WorkerTypeOK ==
  /\ work \in [Workers -> Work]
  /\ sweep \in [Workers -> Sweep]
  /\ SnapshotTypeOK
WorkerInit ==
  /\ work = [w \in Workers |-> Idle]
  /\ sweep = [w \in Workers |-> Resting]
  /\ SnapshotInit

-----------------------------------------------------------------------------
(* Run and ProcessJob *)

At(w, pc) == work[w].pc = pc
Proceed(w, pc) == work' = [work EXCEPT ![w].pc = pc]

WorkerPop(w) ==
  /\ At(w, "pop")
  /\ Pop
  /\ \/ work' = [work EXCEPT ![w] = [Idle EXCEPT !.pc = "announce",
                     !.id = Head(queue).id, !.order = Head(queue).order]]
     \/ RedisMayFail /\ UNCHANGED work  \* the reply of BRPOP is lost
  /\ UNCHANGED <<bucketVars, pubsubVars, statsVars, sweep>>

TryPublish(w, event) ==
  \/ Publish(work[w].id, event)
  \/ RedisMayFail /\ UNCHANGED pubsubVars

Announce(w) ==
  /\ At(w, "announce")
  /\ TryPublish(w, Plain("processing"))
  /\ Proceed(w, "mark")
  /\ UNCHANGED <<redisVars, bucketVars, statsVars, sweep>>

Mark(w) ==
  /\ At(w, "mark")
  /\ SetStatus(work[w].id, "processing")
  /\ Proceed(w, "read")
  /\ UNCHANGED <<bucketVars, pubsubVars, statsVars, sweep>>

\* Every list is checked upwards; a missing list is an empty one; an unknown status.
OutcomeAscending(content, order) ==
  IF content = NoList THEN Failed("read")
  ELSE IF content \notin Parsable THEN Failed("parse")
  ELSE Done(Check(content, "asc"))
OutcomeEmpty(content, order) ==
  IF content = NoList THEN Done(TRUE)
  ELSE IF content \notin Parsable THEN Failed("parse")
  ELSE Done(Check(content, order))
OutcomeFailed(content, order) ==
  IF content \notin Parsable THEN [Failed("read") EXCEPT !.status = "failed"]
  ELSE Done(Check(content, order))
\* What the worker makes of the list: parsing and Check are its own work.
Outcome(content, order) ==
  IF content = NoList THEN Failed("read")
  ELSE IF content \notin Parsable THEN Failed("parse")
  ELSE Done(Check(content, order))

Read(w) ==
  /\ At(w, "read")
  /\ \E content \in GetList(work[w].id) :
       work' = [work EXCEPT ![w].pc = "set_result", ![w].content = content,
                  ![w].outcome = Outcome(content, work[w].order)]
  /\ UNCHANGED <<redisVars, bucketVars, pubsubVars, statsVars, sweep>>

WriteResult(w) ==
  /\ At(w, "set_result")
  /\ SetResult(work[w].id, work[w].outcome)
  /\ Proceed(w, "set_status")
  /\ UNCHANGED <<bucketVars, pubsubVars, statsVars, sweep>>

\* A failed job keeps the status "processing".
WriteStatusMutant(w) ==
  /\ At(w, "set_status")
  /\ IF work[w].outcome.status = "done"
       THEN SetStatus(work[w].id, "done") /\ Proceed(w, "put_result")
       ELSE UNCHANGED redisVars /\ Proceed(w, "publish")
  /\ UNCHANGED <<bucketVars, pubsubVars, statsVars, sweep>>
\* A failed job leaves no object, no count and no entry in the feed.
WriteStatus(w) ==
  /\ At(w, "set_status")
  /\ SetStatus(work[w].id, work[w].outcome.status)
  /\ Proceed(w, IF work[w].outcome.status = "done" THEN "put_result" ELSE "publish")
  /\ UNCHANGED <<bucketVars, pubsubVars, statsVars, sweep>>

\* The outcome is published before it is counted, and then it is not.
StoreResultMutant(w) ==
  /\ At(w, "put_result")
  /\ PutResult(work[w].id, work[w].outcome)
  /\ Proceed(w, "publish")
  /\ UNCHANGED <<redisVars, pubsubVars, statsVars, sweep>>
StoreResult(w) ==
  /\ At(w, "put_result")
  /\ \/ PutResult(work[w].id, work[w].outcome)
     \/ S3MayFail /\ UNCHANGED bucketVars
  /\ Proceed(w, "incr_total")
  /\ UNCHANGED <<redisVars, pubsubVars, statsVars, sweep>>

VerdictCounterMutant(w) == IF work[w].outcome.sorted THEN "not_sorted" ELSE "sorted"
VerdictCounter(w) == IF work[w].outcome.sorted THEN "sorted" ELSE "not_sorted"

\* The verdict is counted although the total was not.
IncrementTotalMutant(w) ==
  /\ At(w, "incr_total")
  /\ Incr("total") \/ (RedisMayFail /\ UNCHANGED statsVars)
  /\ Proceed(w, "incr_verdict")
  /\ UNCHANGED <<redisVars, bucketVars, pubsubVars, sweep>>
\* A pipeline whose connection breaks leaves its later commands undone.
IncrementTotal(w) ==
  /\ At(w, "incr_total")
  /\ \/ Incr("total") /\ Proceed(w, "incr_verdict")
     \/ RedisMayFail /\ UNCHANGED statsVars /\ Proceed(w, "log_push")
  /\ UNCHANGED <<redisVars, bucketVars, pubsubVars, sweep>>

IncrementVerdict(w) ==
  /\ At(w, "incr_verdict")
  /\ Incr(VerdictCounter(w)) \/ (RedisMayFail /\ UNCHANGED statsVars)
  /\ Proceed(w, "log_push")
  /\ UNCHANGED <<redisVars, bucketVars, pubsubVars, sweep>>

LogPush(w) ==
  /\ At(w, "log_push")
  /\ \/ /\ LPush([sorted |-> work[w].outcome.sorted, order |-> work[w].order,
                  list |-> work[w].content])
        /\ Proceed(w, "log_trim")
     \/ RedisMayFail /\ UNCHANGED statsVars /\ Proceed(w, "publish")
  /\ UNCHANGED <<redisVars, bucketVars, pubsubVars, sweep>>

LogTrim(w) ==
  /\ At(w, "log_trim")
  /\ LTrim \/ (RedisMayFail /\ UNCHANGED statsVars)
  /\ Proceed(w, "publish")
  /\ UNCHANGED <<redisVars, bucketVars, pubsubVars, sweep>>

\* The last step of ProcessJob and of failJob.
PublishOutcome(w) ==
  /\ At(w, "publish")
  /\ TryPublish(w, work[w].outcome)
  /\ work' = [work EXCEPT ![w] = Idle]
  /\ UNCHANGED <<redisVars, bucketVars, statsVars, sweep>>

\* The library sends a command again, or a whole pipeline, of which the last
\* command may not have taken effect.
WorkerSendsAgain(w) ==
  /\ LosesReply
  /\ \/ /\ \/ At(w, "mark") /\ SetStatus(work[w].id, "processing")
           \/ At(w, "set_result") /\ SetResult(work[w].id, work[w].outcome)
           \/ At(w, "set_status") /\ SetStatus(work[w].id, work[w].outcome.status)
        /\ UNCHANGED <<pubsubVars, statsVars, work>>
     \/ /\ \/ At(w, "announce") /\ Publish(work[w].id, Plain("processing"))
           \/ At(w, "publish") /\ Publish(work[w].id, work[w].outcome)
        /\ UNCHANGED <<redisVars, statsVars, work>>
     \/ /\ \/ /\ At(w, "incr_verdict") /\ Proceed(w, "incr_total")
              /\ Incr(VerdictCounter(w)) \/ UNCHANGED statsVars
           \/ /\ At(w, "log_trim") /\ Proceed(w, "log_push")
              /\ LTrim \/ UNCHANGED statsVars
        /\ UNCHANGED <<redisVars, pubsubVars>>
  /\ UNCHANGED <<bucketVars, sweep, snapshot, twice>>

\* The process stops, or is interrupted: a cancelled context fails every
\* command left to send.  It starts again with nothing.
WorkerCrash(w) ==
  /\ "crash" \in Env
  /\ work[w] # Idle \/ sweep[w] # Resting \/ snapshot[w] # Unstarted
  /\ work' = [work EXCEPT ![w] = Idle]
  /\ sweep' = [sweep EXCEPT ![w] = Resting]
  /\ snapshot' = [snapshot EXCEPT ![w] = Unstarted]
  /\ UNCHANGED <<redisVars, bucketVars, pubsubVars, statsVars>>

-----------------------------------------------------------------------------
(* cleanupBucket *)

\* The age is forgotten.
SweepStartMutant(w) ==
  /\ sweep[w].pc = "idle" /\ MaxTime > 0
  /\ sweep' = [sweep EXCEPT ![w] = [pc |-> "list", prefix |-> "lists",
                                    cutoff |-> now, todo |-> {}]]
  /\ UNCHANGED <<redisVars, bucketVars, pubsubVars, statsVars, work>>
\* The cutoff is taken once, before the prefixes are listed.
SweepStart(w) ==
  /\ sweep[w].pc = "idle" /\ MaxTime > 0
  /\ sweep' = [sweep EXCEPT ![w] = [pc |-> "list", prefix |-> "lists",
                                    cutoff |-> now - CleanAge, todo |-> {}]]
  /\ UNCHANGED <<redisVars, bucketVars, pubsubVars, statsVars, work>>

\* The next prefix, or the end.
AfterPrefix(s) ==
  IF s.prefix = "lists" THEN [s EXCEPT !.pc = "list", !.prefix = "results", !.todo = {}]
                        ELSE Resting

\* The objects are chosen by the times that the listing shows.
SweepList(w) ==
  /\ sweep[w].pc = "list"
  /\ LET s == sweep[w]
         old == {x \in Stored(s.prefix) : modified[s.prefix][x] <= s.cutoff}
     IN \/ old # {} /\ sweep' = [sweep EXCEPT ![w].pc = "delete", ![w].todo = old]
        \/ old = {} /\ sweep' = [sweep EXCEPT ![w] = AfterPrefix(s)]
        \/ S3MayFail /\ sweep' = [sweep EXCEPT ![w] = AfterPrefix(s)]
  /\ UNCHANGED <<redisVars, bucketVars, pubsubVars, statsVars, work>>

\* They are deleted one by one, whatever became of them since.
SweepDelete(w) ==
  /\ sweep[w].pc = "delete"
  /\ \E x \in sweep[w].todo :
       /\ Delete(sweep[w].prefix, x) \/ (S3MayFail /\ UNCHANGED bucketVars)
       /\ LET rest == sweep[w].todo \ {x} IN
            sweep' = [sweep EXCEPT ![w] = IF rest = {} THEN AfterPrefix(sweep[w])
                                          ELSE [sweep[w] EXCEPT !.todo = rest]]
  /\ UNCHANGED <<redisVars, pubsubVars, statsVars, work>>

-----------------------------------------------------------------------------
(* The three loops of a worker interleave. *)

ProcessStep(w) ==
  /\ \/ WorkerPop(w) \/ Announce(w) \/ Mark(w) \/ Read(w)
     \/ WriteResult(w) \/ WriteStatus(w) \/ StoreResult(w)
     \/ IncrementTotal(w) \/ IncrementVerdict(w) \/ LogPush(w) \/ LogTrim(w)
     \/ PublishOutcome(w)
  /\ UNCHANGED snapshot
SweepStep(w) == (SweepStart(w) \/ SweepList(w) \/ SweepDelete(w)) /\ UNCHANGED snapshot
SnapshotStep(w) == TakeSnapshot(w) /\ UNCHANGED <<redisVars, pubsubVars, work, sweep>>

WorkerNext ==
  \E w \in Workers : ProcessStep(w) \/ SweepStep(w) \/ SnapshotStep(w) \/ WorkerCrash(w)
=============================================================================
