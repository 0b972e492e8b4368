------------------------------ MODULE JobSystem ------------------------------
(***************************************************************************)
(* The job service, its workers and its event streams, around one Redis    *)
(* and one bucket.                                                         *)
(***************************************************************************)
EXTENDS JobService, Worker, EventStream, StatsHandlers

vars == <<now, sentVars, redisVars, bucketVars, pubsubVars, statsVars, serviceVars,
          workerVars, streamVars, handlerVars>>

TypeOK ==
  /\ now \in Nat /\ resends \in Nat /\ twice \subseteq Requests
  /\ RedisTypeOK /\ BucketTypeOK /\ PubSubTypeOK /\ StatsTypeOK
  /\ ServiceTypeOK /\ WorkerTypeOK /\ StreamTypeOK /\ HandlersTypeOK

Init ==
  /\ now = 0 /\ resends = 0 /\ twice = {}
  /\ RedisInit /\ BucketInit /\ PubSubInit /\ StatsInit
  /\ ServiceInit /\ WorkerInit /\ StreamInit /\ HandlersInit

\* What a step of each component leaves alone.
ServiceOnly == UNCHANGED <<now, pubsubVars, statsVars, workerVars, streamVars, handlerVars>>
WorkerOnly == UNCHANGED <<now, serviceVars, streamVars, handlerVars>>
ServiceFrame == ServiceOnly /\ UNCHANGED sentVars
WorkerFrame == WorkerOnly /\ UNCHANGED sentVars
EventFrame == UNCHANGED <<now, sentVars, bucketVars, statsVars, serviceVars, workerVars,
                          handlerVars>>
HandlersFrame == UNCHANGED <<now, sentVars, redisVars, bucketVars, pubsubVars, statsVars,
                             serviceVars, workerVars, streamVars>>

ServiceStep == ServiceNext /\ ServiceFrame
WorkerStep == WorkerNext /\ WorkerFrame
EventStep == StreamNext /\ EventFrame
HandlersStep == HandlersNext /\ HandlersFrame

\* The Redis library of a process sends a command again.
ResendStep ==
  \/ \E r \in Requests : RequestSendsAgain(r) /\ ServiceOnly
  \/ \E w \in Workers : WorkerSendsAgain(w) /\ WorkerOnly

\* A unit of time passes, and Redis drops the keys that expire.
Tick ==
  /\ now < MaxTime
  /\ now' = now + 1
  /\ Expire(now')
  /\ UNCHANGED <<sentVars, bucketVars, pubsubVars, statsVars, serviceVars, workerVars,
                 streamVars, handlerVars>>

Next == ServiceStep \/ WorkerStep \/ EventStep \/ HandlersStep \/ ResendStep \/ Tick

Spec == Init /\ [][Next]_vars

(***************************************************************************)
(* Fairness.  A goroutine that can take its next step takes it: those of   *)
(* net/http for a request that has been read, and the loop of each worker. *)
(* The snapshot ticker fires again and again; Counts are pages that are    *)
(* loaded again and again, each load asks for the counters.  Clients are   *)
(* free never to submit, poll or listen, and nothing makes a fault happen. *)
(* Redis need not come to know of a subscription, nor need the 30 seconds  *)
(* of a stream ever pass.                                                  *)
(***************************************************************************)
Fairness ==
  /\ \A id \in SubmitIds : WF_vars(SubmitPutList(id) /\ ServiceFrame)
  /\ \A r \in Requests :
       WF_vars((RequestSetStatus(r) \/ RequestPush(r)) /\ ServiceFrame)
  /\ \A w \in Workers :
       WF_vars(ProcessStep(w) /\ WorkerFrame) /\ WF_vars(SnapshotStep(w) /\ WorkerFrame)
  /\ \A c \in Counts : WF_vars(CountRead(c) /\ HandlersFrame)
  /\ \A s \in Streams : WF_vars(stream[s].pc # "idle" /\ StreamStep(s) /\ EventFrame)

FairSpec == Spec /\ Fairness

-----------------------------------------------------------------------------
(* Where a job is *)

Queued(id) == \E k \in 1..Len(queue) : queue[k].id = id
HeldBy(id) == {w \in Workers : work[w].id = id}

\* The requests that may have pushed a job for id.
Askers(id) == {r \in Requests : /\ req[r].id = id
                                /\ req[r].pc \in {"created", "failed"} \/ r \in twice}

\* What a report may say of the list submitted as id: the verdict for an order
\* that was asked for - the order, when no upload check names id.  A list whose
\* lines parse does not fail to parse; it can be missing only when the bucket
\* fails or the clean-up has come.
RightReport(id, r) ==
  /\ r.status = "done" =>
       \E q \in Askers(id) : r.sorted = Check(req[id].content, req[q].order)
  /\ r.status = "error" =>
       IF r.error = "parse" THEN req[id].content \notin Parsable
       ELSE r.error = "read" /\ (S3MayFail \/ MaxTime > 0)

\* Every verdict on a submitted list, wherever it is kept or sent - the result
\* key, the bucket, the channels, the streams - is the right one, whatever
\* fails and however workers, requests and streams interleave
\* (worker.go:160-192, handlers.go:72-138, sse.go:12-87).
EveryVerdictIsRight ==
  \A id \in SubmitIds :
    /\ RightReport(id, result[id]) /\ RightReport(id, results[id])
    /\ \A s \in Streams :
         /\ inbox[s].topic = id =>
              \A k \in 1..Len(inbox[s].events) : RightReport(id, inbox[s].events[k])
         /\ stream[s].id = id => RightReport(id, stream[s].sent)

\* A submitted job is never in two places: it waits once, or one worker has
\* it, and what is finished does not come back (handlers.go:132, worker.go:51),
\* whatever fails, unless the library pushed this job once more (queue.go:39).
JobInOnePlace ==
  \A id \in PushedOnce :
    /\ \A j, k \in 1..Len(queue) : queue[j].id = id /\ queue[k].id = id => j = k
    /\ Cardinality(HeldBy(id)) <= 1
    /\ Queued(id) => HeldBy(id) = {} /\ result[id] = NoReport /\ results[id] = NoReport

\* No accepted job is dropped when nothing fails, and no client is left with a
\* status that nothing will change, however often the same list is checked:
\* when no request is about to push a job for it, none waits and no worker has
\* one, the status is final and the result is there (handlers.go:129-132 and
\* 206-209, worker.go:50-61 and 186-189).
NothingLeftPending ==
  \A id \in Ids :
    \/ \A r \in Requests : req[r].id = id => req[r].pc # "created"
    \/ \E r \in Requests : req[r].id = id /\ req[r].pc = "push"
    \/ Queued(id) \/ HeldBy(id) # {}
    \/ status[id] \in Final /\ result[id] # NoReport

Rank(s) == CASE s = "none" -> 0 [] s = "queued" -> 1 [] s = "processing" -> 2
             [] s \in Final -> 3

\* The status of a submitted job that is pushed once only moves forward, until it
\* expires: the handler's "queued" never overwrites what a quick worker has
\* written (handlers.go:129-132 sets the status before it pushes the job).
StatusMovesForward ==
  [][\A id \in PushedOnce : Rank(status'[id]) >= Rank(status[id])
                        \/ (now' > now /\ status'[id] = "none")]_vars

\* A stream never tells of an earlier state of such a job after a later one,
\* although it joins the status key with the events of a channel, and events may
\* be published twice (sse.go:27-78).
StreamMovesForward ==
  [][\A s \in Streams :
       stream[s].id \in PushedOnce => Rank(stream'[s].seen) >= Rank(stream[s].seen)]_vars

\* A client that polls never learns of an earlier state after a later one,
\* although each poll reads two keys at two times (handlers.go:140-154).
PollMovesForward ==
  [][\A p \in Polls :
       poll[p].id \in Once =>
         Rank(poll'[p].answer.status) >= Rank(poll[p].answer.status)]_vars

\* The second look and the subscription leave no gap between them: once the
\* worker is through with the job, its last event is in the channel of every
\* stream that waits and that Redis knew of when it looked again (sse.go:43-52,
\* worker.go:186-213).  A job that ends between that look and a later
\* subscription is missed: nothing makes the stream wait for the subscription.
NoMissedCompletion ==
  \A s \in Streams :
    LET id == stream[s].id IN
      stream[s].pc = "loop" /\ stream[s].covered /\ id \in Once
        /\ status[id] \in Final /\ HeldBy(id) = {}
        => \E k \in 1..Len(inbox[s].events) : inbox[s].events[k].status \in Final

\* Whoever is told by an event that a job is done finds it counted: the page asks
\* for the counters when its stream closes (index.html:421, worker.go:194-210).
\* A stream that finds the final status by itself may still be told earlier.
CountedBeforeTold ==
  LET told == {id \in Ids : \E s \in Streams :
                 /\ inbox[s].topic = id
                 /\ \E k \in 1..Len(inbox[s].events) : inbox[s].events[k].status = "done"}
  IN Cardinality(told) <= counters["sorted"] + counters["not_sorted"]

\* Once the workers rest, the counters agree with the results of the jobs
\* (counter.go:37-47, worker.go:186-197).
CountersAgree ==
  (queue = <<>> /\ \A w \in Workers : work[w] = Idle) =>
    LET done(b) == {id \in Ids : result[id] = Done(b)} IN
      /\ counters["sorted"] = Cardinality(done(TRUE))
      /\ counters["not_sorted"] = Cardinality(done(FALSE))
      /\ counters["total"] = Cardinality(done(TRUE) \cup done(FALSE))

\* Whatever fails, no verdict is counted that the total has not counted, and
\* the total runs ahead by the updates cut short (counter.go:39-45).
TotalCoversVerdicts ==
  counters["total"] >= counters["sorted"] + counters["not_sorted"]
    + Cardinality({w \in Workers : At(w, "incr_verdict")})

\* The feed exceeds its length only by the entries that a worker is about to
\* trim (activity.go:33-34).
FeedIsTrimmed ==
  Len(activity) <= ActivityMax + Cardinality({w \in Workers : At(w, "log_trim")})

\* The clean-up deletes no object of a submitted job that is pushed once before
\* its age, however long it takes between the cutoff, the listing and the deletion
\* (worker.go:94-110).  Objects that are written twice are left out: what is put
\* again after the listing is deleted at once.
CleanupSparesFresh ==
  [][\A id \in PushedOnce :
       /\ lists[id] # NoList /\ lists'[id] = NoList
            => now - modified["lists"][id] >= CleanAge
       /\ results[id] # NoReport /\ results'[id] = NoReport
            => now - modified["results"][id] >= CleanAge]_vars

\* A stream that Redis knew of when it looked again ends with the result of its
\* job, if the 30 seconds do not end it first (sse.go:43-87, worker.go:146-213).
StreamDelivers ==
  \A s \in Streams :
    [](stream[s].end # "timeout")
      => ((stream[s].pc = "loop" /\ stream[s].covered) ~> (stream[s].end = "result"))

\* Every stream that opens comes to an end, if the timer of 30 seconds fires, be
\* its job over before Redis knows of the subscription (sse.go:12-87).
StreamEnds ==
  \A s \in Streams :
    WF_vars(StreamTimeout(s) /\ EventFrame)
      => ((stream[s].pc # "idle") ~> (stream[s].pc = "closed"))

\* What the page shows never goes back, although it is made of three reads and
\* the workers count on meanwhile; only a failure of Redis turns it into zeros,
\* since the handler drops the error (counter.go:50-65, handlers.go:229-232).
CountsMoveForward ==
  [][\A c \in Counts :
       \/ \A n \in CounterNames : count'[c].answer[n] >= count[c].answer[n]
       \/ RedisMayFail /\ count'[c].answer = Zeros]_vars

\* Whichever of the workers writes last, and however old what it has read is by
\* then, the bucket comes to hold the last counters and the last feed, once the
\* jobs have ended (worker.go:65-78 and 118-142).
SnapshotCatchesUp ==
  Snapshotters # {} => <>[](saved = [counter |-> {counters}, activity |-> {Recent}])

\* The page comes to show the last counters, which agree with each other.
CountsCatchUp ==
  <>[](\A c \in Counts :
         LET shown == count[c].answer IN
           shown = counters /\ shown["total"] = shown["sorted"] + shown["not_sorted"])

-----------------------------------------------------------------------------
(* The service keeps its promise: the abstract specification, with the     *)
(* result key in front of the status key, as GET /jobs/{id} reads them.    *)

RightAnswer(id) ==
  IF req[id].content \notin Accepted THEN NoReport
  ELSE IF req[id].content \in Parsable THEN Done(Check(req[id].content, req[id].order))
  ELSE Failed("parse")
View(id) == IF result[id] # NoReport THEN result[id] ELSE Plain(status[id])

Promise == INSTANCE JobPromise WITH
             right <- [id \in Once |-> RightAnswer(id)],
             view <- [id \in Once |-> View(id)]

\* The view of a submitted job takes each step of the promise in its order,
\* once, and reaches the right answer, while nothing fails
\* (handlers.go:129-154, worker.go:146-213).
KeepsPromise == Promise!Spec

-----------------------------------------------------------------------------
(* The streams say what JobStream has them say. *)

Say == INSTANCE StreamEvents

\* sendSSEResult.
OutcomeOf(r) ==
  IF r.status # "done" THEN "failed" ELSE IF r.sorted THEN "sorted" ELSE "unsorted"

\* What a request has come to write.
PhaseOf(st) ==
  CASE st.pc \in {"idle", "first"} -> "new"
    [] st.pc = "closed" -> "ended"
    [] OTHER -> "loop"
ToldBy(st) ==
  CASE PhaseOf(st) = "new" \/ st.end = "gone" -> <<>>
    [] PhaseOf(st) = "loop" -> <<Say!Event("status", st.seen)>>
    [] st.end = "not_found" -> Say!NotFound
    [] st.end = "timeout" -> Say!TimedOut
    [] st.end = "result" -> <<Say!Event("result", OutcomeOf(st.sent)), Say!Close>>

Spoken == INSTANCE JobStream WITH
            phase <- [s \in Streams |-> PhaseOf(stream[s])],
            told <- [s \in Streams |-> ToldBy(stream[s])]

\* Whatever fails, a stream tells states of a job and then one ending, and what
\* it tells is one of those that the relay of the gateway knows of: it never
\* tells of an unknown state, of a state without a name, or on after its ending
\* (sse.go:27-87).
StreamsAreAsRelayed == Spoken!Spec

-----------------------------------------------------------------------------
(* What the documentation says and the code does not do. *)

\* A poll that says a job is done gives its verdict: {"id", "status": "done",
\* "sorted": true} for a sorted list (design document, GET /jobs/{id}).
PollVerdictIsRight ==
  \A p \in Polls : poll[p].id \in SubmitIds => RightReport(poll[p].id, poll[p].answer)
=============================================================================
