---------------------------- MODULE PromiseProofs ----------------------------
(***************************************************************************)
(* What the service keeps while Redis answers and forgets nothing: no job  *)
(* is left pending, no completion is missed, the counters agree, a client  *)
(* that polls sees the status move forward, and every step is one that     *)
(* JobPromise allows.  What a stream shows moves forward whatever fails.   *)
(***************************************************************************)
EXTENDS PlaceProofs

Durable == ~RedisMayFail /\ MaxTime = 0

\* No reply is lost, so nothing is sent again and every job is pushed once.
LEMMA NoResends == Durable => ~ResendStep
BY DEF Durable, ResendStep, RequestSendsAgain, WorkerSendsAgain, LosesReply

LEMMA OncePlaced ==
  ASSUME Durable, Typed, PlaceInv
  PROVE  PushedOnce = Once /\ \A id \in Once : Place(id)
BY NoneTwice DEF Durable, PlaceInv

-----------------------------------------------------------------------------
(***************************************************************************)
(* The status and the result of a submitted job are exactly what its       *)
(* request and its worker have come to, and stay so after them; only a     *)
(* crash leaves a job behind.                                              *)
(***************************************************************************)
Outcomes == {Done(TRUE), Done(FALSE), Failed("read"), Failed("parse")}
Ending == Recording \cup {"publish"}
Early == {"announce", "mark", "read"} \cup Deciding

Knows(w, id) ==
  /\ work[w].pc \in {"announce", "mark"} => status[id] = "queued"
  /\ work[w].pc \in Deciding \cup {"read"} => status[id] = "processing"
  /\ work[w].pc \in Early \ {"set_status"} => result[id] = NoReport
  /\ work[w].pc \in Ending => status[id] = work[w].outcome.status
  /\ work[w].pc \in Ending \cup {"set_status"} => result[id] = work[w].outcome
  /\ work[w].pc \in Ending \cup Deciding => work[w].outcome \in Outcomes
  /\ work[w].pc \in Recording => work[w].outcome.status = "done"

Follows(id) ==
  /\ req[id].pc = "push" \/ In(queue, id) => status[id] = "queued"
  /\ \A w \in Workers : work[w].id = id => Knows(w, id)
  /\ status[id] \in Final => result[id].status = status[id]
  /\ result[id] \in Outcomes \cup {NoReport}
  /\ req[id].pc \notin Over \cup {"push"} => status[id] = "none"
  /\ "crash" \notin Env =>
       /\ req[id].pc \notin {"push", "created"} =>
            ~In(queue, id) /\ ~Held(id) /\ status[id] = "none" /\ result[id] = NoReport
       /\ req[id].pc = "created" => In(queue, id) \/ Held(id) \/ status[id] \in Final

FollowsInv == \A id \in Once : Follows(id)
-----------------------------------------------------------------------------
(* The steps of a worker, on Redis that answers *)

LEMMA OutcomeKinds ==
  ASSUME NEW content, NEW order
  PROVE  Outcome(content, order) \in Outcomes
<1>1. CASE content \in SortedIn[order]
  <2>1. Check(content, order) = TRUE
    BY <1>1 DEF Check
  <2> QED BY <2>1 DEF Outcome, Outcomes
<1>2. CASE content \notin SortedIn[order]
  <2>1. Check(content, order) = FALSE
    BY <1>2 DEF Check
  <2> QED BY <2>1 DEF Outcome, Outcomes
<1> QED BY <1>1, <1>2

LEMMA OutcomesAre ==
  /\ \A r \in Outcomes : r.status \in Final /\ r # NoReport
  /\ \A r \in Outcomes : r.status = "done" => r = Done(TRUE) \/ r = Done(FALSE)
  /\ \A b \in BOOLEAN : Done(b).sorted = b /\ Done(b).status = "done"
  /\ NoReport.status = "none" /\ NoReport.status \notin Final
<1>1. /\ NoReport.status = "none" /\ Failed("read").status = "error"
      /\ Failed("parse").status = "error"
      /\ \A b \in BOOLEAN : Done(b).status = "done" /\ Done(b).sorted = b
  BY DEF NoReport, Plain, Failed, Done
<1>2. \A r \in Outcomes : r.status \in Final /\ (r.status = "done" => r = Done(TRUE) \/ r = Done(FALSE))
  BY <1>1 DEF Outcomes, Final
<1> QED BY <1>1, <1>2 DEF Final

Same(w) == work'[w].id = work[w].id /\ work'[w].order = work[w].order
             /\ work'[w].outcome = work[w].outcome
KeysSame == UNCHANGED <<status, result>>

\* What each step does to the keys of the job and to its worker.
Turns(w) ==
  LET id == work[w].id IN
    \/ Announce(w) /\ At(w, "announce") /\ At(w, "mark")' /\ Same(w) /\ KeysSame
    \/ /\ Mark(w) /\ At(w, "mark") /\ At(w, "read")' /\ Same(w)
       /\ status'[id] = "processing" /\ UNCHANGED result
    \/ /\ Read(w) /\ At(w, "read") /\ At(w, "set_result")' /\ KeysSame
       /\ work'[w].id = id /\ work'[w].order = work[w].order
       /\ \E content \in GetList(id) : work'[w].outcome = Outcome(content, work[w].order)
    \/ /\ WriteResult(w) /\ At(w, "set_result") /\ At(w, "set_status")' /\ Same(w)
       /\ result'[id] = work[w].outcome /\ UNCHANGED status
    \/ /\ WriteStatus(w) /\ At(w, "set_status") /\ Same(w)
       /\ work'[w].pc = IF work[w].outcome.status = "done" THEN "put_result" ELSE "publish"
       /\ status'[id] = work[w].outcome.status /\ UNCHANGED result
    \/ StoreResult(w) /\ At(w, "put_result") /\ At(w, "incr_total")' /\ Same(w) /\ KeysSame
    \/ IncrementTotal(w) /\ At(w, "incr_total") /\ At(w, "incr_verdict")' /\ Same(w) /\ KeysSame
    \/ IncrementVerdict(w) /\ At(w, "incr_verdict") /\ At(w, "log_push")' /\ Same(w) /\ KeysSame
    \/ LogPush(w) /\ At(w, "log_push") /\ At(w, "log_trim")' /\ Same(w) /\ KeysSame
    \/ LogTrim(w) /\ At(w, "log_trim") /\ At(w, "publish")' /\ Same(w) /\ KeysSame
    \/ PublishOutcome(w) /\ At(w, "publish") /\ work'[w] = Idle /\ KeysSame

LEMMA StepTurns ==
  ASSUME Durable, Typed, NEW w \in Workers, ProcessStep(w), ~WorkerPop(w)
  PROVE  /\ UNCHANGED queue /\ Turns(w)
         /\ \A v \in Workers : v # w => work'[v] = work[v]
         /\ \A x \in Ids : x # work[w].id => status'[x] = status[x] /\ result'[x] = result[x]
<1> USE DEF Turns, Same, KeysSame, At
<1>1. WorkerTypeOK /\ RedisTypeOK /\ work[w] \in Work
  BY DEF Typed, TypeOK, WorkerTypeOK
<1>2. work[w].pc # "pop" => work[w].id \in Ids
  BY DEF Typed, WorkersHaveJobs
<1>3. CASE Announce(w)
  BY <1>1, <1>3, OneWorker DEF Announce, redisVars
<1>4. CASE Mark(w)
  <2>1. /\ work[w].id \in Ids /\ status' = [status EXCEPT ![work[w].id] = "processing"]
        /\ UNCHANGED <<queue, result>> /\ At(w, "mark") /\ Proceed(w, "read")
    BY <1>2, <1>4 DEF Mark, SetStatus, Durable
  <2> QED BY <1>1, <1>4, <2>1, OneWorker DEF RedisTypeOK
<1>5. CASE Read(w)
  <2>1. PICK content \in GetList(work[w].id) :
          work' = [work EXCEPT ![w].pc = "set_result", ![w].content = content,
                     ![w].outcome = Outcome(content, work[w].order)]
    BY <1>5 DEF Read
  <2>2. /\ work'[w].pc = "set_result" /\ work'[w].id = work[w].id
        /\ work'[w].order = work[w].order /\ work'[w].outcome = Outcome(content, work[w].order)
        /\ \A v \in Workers : v # w => work'[v] = work[v]
    BY <1>1, <2>1 DEF WorkerTypeOK, Work
  <2>3. UNCHANGED <<queue, status, result>> /\ work[w].pc = "read"
    BY <1>5 DEF Read, redisVars
  <2> QED BY <1>5, <2>2, <2>3
<1>6. CASE WriteResult(w)
  <2>1. /\ work[w].id \in Ids /\ result' = [result EXCEPT ![work[w].id] = work[w].outcome]
        /\ UNCHANGED <<queue, status>> /\ At(w, "set_result") /\ Proceed(w, "set_status")
    BY <1>2, <1>6 DEF WriteResult, SetResult, Durable
  <2> QED BY <1>1, <1>6, <2>1, OneWorker DEF RedisTypeOK
<1>7. CASE WriteStatus(w)
  <2>1. /\ work[w].id \in Ids /\ status' = [status EXCEPT ![work[w].id] = work[w].outcome.status]
        /\ UNCHANGED <<queue, result>> /\ At(w, "set_status")
        /\ Proceed(w, IF work[w].outcome.status = "done" THEN "put_result" ELSE "publish")
    BY <1>2, <1>7 DEF WriteStatus, SetStatus, Durable
  <2> QED BY <1>1, <1>7, <2>1, OneWorker DEF RedisTypeOK
<1>8. CASE StoreResult(w)
  BY <1>1, <1>8, OneWorker DEF StoreResult, redisVars
<1>9. CASE IncrementTotal(w)
  BY <1>1, <1>9, OneWorker DEF IncrementTotal, redisVars, Durable
<1>10. CASE IncrementVerdict(w)
  BY <1>1, <1>10, OneWorker DEF IncrementVerdict, redisVars
<1>11. CASE LogPush(w)
  BY <1>1, <1>11, OneWorker DEF LogPush, redisVars, Durable
<1>12. CASE LogTrim(w)
  BY <1>1, <1>12, OneWorker DEF LogTrim, redisVars
<1>13. CASE PublishOutcome(w)
  BY <1>1, <1>13, OneWorker DEF PublishOutcome, redisVars
<1> QED BY <1>3, <1>4, <1>5, <1>6, <1>7, <1>8, <1>9, <1>10, <1>11, <1>12, <1>13 DEF ProcessStep

LEMMA PopTurns ==
  ASSUME Durable, Typed, NEW w \in Workers, WorkerPop(w)
  PROVE  /\ queue # <<>> /\ queue' = Tail(queue) /\ queue \in Seq(Job) /\ KeysSame
         /\ work[w].pc = "pop" /\ work'[w].pc = "announce"
         /\ work'[w].id = Head(queue).id /\ work'[w].order = Head(queue).order
         /\ \A v \in Workers : v # w => work'[v] = work[v]
<1> DEFINE new == [Idle EXCEPT !.pc = "announce", !.id = Head(queue).id,
                               !.order = Head(queue).order]
<1>1. new.pc = "announce" /\ new.id = Head(queue).id /\ new.order = Head(queue).order
  BY DEF Idle
<1>2. work' = [work EXCEPT ![w] = new]
  BY DEF WorkerPop, Durable
<1>3. WorkerTypeOK /\ queue \in Seq(Job)
  BY DEF Typed, TypeOK, RedisTypeOK
<1>4. queue # <<>> /\ queue' = Tail(queue) /\ KeysSame /\ work[w].pc = "pop"
  BY DEF WorkerPop, Pop, KeysSame, At
<1> HIDE DEF new
<1> QED BY <1>1, <1>2, <1>3, <1>4, OneWorker
-----------------------------------------------------------------------------
(* FollowsInv *)

LEMMA TailStays ==
  ASSUME NEW q \in Seq(Job), q # <<>>, NEW id, Head(q).id # id, In(q, id)
  PROVE  In(Tail(q), id)
<1>1. PICK k \in 1..Len(q) : q[k].id = id
  BY DEF In
<1>2. k # 1 /\ Len(q) \in Nat /\ Len(Tail(q)) = Len(q) - 1
  BY <1>1
<1>3. k - 1 \in 1..Len(Tail(q)) /\ Tail(q)[k - 1] = q[k]
  BY <1>2
<1> QED BY <1>1, <1>3 DEF In

\* A step that leaves the job alone; its request may go on to where it came from
\* nothing that the invariant speaks of.
LEMMA FollowsStill ==
  ASSUME NEW id \in Once, Follows(id), status'[id] = status[id], result'[id] = result[id],
         In(queue, id)' <=> In(queue, id),
         \A w \in Workers : work'[w].id = id => work'[w] = work[w] \/ Knows(w, id)',
         "crash" \notin Env =>
           \A w \in Workers : work[w].id = id => work'[w].id = id,
         Held(id)' => Held(id),
         \/ req'[id].pc = req[id].pc
         \/ /\ req'[id].pc \notin {"push", "created"}
            /\ req[id].pc \notin {"push", "created"} \/ "crash" \in Env
            /\ req[id].pc \notin Over \cup {"push"} \/ req'[id].pc \in Over
  PROVE  Follows(id)'
<1>1. \A w \in Workers : work'[w].id = id => Knows(w, id)'
  BY DEF Follows, Knows
<1>2. "crash" \notin Env => (Held(id) => Held(id)')
  BY DEF Held
<1> QED BY <1>1, <1>2 DEF Follows

\* The worker that has the job takes a step.
LEMMA OwnFollows ==
  ASSUME NEW id \in Once, Follows(id), Place(id), UNCHANGED <<queue, req>>,
         NEW w \in Workers, work[w].id = id,
         \A v \in Workers : v # w => work'[v] = work[v],
         IF work'[w].id = id THEN Knows(w, id)' ELSE status'[id] \in Final,
         status'[id] \in Final => result'[id].status = status'[id],
         result'[id] \in Outcomes \cup {NoReport}
  PROVE  Follows(id)'
<1>1. Held(id) /\ ~In(queue, id) /\ req[id].pc \in Over
  BY DEF Held, Place
<1>2. \A v \in Workers : work'[v].id = id => v = w
  BY DEF Place
<1>3. "crash" \notin Env => req[id].pc = "created"
  BY <1>1 DEF Follows, Over
<1> QED BY <1>1, <1>2, <1>3 DEF Follows, Held, Over, In

LEMMA ServiceFollows ==
  ASSUME Durable, Typed, PlaceInv, NEW id \in Once, Follows(id), ServiceStep
  PROVE  Follows(id)'
<1>1. /\ ServiceTypeOK /\ RedisTypeOK /\ RequestsHaveJobs /\ Place(id) /\ Apart
      /\ id \in SubmitIds /\ id \in Requests /\ id \in Ids
  BY OnceIds, OncePlaced DEF Typed, TypeOK, PlaceInv
<1>2. UNCHANGED <<work, result>>
  BY DEF ServiceStep, ServiceFrame, ServiceOnly, workerVars, ServiceNext, SubmitValidate,
       SubmitPutList,
       UploadPresign, ClientPut, CheckValidate, RequestSetStatus, RequestPush, RequestDies,
       PollStart, PollResult, PollStatus, SetStatus, Push, redisVars
<1>3. ASSUME status'[id] = status[id], In(queue, id)' <=> In(queue, id),
             \/ req'[id].pc = req[id].pc
             \/ /\ req'[id].pc \notin {"push", "created"}
                /\ req[id].pc \notin {"push", "created"} \/ "crash" \in Env
                /\ req[id].pc \notin Over \cup {"push"} \/ req'[id].pc \in Over
      PROVE  Follows(id)'
  BY <1>2, <1>3, FollowsStill DEF Held
<1>4. \A r \in Requests : r # id => req[r].pc = "idle" \/ req[r].id # id
  BY <1>1 DEF RequestsHaveJobs, Requests, Apart
<1>5. ASSUME NEW x \in SubmitIds, SubmitValidate(x) PROVE Follows(id)'
  <2>1. UNCHANGED <<queue, status>> /\ x \in Requests /\ req[x].pc = "idle"
    BY <1>5 DEF SubmitValidate, redisVars, Requests
  <2>2. \E new : req' = [req EXCEPT ![x] = new] /\ new.pc \in {"put", "rejected"}
    <3>1. PICK content \in Contents, order \in Orders :
            req' = [req EXCEPT ![x] =
                      [pc |-> IF content \in Accepted THEN "put" ELSE "rejected",
                       id |-> x, order |-> order, content |-> content]]
      BY <1>5 DEF SubmitValidate
    <3> DEFINE new == [pc |-> IF content \in Accepted THEN "put" ELSE "rejected",
                       id |-> x, order |-> order, content |-> content]
    <3>2. new.pc \in {"put", "rejected"} /\ req' = [req EXCEPT ![x] = new]
      BY <3>1
    <3> HIDE DEF new
    <3> QED BY <3>2
  <2>3. IF x = id THEN req'[id].pc \in {"put", "rejected"} ELSE req'[id] = req[id]
    BY <1>1, <2>1, <2>2 DEF ServiceTypeOK
  <2> QED BY <1>3, <2>1, <2>3 DEF In, Over
<1>6. ASSUME NEW c \in Checks, CheckValidate(c) PROVE Follows(id)'
  <2>1. UNCHANGED <<queue, status>> /\ c \in Requests /\ c # id
    BY <1>1, <1>6, IdsAssumption DEF CheckValidate, redisVars, Requests
  <2>2. \E new : req' = [req EXCEPT ![c] = new]
    BY <1>6 DEF CheckValidate
  <2> QED BY <1>1, <1>3, <2>1, <2>2, OneRequest DEF In
<1>7. ASSUME NEW r \in Requests, RequestDies(r) \/ SubmitPutList(r) PROVE Follows(id)'
  <2>1. /\ UNCHANGED <<queue, status>>
        /\ \/ req[r].pc = "put" /\ \E pc \in {"failed", "status"} : GoTo(r, pc)
           \/ "crash" \in Env /\ GoTo(r, "failed")
    BY <1>7 DEF RequestDies, SubmitPutList, redisVars
  <2>2. CASE id # r
    <3>1. req'[id] = req[id]
      BY <1>1, <2>1, <2>2, OneRequest
    <3> QED BY <1>3, <2>1, <3>1 DEF In
  <2>3. CASE id = r
    <3>1. \/ req[id].pc = "put" /\ req'[id].pc \in {"failed", "status"}
          \/ "crash" \in Env /\ req'[id].pc = "failed"
      BY <1>1, <2>1, <2>3, OneRequest
    <3> QED BY <1>3, <2>1, <3>1 DEF In, Over
  <2> QED BY <2>2, <2>3
<1>8. ASSUME NEW r \in Requests, RequestSetStatus(r) PROVE Follows(id)'
  <2>1. /\ UNCHANGED queue /\ req[r].pc = "status" /\ GoTo(r, "push") /\ req[r].id \in Ids
        /\ status' = [status EXCEPT ![req[r].id] = "queued"]
    BY <1>1, <1>8 DEF RequestSetStatus, SetStatus, Durable, RequestsHaveJobs
  <2>2. CASE r # id
    BY <1>1, <1>3, <1>4, <2>1, <2>2, OneRequest DEF In, RedisTypeOK
  <2>3. CASE r = id
    <3>1. req'[id].pc = "push" /\ req[id].id = id /\ status'[id] = "queued"
      BY <1>1, <2>1, <2>3, OneRequest DEF RequestsHaveJobs, RedisTypeOK
    <3>2. ~Held(id) /\ ~In(queue, id) /\ result[id] = NoReport
      BY <1>1, <2>1, <2>3 DEF Place, Fresh, Over
    <3>3. "queued" \notin Final
      BY DEF Final
    <3> QED BY <1>2, <2>1, <3>1, <3>2, <3>3 DEF Follows, Held, In
  <2> QED BY <2>2, <2>3
<1>9. ASSUME NEW r \in Requests, RequestPush(r) PROVE Follows(id)'
  <2> DEFINE job == JobOf(r)
  <2>1. /\ UNCHANGED status /\ queue' = Append(queue, job)
        /\ req[r].pc = "push" /\ GoTo(r, "created")
    BY <1>9 DEF RequestPush, Push, Durable
  <2>2. job \in Job /\ job.id = req[r].id
    BY <1>1, <2>1, JobOfType DEF JobOf
  <2> HIDE DEF job
  <2>3. In(queue', id) <=> In(queue, id) \/ req[r].id = id
    BY <1>1, <2>1, <2>2, AppendIn DEF RedisTypeOK
  <2>4. CASE r # id
    BY <1>1, <1>3, <1>4, <2>1, <2>3, <2>4, OneRequest DEF In
  <2>5. CASE r = id
    <3>1. req'[id].pc = "created" /\ req[id].id = id /\ In(queue, id)'
      BY <1>1, <2>1, <2>3, <2>5, OneRequest DEF RequestsHaveJobs, In
    <3>2. ~Held(id) /\ status[id] = "queued"
      BY <1>1, <2>1, <2>5 DEF Place, Follows, Over
    <3>3. "queued" \notin Final
      BY DEF Final
    <3> QED BY <1>2, <2>1, <3>1, <3>2, <3>3 DEF Follows, Held, Over
  <2> QED BY <2>4, <2>5
<1>10. ASSUME UNCHANGED <<req, redisVars>> PROVE Follows(id)'
  BY <1>3, <1>10 DEF redisVars, In
<1>11. ASSUME NEW u \in UploadIds, UploadPresign(u) \/ ClientPut(u) PROVE Follows(id)'
  BY <1>10, <1>11 DEF UploadPresign, ClientPut, serviceVars
<1>12. ASSUME NEW p \in Polls, PollStart(p) \/ PollResult(p) \/ PollStatus(p)
       PROVE  Follows(id)'
  BY <1>10, <1>12 DEF PollStart, PollResult, PollStatus
<1> QED BY <1>5, <1>6, <1>7, <1>8, <1>9, <1>11, <1>12, SubmitsAreRequests
        DEF ServiceStep, ServiceNext
LEMMA WorkerFollows ==
  ASSUME Durable, Typed, PlaceInv, NEW id \in Once, Follows(id), WorkerStep
  PROVE  Follows(id)'
<1>1. /\ WorkerTypeOK /\ Place(id) /\ id \in Ids /\ id # NoId /\ Idle.id = NoId
  BY OnceIds, OncePlaced DEF Typed, TypeOK, PlaceInv, Idle
<1>2. UNCHANGED req
  BY DEF WorkerStep, WorkerFrame, WorkerOnly, serviceVars
<1>3. PICK w \in Workers : ProcessStep(w) \/ SweepStep(w) \/ SnapshotStep(w) \/ WorkerCrash(w)
  BY DEF WorkerStep, WorkerNext
<1>4. CASE WorkerPop(w)
  <2>1. /\ queue # <<>> /\ queue' = Tail(queue) /\ queue \in Seq(Job) /\ KeysSame
        /\ work[w].pc = "pop" /\ work'[w].pc = "announce" /\ work'[w].id = Head(queue).id
        /\ \A v \in Workers : v # w => work'[v] = work[v]
    BY <1>4, PopTurns
  <2>2. work[w].id # id
    BY <1>1, <2>1 DEF PlaceInv, Apart
  <2>3. CASE Head(queue).id # id
    <3>1. In(queue, id)' <=> In(queue, id)
      <4>1. In(Tail(queue), id) <=> In(queue, id)
        BY <2>1, <2>3, TailIn, TailStays
      <4> QED BY <2>1, <4>1 DEF In
    <3>2. /\ \A v \in Workers : work'[v].id = id => work'[v] = work[v]
          /\ \A v \in Workers : work[v].id = id => work'[v].id = id
      BY <2>1, <2>2, <2>3
    <3>3. Held(id)' => Held(id)
      BY <3>2 DEF Held
    <3> QED BY <1>2, <2>1, <3>1, <3>2, <3>3, FollowsStill DEF KeysSame
  <2>4. CASE Head(queue).id = id
    <3>1. In(queue, id)
      BY <2>1, <2>4, TailIn
    <3>2. /\ ~Held(id) /\ status[id] = "queued" /\ result[id] = NoReport
          /\ req[id].pc \in Over /\ OnceIn(queue, id)
      BY <1>1, <3>1 DEF Place, Fresh, Follows
    <3>3. ~In(queue, id)'
      <4>1. ~In(Tail(queue), id)
        BY <2>1, <2>4, <3>2, TailIn
      <4> QED BY <2>1, <4>1 DEF In
    <3>4. \A v \in Workers : work'[v].id = id => v = w
      BY <2>1, <3>2 DEF Held
    <3>5. Knows(w, id)'
      BY <2>1, <3>2 DEF Knows, KeysSame, Early, Deciding, Ending, Recording
    <3>6. Held(id)'
      BY <2>1, <2>4 DEF Held
    <3>7. "crash" \notin Env => req[id].pc = "created"
      BY <3>1, <3>2 DEF Follows, Over
    <3> QED BY <1>2, <2>1, <3>2, <3>3, <3>4, <3>5, <3>6, <3>7 DEF Follows, KeysSame, Over
  <2> QED BY <2>3, <2>4
<1>5. CASE ProcessStep(w) /\ ~WorkerPop(w)
  <2>1. /\ UNCHANGED queue /\ Turns(w)
        /\ \A v \in Workers : v # w => work'[v] = work[v]
        /\ \A x \in Ids : x # work[w].id => status'[x] = status[x] /\ result'[x] = result[x]
    BY <1>5, StepTurns
  <2>2. work'[w].id \in {work[w].id, NoId}
    BY <1>1, <2>1 DEF Turns, Same
  <2>3. CASE work[w].id # id
    <3>1. /\ status'[id] = status[id] /\ result'[id] = result[id]
          /\ \A v \in Workers : work'[v].id = id => work'[v] = work[v]
          /\ \A v \in Workers : work[v].id = id => work'[v].id = id
      BY <1>1, <2>1, <2>2, <2>3
    <3>2. Held(id)' => Held(id)
      BY <3>1 DEF Held
    <3> QED BY <1>2, <2>1, <3>1, <3>2, FollowsStill DEF In
  <2>4. CASE work[w].id = id
    <3>1. Knows(w, id) /\ result[id] \in Outcomes \cup {NoReport}
          /\ (status[id] \in Final => result[id].status = status[id])
      BY <1>1, <2>4 DEF Follows
    <3>2. "queued" \notin Final /\ "processing" \notin Final
      BY DEF Final
    <3>3. /\ IF work'[w].id = id THEN Knows(w, id)' ELSE status'[id] \in Final
          /\ status'[id] \in Final => result'[id].status = status'[id]
          /\ result'[id] \in Outcomes \cup {NoReport}
      <4> USE DEF Turns, KeysSame, Same, At, Knows, Early, Deciding, Ending, Recording
      <4>1. CASE work[w].pc \in {"announce", "mark"}
        BY <2>1, <2>4, <3>1, <3>2, <4>1
      <4>2. CASE work[w].pc = "read"
        BY <2>1, <2>4, <3>1, <3>2, <4>2, OutcomeKinds
      <4>3. CASE work[w].pc = "set_result"
        BY <2>1, <2>4, <3>1, <3>2, <4>3
      <4>4. CASE work[w].pc = "set_status"
        BY <2>1, <2>4, <3>1, <4>4
      <4>5. CASE work[w].pc \in Recording
        BY <2>1, <2>4, <3>1, <4>5
      <4>6. CASE work[w].pc = "publish"
        BY <1>1, <2>1, <2>4, <3>1, <4>6, OutcomesAre
      <4> QED BY <2>1, <4>1, <4>2, <4>3, <4>4, <4>5, <4>6
    <3> QED BY <1>1, <1>2, <2>1, <2>4, <3>3, OwnFollows
  <2> QED BY <2>3, <2>4
<1>6. CASE WorkerCrash(w)
  <2>1. /\ work'[w].id = NoId /\ \A v \in Workers : v # w => work'[v] = work[v]
        /\ UNCHANGED <<queue, status, result>> /\ "crash" \in Env
    BY <1>1, <1>6, OneWorker, ZenonT(60) DEF WorkerCrash, redisVars
  <2>2. \A v \in Workers : work'[v].id = id => work'[v] = work[v]
    BY <1>1, <2>1
  <2> QED BY <1>2, <2>1, <2>2, FollowsStill DEF Held, In
<1>7. CASE SweepStep(w) \/ SnapshotStep(w)
  <2>1. UNCHANGED <<queue, status, result, work>>
    BY <1>7 DEF SweepStep, SweepStart, SweepList, SweepDelete, SnapshotStep, redisVars
  <2> QED BY <1>2, <2>1, FollowsStill DEF Held, In
<1> QED BY <1>3, <1>4, <1>5, <1>6, <1>7

LEMMA FollowsInvariant ==
  ASSUME Durable
  PROVE  Spec => []FollowsInv
<1>1. Init => FollowsInv
  <2> SUFFICES ASSUME Init, NEW id \in Once PROVE Follows(id)
    BY DEF FollowsInv
  <2>1. status[id] = "none" /\ result[id] = NoReport /\ req[id].pc = "idle"
    BY OnceIds DEF Init, RedisInit, ServiceInit
  <2>2. ~In(queue, id) /\ \A w \in Workers : work[w].id # id
    BY OnceIds DEF Init, RedisInit, WorkerInit, Idle, In
  <2> QED BY <2>1, <2>2 DEF Follows, Held, Final
<1>2. FollowsInv /\ Typed /\ PlaceInv /\ [Next]_vars => FollowsInv'
  <2> SUFFICES ASSUME FollowsInv, Typed, PlaceInv, [Next]_vars, NEW id \in Once
               PROVE  Follows(id)'
    BY DEF FollowsInv
  <2>1. Follows(id)
    BY DEF FollowsInv
  <2>2. CASE EventStep \/ HandlersStep \/ UNCHANGED vars
    <3>1. UNCHANGED <<queue, status, result, work, req>>
      BY <2>2 DEF EventStep, EventFrame, StreamNext, StreamStep, StreamOpen, StreamFirstResult,
         StreamSubscribe, StreamAgain, StreamSecondResult, StreamReceive, StreamTimeout,
         StreamGone, SubscriptionTakesEffect, SubscriptionBreaks, HandlersStep, HandlersFrame,
         vars, redisVars, workerVars, serviceVars
    <3> QED BY <2>1, <3>1, FollowsStill DEF Held, In
  <2>3. ~Tick
    BY DEF Durable, Tick, Typed, TypeOK
  <2> QED BY <2>1, <2>2, <2>3, NoResends, ServiceFollows, WorkerFollows DEF Next
<1> QED BY <1>1, <1>2, TypedInvariant, PlaceInvariant, PTL DEF Spec
\* No result is taken back.
LEMMA ResultStays ==
  ASSUME Durable, Typed, [Next]_vars, NEW id \in Ids, result[id] # NoReport
  PROVE  result'[id] # NoReport
<1>1. RedisTypeOK /\ NoReport.status \notin Final
  BY OutcomesAre DEF Typed, TypeOK
<1>2. ASSUME NEW w \in Workers, ProcessStep(w) PROVE result'[id] # NoReport
  <2>1. CASE WorkerPop(w)
    BY <2>1, PopTurns DEF KeysSame
  <2>2. CASE ~WorkerPop(w)
    <3>1. UNCHANGED result \/ (WriteResult(w) /\ result'[work[w].id] = work[w].outcome)
      BY <1>2, <2>2, StepTurns DEF Turns, KeysSame
    <3>2. WriteResult(w) => work[w].outcome.status \in Final
      BY DEF WriteResult, At, Typed, WorkersHaveJobs, Deciding, Decided
    <3>3. id # work[w].id => result'[id] = result[id]
      BY <1>2, <2>2, StepTurns
    <3> QED BY <1>1, <3>1, <3>2, <3>3
  <2> QED BY <2>1, <2>2
<1>3. ASSUME ~\E w \in Workers : ProcessStep(w) PROVE UNCHANGED result
  <2>1. ~Tick
    BY DEF Durable, Tick, Typed, TypeOK
  <2> QED BY <1>3, <2>1, NoResends
      DEF Next, ServiceStep, ServiceNext, SubmitValidate, SubmitPutList, UploadPresign,
          ClientPut, CheckValidate, RequestSetStatus, RequestPush, RequestDies, PollStart,
          PollResult, PollStatus, SetStatus, Push, WorkerStep, WorkerNext, SweepStep,
          SweepStart, SweepList, SweepDelete, SnapshotStep, WorkerCrash, EventStep, StreamNext,
          StreamStep, StreamOpen, StreamFirstResult, StreamSubscribe, StreamAgain,
          StreamSecondResult, StreamReceive, StreamTimeout, StreamGone,
          SubscriptionTakesEffect, SubscriptionBreaks, HandlersStep, HandlersFrame, vars,
          redisVars
<1> QED BY <1>2, <1>3

LEMMA StatusStays ==
  ASSUME Durable, Typed, PlaceInv, [Next]_vars, NEW id \in Once
  PROVE  /\ Rank(status'[id]) >= Rank(status[id])
         /\ Rank(status[id]) \in 0..3 /\ Rank(status'[id]) \in 0..3
<1>1. now' = now /\ now \in Nat
  BY NoResends DEF Durable, Typed, TypeOK, Next, ServiceStep, ServiceFrame, ServiceOnly,
       WorkerStep, WorkerFrame, WorkerOnly,
     EventStep, EventFrame, HandlersStep, HandlersFrame, Tick, vars
<1>2. Forward(id)
  BY NextPlace, OncePlaced
<1>3. Typed'
  BY NextTyped
<1>4. status[id] \in Statuses /\ status'[id] \in Statuses
  BY <1>3, OnceIds DEF Typed, TypeOK, RedisTypeOK
<1> QED BY <1>1, <1>2, <1>4, RankType DEF Forward

-----------------------------------------------------------------------------
(***************************************************************************)
(* A client that polls.  What it was last told is not ahead of the keys,   *)
(* and once it has been told the end it does not ask for the status again: *)
(* the result is there, and is read first.                                 *)
(***************************************************************************)
Polled(p) ==
  LET id == poll[p].id
      told == poll[p].answer.status
  IN /\ id = NoId => poll[p].answer = NoReport
     /\ id \in Once =>
          IF told \in Final THEN result[id] # NoReport /\ poll[p].pc # "status"
                            ELSE Rank(told) <= Rank(status[id])

PollInv == \A p \in Polls : Polled(p)
LEMMA PollSteps ==
  ASSUME Durable, Typed, FollowsInv, NEW p \in Polls, Polled(p),
         PollStart(p) \/ PollResult(p) \/ PollStatus(p)
  PROVE  /\ Polled(p)'
         /\ poll[p].id \in Once => Rank(poll'[p].answer.status) >= Rank(poll[p].answer.status)
         /\ \A q \in Polls : q # p => poll'[q] = poll[q]
<1>1. /\ poll \in [Polls -> Poll] /\ RedisTypeOK /\ \A x \in Once : x \in Ids /\ x # NoId
      /\ poll[p].answer.status \in Statuses /\ poll[p].answer \in Report
  BY OnceIds DEF Typed, TypeOK, ServiceTypeOK, Poll, Report
<1>2. UNCHANGED <<status, result>>
  BY DEF PollStart, PollResult, PollStatus, redisVars
<1>3. NoReport.status = "none" /\ "none" \notin Final
  BY OutcomesAre DEF Final
<1>4. \A x \in Once :
        /\ status[x] \in Statuses /\ Rank(status[x]) \in 0..3
        /\ result[x] # NoReport => result[x].status \in Final
        /\ status[x] \in Final => result[x] # NoReport
  BY <1>1, <1>3, OutcomesAre, RankType DEF RedisTypeOK, FollowsInv, Follows
<1>5. (\A s \in Statuses : Rank(s) \in 0..3) /\ (\A s \in Final : Rank(s) = 3)
  BY Ranks, RankType
<1>6. CASE PollStart(p)
  <2>1. PICK x \in Ids : /\ poll[p].id \in {NoId, x}
                         /\ poll' = [poll EXCEPT ![p].pc = "result", ![p].id = x]
    BY <1>6 DEF PollStart
  <2>2. /\ poll'[p].id = x /\ poll'[p].answer = poll[p].answer /\ poll'[p].pc = "result"
        /\ \A q \in Polls : q # p => poll'[q] = poll[q]
    BY <1>1, <2>1 DEF Poll
  <2>3. x # NoId
    BY NoneAssumption
  <2>4. poll[p].id = NoId => poll[p].answer.status = "none"
    BY <1>3 DEF Polled
  <2>5. CASE poll[p].id = NoId
    <3>1. poll'[p].answer.status \notin Final /\ Rank(poll'[p].answer.status) = 0
      BY <1>3, <2>2, <2>4, <2>5, Ranks
    <3> QED BY <1>1, <1>2, <1>4, <2>2, <2>3, <2>5, <3>1 DEF Polled
  <2>6. CASE poll[p].id = x
    BY <1>1, <1>2, <1>5, <2>2, <2>3, <2>6 DEF Polled
  <2> QED BY <2>1, <2>5, <2>6
<1>7. CASE PollResult(p)
  <2>1. CASE result[poll[p].id] # NoReport /\ Answer(p, result[poll[p].id])
    <3>1. /\ poll'[p].id = poll[p].id /\ poll'[p].answer = result[poll[p].id]
          /\ poll'[p].pc = "idle" /\ \A q \in Polls : q # p => poll'[q] = poll[q]
      BY <1>1, <2>1 DEF Answer, Poll
    <3>2. poll[p].id # NoId
      BY <1>7, NoneAssumption DEF PollResult, Typed, ReadersHaveJobs
    <3>3. poll[p].id \in Once => Rank(poll'[p].answer.status) = 3 /\ poll'[p].answer.status \in Final
      BY <1>4, <1>5, <2>1, <3>1
    <3>4. Polled(p)'
      BY <1>2, <2>1, <3>1, <3>2, <3>3 DEF Polled
    <3> QED BY <1>1, <1>5, <3>1, <3>3, <3>4
  <2>2. CASE result[poll[p].id] = NoReport /\ poll' = [poll EXCEPT ![p].pc = "status"]
    <3>1. /\ poll'[p].id = poll[p].id /\ poll'[p].answer = poll[p].answer
          /\ poll'[p].pc = "status" /\ \A q \in Polls : q # p => poll'[q] = poll[q]
      BY <1>1, <2>2 DEF Poll
    <3> QED BY <1>2, <1>4, <1>5, <2>2, <3>1, <1>1 DEF Polled
  <2> QED BY <1>7, <2>1, <2>2 DEF PollResult, GetResult, Durable
<1>8. CASE PollStatus(p)
  <2>1. /\ poll[p].pc = "status" /\ poll[p].id \in Ids
        /\ Answer(p, Plain(status[poll[p].id]))
    BY <1>8 DEF PollStatus, GetStatus, Durable, Typed, ReadersHaveJobs
  <2>2. /\ poll'[p].id = poll[p].id /\ poll'[p].answer = Plain(status[poll[p].id])
        /\ poll'[p].pc = "idle" /\ \A q \in Polls : q # p => poll'[q] = poll[q]
    BY <1>1, <2>1 DEF Answer, Poll
  <2>3. poll'[p].answer.status = status[poll[p].id]
    BY <1>1, <2>1, <2>2, Reports DEF RedisTypeOK
  <2>4. poll[p].id # NoId
    BY <2>1, NoneAssumption
  <2> QED BY <1>1, <1>2, <1>4, <1>5, <2>1, <2>2, <2>3, <2>4 DEF Polled
<1> QED BY <1>6, <1>7, <1>8

LEMMA NextPolls ==
  ASSUME Durable, Typed, PlaceInv, FollowsInv, PollInv, [Next]_vars
  PROVE  /\ PollInv'
         /\ \A p \in Polls : poll[p].id \in Once =>
              Rank(poll'[p].answer.status) >= Rank(poll[p].answer.status)
<1>1. \A p \in Polls : poll[p].answer.status \in Statuses
  BY DEF Typed, TypeOK, ServiceTypeOK, Poll, Report
<1>2. \A p \in Polls : Rank(poll[p].answer.status) \in 0..3
  BY <1>1, RankType
\* The keys of a submitted job move forward under a client that waits.
<1>3. ASSUME NEW p \in Polls, poll'[p] = poll[p] PROVE Polled(p)'
  <2>1. \A x \in Once : x \in Ids /\ x # NoId
    BY OnceIds
  <2>2. poll[p].id \in Once =>
          /\ Rank(status'[poll[p].id]) >= Rank(status[poll[p].id])
          /\ Rank(status[poll[p].id]) \in 0..3 /\ Rank(status'[poll[p].id]) \in 0..3
    BY StatusStays
  <2>3. poll[p].id \in Once /\ result[poll[p].id] # NoReport => result'[poll[p].id] # NoReport
    BY <2>1, ResultStays
  <2> QED BY <1>2, <1>3, <2>1, <2>2, <2>3 DEF PollInv, Polled
<1>4. ASSUME NEW p \in Polls, PollStart(p) \/ PollResult(p) \/ PollStatus(p)
      PROVE  /\ PollInv'
             /\ \A q \in Polls : poll[q].id \in Once =>
                  Rank(poll'[q].answer.status) >= Rank(poll[q].answer.status)
  BY <1>2, <1>3, <1>4, PollSteps DEF PollInv
<1>5. CASE UNCHANGED poll
  BY <1>2, <1>3, <1>5 DEF PollInv
<1>6. UNCHANGED poll \/ \E p \in Polls : PollStart(p) \/ PollResult(p) \/ PollStatus(p)
  BY NoResends DEF Next, ServiceStep, ServiceNext, SubmitValidate, SubmitPutList, UploadPresign,
     ClientPut, CheckValidate, RequestSetStatus, RequestPush, RequestDies, WorkerStep,
     WorkerFrame, WorkerOnly, EventStep, EventFrame, HandlersStep, HandlersFrame, Tick, vars,
     serviceVars
<1> QED BY <1>4, <1>5, <1>6

\* While Redis answers and nothing expires, no client that polls sees the state
\* of a job go back, although each poll reads two keys at two times and a worker
\* may die between writing one and the other.
THEOREM PollsOnlyForward ==
  ASSUME ~RedisMayFail, MaxTime = 0
  PROVE  Spec => PollMovesForward
<1>1. Init => PollInv
  BY OnceIds, Ranks, OutcomesAre DEF Init, ServiceInit, PollInv, Polled
<1>2. PollInv /\ Typed /\ PlaceInv /\ FollowsInv /\ [Next]_vars => PollInv'
  BY NextPolls DEF Durable
<1>3. PollInv /\ Typed /\ PlaceInv /\ FollowsInv /\ [Next]_vars =>
        [\A p \in Polls : poll[p].id \in Once =>
           Rank(poll'[p].answer.status) >= Rank(poll[p].answer.status)]_vars
  BY NextPolls DEF Durable
<1>4. Spec => []FollowsInv
  BY FollowsInvariant DEF Durable
<1> QED BY <1>1, <1>2, <1>3, <1>4, TypedInvariant, PlaceInvariant, PTL
        DEF Spec, PollMovesForward
-----------------------------------------------------------------------------
(***************************************************************************)
(* No job is dropped.  Of any id, and however often it is checked, there   *)
(* is a request about to push, a job that waits, a worker that has yet to  *)
(* write the status, or the end; and each of them hands on to the next.    *)
(***************************************************************************)
Created(id) == \E r \in Requests : req[r].id = id /\ req[r].pc = "created"
Pushing(id) == \E r \in Requests : req[r].id = id /\ req[r].pc = "push"
Working(id) == \E w \in Workers : work[w].id = id /\ work[w].pc \in Early
Ended(id) == status[id] \in Final /\ result[id] # NoReport
Live(id) == Pushing(id) \/ In(queue, id) \/ Working(id) \/ Ended(id)

LiveInv ==
  /\ \A id \in Ids : Created(id) => Live(id)
  /\ \A w \in Workers : work[w].pc = "set_status" => result[work[w].id] # NoReport

LEMMA ServiceLive ==
  ASSUME Durable, "crash" \notin Env, Typed, ServiceStep, NEW id \in Ids
  PROVE  /\ Live(id) => Live(id)'
         /\ Created(id)' => Created(id) \/ Live(id)'
<1>1. ServiceTypeOK /\ RedisTypeOK
  BY DEF Typed, TypeOK
<1>2. UNCHANGED <<work, result>>
  BY DEF ServiceStep, ServiceFrame, ServiceOnly, workerVars, ServiceNext, SubmitValidate,
       SubmitPutList,
       UploadPresign, ClientPut, CheckValidate, RequestSetStatus, RequestPush, RequestDies,
       PollStart, PollResult, PollStatus, SetStatus, Push, redisVars
<1>3. Working(id) => Working(id)'
  BY <1>2 DEF Working
\* A request that has yet to set the status goes on.
<1>4. ASSUME UNCHANGED <<queue, status>>, NEW r \in Requests, req[r].pc \notin {"push", "created"},
             req'[r].pc \notin {"push", "created"}, \A q \in Requests : q # r => req'[q] = req[q]
      PROVE  (Created(id)' => Created(id)) /\ (Live(id) => Live(id)')
  <2>1. (Pushing(id) => Pushing(id)') /\ (Created(id)' => Created(id))
    BY <1>4 DEF Pushing, Created
  <2> QED BY <1>2, <1>3, <1>4, <2>1 DEF Live, Ended, In
<1>5. ASSUME NEW x \in SubmitIds, SubmitValidate(x)
      PROVE  (Created(id)' => Created(id)) /\ (Live(id) => Live(id)')
  <2>1. UNCHANGED <<queue, status>> /\ x \in Requests /\ req[x].pc = "idle"
    BY <1>5 DEF SubmitValidate, redisVars, Requests
  <2>2. PICK content \in Contents, order \in Orders :
          req' = [req EXCEPT ![x] =
                    [pc |-> IF content \in Accepted THEN "put" ELSE "rejected",
                     id |-> x, order |-> order, content |-> content]]
    BY <1>5 DEF SubmitValidate
  <2>3. req'[x].pc \in {"put", "rejected"} /\ \A q \in Requests : q # x => req'[q] = req[q]
    BY <1>1, <2>1, <2>2 DEF ServiceTypeOK
  <2> QED BY <1>4, <2>1, <2>3
<1>6. ASSUME NEW c \in Checks, CheckValidate(c)
      PROVE  (Created(id)' => Created(id)) /\ (Live(id) => Live(id)')
  <2>1. UNCHANGED <<queue, status>> /\ c \in Requests /\ req[c].pc = "idle"
    BY <1>6 DEF CheckValidate, redisVars, Requests
  <2>2. PICK x \in CheckIds, order \in Orders, content \in Contents \cup {NoList} :
          req' = [req EXCEPT ![c] =
                    [pc |-> IF content \in Parsable THEN "status" ELSE "rejected",
                     id |-> x, order |-> order, content |-> content]]
    BY <1>6, CheckIdsGet DEF CheckValidate
  <2>3. req'[c].pc \in {"status", "rejected"} /\ \A q \in Requests : q # c => req'[q] = req[q]
    BY <1>1, <2>1, <2>2 DEF ServiceTypeOK
  <2> QED BY <1>4, <2>1, <2>3
<1>7. ASSUME NEW x \in SubmitIds, SubmitPutList(x)
      PROVE  (Created(id)' => Created(id)) /\ (Live(id) => Live(id)')
  <2>1. /\ UNCHANGED <<queue, status>> /\ x \in Requests /\ req[x].pc = "put"
        /\ \E pc \in {"failed", "status"} : GoTo(x, pc)
    BY <1>7 DEF SubmitPutList, redisVars, Requests
  <2> QED BY <1>1, <1>4, <2>1, OneRequest
<1>8. ASSUME NEW r \in Requests, RequestSetStatus(r)
      PROVE  (Created(id)' => Created(id)) /\ (Live(id) => Live(id)')
  <2>1. /\ UNCHANGED queue /\ req[r].pc = "status" /\ GoTo(r, "push") /\ req[r].id \in Ids
        /\ status' = [status EXCEPT ![req[r].id] = "queued"]
    BY <1>8 DEF RequestSetStatus, SetStatus, Durable, Typed, RequestsHaveJobs
  <2>2. /\ req'[r].pc = "push" /\ req'[r].id = req[r].id
        /\ \A q \in Requests : q # r => req'[q] = req[q]
    BY <1>1, <2>1, OneRequest
  <2>3. (Pushing(id) => Pushing(id)') /\ (Created(id)' => Created(id))
    BY <2>1, <2>2 DEF Pushing, Created
  <2>4. req[r].id = id => Pushing(id)'
    BY <2>2 DEF Pushing
  <2>5. req[r].id # id => status'[id] = status[id]
    BY <1>1, <2>1 DEF RedisTypeOK
  <2> QED BY <1>2, <1>3, <2>1, <2>3, <2>4, <2>5 DEF Live, Ended, In
<1>9. ASSUME NEW r \in Requests, RequestPush(r)
      PROVE  (Live(id) => Live(id)') /\ (Created(id)' => Created(id) \/ Live(id)')
  <2> DEFINE job == JobOf(r)
  <2>1. /\ UNCHANGED status /\ queue' = Append(queue, job)
        /\ req[r].pc = "push" /\ GoTo(r, "created")
    BY <1>9 DEF RequestPush, Push, Durable
  <2>2. job \in Job /\ job.id = req[r].id
    BY <1>1, <2>1, JobOfType DEF Typed, JobOf
  <2> HIDE DEF job
  <2>3. In(queue, id)' <=> In(queue, id) \/ req[r].id = id
    <3>1. In(Append(queue, job), id) <=> In(queue, id) \/ job.id = id
      BY <1>1, <2>2, AppendIn DEF RedisTypeOK
    <3> QED BY <2>1, <2>2, <3>1 DEF In
  <2>4. \A q \in Requests : q # r => req'[q] = req[q]
    BY <1>1, <2>1, OneRequest
  <2>5. Pushing(id) => Pushing(id)' \/ In(queue, id)'
    BY <2>3, <2>4 DEF Pushing
  <2>6. Created(id)' => Created(id) \/ In(queue, id)'
    BY <1>1, <2>1, <2>3, <2>4, OneRequest DEF Created
  <2> QED BY <1>2, <1>3, <2>1, <2>3, <2>5, <2>6 DEF Live, Ended
<1>10. ASSUME UNCHANGED <<req, redisVars>>
       PROVE  (Created(id)' => Created(id)) /\ (Live(id) => Live(id)')
  BY <1>3, <1>10 DEF Live, Created, Pushing, Ended, In, redisVars
<1>11. ASSUME NEW u \in UploadIds, UploadPresign(u) \/ ClientPut(u) PROVE UNCHANGED <<req, redisVars>>
  BY <1>11 DEF UploadPresign, ClientPut, serviceVars
<1>12. ASSUME NEW p \in Polls, PollStart(p) \/ PollResult(p) \/ PollStatus(p)
       PROVE  UNCHANGED <<req, redisVars>>
  BY <1>12 DEF PollStart, PollResult, PollStatus
<1>13. \A r \in Requests : ~RequestDies(r)
  BY DEF RequestDies
<1> QED BY <1>5, <1>6, <1>7, <1>8, <1>9, <1>10, <1>11, <1>12, <1>13 DEF ServiceStep, ServiceNext

LEMMA WorkerLive ==
  ASSUME Durable, "crash" \notin Env, Typed, WorkerStep, NEW id \in Ids,
         \A w \in Workers : work[w].pc = "set_status" => result[work[w].id] # NoReport
  PROVE  Live(id) => Live(id)'
<1>1. RedisTypeOK /\ WorkerTypeOK /\ id # NoId /\ Idle.id = NoId
  BY NoneAssumption DEF Typed, TypeOK, Idle
<1>2. UNCHANGED req
  BY DEF WorkerStep, WorkerFrame, WorkerOnly, serviceVars
<1>3. Pushing(id) => Pushing(id)'
  BY <1>2 DEF Pushing
<1>4. result[id] # NoReport => result'[id] # NoReport
  BY ResultStays DEF Next
<1>5. PICK w \in Workers : ProcessStep(w) \/ SweepStep(w) \/ SnapshotStep(w) \/ WorkerCrash(w)
  BY DEF WorkerStep, WorkerNext
<1>6. CASE WorkerPop(w)
  <2>1. /\ queue # <<>> /\ queue' = Tail(queue) /\ queue \in Seq(Job) /\ KeysSame
        /\ work[w].pc = "pop" /\ work'[w].pc = "announce" /\ work'[w].id = Head(queue).id
        /\ \A v \in Workers : v # w => work'[v] = work[v]
    BY <1>6, PopTurns
  <2>2. In(queue, id) => In(queue, id)' \/ Working(id)'
    <3>1. CASE Head(queue).id = id
      BY <2>1, <3>1 DEF Working, Early
    <3>2. CASE Head(queue).id # id
      BY <2>1, <3>2, TailStays, ZenonT(60) DEF In
    <3> QED BY <3>1, <3>2
  <2>3. Working(id) => Working(id)'
    BY <2>1 DEF Working, Early, Deciding
  <2> QED BY <1>3, <2>1, <2>2, <2>3 DEF Live, Ended, KeysSame
<1>7. CASE ProcessStep(w) /\ ~WorkerPop(w)
  <2>1. /\ UNCHANGED queue /\ Turns(w)
        /\ \A v \in Workers : v # w => work'[v] = work[v]
        /\ \A x \in Ids : x # work[w].id => status'[x] = status[x] /\ result'[x] = result[x]
    BY <1>7, StepTurns
  <2>2. In(queue, id) => In(queue, id)'
    BY <2>1 DEF In
  <2>3. CASE work[w].id # id
    BY <1>3, <2>1, <2>2, <2>3 DEF Live, Working, Ended
  <2>4. CASE work[w].id = id
    <3> USE DEF Turns, KeysSame, Same, At, Deciding
    <3>1. CASE work[w].pc = "set_status"
      <4>1. work[w].outcome.status \in Final
        BY <3>1 DEF Typed, WorkersHaveJobs, Decided
      <4>2. Ended(id)'
        BY <1>4, <2>1, <2>4, <3>1, <4>1 DEF Ended
      <4> QED BY <4>2 DEF Live
    <3>2. CASE work[w].pc \in Early \ {"set_status"}
      <4>1. work'[w].id = id /\ work'[w].pc \in Early
        BY <2>1, <2>4, <3>2 DEF Early
      <4> QED BY <4>1 DEF Live, Working
    <3>3. CASE work[w].pc \notin Early
      <4>1. KeysSame
        BY <2>1, <3>3 DEF Early
      <4>2. Working(id) => Working(id)'
        BY <2>1, <3>3 DEF Working
      <4> QED BY <1>3, <2>2, <4>1, <4>2 DEF Live, Ended
    <3> QED BY <3>1, <3>2, <3>3
  <2> QED BY <2>3, <2>4
<1>8. CASE SweepStep(w) \/ SnapshotStep(w)
  <2>1. UNCHANGED <<queue, status, result, work>>
    BY <1>8 DEF SweepStep, SweepStart, SweepList, SweepDelete, SnapshotStep, redisVars
  <2> QED BY <1>3, <2>1 DEF Live, Ended, Working, In
<1> QED BY <1>5, <1>6, <1>7, <1>8 DEF WorkerCrash
LEMMA SettersKeep ==
  ASSUME Durable, Typed, [Next]_vars, NEW w \in Workers,
         work[w].pc = "set_status" => result[work[w].id] # NoReport,
         work'[w].pc = "set_status"
  PROVE  result'[work'[w].id] # NoReport
<1>1. WorkerTypeOK
  BY DEF Typed, TypeOK
<1>2. CASE work'[w] = work[w]
  BY <1>2, ResultStays DEF Typed, WorkersHaveJobs
<1>3. CASE WorkerStep /\ work'[w] # work[w]
  <2>1. PICK v \in Workers : ProcessStep(v) \/ SweepStep(v) \/ SnapshotStep(v) \/ WorkerCrash(v)
    BY <1>3 DEF WorkerStep, WorkerNext
  <2>2. CASE WorkerPop(v)
    BY <1>3, <2>2, PopTurns
  <2>3. CASE ProcessStep(v) /\ ~WorkerPop(v)
    <3>1. Turns(v) /\ \A u \in Workers : u # v => work'[u] = work[u]
      BY <2>3, StepTurns
    <3>2. v = w
      BY <1>3, <3>1
    <3>3. work[w].pc = "set_result" => work[w].outcome.status \in Final
      BY DEF Typed, WorkersHaveJobs, Deciding, Decided
    <3> QED BY <3>1, <3>2, <3>3, OutcomesAre DEF Turns, At, Same, Idle
  <2>4. CASE WorkerCrash(v)
    BY <1>1, <1>3, <2>4, OneWorker DEF WorkerCrash, Idle
  <2>5. CASE SweepStep(v) \/ SnapshotStep(v)
    BY <1>3, <2>5 DEF SweepStep, SweepStart, SweepList, SweepDelete, SnapshotStep
  <2> QED BY <2>1, <2>2, <2>3, <2>4, <2>5
<1>4. WorkerStep \/ UNCHANGED work
  BY NoResends DEF Next, ServiceStep, ServiceFrame, ServiceOnly, EventStep, EventFrame,
       HandlersStep, HandlersFrame,
     Tick, vars, workerVars
<1> QED BY <1>2, <1>3, <1>4

LEMMA NextLive ==
  ASSUME Durable, "crash" \notin Env, Typed, LiveInv, [Next]_vars
  PROVE  LiveInv'
<1>1. \A w \in Workers : work'[w].pc = "set_status" => result'[work'[w].id] # NoReport
  BY SettersKeep DEF LiveInv
<1>2. ASSUME NEW id \in Ids PROVE Created(id)' => Live(id)'
  <2>1. Created(id) => Live(id)
    BY DEF LiveInv
  <2>2. CASE ServiceStep
    BY <2>1, <2>2, ServiceLive
  <2>3. CASE WorkerStep
    <3>1. UNCHANGED req
      BY <2>3 DEF WorkerStep, WorkerFrame, WorkerOnly, serviceVars
    <3> QED BY <2>1, <2>3, <3>1, WorkerLive DEF LiveInv, Created
  <2>4. CASE EventStep \/ HandlersStep \/ UNCHANGED vars
    <3>1. UNCHANGED <<queue, status, result, work, req>>
      BY <2>4 DEF EventStep, EventFrame, StreamNext, StreamStep, StreamOpen, StreamFirstResult,
         StreamSubscribe, StreamAgain, StreamSecondResult, StreamReceive, StreamTimeout,
         StreamGone, SubscriptionTakesEffect, SubscriptionBreaks, HandlersStep, HandlersFrame,
         vars, redisVars, workerVars, serviceVars
    <3> QED BY <2>1, <3>1 DEF Created, Live, Pushing, Working, Ended, In
  <2>5. ~Tick
    BY DEF Durable, Tick, Typed, TypeOK
  <2> QED BY <2>2, <2>3, <2>4, <2>5, NoResends DEF Next
<1> QED BY <1>1, <1>2 DEF LiveInv

\* While Redis answers and forgets nothing and nobody dies, no accepted job is
\* left with a status that nothing will change, however often its list is checked
\* and however the requests and the workers of one id overtake each other.
THEOREM NothingPending ==
  ASSUME ~RedisMayFail, "crash" \notin Env, MaxTime = 0
  PROVE  Spec => []NothingLeftPending
<1>1. Init => LiveInv
  BY DEF Init, ServiceInit, WorkerInit, Idle, LiveInv, Created
<1>2. LiveInv /\ Typed /\ [Next]_vars => LiveInv'
  BY NextLive DEF Durable
<1>3. LiveInv => NothingLeftPending
  <2> SUFFICES ASSUME LiveInv, NEW id \in Ids
               PROVE  \/ \A r \in Requests : req[r].id = id => req[r].pc # "created"
                      \/ \E r \in Requests : req[r].id = id /\ req[r].pc = "push"
                      \/ Queued(id) \/ HeldBy(id) # {}
                      \/ status[id] \in Final /\ result[id] # NoReport
    BY DEF NothingLeftPending
  <2>1. Created(id) => Live(id)
    BY DEF LiveInv
  <2>2. Working(id) => HeldBy(id) # {}
    BY DEF Working, HeldBy
  <2> QED BY <2>1, <2>2 DEF Created, Live, Pushing, Ended, Queued, In
<1> QED BY <1>1, <1>2, <1>3, TypedInvariant, PTL DEF Spec
-----------------------------------------------------------------------------
(***************************************************************************)
(* No completion is missed by a stream that Redis knew of when it looked   *)
(* again: a worker that is still to publish then reaches it; and a stream  *)
(* whose second look found the end finds the result, written before.       *)
(***************************************************************************)
Listening == {"again", "second", "loop"}
Completes(s) == \E k \in 1..Len(inbox[s].events) : inbox[s].events[k].status \in Final

Catches(s) ==
  LET id == stream[s].id IN
    /\ stream[s].pc \in Listening => inbox[s].topic = id
    /\ stream[s].pc \in Listening /\ stream[s].covered => inbox[s].live = "yes"
    /\ stream[s].pc = "second" /\ id \in Once => result[id] # NoReport
    /\ stream[s].pc = "loop" /\ stream[s].covered /\ id \in Once /\ status[id] \in Final
         => Held(id) \/ Completes(s)
    /\ stream[s].covered => stream[s].pc \in {"second", "loop", "closed"}

CatchesInv == \A s \in Streams : Catches(s)

\* A step of one stream is not seen by another.
LEMMA OneStream ==
  ASSUME Typed, NEW s \in Streams,
         \/ StreamStep(s) \/ StreamTimeout(s) \/ StreamGone(s)
         \/ SubscriptionTakesEffect(s) \/ SubscriptionBreaks(s)
  PROVE  /\ \A t \in Streams : t # s => stream'[t] = stream[t] /\ inbox'[t] = inbox[t]
         /\ UNCHANGED redisVars
<1>1. stream \in [Streams -> Stream] /\ inbox \in [Streams -> Inbox]
  BY DEF Typed, TypeOK, StreamTypeOK, PubSubTypeOK
<1>2. UNCHANGED redisVars
  BY DEF StreamStep, StreamOpen, StreamFirstResult, StreamSubscribe, StreamAgain,
     StreamSecondResult, StreamReceive, StreamTimeout, StreamGone, SubscriptionTakesEffect,
     SubscriptionBreaks
<1>3. ASSUME NEW t \in Streams, t # s PROVE stream'[t] = stream[t]
  BY <1>1, <1>3 DEF StreamStep, StreamOpen, StreamFirstResult, StreamSubscribe, StreamAgain,
     StreamSecondResult, StreamReceive, StreamTimeout, StreamGone, SubscriptionTakesEffect,
     SubscriptionBreaks, Close, CloseWith, SendStatus, streamVars
<1>4. ASSUME NEW t \in Streams, t # s PROVE inbox'[t] = inbox[t]
  BY <1>1, <1>4 DEF StreamStep, StreamOpen, StreamFirstResult, StreamSubscribe, StreamAgain,
     StreamSecondResult, StreamReceive, StreamTimeout, StreamGone, SubscriptionTakesEffect,
     SubscriptionBreaks, Cancel, Subscribe, Activate, Reconnect, pubsubVars
<1> QED BY <1>2, <1>3, <1>4

LEMMA EventCatches ==
  ASSUME Durable, Typed, FollowsInv, CatchesInv, EventStep
  PROVE  CatchesInv'
<1>1. PICK s \in Streams :
        \/ StreamStep(s) \/ StreamTimeout(s) \/ StreamGone(s)
        \/ SubscriptionTakesEffect(s) \/ SubscriptionBreaks(s)
  BY DEF EventStep, StreamNext
<1>2. /\ \A t \in Streams : t # s => stream'[t] = stream[t] /\ inbox'[t] = inbox[t]
      /\ UNCHANGED <<status, result, work>>
  BY <1>1, OneStream DEF EventStep, EventFrame, redisVars, workerVars
<1>3. ASSUME NEW t \in Streams, t # s PROVE Catches(t)'
  BY <1>2, <1>3 DEF CatchesInv, Catches, Completes, Held
<1>4. /\ stream \in [Streams -> Stream] /\ inbox \in [Streams -> Inbox]
      /\ inbox[s].events \in Seq(Report) /\ Catches(s)
  BY DEF Typed, TypeOK, StreamTypeOK, PubSubTypeOK, Inbox, CatchesInv
<1>5. /\ stream[s].pc \in Listening =>
           inbox[s].topic = stream[s].id /\ (stream[s].covered => inbox[s].live = "yes")
      /\ stream[s].covered => stream[s].pc \in {"second", "loop", "closed"}
  BY <1>4 DEF Catches
<1>6. CASE /\ stream'[s].pc \notin Listening
           /\ stream'[s].covered => stream'[s].pc = "closed"
  BY <1>3, <1>6 DEF CatchesInv, Catches, Listening
<1>7. CASE StreamOpen(s) \/ StreamFirstResult(s)
  <2>1. CASE StreamOpen(s)
    <3>1. PICK id \in Ids : \E st \in GetStatus(id) :
            stream' = [stream EXCEPT ![s].id = id,
              ![s].pc = IF st = "none" THEN "closed"
                        ELSE IF st \in Final THEN "first" ELSE "subscribe",
              ![s].end = IF st = "none" THEN "not_found" ELSE "open",
              ![s].seen = st]
      BY <2>1 DEF StreamOpen
    <3>2. /\ stream'[s].pc \in {"closed", "first", "subscribe"} /\ stream[s].pc = "idle"
          /\ stream'[s].covered = stream[s].covered
      BY <1>4, <2>1, <3>1 DEF StreamOpen, Stream
    <3> QED BY <1>5, <1>6, <3>2 DEF Listening
  <2>2. CASE StreamFirstResult(s)
    <3>1. /\ stream'[s].pc \in {"closed", "subscribe"} /\ stream[s].pc = "first"
          /\ stream'[s].covered = stream[s].covered
      BY <1>4, <2>2 DEF StreamFirstResult, CloseWith, SendStatus, Stream
    <3> QED BY <1>5, <1>6, <3>1 DEF Listening
  <2> QED BY <1>6, <1>7, <2>1, <2>2
<1>8. CASE StreamSubscribe(s)
  <2>1. /\ stream'[s].pc = "again" /\ stream'[s].id = stream[s].id
        /\ stream[s].pc = "subscribe" /\ stream'[s].covered = stream[s].covered
        /\ inbox'[s].topic = stream[s].id
    BY <1>4, <1>8 DEF StreamSubscribe, Subscribe, Stream
  <2>2. Catches(s)'
    BY <1>5, <2>1 DEF Catches
  <2> QED BY <1>3, <2>2 DEF CatchesInv
<1>9. CASE StreamAgain(s)
  <2>1. stream[s].id \in Ids /\ stream[s].pc = "again"
    BY <1>9 DEF StreamAgain, Typed, ReadersHaveJobs
  <2>2. /\ stream'[s].pc = IF status[stream[s].id] \in Final THEN "second" ELSE "loop"
        /\ stream'[s].id = stream[s].id /\ UNCHANGED inbox
        /\ stream'[s].covered = (inbox[s].live = "yes")
    BY <1>4, <1>9 DEF StreamAgain, GetStatus, Durable, Stream, pubsubVars
  <2>3. stream[s].id \in Once /\ status[stream[s].id] \in Final => result[stream[s].id] # NoReport
    BY OutcomesAre DEF FollowsInv, Follows
  <2>4. Catches(s)'
    BY <1>2, <1>5, <2>1, <2>2, <2>3 DEF Catches, Listening
  <2> QED BY <1>3, <2>4 DEF CatchesInv
<1>10. CASE StreamSecondResult(s)
  <2>1. CASE CloseWith(s, result[stream[s].id], "result")
    BY <1>4, <1>6, <2>1 DEF CloseWith, Listening, Stream
  <2>2. CASE /\ result[stream[s].id] = NoReport
             /\ stream' = [stream EXCEPT ![s].pc = "loop"] /\ UNCHANGED pubsubVars
    <3>1. /\ stream'[s].id = stream[s].id /\ UNCHANGED inbox /\ stream[s].pc = "second"
          /\ stream'[s].covered = stream[s].covered /\ stream'[s].pc = "loop"
      BY <1>4, <1>10, <2>2 DEF Stream, pubsubVars, StreamSecondResult
    <3>2. stream[s].id \notin Once
      BY <1>4, <2>2, <3>1 DEF Catches
    <3>3. Catches(s)'
      BY <1>5, <3>1, <3>2 DEF Catches, Listening
    <3> QED BY <1>3, <3>3 DEF CatchesInv
  <2> QED BY <1>10, <2>1, <2>2 DEF StreamSecondResult, GetResult, Durable
<1>11. CASE StreamReceive(s)
  <2> DEFINE event == Head(inbox[s].events)
  <2>1. CASE CloseWith(s, event, "result")
    BY <1>4, <1>6, <2>1 DEF CloseWith, Listening, Stream
  <2>2. CASE /\ event.status \notin Final
             /\ SendStatus(s, event.status, "loop")
             /\ inbox' = [inbox EXCEPT ![s].events = Tail(@)]
    <3>1. /\ stream'[s].id = stream[s].id /\ stream'[s].pc = "loop" /\ stream[s].pc = "loop"
          /\ stream'[s].covered = stream[s].covered
          /\ inbox'[s].topic = inbox[s].topic /\ inbox'[s].live = inbox[s].live
          /\ inbox'[s].events = Tail(inbox[s].events) /\ inbox[s].events # <<>>
      BY <1>4, <1>11, <2>2 DEF SendStatus, StreamReceive, Stream, Inbox
    <3>2. Completes(s) => Completes(s)'
      <4> SUFFICES ASSUME NEW k \in 1..Len(inbox[s].events),
                          inbox[s].events[k].status \in Final
                   PROVE  Completes(s)'
        BY DEF Completes
      <4>1. k # 1 /\ Len(Tail(inbox[s].events)) = Len(inbox[s].events) - 1
        BY <1>4, <2>2, <3>1
      <4>2. /\ k - 1 \in 1..Len(Tail(inbox[s].events))
            /\ Tail(inbox[s].events)[k - 1] = inbox[s].events[k]
        BY <1>4, <3>1, <4>1
      <4> QED BY <3>1, <4>2 DEF Completes
    <3>3. Catches(s)'
      BY <1>2, <1>4, <3>1, <3>2 DEF Catches, Held, Listening
    <3> QED BY <1>3, <3>3 DEF CatchesInv
  <2> QED BY <1>11, <2>1, <2>2 DEF StreamReceive
<1>12. CASE StreamTimeout(s) \/ StreamGone(s)
  BY <1>4, <1>6, <1>12 DEF StreamTimeout, StreamGone, Close, CloseWith, Listening, Stream
<1>13. CASE SubscriptionTakesEffect(s) \/ SubscriptionBreaks(s)
  <2>1. SubscriptionTakesEffect(s)
    BY <1>13 DEF SubscriptionBreaks, Reconnect, Durable, RedisMayFail
  <2>2. /\ UNCHANGED stream /\ inbox'[s].live = "yes" /\ inbox'[s].topic = inbox[s].topic
        /\ inbox'[s].events = inbox[s].events
    BY <1>4, <2>1 DEF SubscriptionTakesEffect, Activate, Inbox, streamVars
  <2>3. Catches(s)'
    BY <1>2, <1>4, <2>2 DEF Catches, Completes, Held
  <2> QED BY <1>3, <2>3 DEF CatchesInv
<1> QED BY <1>1, <1>7, <1>8, <1>9, <1>10, <1>11, <1>12, <1>13 DEF StreamStep
LEMMA PublishCompletes ==
  ASSUME PubSubTypeOK, NEW id \in Ids, NEW event \in Report, Publish(id, event), NEW s \in Streams
  PROVE  /\ inbox'[s].topic = inbox[s].topic /\ inbox'[s].live = inbox[s].live
         /\ Completes(s) => Completes(s)'
         /\ inbox[s].topic = id /\ inbox[s].live = "yes" /\ event.status \in Final => Completes(s)'
<1>1. ASSUME NEW r, Holds(s, r)', r.status \in Final PROVE Completes(s)'
  BY <1>1 DEF Holds, Completes
<1>2. Completes(s) => \E r : Holds(s, r) /\ r.status \in Final
  BY DEF Holds, Completes
<1> QED BY <1>1, <1>2, PublishHolds

LEMMA WorkerCatches ==
  ASSUME Durable, "crash" \notin Env, Typed, PlaceInv, FollowsInv, CatchesInv, WorkerStep
  PROVE  CatchesInv'
<1>1. UNCHANGED stream /\ PubSubTypeOK /\ WorkerTypeOK
  BY DEF WorkerStep, WorkerFrame, WorkerOnly, streamVars, Typed, TypeOK
<1>2. \A id \in Once : id \in Ids /\ id # NoId /\ (result[id] # NoReport => result'[id] # NoReport)
  BY OnceIds, ResultStays, NoResends DEF Next
\* It is enough that an end is told, or is still held by its worker.
<1>3. ASSUME NEW s \in Streams, inbox'[s].topic = inbox[s].topic, inbox'[s].live = inbox[s].live,
             Completes(s) => Completes(s)',
             LET id == stream[s].id IN
               stream[s].pc = "loop" /\ stream[s].covered /\ id \in Once /\ status'[id] \in Final
                 => Held(id)' \/ Completes(s)'
      PROVE  Catches(s)'
  BY <1>1, <1>2, <1>3 DEF CatchesInv, Catches
<1>4. ASSUME UNCHANGED inbox, \A id \in Once : Held(id) => Held(id)',
             \A id \in Once : status'[id] \in Final => status[id] \in Final \/ Held(id)'
      PROVE  CatchesInv'
  <2>1. ASSUME NEW s \in Streams PROVE Catches(s)'
    <3>1. Completes(s) <=> Completes(s)'
      BY <1>4 DEF Completes
    <3>2. ASSUME stream[s].pc = "loop", stream[s].covered, stream[s].id \in Once,
                 status'[stream[s].id] \in Final
          PROVE  Held(stream[s].id)' \/ Completes(s)'
      BY <1>1, <1>4, <3>1, <3>2 DEF CatchesInv, Catches
    <3> QED BY <1>3, <1>4, <3>1, <3>2
  <2> QED BY <2>1 DEF CatchesInv
<1>5. PICK w \in Workers : ProcessStep(w) \/ SweepStep(w) \/ SnapshotStep(w)
  BY DEF WorkerStep, WorkerNext, WorkerCrash
<1>6. CASE SweepStep(w) \/ SnapshotStep(w)
  <2>1. UNCHANGED <<status, work, inbox>>
    BY <1>6 DEF SweepStep, SweepStart, SweepList, SweepDelete, SnapshotStep, redisVars, pubsubVars
  <2> QED BY <1>4, <2>1 DEF Held
<1>7. CASE WorkerPop(w)
  <2>1. /\ UNCHANGED <<status, inbox>> /\ work[w].pc = "pop"
        /\ \A v \in Workers : v # w => work'[v] = work[v]
    BY <1>7, PopTurns DEF WorkerPop, KeysSame, pubsubVars
  <2>2. work[w].id \notin Once
    BY <1>2, <2>1 DEF PlaceInv, Apart
  <2>3. \A id \in Once : Held(id) => Held(id)'
    BY <2>1, <2>2 DEF Held
  <2> QED BY <1>4, <2>1, <2>3
<1>8. CASE ProcessStep(w) /\ ~WorkerPop(w)
  <2>1. /\ Turns(w) /\ \A v \in Workers : v # w => work'[v] = work[v]
        /\ \A x \in Ids : x # work[w].id => status'[x] = status[x]
    BY <1>8, StepTurns
  <2>2. ASSUME work'[w].id = work[w].id PROVE \A id \in Once : Held(id) => Held(id)'
    BY <2>1, <2>2 DEF Held
  <2>3. work[w].id \in Ids
    BY <1>8 DEF Typed, WorkersHaveJobs, ProcessStep, At, Announce, Mark, Read, WriteResult,
       WriteStatus, StoreResult, IncrementTotal, IncrementVerdict, LogPush, LogTrim, PublishOutcome
  <2>4. CASE Announce(w)
    <3>1. /\ Publish(work[w].id, Plain("processing")) /\ UNCHANGED status
          /\ work'[w].id = work[w].id
      BY <2>1, <2>4 DEF Announce, TryPublish, Durable, Turns, KeysSame, Same, At, Mark, Read,
         WriteResult, WriteStatus, StoreResult, IncrementTotal, IncrementVerdict, LogPush,
         LogTrim, PublishOutcome
    <3>2. Plain("processing") \in Report
      BY DEF Plain, Report, Statuses
    <3> QED BY <1>3, <2>2, <2>3, <3>1, <3>2, <1>1, PublishCompletes DEF CatchesInv, Catches
  <2>5. CASE PublishOutcome(w)
    <3>1. /\ Publish(work[w].id, work[w].outcome) /\ UNCHANGED status /\ work[w].pc = "publish"
      BY <2>5 DEF PublishOutcome, TryPublish, Durable, redisVars, At
    <3>2. work[w].outcome \in Report
      BY <1>1 DEF WorkerTypeOK, Work
    <3>3. ASSUME NEW s \in Streams PROVE Catches(s)'
      <4> DEFINE id == stream[s].id
      <4>1. ASSUME stream[s].pc = "loop", stream[s].covered, id \in Once, status[id] \in Final,
                   ~Completes(s)
            PROVE  Held(id)' \/ Completes(s)'
        <5>1. PICK v \in Workers : work[v].id = id
          BY <4>1 DEF CatchesInv, Catches, Held
        <5>2. CASE v # w
          BY <1>1, <2>1, <5>1, <5>2 DEF Held
        <5>3. CASE v = w
          <6>1. work[w].outcome.status \in Final
            BY <3>1, <4>1, <5>1, <5>3, OutcomesAre DEF FollowsInv, Follows, Knows, Ending
          <6>2. inbox[s].topic = work[w].id /\ inbox[s].live = "yes"
            BY <4>1, <5>1, <5>3 DEF CatchesInv, Catches, Listening
          <6> QED BY <1>1, <2>3, <3>1, <3>2, <6>1, <6>2, PublishCompletes
        <5> QED BY <5>2, <5>3
      <4>2. /\ inbox'[s].topic = inbox[s].topic /\ inbox'[s].live = inbox[s].live
            /\ Completes(s) => Completes(s)'
        BY <1>1, <2>3, <3>1, <3>2, PublishCompletes
      <4> QED BY <1>3, <3>1, <4>1, <4>2
    <3> QED BY <3>3 DEF CatchesInv
  <2>6. CASE WriteStatus(w)
    <3>1. work'[w].id = work[w].id /\ UNCHANGED inbox
      BY <2>1, <2>6 DEF WriteStatus, Turns, Same, At, Announce, Mark, Read,
         WriteResult, StoreResult, IncrementTotal, IncrementVerdict, LogPush,
         LogTrim, PublishOutcome, pubsubVars
    <3>2. \A id \in Once : status'[id] \in Final => status[id] \in Final \/ Held(id)'
      BY <1>2, <2>1, <3>1 DEF Held
    <3> QED BY <1>4, <2>2, <3>1, <3>2
  <2>7. CASE \/ Mark(w) \/ Read(w) \/ WriteResult(w) \/ StoreResult(w)
             \/ IncrementTotal(w) \/ IncrementVerdict(w) \/ LogPush(w) \/ LogTrim(w)
    <3>1. /\ UNCHANGED inbox /\ work[w].pc \notin {"announce", "set_status", "publish"}
      BY <2>7 DEF Mark, Read, WriteResult, StoreResult, IncrementTotal, IncrementVerdict,
         LogPush, LogTrim, At, pubsubVars
    <3>2. work'[w].id = work[w].id /\ (UNCHANGED status \/ status'[work[w].id] = "processing")
      BY <2>1, <3>1 DEF Turns, Same, KeysSame, At
    <3>3. \A id \in Once : status'[id] \in Final => status[id] \in Final
      BY <1>2, <2>1, <3>2 DEF Final
    <3> QED BY <1>4, <2>2, <3>1, <3>2, <3>3
  <2> QED BY <1>8, <2>4, <2>5, <2>6, <2>7 DEF ProcessStep
<1> QED BY <1>5, <1>6, <1>7, <1>8

LEMMA NextCatches ==
  ASSUME Durable, "crash" \notin Env, Typed, PlaceInv, FollowsInv, CatchesInv, [Next]_vars
  PROVE  CatchesInv'
<1>1. CASE ServiceStep
  <2>1. UNCHANGED <<result, work, stream, inbox>>
    BY <1>1 DEF ServiceStep, ServiceFrame, ServiceOnly, workerVars, streamVars, pubsubVars,
         ServiceNext,
       SubmitValidate, SubmitPutList, UploadPresign, ClientPut, CheckValidate,
       RequestSetStatus, RequestPush, RequestDies, PollStart, PollResult, PollStatus,
       SetStatus, Push, redisVars
  <2>2. \A id \in Ids : status'[id] = status[id] \/ status'[id] = "queued"
    <3>1. CASE UNCHANGED status
      BY <3>1
    <3>2. CASE \E r \in Requests : RequestSetStatus(r)
      BY <3>2 DEF RequestSetStatus, SetStatus, Durable, Typed, TypeOK, RedisTypeOK
    <3> QED BY <1>1, <3>1, <3>2 DEF ServiceStep, ServiceNext,
       SubmitValidate, SubmitPutList, UploadPresign, ClientPut, CheckValidate,
       RequestPush, RequestDies, PollStart, PollResult, PollStatus, Push, redisVars
  <2>3. \A id \in Once : status'[id] \in Final => status[id] \in Final
    BY <2>2, OnceIds DEF Final
  <2> QED BY <2>1, <2>3 DEF CatchesInv, Catches, Completes, Held
<1>2. CASE HandlersStep \/ UNCHANGED vars
  <2>1. UNCHANGED <<result, status, work, stream, inbox>>
    BY <1>2 DEF HandlersStep, HandlersFrame, vars, workerVars, streamVars, pubsubVars, redisVars
  <2> QED BY <2>1 DEF CatchesInv, Catches, Completes, Held
<1>3. ~Tick
  BY DEF Durable, Tick, Typed, TypeOK
<1> QED BY <1>1, <1>2, <1>3, NoResends, WorkerCatches, EventCatches DEF Next

\* While Redis answers and forgets nothing and no worker dies, a stream that Redis
\* knew of when it looked again has the end in its channel once the job has ended:
\* the second look closes the window between the first look and the subscription,
\* however late Redis comes to know of other streams.
THEOREM CompletionsCaught ==
  ASSUME ~RedisMayFail, "crash" \notin Env, MaxTime = 0
  PROVE  Spec => []NoMissedCompletion
<1>1. Init => CatchesInv
  BY DEF Init, StreamInit, CatchesInv, Catches, Listening
<1>2. CatchesInv /\ Typed /\ PlaceInv /\ FollowsInv /\ [Next]_vars => CatchesInv'
  BY NextCatches DEF Durable
<1>3. CatchesInv => NoMissedCompletion
  BY DEF CatchesInv, Catches, NoMissedCompletion, Held, HeldBy, Completes
<1>4. Spec => []FollowsInv
  BY FollowsInvariant DEF Durable
<1> QED BY <1>1, <1>2, <1>3, <1>4, TypedInvariant, PlaceInvariant, PTL DEF Spec
-----------------------------------------------------------------------------
(***************************************************************************)
(* The counters agree.  When no upload check runs, every job is the only   *)
(* one of its id, so that a result is written once and counted once; what  *)
(* a counter is short of are the verdicts of the workers on their way to   *)
(* it.                                                                     *)
(***************************************************************************)
Sole ==
  /\ \A c \in Checks : req[c].pc = "idle"
  /\ \A k \in 1..Len(queue) : queue[k].id \in Once
  /\ \A w \in Workers : work[w].pc = "pop" \/ work[w].id \in Once
  /\ \A id \in Ids \ Once : result[id] = NoReport

Verdicts(n) ==
  CASE n = "total" -> {Done(TRUE), Done(FALSE)}
    [] n = "sorted" -> {Done(TRUE)}
    [] n = "not_sorted" -> {Done(FALSE)}
Uncounted(n) ==
  {"set_status", "put_result", "incr_total"} \cup (IF n = "total" THEN {} ELSE {"incr_verdict"})
Counted(n) ==
  {id \in Ids : /\ result[id] \in Verdicts(n)
                /\ \A w \in Workers : work[w].id = id => work[w].pc \notin Uncounted(n)}

AgreeInv ==
  Sole /\ \A n \in CounterNames : IsFiniteSet(Counted(n)) /\ counters[n] = Cardinality(Counted(n))
LEMMA NextSole ==
  ASSUME CheckIds = {}, Durable, "crash" \notin Env, Typed, Sole, [Next]_vars
  PROVE  Sole'
<1>1. /\ ServiceTypeOK /\ WorkerTypeOK /\ queue \in Seq(Job) /\ RequestsHaveJobs /\ RedisTypeOK
      /\ Once = SubmitIds /\ Once \subseteq Ids /\ SubmitIds \cap Checks = {}
      /\ Requests = SubmitIds \cup Checks
  BY IdsAssumption DEF Typed, TypeOK, RedisTypeOK, Once, Ids, Requests
<1>2. CASE ServiceStep
  <2>1. UNCHANGED <<work, result>>
    BY <1>2 DEF ServiceStep, ServiceFrame, ServiceOnly, workerVars, ServiceNext, SubmitValidate,
         SubmitPutList,
       UploadPresign, ClientPut, CheckValidate, RequestSetStatus, RequestPush, RequestDies,
       PollStart, PollResult, PollStatus, SetStatus, Push, redisVars
  <2>2. ASSUME \A c \in Checks : req'[c].pc = req[c].pc,
               \A k \in 1..Len(queue') : queue'[k].id \in Once
        PROVE  Sole'
    BY <2>1, <2>2 DEF Sole
  <2>3. ASSUME NEW x \in SubmitIds, SubmitValidate(x) PROVE Sole'
    <3>1. UNCHANGED queue /\ \E new : req' = [req EXCEPT ![x] = new]
      BY <2>3 DEF SubmitValidate, redisVars
    <3> QED BY <1>1, <2>2, <3>1, OneRequest DEF Sole
  <2>4. ASSUME NEW r \in Requests, SubmitPutList(r) \/ RequestSetStatus(r) \/ RequestDies(r)
        PROVE  Sole'
    <3>1. UNCHANGED queue /\ req[r].pc # "idle" /\ \E pc : GoTo(r, pc)
      BY <2>4 DEF SubmitPutList, RequestSetStatus, RequestDies, SetStatus, redisVars
    <3> QED BY <1>1, <2>2, <3>1, OneRequest DEF Sole
  <2>5. ASSUME NEW r \in Requests, RequestPush(r) PROVE Sole'
    <3> DEFINE job == JobOf(r)
    <3>1. req[r].pc = "push" /\ GoTo(r, "created") /\ queue' = Append(queue, job)
      BY <2>5 DEF RequestPush, Push, Durable
    <3>2. r \in SubmitIds /\ req[r].id = r
      BY <1>1, <3>1 DEF Sole, RequestsHaveJobs
    <3>3. job \in Job /\ job.id \in Once
      BY <1>1, <3>1, <3>2, JobOfType DEF JobOf
    <3> HIDE DEF job
    <3>4. \A k \in 1..Len(queue') : queue'[k].id \in Once
      <4>1. \A k \in 1..Len(queue') :
              (k \in 1..Len(queue) /\ queue'[k] = queue[k]) \/ queue'[k] = job
        BY <1>1, <3>1, <3>3
      <4> QED BY <3>3, <4>1 DEF Sole
    <3> QED BY <1>1, <2>2, <3>1, <3>2, <3>4, OneRequest
  <2>6. ASSUME UNCHANGED <<req, queue>> PROVE Sole'
    BY <2>2, <2>6 DEF Sole
  <2>7. ASSUME NEW u \in UploadIds, UploadPresign(u) \/ ClientPut(u) PROVE Sole'
    BY <2>6, <2>7 DEF UploadPresign, ClientPut, serviceVars, redisVars
  <2>8. ASSUME NEW p \in Polls, PollStart(p) \/ PollResult(p) \/ PollStatus(p) PROVE Sole'
    BY <2>6, <2>8 DEF PollStart, PollResult, PollStatus, redisVars
  <2>9. \A c \in Checks : ~CheckValidate(c)
    BY DEF CheckValidate
  <2> QED BY <1>1, <1>2, <2>3, <2>4, <2>5, <2>7, <2>8, <2>9 DEF ServiceStep, ServiceNext
<1>3. CASE WorkerStep
  <2>1. UNCHANGED req
    BY <1>3 DEF WorkerStep, WorkerFrame, WorkerOnly, serviceVars
  <2>2. PICK w \in Workers : ProcessStep(w) \/ SweepStep(w) \/ SnapshotStep(w)
    BY <1>3 DEF WorkerStep, WorkerNext, WorkerCrash
  <2>3. CASE WorkerPop(w)
    <3>1. /\ queue # <<>> /\ queue' = Tail(queue) /\ UNCHANGED result
          /\ work'[w].id = Head(queue).id /\ \A v \in Workers : v # w => work'[v] = work[v]
      BY <2>3, PopTurns DEF KeysSame
    <3>2. Head(queue) = queue[1] /\ 1 \in 1..Len(queue)
          /\ \A k \in 1..Len(queue') : k + 1 \in 1..Len(queue) /\ queue'[k] = queue[k + 1]
      BY <1>1, <3>1
    <3> QED BY <2>1, <3>1, <3>2 DEF Sole
  <2>4. CASE ProcessStep(w) /\ ~WorkerPop(w)
    <3>1. /\ UNCHANGED queue /\ Turns(w) /\ \A v \in Workers : v # w => work'[v] = work[v]
          /\ \A x \in Ids : x # work[w].id => result'[x] = result[x]
      BY <2>4, StepTurns
    <3>2. work[w].pc # "pop" /\ (work'[w] = Idle \/ work'[w].id = work[w].id)
      BY <3>1 DEF Turns, Same, At
    <3>3. Idle.pc = "pop"
      BY DEF Idle
    <3> QED BY <2>1, <3>1, <3>2, <3>3 DEF Sole
  <2>5. CASE SweepStep(w) \/ SnapshotStep(w)
    <3>1. UNCHANGED <<queue, result, work>>
      BY <2>5 DEF SweepStep, SweepStart, SweepList, SweepDelete, SnapshotStep, redisVars
    <3> QED BY <2>1, <3>1 DEF Sole
  <2> QED BY <2>2, <2>3, <2>4, <2>5
<1>4. CASE EventStep \/ HandlersStep \/ UNCHANGED vars
  <2>1. UNCHANGED <<queue, result, work, req>>
    BY <1>4 DEF EventStep, EventFrame, StreamNext, StreamStep, StreamOpen, StreamFirstResult,
       StreamSubscribe, StreamAgain, StreamSecondResult, StreamReceive, StreamTimeout,
       StreamGone, SubscriptionTakesEffect, SubscriptionBreaks, HandlersStep, HandlersFrame,
       vars, redisVars, workerVars, serviceVars
  <2> QED BY <2>1 DEF Sole
<1>5. ~Tick
  BY DEF Durable, Tick, Typed, TypeOK
<1> QED BY <1>2, <1>3, <1>4, <1>5, NoResends DEF Next
LEMMA VerdictKinds ==
  /\ \A n \in CounterNames : \A r \in Verdicts(n) : r.status = "done" /\ r # NoReport
  /\ \A b \in BOOLEAN : Done(b) \in Verdicts("total")
  /\ \A b \in BOOLEAN : Done(b) \in Verdicts("sorted") <=> b
  /\ \A b \in BOOLEAN : Done(b) \in Verdicts("not_sorted") <=> ~b
<1>1. Done(TRUE) # Done(FALSE) /\ Done(TRUE).status = "done" /\ Done(FALSE).status = "done"
      /\ NoReport.status = "none"
  BY OutcomesAre
<1> QED BY <1>1 DEF Verdicts, CounterNames

\* Whether the job in the hands of w is counted.
LEMMA OwnCounted ==
  ASSUME Durable, Typed, PlaceInv, NEW w \in Workers, work[w].id \in Once,
         \A v \in Workers : v # w => work'[v] = work[v],
         work'[w].id \in {work[w].id, NoId},
         \A x \in Ids : x # work[w].id => result'[x] = result[x], NEW n \in CounterNames
  PROVE  LET id == work[w].id IN
         /\ \A x \in Ids : x # id => (x \in Counted(n)' <=> x \in Counted(n))
         /\ id \in Counted(n) <=> result[id] \in Verdicts(n) /\ work[w].pc \notin Uncounted(n)
         /\ id \in Counted(n)' <=>
              result'[id] \in Verdicts(n) /\ (work'[w].id = id => work'[w].pc \notin Uncounted(n))
<1> DEFINE id == work[w].id
<1>1. \A x \in Ids : x # NoId
  BY NoneAssumption
<1>2. id \in Ids /\ \A v \in Workers : work[v].id = id => v = w
  BY OnceIds, OncePlaced DEF Place
<1>3. \A x \in Ids : x # id => (x \in Counted(n)' <=> x \in Counted(n))
  BY <1>1 DEF Counted, Verdicts, Uncounted
<1>4. id \in Counted(n) <=> result[id] \in Verdicts(n) /\ work[w].pc \notin Uncounted(n)
  BY <1>2 DEF Counted
<1>5. ASSUME NEW x, x = id
      PROVE  x \in Counted(n)' <=>
               result'[x] \in Verdicts(n) /\ (work'[w].id = x => work'[w].pc \notin Uncounted(n))
  BY <1>2, <1>5 DEF Counted, Verdicts, Uncounted
<1> QED BY <1>3, <1>4, <1>5

LEMMA WorkerAgrees ==
  ASSUME CheckIds = {}, Durable, Typed, PlaceInv, FollowsInv, AgreeInv, Sole',
         [Next]_vars, NEW w \in Workers, ProcessStep(w), ~WorkerPop(w)
  PROVE  AgreeInv'
<1> DEFINE id == work[w].id
<1>1. /\ Turns(w) /\ \A v \in Workers : v # w => work'[v] = work[v]
      /\ \A x \in Ids : x # work[w].id => status'[x] = status[x] /\ result'[x] = result[x]
  BY StepTurns
<1>2. id \in Once /\ id \in Ids /\ Idle.id = NoId /\ id # NoId
  BY <1>1, OnceIds DEF AgreeInv, Sole, Turns, At, Idle
<1>3. Knows(w, id)
  BY <1>2 DEF FollowsInv, Follows
<1>4. work'[w].id \in {id, NoId}
  BY <1>1, <1>2 DEF Turns, Same
<1>5. ASSUME NEW n \in CounterNames
      PROVE  /\ Counted(n) \subseteq Ids /\ Counted(n)' \subseteq Ids
             /\ \A x \in Ids : x # id => (x \in Counted(n)' <=> x \in Counted(n))
             /\ id \in Counted(n) <=> result[id] \in Verdicts(n) /\ work[w].pc \notin Uncounted(n)
             /\ id \in Counted(n)' <=>
                  result'[id] \in Verdicts(n) /\ (work'[w].id = id => work'[w].pc \notin Uncounted(n))
  <2>1. Counted(n) \subseteq Ids /\ Counted(n)' \subseteq Ids
    BY DEF Counted
  <2> QED BY <1>1, <1>2, <1>4, <2>1, OwnCounted
\* A step that counts nothing.
<1>6. ASSUME UNCHANGED counters,
             \A n \in CounterNames : id \in Counted(n)' <=> id \in Counted(n)
      PROVE  AgreeInv'
  <2>1. ASSUME NEW n \in CounterNames PROVE Counted(n)' = Counted(n)
    <3>1. ASSUME NEW x \in Ids PROVE x \in Counted(n)' <=> x \in Counted(n)
      <4>1. CASE x = id
        BY <1>6, <4>1
      <4>2. CASE x # id
        BY <1>5, <4>2
      <4> QED BY <4>1, <4>2
    <3> QED BY <1>5, <3>1
  <2> QED BY <1>6, <2>1 DEF AgreeInv
\* The step that counts the verdict under a name.
<1>7. ASSUME NEW name \in CounterNames, Incr(name), id \notin Counted(name), id \in Counted(name)',
             \A n \in CounterNames \ {name} : id \in Counted(n)' <=> id \in Counted(n)
      PROVE  AgreeInv'
  <2>1. ASSUME NEW n \in CounterNames
        PROVE  IsFiniteSet(Counted(n)') /\ counters'[n] = Cardinality(Counted(n)')
    <3>1. IsFiniteSet(Counted(n)) /\ counters[n] = Cardinality(Counted(n))
      BY DEF AgreeInv
    <3>2. counters'[n] = IF n = name THEN counters[n] + 1 ELSE counters[n]
      BY <1>7, Increments
    <3>3. CASE n = name
      <4>1. Counted(n)' = Counted(n) \cup {id}
        BY <1>2, <1>5, <1>7, <3>3
      <4> DEFINE S == Counted(n)
      <4>2. id \notin S /\ IsFiniteSet(S) /\ Cardinality(S) = counters[n]
        BY <1>7, <3>1, <3>3
      <4> HIDE DEF S
      <4>3. IsFiniteSet(S \cup {id}) /\ Cardinality(S \cup {id}) = Cardinality(S) + 1
        BY <4>2, OneMore
      <4> QED BY <3>2, <3>3, <4>1, <4>2, <4>3 DEF S
    <3>4. CASE n # name
      <4>1. Counted(n)' = Counted(n)
        BY <1>5, <1>7, <3>4
      <4> QED BY <3>1, <3>2, <3>4, <4>1
    <3> QED BY <3>3, <3>4
  <2> QED BY <2>1 DEF AgreeInv
<1>8. UNCHANGED counters \/ IncrementTotal(w) \/ IncrementVerdict(w)
  BY DEF ProcessStep, WorkerPop, Announce, Mark, Read, WriteResult, WriteStatus,
     StoreResult, PublishOutcome, LogPush, LogTrim, LPush, LTrim, statsVars
<1>9. work[w].pc \in {"incr_total", "incr_verdict"} =>
        \E b \in BOOLEAN : work[w].outcome = Done(b) /\ work[w].outcome.sorted = b
  BY <1>3, OutcomesAre DEF Knows, Ending, Recording
<1> USE DEF At, Same, KeysSame
<1>10. CASE work[w].pc = "incr_total"
  <2>1. IncrementTotal(w) /\ Incr("total") /\ work'[w].pc = "incr_verdict" /\ UNCHANGED result
    BY <1>1, <1>10 DEF Turns, IncrementTotal, Durable
  <2>2. result[id] = work[w].outcome /\ work'[w].id = id
    BY <1>1, <1>3, <1>10 DEF Turns, Knows, Ending, Recording
  <2>3. result[id] \in Verdicts("total")
    BY <1>9, <1>10, <2>2, VerdictKinds
  <2>4. ASSUME NEW n \in CounterNames
        PROVE  work[w].pc \in Uncounted(n) /\ (work'[w].pc \in Uncounted(n) <=> n # "total")
    BY <1>10, <2>1 DEF Uncounted
  <2>5. "total" \in CounterNames
    BY DEF CounterNames
  <2> HIDE DEF id
  <2> QED BY <1>5, <1>7, <2>1, <2>2, <2>3, <2>4, <2>5
<1>11. CASE work[w].pc = "incr_verdict"
  <2> DEFINE name == VerdictCounter(w)
  <2>1. /\ IncrementVerdict(w) /\ Incr(name) /\ work'[w].pc = "log_push" /\ UNCHANGED result
        /\ name \in CounterNames
    BY <1>1, <1>11 DEF Turns, IncrementVerdict, Durable, VerdictCounter, CounterNames
  <2>2. result[id] = work[w].outcome /\ work'[w].id = id
    BY <1>1, <1>3, <1>11 DEF Turns, Knows, Ending, Recording
  <2>3. /\ result[id] \in Verdicts("total")
        /\ result[id] \in Verdicts("sorted") <=> name = "sorted"
        /\ result[id] \in Verdicts("not_sorted") <=> name = "not_sorted"
    BY <1>9, <1>11, <2>2, VerdictKinds DEF VerdictCounter
  <2>4. ASSUME NEW n \in CounterNames
        PROVE  (work[w].pc \in Uncounted(n) <=> n # "total") /\ work'[w].pc \notin Uncounted(n)
    BY <1>11, <2>1 DEF Uncounted
  <2>5. name # "total"
    BY DEF VerdictCounter
  <2>6. \A n \in CounterNames : n = "total" \/ n = "sorted" \/ n = "not_sorted"
    BY DEF CounterNames
  <2> HIDE DEF id, name
  <2> QED BY <1>5, <1>7, <2>1, <2>2, <2>3, <2>4, <2>5, <2>6
<1>12. CASE work[w].pc \notin {"incr_total", "incr_verdict"}
  <2>1. UNCHANGED counters
    BY <1>8, <1>12 DEF IncrementTotal, IncrementVerdict
  <2>2. ASSUME NEW n \in CounterNames PROVE id \in Counted(n)' <=> id \in Counted(n)
    <3>1. /\ id \in Counted(n) <=> result[id] \in Verdicts(n) /\ work[w].pc \notin Uncounted(n)
          /\ id \in Counted(n)' <=>
               result'[id] \in Verdicts(n) /\ (work'[w].id = id => work'[w].pc \notin Uncounted(n))
      BY <1>5
    <3>2. CASE work[w].pc \in {"announce", "mark", "read"}
      <4>1. UNCHANGED result /\ work'[w].pc \in {"mark", "read", "set_result"}
        BY <1>1, <3>2 DEF Turns
      <4> HIDE DEF id
      <4> QED BY <3>1, <3>2, <4>1 DEF Uncounted
    <3>3. CASE work[w].pc = "set_result"
      <4>1. result[id] = NoReport
        BY <1>3, <3>3 DEF Knows, Early, Deciding
      <4>2. work'[w].id = id /\ work'[w].pc = "set_status"
        BY <1>1, <3>3 DEF Turns
      <4> HIDE DEF id
      <4> QED BY <3>1, <4>1, <4>2, VerdictKinds DEF Uncounted
    <3>4. CASE work[w].pc = "set_status"
      <4>1. UNCHANGED result /\ work'[w].id = id /\ result[id] = work[w].outcome
            /\ work'[w].pc = IF work[w].outcome.status = "done" THEN "put_result" ELSE "publish"
        BY <1>1, <1>3, <3>4 DEF Turns, Knows
      <4> HIDE DEF id
      <4> QED BY <3>1, <3>4, <4>1, VerdictKinds DEF Uncounted
    <3>5. CASE work[w].pc = "put_result"
      <4>1. work'[w].id = id /\ work'[w].pc = "incr_total"
        BY <1>1, <3>5 DEF Turns
      <4> HIDE DEF id
      <4> QED BY <3>1, <3>5, <4>1 DEF Uncounted
    <3>6. CASE work[w].pc \in {"log_push", "log_trim", "publish"}
      <4>1. UNCHANGED result /\ (work'[w].pc \in {"log_trim", "publish"} \/ work'[w].id = NoId)
        BY <1>1, <1>2, <3>6 DEF Turns
      <4>2. work[w].pc \notin Uncounted(n) /\ "log_trim" \notin Uncounted(n)
            /\ "publish" \notin Uncounted(n) /\ id # NoId
        BY <1>2, <3>6 DEF Uncounted
      <4> HIDE DEF id
      <4> QED BY <3>1, <4>1, <4>2
    <3> QED BY <1>1, <1>12, <3>2, <3>3, <3>4, <3>5, <3>6 DEF Turns
  <2> QED BY <1>6, <2>1, <2>2
<1> QED BY <1>10, <1>11, <1>12

LEMMA NextAgree ==
  ASSUME CheckIds = {}, Durable, "crash" \notin Env, Typed, PlaceInv, FollowsInv, AgreeInv,
         [Next]_vars
  PROVE  AgreeInv'
<1>1. Sole'
  BY NextSole DEF AgreeInv
<1>2. ASSUME UNCHANGED <<counters, result>>,
             \A v \in Workers : \/ work'[v] = work[v]
                                \/ work[v].pc = "pop" /\ work'[v].pc = "announce"
      PROVE  AgreeInv'
  <2>1. ASSUME NEW n \in CounterNames PROVE Counted(n)' = Counted(n)
    <3>1. "pop" \notin Uncounted(n) /\ "announce" \notin Uncounted(n)
      BY DEF Uncounted
    <3>2. \A v \in Workers, x \in Ids :
            (work[v].id = x => work[v].pc \notin Uncounted(n))
              <=> (work'[v].id = x => work'[v].pc \notin Uncounted(n))
      BY <1>2, <3>1
    <3> QED BY <1>2, <3>2 DEF Counted, Uncounted, Verdicts
  <2> QED BY <1>1, <1>2, <2>1 DEF AgreeInv
<1>3. CASE WorkerStep
  <2>1. PICK w \in Workers : ProcessStep(w) \/ SweepStep(w) \/ SnapshotStep(w)
    BY <1>3 DEF WorkerStep, WorkerNext, WorkerCrash
  <2>2. CASE WorkerPop(w)
    <3>1. /\ UNCHANGED <<counters, result>> /\ work[w].pc = "pop" /\ work'[w].pc = "announce"
          /\ \A v \in Workers : v # w => work'[v] = work[v]
      BY <2>2, PopTurns DEF WorkerPop, KeysSame, statsVars
    <3> QED BY <1>2, <3>1
  <2>3. CASE ProcessStep(w) /\ ~WorkerPop(w)
    BY <1>1, <2>3, WorkerAgrees
  <2>4. CASE SweepStep(w) \/ SnapshotStep(w)
    <3>1. UNCHANGED <<counters, result, work>>
      BY <2>4 DEF SweepStep, SweepStart, SweepList, SweepDelete, SnapshotStep, TakeSnapshot,
         SnapshotTotal, SnapshotSorted, SnapshotNotSorted, ReadCounter, SnapshotPutCounter,
         SnapshotRecent, SnapshotPutActivity, redisVars, statsVars
    <3> QED BY <1>2, <3>1
  <2> QED BY <2>1, <2>2, <2>3, <2>4
<1>4. CASE ServiceStep \/ EventStep \/ HandlersStep \/ UNCHANGED vars
  <2>1. UNCHANGED <<counters, result, work>>
    BY <1>4 DEF ServiceStep, ServiceFrame, ServiceOnly, ServiceNext, SubmitValidate, SubmitPutList,
       UploadPresign, ClientPut, CheckValidate, RequestSetStatus, RequestPush, RequestDies,
       PollStart, PollResult, PollStatus, SetStatus, Push, EventStep, EventFrame, StreamNext,
       StreamStep, StreamOpen, StreamFirstResult, StreamSubscribe, StreamAgain,
       StreamSecondResult, StreamReceive, StreamTimeout, StreamGone, SubscriptionTakesEffect,
       SubscriptionBreaks, HandlersStep, HandlersFrame, vars, redisVars, workerVars, statsVars
  <2> QED BY <1>2, <2>1
<1>5. ~Tick
  BY DEF Durable, Tick, Typed, TypeOK
<1> QED BY <1>3, <1>4, <1>5, NoResends DEF Next

\* While Redis answers and forgets nothing, no worker dies and no upload check
\* runs a job again, the counters are, once the workers rest, the numbers of the
\* results of each kind: the two pipelines of every worker have been applied
\* exactly once, however the workers interleave.
THEOREM CountersRight ==
  ASSUME ~RedisMayFail, "crash" \notin Env, MaxTime = 0, CheckIds = {}
  PROVE  Spec => []CountersAgree
<1>1. Init => AgreeInv
  <2> SUFFICES ASSUME Init PROVE AgreeInv
    OBVIOUS
  <2>1. Sole
    BY DEF Init, ServiceInit, RedisInit, WorkerInit, Idle, Requests, Sole
  <2>2. \A n \in CounterNames : Counted(n) = {} /\ counters[n] = 0
    BY VerdictKinds DEF Counted, Init, RedisInit, StatsInit, Zeros
  <2> QED BY <2>1, <2>2, FS_EmptySet DEF AgreeInv
<1>2. AgreeInv /\ Typed /\ PlaceInv /\ FollowsInv /\ [Next]_vars => AgreeInv'
  BY NextAgree DEF Durable
<1>3. AgreeInv => CountersAgree
  <2> SUFFICES ASSUME AgreeInv, \A w \in Workers : work[w] = Idle
               PROVE  LET done(b) == {id \in Ids : result[id] = Done(b)} IN
                        /\ counters["sorted"] = Cardinality(done(TRUE))
                        /\ counters["not_sorted"] = Cardinality(done(FALSE))
                        /\ counters["total"] = Cardinality(done(TRUE) \cup done(FALSE))
    BY DEF CountersAgree
  <2>1. \A n \in CounterNames : Counted(n) = {id \in Ids : result[id] \in Verdicts(n)}
    BY DEF Counted, Uncounted, Idle
  <2>2. /\ Counted("sorted") = {id \in Ids : result[id] = Done(TRUE)}
        /\ Counted("not_sorted") = {id \in Ids : result[id] = Done(FALSE)}
        /\ Counted("total") = {id \in Ids : result[id] = Done(TRUE)}
                                \cup {id \in Ids : result[id] = Done(FALSE)}
    BY <2>1 DEF Verdicts, CounterNames
  <2> QED BY <2>2 DEF AgreeInv, CounterNames
<1>4. Spec => []FollowsInv
  BY FollowsInvariant DEF Durable
<1> QED BY <1>1, <1>2, <1>3, <1>4, TypedInvariant, PlaceInvariant, PTL DEF Spec
-----------------------------------------------------------------------------
(***************************************************************************)
(* A stream, whatever fails.  The last status it sent is the end only when *)
(* the job has gone beyond the announcement for good, and then nothing but *)
(* the end can be in its channel.                                          *)
(***************************************************************************)
Says(s, S) == \A k \in 1..Len(inbox[s].events) : inbox[s].events[k].status \in S

Shown(s) ==
  LET id == stream[s].id IN
    /\ stream[s].pc = "idle" => id = NoId
    /\ stream[s].pc \in Listening => inbox[s].topic = id /\ Says(s, Final \cup {"processing"})
    /\ id \in PushedOnce /\ stream[s].seen \in Final =>
         Beyond(id, AfterAnnounce) /\ (stream[s].pc \in Listening => Says(s, Final))

ShownInv == \A s \in Streams : Shown(s)
LEMMA FinalIsBeyond ==
  ASSUME Typed, PlaceInv, NEW id \in PushedOnce, status[id] \in Final
  PROVE  Beyond(id, AfterAnnounce)
<1>1. ~Fresh(id) /\ Place(id) /\ id # NoId
  BY OnceIds DEF Fresh, Final, PlaceInv
<1>2. ASSUME NEW w \in Workers, work[w].id = id PROVE work[w].pc \in AfterAnnounce
  <2>1. work[w].pc \in WorkPC /\ work[w].pc # "pop"
    BY <1>1, <1>2 DEF PlaceInv, Apart, Typed, TypeOK, WorkerTypeOK, Work
  <2> QED BY <1>1, <1>2, <2>1 DEF Place, Agrees, AfterAnnounce
<1> QED BY <1>1, <1>2 DEF Place, Beyond

LEMMA EventShown ==
  ASSUME Typed, PlaceInv, ShownInv, EventStep,
         \A id \in PushedOnce : Beyond(id, AfterAnnounce) => Beyond(id, AfterAnnounce)'
  PROVE  /\ ShownInv'
         /\ \A s \in Streams :
              stream[s].id \in PushedOnce => Rank(stream'[s].seen) >= Rank(stream[s].seen)
<1>1. PICK s \in Streams :
        \/ StreamStep(s) \/ StreamTimeout(s) \/ StreamGone(s)
        \/ SubscriptionTakesEffect(s) \/ SubscriptionBreaks(s)
  BY DEF EventStep, StreamNext
<1>2. \A t \in Streams : t # s => stream'[t] = stream[t] /\ inbox'[t] = inbox[t]
  BY <1>1, OneStream
<1>3. /\ stream \in [Streams -> Stream] /\ inbox \in [Streams -> Inbox] /\ Shown(s)
      /\ inbox[s].events \in Seq(Report) /\ status \in [Ids -> Statuses]
      /\ \A t \in Streams : Rank(stream[t].seen) \in 0..3
      /\ PushedOnce' = PushedOnce
  BY RankType DEF EventStep, EventFrame, sentVars, PushedOnce, Typed, TypeOK, StreamTypeOK,
       PubSubTypeOK, RedisTypeOK, Inbox, ShownInv, Stream
<1>4. ASSUME NEW t \in Streams, t # s
      PROVE  /\ Shown(t)'
             /\ stream[t].id \in PushedOnce => Rank(stream'[t].seen) >= Rank(stream[t].seen)
  BY <1>2, <1>3, <1>4 DEF ShownInv, Shown, Says
<1>5. ASSUME Shown(s)', stream[s].id \in PushedOnce => Rank(stream'[s].seen) >= Rank(stream[s].seen)
      PROVE  /\ ShownInv'
             /\ \A t \in Streams :
                  stream[t].id \in PushedOnce => Rank(stream'[t].seen) >= Rank(stream[t].seen)
  BY <1>4, <1>5 DEF ShownInv
\* The stream does not listen, or is closed, and says nothing new.
<1>6. ASSUME stream'[s].id = stream[s].id, stream'[s].seen = stream[s].seen,
             stream'[s].pc \notin Listening \cup {"idle"}
      PROVE  Shown(s)' /\ Rank(stream'[s].seen) >= Rank(stream[s].seen)
  BY <1>3, <1>6 DEF Shown
\* It goes on listening.
<1>7. ASSUME stream'[s].id = stream[s].id, stream'[s].seen = stream[s].seen,
             inbox'[s].topic = inbox[s].topic, inbox'[s].events = inbox[s].events,
             {stream[s].pc, stream'[s].pc} \subseteq Listening \/ stream'[s].pc = stream[s].pc
      PROVE  Shown(s)' /\ Rank(stream'[s].seen) >= Rank(stream[s].seen)
  BY <1>3, <1>7 DEF Shown, Says, Listening
<1>8. CASE StreamOpen(s)
  <2>1. PICK id \in Ids : \E st \in GetStatus(id) :
          stream' = [stream EXCEPT ![s].id = id,
            ![s].pc = IF st = "none" THEN "closed"
                      ELSE IF st \in Final THEN "first" ELSE "subscribe",
            ![s].end = IF st = "none" THEN "not_found" ELSE "open",
            ![s].seen = st]
    BY <1>8 DEF StreamOpen
  <2>2. PICK st \in GetStatus(id) :
          stream' = [stream EXCEPT ![s].id = id,
            ![s].pc = IF st = "none" THEN "closed"
                      ELSE IF st \in Final THEN "first" ELSE "subscribe",
            ![s].end = IF st = "none" THEN "not_found" ELSE "open",
            ![s].seen = st]
    BY <2>1
  <2>3. stream'[s].pc \in {"closed", "first", "subscribe"} /\ stream'[s].id = id
        /\ stream'[s].seen = st
    BY <1>3, <2>2 DEF Stream
  <2>4. st \in Final => st = status[id]
    BY <2>2 DEF GetStatus, Final
  <2>5. stream[s].id \notin PushedOnce
    BY <1>3, <1>8, OnceIds DEF Shown, StreamOpen
  <2>6. Shown(s)'
    BY <1>3, <2>3, <2>4, FinalIsBeyond DEF Shown, Listening
  <2> QED BY <1>5, <2>5, <2>6
<1>9. CASE StreamFirstResult(s)
  <2>1. /\ stream'[s].pc \in {"closed", "subscribe"} /\ stream'[s].id = stream[s].id
        /\ stream'[s].seen = stream[s].seen
    BY <1>3, <1>9 DEF StreamFirstResult, CloseWith, SendStatus, Stream
  <2> QED BY <1>5, <1>6, <2>1 DEF Listening
<1>10. CASE StreamSubscribe(s)
  <2>1. /\ stream'[s].pc = "again" /\ stream'[s].id = stream[s].id
        /\ stream'[s].seen = stream[s].seen
        /\ inbox'[s].topic = stream[s].id /\ inbox'[s].events = <<>>
    BY <1>3, <1>10 DEF StreamSubscribe, Subscribe, Stream
  <2>2. Says(s, Final)' /\ Says(s, Final \cup {"processing"})'
    BY <2>1 DEF Says
  <2>3. Shown(s)'
    BY <1>3, <2>1, <2>2 DEF Shown, Listening
  <2> QED BY <1>3, <1>5, <2>1, <2>3
<1>11. CASE StreamAgain(s)
  <2>1. PICK st \in GetStatus(stream[s].id) :
          stream' = [stream EXCEPT ![s].pc = IF st \in Final THEN "second" ELSE "loop",
                                   ![s].covered = inbox[s].live = "yes"]
    BY <1>11 DEF StreamAgain
  <2>2. /\ stream'[s].pc \in {"second", "loop"} /\ stream'[s].id = stream[s].id
        /\ stream'[s].seen = stream[s].seen
    BY <1>3, <2>1 DEF Stream
  <2>3. UNCHANGED inbox /\ stream[s].pc = "again"
    BY <1>11 DEF StreamAgain, pubsubVars
  <2> QED BY <1>5, <1>7, <2>2, <2>3 DEF Listening
<1>12. CASE StreamSecondResult(s)
  <2>1. \/ stream'[s].pc = "closed"
        \/ stream'[s].pc = "loop" /\ UNCHANGED inbox
    BY <1>3, <1>12 DEF StreamSecondResult, CloseWith, Stream, pubsubVars
  <2>2. stream'[s].id = stream[s].id /\ stream'[s].seen = stream[s].seen
        /\ stream[s].pc = "second"
    BY <1>3, <1>12 DEF StreamSecondResult, CloseWith, Stream
  <2> QED BY <1>5, <1>6, <1>7, <2>1, <2>2 DEF Listening
<1>13. CASE StreamReceive(s)
  <2> DEFINE event == Head(inbox[s].events)
  <2>1. /\ stream[s].pc = "loop" /\ inbox[s].events # <<>> /\ event = inbox[s].events[1]
        /\ 1 \in 1..Len(inbox[s].events)
    BY <1>3, <1>13 DEF StreamReceive
  <2> HIDE DEF event
  <2>2. CASE CloseWith(s, event, "result")
    <3>1. stream'[s].pc = "closed" /\ stream'[s].id = stream[s].id /\ stream'[s].seen = stream[s].seen
      BY <1>3, <2>2 DEF CloseWith, Stream
    <3> QED BY <1>5, <1>6, <3>1 DEF Listening
  <2>3. CASE /\ event.status \notin Final /\ SendStatus(s, event.status, "loop")
             /\ inbox' = [inbox EXCEPT ![s].events = Tail(@)]
    <3>1. /\ stream'[s].pc = "loop" /\ stream'[s].id = stream[s].id
          /\ stream'[s].seen = event.status
          /\ inbox'[s].topic = inbox[s].topic /\ inbox'[s].events = Tail(inbox[s].events)
      BY <1>3, <2>3 DEF SendStatus, Stream, Inbox
    <3>2. event.status = "processing"
      BY <1>3, <2>1, <2>3 DEF Shown, Says, Listening
    <3>3. stream[s].id \in PushedOnce => stream[s].seen \notin Final
      BY <1>3, <2>1, <2>3 DEF Shown, Says, Listening
    <3>4. \A S : Says(s, S) => Says(s, S)'
      <4>1. \A k \in 1..Len(Tail(inbox[s].events)) :
              k + 1 \in 1..Len(inbox[s].events)
              /\ Tail(inbox[s].events)[k] = inbox[s].events[k + 1]
        BY <1>3, <2>1
      <4> QED BY <3>1, <4>1 DEF Says
    <3>5. Shown(s)'
      BY <1>3, <2>1, <2>3, <3>1, <3>4 DEF Shown, Listening
    <3>6. stream[s].seen \in Statuses /\ (stream[s].seen \notin Final => Rank(stream[s].seen) \in 0..2)
      BY <1>3 DEF Stream, Rank, Final, Statuses
    <3> QED BY <1>3, <1>5, <3>1, <3>2, <3>3, <3>5, <3>6, Ranks
  <2> QED BY <1>13, <2>2, <2>3 DEF StreamReceive, event
<1>14. CASE StreamTimeout(s) \/ StreamGone(s)
  <2>1. stream'[s].pc = "closed" /\ stream'[s].id = stream[s].id /\ stream'[s].seen = stream[s].seen
    BY <1>3, <1>14 DEF StreamTimeout, StreamGone, Close, CloseWith, Stream
  <2> QED BY <1>5, <1>6, <2>1 DEF Listening
<1>15. CASE SubscriptionTakesEffect(s) \/ SubscriptionBreaks(s)
  <2>1. /\ stream'[s].id = stream[s].id /\ stream'[s].seen = stream[s].seen
        /\ stream'[s].pc = stream[s].pc
        /\ inbox'[s].topic = inbox[s].topic /\ inbox'[s].events = inbox[s].events
    BY <1>3, <1>15 DEF SubscriptionTakesEffect, SubscriptionBreaks, Activate, Reconnect, Inbox,
       Stream, streamVars
  <2> QED BY <1>5, <1>7, <2>1
<1> QED BY <1>1, <1>8, <1>9, <1>10, <1>11, <1>12, <1>13, <1>14, <1>15 DEF StreamStep

\* An event reaches no channel where it would take back what has been said.
LEMMA PublishShown ==
  ASSUME Typed, ShownInv, UNCHANGED stream,
         \A id \in PushedOnce' : id \in PushedOnce,
         \A id \in PushedOnce' : Beyond(id, AfterAnnounce) => Beyond(id, AfterAnnounce)',
         NEW w \in Workers, NEW event \in Report, Publish(work[w].id, event), work[w].id \in Ids,
         \/ event.status \in Final
         \/ event.status = "processing" /\ work[w].pc = "announce"
  PROVE  ShownInv'
<1> SUFFICES ASSUME NEW s \in Streams PROVE Shown(s)'
  BY DEF ShownInv
<1>1. /\ inbox'[s].topic = inbox[s].topic
      /\ \A r : Holds(s, r)' => Holds(s, r) \/ (inbox[s].topic = work[w].id /\ r = event)
  BY PublishHolds DEF Typed, TypeOK
<1>2. ASSUME NEW S, Says(s, S), inbox[s].topic = work[w].id => event.status \in S PROVE Says(s, S)'
  <2> SUFFICES ASSUME NEW k \in 1..Len(inbox'[s].events)
               PROVE  inbox'[s].events[k].status \in S
    BY DEF Says
  <2>1. PICK r : r = inbox'[s].events[k]
    OBVIOUS
  <2>2. Holds(s, r)'
    BY <2>1 DEF Holds
  <2> QED BY <1>1, <1>2, <2>1, <2>2 DEF Holds, Says
<1>3. Shown(s)
  BY DEF ShownInv
<1>4. stream[s].pc \in Listening => Says(s, Final \cup {"processing"})'
  BY <1>2, <1>3 DEF Shown
<1>5. ASSUME stream[s].id \in PushedOnce', stream[s].seen \in Final, stream[s].pc \in Listening
      PROVE  Says(s, Final)'
  <2>1. inbox[s].topic = work[w].id => work[w].pc # "announce"
    BY <1>3, <1>5 DEF Shown, Beyond, AfterAnnounce
  <2> QED BY <1>2, <1>3, <1>5, <2>1 DEF Shown
<1> QED BY <1>1, <1>3, <1>4, <1>5 DEF Shown

\* A step that publishes nothing, or that publishes an event, once or once more.
LEMMA WorkerShown ==
  ASSUME Typed, ShownInv, UNCHANGED stream,
         \A id \in PushedOnce' : id \in PushedOnce,
         \A id \in PushedOnce' : Beyond(id, AfterAnnounce) => Beyond(id, AfterAnnounce)',
         NEW w \in Workers,
         \/ UNCHANGED inbox
         \/ At(w, "announce") /\ Publish(work[w].id, Plain("processing"))
         \/ At(w, "publish") /\ Publish(work[w].id, work[w].outcome)
  PROVE  ShownInv'
<1>1. WorkerTypeOK
  BY DEF Typed, TypeOK
<1>2. CASE UNCHANGED inbox
  BY <1>2 DEF ShownInv, Shown, Says
<1>3. CASE At(w, "announce") /\ Publish(work[w].id, Plain("processing"))
  <2>1. Plain("processing") \in Report /\ Plain("processing").status = "processing"
    BY DEF Plain, Report, Statuses
  <2>2. work[w].pc = "announce" /\ work[w].id \in Ids
    BY <1>3 DEF At, Typed, WorkersHaveJobs
  <2> QED BY <1>3, <2>1, <2>2, PublishShown
<1>4. CASE At(w, "publish") /\ Publish(work[w].id, work[w].outcome)
  <2>1. work[w].id \in Ids /\ work[w].outcome.status \in Final /\ work[w].outcome \in Report
    BY <1>1, <1>4 DEF At, Typed, WorkersHaveJobs, Decided, WorkerTypeOK, Work
  <2> QED BY <1>4, <2>1, PublishShown
<1> QED BY <1>2, <1>3, <1>4

\* What a worker, or its Redis library, does to the channels.
LEMMA WorkerSpeaks ==
  ASSUME WorkerStep \/ \E w \in Workers : WorkerSendsAgain(w) /\ WorkerOnly
  PROVE  /\ UNCHANGED stream
         /\ \E w \in Workers :
              \/ UNCHANGED inbox
              \/ At(w, "announce") /\ Publish(work[w].id, Plain("processing"))
              \/ At(w, "publish") /\ Publish(work[w].id, work[w].outcome)
<1>1. UNCHANGED stream
  BY DEF WorkerStep, WorkerFrame, WorkerOnly, streamVars
<1>2. ASSUME WorkerStep
      PROVE  \E w \in Workers :
               \/ UNCHANGED inbox
               \/ At(w, "announce") /\ Publish(work[w].id, Plain("processing"))
               \/ At(w, "publish") /\ Publish(work[w].id, work[w].outcome)
  <2>1. PICK w \in Workers : ProcessStep(w) \/ SweepStep(w) \/ SnapshotStep(w) \/ WorkerCrash(w)
    BY <1>2 DEF WorkerStep, WorkerNext
  <2>2. UNCHANGED inbox \/ Announce(w) \/ PublishOutcome(w)
    BY <2>1 DEF ProcessStep, WorkerPop, Mark, Read, WriteResult, WriteStatus, StoreResult,
       IncrementTotal, IncrementVerdict, LogPush, LogTrim, SweepStep, SweepStart, SweepList,
       SweepDelete, SnapshotStep, WorkerCrash, pubsubVars
  <2> QED BY <2>2 DEF Announce, PublishOutcome, TryPublish, pubsubVars
<1>3. ASSUME NEW w \in Workers, WorkerSendsAgain(w)
      PROVE  \/ UNCHANGED inbox
             \/ At(w, "announce") /\ Publish(work[w].id, Plain("processing"))
             \/ At(w, "publish") /\ Publish(work[w].id, work[w].outcome)
  BY <1>3 DEF WorkerSendsAgain, pubsubVars
<1> QED BY <1>1, <1>2, <1>3

LEMMA NextShown ==
  ASSUME Typed, PlaceInv, ShownInv, [Next]_vars
  PROVE  /\ ShownInv'
         /\ \A s \in Streams :
              stream[s].id \in PushedOnce => Rank(stream'[s].seen) >= Rank(stream[s].seen)
<1>1. /\ \A id \in PushedOnce' : id \in PushedOnce
      /\ \A id \in PushedOnce' : Beyond(id, AfterAnnounce) => Beyond(id, AfterAnnounce)'
  BY NextPlace, PushedBefore DEF Moves, Onward
<1>2. \A s \in Streams : Rank(stream[s].seen) \in 0..3
  BY RankType DEF Typed, TypeOK, StreamTypeOK, Stream
<1>3. CASE UNCHANGED <<stream, inbox>>
  BY <1>1, <1>2, <1>3 DEF ShownInv, Shown, Says
<1>4. CASE EventStep
  <2>1. PushedOnce' = PushedOnce
    BY <1>4 DEF EventStep, EventFrame, sentVars, PushedOnce
  <2> QED BY <1>1, <1>4, <2>1, EventShown
<1>5. CASE WorkerStep \/ \E w \in Workers : WorkerSendsAgain(w) /\ WorkerOnly
  <2>1. UNCHANGED stream
    BY <1>5, WorkerSpeaks
  <2>2. PICK w \in Workers :
              \/ UNCHANGED inbox
              \/ At(w, "announce") /\ Publish(work[w].id, Plain("processing"))
              \/ At(w, "publish") /\ Publish(work[w].id, work[w].outcome)
    BY <1>5, WorkerSpeaks
  <2>3. ShownInv'
    BY <1>1, <2>1, <2>2, WorkerShown
  <2> QED BY <1>2, <2>1, <2>3
<1>6. \/ EventStep \/ WorkerStep \/ UNCHANGED <<stream, inbox>>
      \/ \E w \in Workers : WorkerSendsAgain(w) /\ WorkerOnly
  BY DEF Next, ServiceStep, ServiceFrame, ServiceOnly, HandlersStep, HandlersFrame, ResendStep,
     Tick, vars, streamVars, pubsubVars
<1> QED BY <1>3, <1>4, <1>5, <1>6

LEMMA ShownInvariant == Spec => []ShownInv
<1>1. Init => ShownInv
  BY DEF Init, StreamInit, ShownInv, Shown, Listening, Final
<1>2. ShownInv /\ Typed /\ PlaceInv /\ [Next]_vars => ShownInv'
  BY NextShown
<1> QED BY <1>1, <1>2, TypedInvariant, PlaceInvariant, PTL DEF Spec

\* Whatever fails, a stream that has sent the end of a submitted job that is pushed
\* once never sends an earlier status after it, although what it sends comes from
\* two reads of a key and from a channel, and any event may be published twice.
THEOREM StreamsOnlyForward == Spec => StreamMovesForward
<1>1. ShownInv /\ Typed /\ PlaceInv /\ [Next]_vars =>
        [\A s \in Streams :
           stream[s].id \in PushedOnce => Rank(stream'[s].seen) >= Rank(stream[s].seen)]_vars
  BY NextShown
<1> QED BY <1>1, ShownInvariant, TypedInvariant, PlaceInvariant, PTL DEF Spec, StreamMovesForward
-----------------------------------------------------------------------------
(***************************************************************************)
(* The service takes the steps of JobPromise and no other.  Whoever has a  *)
(* job has it in the order and for the list that were submitted, so that   *)
(* the outcome it decides on is the right answer.                          *)
(***************************************************************************)
Rightly(id) ==
  /\ req[id].pc = "idle" => req[id].content = NoList
  /\ req[id].pc \notin {"idle", "rejected"} => req[id].content \in Accepted
  /\ req[id].pc \in {"status", "push", "created"} => lists[id] = req[id].content
  /\ In(queue, id) \/ Held(id) => req[id].pc = "created"
  /\ \A k \in 1..Len(queue) : queue[k].id = id => queue[k].order = req[id].order
  /\ \A w \in Workers :
       work[w].id = id =>
         /\ work[w].order = req[id].order
         /\ work[w].pc = "set_result" => work[w].outcome = RightAnswer(id)

RightInv == (\A w \in Workers : sweep[w].pc = "idle") /\ \A id \in Once : Rightly(id)
AnswerTo(content, order) ==
  IF content \notin Accepted THEN NoReport
  ELSE IF content \in Parsable THEN Done(Check(content, order)) ELSE Failed("parse")

LEMMA AnswerKinds ==
  ASSUME NEW content, NEW order
  PROVE  /\ content \in Accepted =>
              /\ AnswerTo(content, order) \in {Done(TRUE), Done(FALSE), Failed("parse")}
              /\ AnswerTo(content, order) # NoReport
              /\ AnswerTo(content, order) = Outcome(content, order)
         /\ content \notin Accepted => AnswerTo(content, order) = NoReport
<1> DEFINE b == Check(content, order)
<1>1. Done(b) = Done(TRUE) \/ Done(b) = Done(FALSE)
  <2>1. CASE b
    <3>1. b = TRUE
      BY <2>1 DEF Check
    <3> QED BY <3>1
  <2>2. CASE ~b
    <3>1. b = FALSE
      BY <2>2 DEF Check
    <3> QED BY <3>1
  <2> QED BY <2>1, <2>2
<1>2. Done(TRUE) # NoReport /\ Done(FALSE) # NoReport /\ Failed("parse") # NoReport
  BY OutcomesAre DEF Outcomes
<1>3. content \in Accepted => content # NoList
  BY NoneAssumption, ContentsAssumption
<1> HIDE DEF b
<1> QED BY <1>1, <1>2, <1>3 DEF AnswerTo, Outcome, b

LEMMA Answers ==
  \A id : /\ RightAnswer(id) = AnswerTo(req[id].content, req[id].order)
          /\ RightAnswer(id)' = AnswerTo(req'[id].content, req'[id].order)
BY DEF RightAnswer, AnswerTo, Check

LEMMA RightlyStill ==
  ASSUME NEW id \in Once, Rightly(id), req'[id] = req[id], lists'[id] = lists[id],
         \A k \in 1..Len(queue') :
           queue'[k].id = id => \E j \in 1..Len(queue) : queue[j] = queue'[k],
         \A w \in Workers :
           work'[w].id = id => /\ work[w].id = id /\ work'[w].order = work[w].order
                               /\ work'[w].pc = "set_result" => work'[w] = work[w]
  PROVE  Rightly(id)'
<1>1. In(queue, id)' => In(queue, id)
  BY DEF In
<1>2. Held(id)' => Held(id)
  BY DEF Held
<1>3. RightAnswer(id)' = RightAnswer(id)
  BY DEF RightAnswer
<1> QED BY <1>1, <1>2, <1>3 DEF Rightly

\* Only the request takes a step.
LEMMA RightlyGoes ==
  ASSUME NEW id \in Once, Rightly(id), UNCHANGED <<queue, work>>,
         req[id].pc \in {"put", "status", "push"}, req'[id] = [req[id] EXCEPT !.pc = req'[id].pc],
         ServiceTypeOK, id \in Requests,
         \/ req'[id].pc = "failed"
         \/ req'[id].pc = "status" /\ lists'[id] = req[id].content
         \/ req'[id].pc = "push" /\ req[id].pc = "status" /\ lists'[id] = lists[id]
  PROVE  Rightly(id)'
<1>1. req'[id].content = req[id].content /\ req'[id].order = req[id].order
  BY DEF ServiceTypeOK, Request
<1>2. ~In(queue, id) /\ ~Held(id) /\ req[id].content \in Accepted
  BY DEF Rightly
<1>3. ~In(queue, id)' /\ ~Held(id)'
  BY <1>2 DEF In, Held
<1> QED BY <1>1, <1>2, <1>3 DEF Rightly, In, Held

LEMMA ServiceRightly ==
  ASSUME Durable, "s3" \notin Env, Typed, PlaceInv, NEW id \in Once, Rightly(id), ServiceStep
  PROVE  Rightly(id)'
<1>1. /\ ServiceTypeOK /\ queue \in Seq(Job) /\ RequestsHaveJobs /\ Apart /\ id \in Ids
      /\ id \in SubmitIds /\ id \in Requests /\ UNCHANGED work /\ BucketTypeOK
  BY OnceIds DEF Typed, TypeOK, RedisTypeOK, PlaceInv, ServiceStep, ServiceFrame, ServiceOnly,
       workerVars
<1>2. ASSUME req'[id] = req[id], lists'[id] = lists[id], UNCHANGED queue PROVE Rightly(id)'
  BY <1>1, <1>2, RightlyStill
<1>3. ASSUME NEW x \in SubmitIds, SubmitValidate(x) PROVE Rightly(id)'
  <2>1. UNCHANGED <<queue, lists>> /\ x \in Requests /\ req[x].pc = "idle"
    BY <1>3, SubmitsAreRequests DEF SubmitValidate, redisVars, bucketVars
  <2>2. PICK content \in Contents, order \in Orders :
          req' = [req EXCEPT ![x] =
                    [pc |-> IF content \in Accepted THEN "put" ELSE "rejected",
                     id |-> x, order |-> order, content |-> content]]
    BY <1>3 DEF SubmitValidate
  <2>3. CASE x # id
    BY <1>1, <1>2, <2>1, <2>2, <2>3 DEF ServiceTypeOK
  <2>4. CASE x = id
    <3>1. /\ req'[id].pc = IF content \in Accepted THEN "put" ELSE "rejected"
          /\ req'[id].content = content
      BY <1>1, <2>2, <2>4 DEF ServiceTypeOK
    <3>2. ~In(queue, id)' /\ ~Held(id)'
      BY <1>1, <2>1, <2>4 DEF Rightly, In, Held
    <3> QED BY <3>1, <3>2 DEF Rightly, In, Held
  <2> QED BY <2>3, <2>4
<1>4. ASSUME NEW x \in SubmitIds, SubmitPutList(x) PROVE Rightly(id)'
  <2>1. /\ PutList(x, req[x].content) /\ GoTo(x, "status") /\ UNCHANGED queue
        /\ req[x].pc = "put" /\ x \in Ids /\ x \in Requests
    BY <1>4, SubmitsAreRequests DEF SubmitPutList, S3MayFail, redisVars
  <2>2. lists'[id] = IF x = id THEN req[x].content ELSE lists[id]
    BY <1>1, <2>1 DEF PutList, BucketTypeOK
  <2>3. CASE x # id
    BY <1>1, <1>2, <2>1, <2>2, <2>3, OneRequest
  <2>4. CASE x = id
    <3>1. req'[id] = [req[id] EXCEPT !.pc = "status"] /\ req'[id].pc = "status"
      BY <1>1, <2>1, <2>4, OneRequest DEF GoTo, ServiceTypeOK
    <3> QED BY <1>1, <2>1, <2>2, <2>4, <3>1, RightlyGoes
  <2> QED BY <2>3, <2>4
<1>5. ASSUME NEW r \in Requests, RequestSetStatus(r) \/ RequestDies(r) PROVE Rightly(id)'
  <2>1. /\ UNCHANGED <<queue, lists>> /\ req[r].pc \in {"put", "status", "push"}
        /\ GoTo(r, "failed") \/ (GoTo(r, "push") /\ req[r].pc = "status")
    BY <1>5 DEF RequestSetStatus, RequestDies, SetStatus, redisVars, bucketVars
  <2>2. CASE r # id
    BY <1>1, <1>2, <2>1, <2>2, OneRequest
  <2>3. CASE r = id
    <3>1. PICK pc \in {"push", "failed"} : GoTo(id, pc) /\ (pc = "push" => req[id].pc = "status")
      BY <2>1, <2>3
    <3>2. req'[id] = [req[id] EXCEPT !.pc = pc] /\ req'[id].pc = pc
      BY <1>1, <3>1, OneRequest DEF GoTo, ServiceTypeOK
    <3> QED BY <1>1, <2>1, <2>3, <3>1, <3>2, RightlyGoes
  <2> QED BY <2>2, <2>3
<1>6. ASSUME NEW r \in Requests, RequestPush(r) PROVE Rightly(id)'
  <2> DEFINE job == JobOf(r)
  <2>1. /\ req[r].pc = "push" /\ GoTo(r, "created") /\ queue' = Append(queue, job)
        /\ UNCHANGED lists
    BY <1>6 DEF RequestPush, Push, Durable, bucketVars
  <2>2. job \in Job /\ job.id = req[r].id /\ job.order = req[r].order
    BY <1>1, <2>1, JobOfType DEF JobOf
  <2>3. req[r].id = id <=> r = id
    BY <1>1, <2>1 DEF RequestsHaveJobs, Apart, Requests
  <2> HIDE DEF job
  <2>4. \A k \in 1..Len(queue') : (k \in 1..Len(queue) /\ queue'[k] = queue[k]) \/ queue'[k] = job
    BY <1>1, <2>1, <2>2
  <2>5. CASE r # id
    BY <1>1, <2>1, <2>2, <2>3, <2>4, <2>5, OneRequest, RightlyStill
  <2>6. CASE r = id
    <3>1. /\ req'[id].pc = "created" /\ req'[id].content = req[id].content
          /\ req'[id].order = req[id].order
      BY <1>1, <2>1, <2>6 DEF GoTo, ServiceTypeOK, Request
    <3>2. \A w \in Workers : work[w].id # id
      BY <2>1, <2>6 DEF Rightly, Held
    <3> QED BY <1>1, <2>1, <2>2, <2>4, <2>6, <3>1, <3>2 DEF Rightly, Held
  <2> QED BY <2>5, <2>6
<1>7. ASSUME NEW u \in UploadIds, UploadPresign(u) \/ ClientPut(u) PROVE Rightly(id)'
  <2>1. UNCHANGED <<req, queue>> /\ u # id
    BY <1>7, OnceIds DEF UploadPresign, ClientPut, serviceVars, redisVars
  <2>2. lists'[id] = lists[id]
    BY <1>1, <1>7, <2>1 DEF UploadPresign, ClientPut, PutList, BucketTypeOK, bucketVars
  <2> QED BY <1>2, <2>1, <2>2
<1>8. ASSUME NEW c \in Checks, CheckValidate(c) PROVE Rightly(id)'
  <2>1. UNCHANGED <<queue, lists>> /\ c \in Requests /\ c # id
    BY <1>1, <1>8, IdsAssumption DEF CheckValidate, redisVars, bucketVars, Requests
  <2>2. \E new : req' = [req EXCEPT ![c] = new]
    BY <1>8 DEF CheckValidate
  <2> QED BY <1>1, <1>2, <2>1, <2>2, OneRequest
<1>9. ASSUME NEW p \in Polls, PollStart(p) \/ PollResult(p) \/ PollStatus(p) PROVE Rightly(id)'
  BY <1>2, <1>9 DEF PollStart, PollResult, PollStatus, redisVars, bucketVars
<1> QED BY <1>3, <1>4, <1>5, <1>6, <1>7, <1>8, <1>9 DEF ServiceStep, ServiceNext
\* Without a clock there is no clean-up.
LEMMA SweepsRest ==
  ASSUME Durable, Typed, \A w \in Workers : sweep[w].pc = "idle", WorkerStep
  PROVE  /\ \A w \in Workers : sweep'[w].pc = "idle" /\ ~SweepStep(w)
         /\ UNCHANGED lists
<1>1. WorkerTypeOK
  BY DEF Typed, TypeOK
<1>2. \A w \in Workers : ~SweepStep(w)
  BY DEF SweepStep, SweepStart, SweepList, SweepDelete, Durable
<1>3. PICK w \in Workers : ProcessStep(w) \/ SnapshotStep(w) \/ WorkerCrash(w)
  BY <1>2 DEF WorkerStep, WorkerNext
<1>4. UNCHANGED lists
  BY <1>3 DEF ProcessStep, WorkerPop, Announce, Mark, Read, WriteResult, WriteStatus,
     StoreResult, PutResult, IncrementTotal, IncrementVerdict, LogPush, LogTrim,
     PublishOutcome, SnapshotStep, TakeSnapshot, SnapshotTotal, SnapshotSorted,
     SnapshotNotSorted, ReadCounter, SnapshotPutCounter, PutState, SnapshotRecent,
     SnapshotPutActivity, WorkerCrash, bucketVars
<1>5. UNCHANGED sweep \/ sweep' = [sweep EXCEPT ![w] = Resting]
  BY <1>3 DEF ProcessStep, WorkerPop, Announce, Mark, Read, WriteResult, WriteStatus,
     StoreResult, IncrementTotal, IncrementVerdict, LogPush, LogTrim, PublishOutcome,
     SnapshotStep, WorkerCrash
<1> QED BY <1>1, <1>2, <1>4, <1>5 DEF WorkerTypeOK, Resting

LEMMA WorkerRightly ==
  ASSUME Durable, "s3" \notin Env, Typed, PlaceInv, RightInv, NEW id \in Once, WorkerStep
  PROVE  Rightly(id)'
<1>1. /\ WorkerTypeOK /\ queue \in Seq(Job) /\ id \in Ids /\ id # NoId /\ Rightly(id)
      /\ Idle.id = NoId /\ \A w \in Workers : sweep[w].pc = "idle"
  BY OnceIds DEF Typed, TypeOK, RedisTypeOK, RightInv, Idle
<1>2. UNCHANGED req
  BY DEF WorkerStep, WorkerFrame, WorkerOnly, serviceVars
<1>3. PICK w \in Workers : ProcessStep(w) \/ SweepStep(w) \/ SnapshotStep(w) \/ WorkerCrash(w)
  BY DEF WorkerStep, WorkerNext
\* The clean-up does not run, so that no list is deleted.
<1>4. ~SweepStep(w)
  BY <1>1, SweepsRest
<1>5. UNCHANGED lists
  BY <1>1, SweepsRest
<1>6. ASSUME UNCHANGED queue,
             \A v \in Workers :
               work'[v].id = id => /\ work[v].id = id /\ work'[v].order = work[v].order
                                   /\ work'[v].pc = "set_result" => work'[v] = work[v]
      PROVE  Rightly(id)'
  BY <1>1, <1>2, <1>5, <1>6, RightlyStill
<1>7. CASE WorkerPop(w)
  <2>1. /\ queue # <<>> /\ queue' = Tail(queue) /\ work'[w].pc = "announce"
        /\ work'[w].id = Head(queue).id /\ work'[w].order = Head(queue).order
        /\ \A v \in Workers : v # w => work'[v] = work[v]
    BY <1>7, PopTurns
  <2>2. /\ 1 \in 1..Len(queue) /\ Head(queue) = queue[1]
        /\ \A k \in 1..Len(queue') : k + 1 \in 1..Len(queue) /\ queue'[k] = queue[k + 1]
    BY <1>1, <2>1
  <2>3. Head(queue).id = id => req[id].pc = "created" /\ Head(queue).order = req[id].order
    BY <1>1, <2>2 DEF Rightly, In
  <2>4. In(queue, id)' \/ Held(id)' => req[id].pc = "created"
    BY <1>1, <2>1, <2>2, <2>3 DEF Rightly, In, Held
  <2>5. RightAnswer(id)' = RightAnswer(id)
    BY <1>2 DEF RightAnswer
  <2> QED BY <1>1, <1>2, <1>5, <2>1, <2>2, <2>3, <2>4, <2>5 DEF Rightly
<1>8. CASE ProcessStep(w) /\ ~WorkerPop(w)
  <2>1. /\ UNCHANGED queue /\ Turns(w) /\ \A v \in Workers : v # w => work'[v] = work[v]
    BY <1>8, StepTurns
  <2>2. CASE ~Read(w)
    <3>1. \/ work'[w].id = NoId
          \/ work'[w].id = work[w].id /\ work'[w].order = work[w].order /\ work'[w].pc # "set_result"
      BY <1>1, <2>1, <2>2 DEF Turns, Same, At
    <3> QED BY <1>1, <1>5, <1>6, <2>1, <3>1
  <2>3. CASE Read(w)
    <3>1. /\ work[w].pc = "read" /\ work'[w].pc = "set_result" /\ work'[w].id = work[w].id
          /\ work'[w].order = work[w].order
          /\ \E content \in GetList(work[w].id) : work'[w].outcome = Outcome(content, work[w].order)
      <4>1. work[w].pc = "read"
        BY <2>3 DEF Read, At
      <4> QED BY <2>1, <4>1 DEF Turns, At
    <3>2. CASE work[w].id # id
      BY <1>5, <1>6, <2>1, <3>1, <3>2
    <3>3. CASE work[w].id = id
      <4>1. req[id].pc = "created" /\ lists[id] = req[id].content /\ work[w].order = req[id].order
            /\ req[id].content \in Accepted
        BY <1>1, <3>3 DEF Rightly, Held
      <4>2. work'[w].outcome = RightAnswer(id)
        <5>1. work'[w].outcome = Outcome(req[id].content, req[id].order)
          BY <3>1, <3>3, <4>1 DEF GetList, S3MayFail
        <5>2. RightAnswer(id) = AnswerTo(req[id].content, req[id].order)
          BY Answers
        <5>3. AnswerTo(req[id].content, req[id].order) = Outcome(req[id].content, req[id].order)
          BY <4>1, AnswerKinds
        <5> QED BY <5>1, <5>2, <5>3
      <4>3. RightAnswer(id)' = RightAnswer(id)
        BY <1>2 DEF RightAnswer
      <4>4. \A v \in Workers :
              work'[v].id = id => /\ work'[v].order = req[id].order
                                  /\ work'[v].pc = "set_result" => work'[v].outcome = RightAnswer(id)
        BY <1>1, <2>1, <3>1, <3>3, <4>1, <4>2 DEF Rightly
      <4> QED BY <1>1, <1>2, <1>5, <2>1, <4>1, <4>3, <4>4 DEF Rightly, In, Held
    <3> QED BY <3>2, <3>3
  <2> QED BY <2>2, <2>3
<1>9. CASE SnapshotStep(w) \/ WorkerCrash(w)
  <2>1. UNCHANGED queue /\ (UNCHANGED work \/ work' = [work EXCEPT ![w] = Idle])
    BY <1>9 DEF SnapshotStep, WorkerCrash, redisVars
  <2>2. \A v \in Workers : work'[v] = work[v] \/ work'[v].id = NoId
    BY <1>1, <2>1 DEF WorkerTypeOK
  <2> QED BY <1>1, <1>5, <1>6, <2>1, <2>2
<1> QED BY <1>3, <1>4, <1>7, <1>8, <1>9

LEMMA RightInvariant ==
  ASSUME Durable, "s3" \notin Env
  PROVE  Spec => []RightInv
<1>1. Init => RightInv
  <2> SUFFICES ASSUME Init PROVE RightInv
    OBVIOUS
  <2>1. \A id \in Once : req[id].pc = "idle" /\ req[id].content = NoList
    BY OnceIds DEF Init, ServiceInit
  <2>2. \A id \in Once : ~In(queue, id) /\ \A w \in Workers : work[w].id # id
    BY OnceIds DEF Init, RedisInit, WorkerInit, Idle, In
  <2>3. \A w \in Workers : sweep[w].pc = "idle"
    BY DEF Init, WorkerInit, Resting
  <2> QED BY <2>1, <2>2, <2>3 DEF RightInv, Rightly, Held, In
<1>2. RightInv /\ Typed /\ PlaceInv /\ [Next]_vars => RightInv'
  <2> SUFFICES ASSUME RightInv, Typed, PlaceInv, [Next]_vars PROVE RightInv'
    OBVIOUS
  <2>1. CASE ServiceStep
    <3>1. UNCHANGED sweep
      BY <2>1 DEF ServiceStep, ServiceFrame, ServiceOnly, workerVars
    <3> QED BY <2>1, <3>1, ServiceRightly DEF RightInv
  <2>2. CASE WorkerStep
    <3>1. ASSUME NEW id \in Once PROVE Rightly(id)'
      BY <2>2, WorkerRightly
    <3> QED BY <2>2, <3>1, SweepsRest DEF RightInv
  <2>3. CASE EventStep \/ HandlersStep \/ UNCHANGED vars
    <3>1. UNCHANGED <<queue, lists, work, req, sweep>>
      BY <2>3 DEF EventStep, EventFrame, StreamNext, StreamStep, StreamOpen, StreamFirstResult,
         StreamSubscribe, StreamAgain, StreamSecondResult, StreamReceive, StreamTimeout,
         StreamGone, SubscriptionTakesEffect, SubscriptionBreaks, HandlersStep, HandlersFrame,
         vars, redisVars, workerVars, serviceVars, bucketVars
    <3>2. ASSUME NEW id \in Once PROVE Rightly(id)'
      BY <3>1, RightlyStill DEF RightInv
    <3> QED BY <3>1, <3>2 DEF RightInv
  <2>4. ~Tick
    BY DEF Durable, Tick, Typed, TypeOK
  <2> QED BY <2>1, <2>2, <2>3, <2>4, NoResends DEF Next
<1> QED BY <1>1, <1>2, TypedInvariant, PlaceInvariant, PTL DEF Spec
\* JobPromise speaks of the same jobs and reports.
LEMMA SameWords ==
  /\ Promise!Once = Once /\ Promise!NoReport = NoReport
  /\ \A x : Promise!Plain(x) = Plain(x) /\ Promise!Done(x) = Done(x) /\ Promise!Failed(x) = Failed(x)
BY DEF Promise!Once, Once, Promise!NoReport, NoReport, Promise!Plain, Plain, Promise!Done, Done,
       Promise!Failed, Failed

LEMMA PromiseStill ==
  ASSUME \A x \in Once : RightAnswer(x)' = RightAnswer(x) /\ View(x)' = View(x)
  PROVE  UNCHANGED Promise!promiseVars
<1>1. [x \in Once |-> RightAnswer(x)]' = [x \in Once |-> RightAnswer(x)]
  OBVIOUS
<1>2. [x \in Once |-> View(x)]' = [x \in Once |-> View(x)]
  OBVIOUS
<1> QED BY <1>1, <1>2 DEF Promise!promiseVars

\* One job is said to be further.
LEMMA PromiseSays ==
  ASSUME NEW id \in Once, \A x \in Once : RightAnswer(x)' = RightAnswer(x),
         \A x \in Once : x # id => View(x)' = View(x),
         \/ RightAnswer(id) # NoReport /\ View(id) = NoReport /\ View(id)' = Plain("queued")
         \/ View(id) = Plain("queued") /\ View(id)' = Plain("processing")
         \/ View(id) = Plain("processing") /\ View(id)' = RightAnswer(id)
  PROVE  Promise!Next
<1> DEFINE right == [x \in Once |-> RightAnswer(x)]
           view == [x \in Once |-> View(x)]
<1>1. right' = right
  OBVIOUS
<1>2. ASSUME NEW r, View(id)' = r PROVE view' = [view EXCEPT ![id] = r]
  BY <1>2
<1>3. view[id] = View(id) /\ right[id] = RightAnswer(id)
  OBVIOUS
<1>4. CASE RightAnswer(id) # NoReport /\ View(id) = NoReport /\ View(id)' = Plain("queued")
  BY <1>1, <1>2, <1>3, <1>4, SameWords DEF Promise!Next, Promise!Accept, Promise!Say
<1>5. CASE View(id) = Plain("queued") /\ View(id)' = Plain("processing")
  BY <1>1, <1>2, <1>3, <1>5, SameWords DEF Promise!Next, Promise!Begin, Promise!Say
<1>6. CASE View(id) = Plain("processing") /\ View(id)' = RightAnswer(id)
  BY <1>1, <1>2, <1>3, <1>6, SameWords DEF Promise!Next, Promise!Finish, Promise!Say
<1> QED BY <1>4, <1>5, <1>6

\* A list is submitted.
LEMMA PromiseSubmits ==
  ASSUME NEW id \in Once, \A x \in Once : View(x)' = View(x),
         \A x \in Once : x # id => RightAnswer(x)' = RightAnswer(x),
         RightAnswer(id) = NoReport,
         RightAnswer(id)' \in {Done(TRUE), Done(FALSE), Failed("parse")}
  PROVE  Promise!Next
<1> DEFINE right == [x \in Once |-> RightAnswer(x)]
           view == [x \in Once |-> View(x)]
<1>1. view' = view
  OBVIOUS
<1>2. ASSUME NEW r, RightAnswer(id)' = r PROVE right' = [right EXCEPT ![id] = r]
  BY <1>2
<1>3. right[id] = RightAnswer(id)
  OBVIOUS
<1> QED BY <1>1, <1>2, <1>3, SameWords DEF Promise!Next, Promise!Submit
LEMMA StepKeepsPromise ==
  ASSUME Durable, "s3" \notin Env, Typed, PlaceInv, FollowsInv, RightInv, [Next]_vars
  PROVE  Promise!Next \/ UNCHANGED Promise!promiseVars
<1>1. /\ ServiceTypeOK /\ RedisTypeOK /\ RequestsHaveJobs /\ Apart /\ NoReport = Plain("none")
      /\ \A id \in Once : id \in Ids /\ id \in SubmitIds /\ id \in Requests
      /\ \A id \in Once : Place(id) /\ Follows(id) /\ Rightly(id)
  BY OnceIds, OncePlaced DEF Typed, TypeOK, PlaceInv, FollowsInv, RightInv, NoReport
<1>2. ASSUME NEW x, req'[x].content = req[x].content, req'[x].order = req[x].order
      PROVE  RightAnswer(x)' = RightAnswer(x)
  BY <1>2, Answers
<1>3. ASSUME NEW x, result'[x] = result[x], status'[x] = status[x] \/ result[x] # NoReport
      PROVE  View(x)' = View(x)
  BY <1>3 DEF View
<1>4. ASSUME \A x \in Once : req'[x].content = req[x].content /\ req'[x].order = req[x].order,
             \A x \in Once : /\ result'[x] = result[x]
                             /\ status'[x] = status[x] \/ result[x] # NoReport
      PROVE  UNCHANGED Promise!promiseVars
  BY <1>2, <1>3, <1>4, PromiseStill
\* A request that goes on keeps what was submitted.
<1>5. ASSUME NEW r \in Requests, NEW pc, GoTo(r, pc)
      PROVE  \A x \in Once : req'[x].content = req[x].content /\ req'[x].order = req[x].order
  BY <1>1, <1>5 DEF GoTo, ServiceTypeOK, Request
<1>6. CASE ServiceStep
  <2>1. UNCHANGED result
    BY <1>6 DEF ServiceStep, ServiceNext, SubmitValidate, SubmitPutList, UploadPresign,
       ClientPut, CheckValidate, RequestSetStatus, RequestPush, RequestDies, PollStart,
       PollResult, PollStatus, SetStatus, Push, redisVars
  <2>2. ASSUME NEW id \in SubmitIds, SubmitValidate(id)
        PROVE  Promise!Next \/ UNCHANGED Promise!promiseVars
    <3>1. UNCHANGED status /\ req[id].pc = "idle" /\ id \in Requests
      BY <2>2, SubmitsAreRequests DEF SubmitValidate, redisVars
    <3>2. PICK content \in Contents, order \in Orders :
            req' = [req EXCEPT ![id] =
                      [pc |-> IF content \in Accepted THEN "put" ELSE "rejected",
                       id |-> id, order |-> order, content |-> content]]
      BY <2>2 DEF SubmitValidate
    <3>3. /\ \A x \in Once : x # id => req'[x] = req[x]
          /\ req'[id].content = content /\ req'[id].order = order
      BY <1>1, <3>1, <3>2 DEF ServiceTypeOK
    <3>4. CASE id \in Once
      <4>1. RightAnswer(id) = NoReport
        BY <1>1, <3>1, <3>4, Answers, AnswerKinds, NoneAssumption, ContentsAssumption,
             ZenonT(60) DEF Rightly
      <4>2. \A x \in Once : x # id => RightAnswer(x)' = RightAnswer(x)
        BY <1>2, <3>3
      <4>3. \A x \in Once : View(x)' = View(x)
        BY <1>3, <2>1, <3>1
      <4>4. CASE content \in Accepted
        <5>1. RightAnswer(id)' \in {Done(TRUE), Done(FALSE), Failed("parse")}
          BY <3>3, <4>4, Answers, AnswerKinds
        <5> QED BY <3>4, <4>1, <4>2, <4>3, <5>1, PromiseSubmits
      <4>5. CASE content \notin Accepted
        <5>1. RightAnswer(id)' = NoReport
          BY <3>3, <4>5, Answers, AnswerKinds
        <5>2. \A x \in Once : RightAnswer(x)' = RightAnswer(x)
          BY <4>1, <4>2, <5>1
        <5> QED BY <4>3, <5>2, PromiseStill
      <4> QED BY <4>4, <4>5
    <3>5. CASE id \notin Once
      BY <1>4, <2>1, <3>1, <3>3, <3>5
    <3> QED BY <3>4, <3>5
  <2>3. ASSUME NEW r \in Requests, RequestSetStatus(r)
        PROVE  Promise!Next \/ UNCHANGED Promise!promiseVars
    <3>1. /\ req[r].pc = "status" /\ GoTo(r, "push") /\ req[r].id \in Ids
          /\ status' = [status EXCEPT ![req[r].id] = "queued"]
      BY <1>1, <2>3 DEF RequestSetStatus, SetStatus, Durable, RequestsHaveJobs
    <3>2. \A x \in Once : req[r].id = x <=> r = x
      BY <1>1, <3>1 DEF RequestsHaveJobs, Apart, Requests
    <3>3. CASE r \in Once
      <4>1. result[r] = NoReport /\ status[r] = "none" /\ req[r].content \in Accepted
        BY <1>1, <3>1, <3>3 DEF Place, Fresh, Follows, Over, Rightly
      <4>2. status'[r] = "queued" /\ \A x \in Once : x # r => status'[x] = status[x]
        BY <1>1, <3>1, <3>2, <3>3 DEF RedisTypeOK
      <4>3. View(r) = NoReport /\ View(r)' = Plain("queued") /\ RightAnswer(r) # NoReport
        BY <1>1, <2>1, <4>1, <4>2, Answers, AnswerKinds DEF View
      <4>4. \A x \in Once : RightAnswer(x)' = RightAnswer(x)
        BY <1>2, <1>5, <3>1
      <4>5. \A x \in Once : x # r => View(x)' = View(x)
        BY <1>3, <2>1, <4>2
      <4> QED BY <3>3, <4>3, <4>4, <4>5, PromiseSays
    <3>4. CASE r \notin Once
      <4>1. \A x \in Once : status'[x] = status[x]
        BY <1>1, <3>1, <3>2, <3>4 DEF RedisTypeOK
      <4> QED BY <1>4, <1>5, <2>1, <3>1, <4>1
    <3> QED BY <3>3, <3>4
  <2>4. ASSUME NEW r \in Requests, SubmitPutList(r) \/ RequestPush(r) \/ RequestDies(r)
        PROVE  UNCHANGED Promise!promiseVars
    <3>1. UNCHANGED status /\ \E pc : GoTo(r, pc)
      BY <2>4 DEF SubmitPutList, RequestPush, RequestDies, Push, redisVars
    <3> QED BY <1>4, <1>5, <2>1, <3>1
  <2>5. ASSUME NEW c \in Checks, CheckValidate(c) PROVE UNCHANGED Promise!promiseVars
    <3>1. UNCHANGED status /\ \E new : req' = [req EXCEPT ![c] = new]
      BY <2>5 DEF CheckValidate, redisVars
    <3>2. c \in Requests /\ \A x \in Once : x # c
      BY <1>1, <2>5, IdsAssumption DEF Requests
    <3> QED BY <1>1, <1>4, <2>1, <3>1, <3>2, OneRequest
  <2>6. ASSUME UNCHANGED <<req, status>> PROVE UNCHANGED Promise!promiseVars
    BY <1>4, <2>1, <2>6
  <2>7. ASSUME NEW u \in UploadIds, UploadPresign(u) \/ ClientPut(u)
        PROVE  UNCHANGED Promise!promiseVars
    BY <2>6, <2>7 DEF UploadPresign, ClientPut, serviceVars, redisVars
  <2>8. ASSUME NEW p \in Polls, PollStart(p) \/ PollResult(p) \/ PollStatus(p)
        PROVE  UNCHANGED Promise!promiseVars
    BY <2>6, <2>8 DEF PollStart, PollResult, PollStatus, redisVars
  <2> QED BY <1>6, <2>2, <2>3, <2>4, <2>5, <2>7, <2>8, SubmitsAreRequests
          DEF ServiceStep, ServiceNext
<1>7. CASE WorkerStep
  <2>1. UNCHANGED req
    BY <1>7 DEF WorkerStep, WorkerFrame, WorkerOnly, serviceVars
  <2>2. \A x \in Once : RightAnswer(x)' = RightAnswer(x)
    BY <1>2, <2>1
  <2>3. CASE KeysSame
    BY <1>4, <2>1, <2>3 DEF KeysSame
  <2>4. PICK w \in Workers : ProcessStep(w) \/ SweepStep(w) \/ SnapshotStep(w) \/ WorkerCrash(w)
    BY <1>7 DEF WorkerStep, WorkerNext
  <2>5. CASE SweepStep(w) \/ SnapshotStep(w) \/ WorkerCrash(w)
    <3>1. KeysSame
      BY <2>5 DEF SweepStep, SweepStart, SweepList, SweepDelete, SnapshotStep, WorkerCrash,
         redisVars, KeysSame
    <3> QED BY <2>3, <3>1
  <2>6. CASE WorkerPop(w)
    BY <2>3, <2>6, PopTurns
  <2>7. CASE ProcessStep(w) /\ ~WorkerPop(w)
    <3> DEFINE id == work[w].id
    <3>1. /\ Turns(w)
          /\ \A x \in Ids : x # id => status'[x] = status[x] /\ result'[x] = result[x]
      BY <2>7, StepTurns
    <3>2. \A x \in Once : x # id => View(x)' = View(x)
      BY <1>1, <1>3, <3>1
    <3>3. CASE id \notin Once
      BY <2>2, <3>2, <3>3, PromiseStill
    <3>4. ASSUME id \in Once
          PROVE  Knows(w, id) /\ Rightly(id)
      BY <1>1, <3>4 DEF Follows
    <3> USE DEF At, Same
    <3>5. CASE id \in Once /\ work[w].pc = "mark"
      <4>1. status[id] = "queued" /\ result[id] = NoReport
        BY <3>4, <3>5 DEF Knows, Early
      <4>2. status'[id] = "processing" /\ result'[id] = NoReport
        BY <3>1, <3>5, <4>1 DEF Turns
      <4>3. \A x : x = id => View(x) = Plain("queued") /\ View(x)' = Plain("processing")
        BY <4>1, <4>2 DEF View
      <4> QED BY <2>2, <3>2, <3>5, <4>3, PromiseSays
    <3>6. CASE id \in Once /\ work[w].pc = "set_result"
      <4>1. status[id] = "processing" /\ result[id] = NoReport /\ work[w].outcome = RightAnswer(id)
            /\ work[w].outcome \in Outcomes
        BY <3>4, <3>6 DEF Knows, Rightly, Early, Deciding
      <4>2. result'[id] = RightAnswer(id) /\ RightAnswer(id) # NoReport
        BY <3>1, <3>6, <4>1, OutcomesAre DEF Turns
      <4>3. View(id) = Plain("processing")
        BY <4>1 DEF View
      <4>4. \A x : x = id => View(x)' = RightAnswer(x)
        BY <4>2 DEF View
      <4> QED BY <2>2, <3>2, <3>6, <4>3, <4>4, PromiseSays
    <3>7. CASE id \in Once /\ work[w].pc = "set_status"
      <4>1. result[id] # NoReport /\ UNCHANGED result
        BY <3>1, <3>4, <3>7, OutcomesAre DEF Knows, Deciding, Turns
      <4>2. \A x : x = id => View(x)' = View(x)
        BY <1>3, <4>1
      <4> QED BY <2>2, <3>2, <4>2, PromiseStill
    <3>8. CASE work[w].pc \notin {"mark", "set_result", "set_status"}
      BY <2>3, <3>1, <3>8 DEF Turns
    <3> QED BY <3>3, <3>5, <3>6, <3>7, <3>8
  <2> QED BY <2>4, <2>5, <2>6, <2>7
<1>8. CASE EventStep \/ HandlersStep \/ UNCHANGED vars
  <2>1. UNCHANGED <<status, result, req>>
    BY <1>8 DEF EventStep, EventFrame, StreamNext, StreamStep, StreamOpen, StreamFirstResult,
       StreamSubscribe, StreamAgain, StreamSecondResult, StreamReceive, StreamTimeout,
       StreamGone, SubscriptionTakesEffect, SubscriptionBreaks, HandlersStep, HandlersFrame,
       vars, redisVars, serviceVars
  <2> QED BY <1>4, <2>1
<1>9. ~Tick
  BY DEF Durable, Tick, Typed, TypeOK
<1> QED BY <1>6, <1>7, <1>8, <1>9, NoResends DEF Next

\* While Redis and the bucket answer and nothing expires, the service implements
\* JobPromise step by step: what it says of a submitted job goes from queued to
\* processing to the right answer, once and in this order, even when requests,
\* workers and streams die on the way.
THEOREM StepsKeepPromise ==
  ASSUME ~RedisMayFail, "s3" \notin Env, MaxTime = 0
  PROVE  Spec => Promise!Init /\ [][Promise!Next]_(Promise!promiseVars)
<1>1. Init => Promise!Init
  <2> SUFFICES ASSUME Init PROVE Promise!Init
    OBVIOUS
  <2>1. \A x \in Once : req[x].content \notin Accepted
    BY OnceIds, NoneAssumption, ContentsAssumption DEF Init, ServiceInit
  <2>2. \A x \in Once : RightAnswer(x) = NoReport
    BY <2>1, Answers, AnswerKinds
  <2>3. \A x \in Once : View(x) = NoReport
    BY OnceIds DEF Init, RedisInit, View, NoReport
  <2> QED BY <2>2, <2>3, SameWords DEF Promise!Init
<1>2. Typed /\ PlaceInv /\ FollowsInv /\ RightInv /\ [Next]_vars
        => [Promise!Next]_(Promise!promiseVars)
  BY StepKeepsPromise DEF Durable
<1>3. Spec => []FollowsInv /\ []RightInv
  BY FollowsInvariant, RightInvariant DEF Durable
<1> QED BY <1>1, <1>2, <1>3, TypedInvariant, PlaceInvariant, PTL DEF Spec
-----------------------------------------------------------------------------
(***************************************************************************)
(* Every stream takes the turns of JobStream and no other.                 *)
(***************************************************************************)
\* What a stream is about to say, or has said, is a state that has a name.
Sound(st) ==
  /\ st.pc \notin {"idle", "closed"} => st.seen \in Say!ToldStatus
  /\ st.pc # "closed" => st.end = "open"
SaidInv == \A s \in Streams : Sound(stream[s])

\* JobStream speaks of the same events, and of the same turns.
LEMMA SameEvents ==
  /\ \A type, data : Spoken!Event(type, data) = Say!Event(type, data)
  /\ Spoken!Close = Say!Close /\ Spoken!NotFound = Say!NotFound /\ Spoken!TimedOut = Say!TimedOut
  /\ Spoken!ToldStatus = Say!ToldStatus /\ Spoken!Outcome = Say!Outcome
BY DEF Spoken!Event, Say!Event, Spoken!Close, Say!Close, Spoken!NotFound, Say!NotFound,
       Spoken!TimedOut, Say!TimedOut, Spoken!ToldStatus, Say!ToldStatus, Spoken!Outcome, Say!Outcome

LEMMA OutcomeKnown == \A r : OutcomeOf(r) \in Say!Outcome
BY DEF OutcomeOf, Say!Outcome

\* The streams whose phase and events stay are silent.
LEMMA SpokenStill ==
  ASSUME \A s \in Streams :
           PhaseOf(stream'[s]) = PhaseOf(stream[s]) /\ ToldBy(stream'[s]) = ToldBy(stream[s])
  PROVE  UNCHANGED Spoken!jobStreamVars
<1>1. [s \in Streams |-> PhaseOf(stream'[s])] = [s \in Streams |-> PhaseOf(stream[s])]
  OBVIOUS
<1>2. [s \in Streams |-> ToldBy(stream'[s])] = [s \in Streams |-> ToldBy(stream[s])]
  OBVIOUS
<1> QED BY <1>1, <1>2 DEF Spoken!jobStreamVars

\* One stream takes a turn.
LEMMA SpokenTurn ==
  ASSUME NEW s \in Streams, NEW events, NEW next,
         \A t \in Streams : t # s => stream'[t] = stream[t],
         Spoken!Turn(events, next) \in Spoken!Turns(PhaseOf(stream[s])),
         PhaseOf(stream'[s]) = next, ToldBy(stream'[s]) = events
  PROVE  Spoken!Next
<1> DEFINE phase == [t \in Streams |-> PhaseOf(stream[t])]
           told == [t \in Streams |-> ToldBy(stream[t])]
           turn == Spoken!Turn(events, next)
<1>1. turn.events = events /\ turn.next = next
  BY DEF Spoken!Turn
<1>2. phase' = [phase EXCEPT ![s] = turn.next]
  BY <1>1
<1>3. told' = [told EXCEPT ![s] = turn.events]
  BY <1>1
<1>4. turn \in Spoken!Turns(phase[s])
  OBVIOUS
<1>5. Spoken!Write(s, turn)
  BY <1>2, <1>3 DEF Spoken!Write
<1> QED BY <1>4, <1>5 DEF Spoken!Next

LEMMA TurnsTaken ==
  ASSUME NEW phase \in {"new", "loop"}
  PROVE  /\ \A st \in Say!ToldStatus :
              Spoken!Turn(<<Say!Event("status", st)>>, "loop") \in Spoken!Turns(phase)
         /\ \A r : Spoken!Turn(<<Say!Event("result", OutcomeOf(r)), Say!Close>>, "ended")
                     \in Spoken!Turns(phase)
         /\ Spoken!Turn(<<>>, "ended") \in Spoken!Turns(phase)
         /\ phase = "new" => Spoken!Turn(Say!NotFound, "ended") \in Spoken!Turns(phase)
         /\ phase = "loop" => Spoken!Turn(Say!TimedOut, "ended") \in Spoken!Turns(phase)
<1>1. \A st \in Say!ToldStatus :
        Spoken!Turn(<<Say!Event("status", st)>>, "loop") \in Spoken!StatusTurns
  BY SameEvents DEF Spoken!StatusTurns
<1>2. \A r : Spoken!Turn(<<Say!Event("result", OutcomeOf(r)), Say!Close>>, "ended")
               \in Spoken!ResultTurns
  BY SameEvents, OutcomeKnown DEF Spoken!ResultTurns
<1>3. Spoken!Turn(<<>>, "ended") = Spoken!BreaksOff
  BY DEF Spoken!BreaksOff
<1>4. CASE phase = "new"
  <2>1. Spoken!Turns(phase) = Spoken!StatusTurns \cup Spoken!ResultTurns
          \cup {Spoken!Turn(Say!NotFound, "ended"), Spoken!BreaksOff}
    BY <1>4, SameEvents DEF Spoken!Turns
  <2> QED BY <1>1, <1>2, <1>3, <1>4, <2>1
<1>5. CASE phase = "loop"
  <2>1. Spoken!Turns(phase) = Spoken!StatusTurns \cup Spoken!ResultTurns
          \cup {Spoken!Turn(Say!TimedOut, "ended"), Spoken!BreaksOff}
    BY <1>5, SameEvents DEF Spoken!Turns
  <2> QED BY <1>1, <1>2, <1>3, <1>5, <2>1
<1> QED BY <1>4, <1>5

\* How a stream speaks, by where it is.
LEMMA Speaking ==
  ASSUME NEW st, Sound(st)
  PROVE  /\ st.pc \in {"idle", "first"} => PhaseOf(st) = "new" /\ ToldBy(st) = <<>>
         /\ st.pc \in {"subscribe"} \cup Listening =>
              PhaseOf(st) = "loop" /\ ToldBy(st) = <<Say!Event("status", st.seen)>>
         /\ st.pc = "closed" =>
              /\ PhaseOf(st) = "ended"
              /\ st.end = "gone" => ToldBy(st) = <<>>
              /\ st.end = "not_found" => ToldBy(st) = Say!NotFound
              /\ st.end = "timeout" => ToldBy(st) = Say!TimedOut
              /\ st.end = "result" =>
                   ToldBy(st) = <<Say!Event("result", OutcomeOf(st.sent)), Say!Close>>
<1>1. /\ st.pc \in {"idle", "first"} => PhaseOf(st) = "new" /\ st.end = "open"
      /\ st.pc \in {"subscribe"} \cup Listening => PhaseOf(st) = "loop" /\ st.end = "open"
      /\ st.pc = "closed" => PhaseOf(st) = "ended"
  BY DEF PhaseOf, Listening, Sound
<1> DEFINE oneStatus == <<Say!Event("status", st.seen)>>
           itsResult == <<Say!Event("result", OutcomeOf(st.sent)), Say!Close>>
           notFound == Say!NotFound
           timedOut == Say!TimedOut
           silent == <<>>
<1>2. ToldBy(st) = CASE PhaseOf(st) = "new" \/ st.end = "gone" -> silent
                     [] PhaseOf(st) = "loop" -> oneStatus
                     [] st.end = "not_found" -> notFound
                     [] st.end = "timeout" -> timedOut
                     [] st.end = "result" -> itsResult
  BY DEF ToldBy
<1> HIDE DEF oneStatus, itsResult, notFound, timedOut, silent
\* At most one of the guards is true.
<1>3. /\ PhaseOf(st) = "new" /\ st.end = "open" => ToldBy(st) = silent
      /\ PhaseOf(st) = "loop" /\ st.end = "open" => ToldBy(st) = oneStatus
      /\ PhaseOf(st) = "ended" =>
           /\ st.end = "gone" => ToldBy(st) = silent
           /\ st.end = "not_found" => ToldBy(st) = notFound
           /\ st.end = "timeout" => ToldBy(st) = timedOut
           /\ st.end = "result" => ToldBy(st) = itsResult
  BY <1>2
<1> QED BY <1>1, <1>3 DEF oneStatus, itsResult, notFound, timedOut, silent

LEMMA EventSaid ==
  ASSUME Typed, ShownInv, SaidInv, EventStep
  PROVE  SaidInv' /\ (Spoken!Next \/ UNCHANGED Spoken!jobStreamVars)
<1>1. PICK s \in Streams :
        \/ StreamStep(s) \/ StreamTimeout(s) \/ StreamGone(s)
        \/ SubscriptionTakesEffect(s) \/ SubscriptionBreaks(s)
  BY DEF EventStep, StreamNext
<1>2. \A t \in Streams : t # s => stream'[t] = stream[t]
  BY <1>1, OneStream
<1>3. /\ stream \in [Streams -> Stream] /\ inbox[s] \in Inbox /\ stream[s] \in Stream
      /\ Shown(s) /\ Sound(stream[s]) /\ stream[s].seen \in Statuses
      /\ status \in [Ids -> Statuses]
  BY DEF Typed, TypeOK, StreamTypeOK, PubSubTypeOK, RedisTypeOK, ShownInv, SaidInv, Stream
<1>4. Statuses = Say!ToldStatus \cup {"none"} /\ Final \subseteq Say!ToldStatus
  BY DEF Statuses, Final, Say!ToldStatus
<1> DEFINE Goal == SaidInv' /\ (Spoken!Next \/ UNCHANGED Spoken!jobStreamVars)
\* The stream takes a turn, or is silent.
<1>5. ASSUME NEW events, NEW next, Sound(stream'[s]),
             Spoken!Turn(events, next) \in Spoken!Turns(PhaseOf(stream[s])),
             PhaseOf(stream'[s]) = next, ToldBy(stream'[s]) = events
      PROVE  Goal
  <2>1. Spoken!Next
    BY <1>2, <1>5, SpokenTurn
  <2> QED BY <1>2, <1>5, <2>1 DEF SaidInv
<1>6. ASSUME Sound(stream'[s]), PhaseOf(stream'[s]) = PhaseOf(stream[s]),
             ToldBy(stream'[s]) = ToldBy(stream[s])
      PROVE  Goal
  <2>1. UNCHANGED Spoken!jobStreamVars
    BY <1>2, <1>6, SpokenStill
  <2> QED BY <1>2, <1>6, <2>1 DEF SaidInv
<1>7. ASSUME stream[s].pc # "closed" PROVE PhaseOf(stream[s]) \in {"new", "loop"}
  BY <1>7 DEF PhaseOf
\* It sends a status, or the result.
<1>8. ASSUME stream[s].pc # "closed", stream'[s].pc \in {"subscribe"} \cup Listening,
             stream'[s].seen \in Say!ToldStatus, stream'[s].end = "open"
      PROVE  Goal
  <2>1. Sound(stream'[s])
    BY <1>8 DEF Sound
  <2>2. PhaseOf(stream'[s]) = "loop" /\ ToldBy(stream'[s]) = <<Say!Event("status", stream'[s].seen)>>
    BY <1>8, <2>1, Speaking
  <2> QED BY <1>5, <1>7, <1>8, <2>1, <2>2, TurnsTaken
<1>9. ASSUME stream[s].pc # "closed", stream'[s].pc = "closed", stream'[s].end = "result"
      PROVE  Goal
  <2>1. Sound(stream'[s])
    BY <1>9 DEF Sound
  <2>2. /\ PhaseOf(stream'[s]) = "ended"
        /\ ToldBy(stream'[s]) = <<Say!Event("result", OutcomeOf(stream'[s].sent)), Say!Close>>
    BY <1>9, <2>1, Speaking
  <2> QED BY <1>5, <1>7, <1>9, <2>1, <2>2, TurnsTaken
\* It says nothing new.
<1>10. ASSUME {stream[s].pc, stream'[s].pc} \subseteq {"subscribe"} \cup Listening,
              stream'[s].seen = stream[s].seen, stream'[s].end = stream[s].end
       PROVE  Goal
  <2>1. Sound(stream'[s])
    BY <1>3, <1>10 DEF Sound, Listening
  <2> QED BY <1>3, <1>6, <1>10, <2>1, Speaking
<1> SUFFICES Goal
  OBVIOUS
<1> HIDE DEF Goal
<1>11. CASE StreamOpen(s)
  <2>1. PICK id \in Ids : \E st \in GetStatus(id) :
          stream' = [stream EXCEPT ![s].id = id,
            ![s].pc = IF st = "none" THEN "closed"
                      ELSE IF st \in Final THEN "first" ELSE "subscribe",
            ![s].end = IF st = "none" THEN "not_found" ELSE "open",
            ![s].seen = st]
    BY <1>11 DEF StreamOpen
  <2>2. PICK st \in GetStatus(id) :
          stream' = [stream EXCEPT ![s].id = id,
            ![s].pc = IF st = "none" THEN "closed"
                      ELSE IF st \in Final THEN "first" ELSE "subscribe",
            ![s].end = IF st = "none" THEN "not_found" ELSE "open",
            ![s].seen = st]
    BY <2>1
  <2>3. /\ stream'[s].pc = IF st = "none" THEN "closed"
                           ELSE IF st \in Final THEN "first" ELSE "subscribe"
        /\ stream'[s].end = IF st = "none" THEN "not_found" ELSE "open"
        /\ stream'[s].seen = st
    BY <1>3, <2>2 DEF Stream
  <2>4. st \in Statuses
    BY <1>3, <2>2 DEF GetStatus, Statuses
  <2>5. stream[s].pc = "idle" /\ PhaseOf(stream[s]) = "new" /\ ToldBy(stream[s]) = <<>>
    BY <1>3, <1>11, Speaking DEF StreamOpen
  <2>6. CASE st = "none"
    <3>1. Sound(stream'[s])
      BY <2>3, <2>6 DEF Sound
    <3>2. PhaseOf(stream'[s]) = "ended" /\ ToldBy(stream'[s]) = Say!NotFound
      BY <2>3, <2>6, <3>1, Speaking
    <3> QED BY <1>5, <2>5, <3>1, <3>2, TurnsTaken
  <2>7. CASE st \in Final
    <3>1. stream'[s].pc = "first" /\ stream'[s].end = "open" /\ st \in Say!ToldStatus
      BY <1>4, <2>3, <2>7 DEF Final
    <3>2. Sound(stream'[s])
      BY <2>3, <3>1 DEF Sound
    <3> QED BY <1>6, <2>5, <3>1, <3>2, Speaking
  <2>8. CASE st # "none" /\ st \notin Final
    BY <1>4, <1>8, <2>3, <2>4, <2>5, <2>8
  <2> QED BY <2>6, <2>7, <2>8
<1>12. CASE StreamFirstResult(s)
  <2>1. stream[s].pc = "first" /\ stream[s].end = "open" /\ stream[s].seen \in Say!ToldStatus
    BY <1>3, <1>12 DEF StreamFirstResult, Sound
  <2>2. \/ stream'[s].pc = "closed" /\ stream'[s].end = "result"
        \/ /\ stream'[s].pc = "subscribe" /\ stream'[s].end = "open"
           /\ stream'[s].seen = stream[s].seen
    BY <1>3, <1>12, <2>1 DEF StreamFirstResult, CloseWith, SendStatus, Stream
  <2> QED BY <1>8, <1>9, <2>1, <2>2
<1>13. CASE StreamSubscribe(s)
  <2>1. /\ stream[s].pc = "subscribe" /\ stream'[s].pc = "again"
        /\ stream'[s].seen = stream[s].seen /\ stream'[s].end = stream[s].end
    BY <1>3, <1>13 DEF StreamSubscribe, Stream
  <2> QED BY <1>10, <2>1 DEF Listening
<1>14. CASE StreamAgain(s)
  <2>1. PICK st \in GetStatus(stream[s].id) :
          stream' = [stream EXCEPT ![s].pc = IF st \in Final THEN "second" ELSE "loop",
                                   ![s].covered = inbox[s].live = "yes"]
    BY <1>14 DEF StreamAgain
  <2>2. /\ stream[s].pc = "again" /\ stream'[s].pc \in {"second", "loop"}
        /\ stream'[s].seen = stream[s].seen /\ stream'[s].end = stream[s].end
    BY <1>3, <1>14, <2>1 DEF StreamAgain, Stream
  <2> QED BY <1>10, <2>2 DEF Listening
<1>15. CASE StreamSecondResult(s)
  <2>1. /\ stream[s].pc = "second"
        /\ \/ stream'[s].pc = "closed" /\ stream'[s].end = "result"
           \/ /\ stream'[s].pc = "loop" /\ stream'[s].seen = stream[s].seen
              /\ stream'[s].end = stream[s].end
    BY <1>3, <1>15 DEF StreamSecondResult, CloseWith, Stream
  <2> QED BY <1>9, <1>10, <2>1 DEF Listening
<1>16. CASE StreamReceive(s)
  <2> DEFINE event == Head(inbox[s].events)
  <2>1. /\ stream[s].pc = "loop" /\ inbox[s].events # <<>> /\ event = inbox[s].events[1]
        /\ 1 \in 1..Len(inbox[s].events)
    BY <1>3, <1>16 DEF StreamReceive, Inbox
  <2>2. event.status \in Say!ToldStatus
    BY <1>3, <2>1 DEF Shown, Says, Listening, Say!ToldStatus, Final
  <2> HIDE DEF event
  <2>3. CASE CloseWith(s, event, "result")
    <3>1. stream'[s].pc = "closed" /\ stream'[s].end = "result"
      BY <1>3, <2>3 DEF CloseWith, Stream
    <3> QED BY <1>9, <2>1, <3>1
  <2>4. CASE SendStatus(s, event.status, "loop")
    <3>1. stream'[s].pc = "loop" /\ stream'[s].seen = event.status /\ stream'[s].end = stream[s].end
      BY <1>3, <2>4 DEF SendStatus, Stream
    <3>2. stream[s].end = "open"
      BY <1>3, <2>1 DEF Sound
    <3> QED BY <1>8, <2>1, <2>2, <3>1, <3>2 DEF Listening
  <2> QED BY <1>16, <2>3, <2>4 DEF StreamReceive, event
<1>17. CASE StreamTimeout(s)
  <2>1. stream[s].pc = "loop" /\ stream'[s].pc = "closed" /\ stream'[s].end = "timeout"
    BY <1>3, <1>17 DEF StreamTimeout, Close, CloseWith, Stream
  <2>2. Sound(stream'[s])
    BY <2>1 DEF Sound
  <2>3. PhaseOf(stream'[s]) = "ended" /\ ToldBy(stream'[s]) = Say!TimedOut
    BY <2>1, <2>2, Speaking
  <2>4. PhaseOf(stream[s]) = "loop"
    BY <1>3, <2>1, Speaking DEF Listening
  <2> QED BY <1>5, <2>2, <2>3, <2>4, TurnsTaken
<1>18. CASE StreamGone(s)
  <2>1. stream[s].pc # "closed" /\ stream'[s].pc = "closed" /\ stream'[s].end = "gone"
    BY <1>3, <1>18 DEF StreamGone, Close, CloseWith, Stream
  <2>2. Sound(stream'[s])
    BY <2>1 DEF Sound
  <2>3. PhaseOf(stream'[s]) = "ended" /\ ToldBy(stream'[s]) = <<>>
    BY <2>1, <2>2, Speaking
  <2> QED BY <1>5, <1>7, <2>1, <2>2, <2>3, TurnsTaken
<1>19. CASE SubscriptionTakesEffect(s) \/ SubscriptionBreaks(s)
  <2>1. /\ stream'[s].pc = stream[s].pc /\ stream'[s].seen = stream[s].seen
        /\ stream'[s].end = stream[s].end /\ stream'[s].sent = stream[s].sent
    BY <1>3, <1>19 DEF SubscriptionTakesEffect, SubscriptionBreaks, Stream, streamVars
  <2>2. Sound(stream'[s])
    BY <1>3, <2>1 DEF Sound
  <2>3. PhaseOf(stream'[s]) = PhaseOf(stream[s])
    BY <2>1 DEF PhaseOf
  <2>4. ToldBy(stream'[s]) = ToldBy(stream[s])
    BY <2>1, <2>3 DEF ToldBy
  <2> QED BY <1>6, <2>2, <2>3, <2>4
<1> QED
  BY <1>1, <1>11, <1>12, <1>13, <1>14, <1>15, <1>16, <1>17, <1>18, <1>19 DEF StreamStep

\* Whatever fails, each stream takes the turns of JobStream: it writes states of a
\* job that have a name, then one ending, and nothing after it, although what it
\* writes comes from two reads of a key, from a channel and from a timer.
THEOREM StreamsSpeakInTurns == Spec => StreamsAreAsRelayed
<1>1. Init => SaidInv /\ Spoken!Init
  <2> SUFFICES ASSUME Init PROVE SaidInv /\ Spoken!Init
    OBVIOUS
  <2>1. \A s \in Streams : Sound(stream[s]) /\ stream[s].pc = "idle"
    BY DEF Init, StreamInit, Sound
  <2>2. \A s \in Streams : PhaseOf(stream[s]) = "new" /\ ToldBy(stream[s]) = <<>>
    BY <2>1, Speaking
  <2> QED BY <2>1, <2>2 DEF SaidInv, Spoken!Init
<1>2. SaidInv /\ ShownInv /\ Typed /\ [Next]_vars
        => SaidInv' /\ [Spoken!Next]_(Spoken!jobStreamVars)
  <2> SUFFICES ASSUME SaidInv, ShownInv, Typed, [Next]_vars
               PROVE  SaidInv' /\ (Spoken!Next \/ UNCHANGED Spoken!jobStreamVars)
    OBVIOUS
  <2>1. CASE UNCHANGED stream
    BY <2>1, SpokenStill DEF SaidInv
  <2>2. EventStep \/ UNCHANGED stream
    BY DEF Next, ServiceStep, ServiceFrame, ServiceOnly, WorkerStep, WorkerFrame, WorkerOnly,
         HandlersStep,
       HandlersFrame, ResendStep, Tick, vars, streamVars
  <2> QED BY <2>1, <2>2, EventSaid
<1> QED BY <1>1, <1>2, ShownInvariant, TypedInvariant, PTL DEF Spec, StreamsAreAsRelayed,
Spoken!Spec
=============================================================================
