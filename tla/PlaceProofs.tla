----------------------------- MODULE PlaceProofs -----------------------------
(***************************************************************************)
(* Where a submitted job is, and what is counted of it, for every instance *)
(* of JobSystem: JobInOnePlace, StatusMovesForward, CleanupSparesFresh,    *)
(* TotalCoversVerdicts and CountsMoveForward whatever fails and whatever   *)
(* the library sends again, FeedIsTrimmed and CountedBeforeTold under the  *)
(* faults that they survive.                                               *)
(***************************************************************************)
EXTENDS JobSystemProofs, FiniteSetTheorems

-----------------------------------------------------------------------------
(***************************************************************************)
(* The invariant speaks of one submitted job at a time, which was pushed   *)
(* once.  It waits at most once and one worker at most has it; nothing is  *)
(* known of it before its request is through, and while it waits; and what *)
(* is known of it while a worker has it agrees with the worker's next      *)
(* step, which may have been taken already and is taken again.             *)
(***************************************************************************)
In(q, id) == \E k \in 1..Len(q) : q[k].id = id
OnceIn(q, id) == \A j, k \in 1..Len(q) : q[j].id = id /\ q[k].id = id => j = k

Fresh(id) == result[id] = NoReport /\ results[id] = NoReport /\ status[id] \in {"none", "queued"}
Held(id) == \E w \in Workers : work[w].id = id

AfterAnnounce == WorkPC \ {"pop", "announce"}
AfterStore == {"incr_total", "incr_verdict", "log_push", "log_trim", "publish"}

\* What is known of id while a worker that has it is at pc.
Agrees(pc, id) ==
  /\ pc = "announce" => Fresh(id)
  /\ pc = "mark" => status[id] \in {"none", "queued", "processing"}
  /\ pc \notin AfterStore => results[id] = NoReport

Place(id) ==
  /\ OnceIn(queue, id)
  /\ \A v, w \in Workers : work[v].id = id /\ work[w].id = id => v = w
  /\ req[id].pc \notin Over => ~In(queue, id) /\ ~Held(id) /\ Fresh(id)
  /\ In(queue, id) => ~Held(id) /\ Fresh(id)
  /\ \A w \in Workers : work[w].id = id => Agrees(work[w].pc, id)

\* An upload check never names a job of Once, and a worker between two jobs has none.
Apart ==
  /\ \A c \in Checks : req[c].id \notin Once
  /\ \A w \in Workers : work[w].pc = "pop" => work[w].id = NoId

PlaceInv == Apart /\ \A id \in PushedOnce : Place(id)

(***************************************************************************)
(* The job has gone beyond some step for good: its request is through, it  *)
(* does not wait, and whoever has it is at a later step.                   *)
(***************************************************************************)
Beyond(id, S) ==
  /\ req[id].pc \in Over /\ ~In(queue, id)
  /\ \A w \in Workers : work[w].id = id => work[w].pc \in S

\* What a step does to a submitted job.
Forward(id) ==
  Rank(status'[id]) >= Rank(status[id]) \/ (now' > now /\ status'[id] = "none")
Onward(id) == \A S \in {AfterAnnounce, AfterStore} : Beyond(id, S) => Beyond(id, S)'
Moves(id) == Place(id)' /\ Forward(id) /\ Onward(id)

-----------------------------------------------------------------------------
(* The queue *)

LEMMA AppendIn ==
  ASSUME NEW q \in Seq(Job), NEW job \in Job, NEW id
  PROVE  /\ In(Append(q, job), id) <=> In(q, id) \/ job.id = id
         /\ OnceIn(q, id) /\ (job.id = id => ~In(q, id)) => OnceIn(Append(q, job), id)
<1> DEFINE new == Append(q, job)
<1>1. /\ Len(new) = Len(q) + 1 /\ Len(q) \in Nat /\ new[Len(q) + 1] = job
      /\ \A k \in 1..Len(q) : new[k] = q[k]
  OBVIOUS
<1> HIDE DEF new
<1>2. \A k \in 1..Len(new) : k \in 1..Len(q) \/ k = Len(q) + 1
  BY <1>1
<1>3. 1..Len(q) \subseteq 1..Len(new) /\ Len(q) + 1 \in 1..Len(new)
  BY <1>1
<1>4. In(new, id) <=> In(q, id) \/ job.id = id
  BY <1>1, <1>2, <1>3 DEF In
<1>5. OnceIn(q, id) /\ (job.id = id => ~In(q, id)) => OnceIn(new, id)
  BY <1>1, <1>2 DEF In, OnceIn
<1> QED BY <1>4, <1>5 DEF new

LEMMA TailIn ==
  ASSUME NEW q \in Seq(Job), q # <<>>, NEW id
  PROVE  /\ In(Tail(q), id) => In(q, id)
         /\ OnceIn(q, id) => OnceIn(Tail(q), id)
         /\ Head(q).id = id => In(q, id)
         /\ OnceIn(q, id) /\ Head(q).id = id => ~In(Tail(q), id)
<1>1. /\ Len(Tail(q)) = Len(q) - 1 /\ Len(q) \in Nat \ {0} /\ Head(q) = q[1]
      /\ \A k \in 1..Len(Tail(q)) : k + 1 \in 1..Len(q) /\ Tail(q)[k] = q[k + 1]
  OBVIOUS
<1>2. 1 \in 1..Len(q)
  BY <1>1
<1>3. In(Tail(q), id) => In(q, id)
  BY <1>1 DEF In
<1>4. OnceIn(q, id) => OnceIn(Tail(q), id)
  <2> SUFFICES ASSUME OnceIn(q, id), NEW j \in 1..Len(Tail(q)), NEW k \in 1..Len(Tail(q)),
                      Tail(q)[j].id = id, Tail(q)[k].id = id
               PROVE  j = k
    BY DEF OnceIn
  <2>1. j + 1 = k + 1
    BY <1>1 DEF OnceIn
  <2> QED BY <1>1, <2>1
<1>5. Head(q).id = id => In(q, id)
  BY <1>1, <1>2 DEF In
<1>6. OnceIn(q, id) /\ Head(q).id = id => ~In(Tail(q), id)
  <2> SUFFICES ASSUME OnceIn(q, id), q[1].id = id, NEW k \in 1..Len(Tail(q)), q[k + 1].id = id
               PROVE  FALSE
    BY <1>1 DEF In
  <2>1. k + 1 = 1
    BY <1>1, <1>2 DEF OnceIn
  <2> QED BY <1>1, <2>1
<1> QED BY <1>3, <1>4, <1>5, <1>6

-----------------------------------------------------------------------------
(* Steps that concern other jobs *)

LEMMA OnceIds ==
  /\ \A id \in Once : id \in SubmitIds /\ id \in Requests /\ id \in Ids /\ id # NoId
  /\ \A id \in Once, c \in CheckIds : id # c
  /\ \A id \in Once, u \in UploadIds : id # u
  /\ \A id \in PushedOnce : id \in Once
BY IdsAssumption, NoneAssumption DEF PushedOnce, Once, Requests, Ids

LEMMA Ranks ==
  /\ Rank("none") = 0 /\ Rank("queued") = 1 /\ Rank("processing") = 2
  /\ \A s \in Final : Rank(s) = 3
BY DEF Rank, Final

LEMMA RankType == \A s \in Statuses : Rank(s) \in 0..3
BY Ranks DEF Statuses, Final

\* A step that, of this job, at most lets keys and objects vanish, or ends its
\* request or lets it go on, or takes it away from its worker.
LEMMA Elsewhere ==
  ASSUME Typed, NEW id \in PushedOnce, Place(id),
         req[id].pc \in Over => req'[id].pc \in Over,
         status'[id] = status[id] \/ (now' > now /\ status'[id] = "none"),
         result'[id] = result[id] \/ result'[id] = NoReport,
         results'[id] = results[id] \/ results'[id] = NoReport,
         In(queue', id) => In(queue, id), OnceIn(queue', id),
         \A w \in Workers : work'[w].id = id => work[w].id = id /\ work'[w].pc = work[w].pc
  PROVE  Moves(id)
<1>1. status[id] \in Statuses
  BY OnceIds DEF Typed, TypeOK, RedisTypeOK
<1>2. Forward(id)
  BY <1>1, RankType DEF Forward
<1>3. Onward(id)
  BY DEF Onward, Beyond
<1>4. Fresh(id) => Fresh(id)'
  BY DEF Fresh
<1>5. ~Held(id) => ~Held(id)'
  BY DEF Held
<1>6. \A w \in Workers : work'[w].id = id => Agrees(work[w].pc, id)'
  BY <1>4 DEF Place, Agrees
<1>7. req'[id].pc \notin Over => ~In(queue, id)' /\ ~Held(id)' /\ Fresh(id)'
  BY <1>4, <1>5 DEF Place
<1>9. In(queue, id)' => ~Held(id)' /\ Fresh(id)'
  BY <1>4, <1>5 DEF Place
<1>10. \A v, w \in Workers : work'[v].id = id /\ work'[w].id = id => v = w
  BY DEF Place
<1>11. Place(id)'
  BY <1>6, <1>7, <1>9, <1>10 DEF Place
<1> QED BY <1>2, <1>3, <1>11 DEF Moves
\* A request goes on, or starts.
LEMMA OneRequest ==
  ASSUME ServiceTypeOK, NEW r \in Requests,
         (\E new : req' = [req EXCEPT ![r] = new]) \/ (\E pc : GoTo(r, pc))
  PROVE  /\ \A q \in Requests : q # r => req'[q] = req[q]
         /\ \A pc : GoTo(r, pc) => req'[r].pc = pc /\ req'[r].id = req[r].id
<1>1. \A q \in Requests : req[q] \in Request
  BY DEF ServiceTypeOK
<1>2. \A pc : GoTo(r, pc) => req'[r] = [req[r] EXCEPT !.pc = pc]
  BY DEF ServiceTypeOK, GoTo
<1>3. \A q \in Requests : q # r => req'[q] = req[q]
  BY DEF ServiceTypeOK, GoTo
<1>4. \A pc : LET new == [req[r] EXCEPT !.pc = pc] IN new.pc = pc /\ new.id = req[r].id
  BY <1>1 DEF Request
<1> QED BY <1>2, <1>3, <1>4

-----------------------------------------------------------------------------
(* The job service *)

LEMMA ServicePlace ==
  ASSUME Typed, PlaceInv, ServiceStep, NEW id \in PushedOnce
  PROVE  Moves(id)
<1>1. /\ ServiceTypeOK /\ RedisTypeOK /\ RequestsHaveJobs /\ Place(id) /\ Apart
      /\ id \in SubmitIds /\ id \in Requests /\ id \in Ids
  BY OnceIds DEF Typed, TypeOK, PlaceInv
<1>2. UNCHANGED <<now, work>>
  BY DEF ServiceStep, ServiceFrame, ServiceOnly, workerVars
<1>3. UNCHANGED <<result, results>>
  BY DEF ServiceStep, ServiceNext, SubmitValidate, SubmitPutList, UploadPresign, ClientPut,
       CheckValidate, RequestSetStatus, RequestPush, RequestDies, PollStart, PollResult,
       PollStatus, PutList, SetStatus, Push, redisVars, bucketVars
<1>4. OnceIn(queue, id)
  BY <1>1 DEF Place
\* What a request does to a job that is not its own, or before it queues it.
<1>5. ASSUME UNCHANGED queue, status'[id] = status[id],
             req[id].pc \in Over => req'[id].pc \in Over
      PROVE  Moves(id)
  BY <1>1, <1>2, <1>3, <1>4, <1>5, Elsewhere
\* Each request has a job of its own.
<1>6. \A r \in Requests : r # id => req[r].pc = "idle" \/ req[r].id # id
  BY <1>1, OnceIds DEF RequestsHaveJobs, Requests, Apart
<1>7. ASSUME NEW x \in SubmitIds, SubmitValidate(x) PROVE Moves(id)
  <2>1. UNCHANGED <<queue, status>> /\ x \in Requests
    BY <1>7 DEF SubmitValidate, redisVars, Requests
  <2>2. req[x].pc = "idle" /\ \E new : req' = [req EXCEPT ![x] = new]
    BY <1>7 DEF SubmitValidate
  <2>3. id # x => req'[id] = req[id]
    BY <1>1, <2>1, <2>2, OneRequest
  <2> QED BY <1>5, <2>1, <2>2, <2>3 DEF Over
<1>8. ASSUME NEW c \in Checks, CheckValidate(c) PROVE Moves(id)
  <2>1. UNCHANGED <<queue, status>> /\ c \in Requests /\ c # id
    BY <1>1, <1>8, IdsAssumption DEF CheckValidate, redisVars, Requests
  <2>2. \E new : req' = [req EXCEPT ![c] = new]
    BY <1>8 DEF CheckValidate
  <2> QED BY <1>1, <1>5, <2>1, <2>2, OneRequest
<1>9. ASSUME NEW r \in Requests, RequestDies(r) \/ SubmitPutList(r) PROVE Moves(id)
  <2>1. /\ UNCHANGED <<queue, status>> /\ req[r].pc \in {"put", "status", "push"}
        /\ \E pc \in {"failed", "status"} :
             GoTo(r, pc) /\ (pc = "status" => req[r].pc = "put")
    BY <1>9 DEF RequestDies, SubmitPutList, redisVars
  <2>2. id # r => req'[id] = req[id]
    BY <1>1, <2>1, OneRequest
  <2> QED BY <1>5, <2>1, <2>2 DEF Over
<1>10. ASSUME NEW r \in Requests, RequestSetStatus(r) PROVE Moves(id)
  <2>1. /\ UNCHANGED queue /\ req[r].pc = "status" /\ GoTo(r, "push")
        /\ SetStatus(req[r].id, "queued")
    BY <1>10 DEF RequestSetStatus, SetStatus, redisVars
  <2>2. CASE r # id
    <3>1. req'[id] = req[id]
      BY <1>1, <2>1, <2>2, OneRequest
    <3>2. status'[id] = status[id]
      BY <1>1, <1>6, <2>1, <2>2 DEF SetStatus, redisVars, RedisTypeOK
    <3> QED BY <1>5, <2>1, <3>1, <3>2
  <2>3. CASE r = id
    <3>1. ~In(queue, id) /\ ~Held(id) /\ Fresh(id)
      BY <1>1, <2>1, <2>3 DEF Place, Over
    <3>2. req'[id].pc = "push" /\ req[id].pc \notin Over
      BY <1>1, <2>1, <2>3, OneRequest DEF Over
    <3>3. status[id] \in {"none", "queued"} /\ status'[id] \in {status[id], "queued"}
      BY <1>1, <2>1, <2>3, <3>1 DEF SetStatus, redisVars, RedisTypeOK, RequestsHaveJobs, Fresh
    <3>4. Forward(id)
      BY <3>3, Ranks DEF Forward
    <3>5. Onward(id)
      BY <3>2 DEF Onward, Beyond
    <3>6. Fresh(id)' /\ ~Held(id)' /\ ~In(queue, id)'
      BY <1>2, <1>3, <2>1, <3>1, <3>3 DEF Fresh, Held
    <3>7. Place(id)'
      BY <1>2, <1>4, <2>1, <3>2, <3>6 DEF Place, Held
    <3> QED BY <3>4, <3>5, <3>7 DEF Moves
  <2> QED BY <2>2, <2>3
<1>11. ASSUME NEW r \in Requests, RequestPush(r) PROVE Moves(id)
  <2> DEFINE job == JobOf(r)
  <2>1. /\ UNCHANGED status /\ req[r].pc = "push" /\ \E pc \in Over : GoTo(r, pc)
        /\ UNCHANGED queue \/ queue' = Append(queue, job)
    BY <1>11 DEF RequestPush, Push, redisVars, Over
  <2>2. /\ \A q \in Requests : q # r => req'[q] = req[q]
        /\ req'[r].pc \in Over
    BY <1>1, <2>1, OneRequest
  <2>3. job \in Job
    BY <1>1, <2>1, JobOfType
  <2>4. job.id = req[r].id
    BY DEF JobOf
  <2> HIDE DEF job
  <2>5. queue \in Seq(Job)
    BY <1>1 DEF RedisTypeOK
  <2>6. CASE UNCHANGED queue
    BY <1>1, <1>5, <2>1, <2>2, <2>6
  <2>7. CASE queue' = Append(queue, job) /\ r # id
    <3>1. job.id # id
      BY <1>6, <2>1, <2>4, <2>7
    <3>2. (In(queue', id) => In(queue, id)) /\ OnceIn(queue', id)
      BY <1>4, <2>3, <2>5, <2>7, <3>1, AppendIn
    <3> QED BY <1>1, <1>2, <1>3, <2>1, <2>2, <2>7, <3>2, Elsewhere
  <2>8. CASE queue' = Append(queue, job) /\ r = id
    <3>1. ~In(queue, id) /\ ~Held(id) /\ Fresh(id)
      BY <1>1, <2>1, <2>8 DEF Place, Over
    <3>2. OnceIn(queue', id)
      BY <1>4, <2>3, <2>5, <2>8, <3>1, AppendIn
    <3>3. Fresh(id)' /\ ~Held(id)'
      BY <1>2, <1>3, <2>1, <3>1 DEF Fresh, Held
    <3>4. Place(id)'
      BY <1>2, <2>2, <2>8, <3>2, <3>3 DEF Place, Held
    <3>5. Forward(id)
      <4>1. status[id] \in Statuses
        BY <1>1 DEF RedisTypeOK
      <4> QED BY <2>1, <4>1, RankType DEF Forward
    <3>6. Onward(id)
      BY <2>1, <2>8 DEF Onward, Beyond, Over
    <3> QED BY <3>4, <3>5, <3>6 DEF Moves
  <2> QED BY <2>1, <2>6, <2>7, <2>8
<1>12. ASSUME UNCHANGED <<req, redisVars>> PROVE Moves(id)
  BY <1>5, <1>12 DEF redisVars
<1>13. ASSUME NEW u \in UploadIds, UploadPresign(u) \/ ClientPut(u) PROVE Moves(id)
  BY <1>12, <1>13 DEF UploadPresign, ClientPut, serviceVars
<1>14. ASSUME NEW p \in Polls, PollStart(p) \/ PollResult(p) \/ PollStatus(p) PROVE Moves(id)
  BY <1>12, <1>14 DEF PollStart, PollResult, PollStatus
<1> QED BY <1>7, <1>8, <1>9, <1>10, <1>11, <1>13, <1>14, SubmitsAreRequests
        DEF ServiceStep, ServiceNext
-----------------------------------------------------------------------------
(* The worker *)

LEMMA OneWorker ==
  ASSUME WorkerTypeOK, NEW w \in Workers
  PROVE  /\ \A new : work' = [work EXCEPT ![w] = new]
              => work'[w] = new /\ \A v \in Workers : v # w => work'[v] = work[v]
         /\ \A pc : Proceed(w, pc) =>
              /\ work'[w].pc = pc /\ work'[w].id = work[w].id
              /\ work'[w].order = work[w].order /\ work'[w].content = work[w].content
              /\ work'[w].outcome = work[w].outcome
              /\ \A v \in Workers : v # w => work'[v] = work[v]
<1>1. \A new : work' = [work EXCEPT ![w] = new]
        => work'[w] = new /\ \A v \in Workers : v # w => work'[v] = work[v]
  BY DEF WorkerTypeOK
<1>2. work[w] \in Work
  BY DEF WorkerTypeOK
<1>3. ASSUME NEW pc, Proceed(w, pc)
      PROVE  /\ work'[w].pc = pc /\ work'[w].id = work[w].id
             /\ work'[w].order = work[w].order /\ work'[w].content = work[w].content
             /\ work'[w].outcome = work[w].outcome
             /\ \A v \in Workers : v # w => work'[v] = work[v]
  <2> DEFINE new == [work[w] EXCEPT !.pc = pc]
  <2>1. /\ new.pc = pc /\ new.id = work[w].id /\ new.order = work[w].order
        /\ new.content = work[w].content /\ new.outcome = work[w].outcome
    BY <1>2 DEF Work
  <2>2. work' = [work EXCEPT ![w] = new]
    BY <1>3 DEF Proceed
  <2> HIDE DEF new
  <2> QED BY <1>1, <2>1, <2>2
<1> QED BY <1>1, <1>3

\* The worker that has the job takes its next step.
LEMMA OwnStep ==
  ASSUME NEW id \in PushedOnce, Place(id), UNCHANGED <<queue, req>>,
         NEW w \in Workers, work[w].id = id,
         \A v \in Workers : v # w => work'[v] = work[v],
         work'[w].id = id =>
           /\ Agrees(work[w].pc, id)'
           /\ \A S \in {AfterAnnounce, AfterStore} : work[w].pc \in S => work'[w].pc \in S,
         Forward(id)
  PROVE  Moves(id)
<1>1. Held(id) /\ ~In(queue, id) /\ req[id].pc \in Over
  BY DEF Held, Place
<1>2. \A v \in Workers : work'[v].id = id => v = w
  BY DEF Place
<1>3. Place(id)'
  BY <1>1, <1>2 DEF Place
<1>4. Onward(id)
  BY <1>1, <1>2 DEF Onward, Beyond
<1> QED BY <1>3, <1>4 DEF Moves

LEMMA PopPlace ==
  ASSUME Typed, PlaceInv, NEW id \in PushedOnce, NEW w \in Workers, WorkerPop(w), UNCHANGED <<now, req>>
  PROVE  Moves(id)
<1>1. /\ WorkerTypeOK /\ RedisTypeOK /\ Place(id) /\ id \in Ids /\ id # NoId
      /\ work[w].id = NoId /\ work[w].pc = "pop"
  BY OnceIds DEF Typed, TypeOK, PlaceInv, Apart, WorkerPop, At
<1>2. /\ queue # <<>> /\ queue' = Tail(queue) /\ queue \in Seq(Job)
      /\ UNCHANGED <<status, result, results>>
  BY <1>1 DEF WorkerPop, Pop, RedisTypeOK, bucketVars
<1>3. \/ /\ work'[w].pc = "announce" /\ work'[w].id = Head(queue).id
         /\ \A v \in Workers : v # w => work'[v] = work[v]
      \/ UNCHANGED work
  <2> DEFINE new == [Idle EXCEPT !.pc = "announce", !.id = Head(queue).id,
                                 !.order = Head(queue).order]
  <2>1. new.pc = "announce" /\ new.id = Head(queue).id
    BY DEF Idle
  <2>2. work' = [work EXCEPT ![w] = new] \/ UNCHANGED work
    BY DEF WorkerPop
  <2> HIDE DEF new
  <2> QED BY <1>1, <2>1, <2>2, OneWorker
<1>4. OnceIn(queue, id) /\ OnceIn(queue', id) /\ (In(queue', id) => In(queue, id))
  BY <1>1, <1>2, TailIn DEF Place
<1>5. CASE Head(queue).id # id \/ UNCHANGED work
  <2>1. \A v \in Workers : work'[v].id = id => work[v].id = id /\ work'[v].pc = work[v].pc
    BY <1>3, <1>5
  <2> QED BY <1>1, <1>2, <1>4, <2>1, Elsewhere
<1>6. CASE Head(queue).id = id /\ ~UNCHANGED work
  <2>1. In(queue, id) /\ ~In(queue', id)
    BY <1>2, <1>4, <1>6, TailIn
  <2>2. ~Held(id) /\ Fresh(id) /\ req[id].pc \in Over
    BY <1>1, <2>1 DEF Place
  <2>3. \A v \in Workers : work'[v].id = id => v = w
    BY <1>3, <1>6, <2>2 DEF Held
  <2>4. Agrees(work[w].pc, id)'
    BY <1>2, <1>3, <1>6, <2>2 DEF Agrees, Fresh
  <2>5. Place(id)'
    BY <1>4, <2>1, <2>2, <2>3, <2>4 DEF Place
  <2>6. status[id] \in Statuses
    BY <1>1 DEF RedisTypeOK
  <2>7. Forward(id)
    BY <1>2, <2>6, RankType DEF Forward
  <2>8. Onward(id)
    BY <2>1 DEF Onward, Beyond
  <2> QED BY <2>5, <2>7, <2>8 DEF Moves
<1> QED BY <1>5, <1>6

LEMMA ProcessPlace ==
  ASSUME Typed, PlaceInv, NEW id \in PushedOnce, NEW w \in Workers, ProcessStep(w), UNCHANGED <<now, req>>
  PROVE  Moves(id)
<1>1. /\ WorkerTypeOK /\ RedisTypeOK /\ BucketTypeOK /\ WorkersHaveJobs /\ Place(id)
      /\ id \in Ids /\ id # NoId /\ OnceIn(queue, id) /\ status[id] \in Statuses
  BY OnceIds DEF Typed, TypeOK, PlaceInv, Place, RedisTypeOK
<1>2. CASE WorkerPop(w)
  BY <1>2, PopPlace
<1> SUFFICES ASSUME ~WorkerPop(w) PROVE Moves(id)
  BY <1>2
<1>3. UNCHANGED queue
  BY DEF ProcessStep, Announce, Mark, Read, WriteResult, WriteStatus, StoreResult,
       IncrementTotal, IncrementVerdict, LogPush, LogTrim, PublishOutcome, SetStatus, SetResult,
       redisVars
\* The next pc of the worker, and what becomes of its job.
<1>4. /\ \A v \in Workers : v # w => work'[v] = work[v]
      /\ \/ work'[w] = Idle
         \/ work'[w].id = work[w].id
  <2>1. Read(w) => \A v \in Workers : v # w => work'[v] = work[v]
    BY <1>1 DEF Read, WorkerTypeOK
  <2>2. Read(w) => work'[w].id = work[w].id
    BY <1>1 DEF Read, WorkerTypeOK, Work
  <2>3. Read(w) \/ work' = [work EXCEPT ![w] = Idle] \/ \E pc : Proceed(w, pc)
    BY DEF ProcessStep, Announce, Mark, WriteResult, WriteStatus, StoreResult,
       IncrementTotal, IncrementVerdict, LogPush, LogTrim, PublishOutcome
  <2> QED BY <1>1, <2>1, <2>2, <2>3, OneWorker
<1>5. Idle.id # id
  BY <1>1 DEF Idle
<1>6. CASE work[w].id # id
  <2>1. status'[id] = status[id] /\ result'[id] = result[id]
    BY <1>1, <1>6 DEF ProcessStep, Announce, Mark, Read, WriteResult, WriteStatus, StoreResult,
       IncrementTotal, IncrementVerdict, LogPush, LogTrim, PublishOutcome, SetStatus, SetResult,
       redisVars, RedisTypeOK
  <2>2. results'[id] = results[id]
    BY <1>1, <1>6 DEF ProcessStep, Announce, Mark, Read, WriteResult, WriteStatus, StoreResult,
       IncrementTotal, IncrementVerdict, LogPush, LogTrim, PublishOutcome, PutResult,
       bucketVars, BucketTypeOK
  <2>3. \A v \in Workers : work'[v].id = id => work[v].id = id /\ work'[v].pc = work[v].pc
    BY <1>4, <1>5, <1>6
  <2> QED BY <1>1, <1>3, <2>1, <2>2, <2>3, Elsewhere
<1>7. CASE work[w].id = id
  <2>1. Agrees(work[w].pc, id)
    BY <1>1, <1>7 DEF Place
  <2>2. SUFFICES /\ work'[w].id = id =>
                      /\ Agrees(work[w].pc, id)'
                      /\ \A S \in {AfterAnnounce, AfterStore} :
                           work[w].pc \in S => work'[w].pc \in S
                 /\ Forward(id)
    BY <1>1, <1>3, <1>4, <1>7, OwnStep
  <2>3. UNCHANGED status => Forward(id)
    BY <1>1, RankType DEF Forward
  <2>4. CASE Announce(w)
    <3>1. UNCHANGED <<status, result, results>> /\ work[w].pc = "announce" /\ work'[w].pc = "mark"
      BY <1>1, <2>4, OneWorker DEF Announce, At, redisVars, bucketVars
    <3> QED BY <2>1, <2>3, <3>1 DEF Agrees, Fresh, AfterAnnounce, AfterStore, WorkPC
  <2>5. CASE Mark(w)
    <3>1. UNCHANGED <<result, results>> /\ work[w].pc = "mark" /\ work'[w].pc = "read"
      BY <1>1, <2>5, OneWorker DEF Mark, At, SetStatus, redisVars, bucketVars
    <3>2. /\ status'[id] \in {status[id], "processing"}
          /\ status[id] \in {"none", "queued", "processing"}
      BY <1>1, <1>7, <2>1, <2>5, <3>1 DEF Mark, SetStatus, redisVars, RedisTypeOK, Agrees
    <3>3. Forward(id)
      BY <3>2, Ranks DEF Forward
    <3> QED BY <2>1, <3>1, <3>2, <3>3
            DEF Agrees, Fresh, AfterAnnounce, AfterStore, WorkPC
  <2>6. CASE Read(w)
    <3>1. UNCHANGED <<status, result, results>> /\ work[w].pc = "read"
      BY <2>6 DEF Read, At, redisVars, bucketVars
    <3>2. work'[w].pc = "set_result"
      BY <1>1, <2>6 DEF Read, WorkerTypeOK, Work
    <3> QED BY <2>1, <2>3, <3>1, <3>2 DEF Agrees, Fresh, AfterAnnounce, AfterStore, WorkPC
  <2>7. CASE WriteResult(w)
    <3>1. /\ UNCHANGED <<status, results>> /\ work[w].pc = "set_result"
          /\ work'[w].pc = "set_status"
      BY <1>1, <2>7, OneWorker DEF WriteResult, At, SetResult, redisVars, bucketVars
    <3> QED BY <2>1, <2>3, <3>1 DEF Agrees, AfterAnnounce, AfterStore, WorkPC
  <2>8. CASE WriteStatus(w)
    <3>1. /\ UNCHANGED results /\ work[w].pc = "set_status"
          /\ work'[w].pc \in {"put_result", "publish"}
      BY <1>1, <2>8, OneWorker DEF WriteStatus, At, bucketVars
    <3>2. status'[id] \in {status[id], work[w].outcome.status} /\ work[w].outcome.status \in Final
      BY <1>1, <1>7, <2>8, <3>1
         DEF WriteStatus, SetStatus, redisVars, RedisTypeOK, WorkersHaveJobs, Deciding, Decided
    <3>3. Forward(id)
      BY <1>1, <3>2, Ranks, RankType DEF Forward
    <3> QED BY <2>1, <3>1, <3>3 DEF Agrees, AfterAnnounce, AfterStore, WorkPC
  <2>9. CASE \/ StoreResult(w) \/ IncrementTotal(w) \/ IncrementVerdict(w)
             \/ LogPush(w) \/ LogTrim(w)
    <3>1. /\ UNCHANGED status
          /\ work'[w].pc \in {"incr_total", "incr_verdict", "log_push", "log_trim", "publish"}
      BY <1>1, <2>9, OneWorker
         DEF StoreResult, IncrementTotal, IncrementVerdict, LogPush, LogTrim, redisVars
    <3> QED BY <2>3, <3>1 DEF Agrees, AfterAnnounce, AfterStore, WorkPC
  <2>10. CASE PublishOutcome(w)
    <3>1. UNCHANGED status /\ work'[w] = Idle
      BY <1>1, <2>10, OneWorker DEF PublishOutcome, redisVars
    <3> QED BY <1>5, <2>3, <3>1
  <2> QED BY <2>4, <2>5, <2>6, <2>7, <2>8, <2>9, <2>10 DEF ProcessStep
<1> QED BY <1>6, <1>7
\* The loops that clean up and save leave jobs alone, and so does a crash, but
\* for taking one away and deleting results.
LEMMA WorkerPlace ==
  ASSUME Typed, PlaceInv, NEW id \in PushedOnce, WorkerStep
  PROVE  Moves(id)
<1>1. /\ WorkerTypeOK /\ BucketTypeOK /\ Place(id) /\ id \in Ids /\ id # NoId
      /\ OnceIn(queue, id)
  BY OnceIds DEF Typed, TypeOK, PlaceInv, Place
<1>2. UNCHANGED <<now, req>>
  BY DEF WorkerStep, WorkerFrame, WorkerOnly, serviceVars
<1>3. PICK w \in Workers : ProcessStep(w) \/ SweepStep(w) \/ SnapshotStep(w) \/ WorkerCrash(w)
  BY DEF WorkerStep, WorkerNext
<1>4. ASSUME UNCHANGED <<queue, status, result>>,
             results'[id] = results[id] \/ results'[id] = NoReport,
             \A v \in Workers : work'[v].id = id => work'[v] = work[v]
      PROVE  Moves(id)
  BY <1>1, <1>2, <1>4, Elsewhere
<1>5. CASE ProcessStep(w)
  BY <1>2, <1>5, ProcessPlace
<1>6. CASE SweepStep(w)
  <2>1. sweep[w].todo \subseteq Ids
    BY <1>1 DEF WorkerTypeOK, Sweep
  <2>2. UNCHANGED bucketVars \/ \E x \in Ids : Delete(sweep[w].prefix, x)
    BY <1>6, <2>1 DEF SweepStep, SweepStart, SweepList, SweepDelete
  <2>3. results'[id] = results[id] \/ results'[id] = NoReport
    BY <1>1, <2>2 DEF Delete, bucketVars, BucketTypeOK
  <2> QED BY <1>4, <1>6, <2>3 DEF SweepStep, SweepStart, SweepList, SweepDelete, redisVars
<1>7. CASE SnapshotStep(w)
  <2>1. UNCHANGED results
    BY <1>7 DEF SnapshotStep, TakeSnapshot, SnapshotTotal, SnapshotSorted, SnapshotNotSorted,
         ReadCounter, SnapshotPutCounter, SnapshotRecent, SnapshotPutActivity, PutState,
         bucketVars
  <2> QED BY <1>4, <1>7, <2>1 DEF SnapshotStep, redisVars
<1>8. CASE WorkerCrash(w)
  <2>1. \A v \in Workers : work'[v].id = id => work'[v] = work[v]
    BY <1>1, <1>8, OneWorker DEF WorkerCrash, Idle
  <2> QED BY <1>4, <1>8, <2>1 DEF WorkerCrash, redisVars, bucketVars
<1> QED BY <1>3, <1>5, <1>6, <1>7, <1>8

-----------------------------------------------------------------------------
(* Commands that are sent again *)

\* A push that is sent again puts the job of its request in a second place; the
\* status that a request sets again is the one it is about to leave behind.
LEMMA RequestResendPlace ==
  ASSUME Typed, PlaceInv, NEW id \in PushedOnce, NEW r \in Requests, RequestSendsAgain(r),
         ServiceOnly
  PROVE  Forward(id) /\ (id \notin twice' => Moves(id))
<1>1. /\ ServiceTypeOK /\ RedisTypeOK /\ RequestsHaveJobs /\ Place(id) /\ Apart
      /\ id \in SubmitIds /\ id \in Requests /\ id \in Ids /\ status[id] \in Statuses
      /\ OnceIn(queue, id)
  BY OnceIds DEF Typed, TypeOK, PlaceInv, Place, RedisTypeOK
<1>2. UNCHANGED <<now, work, req, result, results>>
  BY DEF RequestSendsAgain, ServiceOnly, SetStatus, Push, redisVars, bucketVars, serviceVars,
         workerVars
<1>3. req[r].pc # "idle" /\ (r # id => req[r].id # id)
  BY <1>1, OnceIds DEF RequestSendsAgain, RequestsHaveJobs, Requests, Apart
<1>4. UNCHANGED status => Forward(id)
  BY <1>1, RankType DEF Forward
<1>5. CASE req[r].pc = "status" /\ SetStatus(req[r].id, "queued")
  <2>1. UNCHANGED queue
    BY <1>5 DEF SetStatus, redisVars
  <2>2. CASE r # id
    <3>1. status'[id] = status[id]
      BY <1>1, <1>3, <1>5, <2>2 DEF SetStatus, redisVars, RedisTypeOK
    <3> QED BY <1>1, <1>2, <2>1, <3>1, Elsewhere DEF Moves
  <2>3. CASE r = id
    <3>1. ~In(queue, id) /\ ~Held(id) /\ Fresh(id) /\ req[id].pc \notin Over
      BY <1>1, <1>5, <2>3 DEF Place, Over
    <3>2. status[id] \in {"none", "queued"} /\ status'[id] \in {status[id], "queued"}
      BY <1>1, <1>5, <2>3, <3>1 DEF SetStatus, redisVars, RedisTypeOK, RequestsHaveJobs, Fresh
    <3>3. Forward(id) /\ Onward(id)
      BY <3>1, <3>2, Ranks DEF Forward, Onward, Beyond
    <3>4. Fresh(id)' /\ ~Held(id)' /\ ~In(queue, id)'
      BY <1>2, <2>1, <3>1, <3>2 DEF Fresh, Held
    <3>5. Place(id)'
      BY <1>1, <1>2, <2>1, <3>1, <3>4 DEF Place, Held
    <3> QED BY <3>3, <3>5 DEF Moves
  <2> QED BY <2>2, <2>3
<1>6. CASE req[r].pc = "push" /\ Push(JobOf(r)) /\ twice' = twice \cup {r}
  <2>1. UNCHANGED status /\ queue' = Append(queue, JobOf(r)) /\ queue \in Seq(Job)
    BY <1>1, <1>6 DEF Push, RedisTypeOK
  <2>2. JobOf(r) \in Job /\ JobOf(r).id = req[r].id
    BY <1>1, <1>3, JobOfType DEF JobOf
  <2>3. ASSUME id \notin twice' PROVE Moves(id)
    <3>1. (In(queue', id) => In(queue, id)) /\ OnceIn(queue', id)
      BY <1>1, <1>3, <1>6, <2>1, <2>2, <2>3, AppendIn
    <3> QED BY <1>1, <1>2, <2>1, <3>1, Elsewhere
  <2> QED BY <1>4, <2>1, <2>3
<1> QED BY <1>5, <1>6 DEF RequestSendsAgain

LEMMA WorkerResendPlace ==
  ASSUME Typed, PlaceInv, NEW id \in PushedOnce, NEW w \in Workers, WorkerSendsAgain(w),
         WorkerOnly
  PROVE  Moves(id)
<1>1. /\ WorkerTypeOK /\ RedisTypeOK /\ WorkersHaveJobs /\ Place(id)
      /\ id \in Ids /\ OnceIn(queue, id) /\ status[id] \in Statuses
  BY OnceIds DEF Typed, TypeOK, PlaceInv, Place, RedisTypeOK
<1>2. UNCHANGED <<now, req, queue, results>>
  BY DEF WorkerSendsAgain, WorkerOnly, SetStatus, SetResult, redisVars, bucketVars, serviceVars
<1>3. \/ UNCHANGED work
      \/ At(w, "incr_verdict") /\ Proceed(w, "incr_total") /\ UNCHANGED redisVars
      \/ At(w, "log_trim") /\ Proceed(w, "log_push") /\ UNCHANGED redisVars
  BY DEF WorkerSendsAgain
<1>4. \A v \in Workers : work'[v].id = work[v].id /\ (v # w => work'[v] = work[v])
  BY <1>1, <1>3, OneWorker
<1>5. CASE work[w].id # id
  <2>1. status'[id] = status[id] /\ result'[id] = result[id]
    BY <1>1, <1>5 DEF WorkerSendsAgain, SetStatus, SetResult, redisVars, RedisTypeOK
  <2> QED BY <1>1, <1>2, <1>4, <1>5, <2>1, Elsewhere
<1>6. CASE work[w].id = id
  <2>1. Agrees(work[w].pc, id)
    BY <1>1, <1>6 DEF Place
  <2>2. ASSUME Agrees(work[w].pc, id)', Forward(id),
               \A S \in {AfterAnnounce, AfterStore} : work[w].pc \in S => work'[w].pc \in S
        PROVE  Moves(id)
    BY <1>1, <1>2, <1>4, <1>6, <2>2, OwnStep
  <2>3. UNCHANGED status => Forward(id)
    BY <1>1, RankType DEF Forward
  <2>4. CASE UNCHANGED redisVars
    <3>1. \/ work'[w].pc = work[w].pc
          \/ work[w].pc = "incr_verdict" /\ work'[w].pc = "incr_total"
          \/ work[w].pc = "log_trim" /\ work'[w].pc = "log_push"
      BY <1>1, <1>3, OneWorker DEF At
    <3>2. \A S \in {AfterAnnounce, AfterStore} : work[w].pc \in S => work'[w].pc \in S
      BY <3>1 DEF AfterAnnounce, AfterStore, WorkPC
    <3>3. Agrees(work[w].pc, id)'
      BY <1>2, <2>1, <2>4, <3>1 DEF Agrees, Fresh, AfterStore, redisVars
    <3>4. Forward(id)
      BY <2>3, <2>4 DEF redisVars
    <3> QED BY <2>2, <3>2, <3>3, <3>4
  <2>5. CASE At(w, "mark") /\ SetStatus(work[w].id, "processing") /\ UNCHANGED work
    <3>1. /\ status[id] \in {"none", "queued", "processing"}
          /\ status'[id] \in {status[id], "processing"} /\ work[w].pc = "mark"
      BY <1>1, <1>6, <2>1, <2>5 DEF At, SetStatus, redisVars, RedisTypeOK, Agrees
    <3>2. Forward(id)
      BY <3>1, Ranks DEF Forward
    <3> QED BY <1>2, <2>1, <2>2, <2>5, <3>1, <3>2 DEF Agrees
  <2>6. CASE At(w, "set_result") /\ SetResult(work[w].id, work[w].outcome) /\ UNCHANGED work
    <3>1. UNCHANGED status /\ work[w].pc = "set_result"
      BY <2>6 DEF At, SetResult, redisVars
    <3> QED BY <1>2, <2>1, <2>2, <2>3, <2>6, <3>1 DEF Agrees
  <2>7. CASE /\ At(w, "set_status") /\ SetStatus(work[w].id, work[w].outcome.status)
             /\ UNCHANGED work
    <3>1. /\ status'[id] \in {status[id], work[w].outcome.status} /\ work[w].pc = "set_status"
          /\ work[w].outcome.status \in Final
      BY <1>1, <1>6, <2>7
         DEF At, SetStatus, redisVars, RedisTypeOK, WorkersHaveJobs, Deciding, Decided
    <3>2. Forward(id)
      BY <1>1, <3>1, Ranks, RankType DEF Forward
    <3> QED BY <1>2, <2>1, <2>2, <2>7, <3>1, <3>2 DEF Agrees
  <2> QED BY <2>4, <2>5, <2>6, <2>7 DEF WorkerSendsAgain
<1> QED BY <1>5, <1>6

-----------------------------------------------------------------------------
(* The clock, and the steps of those who only read *)

LEMMA PushedBefore ==
  ASSUME [Next]_vars
  PROVE  \A id \in PushedOnce' : id \in PushedOnce /\ id \notin twice'
<1>1. ResendStep => twice \subseteq twice'
  BY DEF ResendStep, RequestSendsAgain, WorkerSendsAgain
<1>2. ~ResendStep => UNCHANGED twice
  BY DEF Next, ServiceStep, ServiceFrame, WorkerStep, WorkerFrame, EventStep, EventFrame,
     HandlersStep, HandlersFrame, Tick, vars, sentVars
<1> QED BY <1>1, <1>2 DEF PushedOnce

LEMMA NextPlace ==
  ASSUME Typed, PlaceInv, [Next]_vars, NEW id \in PushedOnce
  PROVE  Forward(id) /\ (id \notin twice' => Moves(id))
<1>1. RedisTypeOK /\ Place(id) /\ id \in Ids /\ OnceIn(queue, id) /\ now \in Nat
  BY OnceIds DEF Typed, TypeOK, PlaceInv, Place
<1>2. ASSUME UNCHANGED <<req, queue, work, results>>,
             status'[id] = status[id] \/ (now' > now /\ status'[id] = "none"),
             result'[id] = result[id] \/ result'[id] = NoReport
      PROVE  Moves(id)
  BY <1>1, <1>2, Elsewhere
<1>3. CASE Tick
  <2>1. UNCHANGED <<req, queue, work, results>> /\ now' > now
    BY <1>1, <1>3 DEF Tick, Expire, serviceVars, workerVars, bucketVars
  <2>2. /\ status'[id] = status[id] \/ status'[id] = "none"
        /\ result'[id] = result[id] \/ result'[id] = NoReport
    BY <1>1, <1>3 DEF Tick, Expire
  <2> QED BY <1>2, <2>1, <2>2 DEF Moves
<1>4. CASE EventStep
  <2>1. UNCHANGED redisVars
    BY <1>4 DEF EventStep, StreamNext, StreamStep, StreamOpen, StreamFirstResult,
       StreamSubscribe, StreamAgain, StreamSecondResult, StreamReceive, StreamTimeout, StreamGone,
       SubscriptionTakesEffect, SubscriptionBreaks
  <2> QED BY <1>2, <1>4, <2>1
          DEF EventStep, EventFrame, redisVars, bucketVars, serviceVars, workerVars, Moves
<1>5. CASE HandlersStep \/ UNCHANGED vars
  BY <1>2, <1>5 DEF HandlersStep, HandlersFrame, vars, redisVars, bucketVars, serviceVars,
     workerVars, Moves
<1>6. CASE ResendStep
  BY <1>6, RequestResendPlace, WorkerResendPlace DEF ResendStep, Moves
<1> QED BY <1>3, <1>4, <1>5, <1>6, ServicePlace, WorkerPlace DEF Next, Moves

LEMMA CheckIdsGet == Typed => \A id \in CheckIds : GetList(id) \subseteq Contents \cup {NoList}
BY IdsAssumption DEF Typed, TypeOK, BucketTypeOK, GetList

LEMMA NextApart ==
  ASSUME Typed, PlaceInv, [Next]_vars
  PROVE  Apart'
<1>1. /\ ServiceTypeOK /\ WorkerTypeOK /\ Apart
  BY DEF Typed, TypeOK, PlaceInv
<1>2. ASSUME NEW c \in Checks PROVE req'[c].id \notin Once
  <2>1. c \in Requests /\ c \notin SubmitIds /\ req[c].id \notin Once
    BY <1>1, IdsAssumption DEF Requests, Apart
  <2>2. CASE ServiceStep
    <3>1. ASSUME NEW x \in SubmitIds, SubmitValidate(x) \/ SubmitPutList(x)
          PROVE  req'[c] = req[c]
      <4>1. x \in Requests /\ x # c
        BY <2>1, SubmitsAreRequests
      <4>2. (\E new : req' = [req EXCEPT ![x] = new]) \/ (\E pc : GoTo(x, pc))
        BY <3>1 DEF SubmitValidate, SubmitPutList
      <4> QED BY <1>1, <2>1, <4>1, <4>2, OneRequest
    <3>2. ASSUME NEW d \in Checks, CheckValidate(d) PROVE req'[c].id \notin Once
      <4>1. PICK i \in CheckIds : \E new : req' = [req EXCEPT ![d] = new] /\ new.id = i
        <5>1. PICK i \in CheckIds, order \in Orders, content \in Contents \cup {NoList} :
                req' = [req EXCEPT ![d] =
                  [pc |-> IF content \in Parsable THEN "status" ELSE "rejected",
                   id |-> i, order |-> order, content |-> content]]
          BY <3>2, CheckIdsGet DEF CheckValidate
        <5> DEFINE new == [pc |-> IF content \in Parsable THEN "status" ELSE "rejected",
                           id |-> i, order |-> order, content |-> content]
        <5>2. req' = [req EXCEPT ![d] = new] /\ new.id = i
          BY <5>1
        <5> HIDE DEF new
        <5> QED BY <5>2
      <4>2. req'[c] = req[c] \/ req'[c].id = i
        BY <1>1, <2>1, <4>1 DEF ServiceTypeOK
      <4> QED BY <2>1, <4>2, OnceIds
    <3>3. ASSUME NEW r \in Requests, RequestSetStatus(r) \/ RequestPush(r) \/ RequestDies(r)
          PROVE  req'[c].id = req[c].id
      <4>1. \E pc : GoTo(r, pc)
        BY <3>3 DEF RequestSetStatus, RequestPush, RequestDies
      <4> QED BY <1>1, <2>1, <4>1, OneRequest
    <3>4. ASSUME NEW u \in UploadIds, UploadPresign(u) \/ ClientPut(u) PROVE UNCHANGED req
      BY <3>4 DEF UploadPresign, ClientPut, serviceVars
    <3>5. ASSUME NEW p \in Polls, PollStart(p) \/ PollResult(p) \/ PollStatus(p)
          PROVE  UNCHANGED req
      BY <3>5 DEF PollStart, PollResult, PollStatus
    <3> QED BY <2>1, <2>2, <3>1, <3>2, <3>3, <3>4, <3>5 DEF ServiceStep, ServiceNext
  <2>3. CASE WorkerStep \/ EventStep \/ HandlersStep \/ ResendStep \/ Tick \/ UNCHANGED vars
    BY <2>1, <2>3 DEF WorkerStep, WorkerFrame, WorkerOnly, EventStep, EventFrame, HandlersStep,
       HandlersFrame, ResendStep, RequestSendsAgain, Tick, vars, serviceVars
  <2> QED BY <2>2, <2>3 DEF Next
<1>3. ASSUME NEW w \in Workers, work'[w].pc = "pop" PROVE work'[w].id = NoId
  <2>1. work[w].pc = "pop" => work[w].id = NoId
    BY <1>1 DEF Apart
  <2>2. CASE WorkerStep
    <3>1. PICK v \in Workers :
            ProcessStep(v) \/ SweepStep(v) \/ SnapshotStep(v) \/ WorkerCrash(v)
      BY <2>2 DEF WorkerStep, WorkerNext
    <3>2. CASE SweepStep(v) \/ SnapshotStep(v)
      BY <1>3, <2>1, <3>2 DEF SweepStep, SweepStart, SweepList, SweepDelete, SnapshotStep
    <3>3. CASE WorkerPop(v)
      <4> DEFINE new == [Idle EXCEPT !.pc = "announce", !.id = Head(queue).id,
                                     !.order = Head(queue).order]
      <4>1. new.pc = "announce"
        BY DEF Idle
      <4>2. work' = [work EXCEPT ![v] = new] \/ UNCHANGED work
        BY <3>3 DEF WorkerPop
      <4> HIDE DEF new
      <4> QED BY <1>1, <1>3, <2>1, <4>1, <4>2, OneWorker
    <3>4. CASE Read(v)
      <4>1. work'[v].pc = "set_result"
        BY <1>1, <3>4 DEF Read, WorkerTypeOK, Work
      <4>2. w # v => work'[w] = work[w]
        BY <1>1, <3>4 DEF Read, WorkerTypeOK
      <4> QED BY <1>3, <2>1, <4>1, <4>2
    <3>5. CASE work' = [work EXCEPT ![v] = Idle] \/ \E pc : pc # "pop" /\ Proceed(v, pc)
      BY <1>1, <1>3, <2>1, <3>5, OneWorker DEF Idle
    <3>6. WorkerCrash(v) => work' = [work EXCEPT ![v] = Idle]
      BY DEF WorkerCrash
    <3> QED BY <3>1, <3>2, <3>3, <3>4, <3>5, <3>6
            DEF ProcessStep, Announce, Mark, WriteResult, WriteStatus, StoreResult,
                IncrementTotal, IncrementVerdict, LogPush, LogTrim, PublishOutcome
  <2>3. CASE ServiceStep \/ EventStep \/ HandlersStep \/ Tick \/ UNCHANGED vars
    BY <1>3, <2>1, <2>3 DEF ServiceStep, ServiceFrame, ServiceOnly, EventStep, EventFrame,
       HandlersStep, HandlersFrame, Tick, vars, workerVars
  <2>4. CASE ResendStep
    <3>1. UNCHANGED work \/ \E v \in Workers : \E pc : pc # "pop" /\ Proceed(v, pc)
      BY <2>4 DEF ResendStep, RequestSendsAgain, WorkerSendsAgain, ServiceOnly, workerVars
    <3> QED BY <1>1, <1>3, <2>1, <3>1, OneWorker
  <2> QED BY <2>2, <2>3, <2>4 DEF Next
<1> QED BY <1>2, <1>3 DEF Apart

LEMMA InitPlace == Init => PlaceInv
<1> SUFFICES ASSUME Init PROVE PlaceInv
  OBVIOUS
<1>1. Apart
  BY OnceIds DEF Init, ServiceInit, WorkerInit, Requests, Idle, Apart
<1>2. ASSUME NEW id \in PushedOnce PROVE Place(id)
  BY <1>2, OnceIds
     DEF Init, RedisInit, BucketInit, ServiceInit, WorkerInit, Idle, Place, In, OnceIn, Held,
         Fresh, Over
<1> QED BY <1>1, <1>2 DEF PlaceInv

LEMMA PlaceInvariant == Spec => []PlaceInv
<1>1. PlaceInv /\ Typed /\ [Next]_vars => PlaceInv'
  BY NextPlace, NextApart, PushedBefore DEF PlaceInv, Moves
<1> QED BY InitPlace, TypedInvariant, <1>1, PTL DEF Spec

-----------------------------------------------------------------------------
\* A submitted job waits once or is in the hands of one worker, and what is
\* finished never comes back, whatever fails, whoever dies and whatever else is
\* sent again, as long as the library has not pushed this job once more.
THEOREM JobsInOnePlace == Spec => []JobInOnePlace
<1>1. PlaceInv => JobInOnePlace
  <2> SUFFICES ASSUME PlaceInv, NEW id \in PushedOnce
               PROVE  /\ \A j, k \in 1..Len(queue) : queue[j].id = id /\ queue[k].id = id => j = k
                      /\ Cardinality(HeldBy(id)) <= 1
                      /\ Queued(id) => /\ HeldBy(id) = {} /\ result[id] = NoReport
                                       /\ results[id] = NoReport
    BY DEF JobInOnePlace
  <2>1. Place(id)
    BY DEF PlaceInv
  <2>2. Cardinality(HeldBy(id)) <= 1
    <3>1. CASE HeldBy(id) = {}
      BY <3>1, FS_EmptySet
    <3>2. CASE HeldBy(id) # {}
      <4>1. PICK w \in HeldBy(id) : HeldBy(id) = {w}
        BY <2>1, <3>2 DEF Place, HeldBy
      <4>2. Cardinality({w}) = 1
        BY FS_Singleton
      <4> QED BY <4>1, <4>2
    <3> QED BY <3>1, <3>2
  <2>3. Queued(id) => HeldBy(id) = {} /\ result[id] = NoReport /\ results[id] = NoReport
    BY <2>1 DEF Place, Queued, In, HeldBy, Held, Fresh
  <2> QED BY <2>1, <2>2, <2>3 DEF Place, OnceIn
<1> QED BY PlaceInvariant, <1>1, PTL

\* The status of a submitted job that is pushed once never goes back, until it
\* expires: neither the handler, nor a command that is sent again, nor a second
\* worker overwrites what a worker has written.
THEOREM StatusOnlyForward == Spec => StatusMovesForward
<1>1. Typed /\ PlaceInv /\ [Next]_vars =>
        [\A id \in PushedOnce : Rank(status'[id]) >= Rank(status[id])
                            \/ (now' > now /\ status'[id] = "none")]_vars
  BY NextPlace DEF Forward
<1> QED BY TypedInvariant, PlaceInvariant, <1>1, PTL DEF Spec, StatusMovesForward
-----------------------------------------------------------------------------
(***************************************************************************)
(* The clean-up.  What a sweep is about to delete was old enough when it   *)
(* was listed; it is still, since a job that has its list, or its result,  *)
(* is past the only step that writes it.                                   *)
(***************************************************************************)
Settled(prefix, id) ==
  IF prefix = "lists" THEN req[id].pc \in Past ELSE Beyond(id, AfterStore)

SweepsAreOld ==
  \A w \in Workers :
    /\ sweep[w].pc # "idle" => sweep[w].cutoff <= now - CleanAge
    /\ sweep[w].pc = "delete" =>
         \A id \in sweep[w].todo \cap PushedOnce :
           /\ modified[sweep[w].prefix][id] <= sweep[w].cutoff
           /\ Settled(sweep[w].prefix, id)

LEMMA StoredIsSettled ==
  ASSUME Typed, PlaceInv, VerdictInv, NEW id \in PushedOnce, NEW prefix \in Prefixes, id \in Stored(prefix)
  PROVE  Settled(prefix, id)
<1>1. CASE prefix = "lists"
  BY <1>1, OnceIds DEF Settled, Stored, VerdictInv, ListsAreSubmitted
<1>2. CASE prefix # "lists"
  <2>1. Place(id) /\ results[id] # NoReport
    BY <1>2 DEF Stored, PlaceInv
  <2>2. req[id].pc \in Over /\ ~In(queue, id)
    BY <2>1 DEF Place, Fresh
  <2>3. ASSUME NEW w \in Workers, work[w].id = id PROVE work[w].pc \in AfterStore
    <3>1. work[w].pc \in WorkPC /\ work[w].pc # "pop" /\ Agrees(work[w].pc, id)
      BY <2>1, <2>3, OnceIds DEF Typed, TypeOK, WorkerTypeOK, Work, PlaceInv, Apart, Place
    <3> QED BY <2>1, <3>1 DEF Agrees, Fresh, WorkPC, AfterStore
  <2> QED BY <1>2, <2>2, <2>3 DEF Settled, Beyond
<1> QED BY <1>1, <1>2

\* The objects of a submitted job are written by its request and by its worker.
LEMMA SettledStays ==
  ASSUME Typed, PlaceInv, VerdictInv, [Next]_vars, NEW id \in PushedOnce', NEW prefix \in Prefixes,
         Settled(prefix, id)
  PROVE  /\ Settled(prefix, id)'
         /\ modified'[prefix][id] = modified[prefix][id]
<1>1. /\ ServiceTypeOK /\ BucketTypeOK /\ WorkerTypeOK /\ RequestsHaveJobs
      /\ id \in SubmitIds /\ id \in Requests /\ id \in Ids /\ id \in Once
      /\ id \in PushedOnce /\ id \notin twice'
  BY OnceIds, PushedBefore DEF Typed, TypeOK
<1>2. req[id].pc \in Past => req'[id].pc \in Past
  <2>1. CASE ServiceStep
    <3>1. ASSUME NEW r \in Requests, \/ \E new : req' = [req EXCEPT ![r] = new] /\ req[r].pc = "idle"
                                     \/ \E pc \in Past : GoTo(r, pc)
          PROVE  req[id].pc \in Past => req'[id].pc \in Past
      BY <1>1, <3>1, OneRequest DEF Past
    <3>2. ASSUME NEW x \in SubmitIds, SubmitValidate(x) \/ SubmitPutList(x)
          PROVE  req[id].pc \in Past => req'[id].pc \in Past
      BY <3>1, <3>2, SubmitsAreRequests DEF SubmitValidate, SubmitPutList, Past
    <3>3. ASSUME NEW c \in Checks, CheckValidate(c)
          PROVE  req[id].pc \in Past => req'[id].pc \in Past
      BY <3>1, <3>3 DEF CheckValidate, Requests
    <3>4. ASSUME NEW r \in Requests, RequestSetStatus(r) \/ RequestPush(r) \/ RequestDies(r)
          PROVE  req[id].pc \in Past => req'[id].pc \in Past
      BY <3>1, <3>4 DEF RequestSetStatus, RequestPush, RequestDies, Past
    <3>5. ASSUME NEW u \in UploadIds, UploadPresign(u) \/ ClientPut(u) PROVE UNCHANGED req
      BY <3>5 DEF UploadPresign, ClientPut, serviceVars
    <3>6. ASSUME NEW p \in Polls, PollStart(p) \/ PollResult(p) \/ PollStatus(p)
          PROVE  UNCHANGED req
      BY <3>6 DEF PollStart, PollResult, PollStatus
    <3> QED BY <2>1, <3>2, <3>3, <3>4, <3>5, <3>6 DEF ServiceStep, ServiceNext
  <2>2. CASE WorkerStep \/ EventStep \/ HandlersStep \/ ResendStep \/ Tick \/ UNCHANGED vars
    BY <2>2 DEF WorkerStep, WorkerFrame, WorkerOnly, EventStep, EventFrame, HandlersStep,
       HandlersFrame, ResendStep, RequestSendsAgain, Tick, vars, serviceVars
  <2> QED BY <2>1, <2>2 DEF Next
<1>3. Settled(prefix, id)'
  BY <1>1, <1>2, NextPlace DEF Settled, Moves, Onward
<1>4. modified'[prefix][id] = modified[prefix][id]
  <2>1. CASE ServiceStep
    <3>1. ASSUME NEW x \in SubmitIds, SubmitPutList(x) PROVE modified'[prefix][id] = modified[prefix][id]
      <4>1. UNCHANGED modified \/ \E c : PutList(x, c)
        BY <3>1 DEF SubmitPutList, bucketVars
      <4>2. prefix = "lists" => x # id
        BY <3>1 DEF SubmitPutList, Settled, Past
      <4> QED BY <1>1, <4>1, <4>2 DEF PutList, BucketTypeOK, Prefixes
    <3>2. ASSUME NEW u \in UploadIds, ClientPut(u) PROVE modified'[prefix][id] = modified[prefix][id]
      <4>1. u # id /\ \E c : PutList(u, c)
        BY <1>1, <3>2, OnceIds DEF ClientPut
      <4> QED BY <1>1, <4>1 DEF PutList, BucketTypeOK, Prefixes
    <3>3. ASSUME UNCHANGED bucketVars PROVE modified'[prefix][id] = modified[prefix][id]
      BY <3>3 DEF bucketVars
    <3> QED BY <2>1, <3>1, <3>2, <3>3
            DEF ServiceStep, ServiceNext, SubmitValidate, UploadPresign, CheckValidate,
                RequestSetStatus, RequestPush, RequestDies, PollStart, PollResult, PollStatus
  <2>2. CASE WorkerStep
    <3>1. PICK w \in Workers :
            ProcessStep(w) \/ SweepStep(w) \/ SnapshotStep(w) \/ WorkerCrash(w)
      BY <2>2 DEF WorkerStep, WorkerNext
    <3>2. CASE StoreResult(w)
      <4>1. UNCHANGED modified \/ PutResult(work[w].id, work[w].outcome)
        BY <3>2 DEF StoreResult, bucketVars
      <4>2. prefix = "results" => work[w].id # id
        BY <3>2 DEF StoreResult, At, Settled, Beyond, AfterStore
      <4> QED BY <1>1, <4>1, <4>2 DEF PutResult, BucketTypeOK, Prefixes
    <3>3. UNCHANGED modified \/ StoreResult(w)
      BY <3>1
         DEF ProcessStep, WorkerPop, Announce, Mark, Read, WriteResult, WriteStatus,
             IncrementTotal, IncrementVerdict, LogPush, LogTrim, PublishOutcome, SweepStep,
             SweepStart, SweepList, SweepDelete, Delete, SnapshotStep, TakeSnapshot,
             SnapshotTotal, SnapshotSorted, SnapshotNotSorted, ReadCounter, SnapshotPutCounter,
             SnapshotRecent, SnapshotPutActivity, PutState, WorkerCrash, bucketVars
    <3> QED BY <3>2, <3>3
  <2>3. CASE EventStep \/ HandlersStep \/ ResendStep \/ Tick \/ UNCHANGED vars
    BY <2>3 DEF EventStep, EventFrame, HandlersStep, HandlersFrame, ResendStep,
       RequestSendsAgain, WorkerSendsAgain, Tick, vars, bucketVars
  <2> QED BY <2>1, <2>2, <2>3 DEF Next
<1> QED BY <1>3, <1>4

LEMMA NextSweeps ==
  ASSUME Typed, PlaceInv, VerdictInv, SweepsAreOld, [Next]_vars
  PROVE  SweepsAreOld'
<1>1. /\ now \in Nat /\ WorkerTypeOK /\ BucketTypeOK /\ CleanAge \in Nat
  BY TimesAssumption DEF Typed, TypeOK
<1>2. now' \in Nat /\ now' >= now
  BY <1>1 DEF Next, ServiceStep, ServiceFrame, ServiceOnly, WorkerStep, WorkerFrame, WorkerOnly,
     EventStep, EventFrame, HandlersStep, HandlersFrame, ResendStep, Tick, vars
<1> SUFFICES ASSUME NEW w \in Workers
             PROVE  /\ sweep'[w].pc # "idle" => sweep'[w].cutoff <= now' - CleanAge
                    /\ sweep'[w].pc = "delete" =>
                         \A id \in sweep'[w].todo \cap PushedOnce' :
                           /\ modified'[sweep'[w].prefix][id] <= sweep'[w].cutoff
                           /\ Settled(sweep[w].prefix, id)'
  BY DEF SweepsAreOld
<1>3. sweep[w] \in Sweep
  BY <1>1 DEF WorkerTypeOK
\* A sweep that is under way goes on with what it knows.
<1>4. ASSUME sweep'[w].pc = "delete" => sweep[w].pc = "delete" /\ sweep'[w].todo \subseteq sweep[w].todo,
             sweep'[w].pc # "idle" =>
               /\ sweep[w].pc # "idle" /\ sweep'[w].cutoff = sweep[w].cutoff
               /\ sweep'[w].pc = "delete" => sweep'[w].prefix = sweep[w].prefix
      PROVE  /\ sweep'[w].pc # "idle" => sweep'[w].cutoff <= now' - CleanAge
             /\ sweep'[w].pc = "delete" =>
                  \A id \in sweep'[w].todo \cap PushedOnce' :
                    /\ modified'[sweep'[w].prefix][id] <= sweep'[w].cutoff
                    /\ Settled(sweep[w].prefix, id)'
  <2>1. sweep'[w].pc # "idle" => sweep'[w].cutoff <= now' - CleanAge
    <3>1. sweep[w].cutoff \in Int /\ (sweep[w].pc # "idle" => sweep[w].cutoff <= now - CleanAge)
      BY <1>3 DEF SweepsAreOld, Sweep
    <3> QED BY <1>1, <1>2, <1>4, <3>1
  <2>2. ASSUME sweep'[w].pc = "delete", NEW id \in sweep'[w].todo \cap PushedOnce'
        PROVE  /\ modified'[sweep'[w].prefix][id] <= sweep'[w].cutoff
               /\ Settled(sweep[w].prefix, id)'
    <3>1. /\ sweep[w].prefix \in Prefixes /\ id \in PushedOnce' /\ id \in PushedOnce
          /\ modified[sweep[w].prefix][id] <= sweep[w].cutoff
          /\ Settled(sweep[w].prefix, id)
      BY <1>3, <1>4, <2>2, PushedBefore DEF SweepsAreOld, Sweep
    <3>2. \A p \in Prefixes : Settled(p, id) =>
            Settled(p, id)' /\ modified'[p][id] = modified[p][id]
      BY <3>1, SettledStays
    <3>3. Settled(sweep[w].prefix, id)'
      BY <1>4, <2>2, <3>1, <3>2 DEF Settled
    <3> QED BY <1>4, <2>2, <3>1, <3>2, <3>3
  <2> QED BY <2>1, <2>2
<1>5. CASE UNCHANGED sweep
  BY <1>4, <1>5
<1>6. CASE WorkerStep /\ ~UNCHANGED sweep
  <2>1. PICK v \in Workers : SweepStep(v) \/ WorkerCrash(v)
    BY <1>6 DEF WorkerStep, WorkerNext, ProcessStep, WorkerPop, Announce, Mark, Read, WriteResult,
       WriteStatus, StoreResult, IncrementTotal, IncrementVerdict, LogPush, LogTrim,
       PublishOutcome, SnapshotStep
  <2>2. v # w => sweep'[w] = sweep[w]
    BY <1>1, <2>1 DEF SweepStep, SweepStart, SweepList, SweepDelete, WorkerCrash, WorkerTypeOK
  <2>3. CASE v # w
    BY <1>4, <2>2, <2>3
  <2>4. CASE v = w /\ WorkerCrash(w)
    BY <1>1, <2>4 DEF WorkerCrash, WorkerTypeOK, Resting
  <2>5. UNCHANGED now
    BY <1>6 DEF WorkerStep, WorkerFrame, WorkerOnly
  <2>6. CASE v = w /\ SweepStart(w)
    <3>1. /\ sweep'[w].pc = "list" /\ sweep'[w].cutoff = now - CleanAge
      BY <1>1, <2>6 DEF SweepStart, WorkerTypeOK
    <3> QED BY <1>1, <2>5, <3>1
  <2>7. AfterPrefix(sweep[w]).pc # "delete"
        /\ (AfterPrefix(sweep[w]).pc # "idle" => AfterPrefix(sweep[w]).cutoff = sweep[w].cutoff)
    BY <1>3 DEF AfterPrefix, Resting, Sweep
  <2>8. CASE v = w /\ SweepList(w)
    <3> DEFINE old == {x \in Stored(sweep[w].prefix) :
                         modified[sweep[w].prefix][x] <= sweep[w].cutoff}
    <3>1. CASE sweep' = [sweep EXCEPT ![w] = AfterPrefix(sweep[w])]
      <4>1. sweep'[w] = AfterPrefix(sweep[w]) /\ sweep[w].pc = "list"
        BY <1>1, <2>8, <3>1 DEF WorkerTypeOK, SweepList
      <4> QED BY <1>4, <2>7, <4>1
    <3>2. CASE sweep' = [sweep EXCEPT ![w].pc = "delete", ![w].todo = old]
      <4>1. /\ sweep'[w].pc = "delete" /\ sweep'[w].todo = old
            /\ sweep'[w].prefix = sweep[w].prefix /\ sweep'[w].cutoff = sweep[w].cutoff
            /\ sweep[w].prefix \in Prefixes /\ sweep[w].cutoff \in Int
        BY <1>1, <1>3, <3>2 DEF WorkerTypeOK, Sweep
      <4>2. sweep'[w].cutoff <= now' - CleanAge
        BY <2>5, <2>8, <4>1 DEF SweepsAreOld, SweepList
      <4>3. ASSUME NEW id \in sweep'[w].todo \cap PushedOnce'
            PROVE  /\ modified'[sweep'[w].prefix][id] <= sweep'[w].cutoff
                   /\ Settled(sweep[w].prefix, id)'
        <5>1. /\ id \in PushedOnce' /\ id \in PushedOnce /\ id \in Stored(sweep[w].prefix)
              /\ modified[sweep[w].prefix][id] <= sweep[w].cutoff
          BY <4>1, <4>3, PushedBefore
        <5>2. \A p \in Prefixes : id \in Stored(p) =>
                Settled(p, id)' /\ modified'[p][id] = modified[p][id]
          BY <5>1, StoredIsSettled, SettledStays
        <5>3. Settled(sweep[w].prefix, id)'
          BY <4>1, <5>1, <5>2 DEF Settled
        <5> QED BY <4>1, <5>1, <5>2, <5>3
      <4> QED BY <4>2, <4>3
    <3> QED BY <2>8, <3>1, <3>2 DEF SweepList
  <2>9. CASE v = w /\ SweepDelete(w)
    <3>1. PICK x \in sweep[w].todo :
            LET rest == sweep[w].todo \ {x} IN
              sweep' = [sweep EXCEPT ![w] = IF rest = {} THEN AfterPrefix(sweep[w])
                                            ELSE [sweep[w] EXCEPT !.todo = rest]]
      BY <2>9 DEF SweepDelete
    <3>2. /\ sweep[w].pc = "delete"
          /\ \/ sweep'[w] = AfterPrefix(sweep[w])
             \/ sweep'[w] = [sweep[w] EXCEPT !.todo = sweep[w].todo \ {x}]
      BY <1>1, <2>9, <3>1 DEF SweepDelete, WorkerTypeOK
    <3>3. CASE sweep'[w] = AfterPrefix(sweep[w])
      BY <1>4, <2>7, <3>2, <3>3
    <3>4. CASE sweep'[w] = [sweep[w] EXCEPT !.todo = sweep[w].todo \ {x}]
      <4>1. /\ sweep'[w].pc = sweep[w].pc /\ sweep'[w].prefix = sweep[w].prefix
            /\ sweep'[w].cutoff = sweep[w].cutoff /\ sweep'[w].todo \subseteq sweep[w].todo
        BY <1>3, <3>4 DEF Sweep
      <4> QED BY <1>4, <3>2, <4>1
    <3> QED BY <3>2, <3>3, <3>4
  <2> QED BY <2>1, <2>3, <2>4, <2>6, <2>8, <2>9 DEF SweepStep
<1>7. WorkerStep \/ UNCHANGED sweep
  BY DEF Next, ServiceStep, ServiceFrame, ServiceOnly, EventStep, EventFrame, HandlersStep,
     HandlersFrame, ResendStep, WorkerSendsAgain, Tick, vars, workerVars
<1> QED BY <1>5, <1>6, <1>7
LEMMA SweepsInvariant == Spec => []SweepsAreOld
<1>1. Init => SweepsAreOld
  BY DEF Init, WorkerInit, Resting, SweepsAreOld
<1>2. SweepsAreOld /\ Typed /\ PlaceInv /\ VerdictInv /\ [Next]_vars => SweepsAreOld'
  BY NextSweeps
<1> QED BY <1>1, <1>2, TypedInvariant, PlaceInvariant, VerdictInvariant, PTL DEF Spec

\* Only a sweep takes an object of a submitted job away.
LEMMA OnlySweepsDelete ==
  ASSUME Typed, PlaceInv, VerdictInv, [Next]_vars, NEW id \in PushedOnce, NEW prefix \in Prefixes,
         id \in Stored(prefix), id \notin Stored(prefix)'
  PROVE  \E w \in Workers :
           sweep[w].pc = "delete" /\ sweep[w].prefix = prefix /\ id \in sweep[w].todo
<1>1. /\ BucketTypeOK /\ WorkerTypeOK /\ id \in SubmitIds /\ id \in Ids
      /\ Settled(prefix, id)
  BY OnceIds, StoredIsSettled DEF Typed, TypeOK
<1>2. ~UNCHANGED <<lists, results>>
  BY DEF Stored
<1>3. ASSUME NEW x \in SubmitIds, SubmitPutList(x) PROVE FALSE
  <2>1. prefix = "lists" => x # id
    BY <1>1, <1>3 DEF SubmitPutList, Settled, Past
  <2>2. UNCHANGED <<lists, results>> \/ \E c : PutList(x, c)
    BY <1>3 DEF SubmitPutList, bucketVars
  <2> QED BY <1>1, <2>1, <2>2 DEF PutList, BucketTypeOK, Stored, Prefixes
<1>4. ASSUME NEW u \in UploadIds, ClientPut(u) PROVE FALSE
  <2>1. u # id /\ \E c : PutList(u, c)
    BY <1>4, OnceIds DEF ClientPut
  <2> QED BY <1>1, <2>1 DEF PutList, BucketTypeOK, Stored, Prefixes
<1>5. ASSUME NEW w \in Workers, StoreResult(w) PROVE FALSE
  <2>1. prefix = "results" => work[w].id # id
    BY <1>1, <1>5 DEF StoreResult, At, Settled, Beyond, AfterStore
  <2>2. UNCHANGED <<lists, results>> \/ PutResult(work[w].id, work[w].outcome)
    BY <1>5 DEF StoreResult, bucketVars
  <2> QED BY <1>1, <2>1, <2>2 DEF PutResult, BucketTypeOK, Stored, Prefixes
<1>6. PICK w \in Workers : SweepDelete(w)
  <2>1. ServiceStep => UNCHANGED <<lists, results>>
    BY <1>3, <1>4
       DEF ServiceStep, ServiceNext, SubmitValidate, UploadPresign, CheckValidate,
           RequestSetStatus, RequestPush, RequestDies, PollStart, PollResult, PollStatus,
           bucketVars
  <2>2. EventStep \/ HandlersStep \/ ResendStep \/ Tick \/ UNCHANGED vars
          => UNCHANGED <<lists, results>>
    BY DEF EventStep, EventFrame, HandlersStep, HandlersFrame, ResendStep, RequestSendsAgain,
       WorkerSendsAgain, Tick, vars, bucketVars
  <2>3. WorkerStep
    BY <1>2, <2>1, <2>2 DEF Next
  <2>4. ASSUME NEW w \in Workers, ~SweepDelete(w),
               ProcessStep(w) \/ SweepStep(w) \/ SnapshotStep(w) \/ WorkerCrash(w)
        PROVE  UNCHANGED <<lists, results>>
    BY <1>5, <2>4
       DEF ProcessStep, WorkerPop, Announce, Mark, Read, WriteResult, WriteStatus,
           IncrementTotal, IncrementVerdict, LogPush, LogTrim, PublishOutcome, SweepStep,
           SweepStart, SweepList, SnapshotStep, TakeSnapshot, SnapshotTotal, SnapshotSorted,
           SnapshotNotSorted, ReadCounter, SnapshotPutCounter, SnapshotRecent,
           SnapshotPutActivity, PutState, WorkerCrash, bucketVars
  <2> QED BY <1>2, <2>3, <2>4 DEF WorkerStep, WorkerNext
<1>7. PICK x \in sweep[w].todo : Delete(sweep[w].prefix, x)
  BY <1>2, <1>6 DEF SweepDelete, bucketVars
<1>8. sweep[w].pc = "delete" /\ sweep[w].prefix \in Prefixes
  BY <1>1, <1>6 DEF SweepDelete, WorkerTypeOK, Sweep
<1>9. sweep[w].prefix = prefix /\ x = id
  BY <1>1, <1>7, <1>8 DEF Delete, BucketTypeOK, Stored, Prefixes
<1> QED BY <1>7, <1>8, <1>9

\* The clean-up deletes no list and no result of a job that is pushed once before
\* its age, however long it takes from the cutoff to the listing and to the deletion, and
\* although it never looks at an object again.
THEOREM FreshIsSpared == Spec => CleanupSparesFresh
<1> DEFINE Spared ==
      \A id \in PushedOnce :
        /\ lists[id] # NoList /\ lists'[id] = NoList
             => now - modified["lists"][id] >= CleanAge
        /\ results[id] # NoReport /\ results'[id] = NoReport
             => now - modified["results"][id] >= CleanAge
<1>1. ASSUME Typed, PlaceInv, VerdictInv, SweepsAreOld, [Next]_vars, NEW id \in PushedOnce,
             NEW prefix \in Prefixes, id \in Stored(prefix), id \notin Stored(prefix)'
      PROVE  now - modified[prefix][id] >= CleanAge
  <2>1. PICK w \in Workers :
          sweep[w].pc = "delete" /\ sweep[w].prefix = prefix /\ id \in sweep[w].todo
    BY <1>1, OnlySweepsDelete
  <2>2. sweep[w].cutoff <= now - CleanAge /\ modified[prefix][id] <= sweep[w].cutoff
    BY <1>1, <2>1 DEF SweepsAreOld
  <2>3. now \in Nat /\ modified[prefix][id] \in Nat /\ sweep[w].cutoff \in Int
    BY <1>1, OnceIds DEF Typed, TypeOK, BucketTypeOK, WorkerTypeOK, Sweep
  <2> QED BY <2>2, <2>3, TimesAssumption
<1>2. Typed /\ PlaceInv /\ VerdictInv /\ SweepsAreOld /\ [Next]_vars => [Spared]_vars
  <2> SUFFICES ASSUME Typed, PlaceInv, VerdictInv, SweepsAreOld, [Next]_vars, NEW id \in PushedOnce
               PROVE  /\ lists[id] # NoList /\ lists'[id] = NoList
                           => now - modified["lists"][id] >= CleanAge
                      /\ results[id] # NoReport /\ results'[id] = NoReport
                           => now - modified["results"][id] >= CleanAge
    OBVIOUS
  <2>1. "lists" \in Prefixes /\ "results" \in Prefixes /\ id \in Ids
    BY OnceIds DEF Prefixes
  <2>2. /\ id \in Stored("lists") <=> lists[id] # NoList
        /\ id \in Stored("results") <=> results[id] # NoReport
        /\ id \in Stored("lists")' <=> lists'[id] # NoList
        /\ id \in Stored("results")' <=> results'[id] # NoReport
    BY <2>1 DEF Stored
  <2> QED BY <1>1, <2>1, <2>2
<1> QED BY TypedInvariant, PlaceInvariant, VerdictInvariant, SweepsInvariant, <1>2, PTL
        DEF Spec, CleanupSparesFresh
-----------------------------------------------------------------------------
(***************************************************************************)
(* What keeps the counters apart from the verdicts, and the feed from its  *)
(* length, is the workers between two commands of a pipeline.  A finite    *)
(* number of them is, since one at a time gets there.                      *)
(***************************************************************************)
Those(pc) == {w \in Workers : At(w, pc)}
Counting == {"incr_verdict", "log_push", "log_trim"}

Pipelined(w) == IncrementTotal(w) \/ IncrementVerdict(w) \/ LogPush(w) \/ LogTrim(w)

\* A pipeline that is sent again.
Rewinds(w) ==
  /\ RedisMayFail
  /\ \/ /\ At(w, "incr_verdict") /\ Proceed(w, "incr_total")
        /\ Incr(VerdictCounter(w)) \/ UNCHANGED statsVars
     \/ /\ At(w, "log_trim") /\ Proceed(w, "log_push")
        /\ LTrim \/ UNCHANGED statsVars

LEMMA Moved ==
  ASSUME NEW w \in Workers, NEW q, \A v \in Workers : v # w => work'[v] = work[v]
  PROVE  Those(q)' = IF work'[w].pc = q THEN Those(q) \cup {w} ELSE Those(q) \ {w}
BY DEF Those, At

LEMMA SmallerSet ==
  ASSUME NEW S, NEW T, IsFiniteSet(S), T \subseteq S
  PROVE  IsFiniteSet(T) /\ Cardinality(T) <= Cardinality(S)
         /\ Cardinality(T) \in Nat /\ Cardinality(S) \in Nat
BY FS_Subset, FS_CardinalityType

LEMMA OneMore ==
  ASSUME NEW S, NEW x, IsFiniteSet(S)
  PROVE  /\ IsFiniteSet(S \cup {x}) /\ Cardinality(S \cup {x}) \in Nat /\ Cardinality(S) \in Nat
         /\ Cardinality(S \cup {x}) <= Cardinality(S) + 1
         /\ x \notin S => Cardinality(S \cup {x}) = Cardinality(S) + 1
<1>1. IsFiniteSet(S \cup {x})
      /\ Cardinality(S \cup {x}) = IF x \in S THEN Cardinality(S) ELSE Cardinality(S) + 1
  BY FS_AddElement
<1> QED BY <1>1, FS_CardinalityType

LEMMA OneLess ==
  ASSUME NEW S, NEW x \in S, IsFiniteSet(S)
  PROVE  /\ IsFiniteSet(S \ {x}) /\ Cardinality(S \ {x}) \in Nat /\ Cardinality(S) \in Nat
         /\ Cardinality(S \ {x}) = Cardinality(S) - 1
<1>1. IsFiniteSet(S \ {x})
      /\ Cardinality(S \ {x}) = IF x \in S THEN Cardinality(S) - 1 ELSE Cardinality(S)
  BY FS_RemoveElement
<1> QED BY <1>1, FS_CardinalityType

\* Only the two pipelines of a worker write the counters and the feed.
LEMMA OnlyPipelinesWrite ==
  ASSUME Typed, [Next]_vars
  PROVE  \/ \E w \in Workers : Pipelined(w) \/ Rewinds(w)
         \/ /\ UNCHANGED statsVars
            /\ \A q \in Counting : Those(q)' \subseteq Those(q)
            /\ "crash" \notin Env => \A q \in Counting : Those(q)' = Those(q)
<1> SUFFICES ASSUME \A w \in Workers : ~Pipelined(w) /\ ~Rewinds(w)
             PROVE  /\ UNCHANGED statsVars
                    /\ \A v \in Workers :
                         /\ work'[v].pc \in Counting => work'[v].pc = work[v].pc
                         /\ work[v].pc \in Counting /\ "crash" \notin Env
                              => work'[v].pc = work[v].pc
  BY DEF Those, At
<1>1. CASE ServiceStep \/ EventStep \/ HandlersStep \/ Tick \/ UNCHANGED vars
  BY <1>1 DEF ServiceStep, ServiceFrame, ServiceOnly, EventStep, EventFrame, HandlersStep,
     HandlersFrame, Tick, vars, workerVars
<1>2. CASE WorkerStep
  <2>1. WorkerTypeOK
    BY DEF Typed, TypeOK
  <2>2. PICK w \in Workers : ProcessStep(w) \/ SweepStep(w) \/ SnapshotStep(w) \/ WorkerCrash(w)
    BY <1>2 DEF WorkerStep, WorkerNext
  <2>3. UNCHANGED statsVars
    BY <2>2 DEF Pipelined, ProcessStep, WorkerPop, Announce, Mark, Read, WriteResult, WriteStatus,
       StoreResult, PublishOutcome, SweepStep, SweepStart, SweepList, SweepDelete, SnapshotStep,
       TakeSnapshot, SnapshotTotal, SnapshotSorted, SnapshotNotSorted, ReadCounter,
       SnapshotPutCounter, SnapshotRecent, SnapshotPutActivity, WorkerCrash
  <2>4. /\ \A v \in Workers : v # w => work'[v] = work[v]
        /\ work'[w].pc \in Counting => work'[w].pc = work[w].pc
        /\ work[w].pc \in Counting /\ "crash" \notin Env => work'[w].pc = work[w].pc
    <3> USE DEF At
    <3>1. CASE Announce(w) \/ Mark(w) \/ WriteResult(w) \/ WriteStatus(w) \/ StoreResult(w)
      <4>1. \E pc \in WorkPC \ Counting : Proceed(w, pc)
        BY <3>1 DEF Announce, Mark, WriteResult, WriteStatus, StoreResult, WorkPC, Counting
      <4>2. work[w].pc \notin Counting
        BY <3>1 DEF Announce, Mark, WriteResult, WriteStatus, StoreResult, Counting
      <4> QED BY <2>1, <4>1, <4>2, OneWorker
    <3>2. CASE WorkerPop(w)
      <4> DEFINE new == [Idle EXCEPT !.pc = "announce", !.id = Head(queue).id,
                                     !.order = Head(queue).order]
      <4>1. new.pc = "announce"
        BY DEF Idle
      <4>2. work' = [work EXCEPT ![w] = new] \/ UNCHANGED work
        BY <3>2 DEF WorkerPop
      <4> HIDE DEF new
      <4> QED BY <2>1, <3>2, <4>1, <4>2, OneWorker DEF Counting, WorkerPop
    <3>3. CASE Read(w)
      <4>1. PICK content \in GetList(work[w].id) :
              work' = [work EXCEPT ![w].pc = "set_result", ![w].content = content,
                         ![w].outcome = Outcome(content, work[w].order)]
        BY <3>3 DEF Read
      <4>2. work'[w].pc = "set_result" /\ \A v \in Workers : v # w => work'[v] = work[v]
        BY <2>1, <4>1 DEF WorkerTypeOK, Work
      <4> QED BY <3>3, <4>2 DEF Counting, Read
    <3>4. CASE PublishOutcome(w) \/ WorkerCrash(w)
      <4>1. Idle.pc = "pop" /\ work' = [work EXCEPT ![w] = Idle]
        BY <3>4 DEF PublishOutcome, WorkerCrash, Idle
      <4>2. work[w].pc \notin Counting \/ "crash" \in Env
        BY <3>4 DEF PublishOutcome, WorkerCrash, Counting
      <4> QED BY <2>1, <4>1, <4>2, OneWorker DEF Counting
    <3>5. CASE SweepStep(w) \/ SnapshotStep(w)
      BY <3>5 DEF SweepStep, SweepStart, SweepList, SweepDelete, SnapshotStep
    <3> QED BY <2>2, <3>1, <3>2, <3>3, <3>4, <3>5 DEF ProcessStep, Pipelined
  <2> QED BY <2>3, <2>4
<1>3. CASE ResendStep
  <2>1. UNCHANGED <<statsVars, work>>
    BY <1>3 DEF ResendStep, RequestSendsAgain, WorkerSendsAgain, LosesReply, Rewinds, ServiceOnly,
         workerVars
  <2> QED BY <2>1
<1> QED BY <1>1, <1>2, <1>3 DEF Next

\* Where a command of a pipeline leaves its worker.
LEMMA PipelineMoves ==
  ASSUME Typed, NEW w \in Workers, NEW pc, Proceed(w, pc)
  PROVE  \A q : Those(q)' = IF q = pc THEN Those(q) \cup {w} ELSE Those(q) \ {w}
<1>1. work'[w].pc = pc /\ \A v \in Workers : v # w => work'[v] = work[v]
  BY OneWorker DEF Typed, TypeOK
<1> QED BY <1>1, Moved

LEMMA Increments ==
  ASSUME Typed, NEW name \in CounterNames, Incr(name)
  PROVE  \A n \in CounterNames :
           counters'[n] = IF n = name THEN counters[n] + 1 ELSE counters[n]
BY DEF Typed, TypeOK, StatsTypeOK, Reading, Incr

LEMMA CounterTypes ==
  ASSUME Typed
  PROVE  /\ counters["total"] \in Nat /\ counters["sorted"] \in Nat
         /\ counters["not_sorted"] \in Nat
         /\ \A w \in Workers : VerdictCounter(w) \in {"sorted", "not_sorted"}
BY DEF Typed, TypeOK, StatsTypeOK, Reading, CounterNames, VerdictCounter
-----------------------------------------------------------------------------
(* The total *)

TotalInv ==
  LET counting == Those("incr_verdict") IN
    /\ IsFiniteSet(counting)
    /\ counters["total"] >= counters["sorted"] + counters["not_sorted"] + Cardinality(counting)

LEMMA NextTotal ==
  ASSUME Typed, TotalInv, [Next]_vars
  PROVE  TotalInv'
<1> DEFINE S == Those("incr_verdict")
<1>1. /\ IsFiniteSet(S) /\ Cardinality(S) \in Nat
      /\ counters["total"] >= counters["sorted"] + counters["not_sorted"] + Cardinality(S)
  BY FS_CardinalityType DEF TotalInv
<1>2. ASSUME S' \subseteq S, UNCHANGED counters PROVE TotalInv'
  <2>1. IsFiniteSet(S') /\ Cardinality(S') <= Cardinality(S) /\ Cardinality(S') \in Nat
    BY <1>1, <1>2, SmallerSet
  <2> HIDE DEF S
  <2>2. IsFiniteSet(S')
        /\ counters'["total"] >= counters'["sorted"] + counters'["not_sorted"] + Cardinality(S')
    BY <1>1, <1>2, <2>1, CounterTypes
  <2> QED BY <2>2 DEF TotalInv, S
<1>3. ASSUME NEW w \in Workers, IncrementTotal(w) PROVE TotalInv'
  <2>1. CASE UNCHANGED statsVars /\ Proceed(w, "log_push")
    <3>1. S' \subseteq S
      BY <2>1, PipelineMoves
    <3> QED BY <1>2, <2>1, <3>1 DEF statsVars
  <2>2. CASE Incr("total") /\ Proceed(w, "incr_verdict")
    <3>1. S' = S \cup {w}
      BY <2>2, PipelineMoves
    <3>2. /\ counters'["total"] = counters["total"] + 1
          /\ counters'["sorted"] = counters["sorted"]
          /\ counters'["not_sorted"] = counters["not_sorted"]
      BY <2>2, Increments DEF CounterNames
    <3> HIDE DEF S
    <3>3. IsFiniteSet(S') /\ Cardinality(S') <= Cardinality(S) + 1 /\ Cardinality(S') \in Nat
      BY <1>1, <3>1, OneMore
    <3>4. IsFiniteSet(S')
          /\ counters'["total"] >= counters'["sorted"] + counters'["not_sorted"] + Cardinality(S')
      BY <1>1, <3>2, <3>3, CounterTypes
    <3> QED BY <3>4 DEF TotalInv, S
  <2> QED BY <1>3, <2>1, <2>2 DEF IncrementTotal
\* The worker goes on to the feed, or back to the total.
<1>4. ASSUME NEW w \in Workers, At(w, "incr_verdict"),
             \E pc \in {"log_push", "incr_total"} : Proceed(w, pc),
             Incr(VerdictCounter(w)) \/ UNCHANGED statsVars
      PROVE  TotalInv'
  <2>1. S' = S \ {w} /\ w \in S
    BY <1>4, PipelineMoves DEF Those
  <2>2. IsFiniteSet(S') /\ Cardinality(S') = Cardinality(S) - 1 /\ Cardinality(S') \in Nat
    <3> HIDE DEF S
    <3> QED BY <1>1, <2>1, OneLess
  <2>3. CASE UNCHANGED statsVars
    BY <1>2, <2>1, <2>3 DEF statsVars
  <2>4. CASE Incr(VerdictCounter(w))
    <3>1. /\ counters'["total"] = counters["total"]
          /\ counters'["sorted"] + counters'["not_sorted"]
               = counters["sorted"] + counters["not_sorted"] + 1
      BY <2>4, Increments, CounterTypes DEF CounterNames
    <3> HIDE DEF S
    <3>2. IsFiniteSet(S')
          /\ counters'["total"] >= counters'["sorted"] + counters'["not_sorted"] + Cardinality(S')
      BY <1>1, <2>2, <3>1, CounterTypes
    <3> QED BY <3>2 DEF TotalInv, S
  <2> QED BY <1>4, <2>3, <2>4
<1>5. ASSUME NEW w \in Workers,
             \/ LogPush(w) \/ LogTrim(w)
             \/ Proceed(w, "log_push") /\ (LTrim \/ UNCHANGED statsVars)
      PROVE  TotalInv'
  <2>1. UNCHANGED counters /\ \E pc \in {"log_push", "log_trim", "publish"} : Proceed(w, pc)
    BY <1>5 DEF LogPush, LogTrim, LPush, LTrim, statsVars
  <2>2. S' \subseteq S
    BY <2>1, PipelineMoves
  <2> QED BY <1>2, <2>1, <2>2
<1>6. ASSUME NEW w \in Workers, IncrementVerdict(w) \/ Rewinds(w) PROVE TotalInv'
  BY <1>4, <1>5, <1>6 DEF IncrementVerdict, Rewinds
<1> QED BY <1>2, <1>3, <1>5, <1>6, OnlyPipelinesWrite DEF Pipelined, Counting, statsVars

\* Whatever fails, whoever dies between the commands of a pipeline and whichever
\* pipeline is sent again, no verdict is counted that the total has not counted
\* before.
THEOREM TotalCovers == Spec => []TotalCoversVerdicts
<1>1. Init => TotalInv
  <2> SUFFICES ASSUME Init PROVE TotalInv
    OBVIOUS
  <2>1. Those("incr_verdict") = {}
    BY DEF Init, WorkerInit, Idle, Those, At
  <2>2. counters["total"] = 0 /\ counters["sorted"] = 0 /\ counters["not_sorted"] = 0
    BY DEF Init, StatsInit, Zeros, CounterNames
  <2> QED BY <2>1, <2>2, FS_EmptySet DEF TotalInv
<1>2. TotalInv /\ Typed /\ [Next]_vars => TotalInv'
  BY NextTotal
<1>3. TotalInv => TotalCoversVerdicts
  BY DEF TotalInv, TotalCoversVerdicts, Those
<1> QED BY <1>1, <1>2, <1>3, TypedInvariant, PTL DEF Spec

-----------------------------------------------------------------------------
(* The feed *)

FeedInv ==
  LET trimming == Those("log_trim") IN
    /\ IsFiniteSet(trimming)
    /\ Len(activity) <= ActivityMax + Cardinality(trimming)

LEMMA FeedTypes ==
  ASSUME Typed
  PROVE  activity \in Seq(Entry) /\ Len(activity) \in Nat /\ ActivityMax \in Nat \ {0}
BY TimesAssumption DEF Typed, TypeOK, StatsTypeOK

LEMMA FeedSteps ==
  ASSUME Typed
  PROVE  /\ \A e \in Entry : LPush(e) => Len(activity') = Len(activity) + 1
         /\ LTrim => Len(activity') <= ActivityMax /\ Len(activity') \in Nat
<1>1. \A e \in Entry : LPush(e) => Len(activity') = Len(activity) + 1
  <2> SUFFICES ASSUME NEW e \in Entry, LPush(e) PROVE Len(activity') = Len(activity) + 1
    OBVIOUS
  <2>1. activity' = <<e>> \o activity /\ <<e>> \in Seq(Entry) /\ Len(<<e>>) = 1
    BY DEF LPush
  <2> QED BY <2>1, FeedTypes
<1>2. LTrim => Len(activity') <= ActivityMax /\ Len(activity') \in Nat
  BY FeedTypes DEF LTrim
<1> QED BY <1>1, <1>2

LEMMA NextFeed ==
  ASSUME "redis" \notin Env, "crash" \notin Env, Typed, FeedInv, [Next]_vars
  PROVE  FeedInv'
<1> DEFINE S == Those("log_trim")
<1>1. /\ IsFiniteSet(S) /\ Cardinality(S) \in Nat
      /\ Len(activity) <= ActivityMax + Cardinality(S)
  BY FS_CardinalityType DEF FeedInv
<1>2. ASSUME S' = S, UNCHANGED activity PROVE FeedInv'
  BY <1>1, <1>2 DEF FeedInv
<1>3. ASSUME NEW w \in Workers, LogPush(w) PROVE FeedInv'
  <2>1. S' = S \cup {w} /\ w \notin S
    BY <1>3, PipelineMoves DEF LogPush, Those, At, RedisMayFail
  <2>2. IsFiniteSet(S') /\ Cardinality(S') = Cardinality(S) + 1
    <3> HIDE DEF S
    <3> QED BY <1>1, <2>1, OneMore
  <2>3. [sorted |-> work[w].outcome.sorted, order |-> work[w].order,
         list |-> work[w].content] \in Entry
    BY <1>3 DEF LogPush, At, Typed, TypeOK, WorkerTypeOK, Work, WorkersHaveJobs, Recording,
       Report, Entry
  <2>4. Len(activity') = Len(activity) + 1
    BY <1>3, <2>3, FeedSteps DEF LogPush, RedisMayFail
  <2>5. Len(activity') <= ActivityMax + Cardinality(S')
    <3> HIDE DEF S
    <3> QED BY <1>1, <2>2, <2>4, FeedTypes
  <2> QED BY <2>2, <2>5 DEF FeedInv
<1>4. ASSUME NEW w \in Workers, LogTrim(w) PROVE FeedInv'
  <2>1. S' = S \ {w}
    BY <1>4, PipelineMoves DEF LogTrim
  <2>2. IsFiniteSet(S') /\ Cardinality(S') \in Nat
    <3> HIDE DEF S
    <3> QED BY <1>1, <2>1, SmallerSet
  <2>3. Len(activity') <= ActivityMax /\ Len(activity') \in Nat
    BY <1>4, FeedSteps DEF LogTrim, RedisMayFail
  <2>4. Len(activity') <= ActivityMax + Cardinality(S')
    <3> HIDE DEF S
    <3> QED BY <2>2, <2>3, FeedTypes
  <2> QED BY <2>2, <2>4 DEF FeedInv
<1>5. ASSUME NEW w \in Workers, IncrementTotal(w) \/ IncrementVerdict(w) PROVE FeedInv'
  <2>1. UNCHANGED activity
    BY <1>5 DEF IncrementTotal, IncrementVerdict, Incr, statsVars
  <2>2. \E pc \in {"incr_verdict", "log_push"} : Proceed(w, pc)
    BY <1>5 DEF IncrementTotal, IncrementVerdict
  <2>3. w \notin S
    BY <1>5 DEF IncrementTotal, IncrementVerdict, Those, At
  <2> QED BY <1>2, <2>1, <2>2, <2>3, PipelineMoves
<1> QED BY <1>2, <1>3, <1>4, <1>5, OnlyPipelinesWrite
        DEF Pipelined, Rewinds, RedisMayFail, Counting, statsVars

\* While Redis answers and no worker dies, the feed is longer than its bound only
\* by the entries that are about to be trimmed, however many workers push at once.
THEOREM FeedTrimmed ==
  ASSUME "redis" \notin Env, "crash" \notin Env
  PROVE  Spec => []FeedIsTrimmed
<1>1. Init => FeedInv
  <2> SUFFICES ASSUME Init PROVE FeedInv
    OBVIOUS
  <2>1. Those("log_trim") = {}
    BY DEF Init, WorkerInit, Idle, Those, At
  <2>2. Len(activity) = 0
    BY DEF Init, StatsInit
  <2> QED BY <2>1, <2>2, FS_EmptySet, TimesAssumption DEF FeedInv
<1>2. FeedInv /\ Typed /\ [Next]_vars => FeedInv'
  BY NextFeed
<1>3. FeedInv => FeedIsTrimmed
  BY DEF FeedInv, FeedIsTrimmed, Those
<1> QED BY <1>1, <1>2, <1>3, TypedInvariant, PTL DEF Spec
-----------------------------------------------------------------------------
(***************************************************************************)
(* The page.  Each counter in an answer, and each that has been read for   *)
(* the next one, is at most what the counter is now; and what has been     *)
(* read is at least what the last answer said, since counters only grow.   *)
(***************************************************************************)
ReadBefore(k) == {ReadOrder[j] : j \in 1..k}

CountsInv ==
  \A c \in Counts, n \in CounterNames :
    /\ count[c].answer[n] <= counters[n]
    /\ n \in ReadBefore(count[c].reads) =>
         count[c].answer[n] <= count[c].counts[n] /\ count[c].counts[n] <= counters[n]

LEMMA ReadOrders ==
  /\ ReadOrder[1] = "total" /\ ReadOrder[2] = "sorted" /\ ReadOrder[3] = "not_sorted"
  /\ ReadBefore(0) = {} /\ ReadBefore(1) = {"total"} /\ ReadBefore(2) = {"total", "sorted"}
<1>1. ReadOrder[1] = "total" /\ ReadOrder[2] = "sorted" /\ ReadOrder[3] = "not_sorted"
  BY DEF ReadOrder
<1>2. 1..0 = {} /\ 1..1 = {1} /\ 1..2 = {1, 2}
  OBVIOUS
<1>3. ReadBefore(0) = {} /\ ReadBefore(1) = {"total"} /\ ReadBefore(2) = {"total", "sorted"}
  BY <1>1, <1>2 DEF ReadBefore
<1> QED BY <1>1, <1>3

LEMMA CountersGrow ==
  ASSUME Typed, [Next]_vars
  PROVE  \A n \in CounterNames :
           counters[n] \in Nat /\ counters'[n] \in Nat /\ counters'[n] >= counters[n]
<1>1. \A n \in CounterNames : counters[n] \in Nat
  BY DEF Typed, TypeOK, StatsTypeOK, Reading
<1>2. CASE UNCHANGED counters
  BY <1>1, <1>2
<1>3. ASSUME NEW w \in Workers, Pipelined(w) \/ Rewinds(w), ~UNCHANGED counters
      PROVE  \E name \in CounterNames : Incr(name)
  BY <1>3, CounterTypes
     DEF Pipelined, Rewinds, IncrementTotal, IncrementVerdict, LogPush, LogTrim, LPush, LTrim,
         statsVars, CounterNames
<1>4. UNCHANGED counters \/ \E name \in CounterNames : Incr(name)
  BY <1>3, OnlyPipelinesWrite DEF statsVars
<1> QED BY <1>1, <1>2, <1>4, Increments

\* What one read of a client does to what it knows.
LEMMA ReadKeeps ==
  ASSUME Typed, CountsInv, NEW c \in Counts, CountRead(c), UNCHANGED counters
  PROVE  /\ \A d \in Counts : d # c => count'[d] = count[d]
         /\ \A n \in CounterNames :
              /\ count'[c].answer[n] <= counters[n]
              /\ n \in ReadBefore(count'[c].reads) =>
                   /\ count'[c].answer[n] <= count'[c].counts[n]
                   /\ count'[c].counts[n] <= counters[n]
         /\ \/ \A n \in CounterNames : count'[c].answer[n] >= count[c].answer[n]
            \/ RedisMayFail /\ count'[c].answer = Zeros
<1> DEFINE k == count[c].reads
           name == ReadOrder[k + 1]
           counts == [count[c].counts EXCEPT ![name] = counters[name]]
<1>1. /\ count \in [Counts -> Count] /\ count[c].reads \in 0..2
      /\ count[c].counts \in Reading /\ count[c].answer \in Reading /\ counters \in Reading
  BY DEF Typed, TypeOK, HandlersTypeOK, Count, StatsTypeOK
<1>2. \A n \in CounterNames :
        counters[n] \in Nat /\ count[c].answer[n] \in Nat /\ count[c].answer[n] <= counters[n]
  BY <1>1 DEF CountsInv, Reading
<1>3. name \in CounterNames /\ counts \in Reading
  BY <1>1, <1>2, ReadOrders DEF CounterNames, Reading
<1>4. \A n \in CounterNames : counts[n] = IF n = name THEN counters[n] ELSE count[c].counts[n]
  BY <1>1, <1>3 DEF Reading
\* Once all that is before k, and name, have been read.
<1>5. \A n \in ReadBefore(k) \cup {name} :
        /\ n \in CounterNames /\ count[c].answer[n] <= counts[n] /\ counts[n] <= counters[n]
  <2>1. \A n \in ReadBefore(k) : n \in CounterNames
    BY <1>1, ReadOrders DEF CounterNames
  <2> HIDE DEF counts, name
  <2> QED BY <1>2, <1>3, <1>4, <2>1 DEF CountsInv
<1>6. CASE k < 2 /\ count' = [count EXCEPT ![c].reads = k + 1, ![c].counts = counts]
  <2>1. /\ \A d \in Counts : d # c => count'[d] = count[d]
        /\ count'[c].reads = k + 1 /\ count'[c].counts = counts
        /\ count'[c].answer = count[c].answer
    BY <1>1, <1>6 DEF Count
  <2>2. ReadBefore(k + 1) = ReadBefore(k) \cup {name}
    BY <1>1, <1>6, ReadOrders
  <2> HIDE DEF counts, name, k
  <2> QED BY <1>2, <1>5, <2>1, <2>2
<1>7. CASE k = 2 /\ count' = [count EXCEPT ![c] = Answered(counts)]
  <2>1. /\ \A d \in Counts : d # c => count'[d] = count[d]
        /\ count'[c].reads = 0 /\ count'[c].answer = counts
    BY <1>1, <1>7 DEF Answered
  <2>2. ReadBefore(k) \cup {name} = CounterNames
    BY <1>7, ReadOrders DEF CounterNames
  <2> HIDE DEF counts, name, k
  <2> QED BY <1>2, <1>5, <2>1, <2>2, ReadOrders
<1>8. CASE RedisMayFail /\ count' = [count EXCEPT ![c] = Answered(Zeros)]
  <2>1. /\ \A d \in Counts : d # c => count'[d] = count[d]
        /\ count'[c].reads = 0 /\ count'[c].answer = Zeros
    BY <1>1, <1>8 DEF Answered
  <2> QED BY <1>2, <1>8, <2>1, ReadOrders DEF Zeros
<1> QED BY <1>6, <1>7, <1>8 DEF CountRead

LEMMA NextCounts ==
  ASSUME Typed, CountsInv, [Next]_vars
  PROVE  /\ CountsInv'
         /\ \A c \in Counts :
              \/ \A n \in CounterNames : count'[c].answer[n] >= count[c].answer[n]
              \/ RedisMayFail /\ count'[c].answer = Zeros
<1>1. count \in [Counts -> Count] /\ \A n \in CounterNames : counters[n] \in Nat
  BY DEF Typed, TypeOK, HandlersTypeOK, StatsTypeOK, Reading
<1>2. \A c \in Counts, n \in CounterNames :
        count[c].answer[n] \in Nat /\ count[c].counts[n] \in Nat
  BY <1>1 DEF Count, Reading
<1>3. CASE HandlersStep
  <2>1. PICK c \in Counts : CountRead(c)
    BY <1>3 DEF HandlersStep, HandlersNext
  <2>2. UNCHANGED counters
    BY <1>3 DEF HandlersStep, HandlersFrame, statsVars
  <2> QED BY <1>2, <2>1, <2>2, ReadKeeps DEF CountsInv
<1>4. CASE UNCHANGED count
  BY <1>2, <1>4, CountersGrow DEF CountsInv
<1>5. HandlersStep \/ UNCHANGED count
  BY DEF Next, ServiceStep, ServiceFrame, ServiceOnly, WorkerStep, WorkerFrame, WorkerOnly,
     EventStep, EventFrame, ResendStep, Tick, vars, handlerVars
<1> QED BY <1>3, <1>4, <1>5

\* No number on the page goes back, although its three reads are made at three
\* times and each page keeps its own; only an error of Redis shows as zeros.
THEOREM PageMovesForward == Spec => CountsMoveForward
<1>1. Init => CountsInv
  <2> SUFFICES ASSUME Init, NEW c \in Counts, NEW n \in CounterNames
               PROVE  /\ count[c].answer[n] <= counters[n]
                      /\ n \notin ReadBefore(count[c].reads)
    BY DEF CountsInv
  <2> QED BY ReadOrders DEF Init, StatsInit, HandlersInit, Zeros
<1>2. CountsInv /\ Typed /\ [Next]_vars => CountsInv'
  BY NextCounts
<1>3. CountsInv /\ Typed /\ [Next]_vars =>
        [\A c \in Counts :
           \/ \A n \in CounterNames : count'[c].answer[n] >= count[c].answer[n]
           \/ RedisMayFail /\ count'[c].answer = Zeros]_vars
  BY NextCounts
<1> QED BY <1>1, <1>2, <1>3, TypedInvariant, PTL DEF Spec, CountsMoveForward
-----------------------------------------------------------------------------
(***************************************************************************)
(* Who is told, and who is about to be.  A job comes into Aware when its   *)
(* verdict is counted, one at a time, and no other step brings one in.     *)
(***************************************************************************)
Holds(s, r) == \E k \in 1..Len(inbox[s].events) : inbox[s].events[k] = r
Telling == {"log_push", "log_trim", "publish"}

Told(id) ==
  \E s \in Streams :
    /\ inbox[s].topic = id
    /\ \E k \in 1..Len(inbox[s].events) : inbox[s].events[k].status = "done"
Tells(w) == work[w].pc \in Telling /\ work[w].outcome.status = "done"
Aware == {id \in Ids : Told(id) \/ \E w \in Workers : Tells(w) /\ work[w].id = id}

AwareInv ==
  IsFiniteSet(Aware) /\ Cardinality(Aware) <= counters["sorted"] + counters["not_sorted"]

LEMMA PublishHolds ==
  ASSUME PubSubTypeOK, NEW id \in Ids, NEW event \in Report, Publish(id, event), NEW s \in Streams
  PROVE  /\ inbox'[s].topic = inbox[s].topic /\ inbox'[s].live = inbox[s].live
         /\ \A r : Holds(s, r)' => Holds(s, r) \/ (inbox[s].topic = id /\ r = event)
         /\ \A r : Holds(s, r) => Holds(s, r)'
         /\ inbox[s].topic = id /\ inbox[s].live = "yes" => Holds(s, event)'
<1>1. inbox[s] \in Inbox /\ inbox[s].events \in Seq(Report)
  BY DEF PubSubTypeOK, Inbox
<1> DEFINE more == Append(inbox[s].events, event)
<1>2. /\ Len(more) = Len(inbox[s].events) + 1 /\ Len(inbox[s].events) \in Nat
      /\ more[Len(inbox[s].events) + 1] = event
      /\ \A k \in 1..Len(inbox[s].events) : more[k] = inbox[s].events[k]
  BY <1>1
<1> HIDE DEF more
<1>3. CASE inbox[s].topic = id /\ inbox[s].live = "yes"
  <2>1. /\ inbox'[s].topic = inbox[s].topic /\ inbox'[s].live = inbox[s].live
        /\ inbox'[s].events = more
    BY <1>1, <1>3 DEF Publish, Inbox, more
  <2>2. Len(inbox[s].events) + 1 \in 1..Len(more)
        /\ 1..Len(inbox[s].events) \subseteq 1..Len(more)
        /\ \A k \in 1..Len(more) : k \in 1..Len(inbox[s].events) \/ k = Len(inbox[s].events) + 1
    BY <1>2
  <2> QED BY <1>2, <1>3, <2>1, <2>2 DEF Holds
<1>4. CASE ~(inbox[s].topic = id /\ inbox[s].live = "yes")
  BY <1>4 DEF Publish, Holds
<1> QED BY <1>3, <1>4

\* A stream takes from its channel what has come, in order, or drops it all.
LEMMA EventInbox ==
  ASSUME Typed, EventStep, NEW t \in Streams
  PROVE  \/ inbox'[t].events = <<>>
         \/ /\ inbox'[t].topic = inbox[t].topic
            /\ \/ inbox'[t].events = inbox[t].events
               \/ /\ inbox[t].events # <<>> /\ inbox'[t].events = Tail(inbox[t].events)
                  /\ StreamReceive(t)
<1>1. inbox \in [Streams -> Inbox]
  BY DEF Typed, TypeOK, PubSubTypeOK
<1>2. PICK s \in Streams :
        \/ StreamStep(s) \/ StreamTimeout(s) \/ StreamGone(s)
        \/ SubscriptionTakesEffect(s) \/ SubscriptionBreaks(s)
  BY DEF EventStep, StreamNext
<1>3. CASE StreamReceive(s)
  <2>1. CASE Cancel(s)
    BY <1>1, <2>1 DEF Cancel, Unsubscribed
  <2>2. CASE inbox' = [inbox EXCEPT ![s].events = Tail(@)]
    BY <1>1, <1>3, <2>2 DEF StreamReceive, Inbox
  <2> QED BY <1>3, <2>1, <2>2 DEF StreamReceive
<1>4. CASE StreamSubscribe(s)
  BY <1>1, <1>4 DEF StreamSubscribe, Subscribe
<1>5. CASE \/ StreamOpen(s) \/ StreamFirstResult(s) \/ StreamAgain(s) \/ StreamSecondResult(s)
           \/ StreamTimeout(s) \/ StreamGone(s)
  <2>1. UNCHANGED inbox \/ Cancel(s)
    BY <1>5 DEF StreamOpen, StreamFirstResult, StreamAgain, StreamSecondResult, StreamTimeout,
       StreamGone, pubsubVars
  <2> QED BY <1>1, <2>1 DEF Cancel, Unsubscribed
<1>6. CASE SubscriptionTakesEffect(s) \/ SubscriptionBreaks(s)
  <2>1. \E l : inbox' = [inbox EXCEPT ![s].live = l]
    BY <1>6 DEF SubscriptionTakesEffect, SubscriptionBreaks, Activate, Reconnect
  <2> QED BY <1>1, <2>1 DEF Inbox
<1> QED BY <1>2, <1>3, <1>4, <1>5, <1>6 DEF StreamStep

LEMMA EventHolds ==
  ASSUME Typed, EventStep, NEW t \in Streams, NEW r, Holds(t, r)'
  PROVE  Holds(t, r) /\ inbox'[t].topic = inbox[t].topic
<1>1. inbox[t].events \in Seq(Report)
  BY DEF Typed, TypeOK, PubSubTypeOK, Inbox
<1>2. inbox'[t].events # <<>>
  BY DEF Holds
<1>3. CASE inbox'[t].events = inbox[t].events
  BY <1>2, <1>3, EventInbox DEF Holds
<1>4. CASE inbox[t].events # <<>> /\ inbox'[t].events = Tail(inbox[t].events)
  <2>1. \A k \in 1..Len(Tail(inbox[t].events)) :
          k + 1 \in 1..Len(inbox[t].events)
          /\ Tail(inbox[t].events)[k] = inbox[t].events[k + 1]
    BY <1>1, <1>4
  <2> QED BY <1>2, <1>4, <2>1, EventInbox DEF Holds
<1> QED BY <1>2, <1>3, <1>4, EventInbox
\* A step that counts no verdict brings no job into Aware.
LEMMA AwareStays ==
  ASSUME "redis" \notin Env, Typed, [Next]_vars, \A w \in Workers : ~IncrementVerdict(w)
  PROVE  Aware' \subseteq Aware
<1>1. inbox \in [Streams -> Inbox] /\ WorkerTypeOK /\ PubSubTypeOK /\ work \in [Workers -> Work]
  BY DEF Typed, TypeOK, PubSubTypeOK, WorkerTypeOK
\* It is enough that nobody tells, or is told, what was not known.
<1>2. ASSUME \A s \in Streams : \A r : Holds(s, r)' /\ r.status = "done" =>
                Holds(s, r) \/ (inbox[s].topic \in Aware),
             \A s \in Streams : \A r : Holds(s, r)' => inbox'[s].topic = inbox[s].topic,
             \A w \in Workers : Tells(w)' => Tells(w) /\ work'[w].id = work[w].id
      PROVE  Aware' \subseteq Aware
  <2>1. ASSUME NEW id \in Ids, Told(id)' PROVE Told(id) \/ id \in Aware
    <3>1. PICK s \in Streams : inbox'[s].topic = id
                               /\ \E k \in 1..Len(inbox'[s].events) : inbox'[s].events[k].status = "done"
      BY <2>1 DEF Told
    <3>2. PICK k \in 1..Len(inbox'[s].events) : inbox'[s].events[k].status = "done"
      BY <3>1
    <3>3. PICK r : Holds(s, r)' /\ r.status = "done"
      BY <3>2 DEF Holds
    <3>4. inbox[s].topic = id /\ (Holds(s, r) \/ id \in Aware)
      BY <1>2, <3>1, <3>3
    <3> QED BY <3>3, <3>4 DEF Told, Holds
  <2>2. ASSUME NEW id \in Ids, NEW w \in Workers, Tells(w)', work'[w].id = id
        PROVE  id \in Aware
    BY <1>2, <2>2 DEF Aware
  <2> QED BY <2>1, <2>2 DEF Aware
<1>3. CASE UNCHANGED <<inbox, work>>
  BY <1>2, <1>3 DEF Holds, Tells
<1>4. CASE EventStep
  <2>1. UNCHANGED work
    BY <1>4 DEF EventStep, EventFrame, workerVars
  <2> QED BY <1>2, <1>4, <2>1, EventHolds DEF Tells
<1>5. CASE WorkerStep
  <2>1. PICK w \in Workers : ProcessStep(w) \/ SweepStep(w) \/ SnapshotStep(w) \/ WorkerCrash(w)
    BY <1>5 DEF WorkerStep, WorkerNext
  <2>2. CASE SweepStep(w) \/ SnapshotStep(w)
    BY <1>3, <2>2 DEF SweepStep, SweepStart, SweepList, SweepDelete, SnapshotStep, pubsubVars
  \* Steps that send no event: it is enough to look at the worker.
  <2>3. ASSUME UNCHANGED inbox, \A v \in Workers : v # w => work'[v] = work[v],
               Tells(w)' => Tells(w) /\ work'[w].id = work[w].id
        PROVE  Aware' \subseteq Aware
    BY <1>2, <2>3 DEF Holds, Tells
  <2>4. CASE Mark(w) \/ WriteResult(w) \/ StoreResult(w) \/ IncrementTotal(w)
    <3>1. \E pc \in WorkPC \ Telling : Proceed(w, pc)
      BY <2>4 DEF Mark, WriteResult, StoreResult, IncrementTotal, RedisMayFail, WorkPC, Telling
    <3>2. UNCHANGED inbox
      BY <2>4 DEF Mark, WriteResult, StoreResult, IncrementTotal, pubsubVars
    <3> QED BY <1>1, <2>3, <3>1, <3>2, OneWorker DEF Tells
  <2>5. CASE LogPush(w) \/ LogTrim(w)
    <3>1. UNCHANGED inbox /\ work[w].pc \in Telling /\ \E pc : Proceed(w, pc)
      BY <2>5 DEF LogPush, LogTrim, At, Telling, pubsubVars
    <3> QED BY <1>1, <2>3, <3>1, OneWorker DEF Tells
  <2>6. CASE WriteStatus(w)
    <3>1. UNCHANGED inbox /\ \E pc : /\ Proceed(w, pc)
                                     /\ work[w].outcome.status = "done" => pc \notin Telling
      BY <2>6 DEF WriteStatus, Telling, pubsubVars
    <3> QED BY <1>1, <2>3, <3>1, OneWorker DEF Tells
  <2>7. CASE Read(w) \/ WorkerPop(w) \/ WorkerCrash(w)
    <3>1. UNCHANGED inbox
      BY <2>7 DEF Read, WorkerPop, WorkerCrash, pubsubVars
    <3>2. CASE Read(w)
      <4>1. PICK content \in GetList(work[w].id) :
              work' = [work EXCEPT ![w].pc = "set_result", ![w].content = content,
                         ![w].outcome = Outcome(content, work[w].order)]
        BY <3>2 DEF Read
      <4>2. work'[w].pc = "set_result" /\ \A v \in Workers : v # w => work'[v] = work[v]
        BY <1>1, <4>1 DEF Work
      <4> QED BY <2>3, <3>1, <4>2 DEF Tells, Telling
    <3>3. CASE WorkerPop(w)
      <4> DEFINE new == [Idle EXCEPT !.pc = "announce", !.id = Head(queue).id,
                                     !.order = Head(queue).order]
      <4>1. new.pc = "announce"
        BY DEF Idle
      <4>2. work' = [work EXCEPT ![w] = new]
        BY <3>3 DEF WorkerPop, RedisMayFail
      <4> HIDE DEF new
      <4> QED BY <1>1, <2>3, <3>1, <4>1, <4>2, OneWorker DEF Tells, Telling
    <3>4. CASE WorkerCrash(w)
      <4>1. Idle.pc = "pop" /\ work' = [work EXCEPT ![w] = Idle]
        BY <3>4 DEF WorkerCrash, Idle
      <4> QED BY <1>1, <2>3, <3>1, <4>1, OneWorker DEF Tells, Telling
    <3> QED BY <2>7, <3>2, <3>3, <3>4
  <2>8. CASE Announce(w)
    <3>1. Publish(work[w].id, Plain("processing")) /\ Proceed(w, "mark") /\ work[w].id \in Ids
      BY <2>8 DEF Announce, TryPublish, RedisMayFail, Typed, WorkersHaveJobs, At
    <3>2. Plain("processing") \in Report /\ Plain("processing").status = "processing"
      BY Reports DEF Statuses
    <3>3. \A s \in Streams : \A r : Holds(s, r)' =>
            /\ inbox'[s].topic = inbox[s].topic
            /\ Holds(s, r) \/ r = Plain("processing")
      BY <1>1, <3>1, <3>2, PublishHolds
    <3>4. \A v \in Workers : Tells(v)' => Tells(v) /\ work'[v].id = work[v].id
      BY <1>1, <3>1, OneWorker DEF Tells, Telling
    <3> QED BY <1>2, <3>2, <3>3, <3>4
  <2>9. CASE PublishOutcome(w)
    <3>1. /\ Publish(work[w].id, work[w].outcome) /\ work[w].id \in Ids
          /\ work[w].outcome \in Report /\ work[w].pc = "publish"
          /\ work' = [work EXCEPT ![w] = Idle] /\ Idle.pc = "pop"
      BY <1>1, <2>9 DEF PublishOutcome, TryPublish, RedisMayFail, Typed, WorkersHaveJobs, At,
         Idle, Work
    <3>2. \A s \in Streams : \A r : Holds(s, r)' =>
            /\ inbox'[s].topic = inbox[s].topic
            /\ Holds(s, r) \/ (inbox[s].topic = work[w].id /\ r = work[w].outcome)
      BY <1>1, <3>1, PublishHolds
    <3>3. work[w].outcome.status = "done" => work[w].id \in Aware
      BY <3>1 DEF Aware, Tells, Telling
    <3>4. \A v \in Workers : Tells(v)' => Tells(v) /\ work'[v].id = work[v].id
      BY <1>1, <3>1, OneWorker DEF Tells, Telling
    <3> QED BY <1>2, <3>2, <3>3, <3>4
  <2> QED BY <2>1, <2>2, <2>4, <2>5, <2>6, <2>7, <2>8, <2>9 DEF ProcessStep
<1>6. EventStep \/ WorkerStep \/ UNCHANGED <<inbox, work>>
  <2>1. ~ResendStep
    BY DEF ResendStep, RequestSendsAgain, WorkerSendsAgain, LosesReply, RedisMayFail
  <2> QED BY <2>1 DEF Next, ServiceStep, ServiceFrame, ServiceOnly, HandlersStep, HandlersFrame,
             Tick, vars, pubsubVars, workerVars
<1> QED BY <1>3, <1>4, <1>5, <1>6

LEMMA AwareGrows ==
  ASSUME Typed, NEW w \in Workers, IncrementVerdict(w)
  PROVE  Aware' \subseteq Aware \cup {work[w].id}
<1>1. WorkerTypeOK /\ UNCHANGED inbox /\ Proceed(w, "log_push")
  BY DEF Typed, TypeOK, IncrementVerdict, pubsubVars
<1>2. work'[w].id = work[w].id /\ \A v \in Workers : v # w => work'[v] = work[v]
  BY <1>1, OneWorker
<1> QED BY <1>1, <1>2 DEF Aware, Told, Holds, Tells

LEMMA NextAware ==
  ASSUME "redis" \notin Env, Typed, AwareInv, [Next]_vars
  PROVE  AwareInv'
<1>1. /\ IsFiniteSet(Aware) /\ Cardinality(Aware) \in Nat
      /\ Cardinality(Aware) <= counters["sorted"] + counters["not_sorted"]
  BY FS_CardinalityType DEF AwareInv
<1>2. CASE \A w \in Workers : ~IncrementVerdict(w)
  <2>1. Aware' \subseteq Aware
    BY <1>2, AwareStays
  <2>2. /\ IsFiniteSet(Aware') /\ Cardinality(Aware') <= Cardinality(Aware)
        /\ Cardinality(Aware') \in Nat
    BY <1>1, <2>1, SmallerSet
  <2>3. counters'["sorted"] >= counters["sorted"] /\ counters'["not_sorted"] >= counters["not_sorted"]
        /\ counters'["sorted"] \in Nat /\ counters'["not_sorted"] \in Nat
    BY CountersGrow DEF CounterNames
  <2> QED BY <1>1, <2>2, <2>3, CounterTypes DEF AwareInv
<1>3. ASSUME NEW w \in Workers, IncrementVerdict(w) PROVE AwareInv'
  <2>1. Aware' \subseteq Aware \cup {work[w].id}
    BY <1>3, AwareGrows
  <2>2. /\ IsFiniteSet(Aware') /\ Cardinality(Aware') <= Cardinality(Aware) + 1
        /\ Cardinality(Aware') \in Nat
    <3>1. /\ IsFiniteSet(Aware \cup {work[w].id})
          /\ Cardinality(Aware \cup {work[w].id}) <= Cardinality(Aware) + 1
          /\ Cardinality(Aware \cup {work[w].id}) \in Nat
      BY <1>1, OneMore
    <3>2. /\ IsFiniteSet(Aware') /\ Cardinality(Aware') \in Nat
          /\ Cardinality(Aware') <= Cardinality(Aware \cup {work[w].id})
      BY <2>1, <3>1, SmallerSet
    <3> QED BY <1>1, <3>1, <3>2
  <2>3. counters'["sorted"] + counters'["not_sorted"]
          = counters["sorted"] + counters["not_sorted"] + 1
    BY <1>3, Increments, CounterTypes DEF IncrementVerdict, RedisMayFail, CounterNames
  <2> QED BY <1>1, <2>2, <2>3, CounterTypes DEF AwareInv
<1> QED BY <1>2, <1>3

\* While Redis answers, whoever is told by an event that a job is done finds its
\* verdict counted, whatever workers die and however late an event is read.
THEOREM ToldIsCounted ==
  ASSUME "redis" \notin Env
  PROVE  Spec => []CountedBeforeTold
<1>1. Init => AwareInv
  <2> SUFFICES ASSUME Init PROVE AwareInv
    OBVIOUS
  <2>1. Aware = {}
    BY DEF Init, WorkerInit, PubSubInit, Unsubscribed, Idle, Aware, Told, Tells, Telling, Holds
  <2>2. counters["sorted"] = 0 /\ counters["not_sorted"] = 0
    BY DEF Init, StatsInit, Zeros, CounterNames
  <2> QED BY <2>1, <2>2, FS_EmptySet DEF AwareInv
<1>2. AwareInv /\ Typed /\ [Next]_vars => AwareInv'
  BY NextAware
<1>3. AwareInv /\ Typed => CountedBeforeTold
  <2> SUFFICES ASSUME AwareInv, Typed PROVE CountedBeforeTold
    OBVIOUS
  <2> DEFINE told == {id \in Ids : \E s \in Streams :
                /\ inbox[s].topic = id
                /\ \E k \in 1..Len(inbox[s].events) : inbox[s].events[k].status = "done"}
  <2>1. told \subseteq Aware
    BY DEF Aware, Told, Holds
  <2>2. Cardinality(told) <= counters["sorted"] + counters["not_sorted"]
    <3> HIDE DEF told
    <3> QED BY <2>1, SmallerSet, CounterTypes DEF AwareInv
  <2> QED BY <2>2 DEF CountedBeforeTold
<1> QED BY <1>1, <1>2, <1>3, TypedInvariant, PTL DEF Spec
=============================================================================
