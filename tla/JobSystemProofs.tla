--------------------------- MODULE JobSystemProofs ---------------------------
(***************************************************************************)
(* Proofs about JobSystem, for every set of ids, requests, workers,        *)
(* streams and lists, every clock bound and every set of faults: its types *)
(* and EveryVerdictIsRight.                                                *)
(***************************************************************************)
EXTENDS JobSystem, TLAPS

(***************************************************************************)
(* Types, and what the types need: a request, a worker, a stream and a     *)
(* poll that are under way have a job, and a worker that is about to log a *)
(* list has one.                                                           *)
(***************************************************************************)
Recording == {"put_result", "incr_total", "incr_verdict", "log_push", "log_trim"}
Deciding == {"set_result", "set_status"}
Decided == Deciding \cup Recording \cup {"publish"}

RequestsHaveJobs ==
  /\ \A r \in Requests : req[r].pc # "idle" => req[r].id \in Ids
  /\ \A r \in SubmitIds : req[r].pc # "idle" => req[r].id = r
  /\ \A r \in Requests : req[r].pc \notin {"idle", "rejected"} => req[r].content \in Contents
WorkersHaveJobs ==
  \A w \in Workers :
    /\ work[w].pc # "pop" => work[w].id \in Ids
    /\ work[w].pc \in Recording => work[w].content \in Contents
    /\ work[w].pc \in Decided => work[w].outcome.status \in Final
    /\ work[w].pc \in Deciding /\ work[w].outcome.status = "done" => work[w].content \in Contents
ReadersHaveJobs ==
  /\ \A s \in Streams : stream[s].pc # "idle" => stream[s].id \in Ids
  /\ \A p \in Polls : poll[p].pc # "idle" => poll[p].id \in Ids
\* Only when Redis fails is a command sent again.
SentAgain == /\ resends \in Nat /\ twice \subseteq Requests
             /\ twice # {} => RedisMayFail

Typed == TypeOK /\ RequestsHaveJobs /\ WorkersHaveJobs /\ ReadersHaveJobs /\ SentAgain

\* While Redis does not fail, every submitted job is pushed once.
LEMMA NoneTwice == Typed /\ ~RedisMayFail => PushedOnce = Once
BY DEF Typed, SentAgain, PushedOnce

-----------------------------------------------------------------------------
(* Reports *)

LEMMA Reports ==
  /\ \A s \in Statuses : Plain(s) \in Report /\ Plain(s).status = s
  /\ \A b \in BOOLEAN : Done(b) \in Report /\ Done(b).status = "done" /\ Done(b).sorted = b
  /\ \A e \in {"", "read", "parse"} :
       Failed(e) \in Report /\ Failed(e).status = "error" /\ Failed(e).error = e
  /\ NoReport \in Report
BY DEF Plain, Done, Failed, NoReport, Report, Statuses

\* The outcome of a list is a final report, "done" only if there was a list.
LEMMA OutcomeType ==
  ASSUME NEW content, NEW order \in Orders
  PROVE  /\ Outcome(content, order) \in Report
         /\ Outcome(content, order).status \in Final
         /\ Outcome(content, order).status = "done" => content \in Contents
<1>1. Parsable \subseteq Contents
  BY ContentsAssumption
<1>2. Check(content, order) \in BOOLEAN
  BY DEF Check
<1> QED BY <1>1, <1>2, Reports DEF Outcome, Final

-----------------------------------------------------------------------------
(* What the operations of the stores do to their types. *)

LEMMA SetStatusType ==
  ASSUME RedisTypeOK, now \in Nat, NEW id \in Ids, NEW s \in Statuses, SetStatus(id, s)
  PROVE  RedisTypeOK'
<1>1. now + TTL \in Nat
  BY TimesAssumption
<1>2. CASE /\ status' = [status EXCEPT ![id] = s]
           /\ until' = [until EXCEPT !["status"][id] = now + TTL]
           /\ UNCHANGED <<queue, result>>
  BY <1>1, <1>2 DEF RedisTypeOK
<1>3. CASE UNCHANGED redisVars
  BY <1>3 DEF RedisTypeOK, redisVars
<1> QED BY <1>2, <1>3 DEF SetStatus

LEMMA SetResultType ==
  ASSUME RedisTypeOK, now \in Nat, NEW id \in Ids, NEW r \in Report, SetResult(id, r)
  PROVE  RedisTypeOK'
<1>1. now + TTL \in Nat
  BY TimesAssumption
<1>2. CASE /\ result' = [result EXCEPT ![id] = r]
           /\ until' = [until EXCEPT !["result"][id] = now + TTL]
           /\ UNCHANGED <<queue, status>>
  BY <1>1, <1>2 DEF RedisTypeOK
<1>3. CASE UNCHANGED redisVars
  BY <1>3 DEF RedisTypeOK, redisVars
<1> QED BY <1>2, <1>3 DEF SetResult

LEMMA PushType ==
  ASSUME RedisTypeOK, NEW job \in Job, Push(job)
  PROVE  RedisTypeOK'
BY DEF Push, RedisTypeOK

LEMMA PopType ==
  ASSUME RedisTypeOK, Pop
  PROVE  RedisTypeOK' /\ Head(queue) \in Job
BY DEF Pop, RedisTypeOK

LEMMA ExpireType ==
  ASSUME RedisTypeOK, NEW time \in Nat, Expire(time)
  PROVE  RedisTypeOK'
BY Reports DEF Expire, RedisTypeOK, Statuses

LEMMA ReadsType ==
  ASSUME RedisTypeOK, NEW id \in Ids
  PROVE  GetStatus(id) \subseteq Statuses /\ GetResult(id) \subseteq Report
<1>1. status[id] \in Statuses /\ result[id] \in Report /\ "none" \in Statuses
  BY DEF RedisTypeOK, Statuses
<1>2. GetStatus(id) \subseteq Statuses
  BY <1>1 DEF GetStatus
<1>3. GetResult(id) \subseteq Report
  BY <1>1, Reports DEF GetResult
<1> QED BY <1>2, <1>3

LEMMA PutListType ==
  ASSUME BucketTypeOK, now \in Nat, NEW id \in Ids, NEW c \in Contents, PutList(id, c)
  PROVE  BucketTypeOK'
BY DEF PutList, BucketTypeOK, Prefixes

LEMMA PutResultType ==
  ASSUME BucketTypeOK, now \in Nat, NEW id \in Ids, NEW r \in Report, PutResult(id, r)
  PROVE  BucketTypeOK'
BY DEF PutResult, BucketTypeOK, Prefixes

LEMMA DeleteType ==
  ASSUME BucketTypeOK, NEW id \in Ids, NEW p \in Prefixes, Delete(p, id)
  PROVE  BucketTypeOK'
BY Reports DEF Delete, BucketTypeOK, Prefixes

LEMMA GetListType ==
  ASSUME BucketTypeOK, NEW id \in Ids
  PROVE  GetList(id) \subseteq Contents \cup {NoList}
BY DEF GetList, BucketTypeOK

LEMMA PublishType ==
  ASSUME PubSubTypeOK, NEW id \in Ids, NEW event \in Report, Publish(id, event)
  PROVE  PubSubTypeOK'
<1> SUFFICES ASSUME NEW s \in Streams PROVE inbox'[s] \in Inbox
  BY DEF PubSubTypeOK, Publish
<1>1. inbox[s] \in Inbox
  BY DEF PubSubTypeOK
<1>2. Append(inbox[s].events, event) \in Seq(Report)
  BY <1>1 DEF Inbox
<1> QED BY <1>1, <1>2 DEF Publish, Inbox

LEMMA SubscriptionType ==
  ASSUME PubSubTypeOK, NEW s \in Streams, NEW id \in Ids,
         Subscribe(s, id) \/ Cancel(s) \/ Activate(s) \/ Reconnect(s)
  PROVE  PubSubTypeOK'
<1>1. Unsubscribed \in Inbox
  BY DEF Unsubscribed, Inbox
<1>2. CASE Subscribe(s, id)
  <2>1. [topic |-> id, live |-> "sent", events |-> <<>>] \in Inbox
    BY DEF Inbox
  <2> QED BY <1>2, <2>1 DEF PubSubTypeOK, Subscribe
<1>3. CASE Cancel(s)
  BY <1>1, <1>3 DEF PubSubTypeOK, Cancel
<1>4. CASE Activate(s) \/ Reconnect(s)
  <2>1. ASSUME NEW l \in {"no", "sent", "yes"} PROVE [inbox[s] EXCEPT !.live = l] \in Inbox
    BY DEF PubSubTypeOK, Inbox
  <2> QED BY <1>4, <2>1 DEF PubSubTypeOK, Activate, Reconnect
<1> QED BY <1>2, <1>3, <1>4

LEMMA StatsType ==
  ASSUME StatsTypeOK,
         \/ \E c \in CounterNames : Incr(c)
         \/ \E e \in Entry : LPush(e)
         \/ LTrim
  PROVE  StatsTypeOK'
<1>1. CASE \E c \in CounterNames : Incr(c)
  BY <1>1 DEF Incr, StatsTypeOK, Reading
<1>2. CASE \E e \in Entry : LPush(e)
  BY <1>2 DEF LPush, StatsTypeOK
<1>3. CASE LTrim
  BY <1>3, TimesAssumption DEF LTrim, StatsTypeOK
<1> QED BY <1>1, <1>2, <1>3

LEMMA UnstartedType == Unstarted \in Snapshots
BY DEF Unstarted, Snapshots, SnapshotPC, Zeros, Reading, CounterNames

-----------------------------------------------------------------------------
(* The steps of the job service. *)

LEMMA InitTyped == Init => Typed
<1> SUFFICES ASSUME Init PROVE Typed
  OBVIOUS
<1>1. NoReport \in Report /\ "none" \in Statuses
  BY Reports DEF Statuses
<1>2. RedisTypeOK
  BY <1>1 DEF Init, RedisInit, RedisTypeOK
<1>3. BucketTypeOK
  BY <1>1 DEF Init, BucketInit, BucketTypeOK
<1>4. PubSubTypeOK
  BY DEF Init, PubSubInit, PubSubTypeOK, Unsubscribed, Inbox
<1>5. StatsTypeOK
  BY DEF Init, StatsInit, StatsTypeOK, Zeros, Reading
<1>6. ServiceTypeOK
  BY <1>1 DEF Init, ServiceInit, ServiceTypeOK, Request, RequestPC, Poll, Orders
<1>7. WorkerTypeOK
  BY <1>1, UnstartedType
     DEF Init, WorkerInit, WorkerTypeOK, SnapshotInit, SnapshotTypeOK, Idle, Work, WorkPC, Orders, Resting, Sweep, Prefixes
<1>8. StreamTypeOK
  BY <1>1 DEF Init, StreamInit, StreamTypeOK, Stream, StreamPC, Ends
<1>9. RequestsHaveJobs /\ WorkersHaveJobs /\ ReadersHaveJobs
  BY DEF Init, ServiceInit, WorkerInit, StreamInit, RequestsHaveJobs, WorkersHaveJobs,
         ReadersHaveJobs, Idle, Recording, Deciding, Decided, Requests
<1>10. HandlersTypeOK
  BY DEF Init, HandlersInit, HandlersTypeOK, Count, Zeros, Reading
<1>11. SentAgain
  BY DEF Init, SentAgain
<1> QED BY <1>2, <1>3, <1>4, <1>5, <1>6, <1>7, <1>8, <1>9, <1>10, <1>11
        DEF Typed, TypeOK, Init, SentAgain

\* A request that moves to its next pc keeps its job.
LEMMA GoToType ==
  ASSUME ServiceTypeOK, RequestsHaveJobs, NEW r \in Requests, NEW pc \in RequestPC,
         req[r].pc \notin {"idle", "rejected"}, GoTo(r, pc), UNCHANGED <<url, poll>>
  PROVE  ServiceTypeOK' /\ RequestsHaveJobs'
<1>1. [req[r] EXCEPT !.pc = pc] \in Request
  BY DEF ServiceTypeOK, Request
<1>2. ServiceTypeOK'
  BY <1>1 DEF ServiceTypeOK, GoTo
<1>3. \A q \in Requests :
        /\ req'[q].id = req[q].id /\ req'[q].content = req[q].content
        /\ req'[q].pc # "idle" => req[q].pc # "idle"
        /\ req'[q].pc \notin {"idle", "rejected"} => req[q].pc \notin {"idle", "rejected"}
  BY <1>1 DEF ServiceTypeOK, GoTo, Request
<1> QED BY <1>2, <1>3 DEF RequestsHaveJobs, Requests

\* A request that starts takes a job.
LEMMA StartType ==
  ASSUME ServiceTypeOK, RequestsHaveJobs, NEW r \in Requests,
         NEW new \in Request, req' = [req EXCEPT ![r] = new],
         new.id \in Ids, r \in SubmitIds => new.id = r,
         new.pc \notin {"idle", "rejected"} => new.content \in Contents,
         UNCHANGED <<url, poll>>
  PROVE  ServiceTypeOK' /\ RequestsHaveJobs'
<1>1. ServiceTypeOK'
  BY DEF ServiceTypeOK
<1>2. RequestsHaveJobs'
  BY DEF ServiceTypeOK, RequestsHaveJobs, Requests
<1> QED BY <1>1, <1>2

LEMMA PollType ==
  ASSUME ServiceTypeOK, RequestsHaveJobs, ReadersHaveJobs, NEW p \in Polls,
         NEW new \in Poll, poll' = [poll EXCEPT ![p] = new],
         new.id \in Ids, UNCHANGED <<req, url, stream>>
  PROVE  ServiceTypeOK' /\ RequestsHaveJobs' /\ ReadersHaveJobs'
BY DEF ServiceTypeOK, RequestsHaveJobs, ReadersHaveJobs

\* What a request under way pushes is a job.
LEMMA JobOfType ==
  ASSUME ServiceTypeOK, RequestsHaveJobs, NEW r \in Requests, req[r].pc # "idle"
  PROVE  JobOf(r) \in Job
BY DEF RequestsHaveJobs, ServiceTypeOK, Request, Job, JobOf

\* What the frames keep of the types.
LEMMA SentAgainStays ==
  ASSUME Typed, UNCHANGED sentVars
  PROVE  SentAgain'
BY DEF Typed, SentAgain, sentVars, RedisMayFail

LEMMA ServiceOnlyTyped ==
  ASSUME Typed, ServiceOnly
  PROVE  /\ now' \in Nat /\ PubSubTypeOK' /\ StatsTypeOK' /\ WorkerTypeOK' /\ StreamTypeOK'
         /\ HandlersTypeOK' /\ WorkersHaveJobs' /\ UNCHANGED stream
BY DEF Typed, TypeOK, ServiceOnly, pubsubVars, statsVars, workerVars, streamVars,
       handlerVars, PubSubTypeOK, StatsTypeOK, WorkerTypeOK, SnapshotTypeOK, StreamTypeOK,
       HandlersTypeOK, WorkersHaveJobs

LEMMA WorkerOnlyTyped ==
  ASSUME Typed, WorkerOnly
  PROVE  /\ now' \in Nat /\ ServiceTypeOK' /\ StreamTypeOK' /\ HandlersTypeOK'
         /\ RequestsHaveJobs' /\ ReadersHaveJobs'
BY DEF Typed, TypeOK, WorkerOnly, serviceVars, streamVars, handlerVars,
       ServiceTypeOK, StreamTypeOK, HandlersTypeOK, RequestsHaveJobs, ReadersHaveJobs

LEMMA ServiceTyped ==
  ASSUME Typed, ServiceStep
  PROVE  Typed'
<1> USE DEF serviceVars
<1>1. /\ now \in Nat /\ RedisTypeOK /\ BucketTypeOK /\ PubSubTypeOK /\ StatsTypeOK
      /\ ServiceTypeOK /\ WorkerTypeOK /\ StreamTypeOK /\ HandlersTypeOK
      /\ RequestsHaveJobs /\ WorkersHaveJobs /\ ReadersHaveJobs
  BY DEF Typed, TypeOK
<1>2. /\ now' \in Nat /\ PubSubTypeOK' /\ StatsTypeOK' /\ WorkerTypeOK' /\ StreamTypeOK'
      /\ HandlersTypeOK' /\ WorkersHaveJobs' /\ SentAgain' /\ UNCHANGED stream
  BY <1>1, ServiceOnlyTyped, SentAgainStays DEF ServiceStep, ServiceFrame
<1>3. UNCHANGED redisVars => RedisTypeOK'
  BY <1>1 DEF redisVars, RedisTypeOK
<1>4. UNCHANGED bucketVars => BucketTypeOK'
  BY <1>1 DEF bucketVars, BucketTypeOK
<1>5. UNCHANGED poll => ReadersHaveJobs'
  BY <1>1, <1>2 DEF ReadersHaveJobs
<1> DEFINE Good == RedisTypeOK /\ BucketTypeOK /\ ServiceTypeOK /\ RequestsHaveJobs /\ ReadersHaveJobs
<1> SUFFICES Good'
  BY <1>2 DEF Typed, TypeOK, SentAgain
<1>6. ASSUME NEW id \in SubmitIds, SubmitValidate(id) PROVE Good'
  <2>1. PICK content \in Contents, order \in Orders :
          req' = [req EXCEPT ![id] =
                   [pc |-> IF content \in Accepted THEN "put" ELSE "rejected",
                    id |-> id, order |-> order, content |-> content]]
    BY <1>6 DEF SubmitValidate
  <2>2. [pc |-> IF content \in Accepted THEN "put" ELSE "rejected",
         id |-> id, order |-> order, content |-> content] \in Request
    BY DEF Request, RequestPC, Ids
  <2>3. ServiceTypeOK' /\ RequestsHaveJobs'
    BY <1>1, <1>6, <2>1, <2>2, StartType DEF SubmitValidate, Requests, Ids
  <2> QED BY <1>3, <1>4, <1>5, <1>6, <2>3 DEF SubmitValidate
<1>7. ASSUME NEW id \in SubmitIds, SubmitPutList(id) PROVE Good'
  <2>1. id \in Requests /\ id \in Ids /\ req[id].pc = "put" /\ req[id].content \in Contents
    BY <1>1, <1>7, ContentsAssumption DEF SubmitPutList, Requests, Ids, RequestsHaveJobs
  <2>2. ServiceTypeOK' /\ RequestsHaveJobs'
    BY <1>1, <1>7, <2>1, GoToType DEF SubmitPutList, RequestPC
  <2>3. BucketTypeOK'
    BY <1>1, <1>4, <1>7, <2>1, PutListType DEF SubmitPutList
  <2> QED BY <1>3, <1>5, <1>7, <2>2, <2>3 DEF SubmitPutList
<1>8. ASSUME NEW u \in UploadIds, UploadPresign(u) PROVE Good'
  <2>1. now + PresignTTL \in Nat
    BY <1>1, TimesAssumption
  <2>2. ServiceTypeOK' /\ RequestsHaveJobs'
    BY <1>1, <1>8, <2>1 DEF UploadPresign, ServiceTypeOK, RequestsHaveJobs
  <2> QED BY <1>3, <1>4, <1>5, <1>8, <2>2 DEF UploadPresign
<1>9. ASSUME NEW u \in UploadIds, ClientPut(u) PROVE Good'
  <2>1. BucketTypeOK'
    BY <1>1, <1>9, PutListType DEF ClientPut, Ids
  <2>2. ServiceTypeOK' /\ RequestsHaveJobs'
    BY <1>1, <1>9 DEF ClientPut, ServiceTypeOK, RequestsHaveJobs
  <2> QED BY <1>3, <1>5, <1>9, <2>1, <2>2 DEF ClientPut
<1>10. ASSUME NEW c \in Checks, CheckValidate(c) PROVE Good'
  <2>1. PICK id \in CheckIds, order \in Orders : \E content \in GetList(id) :
          req' = [req EXCEPT ![c] =
                   [pc |-> IF content \in Parsable THEN "status" ELSE "rejected",
                    id |-> id, order |-> order, content |-> content]]
    BY <1>10 DEF CheckValidate
  <2>2. id \in Ids /\ c \notin SubmitIds
    BY IdsAssumption
  <2>3. PICK content \in Contents \cup {NoList} :
          req' = [req EXCEPT ![c] =
                   [pc |-> IF content \in Parsable THEN "status" ELSE "rejected",
                    id |-> id, order |-> order, content |-> content]]
    BY <1>1, <2>1, <2>2, GetListType
  <2>4. [pc |-> IF content \in Parsable THEN "status" ELSE "rejected",
         id |-> id, order |-> order, content |-> content] \in Request
    BY <2>2 DEF Request, RequestPC
  <2>5. ServiceTypeOK' /\ RequestsHaveJobs'
    BY <1>1, <1>10, <2>2, <2>3, <2>4, StartType, ContentsAssumption DEF CheckValidate, Requests
  <2> QED BY <1>3, <1>4, <1>5, <1>10, <2>5 DEF CheckValidate
<1>11. ASSUME NEW r \in Requests, RequestSetStatus(r) PROVE Good'
  <2>1. req[r].id \in Ids /\ "queued" \in Statuses
    BY <1>1, <1>11 DEF RequestSetStatus, RequestsHaveJobs, Statuses
  <2>2. RedisTypeOK'
    BY <1>1, <1>11, <2>1, SetStatusType DEF RequestSetStatus
  <2>3. ServiceTypeOK' /\ RequestsHaveJobs'
    BY <1>1, <1>11, GoToType DEF RequestSetStatus, RequestPC
  <2> QED BY <1>4, <1>5, <1>11, <2>2, <2>3 DEF RequestSetStatus
<1>12. ASSUME NEW r \in Requests, RequestPush(r) PROVE Good'
  <2>1. JobOf(r) \in Job
    BY <1>1, <1>12, JobOfType DEF RequestPush
  <2>2. RedisTypeOK'
    BY <1>1, <1>3, <1>12, <2>1, PushType DEF RequestPush
  <2>3. ServiceTypeOK' /\ RequestsHaveJobs'
    BY <1>1, <1>12, GoToType DEF RequestPush, RequestPC
  <2> QED BY <1>4, <1>5, <1>12, <2>2, <2>3 DEF RequestPush
<1>13. ASSUME NEW r \in Requests, RequestDies(r) PROVE Good'
  <2>1. ServiceTypeOK' /\ RequestsHaveJobs'
    BY <1>1, <1>13, GoToType DEF RequestDies, RequestPC
  <2> QED BY <1>3, <1>4, <1>5, <1>13, <2>1 DEF RequestDies
<1>14. ASSUME NEW p \in Polls, PollStart(p) \/ PollResult(p) \/ PollStatus(p) PROVE Good'
  <2>1. UNCHANGED <<redisVars, bucketVars, req, url>>
    BY <1>14 DEF PollStart, PollResult, PollStatus
  <2>2. poll[p] \in Poll
    BY <1>1 DEF ServiceTypeOK
  <2>3. \E new \in Poll : poll' = [poll EXCEPT ![p] = new] /\ new.id \in Ids
    <3>1. CASE PollStart(p)
      <4>1. PICK id \in Ids : poll' = [poll EXCEPT ![p].pc = "result", ![p].id = id]
        BY <3>1 DEF PollStart
      <4>2. [poll[p] EXCEPT !.pc = "result", !.id = id] \in Poll
        BY <2>2 DEF Poll
      <4>3. poll' = [poll EXCEPT ![p] = [poll[p] EXCEPT !.pc = "result", !.id = id]]
        BY <1>1, <4>1 DEF ServiceTypeOK
      <4>4. [poll[p] EXCEPT !.pc = "result", !.id = id].id = id
        BY <2>2 DEF Poll
      <4> QED BY <4>2, <4>3, <4>4
    <3>2. CASE PollResult(p) \/ PollStatus(p)
      <4>1. poll[p].id \in Ids
        BY <1>1, <3>2 DEF ReadersHaveJobs, PollResult, PollStatus
      <4>2. \A s \in Statuses : Plain(s) \in Report
        BY Reports
      <4>3. (\E r \in Report : Answer(p, r)) \/ poll' = [poll EXCEPT ![p].pc = "status"]
        BY <1>1, <3>2, <4>1, <4>2, ReadsType DEF PollResult, PollStatus
      <4>4. CASE \E r \in Report : Answer(p, r)
        <5>1. PICK r \in Report : poll' = [poll EXCEPT ![p].pc = "idle", ![p].answer = r]
          BY <4>4 DEF Answer
        <5>2. [poll[p] EXCEPT !.pc = "idle", !.answer = r] \in Poll
          BY <2>2 DEF Poll
        <5>3. poll' = [poll EXCEPT ![p] = [poll[p] EXCEPT !.pc = "idle", !.answer = r]]
          BY <1>1, <5>1 DEF ServiceTypeOK
        <5>4. [poll[p] EXCEPT !.pc = "idle", !.answer = r].id = poll[p].id
          BY <2>2 DEF Poll
        <5> QED BY <4>1, <5>2, <5>3, <5>4
      <4>5. CASE poll' = [poll EXCEPT ![p].pc = "status"]
        <5>1. [poll[p] EXCEPT !.pc = "status"] \in Poll
          BY <2>2 DEF Poll
        <5>2. [poll[p] EXCEPT !.pc = "status"].id = poll[p].id
          BY <2>2 DEF Poll
        <5> QED BY <4>1, <4>5, <5>1, <5>2
      <4> QED BY <4>3, <4>4, <4>5
    <3> QED BY <1>14, <3>1, <3>2
  <2>4. ServiceTypeOK' /\ RequestsHaveJobs' /\ ReadersHaveJobs'
    BY <1>1, <1>2, <2>1, <2>3, PollType
  <2> QED BY <1>3, <1>4, <2>1, <2>4
<1> HIDE DEF Good
<1> QED BY <1>6, <1>7, <1>8, <1>9, <1>10, <1>11, <1>12, <1>13, <1>14
        DEF ServiceStep, ServiceNext

-----------------------------------------------------------------------------
(* The steps of the worker. *)

\* What the job loops and the clean-up loops keep, the snapshots aside.
LoopsTypeOK == work \in [Workers -> Work] /\ sweep \in [Workers -> Sweep]

\* A snapshot leaves everything alone but the bucket and its own progress.
LEMMA SnapshotKeeps ==
  ASSUME NEW w, TakeSnapshot(w)
  PROVE  UNCHANGED statsVars
BY DEF TakeSnapshot, SnapshotTotal, SnapshotSorted, SnapshotNotSorted, ReadCounter,
       SnapshotPutCounter, SnapshotRecent, SnapshotPutActivity

\* What is read has the type of what was counted and logged, and is written so.
LEMMA SnapshotTyped ==
  ASSUME Typed, NEW w \in Workers, TakeSnapshot(w)
  PROVE  BucketTypeOK' /\ SnapshotTypeOK'
<1>1. BucketTypeOK /\ StatsTypeOK /\ SnapshotTypeOK /\ snapshot[w] \in Snapshots
  BY DEF Typed, TypeOK, WorkerTypeOK, SnapshotTypeOK
<1>2. /\ UNCHANGED bucketVars => BucketTypeOK'
      /\ \A new \in Snapshots : snapshot' = [snapshot EXCEPT ![w] = new] => SnapshotTypeOK'
  BY <1>1 DEF bucketVars, BucketTypeOK, SnapshotTypeOK
<1>3. ASSUME NEW name \in CounterNames, NEW next \in SnapshotPC, ReadCounter(w, name, next)
      PROVE  BucketTypeOK' /\ SnapshotTypeOK'
  <2>1. counters[name] \in Nat
    BY <1>1 DEF StatsTypeOK, Reading
  <2> DEFINE new == [snapshot[w] EXCEPT !.pc = next, !.counts[name] = counters[name]]
  <2>2. new \in Snapshots
    BY <1>1, <2>1 DEF Snapshots, Reading
  <2>3. snapshot' = [snapshot EXCEPT ![w] = new] \/ snapshot' = [snapshot EXCEPT ![w] = Unstarted]
    BY <1>1, <1>3 DEF ReadCounter, SnapshotTypeOK
  <2> HIDE DEF new
  <2> QED BY <1>2, <1>3, <2>2, <2>3, UnstartedType DEF ReadCounter
<1>4. CASE SnapshotTotal(w) \/ SnapshotSorted(w) \/ SnapshotNotSorted(w)
  BY <1>3, <1>4
     DEF SnapshotTotal, SnapshotSorted, SnapshotNotSorted, CounterNames, SnapshotPC
<1>5. CASE SnapshotPutCounter(w)
  <2>1. BucketTypeOK'
    BY <1>1, <1>2, <1>5, ZenonT(60) DEF SnapshotPutCounter, PutState, BucketTypeOK, Snapshots
  <2>2. [Unstarted EXCEPT !.pc = "recent"] \in Snapshots
    BY UnstartedType DEF Snapshots, SnapshotPC
  <2> QED BY <1>2, <1>5, <2>1, <2>2 DEF SnapshotPutCounter
<1>6. CASE SnapshotRecent(w)
  <2>1. Recent \in Seq(Entry)
    BY <1>1, TimesAssumption DEF Recent, StatsTypeOK
  <2> DEFINE new == [snapshot[w] EXCEPT !.pc = "put_activity", !.entries = Recent]
  <2>2. new \in Snapshots
    BY <1>1, <2>1 DEF Snapshots, SnapshotPC
  <2>3. snapshot' = [snapshot EXCEPT ![w] = new] \/ snapshot' = [snapshot EXCEPT ![w] = Unstarted]
    BY <1>1, <1>6 DEF SnapshotRecent, SnapshotTypeOK
  <2> HIDE DEF new
  <2> QED BY <1>2, <1>6, <2>2, <2>3, UnstartedType DEF SnapshotRecent
<1>7. CASE SnapshotPutActivity(w)
  <2>1. {snapshot[w].entries} \in SUBSET Seq(Entry)
    BY <1>1 DEF Snapshots
  <2>2. [saved EXCEPT !["activity"] = {snapshot[w].entries}]
          \in [counter : SUBSET Reading, activity : SUBSET Seq(Entry)]
    BY <1>1, <2>1 DEF BucketTypeOK
  <2>3. BucketTypeOK'
    BY <1>1, <1>2, <1>7, <2>2 DEF SnapshotPutActivity, PutState, BucketTypeOK
  <2> QED BY <1>2, <1>7, <2>3, UnstartedType DEF SnapshotPutActivity
<1> QED BY <1>4, <1>5, <1>6, <1>7 DEF TakeSnapshot

\* A worker that takes its next step, with a job it can still work on.
LEMMA WorkType ==
  ASSUME WorkerTypeOK, WorkersHaveJobs, NEW w \in Workers,
         NEW new \in Work, work' = [work EXCEPT ![w] = new],
         new.pc # "pop" => new.id \in Ids,
         new.pc \in Recording => new.content \in Contents,
         new.pc \in Decided => new.outcome.status \in Final,
         new.pc \in Deciding => (new.outcome.status = "done" => new.content \in Contents),
         UNCHANGED sweep
  PROVE  LoopsTypeOK' /\ WorkersHaveJobs'
<1>1. LoopsTypeOK'
  BY DEF LoopsTypeOK, WorkerTypeOK
<1>2. \A v \in Workers : work'[v] = IF v = w THEN new ELSE work[v]
  BY DEF WorkerTypeOK
<1>3. WorkersHaveJobs'
  BY <1>2 DEF WorkersHaveJobs
<1> QED BY <1>1, <1>3

\* A worker that goes on to its next pc keeps its job, its list and its outcome.
LEMMA ProceedType ==
  ASSUME WorkerTypeOK, WorkersHaveJobs, NEW w \in Workers, NEW pc \in WorkPC,
         work[w].pc # "pop", Proceed(w, pc), UNCHANGED sweep,
         pc \in Recording => work[w].pc \in Recording \/ work[w].content \in Contents,
         pc \in Deciding => work[w].pc \in Deciding, pc \in Decided => work[w].pc \in Decided
  PROVE  LoopsTypeOK' /\ WorkersHaveJobs'
<1> DEFINE new == [work[w] EXCEPT !.pc = pc]
<1>1. /\ new \in Work /\ new.pc = pc /\ new.id = work[w].id
      /\ new.content = work[w].content /\ new.outcome = work[w].outcome
  BY DEF WorkerTypeOK, Work
<1>2. work' = [work EXCEPT ![w] = new]
  BY DEF Proceed
<1>3. work[w].id \in Ids /\ (pc \in Recording => work[w].content \in Contents)
  BY DEF WorkersHaveJobs
<1>4. /\ pc \in Decided => work[w].outcome.status \in Final
      /\ pc \in Deciding => (work[w].outcome.status = "done" => work[w].content \in Contents)
  BY DEF WorkersHaveJobs
<1> HIDE DEF new
<1> QED BY <1>1, <1>2, <1>3, <1>4, WorkType

LEMMA IdleType ==
  ASSUME WorkerTypeOK, WorkersHaveJobs, NEW w \in Workers,
         work' = [work EXCEPT ![w] = Idle], UNCHANGED sweep
  PROVE  LoopsTypeOK' /\ WorkersHaveJobs'
<1>1. Idle \in Work /\ Idle.pc = "pop"
  BY Reports DEF Idle, Work, WorkPC, Orders
<1> QED BY <1>1, WorkType DEF Recording, Deciding, Decided

LEMMA SweepType ==
  ASSUME WorkerTypeOK, WorkersHaveJobs, NEW w \in Workers, NEW new \in Sweep,
         sweep' = [sweep EXCEPT ![w] = new], UNCHANGED work
  PROVE  LoopsTypeOK' /\ WorkersHaveJobs'
BY DEF LoopsTypeOK, WorkerTypeOK, WorkersHaveJobs

\* The next prefix, and the end, are places of the clean-up.
LEMMA AfterPrefixType ==
  ASSUME NEW s \in Sweep
  PROVE  AfterPrefix(s) \in Sweep
<1>1. Resting \in Sweep
  BY DEF Resting, Sweep, Prefixes
<1>2. [s EXCEPT !.pc = "list", !.prefix = "results", !.todo = {}] \in Sweep
  BY DEF Sweep, Prefixes
<1> QED BY <1>1, <1>2 DEF AfterPrefix

LEMMA WorkerTyped ==
  ASSUME Typed, WorkerStep
  PROVE  Typed'
<1>1. /\ now \in Nat /\ RedisTypeOK /\ BucketTypeOK /\ PubSubTypeOK /\ StatsTypeOK
      /\ ServiceTypeOK /\ WorkerTypeOK /\ StreamTypeOK /\ HandlersTypeOK
      /\ RequestsHaveJobs /\ WorkersHaveJobs /\ ReadersHaveJobs
  BY DEF Typed, TypeOK
<1>2. /\ now' \in Nat /\ ServiceTypeOK' /\ StreamTypeOK' /\ HandlersTypeOK'
      /\ RequestsHaveJobs' /\ ReadersHaveJobs' /\ SentAgain'
  BY <1>1, WorkerOnlyTyped, SentAgainStays DEF WorkerStep, WorkerFrame
<1>3. UNCHANGED redisVars => RedisTypeOK'
  BY <1>1 DEF redisVars, RedisTypeOK
<1>4. UNCHANGED bucketVars => BucketTypeOK'
  BY <1>1 DEF bucketVars, BucketTypeOK
<1>5. UNCHANGED pubsubVars => PubSubTypeOK'
  BY <1>1 DEF pubsubVars, PubSubTypeOK
<1>6. UNCHANGED statsVars => StatsTypeOK'
  BY <1>1 DEF statsVars, StatsTypeOK
<1> DEFINE Good == /\ RedisTypeOK /\ BucketTypeOK /\ PubSubTypeOK /\ StatsTypeOK
                   /\ LoopsTypeOK /\ WorkersHaveJobs
<1> SUFFICES ASSUME NEW w \in Workers,
                    ProcessStep(w) \/ SweepStep(w) \/ SnapshotStep(w) \/ WorkerCrash(w)
             PROVE  Good' /\ SnapshotTypeOK'
  BY <1>2 DEF WorkerStep, WorkerNext, Typed, TypeOK, LoopsTypeOK, WorkerTypeOK, SentAgain
<1>0. CASE SnapshotStep(w)
  <2>1. BucketTypeOK' /\ SnapshotTypeOK'
    BY <1>0, SnapshotTyped DEF SnapshotStep
  <2>2. LoopsTypeOK' /\ WorkersHaveJobs' /\ StatsTypeOK'
    BY <1>0, <1>1, SnapshotKeeps
       DEF SnapshotStep, LoopsTypeOK, WorkerTypeOK, WorkersHaveJobs, statsVars, StatsTypeOK
  <2> QED BY <1>0, <1>3, <1>5, <2>1, <2>2 DEF SnapshotStep
<1> SUFFICES Good'
  <2>1. Unstarted \in Snapshots
    BY UnstartedType
  <2>2. UNCHANGED snapshot \/ snapshot' = [snapshot EXCEPT ![w] = Unstarted] => SnapshotTypeOK'
    BY <1>1, <2>1 DEF WorkerTypeOK, SnapshotTypeOK
  <2> QED BY <1>0, <2>2 DEF ProcessStep, SweepStep, WorkerCrash
<1> SUFFICES ASSUME ProcessStep(w) \/ SweepStep(w) \/ WorkerCrash(w) PROVE Good'
  BY <1>0
<1>7. work[w] \in Work /\ sweep[w] \in Sweep
  BY <1>1 DEF WorkerTypeOK
<1>8. /\ work[w].id \in Ids \cup {NoId} /\ work[w].order \in Orders
      /\ work[w].outcome \in Report
  BY <1>7 DEF Work
<1>9. work[w].pc # "pop" => work[w].id \in Ids
  BY <1>1 DEF WorkersHaveJobs
<1>10. ASSUME WorkerPop(w) PROVE Good'
  <2>1. RedisTypeOK' /\ Head(queue) \in Job
    BY <1>1, <1>10, PopType DEF WorkerPop
  <2> DEFINE new == [Idle EXCEPT !.pc = "announce", !.id = Head(queue).id,
                                 !.order = Head(queue).order]
  <2>2. new \in Work /\ new.pc = "announce" /\ new.id \in Ids
    BY <2>1, Reports DEF Idle, Work, WorkPC, Job
  <2> HIDE DEF new
  <2>3. CASE work' = [work EXCEPT ![w] = new]
    <3>1. LoopsTypeOK' /\ WorkersHaveJobs'
      BY <1>1, <1>10, <2>2, <2>3, WorkType DEF WorkerPop, Recording, Deciding, Decided
    <3> QED BY <1>4, <1>5, <1>6, <1>10, <2>1, <3>1 DEF WorkerPop
  <2>4. CASE UNCHANGED work
    <3>1. LoopsTypeOK' /\ WorkersHaveJobs'
      BY <1>1, <1>10, <2>4 DEF WorkerPop, LoopsTypeOK, WorkerTypeOK, WorkersHaveJobs
    <3> QED BY <1>4, <1>5, <1>6, <1>10, <2>1, <3>1 DEF WorkerPop
  <2> QED BY <1>10, <2>3, <2>4 DEF WorkerPop, new
<1>11. ASSUME NEW event \in Report, TryPublish(w, event), work[w].pc # "pop"
       PROVE  PubSubTypeOK'
  BY <1>1, <1>5, <1>9, <1>11, PublishType DEF TryPublish
<1>12. ASSUME Announce(w) PROVE Good'
  <2>1. Plain("processing") \in Report
    BY Reports DEF Statuses
  <2>2. PubSubTypeOK'
    BY <1>11, <1>12, <2>1 DEF Announce, At
  <2>3. LoopsTypeOK' /\ WorkersHaveJobs'
    BY <1>1, <1>12, ProceedType DEF Announce, At, WorkPC, Recording, Deciding, Decided
  <2> QED BY <1>3, <1>4, <1>6, <1>12, <2>2, <2>3 DEF Announce
<1>13. ASSUME Mark(w) PROVE Good'
  <2>1. RedisTypeOK'
    BY <1>1, <1>9, <1>13, SetStatusType DEF Mark, At, Statuses
  <2>2. LoopsTypeOK' /\ WorkersHaveJobs'
    BY <1>1, <1>13, ProceedType DEF Mark, At, WorkPC, Recording, Deciding, Decided
  <2> QED BY <1>4, <1>5, <1>6, <1>13, <2>1, <2>2 DEF Mark
<1>14. ASSUME Read(w) PROVE Good'
  <2>1. PICK content \in Contents \cup {NoList} :
          work' = [work EXCEPT ![w].pc = "set_result", ![w].content = content,
                     ![w].outcome = Outcome(content, work[w].order)]
    BY <1>1, <1>9, <1>14, GetListType DEF Read, At
  <2> DEFINE out == Outcome(content, work[w].order)
             new == [work[w] EXCEPT !.pc = "set_result", !.content = content, !.outcome = out]
  <2>2. out \in Report /\ out.status \in Final /\ (out.status = "done" => content \in Contents)
    BY <1>8, OutcomeType
  <2>3. work' = [work EXCEPT ![w] = new]
    BY <1>1, <2>1 DEF WorkerTypeOK
  <2> HIDE DEF out
  <2>4. /\ new \in Work /\ new.pc = "set_result" /\ new.id = work[w].id
        /\ new.content = content /\ new.outcome = out
    BY <1>7, <2>2 DEF Work, WorkPC
  <2> HIDE DEF new
  <2>5. LoopsTypeOK' /\ WorkersHaveJobs'
    BY <1>1, <1>9, <1>14, <2>2, <2>3, <2>4, WorkType DEF Read, At, Recording, Deciding, Decided
  <2> QED BY <1>3, <1>4, <1>5, <1>6, <1>14, <2>5 DEF Read
<1>15. ASSUME WriteResult(w) PROVE Good'
  <2>1. RedisTypeOK'
    BY <1>1, <1>8, <1>9, <1>15, SetResultType DEF WriteResult, At
  <2>2. LoopsTypeOK' /\ WorkersHaveJobs'
    BY <1>1, <1>15, ProceedType DEF WriteResult, At, WorkPC, Recording, Deciding, Decided
  <2> QED BY <1>4, <1>5, <1>6, <1>15, <2>1, <2>2 DEF WriteResult
<1>16. ASSUME WriteStatus(w) PROVE Good'
  <2>1. work[w].outcome.status \in Statuses
    BY <1>8 DEF Report
  <2>2. RedisTypeOK'
    BY <1>1, <1>9, <1>16, <2>1, SetStatusType DEF WriteStatus, At
  <2>3. work[w].outcome.status = "done" => work[w].content \in Contents
    BY <1>1, <1>16 DEF WriteStatus, At, WorkersHaveJobs, Deciding
  <2>4. LoopsTypeOK' /\ WorkersHaveJobs'
    BY <1>1, <1>16, <2>3, ProceedType DEF WriteStatus, At, WorkPC, Recording, Deciding, Decided
  <2> QED BY <1>4, <1>5, <1>6, <1>16, <2>2, <2>4 DEF WriteStatus
<1>17. ASSUME StoreResult(w) PROVE Good'
  <2>1. BucketTypeOK'
    BY <1>1, <1>4, <1>8, <1>9, <1>17, PutResultType DEF StoreResult, At
  <2>2. LoopsTypeOK' /\ WorkersHaveJobs'
    BY <1>1, <1>17, ProceedType DEF StoreResult, At, WorkPC, Recording, Deciding, Decided
  <2> QED BY <1>3, <1>5, <1>6, <1>17, <2>1, <2>2 DEF StoreResult
<1>18. ASSUME IncrementTotal(w) PROVE Good'
  <2>1. StatsTypeOK'
    BY <1>1, <1>6, <1>18, StatsType DEF IncrementTotal, CounterNames
  <2>2. LoopsTypeOK' /\ WorkersHaveJobs'
    BY <1>1, <1>18, ProceedType DEF IncrementTotal, At, WorkPC, Recording, Deciding, Decided
  <2> QED BY <1>3, <1>4, <1>5, <1>18, <2>1, <2>2 DEF IncrementTotal
<1>19. ASSUME IncrementVerdict(w) PROVE Good'
  <2>1. StatsTypeOK'
    BY <1>1, <1>6, <1>19, StatsType DEF IncrementVerdict, CounterNames, VerdictCounter
  <2>2. LoopsTypeOK' /\ WorkersHaveJobs'
    BY <1>1, <1>19, ProceedType DEF IncrementVerdict, At, WorkPC, Recording, Deciding, Decided
  <2> QED BY <1>3, <1>4, <1>5, <1>19, <2>1, <2>2 DEF IncrementVerdict
<1>20. ASSUME LogPush(w) PROVE Good'
  <2>1. work[w].content \in Contents /\ work[w].outcome.sorted \in BOOLEAN
    BY <1>1, <1>8, <1>20 DEF LogPush, At, WorkersHaveJobs, Recording, Report
  <2>2. [sorted |-> work[w].outcome.sorted, order |-> work[w].order,
         list |-> work[w].content] \in Entry
    BY <1>8, <2>1 DEF Entry
  <2>3. StatsTypeOK'
    BY <1>1, <1>6, <1>20, <2>2, StatsType DEF LogPush
  <2>4. LoopsTypeOK' /\ WorkersHaveJobs'
    BY <1>1, <1>20, ProceedType DEF LogPush, At, WorkPC, Recording, Deciding, Decided
  <2> QED BY <1>3, <1>4, <1>5, <1>20, <2>3, <2>4 DEF LogPush
<1>21. ASSUME LogTrim(w) PROVE Good'
  <2>1. StatsTypeOK'
    BY <1>1, <1>6, <1>21, StatsType DEF LogTrim
  <2>2. LoopsTypeOK' /\ WorkersHaveJobs'
    BY <1>1, <1>21, ProceedType DEF LogTrim, At, WorkPC, Recording, Deciding, Decided
  <2> QED BY <1>3, <1>4, <1>5, <1>21, <2>1, <2>2 DEF LogTrim
<1>22. ASSUME PublishOutcome(w) PROVE Good'
  <2>1. PubSubTypeOK'
    BY <1>8, <1>11, <1>22 DEF PublishOutcome, At
  <2>2. LoopsTypeOK' /\ WorkersHaveJobs'
    BY <1>1, <1>22, IdleType DEF PublishOutcome
  <2> QED BY <1>3, <1>4, <1>6, <1>22, <2>1, <2>2 DEF PublishOutcome
<1>23. ASSUME WorkerCrash(w) PROVE Good'
  <2>1. Idle \in Work /\ Idle.pc = "pop" /\ Resting \in Sweep
    <3>1. Idle \in Work /\ Idle.pc = "pop"
      BY Reports DEF Idle, Work, WorkPC, Orders
    <3>2. Resting \in Sweep
      BY DEF Resting, Sweep, Prefixes
    <3> QED BY <3>1, <3>2
  <2>2. LoopsTypeOK'
    BY <1>1, <1>23, <2>1 DEF WorkerCrash, LoopsTypeOK, WorkerTypeOK
  <2>3. \A v \in Workers : work'[v] = IF v = w THEN Idle ELSE work[v]
    BY <1>1, <1>23 DEF WorkerCrash, WorkerTypeOK
  <2>4. WorkersHaveJobs'
    BY <1>1, <2>1, <2>3 DEF WorkersHaveJobs, Recording, Deciding, Decided
  <2> QED BY <1>3, <1>4, <1>5, <1>6, <1>23, <2>2, <2>4 DEF WorkerCrash
<1>24. ASSUME SweepStart(w) PROVE Good'
  <2>1. now - CleanAge \in Int
    BY <1>1, TimesAssumption
  <2>2. [pc |-> "list", prefix |-> "lists", cutoff |-> now - CleanAge, todo |-> {}] \in Sweep
    BY <2>1 DEF Sweep, Prefixes
  <2>3. LoopsTypeOK' /\ WorkersHaveJobs'
    BY <1>1, <1>24, <2>2, SweepType DEF SweepStart
  <2> QED BY <1>3, <1>4, <1>5, <1>6, <1>24, <2>3 DEF SweepStart
<1>25. ASSUME SweepList(w) PROVE Good'
  <2> DEFINE old == {x \in Stored(sweep[w].prefix) :
                       modified[sweep[w].prefix][x] <= sweep[w].cutoff}
  <2>1. old \subseteq Ids
    BY DEF Stored
  <2>2. \/ sweep' = [sweep EXCEPT ![w].pc = "delete", ![w].todo = old]
        \/ sweep' = [sweep EXCEPT ![w] = AfterPrefix(sweep[w])]
    BY <1>25 DEF SweepList
  <2> HIDE DEF old
  <2>3. [sweep[w] EXCEPT !.pc = "delete", !.todo = old] \in Sweep
    BY <1>7, <2>1 DEF Sweep
  <2>4. AfterPrefix(sweep[w]) \in Sweep
    BY <1>7, AfterPrefixType
  <2>5. \E new \in Sweep : sweep' = [sweep EXCEPT ![w] = new]
    BY <1>1, <2>2, <2>3, <2>4 DEF WorkerTypeOK
  <2>6. LoopsTypeOK' /\ WorkersHaveJobs'
    BY <1>1, <1>25, <2>5, SweepType DEF SweepList
  <2> QED BY <1>3, <1>4, <1>5, <1>6, <1>25, <2>6 DEF SweepList
<1>26. ASSUME SweepDelete(w) PROVE Good'
  <2>1. PICK x \in sweep[w].todo :
          /\ Delete(sweep[w].prefix, x) \/ UNCHANGED bucketVars
          /\ LET rest == sweep[w].todo \ {x} IN
               sweep' = [sweep EXCEPT ![w] = IF rest = {} THEN AfterPrefix(sweep[w])
                                             ELSE [sweep[w] EXCEPT !.todo = rest]]
    BY <1>26 DEF SweepDelete
  <2>2. x \in Ids /\ sweep[w].prefix \in Prefixes
    BY <1>7 DEF Sweep
  <2>3. BucketTypeOK'
    BY <1>1, <1>4, <2>1, <2>2, DeleteType
  <2>4. AfterPrefix(sweep[w]) \in Sweep
    BY <1>7, AfterPrefixType
  <2>5. [sweep[w] EXCEPT !.todo = sweep[w].todo \ {x}] \in Sweep
    BY <1>7 DEF Sweep
  <2>6. LoopsTypeOK' /\ WorkersHaveJobs'
    BY <1>1, <1>26, <2>1, <2>4, <2>5, SweepType DEF SweepDelete
  <2> QED BY <1>3, <1>5, <1>6, <1>26, <2>3, <2>6 DEF SweepDelete
<1> HIDE DEF Good
<1> QED BY <1>10, <1>12, <1>13, <1>14, <1>15, <1>16, <1>17, <1>18, <1>19, <1>20, <1>21,
          <1>22, <1>23, <1>24, <1>25, <1>26 DEF ProcessStep, SweepStep

-----------------------------------------------------------------------------
(* The steps of the streams, and of the clock. *)

\* A stream that takes its next step has a job.
LEMMA StreamStepType ==
  ASSUME StreamTypeOK, ReadersHaveJobs, NEW s \in Streams,
         NEW new \in Stream, stream' = [stream EXCEPT ![s] = new], new.id \in Ids,
         UNCHANGED poll
  PROVE  StreamTypeOK' /\ ReadersHaveJobs'
<1>1. StreamTypeOK'
  BY DEF StreamTypeOK
<1>2. \A t \in Streams : stream'[t] = IF t = s THEN new ELSE stream[t]
  BY DEF StreamTypeOK
<1>3. ReadersHaveJobs'
  BY <1>2 DEF ReadersHaveJobs
<1> QED BY <1>1, <1>3

LEMMA CloseType ==
  ASSUME StreamTypeOK, ReadersHaveJobs, NEW s \in Streams, stream[s].pc # "idle",
         NEW report \in Report, NEW end \in Ends, CloseWith(s, report, end),
         UNCHANGED poll
  PROVE  StreamTypeOK' /\ ReadersHaveJobs'
<1> DEFINE new == [stream[s] EXCEPT !.pc = "closed", !.sent = report, !.end = end]
<1>1. new \in Stream /\ new.id = stream[s].id
  BY DEF StreamTypeOK, Stream, StreamPC
<1>2. stream' = [stream EXCEPT ![s] = new]
  BY DEF CloseWith, StreamTypeOK
<1>3. stream[s].id \in Ids
  BY DEF ReadersHaveJobs
<1> HIDE DEF new
<1> QED BY <1>1, <1>2, <1>3, StreamStepType

LEMMA SendStatusType ==
  ASSUME StreamTypeOK, ReadersHaveJobs, NEW s \in Streams, stream[s].pc # "idle",
         NEW st \in Statuses, NEW pc \in StreamPC, SendStatus(s, st, pc),
         UNCHANGED poll
  PROVE  StreamTypeOK' /\ ReadersHaveJobs'
<1> DEFINE new == [stream[s] EXCEPT !.seen = st, !.pc = pc]
<1>1. new \in Stream /\ new.id = stream[s].id
  BY DEF StreamTypeOK, Stream
<1>2. stream' = [stream EXCEPT ![s] = new]
  BY DEF SendStatus, StreamTypeOK
<1>3. stream[s].id \in Ids
  BY DEF ReadersHaveJobs
<1> HIDE DEF new
<1> QED BY <1>1, <1>2, <1>3, StreamStepType

LEMMA EventTyped ==
  ASSUME Typed, EventStep
  PROVE  Typed'
<1>1. /\ now \in Nat /\ RedisTypeOK /\ BucketTypeOK /\ PubSubTypeOK /\ StatsTypeOK
      /\ ServiceTypeOK /\ WorkerTypeOK /\ StreamTypeOK /\ HandlersTypeOK
      /\ RequestsHaveJobs /\ WorkersHaveJobs /\ ReadersHaveJobs
  BY DEF Typed, TypeOK
<1>2. /\ now' \in Nat /\ BucketTypeOK' /\ StatsTypeOK' /\ ServiceTypeOK' /\ WorkerTypeOK'
      /\ HandlersTypeOK' /\ RequestsHaveJobs' /\ WorkersHaveJobs' /\ SentAgain'
      /\ UNCHANGED poll
  BY <1>1, SentAgainStays DEF EventStep, EventFrame, bucketVars, statsVars, serviceVars, workerVars,
       handlerVars, BucketTypeOK, StatsTypeOK, ServiceTypeOK, WorkerTypeOK, SnapshotTypeOK,
       HandlersTypeOK, RequestsHaveJobs, WorkersHaveJobs
<1>3. UNCHANGED redisVars => RedisTypeOK'
  BY <1>1 DEF redisVars, RedisTypeOK
<1>4. UNCHANGED pubsubVars => PubSubTypeOK'
  BY <1>1 DEF pubsubVars, PubSubTypeOK
<1>5. UNCHANGED streamVars => StreamTypeOK' /\ ReadersHaveJobs'
  BY <1>1, <1>2 DEF streamVars, StreamTypeOK, ReadersHaveJobs
<1> DEFINE Good == RedisTypeOK /\ PubSubTypeOK /\ StreamTypeOK /\ ReadersHaveJobs
<1> SUFFICES Good'
  BY <1>2 DEF Typed, TypeOK, SentAgain
<1> SUFFICES ASSUME NEW s \in Streams,
                    \/ StreamStep(s) \/ StreamTimeout(s) \/ StreamGone(s)
                    \/ SubscriptionTakesEffect(s) \/ SubscriptionBreaks(s)
             PROVE  Good'
  BY DEF EventStep, StreamNext
<1>6. /\ stream[s] \in Stream /\ stream[s].sent \in Report /\ stream[s].seen \in Statuses
      /\ inbox[s] \in Inbox
      /\ stream[s].pc # "idle" => stream[s].id \in Ids
  BY <1>1 DEF StreamTypeOK, Stream, PubSubTypeOK, ReadersHaveJobs
<1>7. NoId \notin Ids /\ NoReport \in Report
  BY NoneAssumption, Reports
<1>8. ASSUME StreamOpen(s) PROVE Good'
  <2>1. PICK id \in Ids : \E st \in GetStatus(id) :
          stream' = [stream EXCEPT ![s].id = id,
            ![s].pc = IF st = "none" THEN "closed"
                      ELSE IF st \in Final THEN "first" ELSE "subscribe",
            ![s].end = IF st = "none" THEN "not_found" ELSE "open",
            ![s].seen = st]
    BY <1>8 DEF StreamOpen
  <2>2. PICK st \in Statuses :
          stream' = [stream EXCEPT ![s].id = id,
            ![s].pc = IF st = "none" THEN "closed"
                      ELSE IF st \in Final THEN "first" ELSE "subscribe",
            ![s].end = IF st = "none" THEN "not_found" ELSE "open",
            ![s].seen = st]
    BY <1>1, <2>1, ReadsType
  <2> DEFINE new == [stream[s] EXCEPT !.id = id,
            !.pc = IF st = "none" THEN "closed"
                   ELSE IF st \in Final THEN "first" ELSE "subscribe",
            !.end = IF st = "none" THEN "not_found" ELSE "open",
            !.seen = st]
  <2>3. new \in Stream /\ new.id = id
    BY <1>6 DEF Stream, StreamPC, Ends
  <2>4. stream' = [stream EXCEPT ![s] = new]
    BY <1>1, <2>2 DEF StreamTypeOK
  <2> HIDE DEF new
  <2>5. StreamTypeOK' /\ ReadersHaveJobs'
    BY <1>1, <1>2, <2>3, <2>4, StreamStepType
  <2> QED BY <1>3, <1>4, <1>8, <2>5 DEF StreamOpen
<1>9. ASSUME StreamFirstResult(s) PROVE Good'
  <2>1. GetResult(stream[s].id) \subseteq Report /\ stream[s].pc # "idle"
    BY <1>1, <1>6, <1>9, ReadsType DEF StreamFirstResult
  <2>2. \/ \E r \in Report : CloseWith(s, r, "result")
        \/ SendStatus(s, stream[s].seen, "subscribe")
    BY <1>9, <2>1 DEF StreamFirstResult
  <2>3. StreamTypeOK' /\ ReadersHaveJobs'
    BY <1>1, <1>2, <1>6, <2>1, <2>2, CloseType, SendStatusType DEF StreamPC, Ends
  <2> QED BY <1>3, <1>4, <1>9, <2>3 DEF StreamFirstResult
<1>10. ASSUME StreamSubscribe(s) PROVE Good'
  <2>1. PubSubTypeOK'
    BY <1>1, <1>6, <1>10, SubscriptionType DEF StreamSubscribe
  <2>2. SendStatus(s, stream[s].seen, "again") => StreamTypeOK' /\ ReadersHaveJobs'
    BY <1>1, <1>2, <1>6, <1>10, SendStatusType DEF StreamSubscribe, StreamPC
  <2>3. SendStatus(s, stream[s].seen, "again")
    BY <1>1, <1>6, <1>10 DEF StreamSubscribe, SendStatus, StreamTypeOK, Stream
  <2> QED BY <1>3, <1>10, <2>1, <2>2, <2>3 DEF StreamSubscribe
<1>11. ASSUME StreamAgain(s) PROVE Good'
  <2>1. PICK pc \in {"second", "loop"}, known \in BOOLEAN :
          stream' = [stream EXCEPT ![s].pc = pc, ![s].covered = known]
    BY <1>11, Zenon DEF StreamAgain
  <2> DEFINE new == [stream[s] EXCEPT !.pc = pc, !.covered = known]
  <2>2. new \in Stream /\ new.id = stream[s].id
    BY <1>6 DEF Stream, StreamPC
  <2>3. stream' = [stream EXCEPT ![s] = new]
    BY <1>1, <2>1 DEF StreamTypeOK
  <2> HIDE DEF new
  <2>4. StreamTypeOK' /\ ReadersHaveJobs'
    BY <1>1, <1>2, <1>6, <1>11, <2>2, <2>3, StreamStepType DEF StreamAgain
  <2> QED BY <1>3, <1>4, <1>11, <2>4 DEF StreamAgain
<1>12. ASSUME StreamSecondResult(s) PROVE Good'
  <2>1. GetResult(stream[s].id) \subseteq Report /\ stream[s].id \in Ids
    BY <1>1, <1>6, <1>12, ReadsType DEF StreamSecondResult
  <2>2. CASE \E r \in Report : CloseWith(s, r, "result") /\ Cancel(s)
    <3>1. StreamTypeOK' /\ ReadersHaveJobs'
      BY <1>1, <1>2, <1>12, <2>2, CloseType DEF StreamSecondResult, Ends
    <3>2. PubSubTypeOK'
      BY <1>1, <2>1, <2>2, SubscriptionType
    <3> QED BY <1>3, <1>12, <3>1, <3>2 DEF StreamSecondResult
  <2>3. CASE stream' = [stream EXCEPT ![s].pc = "loop"] /\ UNCHANGED pubsubVars
    <3>1. SendStatus(s, stream[s].seen, "loop")
      BY <1>1, <1>6, <2>3 DEF SendStatus, StreamTypeOK, Stream
    <3>2. StreamTypeOK' /\ ReadersHaveJobs'
      BY <1>1, <1>2, <1>6, <1>12, <3>1, SendStatusType DEF StreamSecondResult, StreamPC
    <3> QED BY <1>3, <1>4, <1>12, <2>3, <3>2 DEF StreamSecondResult
  <2> QED BY <1>12, <2>1, <2>2, <2>3 DEF StreamSecondResult
<1>13. ASSUME StreamReceive(s) PROVE Good'
  <2> DEFINE event == Head(inbox[s].events)
  <2>1. event \in Report /\ Tail(inbox[s].events) \in Seq(Report)
    BY <1>6, <1>13 DEF Inbox, StreamReceive
  <2>2. event.status \in Statuses /\ stream[s].id \in Ids
    BY <1>6, <1>13, <2>1 DEF Report, StreamReceive
  <2>3. CASE CloseWith(s, event, "result") /\ Cancel(s)
    <3>1. StreamTypeOK' /\ ReadersHaveJobs'
      BY <1>1, <1>2, <1>13, <2>1, <2>3, CloseType DEF StreamReceive, Ends
    <3>2. PubSubTypeOK'
      BY <1>1, <2>2, <2>3, SubscriptionType
    <3> QED BY <1>3, <1>13, <3>1, <3>2 DEF StreamReceive
  <2>4. CASE /\ SendStatus(s, event.status, "loop")
             /\ inbox' = [inbox EXCEPT ![s].events = Tail(@)]
    <3>1. StreamTypeOK' /\ ReadersHaveJobs'
      BY <1>1, <1>2, <1>13, <2>2, <2>4, SendStatusType DEF StreamReceive, StreamPC
    <3>2. [inbox[s] EXCEPT !.events = Tail(inbox[s].events)] \in Inbox
      BY <1>6, <2>1 DEF Inbox
    <3>3. PubSubTypeOK'
      BY <1>1, <2>4, <3>2 DEF PubSubTypeOK
    <3> QED BY <1>3, <1>13, <3>1, <3>3 DEF StreamReceive
  <2> QED BY <1>13, <2>3, <2>4 DEF StreamReceive
<1>14. ASSUME StreamTimeout(s) \/ StreamGone(s) PROVE Good'
  <2>1. /\ UNCHANGED redisVars /\ Cancel(s) /\ stream[s].pc # "idle"
        /\ \E end \in Ends : CloseWith(s, stream[s].sent, end)
    BY <1>14 DEF StreamTimeout, StreamGone, Close, Ends
  <2>2. StreamTypeOK' /\ ReadersHaveJobs'
    BY <1>1, <1>2, <1>6, <2>1, CloseType
  <2>3. PubSubTypeOK'
    BY <1>1, <1>6, <2>1, SubscriptionType
  <2> QED BY <1>3, <2>1, <2>2, <2>3
<1>15. ASSUME SubscriptionTakesEffect(s) \/ SubscriptionBreaks(s) PROVE Good'
  <2>1. \A l \in {"no", "sent", "yes"} : [inbox[s] EXCEPT !.live = l] \in Inbox
    BY <1>6 DEF Inbox
  <2>2. PubSubTypeOK'
    BY <1>1, <1>15, <2>1
       DEF SubscriptionTakesEffect, SubscriptionBreaks, PubSubTypeOK, Activate, Reconnect
  <2> DEFINE new == [stream[s] EXCEPT !.covered = FALSE]
  <2>3. new \in Stream /\ new.id = stream[s].id /\ new.pc = stream[s].pc
    BY <1>6 DEF Stream
  <2>4. stream' = [stream EXCEPT ![s] = new] \/ UNCHANGED streamVars
    BY <1>1, <1>15 DEF SubscriptionTakesEffect, SubscriptionBreaks, StreamTypeOK
  <2> HIDE DEF new
  <2>5. StreamTypeOK' /\ ReadersHaveJobs'
    <3>1. CASE stream' = [stream EXCEPT ![s] = new]
      <4>1. \A t \in Streams : stream'[t] = IF t = s THEN new ELSE stream[t]
        BY <1>1, <3>1 DEF StreamTypeOK
      <4>2. StreamTypeOK'
        BY <1>1, <2>3, <3>1 DEF StreamTypeOK
      <4> QED BY <1>1, <1>2, <2>3, <4>1, <4>2 DEF ReadersHaveJobs
    <3> QED BY <1>5, <2>4, <3>1
  <2> QED BY <1>3, <1>15, <2>2, <2>5 DEF SubscriptionTakesEffect, SubscriptionBreaks
<1> HIDE DEF Good
<1> QED BY <1>8, <1>9, <1>10, <1>11, <1>12, <1>13, <1>14, <1>15 DEF StreamStep

\* A page that loads the counters gets numbers.
LEMMA HandlersTyped ==
  ASSUME Typed, HandlersStep
  PROVE  Typed'
<1>1. /\ RedisTypeOK' /\ BucketTypeOK' /\ PubSubTypeOK' /\ StatsTypeOK' /\ now' \in Nat
      /\ ServiceTypeOK' /\ WorkerTypeOK' /\ StreamTypeOK'
      /\ RequestsHaveJobs' /\ WorkersHaveJobs' /\ ReadersHaveJobs' /\ SentAgain'
  BY SentAgainStays DEF Typed, TypeOK, HandlersStep, HandlersFrame, redisVars, bucketVars, pubsubVars,
         statsVars, serviceVars, workerVars, streamVars, RedisTypeOK, BucketTypeOK,
         PubSubTypeOK, StatsTypeOK, ServiceTypeOK, WorkerTypeOK, SnapshotTypeOK,
         StreamTypeOK, RequestsHaveJobs, WorkersHaveJobs, ReadersHaveJobs
<1>2. PICK c \in Counts : CountRead(c)
  BY DEF HandlersStep, HandlersNext
<1>3. count \in [Counts -> Count] /\ count[c] \in Count /\ counters \in Reading
  BY DEF Typed, TypeOK, HandlersTypeOK, StatsTypeOK
<1> DEFINE name == ReadOrder[count[c].reads + 1]
           counts == [count[c].counts EXCEPT ![name] = counters[name]]
<1>4. name \in CounterNames
  BY <1>3 DEF Count, ReadOrder, CounterNames
<1>5. counts \in Reading
  <2> HIDE DEF name
  <2> QED BY <1>3, <1>4 DEF Count, Reading
<1>6. \A a \in Reading : Answered(a) \in Count
  BY DEF Answered, Count, Zeros, Reading
<1>7. Zeros \in Reading
  BY DEF Zeros, Reading
<1> HIDE DEF counts
<1>8. \E new \in Count : count' = [count EXCEPT ![c] = new]
  <2>1. CASE count[c].reads < 2 /\ count' = [count EXCEPT ![c].reads = count[c].reads + 1,
                                                         ![c].counts = counts]
    <3>1. count[c].reads + 1 \in 0..2
      BY <1>3, <2>1 DEF Count
    <3>2. [count[c] EXCEPT !.reads = count[c].reads + 1, !.counts = counts] \in Count
      BY <1>3, <1>5, <3>1 DEF Count
    <3> QED BY <1>3, <2>1, <3>2
  <2>2. CASE \E a \in Reading : count' = [count EXCEPT ![c] = Answered(a)]
    BY <1>6, <2>2
  <2> QED BY <1>2, <1>5, <1>7, <2>1, <2>2 DEF CountRead, counts
<1>9. HandlersTypeOK'
  BY <1>3, <1>8 DEF HandlersTypeOK
<1> QED BY <1>1, <1>9 DEF Typed, TypeOK, SentAgain

\* A command that is sent again.
LEMMA ResendTyped ==
  ASSUME Typed, ResendStep
  PROVE  Typed'
<1>1. /\ now \in Nat /\ RedisTypeOK /\ BucketTypeOK /\ PubSubTypeOK /\ StatsTypeOK
      /\ ServiceTypeOK /\ WorkerTypeOK /\ SnapshotTypeOK /\ StreamTypeOK /\ HandlersTypeOK
      /\ RequestsHaveJobs /\ WorkersHaveJobs /\ ReadersHaveJobs /\ SentAgain
  BY DEF Typed, TypeOK, WorkerTypeOK
<1>2. ASSUME LosesReply PROVE resends' \in Nat /\ RedisMayFail
  BY <1>1, <1>2 DEF LosesReply, SentAgain
<1>3. ASSUME UNCHANGED redisVars PROVE RedisTypeOK'
  BY <1>1, <1>3 DEF redisVars, RedisTypeOK
<1>4. ASSUME UNCHANGED bucketVars PROVE BucketTypeOK'
  BY <1>1, <1>4 DEF bucketVars, BucketTypeOK
<1>5. ASSUME NEW r \in Requests, RequestSendsAgain(r), ServiceOnly PROVE Typed'
  <2>1. /\ now' \in Nat /\ PubSubTypeOK' /\ StatsTypeOK' /\ WorkerTypeOK' /\ StreamTypeOK'
        /\ HandlersTypeOK' /\ WorkersHaveJobs' /\ UNCHANGED stream
    BY <1>5, ServiceOnlyTyped
  <2>2. ServiceTypeOK' /\ RequestsHaveJobs' /\ ReadersHaveJobs'
    BY <1>1, <1>5, <2>1 DEF RequestSendsAgain, serviceVars, ServiceTypeOK, RequestsHaveJobs,
         ReadersHaveJobs
  <2>3. req[r].id \in Ids /\ "queued" \in Statuses /\ JobOf(r) \in Job
    BY <1>1, <1>5, JobOfType DEF RequestSendsAgain, RequestsHaveJobs, Statuses
  <2>4. RedisTypeOK'
    BY <1>1, <1>5, <2>3, SetStatusType, PushType DEF RequestSendsAgain
  <2>5. SentAgain'
    BY <1>1, <1>2, <1>5 DEF RequestSendsAgain, SentAgain, RedisMayFail
  <2>6. BucketTypeOK'
    BY <1>4, <1>5 DEF RequestSendsAgain
  <2> QED BY <2>1, <2>2, <2>4, <2>5, <2>6 DEF Typed, TypeOK, SentAgain
<1>6. ASSUME NEW w \in Workers, WorkerSendsAgain(w), WorkerOnly PROVE Typed'
  <2>1. /\ now' \in Nat /\ ServiceTypeOK' /\ StreamTypeOK' /\ HandlersTypeOK'
        /\ RequestsHaveJobs' /\ ReadersHaveJobs'
    BY <1>6, WorkerOnlyTyped
  <2>2. SentAgain' /\ BucketTypeOK' /\ SnapshotTypeOK'
    BY <1>1, <1>2, <1>4, <1>6
       DEF WorkerSendsAgain, SentAgain, RedisMayFail, SnapshotTypeOK
  <2>3. UNCHANGED work => LoopsTypeOK' /\ WorkersHaveJobs'
    BY <1>1, <1>6 DEF WorkerSendsAgain, LoopsTypeOK, WorkerTypeOK, WorkersHaveJobs
  <2>4. /\ work[w] \in Work /\ work[w].outcome \in Report
        /\ work[w].outcome.status \in Statuses
        /\ work[w].pc # "pop" => work[w].id \in Ids
    BY <1>1 DEF WorkerTypeOK, Work, Report, WorkersHaveJobs
  <2> DEFINE Good == RedisTypeOK /\ PubSubTypeOK /\ StatsTypeOK /\ LoopsTypeOK /\ WorkersHaveJobs
  <2> SUFFICES Good'
    BY <2>1, <2>2 DEF Typed, TypeOK, SentAgain, LoopsTypeOK, WorkerTypeOK
  <2>5. ASSUME UNCHANGED pubsubVars PROVE PubSubTypeOK'
    BY <1>1, <2>5 DEF pubsubVars, PubSubTypeOK
  <2>6. ASSUME UNCHANGED statsVars PROVE StatsTypeOK'
    BY <1>1, <2>6 DEF statsVars, StatsTypeOK
  <2>7. CASE /\ \/ At(w, "mark") /\ SetStatus(work[w].id, "processing")
                \/ At(w, "set_result") /\ SetResult(work[w].id, work[w].outcome)
                \/ At(w, "set_status") /\ SetStatus(work[w].id, work[w].outcome.status)
             /\ UNCHANGED <<pubsubVars, statsVars, work>>
    <3>1. RedisTypeOK'
      BY <1>1, <2>4, <2>7, SetStatusType, SetResultType DEF At, Statuses
    <3> QED BY <2>3, <2>5, <2>6, <2>7, <3>1
  <2>8. CASE /\ \/ At(w, "announce") /\ Publish(work[w].id, Plain("processing"))
                \/ At(w, "publish") /\ Publish(work[w].id, work[w].outcome)
             /\ UNCHANGED <<redisVars, statsVars, work>>
    <3>1. Plain("processing") \in Report
      BY Reports DEF Statuses
    <3>2. PubSubTypeOK'
      BY <1>1, <2>4, <2>8, <3>1, PublishType DEF At
    <3> QED BY <1>3, <2>3, <2>6, <2>8, <3>2
  <2>9. CASE /\ \/ /\ At(w, "incr_verdict") /\ Proceed(w, "incr_total")
                   /\ Incr(VerdictCounter(w)) \/ UNCHANGED statsVars
                \/ /\ At(w, "log_trim") /\ Proceed(w, "log_push")
                   /\ LTrim \/ UNCHANGED statsVars
             /\ UNCHANGED <<redisVars, pubsubVars>>
    <3>1. StatsTypeOK'
      BY <1>1, <2>6, <2>9, StatsType DEF CounterNames, VerdictCounter
    <3>2. UNCHANGED sweep
      BY <1>6 DEF WorkerSendsAgain
    <3>3. LoopsTypeOK' /\ WorkersHaveJobs'
      BY <1>1, <2>9, <3>2, ProceedType DEF At, WorkPC, Recording, Deciding, Decided
    <3> QED BY <1>3, <2>5, <2>9, <3>1, <3>3
  <2> HIDE DEF Good
  <2> QED BY <1>6, <2>7, <2>8, <2>9 DEF WorkerSendsAgain
<1> QED BY <1>5, <1>6 DEF ResendStep

LEMMA TickTyped ==
  ASSUME Typed, Tick
  PROVE  Typed'
<1>1. now' \in Nat /\ RedisTypeOK'
  BY ExpireType DEF Typed, TypeOK, Tick
<1>2. BucketTypeOK' /\ PubSubTypeOK' /\ StatsTypeOK'
  BY DEF Typed, TypeOK, Tick, bucketVars, pubsubVars, statsVars,
         BucketTypeOK, PubSubTypeOK, StatsTypeOK
<1>3. ServiceTypeOK' /\ WorkerTypeOK' /\ StreamTypeOK' /\ HandlersTypeOK'
  BY DEF Typed, TypeOK, Tick, serviceVars, workerVars, streamVars, handlerVars,
         ServiceTypeOK, WorkerTypeOK, SnapshotTypeOK, StreamTypeOK, HandlersTypeOK
<1>4. RequestsHaveJobs' /\ WorkersHaveJobs' /\ ReadersHaveJobs' /\ SentAgain'
  BY SentAgainStays DEF Typed, Tick, serviceVars, workerVars, streamVars,
         RequestsHaveJobs, WorkersHaveJobs, ReadersHaveJobs
<1> QED BY <1>1, <1>2, <1>3, <1>4 DEF Typed, TypeOK, SentAgain

LEMMA StutterTyped ==
  ASSUME Typed, UNCHANGED vars
  PROVE  Typed'
<1>1. RedisTypeOK' /\ BucketTypeOK' /\ PubSubTypeOK' /\ StatsTypeOK' /\ now' \in Nat
  BY DEF Typed, TypeOK, vars, redisVars, bucketVars, pubsubVars, statsVars,
         RedisTypeOK, BucketTypeOK, PubSubTypeOK, StatsTypeOK
<1>2. ServiceTypeOK' /\ WorkerTypeOK' /\ StreamTypeOK' /\ HandlersTypeOK'
  BY DEF Typed, TypeOK, vars, serviceVars, workerVars, streamVars, handlerVars,
         ServiceTypeOK, WorkerTypeOK, SnapshotTypeOK, StreamTypeOK, HandlersTypeOK
<1>3. RequestsHaveJobs' /\ WorkersHaveJobs' /\ ReadersHaveJobs' /\ SentAgain'
  BY SentAgainStays DEF Typed, vars, serviceVars, workerVars, streamVars,
         RequestsHaveJobs, WorkersHaveJobs, ReadersHaveJobs
<1> QED BY <1>1, <1>2, <1>3 DEF Typed, TypeOK, SentAgain

LEMMA NextTyped == Typed /\ [Next]_vars => Typed'
BY ServiceTyped, WorkerTyped, EventTyped, HandlersTyped, ResendTyped, TickTyped, StutterTyped
   DEF Next

\* The types, and the jobs that the types need, are invariant.
LEMMA TypedInvariant == Spec => []Typed
BY InitTyped, NextTyped, PTL DEF Spec

\* Every variable keeps its type: whatever is stored, queued, published or
\* answered is of the form that its readers expect, whatever fails.
THEOREM TypeCorrect == Spec => []TypeOK
<1>1. Typed => TypeOK
  BY DEF Typed
<1> QED BY TypedInvariant, <1>1, PTL
-----------------------------------------------------------------------------
(***************************************************************************)
(* Every verdict is right.  The parts of the invariant are operators of    *)
(* the requests rq, those tw that have pushed their job once more, the     *)
(* lists ls and what they speak of, so that the same operator says what    *)
(* holds before and after a step.                                          *)
(***************************************************************************)

\* The requests that have stored their list, if all went well, and gone on.
Past == {"status", "push", "created", "failed"}
Over == {"created", "failed"}
Loss == S3MayFail \/ MaxTime > 0

\* The list submitted as id is there for the worker, unless lists get lost.
Kept(rq, ls, id) == rq[id].pc \in Past /\ (ls[id] # NoList \/ Loss)
Asked(rq, tw, id, order) ==
  \E q \in Requests : /\ rq[q].id = id /\ rq[q].order = order
                      /\ rq[q].pc \in Over \/ (q \in tw /\ rq[q].pc \in Past)

\* RightReport, and a final report comes after the list.
Fine(rq, tw, id, r) ==
  r.status \in Final =>
    /\ rq[id].pc \in Past
    /\ r.status = "done" =>
         \E o \in Orders : Asked(rq, tw, id, o) /\ r.sorted = Check(rq[id].content, o)
    /\ r.status = "error" =>
         IF r.error = "parse" THEN rq[id].content \notin Parsable
                              ELSE r.error = "read" /\ Loss

ListsAreSubmitted ==
  \A id \in SubmitIds :
    lists[id] # NoList => req[id].pc \in Past /\ lists[id] = req[id].content
RequestsAreKept ==
  \A r \in Requests : req[r].pc \in Past \ {"failed"} /\ req[r].id \in SubmitIds
    => Kept(req, lists, req[r].id)
JobsAreAsked ==
  \A k \in 1..Len(queue) : queue[k].id \in SubmitIds
    => Kept(req, lists, queue[k].id) /\ Asked(req, twice, queue[k].id, queue[k].order)
WorkIsAsked ==
  \A w \in Workers : work[w].pc # "pop" /\ work[w].id \in SubmitIds
    => /\ Kept(req, lists, work[w].id) /\ Asked(req, twice, work[w].id, work[w].order)
       /\ work[w].pc \notin {"announce", "mark", "read"}
            => Fine(req, twice, work[w].id, work[w].outcome)
ReportsAreFine ==
  \A id \in SubmitIds : Fine(req, twice, id, result[id]) /\ Fine(req, twice, id, results[id])
EventsAreFine ==
  \A s \in Streams : inbox[s].topic \in SubmitIds
    => \A k \in 1..Len(inbox[s].events) : Fine(req, twice, inbox[s].topic, inbox[s].events[k])
StreamsAreFine ==
  \A s \in Streams :
    /\ stream[s].id \in SubmitIds => Fine(req, twice, stream[s].id, stream[s].sent)
    /\ stream[s].pc = "idle" => stream[s].sent = NoReport
    /\ stream[s].pc \in {"again", "second", "loop"} => inbox[s].topic = stream[s].id
NoSweep == MaxTime = 0 => \A w \in Workers : sweep[w].pc = "idle"

VerdictInv ==
  /\ ListsAreSubmitted /\ RequestsAreKept /\ JobsAreAsked /\ WorkIsAsked
  /\ ReportsAreFine /\ EventsAreFine /\ StreamsAreFine /\ NoSweep

-----------------------------------------------------------------------------
(* What was right stays right while requests go on and lists stay. *)

Grows(rq, new) ==
  \A r \in Requests :
    /\ rq[r].pc \in Past =>
         /\ new[r].pc \in Past
         /\ new[r].id = rq[r].id /\ new[r].order = rq[r].order
         /\ new[r].content = rq[r].content
    /\ rq[r].pc \in Over => new[r].pc \in Over
Keeps(ls, new) == \A id \in SubmitIds : ls[id] # NoList => new[id] # NoList \/ Loss

LEMMA SubmitsAreRequests == SubmitIds \subseteq Requests /\ SubmitIds \subseteq Ids
BY DEF Requests, Ids

LEMMA AskedGrows ==
  ASSUME NEW rq, NEW new, Grows(rq, new), NEW tw, NEW tn, tw \subseteq tn,
         NEW id, NEW order, Asked(rq, tw, id, order)
  PROVE  Asked(new, tn, id, order)
BY DEF Grows, Asked, Past, Over

LEMMA FineGrows ==
  ASSUME NEW rq, NEW new, Grows(rq, new), NEW tw, NEW tn, tw \subseteq tn,
         NEW id \in SubmitIds, NEW r, Fine(rq, tw, id, r)
  PROVE  Fine(new, tn, id, r)
<1>1. \A o \in Orders : Asked(rq, tw, id, o) => Asked(new, tn, id, o)
  BY AskedGrows
<1>2. rq[id].pc \in Past => new[id].pc \in Past /\ new[id].content = rq[id].content
  BY SubmitsAreRequests DEF Grows
<1> QED BY <1>1, <1>2 DEF Fine

LEMMA KeptGrows ==
  ASSUME NEW rq, NEW new, Grows(rq, new), NEW ls, NEW after, Keeps(ls, after),
         NEW id \in SubmitIds, Kept(rq, ls, id)
  PROVE  Kept(new, after, id)
BY SubmitsAreRequests DEF Grows, Keeps, Kept

LEMMA Unchanging ==
  ASSUME NEW rq, NEW ls
  PROVE  Grows(rq, rq) /\ Keeps(ls, ls)
BY DEF Grows, Keeps

\* A report that is not final needs no verdict.
LEMMA NotFinal == \A rq, tw, id : Fine(rq, tw, id, NoReport) /\ Fine(rq, tw, id, Plain("processing"))
BY DEF Fine, NoReport, Plain, Final

\* The parts of the invariant that a step leaves alone.
LEMMA PartsStay ==
  ASSUME VerdictInv, Grows(req, req'), Keeps(lists, lists'), twice \subseteq twice'
  PROVE  /\ UNCHANGED queue => JobsAreAsked'
         /\ UNCHANGED work => WorkIsAsked'
         /\ UNCHANGED <<result, results>> => ReportsAreFine'
         /\ UNCHANGED inbox => EventsAreFine'
         /\ UNCHANGED <<inbox, stream>> => StreamsAreFine'
         /\ UNCHANGED sweep => NoSweep'
<1>1. UNCHANGED queue => JobsAreAsked'
  BY AskedGrows, KeptGrows DEF VerdictInv, JobsAreAsked
<1>2. UNCHANGED work => WorkIsAsked'
  BY AskedGrows, KeptGrows, FineGrows DEF VerdictInv, WorkIsAsked
<1>3. UNCHANGED <<result, results>> => ReportsAreFine'
  BY FineGrows DEF VerdictInv, ReportsAreFine
<1>4. UNCHANGED inbox => EventsAreFine'
  BY FineGrows DEF VerdictInv, EventsAreFine
<1>5. UNCHANGED <<inbox, stream>> => StreamsAreFine'
  BY FineGrows DEF VerdictInv, StreamsAreFine
<1>6. UNCHANGED sweep => NoSweep'
  BY DEF VerdictInv, NoSweep
<1> QED BY <1>1, <1>2, <1>3, <1>4, <1>5, <1>6

\* When the requests and the lists stay as they are.
LEMMA RequestPartsStay ==
  ASSUME VerdictInv, UNCHANGED <<req, lists>>
  PROVE  /\ ListsAreSubmitted' /\ RequestsAreKept'
         /\ Grows(req, req') /\ Keeps(lists, lists')
BY DEF VerdictInv, ListsAreSubmitted, RequestsAreKept, Grows, Keeps

-----------------------------------------------------------------------------
(* The job service. *)

\* A step that touches nothing the invariant speaks of.
LEMMA NothingMoves ==
  ASSUME VerdictInv,
         UNCHANGED <<req, lists, result, results, inbox, work, sweep, stream, queue>>,
         twice \subseteq twice'
  PROVE  VerdictInv'
<1>1. Grows(req, req') /\ Keeps(lists, lists')
  BY Unchanging
<1> QED BY <1>1, RequestPartsStay, PartsStay DEF VerdictInv

\* A request that goes on, and one that starts.
LEMMA GoToGrows ==
  ASSUME ServiceTypeOK, NEW r \in Requests, NEW pc, GoTo(r, pc),
         req[r].pc \in Past => pc \in Past, req[r].pc \notin Over
  PROVE  /\ Grows(req, req') /\ req'[r].pc = pc
         /\ \A q \in Requests : /\ q # r => req'[q] = req[q]
                                /\ req'[q].id = req[q].id /\ req'[q].order = req[q].order
                                /\ req'[q].content = req[q].content
<1>1. \A q \in Requests : req[q] \in Request
  BY DEF ServiceTypeOK
<1>2. \A q \in Requests : req'[q] = IF q = r THEN [req[r] EXCEPT !.pc = pc] ELSE req[q]
  BY DEF ServiceTypeOK, GoTo
<1>3. req'[r].pc = pc /\ \A q \in Requests : /\ q # r => req'[q] = req[q]
                                /\ req'[q].id = req[q].id /\ req'[q].order = req[q].order
                                /\ req'[q].content = req[q].content
  BY <1>1, <1>2 DEF Request
<1> QED BY <1>3 DEF Grows

LEMMA StartGrows ==
  ASSUME ServiceTypeOK, NEW r \in Requests, NEW new, req' = [req EXCEPT ![r] = new],
         req[r].pc = "idle"
  PROVE  /\ Grows(req, req') /\ req'[r] = new
         /\ \A q \in Requests : q # r => req'[q] = req[q]
<1>1. req'[r] = new /\ \A q \in Requests : q # r => req'[q] = req[q]
  BY DEF ServiceTypeOK
<1> QED BY <1>1 DEF Grows, Past, Over

\* The lists that the requests rely on, after a request r has gone on to pc.
LEMMA GoToKept ==
  ASSUME VerdictInv, Typed, NEW r \in Requests, NEW pc, GoTo(r, pc),
         req[r].pc \in Past \cup {"put"}, req[r].pc \notin Over,
         pc \in Past, pc # "failed" => req[r].pc \in Past,
         UNCHANGED lists
  PROVE  ListsAreSubmitted' /\ RequestsAreKept'
<1>1. ServiceTypeOK
  BY DEF Typed, TypeOK
<1>2. /\ Grows(req, req') /\ req'[r].pc = pc
      /\ \A q \in Requests : /\ q # r => req'[q] = req[q]
                             /\ req'[q].id = req[q].id /\ req'[q].order = req[q].order
                             /\ req'[q].content = req[q].content
  BY <1>1, GoToGrows
<1>3. ListsAreSubmitted'
  BY <1>2, SubmitsAreRequests DEF VerdictInv, ListsAreSubmitted, Grows
<1>4. Keeps(lists, lists')
  BY DEF Keeps
<1>5. ASSUME NEW q \in Requests, req'[q].pc \in Past \ {"failed"}, req'[q].id \in SubmitIds
      PROVE  Kept(req', lists', req'[q].id)
  <2>1. req[q].pc \in Past \ {"failed"} /\ req[q].id = req'[q].id
    BY <1>2, <1>5 DEF Over
  <2> QED BY <1>2, <1>4, <1>5, <2>1, KeptGrows DEF VerdictInv, RequestsAreKept
<1> QED BY <1>3, <1>5 DEF RequestsAreKept

\* A job that is pushed has been asked for, and its list is kept.
LEMMA PushAsked ==
  ASSUME VerdictInv, Typed, Grows(req, req'), Keeps(lists, lists'), twice \subseteq twice',
         NEW r \in Requests, req[r].pc = "push", queue' = Append(queue, JobOf(r)),
         req'[r].id = req[r].id, req'[r].order = req[r].order,
         req'[r].pc \in Over \/ (r \in twice' /\ req'[r].pc \in Past)
  PROVE  JobsAreAsked'
<1> DEFINE job == JobOf(r)
<1>1. job.id = req[r].id /\ job.order = req[r].order
  BY DEF JobOf
<1>2. job.id \in SubmitIds => Kept(req', lists', job.id) /\ Asked(req', twice', job.id, job.order)
  <2>1. job.id \in SubmitIds => Kept(req, lists, job.id)
    BY <1>1 DEF VerdictInv, RequestsAreKept, Past
  <2>2. job.id \in SubmitIds => Kept(req', lists', job.id)
    BY <2>1, KeptGrows
  <2> QED BY <1>1, <2>2 DEF Asked
<1> HIDE DEF job
<1>3. queue \in Seq(Job) /\ queue' = Append(queue, job)
  BY DEF Typed, TypeOK, RedisTypeOK, job
<1>4. ASSUME NEW k \in 1..Len(queue'), queue'[k].id \in SubmitIds
      PROVE  Kept(req', lists', queue'[k].id) /\ Asked(req', twice', queue'[k].id, queue'[k].order)
  <2>1. CASE k = Len(queue) + 1
    BY <1>2, <1>3, <1>4, <2>1
  <2>2. CASE k # Len(queue) + 1
    <3>1. k \in 1..Len(queue) /\ queue'[k] = queue[k]
      BY <1>3, <1>4, <2>2
    <3>2. Kept(req, lists, queue[k].id) /\ Asked(req, twice, queue[k].id, queue[k].order)
      BY <1>4, <3>1 DEF VerdictInv, JobsAreAsked
    <3> QED BY <1>4, <3>1, <3>2, KeptGrows, AskedGrows
  <2> QED BY <2>1, <2>2
<1> QED BY <1>4 DEF JobsAreAsked

LEMMA ServiceVerdict ==
  ASSUME VerdictInv, Typed, ServiceStep
  PROVE  VerdictInv'
<1>1. ServiceTypeOK /\ BucketTypeOK /\ RedisTypeOK /\ RequestsHaveJobs
  BY DEF Typed, TypeOK
<1>2. UNCHANGED <<inbox, stream, work, sweep>> /\ twice' = twice
  BY DEF ServiceStep, ServiceFrame, ServiceOnly, sentVars, pubsubVars, streamVars, workerVars
<1>3. UNCHANGED <<result, results>>
  BY DEF ServiceStep, ServiceNext, SubmitValidate, SubmitPutList, UploadPresign, ClientPut,
       CheckValidate, RequestSetStatus, RequestPush, RequestDies, PollStart, PollResult,
       PollStatus, PutList, SetStatus, Push, redisVars, bucketVars
<1> DEFINE Good == /\ Grows(req, req') /\ Keeps(lists, lists')
                   /\ ListsAreSubmitted' /\ RequestsAreKept' /\ JobsAreAsked'
<1> SUFFICES Good
  BY <1>2, <1>3, PartsStay DEF VerdictInv
<1> USE <1>2
<1>4. ASSUME NEW id \in SubmitIds, SubmitValidate(id) PROVE Good
  <2>1. PICK content \in Contents, order \in Orders :
          req' = [req EXCEPT ![id] =
                   [pc |-> IF content \in Accepted THEN "put" ELSE "rejected",
                    id |-> id, order |-> order, content |-> content]]
    BY <1>4 DEF SubmitValidate
  <2>2. req[id].pc = "idle" /\ UNCHANGED <<queue, lists>>
    BY <1>4 DEF SubmitValidate, redisVars, bucketVars
  <2>3. /\ Grows(req, req') /\ req'[id].pc \in {"put", "rejected"}
        /\ \A q \in Requests : q # id => req'[q] = req[q]
    <3> DEFINE new == [pc |-> IF content \in Accepted THEN "put" ELSE "rejected",
                       id |-> id, order |-> order, content |-> content]
    <3>1. new.pc \in {"put", "rejected"} /\ req' = [req EXCEPT ![id] = new]
      BY <2>1
    <3> HIDE DEF new
    <3> QED BY <1>1, <2>2, <3>1, StartGrows, SubmitsAreRequests
  <2>4. Keeps(lists, lists')
    BY <2>2 DEF Keeps
  <2>5. ListsAreSubmitted'
    BY <2>2, <2>3, SubmitsAreRequests DEF VerdictInv, ListsAreSubmitted, Past
  <2>6. ASSUME NEW q \in Requests, req'[q].pc \in Past \ {"failed"}, req'[q].id \in SubmitIds
        PROVE  Kept(req', lists', req'[q].id)
    <3>1. q # id
      BY <2>3, <2>6 DEF Past
    <3> QED BY <2>3, <2>4, <2>6, <3>1, KeptGrows DEF VerdictInv, RequestsAreKept
  <2>7. RequestsAreKept'
    BY <2>6 DEF RequestsAreKept
  <2> QED BY <2>2, <2>3, <2>4, <2>5, <2>7, PartsStay
<1>5. ASSUME NEW id \in SubmitIds, SubmitPutList(id) PROVE Good
  <2>1. /\ req[id].pc = "put" /\ UNCHANGED queue /\ req[id].id = id
        /\ req[id].content \in Contents /\ id \in Requests /\ id \in Ids
    BY <1>1, <1>5, SubmitsAreRequests DEF SubmitPutList, redisVars, RequestsHaveJobs
  <2>2. req[id].content # NoList
    BY <2>1, NoneAssumption, ContentsAssumption
  <2>3. CASE PutList(id, req[id].content) /\ (GoTo(id, "status") \/ GoTo(id, "failed"))
    <3>1. /\ Grows(req, req') /\ req'[id].pc \in {"status", "failed"}
          /\ \A q \in Requests : /\ q # id => req'[q] = req[q]
                                 /\ req'[q].id = req[q].id /\ req'[q].order = req[q].order
                                 /\ req'[q].content = req[q].content
      BY <1>1, <2>1, <2>3, GoToGrows DEF Past, Over
    <3>2. \A x \in Ids : lists'[x] = IF x = id THEN req[id].content ELSE lists[x]
      BY <1>1, <2>3 DEF PutList, BucketTypeOK
    <3>3. Keeps(lists, lists')
      BY <2>2, <3>2, SubmitsAreRequests DEF Keeps
    <3>4. ListsAreSubmitted'
      BY <3>1, <3>2, SubmitsAreRequests DEF VerdictInv, ListsAreSubmitted, Past
    <3>5. ASSUME NEW q \in Requests, req'[q].pc \in Past \ {"failed"}, req'[q].id \in SubmitIds
          PROVE  Kept(req', lists', req'[q].id)
      <4>1. CASE q = id
        BY <2>1, <2>2, <3>1, <3>2, <4>1 DEF Kept, Past
      <4>2. CASE q # id
        BY <3>1, <3>3, <3>5, <4>2, KeptGrows DEF VerdictInv, RequestsAreKept
      <4> QED BY <4>1, <4>2
    <3>6. RequestsAreKept'
      BY <3>5 DEF RequestsAreKept
    <3> QED BY <2>1, <3>1, <3>3, <3>4, <3>6, PartsStay
  <2>4. CASE UNCHANGED bucketVars /\ GoTo(id, "failed")
    <3>1. Grows(req, req') /\ Keeps(lists, lists')
      BY <1>1, <2>1, <2>4, GoToGrows DEF Past, Over, bucketVars, Keeps
    <3>2. ListsAreSubmitted' /\ RequestsAreKept'
      BY <2>1, <2>4, GoToKept DEF Past, Over, bucketVars
    <3> QED BY <2>1, <3>1, <3>2, PartsStay
  <2> QED BY <1>5, <2>3, <2>4 DEF SubmitPutList
<1>6. ASSUME NEW u \in UploadIds, ClientPut(u) PROVE Good
  <2>1. u \notin SubmitIds /\ UNCHANGED <<req, queue>>
    BY <1>6, IdsAssumption DEF ClientPut, serviceVars, redisVars
  <2>2. \A id \in SubmitIds : lists'[id] = lists[id]
    BY <1>1, <1>6, <2>1, SubmitsAreRequests DEF ClientPut, PutList, BucketTypeOK
  <2>3. Grows(req, req') /\ Keeps(lists, lists')
    BY <2>1, <2>2 DEF Grows, Keeps
  <2>4. ListsAreSubmitted' /\ RequestsAreKept'
    BY <2>1, <2>2 DEF VerdictInv, ListsAreSubmitted, RequestsAreKept, Kept
  <2> QED BY <2>1, <2>3, <2>4, PartsStay
<1>7. ASSUME NEW c \in Checks, CheckValidate(c) PROVE Good
  <2>1. PICK id \in CheckIds, order \in Orders : \E content \in GetList(id) :
          req' = [req EXCEPT ![c] =
                   [pc |-> IF content \in Parsable THEN "status" ELSE "rejected",
                    id |-> id, order |-> order, content |-> content]]
    BY <1>7 DEF CheckValidate
  <2>2. PICK content \in GetList(id) :
          req' = [req EXCEPT ![c] =
                   [pc |-> IF content \in Parsable THEN "status" ELSE "rejected",
                    id |-> id, order |-> order, content |-> content]]
    BY <2>1
  <2>3. /\ req[c].pc = "idle" /\ UNCHANGED <<queue, lists>> /\ c \in Requests
        /\ c \notin SubmitIds
    BY <1>7, IdsAssumption DEF CheckValidate, redisVars, bucketVars, Requests
  <2>4. /\ Grows(req, req')
        /\ req'[c].pc = (IF content \in Parsable THEN "status" ELSE "rejected")
        /\ req'[c].id = id
        /\ \A q \in Requests : q # c => req'[q] = req[q]
    <3> DEFINE new == [pc |-> IF content \in Parsable THEN "status" ELSE "rejected",
                       id |-> id, order |-> order, content |-> content]
    <3>1. /\ new.pc = (IF content \in Parsable THEN "status" ELSE "rejected")
          /\ new.id = id /\ req' = [req EXCEPT ![c] = new]
      BY <2>2
    <3> HIDE DEF new
    <3> QED BY <1>1, <2>3, <3>1, StartGrows
  <2>5. Keeps(lists, lists')
    BY <2>3 DEF Keeps
  <2>6. ListsAreSubmitted'
    BY <2>3, <2>4, SubmitsAreRequests DEF VerdictInv, ListsAreSubmitted
  <2>7. content \in Parsable => content # NoList /\ lists[id] = content
    BY <2>2, NoneAssumption, ContentsAssumption DEF GetList
  <2>8. ASSUME NEW q \in Requests, req'[q].pc \in Past \ {"failed"}, req'[q].id \in SubmitIds
        PROVE  Kept(req', lists', req'[q].id)
    <3>1. CASE q = c
      <4>1. lists[id] # NoList /\ id \in SubmitIds
        BY <2>4, <2>7, <2>8, <3>1 DEF Past
      <4>2. Kept(req, lists, id)
        BY <4>1 DEF VerdictInv, ListsAreSubmitted, Kept
      <4> QED BY <2>4, <2>5, <3>1, <4>1, <4>2, KeptGrows
    <3>2. CASE q # c
      BY <2>4, <2>5, <2>8, <3>2, KeptGrows DEF VerdictInv, RequestsAreKept
    <3> QED BY <3>1, <3>2
  <2>9. RequestsAreKept'
    BY <2>8 DEF RequestsAreKept
  <2> QED BY <2>3, <2>4, <2>5, <2>6, <2>9, PartsStay
<1>8. ASSUME NEW r \in Requests, RequestSetStatus(r) \/ RequestDies(r) PROVE Good
  <2>1. /\ req[r].pc \in {"put", "status", "push"} /\ UNCHANGED <<queue, lists>>
        /\ \/ req[r].pc = "status" /\ GoTo(r, "push")
           \/ GoTo(r, "failed")
    BY <1>8 DEF RequestSetStatus, RequestDies, SetStatus, redisVars, bucketVars
  <2>2. Grows(req, req') /\ Keeps(lists, lists')
    BY <1>1, <2>1, GoToGrows DEF Past, Over, Keeps
  <2>3. ListsAreSubmitted' /\ RequestsAreKept'
    BY <2>1, GoToKept DEF Past, Over
  <2> QED BY <2>1, <2>2, <2>3, PartsStay
<1>9. ASSUME NEW r \in Requests, RequestPush(r) PROVE Good
  <2>1. PICK pc \in Over : GoTo(r, pc)
    BY <1>9 DEF RequestPush, Over
  <2>2. req[r].pc = "push" /\ UNCHANGED lists /\ (UNCHANGED queue \/ queue' = Append(queue, JobOf(r)))
    BY <1>9 DEF RequestPush, Push, redisVars, bucketVars
  <2>3. /\ Grows(req, req') /\ Keeps(lists, lists') /\ req'[r].pc \in Over
        /\ req'[r].id = req[r].id /\ req'[r].order = req[r].order
    BY <1>1, <2>1, <2>2, GoToGrows DEF Past, Over, Keeps
  <2>4. ListsAreSubmitted' /\ RequestsAreKept'
    BY <2>1, <2>2, GoToKept DEF Past, Over
  <2>5. CASE UNCHANGED queue
    BY <2>3, <2>4, <2>5, PartsStay
  <2>6. CASE queue' = Append(queue, JobOf(r))
    <3>1. JobsAreAsked'
      BY <2>2, <2>3, <2>6, PushAsked
    <3> QED BY <2>3, <2>4, <3>1
  <2> QED BY <2>2, <2>5, <2>6
<1>10. ASSUME UNCHANGED <<req, lists, queue>> PROVE Good
  BY <1>10, RequestPartsStay, PartsStay
<1>11. ASSUME NEW u \in UploadIds, UploadPresign(u) PROVE Good
  BY <1>10, <1>11 DEF UploadPresign, redisVars, bucketVars
<1>12. ASSUME NEW p \in Polls, PollStart(p) \/ PollResult(p) \/ PollStatus(p) PROVE Good
  BY <1>10, <1>12 DEF PollStart, PollResult, PollStatus, redisVars, bucketVars
<1> HIDE DEF Good
<1> QED BY <1>4, <1>5, <1>6, <1>7, <1>8, <1>9, <1>11, <1>12 DEF ServiceStep, ServiceNext

-----------------------------------------------------------------------------
(* The worker. *)

\* A worker w that takes its next step leaves the jobs of the others alone.
LEMMA WorkStays ==
  ASSUME VerdictInv, Typed, UNCHANGED <<req, twice>>, Keeps(lists, lists'),
         NEW w \in Workers, NEW new, work' = [work EXCEPT ![w] = new],
         new.pc # "pop" /\ new.id \in SubmitIds
           => /\ Kept(req, lists, new.id) /\ Asked(req, twice, new.id, new.order)
              /\ new.pc \notin {"announce", "mark", "read"} => Fine(req, twice, new.id, new.outcome)
  PROVE  WorkIsAsked'
<1>1. \A v \in Workers : work'[v] = IF v = w THEN new ELSE work[v]
  BY DEF Typed, TypeOK, WorkerTypeOK
<1>2. Grows(req, req)
  BY Unchanging
<1>3. ASSUME NEW v \in Workers, work'[v].pc # "pop", work'[v].id \in SubmitIds
      PROVE  /\ Kept(req', lists', work'[v].id) /\ Asked(req', twice', work'[v].id, work'[v].order)
             /\ work'[v].pc \notin {"announce", "mark", "read"}
                  => Fine(req', twice', work'[v].id, work'[v].outcome)
  <2>1. Kept(req, lists, work'[v].id) /\ Asked(req, twice, work'[v].id, work'[v].order)
    BY <1>1, <1>3 DEF VerdictInv, WorkIsAsked
  <2>2. work'[v].pc \notin {"announce", "mark", "read"}
                  => Fine(req, twice, work'[v].id, work'[v].outcome)
    BY <1>1, <1>3 DEF VerdictInv, WorkIsAsked
  <2> QED BY <1>2, <1>3, <2>1, <2>2, KeptGrows
<1> QED BY <1>3 DEF WorkIsAsked

\* One that goes on keeps its job and its outcome.
LEMMA ProceedStays ==
  ASSUME VerdictInv, Typed, UNCHANGED <<req, twice, lists>>, NEW w \in Workers, NEW pc,
         Proceed(w, pc), work[w].pc # "pop",
         pc \notin {"announce", "mark", "read"}
           => work[w].pc \notin {"announce", "mark", "read"}
  PROVE  WorkIsAsked'
<1> DEFINE new == [work[w] EXCEPT !.pc = pc]
<1>1. work[w] \in Work
  BY DEF Typed, TypeOK, WorkerTypeOK
<1>2. /\ new.pc = pc /\ new.id = work[w].id /\ new.order = work[w].order
      /\ new.outcome = work[w].outcome
  BY <1>1 DEF Work
<1>3. work' = [work EXCEPT ![w] = new]
  BY DEF Proceed
<1> HIDE DEF new
<1>4. new.pc # "pop" /\ new.id \in SubmitIds
           => /\ Kept(req, lists, new.id) /\ Asked(req, twice, new.id, new.order)
              /\ new.pc \notin {"announce", "mark", "read"} => Fine(req, twice, new.id, new.outcome)
  BY <1>2 DEF VerdictInv, WorkIsAsked
<1>5. Keeps(lists, lists')
  BY DEF Keeps
<1> QED BY <1>3, <1>4, <1>5, WorkStays

LEMMA IdleStays ==
  ASSUME VerdictInv, Typed, UNCHANGED <<req, twice, lists>>, NEW w \in Workers,
         work' = [work EXCEPT ![w] = Idle]
  PROVE  WorkIsAsked'
BY WorkStays DEF Keeps, Idle

\* An event that says nothing wrong of its job may be published.
LEMMA PublishStays ==
  ASSUME VerdictInv, Typed, UNCHANGED <<req, twice, stream>>,
         NEW id \in Ids, NEW event \in Report, id \in SubmitIds => Fine(req, twice, id, event),
         Publish(id, event) \/ UNCHANGED inbox
  PROVE  EventsAreFine' /\ StreamsAreFine'
<1>1. ASSUME NEW s \in Streams
      PROVE  /\ inbox'[s].topic = inbox[s].topic
             /\ \/ inbox'[s].events = inbox[s].events
                \/ inbox[s].topic = id /\ inbox'[s].events = Append(inbox[s].events, event)
  <2>1. inbox[s] \in Inbox
    BY DEF Typed, TypeOK, PubSubTypeOK
  <2> QED BY <1>1, <2>1 DEF Publish, Inbox
<1>2. ASSUME NEW s \in Streams, inbox'[s].topic \in SubmitIds, NEW k \in 1..Len(inbox'[s].events)
      PROVE  Fine(req', twice', inbox'[s].topic, inbox'[s].events[k])
  <2>1. inbox[s].events \in Seq(Report)
    BY DEF Typed, TypeOK, PubSubTypeOK, Inbox
  <2>2. \A j \in 1..Len(inbox[s].events) : Fine(req, twice, inbox[s].topic, inbox[s].events[j])
    BY <1>1, <1>2 DEF VerdictInv, EventsAreFine
  <2>3. CASE inbox'[s].events = inbox[s].events
    BY <1>1, <1>2, <2>2, <2>3
  <2>4. CASE inbox[s].topic = id /\ inbox'[s].events = Append(inbox[s].events, event)
    <3>1. CASE k = Len(inbox[s].events) + 1
      BY <1>1, <1>2, <2>1, <2>4, <3>1
    <3>2. CASE k # Len(inbox[s].events) + 1
      <4>1. k \in 1..Len(inbox[s].events) /\ inbox'[s].events[k] = inbox[s].events[k]
        BY <1>2, <2>1, <2>4, <3>2
      <4> QED BY <1>1, <2>2, <4>1
    <3> QED BY <3>1, <3>2
  <2> QED BY <1>1, <2>3, <2>4
<1>3. EventsAreFine'
  BY <1>2 DEF EventsAreFine
<1>4. StreamsAreFine'
  BY <1>1 DEF VerdictInv, StreamsAreFine
<1> QED BY <1>3, <1>4

\* What the worker makes of a list that was kept for it says nothing wrong.
LEMMA OutcomeFine ==
  ASSUME VerdictInv, Typed, NEW id \in SubmitIds, NEW order \in Orders,
         Kept(req, lists, id), Asked(req, twice, id, order), NEW content \in GetList(id)
  PROVE  Fine(req, twice, id, Outcome(content, order))
<1>1. req[id].pc \in Past
  BY DEF Kept
<1>2. content = NoList \/ content = req[id].content
  BY DEF GetList, VerdictInv, ListsAreSubmitted
<1>3. content = NoList => Loss
  BY DEF GetList, Kept, Loss
<1>4. CASE content = NoList
  BY <1>1, <1>3, <1>4 DEF Outcome, Failed, Fine
<1>5. CASE content # NoList /\ content \notin Parsable
  BY <1>1, <1>2, <1>5 DEF Outcome, Failed, Fine
<1>6. CASE content # NoList /\ content \in Parsable
  <2>1. Outcome(content, order) = Done(Check(req[id].content, order))
    BY <1>1, <1>2, <1>6 DEF Outcome
  <2>2. /\ Outcome(content, order).status = "done"
        /\ Outcome(content, order).sorted = Check(req[id].content, order)
    <3>1. Check(req[id].content, order) \in BOOLEAN
      BY DEF Check
    <3> QED BY <2>1, <3>1, Reports
  <2> QED BY <1>1, <2>2 DEF Fine
<1> QED BY <1>4, <1>5, <1>6

LEMMA WorkerVerdict ==
  ASSUME VerdictInv, Typed, WorkerStep
  PROVE  VerdictInv'
<1>1. UNCHANGED <<req, twice, stream>>
  BY DEF WorkerStep, WorkerFrame, WorkerOnly, sentVars, serviceVars, streamVars
<1>2. /\ WorkerTypeOK /\ BucketTypeOK /\ RedisTypeOK /\ WorkersHaveJobs
  BY DEF Typed, TypeOK
<1>3. Grows(req, req')
  BY <1>1, Unchanging
<1> SUFFICES ASSUME NEW w \in Workers,
                    ProcessStep(w) \/ SweepStep(w) \/ SnapshotStep(w) \/ WorkerCrash(w)
             PROVE  VerdictInv'
  BY DEF WorkerStep, WorkerNext
<1>0. CASE SnapshotStep(w)
  <2>1. UNCHANGED <<lists, results>>
    BY <1>0 DEF SnapshotStep, TakeSnapshot, SnapshotTotal, SnapshotSorted, SnapshotNotSorted,
         ReadCounter, SnapshotPutCounter, SnapshotRecent, SnapshotPutActivity, PutState,
         bucketVars
  <2> QED BY <1>0, <1>1, <2>1, NothingMoves DEF SnapshotStep, redisVars, pubsubVars
<1>4. /\ work[w] \in Work /\ work[w].order \in Orders /\ work[w].outcome \in Report
      /\ work[w].pc # "pop" => work[w].id \in Ids
  BY <1>2 DEF WorkerTypeOK, Work, WorkersHaveJobs
<1> DEFINE Rest == ListsAreSubmitted' /\ RequestsAreKept' /\ Keeps(lists, lists')
<1>5. UNCHANGED lists => Rest
  BY <1>1, RequestPartsStay
<1>6. ASSUME WorkerPop(w) PROVE VerdictInv'
  <2>1. queue # <<>> /\ queue' = Tail(queue) /\ queue \in Seq(Job)
    BY <1>2, <1>6 DEF WorkerPop, Pop, RedisTypeOK
  <2>2. UNCHANGED <<lists, result, results, inbox, sweep>>
    BY <1>6 DEF WorkerPop, Pop, bucketVars, pubsubVars
  <2>3. \A k \in 1..Len(queue') : k + 1 \in 1..Len(queue) /\ queue'[k] = queue[k + 1]
    BY <2>1
  <2>4. JobsAreAsked'
    BY <1>1, <2>2, <2>3 DEF VerdictInv, JobsAreAsked
  <2>5. queue[1] = Head(queue) /\ 1 \in 1..Len(queue)
    BY <2>1
  <2> DEFINE new == [Idle EXCEPT !.pc = "announce", !.id = Head(queue).id,
                                 !.order = Head(queue).order]
  <2>6. new.pc = "announce" /\ new.id = Head(queue).id /\ new.order = Head(queue).order
    BY DEF Idle
  <2>7. work' = [work EXCEPT ![w] = new] \/ UNCHANGED work
    BY <1>6 DEF WorkerPop
  <2> HIDE DEF new
  <2>8. new.id \in SubmitIds => Kept(req, lists, new.id) /\ Asked(req, twice, new.id, new.order)
    BY <2>5, <2>6 DEF VerdictInv, JobsAreAsked
  <2>9. WorkIsAsked'
    BY <1>1, <1>3, <1>5, <2>2, <2>6, <2>7, <2>8, WorkStays, PartsStay
  <2> QED BY <1>1, <1>3, <1>5, <2>2, <2>4, <2>9, PartsStay DEF VerdictInv
<1>7. ASSUME Announce(w) PROVE VerdictInv'
  <2>1. /\ UNCHANGED <<queue, result, results, lists, sweep>> /\ work[w].pc = "announce"
        /\ Proceed(w, "mark")
        /\ Publish(work[w].id, Plain("processing")) \/ UNCHANGED inbox
    BY <1>7 DEF Announce, At, TryPublish, redisVars, bucketVars, pubsubVars
  <2>2. Plain("processing") \in Report
    BY Reports DEF Statuses
  <2>3. EventsAreFine' /\ StreamsAreFine'
    BY <1>1, <1>4, <2>1, <2>2, NotFinal, PublishStays
  <2>4. WorkIsAsked'
    BY <1>1, <2>1, ProceedStays
  <2> QED BY <1>1, <1>3, <1>5, <2>1, <2>3, <2>4, PartsStay DEF VerdictInv
<1>8. ASSUME UNCHANGED <<queue, lists, inbox, sweep>>, work[w].pc # "pop",
             NEW pc, Proceed(w, pc),
             pc \notin {"announce", "mark", "read"}
               => work[w].pc \notin {"announce", "mark", "read"},
             ReportsAreFine'
      PROVE  VerdictInv'
  <2>1. WorkIsAsked'
    BY <1>1, <1>8, ProceedStays
  <2> QED BY <1>1, <1>3, <1>5, <1>8, <2>1, PartsStay DEF VerdictInv
<1>9. ASSUME Mark(w) PROVE VerdictInv'
  <2>1. UNCHANGED <<queue, result, results, lists, inbox, sweep>>
    BY <1>9 DEF Mark, SetStatus, redisVars, bucketVars, pubsubVars
  <2>2. ReportsAreFine'
    BY <1>1, <1>3, <1>5, <2>1, PartsStay
  <2> QED BY <1>8, <1>9, <2>1, <2>2 DEF Mark, At
<1>10. ASSUME Read(w) PROVE VerdictInv'
  <2>1. PICK content \in GetList(work[w].id) :
          work' = [work EXCEPT ![w].pc = "set_result", ![w].content = content,
                     ![w].outcome = Outcome(content, work[w].order)]
    BY <1>10 DEF Read
  <2>2. UNCHANGED <<queue, result, results, lists, inbox, sweep>> /\ work[w].pc = "read"
    BY <1>10 DEF Read, At, redisVars, bucketVars, pubsubVars
  <2> DEFINE out == Outcome(content, work[w].order)
             new == [work[w] EXCEPT !.pc = "set_result", !.content = content, !.outcome = out]
  <2>3. work' = [work EXCEPT ![w] = new]
    BY <1>2, <2>1 DEF WorkerTypeOK
  <2>4. work[w].id \in SubmitIds => /\ Kept(req, lists, work[w].id)
                                    /\ Asked(req, twice, work[w].id, work[w].order)
    BY <2>2 DEF VerdictInv, WorkIsAsked
  <2>5. work[w].id \in SubmitIds => Fine(req, twice, work[w].id, out)
    BY <1>4, <2>4, OutcomeFine
  <2> HIDE DEF out
  <2>6. new.id = work[w].id /\ new.order = work[w].order /\ new.outcome = out
    BY <1>4 DEF Work
  <2> HIDE DEF new
  <2>7. WorkIsAsked'
    BY <1>1, <1>5, <2>2, <2>3, <2>4, <2>5, <2>6, WorkStays
  <2> QED BY <1>1, <1>3, <1>5, <2>2, <2>7, PartsStay DEF VerdictInv
<1>11. ASSUME work[w].pc \notin {"pop", "announce", "mark", "read"}, NEW id \in SubmitIds,
              id = work[w].id
       PROVE  Fine(req, twice, id, work[w].outcome)
  BY <1>11 DEF VerdictInv, WorkIsAsked
<1>12. ASSUME WriteResult(w) PROVE VerdictInv'
  <2>1. UNCHANGED <<queue, results, lists, inbox, sweep>> /\ work[w].pc = "set_result"
    BY <1>12 DEF WriteResult, At, SetResult, redisVars, bucketVars, pubsubVars
  <2>2. ASSUME NEW id \in SubmitIds
        PROVE  result'[id] = result[id] \/ (id = work[w].id /\ result'[id] = work[w].outcome)
    BY <1>2, <1>12 DEF WriteResult, SetResult, redisVars, RedisTypeOK, Ids
  <2>3. ReportsAreFine'
    BY <1>1, <1>11, <2>1, <2>2 DEF VerdictInv, ReportsAreFine
  <2> QED BY <1>8, <1>12, <2>1, <2>3 DEF WriteResult, At
<1>13. ASSUME StoreResult(w) PROVE VerdictInv'
  <2>1. UNCHANGED <<queue, result, lists, inbox, sweep>> /\ work[w].pc = "put_result"
    BY <1>13 DEF StoreResult, At, PutResult, redisVars, bucketVars, pubsubVars
  <2>2. ASSUME NEW id \in SubmitIds
        PROVE  results'[id] = results[id] \/ (id = work[w].id /\ results'[id] = work[w].outcome)
    BY <1>2, <1>13 DEF StoreResult, PutResult, bucketVars, BucketTypeOK, Ids
  <2>3. ASSUME NEW id \in SubmitIds PROVE Fine(req, twice, id, result[id]) /\ Fine(req, twice, id, results'[id])
    <3>1. Fine(req, twice, id, result[id]) /\ Fine(req, twice, id, results[id])
      BY DEF VerdictInv, ReportsAreFine
    <3>2. work[w].pc \notin {"pop", "announce", "mark", "read"}
      BY <2>1
    <3> QED BY <1>11, <2>2, <3>1, <3>2
  <2>4. ReportsAreFine'
    BY <1>1, <2>1, <2>3 DEF ReportsAreFine
  <2> QED BY <1>8, <1>13, <2>1, <2>4 DEF StoreResult, At
<1>14. ASSUME \/ WriteStatus(w) \/ IncrementTotal(w) \/ IncrementVerdict(w)
              \/ LogPush(w) \/ LogTrim(w)
       PROVE  VerdictInv'
  <2>1. UNCHANGED <<queue, result, results, lists, inbox, sweep>>
    BY <1>14 DEF WriteStatus, IncrementTotal, IncrementVerdict, LogPush, LogTrim, SetStatus,
         redisVars, bucketVars, pubsubVars
  <2>2. /\ work[w].pc \notin {"pop", "announce", "mark", "read"}
        /\ \E pc \in {"put_result", "publish", "incr_verdict", "log_push", "log_trim"} :
             Proceed(w, pc)
    BY <1>14 DEF WriteStatus, IncrementTotal, IncrementVerdict, LogPush, LogTrim, At
  <2>3. ReportsAreFine'
    BY <1>1, <1>3, <1>5, <2>1, PartsStay
  <2> QED BY <1>8, <2>1, <2>2, <2>3
<1>15. ASSUME PublishOutcome(w) PROVE VerdictInv'
  <2>1. /\ UNCHANGED <<queue, result, results, lists, sweep>> /\ work[w].pc = "publish"
        /\ work' = [work EXCEPT ![w] = Idle]
        /\ Publish(work[w].id, work[w].outcome) \/ UNCHANGED inbox
    BY <1>15 DEF PublishOutcome, At, TryPublish, redisVars, bucketVars, pubsubVars
  <2>2. EventsAreFine' /\ StreamsAreFine'
    BY <1>1, <1>4, <1>11, <2>1, PublishStays
  <2>3. WorkIsAsked'
    BY <1>1, <2>1, IdleStays
  <2> QED BY <1>1, <1>3, <1>5, <2>1, <2>2, <2>3, PartsStay DEF VerdictInv
<1>16. ASSUME WorkerCrash(w) PROVE VerdictInv'
  <2>1. /\ UNCHANGED <<queue, result, results, lists, inbox>>
        /\ work' = [work EXCEPT ![w] = Idle] /\ sweep' = [sweep EXCEPT ![w] = Resting]
    BY <1>16 DEF WorkerCrash, redisVars, bucketVars, pubsubVars
  <2>2. WorkIsAsked'
    BY <1>1, <2>1, IdleStays
  <2>3. NoSweep'
    BY <1>2, <2>1 DEF VerdictInv, NoSweep, WorkerTypeOK, Resting
  <2> QED BY <1>1, <1>3, <1>5, <2>1, <2>2, <2>3, PartsStay DEF VerdictInv
<1>17. ASSUME SweepStep(w) PROVE VerdictInv'
  <2>1. MaxTime # 0
    <3>1. MaxTime > 0 \/ sweep[w].pc # "idle"
      BY <1>17 DEF SweepStep, SweepStart, SweepList, SweepDelete
    <3>2. MaxTime = 0 => sweep[w].pc = "idle"
      BY DEF VerdictInv, NoSweep
    <3> QED BY <3>1, <3>2, TimesAssumption
  <2>2. MaxTime > 0 /\ Loss
    BY <2>1, TimesAssumption DEF Loss
  <2>3. UNCHANGED <<queue, result, inbox, work>>
    BY <1>17 DEF SweepStep, SweepStart, SweepList, SweepDelete, redisVars, pubsubVars
  <2>4. ASSUME NEW id \in SubmitIds
        PROVE  /\ lists'[id] = NoList \/ lists'[id] = lists[id]
               /\ results'[id] = NoReport \/ results'[id] = results[id]
    <3>1. UNCHANGED bucketVars \/ \E x \in Ids : Delete(sweep[w].prefix, x)
      <4>1. sweep[w].todo \subseteq Ids
        BY <1>2 DEF WorkerTypeOK, Sweep
      <4> QED BY <1>17, <4>1 DEF SweepStep, SweepStart, SweepList, SweepDelete
    <3>2. id \in Ids
      BY DEF Ids
    <3> QED BY <1>2, <3>1, <3>2 DEF Delete, bucketVars, BucketTypeOK
  <2>5. Keeps(lists, lists')
    BY <2>2 DEF Keeps
  <2>6. ListsAreSubmitted'
    BY <1>1, <2>4 DEF VerdictInv, ListsAreSubmitted
  <2>7. RequestsAreKept'
    BY <1>1, <2>2 DEF VerdictInv, RequestsAreKept, Kept
  <2>8. ReportsAreFine'
    BY <1>1, <2>3, <2>4, NotFinal DEF VerdictInv, ReportsAreFine
  <2>9. NoSweep'
    BY <2>1 DEF NoSweep
  <2> QED BY <1>1, <1>3, <2>3, <2>5, <2>6, <2>7, <2>8, <2>9, PartsStay DEF VerdictInv
<1> HIDE DEF Rest
<1> QED BY <1>0, <1>6, <1>7, <1>9, <1>10, <1>12, <1>13, <1>14, <1>15, <1>16, <1>17
         DEF ProcessStep

-----------------------------------------------------------------------------
(* The streams and the clock. *)

\* A stream that sends nothing more, and one that closes with a report.
LEMMA StreamStays ==
  ASSUME VerdictInv, Typed, UNCHANGED <<req, twice>>, NEW s \in Streams,
         NEW new, stream' = [stream EXCEPT ![s] = new],
         new.pc # "idle", new.id \in SubmitIds => Fine(req, twice, new.id, new.sent),
         new.pc \in {"again", "second", "loop"} => inbox'[s].topic = new.id,
         \A t \in Streams : t # s => inbox'[t] = inbox[t]
  PROVE  StreamsAreFine'
<1>1. \A t \in Streams : stream'[t] = IF t = s THEN new ELSE stream[t]
  BY DEF Typed, TypeOK, StreamTypeOK
<1> QED BY <1>1 DEF VerdictInv, StreamsAreFine

LEMMA InboxStays ==
  ASSUME VerdictInv, Typed, UNCHANGED <<req, twice>>, NEW s \in Streams,
         \A t \in Streams : t # s => inbox'[t] = inbox[t],
         \/ inbox'[s].events = <<>>
         \/ inbox'[s].topic = inbox[s].topic /\ inbox'[s].events = inbox[s].events
         \/ /\ inbox'[s].topic = inbox[s].topic /\ inbox[s].events # <<>>
            /\ inbox'[s].events = Tail(inbox[s].events)
  PROVE  EventsAreFine'
<1>1. ASSUME NEW t \in Streams, inbox'[t].topic \in SubmitIds, NEW k \in 1..Len(inbox'[t].events)
      PROVE  Fine(req', twice', inbox'[t].topic, inbox'[t].events[k])
  <2>1. inbox[t].events \in Seq(Report)
    BY DEF Typed, TypeOK, PubSubTypeOK, Inbox
  <2>2. inbox[t].topic \in SubmitIds => \A j \in 1..Len(inbox[t].events) :
          Fine(req, twice, inbox[t].topic, inbox[t].events[j])
    BY DEF VerdictInv, EventsAreFine
  <2>3. CASE inbox'[t] = inbox[t]
    BY <1>1, <2>2, <2>3
  <2>4. CASE inbox'[t].topic = inbox[t].topic /\ inbox'[t].events = inbox[t].events
    BY <1>1, <2>2, <2>4
  <2>5. CASE /\ inbox'[t].topic = inbox[t].topic /\ inbox[t].events # <<>>
             /\ inbox'[t].events = Tail(inbox[t].events)
    <3>1. k + 1 \in 1..Len(inbox[t].events) /\ inbox'[t].events[k] = inbox[t].events[k + 1]
      BY <1>1, <2>1, <2>5
    <3> QED BY <1>1, <2>2, <2>5, <3>1
  <2>6. inbox'[t].events # <<>>
    BY <1>1
  <2> QED BY <2>3, <2>4, <2>5, <2>6
<1> QED BY <1>1 DEF EventsAreFine

LEMMA EventVerdict ==
  ASSUME VerdictInv, Typed, EventStep
  PROVE  VerdictInv'
<1>1. UNCHANGED <<req, twice, lists, results, work, sweep>>
  BY DEF EventStep, EventFrame, sentVars, serviceVars, bucketVars, workerVars
<1>2. UNCHANGED <<queue, result>>
  BY DEF EventStep, StreamNext, StreamStep, StreamOpen, StreamFirstResult, StreamSubscribe,
       StreamAgain, StreamSecondResult, StreamReceive, StreamTimeout, StreamGone,
       SubscriptionTakesEffect, SubscriptionBreaks, redisVars
<1> SUFFICES EventsAreFine' /\ StreamsAreFine'
  BY <1>1, <1>2, RequestPartsStay, PartsStay DEF VerdictInv
<1> SUFFICES ASSUME NEW s \in Streams,
                    \/ StreamStep(s) \/ StreamTimeout(s) \/ StreamGone(s)
                    \/ SubscriptionTakesEffect(s) \/ SubscriptionBreaks(s)
             PROVE  EventsAreFine' /\ StreamsAreFine'
  BY DEF EventStep, StreamNext
<1>3. /\ stream[s] \in Stream /\ inbox[s] \in Inbox /\ StreamTypeOK /\ PubSubTypeOK
      /\ RedisTypeOK
      /\ stream[s].pc # "idle" => stream[s].id \in Ids
  BY DEF Typed, TypeOK, StreamTypeOK, PubSubTypeOK, ReadersHaveJobs
<1>4. \A pc, report, end : LET new == [stream[s] EXCEPT !.pc = pc, !.sent = report, !.end = end]
        IN new.pc = pc /\ new.id = stream[s].id /\ new.sent = report
  BY <1>3 DEF Stream
<1>5. \A pc, st : LET new == [stream[s] EXCEPT !.seen = st, !.pc = pc]
        IN new.pc = pc /\ new.id = stream[s].id /\ new.sent = stream[s].sent
  BY <1>3 DEF Stream
<1>6. /\ stream[s].id \in SubmitIds => Fine(req, twice, stream[s].id, stream[s].sent)
      /\ stream[s].pc = "idle" => stream[s].sent = NoReport
      /\ stream[s].pc \in {"again", "second", "loop"} => inbox[s].topic = stream[s].id
  BY DEF VerdictInv, StreamsAreFine
\* A report may be sent when it says nothing wrong of the job.
<1>7. ASSUME NEW report, NEW end, CloseWith(s, report, end),
             stream[s].id \in SubmitIds => Fine(req, twice, stream[s].id, report),
             \A t \in Streams : t # s => inbox'[t] = inbox[t]
      PROVE  StreamsAreFine'
  <2> DEFINE new == [stream[s] EXCEPT !.pc = "closed", !.sent = report, !.end = end]
  <2>1. new.pc = "closed" /\ new.id = stream[s].id /\ new.sent = report
    BY <1>4
  <2>2. stream' = [stream EXCEPT ![s] = new]
    BY <1>3, <1>7 DEF CloseWith, StreamTypeOK
  <2> HIDE DEF new
  <2> QED BY <1>1, <1>7, <2>1, <2>2, StreamStays
\* A status may be sent at any time.
<1>8. ASSUME NEW st, NEW pc, SendStatus(s, st, pc), pc # "idle",
             pc \in {"again", "second", "loop"} => inbox'[s].topic = stream[s].id,
             \A t \in Streams : t # s => inbox'[t] = inbox[t]
      PROVE  StreamsAreFine'
  <2> DEFINE new == [stream[s] EXCEPT !.seen = st, !.pc = pc]
  <2>1. new.pc = pc /\ new.id = stream[s].id /\ new.sent = stream[s].sent
    BY <1>5
  <2>2. stream' = [stream EXCEPT ![s] = new]
    BY <1>3, <1>8 DEF SendStatus, StreamTypeOK
  <2> HIDE DEF new
  <2> QED BY <1>1, <1>6, <1>8, <2>1, <2>2, StreamStays
<1>9. ASSUME NEW pc, stream' = [stream EXCEPT ![s].pc = pc] PROVE SendStatus(s, stream[s].seen, pc)
  BY <1>3, <1>9 DEF SendStatus, StreamTypeOK, Stream
<1>10. Cancel(s) => /\ \A t \in Streams : t # s => inbox'[t] = inbox[t]
                    /\ inbox'[s].events = <<>>
  BY <1>3 DEF Cancel, PubSubTypeOK, Unsubscribed
<1>11. \A r \in GetResult(stream[s].id) :
         stream[s].id \in SubmitIds => Fine(req, twice, stream[s].id, r)
  BY NotFinal DEF GetResult, VerdictInv, ReportsAreFine
<1>12. ASSUME UNCHANGED inbox PROVE EventsAreFine'
  BY <1>1, <1>12, RequestPartsStay, PartsStay
<1>13. ASSUME Cancel(s) PROVE EventsAreFine'
  BY <1>1, <1>10, <1>13, InboxStays
<1>14. CASE StreamOpen(s)
  <2>1. UNCHANGED inbox /\ stream[s].pc = "idle"
    BY <1>14 DEF StreamOpen, pubsubVars
  <2>2. PICK id, st :
          stream' = [stream EXCEPT ![s].id = id,
            ![s].pc = IF st = "none" THEN "closed"
                      ELSE IF st \in Final THEN "first" ELSE "subscribe",
            ![s].end = IF st = "none" THEN "not_found" ELSE "open",
            ![s].seen = st]
    BY <1>14 DEF StreamOpen
  <2> DEFINE new == [stream[s] EXCEPT !.id = id,
            !.pc = IF st = "none" THEN "closed"
                   ELSE IF st \in Final THEN "first" ELSE "subscribe",
            !.end = IF st = "none" THEN "not_found" ELSE "open",
            !.seen = st]
  <2>3. new.pc \in {"closed", "first", "subscribe"} /\ new.sent = NoReport
    BY <1>3, <1>6, <2>1 DEF Stream
  <2>4. stream' = [stream EXCEPT ![s] = new]
    BY <1>3, <2>2 DEF StreamTypeOK
  <2> HIDE DEF new
  <2>5. StreamsAreFine'
    BY <1>1, <2>1, <2>3, <2>4, NotFinal, StreamStays
  <2> QED BY <1>12, <2>1, <2>5
<1>15. CASE StreamFirstResult(s)
  <2>1. UNCHANGED inbox
    BY <1>15 DEF StreamFirstResult, pubsubVars
  <2>2. \/ \E r \in GetResult(stream[s].id) : CloseWith(s, r, "result")
        \/ SendStatus(s, stream[s].seen, "subscribe")
    BY <1>15 DEF StreamFirstResult
  <2>3. StreamsAreFine'
    BY <1>7, <1>8, <1>11, <2>1, <2>2
  <2> QED BY <1>12, <2>1, <2>3
<1>16. CASE StreamSubscribe(s)
  <2>1. /\ \A t \in Streams : t # s => inbox'[t] = inbox[t]
        /\ inbox'[s].events = <<>> /\ inbox'[s].topic = stream[s].id
    BY <1>3, <1>16 DEF StreamSubscribe, Subscribe, PubSubTypeOK
  <2>2. SendStatus(s, stream[s].seen, "again")
    BY <1>9, <1>16 DEF StreamSubscribe
  <2> QED BY <1>1, <1>8, <2>1, <2>2, InboxStays
<1>17. CASE StreamAgain(s)
  <2>1. UNCHANGED inbox /\ inbox[s].topic = stream[s].id
    BY <1>6, <1>17 DEF StreamAgain, pubsubVars
  <2>2. PICK pc \in {"second", "loop"}, known \in BOOLEAN :
          stream' = [stream EXCEPT ![s].pc = pc, ![s].covered = known]
    BY <1>17, Zenon DEF StreamAgain
  <2> DEFINE new == [stream[s] EXCEPT !.pc = pc, !.covered = known]
  <2>3. new.pc = pc /\ new.id = stream[s].id /\ new.sent = stream[s].sent
    BY <1>3 DEF Stream
  <2>4. stream' = [stream EXCEPT ![s] = new]
    BY <1>3, <2>2 DEF StreamTypeOK
  <2> HIDE DEF new
  <2>5. StreamsAreFine'
    BY <1>1, <1>6, <2>1, <2>3, <2>4, StreamStays
  <2> QED BY <1>12, <2>1, <2>5
<1>18. CASE StreamSecondResult(s)
  <2>1. CASE \E r \in GetResult(stream[s].id) : CloseWith(s, r, "result") /\ Cancel(s)
    BY <1>7, <1>10, <1>11, <1>13, <2>1
  <2>2. CASE stream' = [stream EXCEPT ![s].pc = "loop"] /\ UNCHANGED pubsubVars
    <3>1. UNCHANGED inbox /\ inbox[s].topic = stream[s].id
      BY <1>6, <1>18, <2>2 DEF StreamSecondResult, pubsubVars
    <3>2. SendStatus(s, stream[s].seen, "loop")
      BY <1>9, <2>2
    <3> QED BY <1>8, <1>12, <3>1, <3>2
  <2> QED BY <1>18, <2>1, <2>2 DEF StreamSecondResult
<1>19. CASE StreamReceive(s)
  <2> DEFINE event == Head(inbox[s].events)
  <2>1. /\ inbox[s].events # <<>> /\ inbox[s].events \in Seq(Report)
        /\ inbox[s].topic = stream[s].id
    BY <1>3, <1>6, <1>19 DEF StreamReceive, Inbox
  <2>2. CASE CloseWith(s, event, "result") /\ Cancel(s)
    <3>1. event = inbox[s].events[1] /\ 1 \in 1..Len(inbox[s].events)
      BY <2>1
    <3>2. stream[s].id \in SubmitIds => Fine(req, twice, stream[s].id, event)
      BY <2>1, <3>1 DEF VerdictInv, EventsAreFine
    <3> HIDE DEF event
    <3> QED BY <1>7, <1>10, <1>13, <2>2, <3>2
  <2>3. CASE /\ SendStatus(s, event.status, "loop")
             /\ inbox' = [inbox EXCEPT ![s].events = Tail(@)]
    <3>1. /\ \A t \in Streams : t # s => inbox'[t] = inbox[t]
          /\ inbox'[s].topic = inbox[s].topic
          /\ inbox'[s].events = Tail(inbox[s].events)
      BY <1>3, <2>3 DEF PubSubTypeOK, Inbox
    <3>2. StreamsAreFine'
      BY <1>8, <2>1, <2>3, <3>1
    <3>3. EventsAreFine'
      BY <1>1, <2>1, <3>1, InboxStays
    <3> QED BY <3>2, <3>3
  <2> QED BY <1>19, <2>2, <2>3 DEF StreamReceive
<1>20. CASE StreamTimeout(s) \/ StreamGone(s)
  <2>1. Cancel(s) /\ \E end \in Ends : CloseWith(s, stream[s].sent, end)
    BY <1>20 DEF StreamTimeout, StreamGone, Close, Ends
  <2> QED BY <1>6, <1>7, <1>10, <1>13, <2>1
<1>21. CASE SubscriptionTakesEffect(s) \/ SubscriptionBreaks(s)
  <2>1. /\ UNCHANGED stream \/ stream' = [stream EXCEPT ![s].covered = FALSE]
        /\ \E l \in {"yes", "sent"} : inbox' = [inbox EXCEPT ![s].live = l]
    BY <1>21 DEF SubscriptionTakesEffect, SubscriptionBreaks, Activate, Reconnect, streamVars
  <2>2. /\ \A t \in Streams : t # s => inbox'[t] = inbox[t]
        /\ inbox'[s].topic = inbox[s].topic /\ inbox'[s].events = inbox[s].events
    BY <1>3, <2>1 DEF PubSubTypeOK, Inbox
  <2>3. EventsAreFine'
    BY <1>1, <2>2, InboxStays
  <2>4. \A t \in Streams : /\ stream'[t].id = stream[t].id /\ stream'[t].pc = stream[t].pc
                           /\ stream'[t].sent = stream[t].sent
    BY <1>3, <2>1 DEF StreamTypeOK, Stream
  <2>5. StreamsAreFine'
    BY <1>1, <2>2, <2>4 DEF VerdictInv, StreamsAreFine
  <2> QED BY <2>3, <2>5
<1> QED BY <1>14, <1>15, <1>16, <1>17, <1>18, <1>19, <1>20, <1>21 DEF StreamStep

LEMMA TickVerdict ==
  ASSUME VerdictInv, Typed, Tick
  PROVE  VerdictInv'
<1>1. /\ UNCHANGED <<req, lists, results, inbox, work, sweep, stream, queue>>
      /\ twice' = twice
  BY DEF Tick, Expire, sentVars, bucketVars, pubsubVars, serviceVars, workerVars, streamVars
<1>2. \A id \in SubmitIds : result'[id] = NoReport \/ result'[id] = result[id]
  BY SubmitsAreRequests DEF Tick, Expire
<1>3. ReportsAreFine'
  BY <1>1, <1>2, NotFinal DEF VerdictInv, ReportsAreFine
<1> QED BY <1>1, <1>3, RequestPartsStay, PartsStay DEF VerdictInv

LEMMA InitVerdict == Init => VerdictInv
<1> SUFFICES ASSUME Init PROVE VerdictInv
  OBVIOUS
<1>1. ListsAreSubmitted /\ RequestsAreKept
  BY SubmitsAreRequests DEF Init, BucketInit, ServiceInit, ListsAreSubmitted, RequestsAreKept, Past
<1>2. JobsAreAsked /\ WorkIsAsked
  BY DEF Init, RedisInit, WorkerInit, Idle, JobsAreAsked, WorkIsAsked
<1>3. ReportsAreFine
  BY SubmitsAreRequests, NotFinal DEF Init, RedisInit, BucketInit, ReportsAreFine
<1>4. EventsAreFine /\ StreamsAreFine
  BY NotFinal DEF Init, PubSubInit, Unsubscribed, StreamInit, EventsAreFine, StreamsAreFine
<1>5. NoSweep
  BY DEF Init, WorkerInit, Resting, NoSweep
<1> QED BY <1>1, <1>2, <1>3, <1>4, <1>5 DEF VerdictInv

LEMMA StutterVerdict ==
  ASSUME VerdictInv, UNCHANGED vars
  PROVE  VerdictInv'
<1>1. /\ UNCHANGED <<req, lists, result, results, inbox, work, sweep, stream, queue>>
      /\ twice' = twice
  BY DEF vars, sentVars, redisVars, bucketVars, pubsubVars, serviceVars, workerVars, streamVars
<1> QED BY <1>1, NothingMoves

LEMMA HandlersVerdict ==
  ASSUME VerdictInv, HandlersStep
  PROVE  VerdictInv'
<1>1. /\ UNCHANGED <<req, lists, result, results, inbox, work, sweep, stream, queue>>
      /\ twice' = twice
  BY DEF HandlersStep, HandlersFrame, sentVars, redisVars, bucketVars, pubsubVars, serviceVars,
         workerVars, streamVars
<1> QED BY <1>1, NothingMoves

LEMMA ResendVerdict ==
  ASSUME VerdictInv, Typed, ResendStep
  PROVE  VerdictInv'
<1>1. RedisTypeOK /\ WorkerTypeOK /\ WorkersHaveJobs
  BY DEF Typed, TypeOK
<1>2. UNCHANGED <<req, lists, results, stream, sweep>>
  BY DEF ResendStep, RequestSendsAgain, WorkerSendsAgain, ServiceOnly, WorkerOnly,
         serviceVars, bucketVars, streamVars, workerVars
<1>3. twice \subseteq twice' /\ Grows(req, req') /\ Keeps(lists, lists')
  BY <1>2 DEF ResendStep, RequestSendsAgain, WorkerSendsAgain, Grows, Keeps
<1>4. ASSUME NEW r \in Requests, RequestSendsAgain(r), ServiceOnly PROVE VerdictInv'
  <2>1. UNCHANGED <<result, inbox, work>>
    BY <1>4 DEF RequestSendsAgain, ServiceOnly, SetStatus, Push, redisVars, pubsubVars, workerVars
  <2>2. CASE UNCHANGED queue
    BY <1>2, <1>3, <2>1, <2>2, NothingMoves
  <2>3. CASE /\ req[r].pc = "push" /\ queue' = Append(queue, JobOf(r))
             /\ twice' = twice \cup {r}
    <3>1. JobsAreAsked'
      BY <1>2, <1>3, <2>3, PushAsked DEF Past
    <3> QED BY <1>2, <1>3, <2>1, <3>1, RequestPartsStay, PartsStay DEF VerdictInv
  <2> QED BY <1>4, <2>2, <2>3 DEF RequestSendsAgain, SetStatus, Push, redisVars
<1>5. ASSUME NEW w \in Workers, WorkerSendsAgain(w), WorkerOnly PROVE VerdictInv'
  <2>1. UNCHANGED <<queue, twice>>
    BY <1>5 DEF WorkerSendsAgain, SetStatus, SetResult, redisVars
  <2>2. /\ work[w] \in Work /\ work[w].outcome \in Report
        /\ work[w].pc # "pop" => work[w].id \in Ids
    BY <1>1 DEF WorkerTypeOK, Work, WorkersHaveJobs
  <2>3. ASSUME work[w].pc \in {"set_result", "publish"}, NEW id \in SubmitIds, id = work[w].id
        PROVE  Fine(req, twice, id, work[w].outcome)
    BY <2>3 DEF VerdictInv, WorkIsAsked
  <2>4. CASE UNCHANGED <<result, inbox, work>>
    BY <1>2, <1>3, <2>1, <2>4, NothingMoves
  <2>5. CASE At(w, "set_result") /\ SetResult(work[w].id, work[w].outcome) /\ UNCHANGED <<inbox, work>>
    <3>1. ASSUME NEW id \in SubmitIds
          PROVE  result'[id] = result[id] \/ (id = work[w].id /\ result'[id] = work[w].outcome)
      BY <1>1, <2>5 DEF SetResult, redisVars, RedisTypeOK, Ids
    <3>2. ReportsAreFine'
      BY <1>2, <2>1, <2>3, <2>5, <3>1 DEF At, VerdictInv, ReportsAreFine
    <3> QED BY <1>2, <1>3, <2>1, <2>5, <3>2, RequestPartsStay, PartsStay DEF VerdictInv
  <2>6. CASE /\ \/ At(w, "announce") /\ Publish(work[w].id, Plain("processing"))
                \/ At(w, "publish") /\ Publish(work[w].id, work[w].outcome)
             /\ UNCHANGED <<result, work>>
    <3>1. Plain("processing") \in Report
      BY Reports DEF Statuses
    <3>2. EventsAreFine' /\ StreamsAreFine'
      BY <1>2, <2>1, <2>2, <2>3, <2>6, <3>1, NotFinal, PublishStays DEF At
    <3> QED BY <1>2, <1>3, <2>1, <2>6, <3>2, RequestPartsStay, PartsStay DEF VerdictInv
  <2>7. CASE /\ \/ At(w, "incr_verdict") /\ Proceed(w, "incr_total")
                \/ At(w, "log_trim") /\ Proceed(w, "log_push")
             /\ UNCHANGED <<result, inbox>>
    <3>1. WorkIsAsked'
      BY <1>2, <2>1, <2>7, ProceedStays DEF At
    <3> QED BY <1>2, <1>3, <2>1, <2>7, <3>1, RequestPartsStay, PartsStay DEF VerdictInv
  <2>8. SetStatus(work[w].id, "processing") \/ SetStatus(work[w].id, work[w].outcome.status)
          => UNCHANGED result
    BY DEF SetStatus, redisVars
  <2> QED BY <1>5, <2>4, <2>5, <2>6, <2>7, <2>8 DEF WorkerSendsAgain, redisVars, pubsubVars
<1> QED BY <1>4, <1>5 DEF ResendStep

LEMMA VerdictInvariant == Spec => []VerdictInv
<1>1. VerdictInv /\ Typed /\ [Next]_vars => VerdictInv'
  BY ServiceVerdict, WorkerVerdict, EventVerdict, HandlersVerdict, ResendVerdict, TickVerdict,
     StutterVerdict DEF Next
<1> QED BY InitVerdict, TypedInvariant, <1>1, PTL DEF Spec

-----------------------------------------------------------------------------
\* The parts of the invariant say what EveryVerdictIsRight asks.
LEMMA FineIsRight ==
  ASSUME NEW id \in SubmitIds, NEW r, Fine(req, twice, id, r), ServiceTypeOK
  PROVE  RightReport(id, r)
<1>1. ASSUME r.status = "done"
      PROVE  \E q \in Askers(id) : r.sorted = Check(req[id].content, req[q].order)
  <2>1. PICK o \in Orders : Asked(req, twice, id, o) /\ r.sorted = Check(req[id].content, o)
    BY <1>1 DEF Fine, Final
  <2>2. PICK q \in Requests : /\ req[q].id = id /\ req[q].order = o
                              /\ req[q].pc \in Over \/ q \in twice
    BY <2>1 DEF Asked
  <2>3. q \in Askers(id)
    BY <2>2 DEF Askers, Over
  <2> QED BY <2>1, <2>2, <2>3
<1>2. r.status = "error" =>
        IF r.error = "parse" THEN req[id].content \notin Parsable
        ELSE r.error = "read" /\ (S3MayFail \/ MaxTime > 0)
  BY DEF Fine, Final, Loss
<1> QED BY <1>1, <1>2 DEF RightReport

\* Every verdict on a submitted list is the one for a list and an order that
\* were asked for, wherever it is kept or sent, whatever fails and whoever
\* runs beside it.
THEOREM VerdictsRight == Spec => []EveryVerdictIsRight
<1>1. VerdictInv /\ Typed => EveryVerdictIsRight
  <2> SUFFICES ASSUME VerdictInv, Typed, NEW id \in SubmitIds
               PROVE  /\ RightReport(id, result[id]) /\ RightReport(id, results[id])
                      /\ \A s \in Streams :
                           /\ inbox[s].topic = id =>
                                \A k \in 1..Len(inbox[s].events) :
                                  RightReport(id, inbox[s].events[k])
                           /\ stream[s].id = id => RightReport(id, stream[s].sent)
    BY DEF EveryVerdictIsRight
  <2>1. ServiceTypeOK
    BY DEF Typed, TypeOK
  <2>2. \A r : Fine(req, twice, id, r) => RightReport(id, r)
    BY <2>1, FineIsRight
  <2> QED BY <2>2 DEF VerdictInv, ReportsAreFine, EventsAreFine, StreamsAreFine
<1> QED BY VerdictInvariant, TypedInvariant, <1>1, PTL
=============================================================================
