----------------------------- MODULE JobService -----------------------------
(***************************************************************************)
(* cmd/jobservice: the handlers that submit lists, and those that clients  *)
(* poll.  Each request is a process, since net/http runs it in a goroutine *)
(* and nothing keeps two of them apart: one step per command sent to Redis *)
(* or to the bucket.                                                       *)
(***************************************************************************)
EXTENDS RedisStore, Bucket

VARIABLES
  req,   \* per request that submits a job: its pc, the job, the list it sent
  url,   \* per upload id: when its presigned URL expires, 0 before it is given
  poll   \* per polling client: its pc, the job it asks about, the last answer
serviceVars == <<req, url, poll>>

\* "put": storing the list; "status", "push": the two commands that enqueue
\* the job; "created" (201), "rejected" (400, 404), "failed" (500 or no reply).
RequestPC == {"idle", "put", "status", "push", "created", "rejected", "failed"}
Request == [pc : RequestPC, id : Ids \cup {NoId}, order : Orders,
            content : Contents \cup {NoList}]
\* A poll answers with a report; "none" is 404, job not found.
Poll == [pc : {"idle", "result", "status"}, id : Ids \cup {NoId}, answer : Report]

ServiceTypeOK ==
  /\ req \in [Requests -> Request]
  /\ url \in [UploadIds -> Nat]
  /\ poll \in [Polls -> Poll]

ServiceInit ==
  /\ req = [r \in Requests |->
              [pc |-> "idle", id |-> NoId, order |-> "asc", content |-> NoList]]
  /\ url = [u \in UploadIds |-> 0]
  /\ poll = [p \in Polls |-> [pc |-> "idle", id |-> NoId, answer |-> NoReport]]

GoTo(r, pc) == req' = [req EXCEPT ![r].pc = pc]

-----------------------------------------------------------------------------
(* POST /jobs *)

\* Every item is parsed before the list is stored, one item a line.  An absent
\* order is "asc"; any word but "asc" and "desc" is rejected like a bad list.
SubmitValidate(id) ==
  /\ req[id].pc = "idle"
  /\ \E content \in Contents, order \in Orders :
       req' = [req EXCEPT ![id] =
                 [pc |-> IF content \in Accepted THEN "put" ELSE "rejected",
                  id |-> id, order |-> order, content |-> content]]
  /\ UNCHANGED <<redisVars, bucketVars, url, poll>>

\* A put may take effect although its reply is lost.
SubmitPutList(id) ==
  /\ req[id].pc = "put"
  /\ \/ PutList(id, req[id].content) /\ GoTo(id, "status")
     \/ S3MayFail /\ PutList(id, req[id].content) /\ GoTo(id, "failed")
     \/ S3MayFail /\ UNCHANGED bucketVars /\ GoTo(id, "failed")
  /\ UNCHANGED <<redisVars, url, poll>>

-----------------------------------------------------------------------------
(* POST /uploads, the client's PUT, and POST /uploads/{id}/check *)

UploadPresign(u) ==
  /\ url[u] = 0
  /\ url' = [url EXCEPT ![u] = now + PresignTTL]
  /\ UNCHANGED <<redisVars, bucketVars, req, poll>>

\* The URL may be used again and again until it expires.
ClientPut(u) ==
  /\ now < url[u]
  /\ \E content \in Contents : PutList(u, content)
  /\ UNCHANGED <<redisVars, serviceVars>>

\* The list is read and parsed here, and read again by the worker.
CheckValidate(c) ==
  /\ req[c].pc = "idle"
  /\ \E id \in CheckIds, order \in Orders : \E content \in GetList(id) :
       req' = [req EXCEPT ![c] =
                 [pc |-> IF content \in Parsable THEN "status" ELSE "rejected",
                  id |-> id, order |-> order, content |-> content]]
  /\ UNCHANGED <<redisVars, bucketVars, url, poll>>

-----------------------------------------------------------------------------
(* Both handlers end with the same two commands. *)

\* The status is set when the job has been pushed.
RequestSetStatusMutant(r) ==
  /\ \/ req[r].pc = "status" /\ UNCHANGED redisVars /\ GoTo(r, "push")
     \/ req[r].pc = "created" /\ SetStatus(req[r].id, "queued") /\ GoTo(r, "failed")
  /\ UNCHANGED <<bucketVars, url, poll>>
\* A failure to set the status is only logged.
RequestSetStatus(r) ==
  /\ req[r].pc = "status"
  /\ SetStatus(req[r].id, "queued")
  /\ GoTo(r, "push")
  /\ UNCHANGED <<bucketVars, url, poll>>

JobOf(r) == [id |-> req[r].id, order |-> req[r].order]

\* A push may fail, and may take effect although its reply is lost.
RequestPush(r) ==
  /\ req[r].pc = "push"
  /\ \/ Push(JobOf(r)) /\ GoTo(r, "created")
     \/ RedisMayFail /\ Push(JobOf(r)) /\ GoTo(r, "failed")
     \/ RedisMayFail /\ UNCHANGED redisVars /\ GoTo(r, "failed")
  /\ UNCHANGED <<bucketVars, url, poll>>

\* The library sends the command again.  It does not know that the job waits
\* already, or that a worker has it by now: LPUSH has no condition.
RequestSendsAgain(r) ==
  /\ LosesReply
  /\ \/ req[r].pc = "status" /\ SetStatus(req[r].id, "queued") /\ UNCHANGED twice
     \/ req[r].pc = "push" /\ Push(JobOf(r)) /\ twice' = twice \cup {r}
  /\ UNCHANGED <<bucketVars, serviceVars>>

\* The client leaves, which cancels the commands left to send, or the
\* process stops.
RequestDies(r) ==
  /\ "crash" \in Env
  /\ req[r].pc \in {"put", "status", "push"}
  /\ GoTo(r, "failed")
  /\ UNCHANGED <<redisVars, bucketVars, url, poll>>

-----------------------------------------------------------------------------
(* GET /jobs/{id}: the result if there is one, the status otherwise. *)

\* The next request of the client; it asks about the same job each time.
PollStart(p) ==
  /\ poll[p].pc = "idle"
  /\ \E id \in Ids :
       /\ poll[p].id \in {NoId, id}
       /\ poll' = [poll EXCEPT ![p].pc = "result", ![p].id = id]
  /\ UNCHANGED <<redisVars, bucketVars, req, url>>

Answer(p, r) == poll' = [poll EXCEPT ![p].pc = "idle", ![p].answer = r]

PollResult(p) ==
  /\ poll[p].pc = "result"
  /\ \E r \in GetResult(poll[p].id) :
       \/ r # NoReport /\ Answer(p, r)
       \/ r = NoReport /\ poll' = [poll EXCEPT ![p].pc = "status"]
  /\ UNCHANGED <<redisVars, bucketVars, req, url>>

\* The answer is {"id", "status"}: what Plain says, and what a result with
\* sorted = FALSE looks like.
PollStatus(p) ==
  /\ poll[p].pc = "status"
  /\ \E s \in GetStatus(poll[p].id) : Answer(p, Plain(s))
  /\ UNCHANGED <<redisVars, bucketVars, req, url>>

-----------------------------------------------------------------------------
ServiceNext ==
  \/ \E id \in SubmitIds : SubmitValidate(id) \/ SubmitPutList(id)
  \/ \E u \in UploadIds : UploadPresign(u) \/ ClientPut(u)
  \/ \E c \in Checks : CheckValidate(c)
  \/ \E r \in Requests : RequestSetStatus(r) \/ RequestPush(r) \/ RequestDies(r)
  \/ \E p \in Polls : PollStart(p) \/ PollResult(p) \/ PollStatus(p)
=============================================================================
