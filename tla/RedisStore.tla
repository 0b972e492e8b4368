----------------------------- MODULE RedisStore -----------------------------
(***************************************************************************)
(* internal/queue: the job queue, a Redis list, and a status and a result  *)
(* key per job, both with a time to live.  Redis executes one command at a *)
(* time.  A command may fail when "redis" is in Env: most callers log the  *)
(* error and go on, so a command that failed after it took effect is the   *)
(* same step as one that succeeded.  A command whose reply is lost is sent *)
(* again by the library, up to three times as the programs configure it    *)
(* (cmd/jobservice/main.go:31-36, cmd/worker/main.go:37-42), so that it    *)
(* may take effect twice.                                                  *)
(***************************************************************************)
EXTENDS JobTypes

VARIABLES
  queue,   \* sorted:queue, oldest job first
  status,  \* sorted:status:<id>
  result,  \* sorted:result:<id>
  until    \* when each key expires
redisVars == <<queue, status, result, until>>

RedisTypeOK ==
  /\ queue \in Seq(Job)
  /\ status \in [Ids -> Statuses]
  /\ result \in [Ids -> Report]
  /\ until \in [{"status", "result"} -> [Ids -> Nat]]

RedisInit ==
  /\ queue = <<>>
  /\ status = [x \in Ids |-> "none"]
  /\ result = [x \in Ids |-> NoReport]
  /\ until = [k \in {"status", "result"} |-> [x \in Ids |-> 0]]

-----------------------------------------------------------------------------
RedisMayFail == "redis" \in Env

\* A command took effect, but the library sees the connection break before the
\* reply, and so sends it again.
LosesReply == RedisMayFail /\ resends < MaxResends /\ resends' = resends + 1

SetStatus(id, s) ==
  \/ /\ status' = [status EXCEPT ![id] = s]
     /\ until' = [until EXCEPT !["status"][id] = now + TTL]
     /\ UNCHANGED <<queue, result>>
  \/ RedisMayFail /\ UNCHANGED redisVars

SetResult(id, r) ==
  \/ /\ result' = [result EXCEPT ![id] = r]
     /\ until' = [until EXCEPT !["result"][id] = now + TTL]
     /\ UNCHANGED <<queue, status>>
  \/ RedisMayFail /\ UNCHANGED redisVars

\* LPUSH and BRPOP work on opposite ends: first in, first out.
Push(job) == queue' = Append(queue, job) /\ UNCHANGED <<status, result, until>>

\* A job that is read and left in the list.
PopMutant == queue # <<>> /\ UNCHANGED redisVars
\* BRPOP takes the oldest job, Head(queue), off the list before the worker has it.
Pop ==
  /\ queue # <<>>
  /\ queue' = Tail(queue)
  /\ UNCHANGED <<status, result, until>>

\* What a read may come back with: callers take a failure for a missing key.
GetStatus(id) == {status[id]} \cup (IF RedisMayFail THEN {"none"} ELSE {})
GetResult(id) == {result[id]} \cup (IF RedisMayFail THEN {NoReport} ELSE {})

\* Redis drops the keys whose time has come.
Expire(time) ==
  /\ status' = [x \in Ids |-> IF until["status"][x] <= time THEN "none" ELSE status[x]]
  /\ result' = [x \in Ids |-> IF until["result"][x] <= time THEN NoReport ELSE result[x]]
  /\ UNCHANGED <<queue, until>>
=============================================================================
