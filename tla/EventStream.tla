----------------------------- MODULE EventStream -----------------------------
(***************************************************************************)
(* cmd/jobservice/sse.go: GET /jobs/{id}/events.  The handler looks the    *)
(* job up, subscribes to its events, looks again, and then waits.          *)
(***************************************************************************)
EXTENDS RedisStore, PubSub

VARIABLE stream  \* per request: its pc, the job, the last status and report sent,
                 \* and whether Redis knew of the subscription at the second look
streamVars == <<stream>>

\* "first", "second": between GetStatus and GetResult; "subscribe"; "again":
\* before the second GetStatus; "loop": in the select.
StreamPC == {"idle", "first", "subscribe", "again", "second", "loop", "closed"}
Ends == {"open", "not_found", "result", "timeout", "gone"}
Stream == [pc : StreamPC, id : Ids \cup {NoId}, seen : Statuses, sent : Report,
           end : Ends, covered : BOOLEAN]

StreamTypeOK == stream \in [Streams -> Stream]
StreamInit ==
  stream = [s \in Streams |-> [pc |-> "idle", id |-> NoId, seen |-> "none",
                               sent |-> NoReport, end |-> "open",
                               covered |-> FALSE]]

-----------------------------------------------------------------------------
\* The stream sends a report, and its last event, "close".
CloseWith(s, report, end) ==
  stream' = [stream EXCEPT ![s].pc = "closed", ![s].sent = report, ![s].end = end]
Close(s, end) == CloseWith(s, stream[s].sent, end)

\* The status is sent to the client.
SendStatus(s, st, pc) == stream' = [stream EXCEPT ![s].seen = st, ![s].pc = pc]

\* A missing status, and one that cannot be read, end the stream at once.
\* A final status is not sent yet: the result may follow it.
StreamOpen(s) ==
  /\ stream[s].pc = "idle"
  /\ \E id \in Ids : \E st \in GetStatus(id) :
       stream' = [stream EXCEPT ![s].id = id,
            ![s].pc = IF st = "none" THEN "closed"
                      ELSE IF st \in Final THEN "first" ELSE "subscribe",
            ![s].end = IF st = "none" THEN "not_found" ELSE "open",
            ![s].seen = st]
  /\ UNCHANGED <<redisVars, pubsubVars>>

\* Without a result, the final status is sent as a status.
StreamFirstResult(s) ==
  /\ stream[s].pc = "first"
  /\ \E r \in GetResult(stream[s].id) :
       \/ r # NoReport /\ CloseWith(s, r, "result")
       \/ r = NoReport /\ SendStatus(s, stream[s].seen, "subscribe")
  /\ UNCHANGED <<redisVars, pubsubVars>>

StreamSubscribe(s) ==
  /\ stream[s].pc = "subscribe"
  /\ Subscribe(s, stream[s].id)
  /\ stream' = [stream EXCEPT ![s].pc = "again"]
  /\ UNCHANGED redisVars

\* No second look; a second look that sends the status it finds.
StreamAgainSkips(s) ==
  /\ stream[s].pc = "again"
  /\ stream' = [stream EXCEPT ![s].pc = "loop", ![s].covered = inbox[s].live = "yes"]
  /\ UNCHANGED <<redisVars, pubsubVars>>
StreamAgainSends(s) ==
  /\ stream[s].pc = "again"
  /\ \E st \in GetStatus(stream[s].id) :
       SendStatus(s, st, IF st \in Final THEN "second" ELSE "loop")
  /\ UNCHANGED <<redisVars, pubsubVars>>
\* The second look catches a job that has finished by now.  It does not wait for
\* the subscription: a job that finishes between the two is missed.
StreamAgain(s) ==
  /\ stream[s].pc = "again"
  /\ \E st \in GetStatus(stream[s].id) :
       stream' = [stream EXCEPT ![s].pc = IF st \in Final THEN "second" ELSE "loop",
                                ![s].covered = inbox[s].live = "yes"]
  /\ UNCHANGED <<redisVars, pubsubVars>>

StreamSecondResult(s) ==
  /\ stream[s].pc = "second"
  /\ \E r \in GetResult(stream[s].id) :
       \/ r # NoReport /\ CloseWith(s, r, "result") /\ Cancel(s)
       \/ /\ r = NoReport
          /\ stream' = [stream EXCEPT ![s].pc = "loop"]
          /\ UNCHANGED pubsubVars
  /\ UNCHANGED redisVars

StreamReceive(s) ==
  /\ stream[s].pc = "loop" /\ inbox[s].events # <<>>
  /\ LET event == Head(inbox[s].events) IN
       \/ event.status \in Final /\ CloseWith(s, event, "result") /\ Cancel(s)
       \/ /\ event.status \notin Final
          /\ SendStatus(s, event.status, "loop")
          /\ inbox' = [inbox EXCEPT ![s].events = Tail(@)]
  /\ UNCHANGED redisVars

\* The timer is started with an event.
StreamTimeoutMutant(s) ==
  /\ stream[s].pc = "loop" /\ inbox[s].events # <<>>
  /\ Close(s, "timeout") /\ Cancel(s)
  /\ UNCHANGED redisVars
\* The 30 seconds are over, however many of them the job took to wait or to be
\* checked.  The timer may be chosen although an event is there: select is fair
\* to both.
StreamTimeout(s) ==
  /\ stream[s].pc = "loop"
  /\ Close(s, "timeout") /\ Cancel(s)
  /\ UNCHANGED redisVars

\* The client disconnects.
StreamGone(s) ==
  /\ "crash" \in Env
  /\ stream[s].pc \notin {"idle", "closed"}
  /\ Close(s, "gone") /\ Cancel(s)
  /\ UNCHANGED redisVars

SubscriptionTakesEffect(s) == Activate(s) /\ UNCHANGED <<redisVars, streamVars>>
SubscriptionBreaks(s) ==
  /\ Reconnect(s)
  /\ stream' = [stream EXCEPT ![s].covered = FALSE]
  /\ UNCHANGED redisVars

StreamStep(s) ==
  \/ StreamOpen(s) \/ StreamFirstResult(s) \/ StreamSubscribe(s)
  \/ StreamAgain(s) \/ StreamSecondResult(s) \/ StreamReceive(s)

StreamNext ==
  \E s \in Streams :
    \/ StreamStep(s) \/ StreamTimeout(s) \/ StreamGone(s)
    \/ SubscriptionTakesEffect(s) \/ SubscriptionBreaks(s)
=============================================================================
