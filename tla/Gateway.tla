------------------------------- MODULE Gateway -------------------------------
(***************************************************************************)
(* cmd/gateway: handlers.go, client.go and the status page of main.go.  A  *)
(* request of a client becomes one call of the job service, and its reply, *)
(* or its failure, the answer of the gateway.  A client that is told of an *)
(* accepted job opens its event stream next, which GatewayStream relays: a *)
(* form, whose answers are HTML, in the one format and JSON in the other.  *)
(*                                                                         *)
(* The call ends for the gateway after ten seconds (two for the status     *)
(* page) or when its client leaves; the job service may go on with it.     *)
(***************************************************************************)
EXTENDS GatewayStream

CONSTANTS
  Submissions,  \* what clients write: [lines, meant], the lines (or items) as token
                \* sequences and the values they mean; <<>> for what is no list
  Values,       \* the token sequences that parse
  MaxBody       \* maxBodySize of the gateway and of the job service, in tokens

ASSUME BodyAssumption == MaxBody \in Nat

VARIABLES
  front,    \* where the handler is, and what it was asked
  service,  \* the call: where the job service is with it, and its reply
  job,      \* the job that the service has accepted
  answer    \* what the client is given
frontVars == <<front, service, job, answer>>

Forwarded == {"status", "upload", "check"}
Kinds == {"submit", "count", "activity", "page"} \cup Forwarded
AskedOrders == {"", "asc", "desc", "sideways"}

NoRequest ==
  [kind |-> "page", text |-> [lines |-> <<>>, meant |-> <<>>], order |-> "", valid |-> TRUE]
NoJob == [list |-> <<>>, order |-> ""]
Reply(status, body) == [status |-> status, body |-> body, ok |-> {}]
Health(ok) == [status |-> 200, body |-> "health", ok |-> ok]
NoReply == Reply(0, "")
Idle == [pc |-> "idle", list |-> <<>>, order |-> "", reply |-> NoReply]

\* Every line of a form ends with a line break, and a number in a JSON list with
\* a comma; the gateway writes both as strings, which adds the quotes.
Size(items, around) == FoldLeft(LAMBDA n, item : n + Len(item) + around, 0, items)
SizeWritten(items) == Size(items, 1)
SizeSent(items) == Size(items, 3)
TooLarge(items) == SizeSent(items) > MaxBody

\* A form that cannot be read, a body that is no JSON or too large: valid is FALSE.
Requests ==
  [kind : {"submit"}, text : {text \in Submissions : SizeWritten(text.lines) <= MaxBody},
   order : AskedOrders, valid : {TRUE}]
    \cup {[NoRequest EXCEPT !.kind = k, !.valid = v] : k \in Kinds, v \in BOOLEAN}

InitGateway ==
  /\ Init
  /\ \E r \in Requests : front = [pc |-> "new", request |-> r]
  /\ service = Idle /\ job = NoJob /\ answer = NoReply

-----------------------------------------------------------------------------
Ask == front.request
AtPC(pc) == front' = [front EXCEPT !.pc = pc]
Answer(reply) == answer' = reply /\ AtPC("answered")
Call(list, order) ==
  /\ service' = [Idle EXCEPT !.pc = "asked", !.list = list, !.order = order]
  /\ AtPC("waiting") /\ UNCHANGED answer

\* Items are trimmed, and those with nothing left are dropped.
Nonblank(items) ==
  FlattenSeq([i \in DOMAIN items |-> IF items[i] = <<>> THEN <<>> ELSE <<items[i]>>])

OrAscending(order) == IF order = "" THEN "asc" ELSE order
\* The order of the form is read before the form is parsed.
FormOrderMutant(order) == "asc"
FormOrder(order) == OrAscending(order)

\* The form has one text: it is split at its line breaks, blank lines dropped.
SubmitForm ==
  /\ front.pc = "new" /\ Ask.kind = "submit" /\ mode = "html"
  /\ LET lines == Nonblank(Ask.text.lines)
     IN IF Ask.valid /\ lines # <<>> THEN Call(lines, FormOrder(Ask.order))
        ELSE Answer(Reply(200, "refused")) /\ UNCHANGED service
  /\ UNCHANGED job

\* Items and order go on as they are.
SubmitJSON ==
  /\ front.pc = "new" /\ Ask.kind = "submit" /\ mode = "json"
  /\ IF Ask.valid THEN Call(Ask.text.lines, Ask.order)
     ELSE Answer(Reply(400, "refused")) /\ UNCHANGED service
  /\ UNCHANGED job

\* The other handlers; uploadCheckHandler asks for "asc" when it cannot read its
\* body, or the body names no order.
Forward ==
  /\ front.pc = "new" /\ Ask.kind # "submit"
  /\ Call(<<>>, IF Ask.kind = "check" THEN OrAscending(IF Ask.valid THEN Ask.order ELSE "") ELSE "")
  /\ UNCHANGED job

-----------------------------------------------------------------------------
(* The job service, cmd/jobservice/handlers.go, as its callers see it. *)

\* SplitBracketAware at commas: depth counts brackets of any kind, and may be
\* negative.
Depth(token) ==
  IF token \in {"{", "[", "("} THEN 1 ELSE IF token \in {"}", "]", ")"} THEN -1 ELSE 0
SplitBracketAware(item) ==
  LET step(s, token) ==
        IF token = "," /\ s.depth = 0 THEN [s EXCEPT !.parts = Append(@, <<>>)]
        ELSE [depth |-> s.depth + Depth(token),
              parts |-> Append(Front(s.parts), Append(Last(s.parts), token))]
  IN FoldLeft(step, [depth |-> 0, parts |-> <<<<>>>>], item).parts
Expanded(list) ==
  Nonblank(FlattenSeq([i \in DOMAIN list |-> SplitBracketAware(list[i])]))
Listed(items) ==
  items # <<>> /\ Expanded(items) # <<>> /\ Range(Expanded(items)) \subseteq Values
Failure == IF "fail" \in Env THEN {Reply(500, "failed")} ELSE {}
Replied(replies) == \E r \in replies : service' = [service EXCEPT !.pc = "replied", !.reply = r]

\* Its submitHandler: a body beyond its own limit does not decode; a failure may
\* come before or after the job is queued.
ServiceSubmit ==
  /\ service.pc = "asked" /\ Ask.kind = "submit"
  /\ IF ~TooLarge(service.list) /\ Listed(service.list) /\ service.order \in {"", "asc", "desc"}
     THEN \/ /\ Replied({Reply(201, "id")} \cup Failure)
             /\ job' = [list |-> Expanded(service.list), order |-> OrAscending(service.order)]
          \/ Replied(Failure) /\ UNCHANGED job
     ELSE Replied({Reply(400, "refused")}) /\ UNCHANGED job
  /\ UNCHANGED <<front, answer>>

\* What the other handlers reply; the counts and the feed are always a success.
Replies ==
  [status |-> {Reply(200, "report"), Reply(404, "not_found")},
   upload |-> {Reply(200, "id")} \cup Failure,
   check |-> {Reply(201, "id"), Reply(400, "refused"), Reply(404, "not_found")} \cup Failure,
   count |-> {Reply(200, "counts")}, activity |-> {Reply(200, "entries")},
   page |-> {Health(ok) : ok \in IF "fail" \in Env THEN SUBSET {"redis", "storage"}
                                  ELSE {{"redis", "storage"}}}]
ServiceReply ==
  /\ service.pc = "asked" /\ Ask.kind # "submit"
  /\ Replied(Replies[Ask.kind]) /\ UNCHANGED <<front, job, answer>>

-----------------------------------------------------------------------------
\* statusHandler of main.go: the parts it shows as operational.  The gateway and
\* the worker are so whatever happens.
Page(ok) == [Health(ok \cup {"gateway", "worker"}) EXCEPT !.body = "page"]

\* A refused list is taken for an accepted one.
AnswerToMutant(reply) ==
  IF Ask.kind = "submit" THEN Reply(IF mode = "html" THEN 200 ELSE 202, "id")
  ELSE IF Ask.kind = "page" THEN Page(reply.ok \cup {"service"}) ELSE reply
\* The HTML of a form, of the counts and of the feed always has status 200.
AnswerTo(reply) ==
  IF Ask.kind = "submit"
  THEN IF reply.status >= 400 THEN Reply(IF mode = "html" THEN 200 ELSE reply.status, reply.body)
       ELSE Reply(IF mode = "html" THEN 200 ELSE 202, "id")
  ELSE IF Ask.kind = "page" THEN Page(reply.ok \cup {"service"})
  ELSE reply

AnswerToFailure ==
  CASE Ask.kind = "submit" /\ mode = "html" -> Reply(200, "unavailable")
    [] Ask.kind = "count" -> Reply(200, "zeros")
    [] Ask.kind = "activity" -> Reply(200, "none")
    [] Ask.kind = "page" -> Page({})
    [] OTHER -> Reply(502, "unavailable")

Respond ==
  /\ front.pc = "waiting" /\ service.pc = "replied"
  /\ Answer(AnswerTo(service.reply)) /\ UNCHANGED <<service, job>>

\* doAndRead fails: there is no connection, the time is up, the reply breaks
\* off, or the client has left.
CallFails ==
  /\ front.pc = "waiting" /\ ("slow" \in Env \/ ~client)
  /\ Answer(AnswerToFailure) /\ UNCHANGED <<service, job>>

-----------------------------------------------------------------------------
ToldAccepted == answer.body = "id" /\ Ask.kind = "submit"

\* The next request of the client is for the events of its job.
OpenStream ==
  /\ front.pc = "answered" /\ ToldAccepted /\ client
  /\ front' = [pc |-> "stream", request |-> NoRequest]
  /\ service' = Idle /\ job' = NoJob /\ answer' = NoReply

Handler == SubmitForm \/ SubmitJSON \/ Forward \/ Respond \/ CallFails
RequestStep == Handler \/ ServiceSubmit \/ ServiceReply \/ OpenStream

NextGateway ==
  \/ RequestStep /\ UNCHANGED vars
  \/ ClientLeaves /\ UNCHANGED frontVars
  \/ front.pc = "stream" /\ Next /\ UNCHANGED frontVars

\* Handlers and goroutines are scheduled, time passes, a client that stays opens
\* the stream, and the job service answers it; it need not reply to a call, which
\* may fail instead, nor send anything after the first event of a stream.
SpecGateway ==
  /\ InitGateway /\ [][NextGateway]_<<vars, frontVars>>
  /\ WF_<<vars, frontVars>>(Handler /\ UNCHANGED vars)
  /\ WF_<<vars, frontVars>>(OpenStream /\ UNCHANGED vars)
  /\ WF_<<vars, frontVars>>(front.pc = "stream" /\ Connect /\ UNCHANGED frontVars)
  /\ WF_<<vars, frontVars>>(Scan /\ UNCHANGED frontVars)
  /\ WF_<<vars, frontVars>>(Receive /\ UNCHANGED frontVars)
  /\ WF_<<vars, frontVars>>(TimeoutFires /\ UNCHANGED frontVars)
  /\ WF_<<vars, frontVars>>(ClientGone /\ UNCHANGED frontVars)
  /\ WF_<<vars, frontVars>>(front.pc = "stream" /\ Tick /\ UNCHANGED frontVars)
  /\ WF_<<vars, frontVars>>(front.pc = "stream" /\ upstream.pc = "new" /\ UpstreamStep /\ UNCHANGED frontVars)

-----------------------------------------------------------------------------
\* What is meant is what the items say, blank ones and all.
Meaning(items) == IF Listed(items) THEN Expanded(items) ELSE <<>>
ReadsAsMeant == \A text \in Submissions : text.meant = Meaning(text.lines)

\* Whether a list comes as a form or as JSON, on lines or with commas, and
\* whatever became of the call, the job that is accepted has the values that were
\* meant, in their order, and is checked in the order that was asked for
\* (handlers.go:21-69, jobservice/handlers.go:76-113, set.go:116-135).
AcceptedIsWhatWasSent ==
  job # NoJob =>
    Ask.valid /\ job.list = Ask.text.meant /\ job.order = OrAscending(Ask.order)

\* The list is within the limit as it was written, and not as it is sent on.
GrowsTooLarge ==
  TooLarge(IF mode = "html" THEN Nonblank(Ask.text.lines) ELSE Ask.text.lines)

\* A client that is told of a job has one; one that is told that its list is
\* refused has none and will have none, and did write something wrong, or so
\* much that it outgrows the limit on its way (handlers.go:13-104,
\* jobservice/handlers.go:72-113).
ClientIsToldTheTruth ==
  front.pc = "answered" /\ Ask.kind = "submit" =>
    /\ answer.body = "id" => job # NoJob
    /\ answer.body = "refused" =>
         /\ job = NoJob /\ service.pc # "asked"
         /\ \/ ~Ask.valid \/ Ask.text.meant = <<>> \/ Ask.order = "sideways"
            \/ GrowsTooLarge

\* Every request of a client is answered, and when a job was accepted and the
\* client stays, its stream ends (handlers.go:69-78, sse.go:45-87).
EveryRequestEnds ==
  <>[](\/ front.pc = "answered" /\ (~ToldAccepted \/ ~client)
       \/ front.pc = "stream" /\ Returned)
=============================================================================
