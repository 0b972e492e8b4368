---------------------------- MODULE GatewayStream ----------------------------
(***************************************************************************)
(* cmd/gateway/sse.go: the gateway relays the event stream of the job      *)
(* service to a client.  A goroutine scans the lines of the upstream       *)
(* stream and hands them, one at a time, to the handler, which waits in a  *)
(* select for a line, for its timer, or for the client to leave.  The      *)
(* channel between the two is never closed: the end of the upstream stream *)
(* is told only by its "close" event, or by the timer.                     *)
(***************************************************************************)
EXTENDS Integers, SequencesExt, StreamEvents

CONSTANTS
  Modes,       \* subset of {"json", "html"}: what the client asks for
  Env,         \* what may happen: "down", "cut" (upstream), "leave" (client), and
               \* in other modules "slow", "fail" (job service)
  MaxStatus,   \* bound on the status events of a job
  Timeout      \* sseTimeout, of both services, in units of time

ASSUME RelayAssumption ==
  /\ Modes \subseteq {"json", "html"} /\ Env \subseteq {"down", "cut", "leave", "slow", "fail"}
  /\ MaxStatus \in Nat /\ Timeout \in Nat \ {0}

VARIABLES
  mode,
  upstream,  \* handler of the job service: its pc, and how long it was quiet
  sent,      \* the events that the job service has sent
  wire,      \* the lines of them that are not scanned yet
  scanner,   \* the goroutine: its pc, and the line that it hands over
  handler,   \* its pc, eventType, and what is left on the timer
  client,    \* is the client still there?
  out,       \* the events written to the client
  late       \* was anyone ever late: an event sent when the timers had run
             \* out, or time spent while the gateway had something to do?
gatewayVars == <<scanner, handler, out>>
vars == <<mode, upstream, sent, wire, gatewayVars, client, late>>

Unavailable == <<Event("error", "unavailable"), Close>>

\* "event: ..." and "data: ..." and an empty line.
Lines(events) ==
  FlattenSeq([i \in DOMAIN events |->
    <<[kind |-> "event", text |-> events[i].type], [kind |-> "data", text |-> events[i].data],
      [kind |-> "blank", text |-> ""]>>])
NoLine == [kind |-> "blank", text |-> ""]
TooLong(line) == line.text = "failed_at_length"

Texts == {"", "status", "result", "error", "close", "counters", "queued", "processing",
          "done", "sorted", "unsorted", "failed", "failed_at_length", "timeout", "not_found",
          "unavailable", "refresh"}
Line == [kind : {"event", "data", "blank"}, text : Texts]
TypeOK ==
  /\ mode \in Modes /\ client \in BOOLEAN /\ late \in BOOLEAN
  /\ upstream \in [pc : {"new", "loop", "ended"}, quiet : 0..Timeout]
  /\ sent \in Seq([type : Texts, data : Texts]) /\ out \in Seq([type : Texts, data : Texts])
  /\ wire \in Seq(Line)
  /\ scanner \in [pc : {"off", "scan", "send", "done"}, line : Line]
  /\ handler \in [pc : {"start", "select", "returned"}, eventType : Texts, timer : 0..Timeout]

Init ==
  /\ mode \in Modes
  /\ upstream = [pc |-> "new", quiet |-> 0] /\ sent = <<>> /\ wire = <<>>
  /\ scanner = [pc |-> "off", line |-> NoLine]
  /\ handler = [pc |-> "start", eventType |-> "", timer |-> 0]
  /\ client = TRUE /\ out = <<>> /\ late = FALSE

-----------------------------------------------------------------------------
(* The job service: the turns of StreamEvents, and when they come. *)

\* Nobody listens once the gateway has closed the body.
Send(events, pc) ==
  /\ handler.pc # "returned"
  /\ sent' = sent \o events /\ wire' = wire \o Lines(events)
  /\ upstream' = [pc |-> pc, quiet |-> 0]
  /\ late' = (late \/ upstream.quiet = Timeout)
  /\ UNCHANGED <<mode, gatewayVars, client>>

UpstreamNotFound ==
  /\ upstream.pc = "new"
  /\ Send(NotFound, "ended")

UpstreamStatus ==
  /\ upstream.pc # "ended" /\ Len(sent) < MaxStatus
  /\ \E status \in ToldStatus : Send(<<Event("status", status)>>, "loop")

UpstreamResult ==
  /\ upstream.pc # "ended"
  /\ \E outcome \in Outcome : Send(<<Event("result", outcome), Close>>, "ended")

UpstreamTimeout ==
  /\ upstream.pc = "loop" /\ upstream.quiet = Timeout
  /\ Send(TimedOut, "ended")

\* The stream stops without "close": the subscription or the service breaks.
UpstreamCut ==
  /\ "cut" \in Env
  /\ upstream.pc = "loop"
  /\ Send(<<>>, "ended")

-----------------------------------------------------------------------------
(* The gateway. *)

\* reemitHTML: a status that is not "processing" is shown as "queued".
AsHTML(event) ==
  CASE event.type = "status" ->
         <<Event("status", IF event.data = "processing" THEN "processing" ELSE "queued")>>
    [] event.type = "result" /\ event.data \in {"sorted", "unsorted"} ->
         <<event, Event("counters", "refresh"), Close>>
    [] event.type = "result" /\ event.data \notin {"sorted", "unsorted"} -> <<event, Close>>
    [] OTHER -> <<event>>

\* What the handler writes for one event of the job service.
Relayed(event) == IF mode = "html" THEN AsHTML(event) ELSE <<event>>

\* The response arrives with the first event; the timer starts then.
Connect ==
  /\ handler.pc = "start"
  /\ \/ /\ sent # <<>> /\ client
        /\ handler' = [handler EXCEPT !.pc = "select", !.timer = Timeout]
        /\ scanner' = [scanner EXCEPT !.pc = "scan"] /\ UNCHANGED out
     \/ /\ ("down" \in Env /\ sent = <<>>) \/ ~client
        /\ handler' = [handler EXCEPT !.pc = "returned"]
        /\ out' = Unavailable /\ UNCHANGED scanner
  /\ UNCHANGED <<mode, upstream, sent, wire, client, late>>

\* A goroutine that does not wait for the handler to take the line.
ScanMutant ==
  /\ scanner.pc \in {"scan", "send"} /\ wire # <<>>
  /\ scanner' = [pc |-> "send", line |-> Head(wire)] /\ wire' = Tail(wire)
  /\ UNCHANGED <<mode, upstream, sent, handler, out, client, late>>
\* After the handler has closed the body, lines that are buffered may still be
\* scanned; nobody takes them.
Scan ==
  /\ scanner.pc = "scan"
  /\ \/ /\ wire # <<>> /\ ~TooLong(Head(wire))
        /\ scanner' = [pc |-> "send", line |-> Head(wire)] /\ wire' = Tail(wire)
     \/ /\ \/ wire # <<>> /\ TooLong(Head(wire))
           \/ wire = <<>> /\ upstream.pc = "ended"
           \/ handler.pc = "returned" \/ ~client
        /\ scanner' = [scanner EXCEPT !.pc = "done"] /\ UNCHANGED wire
  /\ UNCHANGED <<mode, upstream, sent, handler, out, client, late>>

\* The timer is left running, is prolonged; the handler goes on after "close".
DataRuns(event) ==
  [handler EXCEPT !.pc = IF event.type = "close" THEN "returned" ELSE "select"]
DataProlongs(event) ==
  [handler EXCEPT !.timer = @ + Timeout,
                  !.pc = IF event.type = "close" THEN "returned" ELSE "select"]
DataGoesOn(event) == [handler EXCEPT !.timer = Timeout]
\* A data line of the current event type resets the timer.
Data(event) ==
  [handler EXCEPT !.timer = Timeout,
                  !.pc = IF event.type = "close" THEN "returned" ELSE "select"]

Receive ==
  /\ handler.pc = "select" /\ scanner.pc = "send"
  /\ scanner' = [scanner EXCEPT !.pc = "scan"]
  /\ LET line == scanner.line
         event == Event(handler.eventType, line.text)
     IN \/ /\ line.kind = "event"
           /\ handler' = [handler EXCEPT !.eventType = line.text] /\ UNCHANGED out
        \/ /\ line.kind = "data"
           /\ handler' = Data(event) /\ out' = out \o Relayed(event)
        \/ line.kind = "blank" /\ UNCHANGED <<handler, out>>
  /\ UNCHANGED <<mode, upstream, sent, wire, client, late>>

\* The end of the scanner ends the handler as well.
TimeoutFiresAtEnd ==
  /\ handler.pc = "select" /\ (handler.timer = 0 \/ scanner.pc = "done")
  /\ handler' = [handler EXCEPT !.pc = "returned"]
  /\ out' = IF scanner.pc = "done" THEN out ELSE out \o TimedOut
  /\ UNCHANGED <<mode, upstream, sent, wire, scanner, client, late>>
\* The timer is not looked at once the scanner has ended.
TimeoutFiresNever ==
  /\ handler.pc = "select" /\ handler.timer = 0 /\ scanner.pc # "done"
  /\ handler' = [handler EXCEPT !.pc = "returned"] /\ out' = out \o TimedOut
  /\ UNCHANGED <<mode, upstream, sent, wire, scanner, client, late>>
\* A select with several ready cases chooses any of them.
TimeoutFires ==
  /\ handler.pc = "select" /\ handler.timer = 0
  /\ handler' = [handler EXCEPT !.pc = "returned"] /\ out' = out \o TimedOut
  /\ UNCHANGED <<mode, upstream, sent, wire, scanner, client, late>>

ClientGone ==
  /\ handler.pc = "select" /\ ~client
  /\ handler' = [handler EXCEPT !.pc = "returned"]
  /\ UNCHANGED <<mode, upstream, sent, wire, scanner, out, client, late>>

ClientLeaves ==
  /\ "leave" \in Env
  /\ client /\ handler.pc # "returned" /\ client' = FALSE
  /\ UNCHANGED <<mode, upstream, sent, wire, gatewayVars, late>>

-----------------------------------------------------------------------------
GatewayStep == Connect \/ Scan \/ Receive \/ TimeoutFires \/ ClientGone

Busy ==
  \/ handler.pc = "start" /\ sent # <<>>
  \/ scanner.pc = "scan" /\ (wire # <<>> \/ upstream.pc = "ended")
  \/ handler.pc = "select" /\ (scanner.pc = "send" \/ handler.timer = 0)

\* Time passes for the two timers.
Tick ==
  /\ handler.pc # "returned"
  /\ handler.timer > 0 \/ (upstream.pc = "loop" /\ upstream.quiet < Timeout)
  /\ handler' = [handler EXCEPT !.timer = IF @ = 0 THEN 0 ELSE @ - 1]
  /\ upstream' = IF upstream.pc = "loop" /\ upstream.quiet < Timeout
                 THEN [upstream EXCEPT !.quiet = @ + 1] ELSE upstream
  /\ late' = (late \/ Busy)
  /\ UNCHANGED <<mode, sent, wire, scanner, out, client>>

UpstreamStep ==
  UpstreamNotFound \/ UpstreamStatus \/ UpstreamResult \/ UpstreamTimeout \/ UpstreamCut

Next == UpstreamStep \/ GatewayStep \/ ClientLeaves \/ Tick

-----------------------------------------------------------------------------
Returned == handler.pc = "returned"
Written(events) == FlattenSeq([i \in DOMAIN events |-> Relayed(events[i])])

\* What the client is sent are the events of the job service, each with its
\* own data, none left out, doubled or out of order, up to where the handler
\* stopped; the handler may then add its own ending (sse.go:54-87).
RelayIsPrefix ==
  \E n \in 0..Len(sent) : \E own \in {<<>>, TimedOut, Unavailable} :
    out = Written(SubSeq(sent, 1, n)) \o own

\* A client that stays is never left without an outcome: the stream ends with a
\* result or an error, and then with "close", also when the upstream stream
\* breaks off (sse.go:45-87).
EveryStreamConcludes ==
  Returned /\ client =>
    /\ out # <<>> /\ Last(out) = Close
    /\ \E i \in DOMAIN out : out[i].type \in {"result", "error"}

\* Nothing follows "close" on the JSON stream, which is re-emitted as it is
\* (sse.go:69-76, 113-133).  The HTML stream has a "close" of its own with the
\* result, and that of the job service after it.
CloseIsTerminal ==
  mode = "json" => \A i \in DOMAIN out : out[i] = Close => i = Len(out)

\* When nobody is late, a result whose line the scanner takes reaches the
\* client, who is not told of a timeout instead (sse.go:45-83).
ResultIsRelayed ==
  Returned /\ client /\ ~late =>
    \A i \in DOMAIN sent : sent[i].type = "result" /\ sent[i].data # "failed_at_length"
      => \E j \in DOMAIN out : out[j] = sent[i]
=============================================================================
