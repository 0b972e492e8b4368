----------------------------- MODULE StreamEvents -----------------------------
(***************************************************************************)
(* What the event stream of a job is made of (cmd/jobservice/sse.go): the  *)
(* events that its handler writes, and in which order.  The job service    *)
(* that writes them and the gateway that relays them both build on it.     *)
(***************************************************************************)

Event(type, data) == [type |-> type, data |-> data]
Close == Event("close", "")
TimedOut == <<Event("error", "timeout"), Close>>
NotFound == <<Event("error", "not_found"), Close>>

\* A final status is sent as a status when its result cannot be read.
ToldStatus == {"queued", "processing", "done", "error"}
\* The error of a job may be longer than a Scanner takes as a line.
Outcome == {"sorted", "unsorted", "failed", "failed_at_length"}

\* The handler writes `events` and is in phase `next`.  A stream that breaks
\* off writes nothing more, not even "close".
Turn(events, next) == [events |-> events, next |-> next]
StatusTurns == {Turn(<<Event("status", status)>>, "loop") : status \in ToldStatus}
ResultTurns == {Turn(<<Event("result", outcome), Close>>, "ended") : outcome \in Outcome}
BreaksOff == Turn(<<>>, "ended")

Turns(phase) ==
  CASE phase = "new" -> StatusTurns \cup ResultTurns \cup {Turn(NotFound, "ended"), BreaksOff}
    [] phase = "loop" -> StatusTurns \cup ResultTurns \cup {Turn(TimedOut, "ended"), BreaksOff}
    [] phase = "ended" -> {}
=============================================================================
