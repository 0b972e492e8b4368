------------------------------ MODULE JobTypes ------------------------------
(***************************************************************************)
(* The data that the job service and the worker pass through Redis and the *)
(* bucket (internal/model), the processes of one instance of the system,   *)
(* and the clock.                                                          *)
(*                                                                         *)
(* A list is one of the abstract Contents, the text that is stored.  What  *)
(* the components tell apart is whether every line parses (Parsable) and,  *)
(* for each order, whether Check finds the lines sorted (SortedIn); module *)
(* SortCheck has Check itself.  POST /jobs looks at the items it is sent,  *)
(* not at the lines it writes: an item may contain a line break and parse  *)
(* although its lines do not (Accepted).                                   *)
(***************************************************************************)
EXTENDS Integers, Sequences, FiniteSets

CONSTANTS
  SubmitIds,   \* the ids drawn by POST /jobs: one request each
  UploadIds,   \* the ids drawn by POST /uploads
  Checks,      \* the requests POST /uploads/{id}/check
  CheckIds,    \* the ids those requests may name: any id that has a list will do
  Polls,       \* clients of GET /jobs/{id}
  Streams,     \* requests GET /jobs/{id}/events
  Workers,
  Snapshotters, \* the workers whose snapshot ticker fires
  Counts,      \* clients of GET /stats/count
  Contents, Accepted, Parsable, SortedIn,
  NoId, NoList,  \* no job, and no object
  Env,         \* what may go wrong in this instance
  MaxResends,  \* bound on the commands to Redis that are sent again
  MaxTime,     \* bound on the clock; 0 when nothing expires
  TTL,         \* of statuses and results (queue.go:19)
  CleanAge,    \* of the objects that the cleanup deletes (worker.go:94)
  PresignTTL,  \* of an upload URL (handlers.go:26)
  ActivityMax  \* entries kept in the activity feed (activity.go:16)

Ids == SubmitIds \cup UploadIds
Orders == {"asc", "desc"}
Requests == SubmitIds \cup Checks

\* An id that one request asks to check: newUUID never draws it again, and no
\* upload check names it.
Once == SubmitIds \ CheckIds

(***************************************************************************)
(* Env: "redis" and "s3", a command may fail; "crash", a worker or a       *)
(* request may die between two steps.  That a subscription takes effect    *)
(* late, and that a stream waits for 30 seconds, is no fault: both may     *)
(* happen in every instance.                                               *)
(***************************************************************************)
Faults == {"redis", "s3", "crash"}

ASSUME IdsAssumption ==
  SubmitIds \cap UploadIds = {} /\ SubmitIds \cap Checks = {} /\ CheckIds \subseteq Ids
ASSUME ContentsAssumption ==
  /\ Accepted \subseteq Contents /\ Parsable \subseteq Contents
  /\ SortedIn \in [Orders -> SUBSET Parsable]
ASSUME ProcessesAssumption == Snapshotters \subseteq Workers
ASSUME NoneAssumption == NoId \notin Ids /\ NoList \notin Contents
ASSUME EnvAssumption == Env \subseteq Faults
ASSUME TimesAssumption ==
  /\ MaxResends \in Nat /\ MaxTime \in Nat /\ TTL \in Nat \ {0} /\ CleanAge \in Nat \ {0}
  /\ PresignTTL \in Nat \ {0} /\ ActivityMax \in Nat \ {0}

\* A missing key reads as "none".
Statuses == {"none", "queued", "processing", "done", "error"}
Final == {"done", "error"}

Job == [id : Ids, order : Orders]

\* model.Result and model.StatusEvent: what is said of a job.  The field error
\* keeps the step that failed.  The Go field Sorted is omitted from the JSON
\* when it is false, so FALSE here is also "no such field".
Report == [status : Statuses, sorted : BOOLEAN, error : {"", "read", "parse"}]
Plain(s) == [status |-> s, sorted |-> FALSE, error |-> ""]
Done(b) == [status |-> "done", sorted |-> b, error |-> ""]
Failed(e) == [status |-> "error", sorted |-> FALSE, error |-> e]
NoReport == Plain("none")

\* model.ActivityEntry, and what counter.Values returns.
Entry == [sorted : BOOLEAN, order : Orders, list : Contents]
CounterNames == {"total", "sorted", "not_sorted"}
Reading == [CounterNames -> Nat]
Zeros == [c \in CounterNames |-> 0]

Check(content, order) == content \in SortedIn[order]

VARIABLES
  now,      \* the clock that the time-outs are measured on
  resends,  \* how many commands to Redis have been sent again
  twice     \* the requests whose job was pushed once more
sentVars == <<resends, twice>>

\* The ids that one job was pushed for, at most.
PushedOnce == Once \ twice
=============================================================================
