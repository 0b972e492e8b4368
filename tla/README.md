# isitsorted in TLA+

A verification development of *isitsorted*, a service that says whether a list is sorted. It consists of TLA+
modules that model the program, TLC configurations that check them on small instances, and proofs that hold
for every instance. Paths below are relative to the repository.

1. [The system](#1-the-system)
2. [Modules](#2-modules)
3. [What is checked](#3-what-is-checked)
4. [What is proved](#4-what-is-proved)
5. [Where the code and its documents differ](#5-where-the-code-and-its-documents-differ)
6. [Not modelled, and the plan](#6-not-modelled-and-the-plan)
7. [Running it](#7-running-it)

## 1. The system

Three Go programs share one Redis and one S3 bucket:

```
 browser ──> gateway ──HTTP──> job service ──┬── Redis: queue, status and result keys, channels,
              │  rate limit     (handlers,   │          counters, activity feed
              └─ event relay     event        └── bucket: lists/, results/, state/
                                 streams)                 ▲
                                 worker(s) ───────────────┘   parse the list, Check, record the outcome
```

| Component | Code | State | Operations | Correct when |
|---|---|---|---|---|
| Job service handlers | `cmd/jobservice/handlers.go` | none of its own: one goroutine per request, several Redis and bucket commands each | submit a list, ask for an upload URL, check an upload, poll, counts, feed, health | a job is queued once, its status never goes back, a poll never tells of an earlier state after a later one |
| Event streams | `cmd/jobservice/sse.go` | per request: what was sent, a subscription, a timer | look, subscribe, look again, wait | a listener that Redis knew of in time learns how the job ended, every other is told of a time-out; nothing goes back |
| Worker | `cmd/worker/worker.go` | the job at hand; a clean-up loop and a snapshot loop beside it | pop, announce, read, parse and check, write result, status, object, counters, feed, publish; delete old objects; save counters and feed | every verdict is right; no job runs twice; no young object is deleted; what is saved catches up |
| Sort check | `cmd/worker/sortcheck.go` | loop state | one greedy pass over a list of numbers, sets, ranges and infinities | it answers yes exactly when the list can be read in order |
| Queue, statuses, results | `internal/queue` | Redis list and keys that expire | push, pop, set, get | |
| Object storage | `internal/storage` | objects with their ages | put, get, list, delete, presign | |
| Publish/subscribe | `internal/pubsub` | subscriptions and channels | subscribe, publish, cancel | |
| Counter, activity feed | `internal/counter`, `internal/activity` | Redis counters, a trimmed list | increment, add; read three counters, read the feed | they agree with the results; a page does not go back |
| Rate limiter | `cmd/gateway/ratelimit.go` | table of token buckets behind a mutex, used outside it; an eviction loop | look up, allow, evict | it cannot be told from one bucket per address |
| Event relay | `cmd/gateway/sse.go` | scanner goroutine, channel, timer | relay lines, as JSON or HTML | in order, complete, always ended |
| Gateway handlers | `cmd/gateway/{handlers,client,main}.go` | per request: the call it waits for | read a form or JSON, call the job service, answer as HTML or JSON; the status page | what is accepted is what was sent; the client is told what happened; every request ends |
| Expressions | `parser/{parse,expr,set,interval}.go` | the call stack | operators, sets, intervals, infinities | a value is, or encloses, what was written |
| Numerals and words | `parser/{multilang,languages_*,roman,braille}.go` | what is tried on a text, and the sum so far | Roman, Braille, sixteen languages in their order | a number is read as what it means, or refused |
| Pages | `cmd/gateway/html.go`, `static/` | none | wording | |

What is hard here (PROJECT.json's `hazards` have it line by line): handlers, workers and streams interleave at every
Redis command, for there is no transaction anywhere; a worker pops destructively and then makes ten separate
writes; any of them may fail or be the last; a stream joins a key with a channel whose subscription takes
effect late; keys expire and a loop deletes by age, both without knowing whether a job still waits; two
timers of the same length run in two services; a limiter is used outside its mutex while its entry may be
thrown out; the Redis library sends a command again when its reply is lost; three counters are read while they are incremented; a call of the gateway times out while the job
service goes on with it; the parser changes from sets of points to ranges in the middle of an expression; and
sixteen languages with words in common are tried one after the other.

## 2. Modules

| Module | Models | State and actions |
|---|---|---|
| `JobTypes` | `internal/model`; constants, clock, and which commands were sent again (`resends`, `twice`) | what jobs, results and events are; an abstract list is known by whether its lines parse and in which orders it is sorted |
| `RedisStore` | `internal/queue` | `queue`, `status`, `result`, `until`; operators for each command, with failure; `LosesReply`, which has a command take effect twice |
| `Bucket` | `internal/storage` | `lists`, `results`, `modified`, `saved` |
| `PubSub` | `internal/pubsub` | `inbox`: per stream the topic, whether the subscription counts yet - it never does at once - and the channel's events |
| `Stats` | `internal/counter`, `internal/activity` | `counters`, `activity` |
| `Snapshot` | the snapshot loop | `snapshot`; `SnapshotTotal`, `SnapshotSorted`, `SnapshotNotSorted`, `SnapshotPutCounter`, `SnapshotRecent`, `SnapshotPutActivity` |
| `StatsHandlers` | `GET /stats/count` | `count`; `CountRead`, once per counter |
| `JobService` | handlers | `req`, `url`, `poll`; one action per Redis or bucket command: `SubmitValidate`, `SubmitPutList`, `RequestSetStatus`, `RequestPush`, ...; `RequestSendsAgain` |
| `Worker` | worker loop and clean-up | `work`, `sweep`; `WorkerPop` ... `PublishOutcome`, `WorkerSendsAgain`, `WorkerCrash`, `SweepStart`, `SweepList`, `SweepDelete` |
| `EventStream` | job service streams | `stream`; `StreamOpen`, `StreamFirstResult`, `StreamSubscribe`, `StreamAgain`, `StreamSecondResult`, `StreamReceive`, `StreamTimeout`, `StreamGone` |
| `JobSystem` | all of the above around one Redis and one bucket, and the clock | the composition, its fairness, its properties |
| `JobPromise` | abstract specification: queued, processing, the right answer | `right`, `view` |
| `StreamEvents` | what an event stream is made of: the events of `jobservice/sse.go`, and the turns in which they are written | pure definitions |
| `JobStream` | abstract specification: a stream tells statuses, then one ending, then nothing | `phase`, `told` |
| `GatewayStream` | the relay, with the job service's stream as its environment | `scanner`, `handler`, `wire`, `out`, ... |
| `Gateway` | handlers, client and status page of the gateway, with the job service behind them and the relay after them | `front`, `service`, `job`, `answer`; `SubmitForm`, `SubmitJSON`, `Forward`, `ServiceSubmit`, `ServiceReply`, `Respond`, `CallFails`, `OpenStream` |
| `TokenBucket` | abstract specification: one bucket per address, for ever | `level` and accounts |
| `RateLimiter` | the table, its eviction, the use outside the mutex | `ips`, `seen`, `bucket`, `call` |
| `SortCheck` | `Check` as a loop, and its declarative meaning (`Sortable`) | `list`, `i`, `j`, `prev`, `verdict` |
| `Rational`, `ValueArith` | `math/big` fractions; the values and their arithmetic | pure operators |
| `Expression` | evaluation while parsing, with the set of numbers that the input stands for beside each value | `stack`, `elements`, `pc` |
| `Languages` | the tables of sixteen languages in the order of the registry | pure definitions |
| `NumberWords` | `roman.go`, `braille.go`, `multilang.go` and the hooks of the languages | `numeral`, `stage`, `lang`, `rest`, `sum`, `value`; one action per attempt and per kind of token |
| `Spelling` | no code: how numbers are written in these languages, as the reference for `NumberWords` | pure definitions |
| `ParseValue` | a value is a numeral or an expression; in braces numerals are elements | the two above |
| `MC...` | instances for TLC | |
| `SortCheckProofs`, `RateLimiterProofs`, `GatewayProofs`, `ParserProofs` | theorems about the module of that name (`ParserProofs`: `ParseValue`), see section 4 | |
| `JobSystemProofs`, `PlaceProofs`, `PromiseProofs` | theorems about `JobSystem`: types and verdicts; places, ages and counts; what holds while Redis answers | |
| `InductionProofs` | induction and recursive functions over the natural numbers, for the two proofs that need them | |

**Composition.** `JobSystem` EXTENDS the components. Each component's step is conjoined with a frame that says
which other components it leaves alone; the stores (`RedisStore`, `Bucket`, `PubSub`, `Stats`) are shared and
their operators are part of the component's actions, so an action is exactly one command sent to a store,
with the local computation up to the next. `GatewayStream` has the stream of the job service as its environment rather than
the whole of `JobSystem`, for the relay sees nothing else of it. The two meet in `StreamEvents`: the environment takes
the turns that are written there (`UpstreamTakesTurns`), and the streams of `JobSystem` take no other
(`StreamsAreAsRelayed`, refinement of `JobStream`), so the relay is checked and proved against what the job service does. `Gateway`
EXTENDS it: one request of a client, the call of the job service that it becomes, and, when it was an accepted
submission, the stream that the client opens next. `ParseValue` EXTENDS `Expression` and `NumberWords`: a numeral in
braces runs through all its attempts before the set goes on.

**Abstractions.** A list is a model value: `Parsable` lists have lines that parse, `SortedIn[order]` are those
that `Check` finds sorted (`SortCheck` has `Check` itself), and `Accepted` are those whose items parse when they
are submitted. A list may be accepted and not parse, because an item may contain a line break. Reports keep
their status, verdict and which step failed. `Sorted: false` is the absent field, as `omitempty` makes it. A
command that fails after it took effect is the same step as one that succeeds wherever the caller goes on
in either case; where it does not (storing the list, pushing the job, the reply of BRPOP) both are there.
Redis's library sends a command again, up to three times, when the connection breaks before the reply: then the
command takes effect and the caller stays where it is, to do it once more (`RequestSendsAgain`, `WorkerSendsAgain`, bounded by
`MaxResends`). All commands that write are there: the two keys, the push, PUBLISH, and the two pipelines, of which the first copy may
have been cut short. A second BRPOP is a job lost and another popped, which is a crash and a pop; reads may be
repeated without harm. A copy that reaches Redis only after its connection has timed out, and the caller has gone on, is not
modelled. A list of a form or of JSON has a size in tokens: the limit of 1 MB is `MaxBody`, a line break or comma is one token
more, and the quotes that the gateway puts around each line when it sends the list on are two (`Size`). A text of words is a sequence of tokens, a token one of
chunks where the code looks into it (the infix of a compound, Hangul syllables, Roman letters); words that a table
gives the same number are represented by one or two.

Each definition whose name ends in `Mutant`, and `OutcomeAscending`, `OutcomeEmpty`, `OutcomeFailed`,
`StreamAgainSkips`, `StreamAgainSends`, `DataRuns`, `DataProlongs`, `DataGoesOn`, `TimeoutFiresAtEnd` and
`TimeoutFiresNever`, is a variant of the definition after it with a plausible mistake. They are no part of any
specification: PROJECT.json names, for every property, the mistake that violates it.

## 3. What is checked

### The job system

| Run | Instance | Properties |
|---|---|---|
| `jobs` | 3 submissions, 2 workers, 1 poll, no faults | `CountersAgree`, `FeedIsTrimmed`, `PollMovesForward` |
| `promise` | 2 submissions that may not parse, 2 workers, 1 stream, no faults, fairness | `KeepsPromise` (refinement of `JobPromise`, liveness included), `NoMissedCompletion`, `StreamDelivers`, `StreamEnds`, `CountedBeforeTold` |
| `faults` | 1 submission, 1 stream, 2 workers, Redis failures, crashes, one command or pipeline sent again (`MaxResends` = 1) | `EveryVerdictIsRight`, `JobInOnePlace`, `TotalCoversVerdicts`, `StreamMovesForward`, `StatusMovesForward` |
| `anything` | 1 submission, 1 worker, 1 stream; Redis and bucket failures, late and broken subscriptions, time-outs, one unit of time: keys expire and the clean-up runs | `TypeOK`, `EveryVerdictIsRight`, `StreamsAreAsRelayed` (refinement of `JobStream`), `StreamMovesForward`, `StatusMovesForward`, `CleanupSparesFresh` |
| `snapshots` | 1 submission, 2 workers with snapshot loops, a page that asks for the counts again and again, no faults, fairness | `CountsMoveForward`, `SnapshotCatchesUp`, `CountsCatchUp` |
| `uploads` | 1 submission, 1 upload, 2 checks of either, 2 workers, no faults | `NothingLeftPending`, `EveryVerdictIsRight` |

* `EveryVerdictIsRight`: no result key, object, event or stream ever has a verdict on a submitted list other than the
  right one for an order that was asked for; a list that parses does not end with a parse error, and one
  is missing only when the bucket fails or the clean-up came.
* `JobInOnePlace`: a job waits once or is with one worker; a finished job does not come back. A job whose push the Redis library has
  repeated (`twice`) may be in two places, and does come back: `PushedOnce` leaves it out, and no other, here and in
  `StatusMovesForward`, `StreamMovesForward` and `CleanupSparesFresh`. What holds even of that job are `EveryVerdictIsRight` and
  `TotalCoversVerdicts`.
* `NothingLeftPending`: when nothing fails, no client is left with a status that nothing will change.
* `StatusMovesForward`, `PollMovesForward`, `StreamMovesForward`: the key, what one client polls, and what one stream
  sends go from queued to processing to the end and never back. The order of the two commands at
  handlers.go:129-132 is what the first two rest on.
* `StreamsAreAsRelayed`: a stream is written from five places - a missing job, two looks at the result, the events and the
  timer - and yet tells states of a job that have a name, also when the key expires between the two looks, then one
  ending, and nothing after it.
* `NoMissedCompletion`, `StreamDelivers`, `StreamEnds`: in every run Redis learns of a subscription at some time after `Subscribe` has
  returned, or never. If it knew of it when the stream looked again (`covered`) and the connection does not break, the end of an unfinished job will be in
  the channel, and the stream ends with the result unless its timer fires first. Otherwise the end may be missed; then the timer ends the
  stream. `StreamTimeout` may be taken at any time in the loop, however long 30 seconds are beside the steps of a worker.
* `CountedBeforeTold`: the last event of a job is published after its verdict is counted, because the page asks for the
  counters when the event arrives.
* `CountsMoveForward`: of two answers to one client the later has no smaller counter, although the three are read at
  three moments; the zeros that the handler answers when Redis fails are excepted.
* `CountsCatchUp`, `SnapshotCatchesUp`: when no more jobs come, the page and the objects in the bucket end at the counters
  and the feed, for good, although the workers overwrite each other's snapshots with older ones on the way.
* `CountersAgree`, `TotalCoversVerdicts`, `FeedIsTrimmed`: what the unordered pipelines add up to, with and
  without failures.
* `CleanupSparesFresh`: whatever happens between the cutoff, the listing and the deletion, nothing of a submitted
  job is deleted before its age. Objects that are written again after the listing - an upload URL used twice, the
  result of a second run - are deleted at once, and are left out.

Why these bounds are enough. A job meets another only in the queue, the counters and the feed, so two jobs
and two workers give every pair of interleaved steps, and a third job an order in the queue. One worker is
enough where the question is what becomes of one job; the clean-up is a process of its own in each. One unit
of time is the whole life of a key and of an object in `anything` (`TTL` and `CleanAge` are 1), so keys expire and
objects age between any two steps. `ActivityMax` is 1 or 2, less than the entries that are written.
`MaxTime` = 0 switches time and the clean-up off. One command that is sent again (`MaxResends` = 1) is any of them, and every pair of steps of the doubled job
meets, because both workers may have it at once; two doubled pushes add a third copy beside them. `MaxResends` is 0 in the other
runs: the proofs have any number. Workers, and submissions of the same instance, are alike: `faults` checks safety only and is
symmetric in both (`Alike`); no run with a liveness property is symmetric. That another job does not disturb one whose commands fail is
left to the proofs, which have any number of jobs; with two jobs, failures and a resend the run would take too long, and so would crashes in `anything`. One polling client and one stream are enough because clients
do not write anything that others read.

### The rest

| Run | Instance | Properties |
|---|---|---|
| `sort_check` | lists of up to 3 values over 0..2: every point, range, discrete set, infinity; both orders | `TypeOK`, `VerdictCorrect` |
| `rate_limiter` | 2 addresses, 2 concurrent requests, 3 limiters, a burst of 2, eviction after 3, 5 units of time; symmetric in addresses, requests and limiters | `TypeOK`, `BurstBound`, `IsTokenBucket` (refinement of `TokenBucket`) |
| `gateway` | one request of each kind, in both formats, valid or not; 11 lists on lines or with commas, with sets and intervals that keep theirs, blanks, brackets that do not match, and seven short lines that are within the limit as written (14 of 25 tokens) and beyond it when they are sent on (28); up to 2 status events, timers of 2 units; the job service may be down, slow, fail, break off or be silent, the client may leave; fairness | `TypeOK`, `RelayIsPrefix`, `EveryStreamConcludes`, `CloseIsTerminal`, `ResultIsRelayed`, `AcceptedIsWhatWasSent`, `ClientIsToldTheTruth`, `EveryRequestEnds` |
| `parse_value` | literals 1 and 2 (zero and negative numbers come of differences), up to 4 operators, a stack of up to 3; sets of more than 2 points become ranges; an int64 of -3..2; about 5,000 numerals, three of which also occur in braces before the operators | `ValuesAreWellFormed`, `ValuesEnclose`, `ReadsWhatIsMeant` |

* `VerdictCorrect` compares the greedy pass, which keeps one reference and never goes back, with a definition that
  quantifies over all readings of the list.
* `RelayIsPrefix`: the client gets the events of the job service, each with its own data, none lost, doubled or
  reordered, and at most one ending of the gateway's own. `EveryStreamConcludes`: a client that stays gets an
  outcome and `close`. `ResultIsRelayed`: if the gateway keeps up and no event is sent just as the
  timers run out (`late` records both), the client gets the result and not a time-out, unless the line is longer
  than the scanner takes. Two status events and timers of two units are enough for a timer that is not reset
  to run out early, which is what the property is about.
* `AcceptedIsWhatWasSent`: the job that is accepted has the values that the client meant by its form or JSON items, in
  their order, and the order that was asked for, after both services have split and trimmed the text.
  `ClientIsToldTheTruth`: a client that is told of an id has a job, and one that is told of a refusal had something
  wrong in its request, or a list that outgrew the limit of the job service when the gateway wrote it as JSON, has no job and gets none later, also when the call times out while the job service goes on. `EveryRequestEnds`: every request is answered, and the stream of an accepted
  job ends.
* `ReadsWhatIsMeant`: a numeral that is written in a regular way (`Spelling`) is read as its number by whichever reader or
  language takes it first, and a text that mixes languages, has an unknown word or is a broken numeral is
  refused. Every word of every table up to twenty, the tens, hundreds and scales of each language occur, in all the
  ways in which two groups combine; larger numbers repeat them.
* `ValuesEnclose`: a point or a set of points is exactly what was written; a range contains all of it. `regular`
  marks the inputs for which this is claimed; section 5 says what happens to the others, which the model has
  too. The bound on points is small so that sets turn into ranges within two operators; it, the bound on
  factorials and the width of int64 (`MaxDiscretePoints`, `MaxFactorial`, `MaxInt`) are constants.

### Fairness

A goroutine that can go on goes on: handlers of requests that have been read, the loop of a worker, the steps of
a stream that do not wait for Redis or the clock (`WF` in `JobSystem!Fairness`). That Redis ever learns of a subscription, and that
30 seconds ever pass, is not supposed; `StreamEnds` alone has the timer's fairness as its premise. The scheduler of Go justifies it, and
each of these steps stays enabled until it is taken. No client has to do anything, and no fault has to
happen. The snapshot ticker fires again and again, and in `snapshots` a page is loaded again and again. In `Gateway`, the
gateway's goroutines and its client's context are fair, time passes, a client that stays opens the stream of its job,
and the job service answers that; it need not reply to a call, which then fails at its time-out, nor send
anything after the first event of a stream. Deadlock is not checked
(`CHECK_DEADLOCK FALSE`) because these systems may stop: when the submissions of the instance are done, when a list has
been checked, when a stream has ended, when the bounds are reached. That they do not stop early is what
`NothingLeftPending`, `StreamDelivers`, `CountsCatchUp`, `EveryRequestEnds` and the liveness part of `KeepsPromise` say.

## 4. What is proved

With TLAPS, for all values of the constants that satisfy the assumptions stated at the end of this section. "Whatever
fails" means all of `Faults`: Redis, the bucket, crashes at any step, subscriptions that break, clients that
leave; with time, expiry and clean-up, with any number of commands that are sent again, and with subscriptions that take
effect at any time or never.

| Theorem | Statement | Supposes |
|---|---|---|
| `SortCheckProofs!CheckTypeOK` | `Spec => []TypeOK` | |
| `SortCheckProofs!CheckVerdictCorrect` | `Spec => []VerdictCorrect` | |
| `JobSystemProofs!TypeCorrect` | `Spec => []TypeOK` | whatever fails |
| `JobSystemProofs!VerdictsRight` | `Spec => []EveryVerdictIsRight` | whatever fails |
| `PlaceProofs!JobsInOnePlace` | `Spec => []JobInOnePlace` | whatever fails |
| `PlaceProofs!StatusOnlyForward` | `Spec => StatusMovesForward` | whatever fails |
| `PlaceProofs!FreshIsSpared` | `Spec => CleanupSparesFresh` | whatever fails |
| `PlaceProofs!TotalCovers` | `Spec => []TotalCoversVerdicts` | whatever fails |
| `PlaceProofs!PageMovesForward` | `Spec => CountsMoveForward` | whatever fails |
| `PlaceProofs!FeedTrimmed` | `Spec => []FeedIsTrimmed` | Redis answers, no crash |
| `PlaceProofs!ToldIsCounted` | `Spec => []CountedBeforeTold` | Redis answers |
| `PromiseProofs!StreamsOnlyForward` | `Spec => StreamMovesForward` | whatever fails |
| `PromiseProofs!StreamsSpeakInTurns` | `Spec => StreamsAreAsRelayed` | whatever fails |
| `PromiseProofs!PollsOnlyForward` | `Spec => PollMovesForward` | Redis answers, nothing expires |
| `PromiseProofs!NothingPending` | `Spec => []NothingLeftPending` | the same, no crash |
| `PromiseProofs!CompletionsCaught` | `Spec => []NoMissedCompletion` | the same, no crash |
| `PromiseProofs!CountersRight` | `Spec => []CountersAgree` | as `NothingPending`, and no upload is checked |
| `PromiseProofs!StepsKeepPromise` | `Spec => Promise!Init /\ [][Promise!Next]_(Promise!promiseVars)` | Redis and the bucket answer, nothing expires |
| `RateLimiterProofs!LimiterTyped` | `Spec => []TypeOK` | |
| `RateLimiterProofs!LimiterIsTokenBucket` | `Spec => Bucket!Spec` | |
| `RateLimiterProofs!BurstIsBounded` | `Spec => []BurstBound` | |
| `GatewayProofs!GatewayTyped` | `SpecGateway => []TypeOK` | |
| `GatewayProofs!RelaysAsSent`, `StreamsConclude`, `CloseEnds`, `ResultsRelayed` | `SpecGateway => []RelayIsPrefix`, `[]EveryStreamConcludes`, `[]CloseIsTerminal`, `[]ResultIsRelayed` | |
| `GatewayProofs!UpstreamTakesTurns` | `TypeOK => (UpstreamStep <=> \E turn \in Turns(upstream.pc) : Due(turn) /\ Send(turn.events, turn.next))` | |
| `GatewayProofs!AcceptedAsSent` | `SpecGateway => []AcceptedIsWhatIsSplit` | lists are sequences of lines of tokens |
| `GatewayProofs!ToldTheTruth` | `SpecGateway => []ClientIsToldTheTruth` | the same, and lists mean what the splitter makes of them (`ReadsAsMeant`) |
| `ParserProofs!ValuesWellFormed` | `Spec => []ValuesAreWellFormed` | |
| `ParserProofs!ValuesEnclosed` | `Spec /\ []BracesAreReadAsMeant => []ValuesEnclose` | the numerals in braces, if there are any, are read as meant: the part of `ReadsWhatIsMeant` that is about them, which the run `parse_value` checks |

What is supposed of the faults (the third column) is a condition of the code, not of the proof: for each of them TLC
or section 5 has the behaviour that breaks the property without it. A status that Redis did not store stays pending,
a worker that dies takes its job with it, a key that expires turns a poll back to "not found", a failed INCR is never repeated, and a second check of an upload is a second job that
is counted again. No property is stated for fewer faults than the run that checks it has.

### The arguments

**Sort check.** `IInv`: the scan is at a point of the list's element or next to it; the reference `prev` is reached by a reading of the elements so far, and is the least that any reading
reaches; so where the reference cannot go on, none can. The order on extended numbers is shown to be total and
transitive first.

**Verdicts.** `EveryVerdictIsRight` is not inductive: it says nothing of jobs that wait or of lists. `VerdictInv` follows a job
from the request to the verdict. The list stored under a submitted id is the one of its request, and stays
so (`ListsAreSubmitted`); a request that is past storing it, a job in the queue, and a worker's job have it, unless
lists may get lost (`RequestsAreKept`, `JobsAreAsked`, `WorkIsAsked`); what is queued or worked on was asked for
by a request, in that order (`Asked`); and from there each report - the outcome a worker holds, the keys, the
objects, the events in a channel, what a stream has sent - is `Fine`. The parts are operators of the requests and the
lists, so that "what was right stays right while requests go on and lists stay" is one lemma
(`FineGrows`, `KeptGrows`) used by every action.

**Where a job is.** A job is pushed once because its request is at one step, unless the Redis library pushes it again, which
`twice` records; but that the pushed job is nowhere else, and that
nothing is known of it yet, has to be carried along. `PlaceInv` says for each submitted id that is pushed once: before the request has
pushed, it is neither queued nor held and has no result; while it waits nobody holds it and its result is fresh; while
a worker holds it, status, result and object agree with the worker's step (`Agrees`). `Moves`, the action property behind
`StatusOnlyForward`, says in addition that what is beyond a step stays beyond it (`Beyond`), which later proofs
cite. `FreshIsSpared` needs `SweepsAreOld`: the cutoff was old when it was read, every object of the list was older than the
cutoff when it was listed, and whoever might write the object has gone past it (`Settled`) - the write between the
listing and the deletion, which would make the age stale, is thus excluded by where the job is.

**Counters and feed.** Between the commands of a pipeline the sums do not agree; the invariants count the workers that are
there: `TotalInv` (total >= verdicts + workers about to count one), `FeedInv` (length <= bound + workers about to trim),
`AwareInv` (jobs whose end anyone was told of, or is about to be told of, are at most as many as the verdicts). `CountsInv` has
the bounds between an answer, the numbers read so far for the next one, and the counters now.

**While Redis answers.** `FollowsInv`: the status and the result of a submitted job are exactly what its request and its worker
have come to. From it, `PollInv`: what a poll has read, and the answer before it, are not ahead of the keys; the result is read
first, which is why an end that was told once is told again. `LiveInv` has no such id-by-id account, for a check may
queue an upload twice and two workers may then write its keys in any order: it only says that somebody is early
enough to write an end, or that both keys are written. `CatchesInv` adds the streams that are `covered`, and those that look again while Redis knows of them: at the second look the result was
missing and the subscription in force, so the worker that holds the job, or the push after it, is still ahead of the publication. `AgreeInv` equates each
counter with the number of ids whose result is of that kind and whose worker has gone past the count. `RightInv` ties the order
and the list of a job to its request, so that what the worker writes is the very answer that `JobPromise` has
fixed; with it each action is a step of `JobPromise` or a stutter (`StepsKeepPromise`).

**Streams, whatever fails.** `ShownInv`, for jobs pushed once: once a stream has sent an end, nobody who could publish "processing" is left, and
its channel has ends only, and in any case nothing but events of the worker. `SaidInv` adds that what a stream has said, or is about to
say once it has looked for a result, is a state with a name; with both, each step of a stream is one turn of `JobStream` or is
silent (`EventSaid`). That the relay's model has neither more nor fewer turns than that is `UpstreamTakesTurns`; `Due` says what
of their timing it knows: the bound on statuses, the timer, and that a stream breaks off only once it has begun.

**Rate limiter.** `Inv`: no two addresses share a limiter; what a request holds is in the table and was looked up at most
`Stall` ago; a limiter is used at most `Stall` after its address was seen. So an entry that is thrown out has filled
up and nobody holds it. One lemma per action shows its step of the abstract bucket.

**Relay.** `SentInv` is what the job service sends: states, then an outcome and `close`. `RelayInv` says where between wire and client
each event is: there are `m` and `p` such that the first `m` events and `p` lines of the next have been taken
(`Relaying`): what is on the wire, in the scanner's hand, in `eventType` and written to the client are functions of these
two, in both formats. A timer that has not been late when lines were taken has not run out (`Timely`), and this is what
`ResultIsRelayed` needs. Once the handler has returned nothing changes any more, and the four properties together are the invariant.

**Submission.** `FrontInv` follows one request: the call carries what was asked for (`CallIsAsAsked`), the reply is true of the
job service (`ReplyIsTrue`), and an answer to the client is true for good. That a form, whose blank lines the gateway drops,
and a JSON list, which it passes on, become the same job is the lemma `BlanksAreNothing`: dropping blank items does not change what
the job service reads. It goes through the splitter (`SplitsExist`, `SplitType`) and through flattening (`FlattensExist`
and what follows it), which are recursive definitions of the library.

**Values of the parser.** The solver does not decide products of four unknowns, so the arithmetic of `math/big` is built up from
integers: Euclid's algorithm gives a common divisor that is a combination of both numbers, so there is only one
(`GcdIsCommon`); a fraction in lowest terms is determined by its ratio (`Canonical`), and `Leq` is a total order that sums, products with a
known sign, inverses on one side of zero and powers keep or turn around. `Encloses(v, E)` then says what a finite
value is for a set of numbers `E`: a point or a set of points is just `E`, a range has all of it inside, the
ends are in order, and a set of points has at least two with the ends at its extremes. One lemma per function of the code
(`AddEncloses`, ..., `PowEncloses`, `BracesEnclose`) takes it from the operands to the result, over the limit of points or
not: a product lies between two of the four products of the ends (`ProductInCorners`), a power of a range between those
of its ends, or between zero and one of them (`PowerBetween`). `ExprInv` says it of each entry of the stack and of the open braces that is
`regular` and no infinity, and nothing of the others. A numeral in braces comes in as the point of what was read, whose value is a fraction by `NumeralInv`: the sum over the
letters of a Roman numeral (`RomanIsNumber`), the fold over Braille cells (`BrailleIsNumber`), and, for words, totals,
groups and digits that stay integers because the tables have numbers only. Whether it is also the number that was
*meant* decides how much is known of what is made of it. So the invariant has a parameter: `ExprInv(TRUE)` says that a value
encloses the numbers that were written, `ExprInv(FALSE)` that there are some numbers that it encloses (`Tells`). The second
holds of every input and is enough for `ValuesWellFormed`; the first needs `BracesAreReadAsMeant`, and gives `ValuesEnclosed`.
One proof serves for both.

**Induction.** The library's induction theorems have operator parameters and cannot be used; `InductionProofs!Induction` is
induction over the natural numbers for a *set*, derived from the library's theorem that strict inclusion of finite sets is well
founded (the intervals `0..n`) and `WFMin`. `RecursionWorks` gets from it that a recursive function is what its
definition says, for powers and factorials; the folds and flattenings of the gateway and of Braille are shown to exist directly.

### Assumptions

On constants: `JobTypes`: ids of submissions, uploads and checks differ, `NoId` and `NoList` are none of them, a list
that is sorted parses, keys and objects live for some time; `RateLimiter`: `Idle >= Capacity + Stall`, which in the code is
five minutes against one minute and the time of one request; `SortCheck`: every list is a sequence of well-formed values,
whose numbers are integers (`Check` only compares them); `GatewayStream`: a timer of at least one unit. TLC evaluates each
of them in the runs. `ParserAssumption`, `InputAssumption` and `NumeralAssumption`: the limits are natural numbers, the least int64 is one below
the negative of the greatest, literals are natural numbers, a numeral is a sequence of tokens of
chunks, and what it means is a fraction or nothing. `TablesAssumption` is about no parameter: what the tables of the
sixteen languages say of a word is a natural number. TLC evaluates it on the tables themselves, which are built with the
operators `:>` and `@@` of its own module. `MaxResends` and `MaxBody` are any natural numbers. `ReadsAsMeant`, which only `ToldTheTruth` supposes, is no fact about the code but about the clients: each submission comes with what it means,
written by hand in `MCGateway`, and TLC evaluates that the job service reads the items so. `AcceptedAsSent` does without it: it shows that
a job has what the job service's splitter makes of the lines as the client wrote them, in either format and for texts of
any length, so that nothing on the way loses, adds or reorders. That the splitter itself reads what is meant is checked by
`AcceptedIsWhatWasSent` on the lists of the run, and not proved.

### Checked by TLC only

* Liveness, which the prover does not reach: `StreamDelivers`, `StreamEnds`, `SnapshotCatchesUp`, `CountsCatchUp`, `EveryRequestEnds`, and
  the fairness half of `KeepsPromise`, whose safety half is `StepsKeepPromise`.
* `AcceptedIsWhatWasSent`: of which `AcceptedAsSent` proves all but what lists mean.
* `ReadsWhatIsMeant`, which `ValuesEnclosed` supposes of numerals in braces, and of nothing else. It is about sixteen concrete tables and about how
  people write numbers in these languages: the reference, `Spelling`, is itself a finite list of phrases, and there is
  no general statement to prove beyond it.

## 5. Where the code and its documents differ

Two differences are runs that TLC finds violated, with the documents' words in PROJECT.json:

* `poll_race` (`PollVerdictIsRight`): `statusHandler` reads the result key and then the status key. A worker that writes
  both in between makes it answer `done` without a verdict, which looks like "not sorted".
* `chinese_zero` (`ScalesMultiplyOneDigit`): a zero between two scales of a Chinese number is a digit, and a digit behind it
  makes the positional reader give up. The generic engine goes on, which the comment says is bypassed, and
  multiplies the whole group: one-thousand-zero-five-ten (1050) is read as 10050.

Others were met while modelling. The properties above are stated so that they leave them out, and say so:

* `Subscribe` returns before Redis has confirmed it (jobservice/sse.go:45): a job that ends between the second look and the
  subscription is not told of, and the stream ends with a time-out after 30 s. `NoMissedCompletion` and
  `StreamDelivers` are about the streams that Redis knew of at their second look, `StreamEnds` about all.
* The clients of Redis retry (no `MaxRetries` is set: jobservice/main.go:31-36, worker/main.go:37-42). When the connection breaks
  before the reply, LPUSH takes effect twice (queue.go:39): the job runs twice, maybe in two workers at once, its
  status goes back, it is counted twice. The properties of single jobs leave it out (`PushedOnce`).
* The clean-up deletes what its listing has, also when it was written again meanwhile (worker.go:102): an upload
  put twice, or the second result of a job, is deleted young.
* The job service has its own limit of 1 MB (jobservice/handlers.go:73), and the gateway quotes each line of a form on its way there
  (client.go:125): a form of many short lines, within the limit itself, is refused as "invalid JSON".
* A second check of an upload leaves the first result in place, and polls return it while the second waits
  (handlers.go:207).
* A call of the gateway that times out tells the client of a failure although the job may be accepted (client.go:139).
* The status page says of the worker that it is operational whatever happens (main.go:132), and nothing reads the saved
  state back: `Counter.Seed` is never called.
* A status key lives five minutes from the submission and nothing renews it while a job waits (queue.go:57): a
  job that waits longer is "not found".
* The clean-up deletes a list after five minutes although its job may still wait (worker.go:94).
* An item with a line break is validated as one value and processed as two (handlers.go:102 and 115, worker.go:165).
* A result whose line is longer than 64 KB ends the scanner of the relay, and the client gets a time-out
  (gateway/sse.go:49).
* The HTML stream ends with two `close` events (gateway/sse.go:126 and 132).
* The limiter is a token bucket with a burst of a whole minute, and lets up to twice a minute's requests through in
  one minute; the design document speaks of a sliding window.
* `±` on ranges assumes that its right side is not negative (expr.go:325).
* The least int64 as an exponent gives 1 (expr.go:469).
* An infinity inside braces becomes a finite value without a number, or a nil is compared (set.go:90).
* "+inf" is not an infinity: `parseInfinity` knows of a minus only, `big.Float` reads it and has no fraction for it, and the value is a point without
  a number (parse.go:183-186). An interval with such an end, "[0..inf]", compares with nil (interval.go:45 and 58-61) and panics.
  `Expression` has both (`PlusInfinity`, the step of `Interval` to its panic); the first is irregular.
* Words (`ReadsWhatIsMeant` leaves these out): "dix" and "mil" alone are Roman numerals (parse.go:192); a hundred without a
  number before it is refused, and "mille cent" is 1000 (multilang.go:119), so many words for 100 to 199 outside
  English are not read, the example of the comment at languages_other.go:135 among them; eighty in French is known at the start only, behind another word it is added as
  24 (languages_latin.go:75); the fused Dutch 71-79 and 91-99 are refused (languages_latin.go:25); two Chinese digits
  without a scale are added; and plurals of scales are in the Russian and
  Arabic tables only.

## 6. Not modelled, and the plan

Left out because they keep no state or are wording: the HTML of the pages (`html.go`, `static/`), the formatting of
values, counters and times, the scanning of characters, set-builder notation and emoji, host routing, `Counter.Seed`
(nothing calls it), numbers above 2*10^9. External: Redis, S3 and their clients, `rate.Limiter`, `bufio.Scanner`,
`math/big`; they are modelled as the code uses them and marked so in the map.

Nothing of what was planned is left. What would come next:

1. Set-builder notation and emoji as inputs of `Expression`: they end in the same values and operators.
2. Numbers above 2*10^9, among them the German *billion*: TLC's integers have 32 bits, so they need a pair for
   a number in the tables, or a smaller base of the scales.

## 7. Running it

```
tlc -config MCFaults.cfg MCJobSystem
tlapm JobSystemProofs.tla
```

PROJECT.json lists each run with its module and configuration.
