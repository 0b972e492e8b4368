---------------------------- MODULE StatsHandlers ----------------------------
(***************************************************************************)
(* GET /stats/count of cmd/jobservice, whose answer is what the page shows *)
(* above the form: three reads.  The other handlers that only read do so   *)
(* at one moment: GET /stats/activity answers with Recent, and GET /health *)
(* asks whether Redis replies and whether state/counter.json is there.     *)
(***************************************************************************)
EXTENDS RedisStore, Snapshot

VARIABLE count  \* per client of /stats/count: the reads so far, the last answer
handlerVars == <<count>>

Count == [reads : 0..2, counts : Reading, answer : Reading]
HandlersTypeOK == count \in [Counts -> Count]
HandlersInit ==
  count = [c \in Counts |-> [reads |-> 0, counts |-> Zeros, answer |-> Zeros]]

Answered(answer) == [reads |-> 0, counts |-> Zeros, answer |-> answer]

\* The reply of the third read is not waited for.
CountReadMutant(c) ==
  LET k == count[c].reads
      name == ReadOrder[k + 1]
      counts == [count[c].counts EXCEPT ![name] = counters[name]]
  IN \/ k < 2 /\ count' = [count EXCEPT ![c].reads = k + 1, ![c].counts = counts,
                                        ![c].answer = counts]
     \/ k = 2 /\ count' = [count EXCEPT ![c] = Answered(counts)]
\* One of the three reads of Values; after the last comes the answer.  The
\* handler drops the error, and then answers with zeros.
CountRead(c) ==
  LET k == count[c].reads
      name == ReadOrder[k + 1]
      counts == [count[c].counts EXCEPT ![name] = counters[name]]
  IN \/ k < 2 /\ count' = [count EXCEPT ![c].reads = k + 1, ![c].counts = counts]
     \/ k = 2 /\ count' = [count EXCEPT ![c] = Answered(counts)]
     \/ RedisMayFail /\ count' = [count EXCEPT ![c] = Answered(Zeros)]

HandlersNext == \E c \in Counts : CountRead(c)
=============================================================================
