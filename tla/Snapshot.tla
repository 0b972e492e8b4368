------------------------------ MODULE Snapshot ------------------------------
(***************************************************************************)
(* The snapshot loop of cmd/worker: when its ticker fires, a worker reads  *)
(* the counters and the feed and writes them to the bucket.  The workers   *)
(* write the same two objects, and their job loops go on meanwhile.        *)
(***************************************************************************)
EXTENDS Stats, Bucket

VARIABLE snapshot  \* per worker: where snapshotState is, and what it has read

SnapshotPC == {"idle", "sorted", "not_sorted", "put_counter", "recent", "put_activity"}
Snapshots == [pc : SnapshotPC, counts : Reading, entries : Seq(Entry)]
Unstarted == [pc |-> "idle", counts |-> Zeros, entries |-> <<>>]

SnapshotTypeOK == snapshot \in [Workers -> Snapshots]
SnapshotInit == snapshot = [w \in Workers |-> Unstarted]

\* One of the three reads of counter.Values, and what comes after it; when one
\* fails, snapshotState returns.
ReadCounter(w, name, next) ==
  /\ \/ snapshot' = [snapshot EXCEPT ![w].pc = next, ![w].counts[name] = counters[name]]
     \/ "redis" \in Env /\ snapshot' = [snapshot EXCEPT ![w] = Unstarted]
  /\ UNCHANGED <<bucketVars, statsVars>>

SnapshotTotal(w) ==
  /\ w \in Snapshotters /\ snapshot[w].pc = "idle"
  /\ ReadCounter(w, "total", "sorted")
SnapshotSorted(w) == snapshot[w].pc = "sorted" /\ ReadCounter(w, "sorted", "not_sorted")
SnapshotNotSorted(w) ==
  snapshot[w].pc = "not_sorted" /\ ReadCounter(w, "not_sorted", "put_counter")

\* A failure to write is logged, and the feed is saved all the same.
SnapshotPutCounter(w) ==
  /\ snapshot[w].pc = "put_counter"
  /\ PutState("counter", snapshot[w].counts) \/ (S3MayFail /\ UNCHANGED bucketVars)
  /\ snapshot' = [snapshot EXCEPT ![w] = [Unstarted EXCEPT !.pc = "recent"]]
  /\ UNCHANGED statsVars

SnapshotRecent(w) ==
  /\ snapshot[w].pc = "recent"
  /\ \/ snapshot' = [snapshot EXCEPT ![w].pc = "put_activity", ![w].entries = Recent]
     \/ "redis" \in Env /\ snapshot' = [snapshot EXCEPT ![w] = Unstarted]
  /\ UNCHANGED <<bucketVars, statsVars>>

\* The loop goes on with the entries that it has.
SnapshotPutActivityMutant(w) ==
  /\ snapshot[w].pc = "put_activity"
  /\ PutState("activity", snapshot[w].entries) \/ (S3MayFail /\ UNCHANGED bucketVars)
  /\ UNCHANGED <<snapshot, statsVars>>
SnapshotPutActivity(w) ==
  /\ snapshot[w].pc = "put_activity"
  /\ PutState("activity", snapshot[w].entries) \/ (S3MayFail /\ UNCHANGED bucketVars)
  /\ snapshot' = [snapshot EXCEPT ![w] = Unstarted]
  /\ UNCHANGED statsVars

TakeSnapshot(w) ==
  \/ SnapshotTotal(w) \/ SnapshotSorted(w) \/ SnapshotNotSorted(w)
  \/ SnapshotPutCounter(w) \/ SnapshotRecent(w) \/ SnapshotPutActivity(w)
=============================================================================
