------------------------------- MODULE Bucket -------------------------------
(***************************************************************************)
(* internal/storage: the objects lists/<id>, results/<id> and state/<key>  *)
(* of the S3-compatible bucket, with the time each was last modified.  A   *)
(* call may fail when "s3" is in Env.                                      *)
(***************************************************************************)
EXTENDS JobTypes

VARIABLES
  lists,    \* lists/<id>
  results,  \* results/<id>
  modified, \* LastModified of both
  saved     \* state/counter.json and state/activity.json: nothing, or one value
bucketVars == <<lists, results, modified, saved>>

Prefixes == {"lists", "results"}

BucketTypeOK ==
  /\ lists \in [Ids -> Contents \cup {NoList}]
  /\ results \in [Ids -> Report]
  /\ modified \in [Prefixes -> [Ids -> Nat]]
  /\ saved \in [counter : SUBSET Reading, activity : SUBSET Seq(Entry)]

BucketInit ==
  /\ lists = [x \in Ids |-> NoList]
  /\ results = [x \in Ids |-> NoReport]
  /\ modified = [p \in Prefixes |-> [x \in Ids |-> 0]]
  /\ saved = [counter |-> {}, activity |-> {}]

S3MayFail == "s3" \in Env

PutList(id, content) ==
  /\ lists' = [lists EXCEPT ![id] = content]
  /\ modified' = [modified EXCEPT !["lists"][id] = now]
  /\ UNCHANGED <<results, saved>>

PutResult(id, r) ==
  /\ results' = [results EXCEPT ![id] = r]
  /\ modified' = [modified EXCEPT !["results"][id] = now]
  /\ UNCHANGED <<lists, saved>>

\* Both objects are written under one key.
PutStateMutant(key, value) ==
  /\ saved' = [saved EXCEPT !["activity"] = {value}]
  /\ UNCHANGED <<lists, results, modified>>
PutState(key, value) ==
  /\ saved' = [saved EXCEPT ![key] = {value}]
  /\ UNCHANGED <<lists, results, modified>>

GetList(id) == {lists[id]} \cup (IF S3MayFail THEN {NoList} ELSE {})

\* ListByPrefix: the ids that have an object.
Stored(prefix) ==
  IF prefix = "lists" THEN {x \in Ids : lists[x] # NoList}
                      ELSE {x \in Ids : results[x] # NoReport}

Delete(prefix, id) ==
  /\ IF prefix = "lists"
       THEN lists' = [lists EXCEPT ![id] = NoList] /\ UNCHANGED results
       ELSE results' = [results EXCEPT ![id] = NoReport] /\ UNCHANGED lists
  /\ UNCHANGED <<modified, saved>>
=============================================================================
