-------------------------------- MODULE Stats --------------------------------
(***************************************************************************)
(* internal/counter and internal/activity: what the worker writes in two   *)
(* pipelines and readers read in a third, which Redis runs as separate     *)
(* commands.                                                               *)
(***************************************************************************)
EXTENDS JobTypes

VARIABLES
  counters,  \* sorted:counter:total, :sorted and :not_sorted
  activity   \* sorted:activity, newest entry first
statsVars == <<counters, activity>>

StatsTypeOK == counters \in Reading /\ activity \in Seq(Entry)
StatsInit == counters = Zeros /\ activity = <<>>

Incr(name) == counters' = [counters EXCEPT ![name] = @ + 1] /\ UNCHANGED activity
LPush(entry) == activity' = <<entry>> \o activity /\ UNCHANGED counters
\* LTRIM 0 max, whose bounds are inclusive.
LTrimMutant ==
  /\ activity' = SubSeq(activity, 1, IF Len(activity) <= ActivityMax
                                     THEN Len(activity) ELSE ActivityMax + 1)
  /\ UNCHANGED counters
LTrim ==
  /\ activity' = SubSeq(activity, 1, IF Len(activity) < ActivityMax
                                     THEN Len(activity) ELSE ActivityMax)
  /\ UNCHANGED counters

\* Recent: LRANGE 0 max, on a feed that another worker has yet to trim.
Recent == SubSeq(activity, 1, IF Len(activity) < ActivityMax THEN Len(activity)
                                                            ELSE ActivityMax)

\* The third counter is never read.
ReadOrderMutant == <<"total", "sorted", "sorted">>
\* Values reads the three counters one after the other.
ReadOrder == <<"total", "sorted", "not_sorted">>
=============================================================================
