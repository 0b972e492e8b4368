------------------------------- MODULE PubSub -------------------------------
(***************************************************************************)
(* internal/pubsub: Redis delivers an event to the subscriptions of its    *)
(* channel that are in force when it is published, and to no other.        *)
(* Subscribe writes the SUBSCRIBE command to a connection of its own and   *)
(* does not wait for the reply, so it takes effect at some later time.     *)
(* The few events of a job never fill the channel of 8 that Subscribe      *)
(* makes, behind the one of 100 of the Redis library.                      *)
(***************************************************************************)
EXTENDS JobTypes

VARIABLE inbox  \* per stream: its channel, the state of the subscription, what came
pubsubVars == <<inbox>>

Inbox == [topic : Ids \cup {NoId}, live : {"no", "sent", "yes"}, events : Seq(Report)]
Unsubscribed == [topic |-> NoId, live |-> "no", events |-> <<>>]

PubSubTypeOK == inbox \in [Streams -> Inbox]
PubSubInit == inbox = [s \in Streams |-> Unsubscribed]

Publish(id, event) ==
  inbox' = [s \in Streams |->
              IF inbox[s].topic = id /\ inbox[s].live = "yes"
              THEN [inbox[s] EXCEPT !.events = Append(@, event)]
              ELSE inbox[s]]

Subscribe(s, id) ==
  inbox' = [inbox EXCEPT ![s] = [topic |-> id, live |-> "sent", events |-> <<>>]]

\* The SUBSCRIBE command reaches Redis.
Activate(s) == inbox[s].live = "sent" /\ inbox' = [inbox EXCEPT ![s].live = "yes"]

\* The connection breaks; the library subscribes again, what was published in
\* between is lost.
Reconnect(s) ==
  /\ "redis" \in Env
  /\ inbox[s].live = "yes" /\ inbox' = [inbox EXCEPT ![s].live = "sent"]

Cancel(s) == inbox' = [inbox EXCEPT ![s] = Unsubscribed]
=============================================================================
