---------------------------- MODULE GatewayProofs ----------------------------
(***************************************************************************)
(* The gateway, for any number of events, any timeout and any lists: what  *)
(* a client reads of an event stream is what the job service said, every   *)
(* stream ends, and an answer to a submission is true.                     *)
(***************************************************************************)
EXTENDS Gateway, InductionProofs

-----------------------------------------------------------------------------
(***************************************************************************)
(* FlattenSeq is defined by recursion: the function it takes the last      *)
(* value of exists, and grows with its argument.                           *)
(***************************************************************************)
Joined(s, x) == s \o x
Flattens(f, n, s) == f = [i \in 1..n |-> IF i = 1 THEN s[i] ELSE Joined(f[i-1], s[i])]

LEMMA FlattensExist ==
  ASSUME NEW s, NEW n \in Nat
  PROVE  \E f : Flattens(f, n, s)
<1> DEFINE T == {k \in Nat : \E f : Flattens(f, k, s)}
<1>1. 0 \in T
  <2>1. Flattens([i \in 1..0 |-> 0], 0, s)
    BY DEF Flattens
  <2> QED BY <2>1
<1>2. ASSUME NEW k \in Nat, k \in T PROVE k + 1 \in T
  <2>1. PICK f : Flattens(f, k, s)
    BY <1>2
  <2> DEFINE g == [i \in 1..(k + 1) |-> IF i \in 1..k THEN f[i]
                                        ELSE IF i = 1 THEN s[i] ELSE Joined(f[i-1], s[i])]
  <2>2. ASSUME NEW i \in 1..(k + 1)
        PROVE  g[i] = IF i = 1 THEN s[i] ELSE Joined(g[i-1], s[i])
    <3>1. CASE i \in 1..k
      <4>1. g[i] = f[i] /\ f[i] = IF i = 1 THEN s[i] ELSE Joined(f[i-1], s[i])
        BY <2>1, <3>1 DEF Flattens
      <4>2. i # 1 => i - 1 \in 1..k /\ i - 1 \in 1..(k + 1) /\ g[i-1] = f[i-1]
        BY <3>1
      <4> HIDE DEF g
      <4> QED BY <4>1, <4>2
    <3>2. CASE i = k + 1
      <4>1. g[i] = IF i = 1 THEN s[i] ELSE Joined(f[i-1], s[i])
        BY <3>2
      <4>2. i # 1 => i - 1 \in 1..k /\ i - 1 \in 1..(k + 1) /\ g[i-1] = f[i-1]
        BY <3>2
      <4> HIDE DEF g
      <4> QED BY <4>1, <4>2
    <3> QED BY <3>1, <3>2
  <2> HIDE DEF g
  <2>3. g = [i \in 1..(k + 1) |-> IF i = 1 THEN s[i] ELSE Joined(g[i-1], s[i])]
    <3>1. g = [i \in 1..(k + 1) |-> g[i]]
      BY DEF g
    <3> QED BY <2>2, <3>1
  <2>4. Flattens(g, k + 1, s)
    BY <2>3 DEF Flattens
  <2>5. \E h : Flattens(h, k + 1, s)
    BY <2>4
  <2> QED BY <2>5
<1> HIDE DEF T
<1>3. n \in T
  BY <1>1, <1>2, Induction
<1> QED BY <1>3 DEF T

LEMMA FlattensAgree ==
  ASSUME NEW s, NEW t, NEW n \in Nat, \A i \in 1..n : s[i] = t[i],
         NEW f, NEW g, Flattens(f, n, s), Flattens(g, n + 1, t)
  PROVE  \A i \in 1..n : f[i] = g[i]
<1> DEFINE T == {k \in Nat : k \in 1..n => f[k] = g[k]}
<1>1. 0 \in T
  OBVIOUS
<1>2. ASSUME NEW k \in Nat, k \in T PROVE k + 1 \in T
  <2> SUFFICES ASSUME k + 1 \in 1..n PROVE f[k + 1] = g[k + 1]
    OBVIOUS
  <2> DEFINE j == k + 1
  <2>0. j \in 1..n /\ j \in 1..(n + 1) /\ s[j] = t[j] /\ j - 1 = k
    OBVIOUS
  <2> HIDE DEF j
  <2>1. f[j] = IF j = 1 THEN s[j] ELSE Joined(f[j-1], s[j])
    BY <2>0 DEF Flattens
  <2>2. g[j] = IF j = 1 THEN t[j] ELSE Joined(g[j-1], t[j])
    BY <2>0 DEF Flattens
  <2>3. j # 1 => f[k] = g[k]
    BY <1>2, <2>0
  <2>4. f[j] = g[j]
    BY <2>0, <2>1, <2>2, <2>3
  <2> QED BY <2>4 DEF j
<1> HIDE DEF T
<1>3. Nat \subseteq T
  BY <1>1, <1>2, Induction
<1> QED BY <1>3 DEF T

LEMMA FlattenGrows ==
  ASSUME NEW s, NEW t, NEW n \in Nat, n # 0, \A i \in 1..n : s[i] = t[i],
         NEW f, NEW g, Flattens(f, n, s), Flattens(g, n + 1, t)
  PROVE  g[n + 1] = Joined(f[n], t[n + 1])
<1>1. n \in 1..n /\ f[n] = g[n]
  BY FlattensAgree
<1> DEFINE j == n + 1
<1>2. j \in 1..(n + 1) /\ j # 1 /\ j - 1 = n
  OBVIOUS
<1> HIDE DEF j
<1>3. g[j] = Joined(g[j-1], t[j])
  BY <1>2 DEF Flattens
<1> QED BY <1>1, <1>2, <1>3 DEF j

LEMMA FlattenIs ==
  ASSUME NEW S, NEW s \in Seq(S), s # <<>>
  PROVE  \E f : Flattens(f, Len(s), s) /\ FlattenSeq(s) = f[Len(s)]
<1> DEFINE f == CHOOSE h : h = [i \in 1..Len(s) |-> IF i = 1 THEN s[i] ELSE Joined(h[i-1], s[i])]
<1>1. \E h : h = [i \in 1..Len(s) |-> IF i = 1 THEN s[i] ELSE Joined(h[i-1], s[i])]
  <2>1. \E h : Flattens(h, Len(s), s)
    BY FlattensExist
  <2> QED BY <2>1 DEF Flattens
<1>2. Flattens(f, Len(s), s)
  BY <1>1 DEF Flattens
<1>3. FlattenSeq(s) = f[Len(s)]
  BY DEF FlattenSeq, Joined
<1> QED BY <1>2, <1>3

LEMMA FlattenAppend ==
  ASSUME NEW S, NEW s, NEW x, s \in Seq(Seq(S)), x \in Seq(S)
  PROVE  FlattenSeq(Append(s, x)) = FlattenSeq(s) \o x
<1> DEFINE longer == Append(s, x)  size == Len(s)
<1>1. longer \in Seq(Seq(S)) /\ Len(longer) = size + 1 /\ longer[size + 1] = x /\ \A i \in 1..size : longer[i] = s[i]
  OBVIOUS
<1>2. longer # <<>> /\ size \in Nat
  <2>1. size \in Nat /\ Len(<<>>) = 0
    OBVIOUS
  <2> QED BY <1>1, <2>1
<1> HIDE DEF longer
<1>3. PICK g : Flattens(g, size + 1, longer) /\ FlattenSeq(longer) = g[size + 1]
  BY <1>1, <1>2, FlattenIs
<1>4. CASE s = <<>>
  <2>1. FlattenSeq(s) = <<>>
    BY <1>4 DEF FlattenSeq
  <2>2. g[1] = x
    BY <1>1, <1>3, <1>4 DEF Flattens
  <2> QED BY <1>3, <1>4, <2>1, <2>2 DEF longer
<1>5. CASE s # <<>>
  <2>1. PICK f : Flattens(f, size, s) /\ FlattenSeq(s) = f[size]
    BY <1>5, FlattenIs
  <2>2. \A k : k = size => g[k + 1] = Joined(f[k], longer[k + 1])
    <3> SUFFICES ASSUME NEW k, k = size PROVE g[k + 1] = Joined(f[k], longer[k + 1])
      OBVIOUS
    <3>1. k \in Nat /\ k # 0 /\ \A i \in 1..k : s[i] = longer[i]
      BY <1>1, <1>5
    <3>2. Flattens(f, k, s) /\ Flattens(g, k + 1, longer)
      BY <1>3, <2>1
    <3> HIDE DEF size
    <3> QED BY <3>1, <3>2, FlattenGrows
  <2> QED BY <1>1, <1>3, <2>1, <2>2 DEF longer, Joined
<1> QED BY <1>4, <1>5

LEMMA FlattenType ==
  ASSUME NEW S, NEW s \in Seq(Seq(S))
  PROVE  FlattenSeq(s) \in Seq(S)
<1>1. CASE s = <<>>
  BY <1>1 DEF FlattenSeq
<1>2. CASE s # <<>>
  <2>1. PICK f : Flattens(f, Len(s), s) /\ FlattenSeq(s) = f[Len(s)]
    BY <1>2, FlattenIs
  <2> DEFINE T == {k \in Nat : k \in 1..Len(s) => f[k] \in Seq(S)}
  <2>2. 0 \in T
    OBVIOUS
  <2>3. ASSUME NEW k \in Nat, k \in T PROVE k + 1 \in T
    <3> DEFINE j == k + 1
    <3>1. SUFFICES ASSUME j \in 1..Len(s) PROVE f[j] \in Seq(S)
      OBVIOUS
    <3>2. s[j] \in Seq(S) /\ j - 1 = k /\ (j # 1 => k \in 1..Len(s))
      BY <3>1
    <3> HIDE DEF j
    <3>3. f[j] = IF j = 1 THEN s[j] ELSE Joined(f[j-1], s[j])
      BY <2>1, <3>1 DEF Flattens
    <3> QED BY <2>3, <3>2, <3>3 DEF Joined
  <2> HIDE DEF T
  <2>4. Len(s) \in T
    BY <2>2, <2>3, Induction
  <2> QED BY <1>2, <2>1, <2>4 DEF T
<1> QED BY <1>1, <1>2
-----------------------------------------------------------------------------
(***************************************************************************)
(* The handler has taken m whole events and p lines of the next one; the   *)
(* scanner may hold one line more, and the wire has the rest.              *)
(***************************************************************************)
LineOf(event, j) ==
  IF j = 1 THEN [kind |-> "event", text |-> event.type]
  ELSE IF j = 2 THEN [kind |-> "data", text |-> event.data] ELSE NoLine

Handing == IF scanner.pc = "send" THEN 1 ELSE 0
Place(m, p, i, j) == 3 * (i - m - 1) + j - p - Handing

Taken(m, p) ==
  /\ Len(wire) = 3 * (Len(sent) - m) - p - Handing
  /\ \A i \in 1..Len(sent), j \in 1..3 :
       Place(m, p, i, j) >= 1 => wire[Place(m, p, i, j)] = LineOf(sent[i], j)
  /\ scanner.pc = "send" => scanner.line = LineOf(sent[m + 1], p + 1)
  /\ p >= 1 => handler.eventType = sent[m + 1].type

\* The first d events are relayed, and none of them was the last.
Ending == {"result", "error"}
Relays(d) ==
  /\ out = Written(SubSeq(sent, 1, d))
  /\ mode = "json" => out = SubSeq(sent, 1, d)
  /\ \A i \in 1..d :
       /\ sent[i].type # "close"
       /\ sent[i].type \in Ending => \E j \in DOMAIN out : out[j] = sent[i]

\* The scanner ends only with its stream, or at a line that is too long.
NoneTooLong == \A i \in DOMAIN sent : sent[i].data # "failed_at_length"
Scans(d) ==
  /\ scanner.pc # "off"
  /\ scanner.pc = "done" => upstream.pc = "ended" /\ (NoneTooLong => d = Len(sent))

\* While nobody is late, the timer is running as long as an event is on its way,
\* and runs out no sooner than the one of the job service.
Timely(d) ==
  /\ d < Len(sent) /\ NoneTooLong => handler.timer > 0
  /\ d = Len(sent) /\ upstream.pc = "loop" => handler.timer + upstream.quiet >= Timeout

Told(m, p) == IF p = 2 THEN m + 1 ELSE m
Relaying(m, p) ==
  /\ Taken(m, p) /\ Relays(Told(m, p)) /\ Told(m, p) <= Len(sent)
  /\ handler.pc = "select" /\ client =>
       Scans(Told(m, p)) /\ (~late => Timely(Told(m, p)))

\* What the job service sends: states, and then an outcome and "close" at once.
SentInv ==
  /\ upstream.pc = "new" => sent = <<>>
  /\ upstream.pc # "ended" => \A i \in DOMAIN sent : sent[i].type = "status"
  /\ \A i \in DOMAIN sent :
       /\ sent[i].type \in {"status", "close"} \cup Ending
       /\ sent[i].data = "failed_at_length" => sent[i].type = "result"
       /\ sent[i].type = "close" =>
            sent[i] = Close /\ i = Len(sent) /\ i > 1 /\ sent[i - 1].type \in Ending
       /\ sent[i].type \in Ending => i + 1 = Len(sent) /\ sent[i + 1] = Close

Kept == RelayIsPrefix /\ EveryStreamConcludes /\ CloseIsTerminal /\ ResultIsRelayed
RelayInv ==
  IF Returned THEN Kept
  ELSE /\ \E m \in 0..Len(sent), p \in 0..2 : Relaying(m, p)
       /\ handler.pc = "start" => scanner.pc = "off"
       /\ handler.pc = "select" => sent # <<>>
LEMMA JoinedIs ==
  ASSUME NEW S, NEW x \in Seq(S), NEW y \in Seq(S)
  PROVE  /\ Joined(x, y) \in Seq(S)
         /\ Len(Joined(x, y)) = Len(x) + Len(y)
         /\ \A i \in 1..(Len(x) + Len(y)) :
              Joined(x, y)[i] = IF i <= Len(x) THEN x[i] ELSE y[i - Len(x)]
BY DEF Joined

-----------------------------------------------------------------------------
(* The lines of the events that are sent at once, and of one more event. *)
Three(event) == <<LineOf(event, 1), LineOf(event, 2), LineOf(event, 3)>>
EventType == [type : Texts, data : Texts]

LEMMA LineType ==
  ASSUME NEW event \in EventType, NEW j \in 1..3
  PROVE  LineOf(event, j) \in Line
BY ZenonT(60) DEF LineOf, Line, EventType, NoLine, Texts

LEMMA LinesOf ==
  /\ Lines(<<>>) = <<>>
  /\ \A a \in EventType : Lines(<<a>>) = Three(a)
  /\ \A a, b \in EventType : Lines(<<a, b>>) = Three(a) \o Three(b)
<1> DEFINE Texted(events) == [i \in DOMAIN events |-> Three(events[i])]
<1>1. \A events : Lines(events) = FlattenSeq(Texted(events))
  <2>1. \A a : Three(a) = <<[kind |-> "event", text |-> a.type],
                          [kind |-> "data", text |-> a.data], [kind |-> "blank", text |-> ""]>>
    BY DEF Three, LineOf, NoLine
  <2> SUFFICES ASSUME NEW events PROVE Lines(events) = FlattenSeq(Texted(events))
    OBVIOUS
  <2>2. Texted(events) = [i \in DOMAIN events |->
          <<[kind |-> "event", text |-> events[i].type], [kind |-> "data", text |-> events[i].data],
            [kind |-> "blank", text |-> ""]>>]
    BY <2>1
  <2> HIDE DEF Texted
  <2> QED BY <2>2 DEF Lines
<1>2. FlattenSeq(<<>>) = <<>>
  BY DEF FlattenSeq
<1>3. \A a \in EventType : Three(a) \in Seq(Line)
  BY LineType DEF Three
<1>4. Texted(<<>>) = <<>>
  OBVIOUS
<1>5. ASSUME NEW a \in EventType PROVE FlattenSeq(Texted(<<a>>)) = Three(a)
  <2>1. Texted(<<a>>) = Append(<<>>, Three(a))
    OBVIOUS
  <2>2. <<>> \in Seq(Seq(Line)) /\ Three(a) \in Seq(Line)
    BY <1>3
  <2> HIDE DEF Texted
  <2>3. FlattenSeq(Append(<<>>, Three(a))) = FlattenSeq(<<>>) \o Three(a)
    BY <2>2, FlattenAppend
  <2> QED BY <1>2, <2>1, <2>2, <2>3
<1>6. ASSUME NEW a \in EventType, NEW b \in EventType
      PROVE  FlattenSeq(Texted(<<a, b>>)) = Three(a) \o Three(b)
  <2>1. Texted(<<a, b>>) = Append(Texted(<<a>>), Three(b))
    OBVIOUS
  <2>2. Texted(<<a>>) \in Seq(Seq(Line)) /\ Three(b) \in Seq(Line)
    BY <1>3
  <2> HIDE DEF Texted
  <2>3. FlattenSeq(Append(Texted(<<a>>), Three(b))) = FlattenSeq(Texted(<<a>>)) \o Three(b)
    BY <2>2, FlattenAppend
  <2> QED BY <1>5, <2>1, <2>3
<1> HIDE DEF Texted
<1> QED BY <1>1, <1>2, <1>4, <1>5, <1>6

LEMMA RelayedType ==
  ASSUME NEW event \in EventType, mode \in Modes
  PROVE  /\ Relayed(event) \in Seq(EventType) /\ Len(Relayed(event)) \in 1..3
         /\ mode = "json" => Relayed(event) = <<event>>
         /\ event.type # "status" => Relayed(event)[1] = event
         /\ event = Close => Relayed(event) = <<Close>>
<1>1. Event("counters", "refresh") \in EventType /\ Close \in EventType /\ Close.type = "close"
      /\ Event("status", "processing") \in EventType /\ Event("status", "queued") \in EventType
  BY DEF Event, Close, EventType, Texts
<1>2. mode = "json" => Relayed(event) = <<event>>
  BY RelayAssumption DEF Relayed
<1>3. mode = "html" => Relayed(event) = AsHTML(event)
  BY DEF Relayed
<1>4. mode = "json" \/ mode = "html"
  BY RelayAssumption
<1>5. CASE event.type = "status"
  <2> DEFINE shown == Event("status", IF event.data = "processing" THEN "processing" ELSE "queued")
  <2>1. AsHTML(event) = <<shown>> /\ shown \in EventType
    BY <1>1, <1>5 DEF AsHTML
  <2>2. <<event>> \in Seq(EventType) /\ Len(<<event>>) = 1
    OBVIOUS
  <2>3. <<shown>> \in Seq(EventType) /\ Len(<<shown>>) = 1
    BY <2>1
  <2>4. Relayed(event) = <<event>> \/ Relayed(event) = <<shown>>
    BY <1>2, <1>3, <1>4, <2>1
  <2>5. event # Close
    BY <1>1, <1>5
  <2> HIDE DEF shown
  <2>6. Relayed(event) \in Seq(EventType) /\ Len(Relayed(event)) = 1
    BY <2>2, <2>3, <2>4
  <2> QED BY <1>2, <1>5, <2>5, <2>6
<1>6. CASE event.type = "result"
  <2> DEFINE refreshed == <<event, Event("counters", "refresh"), Close>>
             closed == <<event, Close>>
  <2>1. AsHTML(event) = refreshed \/ AsHTML(event) = closed
    BY <1>6 DEF AsHTML
  <2>2. <<event>> \in Seq(EventType) /\ Len(<<event>>) = 1 /\ <<event>>[1] = event
    OBVIOUS
  <2>3. refreshed \in Seq(EventType) /\ Len(refreshed) = 3 /\ refreshed[1] = event
    BY <1>1
  <2>4. closed \in Seq(EventType) /\ Len(closed) = 2 /\ closed[1] = event
    BY <1>1
  <2>5. Relayed(event) = <<event>> \/ Relayed(event) = refreshed \/ Relayed(event) = closed
    BY <1>2, <1>3, <1>4, <2>1
  <2>6. event # Close
    BY <1>1, <1>6
  <2> HIDE DEF refreshed, closed
  <2> QED BY <1>2, <2>2, <2>3, <2>4, <2>5, <2>6
<1>7. CASE event.type \notin {"status", "result"}
  <2>1. AsHTML(event) = <<event>>
    BY <1>7 DEF AsHTML
  <2>2. Relayed(event) = <<event>>
    BY <1>2, <1>3, <1>4, <2>1
  <2> QED BY <2>2
<1> QED BY <1>5, <1>6, <1>7

LEMMA WrittenGrows ==
  ASSUME mode \in Modes, NEW s \in Seq(EventType), NEW d \in Nat, d < Len(s)
  PROVE  /\ SubSeq(s, 1, d + 1) = Append(SubSeq(s, 1, d), s[d + 1])
         /\ Written(SubSeq(s, 1, d + 1)) = Written(SubSeq(s, 1, d)) \o Relayed(s[d + 1])
<1> DEFINE W(n) == [i \in DOMAIN SubSeq(s, 1, n) |-> Relayed(SubSeq(s, 1, n)[i])]
<1>1. s[d + 1] \in EventType /\ SubSeq(s, 1, d) \in Seq(EventType) /\ Len(SubSeq(s, 1, d)) = d
  OBVIOUS
<1>2. SubSeq(s, 1, d + 1) = Append(SubSeq(s, 1, d), s[d + 1])
  OBVIOUS
<1>3. W(d) \in Seq(Seq(EventType)) /\ Relayed(s[d + 1]) \in Seq(EventType)
  <2>1. \A i \in 1..d : SubSeq(s, 1, d)[i] \in EventType
    OBVIOUS
  <2>2. \A i \in 1..d : Relayed(SubSeq(s, 1, d)[i]) \in Seq(EventType)
    BY <2>1, RelayedType
  <2>3. W(d) = [i \in 1..d |-> Relayed(SubSeq(s, 1, d)[i])]
    BY <1>1
  <2>4. W(d) \in Seq(Seq(EventType))
    <3> HIDE DEF W
    <3> QED BY <2>2, <2>3
  <2>5. Relayed(s[d + 1]) \in Seq(EventType)
    BY <1>1, RelayedType
  <2> QED BY <2>4, <2>5
<1>4. W(d + 1) = Append(W(d), Relayed(s[d + 1]))
  OBVIOUS
<1>5. FlattenSeq(Append(W(d), Relayed(s[d + 1]))) = FlattenSeq(W(d)) \o Relayed(s[d + 1])
  <2> HIDE DEF W
  <2> QED BY <1>3, FlattenAppend
<1>6. Written(SubSeq(s, 1, d)) = FlattenSeq(W(d)) /\ Written(SubSeq(s, 1, d + 1)) = FlattenSeq(W(d + 1))
  BY DEF Written
<1> QED BY <1>2, <1>4, <1>5, <1>6
-----------------------------------------------------------------------------
(* The types *)

LEMMA EventTypes ==
  /\ \A t \in Texts, d \in Texts : Event(t, d) \in EventType /\ Event(t, d).type = t
                                   /\ Event(t, d).data = d
  /\ Close \in EventType /\ Close.type = "close" /\ Close.data = ""
  /\ TimedOut \in Seq(EventType) /\ Unavailable \in Seq(EventType)
BY DEF Event, Close, EventType, Texts, TimedOut, Unavailable

\* What one step of the job service sends.
Said ==
  {<<>>, TimedOut, <<Event("error", "not_found"), Close>>}
    \cup {<<Event("status", status)>> : status \in ToldStatus}
    \cup {<<Event("result", outcome), Close>> : outcome \in Outcome}

LEMMA SaidType ==
  ASSUME NEW events \in Said
  PROVE  /\ events \in Seq(EventType)
         /\ Lines(events) \in Seq(Line)
         /\ Len(events) \in 0..2 /\ Len(Lines(events)) = 3 * Len(events)
         /\ \A i \in 1..Len(events), j \in 1..3 :
              Lines(events)[3 * (i - 1) + j] = LineOf(events[i], j)
<1>1. \A status \in ToldStatus : Event("status", status) \in EventType
  <2>1. "status" \in Texts /\ ToldStatus \subseteq Texts
    BY DEF Texts, ToldStatus
  <2> QED BY <2>1, EventTypes
<1>2. \A outcome \in Outcome : Event("result", outcome) \in EventType
  <2>1. "result" \in Texts /\ Outcome \subseteq Texts
    BY DEF Texts, Outcome
  <2> QED BY <2>1, EventTypes
<1>3. Event("error", "timeout") \in EventType /\ Event("error", "not_found") \in EventType
  <2>1. "error" \in Texts /\ "timeout" \in Texts /\ "not_found" \in Texts
    BY DEF Texts
  <2> QED BY <2>1, EventTypes
<1>4. \/ events = <<>>
      \/ \E a \in EventType : events = <<a>>
      \/ \E a \in EventType, b \in EventType : events = <<a, b>>
  <2>1. CASE events \in {<<>>, TimedOut, <<Event("error", "not_found"), Close>>}
    BY <1>3, <2>1, EventTypes DEF TimedOut
  <2>2. CASE \E status \in ToldStatus : events = <<Event("status", status)>>
    BY <1>1, <2>2
  <2>3. CASE \E outcome \in Outcome : events = <<Event("result", outcome), Close>>
    BY <1>2, <2>3, EventTypes
  <2> QED BY <2>1, <2>2, <2>3 DEF Said
<1>5. \A a \in EventType :
        /\ Three(a) \in Seq(Line) /\ Len(Three(a)) = 3
        /\ \A j \in 1..3 : Three(a)[j] = LineOf(a, j)
  BY LineType DEF Three
<1>6. CASE events = <<>>
  <2>1. Lines(events) = <<>> /\ Len(events) = 0
    BY <1>6, LinesOf
  <2>2. <<>> \in Seq(EventType) /\ <<>> \in Seq(Line) /\ Len(<<>>) = 0
    OBVIOUS
  <2>3. /\ events \in Seq(EventType) /\ Lines(events) \in Seq(Line)
        /\ Len(events) = 0 /\ Len(Lines(events)) = 0
    BY <1>6, <2>1, <2>2
  <2>4. 1..Len(events) = {}
    BY <2>3
  <2> QED BY <2>3, <2>4
<1>7. ASSUME NEW a \in EventType, events = <<a>>
      PROVE  /\ events \in Seq(EventType)
             /\ Lines(events) \in Seq(Line) /\ Len(events) = 1 /\ Len(Lines(events)) = 3
             /\ \A i \in 1..Len(events), j \in 1..3 :
                  Lines(events)[3 * (i - 1) + j] = LineOf(events[i], j)
  <2>1. Lines(events) = Three(a)
    BY <1>7, LinesOf
  <2> QED BY <1>5, <1>7, <2>1
<1>8. ASSUME NEW a \in EventType, NEW b \in EventType, events = <<a, b>>
      PROVE  /\ events \in Seq(EventType)
             /\ Lines(events) \in Seq(Line) /\ Len(events) = 2 /\ Len(Lines(events)) = 6
             /\ \A i \in 1..Len(events), j \in 1..3 :
                  Lines(events)[3 * (i - 1) + j] = LineOf(events[i], j)
  <2>1. Lines(events) = Three(a) \o Three(b)
    BY <1>8, LinesOf
  <2> DEFINE first == Three(a)
             second == Three(b)
             lines == Lines(events)
  <2>2. /\ first \in Seq(Line) /\ Len(first) = 3 /\ \A j \in 1..3 : first[j] = LineOf(a, j)
        /\ second \in Seq(Line) /\ Len(second) = 3 /\ \A j \in 1..3 : second[j] = LineOf(b, j)
        /\ lines = first \o second
    BY <1>5, <2>1
  <2>3. events \in Seq(EventType) /\ Len(events) = 2 /\ events[1] = a /\ events[2] = b
    BY <1>8
  <2> HIDE DEF first, second, lines
  <2>4. /\ lines \in Seq(Line) /\ Len(lines) = 6
        /\ \A j \in 1..3 : lines[j] = first[j] /\ lines[3 + j] = second[j]
    <3>1. lines = Joined(first, second)
      BY <2>2 DEF Joined
    <3>2. /\ lines \in Seq(Line) /\ Len(lines) = 3 + 3
          /\ \A j \in 1..(3 + 3) : lines[j] = IF j <= 3 THEN first[j] ELSE second[j - 3]
      <4>1. /\ lines \in Seq(Line) /\ Len(lines) = Len(first) + Len(second)
            /\ \A j \in 1..(Len(first) + Len(second)) :
                 lines[j] = IF j <= Len(first) THEN first[j] ELSE second[j - Len(first)]
        <5>1. first \in Seq(Line) /\ second \in Seq(Line)
          BY <2>2
        <5> QED BY <3>1, <5>1, JoinedIs
      <4> QED BY <2>2, <4>1
    <3>3. \A j \in 1..3 : j \in 1..(3 + 3) /\ 3 + j \in 1..(3 + 3) /\ (3 + j) - 3 = j
                          /\ ~(3 + j <= 3) /\ j <= 3
      OBVIOUS
    <3> QED BY <3>2, <3>3
  <2>5. ASSUME NEW i \in 1..2, NEW j \in 1..3 PROVE lines[3 * (i - 1) + j] = LineOf(events[i], j)
    <3>1. CASE i = 1
      <4>1. 3 * (i - 1) + j = j
        BY <3>1
      <4> QED BY <2>2, <2>3, <2>4, <3>1, <4>1
    <3>2. CASE i = 2
      <4>1. 3 * (i - 1) + j = 3 + j
        BY <3>2
      <4> QED BY <2>2, <2>3, <2>4, <3>2, <4>1
    <3> QED BY <3>1, <3>2
  <2> QED BY <2>3, <2>4, <2>5 DEF lines
<1>9. Len(events) \in 0..2 /\ Len(Lines(events)) = 3 * Len(events) /\ events \in Seq(EventType)
      /\ Lines(events) \in Seq(Line)
  <2>1. CASE events = <<>>
    BY <1>6, <2>1
  <2>2. CASE \E a \in EventType : events = <<a>>
    <3>1. Len(events) = 1 /\ Len(Lines(events)) = 3 /\ events \in Seq(EventType)
          /\ Lines(events) \in Seq(Line)
      BY <1>7, <2>2
    <3> QED BY <3>1
  <2>3. CASE \E a \in EventType, b \in EventType : events = <<a, b>>
    <3>1. Len(events) = 2 /\ Len(Lines(events)) = 6 /\ events \in Seq(EventType)
          /\ Lines(events) \in Seq(Line)
      BY <1>8, <2>3
    <3> QED BY <3>1
  <2> QED BY <1>4, <2>1, <2>2, <2>3
<1>10. \A i \in 1..Len(events), j \in 1..3 : Lines(events)[3 * (i - 1) + j] = LineOf(events[i], j)
  BY <1>4, <1>6, <1>7, <1>8
<1> QED BY <1>9, <1>10

\* A step of the job service, and when it takes it.
LEMMA UpstreamSays ==
  ASSUME UpstreamStep
  PROVE  \E events \in Said, pc \in {"loop", "ended"} :
           /\ Send(events, pc) /\ upstream.pc # "ended"
           /\ events # <<>> => \/ pc = "loop" /\ Len(events) = 1 /\ events[1].type = "status"
                               \/ pc = "ended" /\ Len(events) = 2
           /\ events = <<>> => pc = "ended"
<1>1. CASE UpstreamNotFound
  BY <1>1 DEF UpstreamNotFound, Said, NotFound
<1>2. CASE UpstreamStatus
  <2>1. PICK status \in ToldStatus : Send(<<Event("status", status)>>, "loop")
    BY <1>2 DEF UpstreamStatus
  <2> DEFINE events == <<Event("status", status)>>
  <2>2. Len(events) = 1 /\ events[1].type = "status" /\ events # <<>> /\ events \in Said
    BY DEF Event, Said
  <2>3. upstream.pc # "ended"
    BY <1>2 DEF UpstreamStatus
  <2> HIDE DEF events
  <2>4. Send(events, "loop")
    BY <2>1 DEF events
  <2> QED BY <2>2, <2>3, <2>4
<1>3. CASE UpstreamResult
  <2>1. PICK outcome \in Outcome : Send(<<Event("result", outcome), Close>>, "ended")
    BY <1>3 DEF UpstreamResult
  <2> QED BY <1>3, <2>1 DEF UpstreamResult, Said
<1>4. CASE UpstreamTimeout
  BY <1>4 DEF UpstreamTimeout, Said, TimedOut
<1>5. CASE UpstreamCut
  BY <1>5 DEF UpstreamCut, Said
<1> QED BY <1>1, <1>2, <1>3, <1>4, <1>5 DEF UpstreamStep
-----------------------------------------------------------------------------
\* The steps of the stream, by who takes them.
LEMMA TypeInit == Init => TypeOK
<1>1. NoLine \in Line /\ "" \in Texts /\ 0 \in 0..Timeout
  BY RelayAssumption DEF NoLine, Line, Texts
<1>2. \A S : <<>> \in Seq(S)
  OBVIOUS
<1> SUFFICES ASSUME Init PROVE TypeOK
  OBVIOUS
<1>3. /\ upstream \in [pc : {"new", "loop", "ended"}, quiet : 0..Timeout]
      /\ scanner \in [pc : {"off", "scan", "send", "done"}, line : Line]
      /\ handler \in [pc : {"start", "select", "returned"}, eventType : Texts, timer : 0..Timeout]
  BY <1>1 DEF Init
<1>4. /\ sent \in Seq([type : Texts, data : Texts]) /\ out \in Seq([type : Texts, data : Texts])
      /\ wire \in Seq(Line)
  BY <1>2 DEF Init
<1> QED BY <1>3, <1>4 DEF Init, TypeOK

LEMMA TypeNext == TypeOK /\ [Next]_vars => TypeOK'
<1> SUFFICES ASSUME TypeOK, [Next]_vars PROVE TypeOK'
  OBVIOUS
<1> DEFINE Handlers == [pc : {"start", "select", "returned"}, eventType : Texts, timer : 0..Timeout]
<1>0. /\ sent \in Seq(EventType) /\ out \in Seq(EventType) /\ mode \in Modes
      /\ handler \in Handlers /\ Timeout \in 0..Timeout
      /\ scanner.line \in Line /\ scanner.line.text \in Texts
  BY RelayAssumption DEF TypeOK, EventType, Line
<1> USE RelayAssumption
<1>1. CASE UpstreamStep
  <2>1. PICK events \in Said, pc \in {"loop", "ended"} : Send(events, pc)
    BY <1>1, UpstreamSays
  <2>2. events \in Seq(EventType) /\ Lines(events) \in Seq(Line)
    BY SaidType
  <2>3. sent' = Joined(sent, events) /\ wire' = Joined(wire, Lines(events))
    BY <2>1 DEF Send, Joined
  <2>4. sent' \in Seq(EventType) /\ wire' \in Seq(Line)
    BY <2>2, <2>3, JoinedIs DEF TypeOK, EventType
  <2>5. late' \in BOOLEAN /\ upstream' \in [pc : {"new", "loop", "ended"}, quiet : 0..Timeout]
        /\ UNCHANGED <<mode, client, scanner, handler, out>>
    BY <2>1 DEF Send, gatewayVars, TypeOK
  <2> QED BY <2>4, <2>5 DEF TypeOK, EventType
<1>2. CASE Connect
  <2>1. out' = out \/ out' = Unavailable
    BY <1>2 DEF Connect
  <2>2. out' \in Seq(EventType)
    <3>1. Unavailable \in Seq(EventType)
      BY EventTypes
    <3> QED BY <1>0, <2>1, <3>1
  <2>3. UNCHANGED <<mode, upstream, sent, wire, client, late>>
        /\ (scanner' = scanner \/ scanner' = [scanner EXCEPT !.pc = "scan"])
        /\ \/ handler' = [handler EXCEPT !.pc = "select", !.timer = Timeout]
           \/ handler' = [handler EXCEPT !.pc = "returned"]
    BY <1>2 DEF Connect
  <2>4. handler' \in Handlers
    BY <1>0, <2>3
  <2>5. scanner' \in [pc : {"off", "scan", "send", "done"}, line : Line]
    BY <2>3 DEF TypeOK
  <2> QED BY <2>2, <2>3, <2>4, <2>5 DEF TypeOK, EventType
<1>3. CASE Scan
  <2>1. CASE wire # <<>> /\ scanner' = [pc |-> "send", line |-> Head(wire)] /\ wire' = Tail(wire)
    BY <1>3, <2>1 DEF Scan, TypeOK
  <2>2. CASE scanner' = [scanner EXCEPT !.pc = "done"] /\ UNCHANGED wire
    BY <1>3, <2>2 DEF Scan, TypeOK
  <2> QED BY <1>3, <2>1, <2>2 DEF Scan
<1>4. CASE Receive
  <2> DEFINE event == Event(handler.eventType, scanner.line.text)
  <2>1. event \in EventType
    BY EventTypes DEF TypeOK, Line
  <2>2. scanner' = [scanner EXCEPT !.pc = "scan"] /\ UNCHANGED <<mode, upstream, sent, wire, client, late>>
    BY <1>4 DEF Receive
  <2>3. \/ handler' = [handler EXCEPT !.eventType = scanner.line.text] /\ UNCHANGED out
        \/ handler' = Data(event) /\ out' = out \o Relayed(event)
        \/ UNCHANGED <<handler, out>>
    BY <1>4 DEF Receive
  <2>4. Relayed(event) \in Seq(EventType)
    BY <2>1, RelayedType DEF TypeOK
  <2> HIDE DEF event
  <2>5. out' = out \/ out' = Joined(out, Relayed(event))
    BY <2>3 DEF Joined
  <2>6. out' \in Seq(EventType)
    <3>1. Joined(out, Relayed(event)) \in Seq(EventType)
      BY <1>0, <2>4, JoinedIs
    <3> QED BY <1>0, <2>5, <3>1
  <2>7. handler' \in Handlers
    <3>1. CASE handler' = [handler EXCEPT !.eventType = scanner.line.text]
      BY <1>0, <3>1
    <3>2. CASE handler' = Data(event)
      <4>1. CASE event.type = "close"
        BY <1>0, <3>2, <4>1 DEF Data
      <4>2. CASE event.type # "close"
        BY <1>0, <3>2, <4>2 DEF Data
      <4> QED BY <4>1, <4>2
    <3> QED BY <1>0, <2>3, <3>1, <3>2
  <2> QED BY <2>2, <2>6, <2>7 DEF TypeOK, EventType
<1>5. CASE TimeoutFires
  <2>1. out' = Joined(out, TimedOut)
    BY <1>5 DEF TimeoutFires, Joined
  <2>2. out' \in Seq(EventType)
    BY <2>1, JoinedIs, EventTypes DEF TypeOK, EventType
  <2> QED BY <1>5, <2>2 DEF TimeoutFires, TypeOK, EventType
<1>6. CASE ClientGone \/ ClientLeaves
  BY <1>6 DEF ClientGone, ClientLeaves, gatewayVars, TypeOK
<1>7. CASE Tick
  <2> DEFINE left == IF handler.timer = 0 THEN 0 ELSE handler.timer - 1
  <2>1. left \in 0..Timeout
    BY <1>0
  <2>2. handler' = [handler EXCEPT !.timer = left]
    BY <1>7 DEF Tick
  <2> HIDE DEF left
  <2>3. handler' \in Handlers
    BY <1>0, <2>1, <2>2
  <2>4. upstream' \in [pc : {"new", "loop", "ended"}, quiet : 0..Timeout]
    BY <1>7 DEF Tick, TypeOK
  <2>5. late' \in BOOLEAN /\ UNCHANGED <<mode, sent, wire, scanner, out, client>>
    BY <1>7 DEF Tick, Busy, TypeOK
  <2> QED BY <2>3, <2>4, <2>5 DEF TypeOK
<1>8. CASE UNCHANGED vars
  BY <1>8 DEF vars, gatewayVars, TypeOK
<1> QED BY <1>1, <1>2, <1>3, <1>4, <1>5, <1>6, <1>7, <1>8 DEF Next, GatewayStep
-----------------------------------------------------------------------------
(* What the job service has sent *)

LEMMA SentGrows ==
  ASSUME TypeOK, NEW events \in Said, NEW pc, Send(events, pc)
  PROVE  /\ Len(events) \in 0..2 /\ Len(sent') = Len(sent) + Len(events)
         /\ \A i \in 1..Len(sent) : sent'[i] = sent[i]
         /\ \A i \in 1..Len(events) : sent'[Len(sent) + i] = events[i]
         /\ Len(wire') = Len(wire) + 3 * Len(events)
         /\ \A i \in 1..Len(wire) : wire'[i] = wire[i]
         /\ \A i \in 1..Len(events), j \in 1..3 :
              wire'[Len(wire) + 3 * (i - 1) + j] = LineOf(events[i], j)
<1> DEFINE lines == Lines(events)
<1>1. /\ events \in Seq(EventType) /\ lines \in Seq(Line)
      /\ Len(events) \in 0..2 /\ Len(lines) = 3 * Len(events)
      /\ \A i \in 1..Len(events), j \in 1..3 : lines[3 * (i - 1) + j] = LineOf(events[i], j)
  BY SaidType
<1>2. sent' = Joined(sent, events) /\ wire' = Joined(wire, lines)
  BY DEF Send, Joined
<1>3. sent \in Seq(EventType) /\ wire \in Seq(Line)
  BY DEF TypeOK, EventType
<1> HIDE DEF lines
<1>4. /\ Len(sent') = Len(sent) + Len(events)
      /\ \A i \in 1..(Len(sent) + Len(events)) :
           sent'[i] = IF i <= Len(sent) THEN sent[i] ELSE events[i - Len(sent)]
  BY <1>1, <1>2, <1>3, JoinedIs
<1>5. /\ Len(wire') = Len(wire) + Len(lines)
      /\ \A i \in 1..(Len(wire) + Len(lines)) :
           wire'[i] = IF i <= Len(wire) THEN wire[i] ELSE lines[i - Len(wire)]
  BY <1>1, <1>2, <1>3, JoinedIs
<1>6. Len(sent) \in Nat /\ Len(wire) \in Nat /\ Len(events) \in Nat
  BY <1>1, <1>3
<1>7. \A i \in 1..Len(sent) : sent'[i] = sent[i]
  BY <1>4, <1>6
<1>8. \A i \in 1..Len(events) : sent'[Len(sent) + i] = events[i]
  <2> SUFFICES ASSUME NEW i \in 1..Len(events) PROVE sent'[Len(sent) + i] = events[i]
    OBVIOUS
  <2>1. Len(sent) + i \in 1..(Len(sent) + Len(events)) /\ ~(Len(sent) + i <= Len(sent))
        /\ (Len(sent) + i) - Len(sent) = i
    BY <1>6
  <2> QED BY <1>4, <2>1
<1>9. \A i \in 1..Len(wire) : wire'[i] = wire[i]
  BY <1>1, <1>5, <1>6
<1>10. \A i \in 1..Len(events), j \in 1..3 :
         wire'[Len(wire) + 3 * (i - 1) + j] = LineOf(events[i], j)
  <2> SUFFICES ASSUME NEW i \in 1..Len(events), NEW j \in 1..3
               PROVE  wire'[Len(wire) + 3 * (i - 1) + j] = LineOf(events[i], j)
    OBVIOUS
  <2> DEFINE k == 3 * (i - 1) + j
  <2>1. k \in 1..Len(lines) /\ lines[k] = LineOf(events[i], j)
    BY <1>1, <1>6
  <2>2. Len(wire) + 3 * (i - 1) + j = Len(wire) + k
    BY <1>6
  <2> HIDE DEF k
  <2>3. Len(wire) + k \in 1..(Len(wire) + Len(lines)) /\ ~(Len(wire) + k <= Len(wire))
        /\ (Len(wire) + k) - Len(wire) = k
    BY <1>1, <1>6, <2>1
  <2> QED BY <1>5, <2>1, <2>2, <2>3
<1> QED BY <1>1, <1>4, <1>5, <1>7, <1>8, <1>9, <1>10

LEMMA SaidKinds ==
  ASSUME NEW events \in Said
  PROVE  \/ events = <<>>
         \/ /\ Len(events) = 1 /\ events[1].type = "status"
            /\ events[1].data # "failed_at_length"
         \/ /\ Len(events) = 2 /\ events[1].type \in Ending /\ events[2] = Close
            /\ events[1].data = "failed_at_length" => events[1].type = "result"
<1>1. CASE events = TimedOut
  BY <1>1 DEF TimedOut, Event, Ending
<1>2. CASE events = <<Event("error", "not_found"), Close>>
  BY <1>2 DEF Event, Ending
<1>3. CASE \E status \in ToldStatus : events = <<Event("status", status)>>
  <2>1. PICK status \in ToldStatus : events = <<Event("status", status)>>
    BY <1>3
  <2> DEFINE event == Event("status", status)
  <2>2. event.type = "status" /\ event.data = status /\ status # "failed_at_length"
    BY DEF Event, ToldStatus
  <2> HIDE DEF event
  <2>3. Len(events) = 1 /\ events[1] = event
    BY <2>1 DEF event
  <2> QED BY <2>2, <2>3
<1>4. CASE \E outcome \in Outcome : events = <<Event("result", outcome), Close>>
  <2>1. PICK outcome \in Outcome : events = <<Event("result", outcome), Close>>
    BY <1>4
  <2> DEFINE event == Event("result", outcome)
  <2>2. event.type = "result"
    BY DEF Event
  <2> HIDE DEF event
  <2>3. Len(events) = 2 /\ events[1] = event /\ events[2] = Close
    BY <2>1 DEF event
  <2> QED BY <2>2, <2>3 DEF Ending
<1> QED BY <1>1, <1>2, <1>3, <1>4 DEF Said

LEMMA SentNext == TypeOK /\ SentInv /\ [Next]_vars => SentInv'
<1> SUFFICES ASSUME TypeOK, SentInv, [Next]_vars PROVE SentInv'
  OBVIOUS
<1>1. CASE UNCHANGED sent /\ (upstream'.pc = upstream.pc)
  BY <1>1 DEF SentInv
<1>2. CASE UpstreamStep
  <2>1. PICK events \in Said, pc \in {"loop", "ended"} :
          /\ Send(events, pc) /\ upstream.pc # "ended"
          /\ events # <<>> => \/ pc = "loop" /\ Len(events) = 1 /\ events[1].type = "status"
                              \/ pc = "ended" /\ Len(events) = 2
          /\ events = <<>> => pc = "ended"
    BY <1>2, UpstreamSays
  <2> DEFINE n == Len(sent)
  <2>1a. n \in Nat /\ DOMAIN sent = 1..n
    BY DEF TypeOK
  <2>1b. PICK k \in 0..2 : k = Len(events) /\ (events = <<>> => k = 0)
    <3>1. Len(events) \in 0..2 /\ Len(<<>>) = 0
      BY SaidType
    <3> QED BY <3>1
  <2>1c. /\ Len(sent') = n + k
         /\ \A i \in 1..n : sent'[i] = sent[i]
         /\ \A i \in 1..k : sent'[n + i] = events[i]
    BY <2>1, <2>1b, SentGrows
  <2>1d. \A i \in 1..n : sent[i].type = "status" /\ sent[i].data # "failed_at_length"
    BY <2>1, <2>1a DEF SentInv
  <2> HIDE DEF n
  <2>2. /\ n \in Nat /\ Len(sent') \in Nat
        /\ \A i \in 1..n : sent'[i] = sent[i] /\ sent'[i].type = "status"
    <3>1. n + k \in Nat
      BY <2>1a
    <3> QED BY <2>1a, <2>1c, <2>1d, <3>1
  <2>3. upstream'.pc = pc /\ DOMAIN sent' = 1..Len(sent')
    <3>1. sent' \in Seq([type : Texts, data : Texts])
      BY TypeNext DEF TypeOK
    <3> QED BY <2>1, <3>1 DEF Send
  <2>4. \A i \in 1..n : sent'[i].data # "failed_at_length"
    BY <2>1c, <2>1d
  <2>5. Close.type = "close" /\ Close.data = "" /\ "close" \notin Ending /\ "status" \notin Ending
    BY EventTypes DEF Ending
  <2>6. CASE events = <<>>
    <3>1. Len(sent') = n
      BY <2>1a, <2>1b, <2>1c, <2>6
    <3>2. \A i \in DOMAIN sent' : sent'[i].type = "status" /\ sent'[i].data # "failed_at_length"
      BY <2>2, <2>3, <2>4, <3>1
    <3>3. upstream'.pc = "ended"
      BY <2>1, <2>3, <2>6
    <3> QED BY <2>5, <3>2, <3>3 DEF SentInv
  <2>7. CASE Len(events) = 1 /\ events[1].type = "status" /\ events[1].data # "failed_at_length"
    <3>1. Len(sent') = n + 1 /\ sent'[n + 1] = events[1]
      <4>1. k = 1
        BY <2>1b, <2>7
      <4> QED BY <2>1c, <4>1
    <3>2. \A i \in 1..Len(sent') : i \in 1..n \/ i = n + 1
      BY <2>2, <3>1
    <3>3. \A i \in 1..Len(sent') : sent'[i].type = "status" /\ sent'[i].data # "failed_at_length"
      BY <2>2, <2>4, <2>7, <3>1, <3>2
    <3>4. upstream'.pc # "new"
      BY <2>3
    <3> QED BY <2>3, <2>5, <3>3, <3>4 DEF SentInv
  <2>8. CASE /\ Len(events) = 2 /\ events[1].type \in Ending /\ events[2] = Close
             /\ events[1].data = "failed_at_length" => events[1].type = "result"
    <3>1. Len(sent') = n + 2 /\ sent'[n + 1] = events[1] /\ sent'[n + 2] = Close
      <4>1. k = 2
        BY <2>1b, <2>8
      <4>2. Len(sent') = n + 2 /\ sent'[n + 1] = events[1] /\ sent'[n + 2] = events[2]
        BY <2>1c, <4>1
      <4> QED BY <2>8, <4>2
    <3>2. \A i \in 1..Len(sent') : i \in 1..n \/ i = n + 1 \/ i = n + 2
      BY <2>2, <3>1
    <3>3. upstream'.pc = "ended"
      <4>1. k = 2
        BY <2>1b, <2>8
      <4>2. events # <<>> /\ Len(events) # 1
        BY <2>1b, <4>1
      <4> QED BY <2>1, <2>3, <4>2
    <3>4. ASSUME NEW i \in 1..Len(sent')
          PROVE  /\ sent'[i].type \in {"status", "close"} \cup Ending
                 /\ sent'[i].data = "failed_at_length" => sent'[i].type = "result"
                 /\ sent'[i].type = "close" =>
                      sent'[i] = Close /\ i = Len(sent') /\ i > 1 /\ sent'[i - 1].type \in Ending
                 /\ sent'[i].type \in Ending => i + 1 = Len(sent') /\ sent'[i + 1] = Close
      <4>1. CASE i \in 1..n
        BY <2>2, <2>4, <2>5, <4>1
      <4>2. CASE i = n + 1
        <5>1. i + 1 = n + 2 /\ i + 1 = Len(sent')
          BY <2>2, <3>1, <4>2
        <5> QED BY <2>5, <2>8, <3>1, <4>2, <5>1
      <4>3. CASE i = n + 2
        <5>1. i - 1 = n + 1 /\ i > 1
          BY <2>2, <4>3
        <5> QED BY <2>5, <2>8, <3>1, <4>3, <5>1
      <4> QED BY <3>2, <4>1, <4>2, <4>3
    <3> QED BY <2>3, <3>3, <3>4 DEF SentInv
  <2> QED BY <2>6, <2>7, <2>8, SaidKinds
<1>3. CASE GatewayStep \/ ClientLeaves \/ UNCHANGED vars
  BY <1>1, <1>3 DEF GatewayStep, Connect, Scan, Receive, TimeoutFires, ClientGone, ClientLeaves,
     vars, gatewayVars
<1>4. CASE Tick
  <2>1. UNCHANGED sent /\ upstream'.pc = upstream.pc
    BY <1>4 DEF Tick, TypeOK
  <2> QED BY <1>1, <2>1
<1> QED BY <1>2, <1>3, <1>4 DEF Next
-----------------------------------------------------------------------------
(* What is relayed, step by step *)

LEMMA WrittenNone ==
  ASSUME NEW s \in Seq(EventType)
  PROVE  SubSeq(s, 1, 0) = <<>> /\ Written(SubSeq(s, 1, 0)) = <<>>
<1>1. SubSeq(s, 1, 0) = <<>>
  OBVIOUS
<1>2. Written(<<>>) = <<>>
  <2>1. [i \in DOMAIN <<>> |-> Relayed(<<>>[i])] = <<>>
    OBVIOUS
  <2>2. FlattenSeq(<<>>) = <<>>
    BY DEF FlattenSeq
  <2> QED BY <2>1, <2>2 DEF Written
<1> QED BY <1>1, <1>2

LEMMA WrittenStays == (\A s : Written(s)' = Written(s)) \/ mode' # mode
BY DEF Written, Relayed

LEMMA RelayInit == Init => RelayInv
<1> SUFFICES ASSUME Init PROVE RelayInv
  OBVIOUS
<1>1. sent = <<>> /\ wire = <<>> /\ out = <<>> /\ handler.pc = "start" /\ scanner.pc = "off"
  BY DEF Init
<1>2. Len(sent) = 0 /\ Len(wire) = 0 /\ sent \in Seq(EventType)
  BY <1>1
<1>3. Taken(0, 0)
  BY <1>1, <1>2 DEF Taken, Handing
<1>4. Relays(0)
  <2>1. SubSeq(sent, 1, 0) = <<>> /\ Written(SubSeq(sent, 1, 0)) = <<>>
    BY <1>2, WrittenNone
  <2> QED BY <1>1, <2>1 DEF Relays
<1>5. Relaying(0, 0)
  BY <1>1, <1>2, <1>3, <1>4 DEF Relaying, Told
<1> QED BY <1>1, <1>2, <1>5 DEF RelayInv, Returned

\* After the handler has returned nothing changes that the client sees.
LEMMA KeptStays ==
  ASSUME RelayInv, Returned, Scan
  PROVE  RelayInv'
<1>1. UNCHANGED <<mode, sent, handler, out, client, late>>
  BY DEF Scan
<1>2. Kept
  BY DEF RelayInv
<1>3. RelayIsPrefix'
  BY <1>1, <1>2 DEF Kept, RelayIsPrefix, Written, Relayed
<1>4. EveryStreamConcludes' /\ CloseIsTerminal' /\ ResultIsRelayed'
  BY <1>1, <1>2 DEF Kept, EveryStreamConcludes, CloseIsTerminal, ResultIsRelayed, Returned
<1> QED BY <1>1, <1>3, <1>4 DEF RelayInv, Kept, Returned

\* What holds of a place in the stream.
LEMMA PlaceBounds ==
  ASSUME TypeOK, NEW m \in 0..Len(sent), NEW p \in 0..2, Taken(m, p)
  PROVE  /\ Len(sent) \in Nat /\ Len(wire) \in Nat /\ m \in Nat /\ Handing \in {0, 1}
         /\ DOMAIN sent = 1..Len(sent) /\ sent \in Seq(EventType)
         /\ p >= 1 \/ Handing = 1 \/ wire # <<>> => m + 1 \in 1..Len(sent)
         /\ wire = <<>> /\ Handing = 0 => m = Len(sent) /\ p = 0
         /\ Told(m, p) \in Nat
<1>1. /\ sent \in Seq(EventType) /\ Len(sent) \in Nat /\ Len(wire) \in Nat /\ m \in Nat
      /\ DOMAIN sent = 1..Len(sent) /\ (wire = <<>> <=> Len(wire) = 0)
  BY DEF TypeOK, EventType
<1>2. Handing \in {0, 1} /\ Len(wire) = 3 * (Len(sent) - m) - p - Handing
  BY DEF Handing, Taken
<1>3. Told(m, p) \in Nat
  BY <1>1 DEF Told
<1> DEFINE n == Len(sent)
           rest == Len(wire)
<1>4. /\ n \in Nat /\ rest \in Nat /\ m \in 0..n /\ rest = 3 * (n - m) - p - Handing
      /\ (wire = <<>> <=> rest = 0)
  BY <1>1, <1>2
<1> HIDE DEF n, rest
<1>5. p >= 1 \/ Handing = 1 \/ rest # 0 => n - m >= 1
  BY <1>2, <1>4
<1>6. rest = 0 /\ Handing = 0 => m = n /\ p = 0
  BY <1>2, <1>4
<1>7. n - m >= 1 => m + 1 \in 1..n
  BY <1>4
<1> QED BY <1>1, <1>2, <1>3, <1>4, <1>5, <1>6, <1>7 DEF n

LEMMA SendRelays ==
  ASSUME TypeOK, SentInv, RelayInv, ~Returned, UpstreamStep
  PROVE  RelayInv'
<1>1. PICK events \in Said, pc \in {"loop", "ended"} :
        /\ Send(events, pc) /\ upstream.pc # "ended" /\ (events = <<>> => pc = "ended")
  BY UpstreamSays
<1>2. PICK m \in 0..Len(sent), p \in 0..2 : Relaying(m, p)
  BY DEF RelayInv
<1>3. /\ Len(sent) \in Nat /\ Len(wire) \in Nat /\ m \in Nat /\ Handing \in {0, 1}
      /\ DOMAIN sent = 1..Len(sent) /\ sent \in Seq(EventType)
      /\ p >= 1 \/ Handing = 1 \/ wire # <<>> => m + 1 \in 1..Len(sent)
      /\ Told(m, p) \in Nat
  BY <1>2, PlaceBounds DEF Relaying
<1>4. UNCHANGED <<mode, scanner, handler, out, client>> /\ late' = (late \/ upstream.quiet = Timeout)
      /\ upstream'.pc = pc
  BY <1>1 DEF Send, gatewayVars
<1>5. PICK k \in 0..2 : k = Len(events) /\ (events # <<>> => k # 0)
  <2>1. events \in Seq(EventType) /\ Len(events) \in 0..2
    BY SaidType
  <2> QED BY <2>1
<1>6. /\ Len(sent') = Len(sent) + k
      /\ \A i \in 1..Len(sent) : sent'[i] = sent[i]
      /\ \A i \in 1..k : sent'[Len(sent) + i] = events[i]
      /\ Len(wire') = Len(wire) + 3 * k
      /\ \A i \in 1..Len(wire) : wire'[i] = wire[i]
      /\ \A i \in 1..k, j \in 1..3 :
           wire'[Len(wire) + 3 * (i - 1) + j] = LineOf(events[i], j)
  BY <1>1, <1>5, SentGrows
<1>7. Handing' = Handing
  BY <1>4 DEF Handing
<1>8. Taken(m, p)'
  <2>1. Len(wire) = 3 * (Len(sent) - m) - p - Handing
    BY <1>2 DEF Relaying, Taken
  <2>2. Len(wire') = 3 * (Len(sent') - m) - p - Handing
    <3>1. \A n \in Nat, h \in {0, 1} :
            (3 * (n - m) - p - h) + 3 * k = 3 * ((n + k) - m) - p - h
      BY <1>3
    <3> QED BY <1>3, <1>6, <2>1, <3>1
  <2>3. ASSUME NEW i \in 1..Len(sent'), NEW j \in 1..3, Place(m, p, i, j) >= 1
        PROVE  wire'[Place(m, p, i, j)] = LineOf(sent'[i], j)
    <3> DEFINE x == Place(m, p, i, j)
    <3>1. x = 3 * (i - m - 1) + j - p - Handing
      BY DEF Place
    <3>2. CASE i \in 1..Len(sent)
      <4>1. x \in 1..Len(wire)
        BY <1>3, <2>1, <2>3, <3>1, <3>2
      <4>2. wire[x] = LineOf(sent[i], j)
        BY <1>2, <2>3, <3>2 DEF Relaying, Taken
      <4> HIDE DEF x
      <4> QED BY <1>6, <3>2, <4>1, <4>2 DEF x
    <3>3. CASE i \notin 1..Len(sent)
      <4>1. PICK l \in 1..k : i = Len(sent) + l
        <5>1. i - Len(sent) \in 1..k /\ i = Len(sent) + (i - Len(sent))
          BY <1>3, <1>6, <3>3
        <5> QED BY <5>1
      <4>2. x = Len(wire) + 3 * (l - 1) + j
        BY <1>3, <2>1, <3>1, <4>1
      <4>3. sent'[i] = events[l] /\ wire'[Len(wire) + 3 * (l - 1) + j] = LineOf(events[l], j)
        BY <1>6, <4>1
      <4> QED BY <4>2, <4>3
    <3> QED BY <3>2, <3>3
  <2>4. \A i, j : Place(m, p, i, j)' = Place(m, p, i, j)
    BY <1>7 DEF Place
  <2>5. scanner.pc = "send" => scanner.line = LineOf(sent'[m + 1], p + 1)
    BY <1>2, <1>3, <1>6 DEF Relaying, Taken, Handing
  <2>6. p >= 1 => handler.eventType = sent'[m + 1].type
    BY <1>2, <1>3, <1>6 DEF Relaying, Taken
  <2> QED BY <1>4, <1>7, <2>2, <2>3, <2>4, <2>5, <2>6 DEF Taken
<1> DEFINE d == Told(m, p)
<1>9. d \in Nat /\ d <= Len(sent) /\ Len(sent') \in Nat /\ Len(sent) <= Len(sent')
      /\ sent' \in Seq(EventType)
  <2>1. sent' \in Seq(EventType)
    BY <1>1, TypeNext DEF TypeOK, EventType, Next
  <2> QED BY <1>2, <1>3, <1>6, <2>1 DEF Relaying
<1>10. Told(m, p)' = d
  BY DEF Told
<1> HIDE DEF d
<1>11. Relays(d)'
  <2>1. Relays(d)
    BY <1>2 DEF Relaying, d
  <2>2. SubSeq(sent', 1, d) = SubSeq(sent, 1, d)
    BY <1>3, <1>6, <1>9
  <2>3. \A i \in 1..d : sent'[i] = sent[i]
    BY <1>3, <1>6, <1>9
  <2> QED BY <1>4, <2>1, <2>2, <2>3, WrittenStays DEF Relays
<1>12. ASSUME handler'.pc = "select", client' PROVE Scans(d)' /\ (~late' => Timely(d)')
  <2>1. Scans(d) /\ (~late => Timely(d)) /\ sent # <<>>
    BY <1>2, <1>4, <1>12 DEF Relaying, d, RelayInv, Returned
  <2>2. Scans(d)'
    BY <1>1, <1>4, <2>1 DEF Scans
  <2>3. upstream.pc = "loop"
    BY <1>1, <2>1 DEF SentInv, TypeOK
  <2>4. ASSUME ~late', d < Len(sent'), NoneTooLong' PROVE handler'.timer > 0
    <3>1. ~late /\ upstream.quiet # Timeout
      BY <1>4, <2>4
    <3>2. CASE d < Len(sent)
      <4>1. NoneTooLong
        <5>1. DOMAIN sent' = 1..Len(sent')
          BY <1>9
        <5>2. \A i \in 1..Len(sent) : i \in 1..Len(sent')
          BY <1>3, <1>9
        <5> QED BY <1>3, <1>6, <2>4, <5>1, <5>2 DEF NoneTooLong
      <4> QED BY <1>4, <2>1, <3>1, <3>2, <4>1 DEF Timely
    <3>3. CASE d = Len(sent)
      <4>1. handler.timer + upstream.quiet >= Timeout /\ handler.timer \in Nat
            /\ upstream.quiet \in 0..Timeout
        BY <2>1, <2>3, <3>1, <3>3 DEF Timely, TypeOK
      <4> QED BY <1>4, <3>1, <4>1, RelayAssumption
    <3>4. d < Len(sent) \/ d = Len(sent)
      <4>1. d \in Nat /\ Len(sent) \in Nat /\ d <= Len(sent)
        BY <1>3, <1>9
      <4> QED BY <4>1
    <3> QED BY <3>2, <3>3, <3>4
  <2>5. ASSUME d = Len(sent'), upstream'.pc = "loop" PROVE FALSE
    BY <1>1, <1>3, <1>4, <1>5, <1>6, <1>9, <2>5
  <2> QED BY <2>2, <2>4, <2>5 DEF Timely
<1>13. Relaying(m, p)'
  BY <1>8, <1>9, <1>10, <1>11, <1>12 DEF Relaying
<1>14. m \in 0..Len(sent')
  BY <1>3, <1>9
<1>15. handler'.pc = "select" => sent' # <<>>
  <2>1. Len(<<>>) = 0 /\ (sent # <<>> => Len(sent) # 0)
    BY <1>3
  <2> QED BY <1>3, <1>4, <1>6, <2>1 DEF RelayInv, Returned
<1> QED BY <1>4, <1>13, <1>14, <1>15 DEF RelayInv, Returned
LEMMA EmptyJoin ==
  ASSUME NEW S, NEW s \in Seq(S)
  PROVE  <<>> \o s = s /\ s \o <<>> = s
OBVIOUS

LEMMA PrefixKept ==
  ASSUME UNCHANGED <<mode, sent>>, NEW n \in 0..Len(sent),
         NEW own \in {<<>>, TimedOut, Unavailable}, out' = Written(SubSeq(sent, 1, n)) \o own
  PROVE  RelayIsPrefix'
BY DEF RelayIsPrefix, Written, Relayed

LEMMA RelaysStay ==
  ASSUME UNCHANGED <<mode, sent, out>>, NEW d, Relays(d)
  PROVE  Relays(d)'
BY DEF Relays, Written, Relayed

LEMMA TimelyStays ==
  ASSUME UNCHANGED <<sent, upstream, handler>>, NEW d, Timely(d)
  PROVE  Timely(d)'
BY DEF Timely, NoneTooLong

\* The four properties, from how the output ends.
LEMMA Endings ==
  /\ Len(Unavailable) = 2 /\ Len(TimedOut) = 2
  /\ Unavailable[1].type = "error" /\ Unavailable[1] # Close /\ Unavailable[2] = Close
  /\ TimedOut[1].type = "error" /\ TimedOut[1] # Close /\ TimedOut[2] = Close
BY DEF Unavailable, TimedOut, Event, Close

LEMMA ConnectRelays ==
  ASSUME TypeOK, SentInv, RelayInv, Connect
  PROVE  RelayInv'
<1>1. handler.pc = "start" /\ UNCHANGED <<mode, upstream, sent, wire, client, late>>
  BY DEF Connect
<1>2. PICK m \in 0..Len(sent), p \in 0..2 : Relaying(m, p)
  BY <1>1 DEF RelayInv, Returned
<1>3. CASE /\ sent # <<>>
           /\ handler' = [handler EXCEPT !.pc = "select", !.timer = Timeout]
           /\ scanner' = [scanner EXCEPT !.pc = "scan"] /\ UNCHANGED out
  <2>1. /\ scanner.pc = "off" /\ scanner'.pc = "scan"
        /\ handler'.pc = "select" /\ handler'.timer = Timeout
        /\ handler'.eventType = handler.eventType
    BY <1>1, <1>3 DEF RelayInv, Returned, TypeOK
  <2>2. Handing' = Handing /\ \A i, j : Place(m, p, i, j)' = Place(m, p, i, j)
    BY <2>1 DEF Handing, Place
  <2>3. Taken(m, p)'
    BY <1>1, <1>2, <2>1, <2>2 DEF Relaying, Taken
  <2>4. Relays(Told(m, p))'
    BY <1>1, <1>2, <1>3, WrittenStays DEF Relaying, Relays, Told
  <2>5. Scans(Told(m, p))'
    BY <2>1 DEF Scans
  <2>6. Timely(Told(m, p))'
    <3>1. Timeout > 0 /\ (upstream.quiet \in Nat => Timeout + upstream.quiet >= Timeout)
      BY RelayAssumption
    <3> QED BY <1>1, <2>1, <3>1 DEF Timely, TypeOK
  <2>7. Relaying(m, p)'
    BY <1>1, <1>2, <2>3, <2>4, <2>5, <2>6 DEF Relaying, Told
  <2> QED BY <1>1, <1>3, <2>1, <2>7 DEF RelayInv, Returned
<1>4. CASE /\ sent = <<>> \/ ~client
           /\ handler' = [handler EXCEPT !.pc = "returned"] /\ out' = Unavailable
  <2>1. Returned'
    BY <1>4 DEF Returned, TypeOK
  <2>2. sent \in Seq(EventType) /\ Len(sent) \in Nat
    BY DEF TypeOK, EventType
  <2>3. RelayIsPrefix'
    <3>1. Written(SubSeq(sent, 1, 0)) = <<>> /\ 0 \in 0..Len(sent)
      BY <2>2, WrittenNone
    <3>2. Unavailable \in Seq(EventType)
      BY EventTypes
    <3>3. out' = <<>> \o Unavailable
      BY <1>4, <3>2, EmptyJoin
    <3> QED BY <1>1, <3>1, <3>3, PrefixKept
  <2>4. EveryStreamConcludes'
    <3>1. out' # <<>> /\ Last(out') = Close /\ 1 \in DOMAIN out' /\ out'[1].type = "error"
      BY <1>4, Endings DEF Last, Unavailable
    <3> QED BY <3>1 DEF EveryStreamConcludes
  <2>5. CloseIsTerminal'
    BY <1>4, Endings DEF CloseIsTerminal, Unavailable
  <2>6. ResultIsRelayed'
    <3>1. DOMAIN <<>> = {}
      OBVIOUS
    <3>2. ~client' \/ DOMAIN sent' = {}
      BY <1>1, <1>4, <3>1
    <3> QED BY <3>2 DEF ResultIsRelayed
  <2> QED BY <2>1, <2>3, <2>4, <2>5, <2>6 DEF RelayInv, Kept
<1> QED BY <1>3, <1>4 DEF Connect

LEMMA ScanRelays ==
  ASSUME TypeOK, SentInv, RelayInv, ~Returned, Scan
  PROVE  RelayInv'
<1>1. scanner.pc = "scan" /\ UNCHANGED <<mode, upstream, sent, handler, out, client, late>>
  BY DEF Scan
<1>2. handler.pc = "select" /\ sent # <<>>
  BY <1>1 DEF RelayInv, Returned, TypeOK
<1>3. PICK m \in 0..Len(sent), p \in 0..2 : Relaying(m, p)
  BY DEF RelayInv
<1> DEFINE n == Len(sent)
           rest == Len(wire)
           d == Told(m, p)
<1>4. /\ n \in Nat /\ rest \in Nat /\ m \in Nat /\ p \in 0..2 /\ DOMAIN sent = 1..n
      /\ rest = 3 * (n - m) - p
      /\ wire # <<>> => m + 1 \in 1..n
      /\ wire = <<>> => m = n /\ p = 0
  BY <1>1, <1>3, PlaceBounds DEF Relaying, Taken, Handing
<1>5. /\ wire \in Seq(Line)
      /\ wire # <<>> => /\ rest # 0 /\ Head(wire) = wire[1] /\ Len(Tail(wire)) = rest - 1
                        /\ \A x \in 1..(rest - 1) : Tail(wire)[x] = wire[x + 1]
  BY DEF TypeOK
<1>6. \A i \in 1..n, j \in 1..3 :
        3 * (i - m - 1) + j - p >= 1 => wire[3 * (i - m - 1) + j - p] = LineOf(sent[i], j)
  <2>1. Handing = 0
    BY <1>1 DEF Handing
  <2> SUFFICES ASSUME NEW i \in 1..n, NEW j \in 1..3
               PROVE  3 * (i - m - 1) + j - p >= 1
                        => wire[3 * (i - m - 1) + j - p] = LineOf(sent[i], j)
    OBVIOUS
  <2>2. Place(m, p, i, j) >= 1 => wire[Place(m, p, i, j)] = LineOf(sent[i], j)
    BY <1>3 DEF Relaying, Taken
  <2> HIDE DEF n, rest, d
  <2>3. Place(m, p, i, j) = 3 * (i - m - 1) + j - p
    BY <1>4, <2>1 DEF Place
  <2> QED BY <2>2, <2>3
<1>7. p >= 1 => handler.eventType = sent[m + 1].type
  BY <1>3 DEF Relaying, Taken
<1>8. d <= n /\ Relays(d) /\ (client => Scans(d) /\ (~late => Timely(d)))
  BY <1>2, <1>3 DEF Relaying
<1>9. Told(m, p)' = d /\ Relays(d)' /\ (client /\ ~late => Timely(d)')
  BY <1>1, <1>8, RelaysStay, TimelyStays DEF Told
<1> HIDE DEF n, rest, d
<1>10. wire # <<>> => wire[1] = LineOf(sent[m + 1], p + 1) /\ Head(wire) = wire[1]
  <2> SUFFICES ASSUME wire # <<>>
               PROVE  wire[1] = LineOf(sent[m + 1], p + 1) /\ Head(wire) = wire[1]
    OBVIOUS
  <2>1. m + 1 \in 1..n /\ p + 1 \in 1..3 /\ 3 * ((m + 1) - m - 1) + (p + 1) - p = 1
    BY <1>4
  <2> QED BY <1>5, <1>6, <2>1
<1>11. CASE wire # <<>> /\ scanner' = [pc |-> "send", line |-> Head(wire)] /\ wire' = Tail(wire)
  <2>1. Handing' = 1 /\ scanner'.pc = "send" /\ scanner'.line = LineOf(sent[m + 1], p + 1)
    BY <1>10, <1>11 DEF Handing
  <2>2. ASSUME NEW i \in 1..n, NEW j \in 1..3, Place(m, p, i, j)' >= 1
        PROVE  wire'[Place(m, p, i, j)'] = LineOf(sent[i], j)
    <3> DEFINE x == 3 * (i - m - 1) + j - p - 1
    <3>1. Place(m, p, i, j)' = x
      BY <2>1 DEF Place
    <3>2. x \in 1..(rest - 1) /\ x + 1 = 3 * (i - m - 1) + j - p /\ x + 1 >= 1
      BY <1>4, <2>2, <3>1
    <3> HIDE DEF x
    <3>3. wire[x + 1] = LineOf(sent[i], j)
      BY <1>6, <3>2
    <3> QED BY <1>5, <1>11, <3>1, <3>2, <3>3
  <2>3. Len(wire') = 3 * (n - m) - p - 1
    BY <1>4, <1>5, <1>11
  <2>4. Taken(m, p)'
    BY <1>1, <1>7, <2>1, <2>2, <2>3 DEF Taken, n
  <2>5. Scans(d)'
    BY <2>1 DEF Scans
  <2>6. Relaying(m, p)'
    BY <1>1, <1>8, <1>9, <2>4, <2>5 DEF Relaying, n
  <2> QED BY <1>1, <1>2, <2>6 DEF RelayInv, Returned
<1>12. CASE /\ \/ wire # <<>> /\ TooLong(Head(wire))
               \/ wire = <<>> /\ upstream.pc = "ended"
               \/ ~client
            /\ scanner' = [scanner EXCEPT !.pc = "done"] /\ UNCHANGED wire
  <2>1. scanner'.pc = "done" /\ Handing' = Handing /\ Handing' = 0
    BY <1>1, <1>12 DEF Handing, TypeOK
  <2>2. \A i, j : Place(m, p, i, j)' = Place(m, p, i, j)
    BY <2>1 DEF Place
  <2>3. Taken(m, p)'
    BY <1>1, <1>3, <1>12, <2>1, <2>2 DEF Relaying, Taken
  <2>4. ASSUME client PROVE Scans(d)'
    <3>1. CASE wire # <<>> /\ TooLong(Head(wire))
      <4>1. m + 1 \in DOMAIN sent /\ LineOf(sent[m + 1], p + 1).text = "failed_at_length"
        BY <1>4, <1>10, <3>1 DEF TooLong
      <4>2. sent[m + 1].type # "failed_at_length"
        BY <4>1 DEF SentInv, Ending
      <4>3. sent[m + 1].data = "failed_at_length"
        BY <4>1, <4>2 DEF LineOf, NoLine
      <4>4. sent[m + 1].type = "result"
        BY <4>1, <4>3 DEF SentInv
      <4>5. upstream.pc = "ended" /\ ~NoneTooLong
        BY <4>1, <4>3, <4>4 DEF SentInv, NoneTooLong
      <4> QED BY <1>1, <2>1, <4>5 DEF Scans, NoneTooLong
    <3>2. CASE wire = <<>> /\ upstream.pc = "ended"
      <4>1. d = n
        BY <1>4, <3>2 DEF Told, d
      <4> QED BY <1>1, <2>1, <3>2, <4>1 DEF Scans, n
    <3> QED BY <1>12, <2>4, <3>1, <3>2
  <2>5. Relaying(m, p)'
    BY <1>1, <1>8, <1>9, <2>3, <2>4 DEF Relaying, n
  <2> QED BY <1>1, <1>2, <2>5 DEF RelayInv, Returned
<1> QED BY <1>1, <1>11, <1>12 DEF Scan, Returned
\* The handler takes the line that is handed over.
LEMMA LineTaken ==
  ASSUME TypeOK, NEW m \in 0..Len(sent), NEW p \in 0..2, Taken(m, p),
         scanner.pc = "send", scanner'.pc = "scan", UNCHANGED <<sent, wire>>,
         NEW m2, NEW p2, (p = 2 /\ m2 = m + 1 /\ p2 = 0) \/ (p # 2 /\ m2 = m /\ p2 = p + 1),
         p2 >= 1 => handler'.eventType = sent[m + 1].type
  PROVE  Taken(m2, p2)' /\ m2 \in 0..Len(sent) /\ p2 \in 0..2 /\ m + 1 \in 1..Len(sent)
<1>1. Handing = 1 /\ Handing' = 0
  BY DEF Handing
<1>2. Len(sent) \in Nat /\ m \in Nat /\ m + 1 \in 1..Len(sent)
  BY <1>1, PlaceBounds
<1>3. \A i \in 1..Len(sent), j \in 1..3 :
        Place(m, p, i, j) >= 1 => wire[Place(m, p, i, j)] = LineOf(sent[i], j)
  BY DEF Taken
<1>4. Len(wire) = 3 * (Len(sent) - m) - p - 1
  BY <1>1 DEF Taken
<1> DEFINE n == Len(sent)
           rest == Len(wire)
<1>5. n \in Nat /\ m + 1 \in 1..n /\ rest = 3 * (n - m) - p - 1 /\ n' = n /\ rest' = rest
  BY <1>2, <1>4
<1>6. m2 \in 0..Len(sent) /\ p2 \in 0..2
  BY <1>2
<1> HIDE DEF n, rest
<1>7. rest = 3 * (n - m2) - p2
  <2>1. CASE p = 2 /\ m2 = m + 1 /\ p2 = 0
    <3>1. 3 * (n - (m + 1)) - 0 = 3 * (n - m) - 2 - 1
      BY <1>2, <1>5
    <3> QED BY <1>5, <2>1, <3>1
  <2>2. CASE p # 2 /\ m2 = m /\ p2 = p + 1
    <3>1. 3 * (n - m) - (p + 1) = 3 * (n - m) - p - 1
      BY <1>2, <1>5
    <3> QED BY <1>5, <2>2, <3>1
  <2> QED BY <2>1, <2>2
<1>8. ASSUME NEW i \in 1..n, NEW j \in 1..3 PROVE Place(m2, p2, i, j)' = Place(m, p, i, j)
  <2>1. 3 * (i - m2 - 1) + j - p2 - 0 = 3 * (i - m - 1) + j - p - 1
    BY <1>2, <1>5, SMTT(30)
  <2> QED BY <1>1, <2>1 DEF Place
<1>9. \A i \in 1..Len(sent), j \in 1..3 :
        Place(m2, p2, i, j)' >= 1 => wire[Place(m2, p2, i, j)'] = LineOf(sent[i], j)
  BY <1>3, <1>8 DEF n
<1>10. Len(wire') = 3 * (Len(sent') - m2) - p2 - Handing'
  BY <1>1, <1>5, <1>6, <1>7 DEF n, rest
<1>11. p2 >= 1 => handler'.eventType = sent'[m2 + 1].type
  BY <1>6
<1> QED BY <1>2, <1>6, <1>9, <1>10, <1>11 DEF Taken

\* One event more is relayed.
LEMMA OneMore ==
  ASSUME TypeOK, UNCHANGED <<mode, sent>>, NEW d \in Nat, d < Len(sent), Relays(d),
         out' = out \o Relayed(sent[d + 1])
  PROVE  /\ out' = Written(SubSeq(sent, 1, d + 1))
         /\ mode = "json" => out' = SubSeq(sent, 1, d + 1)
         /\ \A i \in 1..d : /\ sent[i].type # "close"
                            /\ sent[i].type \in Ending => \E j \in DOMAIN out' : out'[j] = sent[i]
         /\ sent[d + 1].type # "status" => \E j \in DOMAIN out' : out'[j] = sent[d + 1]
<1>1. mode \in Modes /\ sent \in Seq(EventType) /\ out \in Seq(EventType)
  BY DEF TypeOK, EventType
<1>2. Len(sent) \in Nat /\ d + 1 \in 1..Len(sent) /\ sent[d + 1] \in EventType
  BY <1>1
<1> DEFINE more == Relayed(sent[d + 1])
<1>3. /\ more \in Seq(EventType) /\ Len(more) \in 1..3
      /\ mode = "json" => more = <<sent[d + 1]>>
      /\ sent[d + 1].type # "status" => more[1] = sent[d + 1]
  BY <1>1, <1>2, RelayedType
<1>4. /\ SubSeq(sent, 1, d + 1) = Append(SubSeq(sent, 1, d), sent[d + 1])
      /\ Written(SubSeq(sent, 1, d + 1)) = Written(SubSeq(sent, 1, d)) \o more
  BY <1>1, WrittenGrows
<1>5. out' = out \o more
  OBVIOUS
<1> HIDE DEF more
<1>6. out' = Written(SubSeq(sent, 1, d + 1))
  BY <1>4, <1>5 DEF Relays
<1>7. mode = "json" => out' = SubSeq(sent, 1, d + 1)
  <2>1. SubSeq(sent, 1, d) \in Seq(EventType)
    BY <1>1, <1>2
  <2>2. \A s \in Seq(EventType), x \in EventType : s \o <<x>> = Append(s, x)
    OBVIOUS
  <2>3. mode = "json" => out = SubSeq(sent, 1, d)
    BY DEF Relays
  <2> QED BY <1>2, <1>3, <1>4, <1>5, <2>1, <2>2, <2>3
<1>8. /\ out' \in Seq(EventType) /\ DOMAIN out = 1..Len(out) /\ Len(out) \in Nat
      /\ DOMAIN out' = 1..(Len(out) + Len(more))
      /\ \A i \in 1..(Len(out) + Len(more)) :
              out'[i] = IF i <= Len(out) THEN out[i] ELSE more[i - Len(out)]
  <2>1. out' = Joined(out, more)
    BY <1>5 DEF Joined
  <2>2. /\ out' \in Seq(EventType) /\ Len(out') = Len(out) + Len(more)
        /\ \A i \in 1..(Len(out) + Len(more)) :
              out'[i] = IF i <= Len(out) THEN out[i] ELSE more[i - Len(out)]
    <3>1. out \in Seq(EventType) /\ more \in Seq(EventType)
      BY <1>1, <1>3
    <3> QED BY <2>1, <3>1, JoinedIs, ZenonT(60)
  <2>3. \A s \in Seq(EventType) : DOMAIN s = 1..Len(s) /\ Len(s) \in Nat
    OBVIOUS
  <2> QED BY <1>1, <2>2, <2>3
<1>9. \A i \in 1..Len(out) : i \in DOMAIN out' /\ out'[i] = out[i]
  BY <1>3, <1>8
<1>10. Len(out) + 1 \in DOMAIN out' /\ out'[Len(out) + 1] = more[1]
  <2>1. Len(out) \in Nat /\ Len(more) \in 1..3
    BY <1>3, <1>8
  <2>2. Len(out) + 1 \in 1..(Len(out) + Len(more)) /\ ~(Len(out) + 1 <= Len(out))
        /\ (Len(out) + 1) - Len(out) = 1
    <3>1. \A a \in Nat, b \in 1..3 : a + 1 \in 1..(a + b) /\ ~(a + 1 <= a) /\ (a + 1) - a = 1
      OBVIOUS
    <3> QED BY <2>1, <3>1
  <2> QED BY <1>8, <2>2
<1>11. ASSUME NEW i \in 1..d
       PROVE  /\ sent[i].type # "close"
              /\ sent[i].type \in Ending => \E j \in DOMAIN out' : out'[j] = sent[i]
  <2>1. /\ sent[i].type # "close"
        /\ sent[i].type \in Ending => \E j \in DOMAIN out : out[j] = sent[i]
    BY DEF Relays
  <2> QED BY <1>8, <1>9, <2>1
<1> QED BY <1>3, <1>6, <1>7, <1>10, <1>11
\* The last event: the handler returns, and has relayed all.
LEMMA CloseRelays ==
  ASSUME TypeOK, TypeOK', SentInv, UNCHANGED <<mode, sent>>,
         NEW m \in Nat, m < Len(sent), Relays(m), sent[m + 1].type = "close",
         out' = out \o Relayed(sent[m + 1])
  PROVE  Kept'
<1>1. /\ sent \in Seq(EventType) /\ Len(sent) \in Nat /\ DOMAIN sent = 1..Len(sent)
      /\ out \in Seq(EventType) /\ out' \in Seq(EventType) /\ mode \in Modes
      /\ m + 1 \in DOMAIN sent
  BY DEF TypeOK, EventType
<1>2. sent[m + 1] = Close /\ m + 1 = Len(sent) /\ m + 1 > 1 /\ sent[(m + 1) - 1].type \in Ending
  BY <1>1 DEF SentInv
<1>3. m \in 1..m /\ sent[m].type \in Ending
  BY <1>2
<1>4. /\ out' = Written(SubSeq(sent, 1, m + 1))
      /\ mode = "json" => out' = SubSeq(sent, 1, m + 1)
      /\ \A i \in 1..m : /\ sent[i].type # "close"
                         /\ sent[i].type \in Ending => \E j \in DOMAIN out' : out'[j] = sent[i]
  BY OneMore
<1>5. Close \in EventType /\ Close.type = "close"
  BY EventTypes
<1>6. Relayed(sent[m + 1]) = <<Close>>
  BY <1>1, <1>2, <1>5, RelayedType
<1>7. RelayIsPrefix'
  <2>1. out' = Written(SubSeq(sent, 1, m + 1)) \o <<>>
    BY <1>1, <1>4, EmptyJoin
  <2>2. m + 1 \in 0..Len(sent)
    BY <1>1
  <2> QED BY <2>1, <2>2, PrefixKept
<1>8. EveryStreamConcludes'
  <2>1. out' = Append(out, Close)
    <3>1. \A s \in Seq(EventType), x \in EventType : s \o <<x>> = Append(s, x)
      OBVIOUS
    <3> QED BY <1>1, <1>5, <1>6, <3>1
  <2>2. out' # <<>> /\ out'[Len(out')] = Close
    BY <1>1, <1>5, <2>1
  <2>3. \E j \in DOMAIN out' : out'[j].type \in Ending
    BY <1>3, <1>4
  <2> QED BY <2>2, <2>3 DEF EveryStreamConcludes, Last, Ending
<1>9. CloseIsTerminal'
  <2> SUFFICES ASSUME mode = "json", NEW i \in DOMAIN out', out'[i] = Close PROVE i = Len(out')
    BY DEF CloseIsTerminal
  <2>1. out' = SubSeq(sent, 1, m + 1)
    BY <1>4
  <2>2. Len(out') = m + 1 /\ i \in 1..(m + 1) /\ out'[i] = sent[i]
    BY <1>1, <2>1
  <2>3. i \notin 1..m
    BY <1>4, <1>5, <2>2
  <2> QED BY <2>2, <2>3
<1>10. ResultIsRelayed'
  <2> SUFFICES ASSUME NEW i \in DOMAIN sent, sent[i].type = "result"
               PROVE  \E j \in DOMAIN out' : out'[j] = sent[i]
    BY DEF ResultIsRelayed
  <2>1. i + 1 = Len(sent)
    BY DEF SentInv, Ending
  <2>2. i \in 1..m
    BY <1>1, <1>2, <2>1
  <2> QED BY <1>4, <2>2 DEF Ending
<1> QED BY <1>7, <1>8, <1>9, <1>10 DEF Kept

LEMMA ReceiveRelays ==
  ASSUME TypeOK, SentInv, RelayInv, Receive
  PROVE  RelayInv'
<1>1. /\ handler.pc = "select" /\ scanner.pc = "send" /\ scanner' = [scanner EXCEPT !.pc = "scan"]
      /\ UNCHANGED <<mode, upstream, sent, wire, client, late>>
  BY DEF Receive
<1>2. scanner'.pc = "scan" /\ sent # <<>>
  BY <1>1 DEF TypeOK, RelayInv, Returned
<1>3. PICK m \in 0..Len(sent), p \in 0..2 : Relaying(m, p)
  BY <1>1 DEF RelayInv, Returned
<1> DEFINE event == sent[m + 1]
<1>4. Taken(m, p) /\ Relays(Told(m, p)) /\ (client /\ ~late => Timely(Told(m, p)))
      /\ Told(m, p) <= Len(sent)
  BY <1>1, <1>3 DEF Relaying
<1>5. /\ Len(sent) \in Nat /\ m \in Nat /\ m + 1 \in 1..Len(sent) /\ sent \in Seq(EventType)
      /\ event \in EventType /\ DOMAIN sent = 1..Len(sent)
  <2>1. Handing = 1
    BY <1>1 DEF Handing
  <2> QED BY <1>4, <2>1, PlaceBounds
<1>6. /\ scanner.line = LineOf(event, p + 1)
      /\ p >= 1 => handler.eventType = event.type
  BY <1>1, <1>4 DEF Taken
<1> HIDE DEF event
<1>7. ASSUME NEW d, Scans(d)', handler'.pc = "select",
             NEW m2 \in 0..Len(sent), NEW p2 \in 0..2, d = Told(m2, p2), d <= Len(sent),
             Taken(m2, p2)', Relays(d)', client /\ ~late => Timely(d)'
      PROVE  RelayInv'
  <2>1. Told(m2, p2)' = d
    BY <1>7 DEF Told
  <2>2. Relaying(m2, p2)'
    BY <1>1, <1>7, <2>1 DEF Relaying
  <2> QED BY <1>1, <1>2, <1>7, <2>2 DEF RelayInv, Returned
<1>8. \A d : Scans(d)'
  BY <1>2 DEF Scans
<1>9. CASE p = 0
  <2>1. scanner.line.kind = "event" /\ scanner.line.text = event.type
    BY <1>6, <1>9 DEF LineOf
  <2>2. handler' = [handler EXCEPT !.eventType = event.type] /\ UNCHANGED out
    BY <2>1 DEF Receive
  <2>3. handler'.pc = "select" /\ handler'.eventType = event.type /\ handler'.timer = handler.timer
    BY <1>1, <2>2 DEF TypeOK
  <2>4. Taken(m, 1)'
    <3>1. 1 = p + 1 /\ p # 2 /\ m = m
      BY <1>9
    <3> QED BY <1>1, <1>2, <1>4, <2>3, <3>1, LineTaken DEF event
  <2>5. Told(m, p) = m /\ Told(m, 1) = m
    BY <1>9 DEF Told
  <2>6. Relays(m)'
    BY <1>1, <1>4, <2>2, <2>5, RelaysStay
  <2>7. client /\ ~late => Timely(m)'
    BY <1>1, <1>4, <2>3, <2>5 DEF Timely, NoneTooLong
  <2> QED BY <1>4, <1>7, <1>8, <2>3, <2>4, <2>5, <2>6, <2>7
<1>10. CASE p = 1
  <2>1. scanner.line.kind = "data" /\ Event(handler.eventType, scanner.line.text) = event
    <3>1. scanner.line.kind = "data" /\ scanner.line.text = event.data
      BY <1>6, <1>10 DEF LineOf
    <3>2. handler.eventType = event.type
      BY <1>6, <1>10
    <3>3. event = [type |-> event.type, data |-> event.data]
      BY <1>5 DEF EventType
    <3> QED BY <3>1, <3>2, <3>3 DEF Event
  <2>2. handler' = Data(event) /\ out' = out \o Relayed(event)
    BY <2>1 DEF Receive
  <2>3. /\ handler'.timer = Timeout /\ handler'.eventType = handler.eventType
        /\ handler'.pc = IF event.type = "close" THEN "returned" ELSE "select"
    BY <2>2 DEF Data, TypeOK
  <2>4. m < Len(sent) /\ Relays(m) /\ out' = out \o Relayed(sent[m + 1])
    BY <1>4, <1>5, <1>10, <2>2 DEF Told, event
  <2>5. CASE event.type = "close"
    <3>1. TypeOK'
      BY TypeNext DEF Next, GatewayStep
    <3>2. Kept'
      BY <1>1, <1>5, <2>4, <2>5, <3>1, CloseRelays DEF event
    <3> QED BY <2>3, <2>5, <3>2 DEF RelayInv, Returned
  <2>6. CASE event.type # "close"
    <3>1. Taken(m, 2)'
      <4>1. 2 = p + 1 /\ p # 2 /\ m = m /\ handler'.eventType = event.type
        BY <1>6, <1>10, <2>3
      <4> QED BY <1>1, <1>2, <1>4, <4>1, LineTaken DEF event
    <3>2. Told(m, 2) = m + 1 /\ m + 1 \in Nat /\ m + 1 <= Len(sent)
      BY <1>5 DEF Told
    <3>3. /\ out' = Written(SubSeq(sent, 1, m + 1))
          /\ mode = "json" => out' = SubSeq(sent, 1, m + 1)
          /\ \A i \in 1..m : /\ sent[i].type # "close"
                             /\ sent[i].type \in Ending => \E j \in DOMAIN out' : out'[j] = sent[i]
          /\ event.type # "status" => \E j \in DOMAIN out' : out'[j] = event
      BY <1>1, <1>5, <2>4, OneMore DEF event
    <3>4. \A i \in 1..(m + 1) :
            /\ sent[i].type # "close"
            /\ sent[i].type \in Ending => \E j \in DOMAIN out' : out'[j] = sent[i]
      <4>1. \A i \in 1..(m + 1) : i \in 1..m \/ i = m + 1
        BY <1>5
      <4>2. "status" \notin Ending
        BY DEF Ending
      <4> QED BY <2>6, <3>3, <4>1, <4>2 DEF event
    <3>5. Relays(m + 1)'
      BY <1>1, <3>3, <3>4, WrittenStays DEF Relays
    <3>6. Timely(m + 1)'
      <4>1. Timeout > 0 /\ \A q \in Nat : Timeout + q >= Timeout
        BY RelayAssumption
      <4>2. upstream'.quiet \in Nat
        BY <1>1, RelayAssumption DEF TypeOK
      <4> QED BY <2>3, <4>1, <4>2 DEF Timely
    <3>7. handler'.pc = "select"
      BY <2>3, <2>6
    <3> QED BY <1>7, <1>8, <3>1, <3>2, <3>5, <3>6, <3>7
  <2> QED BY <2>5, <2>6
<1>11. CASE p = 2
  <2>1. scanner.line.kind = "blank"
    <3>1. LineOf(event, p + 1) = NoLine
      BY <1>11 DEF LineOf
    <3>2. NoLine.kind = "blank"
      BY DEF NoLine
    <3> QED BY <1>6, <3>1, <3>2
  <2>2. UNCHANGED <<handler, out>>
    BY <2>1 DEF Receive
  <2>3. Taken(m + 1, 0)' /\ m + 1 \in 0..Len(sent)
    BY <1>1, <1>2, <1>4, <1>11, LineTaken
  <2>4. Told(m, p) = m + 1 /\ Told(m + 1, 0) = m + 1
    BY <1>11 DEF Told
  <2>5. Relays(m + 1)' /\ (client /\ ~late => Timely(m + 1)')
    BY <1>1, <1>4, <2>2, <2>4, RelaysStay, TimelyStays
  <2> QED BY <1>1, <1>4, <1>7, <1>8, <2>2, <2>3, <2>4, <2>5
<1> QED BY <1>9, <1>10, <1>11
\* The JSON stream before its end has no "close".
LEMMA NoCloseYet ==
  ASSUME TypeOK, NEW d \in Nat, d <= Len(sent), Relays(d), mode = "json"
  PROVE  Len(out) = d /\ \A i \in 1..d : out[i] # Close
<1>1. sent \in Seq(EventType) /\ out = SubSeq(sent, 1, d) /\ Len(sent) \in Nat
  BY DEF TypeOK, EventType, Relays
<1>2. Len(out) = d /\ \A i \in 1..d : out[i] = sent[i]
  BY <1>1
<1>3. \A i \in 1..d : sent[i].type # "close"
  BY DEF Relays
<1>4. Close.type = "close"
  BY EventTypes
<1> QED BY <1>2, <1>3, <1>4

LEMMA TimeoutRelays ==
  ASSUME TypeOK, SentInv, RelayInv, TimeoutFires
  PROVE  RelayInv'
<1>1. /\ handler.pc = "select" /\ handler.timer = 0 /\ out' = out \o TimedOut
      /\ UNCHANGED <<mode, sent, client, late>> /\ Returned'
  BY DEF TimeoutFires, Returned, TypeOK
<1>2. PICK m \in 0..Len(sent), p \in 0..2 : Relaying(m, p)
  BY <1>1 DEF RelayInv, Returned
<1> DEFINE d == Told(m, p)
<1>3. d \in Nat /\ d <= Len(sent) /\ Relays(d) /\ (client /\ ~late => Timely(d))
  BY <1>1, <1>2, PlaceBounds DEF Relaying
<1> HIDE DEF d
<1>4. sent \in Seq(EventType) /\ Len(sent) \in Nat /\ DOMAIN sent = 1..Len(sent)
      /\ out \in Seq(EventType) /\ Len(out) \in Nat /\ DOMAIN out = 1..Len(out)
  BY DEF TypeOK, EventType
<1>5. /\ out' \in Seq(EventType) /\ Len(out') = Len(out) + Len(TimedOut)
      /\ \A i \in 1..(Len(out) + Len(TimedOut)) :
            out'[i] = IF i <= Len(out) THEN out[i] ELSE TimedOut[i - Len(out)]
  <2>1. TimedOut \in Seq(EventType) /\ out \in Seq(EventType) /\ out' = Joined(out, TimedOut)
    BY <1>1, <1>4, EventTypes DEF Joined
  <2> QED BY <2>1, JoinedIs
<1> DEFINE l == Len(out)
<1>6. /\ l \in Nat /\ Len(out') = l + 2 /\ DOMAIN out' = 1..(l + 2)
      /\ \A i \in 1..l : out'[i] = out[i]
      /\ out'[l + 1].type = "error" /\ out'[l + 1] # Close /\ out'[l + 2] = Close
  <2>1. /\ l \in Nat /\ Len(out') = l + 2
        /\ \A i \in 1..(l + 2) : out'[i] = IF i <= l THEN out[i] ELSE TimedOut[i - l]
    BY <1>4, <1>5, Endings
  <2>2. DOMAIN out' = 1..Len(out')
    BY <1>5
  <2> HIDE DEF l
  <2>3. /\ l + 1 \in 1..(l + 2) /\ ~(l + 1 <= l) /\ (l + 1) - l = 1
        /\ l + 2 \in 1..(l + 2) /\ ~(l + 2 <= l) /\ (l + 2) - l = 2
        /\ \A i \in 1..l : i \in 1..(l + 2) /\ i <= l
    BY <2>1
  <2>4. out'[l + 1] = TimedOut[1] /\ out'[l + 2] = TimedOut[2] /\ \A i \in 1..l : out'[i] = out[i]
    BY <2>1, <2>3
  <2> QED BY <2>1, <2>2, <2>4, Endings
<1> HIDE DEF l
<1>7. RelayIsPrefix'
  <2>1. d \in 0..Len(sent) /\ out' = Written(SubSeq(sent, 1, d)) \o TimedOut
    BY <1>1, <1>3, <1>4 DEF Relays
  <2> QED BY <1>1, <2>1, PrefixKept
<1>8. EveryStreamConcludes'
  <2>1. l + 1 \in DOMAIN out' /\ out'[Len(out')] = Close
    BY <1>6
  <2>2. out' # <<>>
    <3>1. DOMAIN <<>> = {}
      OBVIOUS
    <3> QED BY <2>1, <3>1
  <2> QED BY <1>6, <2>1, <2>2 DEF EveryStreamConcludes, Last
<1>9. CloseIsTerminal'
  <2> SUFFICES ASSUME mode = "json", NEW i \in DOMAIN out', out'[i] = Close PROVE i = Len(out')
    BY <1>1 DEF CloseIsTerminal
  <2>1. l = d /\ \A j \in 1..l : out[j] # Close
    BY <1>3, NoCloseYet DEF l
  <2>2. i \in 1..l \/ i = l + 1 \/ i = l + 2
    BY <1>6
  <2> QED BY <1>6, <2>1, <2>2
<1>10. ResultIsRelayed'
  <2> DEFINE Scannable(k) == sent[k].type = "result" /\ sent[k].data # "failed_at_length"
  <2> SUFFICES ASSUME Timely(d), NEW i \in 1..Len(sent), Scannable(i)
               PROVE  \E j \in DOMAIN out' : out'[j] = sent[i]
    BY <1>1, <1>3, <1>4 DEF ResultIsRelayed
  <2>1s. sent[i].type = "result" /\ sent[i].data # "failed_at_length"
    OBVIOUS
  <2> HIDE DEF Scannable
  <2> DEFINE n == Len(sent)
  <2>1. i + 1 = n /\ \A k \in DOMAIN sent : sent[k].type \in Ending => k + 1 = n
    BY <1>4, <2>1s DEF SentInv, Ending
  <2>1a. n \in Nat /\ DOMAIN sent = 1..n /\ d \in Nat /\ d <= n
    BY <1>3, <1>4
  <2> HIDE DEF n
  <2>1b. i \in Nat /\ i >= 1
    BY <2>1a
  <2>2. CASE i <= d
    <3>1. i \in 1..d
      BY <2>1a, <2>1b, <2>2
    <3>2. PICK j \in DOMAIN out : out[j] = sent[i]
      BY <3>1, <1>3, <2>1s DEF Relays, Ending
    <3>3. j \in 1..l
      BY <1>4, <3>2 DEF l
    <3>4. j \in DOMAIN out'
      <4>1. l \in Nat /\ DOMAIN out' = 1..(l + 2)
        BY <1>6
      <4> QED BY <3>3, <4>1
    <3> QED BY <1>6, <3>2, <3>3, <3>4
  <2>3. CASE d < i
    <3>1. NoneTooLong
      <4>1. \A k \in DOMAIN sent : k + 1 = n => k = i
        BY <2>1, <2>1a, <2>1b
      <4>2. \A k \in DOMAIN sent : sent[k].data = "failed_at_length" => sent[k].type = "result"
        BY DEF SentInv
      <4> QED BY <2>1, <2>1s, <4>1, <4>2 DEF NoneTooLong, Ending
    <3>2. d < n
      BY <2>1, <2>1a, <2>1b, <2>3
    <3>3. handler.timer > 0
      BY <3>1, <3>2 DEF Timely, n
    <3>4. ~(0 > 0)
      OBVIOUS
    <3> QED BY <1>1, <3>3, <3>4
  <2>4. i <= d \/ d < i
    BY <2>1a, <2>1b
  <2> QED BY <2>2, <2>3, <2>4
<1> QED BY <1>1, <1>7, <1>8, <1>9, <1>10 DEF RelayInv, Kept

LEMMA GoneRelays ==
  ASSUME TypeOK, SentInv, RelayInv, ClientGone
  PROVE  RelayInv'
<1>1. /\ handler.pc = "select" /\ UNCHANGED <<mode, sent, out>> /\ Returned' /\ ~client'
  BY DEF ClientGone, Returned, TypeOK
<1>2. PICK m \in 0..Len(sent), p \in 0..2 : Relaying(m, p)
  BY <1>1 DEF RelayInv, Returned
<1> DEFINE d == Told(m, p)
<1>3. d \in Nat /\ d <= Len(sent) /\ Relays(d)
  BY <1>1, <1>2, PlaceBounds DEF Relaying
<1> HIDE DEF d
<1>4. out \in Seq(EventType) /\ Len(sent) \in Nat /\ DOMAIN out = 1..Len(out)
  BY DEF TypeOK, EventType
<1>5. RelayIsPrefix'
  <2>1. d \in 0..Len(sent) /\ out' = Written(SubSeq(sent, 1, d)) \o <<>>
    BY <1>1, <1>3, <1>4, EmptyJoin DEF Relays
  <2> QED BY <1>1, <2>1, PrefixKept
<1>6. CloseIsTerminal'
  <2>1. mode = "json" => \A i \in DOMAIN out : out[i] # Close
    BY <1>3, <1>4, NoCloseYet
  <2> QED BY <1>1, <2>1 DEF CloseIsTerminal
<1> QED BY <1>1, <1>5, <1>6 DEF RelayInv, Kept, EveryStreamConcludes, ResultIsRelayed

LEMMA LeaveRelays ==
  ASSUME TypeOK, SentInv, RelayInv, ClientLeaves
  PROVE  RelayInv'
<1>1. /\ ~Returned /\ UNCHANGED <<mode, sent, out, wire, scanner, handler>> /\ ~client'
  BY DEF ClientLeaves, Returned, gatewayVars
<1>2. PICK m \in 0..Len(sent), p \in 0..2 : Relaying(m, p)
  BY <1>1 DEF RelayInv
<1>3. Handing' = Handing /\ \A i, j : Place(m, p, i, j)' = Place(m, p, i, j)
  BY <1>1 DEF Handing, Place
<1>4. Taken(m, p)'
  BY <1>1, <1>2, <1>3 DEF Relaying, Taken
<1>5. Told(m, p)' = Told(m, p) /\ Relays(Told(m, p))'
  BY <1>1, <1>2, RelaysStay DEF Relaying, Told
<1>6. Relaying(m, p)'
  BY <1>1, <1>2, <1>4, <1>5 DEF Relaying
<1> QED BY <1>1, <1>6 DEF RelayInv, Returned

LEMMA TickRelays ==
  ASSUME TypeOK, SentInv, RelayInv, Tick
  PROVE  RelayInv'
<1>1. /\ ~Returned /\ UNCHANGED <<mode, sent, out, wire, scanner, client>>
      /\ late' = (late \/ Busy)
      /\ handler'.pc = handler.pc /\ handler'.eventType = handler.eventType
      /\ handler'.timer = (IF handler.timer = 0 THEN 0 ELSE handler.timer - 1)
      /\ upstream'.pc = upstream.pc
      /\ upstream.pc = "loop" =>
           upstream'.quiet = IF upstream.quiet < Timeout THEN upstream.quiet + 1 ELSE upstream.quiet
  BY DEF Tick, Returned, TypeOK
<1>2. PICK m \in 0..Len(sent), p \in 0..2 : Relaying(m, p)
  BY <1>1 DEF RelayInv
<1>3. Handing' = Handing /\ \A i, j : Place(m, p, i, j)' = Place(m, p, i, j)
  BY <1>1 DEF Handing, Place
<1>4. Taken(m, p)'
  BY <1>1, <1>2, <1>3 DEF Relaying, Taken
<1> DEFINE d == Told(m, p)
<1>5. /\ d \in Nat /\ d <= Len(sent) /\ d' = d /\ Relays(d)' /\ Len(sent) \in Nat
      /\ wire = <<>> /\ Handing = 0 => m = Len(sent) /\ p = 0
  BY <1>1, <1>2, RelaysStay, PlaceBounds DEF Relaying, Told
<1>6. handler.pc = "select" /\ client => Scans(d) /\ (~late => Timely(d))
  BY <1>2 DEF Relaying
<1>7. wire = <<>> /\ Handing = 0 => d = Len(sent)
  BY <1>5 DEF Told
<1> HIDE DEF d
<1>8. ASSUME handler.pc = "select", client PROVE Scans(d)' /\ (~late' => Timely(d)')
  <2>1. Scans(d)'
    BY <1>1, <1>6, <1>8 DEF Scans, NoneTooLong
  <2>2. ASSUME ~late', d < Len(sent), NoneTooLong PROVE FALSE
    <3>1. ~Busy
      BY <1>1, <2>2
    <3>2. scanner.pc = "scan" /\ wire = <<>>
      BY <1>5, <1>6, <1>8, <2>2, <3>1 DEF Busy, Scans, TypeOK
    <3>3. d = Len(sent)
      BY <1>7, <3>2 DEF Handing
    <3> QED BY <1>5, <2>2, <3>3
  <2>3. ASSUME ~late', d = Len(sent), upstream.pc = "loop"
        PROVE  handler'.timer + upstream'.quiet >= Timeout
    <3>1. handler.timer # 0 /\ ~late
      BY <1>1, <1>8, <2>3 DEF Busy
    <3>2. handler.timer + upstream.quiet >= Timeout
      BY <1>6, <1>8, <2>3, <3>1 DEF Timely
    <3>3. handler.timer \in 0..Timeout /\ upstream.quiet \in 0..Timeout /\ Timeout \in Nat
      BY RelayAssumption DEF TypeOK
    <3> QED BY <1>1, <2>3, <3>1, <3>2, <3>3
  <2> QED BY <1>1, <2>1, <2>2, <2>3 DEF Timely, NoneTooLong
<1>9. Relaying(m, p)'
  <2>1. Told(m, p)' = d /\ Len(sent') = Len(sent)
    BY <1>1 DEF Told, d
  <2> QED BY <1>1, <1>4, <1>5, <1>8, <2>1 DEF Relaying
<1> QED BY <1>1, <1>9 DEF RelayInv, Returned
LEMMA RelayStays ==
  ASSUME RelayInv, UNCHANGED vars
  PROVE  RelayInv'
<1>1. UNCHANGED <<mode, upstream, sent, wire, scanner, handler, out, client, late>>
  BY DEF vars, gatewayVars
<1>2. CASE Returned
  <2>1. Kept
    BY <1>2 DEF RelayInv
  <2>2. RelayIsPrefix'
    BY <1>1, <2>1 DEF Kept, RelayIsPrefix, Written, Relayed
  <2>3. EveryStreamConcludes' /\ CloseIsTerminal' /\ ResultIsRelayed'
    BY <1>1, <2>1 DEF Kept, EveryStreamConcludes, CloseIsTerminal, ResultIsRelayed, Returned
  <2> QED BY <1>1, <1>2, <2>2, <2>3 DEF RelayInv, Kept, Returned
<1>3. CASE ~Returned
  <2>1. PICK m \in 0..Len(sent), p \in 0..2 : Relaying(m, p)
    BY <1>3 DEF RelayInv
  <2>2. Handing' = Handing /\ \A i, j : Place(m, p, i, j)' = Place(m, p, i, j)
    BY <1>1 DEF Handing, Place
  <2>3. Taken(m, p)'
    BY <1>1, <2>1, <2>2 DEF Relaying, Taken
  <2>4. Told(m, p)' = Told(m, p) /\ Relays(Told(m, p))'
    BY <1>1, <2>1, RelaysStay DEF Relaying, Told
  <2>5. handler'.pc = "select" /\ client' =>
          Scans(Told(m, p))' /\ (~late' => Timely(Told(m, p))')
    BY <1>1, <2>1, TimelyStays DEF Relaying, Scans, NoneTooLong
  <2>6. Relaying(m, p)'
    BY <1>1, <2>1, <2>3, <2>4, <2>5 DEF Relaying
  <2> QED BY <1>1, <1>3, <2>6 DEF RelayInv, Returned
<1> QED BY <1>2, <1>3

LEMMA RelayNext == TypeOK /\ SentInv /\ RelayInv /\ [Next]_vars => RelayInv'
<1> SUFFICES ASSUME TypeOK, SentInv, RelayInv, [Next]_vars PROVE RelayInv'
  OBVIOUS
<1>1. CASE UpstreamStep
  <2>1. ~Returned
    BY <1>1, UpstreamSays DEF Send, Returned
  <2> QED BY <1>1, <2>1, SendRelays
<1>2. CASE Scan
  BY <1>2, KeptStays, ScanRelays
<1>3. CASE Connect \/ Receive \/ TimeoutFires \/ ClientGone
  BY <1>3, ConnectRelays, ReceiveRelays, TimeoutRelays, GoneRelays
<1>4. CASE ClientLeaves \/ Tick
  BY <1>4, LeaveRelays, TickRelays
<1>5. CASE UNCHANGED vars
  BY <1>5, RelayStays
<1> QED BY <1>1, <1>2, <1>3, <1>4, <1>5 DEF Next, GatewayStep

\* The four properties hold of a stream that is relayed, and of one that is over.
LEMMA RelayKeeps == TypeOK /\ RelayInv => Kept
<1> SUFFICES ASSUME TypeOK, RelayInv, ~Returned PROVE Kept
  BY DEF RelayInv
<1>1. PICK m \in 0..Len(sent), p \in 0..2 : Relaying(m, p)
  BY DEF RelayInv
<1> DEFINE d == Told(m, p)
<1>2. d \in Nat /\ d <= Len(sent) /\ Relays(d)
  BY <1>1, PlaceBounds DEF Relaying
<1> HIDE DEF d
<1>3. out \in Seq(EventType) /\ Len(sent) \in Nat /\ DOMAIN out = 1..Len(out)
  BY DEF TypeOK, EventType
<1>4. RelayIsPrefix
  <2>1. d \in 0..Len(sent) /\ out = Written(SubSeq(sent, 1, d)) \o <<>>
    BY <1>2, <1>3, EmptyJoin DEF Relays
  <2> QED BY <2>1 DEF RelayIsPrefix
<1>5. CloseIsTerminal
  <2>1. mode = "json" => \A i \in DOMAIN out : out[i] # Close
    BY <1>2, <1>3, NoCloseYet
  <2> QED BY <2>1 DEF CloseIsTerminal
<1> QED BY <1>4, <1>5 DEF Kept, EveryStreamConcludes, ResultIsRelayed

LEMMA StreamSteps == [NextGateway]_<<vars, frontVars>> => [Next]_vars
BY DEF NextGateway, Next

LEMMA StreamHolds == SpecGateway => [](TypeOK /\ SentInv /\ RelayInv)
<1> DEFINE Inv == TypeOK /\ SentInv /\ RelayInv
<1>1. InitGateway => Inv
  <2>1. Init => SentInv
    <3>1. Init => sent = <<>>
      BY DEF Init
    <3>2. DOMAIN <<>> = {}
      OBVIOUS
    <3>3. \A s : s = <<>> => DOMAIN s = {}
      BY <3>2
    <3>4. Init => DOMAIN sent = {}
      BY <3>1, <3>3, Zenon
    <3> QED BY <3>1, <3>4 DEF SentInv
  <2> QED BY <2>1, TypeInit, RelayInit DEF InitGateway
<1>2. Inv /\ [NextGateway]_<<vars, frontVars>> => Inv'
  BY StreamSteps, TypeNext, SentNext, RelayNext
<1> HIDE DEF Inv
<1>3. SpecGateway => []Inv
  BY <1>1, <1>2, PTL DEF SpecGateway
<1> QED BY <1>3 DEF Inv

\* The handler, the goroutine and the job service keep to their states, whatever is sent
\* and whoever breaks off (cmd/gateway/sse.go).
THEOREM GatewayTyped == SpecGateway => []TypeOK
BY StreamHolds, PTL

\* For any number of events, in both formats: what a client reads is a part of what the job
\* service said, from its beginning, and at most one ending of the gateway (sse.go:54-87).
THEOREM RelaysAsSent == SpecGateway => []RelayIsPrefix
<1>1. TypeOK /\ RelayInv => RelayIsPrefix
  BY RelayKeeps DEF Kept
<1> QED BY <1>1, StreamHolds, PTL

\* A client that stays reads a result or an error, and "close" as the last event of a stream
\* that is over (sse.go:45-87).
THEOREM StreamsConclude == SpecGateway => []EveryStreamConcludes
<1>1. TypeOK /\ RelayInv => EveryStreamConcludes
  BY RelayKeeps DEF Kept
<1> QED BY <1>1, StreamHolds, PTL

\* Nothing follows "close" on a JSON stream (sse.go:69-76).
THEOREM CloseEnds == SpecGateway => []CloseIsTerminal
<1>1. TypeOK /\ RelayInv => CloseIsTerminal
  BY RelayKeeps DEF Kept
<1> QED BY <1>1, StreamHolds, PTL

\* With any timeout, which is that of both services: when nobody is late, no client is told of
\* a timeout instead of a result that can be scanned (sse.go:45-83).
THEOREM ResultsRelayed == SpecGateway => []ResultIsRelayed
<1>1. TypeOK /\ RelayInv => ResultIsRelayed
  BY RelayKeeps DEF Kept
<1> QED BY <1>1, StreamHolds, PTL
-----------------------------------------------------------------------------
(***************************************************************************)
(* Splitting at commas is a fold, whose function exists: the largest index *)
(* is folded last.                                                         *)
(***************************************************************************)
Step(s, token) ==
  IF token = "," /\ s.depth = 0 THEN [s EXCEPT !.parts = Append(@, <<>>)]
  ELSE [depth |-> s.depth + Depth(token),
        parts |-> Append(Front(s.parts), Append(Last(s.parts), token))]
Start == [depth |-> 0, parts |-> <<<<>>>>]
Splits(f, D, item) ==
  f = [s \in SUBSET D |-> IF s = {} THEN Start ELSE Step(f[s \ {Max(s)}], item[Max(s)])]

LEMMA SplitIs ==
  ASSUME NEW item
  PROVE  SplitBracketAware(item) = (CHOOSE f : Splits(f, DOMAIN item, item))[DOMAIN item].parts
BY DEF SplitBracketAware, FoldLeft, MapThenFoldSet, Splits, Step, Start

LEMMA SplitsExist ==
  ASSUME NEW item, NEW n \in Nat
  PROVE  \E f : Splits(f, 1..n, item)
<1> DEFINE T == {k \in Nat : \E f : Splits(f, 1..k, item)}
<1>1. 0 \in T
  <2>1. SUBSET (1..0) = {{}}
    OBVIOUS
  <2>2. Splits([s \in SUBSET (1..0) |-> Start], 1..0, item)
    BY <2>1 DEF Splits
  <2> QED BY <2>2
<1>2. ASSUME NEW k \in Nat, k \in T PROVE k + 1 \in T
  <2>1. PICK f : Splits(f, 1..k, item)
    BY <1>2
  <2> DEFINE j == k + 1
             g == [s \in SUBSET (1..j) |-> IF j \in s THEN Step(f[s \ {j}], item[j]) ELSE f[s]]
  <2>2. j \in Nat /\ \A s \in SUBSET (1..j) : /\ s \ {j} \in SUBSET (1..k)
                                              /\ j \notin s => s \in SUBSET (1..k)
    OBVIOUS
  <2> HIDE DEF j
  <2>3. ASSUME NEW s \in SUBSET (1..j)
        PROVE  g[s] = IF s = {} THEN Start ELSE Step(g[s \ {Max(s)}], item[Max(s)])
    <3>1. CASE j \in s
      <4>1. Max(s) = j
        BY <2>2, <3>1, LargestIs
      <4>2. s \ {j} \in SUBSET (1..j) /\ j \notin s \ {j}
        OBVIOUS
      <4>3. g[s \ {j}] = f[s \ {j}]
        BY <4>2
      <4>4. g[s] = Step(f[s \ {j}], item[j])
        BY <3>1
      <4> HIDE DEF g
      <4> QED BY <3>1, <4>1, <4>3, <4>4
    <3>2. CASE j \notin s
      <4>1. s \in SUBSET (1..k) /\ s \ {Max(s)} \in SUBSET (1..k) /\ s \ {Max(s)} \in SUBSET (1..j)
        BY <2>2, <3>2
      <4>2. f[s] = IF s = {} THEN Start ELSE Step(f[s \ {Max(s)}], item[Max(s)])
        BY <2>1, <4>1 DEF Splits
      <4>3. g[s] = f[s] /\ g[s \ {Max(s)}] = f[s \ {Max(s)}]
        BY <3>2, <4>1
      <4> HIDE DEF g
      <4> QED BY <4>2, <4>3
    <3> QED BY <3>1, <3>2
  <2>4. g = [s \in SUBSET (1..j) |-> g[s]]
    OBVIOUS
  <2> HIDE DEF g
  <2>5. g = [s \in SUBSET (1..j) |->
               IF s = {} THEN Start ELSE Step(g[s \ {Max(s)}], item[Max(s)])]
    BY <2>3, <2>4
  <2>6. Splits(g, 1..j, item)
    BY <2>5 DEF Splits
  <2> QED BY <2>2, <2>6 DEF j
<1> HIDE DEF T
<1>3. n \in T
  BY <1>1, <1>2, Induction
<1> QED BY <1>3 DEF T

LEMMA Appended ==
  ASSUME NEW A, NEW t \in Seq(A), NEW x \in A
  PROVE  Append(t, x) \in Seq(A) /\ Append(t, x) # <<>>
<1> DEFINE longer == Append(t, x)
<1>1. longer \in Seq(A) /\ Len(longer) = Len(t) + 1 /\ Len(t) \in Nat
  OBVIOUS
<1> HIDE DEF longer
<1>2. longer # <<>>
  BY <1>1
<1> QED BY <1>1, <1>2 DEF longer

\* One token more adds to the last part, or begins another.
LEMMA StepType ==
  ASSUME NEW S, NEW s \in [depth : Int, parts : Seq(Seq(S))], s.parts # <<>>, NEW token \in S
  PROVE  Step(s, token) \in [depth : Int, parts : Seq(Seq(S))] /\ Step(s, token).parts # <<>>
<1> DEFINE parts == s.parts
<1>1. parts \in Seq(Seq(S)) /\ parts # <<>> /\ s.depth \in Int /\ Depth(token) \in Int
  BY DEF Depth
<1>2. Append(parts, <<>>) \in Seq(Seq(S)) /\ Append(parts, <<>>) # <<>>
  BY <1>1
<1>3. Last(parts) \in Seq(S) /\ Front(parts) \in Seq(Seq(S))
  BY <1>1 DEF Last, Front
<1>4. Append(Last(parts), token) \in Seq(S)
  BY <1>3
<1> DEFINE longer == Append(Front(parts), Append(Last(parts), token))
<1>5. longer \in Seq(Seq(S)) /\ longer # <<>>
  <2> HIDE DEF parts
  <2> QED BY <1>3, <1>4, Appended
<1>6. CASE token = "," /\ s.depth = 0
  <2>1. Step(s, token) = [s EXCEPT !.parts = Append(parts, <<>>)]
    BY <1>6 DEF Step
  <2> HIDE DEF parts
  <2> QED BY <1>2, <2>1
<1>7. CASE ~(token = "," /\ s.depth = 0)
  <2>1. Step(s, token) = [depth |-> s.depth + Depth(token), parts |-> longer]
    BY <1>7 DEF Step
  <2>2. s.depth + Depth(token) \in Int
    BY <1>1
  <2> HIDE DEF longer
  <2> QED BY <1>5, <2>1, <2>2
<1> QED BY <1>6, <1>7

LEMMA SplitType ==
  ASSUME NEW S, NEW item \in Seq(S)
  PROVE  SplitBracketAware(item) \in Seq(Seq(S))
<1> DEFINE n == Len(item)
           f == CHOOSE h : Splits(h, 1..n, item)
           Record == [depth : Int, parts : Seq(Seq(S))]
<1>1. n \in Nat /\ DOMAIN item = 1..n /\ \A i \in 1..n : item[i] \in S
  OBVIOUS
<1>2. Splits(f, 1..n, item)
  BY <1>1, SplitsExist
<1>3. SplitBracketAware(item) = f[1..n].parts
  BY <1>1, SplitIs
<1> HIDE DEF n, f
<1> DEFINE T == {k \in Nat : k <= n => f[1..k] \in Record /\ f[1..k].parts # <<>>}
<1>4. 0 \in T
  <2>1. 1..0 = {} /\ {} \in SUBSET (1..n)
    OBVIOUS
  <2>2. f[{}] = Start
    BY <1>2, <2>1 DEF Splits
  <2>3. Start \in Record /\ Start.parts # <<>>
    BY DEF Start
  <2> HIDE DEF Record
  <2>4. f[1..0] \in Record /\ f[1..0].parts # <<>>
    BY <2>1, <2>2, <2>3
  <2> QED BY <2>4
<1>5. ASSUME NEW k \in Nat, k \in T PROVE k + 1 \in T
  <2> DEFINE j == k + 1
  <2> SUFFICES ASSUME j <= n PROVE f[1..j] \in Record /\ f[1..j].parts # <<>>
    OBVIOUS
  <2>1. /\ j \in Nat /\ j \in 1..n /\ j \in 1..j /\ 1..j \in SUBSET (1..n) /\ 1..j # {}
        /\ (1..j) \ {j} = 1..k /\ k <= n
    <3>1. j \in Nat /\ j \in 1..n /\ j \in 1..j /\ k <= n
      BY <1>1
    <3>2. \A x \in 1..j : x \in 1..n
      BY <1>1
    <3>3. \A x : x \in (1..j) \ {j} <=> x \in 1..k
      OBVIOUS
    <3> HIDE DEF j
    <3>4. (1..j) \ {j} = 1..k
      BY <3>3
    <3> QED BY <3>1, <3>2, <3>4
  <2> HIDE DEF j
  <2>2. Max(1..j) = j
    BY <2>1, LargestIs
  <2>3. f[1..j] = Step(f[(1..j) \ {Max(1..j)}], item[Max(1..j)])
    BY <1>2, <2>1 DEF Splits
  <2>4. f[1..j] = Step(f[1..k], item[j])
    BY <2>1, <2>2, <2>3
  <2>5. f[1..k] \in Record /\ f[1..k].parts # <<>>
    BY <1>5, <2>1
  <2> QED BY <1>1, <2>1, <2>4, <2>5, StepType
<1> HIDE DEF T
<1>6. n \in T
  BY <1>1, <1>4, <1>5, Induction
<1>7. f[1..n] \in Record
  BY <1>1, <1>6 DEF T
<1> QED BY <1>3, <1>7

LEMMA SplitNone == SplitBracketAware(<<>>) = <<<<>>>>
<1>1. DOMAIN <<>> = 1..0 /\ 1..0 = {}
  OBVIOUS
<1> DEFINE f == CHOOSE h : Splits(h, 1..0, <<>>)
<1>2. Splits(f, 1..0, <<>>)
  <2>1. 0 \in Nat
    OBVIOUS
  <2> QED BY <2>1, SplitsExist
<1>3. SplitBracketAware(<<>>) = f[1..0].parts
  BY <1>1, SplitIs
<1> HIDE DEF f
<1>4. f[{}] = Start
  BY <1>2 DEF Splits
<1> QED BY <1>1, <1>3, <1>4 DEF Start
-----------------------------------------------------------------------------
(* Items with nothing left make no difference to what is read. *)
LEMMA ListOf ==
  ASSUME NEW B, NEW n \in Nat, NEW f \in [1..n -> B]
  PROVE  f \in Seq(B)
OBVIOUS

Shown(item) == IF item = <<>> THEN <<>> ELSE <<item>>

LEMMA NothingRead == Nonblank(<<>>) = <<>> /\ Expanded(<<>>) = <<>>
<1>1. FlattenSeq(<<>>) = <<>>
  BY DEF FlattenSeq
<1>2. Nonblank(<<>>) = <<>>
  BY <1>1 DEF Nonblank
<1>3. [i \in DOMAIN <<>> |-> SplitBracketAware(<<>>[i])] = <<>>
  OBVIOUS
<1> QED BY <1>1, <1>2, <1>3 DEF Expanded

LEMMA NonblankAppend ==
  ASSUME NEW S, NEW items \in Seq(Seq(S)), NEW x \in Seq(S)
  PROVE  /\ Nonblank(items) \in Seq(Seq(S))
         /\ Nonblank(Append(items, x)) = Nonblank(items) \o Shown(x)
         /\ Shown(x) \in Seq(Seq(S))
<1> DEFINE M(l) == [i \in DOMAIN l |-> Shown(l[i])]
<1>1. \A l : Nonblank(l) = FlattenSeq(M(l))
  BY DEF Nonblank, Shown
<1>2. \A l \in Seq(S) : Shown(l) \in Seq(Seq(S))
  <2>1. <<>> \in Seq(Seq(S))
    OBVIOUS
  <2>2. \A l \in Seq(S) : <<l>> \in Seq(Seq(S))
    OBVIOUS
  <2> QED BY <2>1, <2>2 DEF Shown
<1>3. M(Append(items, x)) = Append(M(items), Shown(x))
  OBVIOUS
<1> DEFINE A == Seq(S)
<1>4. items \in Seq(A) /\ x \in A /\ \A l \in A : Shown(l) \in Seq(A)
  BY <1>2
<1> HIDE DEF A
<1>5. M(items) \in Seq(Seq(A)) /\ Shown(x) \in Seq(A)
  <2>1. \A i \in 1..Len(items) : items[i] \in A /\ Shown(items[i]) \in Seq(A)
    BY <1>4
  <2>2. Len(items) \in Nat /\ DOMAIN items = 1..Len(items)
    BY <1>4
  <2>3. M(items) \in [1..Len(items) -> Seq(A)]
    BY <2>1, <2>2
  <2> HIDE DEF M
  <2> QED BY <1>4, <2>2, <2>3, ListOf
<1> HIDE DEF M
<1>6. FlattenSeq(M(items)) \in Seq(A)
  BY <1>5, FlattenType
<1>7. FlattenSeq(Append(M(items), Shown(x))) = FlattenSeq(M(items)) \o Shown(x)
  BY <1>5, FlattenAppend
<1> QED BY <1>1, <1>3, <1>5, <1>6, <1>7 DEF A

LEMMA AppendToJoin ==
  ASSUME NEW A, NEW s \in Seq(A), NEW t \in Seq(A), NEW x \in A
  PROVE  s \o Append(t, x) = Append(s \o t, x)
OBVIOUS

LEMMA JoinAssociates ==
  ASSUME NEW A, NEW s \in Seq(A), NEW t \in Seq(A), NEW u \in Seq(A)
  PROVE  (s \o t) \o u = s \o (t \o u) /\ s \o t \in Seq(A)
OBVIOUS

LEMMA PartsOf ==
  ASSUME NEW A, NEW s \in Seq(A)
  PROVE  /\ SubSeq(s, 1, 0) = <<>> /\ SubSeq(s, 1, Len(s)) = s /\ Len(s) \in Nat
         /\ \A n \in Nat : n < Len(s) =>
              /\ SubSeq(s, 1, n) \in Seq(A) /\ s[n + 1] \in A
              /\ SubSeq(s, 1, n + 1) = Append(SubSeq(s, 1, n), s[n + 1])
OBVIOUS

LEMMA NonblankJoin ==
  ASSUME NEW S, NEW a \in Seq(Seq(S)), NEW b \in Seq(Seq(S))
  PROVE  Nonblank(a \o b) = Nonblank(a) \o Nonblank(b)
<1> DEFINE A == Seq(S)
           part(n) == SubSeq(b, 1, n)
           T == {n \in Nat : n <= Len(b) => Nonblank(a \o part(n)) = Nonblank(a) \o Nonblank(part(n))}
<1>1. a \in Seq(A) /\ b \in Seq(A) /\ Nonblank(a) \in Seq(A)
  BY NonblankAppend
<1>2. /\ part(0) = <<>> /\ part(Len(b)) = b /\ Len(b) \in Nat
      /\ \A n \in Nat : n < Len(b) =>
           part(n) \in Seq(A) /\ b[n + 1] \in A /\ part(n + 1) = Append(part(n), b[n + 1])
  BY <1>1, PartsOf
<1>3. 0 \in T
  <2>1. a \o <<>> = a /\ Nonblank(a) \o <<>> = Nonblank(a)
    BY <1>1, EmptyJoin
  <2> QED BY <1>2, <2>1, NothingRead
<1>4. ASSUME NEW n \in Nat, n \in T PROVE n + 1 \in T
  <2> SUFFICES ASSUME n + 1 <= Len(b)
               PROVE  Nonblank(a \o part(n + 1)) = Nonblank(a) \o Nonblank(part(n + 1))
    OBVIOUS
  <2> DEFINE p == part(n)
             x == b[n + 1]
  <2>1. n < Len(b) /\ n <= Len(b)
    BY <1>2
  <2>2. p \in Seq(A) /\ x \in A /\ part(n + 1) = Append(p, x)
    BY <1>2, <2>1
  <2>3. Nonblank(a \o p) = Nonblank(a) \o Nonblank(p)
    BY <1>4, <2>1
  <2> HIDE DEF p, x, part
  <2>4. a \o Append(p, x) = Append(a \o p, x)
    <3>1. a \in Seq(A) /\ p \in Seq(A) /\ x \in A
      BY <1>1, <2>2
    <3> HIDE DEF A
    <3> QED BY <3>1, AppendToJoin
  <2>5. a \o p \in Seq(A)
    BY <1>1, <2>2
  <2>6. /\ Nonblank(p) \in Seq(A) /\ Shown(x) \in Seq(A)
        /\ Nonblank(Append(p, x)) = Nonblank(p) \o Shown(x)
        /\ Nonblank(Append(a \o p, x)) = Nonblank(a \o p) \o Shown(x)
    BY <2>2, <2>5, NonblankAppend
  <2>7. (Nonblank(a) \o Nonblank(p)) \o Shown(x) = Nonblank(a) \o (Nonblank(p) \o Shown(x))
    <3> DEFINE s == Nonblank(a)
               t == Nonblank(p)
               u == Shown(x)
    <3>1. s \in Seq(A) /\ t \in Seq(A) /\ u \in Seq(A)
      BY <1>1, <2>6
    <3> HIDE DEF A, s, t, u
    <3>2. (s \o t) \o u = s \o (t \o u)
      BY <3>1, JoinAssociates, SMTT(30)
    <3> QED BY <3>2 DEF s, t, u
  <2> QED BY <2>2, <2>3, <2>4, <2>6, <2>7
<1> HIDE DEF T
<1>5. Len(b) \in T
  BY <1>2, <1>3, <1>4, Induction
<1>6. Len(b) <= Len(b)
  BY <1>2
<1> QED BY <1>2, <1>5, <1>6 DEF T

LEMMA ExpandAppend ==
  ASSUME NEW S, NEW items \in Seq(Seq(S)), NEW x \in Seq(S)
  PROVE  /\ Expanded(items) \in Seq(Seq(S))
         /\ Expanded(Append(items, x)) = Expanded(items) \o Nonblank(SplitBracketAware(x))
<1> DEFINE A == Seq(S)
           M(l) == [i \in DOMAIN l |-> SplitBracketAware(l[i])]
           whole == FlattenSeq(M(items))
           parts == SplitBracketAware(x)
<1>1. \A l : Expanded(l) = Nonblank(FlattenSeq(M(l)))
  BY DEF Expanded
<1>2. \A l \in A : SplitBracketAware(l) \in Seq(A)
  BY SplitType
<1>3. M(items) \in Seq(Seq(A))
  <2>1. items \in Seq(A)
    OBVIOUS
  <2> HIDE DEF A
  <2>2. \A i \in 1..Len(items) : items[i] \in A /\ SplitBracketAware(items[i]) \in Seq(A)
    BY <1>2, <2>1
  <2>3. Len(items) \in Nat /\ DOMAIN items = 1..Len(items)
    BY <2>1
  <2>4. M(items) \in [1..Len(items) -> Seq(A)]
    BY <2>2, <2>3
  <2> HIDE DEF M
  <2> QED BY <2>3, <2>4, ListOf
<1>4. M(Append(items, x)) = Append(M(items), parts)
  OBVIOUS
<1>5. parts \in Seq(A)
  BY <1>2
<1> HIDE DEF M, A, parts
<1>6. whole \in Seq(A)
  BY <1>3, FlattenType
<1>7. FlattenSeq(Append(M(items), parts)) = whole \o parts
  BY <1>3, <1>5, FlattenAppend
<1> HIDE DEF whole
<1>8. Nonblank(whole \o parts) = Nonblank(whole) \o Nonblank(parts)
  BY <1>5, <1>6, NonblankJoin DEF A
<1>9. Nonblank(whole) \in Seq(A)
  <2>1. <<>> \in Seq(S)
    OBVIOUS
  <2> QED BY <1>6, <2>1, NonblankAppend DEF A
<1> QED BY <1>1, <1>4, <1>7, <1>8, <1>9 DEF A, whole, parts

\* A form and a JSON list of the same lines are read as the same values.
LEMMA BlanksAreNothing ==
  ASSUME NEW S, NEW items \in Seq(Seq(S))
  PROVE  Expanded(Nonblank(items)) = Expanded(items)
<1> DEFINE A == Seq(S)
           part(n) == SubSeq(items, 1, n)
           T == {n \in Nat : n <= Len(items) => Expanded(Nonblank(part(n))) = Expanded(part(n))}
<1>1. items \in Seq(A)
  OBVIOUS
<1>2. /\ part(0) = <<>> /\ part(Len(items)) = items /\ Len(items) \in Nat
      /\ \A n \in Nat : n < Len(items) =>
           /\ part(n) \in Seq(A) /\ items[n + 1] \in A
           /\ part(n + 1) = Append(part(n), items[n + 1])
  BY <1>1, PartsOf
<1>3. 0 \in T
  BY <1>2, NothingRead
<1>4. ASSUME NEW n \in Nat, n \in T PROVE n + 1 \in T
  <2> SUFFICES ASSUME n + 1 <= Len(items)
               PROVE  Expanded(Nonblank(part(n + 1))) = Expanded(part(n + 1))
    OBVIOUS
  <2> DEFINE p == part(n)
             x == items[n + 1]
  <2>1. n < Len(items) /\ n <= Len(items)
    BY <1>2
  <2>2. p \in Seq(A) /\ x \in A /\ part(n + 1) = Append(p, x)
    BY <1>2, <2>1
  <2>3. Expanded(Nonblank(p)) = Expanded(p)
    BY <1>4, <2>1
  <2> HIDE DEF p, x, part
  <2>4. /\ Nonblank(p) \in Seq(A)
        /\ Nonblank(Append(p, x)) = Nonblank(p) \o Shown(x)
    BY <2>2, NonblankAppend
  <2>5. /\ Expanded(p) \in Seq(A)
        /\ Expanded(Append(p, x)) = Expanded(p) \o Nonblank(SplitBracketAware(x))
        /\ Expanded(Append(Nonblank(p), x)) = Expanded(Nonblank(p)) \o Nonblank(SplitBracketAware(x))
    BY <2>2, <2>4, ExpandAppend
  <2>6. CASE x = <<>>
    <3>1. Nonblank(p) \o Shown(x) = Nonblank(p)
      BY <2>4, <2>6, EmptyJoin DEF Shown
    <3>2. Nonblank(SplitBracketAware(x)) = <<>>
      <4>1. <<>> \in Seq(Seq(S)) /\ <<>> \in Seq(S) /\ Append(<<>>, <<>>) = <<<<>>>>
        OBVIOUS
      <4>2. Nonblank(Append(<<>>, <<>>)) = Nonblank(<<>>) \o Shown(<<>>)
        BY <4>1, NonblankAppend
      <4>3. <<>> \o <<>> = <<>> /\ Shown(<<>>) = <<>>
        BY DEF Shown
      <4> QED BY <2>6, <4>1, <4>2, <4>3, SplitNone, NothingRead
    <3>3. Expanded(p) \o <<>> = Expanded(p)
      BY <2>5, EmptyJoin
    <3> QED BY <2>2, <2>3, <2>4, <2>5, <3>1, <3>2, <3>3
  <2>7. CASE x # <<>>
    <3>1. \A s \in Seq(A), y \in A : s \o <<y>> = Append(s, y)
      OBVIOUS
    <3>2. Nonblank(p) \o Shown(x) = Append(Nonblank(p), x)
      BY <2>2, <2>4, <2>7, <3>1 DEF Shown
    <3> QED BY <2>2, <2>3, <2>4, <2>5, <3>2
  <2> QED BY <2>6, <2>7
<1> HIDE DEF T
<1>5. Len(items) \in T
  BY <1>2, <1>3, <1>4, Induction
<1>6. Len(items) <= Len(items)
  BY <1>2
<1> QED BY <1>2, <1>5, <1>6 DEF T
-----------------------------------------------------------------------------
(* Requests *)

\* A client that wrote something that is refused.
Wrong ==
  ~Ask.valid \/ Meaning(Ask.text.lines) = <<>> \/ Ask.order = "sideways" \/ GrowsTooLarge

\* What is accepted is what the splitter of the job service makes of the lines of the client.
AcceptedIsWhatIsSplit ==
  job # NoJob =>
    Ask.valid /\ job.list = Expanded(Ask.text.lines) /\ job.order = OrAscending(Ask.order)

\* The call of a submission, as the gateway makes it.
CallIsAsAsked ==
  /\ Ask.valid
  /\ service.list = (IF mode = "html" THEN Nonblank(Ask.text.lines) ELSE Ask.text.lines)
  /\ service.order \in {Ask.order, OrAscending(Ask.order)}

\* What the job service has done, and what it replied.
ReplyIsTrue ==
  \/ service.reply.status = 201 /\ service.reply.body = "id" /\ job # NoJob
  \/ service.reply.status = 500 /\ service.reply.body = "failed"
  \/ service.reply.status = 400 /\ service.reply.body = "refused" /\ job = NoJob /\ Wrong

SubmitInv ==
  /\ front.pc = "new" => service.pc = "idle" /\ job = NoJob
  /\ service.pc = "asked" => job = NoJob /\ CallIsAsAsked
  /\ service.pc = "replied" => ReplyIsTrue
  /\ front.pc = "waiting" => service.pc # "idle"
  /\ front.pc = "answered" =>
       /\ answer.body = "id" => job # NoJob
       /\ answer.body = "refused" => job = NoJob /\ service.pc # "asked" /\ Wrong

FrontInv ==
  /\ Ask \in Requests /\ front = [pc |-> front.pc, request |-> Ask]
  /\ front.pc \in {"new", "waiting", "answered", "stream"}
  /\ service.pc \in {"idle", "asked", "replied"}
  /\ service = [pc |-> service.pc, list |-> service.list, order |-> service.order,
                reply |-> service.reply]
  /\ Ask.kind = "submit" => SubmitInv
  /\ Ask.kind # "submit" => job = NoJob
  /\ AcceptedIsWhatIsSplit
Unlisted(k, v) == [NoRequest EXCEPT !.kind = k, !.valid = v]
Listing ==
  [kind : {"submit"}, text : {text \in Submissions : SizeWritten(text.lines) <= MaxBody},
   order : AskedOrders, valid : {TRUE}]
LEMMA TheRequests ==
  Requests = Listing \cup {Unlisted(k, v) : k \in Kinds, v \in BOOLEAN}
BY DEF Requests, Listing, Unlisted

LEMMA RequestIs ==
  ASSUME NEW r \in Requests
  PROVE  /\ r.kind \in Kinds /\ r.order \in AskedOrders /\ r.valid \in BOOLEAN
         /\ r.text \in Submissions \/ (r.text.lines = <<>> /\ r.text.meant = <<>>)
<1>1. CASE r \in Listing
  BY <1>1 DEF Kinds, Listing
<1>2. CASE \E k \in Kinds, v \in BOOLEAN : r = Unlisted(k, v)
  <2>1. PICK k \in Kinds, v \in BOOLEAN : r = Unlisted(k, v)
    BY <1>2
  <2>2. r.kind = k /\ r.valid = v /\ r.order = "" /\ r.text = [lines |-> <<>>, meant |-> <<>>]
    BY <2>1 DEF NoRequest, Unlisted
  <2>3. r.text.lines = <<>> /\ r.text.meant = <<>>
    <3> DEFINE empty == [lines |-> <<>>, meant |-> <<>>]
    <3>1. empty.lines = <<>> /\ empty.meant = <<>>
      OBVIOUS
    <3> HIDE DEF empty
    <3>2. r.text = empty
      BY <2>2 DEF empty
    <3> QED BY <3>1, <3>2, Zenon
  <2>4. r.kind \in Kinds /\ r.valid \in BOOLEAN /\ r.order \in AskedOrders
    BY <2>2, Zenon DEF AskedOrders
  <2> QED BY <2>3, <2>4
<1>3. \/ r \in Listing
      \/ \E k \in Kinds, v \in BOOLEAN : r = Unlisted(k, v)
  BY TheRequests
<1> QED BY <1>1, <1>2, <1>3

\* The blank lines that the gateway drops from a form say nothing.
WrittenIn(Tokens) == \A text \in Submissions : text.lines \in Seq(Seq(Tokens))
LEMMA ReadAlike ==
  ASSUME NEW Tokens, WrittenIn(Tokens), NEW r \in Requests,
         NEW items \in {r.text.lines, Nonblank(r.text.lines)}
  PROVE  Expanded(items) = Expanded(r.text.lines) /\ Meaning(items) = Meaning(r.text.lines)
<1> DEFINE lines == r.text.lines
<1>1. Expanded(Nonblank(lines)) = Expanded(lines)
  <2>1. CASE r.text \in Submissions
    BY <2>1, BlanksAreNothing DEF WrittenIn
  <2>2. CASE lines = <<>>
    BY <2>2, NothingRead
  <2> QED BY <2>1, <2>2, RequestIs
<1>2. Expanded(<<>>) = <<>>
  BY NothingRead
<1> HIDE DEF lines
<1>3. \A l : Listed(l) <=> Expanded(l) # <<>> /\ Range(Expanded(l)) \subseteq Values
  BY <1>2 DEF Listed
<1>4. Meaning(Nonblank(lines)) = Meaning(lines)
  BY <1>1, <1>3 DEF Meaning
<1> QED BY <1>1, <1>4 DEF lines

LEMMA AscendingTwice ==
  \A order : OrAscending(OrAscending(order)) = OrAscending(order)
BY DEF OrAscending

LEMMA FrontInit == InitGateway => FrontInv
<1> SUFFICES ASSUME InitGateway PROVE FrontInv
  OBVIOUS
<1>1. PICK r \in Requests : front = [pc |-> "new", request |-> r]
  BY DEF InitGateway
<1>2. Ask = r /\ front.pc = "new"
  BY <1>1 DEF Ask
<1>3. /\ service.pc = "idle" /\ job = NoJob
      /\ service = [pc |-> service.pc, list |-> service.list, order |-> service.order,
                    reply |-> service.reply]
  BY DEF InitGateway, Idle
<1> QED BY <1>1, <1>2, <1>3 DEF FrontInv, SubmitInv, AcceptedIsWhatIsSplit

\* The call goes out, or the gateway answers by itself.
LEMMA RequestKeeps ==
  ASSUME NEW Tokens, WrittenIn(Tokens), FrontInv, UNCHANGED mode, SubmitForm \/ SubmitJSON \/ Forward
  PROVE  FrontInv'
<1>1. /\ front.pc = "new" /\ UNCHANGED job
      /\ Ask \in Requests /\ front = [pc |-> front.pc, request |-> Ask]
  BY DEF SubmitForm, SubmitJSON, Forward, FrontInv
<1>2. job = NoJob
  BY <1>1 DEF FrontInv, SubmitInv
<1>3. ASSUME NEW list, NEW order, Call(list, order),
             Ask.kind = "submit" =>
               /\ Ask.valid /\ order \in {Ask.order, OrAscending(Ask.order)}
               /\ list = (IF mode = "html" THEN Nonblank(Ask.text.lines) ELSE Ask.text.lines)
      PROVE  FrontInv'
  <2>1. front'.pc = "waiting" /\ Ask' = Ask /\ front' = [pc |-> "waiting", request |-> Ask]
    BY <1>1, <1>3 DEF Call, AtPC, Ask
  <2>2. /\ service'.pc = "asked" /\ service'.list = list /\ service'.order = order
        /\ service' = [pc |-> service'.pc, list |-> service'.list, order |-> service'.order,
                       reply |-> service'.reply]
    BY <1>3 DEF Call, Idle
  <2>3. Ask.kind = "submit" => CallIsAsAsked'
    BY <1>3, <2>1, <2>2 DEF CallIsAsAsked
  <2>4. Ask.kind = "submit" => SubmitInv'
    BY <1>1, <1>2, <2>1, <2>2, <2>3 DEF SubmitInv
  <2> QED BY <1>1, <1>2, <2>1, <2>2, <2>4 DEF FrontInv, AcceptedIsWhatIsSplit
<1>4. ASSUME NEW status, Answer(Reply(status, "refused")), UNCHANGED service,
             Ask.kind = "submit", Wrong
      PROVE  FrontInv'
  <2>1. front'.pc = "answered" /\ Ask' = Ask /\ front' = [pc |-> "answered", request |-> Ask]
    BY <1>1, <1>4 DEF Answer, AtPC, Ask
  <2>2. answer'.body = "refused" /\ service.pc = "idle"
    BY <1>1, <1>4 DEF Answer, Reply, FrontInv, SubmitInv
  <2>3. Wrong'
    BY <1>1, <1>4, <2>1 DEF Wrong, GrowsTooLarge
  <2>4. SubmitInv'
    BY <1>1, <1>2, <1>4, <2>1, <2>2, <2>3 DEF SubmitInv
  <2> QED BY <1>1, <1>2, <1>4, <2>1, <2>2, <2>4 DEF FrontInv, AcceptedIsWhatIsSplit
<1>5. CASE SubmitForm
  <2> DEFINE lines == Nonblank(Ask.text.lines)
  <2>1. /\ Ask.kind = "submit" /\ mode = "html"
        /\ \/ Ask.valid /\ lines # <<>> /\ Call(lines, FormOrder(Ask.order))
           \/ ~(Ask.valid /\ lines # <<>>) /\ Answer(Reply(200, "refused")) /\ UNCHANGED service
    BY <1>5 DEF SubmitForm
  <2>2. lines = <<>> => ~Listed(lines)
    BY DEF Listed
  <2>3. Meaning(Ask.text.lines) = Meaning(lines)
    BY <1>1, ReadAlike
  <2> HIDE DEF lines
  <2>4. CASE Ask.valid /\ Call(lines, FormOrder(Ask.order))
    BY <1>3, <2>1, <2>4 DEF lines, FormOrder
  <2>5. CASE ~(Ask.valid /\ lines # <<>>) /\ Answer(Reply(200, "refused")) /\ UNCHANGED service
    <3>1. Wrong
      BY <2>2, <2>3, <2>5 DEF Wrong, Meaning
    <3> QED BY <1>4, <2>1, <2>5, <3>1
  <2> QED BY <2>1, <2>4, <2>5
<1>6. CASE SubmitJSON
  <2>1. /\ Ask.kind = "submit" /\ mode = "json" /\ mode # "html"
        /\ \/ Ask.valid /\ Call(Ask.text.lines, Ask.order)
           \/ ~Ask.valid /\ Answer(Reply(400, "refused")) /\ UNCHANGED service
    BY <1>6 DEF SubmitJSON
  <2>2. CASE Ask.valid /\ Call(Ask.text.lines, Ask.order)
    BY <1>3, <2>1, <2>2
  <2>3. CASE ~Ask.valid /\ Answer(Reply(400, "refused")) /\ UNCHANGED service
    BY <1>4, <2>1, <2>3 DEF Wrong
  <2> QED BY <2>1, <2>2, <2>3
<1>7. CASE Forward
  BY <1>3, <1>7 DEF Forward
<1> QED BY <1>5, <1>6, <1>7
\* The job service replies, whether the gateway still waits or not.
LEMMA SubmitKeeps ==
  ASSUME NEW Tokens, WrittenIn(Tokens), FrontInv, UNCHANGED mode, ServiceSubmit
  PROVE  FrontInv'
<1>1. /\ Ask \in Requests /\ Ask.kind = "submit" /\ SubmitInv /\ service.pc = "asked"
      /\ job = NoJob /\ CallIsAsAsked /\ UNCHANGED <<front, answer>> /\ Ask' = Ask
  BY DEF FrontInv, SubmitInv, ServiceSubmit, Ask
<1>2. front.pc # "new"
  BY <1>1 DEF SubmitInv
<1> DEFINE items == service.list
           list == Expanded(items)
<1>3. Expanded(Ask.text.lines) = list /\ Meaning(Ask.text.lines) = Meaning(items)
  BY <1>1, ReadAlike DEF CallIsAsAsked
<1>4. ASSUME NEW reply, service' = [service EXCEPT !.pc = "replied", !.reply = reply]
      PROVE  /\ service'.pc = "replied" /\ service'.reply = reply
             /\ service' = [pc |-> service'.pc, list |-> service'.list, order |-> service'.order,
                            reply |-> service'.reply]
  BY <1>4 DEF FrontInv
<1>5. ASSUME NEW reply, service' = [service EXCEPT !.pc = "replied", !.reply = reply],
             ReplyIsTrue', AcceptedIsWhatIsSplit',
             answer.body = "refused" => front.pc # "answered"
      PROVE  FrontInv'
  <2>1. SubmitInv'
    BY <1>1, <1>2, <1>4, <1>5 DEF SubmitInv
  <2> QED BY <1>1, <1>4, <1>5, <2>1 DEF FrontInv
<1>6. answer.body = "refused" => front.pc # "answered"
  BY <1>1 DEF SubmitInv
<1>7. AcceptedIsWhatIsSplit' \/ job' # job
  BY <1>1 DEF AcceptedIsWhatIsSplit
<1>8. \A reply \in Failure : reply.status = 500 /\ reply.body = "failed"
  BY DEF Failure, Reply
<1>9. CASE ~TooLarge(items) /\ Listed(items) /\ service.order \in {"", "asc", "desc"}
  <2>1. list = Expanded(Ask.text.lines) /\ list # <<>>
    BY <1>3, <1>9 DEF Listed
  <2>2. OrAscending(service.order) = OrAscending(Ask.order)
    BY <1>1, AscendingTwice DEF CallIsAsAsked
  <2>3. \/ /\ Replied({Reply(201, "id")} \cup Failure)
           /\ job' = [list |-> list, order |-> OrAscending(service.order)]
        \/ Replied(Failure) /\ UNCHANGED job
    BY <1>9 DEF ServiceSubmit
  <2> HIDE DEF items, list
  <2>4. CASE /\ Replied({Reply(201, "id")} \cup Failure)
             /\ job' = [list |-> list, order |-> OrAscending(service.order)]
    <3>1. PICK reply \in {Reply(201, "id")} \cup Failure :
            service' = [service EXCEPT !.pc = "replied", !.reply = reply]
      BY <2>4 DEF Replied
    <3>2. job'.list = list /\ job'.order = OrAscending(Ask.order)
      BY <2>2, <2>4
    <3>3. job' # NoJob
      <4>1. NoJob.list = <<>>
        BY DEF NoJob
      <4> QED BY <2>1, <3>2, <4>1
    <3>4. AcceptedIsWhatIsSplit'
      BY <1>1, <2>1, <3>2 DEF AcceptedIsWhatIsSplit, CallIsAsAsked
    <3>5. (reply.status = 201 /\ reply.body = "id") \/ (reply.status = 500 /\ reply.body = "failed")
      BY <1>8 DEF Reply
    <3>6. ReplyIsTrue'
      BY <1>4, <3>1, <3>3, <3>5, ZenonT(60) DEF ReplyIsTrue
    <3> QED BY <1>5, <1>6, <3>1, <3>4, <3>6
  <2>5. CASE Replied(Failure) /\ UNCHANGED job
    <3>1. PICK reply \in Failure : service' = [service EXCEPT !.pc = "replied", !.reply = reply]
      BY <2>5 DEF Replied
    <3>2. service'.reply = reply
      BY <1>4, <3>1
    <3>3. service'.reply.status = 500 /\ service'.reply.body = "failed"
      BY <1>8, <3>2
    <3>4. ReplyIsTrue'
      BY <3>3 DEF ReplyIsTrue
    <3> QED BY <1>5, <1>6, <1>7, <2>5, <3>1, <3>4
  <2> QED BY <2>3, <2>4, <2>5
<1>10. CASE ~(~TooLarge(items) /\ Listed(items) /\ service.order \in {"", "asc", "desc"})
  <2>1. Replied({Reply(400, "refused")}) /\ UNCHANGED job
    BY <1>10 DEF ServiceSubmit
  <2>2. service' = [service EXCEPT !.pc = "replied", !.reply = Reply(400, "refused")]
    BY <2>1 DEF Replied
  <2>3. Wrong'
    <3>1. CASE ~Listed(items)
      BY <1>1, <1>3, <3>1 DEF Meaning, Wrong
    <3>2. CASE service.order \notin {"", "asc", "desc"}
      <4>1. Ask.order \in AskedOrders /\ service.order \in {Ask.order, OrAscending(Ask.order)}
        BY <1>1, RequestIs DEF CallIsAsAsked
      <4>2. Ask.order = "sideways"
        BY <3>2, <4>1 DEF AskedOrders, OrAscending
      <4> QED BY <1>1, <4>2 DEF Wrong
    <3>3. CASE TooLarge(items)
      <4>1. GrowsTooLarge
        BY <1>1, <3>3 DEF CallIsAsAsked, GrowsTooLarge
      <4> QED BY <1>1, <4>1 DEF GrowsTooLarge, Wrong
    <3> QED BY <1>10, <3>1, <3>2, <3>3
  <2>4. Reply(400, "refused").status = 400 /\ Reply(400, "refused").body = "refused"
    BY DEF Reply
  <2>5. ReplyIsTrue'
    <3>1. service'.reply = Reply(400, "refused") /\ job' = NoJob
      BY <1>1, <1>4, <2>1, <2>2
    <3>2. service'.reply.status = 400 /\ service'.reply.body = "refused"
      BY <2>4, <3>1
    <3> QED BY <2>3, <3>1, <3>2 DEF ReplyIsTrue
  <2> QED BY <1>5, <1>6, <1>7, <2>1, <2>2, <2>5
<1> QED BY <1>9, <1>10

LEMMA ReplyKeeps ==
  ASSUME FrontInv, UNCHANGED mode, ServiceReply
  PROVE  FrontInv'
<1>1. /\ Ask.kind # "submit" /\ job = NoJob /\ UNCHANGED <<front, job, answer>> /\ Ask' = Ask
  BY DEF ServiceReply, FrontInv, Ask
<1>2. PICK reply \in Replies[Ask.kind] :
        service' = [service EXCEPT !.pc = "replied", !.reply = reply]
  BY DEF ServiceReply, Replied
<1>3. /\ service'.pc = "replied"
      /\ service' = [pc |-> service'.pc, list |-> service'.list, order |-> service'.order,
                     reply |-> service'.reply]
  BY <1>2 DEF FrontInv
<1> QED BY <1>1, <1>3 DEF FrontInv, AcceptedIsWhatIsSplit

\* The gateway answers with the reply, or with the failure of the call.
LEMMA AnswerKeeps ==
  ASSUME FrontInv, UNCHANGED mode, Respond \/ CallFails
  PROVE  FrontInv'
<1>1. /\ front.pc = "waiting" /\ UNCHANGED <<service, job>>
      /\ front' = [front EXCEPT !.pc = "answered"]
  BY DEF Respond, CallFails, Answer, AtPC
<1>2. front'.pc = "answered" /\ Ask' = Ask /\ front' = [pc |-> "answered", request |-> Ask]
  BY <1>1 DEF FrontInv, Ask
<1>3. Wrong' = Wrong /\ CallIsAsAsked' = CallIsAsAsked /\ ReplyIsTrue' = ReplyIsTrue
  BY <1>1, <1>2 DEF Wrong, GrowsTooLarge, CallIsAsAsked, ReplyIsTrue
<1>4. ASSUME Ask.kind = "submit" PROVE SubmitInv'
  <2>1. SubmitInv
    BY <1>4 DEF FrontInv
  <2>2. answer'.body \in {"id", "refused"} =>
          /\ service.pc = "replied" /\ ReplyIsTrue
          /\ answer'.body = "id" => service.reply.status = 201
          /\ answer'.body = "refused" => service.reply.status = 400
    <3>1. CASE Respond
      <4>1. service.pc = "replied" /\ answer' = AnswerTo(service.reply)
        BY <3>1 DEF Respond, Answer
      <4>2. ReplyIsTrue
        BY <2>1, <4>1 DEF SubmitInv
      <4>3. answer'.body = IF service.reply.status >= 400 THEN service.reply.body ELSE "id"
        BY <1>4, <4>1 DEF AnswerTo, Reply
      <4> QED BY <4>1, <4>2, <4>3 DEF ReplyIsTrue
    <3>2. CASE CallFails
      <4>1. answer' = AnswerToFailure
        BY <3>2 DEF CallFails, Answer
      <4>2. answer'.body = "unavailable"
        BY <1>4, <4>1 DEF AnswerToFailure, Reply
      <4> QED BY <4>2
    <3> QED BY <3>1, <3>2
  <2>3. answer'.body = "id" => job # NoJob
    BY <2>2 DEF ReplyIsTrue
  <2>4. answer'.body = "refused" => job = NoJob /\ service.pc # "asked" /\ Wrong
    BY <2>2 DEF ReplyIsTrue
  <2> QED BY <1>1, <1>2, <1>3, <2>1, <2>3, <2>4 DEF SubmitInv
<1>5. AcceptedIsWhatIsSplit'
  BY <1>1, <1>2 DEF FrontInv, AcceptedIsWhatIsSplit
<1> QED BY <1>1, <1>2, <1>4, <1>5 DEF FrontInv

LEMMA OpenKeeps ==
  ASSUME OpenStream
  PROVE  FrontInv'
<1>1. front' = [pc |-> "stream", request |-> NoRequest] /\ service' = Idle /\ job' = NoJob
  BY DEF OpenStream
<1>2. front'.pc = "stream" /\ Ask' = NoRequest /\ NoRequest.kind = "page"
  BY <1>1 DEF Ask, NoRequest
<1>3. NoRequest \in Requests
  <2>1. NoRequest = Unlisted("page", TRUE)
    <3>1. NoRequest = [x \in {"kind", "text", "order", "valid"} |-> NoRequest[x]]
      BY DEF NoRequest
    <3>2. NoRequest.kind = "page" /\ NoRequest.valid = TRUE
      BY DEF NoRequest
    <3>3. \A r, S, k, v : r = [x \in S |-> r[x]] /\ r.kind = k /\ r.valid = v
                           => r = [r EXCEPT !.kind = k, !.valid = v]
      OBVIOUS
    <3> QED BY <3>1, <3>2, <3>3, ZenonT(60) DEF Unlisted
  <2>2. "page" \in Kinds /\ TRUE \in BOOLEAN
    BY DEF Kinds
  <2>3. \A k \in Kinds, v \in BOOLEAN : Unlisted(k, v) \in Requests
    BY TheRequests
  <2> QED BY <2>1, <2>2, <2>3
<1>4. /\ service'.pc = "idle"
      /\ service' = [pc |-> service'.pc, list |-> service'.list, order |-> service'.order,
                     reply |-> service'.reply]
  BY <1>1 DEF Idle
<1> QED BY <1>1, <1>2, <1>3, <1>4 DEF FrontInv, AcceptedIsWhatIsSplit

LEMMA FrontStays ==
  ASSUME FrontInv, UNCHANGED <<mode, frontVars>>
  PROVE  FrontInv'
BY DEF frontVars, FrontInv, SubmitInv, CallIsAsAsked, ReplyIsTrue, Wrong, GrowsTooLarge, Ask,
   AcceptedIsWhatIsSplit

LEMMA FrontNext ==
  ASSUME NEW Tokens, WrittenIn(Tokens)
  PROVE  FrontInv /\ [NextGateway]_<<vars, frontVars>> => FrontInv'
<1> SUFFICES ASSUME FrontInv, [NextGateway]_<<vars, frontVars>> PROVE FrontInv'
  OBVIOUS
<1>1. CASE RequestStep /\ UNCHANGED vars
  <2>1. UNCHANGED mode
    BY <1>1 DEF vars
  <2> QED BY <1>1, <2>1, RequestKeeps, SubmitKeeps, ReplyKeeps, AnswerKeeps, OpenKeeps
          DEF RequestStep, Handler
<1>2. CASE (ClientLeaves \/ Next) /\ UNCHANGED frontVars
  <2>1. UNCHANGED mode
    BY <1>2 DEF Next, UpstreamStep, UpstreamNotFound, UpstreamStatus, UpstreamResult,
       UpstreamTimeout, UpstreamCut, Send, GatewayStep, Connect, Scan, Receive, TimeoutFires,
       ClientGone, ClientLeaves, Tick
  <2> QED BY <1>2, <2>1, FrontStays
<1>3. CASE UNCHANGED <<vars, frontVars>>
  <2>1. UNCHANGED mode /\ UNCHANGED frontVars
    BY <1>3 DEF vars
  <2> QED BY <2>1, FrontStays
<1> QED BY <1>1, <1>2, <1>3 DEF NextGateway
\* Clients write lists of any tokens, of any length.  Whatever becomes of the calls, and
\* whether a list comes as a form or as JSON, a job that is accepted has what the splitter
\* of the job service makes of the lines as the client wrote them, and the order that was
\* asked for: the gateway neither loses nor adds nor reorders (handlers.go:21-69,
\* jobservice/handlers.go:76-113).  That the splitter reads what is meant is not proved.
THEOREM AcceptedAsSent ==
  ASSUME NEW Tokens, WrittenIn(Tokens)
  PROVE  SpecGateway => []AcceptedIsWhatIsSplit
<1>1. FrontInv /\ [NextGateway]_<<vars, frontVars>> => FrontInv'
  BY FrontNext
<1>2. FrontInv => AcceptedIsWhatIsSplit
  BY DEF FrontInv
<1> QED BY <1>1, <1>2, FrontInit, PTL DEF SpecGateway

\* A client that is told of a job has one; one that is told that its list is refused has
\* none, will have none, and did write something wrong - no list, if lists mean what the
\* splitter makes of them - or more than the limit once it is sent on (handlers.go:13-104,
\* jobservice/handlers.go:72-113).
THEOREM ToldTheTruth ==
  ASSUME NEW Tokens, WrittenIn(Tokens), ReadsAsMeant
  PROVE  SpecGateway => []ClientIsToldTheTruth
<1>1. FrontInv /\ [NextGateway]_<<vars, frontVars>> => FrontInv'
  BY FrontNext
<1>2. FrontInv => ClientIsToldTheTruth
  <2>1. ASSUME Ask \in Requests, Wrong
        PROVE  ~Ask.valid \/ Ask.text.meant = <<>> \/ Ask.order = "sideways" \/ GrowsTooLarge
    <3>1. CASE Ask.text \in Submissions
      BY <2>1, <3>1 DEF Wrong, ReadsAsMeant
    <3>2. CASE Ask.text.meant = <<>>
      BY <3>2
    <3> QED BY <2>1, <3>1, <3>2, RequestIs
  <2> QED BY <2>1 DEF FrontInv, SubmitInv, ClientIsToldTheTruth
<1> QED BY <1>1, <1>2, FrontInit, PTL DEF SpecGateway
-----------------------------------------------------------------------------
(***************************************************************************)
(* The environment of the relay is the stream of the job service: module   *)
(* JobStream, which JobSystem implements, takes the same turns.            *)
(***************************************************************************)
\* When the environment takes a turn: the bound on statuses, the timer, and a stream that
\* breaks off once it has begun (before, the call fails).
Due(turn) ==
  /\ turn.next = "loop" => Len(sent) < MaxStatus
  /\ turn.events = TimedOut => upstream.quiet = Timeout
  /\ turn = BreaksOff => "cut" \in Env /\ upstream.pc = "loop"

LEMMA TurnFields ==
  \A events, next : Turn(events, next).events = events /\ Turn(events, next).next = next
BY DEF Turn

\* The turns are told apart by their first events.
LEMMA TurnsAre ==
  /\ TimedOut # NotFound /\ TimedOut # <<>> /\ NotFound # <<>>
  /\ \A d : <<Event("status", d)>> # TimedOut /\ <<Event("status", d)>> # <<>>
  /\ \A d : <<Event("result", d), Close>> # TimedOut /\ <<Event("result", d), Close>> # <<>>
<1>1. \A t, d : Event(t, d).type = t /\ Event(t, d).data = d
  BY DEF Event
<1>2. TimedOut[1] = Event("error", "timeout") /\ NotFound[1] = Event("error", "not_found")
      /\ Len(TimedOut) = 2 /\ Len(NotFound) = 2 /\ Len(<<>>) = 0
  BY DEF TimedOut, NotFound
<1>3. \A d : /\ Len(<<Event("status", d)>>) = 1 /\ Len(<<Event("result", d), Close>>) = 2
             /\ <<Event("result", d), Close>>[1] = Event("result", d)
  OBVIOUS
<1>4. TimedOut # NotFound
  <2>1. TimedOut[1].data = "timeout" /\ NotFound[1].data = "not_found"
    BY <1>1, <1>2
  <2> QED BY <2>1
<1>5. TimedOut # <<>> /\ NotFound # <<>>
  BY <1>2
<1>6. ASSUME NEW d PROVE <<Event("status", d)>> # TimedOut /\ <<Event("status", d)>> # <<>>
  <2>1. Len(<<Event("status", d)>>) = 1
    BY <1>3
  <2> QED BY <1>2, <2>1
<1>7. ASSUME NEW d
      PROVE  <<Event("result", d), Close>> # TimedOut /\ <<Event("result", d), Close>> # <<>>
  <2> DEFINE turn == <<Event("result", d), Close>>
  <2>1. Len(turn) = 2 /\ turn[1] = Event("result", d)
    BY <1>3
  <2> HIDE DEF turn
  <2>2. turn[1].type = "result" /\ TimedOut[1].type = "error"
    BY <1>1, <1>2, <2>1
  <2>3. turn # TimedOut
    BY <2>2
  <2>4. turn # <<>>
    BY <1>2, <2>1
  <2> QED BY <2>3, <2>4 DEF turn
<1> QED BY <1>4, <1>5, <1>6, <1>7

\* The steps of the job service in the relay's model are all the turns of a stream, each
\* when it is due, and no others: the theorems on the relay suppose no less and no more of
\* the job service than its streams do (jobservice/sse.go:12-87, gateway/sse.go:20-88).
THEOREM UpstreamTakesTurns ==
  ASSUME TypeOK
  PROVE  UpstreamStep <=>
           \E turn \in Turns(upstream.pc) : Due(turn) /\ Send(turn.events, turn.next)
<1> DEFINE Taking(turn) == turn \in Turns(upstream.pc) /\ Due(turn) /\ Send(turn.events, turn.next)
<1>1. upstream.pc \in {"new", "loop", "ended"}
  BY DEF TypeOK
<1>2. /\ upstream.pc = "new" => Turns(upstream.pc) = StatusTurns \cup ResultTurns
                                  \cup {Turn(NotFound, "ended"), BreaksOff}
      /\ upstream.pc = "loop" => Turns(upstream.pc) = StatusTurns \cup ResultTurns
                                  \cup {Turn(TimedOut, "ended"), BreaksOff}
      /\ upstream.pc = "ended" => Turns(upstream.pc) = {}
  BY DEF Turns
<1>3. BreaksOff.events = <<>> /\ BreaksOff.next = "ended"
  BY TurnFields DEF BreaksOff
\* When each turn is due.
<1>4. ASSUME NEW status PROVE Due(Turn(<<Event("status", status)>>, "loop")) <=> Len(sent) < MaxStatus
  BY <1>3, TurnFields, TurnsAre DEF Due
<1>5. ASSUME NEW outcome PROVE Due(Turn(<<Event("result", outcome), Close>>, "ended"))
  BY <1>3, TurnFields, TurnsAre DEF Due
<1>6. Due(Turn(NotFound, "ended"))
  BY <1>3, TurnFields, TurnsAre DEF Due
<1>7. Due(Turn(TimedOut, "ended")) <=> upstream.quiet = Timeout
  BY <1>3, TurnFields, TurnsAre DEF Due
<1>8. Due(BreaksOff) <=> "cut" \in Env /\ upstream.pc = "loop"
  BY <1>3, TurnsAre DEF Due
<1>9. ASSUME UpstreamStep PROVE \E turn : Taking(turn)
  <2>1. CASE UpstreamNotFound
    <3>1. Taking(Turn(NotFound, "ended"))
      BY <1>2, <1>6, <2>1, TurnFields DEF UpstreamNotFound
    <3> QED BY <3>1
  <2>2. CASE UpstreamStatus
    <3>1. PICK status \in ToldStatus : Send(<<Event("status", status)>>, "loop")
      BY <2>2 DEF UpstreamStatus
    <3>2. Turn(<<Event("status", status)>>, "loop") \in Turns(upstream.pc)
      BY <1>1, <1>2, <2>2 DEF UpstreamStatus, StatusTurns
    <3>3. Taking(Turn(<<Event("status", status)>>, "loop"))
      BY <1>4, <2>2, <3>1, <3>2, TurnFields DEF UpstreamStatus
    <3> QED BY <3>3
  <2>3. CASE UpstreamResult
    <3>1. PICK outcome \in Outcome : Send(<<Event("result", outcome), Close>>, "ended")
      BY <2>3 DEF UpstreamResult
    <3>2. Turn(<<Event("result", outcome), Close>>, "ended") \in Turns(upstream.pc)
      BY <1>1, <1>2, <2>3 DEF UpstreamResult, ResultTurns
    <3>3. Taking(Turn(<<Event("result", outcome), Close>>, "ended"))
      BY <1>5, <3>1, <3>2, TurnFields
    <3> QED BY <3>3
  <2>4. CASE UpstreamTimeout
    <3>1. Taking(Turn(TimedOut, "ended"))
      BY <1>2, <1>7, <2>4, TurnFields DEF UpstreamTimeout
    <3> QED BY <3>1
  <2>5. CASE UpstreamCut
    <3>1. Taking(BreaksOff)
      BY <1>2, <1>3, <1>8, <2>5 DEF UpstreamCut
    <3> QED BY <3>1
  <2> QED BY <1>9, <2>1, <2>2, <2>3, <2>4, <2>5 DEF UpstreamStep
<1>10. ASSUME NEW turn, Taking(turn) PROVE UpstreamStep
  <2>1. upstream.pc \in {"new", "loop"}
    BY <1>1, <1>2, <1>10
  <2>2. CASE turn \in StatusTurns
    <3>1. PICK status \in ToldStatus : turn = Turn(<<Event("status", status)>>, "loop")
      BY <2>2 DEF StatusTurns
    <3>2. UpstreamStatus
      BY <1>4, <1>10, <2>1, <3>1, TurnFields DEF UpstreamStatus
    <3> QED BY <3>2 DEF UpstreamStep
  <2>3. CASE turn \in ResultTurns
    <3>1. PICK outcome \in Outcome : turn = Turn(<<Event("result", outcome), Close>>, "ended")
      BY <2>3 DEF ResultTurns
    <3>2. UpstreamResult
      BY <1>10, <2>1, <3>1, TurnFields DEF UpstreamResult
    <3> QED BY <3>2 DEF UpstreamStep
  <2>4. CASE upstream.pc = "new" /\ turn = Turn(NotFound, "ended")
    <3>1. UpstreamNotFound
      BY <1>10, <2>4, TurnFields DEF UpstreamNotFound
    <3> QED BY <3>1 DEF UpstreamStep
  <2>5. CASE upstream.pc = "loop" /\ turn = Turn(TimedOut, "ended")
    <3>1. UpstreamTimeout
      BY <1>7, <1>10, <2>5, TurnFields DEF UpstreamTimeout
    <3> QED BY <3>1 DEF UpstreamStep
  <2>6. CASE turn = BreaksOff
    <3>1. UpstreamCut
      BY <1>3, <1>8, <1>10, <2>6 DEF UpstreamCut
    <3> QED BY <3>1 DEF UpstreamStep
  <2> QED BY <1>2, <1>10, <2>1, <2>2, <2>3, <2>4, <2>5, <2>6
<1> QED BY <1>9, <1>10
=============================================================================
