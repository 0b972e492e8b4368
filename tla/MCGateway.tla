------------------------------ MODULE MCGateway ------------------------------
(***************************************************************************)
(* Instances of Gateway: the lists that clients submit.  A set in braces   *)
(* and an interval in brackets keep their comma; seven short lines are     *)
(* within the limit as they are written, and not as they are sent on.      *)
(***************************************************************************)
EXTENDS Gateway

One == <<"1">>
Set == <<"{", "1", ",", "2", "}">>
Interval == <<"[", "1", ",", "2", ")">>
Nested == <<"{", "[", "1", ",", "2", "]", ",", "1", "}">>
MCValues == {One, <<"2">>, Set, Interval, Nested}

Comma == <<",">>
Seven == [k \in 1..7 |-> One]
Text(lines, meant) == [lines |-> lines, meant |-> meant]

MCSubmissions ==
  {Text(<<One, Set>>, <<One, Set>>),
   Text(<<Nested \o Comma \o One, <<>>, Interval>>, <<Nested, One, Interval>>),
   Text(<<Comma \o One, Set \o Comma \o Comma \o Interval \o Comma>>, <<One, Set, Interval>>),
   Text(Seven, Seven)}
  \cup {Text(lines, <<>>) : lines \in
    {<<One, <<"x">>>>, <<Comma, <<>>>>, <<<<>>>>, <<>>,
     \* A bracket that is not closed, one that is not opened, a set on two lines.
     <<<<"{">> \o One \o Comma \o One>>, <<<<"]">> \o Comma \o One \o Comma \o <<"[">>>>,
     <<<<"{", "1", ",">>, <<"2", "}">>>>}}

ASSUME MCSubmissionsAssumption == ReadsAsMeant
=============================================================================
