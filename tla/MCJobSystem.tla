----------------------------- MODULE MCJobSystem -----------------------------
(***************************************************************************)
(* Instances of JobSystem.  Three lists tell apart all that the model can:  *)
(* sorted upwards, sorted downwards, and one that does not parse.          *)
(***************************************************************************)
EXTENDS JobSystem, TLC

CONSTANTS up, down, junk

MCContents == {up, down, junk}
MCParsable == {up, down}
MCSortedIn == [o \in Orders |-> IF o = "asc" THEN {up} ELSE {down}]
OneContent == {up}
UpOrJunk == {up, junk}
UpSorted == [o \in Orders |-> IF o = "asc" THEN {up} ELSE {}]

\* Jobs and workers are alike in an instance that checks safety only.
Alike == Permutations(SubmitIds) \cup Permutations(Workers)
=============================================================================
