----------------------------- MODULE MCSortCheck -----------------------------
(***************************************************************************)
(* SortCheck on every list of at most MaxLen values over the numbers       *)
(* 0..Top: both infinities, every range and every discrete set.            *)
(***************************************************************************)
EXTENDS SortCheck, SequencesExt, FiniteSets

CONSTANTS MaxLen, Top

MCInfinities ==
  {[inf |-> s, min |-> 0, max |-> 0, points |-> <<>>] : s \in {-1, 1}}
MCRanges ==
  {[inf |-> 0, min |-> r[1], max |-> r[2], points |-> <<>>] :
     r \in {p \in (0..Top) \X (0..Top) : p[1] <= p[2]}}
Ascending(S) == SetToSortSeq(S, <)
MCDiscrete ==
  {LET p == Ascending(S)
   IN [inf |-> 0, min |-> p[1], max |-> p[Len(p)], points |-> p] :
     S \in {T \in SUBSET (0..Top) : Cardinality(T) >= 2}}
MCLists ==
  UNION {[1..n -> MCInfinities \cup MCRanges \cup MCDiscrete] : n \in 0..MaxLen}
=============================================================================
