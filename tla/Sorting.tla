------------------------------- MODULE Sorting -------------------------------
(***************************************************************************)
(* The elements of a finite set as a sequence, and the selection of places *)
(* of a sequence: SetToSortSeq and SelectSeq of the libraries, defined by  *)
(* how many elements come before one, so that they can be proved about.    *)
(***************************************************************************)
EXTENDS FiniteSets, Naturals, Sequences

(* R, a set of pairs, is a strict total order on S.                         *)
Orders(R, S) ==
  /\ \A x \in S : <<x, x>> \notin R
  /\ \A x, y \in S : x = y \/ <<x, y>> \in R \/ <<y, x>> \in R
  /\ \A x, y, z \in S : <<x, y>> \in R /\ <<y, z>> \in R => <<x, z>> \in R

SortedBy(S, R) ==
  [n \in 1 .. Cardinality(S) |-> CHOOSE x \in S : Cardinality({y \in S : <<y, x>> \in R}) = n - 1]

(* The elements of s at the places given, which keep their order.           *)
Ascending(places) == SortedBy(places, {p \in places \X places : p[1] < p[2]})
Selected(s, places) == [n \in 1 .. Cardinality(places) |-> s[Ascending(places)[n]]]
=============================================================================
