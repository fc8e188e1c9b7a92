----------------------------- MODULE RowLists -----------------------------
(* Lists of rows in the order of their places.                              *)
EXTENDS Integers, Sequences, FiniteSets

\* s is a sequence.
IsList(s) == s \in Seq({s[i] : i \in DOMAIN s})

\* The rows at the places given, in the order of the places: what a container
\* that is walked from its first element to its last, or a loop that skips
\* some of them, meets.
RowsAt(rows, places) ==
  LET Rank(i) == Cardinality({j \in places : j <= i})
  IN [k \in 1 .. Cardinality(places) |-> rows[CHOOSE i \in places : Rank(i) = k]]
=============================================================================
