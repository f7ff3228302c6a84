------------------------------ MODULE Listing ------------------------------
(***************************************************************************)
(* What the collectors do to a list before it is shown: Go's               *)
(* sort.SliceStable, with less[i][j] for its func(i, j int) bool.          *)
(***************************************************************************)
EXTENDS Naturals, Sequences, FiniteSets

\* Elements that compare equal keep their order.
StableSort(s, less) ==
  LET Rank(i) == Cardinality({j \in DOMAIN s : less[j][i] \/ (j < i /\ ~less[i][j])})
  IN  [k \in DOMAIN s |-> s[CHOOSE i \in DOMAIN s : Rank(i) = k - 1]]

=============================================================================
