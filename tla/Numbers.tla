------------------------------ MODULE Numbers -------------------------------
(* Finite sets of numbers in their order.                                    *)
EXTENDS Integers, FiniteSets

\* How many numbers of S are not above n.
Rank(S, n) == Cardinality({m \in S : m <= n})

\* The numbers of S, the least first.
Increasing(S) == [i \in 1..Cardinality(S) |-> CHOOSE n \in S : Rank(S, n) = i]
=============================================================================
