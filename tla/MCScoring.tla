------------------------------ MODULE MCScoring ------------------------------
EXTENDS Scoring

\* Buys in the slots 3 and 4 by two wallets that may fund each other, and by a third whom
\* the bound on first buyers may leave out.
SomeBuys == {[wallet |-> "w1", slot |-> 3, order |-> 0],
             [wallet |-> "w2", slot |-> 3, order |-> 1],
             [wallet |-> "w2", slot |-> 4, order |-> 0],
             [wallet |-> "w3", slot |-> 4, order |-> 1]}

T(i, s, d, n) == [from |-> s, to |-> d, slot |-> n, rank |-> i, verified |-> TRUE]

\* Between the buyers, an address "a" and the exchange "x", in slots before and after the buys.
SomeTransfers ==
  {T(1, "a", "w1", 2), T(2, "a", "w1", 3), T(3, "x", "w1", 1), T(4, "w2", "w1", 2),
   T(5, "x", "a", 1), T(6, "x", "a", 2), T(7, "w1", "a", 1), T(8, "w1", "w2", 3),
   T(9, "a", "w2", 2), T(10, "x", "w2", 0),
   [T(12, "x", "w1", 2) EXCEPT !.verified = FALSE]}
=============================================================================
