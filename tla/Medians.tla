------------------------------- MODULE Medians -------------------------------
(***************************************************************************)
(* The median of the values of a function with a finite domain             *)
(* (numpy.median; ClockEstimator.offset_s).                                *)
(***************************************************************************)
EXTENDS Integers, FiniteSets, Functions

AtMost(f, x) == Cardinality({i \in DOMAIN f : f[i] <= x})

\* The k-th smallest value of f.
Smallest(f, k) ==
    CHOOSE x \in Range(f) : AtMost(f, x) >= k /\ \A y \in Range(f) : y < x => AtMost(f, y) < k

\* Twice the middle value, or the sum of the two in the middle.
TwiceMedian(f) ==
    LET n == Cardinality(DOMAIN f)
    IN  Smallest(f, (n + 1) \div 2) + Smallest(f, n \div 2 + 1)

Median(f) == TwiceMedian(f) \div 2
=============================================================================
