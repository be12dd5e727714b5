-------------------------- MODULE MCChargeTracker --------------------------
(* The charge log on small instances.                                        *)
EXTENDS ChargeTracker, TLC

\* LittleFS lists a directory sorted by name: 1, 10, 11, 2 (numbers below 100).
NameKey(n) == IF n < 10 THEN <<n, 0>> ELSE <<n \div 10, (n % 10) + 1>>
NameBefore(m, n) ==
    \/ NameKey(m)[1] < NameKey(n)[1]
    \/ NameKey(m)[1] = NameKey(n)[1] /\ NameKey(m)[2] < NameKey(n)[2]

\* Users are interchangeable.
Symmetry == Permutations(Users)
=============================================================================
