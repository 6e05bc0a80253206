------------------------------ MODULE MCHomes ------------------------------
\* Two ups, a down and two sweeps of one name, over two runtime dirs.
EXTENDS Homes

CONSTANTS u1, u2, d1, s1, s2, r1, r2

\* The name's boxes all in one runtime dir, a sweep in each.
OneDir == [p \in Proc |-> IF p = s2 THEN r2 ELSE r1]

\* One up in each.
TwoDirs == [p \in Proc |-> IF p \in {u2, s2} THEN r2 ELSE r1]
=============================================================================
