------------------------------ MODULE MCLease ------------------------------
EXTENDS Lease, TLC

CONSTANTS a1, a2, a3, r1, r2

MCTime == 0..3

Symmetry == Permutations({a1, a2, a3}) \cup Permutations({r1, r2})
=============================================================================
