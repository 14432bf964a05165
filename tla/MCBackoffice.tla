----------------------------- MODULE MCBackoffice -----------------------------
EXTENDS Backoffice, Visibility, TLC
CONSTANTS b1, b2, b3, r1, r2, r3
Symmetry == Permutations({b1, b2, b3}) \cup Permutations({r1, r2, r3})
===============================================================================
