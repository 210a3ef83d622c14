------------------------------ MODULE MCTransfer ------------------------------
EXTENDS Transfer, TLC
CONSTANTS c1, c2, x1, x2, f1
Symmetry == Permutations(Clients) \cup Permutations(Slaves)
================================================================================
