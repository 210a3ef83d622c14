----------------------------- MODULE MCCollections -----------------------------
(* Collections on small sets of objects, for TLC.                          *)
EXTENDS CollectionsRefinement, FiniteSets, TLC
CONSTANTS c1, c2, i1, i2, i3
TwoColls == {c1, c2}
OneColl == {c1}
TwoItems == {i1, i2}
ThreeItems == {i1, i2, i3}
Symmetry == Permutations(Items)
================================================================================
