------------------------------ MODULE MCI13Store ------------------------------
(* Two build slots over two raw tables and one or two batches of materials.  *)
EXTENDS I13Store, TLC

CONSTANTS b1, b2, mara, mseg, m1, m2

Interchange == Permutations(Procs) \cup Permutations(Tables) \cup Permutations(Materials)
=============================================================================
