--------------------------- MODULE MCVectorOutbox ---------------------------
(* Instances of the vector outbox for TLC.                                  *)
EXTENDS VectorOutbox, TLC

Symmetry == Permutations(Items) \cup Permutations(Workers)
=============================================================================
