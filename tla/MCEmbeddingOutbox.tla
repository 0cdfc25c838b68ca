-------------------------- MODULE MCEmbeddingOutbox -------------------------
(* Instances of the embedding outbox for TLC.                               *)
EXTENDS EmbeddingOutbox, TLC

CONSTANTS p1, p2, new, old

SameModel == [p \in Procs |-> new]
=============================================================================
