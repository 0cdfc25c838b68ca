---------------------------- MODULE MCMongoSync -----------------------------
(* Instances of the replication for TLC: two machines, one content known to *)
(* both under two ids, and one with a single id.                            *)
EXTENDS MongoSync, TLC

CONSTANTS m1, m2, w1, w2, i1, i2, j1, ki, kj

IdKeys == i1 :> ki @@ i2 :> ki @@ j1 :> kj
OneEach == w1 :> m1 @@ w2 :> m2
Both == [w \in Workers |-> "both"]
BothAndPull == w1 :> "both" @@ w2 :> "pull"
=============================================================================
