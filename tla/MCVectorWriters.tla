--------------------------- MODULE MCVectorWriters --------------------------
(* Instances of the vector-writing commands for TLC.                        *)
EXTENDS VectorWriters, TLC

CONSTANTS p1, p2, p3

AllDisciplined ==
    p1 :> "import" @@ p2 :> "maintenance" @@ p3 :> "graduation"
TwoProcess == p1 :> "process" @@ p2 :> "import"
Mixed == p1 :> "process" @@ p2 :> "summary" @@ p3 :> "mongo"
WithSummary == p1 :> "import" @@ p2 :> "summary"

ThreeCommands == {AllDisciplined, Mixed}
ImportAndProcess == {TwoProcess}
(* No run uses this one: README.md says what TLC finds with it.             *)
ImportAndSummary == {WithSummary}
=============================================================================
