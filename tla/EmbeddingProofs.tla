--------------------------- MODULE EmbeddingProofs --------------------------
(***************************************************************************)
(* The vectors of the first pipeline are of the model that                  *)
(* embedding-meta.json names, a migration to another model forgets no       *)
(* event, and a row that was given up stays so, for any number of           *)
(* processes, events, rows and faults.                                      *)
(***************************************************************************)
EXTENDS EmbeddingOutbox, FiniteSetTheorems, FunctionTheorems, TLAPS

LEMMA EventsAreFinite ==
  ASSUME NEW S \in SUBSET Events
  PROVE  IsFiniteSet(S) /\ Cardinality(S) \in Nat
BY EventsAssumption, FS_Subset, FS_CardinalityType

LEMMA RowChanges ==
  ASSUME NEW old \in Row
  PROVE  /\ \A s \in {"pending", "processing", "failed"} :
                [old EXCEPT !.status = s] \in Row
         /\ [old EXCEPT !.status = IF old.retries >= MaxRetries
                                   THEN "failed" ELSE "pending",
                        !.retries = @ + 1] \in Row
<1> USE RetriesAssumption DEF Row
<1>1. ASSUME NEW s \in {"pending", "processing", "failed"}
      PROVE  [old EXCEPT !.status = s] \in Row
  OBVIOUS
<1> DEFINE s == IF old.retries >= MaxRetries THEN "failed" ELSE "pending"
<1>2. s \in {"failed", "pending"}
  OBVIOUS
<1> HIDE DEF s
<1>3. ASSUME NEW m \in Row, NEW n \in Nat PROVE [m EXCEPT !.retries = n] \in Row
  OBVIOUS
<1>4. [old EXCEPT !.status = s] \in Row /\ old.retries + 1 \in Nat
  BY <1>1, <1>2
<1>5. [old EXCEPT !.status = s, !.retries = @ + 1] \in Row
  <2> DEFINE m == [old EXCEPT !.status = s]
  <2>1. m \in Row
    BY <1>4
  <2> HIDE DEF m, Row
  <2>2. [m EXCEPT !.retries = old.retries + 1] \in Row
    BY <1>3, <1>4, <2>1
  <2> QED BY <2>2 DEF m
<1> QED BY <1>1, <1>5 DEF s

(* The rows keep their type, whatever is marked, removed or failed.         *)
LEMMA RowTypes ==
  ASSUME row \in [Ids -> Row \cup {None}], NEW S,
         \/ /\ S \subseteq Ids /\ None \notin {row[r] : r \in S}
            /\ Mark(S, "pending") \/ Mark(S, "processing")
         \/ Remove(S) \/ Fail(S)
  PROVE  row' \in [Ids -> Row \cup {None}]
<1>1. CASE /\ S \subseteq Ids /\ None \notin {row[r] : r \in S}
           /\ Mark(S, "pending") \/ Mark(S, "processing")
  BY <1>1, RowChanges DEF Mark
<1>2. CASE Remove(S)
  BY <1>2 DEF Remove
<1>3. CASE Fail(S)
  <2>1. ASSUME NEW r \in Ids PROVE row'[r] \in Row \cup {None}
    <3>1. CASE row[r] \in Row
      BY <1>3, <3>1, RowChanges DEF Fail
    <3>2. CASE row[r] = None
      BY <1>3, <3>2 DEF Fail
    <3> QED BY <3>1, <3>2
  <2> QED BY <1>3, <2>1 DEF Fail
<1> QED BY <1>1, <1>2, <1>3

LEMMA InsertTypes ==
  ASSUME row \in [Ids -> Row \cup {None}], used \in 0 .. MaxRows,
         NEW e \in Events, Insert(e)
  PROVE  /\ row' \in [Ids -> Row \cup {None}] /\ used' \in 0 .. MaxRows
         /\ used' = used + 1 /\ used' \in Ids
         /\ row'[used'] # None /\ row'[used'].event = e
         /\ \A r \in Ids : r # used' => row'[r] = row[r]
<1> DEFINE new == [event |-> e, status |-> "pending", retries |-> 0]
<1>1. new \in Row /\ new # None /\ new.event = e
  BY NoneAssumption DEF Row
<1>2. used' \in Ids /\ used' = used + 1
  BY BoundAssumption DEF Insert, Ids
<1>3. row' = [row EXCEPT ![used'] = new]
  BY DEF Insert
<1> HIDE DEF new
<1> QED BY <1>1, <1>2, <1>3 DEF Ids

LEMMA TypesStep ==
  ASSUME TypeOK, [Next]_vars
  PROVE  TypeOK'
<1> USE BoundAssumption DEF TypeOK
<1>1. CASE Recover
  <2>1. PICK S \in SUBSET Stuck : Mark(S \cup Again, "pending")
    BY <1>1 DEF Recover
  <2>2. S \cup Again \subseteq Ids /\ None \notin {row[r] : r \in S \cup Again}
    BY DEF Stuck, Again, Rows
  <2>3. row' \in [Ids -> Row \cup {None}]
    BY <2>1, <2>2, RowTypes
  <2> QED BY <1>1, <2>3 DEF Recover, worker, command
<1>2. ASSUME NEW p \in Procs, Start(p) PROVE TypeOK'
  BY <1>2 DEF Start, outbox, worker, command
<1>3. ASSUME NEW p \in Procs, Claim(p) PROVE TypeOK'
  <2>1. PICK S \in SUBSET Rows("pending") :
           /\ batch' = [batch EXCEPT ![p] =
                           {[id |-> r, event |-> row[r].event] : r \in S}]
           /\ Mark(S, "processing")
    BY <1>3 DEF Claim
  <2>2. S \subseteq Ids /\ \A r \in S : row[r] \in Row /\ row[r] # None
    BY DEF Rows
  <2>3. row' \in [Ids -> Row \cup {None}]
    BY <2>1, <2>2, RowTypes
  <2>4. {[id |-> r, event |-> row[r].event] : r \in S} \subseteq Item
    BY <2>2 DEF Item, Row
  <2> HIDE DEF Item, Row
  <2>5. batch' \in [Procs -> SUBSET Item]
    BY <2>1, <2>4
  <2> QED BY <1>3, <2>3, <2>5 DEF Claim, Enter, command, Phases
<1>4. ASSUME NEW p \in Procs, Look(p) PROVE TypeOK'
  BY <1>4 DEF Look, Enter, Phases, outbox, command
<1>5. ASSUME NEW p \in Procs, Upsert(p) PROVE TypeOK'
  <2>1. \A i \in good[p] :
           [id |-> i.id, event |-> i.event, model |-> ModelOf[p]] \in Vector
    BY DEF Item, Vector, Models, Ids
  <2>2. vectors' \subseteq Vector
    BY <1>5, <2>1 DEF Upsert
  <2> QED BY <1>5, <2>2 DEF Upsert, Enter, Phases, outbox, command
<1>6. ASSUME NEW p \in Procs, Complete(p) PROVE TypeOK'
  <2>1. row' \in [Ids -> Row \cup {None}]
    BY <1>6, RowTypes DEF Complete
  <2> QED BY <1>6, <2>1 DEF Complete, Rest, Enter, Phases, command
<1>7. ASSUME NEW p \in Procs, EndBatch(p) PROVE TypeOK'
  <2>1. row' \in [Ids -> Row \cup {None}]
    BY <1>7, RowTypes DEF EndBatch
  <2> QED BY <1>7, <2>1 DEF EndBatch, Rest, Enter, Phases, command
<1>8. ASSUME NEW p \in Procs, BatchFails(p) PROVE TypeOK'
  <2>1. row' \in [Ids -> Row \cup {None}]
    BY <1>8, RowTypes DEF BatchFails
  <2> QED BY <1>8, <2>1 DEF BatchFails, Rest, Enter, Phases, command
<1>9. ASSUME NEW p \in Procs, Stop(p) PROVE TypeOK'
  BY <1>9 DEF Stop, Do, Tasks, outbox
<1>10. ASSUME NEW p \in Procs, Close(p) PROVE TypeOK'
  BY <1>10 DEF Close, Do, Tasks, outbox
<1>11. ASSUME NEW p \in Procs, Crash(p) PROVE TypeOK'
  BY <1>11 DEF Crash, Rest, Enter, Do, Phases, Tasks, outbox
<1>12. ASSUME NEW p \in Procs, NEW e \in Events, Append(p, e) PROVE TypeOK'
  BY <1>12 DEF Append, Do, Tasks, outbox, worker
<1>13. ASSUME NEW p \in Procs, NEW e \in Events, Delete(p, e) PROVE TypeOK'
  <2>1. row' \in [Ids -> Row \cup {None}]
    BY <1>13, RowTypes DEF Delete
  <2> QED BY <1>13, <2>1 DEF Delete, worker, command
<1>14. ASSUME NEW p \in Procs, Enqueue(p) PROVE TypeOK'
  <2>1. row' \in [Ids -> Row \cup {None}] /\ used' \in 0 .. MaxRows
    BY <1>14, InsertTypes DEF Enqueue
  <2> QED BY <1>14, <2>1 DEF Enqueue, Do, Tasks, worker
<1>15. ASSUME NEW p \in Procs, ReadModel(p) PROVE TypeOK'
  BY <1>15 DEF ReadModel, Do, Tasks, Migration, outbox, worker
<1>16. ASSUME NEW p \in Procs, Decide(p) PROVE TypeOK'
  BY <1>16 DEF Decide, Do, Tasks, Migration, Models, outbox
<1>17. ASSUME NEW p \in Procs, ClearVectors(p) PROVE TypeOK'
  BY <1>17 DEF ClearVectors, Do, Tasks, Migration, outbox, worker
<1>18. ASSUME NEW p \in Procs, ClearOutbox(p) PROVE TypeOK'
  <2>1. row' \in [Ids -> Row \cup {None}]
    BY <1>18, RowTypes DEF ClearOutbox
  <2> QED BY <1>18, <2>1 DEF ClearOutbox, Do, Tasks, Migration, worker
<1>19. ASSUME NEW p \in Procs, ReadPage(p) PROVE TypeOK'
  <2>1. page' = [page EXCEPT ![p] = PageAt(offset[p])] /\ page'[p] \subseteq Events
    BY <1>19 DEF ReadPage, PageAt
  <2>2. Cardinality(page'[p]) \in Nat
    BY <2>1, EventsAreFinite
  <2> QED BY <1>19, <2>1, <2>2
          DEF ReadPage, Do, Tasks, Migration, outbox, worker
<1>20. ASSUME NEW p \in Procs, Requeue(p) PROVE TypeOK'
  <2>1. row' \in [Ids -> Row \cup {None}] /\ used' \in 0 .. MaxRows
    BY <1>20, InsertTypes DEF Requeue
  <2> QED BY <1>20, <2>1 DEF Requeue, Do, Tasks, Migration, worker
<1>21. ASSUME NEW p \in Procs, WriteMeta(p) PROVE TypeOK'
  BY <1>21 DEF WriteMeta, Do, Tasks, Models, outbox
<1>22. CASE UNCHANGED vars
  BY <1>22 DEF vars, outbox, worker, command
<1> QED BY <1>1, <1>2, <1>3, <1>4, <1>5, <1>6, <1>7, <1>8, <1>9, <1>10, <1>11,
           <1>12, <1>13, <1>14, <1>15, <1>16, <1>17, <1>18, <1>19, <1>20,
           <1>21, <1>22 DEF Next, Work, Step

LEMMA TypesInit ==
  ASSUME Init PROVE TypeOK
<1>1. vectors \subseteq Vector
  <2>1. stored \subseteq Events
    BY DEF Init
  <2>2. \A e \in stored :
           [id |-> -e, event |-> e, model |-> OldModel] \in Vector
    <3>1. \A e \in stored : e \in Nat /\ -e \in Int
      BY <2>1, EventsAssumption
    <3> QED BY <2>1, <3>1 DEF Vector, Models
  <2> QED BY <2>2 DEF Init
<1> QED BY <1>1, BoundAssumption
        DEF Init, TypeOK, Ids, Phases, Tasks, Models

(* The variables have their types, for any number of processes and events.  *)
THEOREM EmbeddingTypes == Spec => []TypeOK
BY TypesInit, TypesStep, PTL DEF Spec

-----------------------------------------------------------------------------
OneModel == \A p, q \in Procs : ModelOf[p] = ModelOf[q]

(* A migration that has cleared the vectors has left none of another model, *)
(* and what is added since is of its own.                                   *)
Cleared == {"clearOutbox", "page", "requeue", "writeMeta"}
ModelInv == \A p \in Procs : meta = ModelOf[p] \/ task[p] \in Cleared =>
                \A v \in vectors : v.model = ModelOf[p]

LEMMA ModelStep ==
  ASSUME OneModel, TypeOK, ModelInv, [Next]_vars
  PROVE  ModelInv'
<1> USE DEF TypeOK, ModelInv, Cleared
<1>1. CASE Recover
  BY <1>1 DEF Recover, command
<1>2. ASSUME NEW p \in Procs,
             Start(p) \/ Claim(p) \/ Look(p) \/ Complete(p) \/ EndBatch(p)
      PROVE  ModelInv'
  BY <1>2 DEF Start, Claim, Look, Complete, EndBatch, command
<1>3. ASSUME NEW p \in Procs, Upsert(p) PROVE ModelInv'
  BY <1>3 DEF Upsert, command, OneModel
<1>4. ASSUME NEW p \in Procs, Enqueue(p) \/ ReadPage(p) \/ Requeue(p)
      PROVE  ModelInv'
  BY <1>4 DEF Enqueue, ReadPage, Requeue, Do
<1>5. ASSUME NEW p \in Procs, Decide(p) PROVE ModelInv'
  BY <1>5 DEF Decide, Do
<1>6. ASSUME NEW p \in Procs, ClearVectors(p) \/ ClearOutbox(p)
      PROVE  ModelInv'
  BY <1>6 DEF ClearVectors, ClearOutbox, Do
<1>7. ASSUME NEW p \in Procs, WriteMeta(p) PROVE ModelInv'
  BY <1>7 DEF WriteMeta, Do, OneModel
<1>8. ASSUME NEW p \in Procs, BatchFails(p) \/ Stop(p) \/ Close(p) \/ Crash(p)
      PROVE  ModelInv'
  BY <1>8 DEF BatchFails, Stop, Close, Crash, Do, command
<1>9. ASSUME NEW p \in Procs, ReadModel(p) PROVE ModelInv'
  BY <1>9 DEF ReadModel, Do
<1>10. ASSUME NEW p \in Procs, NEW e \in Events, Append(p, e) \/ Delete(p, e)
       PROVE  ModelInv'
  BY <1>10 DEF Append, Delete, Do, command
<1>11. CASE UNCHANGED vars
  BY <1>11 DEF vars, command
<1> QED BY <1>1, <1>2, <1>3, <1>4, <1>5, <1>6, <1>7, <1>8, <1>9, <1>10, <1>11
        DEF Next, Work, Step

(* When all processes are configured with one model, no vector is of        *)
(* another than embedding-meta.json names, whether migrations overlap or    *)
(* are cut off anywhere, and whatever a batch in flight still adds.         *)
THEOREM VectorsAreOfTheModel ==
  ASSUME OneModel PROVE Spec => []MetaNamesModel
<1>1. ASSUME Init PROVE ModelInv
  <2>1. \A v \in vectors : v.model = OldModel
    BY <1>1 DEF Init
  <2>2. meta \in {OldModel, None}
    BY <1>1 DEF Init
  <2>3. \A p \in Procs : task[p] = "free"
    BY <1>1 DEF Init
  <2> QED BY <2>1, <2>2, <2>3, ModelAssumption DEF ModelInv, Cleared
<1>2. ModelInv => MetaNamesModel
  BY DEF ModelInv, MetaNamesModel
<1> QED BY <1>1, <1>2, EmbeddingTypes, ModelStep, PTL DEF Spec

-----------------------------------------------------------------------------
(* What a row id stands for, wherever the id is still known: the row, the   *)
(* items of a batch in flight, the vectors.  It never changes, as ids are   *)
(* not used again.                                                          *)
Names(r, e) ==
    \/ r \in Ids /\ row[r] # None /\ row[r].event = e
    \/ \E p \in Procs : \E i \in batch[p] : i.id = r /\ i.event = e
    \/ \E v \in vectors : v.id = r /\ v.event = e

NamesAgree == \A r \in Int : \A e, f \in Events :
                 Names(r, e) => r <= used /\ (Names(r, f) => e = f)

GoodInv == \A p \in Procs : /\ good[p] \subseteq batch[p]
                            /\ phase[p] \in {"idle", "claimed"} => good[p] = {}

RowsKeepEvents ==
    \A r \in Ids : row'[r] # None =>
                      row[r] # None /\ row'[r].event = row[r].event

LEMMA RowsStay ==
  ASSUME row \in [Ids -> Row \cup {None}], NEW S,
         \/ /\ S \subseteq Ids /\ None \notin {row[r] : r \in S}
            /\ Mark(S, "pending") \/ Mark(S, "processing")
         \/ Remove(S) \/ Fail(S)
  PROVE  RowsKeepEvents
<1>1. CASE /\ S \subseteq Ids /\ None \notin {row[r] : r \in S}
           /\ Mark(S, "pending") \/ Mark(S, "processing")
  BY <1>1 DEF Mark, Row, RowsKeepEvents
<1>2. CASE Remove(S)
  BY <1>2 DEF Remove, RowsKeepEvents
<1>3. CASE Fail(S)
  BY <1>3 DEF Fail, Row, RowsKeepEvents
<1> QED BY <1>1, <1>2, <1>3

(* A step names nothing anew but the row it inserts.                        *)
NamesKept == /\ used' = used
             /\ \A r \in Int : \A e \in Events : Names(r, e)' => Names(r, e)
NamesGrow ==
    \E f \in Events : /\ used' = used + 1
                      /\ \A r \in Int : \A e \in Events :
                            Names(r, e)' => Names(r, e) \/ (r = used' /\ e = f)

LEMMA NamesStep ==
  ASSUME TypeOK, GoodInv, [Next]_vars
  PROVE  NamesKept \/ NamesGrow
<1> USE DEF TypeOK
<1>1. ASSUME RowsKeepEvents, \A p \in Procs : batch'[p] \subseteq batch[p],
             vectors' \subseteq vectors, used' = used
      PROVE  NamesKept
  BY <1>1 DEF Names, NamesKept, RowsKeepEvents
<1>2. ASSUME NEW e \in Events, Insert(e), batch' = batch, vectors' = vectors
      PROVE  NamesGrow
  <2>1. used' = used + 1 /\ \A r \in Ids : r # used' => row'[r] = row[r]
    BY <1>2, InsertTypes
  <2>2. row'[used'].event = e
    BY <1>2, InsertTypes
  <2>3. ASSUME NEW r \in Int, NEW f \in Events, Names(r, f)'
        PROVE  Names(r, f) \/ (r = used' /\ f = e)
    BY <1>2, <2>1, <2>2, <2>3 DEF Names
  <2> QED BY <2>1, <2>3 DEF NamesGrow
<1>4. row' = row => RowsKeepEvents
  BY DEF RowsKeepEvents
<1>5. CASE Recover
  <2>1. PICK S \in SUBSET Stuck : Mark(S \cup Again, "pending")
    BY <1>5 DEF Recover
  <2>2. S \cup Again \subseteq Ids /\ None \notin {row[r] : r \in S \cup Again}
    BY DEF Stuck, Again, Rows
  <2>3. RowsKeepEvents
    BY <2>1, <2>2, RowsStay
  <2> QED BY <1>1, <1>5, <2>3 DEF Recover, worker
<1>6. ASSUME NEW p \in Procs, Claim(p) PROVE NamesKept
  <2>1. PICK S \in SUBSET Rows("pending") :
           /\ batch' = [batch EXCEPT ![p] =
                           {[id |-> r, event |-> row[r].event] : r \in S}]
           /\ Mark(S, "processing")
    BY <1>6 DEF Claim
  <2>2. S \subseteq Ids /\ \A r \in S : row[r] # None
    BY DEF Rows
  <2>3. RowsKeepEvents
    BY <2>1, <2>2, RowsStay
  <2>4. used' = used /\ vectors' = vectors
    BY <1>6 DEF Claim
  <2>5. ASSUME NEW q \in Procs, NEW i \in batch'[q]
        PROVE  \/ i \in batch[q]
               \/ i.id \in Ids /\ row[i.id] # None /\ row[i.id].event = i.event
    BY <2>1, <2>2
  <2> QED BY <2>3, <2>4, <2>5 DEF NamesKept, Names, RowsKeepEvents
<1>7. ASSUME NEW p \in Procs, Upsert(p) PROVE NamesKept
  <2>1. row' = row /\ used' = used /\ batch' = batch
    BY <1>7 DEF Upsert, outbox
  <2>2. ASSUME NEW v \in vectors'
        PROVE  v \in vectors \/ \E i \in batch[p] : v.id = i.id /\ v.event = i.event
    BY <1>7, <2>2 DEF Upsert, GoodInv
  <2> QED BY <2>1, <2>2 DEF NamesKept, Names
<1>8. ASSUME NEW p \in Procs,
             \/ Start(p) \/ Look(p) \/ Stop(p) \/ Close(p) \/ ReadModel(p)
             \/ Decide(p) \/ ReadPage(p) \/ WriteMeta(p) \/ ClearVectors(p)
             \/ Crash(p) \/ \E e \in Events : Append(p, e)
      PROVE  NamesKept
  <2>1. row' = row /\ used' = used /\ vectors' \subseteq vectors
    BY <1>8 DEF Start, Look, Stop, Close, ReadModel, Decide, ReadPage,
                WriteMeta, ClearVectors, Crash, Append, outbox
  <2>2. batch' = batch \/ batch' = [batch EXCEPT ![p] = {}]
    BY <1>8 DEF Start, Look, Stop, Close, ReadModel, Decide, ReadPage,
                WriteMeta, ClearVectors, Crash, Append, Rest, worker
  <2> QED BY <1>1, <1>4, <2>1, <2>2
<1>9. ASSUME NEW p \in Procs,
             \/ Complete(p) \/ EndBatch(p) \/ BatchFails(p) \/ ClearOutbox(p)
             \/ \E e \in Events : Delete(p, e)
      PROVE  NamesKept
  <2>1. used' = used /\ vectors' = vectors
    BY <1>9 DEF Complete, EndBatch, BatchFails, ClearOutbox, Delete
  <2>2. batch' = batch \/ batch' = [batch EXCEPT ![p] = {}]
    BY <1>9 DEF Complete, EndBatch, BatchFails, ClearOutbox, Delete, Rest, worker
  <2>3. RowsKeepEvents
    BY <1>4, <1>9, RowsStay
       DEF Complete, EndBatch, BatchFails, ClearOutbox, Delete
  <2> QED BY <1>1, <2>1, <2>2, <2>3
<1>10. ASSUME NEW p \in Procs, Enqueue(p) \/ Requeue(p) PROVE NamesGrow
  <2>1. PICK e \in page[p] : Insert(e)
    BY <1>10 DEF Enqueue, Requeue
  <2> QED BY <1>2, <1>10, <2>1 DEF Enqueue, Requeue, worker
<1>11. CASE UNCHANGED vars
  BY <1>1, <1>4, <1>11 DEF vars, outbox, worker
<1> QED BY <1>5, <1>6, <1>7, <1>8, <1>9, <1>10, <1>11 DEF Next, Work, Step

(* Ids are never used again, so that a name goes for good.                  *)
LEMMA NamesStayApart ==
  ASSUME used \in Nat, NamesAgree, NamesKept \/ NamesGrow
  PROVE  NamesAgree'
<1>1. CASE NamesKept
  BY <1>1 DEF NamesAgree, NamesKept
<1>2. CASE NamesGrow
  <2>1. PICK f \in Events :
           /\ used' = used + 1
           /\ \A r \in Int : \A e \in Events :
                 Names(r, e)' => Names(r, e) \/ (r = used' /\ e = f)
    BY <1>2 DEF NamesGrow
  <2>2. ASSUME NEW r \in Int, NEW e \in Events, NEW g \in Events, Names(r, e)'
        PROVE  r <= used' /\ (Names(r, g)' => e = g)
    BY <2>1, <2>2 DEF NamesAgree
  <2> QED BY <2>2 DEF NamesAgree
<1> QED BY <1>1, <1>2

(* Steps that are none of a worker's leave the batches as they are.         *)
LEMMA BatchesStay ==
  ASSUME [Next]_vars
  PROVE  \/ \E p \in Procs : Claim(p) \/ Look(p) \/ Upsert(p)
         \/ \E p \in Procs :
               Complete(p) \/ EndBatch(p) \/ BatchFails(p) \/ Crash(p)
         \/ UNCHANGED <<phase, batch, good>>
<1>1. ASSUME NEW p \in Procs,
             \/ Start(p) \/ Stop(p) \/ Close(p) \/ Enqueue(p) \/ ReadModel(p)
             \/ Decide(p) \/ ClearVectors(p) \/ ClearOutbox(p) \/ ReadPage(p)
             \/ Requeue(p) \/ WriteMeta(p)
      PROVE  UNCHANGED <<phase, batch, good>>
  BY <1>1 DEF Start, Stop, Close, Enqueue, ReadModel, Decide, ClearVectors,
              ClearOutbox, ReadPage, Requeue, WriteMeta, worker
<1>2. ASSUME NEW p \in Procs, NEW e \in Events, Append(p, e) \/ Delete(p, e)
      PROVE  UNCHANGED <<phase, batch, good>>
  BY <1>2 DEF Append, Delete, worker
<1>3. CASE Recover
  BY <1>3 DEF Recover, worker
<1>4. CASE UNCHANGED vars
  BY <1>4 DEF vars, worker
<1> QED BY <1>1, <1>2, <1>3, <1>4 DEF Next, Work, Step

LEMMA GoodStep ==
  ASSUME TypeOK, GoodInv, [Next]_vars
  PROVE  GoodInv'
<1> USE DEF TypeOK, GoodInv
<1>1. ASSUME NEW p \in Procs, Claim(p) \/ Look(p) \/ Upsert(p)
      PROVE  GoodInv'
  BY <1>1 DEF Claim, Look, Upsert, Enter
<1>2. ASSUME NEW p \in Procs,
             Complete(p) \/ EndBatch(p) \/ BatchFails(p) \/ Crash(p)
      PROVE  GoodInv'
  BY <1>2 DEF Complete, EndBatch, BatchFails, Crash, Rest, Enter
<1>3. CASE UNCHANGED <<phase, batch, good>>
  BY <1>3
<1> QED BY <1>1, <1>2, <1>3, BatchesStay

-----------------------------------------------------------------------------
(* The page of a migration: the ranks of the events go up by one, so that a *)
(* page that is not full is the last.                                       *)
RankOf(e) == Cardinality({f \in stored : f <= e})

LEMMA Ranks ==
  ASSUME stored \subseteq Events
  PROVE  /\ \A e \in stored : RankOf(e) \in 1 .. Cardinality(stored)
         /\ \A e, f \in stored : RankOf(e) = RankOf(f) => e = f
         /\ \A k \in 1 .. Cardinality(stored) : \E e \in stored : RankOf(e) = k
<1> DEFINE Low(e) == {f \in stored : f <= e}
           n == Cardinality(stored)
<1>1. stored \subseteq Nat /\ IsFiniteSet(stored) /\ n \in Nat
  BY EventsAssumption, EventsAreFinite
<1>2. ASSUME NEW e \in stored
      PROVE  IsFiniteSet(Low(e)) /\ Cardinality(Low(e)) \in 1 .. n
  <2>1. IsFiniteSet(Low(e)) /\ Cardinality(Low(e)) \in Nat
    BY <1>1, FS_Subset, FS_CardinalityType
  <2>2. Cardinality(Low(e)) <= n
    BY <1>1, FS_Subset
  <2>3. e \in Low(e)
    BY <1>1
  <2>4. Cardinality(Low(e)) # 0
    BY <2>1, <2>3, FS_EmptySet
  <2> QED BY <1>1, <2>1, <2>2, <2>4
<1>3. ASSUME NEW e \in stored, NEW f \in stored, e < f
      PROVE  RankOf(e) # RankOf(f)
  <2>1. Low(e) \subseteq Low(f) /\ f \in Low(f) /\ f \notin Low(e)
    <3>1. e \in Nat /\ f \in Nat /\ \A g \in stored : g \in Nat
      BY <1>1
    <3>2. \A g \in stored : g <= e => g <= f
      BY <1>3, <3>1
    <3>3. e <= f /\ ~(f <= e) /\ f <= f
      BY <1>3, <3>1
    <3> QED BY <3>2, <3>3
  <2> HIDE DEF Low
  <2>2. Cardinality(Low(f)) = Cardinality(Low(e)) => Low(f) = Low(e)
    BY <1>2, <2>1, FS_Subset
  <2> QED BY <2>1, <2>2 DEF RankOf, Low
<1>4. \A e, f \in stored : RankOf(e) = RankOf(f) => e = f
  <2>1. ASSUME NEW e \in stored, NEW f \in stored
        PROVE  e < f \/ f < e \/ e = f
    BY <1>1
  <2> QED BY <1>3, <2>1
<1>5. \A e \in stored : RankOf(e) \in 1 .. n
  BY <1>2 DEF RankOf
<1> DEFINE F == [e \in stored |-> RankOf(e)]
<1> HIDE DEF n
<1>6. F \in Injection(stored, 1 .. n)
  BY <1>4, <1>5, Fun_IsInj
<1>7. IsFiniteSet(1 .. n) /\ Cardinality(1 .. n) = n
  BY <1>1, FS_Interval
<1>8. F \in Surjection(stored, 1 .. n)
  BY <1>6, <1>7, FS_Injection DEF n
<1>9. \A k \in 1 .. n : \E e \in stored : RankOf(e) = k
  <2> HIDE DEF F
  <2>1. \A k \in 1 .. n : \E e \in stored : F[e] = k
    BY <1>8, Fun_SurjectionProperties
  <2> QED BY <2>1 DEF F
<1> QED BY <1>4, <1>5, <1>9 DEF n

LEMMA WholePages ==
  ASSUME NEW a \in Int, NEW k \in Int, k > 0, a % k = 0
  PROVE  (a + k) % k = 0
<1>1. a \div k \in Int
  OBVIOUS
<1>2. a = (a \div k) * k
  OBVIOUS
<1>3. PICK n \in Int : a = n * k
  BY <1>1, <1>2
<1>4. a + k = (n + 1) * k
  BY <1>3
<1> QED BY <1>4

LEMMA PageFills ==
  ASSUME stored \subseteq Events, NEW o \in Nat
  PROVE  /\ Cardinality(PageAt(o)) \in 0 .. PageSize
         /\ Cardinality(PageAt(o)) < PageSize =>
               \A e \in stored : RankOf(e) <= o \/ e \in PageAt(o)
         /\ PageAt(o) = {e \in stored : RankOf(e) > o /\ RankOf(e) <= o + PageSize}
<1> DEFINE S == PageAt(o)
           T == o + 1 .. o + PageSize
           F == [e \in S |-> RankOf(e)]
<1>1. S = {e \in stored : RankOf(e) > o /\ RankOf(e) <= o + PageSize}
  BY DEF PageAt, RankOf
<1>2. IsFiniteSet(S) /\ Cardinality(S) \in Nat
  BY <1>1, EventsAreFinite
<1>3. \A e \in S : RankOf(e) \in T
  BY <1>1, Ranks, SizeAssumption
<1>4. IsFiniteSet(T) /\ Cardinality(T) = PageSize
  BY SizeAssumption, FS_Interval
<1>5. F \in Injection(S, T)
  BY <1>1, <1>3, Ranks, Fun_IsInj
<1>6. Cardinality(S) <= PageSize
  BY <1>4, <1>5, FS_Injection
<1>7. ASSUME NEW e \in stored, ~(RankOf(e) <= o), e \notin S
      PROVE  Cardinality(S) = PageSize
  <2>1. RankOf(e) > o + PageSize /\ Cardinality(stored) \in Nat
    BY <1>1, <1>7, Ranks, SizeAssumption, EventsAreFinite
  <2>2. \A k \in T : k \in 1 .. Cardinality(stored)
    BY <2>1, Ranks, SizeAssumption
  <2>3. \A k \in T : \E f \in S : RankOf(f) = k
    BY <1>1, <2>2, Ranks, SizeAssumption
  <2>4. F \in [S -> T] /\ \A k \in T : \E f \in S : F[f] = k
    BY <1>3, <2>3
  <2> HIDE DEF S, T, F
  <2>5. F \in Surjection(S, T)
    BY <2>4, Fun_IsSurj
  <2>6. Cardinality(T) <= Cardinality(S)
    BY <1>2, <2>5, FS_Surjection
  <2> QED BY <1>2, <1>4, <1>6, <2>6, SizeAssumption
<1> HIDE DEF S
<1>8. Cardinality(S) \in 0 .. PageSize
  BY <1>2, <1>6, SizeAssumption
<1>9. Cardinality(S) < PageSize =>
         \A e \in stored : RankOf(e) <= o \/ e \in S
  BY <1>7, <1>8, SizeAssumption
<1> QED BY <1>1, <1>8, <1>9 DEF S

-----------------------------------------------------------------------------
(* One migration at a time, from a file that names another model.           *)
Refill == {"page", "requeue", "writeMeta"}
TaskInv ==
    /\ \A p, q \in Procs :
          task[p] \in Migration /\ task[q] \in Migration => p = q
    /\ meta # None
    /\ \A p \in Procs :
          /\ task[p] = "count" => prev[p] = meta
          /\ task[p] \in Migration \ {"count"} => meta # ModelOf[p]
          /\ page[p] # {} => task[p] \in {"requeue", "enqueue"}
          /\ task[p] = "enqueue" => \A e, f \in page[p] : e = f
          /\ task[p] \notin Refill => offset[p] = 0
          /\ task[p] = "page" => offset[p] % PageSize = 0

LEMMA TaskStep ==
  ASSUME ~Overlap, OneModel, TypeOK, TaskInv, [Next]_vars
  PROVE  TaskInv'
<1> USE DEF TypeOK, TaskInv, Migration, Refill
<1>1. ASSUME NEW p \in Procs, NEW e \in Events, Append(p, e) PROVE TaskInv'
  BY <1>1 DEF Append, Free, Do
<1>2. ASSUME NEW p \in Procs, Enqueue(p) PROVE TaskInv'
  BY <1>2 DEF Enqueue, Do
<1>3. ASSUME NEW p \in Procs, ReadModel(p) PROVE TaskInv'
  BY <1>3 DEF ReadModel, Free, Do, Migrating
<1>4. ASSUME NEW p \in Procs, Decide(p) PROVE TaskInv'
  <2>1. prev[p] = meta /\ meta' = meta
    BY <1>4 DEF Decide
  <2>2. \A q \in Procs \ {p} : task[q] \notin Migration
    BY <1>4 DEF Decide
  <2> QED BY <1>4, <2>1, <2>2 DEF Decide, Do
<1>5. ASSUME NEW p \in Procs, ClearVectors(p) PROVE TaskInv'
  BY <1>5 DEF ClearVectors, Do
<1>6. ASSUME NEW p \in Procs, ClearOutbox(p) PROVE TaskInv'
  BY <1>6, SizeAssumption DEF ClearOutbox, Do
<1>7. ASSUME NEW p \in Procs, ReadPage(p) PROVE TaskInv'
  BY <1>7 DEF ReadPage, Do
<1>8. ASSUME NEW p \in Procs, Requeue(p) PROVE TaskInv'
  BY <1>8 DEF Requeue, Do
<1>9. ASSUME NEW p \in Procs, WriteMeta(p) PROVE TaskInv'
  <2>1. \A q \in Procs \ {p} : task[q] \notin Migration
    BY <1>9 DEF WriteMeta
  <2> QED BY <1>9, <2>1, ModelAssumption DEF WriteMeta, Do
<1>10. ASSUME NEW p \in Procs, Stop(p) \/ Close(p) \/ Crash(p) PROVE TaskInv'
  BY <1>10 DEF Stop, Close, Crash, Free, Do
<1>11. CASE UNCHANGED <<task, prev, offset, page, meta>>
  BY <1>11
<1>12. ASSUME NEW p \in Procs,
              \/ Start(p) \/ Claim(p) \/ Look(p) \/ Upsert(p) \/ Complete(p)
              \/ EndBatch(p) \/ BatchFails(p) \/ \E e \in Events : Delete(p, e)
       PROVE  UNCHANGED <<task, prev, offset, page, meta>>
  BY <1>12 DEF Start, Claim, Look, Upsert, Complete, EndBatch, BatchFails,
               Delete, command
<1>13. Recover => UNCHANGED <<task, prev, offset, page, meta>>
  BY DEF Recover, command
<1>14. UNCHANGED vars => UNCHANGED <<task, prev, offset, page, meta>>
  BY DEF vars, command
<1> QED BY <1>1, <1>2, <1>3, <1>4, <1>5, <1>6, <1>7, <1>8, <1>9, <1>10, <1>11,
           <1>12, <1>13, <1>14 DEF Next, Work, Step

-----------------------------------------------------------------------------
Covered(e) == Indexed(e) \/ Queued(e) \/ Awaited(e) \/ e \in orphans

(* The file names the configured model, or a migration has emptied the      *)
(* store and fills it again.                                                *)
Rebuilt == \/ \E p \in Procs : meta = ModelOf[p]
           \/ \E p \in Procs : task[p] \in Refill

(* p has nothing left to read.                                              *)
ReadAll(p) == \/ meta = ModelOf[p] \/ task[p] = "writeMeta"
              \/ task[p] = "requeue" /\ offset[p] % PageSize # 0

(* A row that a batch in flight will complete has its vector, unless that   *)
(* is about to be cleared, and the row with it.                             *)
UpsertedInv ==
    \A p \in Procs : \A i \in good[p] :
        phase[p] = "upserted" =>
            Indexed(i.event) \/ row[i.id] = None \/ ~Rebuilt

CoverInv ==
    /\ \A p \in Procs : ReadAll(p) => \A e \in stored : Covered(e)
    /\ \A p \in Procs : task[p] \in {"page", "requeue"} =>
          \A e \in stored : RankOf(e) <= offset[p] => Covered(e)

RowsRemain == \A r \in Ids : row[r] # None =>
                                row'[r] # None /\ row'[r].event = row[r].event

LEMMA RowsGoOn ==
  ASSUME row \in [Ids -> Row \cup {None}], NEW S,
         \/ S \subseteq Ids /\ (Mark(S, "pending") \/ Mark(S, "processing"))
         \/ Fail(S)
  PROVE  RowsRemain
<1> DEFINE Failed(r) == [row[r] EXCEPT
                           !.status = IF row[r].retries >= MaxRetries
                                      THEN "failed" ELSE "pending",
                           !.retries = @ + 1]
<1>1. ASSUME NEW s \in {"pending", "processing"}, S \subseteq Ids, Mark(S, s)
      PROVE  RowsRemain
  <2>1. ASSUME NEW r \in Ids, row[r] # None
        PROVE  row'[r] # None /\ row'[r].event = row[r].event
    <3>1. row[r] \in Row
      BY <2>1
    <3>2. /\ [row[r] EXCEPT !.status = s] \in Row
          /\ [row[r] EXCEPT !.status = s].event = row[r].event
      BY <3>1, RowChanges DEF Row
    <3>3. row'[r] = row[r] \/ row'[r] = [row[r] EXCEPT !.status = s]
      BY <1>1 DEF Mark
    <3> QED BY <2>1, <3>2, <3>3, NoneAssumption
  <2> QED BY <2>1 DEF RowsRemain
<1>2. CASE Fail(S)
  <2>1. ASSUME NEW r \in Ids, row[r] # None
        PROVE  row'[r] # None /\ row'[r].event = row[r].event
    <3>1. row[r] \in Row
      BY <2>1
    <3>2. Failed(r) \in Row /\ Failed(r).event = row[r].event
      BY <3>1, RowChanges DEF Row
    <3>3. row'[r] = row[r] \/ row'[r] = Failed(r)
      BY <1>2 DEF Fail
    <3> HIDE DEF Failed
    <3> QED BY <2>1, <3>2, <3>3, NoneAssumption
  <2> QED BY <2>1 DEF RowsRemain
<1> QED BY <1>1, <1>2

(* What goes on, goes on covered.                                           *)
LEMMA CoverKept ==
  ASSUME OneModel, TypeOK, TaskInv, GoodInv, NamesAgree, UpsertedInv,
         [Next]_vars, Rebuilt, Rebuilt',
         NEW e \in stored, e \in stored', Covered(e)
  PROVE  Covered(e)'
<1> USE DEF TypeOK, Covered
<1>1. ASSUME RowsRemain, page' = page, vectors' = vectors, orphans' = orphans
      PROVE  Covered(e)'
  BY <1>1 DEF RowsRemain, Indexed, Queued, Awaited
<1>2. row' = row => RowsRemain
  BY DEF RowsRemain
<1>3. CASE Recover
  <2>1. PICK S \in SUBSET Stuck : Mark(S \cup Again, "pending")
    BY <1>3 DEF Recover
  <2>2. S \cup Again \subseteq Ids
    BY DEF Stuck, Again, Rows
  <2>3. RowsRemain
    BY <2>1, <2>2, RowsGoOn
  <2> QED BY <1>1, <1>3, <2>3 DEF Recover, command
<1>4. ASSUME NEW p \in Procs, Claim(p) PROVE Covered(e)'
  <2>1. PICK S \in SUBSET Rows("pending") : Mark(S, "processing")
    BY <1>4 DEF Claim
  <2>2. RowsRemain
    BY <2>1, RowsGoOn DEF Rows
  <2> QED BY <1>1, <1>4, <2>2 DEF Claim, command
<1>5. ASSUME NEW p \in Procs, EndBatch(p) \/ BatchFails(p) PROVE Covered(e)'
  <2>1. RowsRemain
    BY <1>2, <1>5, RowsGoOn DEF EndBatch, BatchFails
  <2> QED BY <1>1, <1>5, <2>1 DEF EndBatch, BatchFails, command
<1>6. ASSUME NEW p \in Procs, Upsert(p) PROVE Covered(e)'
  <2>1. row' = row /\ page' = page /\ orphans' = orphans
    BY <1>6 DEF Upsert, outbox, command
  <2>2. ASSUME NEW v \in vectors, v.event = e PROVE Indexed(e)'
    <3>1. CASE v.id \notin IdsOf(good[p])
      BY <1>6, <2>2, <3>1 DEF Upsert, Indexed
    <3>2. ASSUME NEW i \in good[p], v.id = i.id PROVE Indexed(e)'
      <4>1. i \in batch[p] /\ i.id \in Int /\ i.event \in Events
        BY DEF GoodInv, Item, Ids
      <4>2. Names(i.id, i.event) /\ Names(i.id, e)
        BY <2>2, <3>2, <4>1 DEF Names
      <4>3. i.event = e
        BY <4>1, <4>2 DEF NamesAgree
      <4>4. [id |-> i.id, event |-> i.event, model |-> ModelOf[p]] \in vectors'
        BY <1>6 DEF Upsert
      <4> QED BY <4>3, <4>4 DEF Indexed
    <3> QED BY <3>1, <3>2 DEF IdsOf
  <2> QED BY <2>1, <2>2 DEF Indexed, Queued, Awaited
<1>7. ASSUME NEW p \in Procs, Complete(p) PROVE Covered(e)'
  <2>1. vectors' = vectors /\ page' = page /\ orphans' = orphans
    BY <1>7 DEF Complete, command
  <2>2. ASSUME NEW r \in Ids, row[r] # None, row[r].event = e
        PROVE  Queued(e)' \/ Indexed(e)
    <3>1. CASE r \notin IdsOf(good[p])
      BY <1>7, <2>2, <3>1 DEF Complete, Remove, Queued
    <3>2. ASSUME NEW i \in good[p], r = i.id PROVE Indexed(e)
      <4>1. i \in batch[p] /\ i.id \in Int /\ i.event \in Events
        BY DEF GoodInv, Item, Ids
      <4>2. Names(i.id, i.event) /\ Names(i.id, e)
        BY <2>2, <3>2, <4>1 DEF Names
      <4>3. i.event = e
        BY <4>1, <4>2 DEF NamesAgree
      <4>4. phase[p] = "upserted"
        BY <1>7 DEF Complete
      <4> QED BY <2>2, <3>2, <4>3, <4>4 DEF UpsertedInv
    <3> QED BY <3>1, <3>2 DEF IdsOf
  <2> QED BY <2>1, <2>2 DEF Indexed, Queued, Awaited
<1>8. ASSUME NEW p \in Procs, Start(p) \/ Look(p) \/ Stop(p) \/ Close(p)
                              \/ ReadModel(p) \/ Decide(p) \/ WriteMeta(p)
      PROVE  Covered(e)'
  BY <1>1, <1>2, <1>8
     DEF Start, Look, Stop, Close, ReadModel, Decide, WriteMeta, outbox, command
<1>9. ASSUME NEW p \in Procs, Crash(p) PROVE Covered(e)'
  <2>1. row' = row /\ vectors' = vectors /\ orphans \subseteq orphans'
    BY <1>9 DEF Crash, outbox
  <2>2. \A q \in Procs \ {p} : page'[q] = page[q]
    BY <1>9 DEF Crash
  <2>3. CASE task[p] \in {"enqueue"} \/ page[p] = {}
    BY <1>9, <2>1, <2>2, <2>3 DEF Crash, Indexed, Queued, Awaited
  <2>4. task[p] # "requeue"
    <3>1. SUFFICES ASSUME task[p] = "requeue" PROVE FALSE
      OBVIOUS
    <3>2. \A q \in Procs : meta # ModelOf[q] /\ task'[q] \notin Refill
      BY <1>9, <3>1 DEF Crash, Do, TaskInv, Migration, Refill, OneModel
    <3> QED BY <1>9, <3>2 DEF Crash, Rebuilt
  <2> QED BY <2>3, <2>4 DEF TaskInv
<1>10. ASSUME NEW p \in Procs, NEW f \in Events, Append(p, f)
       PROVE  Covered(e)'
  <2>1. page[p] = {}
    BY <1>10 DEF Append, Free, TaskInv
  <2> QED BY <1>10, <2>1 DEF Append, outbox, Indexed, Queued, Awaited
<1>11. ASSUME NEW p \in Procs, NEW f \in Events, Delete(p, f)
       PROVE  Covered(e)'
  BY <1>11 DEF Delete, Remove, command, Indexed, Queued, Awaited
<1>12. ASSUME NEW p \in Procs, Enqueue(p) \/ Requeue(p) PROVE Covered(e)'
  <2>1. PICK f \in page[p] : Insert(f) /\ \A g \in page[p] : g = f \/ g \in page'[p]
    <3>1. CASE Requeue(p)
      BY <3>1 DEF Requeue
    <3>2. CASE Enqueue(p)
      BY <3>2 DEF Enqueue, TaskInv
    <3> QED BY <1>12, <3>1, <3>2
  <2>2. /\ row'[used'] # None /\ row'[used'].event = f /\ used' \in Ids
        /\ \A r \in Ids : r # used' => row'[r] = row[r]
    BY <2>1, InsertTypes
  <2>3. vectors' = vectors /\ orphans' = orphans
    BY <1>12 DEF Enqueue, Requeue
  <2>4. \A q \in Procs : page'[q] = page[q] \/ q = p
    BY <1>12 DEF Enqueue, Requeue
  <2>5. Queued(e) => Queued(e)'
    <3>1. ASSUME NEW r \in Ids, row[r] # None, row[r].event = e
          PROVE  Queued(e)'
      <4>1. r \in Int /\ r <= used /\ used' = used + 1
        <5>1. used' = used + 1
          BY <2>1, InsertTypes
        <5>2. r \in Int /\ e \in Events /\ Names(r, e)
          BY <3>1 DEF Names, Ids
        <5> QED BY <5>1, <5>2 DEF NamesAgree
      <4>2. row'[r] = row[r]
        BY <2>2, <4>1, BoundAssumption
      <4> QED BY <3>1, <4>2 DEF Queued
    <3> QED BY <3>1 DEF Queued
  <2>6. Awaited(e) => Awaited(e)' \/ Queued(e)'
    <3>1. ASSUME NEW q \in Procs, e \in page[q], e # f PROVE e \in page'[q]
      BY <2>1, <2>4, <3>1
    <3>2. CASE e = f
      BY <2>2, <3>2 DEF Queued
    <3> QED BY <3>1, <3>2 DEF Awaited
  <2> QED BY <2>3, <2>5, <2>6 DEF Indexed
<1>13. ASSUME NEW p \in Procs, ClearVectors(p) \/ ClearOutbox(p) PROVE FALSE
  <2>1. \A q \in Procs : meta # ModelOf[q] /\ task[q] \notin Refill
    BY <1>13 DEF ClearVectors, ClearOutbox, TaskInv, Migration, Refill, OneModel
  <2> QED BY <2>1 DEF Rebuilt
<1>14. ASSUME NEW p \in Procs, ReadPage(p) PROVE Covered(e)'
  <2>1. page[p] = {}
    BY <1>14 DEF ReadPage, TaskInv
  <2> QED BY <1>14, <2>1 DEF ReadPage, outbox, Indexed, Queued, Awaited
<1>15. CASE UNCHANGED vars
  BY <1>1, <1>2, <1>15 DEF vars, outbox, command
<1> QED BY <1>3, <1>4, <1>5, <1>6, <1>7, <1>8, <1>9, <1>10, <1>11, <1>12,
           <1>13, <1>14, <1>15 DEF Next, Work, Step

(* Only a migration that has cleared embedding_outbox as well begins to     *)
(* fill the store.                                                          *)
LEMMA RebuiltStarts ==
  ASSUME OneModel, TypeOK, TaskInv, [Next]_vars, ~Rebuilt, Rebuilt'
  PROVE  \E p \in Procs : ClearOutbox(p)
<1> USE DEF TypeOK
<1>1. \/ UNCHANGED <<task, meta>>
      \/ \E p \in Procs :
            \/ ClearOutbox(p)
            \/ meta' = meta /\ \E t \in Tasks \ Refill : task' = [task EXCEPT ![p] = t]
            \/ ReadPage(p) \/ Requeue(p) \/ WriteMeta(p)
  <2>1. ASSUME NEW p \in Procs,
               \/ Stop(p) \/ Close(p) \/ Crash(p) \/ Enqueue(p) \/ ReadModel(p)
               \/ ClearVectors(p) \/ \E e \in Events : Append(p, e)
        PROVE  meta' = meta /\ \E t \in Tasks \ Refill : task' = [task EXCEPT ![p] = t]
    BY <2>1 DEF Stop, Close, Crash, Append, Enqueue, ReadModel, ClearVectors, Do,
           Refill, Tasks, Migration
  <2>2. ASSUME NEW p \in Procs, Decide(p)
        PROVE  meta' = meta /\ \E t \in Tasks \ Refill : task' = [task EXCEPT ![p] = t]
    <3>1. meta' = meta
      BY <2>2 DEF Decide, TaskInv
    <3>2. \E t \in {"free", "clearVectors"} : task' = [task EXCEPT ![p] = t]
      BY <2>2 DEF Decide, Do
    <3> QED BY <3>1, <3>2 DEF Refill, Tasks, Migration
  <2>3. \/ UNCHANGED <<task, meta>>
        \/ \E p \in Procs :
              \/ Stop(p) \/ Close(p) \/ Crash(p) \/ Enqueue(p) \/ ReadModel(p)
              \/ ClearVectors(p) \/ (\E e \in Events : Append(p, e))
              \/ Decide(p) \/ ClearOutbox(p)
              \/ ReadPage(p) \/ Requeue(p) \/ WriteMeta(p)
    BY DEF Next, Work, Step, Recover, Start, Claim, Look, Upsert, Complete,
           EndBatch, BatchFails, Delete, vars, command
  <2> QED BY <2>1, <2>2, <2>3
<1>2. CASE UNCHANGED <<task, meta>>
  BY <1>2 DEF Rebuilt
<1>3. ASSUME NEW p \in Procs, meta' = meta, NEW t \in Tasks \ Refill,
             task' = [task EXCEPT ![p] = t]
      PROVE  FALSE
  BY <1>3 DEF Rebuilt
<1>4. ASSUME NEW p \in Procs, ReadPage(p) \/ Requeue(p) \/ WriteMeta(p)
      PROVE  FALSE
  BY <1>4 DEF ReadPage, Requeue, WriteMeta, Rebuilt, Refill
<1> QED BY <1>1, <1>2, <1>3, <1>4

LEMMA UpsertedStep ==
  ASSUME OneModel, TypeOK, TaskInv, GoodInv, NamesAgree, UpsertedInv,
         [Next]_vars
  PROVE  UpsertedInv'
<1> USE DEF TypeOK
<1> SUFFICES ASSUME NEW p \in Procs, NEW i \in good'[p],
                    phase'[p] = "upserted", Rebuilt'
             PROVE  Indexed(i.event)' \/ row'[i.id] = None
  BY DEF UpsertedInv
<1>1. CASE ~Rebuilt
  <2>1. PICK q \in Procs : ClearOutbox(q)
    BY <1>1, RebuiltStarts
  <2>2. i \in good[p] /\ i.id \in Ids
    BY <2>1 DEF ClearOutbox, worker, Item
  <2> QED BY <2>1, <2>2 DEF ClearOutbox, Remove
<1>2. ASSUME NEW q \in Procs, Upsert(q), Rebuilt
      PROVE  Indexed(i.event)' \/ row'[i.id] = None
  <2>1. row' = row /\ good' = good
    BY <1>2 DEF Upsert, outbox
  <2>2. CASE p = q
    <3>1. [id |-> i.id, event |-> i.event, model |-> ModelOf[q]] \in vectors'
      BY <1>2, <2>1, <2>2 DEF Upsert
    <3> QED BY <3>1 DEF Indexed
  <2>3. ASSUME NEW v \in vectors, v.event = i.event
        PROVE  Indexed(i.event)'
    <3>1. CASE v.id \notin IdsOf(good[q])
      BY <1>2, <2>3, <3>1 DEF Upsert, Indexed
    <3>2. ASSUME NEW j \in good[q], v.id = j.id PROVE Indexed(i.event)'
      <4>1. j \in batch[q] /\ j.id \in Int /\ j.event \in Events
        BY DEF GoodInv, Item, Ids
      <4>2. i \in batch[p] /\ i.event \in Events
        BY <2>1 DEF GoodInv, Item
      <4>3. Names(j.id, j.event) /\ Names(j.id, i.event)
        BY <2>3, <3>2, <4>1 DEF Names
      <4>4. j.event = i.event
        BY <4>1, <4>2, <4>3 DEF NamesAgree
      <4>5. [id |-> j.id, event |-> j.event, model |-> ModelOf[q]] \in vectors'
        BY <1>2 DEF Upsert
      <4> QED BY <4>4, <4>5 DEF Indexed
    <3> QED BY <3>1, <3>2 DEF IdsOf
  <2>4. ASSUME p # q PROVE phase[p] = "upserted"
    BY <1>2, <2>4 DEF Upsert, Enter
  <2> QED BY <1>2, <2>1, <2>2, <2>3, <2>4 DEF UpsertedInv, Indexed
<1>3. ASSUME Rebuilt, \A q \in Procs : ~Upsert(q)
      PROVE  Indexed(i.event)' \/ row'[i.id] = None
  <2>1. i \in good[p] /\ phase[p] = "upserted"
    <3>1. ASSUME NEW q \in Procs, Claim(q) \/ Look(q)
          PROVE  i \in good[p] /\ phase[p] = "upserted"
      BY <3>1 DEF Claim, Look, Enter
    <3>2. ASSUME NEW q \in Procs,
                 Complete(q) \/ EndBatch(q) \/ BatchFails(q) \/ Crash(q)
          PROVE  i \in good[p] /\ phase[p] = "upserted"
      BY <3>2 DEF Complete, EndBatch, BatchFails, Crash, Rest, Enter
    <3>3. CASE UNCHANGED <<phase, good>>
      BY <3>3
    <3> QED BY <1>3, <3>1, <3>2, <3>3, BatchesStay
  <2>2. Indexed(i.event) \/ row[i.id] = None
    BY <1>3, <2>1 DEF UpsertedInv
  <2>3. Indexed(i.event) => Indexed(i.event)'
    <3>1. ASSUME NEW q \in Procs, ClearVectors(q) PROVE FALSE
      BY <1>3, <3>1 DEF ClearVectors, TaskInv, Migration, Refill, OneModel,
                        Rebuilt
    <3>2. vectors' = vectors
      BY <1>3, <3>1 DEF Next, Work, Step, Recover, Start, Claim, Look, Complete,
             EndBatch, BatchFails, Stop, Close, Crash, Append, Delete,
             Enqueue, ReadModel, Decide, ClearOutbox, ReadPage,
             Requeue, WriteMeta, vars
    <3> QED BY <3>2 DEF Indexed
  <2>4. ASSUME row[i.id] = None, row'[i.id] # None PROVE FALSE
    <3>1. i \in batch[p] /\ i.id \in Ids /\ i.id \in Int /\ i.event \in Events
      BY <2>1 DEF GoodInv, Item, Ids
    <3>2. i.id <= used
      BY <3>1 DEF NamesAgree, Names
    <3>3. ASSUME NEW q \in Procs, Enqueue(q) \/ Requeue(q) PROVE FALSE
      <4>1. PICK f \in page[q] : Insert(f)
        BY <3>3 DEF Enqueue, Requeue
      <4>2. used' = used + 1 /\ \A r \in Ids : r # used' => row'[r] = row[r]
        BY <4>1, InsertTypes
      <4> QED BY <2>4, <3>1, <3>2, <4>2, BoundAssumption
    <3>4. ASSUME NEW S, \/ Mark(S, "pending") /\ S \subseteq Ids
                           /\ None \notin {row[r] : r \in S}
                        \/ Mark(S, "processing") /\ S \subseteq Ids
                           /\ None \notin {row[r] : r \in S}
                        \/ Remove(S) \/ Fail(S)
          PROVE  FALSE
      BY <2>4, <3>1, <3>4, RowsStay DEF RowsKeepEvents
    <3>5. ASSUME Recover PROVE FALSE
      <4>1. PICK S \in SUBSET Stuck : Mark(S \cup Again, "pending")
        BY <3>5 DEF Recover
      <4>2. /\ S \cup Again \subseteq Ids
            /\ None \notin {row[r] : r \in S \cup Again}
        BY DEF Stuck, Again, Rows
      <4> QED BY <3>4, <4>1, <4>2
    <3>6. ASSUME NEW q \in Procs, Claim(q) PROVE FALSE
      <4>1. PICK S \in SUBSET Rows("pending") : Mark(S, "processing")
        BY <3>6 DEF Claim
      <4>2. S \subseteq Ids /\ None \notin {row[r] : r \in S}
        BY DEF Rows
      <4> QED BY <3>4, <4>1, <4>2
    <3>7. ASSUME NEW q \in Procs,
                 \/ Complete(q) \/ EndBatch(q) \/ BatchFails(q) \/ ClearOutbox(q)
                 \/ \E f \in Events : Delete(q, f)
          PROVE  FALSE
      BY <2>4, <3>4, <3>7
         DEF Complete, EndBatch, BatchFails, ClearOutbox, Delete
    <3>8. row' # row
      BY <2>4
    <3> QED BY <1>3, <3>3, <3>5, <3>6, <3>7, <3>8
            DEF Next, Work, Step, Start, Look, Stop, Close, Crash, Append,
                ReadModel, Decide, ClearVectors, ReadPage, WriteMeta, vars, outbox
  <2> QED BY <2>2, <2>3, <2>4
<1> QED BY <1>1, <1>2, <1>3

LEMMA CoverStep ==
  ASSUME ~Overlap, OneModel, TypeOK, TaskInv, GoodInv, NamesAgree, UpsertedInv,
         CoverInv, [Next]_vars
  PROVE  CoverInv'
<1> USE DEF TypeOK
<1>1. ASSUME NEW e \in stored', e \notin stored PROVE Covered(e)'
  <2>1. PICK p \in Procs : Append(p, e)
    <3>1. PICK p \in Procs, f \in Events : Append(p, f)
      BY <1>1 DEF Next, Work, Step, Recover, Start, Claim, Look, Upsert,
             Complete, EndBatch, BatchFails, Stop, Close, Crash, Enqueue,
             Delete, ReadModel, Decide, ClearVectors, ClearOutbox, ReadPage,
             Requeue, WriteMeta, vars
    <3>2. f = e
      BY <1>1, <3>1 DEF Append
    <3> QED BY <3>1, <3>2
  <2> QED BY <2>1 DEF Append, Covered, Awaited
<1>2. ASSUME NEW p \in Procs, ReadAll(p)', NEW e \in stored'
      PROVE  Covered(e)'
  <2>1. Rebuilt'
    BY <1>2 DEF ReadAll, Rebuilt, Refill
  <2>2. ASSUME NEW q \in Procs, ReadAll(q) PROVE Covered(e)'
    <3>1. Rebuilt
      BY <2>2 DEF ReadAll, Rebuilt, Refill
    <3>2. e \in stored => Covered(e)
      BY <2>2 DEF CoverInv
    <3> QED BY <1>1, <2>1, <3>1, <3>2, CoverKept
  <2>3. ASSUME NEW q \in Procs, ReadPage(q) PROVE Covered(e)'
    <3> DEFINE o == offset[q]
               S == PageAt(o)
    <3>1. /\ task[q] = "page" /\ o \in Nat /\ o % PageSize = 0
          /\ page' = [page EXCEPT ![q] = S]
          /\ offset' = [offset EXCEPT ![q] = o + Cardinality(S)]
          /\ task' = [task EXCEPT ![q] = IF S = {} THEN "writeMeta" ELSE "requeue"]
          /\ meta' = meta /\ stored' = stored
      BY <2>3 DEF ReadPage, Do, TaskInv
    <3>2. Cardinality(S) \in 0 .. PageSize
      BY <3>1, PageFills
    <3>3. p = q \/ ReadAll(p)
      BY <1>2, <3>1 DEF ReadAll
    <3>4. ASSUME p = q, meta # ModelOf[q] PROVE Cardinality(S) < PageSize
      <4>1. CASE S = {}
        BY <4>1, FS_EmptySet, SizeAssumption
      <4>2. CASE S # {}
        <5>1. (o + Cardinality(S)) % PageSize # 0
          BY <1>2, <3>1, <3>4, <4>2 DEF ReadAll
        <5>2. Cardinality(S) # PageSize
          BY <3>1, <5>1, SizeAssumption, WholePages
        <5> QED BY <3>2, <5>2, SizeAssumption
      <4> QED BY <4>1, <4>2
    <3>5. CASE ReadAll(p) \/ meta = ModelOf[q]
      BY <2>2, <3>5 DEF ReadAll
    <3>6. CASE p = q /\ meta # ModelOf[q]
      <4>1. RankOf(e) <= o \/ e \in S
        BY <3>1, <3>4, <3>6, PageFills
      <4>2. CASE RankOf(e) <= o
        <5>1. Covered(e) /\ Rebuilt
          BY <3>1, <4>2 DEF CoverInv, Rebuilt, Refill
        <5> QED BY <2>1, <3>1, <5>1, CoverKept
      <4>3. CASE e \in S
        BY <3>1, <4>3 DEF Covered, Awaited
      <4> QED BY <4>1, <4>2, <4>3
    <3> QED BY <3>3, <3>5, <3>6
  <2>4. \/ \E q \in Procs : ReadAll(q)
        \/ \E q \in Procs : ReadPage(q)
    <3>1. ASSUME NEW q \in Procs, Requeue(q) \/ WriteMeta(q)
          PROVE  \E r \in Procs : ReadAll(r)
      <4>1. CASE WriteMeta(q)
        BY <4>1 DEF WriteMeta, ReadAll
      <4>2. CASE Requeue(q)
        BY <1>2, <4>2 DEF Requeue, ReadAll, Do
      <4> QED BY <3>1, <4>1, <4>2
    <3>2. ASSUME meta' = meta, offset' = offset,
                 \A q \in Procs : task'[q] \notin {"writeMeta", "requeue"}
                                     \/ task'[q] = task[q]
          PROVE  ReadAll(p)
      BY <1>2, <3>2 DEF ReadAll
    <3>3. ASSUME NEW q \in Procs, ReadModel(q) \/ Decide(q) \/ ClearVectors(q)
                                     \/ ClearOutbox(q)
          PROVE  ReadAll(p)
      <4>1. meta' = meta /\ offset' = offset
        BY <3>3 DEF ReadModel, Decide, ClearVectors, ClearOutbox, TaskInv
      <4> QED BY <3>2, <3>3, <4>1
              DEF ReadModel, Decide, ClearVectors, ClearOutbox, Do
    <3>4. ASSUME NEW q \in Procs, Stop(q) \/ Close(q) \/ Enqueue(q)
                                     \/ \E f \in Events : Append(q, f)
          PROVE  ReadAll(p)
      BY <3>2, <3>4 DEF Stop, Close, Enqueue, Append, Do
    <3>5. ASSUME NEW q \in Procs, Crash(q) PROVE ReadAll(p)
      BY <1>2, <3>5 DEF Crash, Do, ReadAll
    <3>6. CASE UNCHANGED <<task, offset, meta>>
      BY <3>2, <3>6
    <3> QED BY <3>1, <3>3, <3>4, <3>5, <3>6
            DEF Next, Work, Step, Recover, Start, Claim, Look, Upsert, Complete,
                EndBatch, BatchFails, Delete, vars, command
  <2> QED BY <2>2, <2>3, <2>4
<1>3. ASSUME NEW p \in Procs, task'[p] \in {"page", "requeue"},
             NEW e \in stored', RankOf(e)' <= offset'[p]
      PROVE  Covered(e)'
  <2>1. Rebuilt'
    BY <1>3 DEF Rebuilt, Refill
  <2>2. ASSUME task[p] \in {"page", "requeue"}, offset'[p] = offset[p],
               stored \subseteq stored'
        PROVE  Covered(e)'
    <3>1. CASE e \in stored
      <4>1. {f \in stored : f <= e} \subseteq {f \in stored' : f <= e}
        BY <2>2
      <4>2. RankOf(e) <= RankOf(e)'
        <5> DEFINE S == {f \in stored : f <= e}
                   T == {f \in stored' : f <= e}
        <5>1. stored' \in SUBSET Events
          BY TypesStep
        <5>2. T \in SUBSET Events
          BY <5>1
        <5>3. S \in SUBSET T
          BY <4>1
        <5> HIDE DEF S, T
        <5>4. Cardinality(S) <= Cardinality(T)
          BY <5>2, <5>3, EventsAreFinite, FS_Subset
        <5> QED BY <5>4 DEF RankOf, S, T
      <4>3. RankOf(e) \in Nat /\ RankOf(e)' \in Nat
        <5>1. {f \in stored : f <= e} \in SUBSET Events
          OBVIOUS
        <5>2. {f \in stored' : f <= e} \in SUBSET Events
          BY TypesStep
        <5> QED BY <5>1, <5>2, EventsAreFinite DEF RankOf
      <4>4. RankOf(e) <= offset[p]
        BY <1>3, <2>2, <4>2, <4>3
      <4>5. Covered(e) /\ Rebuilt
        BY <2>2, <3>1, <4>4 DEF CoverInv, Rebuilt, Refill
      <4> QED BY <2>1, <3>1, <4>5, CoverKept
    <3> QED BY <1>1, <3>1
  <2>3. ASSUME NEW q \in Procs, Delete(q, e) \/ \E f \in Events : Delete(q, f)
        PROVE  FALSE
    <3>1. ~Migrating /\ task' = task
      BY <2>3 DEF Delete, command
    <3> QED BY <1>3, <3>1 DEF Migrating, Migration
  <2>4. stored \subseteq stored'
    BY <2>3 DEF Next, Work, Step, Recover, Start, Claim, Look, Upsert, Complete,
           EndBatch, BatchFails, Stop, Close, Crash, Append, Enqueue,
           ReadModel, Decide, ClearVectors, ClearOutbox, ReadPage,
           Requeue, WriteMeta, vars
  <2>5. CASE task[p] \in {"page", "requeue"} /\ offset'[p] = offset[p]
    BY <2>2, <2>4, <2>5
  <2>6. CASE ClearOutbox(p)
    <3>1. offset'[p] = 0 /\ stored' = stored
      BY <2>6 DEF ClearOutbox, TaskInv, Refill
    <3>2. RankOf(e)' = RankOf(e) /\ RankOf(e) \in 1 .. Cardinality(stored)
      BY <3>1, Ranks DEF RankOf
    <3>3. Cardinality(stored) \in Nat
      BY EventsAreFinite
    <3> QED BY <1>3, <3>1, <3>2, <3>3
  <2>7. CASE ReadPage(p)
    <3> DEFINE o == offset[p]
               S == PageAt(o)
    <3>1. /\ task[p] = "page" /\ o \in Nat
          /\ page'[p] = S /\ offset'[p] = o + Cardinality(S) /\ stored' = stored
      BY <2>7 DEF ReadPage
    <3>2. Cardinality(S) \in 0 .. PageSize
      BY <3>1, PageFills
    <3>3. RankOf(e)' = RankOf(e) /\ RankOf(e) \in 1 .. Cardinality(stored)
      BY <3>1, Ranks DEF RankOf
    <3>4. Cardinality(stored) \in Nat
      BY EventsAreFinite
    <3>5. CASE RankOf(e) <= o
      <4>1. Covered(e) /\ Rebuilt
        BY <3>1, <3>5 DEF CoverInv, Rebuilt, Refill
      <4> QED BY <2>1, <3>1, <4>1, CoverKept
    <3>6. CASE ~(RankOf(e) <= o)
      <4>1. S = {f \in stored : RankOf(f) > o /\ RankOf(f) <= o + PageSize}
        BY <3>1, PageFills
      <4>2. RankOf(e) > o /\ RankOf(e) <= o + PageSize
        BY <1>3, <3>1, <3>2, <3>3, <3>4, <3>6, SizeAssumption
      <4>3. e \in page'[p]
        BY <3>1, <4>1, <4>2
      <4> QED BY <4>3 DEF Covered, Awaited
    <3> QED BY <3>5, <3>6
  <2>8. \/ task[p] \in {"page", "requeue"} /\ offset'[p] = offset[p]
        \/ ClearOutbox(p) \/ ReadPage(p)
    <3>1. ASSUME NEW q \in Procs,
                 \/ Stop(q) \/ Close(q) \/ Crash(q) \/ Enqueue(q) \/ ReadModel(q)
                 \/ ClearVectors(q) \/ Decide(q) \/ WriteMeta(q)
                 \/ (\E f \in Events : Append(q, f))
          PROVE  task[p] \in {"page", "requeue"} /\ offset'[p] = offset[p]
      <4>1. \E t \in {"closing", "free", "count", "clearVectors", "clearOutbox",
                      "enqueue"} : task' = [task EXCEPT ![q] = t]
        BY <3>1 DEF Stop, Close, Crash, Append, Enqueue, ReadModel, Decide,
               ClearVectors, WriteMeta, Do
      <4>2. p # q
        BY <1>3, <4>1
      <4>3. offset'[p] = offset[p]
        BY <3>1, <4>2 DEF Stop, Close, Crash, Append, Enqueue, ReadModel, Decide,
               ClearVectors, WriteMeta
      <4> QED BY <1>3, <4>1, <4>2, <4>3
    <3>2. ASSUME NEW q \in Procs, q # p, ClearOutbox(q) \/ ReadPage(q) \/ Requeue(q)
          PROVE  task[p] \in {"page", "requeue"} /\ offset'[p] = offset[p]
      BY <1>3, <3>2 DEF ClearOutbox, ReadPage, Requeue, Do
    <3>3. CASE Requeue(p)
      BY <3>3 DEF Requeue
    <3>4. CASE UNCHANGED <<task, offset>>
      BY <1>3, <3>4
    <3> QED BY <3>1, <3>2, <3>3, <3>4
            DEF Next, Work, Step, Recover, Start, Claim, Look, Upsert, Complete,
                EndBatch, BatchFails, Delete, vars, command
  <2> QED BY <2>5, <2>6, <2>7, <2>8
<1> QED BY <1>2, <1>3 DEF CoverInv

(* A migration forgets no event, whatever it is interleaved with and        *)
(* wherever it is cut off, when all processes are configured with one       *)
(* model, migrations exclude each other, and the store has the file that    *)
(* names the model of its vectors.                                          *)
THEOREM MigrationsForgetNothing ==
  ASSUME OneModel, ~Overlap, Starts \subseteq {"indexed"}
  PROVE  Spec => []NothingForgotten
<1> DEFINE Inv == /\ TypeOK /\ TaskInv /\ GoodInv /\ NamesAgree
                  /\ UpsertedInv /\ CoverInv
<1>1. ASSUME Init PROVE Inv
  <2>1. TypeOK
    BY <1>1, TypesInit
  <2>2. /\ \A p \in Procs : /\ task[p] = "free" /\ phase[p] = "idle"
                            /\ page[p] = {} /\ offset[p] = 0
                            /\ good[p] = {} /\ batch[p] = {}
        /\ used = 0 /\ \A r \in Ids : row[r] = None
    BY <1>1 DEF Init
  <2>3. /\ meta = OldModel
        /\ vectors = {[id |-> -e, event |-> e, model |-> OldModel] : e \in stored}
    BY <1>1 DEF Init
  <2>4. TaskInv /\ GoodInv /\ UpsertedInv
    BY <2>2, <2>3, OldAssumption
       DEF TaskInv, GoodInv, UpsertedInv, Migration, Refill
  <2>5. \A e \in stored : Indexed(e)
    <3>1. ASSUME NEW e \in stored
          PROVE  \E v \in vectors : v = [id |-> -e, event |-> e, model |-> OldModel]
      BY <2>3
    <3> QED BY <3>1 DEF Indexed
  <2>6. CoverInv
    BY <2>2, <2>5 DEF CoverInv, Covered
  <2>7. NamesAgree
    <3>1. \A e \in stored : e \in Nat
      BY <2>1, EventsAssumption DEF TypeOK
    <3>2. ASSUME NEW r \in Int, NEW e \in Events, Names(r, e)
          PROVE  e \in stored /\ r = -e
      BY <2>2, <2>3, <3>2 DEF Names
    <3>3. ASSUME NEW r \in Int, NEW e \in Events, NEW f \in Events, Names(r, e)
          PROVE  r <= used /\ (Names(r, f) => e = f)
      <4>1. e \in Nat /\ r = -e /\ f \in Nat
        BY <3>1, <3>2, <3>3, EventsAssumption
      <4>2. Names(r, f) => r = -f
        BY <3>2
      <4> QED BY <2>2, <4>1, <4>2
    <3> QED BY <3>3 DEF NamesAgree
  <2> QED BY <2>1, <2>4, <2>6, <2>7
<1>2. Inv => NothingForgotten
  BY DEF NothingForgotten, CoverInv, ReadAll, Covered
<1>3. Inv /\ [Next]_vars => Inv'
  <2> SUFFICES ASSUME Inv, [Next]_vars PROVE Inv'
    OBVIOUS
  <2>1. NamesAgree'
    BY NamesStep, NamesStayApart, BoundAssumption DEF TypeOK
  <2> QED BY <2>1, TypesStep, TaskStep, GoodStep, UpsertedStep, CoverStep
<1> HIDE DEF Inv
<1> QED BY <1>1, <1>2, <1>3, PTL DEF Spec

-----------------------------------------------------------------------------
(* A failed row has used up its retries, and the ids after the last insert  *)
(* are without a row: an insert never takes the id of a row that is there.  *)
ExhaustedInv ==
    /\ \A r \in Rows("failed") : row[r].retries > MaxRetries
    /\ \A r \in Ids : r > used => row[r] = None

(* What a step may do to a row.                                             *)
RowMoves(r) ==
    \/ row'[r] = None
    \/ row[r] = None /\ r <= used' /\ row'[r].status = "pending"
    \/ /\ row[r] # None
       /\ row'[r].status = "failed" => row'[r].retries > MaxRetries
       /\ row[r].status = "failed" => row'[r].status = "failed"
RowsMove == used' >= used /\ \A r \in Ids : RowMoves(r)

LEMMA SameRowMoves ==
  ASSUME ExhaustedInv, NEW r \in Ids, row'[r] = row[r]
  PROVE  RowMoves(r)
BY DEF ExhaustedInv, RowMoves, Rows

LEMMA FailMoves ==
  ASSUME TypeOK, ExhaustedInv, NEW S, Fail(S), used' = used
  PROVE  RowsMove
<1>1. ASSUME NEW r \in Ids PROVE RowMoves(r)
  <2>1. CASE r \notin IdsOf(S) \/ row[r] = None
    BY <2>1, SameRowMoves DEF Fail
  <2>2. CASE ~(r \notin IdsOf(S) \/ row[r] = None)
    <3>1. row[r] \in Row /\ row[r].retries \in Nat
      BY <2>2 DEF TypeOK, Row
    <3>2. /\ row'[r].status = IF row[r].retries >= MaxRetries
                              THEN "failed" ELSE "pending"
          /\ row'[r].retries = row[r].retries + 1
      BY <2>2, <3>1 DEF Fail, Row
    <3>3. row[r].status = "failed" => row[r].retries > MaxRetries
      BY <2>2 DEF ExhaustedInv, Rows
    <3> QED BY <2>2, <3>1, <3>2, <3>3, RetriesAssumption DEF RowMoves
  <2> QED BY <2>1, <2>2
<1> QED BY <1>1 DEF TypeOK, RowsMove

LEMMA MarkMoves ==
  ASSUME TypeOK, ExhaustedInv, NEW S \in SUBSET Ids,
         \A r \in S : row[r] # None /\ row[r].status # "failed",
         Mark(S, "pending") \/ Mark(S, "processing"), used' = used
  PROVE  RowsMove
<1>1. ASSUME NEW r \in Ids PROVE RowMoves(r)
  <2>1. CASE r \notin S
    BY <2>1, SameRowMoves DEF Mark
  <2>2. CASE r \in S
    <3>1. row'[r].status # "failed"
      BY <2>2 DEF Mark, TypeOK, Row
    <3> QED BY <2>2, <3>1 DEF RowMoves
  <2> QED BY <2>1, <2>2
<1> QED BY <1>1 DEF TypeOK, RowsMove

LEMMA InsertMoves ==
  ASSUME TypeOK, ExhaustedInv, NEW e \in Events, Insert(e)
  PROVE  RowsMove
<1>1. /\ used' = used + 1 /\ used' \in Ids /\ used \in Nat
      /\ \A r \in Ids : r # used' => row'[r] = row[r]
  BY InsertTypes DEF TypeOK
<1>2. row[used'] = None
  BY <1>1 DEF ExhaustedInv
<1>3. row'[used'].status = "pending"
  BY <1>1 DEF Insert, TypeOK
<1>4. RowMoves(used')
  BY <1>1, <1>2, <1>3 DEF RowMoves
<1>5. ASSUME NEW r \in Ids, r # used' PROVE RowMoves(r)
  BY <1>1, <1>5, SameRowMoves
<1> QED BY <1>1, <1>4, <1>5 DEF RowsMove

LEMMA RemoveMoves ==
  ASSUME TypeOK, ExhaustedInv, NEW S, Remove(S), used' = used
  PROVE  RowsMove
<1>1. ASSUME NEW r \in Ids PROVE RowMoves(r)
  <2>1. row'[r] = None \/ row'[r] = row[r]
    BY DEF Remove
  <2> QED BY <2>1, SameRowMoves DEF RowMoves
<1> QED BY <1>1 DEF TypeOK, RowsMove

LEMMA StillMoves ==
  ASSUME TypeOK, ExhaustedInv, row' = row, used' = used
  PROVE  RowsMove
BY SameRowMoves DEF TypeOK, RowsMove

LEMMA MovesStep ==
  ASSUME TypeOK, ExhaustedInv, [Next]_vars
  PROVE  RowsMove
<1>1. CASE Recover
  <2>1. Again = {}
    BY RetriesAssumption DEF Again, ExhaustedInv, Rows, TypeOK, Row
  <2>2. PICK S \in SUBSET Stuck : Mark(S, "pending")
    BY <1>1, <2>1 DEF Recover
  <2>3. S \subseteq Ids /\ \A r \in S : row[r] # None /\ row[r].status # "failed"
    BY DEF Stuck, Rows
  <2> QED BY <1>1, <2>2, <2>3, MarkMoves DEF Recover
<1>2. ASSUME NEW p \in Procs, Claim(p) PROVE RowsMove
  <2>1. PICK S \in SUBSET Rows("pending") : Mark(S, "processing")
    BY <1>2 DEF Claim
  <2>2. S \subseteq Ids /\ \A r \in S : row[r] # None /\ row[r].status # "failed"
    BY DEF Rows
  <2> QED BY <1>2, <2>1, <2>2, MarkMoves DEF Claim
<1>3. ASSUME NEW p \in Procs,
             \/ Start(p) \/ Look(p) \/ Upsert(p) \/ Stop(p) \/ Close(p)
             \/ ReadModel(p) \/ Decide(p) \/ ReadPage(p) \/ WriteMeta(p)
             \/ ClearVectors(p) \/ Crash(p) \/ \E e \in Events : Append(p, e)
      PROVE  RowsMove
  BY <1>3, StillMoves
     DEF Start, Look, Upsert, Stop, Close, ReadModel, Decide, ReadPage,
         WriteMeta, ClearVectors, Crash, Append, outbox
<1>4. ASSUME NEW p \in Procs,
             \/ Complete(p) \/ ClearOutbox(p)
             \/ \E e \in Events : Delete(p, e)
      PROVE  RowsMove
  BY <1>4, RemoveMoves DEF Complete, ClearOutbox, Delete
<1>5. ASSUME NEW p \in Procs, EndBatch(p) \/ BatchFails(p) PROVE RowsMove
  BY <1>5, FailMoves, StillMoves DEF EndBatch, BatchFails
<1>6. ASSUME NEW p \in Procs, Enqueue(p) \/ Requeue(p) PROVE RowsMove
  <2>1. PICK e \in page[p] : Insert(e)
    BY <1>6 DEF Enqueue, Requeue
  <2> QED BY <2>1, InsertMoves DEF TypeOK
<1>7. CASE UNCHANGED vars
  BY <1>7, StillMoves DEF vars, outbox
<1> QED BY <1>1, <1>2, <1>3, <1>4, <1>5, <1>6, <1>7 DEF Next, Work, Step

LEMMA ExhaustedStep ==
  ASSUME TypeOK, TypeOK', ExhaustedInv, RowsMove
  PROVE  /\ ExhaustedInv'
         /\ \A r \in Rows("failed") :
                row'[r] # None => row'[r].status = "failed"
<1>1. ASSUME NEW r \in Ids, r > used' PROVE row'[r] = None
  <2>1. r > used /\ row[r] = None
    BY <1>1 DEF RowsMove, ExhaustedInv, TypeOK, Ids
  <2> QED BY <1>1, <2>1 DEF RowsMove, RowMoves, TypeOK, Ids
<1>2. ASSUME NEW r \in Ids, row'[r] # None, row'[r].status = "failed"
      PROVE  row'[r].retries > MaxRetries
  BY <1>2 DEF RowsMove, RowMoves
<1>3. ASSUME NEW r \in Ids, row[r] # None, row[r].status = "failed",
             row'[r] # None
      PROVE  row'[r].status = "failed"
  BY <1>3 DEF RowsMove, RowMoves
<1> QED BY <1>1, <1>2, <1>3 DEF ExhaustedInv, Rows

(* A row that was given up stays given up until it is removed: no recovery, *)
(* late failure of another process's batch, or insert puts it back in the   *)
(* queue.                                                                   *)
THEOREM RowsStayGivenUp == Spec => GivenUpIsFinal
<1>1. ASSUME Init PROVE ExhaustedInv
  BY <1>1 DEF Init, ExhaustedInv, Rows
<1>2. ASSUME TypeOK, TypeOK', ExhaustedInv, [Next]_vars
      PROVE  /\ ExhaustedInv'
             /\ [\A r \in Rows("failed") :
                    row'[r] # None => row'[r].status = "failed"]_vars
  BY <1>2, MovesStep, ExhaustedStep
<1> QED BY <1>1, <1>2, EmbeddingTypes, PTL DEF Spec, GivenUpIsFinal
=============================================================================
