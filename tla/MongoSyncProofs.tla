--------------------------- MODULE MongoSyncProofs --------------------------
(***************************************************************************)
(* While no session is deleted the push position never runs ahead of the    *)
(* documents; while no pull runs inside a push either, the pull position    *)
(* never runs ahead of the local logs.  For any number of machines,         *)
(* workers, events, failures, and any batch size.                           *)
(***************************************************************************)
EXTENDS MongoSync, FiniteSetTheorems, TLAPS

USE IdsAssumption, KeyAssumption, MachineAssumption, BatchAssumption,
    FaultAssumption

(* Places run from 1 to the size of the set.                                *)
LEMMA PlaceBounds ==
  ASSUME NEW S \in SUBSET Ids, NEW rank \in [Ids -> Nat], NEW i \in S
  PROVE  /\ Place(rank, S, i) \in Nat
         /\ 1 <= Place(rank, S, i)
         /\ Place(rank, S, i) <= Cardinality(S)
         /\ Cardinality(S) \in Nat
<1> DEFINE B == {j \in S : rank[j] <= rank[i]}
<1>1. IsFiniteSet(S)
  BY FS_Subset
<1>2. B \in SUBSET S /\ i \in B
  OBVIOUS
<1>3. IsFiniteSet(B) /\ Cardinality(B) <= Cardinality(S)
  BY <1>1, <1>2, FS_Subset
<1>4. Cardinality(B) \in Nat /\ Cardinality(S) \in Nat
  BY <1>1, <1>3, FS_CardinalityType
<1>5. Cardinality(B) # 0
  BY <1>2, <1>3, FS_EmptySet
<1> QED BY <1>3, <1>4, <1>5 DEF Place

LEMMA BatchSizes ==
  ASSUME TypeOK, NEW w \in Workers
  PROVE  Cardinality(batch[w]) \in Nat
  BY FS_Subset, FS_CardinalityType DEF TypeOK

LEMMA ImportEffect ==
  ASSUME NEW w \in Workers, Import(w)
  PROVE  \E N \in SUBSET batch[w],
            t \in {0} \cup {rowid[MachineOf[w]][j] : j \in Ids} :
            /\ Fresh(MachineOf[w], batch[w], N) /\ IsTop(MachineOf[w], t)
            /\ rowid' = [rowid EXCEPT ![MachineOf[w]] =
                            [i \in Ids |-> IF i \in N
                                           THEN t + Place(seq, N, i)
                                           ELSE rowid[MachineOf[w]][i]]]
  BY DEF Import

LEMMA TypeStep == TypeOK /\ [Next]_vars => TypeOK'
<1> SUFFICES ASSUME TypeOK, [Next]_vars PROVE TypeOK'
  OBVIOUS
<1> USE DEF TypeOK, stores, remote, worker, PCs, Goto
<1>1. ASSUME NEW m \in Machines, NEW i \in Ids, Append(m, i) PROVE TypeOK'
  <2>1. PICK t \in {0} \cup {rowid[m][j] : j \in Ids} :
            rowid' = [rowid EXCEPT ![m][i] = t + 1]
    BY <1>1 DEF Append
  <2>2. t \in Nat
    OBVIOUS
  <2>3. rowid' \in [Machines -> [Ids -> Nat]]
    BY <2>1, <2>2
  <2> QED BY <1>1, <2>3 DEF Append
<1>2. ASSUME NEW m \in Machines, NEW i \in Ids, Delete(m, i) PROVE TypeOK'
  BY <1>2 DEF Delete
<1>3. ASSUME NEW w \in Workers, StartPush(w) PROVE TypeOK'
  BY <1>3 DEF StartPush
<1>4. ASSUME NEW w \in Workers, ReadEnd(w) PROVE TypeOK'
  <2>1. pullPos[MachineOf[w]] \in Nat
    OBVIOUS
  <2>2. last' \in [Workers -> Nat] /\ pc' \in [Workers -> PCs]
    BY <1>4, <2>1 DEF ReadEnd, EndPush
  <2> QED BY <1>4, <2>2 DEF ReadEnd
<1>5. ASSUME NEW w \in Workers, Read(w) PROVE TypeOK'
  <2> DEFINE row == rowid[MachineOf[w]]
  <2>1. PICK S \in SUBSET After(w), t \in {row[i] : i \in After(w)} :
            /\ batch' = [batch EXCEPT ![w] = S]
            /\ top' = [top EXCEPT ![w] = t]
            /\ slot' = [slot EXCEPT ![w] =
                           [i \in Ids |-> IF i \in S THEN Place(row, S, i)
                                                     ELSE 0]]
    BY <1>5 DEF Read
  <2>2. S \in SUBSET Ids /\ t \in Nat /\ row \in [Ids -> Nat]
    BY DEF After, Here
  <2>3. \A i \in S : Place(row, S, i) \in Nat
    BY <2>2, PlaceBounds
  <2>4. [i \in Ids |-> IF i \in S THEN Place(row, S, i) ELSE 0]
           \in [Ids -> Nat]
    BY <2>3
  <2>5. /\ batch' \in [Workers -> SUBSET Ids] /\ top' \in [Workers -> Nat]
        /\ slot' \in [Workers -> [Ids -> Nat]]
    BY <2>1, <2>2, <2>4
  <2> QED BY <1>5, <2>5 DEF Read
<1>6. ASSUME NEW w \in Workers, Allocate(w) PROVE TypeOK'
  BY <1>6, BatchSizes DEF Allocate, Reserve
<1>7. ASSUME NEW w \in Workers, NEW i \in Ids, WriteDoc(w, i) PROVE TypeOK'
  BY <1>7 DEF WriteDoc
<1>8. ASSUME NEW w \in Workers, SavePush(w) PROVE TypeOK'
  <2>1. top[w] \in Nat /\ pullPos[MachineOf[w]] \in Nat
    OBVIOUS
  <2>2. last' \in [Workers -> Nat] /\ pc' \in [Workers -> PCs]
    BY <1>8, <2>1 DEF SavePush, EndPush
  <2>3. pushPos' \in [Machines -> Nat]
    BY <1>8, <2>1 DEF SavePush
  <2>4. /\ batch' \in [Workers -> SUBSET Ids]
        /\ todo' \in [Workers -> SUBSET Ids]
    BY <1>8 DEF SavePush
  <2> QED BY <1>8, <2>2, <2>3, <2>4 DEF SavePush
<1>9. ASSUME NEW w \in Workers, StartPull(w) PROVE TypeOK'
  BY <1>9 DEF StartPull
<1>10. ASSUME NEW w \in Workers, FindEnd(w) PROVE TypeOK'
  BY <1>10 DEF FindEnd
<1>11. ASSUME NEW w \in Workers, Find(w) PROVE TypeOK'
  BY <1>11 DEF Find, Newer, Docs
<1>12. ASSUME NEW w \in Workers, Import(w) PROVE TypeOK'
  <2> DEFINE m == MachineOf[w]
  <2>1. PICK N \in SUBSET batch[w],
             t \in {0} \cup {rowid[m][j] : j \in Ids} :
            /\ Fresh(m, batch[w], N) /\ IsTop(m, t)
            /\ rowid' = [rowid EXCEPT ![m] =
                         [i \in Ids |-> IF i \in N THEN t + Place(seq, N, i)
                                                   ELSE rowid[m][i]]]
    BY <1>12, ImportEffect
  <2>2. t \in Nat /\ N \in SUBSET Ids /\ m \in Machines
    OBVIOUS
  <2>3. \A i \in N : Place(seq, N, i) \in Nat
    BY <2>2, PlaceBounds
  <2>4. [i \in Ids |-> IF i \in N THEN t + Place(seq, N, i)
                                 ELSE rowid[m][i]] \in [Ids -> Nat]
    BY <2>2, <2>3
  <2>5. rowid' \in [Machines -> [Ids -> Nat]]
    BY <2>1, <2>2, <2>4
  <2> QED BY <1>12, <2>5 DEF Import
<1>13. ASSUME NEW w \in Workers, SavePull(w) PROVE TypeOK'
  BY <1>13 DEF SavePull
<1>14. ASSUME NEW w \in Workers, Fail(w) PROVE TypeOK'
  BY <1>14 DEF Fail
<1>15. CASE UNCHANGED vars
  BY <1>15 DEF vars
<1> QED BY <1>1, <1>2, <1>3, <1>4, <1>5, <1>6, <1>7, <1>8, <1>9, <1>10,
           <1>11, <1>12, <1>13, <1>14, <1>15 DEF Next, SyncStep

(* Every variable of the replication keeps its type.                        *)
THEOREM TypeCorrect == Spec => []TypeOK
<1>1. Init => TypeOK
  BY DEF Init, TypeOK, PCs
<1> QED BY <1>1, TypeStep, PTL DEF Spec

-----------------------------------------------------------------------------
(* The push.                                                                *)

(* Every event up to rowid r has its document, and r is not beyond the log, *)
(* so that no new event will get a rowid up to r.                           *)
Covered(m, r) == \A i \in Here(m) : rowid[m][i] <= r => i \in Docs
Reached(m, r) == r = 0 \/ \E i \in Ids : r <= rowid[m][i]

(* Those up to r are documents or in set S.                                 *)
CoveredBut(m, r, S) ==
    \A i \in Here(m) : rowid[m][i] <= r => i \in Docs \cup S

PushInv ==
    /\ TypeOK
    /\ \A m \in Machines : /\ Covered(m, pushPos[m])
                           /\ Reached(m, pushPos[m])
    /\ \A w \in Workers :
          LET m == MachineOf[w] IN
          /\ pc[w] = "read" => Covered(m, last[w]) /\ Reached(m, last[w])
          /\ pc[w] = "allocate" => /\ CoveredBut(m, top[w], batch[w])
                                   /\ Reached(m, top[w])
                                   /\ \A i \in batch[w] : slot[w][i] # 0
          /\ pc[w] = "write" => /\ CoveredBut(m, top[w], todo[w])
                                /\ Reached(m, top[w])
                                /\ \A i \in todo[w] : slot[w][i] # 0

(* Adding rows above every rowid of the log disturbs no position within it. *)
LEMMA NewRowsAbove ==
  ASSUME TypeOK, TypeOK', NEW m \in Machines, NEW r \in Nat, UNCHANGED seq,
         \A i \in Ids : \/ rowid'[m][i] = rowid[m][i]
                        \/ /\ rowid[m][i] = 0
                           /\ \A j \in Ids : rowid[m][j] < rowid'[m][i],
         Reached(m, r)
  PROVE  /\ Reached(m, r)'
         /\ Covered(m, r) => Covered(m, r)'
         /\ \A S \in SUBSET Ids : CoveredBut(m, r, S)
               => \A i \in Here(m)' : rowid'[m][i] <= r => i \in Docs' \cup S
<1>0. \A i \in Ids : rowid[m][i] \in Nat /\ rowid'[m][i] \in Nat
  BY DEF TypeOK
<1>1. \A i \in Ids : rowid[m][i] <= rowid'[m][i]
  BY <1>0
<1>2. Reached(m, r)'
  BY <1>0, <1>1 DEF Reached
<1>3. \A i \in Ids : rowid'[m][i] # 0 /\ rowid'[m][i] <= r
                        => rowid'[m][i] = rowid[m][i]
  BY <1>0 DEF Reached
<1> QED BY <1>2, <1>3 DEF Covered, CoveredBut, Here, Docs

LEMMA PushLogStep ==
  ASSUME PushInv, TypeOK', UNCHANGED <<pushPos, seq, last, batch, top, slot,
                                       todo>>,
         \A w \in Workers : pc'[w] \in {"read", "allocate", "write"}
                               => pc[w] = pc'[w],
         \A m \in Machines, i \in Ids :
             \/ rowid'[m][i] = rowid[m][i]
             \/ /\ rowid[m][i] = 0
                /\ \A j \in Ids : rowid[m][j] < rowid'[m][i]
  PROVE  PushInv'
<1> USE DEF PushInv
<1>1. ASSUME NEW m \in Machines
      PROVE  Covered(m, pushPos[m])' /\ Reached(m, pushPos[m])'
  <2>1. pushPos[m] \in Nat
    BY DEF TypeOK
  <2>2. Covered(m, pushPos[m]) /\ Reached(m, pushPos[m])
    OBVIOUS
  <2>3. \A i \in Ids : \/ rowid'[m][i] = rowid[m][i]
                       \/ /\ rowid[m][i] = 0
                          /\ \A j \in Ids : rowid[m][j] < rowid'[m][i]
    OBVIOUS
  <2> QED BY <2>1, <2>2, <2>3, NewRowsAbove DEF Covered, Reached
<1>2. ASSUME NEW w \in Workers
      PROVE  LET m == MachineOf[w] IN
             /\ (pc[w] = "read" => Covered(m, last[w]) /\ Reached(m, last[w]))'
             /\ (pc[w] = "allocate" => /\ CoveredBut(m, top[w], batch[w])
                                       /\ Reached(m, top[w])
                                       /\ \A i \in batch[w] : slot[w][i] # 0)'
             /\ (pc[w] = "write" => /\ CoveredBut(m, top[w], todo[w])
                                    /\ Reached(m, top[w])
                                    /\ \A i \in todo[w] : slot[w][i] # 0)'
  <2> DEFINE m == MachineOf[w]
  <2>1. /\ last[w] \in Nat /\ top[w] \in Nat /\ m \in Machines
        /\ batch[w] \in SUBSET Ids /\ todo[w] \in SUBSET Ids
    BY DEF TypeOK
  <2>2. \A i \in Ids : \/ rowid'[m][i] = rowid[m][i]
                       \/ /\ rowid[m][i] = 0
                          /\ \A j \in Ids : rowid[m][j] < rowid'[m][i]
    BY <2>1
  <2>3. ASSUME pc'[w] = "read"
        PROVE  Covered(m, last[w])' /\ Reached(m, last[w])'
    BY <2>1, <2>2, <2>3, NewRowsAbove DEF Covered, Reached
  <2>4. ASSUME pc'[w] = "allocate"
        PROVE  CoveredBut(m, top[w], batch[w])' /\ Reached(m, top[w])'
    BY <2>1, <2>2, <2>4, NewRowsAbove DEF CoveredBut, Reached
  <2>5. ASSUME pc'[w] = "write"
        PROVE  CoveredBut(m, top[w], todo[w])' /\ Reached(m, top[w])'
    BY <2>1, <2>2, <2>5, NewRowsAbove DEF CoveredBut, Reached
  <2> QED BY <2>3, <2>4, <2>5
<1> QED BY <1>1, <1>2

LEMMA PushStep ==
  ASSUME ~Deletes, PushInv, TypeOK', [Next]_vars
  PROVE  PushInv'
<1> USE DEF PushInv
<1>1. ASSUME NEW m \in Machines, NEW i \in Ids, Append(m, i) PROVE PushInv'
  <2>1. rowid[m][i] = 0
    BY <1>1 DEF Append, HasKey, Here
  <2>2. PICK t \in {0} \cup {rowid[m][j] : j \in Ids} :
            IsTop(m, t) /\ rowid' = [rowid EXCEPT ![m][i] = t + 1]
    BY <1>1 DEF Append
  <2>3. t \in Nat /\ \A j \in Ids : rowid[m][j] < t + 1
    BY <2>2 DEF IsTop, TypeOK
  <2>4. \A n \in Machines, j \in Ids :
            \/ rowid'[n][j] = rowid[n][j]
            \/ /\ rowid[n][j] = 0
               /\ \A k \in Ids : rowid[n][k] < rowid'[n][j]
    BY <2>1, <2>2, <2>3 DEF TypeOK
  <2> QED BY <1>1, <2>4, PushLogStep DEF Append, remote, worker
<1>2. ASSUME NEW m \in Machines, NEW i \in Ids, Delete(m, i) PROVE FALSE
  BY <1>2 DEF Delete
<1> USE DEF stores, remote, worker, Goto, TypeOK, Covered, CoveredBut,
            Reached, Here, Docs
<1>3. ASSUME NEW w \in Workers, StartPush(w) PROVE PushInv'
  BY <1>3 DEF StartPush
<1>4. ASSUME NEW w \in Workers, ReadEnd(w) PROVE PushInv'
  <2>1. pc'[w] \in {"find", "idle"}
    BY <1>4 DEF ReadEnd, EndPush
  <2>2. \A v \in Workers : v # w => pc'[v] = pc[v] /\ last'[v] = last[v]
    BY <1>4 DEF ReadEnd, EndPush
  <2>3. UNCHANGED <<rowid, pushPos, seq, batch, top, slot, todo>>
    BY <1>4 DEF ReadEnd
  <2> QED BY <2>1, <2>2, <2>3
<1>5. ASSUME NEW w \in Workers, Read(w) PROVE PushInv'
  <2> DEFINE m == MachineOf[w]
             row == rowid[m]
  <2>1. PICK S \in SUBSET After(w), t \in {row[i] : i \in After(w)} :
            /\ First(BatchSize, S, After(w), row)
            /\ \E i \in S : row[i] = t
            /\ \A i \in S : row[i] <= t
            /\ batch' = [batch EXCEPT ![w] = S]
            /\ top' = [top EXCEPT ![w] = t]
            /\ slot' = [slot EXCEPT ![w] =
                           [i \in Ids |-> IF i \in S THEN Place(row, S, i)
                                                     ELSE 0]]
    BY <1>5 DEF Read
  <2>2. S \in SUBSET Ids /\ row \in [Ids -> Nat] /\ t \in Nat
    BY DEF After
  <2>3. \A i \in S : slot'[w][i] # 0
    <3> SUFFICES ASSUME NEW i \in S PROVE slot'[w][i] # 0
      OBVIOUS
    <3>1. Place(row, S, i) \in Nat /\ 1 <= Place(row, S, i)
      BY <2>2, PlaceBounds
    <3>2. slot'[w][i] = Place(row, S, i)
      BY <2>1, <2>2
    <3> QED BY <3>1, <3>2
  <2>4. ASSUME NEW i \in Here(m), row[i] <= t PROVE i \in Docs \cup S
    <3>1. CASE row[i] <= last[w]
      BY <1>5, <3>1 DEF Read
    <3>2. CASE row[i] > last[w]
      <4>1. i \in After(w)
        BY <3>2 DEF After
      <4>2. PICK j \in S : row[j] = t
        BY <2>1
      <4>3. i \in After(w) \ S => row[j] < row[i]
        BY <2>1, <4>2 DEF First
      <4> QED BY <2>2, <2>4, <4>1, <4>2, <4>3
    <3> QED BY <2>2, <3>1, <3>2
  <2>5. Reached(m, t)
    BY <2>1, <2>2
  <2>6. CoveredBut(m, t, S) /\ top'[w] = t /\ batch'[w] = S
    BY <2>1, <2>4
  <2>7. UNCHANGED <<rowid, seq, pushPos, last, todo>>
    BY <1>5 DEF Read
  <2>8. \A v \in Workers : v # w => /\ top'[v] = top[v] /\ pc'[v] = pc[v]
                                    /\ batch'[v] = batch[v]
                                    /\ slot'[v] = slot[v]
    BY <1>5, <2>1 DEF Read
  <2>9. pc'[w] = "allocate"
    BY <1>5 DEF Read
  <2>10. \A n \in Machines : Covered(n, pushPos[n])' /\ Reached(n, pushPos[n])'
    BY <2>7
  <2>11. ASSUME NEW v \in Workers
         PROVE  LET n == MachineOf[v] IN
                /\ (pc[v] = "read" => /\ Covered(n, last[v])
                                      /\ Reached(n, last[v]))'
                /\ (pc[v] = "allocate" => /\ CoveredBut(n, top[v], batch[v])
                                          /\ Reached(n, top[v])
                                          /\ \A i \in batch[v] :
                                                slot[v][i] # 0)'
                /\ (pc[v] = "write" => /\ CoveredBut(n, top[v], todo[v])
                                       /\ Reached(n, top[v])
                                       /\ \A i \in todo[v] : slot[v][i] # 0)'
    <3>1. CASE v = w
      BY <2>3, <2>5, <2>6, <2>7, <2>9, <3>1
    <3>2. CASE v # w
      BY <2>7, <2>8, <3>2
    <3> QED BY <3>1, <3>2
  <2> QED BY <2>10, <2>11
<1>6. ASSUME NEW w \in Workers, Allocate(w) PROVE PushInv'
  <2>1. \A i \in batch[w] : slot'[w][i] # 0
    BY <1>6 DEF Allocate
  <2> QED BY <1>6, <2>1 DEF Allocate
<1>7. ASSUME NEW w \in Workers, NEW i \in Ids, WriteDoc(w, i) PROVE PushInv'
  <2>1. seq' = [seq EXCEPT ![i] = IF seq[i] = 0 THEN slot[w][i] ELSE seq[i]]
    BY <1>7 DEF WriteDoc
  <2>2. seq'[i] # 0 /\ \A j \in Ids : seq[j] # 0 => seq'[j] # 0
    BY <1>7, <2>1 DEF WriteDoc
  <2> QED BY <1>7, <2>2 DEF WriteDoc
<1>8. ASSUME NEW w \in Workers, SavePush(w) PROVE PushInv'
  <2>1. Covered(MachineOf[w], top[w])
    BY <1>8 DEF SavePush, Written
  <2> QED BY <1>8, <2>1 DEF SavePush, Written, EndPush
<1>9. ASSUME NEW w \in Workers, StartPull(w) PROVE PushInv'
  BY <1>9 DEF StartPull
<1>10. ASSUME NEW w \in Workers, FindEnd(w) PROVE PushInv'
  BY <1>10 DEF FindEnd
<1>11. ASSUME NEW w \in Workers, Find(w) PROVE PushInv'
  BY <1>11 DEF Find
<1>12. ASSUME NEW w \in Workers, Import(w) PROVE PushInv'
  <2> DEFINE m == MachineOf[w]
  <2>1. PICK N \in SUBSET batch[w],
             t \in {0} \cup {rowid[m][j] : j \in Ids} :
            /\ Fresh(m, batch[w], N) /\ IsTop(m, t)
            /\ rowid' = [rowid EXCEPT ![m] =
                            [i \in Ids |-> IF i \in N
                                           THEN t + Place(seq, N, i)
                                           ELSE rowid[m][i]]]
    BY <1>12, ImportEffect
  <2>2. t \in Nat /\ N \in SUBSET Ids /\ m \in Machines
    OBVIOUS
  <2>3. ASSUME NEW i \in N
        PROVE  rowid[m][i] = 0 /\ \A j \in Ids : rowid[m][j] < rowid'[m][i]
    <3>1. rowid[m][i] = 0
      BY <2>1, <2>2 DEF Fresh, HasKey
    <3>2. Place(seq, N, i) \in Nat /\ 1 <= Place(seq, N, i)
      BY <2>2, PlaceBounds
    <3>3. rowid'[m][i] = t + Place(seq, N, i)
      BY <2>1, <2>2
    <3> QED BY <2>1, <2>2, <3>1, <3>2, <3>3 DEF IsTop
  <2>4. \A n \in Machines, j \in Ids :
            \/ rowid'[n][j] = rowid[n][j]
            \/ /\ rowid[n][j] = 0
               /\ \A k \in Ids : rowid[n][k] < rowid'[n][j]
    BY <2>1, <2>2, <2>3
  <2>5. \A v \in Workers : pc'[v] \in {"read", "allocate", "write"}
                               => pc[v] = pc'[v]
    BY <1>12 DEF Import
  <2> QED BY <1>12, <2>4, <2>5, PushLogStep DEF Import
<1>13. ASSUME NEW w \in Workers, SavePull(w) PROVE PushInv'
  BY <1>13 DEF SavePull
<1>14. ASSUME NEW w \in Workers, Fail(w) PROVE PushInv'
  BY <1>14 DEF Fail
<1>15. CASE UNCHANGED vars
  BY <1>15 DEF vars
<1> QED BY <1>1, <1>2, <1>3, <1>4, <1>5, <1>6, <1>7, <1>8, <1>9, <1>10,
           <1>11, <1>12, <1>13, <1>14, <1>15 DEF Next, SyncStep

(* While no session is deleted, no event up to a machine's push position is *)
(* missing in Mongo: not after a partial bulk write, a failure, a retry, or *)
(* a position that another worker of the machine set back (pushEvents).     *)
THEOREM PushLosesNothing ==
  ASSUME ~Deletes
  PROVE  Spec => []PushedUpTo
<1>1. Init => PushInv
  BY DEF Init, PushInv, TypeOK, PCs, Covered, Reached, Here
<1>2. PushInv /\ [Next]_vars => PushInv'
  BY TypeStep, PushStep DEF PushInv
<1>3. PushInv => PushedUpTo
  BY DEF PushInv, Covered, PushedUpTo
<1> QED BY <1>1, <1>2, <1>3, PTL DEF Spec

-----------------------------------------------------------------------------
(* The pull.                                                                *)

(* The content of every document up to r is on machine m, or in set S.      *)
PulledBut(m, r, S) ==
    \A i \in Docs : seq[i] <= r => HasKey(m, KeyOf[i]) \/ i \in S
PulledTo(m, r) == PulledBut(m, r, {})

(* How far w's pull has got: what it will save or start from next.          *)
Position(w) == IF pc[w] = "find" THEN last[w] ELSE top[w]
Pulling(w) == pc[w] \in {"find", "import", "savePull"}

(* Numbers reserved and not yet written are beyond every pull position.     *)
PullInv ==
    /\ TypeOK
    /\ \A i \in Ids : seq[i] <= counter
    /\ \A m \in Machines : /\ pullPos[m] <= counter
                           /\ PulledTo(m, pullPos[m])
    /\ \A w \in Workers : Pulling(w) =>
          /\ Position(w) <= counter
          /\ PulledBut(MachineOf[w], Position(w),
                       IF pc[w] = "import" THEN batch[w] ELSE {})
    /\ \A w \in Workers : pc[w] = "allocate" =>
          \A i \in batch[w] : /\ slot[w][i] # 0
                              /\ slot[w][i] <= Cardinality(batch[w])
    /\ \A w \in Workers : pc[w] = "write" =>
          \A i \in todo[w] :
             /\ slot[w][i] <= counter
             /\ \A m \in Machines : pullPos[m] < slot[w][i]
             /\ \A v \in Workers : Pulling(v) => Position(v) < slot[w][i]

(* Without deletes no machine forgets an event.                             *)
LEMMA EventsStay ==
  ASSUME ~Deletes, TypeOK, [Next]_vars, NEW m \in Machines
  PROVE  Here(m) \subseteq Here(m)'
<1> SUFFICES \A i \in Ids : rowid[m][i] # 0 => rowid'[m][i] # 0
  BY DEF Here
<1>1. ASSUME NEW n \in Machines, NEW i \in Ids, Append(n, i)
      PROVE  \A j \in Ids : rowid[m][j] # 0 => rowid'[m][j] # 0
  <2>1. PICK t \in {0} \cup {rowid[n][j] : j \in Ids} :
            rowid' = [rowid EXCEPT ![n][i] = t + 1]
    BY <1>1 DEF Append
  <2>2. t \in Nat
    BY DEF TypeOK
  <2> QED BY <2>1, <2>2 DEF TypeOK
<1>2. ASSUME NEW w \in Workers, Import(w)
      PROVE  \A j \in Ids : rowid[m][j] # 0 => rowid'[m][j] # 0
  <2> DEFINE n == MachineOf[w]
  <2>1. PICK N \in SUBSET batch[w],
             t \in {0} \cup {rowid[n][j] : j \in Ids} :
            /\ Fresh(n, batch[w], N) /\ IsTop(n, t)
            /\ rowid' = [rowid EXCEPT ![n] =
                            [i \in Ids |-> IF i \in N
                                           THEN t + Place(seq, N, i)
                                           ELSE rowid[n][i]]]
    BY <1>2, ImportEffect
  <2>2. t \in Nat /\ N \in SUBSET Ids /\ seq \in [Ids -> Nat]
        /\ n \in Machines
    BY DEF TypeOK
  <2>3. \A i \in N : Place(seq, N, i) \in Nat /\ 1 <= Place(seq, N, i)
    BY <2>2, PlaceBounds
  <2> QED BY <2>1, <2>2, <2>3 DEF TypeOK
<1>3. ASSUME NEW n \in Machines, NEW i \in Ids, Delete(n, i) PROVE FALSE
  BY <1>3 DEF Delete
<1> QED BY <1>1, <1>2, <1>3
        DEF Next, SyncStep, Fail, StartPush, ReadEnd, Read, Allocate,
            WriteDoc, SavePush, StartPull, FindEnd, Find, SavePull, vars,
            stores

LEMMA KeysStay ==
  ASSUME ~Deletes, TypeOK, [Next]_vars, NEW m \in Machines, NEW k \in Keys,
         HasKey(m, k)
  PROVE  HasKey(m, k)'
BY EventsStay DEF HasKey

(* A step that changes no document, no number and no pull position, and     *)
(* only starts a pull where the last one ended.                             *)
LEMMA PullFrame ==
  ASSUME ~Deletes, PullInv, TypeOK', [Next]_vars,
         UNCHANGED <<seq, counter, pullPos>>,
         \A w \in Workers : Pulling(w)' =>
            \/ Pulling(w) /\ UNCHANGED <<pc[w], last[w], top[w], batch[w]>>
            \/ pc'[w] = "find" /\ last'[w] = pullPos[MachineOf[w]],
         \A w \in Workers : pc'[w] = "allocate" =>
            \A i \in batch'[w] : /\ slot'[w][i] # 0
                                 /\ slot'[w][i] <= Cardinality(batch'[w]),
         \A w \in Workers : pc'[w] = "write" =>
            pc[w] = "write" /\ UNCHANGED <<todo[w], slot[w]>>
  PROVE  PullInv'
<1> USE DEF PullInv
<1>1. \A m \in Machines, r \in Nat, S \in SUBSET Ids :
          PulledBut(m, r, S)
             => \A i \in Docs' : seq'[i] <= r
                                    => HasKey(m, KeyOf[i])' \/ i \in S
  BY KeysStay DEF PulledBut, Docs, TypeOK
<1>2. \A m \in Machines : pullPos[m] \in Nat
  BY DEF TypeOK
<1>3. ASSUME NEW m \in Machines PROVE PulledTo(m, pullPos[m])'
  <2>1. pullPos[m] \in Nat /\ pullPos'[m] = pullPos[m]
        /\ PulledBut(m, pullPos[m], {})
    BY <1>2 DEF PulledTo
  <2>2. \A i \in Docs' : seq'[i] <= pullPos[m]
                            => HasKey(m, KeyOf[i])' \/ i \in {}
    BY <1>1, <2>1
  <2>3. \A i \in Docs' : seq'[i] <= pullPos'[m] => HasKey(m, KeyOf[i])'
    BY <2>1, <2>2
  <2> QED BY <2>3 DEF PulledTo, PulledBut, HasKey, Here, Docs
<1>4. ASSUME NEW w \in Workers, Pulling(w)'
      PROVE  /\ Position(w)' <= counter'
             /\ PulledBut(MachineOf[w], Position(w),
                          IF pc[w] = "import" THEN batch[w] ELSE {})'
             /\ \/ Pulling(w) /\ Position(w)' = Position(w)
                \/ Position(w)' = pullPos[MachineOf[w]]
  <2>1. CASE Pulling(w) /\ UNCHANGED <<pc[w], last[w], top[w], batch[w]>>
    <3>1. Position(w)' = Position(w) /\ Position(w) \in Nat
      BY <2>1 DEF Position, TypeOK
    <3>2. (IF pc[w] = "import" THEN batch[w] ELSE {}) \in SUBSET Ids
      BY DEF TypeOK
    <3>3. PulledBut(MachineOf[w], Position(w),
                    IF pc[w] = "import" THEN batch[w] ELSE {})
      BY <2>1
    <3>4. MachineOf[w] \in Machines
      OBVIOUS
    <3>5. (IF pc[w] = "import" THEN batch[w] ELSE {})'
             = IF pc[w] = "import" THEN batch[w] ELSE {}
      BY <2>1
    <3>6. \A i \in Docs' : seq'[i] <= Position(w)
              => \/ HasKey(MachineOf[w], KeyOf[i])'
                 \/ i \in IF pc[w] = "import" THEN batch[w] ELSE {}
      BY <1>1, <3>1, <3>2, <3>3, <3>4 DEF HasKey, Here, Docs
    <3>7. PulledBut(MachineOf[w], Position(w),
                    IF pc[w] = "import" THEN batch[w] ELSE {})'
      BY <3>1, <3>5, <3>6 DEF PulledBut, HasKey, Here, Docs
    <3> QED BY <2>1, <3>1, <3>7
  <2>2. CASE pc'[w] = "find" /\ last'[w] = pullPos[MachineOf[w]]
    <3>1. Position(w)' = pullPos[MachineOf[w]]
      BY <2>2 DEF Position
    <3>2. PulledTo(MachineOf[w], pullPos[MachineOf[w]])'
      BY <1>3
    <3> QED BY <2>2, <3>1, <3>2 DEF PulledTo, PulledBut
  <2> QED BY <1>4, <2>1, <2>2
<1>5. ASSUME NEW w \in Workers, pc'[w] = "write", NEW i \in todo'[w]
      PROVE  /\ slot'[w][i] <= counter'
             /\ \A m \in Machines : pullPos'[m] < slot'[w][i]
             /\ \A v \in Workers : Pulling(v)' => Position(v)' < slot'[w][i]
  BY <1>4, <1>5
<1> QED BY <1>3, <1>4, <1>5

LEMMA PullStep ==
  ASSUME ~Overlap, ~Deletes, PullInv, TypeOK', [Next]_vars
  PROVE  PullInv'
<1> USE DEF PullInv
<1>1. ASSUME NEW m \in Machines, NEW i \in Ids, Append(m, i) PROVE PullInv'
  BY <1>1, PullFrame DEF Append, remote, worker, Pulling
<1>2. ASSUME NEW m \in Machines, NEW i \in Ids, Delete(m, i) PROVE FALSE
  BY <1>2 DEF Delete
<1>3. ASSUME NEW w \in Workers, StartPush(w) PROVE PullInv'
  BY <1>3, PullFrame DEF StartPush, Goto, stores, remote, Pulling, TypeOK
<1>4. ASSUME NEW w \in Workers, ReadEnd(w) PROVE PullInv'
  <2>1. /\ UNCHANGED <<seq, counter, pullPos, top, batch, slot, todo>>
        /\ pc[w] = "read"
    BY <1>4 DEF ReadEnd, stores, remote
  <2>2. /\ \/ pc'[w] = "find" /\ last'[w] = pullPos[MachineOf[w]]
           \/ pc'[w] = "idle"
        /\ \A v \in Workers : v # w => UNCHANGED <<pc[v], last[v]>>
    BY <1>4 DEF ReadEnd, EndPush, Goto, TypeOK
  <2> QED BY <2>1, <2>2, PullFrame DEF Pulling
<1>5. ASSUME NEW w \in Workers, Read(w) PROVE PullInv'
  <2> DEFINE row == rowid[MachineOf[w]]
  <2>1. PICK S \in SUBSET After(w), t \in {row[i] : i \in After(w)} :
            /\ batch' = [batch EXCEPT ![w] = S]
            /\ top' = [top EXCEPT ![w] = t]
            /\ slot' = [slot EXCEPT ![w] =
                           [i \in Ids |-> IF i \in S THEN Place(row, S, i)
                                                     ELSE 0]]
    BY <1>5 DEF Read
  <2>2. S \in SUBSET Ids /\ row \in [Ids -> Nat]
    BY DEF After, Here, TypeOK
  <2>3. \A i \in S : /\ Place(row, S, i) # 0
                     /\ Place(row, S, i) <= Cardinality(S)
    <3>1. ASSUME NEW i \in S
          PROVE  /\ Place(row, S, i) # 0
                 /\ Place(row, S, i) <= Cardinality(S)
      <4>1. /\ Place(row, S, i) \in Nat /\ 1 <= Place(row, S, i)
            /\ Place(row, S, i) <= Cardinality(S)
        BY <2>2, PlaceBounds
      <4> QED BY <4>1
    <3> QED BY <3>1
  <2>4. \A i \in batch'[w] : /\ slot'[w][i] # 0
                             /\ slot'[w][i] <= Cardinality(batch'[w])
    BY <2>1, <2>2, <2>3 DEF TypeOK
  <2>5. \A v \in Workers : v # w =>
            UNCHANGED <<pc[v], top[v], batch[v], slot[v]>>
    BY <1>5, <2>1 DEF Read, Goto
  <2>6. pc'[w] = "allocate"
    BY <1>5 DEF Read, Goto, TypeOK
  <2>7. UNCHANGED <<seq, counter, pullPos, last, todo>>
    BY <1>5 DEF Read, remote, stores
  <2>8. \A v \in Workers : Pulling(v)' => v # w
    BY <2>6 DEF Pulling
  <2>9. \A v \in Workers : Pulling(v)' =>
            Pulling(v) /\ UNCHANGED <<pc[v], last[v], top[v], batch[v]>>
    BY <2>5, <2>7, <2>8 DEF Pulling
  <2>10. \A v \in Workers : pc'[v] = "allocate" =>
            \A i \in batch'[v] : /\ slot'[v][i] # 0
                                 /\ slot'[v][i] <= Cardinality(batch'[v])
    BY <2>4, <2>5
  <2>11. \A v \in Workers : pc'[v] = "write" =>
            pc[v] = "write" /\ UNCHANGED <<todo[v], slot[v]>>
    BY <2>5, <2>6, <2>7
  <2> QED BY <2>7, <2>9, <2>10, <2>11, PullFrame
<1>6. ASSUME NEW w \in Workers, Allocate(w) PROVE PullInv'
  <2>1. /\ pc[w] = "allocate" /\ pc' = [pc EXCEPT ![w] = "write"]
        /\ counter' = counter + Cardinality(batch[w])
        /\ slot' = [slot EXCEPT ![w] =
                       [i \in Ids |-> IF i \in batch[w]
                                      THEN counter + slot[w][i] ELSE 0]]
        /\ todo' = [todo EXCEPT ![w] = batch[w]]
        /\ UNCHANGED <<rowid, pullPos, seq, last, batch, top>>
    BY <1>6 DEF Allocate, Reserve, Goto, stores
  <2>2. Cardinality(batch[w]) \in Nat /\ counter \in Nat
    BY BatchSizes DEF TypeOK
  <2>3. counter <= counter'
    BY <2>1, <2>2
  <2>4. \A i \in batch[w] : slot'[w][i] = counter + slot[w][i]
                            /\ slot[w][i] \in Nat /\ slot[w][i] # 0
                            /\ slot[w][i] <= Cardinality(batch[w])
    BY <2>1 DEF TypeOK
  <2>5. \A v \in Workers : Pulling(v)' = Pulling(v)
                           /\ Position(v)' = Position(v)
                           /\ (Pulling(v) => Position(v) \in Nat)
    BY <2>1 DEF Pulling, Position, TypeOK
  <2>6. \A i \in Ids : seq[i] \in Nat
    BY DEF TypeOK
  <2>7. \A m \in Machines : pullPos[m] \in Nat
    BY DEF TypeOK
  <2>8. /\ \A i \in Ids : seq'[i] <= counter'
        /\ \A m \in Machines : pullPos'[m] <= counter'
    BY <2>1, <2>3, <2>2, <2>6, <2>7
  <2>9. \A m \in Machines : PulledTo(m, pullPos[m])'
    BY <2>1 DEF PulledTo, PulledBut, Docs, HasKey, Here
  <2>10. ASSUME NEW v \in Workers, Pulling(v)'
         PROVE  /\ Position(v)' <= counter'
                /\ PulledBut(MachineOf[v], Position(v),
                             IF pc[v] = "import" THEN batch[v] ELSE {})'
    <3>1. Pulling(v) /\ pc'[v] = pc[v]
      BY <2>1, <2>5, <2>10 DEF Pulling, TypeOK
    <3> QED BY <2>1, <2>2, <2>3, <2>5, <3>1
            DEF PulledBut, Docs, HasKey, Here
  <2>11. ASSUME NEW v \in Workers, pc'[v] = "allocate"
         PROVE  \A i \in batch'[v] : /\ slot'[v][i] # 0
                                     /\ slot'[v][i] <= Cardinality(batch'[v])
    BY <2>1, <2>11 DEF TypeOK
  <2>12. ASSUME NEW v \in Workers, pc'[v] = "write", NEW i \in todo'[v]
         PROVE  /\ slot'[v][i] <= counter'
                /\ \A m \in Machines : pullPos'[m] < slot'[v][i]
                /\ \A u \in Workers : Pulling(u)' => Position(u)' < slot'[v][i]
    <3>1. CASE v = w
      <4>1. i \in batch[w]
        BY <2>1, <2>12, <3>1 DEF TypeOK
      <4>2. /\ slot'[w][i] = counter + slot[w][i]
            /\ slot[w][i] \in Nat /\ slot[w][i] # 0
            /\ slot[w][i] <= Cardinality(batch[w])
        BY <2>4, <4>1
      <4>3. counter < slot'[w][i] /\ slot'[w][i] <= counter'
            /\ slot'[w][i] \in Nat
        BY <2>1, <2>2, <4>2
      <4>4. \A m \in Machines : pullPos'[m] < slot'[w][i]
        BY <2>1, <2>2, <2>7, <4>3
      <4>5. ASSUME NEW u \in Workers, Pulling(u)'
            PROVE  Position(u)' < slot'[w][i]
        <5>1. Position(u)' \in Nat /\ Position(u)' <= counter
          BY <2>5, <4>5
        <5> QED BY <2>2, <4>3, <5>1
      <4> QED BY <3>1, <4>3, <4>4, <4>5
    <3>2. CASE v # w
      <4>1. pc[v] = "write" /\ i \in todo[v] /\ slot'[v] = slot[v]
            /\ slot[v][i] \in Nat
        BY <2>1, <2>12, <3>2 DEF TypeOK
      <4> QED BY <2>1, <2>2, <2>3, <2>5, <4>1
    <3> QED BY <3>1, <3>2
  <2> QED BY <2>8, <2>9, <2>10, <2>11, <2>12
<1>7. ASSUME NEW w \in Workers, NEW i \in Ids, WriteDoc(w, i) PROVE PullInv'
  <2>1. /\ pc[w] = "write" /\ i \in todo[w]
        /\ seq' = [seq EXCEPT ![i] = IF seq[i] = 0 THEN slot[w][i]
                                                   ELSE seq[i]]
        /\ todo' = [todo EXCEPT ![w] = todo[w] \ {i}]
        /\ UNCHANGED <<rowid, pullPos, counter, pc, last, batch, top, slot>>
    BY <1>7 DEF WriteDoc, stores
  <2>2. /\ slot[w][i] <= counter
        /\ \A m \in Machines : pullPos[m] < slot[w][i]
        /\ \A v \in Workers : Pulling(v) => Position(v) < slot[w][i]
    BY <2>1
  <2>3. \A j \in Ids : seq'[j] = seq[j] \/ (j = i /\ seq'[j] = slot[w][i])
    BY <2>1 DEF TypeOK
  <2>4. \A v \in Workers : Pulling(v)' = Pulling(v)
                           /\ Position(v)' = Position(v)
                           /\ (Pulling(v) => Position(v) \in Nat)
    BY <2>1 DEF Pulling, Position, TypeOK
  <2>5. /\ slot[w][i] \in Nat
        /\ \A m \in Machines : pullPos[m] \in Nat
    BY DEF TypeOK
  <2>6. \A m \in Machines, r \in Nat, S \in SUBSET Ids :
            r < slot[w][i] /\ PulledBut(m, r, S)
               => \A j \in Docs' : seq'[j] <= r
                                      => HasKey(m, KeyOf[j])' \/ j \in S
    BY <2>1, <2>3, <2>5 DEF PulledBut, Docs, HasKey, Here, TypeOK
  <2>7. \A m \in Machines : PulledTo(m, pullPos[m])'
    BY <2>1, <2>2, <2>5, <2>6 DEF PulledTo, PulledBut, HasKey, Here, Docs
  <2>8. ASSUME NEW v \in Workers, Pulling(v)'
        PROVE  PulledBut(MachineOf[v], Position(v),
                         IF pc[v] = "import" THEN batch[v] ELSE {})'
    <3>1. /\ Position(v) \in Nat /\ Position(v) < slot[w][i]
          /\ Position(v)' = Position(v)
          /\ PulledBut(MachineOf[v], Position(v),
                       IF pc[v] = "import" THEN batch[v] ELSE {})
      BY <2>2, <2>4, <2>8
    <3>2. (IF pc[v] = "import" THEN batch[v] ELSE {}) \in SUBSET Ids
      BY DEF TypeOK
    <3>3. \A j \in Docs' : seq'[j] <= Position(v)
              => \/ HasKey(MachineOf[v], KeyOf[j])'
                 \/ j \in IF pc[v] = "import" THEN batch[v] ELSE {}
      BY <2>6, <3>1, <3>2
    <3>4. (IF pc[v] = "import" THEN batch[v] ELSE {})'
             = IF pc[v] = "import" THEN batch[v] ELSE {}
      BY <2>1
    <3> QED BY <3>1, <3>3, <3>4 DEF PulledBut, HasKey, Here, Docs
  <2>9. ASSUME NEW v \in Workers, pc'[v] = "write", NEW j \in todo'[v]
        PROVE  /\ slot'[v][j] <= counter'
               /\ \A m \in Machines : pullPos'[m] < slot'[v][j]
               /\ \A u \in Workers : Pulling(u)' => Position(u)' < slot'[v][j]
    <3>1. pc[v] = "write" /\ j \in todo[v]
      BY <2>1, <2>9 DEF TypeOK
    <3> QED BY <2>1, <2>4, <3>1
  <2>10. \A j \in Ids : seq'[j] <= counter'
    BY <2>1, <2>2, <2>3
  <2> QED BY <2>1, <2>4, <2>7, <2>8, <2>9, <2>10
<1>8. ASSUME NEW w \in Workers, SavePush(w) PROVE PullInv'
  BY <1>8, PullFrame DEF SavePush, Written, EndPush, Goto, remote, Pulling,
                         TypeOK
<1>9. ASSUME NEW w \in Workers, StartPull(w) PROVE PullInv'
  BY <1>9, PullFrame DEF StartPull, Goto, stores, remote, Pulling, TypeOK
<1>10. ASSUME NEW w \in Workers, FindEnd(w) PROVE PullInv'
  BY <1>10, PullFrame DEF FindEnd, Goto, stores, remote, Pulling, TypeOK
<1>11. ASSUME NEW w \in Workers, Find(w) PROVE PullInv'
  <2>1. \A v \in Workers : pc[v] # "write"
    BY <1>11 DEF Find, Quiet
  <2>2. PICK S \in SUBSET Newer(w), t \in {seq[i] : i \in Newer(w)} :
            /\ First(BatchSize, S, Newer(w), seq)
            /\ \E i \in S : seq[i] = t
            /\ batch' = [batch EXCEPT ![w] = S]
            /\ top' = [top EXCEPT ![w] = t]
    BY <1>11 DEF Find
  <2>3. /\ pc[w] = "find" /\ pc' = [pc EXCEPT ![w] = "import"]
        /\ UNCHANGED <<rowid, pullPos, seq, counter, last, slot, todo>>
    BY <1>11 DEF Find, Goto, stores, remote
  <2>4. t \in Nat /\ t <= counter
    BY DEF Newer, Docs, TypeOK
  <2>5. ASSUME NEW i \in Docs, seq[i] <= t
        PROVE  HasKey(MachineOf[w], KeyOf[i]) \/ i \in S
    <3>1. CASE seq[i] <= last[w]
      <4>1. Pulling(w) /\ Position(w) = last[w]
        BY <2>3 DEF Pulling, Position
      <4>2. PulledBut(MachineOf[w], last[w], {})
        BY <2>3, <4>1
      <4> QED BY <3>1, <4>2 DEF PulledBut
    <3>2. CASE seq[i] > last[w]
      <4>1. i \in Newer(w)
        BY <3>2 DEF Newer
      <4>2. PICK j \in S : seq[j] = t
        BY <2>2
      <4>3. i \in Newer(w) \ S => seq[j] < seq[i]
        BY <2>2, <4>2 DEF First
      <4>4. seq[i] \in Nat
        BY DEF Docs, TypeOK
      <4> QED BY <2>4, <2>5, <4>1, <4>2, <4>3, <4>4
    <3>3. seq[i] \in Nat /\ last[w] \in Nat
      BY DEF Docs, TypeOK
    <3> QED BY <3>1, <3>2, <3>3
  <2>6. pc'[w] = "import" /\ top'[w] = t /\ batch'[w] = S
    BY <2>2, <2>3 DEF TypeOK
  <2>7. /\ Position(w)' = t
        /\ PulledBut(MachineOf[w], Position(w), batch[w])'
    BY <2>3, <2>5, <2>6 DEF Position, PulledBut, Docs, HasKey, Here
  <2>8. \A v \in Workers : v # w =>
            UNCHANGED <<pc[v], top[v], batch[v]>>
    BY <2>2, <2>3
  <2>9. ASSUME NEW v \in Workers, Pulling(v)'
        PROVE  /\ Position(v)' <= counter'
               /\ PulledBut(MachineOf[v], Position(v),
                            IF pc[v] = "import" THEN batch[v] ELSE {})'
    <3>1. CASE v = w
      BY <2>3, <2>4, <2>6, <2>7, <3>1
    <3>2. CASE v # w
      <4>1. /\ Pulling(v) /\ pc'[v] = pc[v] /\ batch'[v] = batch[v]
            /\ Position(v)' = Position(v)
        BY <2>3, <2>8, <2>9, <3>2 DEF Pulling, Position
      <4> QED BY <2>3, <4>1 DEF PulledBut, Docs, HasKey, Here
    <3> QED BY <3>1, <3>2
  <2>10. \A v \in Workers : pc'[v] # "write"
    BY <2>1, <2>6, <2>8
  <2>11. \A v \in Workers : pc'[v] = "allocate" =>
             pc[v] = "allocate" /\ v # w
    BY <2>6, <2>8
  <2>12. \A m \in Machines : PulledTo(m, pullPos[m])'
    BY <2>3 DEF PulledTo, PulledBut, Docs, HasKey, Here
  <2> QED BY <2>3, <2>8, <2>9, <2>10, <2>11, <2>12
<1>12. ASSUME NEW w \in Workers, Import(w) PROVE PullInv'
  <2> DEFINE m == MachineOf[w]
  <2>1. PICK N \in SUBSET batch[w],
             t \in {0} \cup {rowid[m][j] : j \in Ids} :
            /\ Fresh(m, batch[w], N) /\ IsTop(m, t)
            /\ rowid' = [rowid EXCEPT ![m] =
                            [i \in Ids |-> IF i \in N
                                           THEN t + Place(seq, N, i)
                                           ELSE rowid[m][i]]]
    BY <1>12, ImportEffect
  <2>2. /\ t \in Nat /\ N \in SUBSET Ids /\ batch[w] \in SUBSET Ids
        /\ m \in Machines /\ seq \in [Ids -> Nat]
    BY DEF TypeOK
  <2>3. \A i \in N : i \in Here(m)'
    <3> SUFFICES ASSUME NEW i \in N PROVE rowid'[m][i] # 0
      BY <2>2 DEF Here
    <3>1. Place(seq, N, i) \in Nat /\ 1 <= Place(seq, N, i)
      BY <2>2, PlaceBounds
    <3>2. rowid'[m][i] = t + Place(seq, N, i)
      BY <2>1, <2>2 DEF TypeOK
    <3> QED BY <2>2, <3>1, <3>2
  <2>4. \A i \in batch[w] : HasKey(m, KeyOf[i])'
    <3> SUFFICES ASSUME NEW i \in batch[w] PROVE HasKey(m, KeyOf[i])'
      OBVIOUS
    <3>1. CASE HasKey(m, KeyOf[i])
      BY <2>2, <3>1, KeysStay
    <3>2. CASE \E j \in N : KeyOf[j] = KeyOf[i]
      BY <2>3, <3>2 DEF HasKey
    <3> QED BY <2>1, <3>1, <3>2 DEF Fresh
  <2>5. /\ pc[w] = "import" /\ pc' = [pc EXCEPT ![w] = "savePull"]
        /\ UNCHANGED <<pullPos, seq, counter, last, batch, top, slot, todo>>
    BY <1>12 DEF Import, Goto, remote
  <2>6. \A v \in Workers : /\ Pulling(v)' = Pulling(v)
                           /\ Position(v)' = Position(v)
                           /\ v # w => pc'[v] = pc[v]
    BY <2>5 DEF Pulling, Position, TypeOK
  <2>7. \A n \in Machines : PulledTo(n, pullPos[n])'
    BY <2>5, KeysStay DEF PulledTo, PulledBut, Docs
  <2>8. ASSUME NEW v \in Workers, Pulling(v)'
        PROVE  /\ Position(v)' <= counter'
               /\ PulledBut(MachineOf[v], Position(v),
                            IF pc[v] = "import" THEN batch[v] ELSE {})'
    <3>1. CASE v = w
      <4>1. PulledBut(m, Position(w), batch[w])
        BY <2>5 DEF Pulling
      <4>2. PulledBut(m, Position(w), {})'
        BY <2>2, <2>4, <2>5, <2>6, <4>1, KeysStay DEF PulledBut, Docs
      <4>3. pc'[w] = "savePull"
        BY <2>5 DEF TypeOK
      <4> QED BY <2>5, <2>6, <2>8, <3>1, <4>2, <4>3
    <3>2. CASE v # w
      <4>1. PulledBut(MachineOf[v], Position(v),
                      IF pc[v] = "import" THEN batch[v] ELSE {})
        BY <2>6, <2>8
      <4>2. pc'[v] = pc[v] /\ batch'[v] = batch[v]
        BY <2>5, <2>6, <3>2
      <4>3. MachineOf[v] \in Machines
        OBVIOUS
      <4> QED BY <2>5, <2>6, <2>8, <4>1, <4>2, <4>3, KeysStay
              DEF PulledBut, Docs
    <3> QED BY <3>1, <3>2
  <2>9. \A v \in Workers : pc'[v] \in {"allocate", "write"} => pc'[v] = pc[v]
    BY <2>5, <2>6 DEF TypeOK
  <2> QED BY <2>5, <2>6, <2>7, <2>8, <2>9
<1>13. ASSUME NEW w \in Workers, SavePull(w) PROVE PullInv'
  <2>1. /\ pc[w] = "savePull"
        /\ pullPos' = [pullPos EXCEPT ![MachineOf[w]] = top[w]]
        /\ last' = [last EXCEPT ![w] = top[w]]
        /\ pc' = [pc EXCEPT ![w] = IF Cardinality(batch[w]) < BatchSize
                                   THEN "idle" ELSE "find"]
        /\ batch' = [batch EXCEPT ![w] = {}]
        /\ UNCHANGED <<rowid, seq, counter, top, slot, todo>>
    BY <1>13 DEF SavePull, Goto, remote
  <2>2. /\ PulledBut(MachineOf[w], top[w], {}) /\ top[w] <= counter
        /\ Position(w) = top[w] /\ Pulling(w)
    BY <2>1 DEF Pulling, Position
  <2>3. \A n \in Machines : pullPos'[n] = pullPos[n]
                            \/ (n = MachineOf[w] /\ pullPos'[n] = top[w])
    BY <2>1 DEF TypeOK
  <2>4. \A n \in Machines : /\ pullPos'[n] <= counter'
                            /\ PulledTo(n, pullPos[n])'
    BY <2>1, <2>2, <2>3 DEF PulledTo, PulledBut, Docs, HasKey, Here
  <2>5. \A v \in Workers : Pulling(v)' =>
            Pulling(v) /\ Position(v)' = Position(v)
    BY <2>1, <2>2 DEF Pulling, Position, TypeOK
  <2>6. ASSUME NEW v \in Workers, Pulling(v)'
        PROVE  /\ Position(v)' <= counter'
               /\ PulledBut(MachineOf[v], Position(v),
                            IF pc[v] = "import" THEN batch[v] ELSE {})'
    <3>1. CASE v = w
      <4>1. pc'[w] = "find" /\ Position(w)' = top[w]
        BY <2>1, <2>2, <2>5, <2>6, <3>1 DEF Pulling, TypeOK
      <4> QED BY <2>1, <2>2, <3>1, <4>1 DEF PulledBut, Docs, HasKey, Here
    <3>2. CASE v # w
      <4>1. /\ Pulling(v) /\ pc'[v] = pc[v] /\ batch'[v] = batch[v]
            /\ Position(v)' = Position(v)
        BY <2>1, <2>5, <2>6, <3>2
      <4> QED BY <2>1, <4>1 DEF PulledBut, Docs, HasKey, Here
    <3> QED BY <3>1, <3>2
  <2>7. ASSUME NEW v \in Workers, pc'[v] = "write", NEW i \in todo'[v]
        PROVE  /\ slot'[v][i] <= counter'
               /\ \A n \in Machines : pullPos'[n] < slot'[v][i]
               /\ \A u \in Workers : Pulling(u)' => Position(u)' < slot'[v][i]
    <3>1. pc[v] = "write" /\ i \in todo[v]
      BY <2>1, <2>7
    <3> QED BY <2>1, <2>2, <2>3, <2>5, <3>1
  <2>8. ASSUME NEW v \in Workers, pc'[v] = "allocate"
        PROVE  pc[v] = "allocate" /\ batch'[v] = batch[v]
    BY <2>1, <2>8
  <2> QED BY <2>1, <2>4, <2>6, <2>7, <2>8
<1>14. ASSUME NEW w \in Workers, Fail(w) PROVE PullInv'
  BY <1>14, PullFrame DEF Fail, Goto, stores, remote, Pulling, TypeOK
<1>15. CASE UNCHANGED vars
  BY <1>15, PullFrame DEF vars, stores, remote, worker, Pulling
<1> QED BY <1>1, <1>2, <1>3, <1>4, <1>5, <1>6, <1>7, <1>8, <1>9, <1>10,
           <1>11, <1>12, <1>13, <1>14, <1>15 DEF Next, SyncStep

(* While no session is deleted and no pull runs inside another worker's     *)
(* push, no content up to a machine's pull position is missing there: not   *)
(* after failures, retries, numbers that were reserved and never used, or a *)
(* position that another worker of the machine set back (pullEvents).       *)
THEOREM PullLosesNothing ==
  ASSUME ~Overlap, ~Deletes
  PROVE  Spec => []PulledUpTo
<1>1. Init => PullInv
  BY DEF Init, PullInv, TypeOK, PCs, PulledTo, PulledBut, Docs, Pulling
<1>2. PullInv /\ [Next]_vars => PullInv'
  BY TypeStep, PullStep DEF PullInv
<1>3. PullInv => PulledUpTo
  BY DEF PullInv, PulledTo, PulledBut, PulledUpTo
<1> QED BY <1>1, <1>2, <1>3, PTL DEF Spec
-----------------------------------------------------------------------------
(* Numbers and keys are unique, with deletes and overlapping calls too.     *)

LEMMA PlaceInjective ==
  ASSUME NEW S \in SUBSET Ids, NEW rank \in [Ids -> Nat],
         \A i, j \in S : rank[i] = rank[j] => i = j,
         NEW i \in S, NEW j \in S, Place(rank, S, i) = Place(rank, S, j)
  PROVE  i = j
<1>1. ASSUME NEW a \in S, NEW b \in S, rank[a] < rank[b]
      PROVE  Place(rank, S, a) # Place(rank, S, b)
  <2> DEFINE A == {k \in S : rank[k] <= rank[a]}
             B == {k \in S : rank[k] <= rank[b]}
  <2>1. A \in SUBSET B /\ b \in B /\ b \notin A /\ B \in SUBSET S
    BY <1>1
  <2>2. IsFiniteSet(B)
    BY <2>1, FS_Subset
  <2>3. Cardinality(A) # Cardinality(B)
    BY <2>1, <2>2, FS_Subset
  <2> QED BY <2>3 DEF Place
<1>2. ~(rank[i] < rank[j]) /\ ~(rank[j] < rank[i])
  BY <1>1
<1>3. rank[i] \in Nat /\ rank[j] \in Nat
  OBVIOUS
<1> QED BY <1>2, <1>3

RowidsUnique ==
    \A m \in Machines : \A i, j \in Here(m) :
        rowid[m][i] = rowid[m][j] => i = j

(* The numbers that a worker has reserved are its own until they are in a   *)
(* document.                                                                *)
Reserved(w) == IF pc[w] = "write" THEN todo[w] ELSE {}

NumberInv ==
    /\ TypeOK /\ RowidsUnique /\ SeqsUnique
    /\ \A i \in Ids : seq[i] <= counter
    /\ \A w \in Workers : pc[w] = "import" => batch[w] \subseteq Docs
    /\ \A w \in Workers : pc[w] = "allocate" =>
          \A i, j \in batch[w] :
              /\ slot[w][i] \in 1 .. Cardinality(batch[w])
              /\ slot[w][i] = slot[w][j] => i = j
    /\ \A w \in Workers : \A i \in Reserved(w) :
          /\ slot[w][i] \in 1 .. counter
          /\ \A d \in Ids : seq[d] # slot[w][i]
    /\ \A v, w \in Workers : \A i \in Reserved(v), j \in Reserved(w) :
          slot[v][i] = slot[w][j] => v = w /\ i = j

(* Steps that number nothing.                                               *)
LEMMA NumberFrame ==
  ASSUME NumberInv, TypeOK', UNCHANGED <<seq, counter>>, RowidsUnique',
         \A w \in Workers :
            /\ Reserved(w)' = {} \/ UNCHANGED <<pc[w], todo[w], slot[w]>>
            /\ pc'[w] = "import" => batch'[w] \subseteq Docs
            /\ pc'[w] = "allocate" =>
                  \A i, j \in batch'[w] :
                     /\ slot'[w][i] \in 1 .. Cardinality(batch'[w])
                     /\ slot'[w][i] = slot'[w][j] => i = j
  PROVE  NumberInv'
<1>1. \A w \in Workers : \A i \in Reserved(w)' :
         i \in Reserved(w) /\ slot'[w][i] = slot[w][i]
  BY DEF Reserved
<1>2. SeqsUnique' /\ Docs' = Docs
  BY DEF NumberInv, SeqsUnique, Docs
<1>3. \A w \in Workers : \A i \in Reserved(w)' :
         /\ slot'[w][i] \in 1 .. counter'
         /\ \A d \in Ids : seq'[d] # slot'[w][i]
  BY <1>1 DEF NumberInv
<1>4. \A v, w \in Workers : \A i \in Reserved(v)', j \in Reserved(w)' :
         slot'[v][i] = slot'[w][j] => v = w /\ i = j
  BY <1>1 DEF NumberInv
<1> QED BY <1>2, <1>3, <1>4 DEF NumberInv

(* New rows get rowids above those there are, each its own.                 *)
LEMMA RowidsStep ==
  ASSUME NumberInv, TypeOK', [Next]_vars
  PROVE  RowidsUnique'
<1> USE DEF NumberInv, TypeOK, RowidsUnique, Here
<1>1. ASSUME NEW m \in Machines, NEW i \in Ids, Append(m, i)
      PROVE  RowidsUnique'
  <2>1. PICK t \in {0} \cup {rowid[m][j] : j \in Ids} :
           IsTop(m, t) /\ rowid' = [rowid EXCEPT ![m][i] = t + 1]
    BY <1>1 DEF Append
  <2>2. t \in Nat /\ \A j \in Ids : rowid[m][j] \in Nat /\ rowid[m][j] < t + 1
    BY <2>1 DEF IsTop
  <2> QED BY <2>1, <2>2
<1>2. ASSUME NEW m \in Machines, NEW i \in Ids, Delete(m, i)
      PROVE  RowidsUnique'
  BY <1>2 DEF Delete
<1>3. ASSUME NEW w \in Workers, Import(w) PROVE RowidsUnique'
  <2> DEFINE m == MachineOf[w]
  <2>1. PICK N \in SUBSET batch[w],
             t \in {0} \cup {rowid[m][j] : j \in Ids} :
           /\ Fresh(m, batch[w], N) /\ IsTop(m, t)
           /\ rowid' = [rowid EXCEPT ![m] =
                           [i \in Ids |-> IF i \in N THEN t + Place(seq, N, i)
                                                     ELSE rowid[m][i]]]
    BY <1>3, ImportEffect
  <2>2. /\ N \in SUBSET Ids /\ m \in Machines /\ t \in Nat
        /\ \A i, j \in N : seq[i] = seq[j] => i = j
    BY <1>3 DEF Import, SeqsUnique
  <2>3. \A i \in N : Place(seq, N, i) \in Nat /\ Place(seq, N, i) >= 1
    BY <2>2, PlaceBounds
  <2>4. \A i, j \in N : Place(seq, N, i) = Place(seq, N, j) => i = j
    BY <2>2, PlaceInjective
  <2>5. \A i \in Ids : rowid[m][i] \in Nat /\ rowid[m][i] <= t
    BY <2>1, <2>2 DEF IsTop
  <2>6. /\ \A n \in Machines : n # m => rowid'[n] = rowid[n]
        /\ \A i \in N : rowid'[m][i] = t + Place(seq, N, i)
        /\ \A i \in Ids \ N : rowid'[m][i] = rowid[m][i]
    BY <2>1, <2>2
  <2> HIDE DEF m
  <2>7. ASSUME NEW i \in Ids, NEW j \in Ids,
               rowid'[m][i] = rowid'[m][j], rowid'[m][i] # 0
        PROVE  i = j
    <3>1. CASE i \in N /\ j \in N
      <4> HIDE DEF NumberInv, TypeOK, RowidsUnique, Here
      <4>1. t + Place(seq, N, i) = t + Place(seq, N, j)
        BY <2>6, <2>7, <3>1
      <4>2. Place(seq, N, i) \in Nat /\ Place(seq, N, j) \in Nat
        BY <2>3, <3>1
      <4>3. Place(seq, N, i) = Place(seq, N, j)
        BY <2>2, <4>1, <4>2
      <4> QED BY <2>4, <3>1, <4>3
    <3>2. CASE i \notin N /\ j \notin N
      BY <2>2, <2>6, <2>7, <3>2
    <3>3. CASE i \in N /\ j \notin N
      BY <2>2, <2>3, <2>5, <2>6, <2>7, <3>3
    <3>4. CASE i \notin N /\ j \in N
      BY <2>2, <2>3, <2>5, <2>6, <2>7, <3>4
    <3> QED BY <3>1, <3>2, <3>3, <3>4
  <2> SUFFICES ASSUME NEW n \in Machines, NEW i \in Ids, NEW j \in Ids,
                      rowid'[n][i] # 0, rowid'[n][i] = rowid'[n][j]
               PROVE  i = j
    OBVIOUS
  <2>8. CASE n = m
    BY <2>7, <2>8
  <2>9. CASE n # m
    BY <2>6, <2>9
  <2> QED BY <2>8, <2>9
<1>4. CASE UNCHANGED rowid
  BY <1>4
<1> QED
  BY <1>1, <1>2, <1>3, <1>4
     DEF Next, SyncStep, stores, vars, StartPush, ReadEnd, Read, Allocate,
         WriteDoc, SavePush, StartPull, FindEnd, Find, SavePull, Fail
LEMMA NumberStep ==
  ASSUME NumberInv, TypeOK', [Next]_vars
  PROVE  NumberInv'
<1>0. RowidsUnique'
  BY RowidsStep
<1>1. ASSUME NEW m \in Machines, NEW i \in Ids, Append(m, i) \/ Delete(m, i)
      PROVE  NumberInv'
  BY <1>0, <1>1, NumberFrame
     DEF Append, Delete, remote, worker, Reserved, NumberInv
<1>2. ASSUME NEW w \in Workers,
             \/ StartPush(w) \/ ReadEnd(w) \/ SavePush(w) \/ StartPull(w)
             \/ FindEnd(w) \/ SavePull(w) \/ Import(w) \/ Fail(w)
      PROVE  NumberInv'
  <2>1. /\ UNCHANGED <<seq, counter, slot>>
        /\ pc'[w] \notin {"write", "allocate", "import"}
        /\ \A v \in Workers \ {w} : pc'[v] = pc[v] /\ batch'[v] = batch[v]
                                    /\ todo'[v] = todo[v]
    BY <1>2 DEF StartPush, ReadEnd, SavePush, StartPull, FindEnd, SavePull,
                Import, Fail, EndPush, Goto, stores, remote, NumberInv,
                TypeOK
  <2> QED BY <1>0, <2>1, NumberFrame DEF Reserved, NumberInv
<1>3. ASSUME NEW w \in Workers, Find(w) PROVE NumberInv'
  <2>1. /\ UNCHANGED <<seq, counter, slot, todo>>
        /\ pc'[w] = "import" /\ batch'[w] \subseteq Docs
        /\ \A v \in Workers \ {w} : pc'[v] = pc[v] /\ batch'[v] = batch[v]
    BY <1>3 DEF Find, Newer, Goto, stores, remote, NumberInv, TypeOK
  <2> QED BY <1>0, <2>1, NumberFrame DEF Reserved, NumberInv
<1>4. ASSUME NEW w \in Workers, Read(w) PROVE NumberInv'
  <2> DEFINE row == rowid[MachineOf[w]]
  <2>1. PICK S \in SUBSET After(w), t \in {row[i] : i \in After(w)} :
           /\ batch' = [batch EXCEPT ![w] = S]
           /\ slot' = [slot EXCEPT ![w] =
                          [i \in Ids |-> IF i \in S THEN Place(row, S, i)
                                                    ELSE 0]]
    BY <1>4 DEF Read
  <2>2. /\ UNCHANGED <<seq, counter, todo>>
        /\ pc' = [pc EXCEPT ![w] = "allocate"]
    BY <1>4 DEF Read, Goto, stores, remote
  <2>3. /\ S \in SUBSET Ids /\ row \in [Ids -> Nat]
        /\ \A i, j \in S : row[i] = row[j] => i = j
    BY DEF After, Here, NumberInv, TypeOK, RowidsUnique
  <2>4. \A i \in S : Place(row, S, i) \in 1 .. Cardinality(S)
    BY <2>3, PlaceBounds
  <2>5. \A i, j \in S : Place(row, S, i) = Place(row, S, j) => i = j
    BY <2>3, PlaceInjective
  <2> HIDE DEF row
  <2>6. /\ batch'[w] = S /\ pc'[w] = "allocate"
        /\ \A i \in S : slot'[w][i] = Place(row, S, i)
    BY <2>1, <2>2, <2>3 DEF NumberInv, TypeOK
  <2>7. \A v \in Workers \ {w} : /\ pc'[v] = pc[v] /\ batch'[v] = batch[v]
                                 /\ slot'[v] = slot[v]
    BY <2>1, <2>2 DEF NumberInv, TypeOK
  <2> QED BY <1>0, <2>2, <2>4, <2>5, <2>6, <2>7, NumberFrame
          DEF Reserved, NumberInv
<1>5. ASSUME NEW w \in Workers, Allocate(w) PROVE NumberInv'
  <2> DEFINE size == Cardinality(batch[w])
  <2>1. size \in Nat /\ counter \in Nat
    BY BatchSizes DEF NumberInv, TypeOK
  <2>2. /\ UNCHANGED <<rowid, seq, batch>> /\ counter' = counter + size
        /\ pc' = [pc EXCEPT ![w] = "write"]
        /\ todo' = [todo EXCEPT ![w] = batch[w]]
        /\ slot' = [slot EXCEPT ![w] =
                       [i \in Ids |-> IF i \in batch[w]
                                      THEN counter + slot[w][i] ELSE 0]]
    BY <1>5 DEF Allocate, Reserve, Goto, stores
  <2> HIDE DEF size
  <2>3. /\ Reserved(w)' = batch[w] /\ batch[w] \in SUBSET Ids
        /\ \A i \in batch[w] : slot'[w][i] = counter + slot[w][i]
        /\ \A v \in Workers \ {w} : /\ Reserved(v)' = Reserved(v)
                                    /\ slot'[v] = slot[v] /\ pc'[v] = pc[v]
    BY <2>2 DEF Reserved, NumberInv, TypeOK
  <2>4. \A i \in batch[w] : /\ slot[w][i] \in 1 .. size
                            /\ slot'[w][i] \in counter + 1 .. counter'
    <3>1. \A i \in batch[w] : slot[w][i] \in 1 .. size
      BY <1>5 DEF Allocate, NumberInv, size
    <3> QED BY <2>1, <2>2, <2>3, <3>1
  <2>5. \A i, j \in batch[w] : slot'[w][i] = slot'[w][j] => i = j
    BY <1>5, <2>1, <2>3, <2>4 DEF Allocate, NumberInv
  <2>6. \A v \in Workers \ {w} : \A i \in Reserved(v) :
           slot[v][i] \in 1 .. counter
    BY DEF NumberInv
  <2>7. \A i \in Ids : seq[i] \in Nat /\ seq[i] <= counter
    BY DEF NumberInv, TypeOK
  <2>8. ASSUME NEW v \in Workers, NEW i \in Reserved(v)'
        PROVE  /\ slot'[v][i] \in 1 .. counter'
               /\ \A d \in Ids : seq'[d] # slot'[v][i]
    <3>1. CASE v = w
      BY <2>1, <2>2, <2>3, <2>4, <2>7, <3>1
    <3>2. CASE v # w
      BY <2>1, <2>2, <2>3, <2>6, <3>2 DEF NumberInv
    <3> QED BY <3>1, <3>2
  <2>9. ASSUME NEW u \in Workers, NEW v \in Workers,
               NEW i \in Reserved(u)', NEW j \in Reserved(v)',
               slot'[u][i] = slot'[v][j]
        PROVE  u = v /\ i = j
    <3>1. CASE u = w /\ v = w
      BY <2>3, <2>5, <2>9, <3>1
    <3>2. CASE u # w /\ v # w
      BY <2>3, <2>9, <3>2 DEF NumberInv
    <3>3. CASE u = w /\ v # w
      BY <2>1, <2>3, <2>4, <2>6, <2>9, <3>3
    <3>4. CASE u # w /\ v = w
      BY <2>1, <2>3, <2>4, <2>6, <2>9, <3>4
    <3> QED BY <3>1, <3>2, <3>3, <3>4
  <2>10. /\ SeqsUnique' /\ \A i \in Ids : seq'[i] <= counter'
    BY <2>1, <2>2, <2>7 DEF NumberInv, SeqsUnique, Docs
  <2>11. /\ \A v \in Workers : pc'[v] = "import" => batch'[v] \subseteq Docs'
         /\ \A v \in Workers : pc'[v] = "allocate" => v # w
    BY <2>2, <2>3 DEF NumberInv, Docs, TypeOK
  <2>12. \A v \in Workers : pc'[v] = "allocate" =>
            \A i, j \in batch'[v] :
               /\ slot'[v][i] \in 1 .. Cardinality(batch'[v])
               /\ slot'[v][i] = slot'[v][j] => i = j
    BY <2>2, <2>3, <2>11 DEF NumberInv
  <2> QED BY <1>0, <2>8, <2>9, <2>10, <2>11, <2>12 DEF NumberInv
<1>6. ASSUME NEW w \in Workers, NEW i \in Ids, WriteDoc(w, i)
      PROVE  NumberInv'
  <2>1. /\ UNCHANGED <<rowid, counter, pc, batch, slot>>
        /\ i \in Reserved(w)
        /\ seq' = [seq EXCEPT ![i] = IF seq[i] = 0 THEN slot[w][i] ELSE seq[i]]
        /\ todo' = [todo EXCEPT ![w] = todo[w] \ {i}]
    BY <1>6 DEF WriteDoc, stores, Reserved
  <2>2. /\ Reserved(w)' = Reserved(w) \ {i}
        /\ \A v \in Workers : Reserved(v)' \subseteq Reserved(v)
        /\ \A v \in Workers \ {w} : Reserved(v)' = Reserved(v)
    BY <1>6, <2>1 DEF WriteDoc, Reserved, NumberInv, TypeOK
  <2>3. \A d \in Ids : \/ seq'[d] = seq[d]
                       \/ d = i /\ seq[d] = 0 /\ seq'[d] = slot[w][i]
    BY <2>1 DEF NumberInv, TypeOK
  <2>4. /\ slot[w][i] \in 1 .. counter /\ \A d \in Ids : seq[d] # slot[w][i]
        /\ \A d \in Ids : seq[d] <= counter
    BY <2>1 DEF NumberInv
  <2>5. SeqsUnique' /\ \A d \in Ids : seq'[d] <= counter'
    BY <2>1, <2>3, <2>4 DEF NumberInv, SeqsUnique, Docs
  <2>6. Docs \subseteq Docs'
    BY <2>3, <2>4 DEF Docs
  <2>7. ASSUME NEW v \in Workers, NEW j \in Reserved(v)', NEW d \in Ids
        PROVE  /\ slot'[v][j] \in 1 .. counter' /\ seq'[d] # slot'[v][j]
    <3>1. /\ j \in Reserved(v) /\ slot[v][j] \in 1 .. counter
          /\ seq[d] # slot[v][j]
      BY <2>2 DEF NumberInv
    <3>2. slot[v][j] # slot[w][i]
      BY <2>1, <2>2, <3>1 DEF NumberInv
    <3> QED BY <2>1, <2>3, <3>1, <3>2
  <2> QED BY <1>0, <2>1, <2>2, <2>5, <2>6, <2>7 DEF NumberInv
<1>7. CASE UNCHANGED vars
  BY <1>0, <1>7, NumberFrame
     DEF vars, stores, remote, worker, Reserved, NumberInv
<1> QED BY <1>1, <1>2, <1>3, <1>4, <1>5, <1>6, <1>7 DEF Next, SyncStep

(* The documents are numbered apart, although workers reserve numbers for   *)
(* batches at the same time, fail, and never use some.                      *)
THEOREM NumbersAreUnique == Spec => []SeqsUnique
<1>1. Init => NumberInv
  BY DEF Init, TypeOK, PCs, NumberInv, RowidsUnique, SeqsUnique, Here, Docs,
         Reserved
<1>2. NumberInv => TypeOK /\ SeqsUnique
  BY DEF NumberInv
<1> QED BY <1>1, <1>2, NumberStep, TypeStep, PTL DEF Spec

(* No machine stores one content twice, however pulls, appends and deletes  *)
(* follow each other.                                                       *)
THEOREM KeysAreUnique == Spec => []OneRowPerKey
<1>1. Init => TypeOK /\ OneRowPerKey
  BY DEF Init, TypeOK, PCs, OneRowPerKey, Here
<1>2. TypeOK /\ OneRowPerKey /\ [Next]_vars => TypeOK' /\ OneRowPerKey'
  <2> SUFFICES ASSUME TypeOK, OneRowPerKey, [Next]_vars PROVE OneRowPerKey'
    BY TypeStep
  <2>1. ASSUME NEW m \in Machines, NEW i \in Ids, Append(m, i)
        PROVE  OneRowPerKey'
    BY <2>1 DEF Append, HasKey, TypeOK, OneRowPerKey, Here
  <2>2. ASSUME NEW m \in Machines, NEW i \in Ids, Delete(m, i)
        PROVE  OneRowPerKey'
    BY <2>2 DEF Delete, TypeOK, OneRowPerKey, Here
  <2>3. ASSUME NEW w \in Workers, Import(w) PROVE OneRowPerKey'
    <3> DEFINE m == MachineOf[w]
    <3>1. PICK N \in SUBSET batch[w],
               t \in {0} \cup {rowid[m][j] : j \in Ids} :
             /\ Fresh(m, batch[w], N)
             /\ rowid' = [rowid EXCEPT ![m] =
                             [i \in Ids |-> IF i \in N
                                            THEN t + Place(seq, N, i)
                                            ELSE rowid[m][i]]]
      BY <2>3, ImportEffect
    <3>2. /\ \A n \in Machines : n # m => rowid'[n] = rowid[n]
          /\ \A i \in Ids \ N : rowid'[m][i] = rowid[m][i]
          /\ m \in Machines
      BY <3>1, MachineAssumption DEF TypeOK
    <3>3. /\ \A i \in N : \A j \in Ids :
                rowid[m][j] # 0 => KeyOf[j] # KeyOf[i]
          /\ \A i, j \in N : KeyOf[i] = KeyOf[j] => i = j
      BY <3>1 DEF Fresh, HasKey, Here
    <3> HIDE DEF m
    <3>4. ASSUME NEW i \in Ids, NEW j \in Ids, KeyOf[i] = KeyOf[j],
                 rowid'[m][i] # 0, rowid'[m][j] # 0
          PROVE  i = j
      <4>1. CASE i \in N /\ j \in N
        BY <3>3, <3>4, <4>1
      <4>2. CASE i \notin N /\ j \notin N
        BY <3>2, <3>4, <4>2 DEF OneRowPerKey, Here
      <4>3. CASE i \in N /\ j \notin N
        BY <3>2, <3>3, <3>4, <4>3
      <4>4. CASE i \notin N /\ j \in N
        BY <3>2, <3>3, <3>4, <4>4
      <4> QED BY <4>1, <4>2, <4>3, <4>4
    <3>5. ASSUME NEW n \in Machines, n # m, NEW i \in Ids, NEW j \in Ids,
                 KeyOf[i] = KeyOf[j], rowid'[n][i] # 0, rowid'[n][j] # 0
          PROVE  i = j
      BY <3>2, <3>5 DEF OneRowPerKey, Here
    <3> QED BY <3>4, <3>5 DEF OneRowPerKey, Here
  <2>4. CASE UNCHANGED rowid
    BY <2>4 DEF OneRowPerKey, Here
  <2> QED
    BY <2>1, <2>2, <2>3, <2>4
       DEF Next, SyncStep, stores, vars, StartPush, ReadEnd, Read, Allocate,
           WriteDoc, SavePush, StartPull, FindEnd, Find, SavePull, Fail
<1> QED BY <1>1, <1>2, PTL DEF Spec

(* Both together: nothing is replicated twice.                              *)
THEOREM NothingIsTwice == Spec => []NothingTwice
<1>1. SeqsUnique /\ OneRowPerKey => NothingTwice
  BY DEF NothingTwice
<1> QED BY <1>1, NumbersAreUnique, KeysAreUnique, PTL

-----------------------------------------------------------------------------
(* The implementation of a shared log.                                      *)

(* What a worker is pushing is in its machine's log.                        *)
PushesOwn ==
    \A w \in Workers : pc[w] \in {"allocate", "write"} =>
        /\ batch[w] \subseteq Here(MachineOf[w])
        /\ pc[w] = "write" => todo[w] \subseteq batch[w]

LEMMA PushesOwnStep ==
  ASSUME ~Deletes, TypeOK, PushesOwn, [Next]_vars
  PROVE  PushesOwn'
<1> USE DEF PushesOwn, TypeOK, Goto
<1>0. \A m \in Machines : Here(m) \subseteq Here(m)'
  BY EventsStay
<1>1. ASSUME NEW w \in Workers, Read(w) PROVE PushesOwn'
  <2>1. PICK S \in SUBSET After(w) : batch' = [batch EXCEPT ![w] = S]
    BY <1>1 DEF Read
  <2>2. S \subseteq Here(MachineOf[w])
    BY DEF After
  <2> QED BY <1>0, <1>1, <2>1, <2>2 DEF Read
<1>2. ASSUME NEW w \in Workers, Allocate(w) PROVE PushesOwn'
  BY <1>0, <1>2 DEF Allocate
<1>3. ASSUME NEW w \in Workers, NEW i \in Ids, WriteDoc(w, i)
      PROVE  PushesOwn'
  BY <1>0, <1>3 DEF WriteDoc
<1>4. CASE \A w \in Workers : pc'[w] \in {"allocate", "write"} =>
              UNCHANGED <<pc[w], batch[w], todo[w]>>
  BY <1>0, <1>4
<1> QED
  BY <1>1, <1>2, <1>3, <1>4
     DEF Next, SyncStep, worker, vars, Append, Delete, StartPush, ReadEnd,
         EndPush, SavePush, StartPull, FindEnd, Find, Import, SavePull, Fail

ReplicationInv == PushInv /\ PullInv /\ NumberInv /\ PushesOwn

(* New rows lie beyond the push positions.                                  *)
LEMMA PushedFrame ==
  ASSUME TypeOK, TypeOK', NEW m \in Machines, pushPos'[m] = pushPos[m],
         Reached(m, pushPos[m]),
         \A i \in Ids : \/ rowid'[m][i] = rowid[m][i]
                        \/ /\ rowid[m][i] = 0
                           /\ \A j \in Ids : rowid[m][j] < rowid'[m][i]
  PROVE  {i \in Here(m) : rowid[m][i] <= pushPos[m]}'
            = {i \in Here(m) : rowid[m][i] <= pushPos[m]}
<1>1. /\ pushPos[m] \in Nat
      /\ \A i \in Ids : rowid[m][i] \in Nat /\ rowid'[m][i] \in Nat
  BY DEF TypeOK
<1>2. ASSUME NEW i \in Ids, rowid'[m][i] # rowid[m][i]
      PROVE  rowid[m][i] = 0 /\ pushPos[m] < rowid'[m][i]
  BY <1>1, <1>2 DEF Reached
<1> QED BY <1>1, <1>2 DEF Here

(* An import stores the documents it found new, and nothing else.           *)
LEMMA ImportRows ==
  ASSUME TypeOK, TypeOK', NEW w \in Workers, Import(w)
  PROVE  \E N \in SUBSET batch[w] :
            /\ Fresh(MachineOf[w], batch[w], N)
            /\ Here(MachineOf[w])' = Here(MachineOf[w]) \cup N
            /\ \A n \in Machines : n # MachineOf[w] => rowid'[n] = rowid[n]
            /\ \A i \in Ids :
                  \/ rowid'[MachineOf[w]][i] = rowid[MachineOf[w]][i]
                  \/ /\ rowid[MachineOf[w]][i] = 0
                     /\ \A j \in Ids : rowid[MachineOf[w]][j]
                                            < rowid'[MachineOf[w]][i]
<1> DEFINE m == MachineOf[w]
<1>1. PICK N \in SUBSET batch[w],
           t \in {0} \cup {rowid[m][j] : j \in Ids} :
         /\ Fresh(m, batch[w], N) /\ IsTop(m, t)
         /\ rowid' = [rowid EXCEPT ![m] =
                         [i \in Ids |-> IF i \in N THEN t + Place(seq, N, i)
                                                   ELSE rowid[m][i]]]
  BY ImportEffect
<1>2. /\ N \in SUBSET Ids /\ m \in Machines /\ seq \in [Ids -> Nat]
      /\ t \in Nat /\ \A j \in Ids : rowid[m][j] \in Nat /\ rowid[m][j] <= t
  BY <1>1 DEF TypeOK, IsTop
<1>3. \A i \in N : Place(seq, N, i) \in Nat /\ 1 <= Place(seq, N, i)
  BY <1>2, PlaceBounds
<1>4. /\ \A n \in Machines : n # m => rowid'[n] = rowid[n]
      /\ \A i \in N : rowid'[m][i] = t + Place(seq, N, i)
      /\ \A i \in Ids \ N : rowid'[m][i] = rowid[m][i]
  BY <1>1, <1>2 DEF TypeOK
<1>5. \A i \in N : rowid[m][i] = 0
  BY <1>1, <1>2 DEF Fresh, HasKey, Here
<1> HIDE DEF m
<1>6. \A i \in N : \A j \in Ids : rowid[m][j] < rowid'[m][i]
  BY <1>2, <1>3, <1>4
<1>7. Here(m)' = Here(m) \cup N
  BY <1>2, <1>3, <1>4, <1>5 DEF Here
<1> QED BY <1>1, <1>4, <1>5, <1>6, <1>7 DEF m

(* Every step is a step of the shared log, or leaves it alone.              *)
LEMMA ReplicationStep ==
  ASSUME ~Overlap, ~Deletes, ReplicationInv, TypeOK', [Next]_vars
  PROVE  [Shared!Next]_(Shared!vars)
<1> DEFINE held == [m \in Machines |-> Here(m)]
           pushed == [m \in Machines |->
                         {i \in Here(m) : rowid[m][i] <= pushPos[m]}]
           pulled == [m \in Machines |-> {i \in Docs : seq[i] <= pullPos[m]}]
<1>0. TypeOK
  BY DEF ReplicationInv, PushInv
<1>1. ASSUME UNCHANGED rowid PROVE UNCHANGED held
  BY <1>1 DEF Here
<1>2. ASSUME UNCHANGED seq PROVE UNCHANGED Docs
  BY <1>2 DEF Docs
<1>3. ASSUME UNCHANGED <<rowid, pushPos>> PROVE UNCHANGED pushed
  BY <1>3 DEF Here
<1>4. ASSUME UNCHANGED <<seq, pullPos>> PROVE UNCHANGED pulled
  BY <1>4 DEF Docs
<1>5. ASSUME UNCHANGED <<rowid, seq, pushPos, pullPos>>
      PROVE  UNCHANGED Shared!vars
  BY <1>1, <1>2, <1>3, <1>4, <1>5 DEF Shared!vars
<1>6. ASSUME NEW m \in Machines, NEW i \in Ids, Append(m, i)
      PROVE  Shared!Write(m, i)
  <2>1. UNCHANGED <<Docs, pulled>>
    BY <1>2, <1>4, <1>6 DEF Append, remote
  <2>2. PICK t \in {0} \cup {rowid[m][j] : j \in Ids} :
           IsTop(m, t) /\ rowid' = [rowid EXCEPT ![m][i] = t + 1]
    BY <1>6 DEF Append
  <2>3. t \in Nat /\ \A j \in Ids : rowid[m][j] < t + 1
    BY <1>0, <2>2 DEF IsTop, TypeOK
  <2>4. i \notin Here(m) /\ \A j \in Here(m) : KeyOf[j] # KeyOf[i]
    BY <1>6 DEF Append, HasKey
  <2>5. \A n \in Machines, j \in Ids :
           \/ rowid'[n][j] = rowid[n][j]
           \/ /\ rowid[n][j] = 0
              /\ \A k \in Ids : rowid[n][k] < rowid'[n][j]
    BY <1>0, <2>2, <2>3, <2>4 DEF TypeOK, Here
  <2>6. UNCHANGED pushed
    <3>1. \A n \in Machines : Reached(n, pushPos[n])
      BY DEF ReplicationInv, PushInv
    <3>2. UNCHANGED pushPos
      BY <1>6 DEF Append
    <3> QED BY <1>0, <2>5, <3>1, <3>2, PushedFrame
  <2>7. held' = [held EXCEPT ![m] = held[m] \cup {i}]
    <3>1. rowid'[m][i] = t + 1
      BY <1>0, <2>2 DEF TypeOK
    <3>2. \A n \in Machines, j \in Ids :
             n # m \/ j # i => rowid'[n][j] = rowid[n][j]
      BY <1>0, <2>2 DEF TypeOK
    <3>3. \A n \in Machines : Here(n)' = IF n = m THEN Here(n) \cup {i}
                                                  ELSE Here(n)
      BY <2>3, <3>1, <3>2 DEF Here
    <3> QED BY <3>3
  <2> QED BY <2>1, <2>4, <2>6, <2>7 DEF Shared!Write, Shared!Has
<1>7. ASSUME NEW m \in Machines, NEW i \in Ids, Delete(m, i) PROVE FALSE
  BY <1>7 DEF Delete
<1>8. ASSUME NEW w \in Workers, NEW i \in Ids, WriteDoc(w, i)
      PROVE  Shared!Share(MachineOf[w], i) \/ UNCHANGED Shared!vars
  <2>1. /\ pc[w] = "write" /\ i \in todo[w]
        /\ seq' = [seq EXCEPT ![i] = IF seq[i] = 0 THEN slot[w][i]
                                                  ELSE seq[i]]
        /\ UNCHANGED <<rowid, pushPos, pullPos>>
    BY <1>8 DEF WriteDoc, stores
  <2>2. CASE seq[i] # 0
    BY <1>0, <1>5, <2>1, <2>2 DEF TypeOK
  <2>3. CASE seq[i] = 0
    <3>1. /\ slot[w][i] \in Nat \ {0}
          /\ \A m \in Machines : pullPos[m] < slot[w][i]
      BY <1>0, <2>1 DEF ReplicationInv, PushInv, PullInv, TypeOK
    <3>2. /\ seq'[i] = slot[w][i] /\ \A j \in Ids \ {i} : seq'[j] = seq[j]
      BY <1>0, <2>1, <2>3 DEF TypeOK
    <3>3. i \in Here(MachineOf[w])
      BY <2>1 DEF ReplicationInv, PushesOwn
    <3>4. i \notin Docs /\ Docs' = Docs \cup {i}
      BY <2>3, <3>1, <3>2 DEF Docs
    <3>5. UNCHANGED pulled
      <4>1. \A m \in Machines : pullPos[m] \in Nat
        BY <1>0 DEF TypeOK
      <4>2. ASSUME NEW m \in Machines
            PROVE  {j \in Docs : seq[j] <= pullPos[m]}'
                      = {j \in Docs : seq[j] <= pullPos[m]}
        BY <2>1, <2>3, <3>1, <3>2, <4>1 DEF Docs
      <4> QED BY <4>2
    <3> QED BY <1>1, <1>3, <2>1, <3>3, <3>4, <3>5 DEF Shared!Share
  <2> QED BY <2>2, <2>3
<1>9. ASSUME NEW w \in Workers, SavePush(w)
      PROVE  \E S \in SUBSET Ids : Shared!EndPush(MachineOf[w], S)
  <2> DEFINE m == MachineOf[w]
             S == {i \in Here(m) : rowid[m][i] <= top[w]}
  <2>1. /\ pushPos' = [pushPos EXCEPT ![m] = top[w]]
        /\ UNCHANGED <<rowid, seq, pullPos>>
        /\ pc[w] = "write" /\ todo[w] = {}
    BY <1>9 DEF SavePush, Written, remote
  <2>2. S \subseteq Docs
    BY <2>1 DEF ReplicationInv, PushInv, CoveredBut
  <2>3. pushed' = [pushed EXCEPT ![m] = S]
    <3>1. /\ m \in Machines /\ pushPos'[m] = top[w]
          /\ \A n \in Machines : n # m => pushPos'[n] = pushPos[n]
      BY <1>0, <2>1 DEF TypeOK
    <3>2. \A n \in Machines :
             {i \in Here(n) : rowid[n][i] <= pushPos[n]}'
                = {i \in Here(n) : rowid[n][i] <= pushPos'[n]}
      BY <2>1 DEF Here
    <3>3. /\ pushed'[m] = S
          /\ \A n \in Machines : n # m => pushed'[n] = pushed[n]
      BY <3>1, <3>2
    <3>4. \A n \in Machines :
             [pushed EXCEPT ![m] = S][n] = IF n = m THEN S ELSE pushed[n]
      BY <3>1
    <3> HIDE DEF S
    <3>5. /\ pushed' = [n \in Machines |-> pushed'[n]]
          /\ [pushed EXCEPT ![m] = S]
               = [n \in Machines |-> IF n = m THEN S ELSE pushed[n]]
      OBVIOUS
    <3> QED BY <3>3, <3>5
  <2>4. S \in SUBSET Ids
    BY DEF Here
  <2>5. Shared!EndPush(m, S)
    BY <1>1, <1>2, <1>4, <2>1, <2>2, <2>3 DEF Shared!EndPush
  <2> QED BY <2>4, <2>5 DEF Shared!EndPush
<1>10. ASSUME NEW w \in Workers, Import(w)
       PROVE  \E S \in SUBSET Ids : Shared!Receive(MachineOf[w], S)
  <2> DEFINE m == MachineOf[w]
  <2>1. /\ UNCHANGED <<seq, pushPos, pullPos>> /\ batch[w] \subseteq Docs
    BY <1>10 DEF Import, remote, ReplicationInv, NumberInv
  <2>2. PICK N \in SUBSET batch[w] :
           /\ Fresh(m, batch[w], N)
           /\ Here(m)' = Here(m) \cup N
           /\ \A n \in Machines : n # m => rowid'[n] = rowid[n]
           /\ \A i \in Ids :
                 \/ rowid'[m][i] = rowid[m][i]
                 \/ /\ rowid[m][i] = 0
                    /\ \A j \in Ids : rowid[m][j] < rowid'[m][i]
    BY <1>0, <1>10, ImportRows
  <2>3. held' = [held EXCEPT ![m] = held[m] \cup N]
    <3>1. m \in Machines
      BY <1>0 DEF TypeOK
    <3>2. \A n \in Machines : n # m => Here(n)' = Here(n)
      BY <2>2 DEF Here
    <3> QED BY <2>2, <3>1, <3>2
  <2>4. UNCHANGED pushed
    <3>1. \A n \in Machines : Reached(n, pushPos[n])
      BY DEF ReplicationInv, PushInv
    <3> QED BY <1>0, <2>1, <2>2, <3>1, PushedFrame
  <2>5. /\ \A i \in N : \A j \in Here(m) : KeyOf[j] # KeyOf[i]
        /\ \A i, j \in N : KeyOf[i] = KeyOf[j] => i = j
    BY <2>2 DEF Fresh, HasKey
  <2>6. N \in SUBSET Ids
    BY <1>0 DEF TypeOK
  <2>7. Shared!Receive(m, N)
    BY <1>2, <1>4, <2>1, <2>3, <2>4, <2>5 DEF Shared!Receive, Shared!Has
  <2> QED BY <2>6, <2>7
<1>11. ASSUME NEW w \in Workers, SavePull(w)
       PROVE  \E S \in SUBSET Ids : Shared!EndPull(MachineOf[w], S)
  <2> DEFINE m == MachineOf[w]
             S == {i \in Docs : seq[i] <= top[w]}
  <2>1. /\ pullPos' = [pullPos EXCEPT ![m] = top[w]] /\ pc[w] = "savePull"
        /\ UNCHANGED <<rowid, seq, pushPos>>
    BY <1>11 DEF SavePull, remote
  <2>2. \A i \in S : \E j \in Here(m) : KeyOf[j] = KeyOf[i]
    BY <2>1 DEF ReplicationInv, PullInv, Pulling, Position, PulledBut, HasKey
  <2>3. pulled' = [pulled EXCEPT ![m] = S]
    BY <1>0, <2>1 DEF TypeOK, Docs
  <2>4. S \in SUBSET Ids
    BY DEF Docs
  <2>5. Shared!EndPull(m, S)
    BY <1>1, <1>2, <1>3, <2>1, <2>2, <2>3 DEF Shared!EndPull, Shared!Has
  <2> QED BY <2>4, <2>5 DEF Shared!EndPull
<1>12. ASSUME NEW w \in Workers,
              \/ StartPush(w) \/ ReadEnd(w) \/ Read(w) \/ Allocate(w)
              \/ StartPull(w) \/ FindEnd(w) \/ Find(w) \/ Fail(w)
       PROVE  UNCHANGED Shared!vars
  BY <1>5, <1>12 DEF StartPush, ReadEnd, Read, Allocate, StartPull, FindEnd,
                     Find, Fail, stores, remote
<1>13. CASE UNCHANGED vars
  BY <1>5, <1>13 DEF vars, stores, remote
<1>14. \A w \in Workers : MachineOf[w] \in Machines
  OBVIOUS
<1> QED
  <2>1. ASSUME NEW m \in Machines, NEW i \in Ids, Append(m, i) \/ Delete(m, i)
        PROVE  Shared!Next
    BY <1>6, <1>7, <2>1 DEF Shared!Next
  <2>2. ASSUME NEW w \in Workers, SyncStep(w) \/ Fail(w)
        PROVE  [Shared!Next]_(Shared!vars)
    BY <1>8, <1>9, <1>10, <1>11, <1>12, <1>14, <2>2 DEF SyncStep, Shared!Next
  <2> QED BY <1>13, <2>1, <2>2 DEF Next

(* While no session is deleted and no pull runs inside another worker's     *)
(* push, rowids, sequence numbers and positions implement a shared log: an  *)
(* event is shared once and by a machine that has it, a content is received *)
(* once, and a position only ever covers what was there when it was saved.  *)
THEOREM SyncImplementsReplication ==
  ASSUME ~Overlap, ~Deletes
  PROVE  Spec => ImplementsReplication
<1>1. Init => ReplicationInv /\ TypeOK
  BY DEF Init, ReplicationInv, PushInv, PullInv, NumberInv, PushesOwn, TypeOK,
         PCs, Covered, Reached, PulledTo, PulledBut, Pulling, RowidsUnique,
         SeqsUnique, Reserved, Here, Docs
<1>2. Init => Shared!Init
  BY DEF Init, Shared!Init, Here, Docs
<1>3. ReplicationInv /\ [Next]_vars => ReplicationInv'
  BY TypeStep, PushStep, PullStep, NumberStep, PushesOwnStep
     DEF ReplicationInv, PushInv
<1>4. ReplicationInv /\ [Next]_vars => [Shared!Next]_(Shared!vars)
  BY TypeStep, ReplicationStep DEF ReplicationInv, PushInv
<1> QED
  BY <1>1, <1>2, <1>3, <1>4, PTL DEF Spec, ImplementsReplication, Shared!Spec

(* What lies at or before a position, of either kind, has been copied.      *)
THEOREM PositionsAreSound ==
  ASSUME ~Overlap, ~Deletes
  PROVE  Spec => []PositionsHold
BY PushLosesNothing, PullLosesNothing, PTL DEF PositionsHold

(* Machines whose every event is pushed and every document pulled hold the  *)
(* same contents: what a sync may still have to do shows in its positions.  *)
CaughtUp(m) == /\ \A i \in Here(m) : rowid[m][i] <= pushPos[m]
               /\ \A i \in Docs : seq[i] <= pullPos[m]

CaughtUpAgree ==
    \A m, n \in Machines : CaughtUp(m) /\ CaughtUp(n)
        => \A k \in Keys : HasKey(m, k) <=> HasKey(n, k)

(* Under the assumptions of the refinement, positions that are at the ends  *)
(* of their logs mean machines with the same contents: Converges, but for   *)
(* the promise that they get there.                                         *)
THEOREM CaughtUpMachinesAgree ==
  ASSUME ~Overlap, ~Deletes
  PROVE  Spec => []CaughtUpAgree
<1>1. PushedUpTo /\ PulledUpTo => CaughtUpAgree
  BY DEF PushedUpTo, PulledUpTo, CaughtUpAgree, CaughtUp, HasKey
<1> QED BY <1>1, PushLosesNothing, PullLosesNothing, PTL
=============================================================================
