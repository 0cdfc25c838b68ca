------------------------------ MODULE MongoSync -----------------------------
(***************************************************************************)
(* Replication of the event logs of several machines through one Mongo      *)
(* collection (core/mongo-sync-worker.ts): a worker pushes the events after *)
(* its machine's push position, a SQLite rowid, and pulls the documents     *)
(* after its pull position, a sequence number of the collection.            *)
(*                                                                          *)
(* The event log of a machine is reduced to the rowids of its events: its   *)
(* tables agree with each other (EventStore), and every append, import and  *)
(* delete is one step.  A session holds one content, so a delete removes    *)
(* one event.  Every await is a step other workers interleave with.         *)
(***************************************************************************)
EXTENDS Integers, FiniteSets

CONSTANTS
    Machines,
    Ids,         \* event ids
    Keys,        \* dedupe keys
    KeyOf,       \* KeyOf[i]: the dedupe key of event i
    Workers,     \* MongoSyncWorker objects, one per sync process
    MachineOf,   \* MachineOf[w]: the machine whose store w syncs
    Direction,   \* Direction[w]: config.direction
    BatchSize,   \* config.batchSize
    Overlap,     \* a pull may run while a push is writing its documents
    Deletes,     \* sessions may be deleted for a forced reimport
    Failing,     \* bound: the workers that may fail
    MaxFaults    \* bound: failures and crashes in a behaviour

ASSUME IdsAssumption == IsFiniteSet(Ids)
ASSUME KeyAssumption == KeyOf \in [Ids -> Keys]
ASSUME MachineAssumption == MachineOf \in [Workers -> Machines]
ASSUME DirectionAssumption ==
    Direction \in [Workers -> {"push", "pull", "both"}]
ASSUME BatchAssumption == BatchSize \in Nat \ {0}
ASSUME SwitchAssumption == Overlap \in BOOLEAN /\ Deletes \in BOOLEAN
ASSUME FaultAssumption == MaxFaults \in Nat /\ Failing \subseteq Workers

VARIABLES
    rowid,     \* rowid[m][i]: the rowid of event i on machine m, 0: no row
    born,      \* ids made so far
    pushPos,   \* sync_positions of the push: a rowid
    pullPos,   \* sync_positions of the pull: a sequence number
    seq,       \* seq[i]: the seq of i's document, 0: there is none
    counter,   \* the cml_counters document
    pc,        \* where each worker is in syncNow()
    last,      \* its lastRowid or lastSeq
    batch,     \* the events it read, or the documents it found
    top,       \* the rowid or seq of the last of them
    slot,      \* slot[w][i]: the seq w assigned to event i of its batch
    todo,      \* the upserts of its bulkWrite still to be carried out
    faults     \* failures so far, at most MaxFaults

stores == <<rowid, born, pushPos, pullPos>>
remote == <<seq, counter>>
worker == <<pc, last, batch, top, slot, todo>>
vars == <<stores, remote, worker, faults>>

PCs == {"idle", "read", "allocate", "write", "savePush",
        "find", "import", "savePull"}

Here(m) == {i \in Ids : rowid[m][i] # 0}
Docs == {i \in Ids : seq[i] # 0}
HasKey(m, k) == \E i \in Here(m) : KeyOf[i] = k

Goto(w, label) == pc' = [pc EXCEPT ![w] = label]

(* t is the highest rowid of machine m, 0 when its log is empty.            *)
IsTop(m, t) == /\ \A i \in Ids : rowid[m][i] <= t
               /\ t = 0 \/ \E i \in Ids : rowid[m][i] = t

(* The place of i in set S ordered by rank, from 1.                         *)
Place(rank, S, i) == Cardinality({j \in S : rank[j] <= rank[i]})

(* S is the first n members of T in the order of rank, or all of T.         *)
First(n, S, T, rank) ==
    /\ S \subseteq T
    /\ Cardinality(S) <= n
    /\ S # T => Cardinality(S) = n
    /\ \A i \in S, j \in T \ S : rank[i] < rank[j]

Init ==
    /\ rowid = [m \in Machines |-> [i \in Ids |-> 0]]
    /\ born = {}
    /\ pushPos = [m \in Machines |-> 0] /\ pullPos = [m \in Machines |-> 0]
    /\ seq = [i \in Ids |-> 0] /\ counter = 0
    /\ pc = [w \in Workers |-> "idle"]
    /\ last = [w \in Workers |-> 0] /\ top = [w \in Workers |-> 0]
    /\ batch = [w \in Workers |-> {}] /\ todo = [w \in Workers |-> {}]
    /\ slot = [w \in Workers |-> [i \in Ids |-> 0]]
    /\ faults = 0

-----------------------------------------------------------------------------
(* The machine's own log.                                                   *)

(* A new row gets the highest rowid plus one: the table has no              *)
(* AUTOINCREMENT, so the rowid of a deleted last row is used again.         *)
Append(m, i) ==
    /\ i \notin born /\ ~HasKey(m, KeyOf[i])
    /\ born' = born \cup {i}
    /\ \E t \in {0} \cup {rowid[m][j] : j \in Ids} :
          IsTop(m, t) /\ rowid' = [rowid EXCEPT ![m][i] = t + 1]
    /\ UNCHANGED <<pushPos, pullPos, remote, worker, faults>>

Delete(m, i) ==
    /\ Deletes /\ i \in Here(m)
    /\ rowid' = [rowid EXCEPT ![m][i] = 0]
    /\ UNCHANGED <<born, pushPos, pullPos, remote, worker, faults>>

-----------------------------------------------------------------------------
(* pushEvents()                                                             *)

(* syncNow(): nothing when this worker is syncing already.                  *)
StartPush(w) ==
    /\ pc[w] = "idle" /\ Direction[w] \in {"push", "both"}
    /\ last' = [last EXCEPT ![w] = pushPos[MachineOf[w]]]
    /\ Goto(w, "read")
    /\ UNCHANGED <<stores, remote, batch, top, slot, todo, faults>>

(* What follows the push loop, and where the pull loop starts.  Mistaken    *)
(* variant: a direction of both only pushes.                                *)
EndPushOnly(w) == Goto(w, "idle") /\ UNCHANGED last
EndPush(w) ==
    IF Direction[w] = "both"
    THEN /\ last' = [last EXCEPT ![w] = pullPos[MachineOf[w]]]
         /\ Goto(w, "find")
    ELSE Goto(w, "idle") /\ UNCHANGED last

(* getEventsSinceRowid(lastRowid, batchSize)                                *)
After(w) == {i \in Here(MachineOf[w]) : rowid[MachineOf[w]][i] > last[w]}

ReadEnd(w) ==
    /\ pc[w] = "read" /\ After(w) = {}
    /\ EndPush(w)
    /\ UNCHANGED <<stores, remote, batch, top, slot, todo, faults>>

Read(w) ==
    LET row == rowid[MachineOf[w]] IN
    /\ pc[w] = "read" /\ After(w) # {}
    /\ \E S \in SUBSET After(w), t \in {row[i] : i \in After(w)} :
          /\ First(BatchSize, S, After(w), row)
          /\ \E i \in S : row[i] = t
          /\ \A i \in S : row[i] <= t
          /\ batch' = [batch EXCEPT ![w] = S]
          /\ top' = [top EXCEPT ![w] = t]
          /\ slot' = [slot EXCEPT ![w] =
                         [i \in Ids |-> IF i \in S THEN Place(row, S, i)
                                                   ELSE 0]]
    /\ Goto(w, "allocate")
    /\ UNCHANGED <<stores, remote, last, todo, faults>>

(* allocateSeqRange(): $inc by the size of the batch.  Mistaken variant: by *)
(* one.                                                                     *)
ReserveOne(w) == counter' = counter + 1
Reserve(w) == counter' = counter + Cardinality(batch[w])

Allocate(w) ==
    /\ pc[w] = "allocate"
    /\ Reserve(w)
    /\ slot' = [slot EXCEPT ![w] =
                   [i \in Ids |-> IF i \in batch[w]
                                  THEN counter + slot[w][i] ELSE 0]]
    /\ todo' = [todo EXCEPT ![w] = batch[w]]
    /\ Goto(w, "write")
    /\ UNCHANGED <<stores, seq, last, batch, top, faults>>

(* One upsert of the unordered bulkWrite: $setOnInsert.                     *)
WriteDoc(w, i) ==
    /\ pc[w] = "write" /\ i \in todo[w]
    /\ seq' = [seq EXCEPT ![i] = IF @ = 0 THEN slot[w][i] ELSE @]
    /\ todo' = [todo EXCEPT ![w] = @ \ {i}]
    /\ UNCHANGED <<stores, counter, pc, last, batch, top, slot, faults>>

(* Mistaken variant: does not wait for the bulkWrite.                       *)
WrittenEarly(w) == pc[w] = "write"
Written(w) == pc[w] = "write" /\ todo[w] = {}

(* updateSyncPosition, and the next turn of the loop.                       *)
SavePush(w) ==
    /\ Written(w)
    /\ pushPos' = [pushPos EXCEPT ![MachineOf[w]] = top[w]]
    /\ IF Cardinality(batch[w]) < BatchSize
       THEN EndPush(w)
       ELSE last' = [last EXCEPT ![w] = top[w]] /\ Goto(w, "read")
    /\ batch' = [batch EXCEPT ![w] = {}]
    /\ todo' = [todo EXCEPT ![w] = {}]
    /\ UNCHANGED <<rowid, born, pullPos, remote, top, slot, faults>>

-----------------------------------------------------------------------------
(* pullEvents()                                                             *)

StartPull(w) ==
    /\ pc[w] = "idle" /\ Direction[w] = "pull"
    /\ last' = [last EXCEPT ![w] = pullPos[MachineOf[w]]]
    /\ Goto(w, "find")
    /\ UNCHANGED <<stores, remote, batch, top, slot, todo, faults>>

(* No worker has reserved numbers it has not written yet.                   *)
Quiet == \A v \in Workers : pc[v] # "write"

Newer(w) == {i \in Docs : seq[i] > last[w]}

FindEnd(w) ==
    /\ pc[w] = "find" /\ Newer(w) = {}
    /\ Goto(w, "idle")
    /\ UNCHANGED <<stores, remote, last, batch, top, slot, todo, faults>>

Find(w) ==
    /\ pc[w] = "find" /\ Newer(w) # {}
    /\ Overlap \/ Quiet
    /\ \E S \in SUBSET Newer(w), t \in {seq[i] : i \in Newer(w)} :
          /\ First(BatchSize, S, Newer(w), seq)
          /\ \E i \in S : seq[i] = t
          /\ \A i \in S : seq[i] <= t
          /\ batch' = [batch EXCEPT ![w] = S]
          /\ top' = [top EXCEPT ![w] = t]
    /\ Goto(w, "import")
    /\ UNCHANGED <<stores, remote, last, slot, todo, faults>>

(* importEvents() inserts N out of S: it skips a document whose id or key   *)
(* is there, and the later of two with one key.  Mistaken variants: only    *)
(* the last document is new; the key is not looked up.                      *)
FreshLast(m, S, N) == N = {i \in S : /\ ~HasKey(m, KeyOf[i])
                                     /\ \A j \in S : seq[j] <= seq[i]}
FreshById(m, S, N) == N = S \ Here(m)
Fresh(m, S, N) ==
    /\ \A i \in N : ~HasKey(m, KeyOf[i])
    /\ \A i, j \in N : KeyOf[i] = KeyOf[j] => i = j
    /\ \A i \in S : \/ HasKey(m, KeyOf[i])
                     \/ \E j \in N : KeyOf[j] = KeyOf[i] /\ seq[j] <= seq[i]

Import(w) ==
    LET m == MachineOf[w] IN
    /\ pc[w] = "import"
    /\ \E N \in SUBSET batch[w], t \in {0} \cup {rowid[m][j] : j \in Ids} :
          /\ Fresh(m, batch[w], N)
          /\ IsTop(m, t)
          /\ rowid' = [rowid EXCEPT ![m] =
                          [i \in Ids |-> IF i \in N THEN t + Place(seq, N, i)
                                                    ELSE rowid[m][i]]]
    /\ Goto(w, "savePull")
    /\ UNCHANGED <<born, pushPos, pullPos, remote, last, batch, top, slot,
                   todo, faults>>

SavePull(w) ==
    /\ pc[w] = "savePull"
    /\ pullPos' = [pullPos EXCEPT ![MachineOf[w]] = top[w]]
    /\ last' = [last EXCEPT ![w] = top[w]]
    /\ Goto(w, IF Cardinality(batch[w]) < BatchSize THEN "idle" ELSE "find")
    /\ batch' = [batch EXCEPT ![w] = {}]
    /\ UNCHANGED <<rowid, born, pushPos, remote, top, slot, todo, faults>>

(* syncNow() throws, or the process dies: positions already saved stay, and *)
(* so do the documents already written.                                     *)
Fail(w) ==
    /\ w \in Failing /\ pc[w] # "idle"
    /\ faults < MaxFaults /\ faults' = faults + 1
    /\ Goto(w, "idle")
    /\ batch' = [batch EXCEPT ![w] = {}]
    /\ todo' = [todo EXCEPT ![w] = {}]
    /\ UNCHANGED <<stores, remote, last, top, slot>>

-----------------------------------------------------------------------------

SyncStep(w) ==
    \/ StartPush(w) \/ ReadEnd(w) \/ Read(w) \/ Allocate(w)
    \/ \E i \in Ids : WriteDoc(w, i)
    \/ SavePush(w)
    \/ StartPull(w) \/ FindEnd(w) \/ Find(w) \/ Import(w) \/ SavePull(w)

Next ==
    \/ \E m \in Machines, i \in Ids : Append(m, i) \/ Delete(m, i)
    \/ \E w \in Workers : SyncStep(w) \/ Fail(w)

Spec == Init /\ [][Next]_vars

(* Every worker syncs again and again (--watch and its interval), and every *)
(* call it makes returns or throws.                                         *)
FairSpec == Spec /\ \A w \in Workers : WF_vars(SyncStep(w))

-----------------------------------------------------------------------------
(* Every variable has its type.                                             *)
TypeOK ==
    /\ rowid \in [Machines -> [Ids -> Nat]]
    /\ born \subseteq Ids
    /\ pushPos \in [Machines -> Nat] /\ pullPos \in [Machines -> Nat]
    /\ seq \in [Ids -> Nat] /\ counter \in Nat
    /\ pc \in [Workers -> PCs]
    /\ last \in [Workers -> Nat] /\ top \in [Workers -> Nat]
    /\ batch \in [Workers -> SUBSET Ids] /\ todo \in [Workers -> SUBSET Ids]
    /\ slot \in [Workers -> [Ids -> Nat]]
    /\ faults \in 0 .. MaxFaults

(* No two documents of a project share a sequence number, although the      *)
(* unique index is only created on a best-effort basis.                     *)
SeqsUnique ==
    \A i, j \in Docs : seq[i] = seq[j] => i = j

(* The push position never runs ahead of the documents: every event up to   *)
(* it is in Mongo, across partial bulk writes, failures, retries, and two   *)
(* workers on one store.                                                    *)
PushedUpTo ==
    \A m \in Machines : \A i \in Here(m) :
        rowid[m][i] <= pushPos[m] => i \in Docs

(* The pull position never runs ahead of the local log: the content of      *)
(* every document up to it is here.                                         *)
PulledUpTo ==
    \A m \in Machines : \A i \in Docs :
        seq[i] <= pullPos[m] => HasKey(m, KeyOf[i])

(* No machine stores one content twice, however pulls, appends and deletes  *)
(* follow each other.                                                       *)
OneRowPerKey ==
    \A m \in Machines : \A i, j \in Here(m) : KeyOf[i] = KeyOf[j] => i = j

(* What one machine stores reaches every machine.                           *)
Converges ==
    \A k \in Keys :
        (\E m \in Machines : HasKey(m, k))
            ~> (\A m \in Machines : HasKey(m, k))

(* Neither position runs ahead of what was copied.                          *)
PositionsHold == PushedUpTo /\ PulledUpTo

(* Nothing is replicated twice: whatever is deleted, reimported, retried    *)
(* and pulled, neither a sequence number nor, on a machine, a content is    *)
(* there twice.                                                             *)
NothingTwice == SeqsUnique /\ OneRowPerKey

-----------------------------------------------------------------------------
Shared == INSTANCE Replication WITH
    held <- [m \in Machines |-> Here(m)],
    log <- Docs,
    pushed <- [m \in Machines |->
                  {i \in Here(m) : rowid[m][i] <= pushPos[m]}],
    pulled <- [m \in Machines |-> {i \in Docs : seq[i] <= pullPos[m]}]

(* Rowids, numbers and positions implement a shared log (Replication): a    *)
(* position stands for what it has passed, and no later row and no later    *)
(* document ever lies at or before it.                                      *)
ImplementsReplication == Shared!Spec
=============================================================================
