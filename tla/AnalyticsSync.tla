---------------------------- MODULE AnalyticsSync ---------------------------
(***************************************************************************)
(* The copy of the event log to DuckDB (core/sync-worker.ts), by timestamp. *)
(* The runs are calls of syncNow() of one worker: `status' keeps a second   *)
(* one out, until stop() resets it.  Sessions are copied whole every time   *)
(* and left out.                                                            *)
(***************************************************************************)
EXTENDS Processes, FiniteSets, Integers

CONSTANTS
    Copies,     \* event ids
    Runs,
    SyncBatch   \* batchSize

ASSUME SyncAssumption == SyncBatch \in Nat \ {0} /\ IsFiniteSet(Copies)

VARIABLES
    stamp,      \* stamp[e]: the timestamp of event e, 0 before it is stored
    inOrder,    \* events are stored in the order of distinct timestamps;
                \* chosen once
    position,   \* sync_positions: the timestamp copied up to
    analytics,  \* the events in DuckDB
    status,     \* stats.status
    syncPc,     \* "idle", "read", "insert" or "save"
    syncFrom,   \* lastTimestamp, read before the loop
    synced      \* the batch in flight

syncVars == <<stamp, inOrder, position, analytics, status, syncPc, syncFrom,
              synced>>

Times == 1 .. Cardinality(Copies)
Stored == {e \in Copies : stamp[e] # 0}
SyncStatus == {"idle", "syncing", "stopped", "error"}

SyncInit ==
    /\ stamp = [e \in Copies |-> 0]
    /\ inOrder \in BOOLEAN
    /\ position = 0 /\ analytics = {} /\ status = "idle"
    /\ syncPc = [r \in Runs |-> "idle"]
    /\ syncFrom = [r \in Runs |-> 0]
    /\ synced = [r \in Runs |-> {}]

(* Hooks store at the present time; importers and replication store events  *)
(* with the timestamps they had, and a millisecond holds several.           *)
StoreEvent(e) ==
    /\ stamp[e] = 0
    /\ \E t \in Times : /\ inOrder => t = Cardinality(Stored) + 1
                        /\ stamp' = [stamp EXCEPT ![e] = t]
    /\ UNCHANGED <<inOrder, position, analytics, status, syncPc, syncFrom,
                   synced>>

SyncNow(r) ==
    /\ syncPc[r] = "idle" /\ status # "syncing"
    /\ status' = "syncing"
    /\ syncFrom' = [syncFrom EXCEPT ![r] = position]
    /\ syncPc' = [syncPc EXCEPT ![r] = "read"]
    /\ UNCHANGED <<stamp, inOrder, position, analytics, synced>>

SyncReturn(r, s) ==
    /\ syncPc' = [syncPc EXCEPT ![r] = "idle"]
    /\ syncFrom' = [syncFrom EXCEPT ![r] = 0]
    /\ synced' = [synced EXCEPT ![r] = {}]
    /\ status' = s

(* getEventsSince(): timestamp > ?, ORDER BY timestamp LIMIT batchSize.     *)
(* Mistaken variant: in any order.                                          *)
AnyBatch(t) ==
    LET S == {e \in Stored : stamp[e] > t}
    IN  {T \in SUBSET S : Cardinality(T) <= SyncBatch /\ (T = {} => S = {})}
Batches(t) ==
    LET S == {e \in Stored : stamp[e] > t}
    IN  {T \in SUBSET S :
            /\ \A e \in T, f \in S \ T : stamp[e] <= stamp[f]
            /\ \/ Cardinality(T) = SyncBatch
               \/ T = S /\ Cardinality(S) < SyncBatch}

ReadEvents(r) ==
    /\ syncPc[r] = "read"
    /\ \E T \in Batches(syncFrom[r]) :
          IF T = {} THEN SyncReturn(r, "idle")
          ELSE /\ synced' = [synced EXCEPT ![r] = T]
               /\ syncPc' = [syncPc EXCEPT ![r] = "insert"]
               /\ UNCHANGED <<syncFrom, status>>
    /\ UNCHANGED <<stamp, inOrder, position, analytics>>

InsertEvents(r) ==
    /\ syncPc[r] = "insert"
    /\ analytics' = analytics \cup synced[r]
    /\ syncPc' = [syncPc EXCEPT ![r] = "save"]
    /\ UNCHANGED <<stamp, inOrder, position, status, syncFrom, synced>>

(* The retries are used up; part of the batch is in.                        *)
SyncFails(r) ==
    /\ syncPc[r] = "insert"
    /\ \E S \in SUBSET synced[r] : analytics' = analytics \cup S
    /\ SyncReturn(r, "error")
    /\ UNCHANGED <<stamp, inOrder, position>>

(* updateSyncPosition() to the last event; another round after a full       *)
(* batch, from the same timestamp.                                          *)
SavePosition(r) ==
    /\ syncPc[r] = "save"
    /\ \E last \in synced[r] :
          /\ \A e \in synced[r] : stamp[e] <= stamp[last]
          /\ position' = stamp[last]
    /\ IF Cardinality(synced[r]) = SyncBatch
       THEN /\ syncPc' = [syncPc EXCEPT ![r] = "read"]
            /\ synced' = [synced EXCEPT ![r] = {}]
            /\ UNCHANGED <<status, syncFrom>>
       ELSE SyncReturn(r, "idle")
    /\ UNCHANGED <<stamp, inOrder, analytics>>

(* stop() does not wait for a run.                                          *)
StopSync ==
    /\ status' = "stopped"
    /\ UNCHANGED <<stamp, inOrder, position, analytics, syncPc, syncFrom,
                   synced>>

(* The process dies, and with it every run.                                 *)
SyncCrash ==
    /\ \E r \in Runs : syncPc[r] # "idle"
    /\ syncPc' = [r \in Runs |-> "idle"]
    /\ syncFrom' = [r \in Runs |-> 0]
    /\ synced' = [r \in Runs |-> {}]
    /\ status' = "idle"
    /\ UNCHANGED <<stamp, inOrder, position, analytics>>

SyncNext ==
    \/ \E e \in Copies : StoreEvent(e)
    \/ \E r \in Runs : \/ SyncNow(r) \/ ReadEvents(r) \/ InsertEvents(r)
                       \/ SyncFails(r) \/ SavePosition(r)
    \/ StopSync \/ SyncCrash

SyncSpec == SyncInit /\ [][SyncNext]_syncVars

-----------------------------------------------------------------------------
(* Every variable has its type.                                             *)
SyncTypeOK ==
    /\ stamp \in [Copies -> {0} \cup Times]
    /\ inOrder \in BOOLEAN
    /\ position \in {0} \cup Times
    /\ analytics \subseteq Copies /\ status \in SyncStatus
    /\ syncPc \in [Runs -> {"idle", "read", "insert", "save"}]
    /\ syncFrom \in [Runs -> {0} \cup Times]
    /\ synced \in [Runs -> SUBSET Copies]

(* Everything up to the position is in DuckDB, while timestamps are         *)
(* distinct and in order: through failures half-way, crashes, and runs that *)
(* overlap because the worker was stopped and started again.                *)
PositionIsCovered ==
    inOrder => \A e \in Stored : stamp[e] <= position => e \in analytics
=============================================================================
