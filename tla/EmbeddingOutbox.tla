--------------------------- MODULE EmbeddingOutbox --------------------------
(***************************************************************************)
(* The first embedding pipeline and its model migration: an event is        *)
(* appended and then put in embedding_outbox (core/engine/                  *)
(* memory-ingest-service.ts), VectorWorker turns batches of rows into       *)
(* vectors of the table "conversations" (core/vector-worker.ts,             *)
(* core/sqlite-event-store.ts), and an import whose embedding model is not  *)
(* the one of embedding-meta.json drops the vectors and queues every event  *)
(* again (core/engine/embedding-maintenance-service.ts).                    *)
(*                                                                          *)
(* Every process that opens the store runs one worker beside one task of    *)
(* its command; awaits are steps.  The age of a claim is not kept: recovery *)
(* may take any row that is processing, when Timely only one that no live   *)
(* batch holds.                                                             *)
(***************************************************************************)
EXTENDS Integers, FiniteSets

CONSTANTS
    Procs,
    Importers,   \* processes that import; the others are hooks that ingest
    Events,      \* events, numbered in the order of their timestamps
    ModelOf,     \* ModelOf[p]: the embedding model p is configured with
    OldModel,    \* the model of the vectors found at the start
    None,
    BatchSize,   \* config.batchSize of the worker
    PageSize,    \* DEFAULT_PAGE_SIZE of the migration
    MaxRetries,  \* of failOutboxItems; also DEFAULT_OUTBOX_MAX_RETRIES
    Starts,      \* the states of the store at the start
    Timely,      \* a batch takes less than the age recovery asks for
    Overlap,     \* imports run beside each other (those without the lock)
    Deletable,   \* bound: the events a forced import may delete
    MaxRows,     \* bound: rows ever inserted in embedding_outbox
    MaxFaults    \* bound: crashes, stops of a worker, and deletions

ASSUME EventsAssumption == Events \subseteq Nat /\ IsFiniteSet(Events)
ASSUME ProcsAssumption == Importers \subseteq Procs
ASSUME SizeAssumption == BatchSize \in Nat \ {0} /\ PageSize \in Nat \ {0}
ASSUME RetriesAssumption == MaxRetries \in Nat
ASSUME StartAssumption == Starts \subseteq {"new", "indexed", "legacy"}
ASSUME DeletableAssumption == Deletable \subseteq Events
ASSUME BoundAssumption == MaxRows \in Nat /\ MaxFaults \in Nat
ASSUME ModelAssumption == \A p \in Procs : ModelOf[p] # None
ASSUME OldAssumption == OldModel # None
ASSUME SwitchAssumption == Timely \in BOOLEAN /\ Overlap \in BOOLEAN

VARIABLES
    stored,    \* the events table
    row,       \* the rows of embedding_outbox by id, None: there is none
    used,      \* rows inserted so far: the ids 1 .. used are taken
    vectors,   \* the vector table: id, event and model of each vector
    meta,      \* the model in embedding-meta.json, None without the file
    up,        \* the process is there
    stopping,  \* its worker has been stopped
    phase,     \* where its worker is in processBatchExclusive()
    batch,     \* the items it has claimed, ids with their events
    good,      \* those whose event it has found
    task,      \* where its command is
    prev,      \* previousModel, as read
    offset,    \* of the migration's next page
    page,      \* events it still has to enqueue
    orphans,   \* history: events whose process died before enqueueing them
    faults

outbox == <<row, used>>
worker == <<stopping, phase, batch, good>>
command == <<task, prev, offset, page>>
vars == <<stored, outbox, vectors, meta, up, worker, command, orphans, faults>>

Phases == {"idle", "claimed", "looked", "upserted", "completed"}
Migration == {"count", "clearVectors", "clearOutbox", "page", "requeue",
              "writeMeta"}
Tasks == Migration \cup {"free", "enqueue", "closing"}
Ids == 1 .. MaxRows
Row == [event: Events, status: {"pending", "processing", "failed"},
        retries: Nat]
ASSUME NoneAssumption == None \notin Row
Item == [id: Ids, event: Events]
Models == {ModelOf[p] : p \in Procs} \cup {OldModel}
Vector == [id: Int, event: Events, model: Models]

Rows(s) == {r \in Ids : row[r] # None /\ row[r].status = s}
Mark(S, s) ==
    row' = [r \in Ids |-> IF r \in S THEN [row[r] EXCEPT !.status = s]
                          ELSE row[r]]
Remove(S) == row' = [r \in Ids |-> IF r \in S THEN None ELSE row[r]]
IdsOf(items) == {i.id : i \in items}
Enter(p, f) == phase' = [phase EXCEPT ![p] = f]
Do(p, t) == task' = [task EXCEPT ![p] = t]
Free(p) == up[p] /\ task[p] = "free"
Migrating == \E p \in Procs : task[p] \in Migration

(* A new store; a store whose vectors are all of OldModel; and one of a     *)
(* version that wrote no embedding-meta.json yet.                           *)
Init ==
    /\ \E start \in Starts :
          /\ stored \in IF start = "new" THEN {{}} ELSE SUBSET Events \ {{}}
          /\ meta = IF start = "indexed" THEN OldModel ELSE None
    /\ vectors = {[id |-> -e, event |-> e, model |-> OldModel] : e \in stored}
    /\ row = [r \in Ids |-> None] /\ used = 0
    /\ up = [p \in Procs |-> FALSE]
    /\ stopping = [p \in Procs |-> FALSE]
    /\ phase = [p \in Procs |-> "idle"]
    /\ batch = [p \in Procs |-> {}] /\ good = [p \in Procs |-> {}]
    /\ task = [p \in Procs |-> "free"]
    /\ prev = [p \in Procs |-> None]
    /\ offset = [p \in Procs |-> 0]
    /\ page = [p \in Procs |-> {}]
    /\ orphans = {} /\ faults = 0

-----------------------------------------------------------------------------
(* The process and its worker.                                              *)

(* initialize(): the worker is made and polls.                              *)
Start(p) ==
    /\ ~up[p]
    /\ up' = [up EXCEPT ![p] = TRUE]
    /\ UNCHANGED <<stored, outbox, vectors, meta, worker, command, orphans,
                   faults>>

(* getPendingOutboxItems: up to BatchSize pending rows in one statement.    *)
(* created_at counts seconds, so any of them may be the oldest.             *)
Claim(p) ==
    /\ up[p] /\ ~stopping[p] /\ phase[p] = "idle"
    /\ \E S \in SUBSET Rows("pending") \ {{}} :
          /\ Cardinality(S) <= BatchSize
          /\ S = Rows("pending") \/ Cardinality(S) = BatchSize
          /\ batch' = [batch EXCEPT ![p] =
                          {[id |-> r, event |-> row[r].event] : r \in S}]
          /\ Mark(S, "processing")
    /\ Enter(p, "claimed")
    /\ UNCHANGED <<stored, used, vectors, meta, up, stopping,
                   good, command, orphans, faults>>

(* embedBatch() has answered; getEvent() looks for the event of each item.  *)
Look(p) ==
    /\ phase[p] = "claimed"
    /\ good' = [good EXCEPT ![p] = {i \in batch[p] : i.event \in stored}]
    /\ Enter(p, "looked")
    /\ UNCHANGED <<stored, outbox, vectors, meta, up, stopping, batch, command,
                   orphans, faults>>

(* upsertBatch(): the vector of row r has the id vec_<r>.                   *)
Upsert(p) ==
    /\ phase[p] = "looked"
    /\ vectors' = {v \in vectors : v.id \notin IdsOf(good[p])} \cup
                  {[id |-> i.id, event |-> i.event, model |-> ModelOf[p]] :
                      i \in good[p]}
    /\ Enter(p, "upserted")
    /\ UNCHANGED <<stored, outbox, meta, up, stopping, batch, good, command,
                   orphans, faults>>

(* The batch is over.  Mistaken variant: the worker is nowhere.             *)
RestAstray(p) ==
    /\ Enter(p, "resting")
    /\ batch' = [batch EXCEPT ![p] = {}]
    /\ good' = [good EXCEPT ![p] = {}]
Rest(p) ==
    /\ Enter(p, "idle")
    /\ batch' = [batch EXCEPT ![p] = {}]
    /\ good' = [good EXCEPT ![p] = {}]

(* completeOutboxItems(): the rows are deleted.                             *)
Complete(p) ==
    /\ phase[p] = "upserted"
    /\ Remove(IdsOf(good[p]))
    /\ IF good[p] = batch[p] THEN Rest(p)
       ELSE Enter(p, "completed") /\ UNCHANGED <<batch, good>>
    /\ UNCHANGED <<stored, used, vectors, meta, up, stopping,
                   command, orphans, faults>>

(* failOutboxItems(): a row that is no longer there is not found.           *)
Fail(items) ==
    row' = [r \in Ids |->
              IF r \notin IdsOf(items) \/ row[r] = None THEN row[r]
              ELSE [row[r] EXCEPT
                      !.status = IF row[r].retries >= MaxRetries
                                 THEN "failed" ELSE "pending",
                      !.retries = @ + 1]]

(* The items whose event was not found fail, and the batch is over.         *)
EndBatch(p) ==
    /\ phase[p] = "completed"
    /\ Fail(batch[p] \ good[p])
    /\ Rest(p)
    /\ UNCHANGED <<stored, used, vectors, meta, up, stopping, command,
                   orphans, faults>>

(* The catch block: whatever went wrong, the whole batch fails, unless the  *)
(* worker is stopping.                                                      *)
BatchFails(p) ==
    /\ phase[p] # "idle"
    /\ IF stopping[p] THEN UNCHANGED row ELSE Fail(batch[p])
    /\ Rest(p)
    /\ UNCHANGED <<stored, used, vectors, meta, up, stopping, command,
                   orphans, faults>>

Held == UNION {IdsOf(batch[p]) : p \in Procs}
(* Claims old enough for recovery.  Mistaken variant: none ever is.         *)
StuckNever == {}
Stuck == IF Timely THEN Rows("processing") \ Held ELSE Rows("processing")

(* Failed rows with retries left.  Mistaken variant: every failed row.      *)
AgainAlways == Rows("failed")
Again == {r \in Rows("failed") : row[r].retries < MaxRetries}

(* recoverStuckOutboxItems(), run by maintenance in a process of its own:   *)
(* claims that are old enough, and failed rows that have retries left.      *)
Recover ==
    /\ \E S \in SUBSET Stuck :
          /\ S \cup Again # {}
          /\ Mark(S \cup Again, "pending")
    /\ UNCHANGED <<stored, used, vectors, meta, up, worker,
                   command, orphans, faults>>

(* shutdown(): stop the worker and wait for its batch.                      *)
Stop(p) ==
    /\ Free(p) /\ faults < MaxFaults
    /\ stopping' = [stopping EXCEPT ![p] = TRUE]
    /\ Do(p, "closing")
    /\ faults' = faults + 1
    /\ UNCHANGED <<stored, outbox, vectors, meta, up, phase, batch, good,
                   prev, offset, page, orphans>>

Close(p) ==
    /\ task[p] = "closing" /\ phase[p] = "idle"
    /\ up' = [up EXCEPT ![p] = FALSE]
    /\ stopping' = [stopping EXCEPT ![p] = FALSE]
    /\ Do(p, "free")
    /\ UNCHANGED <<stored, outbox, vectors, meta, phase, batch, good, prev,
                   offset, page, orphans, faults>>

(* The process dies, anywhere.                                              *)
Crash(p) ==
    /\ up[p] /\ faults < MaxFaults
    /\ faults' = faults + 1
    /\ up' = [up EXCEPT ![p] = FALSE]
    /\ orphans' = IF task[p] = "enqueue" THEN orphans \cup page[p]
                  ELSE orphans
    /\ Do(p, "free")
    /\ stopping' = [stopping EXCEPT ![p] = FALSE]
    /\ prev' = [prev EXCEPT ![p] = None]
    /\ offset' = [offset EXCEPT ![p] = 0]
    /\ page' = [page EXCEPT ![p] = {}]
    /\ Rest(p)
    /\ UNCHANGED <<stored, outbox, vectors, meta>>

-----------------------------------------------------------------------------
(* Events come and go.                                                      *)

(* ingestEvent(): append, then enqueueForEmbedding.                         *)
Append(p, e) ==
    /\ Free(p) /\ e \notin stored
    /\ stored' = stored \cup {e}
    /\ page' = [page EXCEPT ![p] = {e}]
    /\ Do(p, "enqueue")
    /\ UNCHANGED <<outbox, vectors, meta, up, worker, prev, offset, orphans,
                   faults>>

Insert(e) ==
    /\ used < MaxRows
    /\ used' = used + 1
    /\ row' = [row EXCEPT ![used'] = [event |-> e, status |-> "pending",
                                      retries |-> 0]]

Enqueue(p) ==
    /\ task[p] = "enqueue"
    /\ \E e \in page[p] : Insert(e)
    /\ page' = [page EXCEPT ![p] = {}]
    /\ Do(p, "free")
    /\ UNCHANGED <<stored, vectors, meta, up, worker, prev, offset, orphans,
                   faults>>

(* deleteSessionEvents() of a forced import: the event and its rows.        *)
Delete(p, e) ==
    /\ Free(p) /\ p \in Importers /\ e \in stored \cap Deletable
    /\ Overlap \/ ~Migrating
    /\ faults < MaxFaults /\ faults' = faults + 1
    /\ stored' = stored \ {e}
    /\ orphans' = orphans \ {e}
    /\ Remove({r \in Ids : row[r] # None /\ row[r].event = e})
    /\ UNCHANGED <<used, vectors, meta, up, worker, command>>

-----------------------------------------------------------------------------
(* ensureEmbeddingModelForImport({ autoMigrate: true }).                    *)

ReadModel(p) ==
    /\ Free(p) /\ p \in Importers
    /\ Overlap \/ ~Migrating
    /\ prev' = [prev EXCEPT ![p] = meta]
    /\ Do(p, "count")
    /\ UNCHANGED <<stored, outbox, vectors, meta, up, worker, offset, page,
                   orphans, faults>>

(* count() has answered.  A first run only writes the file.  Mistaken       *)
(* variant: the file is written before the vectors are cleared.             *)
DecideWriting(p) ==
    LET same == prev[p] = ModelOf[p] IN
    /\ task[p] = "count"
    /\ meta' = ModelOf[p]
    /\ Do(p, IF same \/ vectors = {} THEN "free" ELSE "clearVectors")
    /\ stopping' = [stopping EXCEPT ![p] = ~same /\ vectors # {}]
    /\ prev' = [prev EXCEPT ![p] = None]
    /\ UNCHANGED <<stored, outbox, vectors, up, phase, batch, good, offset,
                   page, orphans, faults>>
Decide(p) ==
    LET first == prev[p] = None /\ vectors = {}
        same == prev[p] = ModelOf[p]
    IN
    /\ task[p] = "count"
    /\ meta' = IF first THEN ModelOf[p] ELSE meta
    /\ Do(p, IF first \/ same THEN "free" ELSE "clearVectors")
    /\ stopping' = [stopping EXCEPT ![p] = ~(first \/ same)]
    /\ prev' = [prev EXCEPT ![p] = None]
    /\ UNCHANGED <<stored, outbox, vectors, up, phase, batch, good, offset,
                   page, orphans, faults>>

ClearVectors(p) ==
    /\ task[p] = "clearVectors"
    /\ vectors' = {}
    /\ Do(p, "clearOutbox")
    /\ UNCHANGED <<stored, outbox, meta, up, worker, prev, offset, page,
                   orphans, faults>>

ClearOutbox(p) ==
    /\ task[p] = "clearOutbox"
    /\ Remove(Ids)
    /\ Do(p, "page")
    /\ UNCHANGED <<stored, used, vectors, meta, up, worker, prev, offset,
                   page, orphans, faults>>

(* getEventsPage(): LIMIT PageSize OFFSET o in the order of the timestamps. *)
(* Mistaken variant: the offset is one too high.                            *)
PageBeyond(o) ==
    LET Rank(e) == Cardinality({f \in stored : f <= e}) IN
    {e \in stored : Rank(e) > o + 1 /\ Rank(e) <= o + 1 + PageSize}
PageAt(o) ==
    LET Rank(e) == Cardinality({f \in stored : f <= e}) IN
    {e \in stored : Rank(e) > o /\ Rank(e) <= o + PageSize}

ReadPage(p) ==
    /\ task[p] = "page"
    /\ page' = [page EXCEPT ![p] = PageAt(offset[p])]
    /\ offset' = [offset EXCEPT ![p] = @ + Cardinality(page'[p])]
    /\ Do(p, IF page'[p] = {} THEN "writeMeta" ELSE "requeue")
    /\ UNCHANGED <<stored, outbox, vectors, meta, up, worker, prev, orphans,
                   faults>>

(* One event of the page, in order; after the last, the next page, or none  *)
(* when this one was not full.                                              *)
Requeue(p) ==
    /\ task[p] = "requeue"
    /\ \E e \in page[p] :
          /\ \A f \in page[p] : e <= f
          /\ Insert(e)
          /\ page' = [page EXCEPT ![p] = @ \ {e}]
    /\ Do(p, IF page'[p] # {} THEN "requeue"
             ELSE IF offset[p] % PageSize = 0 THEN "page" ELSE "writeMeta")
    /\ UNCHANGED <<stored, vectors, meta, up, worker, prev, offset, orphans,
                   faults>>

WriteMeta(p) ==
    /\ task[p] = "writeMeta"
    /\ meta' = ModelOf[p]
    /\ stopping' = [stopping EXCEPT ![p] = FALSE]
    /\ offset' = [offset EXCEPT ![p] = 0]
    /\ Do(p, "free")
    /\ UNCHANGED <<stored, outbox, vectors, up, phase, batch, good, prev,
                   page, orphans, faults>>

-----------------------------------------------------------------------------

Work(p) ==
    \/ Start(p) \/ Claim(p) \/ Look(p) \/ Upsert(p) \/ Complete(p)
    \/ EndBatch(p) \/ Close(p)
Step(p) ==
    \/ Enqueue(p) \/ Decide(p) \/ ClearVectors(p) \/ ClearOutbox(p)
    \/ ReadPage(p) \/ Requeue(p) \/ WriteMeta(p)

Next ==
    \/ Recover
    \/ \E p \in Procs :
        \/ Work(p) \/ Step(p) \/ BatchFails(p) \/ Stop(p) \/ Crash(p)
        \/ ReadModel(p)
        \/ \E e \in Events : Append(p, e) \/ Delete(p, e)

Spec == Init /\ [][Next]_vars

(* Workers and commands run; recovery is run again and again (process,      *)
(* maintenance).  Nothing forces an import, an append or a failure.         *)
Fairness ==
    /\ WF_vars(Recover)
    /\ \A p \in Procs : WF_vars(Work(p)) /\ WF_vars(Step(p))
FairSpec == Spec /\ Fairness

-----------------------------------------------------------------------------
(* Every variable has its type.                                             *)
TypeOK ==
    /\ stored \subseteq Events
    /\ row \in [Ids -> Row \cup {None}]
    /\ used \in 0 .. MaxRows
    /\ vectors \subseteq Vector
    /\ meta \in Models \cup {None}
    /\ up \in [Procs -> BOOLEAN] /\ stopping \in [Procs -> BOOLEAN]
    /\ phase \in [Procs -> Phases]
    /\ batch \in [Procs -> SUBSET Item] /\ good \in [Procs -> SUBSET Item]
    /\ task \in [Procs -> Tasks]
    /\ prev \in [Procs -> Models \cup {None}]
    /\ offset \in [Procs -> Nat]
    /\ page \in [Procs -> SUBSET Events]
    /\ orphans \subseteq Events
    /\ faults \in 0 .. MaxFaults

Indexed(e) == \E v \in vectors : v.event = e
Queued(e) == \E r \in Ids : row[r] # None /\ row[r].event = e
Awaited(e) == \E p \in Procs : e \in page[p]

(* Once embedding-meta.json names the configured model and no migration     *)
(* runs, every event has a vector or a row, or is about to get one: no      *)
(* interleaving of a migration with appends, batches in flight, retries,    *)
(* recoveries and crashes forgets an event.  The exception is an event      *)
(* whose process died between append() and enqueueForEmbedding().           *)
NothingForgotten ==
    ~Migrating /\ (\E p \in Procs : meta = ModelOf[p])
        => \A e \in stored :
              Indexed(e) \/ Queued(e) \/ Awaited(e) \/ e \in orphans

(* The vectors are of the model embedding-meta.json names, unless a         *)
(* migration is under way or was cut off: a migration that has written the  *)
(* file has left no vector of another model, nor will a batch add one.      *)
MetaNamesModel ==
    \A p \in Procs : meta = ModelOf[p] => \A v \in vectors : v.model = meta

(* A row is given up after four failures of its batch, and is then out of   *)
(* the reach of recovery, which only retries rows with fewer than three.    *)
GivenUpIsFinal ==
    [][\A r \in Rows("failed") :
          row'[r] # None => row'[r].status = "failed"]_vars

(* Every row is embedded, dropped or given up in the end.                   *)
RowsSettle ==
    \A r \in Ids : r \in Rows("pending") \cup Rows("processing")
                       ~> r \notin Rows("pending") \cup Rows("processing")

(* A row ends once: every row is embedded, dropped or given up in the end,  *)
(* and one that was given up is never queued again.                         *)
RowsSettleOnce == GivenUpIsFinal /\ RowsSettle
=============================================================================
