---------------------------- MODULE VectorOutbox ----------------------------
(***************************************************************************)
(* The vector outbox: the `vector_outbox' table (core/vector-outbox.ts),    *)
(* the V2 vector workers that drain it (core/vector-worker.ts), the vector  *)
(* table they write (core/vector-store.ts) and the event-store operations   *)
(* that feed and recover it (core/sqlite-event-store.ts).                   *)
(*                                                                          *)
(* One row per item: the table is UNIQUE on (item_kind, item_id,            *)
(* embedding_version), and kind and version are fixed here.  A worker is    *)
(* the VectorWorkerV2 object of one process; its batch promise              *)
(* (activeBatch) makes it run one batch at a time, so a batch is a          *)
(* sequence of steps, each ending where the code awaits a statement or a    *)
(* Lance commit that another process may interleave with.                   *)
(***************************************************************************)
EXTENDS Integers, FiniteSets

CONSTANTS
    Items,            \* item ids that may be enqueued
    Workers,          \* processes that own a VectorWorkerV2
    BatchSize,        \* config.batchSize, the LIMIT of a claim
    MaxRetries,       \* config.maxRetries
    StuckThreshold,   \* age after which a processing row counts as stuck
    CleanupAge,       \* age after which a done row may be deleted
    MaxFaults,        \* bound: failures, crashes and stops in a behaviour
    Timely,           \* live workers finish a batch within StuckThreshold
    ReimportDeleted   \* an import may bring a deleted event's id back

ASSUME BatchAssumption == BatchSize \in Nat \ {0}
ASSUME RetryAssumption == MaxRetries \in Nat \ {0}
ASSUME AgeAssumption == /\ StuckThreshold \in Nat
                        /\ CleanupAge \in Nat
                        /\ StuckThreshold <= CleanupAge
ASSUME FaultAssumption == MaxFaults \in Nat
ASSUME SwitchAssumption == Timely \in BOOLEAN /\ ReimportDeleted \in BOOLEAN

AgeCap == CleanupAge + 1    \* ages beyond every threshold look alike

Statuses == {"none", "pending", "processing", "done", "failed"}

(* What a worker is doing with an item of its batch.                        *)
Stages == {"no",        \* not (or no longer) in its batch
           "todo",      \* claimed, buildRecord not run yet
           "rec",       \* embedded, waiting for the upsert or for markDone
           "skip",      \* buildRecord found no content: markDone comes next
           "fail",      \* an error was caught, markJobFailed comes next
           "failing"}   \* markFailed has read retry_count, not yet written

PCs == {"off", "idle", "batch", "add", "complete"}

VARIABLES
    events,     \* ids of the rows of table events
    born,       \* ids that have ever been in it
    older,      \* older[i]: the items whose row has a smaller created_at
    status,     \* vector_outbox.status, "none" where there is no row
    retries,    \* vector_outbox.retry_count
    age,        \* time since vector_outbox.updated_at, capped at AgeCap
    vectors,    \* number of rows of the vector table with the item's id
    pc,         \* where each worker is in its batch
    stopping,   \* VectorWorkerV2.stopping
    hold,       \* hold[w][i]: the stage of item i in w's batch
    seen,       \* the retry_count markFailed read
    conflict,   \* the caught error is a Lance commit conflict
    faults      \* number of failures so far, at most MaxFaults

outbox == <<older, status, retries, age>>
worker == <<pc, stopping, hold, seen, conflict>>
vars == <<events, born, outbox, vectors, worker, faults>>

-----------------------------------------------------------------------------

Held(w) == {i \in Items : hold[w][i] # "no"}
At(w, stage) == {i \in Items : hold[w][i] = stage}
Pending == {i \in Items : status[i] = "pending"}

(* The rows SELECT .. WHERE status = 'pending' ORDER BY created_at LIMIT n  *)
(* returns.                                                                 *)
Oldest(S) == /\ S \subseteq Pending
             /\ Cardinality(S) <= BatchSize
             /\ S # Pending => Cardinality(S) = BatchSize
             /\ \A i \in S, j \in Pending \ S : i \in older[j]

(* No markJobFailed call of w is outstanding.                               *)
NoFailure(w) == At(w, "fail") = {} /\ At(w, "failing") = {}

(* The build loop of w's batch is over.                                     *)
Built(w) == pc[w] = "batch" /\ At(w, "todo") = {} /\ NoFailure(w)

Stage(w, i, s) == hold' = [hold EXCEPT ![w][i] = s]
Fault == faults < MaxFaults /\ faults' = faults + 1

(* Rows S change to status s: updated_at becomes now.                       *)
SetStatus(S, s) ==
    /\ status' = [i \in Items |-> IF i \in S THEN s ELSE status[i]]
    /\ age' = [i \in Items |-> IF i \in S THEN 0 ELSE age[i]]

Init ==
    /\ events = {} /\ born = {}
    /\ older = [i \in Items |-> {}]
    /\ status = [i \in Items |-> "none"]
    /\ retries = [i \in Items |-> 0]
    /\ age = [i \in Items |-> 0]
    /\ vectors = [i \in Items |-> 0]
    /\ pc = [w \in Workers |-> "off"]
    /\ stopping = [w \in Workers |-> FALSE]
    /\ hold = [w \in Workers |-> [i \in Items |-> "no"]]
    /\ seen = [w \in Workers |-> 0]
    /\ conflict = [w \in Workers |-> FALSE]
    /\ faults = 0

-----------------------------------------------------------------------------
(* The event store.                                                         *)

(* INSERT .. ON CONFLICT (item_kind, item_id, embedding_version) DO NOTHING *)
Enqueue(i) ==
    IF status[i] = "none"
    THEN /\ SetStatus({i}, "pending")
         /\ retries' = [retries EXCEPT ![i] = 0]
         /\ older' = [older EXCEPT ![i] = {j \in Items : status[j] # "none"}]
    ELSE UNCHANGED outbox

(* append() of a new event, under a fresh id: the event and its job are     *)
(* inserted in one transaction.                                             *)
Insert(i) ==
    /\ events' = events \cup {i}
    /\ born' = born \cup {i}
    /\ Enqueue(i)
    /\ UNCHANGED <<vectors, worker, faults>>

AppendEvent(i) == i \notin born /\ Insert(i)

(* importEvents() keeps the ids: it skips an event that is there, and may   *)
(* bring back one that was deleted.                                         *)
ImportEvent(i) ==
    /\ i \notin events
    /\ i \in born => ReimportDeleted
    /\ Insert(i)

(* append() of a duplicate: the existing event is enqueued again.           *)
AppendDuplicate(i) ==
    /\ i \in events
    /\ Enqueue(i)
    /\ UNCHANGED <<events, born, vectors, worker, faults>>

(* deleteSessionEvents(): vector_outbox has no event_id column, so its row  *)
(* stays, and so does the vector.                                           *)
DeleteEvent(i) ==
    /\ i \in events
    /\ events' = events \ {i}
    /\ UNCHANGED <<born, outbox, vectors, worker, faults>>

(* recoverStuckOutboxItems() and VectorOutbox.reconcile(): stuck processing *)
(* rows and failed rows with retries left go back to pending.               *)
(* Mistaken variants: the age is not checked; it is compared backwards.     *)
StuckAtAnyAge(i) == status[i] = "processing"
StuckWhileFresh(i) == status[i] = "processing" /\ age[i] < StuckThreshold
Stuck(i) == status[i] = "processing" /\ age[i] > StuckThreshold

(* Mistaken variant: one retry too many.                                    *)
RetryableOnceMore(i) == status[i] = "failed" /\ retries[i] <= MaxRetries
Retryable(i) == status[i] = "failed" /\ retries[i] < MaxRetries

Recover ==
    /\ \E i \in Items : Stuck(i) \/ Retryable(i)
    /\ SetStatus({i \in Items : Stuck(i) \/ Retryable(i)}, "pending")
    /\ UNCHANGED <<events, born, older, retries, vectors, worker, faults>>

(* cleanup(): old done rows are deleted.  A row enqueued again has a new    *)
(* job_id that a worker of the old row would miss; no batch lasts           *)
(* cleanupDays, so no worker holds a row that old.                          *)
Expired(i) == /\ status[i] = "done" /\ age[i] > CleanupAge
              /\ \A w \in Workers : i \notin Held(w)

Cleanup ==
    /\ \E i \in Items : Expired(i)
    /\ status' = [i \in Items |-> IF Expired(i) THEN "none" ELSE status[i]]
    /\ older' = [i \in Items |-> {j \in older[i] : ~Expired(j)}]
    /\ UNCHANGED <<events, born, retries, age, vectors, worker, faults>>

-----------------------------------------------------------------------------
(* A worker's batch (processBatchExclusive).                                *)

Claim(w) ==
    /\ pc[w] = "idle" /\ ~stopping[w]
    /\ \E S \in SUBSET Pending :
          /\ S # {} /\ Oldest(S)
          /\ SetStatus(S, "processing")
          /\ hold' = [hold EXCEPT ![w] =
                         [i \in Items |-> IF i \in S THEN "todo" ELSE "no"]]
    /\ pc' = [pc EXCEPT ![w] = "batch"]
    /\ UNCHANGED <<events, born, older, retries, vectors, stopping, seen,
                   conflict, faults>>

(* buildRecord: embed the content, or skip an item that is gone.            *)
Build(w, i) ==
    /\ pc[w] = "batch" /\ NoFailure(w)
    /\ i \in At(w, "todo")
    /\ Stage(w, i, IF i \in events THEN "rec" ELSE "skip")
    /\ UNCHANGED <<events, born, outbox, vectors, pc, stopping, seen,
                   conflict, faults>>

BuildError(w, i) ==
    /\ pc[w] = "batch" /\ NoFailure(w)
    /\ i \in At(w, "todo")
    /\ Fault
    /\ Stage(w, i, "fail")
    /\ conflict' = [conflict EXCEPT ![w] = FALSE]
    /\ UNCHANGED <<events, born, outbox, vectors, pc, stopping, seen>>

(* upsertBatch on an existing table: one commit deletes the records' ids,   *)
(* the next adds the rows.  Mistaken variant first: nothing is deleted.     *)
UpsertWithoutDelete(w) ==
    /\ Built(w) /\ At(w, "rec") # {}
    /\ pc' = [pc EXCEPT ![w] = "add"]
    /\ UNCHANGED <<events, born, outbox, vectors, stopping, hold, seen,
                   conflict, faults>>
UpsertDelete(w) ==
    /\ Built(w) /\ At(w, "rec") # {}
    /\ vectors' = [i \in Items |->
                      IF i \in At(w, "rec") THEN 0 ELSE vectors[i]]
    /\ pc' = [pc EXCEPT ![w] = "add"]
    /\ UNCHANGED <<events, born, outbox, stopping, hold, seen, conflict,
                   faults>>

UpsertAdd(w) ==
    /\ pc[w] = "add"
    /\ vectors' = [i \in Items |->
                      IF i \in At(w, "rec") THEN vectors[i] + 1
                                            ELSE vectors[i]]
    /\ pc' = [pc EXCEPT ![w] = "complete"]
    /\ UNCHANGED <<events, born, outbox, stopping, hold, seen, conflict,
                   faults>>

(* A commit conflict inside upsertBatch: the delete and the add are rerun.  *)
UpsertAgain(w) ==
    /\ pc[w] = "add"
    /\ Fault
    /\ pc' = [pc EXCEPT ![w] = "batch"]
    /\ UNCHANGED <<events, born, outbox, vectors, stopping, hold, seen,
                   conflict>>

(* upsertBatch throws: every embedded job is to be marked failed.           *)
UpsertError(w) ==
    /\ (Built(w) /\ At(w, "rec") # {}) \/ pc[w] = "add"
    /\ Fault
    /\ hold' = [hold EXCEPT ![w] =
                   [i \in Items |-> IF hold[w][i] = "rec" THEN "fail"
                                                          ELSE hold[w][i]]]
    /\ \E c \in BOOLEAN : conflict' = [conflict EXCEPT ![w] = c]
    /\ pc' = [pc EXCEPT ![w] = "complete"]
    /\ UNCHANGED <<events, born, outbox, vectors, stopping, seen>>

(* The mistaken variant does not wait for the upsert.                       *)
CompletingUnwritten(w, i) ==
    /\ (pc[w] = "complete" /\ NoFailure(w)) \/ Built(w)
    /\ i \in At(w, "rec") \cup At(w, "skip")
Completing(w, i) ==
    /\ \/ pc[w] = "complete" /\ NoFailure(w)
       \/ Built(w) /\ At(w, "rec") = {}
    /\ i \in At(w, "rec") \cup At(w, "skip")

(* markDone: unconditional on the row's status and owner.                   *)
MarkDone(w, i) ==
    /\ Completing(w, i)
    /\ SetStatus({i} \ {j \in Items : status[j] = "none"}, "done")
    /\ Stage(w, i, "no")
    /\ UNCHANGED <<events, born, older, retries, vectors, pc, stopping, seen,
                   conflict, faults>>

MarkDoneError(w, i) ==
    /\ Completing(w, i)
    /\ Fault
    /\ Stage(w, i, "fail")
    /\ conflict' = [conflict EXCEPT ![w] = FALSE]
    /\ UNCHANGED <<events, born, outbox, vectors, pc, stopping, seen>>

(* markJobFailed: nothing while stopping; else markFailed reads retry_count *)
(* and, in a later statement, writes the row.                               *)
FailRead(w, i) ==
    /\ i \in At(w, "fail") /\ At(w, "failing") = {}
    /\ IF stopping[w] \/ status[i] = "none"
       THEN Stage(w, i, "no") /\ UNCHANGED seen
       ELSE Stage(w, i, "failing") /\ seen' = [seen EXCEPT ![w] = retries[i]]
    /\ UNCHANGED <<events, born, outbox, vectors, pc, stopping, conflict,
                   faults>>

(* markFailed's verdict and count, each after mistaken variants: the limit  *)
(* is off by one either way.                                                *)
ExhaustedEarly(w) == seen[w] >= MaxRetries - 2
ExhaustedLate(w) == seen[w] >= MaxRetries
Exhausted(w) == seen[w] >= MaxRetries - 1

CountFailure(w, i) == IF conflict[w] THEN retries[i] ELSE retries[i] + 1

FailWrite(w, i) ==
    /\ i \in At(w, "failing")
    /\ IF status[i] = "none"
       THEN UNCHANGED <<status, age, retries>>
       ELSE /\ SetStatus({i}, IF ~conflict[w] /\ Exhausted(w)
                              THEN "failed" ELSE "pending")
            /\ retries' = [retries EXCEPT ![i] = CountFailure(w, i)]
    /\ Stage(w, i, "no")
    /\ UNCHANGED <<events, born, older, vectors, pc, stopping, seen,
                   conflict, faults>>

(* The batch promise settles.                                               *)
EndBatch(w) ==
    /\ pc[w] \in {"batch", "complete"} /\ Held(w) = {}
    /\ pc' = [pc EXCEPT ![w] = "idle"]
    /\ UNCHANGED <<events, born, outbox, vectors, stopping, hold, seen,
                   conflict, faults>>

-----------------------------------------------------------------------------
(* A worker's life: start(), stop(), waitForIdle() and process exit, crash. *)

Start(w) ==
    /\ pc[w] = "off"
    /\ pc' = [pc EXCEPT ![w] = "idle"]
    /\ stopping' = [stopping EXCEPT ![w] = FALSE]
    /\ UNCHANGED <<events, born, outbox, vectors, hold, seen, conflict,
                   faults>>

Stop(w) ==
    /\ pc[w] # "off" /\ ~stopping[w]
    /\ Fault
    /\ stopping' = [stopping EXCEPT ![w] = TRUE]
    /\ UNCHANGED <<events, born, outbox, vectors, pc, hold, seen, conflict>>

Exit(w) ==
    /\ pc[w] = "idle" /\ stopping[w]
    /\ pc' = [pc EXCEPT ![w] = "off"]
    /\ UNCHANGED <<events, born, outbox, vectors, stopping, hold, seen,
                   conflict, faults>>

Crash(w) ==
    /\ pc[w] # "off"
    /\ Fault
    /\ pc' = [pc EXCEPT ![w] = "off"]
    /\ hold' = [hold EXCEPT ![w] = [i \in Items |-> "no"]]
    /\ UNCHANGED <<events, born, outbox, vectors, stopping, seen, conflict>>

(* Time passes.  Timely: a batch ends before its rows count as stuck.       *)
Tick ==
    /\ Timely => \A w \in Workers : \A i \in Held(w) : age[i] < StuckThreshold
    /\ age' = [i \in Items |-> IF status[i] \in {"processing", "done"}
                                  /\ age[i] < AgeCap
                               THEN age[i] + 1 ELSE age[i]]
    /\ UNCHANGED <<events, born, older, status, retries, vectors, worker,
                   faults>>

-----------------------------------------------------------------------------

BatchStep(w) ==
    \/ Claim(w)
    \/ \E i \in Items : Build(w, i) \/ MarkDone(w, i)
                        \/ FailRead(w, i) \/ FailWrite(w, i)
    \/ UpsertDelete(w) \/ UpsertAdd(w) \/ EndBatch(w)

WorkerFault(w) ==
    \/ \E i \in Items : BuildError(w, i) \/ MarkDoneError(w, i)
    \/ UpsertAgain(w) \/ UpsertError(w)
    \/ Stop(w) \/ Crash(w)

StoreStep ==
    \E i \in Items : \/ AppendEvent(i) \/ ImportEvent(i)
                    \/ AppendDuplicate(i) \/ DeleteEvent(i)

Next ==
    \/ StoreStep \/ Recover \/ Cleanup \/ Tick
    \/ \E w \in Workers : BatchStep(w) \/ WorkerFault(w) \/ Start(w) \/ Exit(w)

Spec == Init /\ [][Next]_vars

(* A started worker keeps going, one is started again after each exit (the  *)
(* next hook, server or CLI command), maintenance recovers stuck rows, and  *)
(* time passes.                                                             *)
Fairness ==
    /\ \A w \in Workers : WF_vars(BatchStep(w)) /\ WF_vars(Start(w))
                          /\ WF_vars(Exit(w))
    /\ WF_vars(Recover)
    /\ WF_vars(Tick)

FairSpec == Spec /\ Fairness

-----------------------------------------------------------------------------
(* Every variable has its type (rows, workers' batches and bounds).         *)
TypeOK ==
    /\ events \subseteq Items /\ born \subseteq Items
    /\ older \in [Items -> SUBSET Items]
    /\ status \in [Items -> Statuses]
    /\ retries \in [Items -> Nat]
    /\ age \in [Items -> 0 .. AgeCap]
    /\ vectors \in [Items -> Nat]
    /\ pc \in [Workers -> PCs]
    /\ stopping \in [Workers -> BOOLEAN]
    /\ hold \in [Workers -> [Items -> Stages]]
    /\ seen \in [Workers -> Nat]
    /\ conflict \in [Workers -> BOOLEAN]
    /\ faults \in 0 .. MaxFaults

(* The claim is a mutual exclusion: no two live workers have the same job   *)
(* in their batches, across retries, crashes, restarts and the recovery of  *)
(* stuck rows (claimJobs, recoverStuckOutboxItems).                         *)
OneHolder ==
    \A v, w \in Workers : v # w => Held(v) \cap Held(w) = {}

(* The vector table never has two rows of one item, although an upsert is a *)
(* delete and an add in separate commits (writeExistingRowsWithRetry).      *)
UniqueVectors == \A i \in Items : vectors[i] <= 1

(* A job that is done has put its event in the index: an event that exists  *)
(* and whose job is done can be found by a vector search.                   *)
DoneIsIndexed ==
    \A i \in events : status[i] = "done" => vectors[i] = 1

(* A job fails for good only after MaxRetries counted failures, even when a *)
(* slow worker writes a stale verdict (markFailed): recovery never finds a  *)
(* failed row it may retry.                                                 *)
FailedIsExhausted ==
    \A i \in Items : status[i] = "failed" => retries[i] >= MaxRetries

(* A done or failed job is final: no late write of a worker brings it back, *)
(* and a done row can only be cleaned up (markDone, markFailed, reconcile). *)
SettledIsFinal ==
    [][\A i \in Items :
          /\ status[i] = "done" => status'[i] \in {"done", "none"}
          /\ status[i] = "failed" => status'[i] = "failed"]_vars

-----------------------------------------------------------------------------
(* The inductive invariants the proofs use.                                 *)

(* With or without Timely: a worker only holds existing rows, and the count *)
(* markFailed has read is never above the row's.                            *)
RetryInv ==
    /\ FailedIsExhausted
    /\ \A w \in Workers, i \in Items :
          /\ hold[w][i] # "no" => status[i] # "none"
          /\ hold[w][i] = "failing" => seen[w] <= retries[i]

(* With Timely and without ReimportDeleted: a held row is processing and    *)
(* not stuck, and what the holder has done of its upsert is in the table.   *)
ClaimInv ==
    /\ OneHolder /\ UniqueVectors /\ DoneIsIndexed
    /\ events \subseteq born
    /\ \A w \in Workers, i \in Items :
          /\ hold[w][i] # "no" => /\ pc[w] \in {"batch", "add", "complete"}
                                  /\ status[i] = "processing"
                                  /\ age[i] <= StuckThreshold
                                  /\ i \in born
          /\ hold[w][i] = "skip" => i \notin events
          /\ hold[w][i] = "rec" => /\ pc[w] = "add" => vectors[i] = 0
                                   /\ pc[w] = "complete" => vectors[i] = 1
          /\ pc[w] = "add" => NoFailure(w) /\ At(w, "todo") = {}
          /\ pc[w] = "complete" => At(w, "todo") = {}
    /\ \A i \in Items : status[i] # "none" => i \in born

-----------------------------------------------------------------------------
Phase(i) ==
    CASE status[i] = "none" -> "absent"
      [] status[i] \in {"pending", "processing"} -> "queued"
      [] status[i] = "failed" -> "abandoned"
      [] status[i] = "done" -> IF vectors[i] > 0 THEN "indexed" ELSE "dropped"

Jobs == INSTANCE VectorJobs WITH
            exists <- events,
            phase <- [i \in Items |-> Phase(i)],
            tries <- retries

(* The outbox, its workers and its recovery implement VectorJobs: a job is  *)
(* settled once, dropped only when its event is gone and abandoned only     *)
(* after MaxRetries attempts.                                               *)
ImplementsJobs == Jobs!Spec

(* Every queued job is settled although workers fail, stop and crash: the   *)
(* liveness VectorJobs promises.                                            *)
JobsSettle == Jobs!Settles

(* The index tells the truth: whatever workers fail, stop and crash between *)
(* the two commits of an upsert, no item has two vectors, and a done job    *)
(* whose event exists has one.                                              *)
IndexIsSound == UniqueVectors /\ DoneIsIndexed
=============================================================================
