--------------------------- MODULE VectorWriters ----------------------------
(***************************************************************************)
(* The commands that write one store's vectors, and the lock that should    *)
(* keep them apart: import and process (apps/cli/index.ts), the Mongo sync  *)
(* command's processing (apps/cli/mongo-sync-command.ts), maintenance       *)
(* (apps/cli/maintenance-runner.ts), and the semantic daemon's graduation   *)
(* and session summary (adapters/claude/hooks/semantic-daemon.ts).  Each    *)
(* builds a MemoryService whose initialize() starts the vector pollers and  *)
(* whose shutdown() stops them and waits for the batch in flight            *)
(* (core/engine/memory-runtime-service.ts).  The Codex and Hermes imports   *)
(* follow the order of import.  A service that is built without taking the  *)
(* lock (MCP handlers, other commands) is not among the kinds.              *)
(***************************************************************************)
EXTENDS WorkerLock

CONSTANT Teams   \* what the processes may run

Kinds == {"import", "process", "mongo", "maintenance", "graduation",
          "summary"}

ASSUME TeamsAssumption == Teams \subseteq [Procs -> Kinds]

VARIABLES
    kind,     \* what each process runs, chosen once
    phase,    \* the command's MemoryService
    writing   \* a batch of one of its vector workers is in flight

vars == <<lockVars, kind, phase, writing>>

Phases == {"none",      \* not built
           "open",      \* initialized: pollers run, the command works
           "done",      \* the try block is over; no timer runs before stop()
           "stopping",  \* shutdown(): workers stopped, batch awaited
           "closed"}    \* stores closed

(* runSessionSummaryWithWriterLock takes a lock file of its own,            *)
(* summary-worker.lock, not the vector writers' lock.                       *)
Locks(p) == kind[p] # "summary"

(* The finally blocks of process and mongo release before they shut down.   *)
(* Mistaken variant: so does import.                                        *)
ReleasesFirstAtImport(p) == kind[p] \in {"process", "mongo", "import"}
ReleasesFirst(p) == kind[p] \in {"process", "mongo"}

(* The commands whose finally block shuts the service down and then         *)
(* releases.                                                                *)
KeepsOrder(p) == kind[p] \in {"import", "maintenance", "graduation"}

Enter(p, f) == phase' = [phase EXCEPT ![p] = f]

Init == /\ LockInit
        /\ kind \in Teams
        /\ phase = [p \in Procs |-> "none"]
        /\ writing = [p \in Procs |-> FALSE]

-----------------------------------------------------------------------------

Acquire(p) ==
    /\ phase[p] = "none"
    /\ \/ Locks(p) /\ StartAcquire(p)
       \/ AcquireStep(p)
    /\ UNCHANGED <<kind, phase, writing>>

(* The summary's own lock is free, or busy: one summary process is          *)
(* modelled, which runs without the vector writers' lock.                   *)
AcquireSummary(p) ==
    /\ ~Locks(p) /\ phase[p] = "none" /\ pc[p] = "out"
    /\ Goto(p, "after")
    /\ UNCHANGED <<exists, payload, inode, crashes, kind, phase, writing>>

(* new MemoryService and initialize(): the pollers start.                   *)
Initialize(p) ==
    /\ phase[p] = "none"
    /\ pc[p] = IF Locks(p) THEN "held" ELSE "after"
    /\ Enter(p, "open")
    /\ UNCHANGED <<lockVars, kind, writing>>

(* A poll, or the command's own processPendingEmbeddings, starts a batch;   *)
(* the two share it through activeBatch.                                    *)
StartBatch(p) ==
    /\ phase[p] = "open" /\ ~writing[p]
    /\ writing' = [writing EXCEPT ![p] = TRUE]
    /\ UNCHANGED <<lockVars, kind, phase>>

(* Mistaken variant: the batch ends and activeBatch is not cleared.         *)
EndBatchKeeping(p) == writing[p] /\ UNCHANGED vars
EndBatch(p) ==
    /\ writing[p]
    /\ writing' = [writing EXCEPT ![p] = FALSE]
    /\ UNCHANGED <<lockVars, kind, phase>>

(* The try block ends, by return or by an exception.                        *)
Finish(p) ==
    /\ phase[p] = "open"
    /\ Enter(p, "done")
    /\ UNCHANGED <<lockVars, kind, writing>>

(* process: its catch block calls process.exit(1), so its finally block     *)
(* never runs.                                                              *)
ExitInCatch(p) ==
    /\ kind[p] = "process" /\ phase[p] = "open"
    /\ Goto(p, "out")
    /\ Enter(p, "none")
    /\ writing' = [writing EXCEPT ![p] = FALSE]
    /\ UNCHANGED <<exists, payload, inode, crashes, kind>>

(* shutdown(): stop() on the workers, waitForIdle(), close the stores.      *)
StopWorkers(p) ==
    /\ phase[p] = "done"
    /\ ReleasesFirst(p) => pc[p] = "after"
    /\ Enter(p, "stopping")
    /\ UNCHANGED <<lockVars, kind, writing>>

(* Mistaken variant: without waitForIdle().                                 *)
CloseAtOnce(p) ==
    /\ phase[p] = "stopping"
    /\ Enter(p, "closed")
    /\ UNCHANGED <<lockVars, kind, writing>>
Close(p) ==
    /\ phase[p] = "stopping" /\ ~writing[p]
    /\ Enter(p, "closed")
    /\ UNCHANGED <<lockVars, kind, writing>>

ReleaseLock(p) ==
    /\ phase[p] = IF ReleasesFirst(p) THEN "done" ELSE "closed"
    /\ Release(p) \/ Disown(p)
    /\ UNCHANGED <<kind, phase, writing>>

(* Mistaken variant: the process may end before it releases.                *)
ExitHolding(p) ==
    /\ phase[p] \in {"none", "closed"} /\ Alive(p)
    /\ Goto(p, "out")
    /\ Enter(p, "none")
    /\ UNCHANGED <<exists, payload, inode, crashes, kind, writing>>
ExitProcess(p) ==
    /\ phase[p] \in {"none", "closed"}
    /\ Exit(p)
    /\ Enter(p, "none")
    /\ UNCHANGED <<kind, writing>>

CrashProcess(p) ==
    /\ Crash(p)
    /\ Enter(p, "none")
    /\ writing' = [writing EXCEPT ![p] = FALSE]
    /\ UNCHANGED kind

-----------------------------------------------------------------------------

Step(p) ==
    \/ Acquire(p) \/ AcquireSummary(p) \/ Initialize(p) \/ EndBatch(p)
    \/ Finish(p) \/ StopWorkers(p) \/ Close(p) \/ ReleaseLock(p)
    \/ ExitProcess(p)

WritersNext ==
    \E p \in Procs :
        Step(p) \/ StartBatch(p) \/ ExitInCatch(p) \/ CrashProcess(p)

WritersSpec == Init /\ [][WritersNext]_vars

(* Every command is run again and again, and runs to its end: its work is   *)
(* finite, although its pollers may always find another batch.              *)
WritersFairSpec ==
    /\ WritersSpec
    /\ \A p \in Procs :
          /\ WF_vars(Step(p))
          /\ WF_vars(Finish(p) \/ StopWorkers(p) \/ ReleaseLock(p))

-----------------------------------------------------------------------------
(* Every variable has its type.                                             *)
TypeOK ==
    /\ LockTypeOK
    /\ kind \in [Procs -> Kinds]
    /\ phase \in [Procs -> Phases]
    /\ writing \in [Procs -> BOOLEAN]

(* At most one process writes the vector tables at a time ("Concurrent      *)
(* import/process commands for the same storage scope do not both become    *)
(* vector writers.", specs/vector-writer-concurrency/spec.md:46).           *)
OneWriter ==
    \A p, q \in Procs : writing[p] /\ writing[q] => p = q

(* shutdown() never closes the stores under a running batch.                *)
ClosedIsQuiet ==
    \A p \in Procs : phase[p] = "closed" => ~writing[p]

(* A command that ends, in whatever way but a crash, has released the lock  *)
(* and shut its service down first; process, whose catch block calls        *)
(* process.exit, is the exception.                                          *)
ExitsAfterRelease ==
    [][\A p \in Procs :
          Alive(p) /\ pc'[p] = "out" /\ crashes' = crashes
          /\ kind[p] # "process"
             => payload # p /\ phase[p] \in {"none", "closed"}]_vars

Owner == IF \E p \in Procs : Holds(p)
         THEN CHOOSE p \in Procs : Holds(p) ELSE None

Busy == {p \in Procs : KeepsOrder(p) /\ writing[p]}

Store == INSTANCE ExclusiveStore WITH owner <- Owner, writers <- Busy

(* The lock makes the store exclusive for the commands that keep this order, *)
(* whatever others run beside them: each of their batches starts while its   *)
(* command owns the store, the store is given up with none in flight, and no *)
(* release, exit or recovery of another command takes it from its owner.     *)
ImplementsStore == Store!Spec

(* Whoever holds the lock gives it back: every command's work ends, the     *)
(* batch in flight ends, and the service closes.                            *)
LockComesBack ==
    \A p \in Procs : Holds(p) ~> ~Holds(p)

(* The lock never gets stuck: a live holder gives it back, and what a dead  *)
(* one leaves behind is recovered by the next acquire().                    *)
LockIsLive == LockComesBack /\ StaleIsRecovered
=============================================================================
