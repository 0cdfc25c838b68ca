# claude-memory-layer in TLA+

Formal models of claude-memory-layer (`src/`), a long-term memory for coding
agents: short hook processes append what is said to an event log in SQLite,
pollers embed the events into LanceDB vector indexes, commands and a daemon
maintain the same store at the same time, and machines replicate their logs
through MongoDB. The models cover the parts of it where processes, failures,
restarts and replicas meet, and those where a row, a file or a vector is decided
in one step and written in another.

Paths below are relative to `src/src/` unless they start with `src/`.

- [1. The system](#1-the-system)
- [2. The modules](#2-the-modules)
- [3. The runs](#3-the-runs)
- [4. Assumptions of the outbox, the lock, the log and the replication](#4-assumptions-of-the-outbox-the-lock-the-log-and-the-replication)
- [5. Assumptions of the services, and what else was seen](#5-assumptions-of-the-services-and-what-else-was-seen)
- [6. The proofs](#6-the-proofs)
- [7. Disagreements found](#7-disagreements-found)
- [8. Not modelled](#8-not-modelled)
- [9. Plan](#9-plan)

## 1. The system

Every project has a storage directory with one SQLite database, one LanceDB
directory and a few files. There is no server process that owns them: hooks, the
CLI, the semantic daemon, the dashboard and the MCP server each open the same
files.

| component | state | operations | hard behaviour | what makes it correct |
|---|---|---|---|---|
| **Event store** `core/sqlite-event-store.ts` | `events`, `event_dedup`, `memory_levels`, outboxes, positions | `append`, `importEvents`, `deleteSessionEvents` | statements and transactions of several processes interleave; a delete for a forced reimport while others append | content stored once; tables agree; appending is idempotent; what is deleted can return |
| **Vector outbox and V2 worker** `core/vector-outbox.ts`, `core/vector-worker.ts` 248-, `core/vector-store.ts` | job rows, the batch in memory, vector rows | enqueue, claim, build, upsert, mark, recover, clean up; start, stop | crash at any await; batches that fail in part; late verdicts; an upsert of two commits | one holder per job; no duplicate vectors; done means indexed; every job settled |
| **V1 worker and model migration** `core/vector-worker.ts` 38-246, `core/engine/embedding-maintenance-service.ts` | `embedding_outbox` rows, vectors, `embedding-meta.json` | claim, embed, complete, fail, recover; clear and re-enqueue everything | a migration beside batches in flight, appends and deletes; crash half-way | no event forgotten; the recorded model is that of the vectors |
| **Writer lock** `core/worker-lock.ts` | `vector-worker.lock` | `acquire`, `release` | every file-system call is a step; stale files | one holder; a live lock is kept; a dead one recovered |
| **Vector-writing commands** `apps/cli/`, `adapters/claude/hooks/semantic-daemon.ts`, `core/engine/memory-runtime-service.ts` | the lock, pollers, the batch in flight | acquire, initialize, batch, shut down, release, exit | the order of shutdown and release; exits in `catch` | one writer per store; no store closed under a batch |
| **Mongo replication** `core/mongo-sync-worker.ts` | push position (a rowid), pull position (a `seq`), `cml_events`, `cml_counters` | `syncNow` | pushes and pulls interleave; bulk writes stop half-way; retries | positions never run ahead; nothing lost, nothing twice; everything arrives |
| **DuckDB sync** `core/sync-worker.ts` | a timestamp position | copy events | failures between insert and position; stop and start | everything up to the position is copied |
| **Semantic daemon** `adapters/claude/hooks/semantic-daemon*.ts` | the socket path, the build it runs, one scheduler state per project | start, answer, refuse, shut down; the hooks' spawn, wait, retry; graduation passes | spawns that race; a new build; shutdown beside requests | one daemon behind the path; one pass per project |
| **Session summaries** `core/engine/memory-ingest-service.ts` | the `session_summary` event, `summary-worker.lock` | by rule, or by an LLM | check and insert are an LLM call apart | one summary per session |
| **Hooks and turns** `adapters/claude/hooks/`, `core/turn-state.ts` | a turn file per session | prompt, tool, stop | interrupted turns, late stops, failed writes | events under their own turn |
| **Registry** `core/registry/session-registry.ts` | `session-registry.json` | register, unregister | one `.tmp` for all processes | no registration lost, no torn file |
| **Project scope** `core/sqlite-event-store.ts` 1982-, `core/registry/project-path.ts`, `core/operations/governance-service.ts` | stamps, paths and quarantine of rows; marker files | repair, quarantine, adopt a marker | hashes that change with a marker | own rows stay, foreign ones go |
| **Repairs of the index** `core/operations/tool-observation-vector-*.ts`, `credential-redaction.ts` | vectors of two tables, two queues, a flag | prune, heal, redact | deaths between deletes; the workers beside them | no vector of what was removed |
| **Importers** `services/*-history-importer.ts` | the text buffer, the open turn | import, forced import | a transcript that grows; stores that fail; repetition | the whole transcript, each answer once |
| **Retrieval** `core/retriever.ts` | candidates of up to four stages | search, filter, widen, read again | indexes that name what is gone or foreign | the project is kept; a match has a memory |
| **Graduation** `core/graduation-worker.ts` | `memory_levels`, metrics, cooldown | evaluate candidates, promote | stale candidates and metrics | levels are earned and never fall |
| **Tasks, actions** `core/task/`, `core/operations/action-*.ts` | entities, events, edges, a projection position; actions and their edges | resolve, project, rebuild, update | several statements per change | the status is in the log, the edges follow it |
| **Leases, edge history** `core/operations/` | `memory_leases`; versions of edges | acquire, renew, release; record, select as of | look and write apart; expiry | one active lease; one active version; a past that stays |
| **Shared store** `core/shared-*.ts` | rows and vectors of entries | promote | two stores, one after the other | a vector leads to its row |
| **Endless mode** `core/working-set-store.ts`, `core/consolidation-worker.ts` | working set, memories, rules | add, consolidate, promote, prune | topics share events; failures between | an event in one memory |
| **Maintenance timer** `apps/cli/maintenance-scheduler.ts` | definition files, what the service manager loaded | install, roll back, uninstall | any command may fail | the job runs from its files |
| **Lessons** `core/operations/lesson-*.ts` | the cache of LLM verdicts, `memory_lessons` | list candidates, promote one, save a curated one | an LLM call between reading the sessions and storing; derivation a second time | the text that was read is stored; what is cited may be shared |
| **Perspectives** `core/operations/perspective-*.ts`, `actor-card-repository.ts` | `perspective_observations`, their jobs and vectors, `actor_cards` | observe, delete softly, index, consolidate, maintain and edit a card | a pass of many statements over what it read once; rows that come back; jobs that are not enqueued twice | a live row with a done job is found; a pass derives from live rows, all it can or as many as its budget allows; it takes nothing off a card |
| **The rest**: operations on facets, assets, retention; server, dashboard, MCP; Markdown mirror; evaluation | | | | not modelled |

How they interact: hooks and importers call `append()`, which inserts an event
with its dedup, level and `vector_outbox` rows in one transaction, and then
`enqueueForEmbedding()` for the first pipeline. A service built for writing
starts a V1 and a V2 worker that poll the outboxes and write LanceDB through
`VectorStore`. The commands that write vectors take `vector-worker.lock`, build
a service, wait for its work and shut it down. `mongo-sync` reads events by
rowid and replays those of others through `importEvents()`. Recovery of stuck
outbox rows is run by `process`, `mongo-sync`, maintenance and the health API.
The semantic daemon answers prompts, summarizes sessions and runs graduation
passes under the locks.

`PROJECT.json` lists every component with its status, and under `hazards` what
is hard to test in this code, at the line where it bites.

## 2. The modules

Common conventions: an action is one statement, transaction or file-system call,
with the code between it and the next; `pc` variables (`leasePc`, `gradPc`, ...)
say where in a call a process is; definitions that a comment calls a *mistaken
variant* are not part of a specification, each is a plausible bug that the
property beside it in `PROJECT.json`, `mutants`, detects. `map` in that file
gives for each definition the lines it stands for. `Processes` has the set of
processes and the variable `overlap`, chosen once: whether another process may
run inside a call. A property with the premise `~overlap` is about calls that do
not overlap, but may still die anywhere.

### VectorOutbox, VectorJobs

`VectorOutbox` has the `vector_outbox` rows (`status`, `retries`, `age`,
`older` for `ORDER BY created_at`), the events, the number of vector rows per
item, and for each worker process the batch it holds. A batch follows
`processBatchExclusive`: `Claim`, then `Build` (or `BuildError`) per job, one
upsert for all of them as `UpsertDelete` then `UpsertAdd`, because LanceDB
commits the two separately and reruns both after a commit conflict
(`UpsertAgain`), then `MarkDone` per job. A caught error puts jobs in stage
`fail`, and `markFailed` is the two statements it is in the code: `FailRead`
reads `retry_count`, `FailWrite` writes the verdict computed from what was read.
`Stop` sets the flag that makes `markJobFailed` a no-op, `Crash` drops the batch.
The store side is `AppendEvent`, `AppendDuplicate`, `ImportEvent`,
`DeleteEvent`, `Recover` and `Cleanup`; `Tick` ages rows.

`VectorJobs` is what the outbox promises: a submitted item is queued until it
is settled once - indexed, dropped because it is gone, or abandoned after
`MaxRetries` failed attempts. `VectorOutbox` states the refinement (`Jobs ==
INSTANCE VectorJobs WITH ...`): `pending` and `processing` are both *queued*,
`done` is *indexed* or *dropped* depending on the index.

### EmbeddingOutbox

The first pipeline and its migration in one module, because the migration is
correct only together with the worker it stops and restarts. Each process has
one worker (`phase`, `batch`, `good`, the `stopping` flag) beside one `task` of
its command: appending (`Append`, then `Enqueue`), migrating (`ReadModel`,
`Decide`, `ClearVectors`, `ClearOutbox`, then `ReadPage` and `Requeue` page by
page, `WriteMeta`) or closing. `Stop` sets a flag and waits for nothing, as in
the code, so a batch goes on beside a migration. `Upsert` and `Complete` are two
steps. A vector and a row carry the model and the id that made them.

### WorkerLock, VectorWriters

`WorkerLock` takes `acquire()` and `release()` apart into file-system calls.
The lock file is created empty and then filled through its descriptor, which
goes on working when another process has unlinked the path; `inode[p]` tells
whether the path still leads to the file `p` created. `VectorWriters` puts the
commands around it: `phase` follows the `MemoryService` of a process from
`initialize()` to the end of `shutdown()`, `writing` is the batch in flight.
The six kinds differ where their code differs: `process` and `mongo` release
before they shut down (`ReleasesFirst`), `process` may call `process.exit(1)`
in its `catch` (`ExitInCatch`), `summary` takes a lock file of its own
(`Locks`). What each process runs is chosen among `Teams`. The Codex and Hermes
imports follow the order of `import`.

`ExclusiveStore` is what the lock promises the commands that shut down before
they release (`KeepsOrder`): the store has one owner, who alone starts batches
and who gives it up with none in flight. `Store == INSTANCE ExclusiveStore WITH
...` takes the holder of the lock for the owner and the batches of those
commands for the writers: `Write` takes the store, `Disown` yields it, a crash
or an exit in a `catch` of the holder is a death. Processes of the other kinds
may run beside them: they own the store while they hold the lock, but the
contract says nothing of their batches (section 4 does).

### EventStore

The tables are sets and functions of ids; the conversion that matters is
`KeyOf`, from an id to its dedupe key (content and session), and `SessionOf`.
`append()` is two steps, the look in `event_dedup` and then either the
transaction `AppendInsert` or the re-enqueueing `AppendDuplicate`;
`importEvents()` is one transaction over any batch; `deleteSessionEvents()`
is the SELECT of the ids and then the transaction, which deletes related rows
*by those ids* but events *by session*. `Conflict` is what SQLite's UNIQUE
constraints reject.

`ContentLog` is what the store promises: a set of contents, on which `append()`,
`importEvents()` and `deleteSessionEvents()` are single steps. `Contents ==
INSTANCE ContentLog WITH ...` maps the events to their keys. A call takes effect
at its last statement (`AppendInsert`, `AppendDuplicate`, `DeleteRun`), although
it acts on what its first one read. While calls do not overlap, "duplicate" is
only said of a content that is there, an append is never refused and an import
leaves nothing out. When they overlap, the contract says what is left: "new"
still means that this call stored the content, which was not there.

### MongoSync

Each machine's log is the rowid of each event (`rowid[m][i]`), each document its
`seq`. A worker goes through `syncNow()`: `StartPush`, `Read`, `Allocate`,
`WriteDoc` per document of the unordered bulk write, `SavePush`, then `Find`,
`Import`, `SavePull`, and round again while batches are full. `Fail` is an error
or a crash at any of these points; documents and positions already written stay.
`Append` gives the highest rowid plus one, `Delete` frees a rowid.

`Replication` is the contract, without rowids, numbers, batches or failures:
machines share a log of events, and each has sets of events that it is done
with, its own ones (*pushed*: all shared) and shared ones (*pulled*: all held).
`Shared == INSTANCE Replication WITH ...` reads a position as the set of what it
has passed. That a set only changes by its machine's own step is the point: no
new row and no new document may lie at or before a position.

### The services

Twenty modules, each for one component that keeps rows or files of its own.

| module | state | steps |
|---|---|---|
| `Leases` | `lease[l]` with target, holder, `expired`, `released`, in row order | `AcquireLease`; `RenewLook`, `RenewWrite`; `ReleaseLook`, `ReleaseWrite`; `Expire`, `LeaseCrash` |
| `Graduation` | `level`, `uses`; per worker the candidates, hydrated `metrics`, cooldown | `StartRun`, `EvaluateGraduation` per candidate, `NextLevel`, `EndRun`; `Use` and `Forget` beside it |
| `Tasks` | entities, the log of task events, edges (a bag: the table has no unique index), the projector's offset | resolver: `ProcessTask`, `CreateTask`, `ChangeStatus` or `RejectStatus`, `UpdateStatus`, `SetBlockers`; projector: `Fetch`, `ProjectDelete`, `ProjectInsert`, `SaveOffset`; `Rebuild`, `ResetOffset` |
| `AnalyticsSync` | timestamps of events, the position, the rows of DuckDB | `SyncNow`, `ReadEvents`, `InsertEvents`, `SavePosition`, `SyncFails`, `StopSync` |
| `Promotion` | row id and vectors of shared entries | `PromoteEntry`, `StoreShared`, `EmbedShared`, `PromotionFails` |
| `EdgeHistory` | versions of one logical edge with from, to and successor; `truth`, the reference | `RecordLook`, `RecordWrite`, `Tick`; `ValidAt` is `selectAsOf()` |
| `SemanticDaemon` | the socket path, daemons and their builds, where each hook is | `Probe`, `UnlinkOld`, `Listen`, `Shutdown`, `CloseServer`, `ExitDaemon`; `Ask`, `Ensure`, `Wait`, `Retry`; `InstallBuild`, `KillDaemon` |
| `AutoGraduation` | one state per project; the timers and passes there are | `Schedule`, `Fire`, `FinishPass`, `Cool`; `StopScheduler`, `ClearStates` |
| `SessionRegistry` | inodes: the registry, the temporary file, unlinked ones | load, `OpenTemp` (truncates), `WriteTemp`, `Rename`; `RegFails` |
| `Summaries` | events and summaries per session, the keeper of the lock | `Summarize`, `ReadEventsOf`, `Generate`, `StoreSummary`, `SumFails` |
| `Consolidation` | working set, memories with their sources, rules | `StartConsolidation` (groups by topic), `NextGroup`, `CreateMemory`, `Promote`, `Prune`; `AddToWorkingSet`, `ExpireRow` |
| `Turns` | the turn file, the transcript, under which turn answers and observations are stored | `SubmitPrompt`, `ObserveTool`, `Answer`, `Interrupt`, `StopHook`, `StoreAnswers`, `ClearTurn` |
| `VectorRepairs` | text of events, rows of both queues with the text they hold, vectors of both tables | prune: `PruneVector`, `PruneRows`, `SetHealed`; redaction: `Rewrite`, `DropVectors`, `Requeue`; the workers' `Embed`, `EmbedLegacy`, `StoreVector`; `Reembed` |
| `Actions` | task rows, actions, edges | `StartProject`, `InsertAction`, `UpdateAction` or `LeaveAction`, `ReadBlockers`, `SyncEdge`, `EndProject`; the tool's `StartUpdate`, `WriteUpdate` |
| `ScopeRepair` | rows with origin, stamp, paths, quarantine; the store's hash; the marker | `StartRepair` (reads all rows), `RepairRow`, `LeaveRepair`; `AdoptMarker`, `Quarantine` |
| `MaintenanceTimer` | definition files, what is loaded, whether the job runs; systemd or launchd | `StartInstall`, `WriteDefinitions`, `RunBootout`, `RunCommand`, `RollBack`, `Restore`, `Throw`; `StartUninstall`, `Unlink`, `ReloadLast`; `Die` |
| `Retrieval` | documents with project, session, gone, quarantined; candidates and results of a stage | `Search`, `Filter`, `Enrich`; `DocChanges` |
| `Importer` | the transcript, the events it became, the buffer and the open turn | `StartImport`, `ReadPrompt`, `ReadTrivial`, `ReadText`, `FailFlush`, `EndImport`; `Speak`, `DieImporting` |
| `Lessons` | sessions as sources, the cached verdicts, lessons by name; per call the groups it has read and the candidates found | `FindCandidates`, `ReadCache`, `SkipGroup` or `AskLlm`, `LlmAnswers`, `EndListing`; `PromoteCandidate` or `SaveCurated`, `ValidateSources`, `LookUpName`, `SaveLesson`; `EndSession`, `HideSession`, `DeleteSession` |
| `Perspectives` | the live and deleted observations of a pair of actors, their pending, claimed and done jobs, vectors; the card; per consolidation its sources, what it is still to derive, its count and the card it has read | `Observe`, `DeleteObservation`; `TakeObservation`, `IndexObservation`, `CleanObservations`; `ConsolidatePair`, `DeriveNext`, `ReadCard`, `UpsertCard`, `PersFail`; `OpenCard`, `SaveCard` |

`MCServices` composes them with `EventStore` for one run. They share no state
that matters to their properties (the event log they write to is `EventStore`'s
subject), so a behaviour of the run has a `focus` and runs one of them. What
services promise together is stated in `ServiceProps`, which the run and the
proofs share: pairs whose rows belong together, and the types of those with a
type invariant, which `ServicesSpec` lets run side by side.

## 3. The runs

Twelve runs: seven that hold and five that show a disagreement (section 7).

| run | instance | states | checks |
|---|---|---|---|
| `outbox_timely` | 2 items, 2 workers, batch of 2, 2 retries, 2 faults | 380,628 (symmetry) | `OneHolder` `IndexIsSound` `FailedIsExhausted` `SettledIsFinal` `ImplementsJobs` |
| `outbox_live` | 2 items, 1 worker, batch of 1, 3 faults | 192,612 | `JobsSettle` |
| `embedding` | 2 events, 2 processes (one imports), page of 1, 1 fault | 84,622 | `TypeOK` `NothingForgotten` `MetaNamesModel` `RowsSettleOnce` |
| `writers` | import, maintenance, graduation; and process, summary, mongo; 3 crashes | 13,949 | `LockIsSound` `ImplementsStore` `ClosedIsQuiet` `ExitsAfterRelease` `LockIsLive` |
| `services` | `EventStore` (2 processes, 3 ids of 2 contents) and the twenty services | 617,045 (symmetry) | 21 properties, listed below |
| `mongo` | 2 machines, one worker each, 3 events with 2 contents, batch of 2, 1 fault | 270,938 | `PositionsHold` `ImplementsReplication` `Converges` |
| `mongo_reimport` | the same with deletes, and a pull-only worker, no fault | 222,609 | `NothingTwice` |
| `writers_process` | process and import | violation | `OneWriter` |
| `events_race_delete` | `EventStore` with overlapping calls | violation | `DeletedCanReturn` |
| `mongo_gap` | pulls during pushes, batch of 1 | violation | `PulledUpTo` |
| `mongo_rowids` | deletes | violation | `PushedUpTo` |
| `daemon_retry` | `SemanticDaemon` | violation | `RetryMeetsNewBuild` |

A property that a run checks is often a conjunction of parts, each defined and
commented where it belongs:

| property | parts |
|---|---|
| `IndexIsSound` | `UniqueVectors`, `DoneIsIndexed` |
| `RowsSettleOnce` | `RowsSettle` (liveness), `GivenUpIsFinal` |
| `LockIsSound` | `Exclusive`, `KeepsLiveLock`, `BusyMeansHeld` |
| `LockIsLive` (liveness) | `LockComesBack`, `StaleIsRecovered` |
| `NothingTwice` | `SeqsUnique`, `OneRowPerKey` |
| `LogIsSound` | `OneEventPerKey`, `EventsAreKnown`, `ImportsNeverFail` |
| `CallsRepeat` | `DeletedReturns`, `RepeatIsNoError`, `SuccessIsStored`, `ImplementsContents` |
| `PositionsHold` | `PushedUpTo`, `PulledUpTo` |
| `LevelsAreFair` | `LevelIsEarned`, `LevelNeverFalls`, `OneLevelPerRun` |
| `WorkIsTracked` | `TasksFollowLog` (`StatusIsLogged`, `OneTaskPerTitle`, `EdgesFollowLog`), `ActionsFollowTasks` |
| `SharedStoresAgree` | `VectorsLeadToRows`, `SharedIsSearchable` |
| `HistoryIsKept` | `OneActiveVersion`, `PastIsKept` |
| `IndexIsClean` | `HealedIsClean`, `NoStaleText` |
| `ScopeIsKept` | `RowsAreSorted` (`OwnRowsStay`, `ForeignRowsGo`), `ResultsAreOurs` (`StrictIsOurs`, `MatchHasMemory`) |
| `ImportIsFaithful` | `ImportedIsWhole`, `ForcedIsExact` |
| `LessonsAreReviewed` | `ReviewedIsStored`, `CitesSharedOnly` |
| `ObservationsHold` | `LiveIsFound`, `NothingLeftOut`, `DerivedFromLive`, `MaintenanceAddsOnly` |
| `SuiteTypeOK` | the type invariants of `EventStore` and the services that have one |

`PROJECT.json`, `mutants`, has a mistaken variant for each part that could go
wrong alone. The type invariants of `VectorOutbox`, `VectorWriters` and
`MongoSync` are proved (section 6) and not run.

The properties of `services`, module by module, by their parts; (o) marks those
that hold with overlapping calls too:

| module | parts | what is shown |
|---|---|---|
| `EventStore` | `TypeOK`, `OneEventPerKey` (o), `EventsAreKnown` (o), `ImportsNeverFail` (o), `DeletedReturns`, `RepeatIsNoError`, `SuccessIsStored`, `ImplementsContents` (o in part) | content is stored once, every event has its rows, no leftover row makes an import throw; appending is idempotent and what is deleted can be stored again; calls are atomic on contents |
| `Leases` | `LeaseTypeOK`, `OneActiveLease` | an expired lease is not renewed over its successor |
| `Graduation` | `GradTypeOK`, `LevelIsEarned` (o), `LevelNeverFalls`, `OneLevelPerRun` | a level is backed by evidence however stale the metrics; no worker lowers one or raises one twice in a run |
| `Tasks` | `StatusIsLogged` (o), `OneTaskPerTitle`, `EdgesFollowLog` | the log explains status and edges, through deaths at each statement, replay and rebuild |
| `AnalyticsSync` | `SyncTypeOK`, `PositionIsCovered` | nothing up to the position is missing in DuckDB, through failures, deaths and runs that overlap after a stop |
| `Promotion` | `ShareTypeOK`, `VectorsLeadToRows`, `SharedIsSearchable` (o) | a vector leads to a row; a row without a vector is one whose promotion broke off |
| `EdgeHistory` | `EdgeTypeOK`, `OneActiveVersion`, `PastIsKept` | `selectAsOf()` gives for every past time the weight that was recorded then, several versions in one millisecond included |
| `SemanticDaemon`, `AutoGraduation` | `DaemonTypeOK`, `OneDaemon`, `OnePassPerProject` | however many hooks spawn one, one daemon is behind the path; passes do not pile up |
| `SessionRegistry` | `RegistryIsIntended` | a save that dies anywhere leaves the registry whole |
| `Summaries` | `OneSummary` (LLM: o) | the lock makes up for the check that is an LLM call older than the insert |
| `Consolidation` | `OneMemoryPerEvent` | groups that share events make disjoint memories, over runs that fail anywhere |
| `Turns` | `TurnsAreApart` | an observation or answer is never under another turn that ended properly |
| `VectorRepairs` | `HealedIsClean`, `NoStaleText` | after the flag no tool observation has a vector or a job; after a redaction no vector or row holds the old text |
| `Actions` | `ActionsFollowTasks` | a projection repairs what one that died left |
| `ScopeRepair` | `OwnRowsStay` (o), `ForeignRowsGo` (o) | rows of the project are not quarantined whatever the age of their stamp; what reads return is the project's |
| `MaintenanceTimer` | `TimerRunsItsFiles` | a rolled-back installation leaves the job running what its files say |
| `Retrieval` | `StrictIsOurs` (o), `MatchHasMemory` | the stage that drops the scope keeps the project; a confident match comes with a memory |
| `Importer` | `ImporterTypeOK`, `ImportedIsWhole`, `ForcedIsExact` | an import makes up for those that died; a forced one leaves exactly one answer per run of texts, under its turn |
| `Lessons` | `ReviewedIsStored` (o in part), `CitesSharedOnly` | the cache makes a promotion store the text that was listed, made of the sources it cites; the second look at the sources makes up for what changed while the LLM wrote |
| `Perspectives` | `LiveIsFound`, `NothingLeftOut` (o), `DerivedFromLive` (o), `MaintenanceAddsOnly` (o in part) | only a deletion before its job's turn keeps a live observation out of the index; a pass stops at its budget and not before; it adds to a card within its size |

The others:

- **outbox_timely**: claims exclude each other whatever fails in between; a
  repeated upsert leaves one vector; a job is done only when its event is in the
  index; a settled job stays settled; and all of this is the contract of
  `VectorJobs`.
- **outbox_live**: every queued job is settled in the end, although workers
  fail, are stopped in the middle of a batch and crash.
- **embedding**: no interleaving of a migration with appends, batches in flight,
  retries, recoveries and one crash leaves an event that neither has a vector
  nor a row, nor a vector of a model that `embedding-meta.json` does not name;
  rows are embedded, dropped or given up in the end.
- **writers**: the discipline *lock, build, work, shut down, release* keeps one
  writer per store and makes the store exclusive for those who keep it, even
  beside commands that do not; shutdown never closes stores under a batch,
  whatever the command; holders give the lock back; a lock is only ever busy
  because of a live holder, and a file left by a crash at any file-system call
  is recovered.
- **mongo**, **mongo_reimport**: neither position runs ahead of what was copied,
  through partial bulk writes, failures and retries, so that all of this is a
  shared log with sets of what is done; contents reach every machine; two
  machines with one content do not duplicate it.

### Bounds

Names of bounds: `MaxFaults`, `MaxCrashes`, `AgeCap`, `MaxRows`, `MaxLeases`,
`MaxAccess`, `MaxTasks`, `MaxLog`, `MaxShared`, `MaxVersions`, `MaxClock`,
`MaxBuild`, `MaxPasses`, `MaxEvents`, `MaxWorking`, `MaxMemories`, `MaxTurns`,
`MaxInstalls`, `MaxEntries`, `MaxImports`, `MaxTexts`, `MaxSourceMoves`,
`MaxPersMoves`, `Deletable`, `Failing`, and the sizes of the constant sets.

Two workers are enough for each race in the outboxes (a claim and a recovery, a
read and a late write), two items for a batch that fails in part;
`MaxRetries = 2` has a counted failure that is retried and one that is not.
Ages beyond `CleanupAge` look alike, so `AgeCap` loses nothing. Two faults let
a batch fail twice, or fail once and its worker die. `outbox_live` and `embedding` have
no symmetry, since it is not sound for liveness. In `embedding` a page of one
row makes the migration read a second page and an empty third, `MaxRetries = 1`
(three in the code) lets a row be retried and given up, and one fault, a stop, a
crash or a deletion, is what separates the writes of a migration or takes an
event from under it (failed batches are not bounded; two faults hold as well, on
452,679 states). For the lock, three processes let one hold
it, one find it busy and one recover what a crashed run of a command left
behind; three crashes can hit an acquire, a recovery and a release in one
behaviour. `mongo` has a batch of two, so that a bulk write can stop half-way,
and three events, so that there is a second batch; one content is known under
two ids, as when two machines have imported the same transcript. Ids are never
used twice, so the set of ids bounds appends. The machines of `mongo` are
alike, so that only one of its workers fails (`Failing`).

In `services` each behaviour runs one of the modules, with calls that overlap
or that do not. Overlapping calls are bounded more, since they have by far the
most states (`MCServices`, `SuiteInit` and `SuiteNext`): memories are used twice
in all in `Graduation`, whose invariants are also proved; `Tasks` stops at the
first event projected, the projector's part having no property with overlap;
`Retrieval` is strict, the only scope that has one; the rows of `ScopeRepair`
have a path; and where no property speaks of overlap, it is left out. Two
processes make every race of a look and a write; three leases
give a successor's successor; three levels have a promotion after a promotion;
`MaxLog` is six events without overlap and three with, which covers a task that
is made, blocked, done and projected; three events and a batch of two give
`AnalyticsSync` a second batch; four versions in three milliseconds make two of
one time; three daemons and two builds let a daemon be replaced twice (its
starts do not overlap); the
registry's cap of two is exceeded by a third session; three events under two
topics overlap in one; three turns have one interrupted between two that end;
three installations have a first one, one over a running job and one that
fails; a transcript of four entries has two prompts and answers of two texts,
and two imports are a partial one and the one that makes up for it; a group of
three sessions, of which two make a candidate, can grow and shrink between a
listing and a promotion, and a second text can be told from the first; three
moves observe, delete and bring back an observation, or let a consolidation
follow a deletion, and two observations that conflict give four to derive, one
more than the budget of a process alone.

### Fairness

- `VectorOutbox!Fairness`: a running worker's batch continues (its promise is
  not abandoned), an exited worker is started again (each hook-triggered daemon
  request, server start or CLI command builds a service that starts one), stuck
  rows are recovered (`process`, `mongo-sync` and maintenance call
  `recoverStuckOutboxItems`), and time passes. No fairness on faults.
- `EmbeddingOutbox!Fairness`: the same for the V1 worker's next step, the next
  step of a command that has begun an append or a migration, and recovery.
  Nothing forces an import, an append, a failure, a stop or a crash.
- `VectorWriters!WritersFairSpec`: a command's next step happens; in particular
  its work ends (the bounded loops of import and processing) even though its
  pollers may find another batch again and again. Starting a batch, exiting in
  `catch` and crashing are not fair.
- `MongoSync!FairSpec`: every worker syncs again and again (`--watch` with its
  interval), and each call it makes returns or throws. Failures are bounded.

The services are checked for safety only.

## 4. Assumptions of the outbox, the lock, the log and the replication

The code does not enforce everything these runs assume. Each assumption is a
constant, or the premise `~overlap` of a property; setting it otherwise
reproduces the following.

- **`Timely`** (outbox): a live worker finishes its batch before its rows count
  as stuck. Recovery looks at age alone and no heartbeat refreshes
  `updated_at`, so with `Timely = FALSE` TLC finds a second worker that claims a
  job the first still has (`OneHolder`, 8 steps), two vector rows for one item
  (`UniqueVectors`, 14 steps), a done job with no vector (`DoneIsIndexed`) and a
  done job reopened by a late `markFailed` (`SettledIsFinal`). The comment at
  `core/sqlite-event-store.ts:1848` says "Recovery is deliberately age-gated so
  an active worker is not disturbed"; that is right for workers faster than the
  threshold. `FailedIsExhausted` holds without the assumption, and is proved
  without it.
- **`ReimportDeleted`** (outbox): an event deleted from the log is not brought
  back under its old id. With `TRUE`, an import between a worker's `Build`, which
  finds the event gone, and its `MarkDone` leaves the event with a done job and
  no vector (`DoneIsIndexed`, 7 steps). `Enqueue` then does nothing, because the
  row is there.
- **`Overlap`** (lock): `acquire()` calls of different processes do not overlap.
  They can, and then the check-then-unlink of stale files is not exclusive:
  with `TRUE` TLC finds two holders without any crash (`Exclusive`, 9 steps) -
  one process reads the file the other has just created and not yet filled,
  takes it for stale and unlinks it - and a live lock removed (`KeepsLiveLock`).
  `ImplementsStore` needs the assumption too; `BusyMeansHeld` and
  `ExitsAfterRelease` do not.
- **`~overlap`** (event store): no other process runs inside an `append()` or
  `deleteSessionEvents()`. Without it the second of two concurrent appends of
  one content returns `success: false` (`RepeatIsNoError`), and an append may
  report a duplicate of an event that a delete removes meanwhile
  (`SuccessIsStored`). `LogIsConsistent` needs no such assumption.
- **`Overlap`**, **`Deletes`** (Mongo): no pull runs while another worker is
  between reserving numbers and writing the documents; sessions are not deleted.
  Runs `mongo_gap` and `mongo_rowids` show what each hides. `ImplementsReplication`
  needs both, since a gap or a rowid used again is an event that appears behind a
  position. `SeqsUnique` and `OneRowPerKey` need neither.
- **Kinds** (writers): `ImplementsStore` is about commands that take the lock
  and release it last. `writers_process` shows `process`. With
  `Teams <- ImportAndSummary` the session summary writes beside an import
  (`OneWriter`, 8 steps), having locked `summary-worker.lock`.
  `ExitsAfterRelease` leaves out a process that ends in the `catch` of `process`:
  `process.exit(1)` there skips the `finally` that releases, against
  `src/specs/vector-writer-concurrency/spec.md:30-31`. MCP handlers and several
  CLI commands build a service, and so pollers, with no lock at all; they behave
  like the summary.
- **`Starts`**, **`Timely`**, **`ModelOf`** (embedding): the store begins with
  vectors of an old model that `embedding-meta.json` names, and the processes are
  configured with one model. A store without the file (`Starts = {"new"}`) does
  not survive a crash of its migration: the vectors are gone, so the next start
  finds neither model nor vectors, takes the branch "no migration needed"
  (`core/engine/embedding-maintenance-service.ts:90-96`), and events that were
  not re-enqueued are forgotten (`NothingForgotten`; it holds with
  `MaxFaults = 0`). Two importers at once (`Overlap = TRUE`) do the same through
  pages read by offset while the other appends, and two processes with two
  models and a crash leave events out as well. `Timely = FALSE` changes nothing.

Modelling choices that reach further than a constant:

- SQLite transactions and single statements are atomic; lock timeouts
  (`SQLITE_BUSY`) are the failures of the model (`BuildError`, `MarkDoneError`,
  `BatchFails`, `Fail`, ...).
- A bulk write that has failed for the client does not go on at the server
  afterwards.
- A new process has a pid that the lock file does not name; a dead pid stays
  dead.
- `MongoSync` reads every row; a quarantined event is not in that model.

## 5. Assumptions of the services, and what else was seen

Where a property of section 3 is not marked (o), overlapping calls break it. For
the modules without a version of the property under overlap, this is what
happens then, and what else the modelling showed that no property states:

- **Embedding**: `failOutboxItems` gives a row up at three retries while recovery
  retries rows with fewer than three, so the count `retriedFailed` of the V1
  outbox is always zero. `clearAll()` drops the table `conversations` only: the
  V2 vectors in `event_vectors_<version>` keep the old model
  (`core/vector-store.ts:346-357`).
- **DuckDB sync**: the position is compared strictly, so events of equal
  timestamps split by a batch, or stored out of order, are never copied (the
  premise `inOrder`). The position read before the loop is not advanced in it
  (`core/sync-worker.ts:117-124`): a full batch is read again and again and the
  run does not end. No command of the application starts this worker.
- **Graduation**: candidates are limited by access count, so events that are
  used much and never eligible keep others out of a run. Overlapping workers can
  write a level back that another has raised.
- **Tasks**: a second change from one status to another in one session has the
  dedupe key of the first, so the log lacks it; `rebuild()` deletes
  `resolves_to` edges that no event makes again; two events of one millisecond
  are ordered by random ids, and the projector can pass one; a death between the
  deletes of `rebuild()` loses edges (`torn`).
- **Edge history**: two processes that record at once leave two active versions.
- **Shared store**: a promotion that stops between the row and the vector is
  never repaired, since `exists()` skips the entry (`dropped`); two processes
  that promote at once leave a vector that leads to no row.
- **Daemon**: two daemons that start at once can remove each other's socket; the
  one without a path lives until its idle timer ends it. After `shutdown()` has
  cleared the scheduler's map, a request that is still served can start a second
  pass.
- **Registry**: two hooks that save at once lose a registration, or rename a
  half-written file into place, although `core/registry/session-registry.ts:78`
  says "without disturbing other registrations".
- **Consolidation**: `Prune` drops every event of groups of three from the
  working set, consolidated or not; a crash between a memory and its promotion
  leaves it without a rule; the cleanup compares an ISO string with SQLite's
  `datetime('now')`, so rows of the same day are not found expired.
- **Turns**: after an interrupt no stop hook runs, and the answers of that turn
  are stored under the next one; a stop hook that overlaps the next prompt
  removes its file (`adapters/claude/hooks/stop.ts:88`).
- **Repairs**: the redaction drops the vectors of both tables and re-enqueues in
  `embedding_outbox` only, so `event_vectors` never gets the new text, although
  `core/operations/credential-redaction.ts:16-18` says it is requeued; a redaction
  that dies after rewriting finds nothing to do the next time (`lapsed`); a
  failed delete of a vector is swallowed (`apps/cli/index.ts:1689`). The
  migration's re-enqueueing brings tool observations back that
  `core/engine/memory-ingest-service.ts:347-352` keeps out.
- **Actions**: a status set by `mem-action-update` is overwritten by the next
  projection; a death between an update and its audit row leaves a change without
  one. No command of the application calls the projector.
- **Scope repair**: the transaction writes back metadata read before
  (`core/sqlite-event-store.ts:2155`), which a quarantine made meanwhile by
  another process would not survive; nothing releases a quarantine.
- **Timer**: an installation that fails over a stopped timer restarts it.
- **Retrieval**: the third stage drops the caller's session scope on purpose; in
  global mode a confident match may come without memories, when vectors outlive
  their events.
- **Importer**: text before the first prompt is merged into the first answer
  (the premise `BeginsWell`); a flush that fails while a prompt is read drops the
  prompt and keeps the buffer; importing a transcript again after it grew leaves
  the partial answer beside the full one (only a forced import is exact).
- **Lessons**: of two listings at once, the later answer of the LLM replaces the
  cached one, so a reviewer of the first promotes a text that was never read,
  although `core/operations/lesson-extraction-cache.ts:6-10` says the cache keeps
  them identical; a listing uses sessions whose text the privacy filter has
  redacted, and the promotion then refuses them; a promotion overwrites a curated
  lesson of the same name. No command of the application promotes a candidate.
- **Perspectives**: an observation deleted before its job's turn has a done job
  and, once it is brought back, no vector (`passedOver`); `cleanup()` would let it
  be enqueued again, but nothing calls it. A deduction that somebody deleted comes
  back with the next consolidation. The budget of a consolidation counts
  observations that were already there: with as many sources as the default
  budget of five, every run makes deductions of the first five only, and neither
  an induction nor a contradiction. An edit of a card during a
  consolidation is lost. The application constructs no consolidator; the deriver
  and the MCP calls are in use.

## 6. The proofs

TLAPS proves these for every value of the constants - any number of items,
workers, machines, processes, levels, retries, failures - under the assumptions
named in the modules (finite sets of ids, positive batch and retry limits,
thresholds in order).

| theorem | states | under |
|---|---|---|
| `VectorOutboxProofs!TypeCorrect` | `TypeOK` | - |
| `VectorOutboxProofs!FailedJobsAreExhausted` | `FailedIsExhausted` | - |
| `VectorOutboxProofs!ClaimsAreExclusive` | `OneHolder`, `IndexIsSound` | `Timely`, `~ReimportDeleted` |
| `VectorOutboxProofs!SettledJobsAreFinal` | `SettledIsFinal` | `Timely`, `~ReimportDeleted` |
| `VectorOutboxProofs!OutboxImplementsJobs` | `ImplementsJobs` (a refinement) | `Timely`, `~ReimportDeleted` |
| `VectorWritersProofs!LockIsExclusive` | `Exclusive` | `~Overlap` |
| `VectorWritersProofs!LiveLockIsKept` | `KeepsLiveLock` | `~Overlap` |
| `VectorWritersProofs!WritersShareTheLock` | `LockIsSound` in the composition | `~Overlap` |
| `VectorWritersProofs!WritersCloseQuietly` | `TypeOK`, `ClosedIsQuiet` | - |
| `VectorWritersProofs!WritersExitClean` | `ExitsAfterRelease` | - |
| `VectorWritersProofs!BusyIsHonest` | `BusyMeansHeld` | - |
| `VectorWritersProofs!WritersImplementStore` | `ImplementsStore` (a refinement), `OneOrderedWriter` | `~Overlap` |
| `EventStoreProofs!LogIsConsistent` | `TypeOK`, `LogIsSound` | - |
| `EventStoreProofs!SerialLogIsIdempotent` | `DeletedReturns`, `RepeatIsNoError`, `SuccessIsStored` | - |
| `EventStoreProofs!StoreImplementsContents` | `ImplementsContents` (a refinement) | - |
| `EventStoreProofs!CallsCanBeRepeated` | `CallsRepeat`, the two together | - |
| `EventStoreProofs!ImportsAreFaithful` | `ImportIsFaithful` | - |
| `EventStoreProofs!ImportsHaveTypes` | `ImporterTypeOK` | - |
| `MongoSyncProofs!TypeCorrect` | `TypeOK` | - |
| `MongoSyncProofs!PushLosesNothing` | `PushedUpTo` | `~Deletes` |
| `MongoSyncProofs!PullLosesNothing` | `PulledUpTo` | `~Deletes`, `~Overlap` |
| `MongoSyncProofs!PositionsAreSound` | `PositionsHold` | `~Deletes`, `~Overlap` |
| `MongoSyncProofs!NumbersAreUnique` | `SeqsUnique` | - |
| `MongoSyncProofs!KeysAreUnique` | `OneRowPerKey` | - |
| `MongoSyncProofs!NothingIsTwice` | `NothingTwice` | - |
| `MongoSyncProofs!SyncImplementsReplication` | `ImplementsReplication` (a refinement) | `~Deletes`, `~Overlap` |
| `MongoSyncProofs!CaughtUpMachinesAgree` | `CaughtUpAgree` | `~Deletes`, `~Overlap` |
| `CoordinationProofs!LeasesHaveTypes`, `LeasesAreExclusive` | `LeaseTypeOK`, `OneActiveLease` | - |
| `RecordsProofs!LevelsAreEarned` | `GradTypeOK`, `LevelIsEarned` | - |
| `RecordsProofs!LevelsRise` | `LevelNeverFalls`, `OneLevelPerRun` | - |
| `RecordsProofs!GraduationIsFair` | `LevelsAreFair` | - |
| `RecordsProofs!EdgesHaveOneVersion`, `HistoryStays` | `EdgeTypeOK`, `HistoryIsKept` | - |
| `RecordsProofs!LessonsAreAsReviewed` | `LessonsAreReviewed` | - |
| `RecordsProofs!ObservationsAreKept` | `ObservationsHold` | - |
| `CoordinationProofs!SessionsHaveOneSummary` | `OneSummary` | - |
| `CoordinationProofs!PassesDoNotOverlap` | `OnePassPerProject` | - |
| `CoordinationProofs!OneDaemonListens` | `DaemonTypeOK`, `OneDaemon` | - |
| `CoordinationProofs!TurnsStayApart` | `TurnsAreApart` | - |
| `CoordinationProofs!TimerIsRolledBack` | `TimerRunsItsFiles` | - |
| `CoordinationProofs!RegistryStays` | `RegistryIsIntended` | - |
| `CoordinationProofs!ServicesHaveTypes` | `SuiteTypeOK` of `ServicesSpec` | - |
| `DerivedProofs!PositionsAreCovered` | `SyncTypeOK`, `PositionIsCovered` | - |
| `DerivedProofs!SharedStoresMatch` | `ShareTypeOK`, `SharedStoresAgree` | - |
| `DerivedProofs!MemoriesAreDisjoint` | `OneMemoryPerEvent` | - |
| `DerivedProofs!RowsGetSorted`, `ResultsBelong`, `ScopeStaysKept` | `ScopeIsKept` and its two halves | - |
| `DerivedProofs!RepairsCleanUp` | `IndexIsClean` | - |
| `DerivedProofs!TasksAreInTheLog`, `ActionsAreTheirTasks`, `WorkStaysTracked` | `WorkIsTracked` and its two halves | - |
| `EmbeddingProofs!EmbeddingTypes` | `TypeOK` | - |
| `EmbeddingProofs!VectorsAreOfTheModel` | `MetaNamesModel` | `OneModel` |
| `EmbeddingProofs!MigrationsForgetNothing` | `NothingForgotten` | `OneModel`, `~Overlap`, `Starts = {"indexed"}` |
| `EmbeddingProofs!RowsStayGivenUp` | `GivenUpIsFinal` | - |

A dash stands for no assumption beyond those of the modules. Where a property
has `~overlap` or another premise of its own (section 3 marks the parts that have
none), the theorem is about what the premise allows, and section 5 says what
happens otherwise. `OneModel` says that all processes are configured with one
embedding model.

The arguments:

- **`RetryInv`**: `FailedIsExhausted` is not inductive because the verdict is
  computed from a count read earlier. The invariant adds that this count is never
  above the row's and that a held row exists, so a verdict of *failed* always
  finds at least `MaxRetries` failures once it has added its own.
- **`ClaimInv`**: a held row is `processing`, no older than the threshold, and
  held by one worker; `UniqueVectors` and `DoneIsIndexed` then follow from what
  the holder has done: between delete and add its items have no vector, after
  the add exactly one. The proof works on a pointwise form (`PointInv`), shown
  equivalent, so that each step touches one worker and one item.
- **`FailingInv`**, for the refinement: a worker records one failure at a time,
  and the count it has read is still the row's. `RetryInv`'s bound is not enough
  here, since `VectorJobs` decides between a retry and giving up by the count
  itself. With `ClaimInv` every step is then a step of one job (`SameJob`,
  `OnePhase`) or leaves all as they are (`BatchStutters`): a claim, a build, an
  upsert and a recovery are stutters, a `MarkDone` is *indexed* or *dropped*, a
  `FailWrite` is *retry* or *give up*.
- **`LockInv`**: one process at a time is in `acquire()`; the file a process
  has just created is empty and its own; a holder's pid is in the file; a file
  is judged stale only while nobody holds the lock.
- **`ServiceInv`** needs no lock: a batch is in flight only while the service is
  open or waits for it. **`OrderInv`** is about one process: a command that keeps
  the order holds the lock whenever its service may write, whoever runs beside it.
  With `LockInv` it gives the refinement: `OwnerMoves` has the owner change only by
  a step of the holder, or of the process that takes a lock nobody holds.
- **`NamedInv`**: a live process that the file names is one that has the lock;
  those that wait for it, or have given it back, are not named. So `BusyMeansHeld`
  and `ExitsAfterRelease` hold however `acquire()` calls overlap.
- **`LogInv`**: dedup and level rows belong to each other even where the event
  is gone (`RowsAgree`), which makes a leftover level row unreachable for
  `importEvents()`; a delete only holds ids of its own session. `InsertKeepsTables`
  serves both `append()` and `importEvents()`.
- **`SerialInv`**: what a process read is still true while it is alone.
  `SerialLeases`, `SerialGrad` and `EdgesAreCalm` say the same of what a renewal,
  a run and a record have read: the lease is the active one of its target, the
  candidates are at their level or gone and what was raised is in its cooldown,
  the version to supersede is the last. Each is the part of its invariant under
  `~overlap`.
- **`EarnedInv`**: the metrics a worker acts on are never above the uses of the
  memory, however old they are, so a level they earned stays earned. This is why
  `LevelIsEarned` needs no premise about overlap.
- **`SumInv`**: with the LLM, only the keeper of the lock is between the check
  and the insert.
- **`SchedulerInv`**: until the map is cleared, the timers and passes there are
  are those of the states, and no state has both.
- **`PushInv`**: every event up to what a worker has passed is a document, or
  in the worker's batch; and every position lies within the log (`Reached`), so
  that new events get higher rowids. The second part is what deletes break.
- **`CallsHold`**, for the refinement of the event store: what a process is
  appending is what it was asked, so that `ContentStep` finds the abstract call
  of each transaction; `LogInv` gives that a new event has a new content, and
  `SerialInv` that alone a look in `event_dedup` is right about the events.
- **`ReplicationInv`**: the invariants of pushing and pulling and the numbers,
  and `PushesOwn`, that what a worker is about to write are events of its
  machine. `PushedFrame` and `ImportRows` have the point of the refinement: new
  rows get rowids beyond the push position, and no document gets a number that a
  pull has passed. **`CaughtUpAgree`** is what the two positions say together
  when they have reached the ends of their logs: nothing is left that could
  differ. That they get there is `Converges`, with TLC.
- **`PullInv`**: reserved and unwritten numbers lie beyond every pull position
  and every pull in progress. That is what overlapping pulls break.
- **`NumberInv`**: numbers that two workers have reserved and not yet written
  are different from each other and from those of the documents, and none is
  above the counter.
- **The lock under the commands**: two steps of the commands are none of the
  lock's own, a summary that starts without it and an exit in a `catch`; both
  keep `LockInv`, the second because it leaves the file as a crash does.
- **Embedding, the models** (`ModelInv`): after `ClearVectors` a migration has
  left no vector of another model, and with one model nobody adds one. This
  holds without excluding overlapping migrations.
- **Embedding, nothing forgotten**: `NamesAgree` says that a row id means one
  event wherever it is still known, as a row, in a batch or in a vector, because
  ids are not used twice; so the vector a batch has written stands for the row it
  completes (`UpsertedInv`). `TaskInv` has one migration at a time, begun from a
  file that names another model. `CoverInv` splits on whether the file names the
  model: if it does, or a migration has emptied both tables, an event is indexed,
  queued, awaited, or beyond what the migration has read; what it has read is all
  but the last ranks, since new events only come after (`PageAt`), so that a page
  that is not full is the last.
- **Embedding, given up** (`ExhaustedInv`): a failed row has used up its retries,
  which is why recovery finds nothing to retry, and no id beyond the last insert
  has a row.
- **`SyncInv`**: the position, and what every run has read of it, lie within the
  log and are covered; a batch in flight is an interval of the log from where
  its run began. So a run that saves an older position than another is harmless.
- **`ShareInv`, `SerialCons`, `RetrievalInv`, `ScopeInv`, `SerialRepairs`,
  `SerialActs`**: what a call has read and will act on later is tied to the rows
  as they are. A repair's verdict on a row is right whenever it is reached,
  because only sorting changes a row (`ScopeInv`); a redaction has still to see to
  the vectors and rows of its targets, at each of its steps (`SerialRepairs`).
- **Tasks**: `TaskInv` ties a move that is about to be written to its event, and
  needs no premise. `SerialTasks` adds that alone, a call's own events are the
  only ones younger than its title. `SerialEdges` is about the event after the
  projector's offset: it is untouched, half projected (its edges deleted) or
  projected, and what calls emit lies beyond it. The edges of the log up to n + 1
  follow from those up to n by one application (`EdgesUpTo` is defined on
  prefixes, no fold), and applying an event twice adds nothing.
- **`PastInv`**: versions follow each other without gap or overlap, so at every
  past time one is valid, with the weight of `truth`; a serial call writes at the
  time at which it looked.
- **`MadeInv`, `ReviewInv`**: cached verdicts, candidates and drafts name the
  sources of their text; alone, the cache holds what was offered, so that a
  promotion finds the text that was read or none.
- **`PersInv`, `SerialPers`**: what a consolidation has still to derive is the
  rest of what is derivable after as many as it has counted; alone, its sources
  and what it has derived are live, and the card is the one it has read. The size
  of a card is bounded by counting: the last entry accepted had room after all the
  others.
- **`TurnInv`, `TimerInv`, `RegInv`, `SerialDaemons`**: a state file that no Stop
  hook has read is not of a turn that has ended; before each command of the
  service manager, the job runs as the last successful one left it; a call about
  to save holds the registry it has read, changed as it was told, in a file that
  is not the registry; while a daemon takes or gives up the path nobody else
  listens.
- **`WholeInv`, `ExactInv`**: an import that has read up to z has stored all of it
  but the texts it collects (`ReadTo`), and a forced one nothing else.

Model-checked only:

- the liveness properties `JobsSettle`, `RowsSettle`, `LockIsLive` and `Converges`,
  as TLAPS has no means for fairness. What can be said of them without it is
  proved: `BusyIsHonest` for the recovery of a lock file, `CaughtUpMachinesAgree`
  for the convergence of machines, `RowsStayGivenUp` for rows.

Every other property of a passing run is stated by a theorem.

## 7. Disagreements found

- **`mongo_gap`** (`core/mongo-sync-worker.ts:287`): numbers are reserved before
  the documents are written. A pull in between finds a later number, saves it as
  its position, and never sees the earlier document.
- **`mongo_rowids`** (`core/sqlite-event-store.ts:1518`): the comment there calls
  rowids monotonic for append-only tables, but `deleteSessionEvents()` makes the
  table not append-only, and without AUTOINCREMENT SQLite reuses the highest
  rowids: reimported events can lie at or before the push position for ever.
- **`events_race_delete`** (`core/sqlite-event-store.ts:4158`): an event stored
  between the SELECT and the transaction of a delete loses its row but keeps its
  dedup row; its content counts as a duplicate from then on.
- **`writers_process`** (`apps/cli/index.ts:1553`): `process` and the Mongo
  post-processing release the lock before they stop their pollers and wait for
  the batch, so the next command writes at the same time, against
  `src/specs/vector-writer-concurrency/spec.md:46-47`.
- **`daemon_retry`** (`adapters/claude/hooks/semantic-daemon.ts:314`): a daemon
  whose build is stale drops the connection so that "the retry land[s] on a
  daemon running the new build", but it listens until its shutdown has waited
  for graduations and services; the retry meets the same daemon and fails.

## 8. Not modelled

- The content of what a search returns and its ranking, text processing
  (parsing, privacy filters, the text of summaries, lessons), presentation: no
  state that several steps or processes could get wrong.
- SQLite, LanceDB, DuckDB, MongoDB, systemd and launchd themselves: modelled by
  what the code relies on (atomic transactions, atomic commits, per-document
  upserts, what a command of the service manager loads and starts).
- The HTTP server, the dashboard and the MCP handlers: they call the operations
  modelled here. Most of the code by lines is theirs, and the map says nothing of
  it.
- Facets, assets, retention: single transactions with validation, scoring and
  audit rows. Of perspectives: which members of a session observe which others
  (one pair of actors is modelled), queries, and the backfill of memberships.
- The Codex and Hermes importers, replay promotion, the Markdown mirror,
  evaluation and benchmarks; checkpoints and the ranking of the frontier;
  graduation by confidence and age; continuity scores.

## 9. Plan

Done, in this order: `VectorOutbox` with its contract and proofs, `WorkerLock`
and `VectorWriters`, `EventStore`, `MongoSync`; then `EmbeddingOutbox`, the
twenty services, and the proofs of every safety and action property the runs
check, the refinements `ImplementsJobs`, `ImplementsContents`,
`ImplementsReplication` and `ImplementsStore` among them.

Next:

1. A contract for the first pipeline like `VectorJobs`, and the refinement: an
   event is queued until it is embedded, dropped or given up, migrations included.
2. A contract for the log of task events (entities as a function of the log) that
   `Tasks` implements.
3. Quarantined rows in `MongoSync`: the cursor passes them, and an event that is
   released later is never pushed.
4. The Codex importer, whose sessions are split over files.
5. The frontier of actions, with checkpoints.
