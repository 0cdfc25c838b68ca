----------------------------- MODULE MCServices ----------------------------
(***************************************************************************)
(* One run for the services that keep tables or files of their own: each is *)
(* checked alone, `focus' being the one that a behaviour runs.  Processes   *)
(* are alike; no liveness is checked here, so symmetry is sound.            *)
(***************************************************************************)
EXTENDS ServiceProps, AutoGraduation, SessionRegistry, Summaries,
        Consolidation, Turns, VectorRepairs, MaintenanceTimer, Lessons,
        Perspectives, TLC

CONSTANTS p1, p2, e1, e2, i1, i2, j1, ki, kj, t1, a, b, c1, c2, c3, r1,
          r2, x1, x2, d1, d2, d3, h1, h2, k1, s1, s2, s3, g1, g2, g3, u1, u2,
          b1, b2, ready, over

VARIABLE focus

Alike == Permutations({p1, p2})

TwoIdsPerKey == i1 :> ki @@ i2 :> ki @@ j1 :> kj
OneSession == [k \in Keys |-> CHOOSE s \in Sessions : TRUE]

MinAccessDef == 0 :> 1 @@ 1 :> 2
MinRefsDef == 0 :> 0 @@ 1 :> 1

Text(title, s, B) == [title |-> title, status |-> s, blockers |-> B]
ExtractedDef ==
    {Text(a, "blocked", {b}), Text(a, "done", {}), Text(a, "in_progress", {}),
     Text(b, "blocked", {})}
MaxLogDef == FALSE :> 6 @@ TRUE :> 3

Tidy == [origin |-> "alpha", stamp |-> None, paths |-> {}, imported |-> FALSE,
         hint |-> FALSE, quarantine |-> "no"]
Anything == [mode |-> "global", scoped |-> FALSE]
Kept == [project |-> Here, session |-> "s", gone |-> FALSE,
         quarantined |-> FALSE]

OpposedDef == {{s1, s2}}
MaxPersMovesDef == FALSE :> 3 @@ TRUE :> 2

OnePattern == [x \in Origins |-> u1]
MaxSourceMovesDef == FALSE :> 1 @@ TRUE :> 0

TopicsOfDef == g1 :> {u1} @@ g2 :> {u1, u2} @@ g3 :> {u2}

Logging == <<tables, born, locals>>
Leasing == <<lease, granted, leasePc, leaseOf>>
Grading == <<level, uses, gradPc, gradAt, chosen, metrics, cooling, raised>>
Tasking == <<taskStore, taskPc, call, entity, fresh, batch, torn>>
Sharing == <<shared, vectors, sharedIds, sharePc, sharing, shareId, dropped>>
History == <<versions, clock, edgePc, recording, truth>>
Daemon == <<socket, daemonPc, daemonOf, build, hookPc>>
Registry == <<inode, file, regPc, regOp, copy, fd, intended>>
Summing == <<count, summaries, llm, keeper, sumPc, sumOf>>
Consolidating == <<working, memories, rules, consPc, groups, todo, created>>
Turning == <<turn, running, turnFile, stopped, stopPc, stopTurn, transcript,
             answers, observed>>
Repairing == <<tool, text, legacyJob, job, index, healed, repairPc, targets,
               chosenText, lapsed>>
Acting == <<work, action, depends, actPc, actOf, before, wanted, followed>>
Scoping == <<adopted, storeHash, row, scopePc, rowsRead, rowsLeft, swept>>
Retrieving == <<doc, request, stage, hits, results, confident, returned,
                seen>>
Teaching == <<source, moves, texts, verdict, lessons, reviewed, lessonPc,
              promoting, material, ahead, offered, spent, draft, nameTaken>>
Observing == <<obsLive, obsGone, obsQueue, obsClaim, obsDone, obsIndex,
               passedOver, card, budget, persPc, sources, derivable, made,
               cardRead, persMoves>>

(* Bounds of the behaviours with overlap, which have by far the most states: *)
(* in "graduation" the uses below, in "tasks" the first event projected, in *)
(* "retrieval" the strict scope, the one it has a property for.  Without    *)
(* any property are overlapping "turns" and "actions", and a "sync" of      *)
(* events out of order; they are not run.                                   *)
UsesAreFew == uses[e1].access + uses[e2].access <= 2

SuiteInit ==
    /\ focus \in {"log", "leases", "graduation", "tasks", "sync", "promotion",
                  "edges", "daemon", "scheduler", "registry", "summaries",
                  "consolidation", "turns", "repairs", "actions", "scope",
                  "timer", "retrieval", "importer", "lessons",
                  "perspectives"}
    /\ overlap \in BOOLEAN
    /\ focus \in {"sync", "daemon", "scheduler", "registry", "consolidation",
                 "repairs", "actions", "turns", "timer", "importer"}
          => ~overlap
    /\ Init /\ LeaseInit /\ GradInit /\ TaskInit /\ SyncInit
    /\ inOrder
    /\ ShareInit /\ EdgeInit /\ DaemonInit /\ SchedulerInit /\ RegInit
    /\ SumInit
    /\ focus # "summaries" => ~llm
    /\ ConsInit /\ TurnInit /\ RepairInit
    /\ focus # "repairs" => \A e \in Indexed :
                               e \in tool /\ text[e] = "new" /\ job[e] = "done"
    /\ ActInit
    /\ focus # "actions" => \A k \in Work : work[k].status = ready
    /\ ScopeInit
    /\ focus # "scope" => /\ ~adopted /\ storeHash = "alpha"
                          /\ \A e \in Traced : row[e] = Tidy
    /\ TimerInit
    /\ focus = "scope" /\ overlap => \A e \in Traced : row[e].paths # {}
    /\ focus # "timer" => platform = "linux"
    /\ RetrievalInit
    /\ focus = "retrieval" /\ overlap => request.mode = "strict"
    /\ focus # "retrieval" => /\ request = Anything
                              /\ \A e \in Docs : doc[e] = Kept
    /\ ImporterInit
    /\ LessonInit
    /\ focus # "lessons" => \A x \in Origins : source[x] = "none"
    /\ PersInit
    /\ obsLive = IF focus # "perspectives" THEN {}
                 ELSE {Explicit(x) : x \in Grounded}
    /\ budget = IF focus = "perspectives" /\ overlap THEN 4 ELSE 3

SuiteNext ==
    \/ /\ focus = "log" /\ Next
       /\ UNCHANGED <<focus, Leasing, Grading, Tasking, syncVars, Sharing,
                      History, Daemon, schedulerVars, Registry, Summing,
                      Consolidating, Turning, Repairing, Acting, Scoping,
                      timerVars, Retrieving, importVars, Teaching, Observing>>
    \/ /\ focus = "leases" /\ LeaseNext
       /\ UNCHANGED <<focus, Logging, Grading, Tasking, syncVars, Sharing,
                      History, Daemon, schedulerVars, Registry, Summing,
                      Consolidating, Turning, Repairing, Acting, Scoping,
                      timerVars, Retrieving, importVars, Teaching, Observing>>
    \/ /\ focus = "graduation" /\ GradNext /\ (overlap => UsesAreFew')
       /\ UNCHANGED <<focus, Logging, Leasing, Tasking, syncVars, Sharing,
                      History, Daemon, schedulerVars, Registry, Summing,
                      Consolidating, Turning, Repairing, Acting, Scoping,
                      timerVars, Retrieving, importVars, Teaching, Observing>>
    \/ /\ focus = "tasks" /\ TaskNext /\ (overlap => offset = None)
       /\ UNCHANGED <<focus, Logging, Leasing, Grading, syncVars, Sharing,
                      History, Daemon, schedulerVars, Registry, Summing,
                      Consolidating, Turning, Repairing, Acting, Scoping,
                      timerVars, Retrieving, importVars, Teaching, Observing>>
    \/ /\ focus = "sync" /\ SyncNext
       /\ UNCHANGED <<focus, Logging, Leasing, Grading, Tasking, Sharing,
                      History, Daemon, schedulerVars, Registry, Summing,
                      Consolidating, Turning, Repairing, Acting, Scoping,
                      timerVars, Retrieving, importVars, Teaching, Observing,
                      overlap>>
    \/ /\ focus = "promotion" /\ ShareNext
       /\ UNCHANGED <<focus, Logging, Leasing, Grading, Tasking, syncVars,
                      History, Daemon, schedulerVars, Registry, Summing,
                      Consolidating, Turning, Repairing, Acting, Scoping,
                      timerVars, Retrieving, importVars, Teaching, Observing>>
    \/ /\ focus = "edges" /\ EdgeNext
       /\ UNCHANGED <<focus, Logging, Leasing, Grading, Tasking, syncVars,
                      Sharing, Daemon, schedulerVars, Registry, Summing,
                      Consolidating, Turning, Repairing, Acting, Scoping,
                      timerVars, Retrieving, importVars, Teaching, Observing>>
    \/ /\ focus = "daemon" /\ DaemonNext
       /\ UNCHANGED <<focus, Logging, Leasing, Grading, Tasking, syncVars,
                      Sharing, History, schedulerVars, Registry, Summing,
                      Consolidating, Turning, Repairing, Acting, Scoping,
                      timerVars, Retrieving, importVars, Teaching, Observing>>
    \/ /\ focus = "scheduler" /\ SchedulerNext
       /\ UNCHANGED <<focus, Logging, Leasing, Grading, Tasking, syncVars,
                      Sharing, History, Daemon, Registry, Summing,
                      Consolidating, Turning, Repairing, Acting, Scoping,
                      timerVars, Retrieving, importVars, Teaching, Observing,
                      overlap>>
    \/ /\ focus = "registry" /\ RegNext
       /\ UNCHANGED <<focus, Logging, Leasing, Grading, Tasking, syncVars,
                      Sharing, History, Daemon, schedulerVars, Summing,
                      Consolidating, Turning, Repairing, Acting, Scoping,
                      timerVars, Retrieving, importVars, Teaching, Observing>>
    \/ /\ focus = "summaries" /\ SumNext
       /\ UNCHANGED <<focus, Logging, Leasing, Grading, Tasking, syncVars,
                      Sharing, History, Daemon, schedulerVars, Registry,
                      Consolidating, Turning, Repairing, Acting, Scoping,
                      timerVars, Retrieving, importVars, Teaching, Observing>>
    \/ /\ focus = "consolidation" /\ ConsNext
       /\ UNCHANGED <<focus, Logging, Leasing, Grading, Tasking, syncVars,
                      Sharing, History, Daemon, schedulerVars, Registry,
                      Summing, Turning, Repairing, Acting, Scoping, timerVars,
                      Retrieving, importVars, Teaching, Observing>>
    \/ /\ focus = "turns" /\ TurnNext
       /\ UNCHANGED <<focus, Logging, Leasing, Grading, Tasking, syncVars,
                      Sharing, History, Daemon, schedulerVars, Registry,
                      Summing, Consolidating, Repairing, Acting, Scoping,
                      timerVars, Retrieving, importVars, Teaching, Observing>>
    \/ /\ focus = "repairs" /\ RepairNext
       /\ UNCHANGED <<focus, Logging, Leasing, Grading, Tasking, syncVars,
                      Sharing, History, Daemon, schedulerVars, Registry,
                      Summing, Consolidating, Turning, Acting, Scoping,
                      timerVars, Retrieving, importVars, Teaching, Observing>>
    \/ /\ focus = "actions" /\ ActNext
       /\ UNCHANGED <<focus, Logging, Leasing, Grading, Tasking, syncVars,
                      Sharing, History, Daemon, schedulerVars, Registry,
                      Summing, Consolidating, Turning, Repairing, Scoping,
                      timerVars, Retrieving, importVars, Teaching, Observing>>
    \/ /\ focus = "scope" /\ ScopeNext
       /\ UNCHANGED <<focus, Logging, Leasing, Grading, Tasking, syncVars,
                      Sharing, History, Daemon, schedulerVars, Registry,
                      Summing, Consolidating, Turning, Repairing, Acting,
                      timerVars, Retrieving, importVars, Teaching, Observing>>
    \/ /\ focus = "timer" /\ TimerNext
       /\ UNCHANGED <<focus, Logging, Leasing, Grading, Tasking, syncVars,
                      Sharing, History, Daemon, schedulerVars, Registry,
                      Summing, Consolidating, Turning, Repairing, Acting,
                      Scoping, Retrieving, importVars, Teaching, Observing,
                      overlap>>
    \/ /\ focus = "retrieval" /\ RetrievalNext
       /\ UNCHANGED <<focus, Logging, Leasing, Grading, Tasking, syncVars,
                      Sharing, History, Daemon, schedulerVars, Registry,
                      Summing, Consolidating, Turning, Repairing, Acting,
                      Scoping, timerVars, importVars, Teaching, Observing>>
    \/ /\ focus = "importer" /\ ImporterNext
       /\ UNCHANGED <<focus, Logging, Leasing, Grading, Tasking, syncVars,
                      Sharing, History, Daemon, schedulerVars, Registry,
                      Summing, Consolidating, Turning, Repairing, Acting,
                      Scoping, timerVars, Retrieving, Teaching, Observing,
                      overlap>>
    \/ /\ focus = "lessons" /\ LessonNext
       /\ UNCHANGED <<focus, Logging, Leasing, Grading, Tasking, syncVars,
                      Sharing, History, Daemon, schedulerVars, Registry,
                      Summing, Consolidating, Turning, Repairing, Acting,
                      Scoping, timerVars, Retrieving, importVars, Observing>>
    \/ /\ focus = "perspectives" /\ PersNext
       /\ UNCHANGED <<focus, Logging, Leasing, Grading, Tasking, syncVars,
                      Sharing, History, Daemon, schedulerVars, Registry,
                      Summing, Consolidating, Turning, Repairing, Acting,
                      Scoping, timerVars, Retrieving, importVars, Teaching>>

suiteVars == <<focus, Logging, Leasing, Grading, Tasking, syncVars, Sharing,
               History, Daemon, schedulerVars, Registry, Summing,
               Consolidating, Turning, Repairing, Acting, Scoping, timerVars,
               Retrieving, importVars, Teaching, Observing, overlap>>

SuiteSpec == SuiteInit /\ [][SuiteNext]_suiteVars
=============================================================================
