---------------------------- MODULE ServiceProps ----------------------------
(***************************************************************************)
(* What services that keep tables and files of their own promise together.  *)
(***************************************************************************)
EXTENDS EventStore, Leases, Graduation, AnalyticsSync, Promotion,
        EdgeHistory, SemanticDaemon, Importer, Tasks, Actions, ScopeRepair,
        Retrieval

(* Those with a type invariant of their own, side by side.  The types of    *)
(* the others are in the invariants that their properties rest on.          *)
ServicesSpec ==
    /\ Spec /\ LeaseSpec /\ GradSpec /\ SyncSpec /\ ShareSpec /\ EdgeSpec
    /\ DaemonSpec /\ ImporterSpec

(* Every variable of every service has its type.                            *)
SuiteTypeOK ==
    /\ TypeOK /\ LeaseTypeOK /\ GradTypeOK /\ SyncTypeOK
    /\ ShareTypeOK /\ EdgeTypeOK /\ DaemonTypeOK /\ ImporterTypeOK

(* Tasks, their edges and their blockers follow the log of task events, and  *)
(* actions follow tasks, whoever changes them meanwhile and wherever a      *)
(* process ends (task-resolver.ts, action-projector.ts).                    *)
WorkIsTracked == TasksFollowLog /\ ActionsFollowTasks

(* What belongs to another project is neither kept as one's own nor found by *)
(* a search of this project, and nothing of one's own is lost to it         *)
(* (sqlite-event-store.ts, retriever.ts).                                   *)
ScopeIsKept == RowsAreSorted /\ ResultsAreOurs
=============================================================================
