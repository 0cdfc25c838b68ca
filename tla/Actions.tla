------------------------------- MODULE Actions ------------------------------
(***************************************************************************)
(* Memory actions made of task entities (core/operations/action-projector.  *)
(* ts), in the tables that mem-action-update writes too (core/operations/   *)
(* action-repository.ts): an action per task of the project, and a          *)
(* depends_on edge per blocker.  The status of a task stands for its title, *)
(* priority and source events too; both tables are UNIQUE on their keys.    *)
(***************************************************************************)
EXTENDS Processes

CONSTANTS
    Work,       \* task entities of the project
    Blockers,   \* what may block a task: another task, an artifact
    WorkStates  \* statuses

ASSUME WorkAssumption == None \notin WorkStates

VARIABLES
    work,       \* work[k]: [status, blockers], the entity and its edges
    action,     \* action[k]: the status of the row, or None
    depends,    \* depends[k]: where edges with source task_projector lead
    actPc,      \* "idle", "update", "write", "edges" or "sync"
    actOf,      \* the task projected, or the action updated
    before,     \* the row as it was read
    wanted,     \* the status, or the blockers, to be written
    followed    \* history: the tasks whose projection returned, and neither
                \* the task nor the action was changed since

actVars == <<work, action, depends, actPc, actOf, before, wanted, followed,
             overlap>>

ActInit ==
    /\ work \in [Work -> [status : WorkStates, blockers : {{}}]]
    /\ action = [k \in Work |-> None]
    /\ depends = [k \in Work |-> {}]
    /\ actPc = [p \in Procs |-> "idle"]
    /\ actOf = [p \in Procs |-> None]
    /\ before = [p \in Procs |-> None]
    /\ wanted = [p \in Procs |-> None]
    /\ followed = {}
    /\ overlap \in BOOLEAN

ActGoto(p, label) == actPc' = [actPc EXCEPT ![p] = label]
ActReturn(p) ==
    /\ ActGoto(p, "idle")
    /\ actOf' = [actOf EXCEPT ![p] = None]
    /\ before' = [before EXCEPT ![p] = None]
    /\ wanted' = [wanted EXCEPT ![p] = None]
ActStart(p, k, label, target) ==
    /\ MayStart(p, actPc)
    /\ ActGoto(p, label)
    /\ actOf' = [actOf EXCEPT ![p] = k]
    /\ before' = [before EXCEPT ![p] = action[k]]
    /\ wanted' = [wanted EXCEPT ![p] = target]
    /\ UNCHANGED <<work, action, depends, followed, overlap>>

(* The resolver and the projector of tasks, which Tasks models.             *)
WorkChanges(k) ==
    /\ overlap \/ \A p \in Procs : actPc[p] = "idle"
    /\ \E s \in WorkStates, B \in SUBSET Blockers :
          work' = [work EXCEPT ![k] = [status |-> s, blockers |-> B]]
    /\ followed' = followed \ {k}
    /\ UNCHANGED <<action, depends, actPc, actOf, before, wanted, overlap>>

(* mem-action-update, or action update: an action that is there.            *)
StartUpdate(p, k) ==
    /\ action[k] # None
    /\ \E s \in WorkStates : ActStart(p, k, "update", s)

WriteUpdate(p) ==
    /\ actPc[p] = "update"
    /\ action' = [action EXCEPT ![actOf[p]] = wanted[p]]
    /\ followed' = followed \ {actOf[p]}
    /\ ActReturn(p)
    /\ UNCHANGED <<work, depends, overlap>>

-----------------------------------------------------------------------------
(* projectTaskRow()                                                         *)

StartProject(p, k) == ActStart(p, k, "write", work[k].status)

(* upsert() of a new row; it fails on one that was inserted meanwhile.      *)
InsertAction(p) ==
    LET k == actOf[p]
    IN  /\ actPc[p] = "write" /\ before[p] = None
        /\ IF action[k] = None
           THEN /\ action' = [action EXCEPT ![k] = wanted[p]]
                /\ ActGoto(p, "edges")
                /\ UNCHANGED <<actOf, before, wanted>>
           ELSE ActReturn(p) /\ UNCHANGED action
    /\ UNCHANGED <<work, depends, followed, overlap>>

UpdateAction(p) ==
    /\ actPc[p] = "write" /\ before[p] \notin {None, wanted[p]}
    /\ action' = [action EXCEPT ![actOf[p]] = wanted[p]]
    /\ ActGoto(p, "edges")
    /\ UNCHANGED <<work, depends, actOf, before, wanted, followed, overlap>>

(* The edges are looked at all the same.  Mistaken variant: they are not.   *)
LeaveAtOnce(p) ==
    /\ actPc[p] = "write" /\ before[p] = wanted[p]
    /\ followed' = followed \cup {actOf[p]}
    /\ ActReturn(p)
    /\ UNCHANGED <<work, action, depends, overlap>>
LeaveAction(p) ==
    /\ actPc[p] = "write" /\ before[p] = wanted[p]
    /\ ActGoto(p, "edges")
    /\ UNCHANGED <<work, action, depends, actOf, before, wanted, followed,
                   overlap>>

(* syncBlockerEdges(): the projector's own edges that no blocker asks for   *)
(* are deleted, and those that are missing added, a statement each.         *)
ReadBlockers(p) ==
    /\ actPc[p] = "edges"
    /\ wanted' = [wanted EXCEPT ![p] = work[actOf[p]].blockers]
    /\ ActGoto(p, "sync")
    /\ UNCHANGED <<work, action, depends, actOf, before, followed, overlap>>

SyncEdge(p) ==
    LET k == actOf[p]
    IN  /\ actPc[p] = "sync"
        /\ \/ \E b \in depends[k] \ wanted[p] :
                 depends' = [depends EXCEPT ![k] = @ \ {b}]
           \/ /\ depends[k] \subseteq wanted[p]
              /\ \E b \in wanted[p] \ depends[k] :
                    depends' = [depends EXCEPT ![k] = @ \cup {b}]
        /\ UNCHANGED <<work, action, actPc, actOf, before, wanted, followed,
                       overlap>>

EndProject(p) ==
    /\ actPc[p] = "sync" /\ depends[actOf[p]] = wanted[p]
    /\ followed' = followed \cup {actOf[p]}
    /\ ActReturn(p)
    /\ UNCHANGED <<work, action, depends, overlap>>

(* A statement fails, or the process dies.                                  *)
ActFails(p) ==
    /\ actPc[p] # "idle"
    /\ ActReturn(p)
    /\ UNCHANGED <<work, action, depends, followed, overlap>>

ActNext ==
    \/ \E k \in Work : \/ WorkChanges(k)
                       \/ \E p \in Procs : StartUpdate(p, k)
                       \/ \E p \in Procs : StartProject(p, k)
    \/ \E p \in Procs : \/ WriteUpdate(p) \/ InsertAction(p)
                        \/ UpdateAction(p) \/ LeaveAction(p)
                        \/ ReadBlockers(p) \/ SyncEdge(p) \/ EndProject(p)
                        \/ ActFails(p)

ActSpec == ActInit /\ [][ActNext]_actVars

-----------------------------------------------------------------------------
(* After a projection the action and the projector's edges are those of the *)
(* task, whatever they were before, and also when the projection before it  *)
(* died between the action and its edges; if calls do not overlap.          *)
ActionsFollowTasks ==
    ~overlap => \A k \in followed : /\ action[k] = work[k].status
                                    /\ depends[k] = work[k].blockers
=============================================================================
