------------------------------- MODULE Tasks --------------------------------
(***************************************************************************)
(* Task entities (core/task/): TaskResolver turns an extracted task into an *)
(* entity, events in the log and a status; TaskProjector replays the events *)
(* into the edges to the task's blockers, and can rebuild them.             *)
(*                                                                          *)
(* Titles stand for canonical keys.  A blocker text that is the title of a  *)
(* task resolves to that task, any other to a condition.  Priorities, which *)
(* touch no edge, are left out.                                             *)
(***************************************************************************)
EXTENDS Processes, Bags, FiniteSets, Integers, SequencesExt

CONSTANTS
    Titles,
    Extracted,  \* the extracted tasks: records [title, status, blockers]
    MaxTasks,   \* bound: entities
    MaxLog      \* bound: events, with and without overlap


VARIABLES
    task,       \* task[i]: [title, status], None before it is created
    log,        \* the task events, in the order of (timestamp, id)
    edges,      \* bag of [task, rel, ref]
    offset,     \* projection_offsets: the last event projected, or None
    taskPc,     \* what each process is doing
    call,       \* the extracted task: [title, status, blockers]
    entity,     \* [id, status]: the entity as the call read it
    fresh,      \* events the call has emitted, all in one millisecond
    batch,      \* events the projector fetched and has not finished
    torn        \* a rebuild died between its two deletes

taskStore == <<task, log, edges, offset>>
taskVars == <<taskStore, taskPc, call, entity, fresh, batch, torn,
                   overlap>>

TaskIds == 1 .. MaxTasks
Statuses == {"pending", "in_progress", "blocked", "done", "cancelled"}
Rels == {"blocked_by", "blocked_by_suggested"}

(* A blocker is the title of a task or of a condition.  No row and no event *)
(* is null.                                                                 *)
TaskRow == [title : Titles, status : Statuses]
BlockerIds ==
    (UNION {x.blockers : x \in Extracted}) \cup TaskIds \cup {None}
Blocker == [kind : {"condition", "task"}, id : BlockerIds]
TaskEvent ==
    [type : {"created"}, task : TaskIds, status : Statuses]
    \cup [type : {"status", "rejected"}, task : TaskIds, from : Statuses,
          status : Statuses]
    \cup [type : {"blockers"}, task : TaskIds, rel : Rels,
          refs : SUBSET Blocker]

ASSUME TaskAssumption ==
    /\ MaxTasks \in Nat /\ MaxLog \in [BOOLEAN -> Nat]
    /\ \A x \in Extracted :
          /\ x.title \in Titles /\ x.status \in Statuses \cup {None}
          /\ x = [title |-> x.title, status |-> x.status,
                  blockers |-> x.blockers]
    /\ None \notin Statuses /\ None \notin TaskRow
    /\ None \notin TaskEvent

NoCall == [title |-> None, status |-> None, blockers |-> {}]
NoEntity == [id |-> None, status |-> None]

TaskInit ==
    /\ task = [i \in TaskIds |-> None] /\ log = <<>>
    /\ edges = EmptyBag /\ offset = None
    /\ taskPc = [p \in Procs |-> "idle"]
    /\ call = [p \in Procs |-> NoCall]
    /\ entity = [p \in Procs |-> NoEntity]
    /\ fresh = [p \in Procs |-> 0]
    /\ batch = [p \in Procs |-> <<>>]
    /\ torn = FALSE
    /\ overlap \in BOOLEAN

TaskGoto(p, label) == taskPc' = [taskPc EXCEPT ![p] = label]
TaskReturn(p) ==
    /\ TaskGoto(p, "idle")
    /\ call' = [call EXCEPT ![p] = NoCall]
    /\ entity' = [entity EXCEPT ![p] = NoEntity]
    /\ fresh' = [fresh EXCEPT ![p] = 0]
    /\ batch' = [batch EXCEPT ![p] = <<>>]

(* TaskMatcher.match(): the active tasks with the title.                    *)
Matches(title) == {i \in TaskIds : task[i] # None /\ task[i].title = title}

(* Mistaken variant: those not done.                                        *)
KnownOpen(title) == {i \in Matches(title) : task[i].status # "done"}
Known(title) == Matches(title)

-----------------------------------------------------------------------------
(* TaskResolver                                                             *)

(* VALID_TRANSITIONS.                                                       *)
Valid(from, to) ==
    to \in CASE from = "pending" -> {"in_progress", "cancelled"}
             [] from = "in_progress" -> {"blocked", "done", "cancelled"}
             [] from = "blocked" -> {"in_progress", "done", "cancelled"}
             [] OTHER -> {}

(* emitTaskEvent(): an event whose dedupe key (its content and session) is  *)
(* known is not inserted again.  The events of one call have one timestamp  *)
(* and random ids, so that a later one may come before an earlier one.      *)
(* Mistaken variant: rows in the order of their ids.                        *)
EmitAnywhere(p, e) ==
    IF Contains(log, e) THEN log' = log
    ELSE \E n \in 0 .. Len(log) : log' = InsertAt(log, n + 1, e)
Emit(p, e) ==
    IF Contains(log, e) THEN log' = log
    ELSE \E n \in Len(log) - fresh[p] .. Len(log) :
            log' = InsertAt(log, n + 1, e)
Emitted(p) == fresh' = [fresh EXCEPT ![p] = @ + Len(log') - Len(log)]

(* processTask(): findOrCreateTask() looks for the title ...                *)
ProcessTask(p, x) ==
    /\ MayStart(p, taskPc) /\ Len(log) + 3 <= MaxLog[overlap]
    /\ call' = [call EXCEPT ![p] = x]
    /\ IF Known(x.title) = {}
       THEN TaskGoto(p, "create") /\ entity' = entity
       ELSE /\ TaskGoto(p, "status")
            /\ \E i \in Known(x.title) :
                  entity' = [entity EXCEPT ![p] =
                                [id |-> i, status |-> task[i].status]]
    /\ UNCHANGED <<taskStore, fresh, batch, torn,
                   overlap>>

(* ... and creates the entity and its event in one transaction; a task      *)
(* never starts as done.  The row of vector_outbox is left out.             *)
FirstStatus(asked) == CASE asked = None -> "pending"
                        [] asked = "done" -> "in_progress"
                        [] OTHER -> asked
CreateTask(p) ==
    /\ taskPc[p] = "create"
    /\ \E i \in TaskIds :
          /\ task[i] = None /\ \A j \in 1 .. i - 1 : task[j] # None
          /\ LET first == FirstStatus(call[p].status) IN
             /\ task' = [task EXCEPT ![i] = [title |-> call[p].title,
                                             status |-> first]]
             /\ entity' = [entity EXCEPT ![p] = [id |-> i, status |-> first]]
             /\ Emit(p, [type |-> "created", task |-> i, status |-> first])
    /\ Emitted(p)
    /\ TaskGoto(p, "status")
    /\ UNCHANGED <<edges, offset, call, batch, torn, overlap>>

(* handleStatusChange(): decided on the status that was read.  A move that  *)
(* is not valid is only logged.  Mistaken variant: a move is not logged.    *)
StatusEvent(p, type) == [type |-> type, task |-> entity[p].id,
                         from |-> entity[p].status, status |-> call[p].status]
Moves(p) == Valid(entity[p].status, call[p].status)
ChangeStatusSilently(p) ==
    /\ taskPc[p] = "status" /\ Moves(p)
    /\ task' = [task EXCEPT ![entity[p].id].status = call[p].status]
    /\ TaskGoto(p, "update")
    /\ UNCHANGED <<log, edges, offset, call, entity, fresh, batch, torn,
                   overlap>>
ChangeStatus(p) ==
    /\ taskPc[p] = "status" /\ Moves(p)
    /\ Emit(p, StatusEvent(p, "status")) /\ Emitted(p)
    /\ TaskGoto(p, "update")
    /\ UNCHANGED <<task, edges, offset, call, entity, batch, torn, overlap>>

RejectStatus(p) ==
    /\ taskPc[p] = "status" /\ ~Moves(p)
    /\ IF call[p].status \in {None, entity[p].status} THEN log' = log
       ELSE Emit(p, StatusEvent(p, "rejected"))
    /\ Emitted(p)
    /\ TaskGoto(p, "blockers")
    /\ UNCHANGED <<task, edges, offset, call, entity, batch, torn, overlap>>

UpdateStatus(p) ==
    /\ taskPc[p] = "update"
    /\ task' = [task EXCEPT ![entity[p].id].status = call[p].status]
    /\ TaskGoto(p, "blockers")
    /\ UNCHANGED <<log, edges, offset, call, entity, fresh, batch, torn,
                   overlap>>

(* handleBlockers(), with the mode that config.evidenceAligned gives, or    *)
(* handleUnknownBlocker() for a blocked task without blockers.              *)
RefTo(title) ==
    IF Known(title) = {} THEN [kind |-> "condition", id |-> title]
    ELSE [kind |-> "task", id |-> CHOOSE i \in Known(title) : TRUE]
Placeholder == [kind |-> "condition", id |-> None]
BlockersEvent(p, rel, refs) ==
    [type |-> "blockers", task |-> entity[p].id, rel |-> rel, refs |-> refs]
SetBlockers(p) ==
    /\ taskPc[p] = "blockers"
    /\ LET given == call[p].blockers IN
       \/ /\ given # {}
          /\ \E rel \in Rels :
                Emit(p, BlockersEvent(p, rel, {RefTo(x) : x \in given}))
       \/ /\ given = {} /\ call[p].status = "blocked"
          /\ Emit(p, BlockersEvent(p, "blocked_by_suggested", {Placeholder}))
       \/ given = {} /\ call[p].status # "blocked" /\ log' = log
    /\ TaskReturn(p)
    /\ UNCHANGED <<task, edges, offset, torn, overlap>>

-----------------------------------------------------------------------------
(* TaskProjector                                                            *)

Pending == IF offset = None THEN log
           ELSE LET last == CHOOSE n \in DOMAIN log : log[n] = offset
                IN  SubSeq(log, last + 1, Len(log))
EdgesOf(i, rel) == {x \in BagToSet(edges) : x.task = i /\ x.rel \in rel}
Without(B, S) == [x \in DOMAIN B \ S |-> B[x]]

(* processBatch(): the events after the offset.                             *)
Fetch(p) ==
    /\ MayStart(p, taskPc) /\ Pending # <<>>
    /\ batch' = [batch EXCEPT ![p] = Pending]
    /\ TaskGoto(p, "project")
    /\ UNCHANGED <<taskStore, call, entity, fresh, torn, overlap>>

(* processEvent(): a task that is done loses its edges; new blockers        *)
(* replace those of their kind.  Mistaken variant: they are added.          *)
ReplacedNothing(e) == {}
Replaced(e) ==
    CASE e.type = "status" /\ e.status = "done" -> EdgesOf(e.task, Rels)
      [] e.type = "blockers" -> EdgesOf(e.task, {e.rel})
      [] OTHER -> {}
ProjectDelete(p) ==
    /\ taskPc[p] = "project"
    /\ LET e == Head(batch[p]) IN
       /\ edges' = Without(edges, Replaced(e))
       /\ TaskGoto(p, IF e.type = "blockers" THEN "insert" ELSE "save")
    /\ UNCHANGED <<task, log, offset, call, entity, fresh, batch, torn,
                   overlap>>

(* createBlockerEdge() per blocker; no unique key stops a second one.       *)
NewEdges(e) == {[task |-> e.task, rel |-> e.rel, ref |-> r] : r \in e.refs}
ProjectInsert(p) ==
    /\ taskPc[p] = "insert"
    /\ edges' = edges (+) SetToBag(NewEdges(Head(batch[p])))
    /\ TaskGoto(p, "save")
    /\ UNCHANGED <<task, log, offset, call, entity, fresh, batch, torn,
                   overlap>>

(* updateOffset(), after each event.                                        *)
SaveOffset(p) ==
    /\ taskPc[p] = "save"
    /\ offset' = Head(batch[p])
    /\ batch' = [batch EXCEPT ![p] = Tail(@)]
    /\ TaskGoto(p, IF Tail(batch[p]) = <<>> THEN "idle" ELSE "project")
    /\ UNCHANGED <<task, log, edges, call, entity, fresh, torn, overlap>>

(* rebuild(): the edges, then the offset; the projection that follows is a  *)
(* batch like any other.                                                    *)
Rebuild(p) ==
    /\ MayStart(p, taskPc) /\ offset # None
    /\ edges' = EmptyBag
    /\ TaskGoto(p, "reset")
    /\ UNCHANGED <<task, log, offset, call, entity, fresh, batch, torn,
                   overlap>>
ResetOffset(p) ==
    /\ taskPc[p] = "reset"
    /\ offset' = None /\ torn' = FALSE
    /\ TaskGoto(p, "idle")
    /\ UNCHANGED <<task, log, edges, call, entity, fresh, batch, overlap>>

TaskCrash(p) ==
    /\ taskPc[p] # "idle"
    /\ torn' = (torn \/ taskPc[p] = "reset")
    /\ TaskReturn(p)
    /\ UNCHANGED <<taskStore, overlap>>

TaskNext ==
    \E p \in Procs :
        \/ \E x \in Extracted : ProcessTask(p, x)
        \/ CreateTask(p) \/ ChangeStatus(p) \/ RejectStatus(p)
        \/ UpdateStatus(p) \/ SetBlockers(p)
        \/ Fetch(p) \/ ProjectDelete(p) \/ ProjectInsert(p) \/ SaveOffset(p)
        \/ Rebuild(p) \/ ResetOffset(p) \/ TaskCrash(p)

TaskSpec == TaskInit /\ [][TaskNext]_taskVars

-----------------------------------------------------------------------------
(* A task's status is in its log: an event made or moved it there, whatever *)
(* dies or overlaps; what the projector cannot see never happened.          *)
StatusIsLogged ==
    \A i \in TaskIds : task[i] # None =>
        \E n \in DOMAIN log : /\ log[n].type \in {"created", "status"}
                              /\ log[n].task = i
                              /\ log[n].status = task[i].status

(* Calls that do not overlap make one entity per title.                     *)
OneTaskPerTitle ==
    ~overlap => \A title \in Titles : Cardinality(Matches(title)) <= 1

(* What events s say of the blockers up to the n-th: an edge is there if an *)
(* event put it there and none since took it away.                          *)
Takes(e, x) ==
    /\ x.task = e.task
    /\ \/ e.type = "status" /\ e.status = "done"
       \/ e.type = "blockers" /\ e.rel = x.rel
Put(s, k) == IF s[k].type = "blockers" THEN NewEdges(s[k]) ELSE {}
EdgesUpTo(s, n) ==
    UNION {{x \in Put(s, k) : \A m \in k + 1 .. n : ~Takes(s[m], x)} :
              k \in 1 .. n}

(* A projector that has caught up has the edges of the log, each once,      *)
(* through crashes and rebuilds (but one that died between its deletes).    *)
EdgesFollowLog ==
    /\ ~overlap /\ ~torn
    /\ \A p \in Procs : taskPc[p] = "idle"
    /\ log # <<>> /\ offset = Last(log)
    => edges = SetToBag(EdgesUpTo(log, Len(log)))

(* The entities are what the log says: a status has its event, a title one  *)
(* task, and the edges those of the last event about blockers.              *)
TasksFollowLog == StatusIsLogged /\ OneTaskPerTitle /\ EdgesFollowLog
=============================================================================
