---------------------------- MODULE VectorRepairs ---------------------------
(***************************************************************************)
(* The commands that repair an index: `repair prune-tool-observation-       *)
(* vectors', the auto-heal that SessionStart spawns once per store, and     *)
(* `repair redact-credentials' (apps/cli/index.ts, core/operations/         *)
(* tool-observation-vector-*.ts, credential-redaction.ts), beside the two   *)
(* workers that embed.  They take no lock of the workers.  An event may     *)
(* have a vector in the table of each worker, the first worker's being made *)
(* of the text in its outbox, the second one's of the event's own.          *)
(***************************************************************************)
EXTENDS Processes

CONSTANT Indexed    \* event ids

ASSUME RepairAssumption == None \notin {"pending", "processing", "done"}

Tables == {"conversations", "event_vectors"}
Texts == {"old", "new"}     \* with a credential in it; without

VARIABLES
    tool,       \* the events that are tool observations
    text,       \* text[e]: events.content
    legacyJob,  \* legacyJob[e]: the text in embedding_outbox, or None
    job,        \* job[e]: vector_outbox.status, or None
    index,      \* index[t][e]: the text of the vector of e in table t
    healed,     \* the flag maintenance:tool_observation_vector_prune_v1
    repairPc,   \* [op, at]: the command and its next step; or "idle"
    targets,    \* the events the command has still to do
    chosenText, \* the text a worker embeds
    lapsed      \* history: a redaction died, or a deletion in it failed

repairVars == <<tool, text, legacyJob, job, index, healed, repairPc, targets,
                chosenText, lapsed, overlap>>

RepairInit ==
    /\ tool \in SUBSET Indexed
    /\ text \in [Indexed -> Texts]
    /\ \E S \in SUBSET Indexed :    \* those not embedded yet, of old versions
          /\ job = [e \in Indexed |-> IF e \in S THEN "pending" ELSE "done"]
          /\ legacyJob = [e \in Indexed |->
                             IF e \in S THEN text[e] ELSE None]
          /\ index = [t \in Tables |-> [e \in Indexed |->
                         IF e \in S THEN None ELSE text[e]]]
    /\ healed = FALSE /\ lapsed = FALSE
    /\ repairPc = [p \in Procs |-> "idle"]
    /\ targets = [p \in Procs |-> {}]
    /\ chosenText = [p \in Procs |-> None]
    /\ overlap \in BOOLEAN

RepairGoto(p, label) == repairPc' = [repairPc EXCEPT ![p] = label]
RepairReturn(p) ==
    /\ RepairGoto(p, "idle")
    /\ targets' = [targets EXCEPT ![p] = {}]
    /\ chosenText' = [chosenText EXCEPT ![p] = None]

Healing == {"heal", "healRows", "healFlag"}
Redacting == {"rewrite", "redact", "requeue"}

-----------------------------------------------------------------------------
(* The workers.  A claim is taken here with the text the worker embeds.     *)

EmbedLegacy(p, e) ==
    /\ MayStart(p, repairPc) /\ legacyJob[e] # None
    /\ chosenText' = [chosenText EXCEPT ![p] = legacyJob[e]]
    /\ targets' = [targets EXCEPT ![p] = {e}]
    /\ legacyJob' = [legacyJob EXCEPT ![e] = None]
    /\ RepairGoto(p, "conversations")
    /\ UNCHANGED <<tool, text, job, index, healed, lapsed, overlap>>

Embed(p, e) ==
    /\ MayStart(p, repairPc) /\ job[e] = "pending"
    /\ chosenText' = [chosenText EXCEPT ![p] = text[e]]
    /\ targets' = [targets EXCEPT ![p] = {e}]
    /\ job' = [job EXCEPT ![e] = "processing"]
    /\ RepairGoto(p, "event_vectors")
    /\ UNCHANGED <<tool, text, legacyJob, index, healed, lapsed, overlap>>

StoreVector(p) ==
    /\ repairPc[p] \in Tables
    /\ \E e \in targets[p] :
          /\ index' = [index EXCEPT ![repairPc[p]][e] = chosenText[p]]
          /\ job' = IF repairPc[p] = "event_vectors" /\ job[e] # None
                    THEN [job EXCEPT ![e] = "done"] ELSE job
    /\ RepairReturn(p)
    /\ UNCHANGED <<tool, text, legacyJob, healed, lapsed, overlap>>

(* ensureEmbeddingModelForImport(): the legacy table and its outbox are     *)
(* filled anew with every event, a tool observation too.                    *)
Reembed ==
    /\ \A p \in Procs : repairPc[p] = "idle"
    /\ index' = [index EXCEPT !["conversations"] = [e \in Indexed |-> None]]
    /\ legacyJob' = text
    /\ UNCHANGED <<tool, text, job, healed, repairPc, targets, chosenText,
                   lapsed, overlap>>

-----------------------------------------------------------------------------
(* The removal of tool observations.                                        *)

(* The command, or the auto-heal under auto-heal.lock, if the flag is not   *)
(* set: listEventIdsByType().                                               *)
StartPrune(p) ==
    /\ MayStart(p, repairPc)
    /\ \/ RepairGoto(p, "prune")
       \/ /\ ~healed /\ \A q \in Procs : repairPc[q] \notin Healing
          /\ RepairGoto(p, "heal")
    /\ targets' = [targets EXCEPT ![p] = tool]
    /\ UNCHANGED <<tool, text, legacyJob, job, index, healed, chosenText,
                   lapsed, overlap>>

Unindexed(e) == [t \in Tables |-> [index[t] EXCEPT ![e] = None]]

(* deleteEventEverywhere() of one event after the other.                    *)
PruneVector(p) ==
    /\ repairPc[p] \in {"prune", "heal"}
    /\ IF targets[p] = {}
       THEN /\ RepairGoto(p, IF repairPc[p] = "heal" THEN "healRows"
                                                     ELSE "pruneRows")
            /\ UNCHANGED <<index, targets>>
       ELSE /\ \E e \in targets[p] :
                  /\ index' = Unindexed(e)
                  /\ targets' = [targets EXCEPT ![p] = @ \ {e}]
            /\ UNCHANGED repairPc
    /\ UNCHANGED <<tool, text, legacyJob, job, healed, chosenText, lapsed,
                   overlap>>

(* removeVectorOutboxRowsForEventIds(): rows of vector_outbox only.         *)
(* Mistaken variant: those that are done.                                   *)
RemovedDone(e) == e \in tool /\ job[e] = "done"
Removed(e) == e \in tool

PruneRows(p) ==
    /\ repairPc[p] \in {"pruneRows", "healRows"}
    /\ job' = [e \in Indexed |-> IF Removed(e) THEN None ELSE job[e]]
    /\ IF repairPc[p] = "healRows"
       THEN RepairGoto(p, "healFlag") /\ UNCHANGED <<targets, chosenText>>
       ELSE RepairReturn(p)
    /\ UNCHANGED <<tool, text, legacyJob, index, healed, lapsed, overlap>>

(* optimizeAll(), and the flag is set.                                      *)
SetHealed(p) ==
    /\ repairPc[p] = "healFlag"
    /\ healed' = TRUE
    /\ RepairReturn(p)
    /\ UNCHANGED <<tool, text, legacyJob, job, index, lapsed, overlap>>

-----------------------------------------------------------------------------
(* The redaction.                                                           *)

StartRedaction(p) ==
    /\ MayStart(p, repairPc)
    /\ RepairGoto(p, "rewrite")
    /\ UNCHANGED <<tool, text, legacyJob, job, index, healed, targets,
                   chosenText, lapsed, overlap>>

(* planSqliteRedaction(): a statement per row that the filter changes.      *)
Rewrite(p) ==
    /\ repairPc[p] = "rewrite"
    /\ \/ \E e \in Indexed :
             /\ text[e] = "old"
             /\ text' = [text EXCEPT ![e] = "new"]
             /\ targets' = [targets EXCEPT ![p] = @ \cup {e}]
             /\ UNCHANGED repairPc
       \/ /\ \A e \in Indexed : text[e] = "new"
          /\ RepairGoto(p, "redact")
          /\ UNCHANGED <<text, targets>>
    /\ UNCHANGED <<tool, legacyJob, job, index, healed, chosenText, lapsed,
                   overlap>>

(* The vectors of all the events, "a missing vector is not an error here"   *)
(* (index.ts:1660), and neither is another failure.                         *)
DropVectors(p) ==
    /\ repairPc[p] = "redact"
    /\ \E S \in SUBSET targets[p] :
          /\ index' = [t \in Tables |-> [e \in Indexed |->
                          IF e \in S THEN None ELSE index[t][e]]]
          /\ lapsed' = (lapsed \/ S # targets[p])
    /\ RepairGoto(p, "requeue")
    /\ UNCHANGED <<tool, text, legacyJob, job, healed, targets, chosenText,
                   overlap>>

(* requeueEmbeddings(): the row of embedding_outbox is replaced; there is   *)
(* none for vector_outbox.  Mistaken variant: a row that is there is kept.  *)
RequeuedOnce(e) == IF legacyJob[e] = None THEN text[e] ELSE legacyJob[e]
Requeued(e) == text[e]

Requeue(p) ==
    /\ repairPc[p] = "requeue"
    /\ legacyJob' = [e \in Indexed |->
                        IF e \in targets[p] THEN Requeued(e)
                                            ELSE legacyJob[e]]
    /\ RepairReturn(p)
    /\ UNCHANGED <<tool, text, job, index, healed, lapsed, overlap>>

(* The process dies or the command fails: a claimed job is recovered later. *)
RepairFails(p) ==
    /\ repairPc[p] # "idle"
    /\ lapsed' = (lapsed \/ repairPc[p] \in Redacting)
    /\ legacyJob' = [e \in Indexed |->
                        IF repairPc[p] = "conversations" /\ e \in targets[p]
                        THEN chosenText[p] ELSE legacyJob[e]]
    /\ job' = [e \in Indexed |->
                  IF repairPc[p] = "event_vectors" /\ e \in targets[p]
                     /\ job[e] # None
                  THEN "pending" ELSE job[e]]
    /\ RepairReturn(p)
    /\ UNCHANGED <<tool, text, index, healed, overlap>>

RepairNext ==
    \/ \E p \in Procs, e \in Indexed : EmbedLegacy(p, e) \/ Embed(p, e)
    \/ \E p \in Procs : \/ StoreVector(p) \/ StartPrune(p) \/ PruneVector(p)
                        \/ PruneRows(p) \/ SetHealed(p) \/ StartRedaction(p)
                        \/ Rewrite(p) \/ DropVectors(p) \/ Requeue(p)
                        \/ RepairFails(p)
    \/ Reembed

RepairSpec == RepairInit /\ [][RepairNext]_repairVars

-----------------------------------------------------------------------------
(* Once the flag is set, and auto-heal never runs again, no tool            *)
(* observation has a vector in event_vectors or can get one, wherever an    *)
(* earlier run died; if no worker embeds while the repair runs.             *)
HealedIsClean ==
    healed /\ ~overlap =>
        \A e \in tool : index["event_vectors"][e] = None /\ job[e] = None

(* No vector is made of a text that the event no longer has, and none is    *)
(* to be made of one, once a redaction is over; unless one died half way,   *)
(* as the next finds nothing to redact in the events it had rewritten.      *)
NoStaleText ==
    ~overlap /\ ~lapsed /\ (\A p \in Procs : repairPc[p] \notin Redacting) =>
        \A e \in Indexed :
            /\ \A t \in Tables : index[t][e] \in {None, text[e]}
            /\ legacyJob[e] \in {None, text[e]}

(* The repairs leave a clean index: no vector of a healed event of its kind *)
(* and no vector of a text that was replaced outlives the work in flight.   *)
IndexIsClean == HealedIsClean /\ NoStaleText
=============================================================================
