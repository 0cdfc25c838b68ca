----------------------------- MODULE EventStore -----------------------------
(***************************************************************************)
(* The event log of one SQLite store (core/sqlite-event-store.ts) written   *)
(* by several processes: hooks append, importers append, replay and force   *)
(* a session's reimport, replication imports events with their ids.         *)
(*                                                                          *)
(* A transaction, and a statement outside one, is atomic; between two of    *)
(* them another process may run.  Every id is made for one content in one   *)
(* session: KeyOf is its dedupe key, SessionOf the session of a key.        *)
(***************************************************************************)
EXTENDS Processes, FiniteSets, Integers

CONSTANTS
    Ids,        \* event ids
    Keys,       \* dedupe keys
    Sessions,
    KeyOf,      \* KeyOf[i]: the dedupe key of event i
    SessionOf   \* SessionOf[k]: the session of the content with key k

ASSUME KeyAssumption == KeyOf \in [Ids -> Keys]
ASSUME SessionAssumption == SessionOf \in [Keys -> Sessions]
ASSUME NoneAssumption == None \notin Ids \cup Keys \cup Sessions

VARIABLES
    events,   \* ids of the rows of table events
    dedup,    \* event_dedup: dedup[k] is the id of key k, or None
    levels,   \* ids of the rows of memory_levels
    queued,   \* ids of the rows of vector_outbox
    born,     \* ids made so far, here or on another machine
    pc,       \* what each process is doing
    key,      \* the key it appends, or None
    session,  \* the session it deletes, or None
    found,    \* what its first statement read: a set of ids
    outcome   \* what its last append returned: "none", "new", "duplicate",
              \* "error" (success: false)

tables == <<events, dedup, levels, queued>>
locals == <<pc, key, session, found, outcome>>
vars == <<tables, born, locals, overlap>>

PCs == {"idle", "insert", "requeue", "delete"}
Outcomes == {"none", "new", "duplicate", "error"}

Goto(p, label) == pc' = [pc EXCEPT ![p] = label]

(* A call of p returns.                                                     *)
Return(p, o) ==
    /\ Goto(p, "idle")
    /\ key' = [key EXCEPT ![p] = None]
    /\ session' = [session EXCEPT ![p] = None]
    /\ found' = [found EXCEPT ![p] = {}]
    /\ outcome' = [outcome EXCEPT ![p] = o]

(* p may start a call, or a transaction of one statement sequence.          *)
Free(p) == MayStart(p, pc)

WithKey(k) == {i \in events : KeyOf[i] = k}
OfSession(s) == {i \in events : SessionOf[KeyOf[i]] = s}

Init ==
    /\ events = {} /\ levels = {} /\ queued = {} /\ born = {}
    /\ dedup = [k \in Keys |-> None]
    /\ pc = [p \in Procs |-> "idle"]
    /\ key = [p \in Procs |-> None]
    /\ session = [p \in Procs |-> None]
    /\ found = [p \in Procs |-> {}]
    /\ outcome = [p \in Procs |-> "none"]
    /\ overlap \in BOOLEAN

-----------------------------------------------------------------------------
(* append()                                                                 *)

(* SELECT event_id FROM event_dedup WHERE dedupe_key = ?                    *)
AppendLook(p, k) ==
    /\ Free(p)
    /\ key' = [key EXCEPT ![p] = k]
    /\ found' = [found EXCEPT ![p] = {dedup[k]} \ {None}]
    /\ Goto(p, IF dedup[k] = None THEN "insert" ELSE "requeue")
    /\ UNCHANGED <<tables, born, session, outcome, overlap>>

(* The duplicate's event is queued for embedding again.                     *)
AppendDuplicate(p) ==
    /\ pc[p] = "requeue"
    /\ queued' = queued \cup found[p]
    /\ Return(p, "duplicate")
    /\ UNCHANGED <<events, dedup, levels, born, overlap>>

(* The rows of new events, in one transaction.  Mistaken variants: without  *)
(* the outbox row; without the dedup row.                                   *)
InsertUnqueued(N) ==
    /\ events' = events \cup N
    /\ dedup' = [k \in Keys |->
                    IF \E i \in N : KeyOf[i] = k
                    THEN CHOOSE i \in N : KeyOf[i] = k ELSE dedup[k]]
    /\ levels' = levels \cup N
    /\ queued' = queued
InsertUnknown(N) ==
    /\ events' = events \cup N
    /\ levels' = levels \cup N
    /\ queued' = queued \cup N
    /\ dedup' = dedup
InsertRows(N) ==
    /\ events' = events \cup N
    /\ dedup' = [k \in Keys |->
                    IF \E i \in N : KeyOf[i] = k
                    THEN CHOOSE i \in N : KeyOf[i] = k ELSE dedup[k]]
    /\ levels' = levels \cup N
    /\ queued' = queued \cup N

(* The transaction fails on a UNIQUE key or a row that is there already:    *)
(* events.dedupe_key and event_dedup.dedupe_key, memory_levels.event_id.    *)
(* Mistaken variant: without the UNIQUE keys.                               *)
ConflictIgnored(i) == i \in levels
Conflict(i) == \/ WithKey(KeyOf[i]) # {}
               \/ dedup[KeyOf[i]] # None
               \/ i \in levels

AppendInsert(p, i) ==
    /\ pc[p] = "insert"
    /\ i \in Ids \ born /\ KeyOf[i] = key[p]
    /\ IF Conflict(i)
       THEN Return(p, "error") /\ UNCHANGED <<tables, born>>
       ELSE /\ InsertRows({i})
            /\ born' = born \cup {i}
            /\ Return(p, "new")
    /\ UNCHANGED overlap

-----------------------------------------------------------------------------
(* importEvents(): one transaction over a batch of events with their ids.   *)

(* The events of batch S a transaction inserts: not there by id, nor by     *)
(* key, the first of several with one key.                                  *)
New(S, N) ==
    /\ N \subseteq S \ events
    /\ \A i \in N : dedup[KeyOf[i]] = None
    /\ \A i, j \in N : KeyOf[i] = KeyOf[j] => i = j
    /\ \A i \in S \ N : \/ i \in events \/ dedup[KeyOf[i]] # None
                        \/ \E j \in N : KeyOf[j] = KeyOf[i]

ImportEvents(p, S) ==
    /\ Free(p) /\ S # {}
    /\ \E N \in SUBSET S :
          /\ New(S, N)
          /\ IF \E i \in N : Conflict(i)
             THEN UNCHANGED tables    \* it throws, and rolls back
             ELSE InsertRows(N)
    /\ born' = born \cup S
    /\ UNCHANGED <<locals, overlap>>

-----------------------------------------------------------------------------
(* deleteSessionEvents()                                                    *)

(* SELECT id FROM events WHERE session_id = ?                               *)
DeleteLook(p, s) ==
    /\ Free(p)
    /\ OfSession(s) # {}
    /\ session' = [session EXCEPT ![p] = s]
    /\ found' = [found EXCEPT ![p] = OfSession(s)]
    /\ Goto(p, "delete")
    /\ UNCHANGED <<tables, born, key, outcome, overlap>>

(* The transaction: the related rows of the ids that were read, but every   *)
(* event of the session.  vector_outbox has no event_id column and keeps    *)
(* its rows.  Mistaken variants of the related rows: the levels stay; the   *)
(* dedup rows stay.                                                         *)
LevelsKept(S) == {}
LevelsOf(S) == S
DedupKept(S) == {}
DedupOf(S) == {k \in Keys : dedup[k] \in S}

DeleteRun(p) ==
    /\ pc[p] = "delete"
    /\ dedup' = [k \in Keys |-> IF k \in DedupOf(found[p])
                                THEN None ELSE dedup[k]]
    /\ levels' = levels \ LevelsOf(found[p])
    /\ events' = events \ OfSession(session[p])
    /\ Return(p, outcome[p])
    /\ UNCHANGED <<queued, born, overlap>>

(* A process ends between two statements, or in a transaction that SQLite   *)
(* rolls back; another takes its place.                                     *)
Crash(p) ==
    /\ pc[p] # "idle"
    /\ Return(p, "none")
    /\ UNCHANGED <<tables, born, overlap>>

-----------------------------------------------------------------------------

Next ==
    \E p \in Procs :
        \/ \E k \in Keys : AppendLook(p, k)
        \/ AppendDuplicate(p)
        \/ \E i \in Ids : AppendInsert(p, i)
        \/ \E S \in SUBSET Ids : ImportEvents(p, S)
        \/ \E s \in Sessions : DeleteLook(p, s)
        \/ DeleteRun(p)
        \/ Crash(p)

Spec == Init /\ [][Next]_vars

-----------------------------------------------------------------------------
(* Every variable has its type.                                             *)
TypeOK ==
    /\ events \subseteq Ids /\ levels \subseteq Ids
    /\ queued \subseteq Ids /\ born \subseteq Ids
    /\ dedup \in [Keys -> Ids \cup {None}]
    /\ pc \in [Procs -> PCs]
    /\ key \in [Procs -> Keys \cup {None}]
    /\ session \in [Procs -> Sessions \cup {None}]
    /\ found \in [Procs -> SUBSET Ids]
    /\ outcome \in [Procs -> Outcomes]
    /\ overlap \in BOOLEAN

(* Content is stored once per session, whoever appends or imports it, and   *)
(* whatever is deleted in between.                                          *)
OneEventPerKey ==
    \A i, j \in events : KeyOf[i] = KeyOf[j] => i = j

(* Every stored event is known to append()'s and importEvents()'s duplicate *)
(* check, has a memory level, and was queued for embedding.                 *)
EventsAreKnown ==
    \A i \in events : dedup[KeyOf[i]] = i /\ i \in levels /\ i \in queued

(* A row that survives a delete never makes importEvents() throw, which     *)
(* would roll back its whole batch and stop replication there for ever: a   *)
(* level left behind is always hidden by its dedup row.                     *)
ImportsNeverFail ==
    \A i \in Ids : dedup[KeyOf[i]] = None
                      => i \notin levels /\ WithKey(KeyOf[i]) = {}

(* An append that reports success, new or duplicate, leaves its content in  *)
(* the store (the comment on append(): "Append-only, Idempotent"), unless   *)
(* another process ran inside a delete.                                     *)
SuccessIsStored ==
    [][\A p \in Procs :
          ~overlap /\ pc[p] \in {"insert", "requeue"} /\ pc'[p] = "idle"
          /\ outcome'[p] \in {"new", "duplicate"}
             => \E i \in events' : KeyOf[i] = key[p]]_vars

(* Appending content that is already there is a success ("Idempotent"),     *)
(* and not the error of a transaction that lost a race, while nobody runs   *)
(* inside the append.                                                       *)
RepeatIsNoError ==
    ~overlap => \A p \in Procs : outcome[p] # "error"

(* What deleteSessionEvents() removes can be stored again (its comment:     *)
(* "for force reimport"): no dedup row outlives its event.                  *)
DeletedCanReturn ==
    \A k \in Keys : dedup[k] # None => dedup[k] \in events

(* It holds while no process runs inside the delete of another.             *)
DeletedReturns == ~overlap => DeletedCanReturn

(* The tables of the log agree: content is stored once, every event has the *)
(* rows append() writes with it, and what a delete leaves behind makes no   *)
(* import throw.                                                            *)
LogIsSound == OneEventPerKey /\ EventsAreKnown /\ ImportsNeverFail

Contents == INSTANCE ContentLog WITH
                stored <- {KeyOf[i] : i \in events},
                asked <- key,
                answer <- outcome

(* append(), importEvents() and deleteSessionEvents() implement a set of    *)
(* contents (ContentLog): between the statements of a call and beside the   *)
(* statements of others each takes effect at one point, with the answer     *)
(* that is right there ("Append-only, Idempotent" while calls do not        *)
(* overlap).                                                                *)
ImplementsContents == Contents!Spec

(* Calls can be repeated ("Append-only, Idempotent"): they are atomic on    *)
(* the contents, and while nobody runs inside them, success means that the  *)
(* content is stored, storing it again is no error, and what was deleted    *)
(* can be stored again.                                                     *)
CallsRepeat ==
    /\ [](DeletedReturns /\ RepeatIsNoError) /\ SuccessIsStored
    /\ ImplementsContents
=============================================================================
