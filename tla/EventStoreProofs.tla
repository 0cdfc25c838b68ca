-------------------------- MODULE EventStoreProofs --------------------------
(***************************************************************************)
(* The event log keeps one event per content, and never refuses a           *)
(* replicated event for a row left behind, however its processes            *)
(* interleave; without interleaving inside a call an append or import of    *)
(* content that was deleted stores it again.  An import stores what its     *)
(* transcript says.                                                         *)
(***************************************************************************)
EXTENDS EventStore, Importer, TLAPS

(* Every dedup row and every level row belongs to the other: they are       *)
(* written and deleted together, even where the event is not.               *)
RowsAgree ==
    /\ \A k \in Keys : dedup[k] # None => KeyOf[dedup[k]] = k
    /\ \A i \in levels : dedup[KeyOf[i]] = i

(* A delete only holds ids of its session.                                  *)
FoundInSession ==
    \A p \in Procs : pc[p] = "delete"
        => \A i \in found[p] : SessionOf[KeyOf[i]] = session[p]

LogInv ==
    /\ TypeOK
    /\ RowsAgree
    /\ OneEventPerKey
    /\ EventsAreKnown
    /\ FoundInSession

USE KeyAssumption, SessionAssumption, NoneAssumption

LEMMA InvImpliesNoFailure == LogInv => ImportsNeverFail
  BY DEF LogInv, RowsAgree, EventsAreKnown, ImportsNeverFail, WithKey, TypeOK

LEMMA LogInitial == Init => LogInv
  BY DEF Init, LogInv, TypeOK, PCs, Outcomes, RowsAgree, OneEventPerKey,
         EventsAreKnown, FoundInSession

(* A transaction that inserts rows no constraint forbids, with one event    *)
(* per key, keeps the tables consistent.                                    *)
LEMMA InsertKeepsTables ==
  ASSUME LogInv, NEW N \in SUBSET Ids, InsertRows(N),
         \A i \in N : ~Conflict(i),
         \A i, j \in N : KeyOf[i] = KeyOf[j] => i = j
  PROVE  /\ events' \subseteq Ids /\ levels' \subseteq Ids
         /\ queued' \subseteq Ids
         /\ dedup' \in [Keys -> Ids \cup {None}]
         /\ RowsAgree' /\ OneEventPerKey' /\ EventsAreKnown'
<1> USE DEF LogInv, TypeOK, InsertRows
<1>1. ASSUME NEW i \in N PROVE dedup'[KeyOf[i]] = i
  <2>1. \E j \in N : KeyOf[j] = KeyOf[i]
    OBVIOUS
  <2>2. (CHOOSE j \in N : KeyOf[j] = KeyOf[i]) = i
    OBVIOUS
  <2> QED BY <2>1, <2>2
<1>2. ASSUME NEW k \in Keys, \A i \in N : KeyOf[i] # k
      PROVE  dedup'[k] = dedup[k]
  BY <1>2
<1>3. dedup' \in [Keys -> Ids \cup {None}]
  OBVIOUS
<1>4. RowsAgree'
  <2>1. ASSUME NEW k \in Keys, dedup'[k] # None PROVE KeyOf[dedup'[k]] = k
    <3>1. CASE \E i \in N : KeyOf[i] = k
      BY <3>1, <1>1
    <3>2. CASE \A i \in N : KeyOf[i] # k
      BY <3>2, <2>1, <1>2 DEF RowsAgree
    <3> QED BY <3>1, <3>2
  <2>2. ASSUME NEW i \in levels' PROVE dedup'[KeyOf[i]] = i
    <3>1. CASE i \in N
      BY <3>1, <1>1
    <3>2. CASE i \notin N
      <4>1. i \in levels /\ dedup[KeyOf[i]] = i
        BY <2>2, <3>2 DEF RowsAgree
      <4>2. \A j \in N : KeyOf[j] # KeyOf[i]
        BY <4>1 DEF Conflict
      <4> QED BY <4>1, <4>2, <1>2
    <3> QED BY <3>1, <3>2
  <2> QED BY <2>1, <2>2 DEF RowsAgree
<1>5. OneEventPerKey'
  BY DEF OneEventPerKey, Conflict, WithKey
<1>6. EventsAreKnown'
  <2>1. ASSUME NEW i \in events' PROVE dedup'[KeyOf[i]] = i
    <3>1. CASE i \in N
      BY <3>1, <1>1
    <3>2. CASE i \notin N
      <4>1. i \in events /\ dedup[KeyOf[i]] = i
        BY <2>1, <3>2 DEF EventsAreKnown
      <4>2. \A j \in N : KeyOf[j] # KeyOf[i]
        BY <4>1 DEF Conflict
      <4> QED BY <4>1, <4>2, <1>2
    <3> QED BY <3>1, <3>2
  <2> QED BY <2>1 DEF EventsAreKnown
<1> QED BY <1>3, <1>4, <1>5, <1>6

(* The return of a call changes no table.                                   *)
LEMMA ReturnKeepsTypes ==
  ASSUME LogInv, NEW p \in Procs, NEW o \in Outcomes, Return(p, o)
  PROVE  /\ pc' \in [Procs -> PCs] /\ key' \in [Procs -> Keys \cup {None}]
         /\ session' \in [Procs -> Sessions \cup {None}]
         /\ found' \in [Procs -> SUBSET Ids]
         /\ outcome' \in [Procs -> Outcomes]
         /\ FoundInSession'
  BY DEF LogInv, TypeOK, Return, Goto, PCs, FoundInSession

LEMMA LogStep == LogInv /\ [Next]_vars => LogInv'
<1> SUFFICES ASSUME LogInv, [Next]_vars PROVE LogInv'
  OBVIOUS
<1>1. ASSUME NEW p \in Procs, NEW k \in Keys, AppendLook(p, k) PROVE LogInv'
  <2>1. TypeOK'
    BY <1>1 DEF AppendLook, LogInv, TypeOK, Goto, PCs, tables
  <2>2. FoundInSession'
    BY <1>1 DEF AppendLook, LogInv, TypeOK, Goto, FoundInSession
  <2> QED BY <1>1, <2>1, <2>2 DEF AppendLook, LogInv, RowsAgree, tables,
                                  OneEventPerKey, EventsAreKnown
<1>2. ASSUME NEW p \in Procs, AppendDuplicate(p) PROVE LogInv'
  <2>1. TypeOK' /\ FoundInSession'
    BY <1>2, ReturnKeepsTypes DEF AppendDuplicate, LogInv, TypeOK, Outcomes
  <2> QED BY <1>2, <2>1 DEF AppendDuplicate, LogInv, RowsAgree,
                            OneEventPerKey, EventsAreKnown
<1>3. ASSUME NEW p \in Procs, NEW i \in Ids, AppendInsert(p, i) PROVE LogInv'
  <2>1. CASE Conflict(i)
    <3>1. TypeOK' /\ FoundInSession'
      BY <1>3, <2>1, ReturnKeepsTypes
         DEF AppendInsert, LogInv, TypeOK, Outcomes, tables
    <3> QED BY <1>3, <2>1, <3>1 DEF AppendInsert, LogInv, RowsAgree, tables,
                                    OneEventPerKey, EventsAreKnown
  <2>2. CASE ~Conflict(i)
    <3>1. /\ InsertRows({i}) /\ Return(p, "new")
          /\ born' = born \cup {i} /\ overlap' = overlap
      BY <1>3, <2>2 DEF AppendInsert
    <3>2. /\ events' \subseteq Ids /\ levels' \subseteq Ids
          /\ queued' \subseteq Ids /\ dedup' \in [Keys -> Ids \cup {None}]
          /\ RowsAgree' /\ OneEventPerKey' /\ EventsAreKnown'
      BY <2>2, <3>1, InsertKeepsTables
    <3>3. TypeOK' /\ FoundInSession'
      BY <3>1, <3>2, ReturnKeepsTypes DEF LogInv, TypeOK, Outcomes
    <3> QED BY <3>2, <3>3 DEF LogInv
  <2> QED BY <2>1, <2>2
<1>4. ASSUME NEW p \in Procs, NEW S \in SUBSET Ids, ImportEvents(p, S)
      PROVE  LogInv'
  <2>1. UNCHANGED <<locals, overlap>> /\ born' = born \cup S
    BY <1>4 DEF ImportEvents
  <2>2. PICK N \in SUBSET S :
            /\ New(S, N)
            /\ IF \E i \in N : Conflict(i)
               THEN UNCHANGED tables ELSE InsertRows(N)
    BY <1>4 DEF ImportEvents
  <2>3. CASE UNCHANGED tables
    BY <2>1, <2>3 DEF LogInv, TypeOK, RowsAgree, tables, locals,
                      OneEventPerKey, EventsAreKnown, FoundInSession
  <2>4. CASE InsertRows(N) /\ \A i \in N : ~Conflict(i)
    <3>1. \A i, j \in N : KeyOf[i] = KeyOf[j] => i = j
      BY <2>2 DEF New
    <3>2. /\ events' \subseteq Ids /\ levels' \subseteq Ids
          /\ queued' \subseteq Ids /\ dedup' \in [Keys -> Ids \cup {None}]
          /\ RowsAgree' /\ OneEventPerKey' /\ EventsAreKnown'
      BY <2>4, <3>1, InsertKeepsTables
    <3> QED BY <2>1, <3>2 DEF LogInv, TypeOK, locals, FoundInSession
  <2> QED BY <2>2, <2>3, <2>4
<1>5. ASSUME NEW p \in Procs, NEW s \in Sessions, DeleteLook(p, s)
      PROVE  LogInv'
  <2>1. TypeOK'
    BY <1>5 DEF DeleteLook, LogInv, TypeOK, Goto, PCs, tables, OfSession
  <2>2. FoundInSession'
    BY <1>5 DEF DeleteLook, LogInv, TypeOK, Goto, FoundInSession, OfSession
  <2> QED BY <1>5, <2>1, <2>2 DEF DeleteLook, LogInv, RowsAgree, tables,
                                  OneEventPerKey, EventsAreKnown
<1>6. ASSUME NEW p \in Procs, DeleteRun(p) PROVE LogInv'
  <2>1. Return(p, outcome[p]) /\ outcome[p] \in Outcomes
    BY <1>6 DEF DeleteRun, LogInv, TypeOK
  <2>2. TypeOK' /\ FoundInSession'
    BY <1>6, <2>1, ReturnKeepsTypes DEF DeleteRun, LogInv, TypeOK
  <2>3. \A k \in Keys : dedup'[k] = IF dedup[k] \in found[p]
                                    THEN None ELSE dedup[k]
    BY <1>6 DEF DeleteRun, DedupOf
  <2>4. levels' = levels \ found[p]
    BY <1>6 DEF DeleteRun, LevelsOf
  <2>5. RowsAgree'
    BY <2>3, <2>4 DEF LogInv, TypeOK, RowsAgree
  <2>6. \A i \in events' : i \in events /\ i \notin found[p]
    BY <1>6 DEF DeleteRun, OfSession, LogInv, FoundInSession
  <2>7. EventsAreKnown'
    BY <1>6, <2>3, <2>4, <2>6 DEF DeleteRun, LogInv, TypeOK, EventsAreKnown
  <2>8. OneEventPerKey'
    BY <2>6 DEF LogInv, OneEventPerKey
  <2> QED BY <2>2, <2>5, <2>7, <2>8 DEF LogInv
<1>7. ASSUME NEW p \in Procs, Crash(p) PROVE LogInv'
  <2>1. TypeOK' /\ FoundInSession'
    BY <1>7, ReturnKeepsTypes DEF Crash, LogInv, TypeOK, Outcomes, tables
  <2> QED BY <1>7, <2>1 DEF Crash, LogInv, RowsAgree, tables,
                            OneEventPerKey, EventsAreKnown
<1>8. CASE UNCHANGED vars
  BY <1>8 DEF vars, tables, locals, LogInv, TypeOK, RowsAgree,
              OneEventPerKey, EventsAreKnown, FoundInSession
<1> QED BY <1>1, <1>2, <1>3, <1>4, <1>5, <1>6, <1>7, <1>8 DEF Next

(* However the processes interleave, content is stored at most once per     *)
(* session (append, importEvents and the UNIQUE keys), every stored event   *)
(* is known to the duplicate check, has its level and was queued, and no    *)
(* row left by deleteSessionEvents() makes importEvents() throw.            *)
THEOREM LogIsConsistent == Spec => [](TypeOK /\ LogIsSound)
<1>1. LogInv => TypeOK /\ LogIsSound
  BY InvImpliesNoFailure DEF LogInv, LogIsSound
<1> QED BY LogInitial, LogStep, <1>1, PTL DEF Spec

-----------------------------------------------------------------------------
(* What a process read still holds while no other process interferes.       *)
SerialInv ==
    /\ \A p, q \in Procs : pc[p] # "idle" /\ pc[q] # "idle" => p = q
    /\ \A p \in Procs :
          /\ pc[p] = "insert" => key[p] \in Keys /\ dedup[key[p]] = None
          /\ pc[p] = "requeue" => /\ key[p] \in Keys /\ dedup[key[p]] # None
                                  /\ found[p] = {dedup[key[p]]}
          /\ pc[p] = "delete" => found[p] = OfSession(session[p])
    /\ DeletedCanReturn
    /\ RepeatIsNoError

LEMMA OverlapStays == [Next]_vars => UNCHANGED overlap
  BY DEF Next, AppendLook, AppendDuplicate, AppendInsert, ImportEvents,
         DeleteLook, DeleteRun, Crash, vars

LEMMA SerialStep ==
  ASSUME ~overlap, LogInv, LogInv', SerialInv, [Next]_vars
  PROVE  SerialInv'
<1> USE DEF SerialInv, LogInv, TypeOK
<1>1. ASSUME NEW p \in Procs, NEW k \in Keys, AppendLook(p, k)
      PROVE  SerialInv'
  BY <1>1 DEF AppendLook, Free, MayStart, Goto, tables, DeletedCanReturn,
              RepeatIsNoError
<1>2. ASSUME NEW p \in Procs, AppendDuplicate(p) PROVE SerialInv'
  BY <1>2 DEF AppendDuplicate, Return, Goto, DeletedCanReturn,
              RepeatIsNoError
<1>3. ASSUME NEW p \in Procs, NEW i \in Ids, AppendInsert(p, i)
      PROVE  SerialInv'
  <2>1. ~Conflict(i)
    BY <1>3, InvImpliesNoFailure
       DEF AppendInsert, Conflict, ImportsNeverFail
  <2>2. InsertRows({i}) /\ Return(p, "new")
    BY <1>3, <2>1 DEF AppendInsert
  <2>3. DeletedCanReturn'
    BY <2>2 DEF InsertRows, DeletedCanReturn
  <2> QED BY <2>2, <2>3, <1>3 DEF AppendInsert, Return, Goto, RepeatIsNoError
<1>4. ASSUME NEW p \in Procs, NEW S \in SUBSET Ids, ImportEvents(p, S)
      PROVE  SerialInv'
  <2>1. \A q \in Procs : pc[q] = "idle"
    BY <1>4 DEF ImportEvents, Free, MayStart
  <2>2. PICK N \in SUBSET S : UNCHANGED tables \/ InsertRows(N)
    BY <1>4 DEF ImportEvents
  <2>3. DeletedCanReturn'
    BY <2>2 DEF InsertRows, DeletedCanReturn, tables
  <2> QED BY <1>4, <2>1, <2>3 DEF ImportEvents, locals, RepeatIsNoError
<1>5. ASSUME NEW p \in Procs, NEW s \in Sessions, DeleteLook(p, s)
      PROVE  SerialInv'
  BY <1>5 DEF DeleteLook, Free, MayStart, Goto, tables, OfSession,
              DeletedCanReturn, RepeatIsNoError
<1>6. ASSUME NEW p \in Procs, DeleteRun(p) PROVE SerialInv'
  <2>1. found[p] = OfSession(session[p])
    BY <1>6 DEF DeleteRun
  <2>2. DeletedCanReturn'
    BY <1>6, <2>1 DEF DeleteRun, DedupOf, DeletedCanReturn
  <2> QED BY <1>6, <2>2 DEF DeleteRun, Return, Goto, RepeatIsNoError
<1>7. ASSUME NEW p \in Procs, Crash(p) PROVE SerialInv'
  BY <1>7 DEF Crash, Return, Goto, tables, DeletedCanReturn, RepeatIsNoError
<1>8. CASE UNCHANGED vars
  BY <1>8 DEF vars, tables, locals, DeletedCanReturn, RepeatIsNoError,
              OfSession
<1> QED BY <1>1, <1>2, <1>3, <1>4, <1>5, <1>6, <1>7, <1>8 DEF Next

(* While no other process runs inside an append or a delete, what was       *)
(* deleted can be stored again, repeating an append is no error, and an     *)
(* append that reports success has its content in the store.                *)
THEOREM SerialLogIsIdempotent ==
  Spec => [](DeletedReturns /\ RepeatIsNoError) /\ SuccessIsStored
<1> DEFINE Inv == LogInv /\ (~overlap => SerialInv)
<1>1. Init => Inv
  BY LogInitial DEF Init, SerialInv, DeletedCanReturn, RepeatIsNoError
<1>2. Inv /\ [Next]_vars => Inv'
  BY LogStep, SerialStep, OverlapStays
<1>3. Inv => DeletedReturns /\ RepeatIsNoError
  BY DEF SerialInv, DeletedReturns, RepeatIsNoError
<1>4. Inv /\ [Next]_vars
        => [\A p \in Procs :
               ~overlap /\ pc[p] \in {"insert", "requeue"} /\ pc'[p] = "idle"
               /\ outcome'[p] \in {"new", "duplicate"}
                  => \E i \in events' : KeyOf[i] = key[p]]_vars
  <2> SUFFICES ASSUME LogInv, SerialInv, ~overlap, Next, NEW p \in Procs,
                      pc[p] \in {"insert", "requeue"}, pc'[p] = "idle",
                      outcome'[p] \in {"new", "duplicate"}
               PROVE  \E i \in events' : KeyOf[i] = key[p]
    OBVIOUS
  <2> USE DEF LogInv, TypeOK, SerialInv
  <2>1. \A q \in Procs : pc[q] # "idle" => q = p
    OBVIOUS
  <2>2. CASE AppendDuplicate(p)
    <3>1. dedup[key[p]] \in events /\ KeyOf[dedup[key[p]]] = key[p]
      BY <2>2 DEF AppendDuplicate, DeletedCanReturn, RowsAgree
    <3> QED BY <2>2, <3>1 DEF AppendDuplicate
  <2>3. ASSUME NEW i \in Ids, AppendInsert(p, i)
        PROVE  \E j \in events' : KeyOf[j] = key[p]
    <3>1. ~Conflict(i)
      BY <2>3, InvImpliesNoFailure
         DEF AppendInsert, Conflict, ImportsNeverFail
    <3> QED BY <2>3, <3>1 DEF AppendInsert, InsertRows
  <2>4. ASSUME NEW q \in Procs, Crash(q) PROVE FALSE
    BY <2>1, <2>4 DEF Crash, Return
  <2> QED BY <2>1, <2>2, <2>3, <2>4
          DEF Next, AppendLook, AppendDuplicate, AppendInsert, ImportEvents,
              DeleteLook, DeleteRun, Free, MayStart, locals
<1> QED BY <1>1, <1>2, <1>3, <1>4, PTL DEF Spec, SuccessIsStored

-----------------------------------------------------------------------------
(* The event store implements a set of contents.                            *)

(* A call holds the content it appends, or the session it deletes.          *)
CallsHold ==
    \A p \in Procs :
        /\ pc[p] \in {"insert", "requeue"} => key[p] \in Keys
        /\ pc[p] \in {"idle", "delete"} => key[p] = None
        /\ pc[p] = "delete" => session[p] \in Sessions

LEMMA CallsHoldStep ==
  ASSUME LogInv, CallsHold, [Next]_vars
  PROVE  CallsHold'
<1> USE DEF LogInv, TypeOK, CallsHold, PCs
<1>1. ASSUME NEW p \in Procs, NEW o, Return(p, o) PROVE CallsHold'
  BY <1>1 DEF Return, Goto
<1>2. ASSUME NEW p \in Procs, NEW k \in Keys, AppendLook(p, k)
      PROVE  CallsHold'
  BY <1>2 DEF AppendLook, Goto
<1>3. ASSUME NEW p \in Procs, NEW s \in Sessions, DeleteLook(p, s)
      PROVE  CallsHold'
  BY <1>3 DEF DeleteLook, Free, MayStart, Goto
<1>4. ASSUME NEW p \in Procs, NEW S \in SUBSET Ids, ImportEvents(p, S)
      PROVE  CallsHold'
  BY <1>4 DEF ImportEvents, locals
<1>5. ASSUME NEW p \in Procs,
             \/ AppendDuplicate(p) \/ DeleteRun(p) \/ Crash(p)
             \/ \E i \in Ids : AppendInsert(p, i)
      PROVE  CallsHold'
  <2>1. \E o : Return(p, o)
    BY <1>5 DEF AppendDuplicate, DeleteRun, Crash, AppendInsert
  <2> QED BY <2>1, <1>1
<1>6. CASE UNCHANGED vars
  BY <1>6 DEF vars, locals
<1> QED BY <1>2, <1>3, <1>4, <1>5, <1>6 DEF Next

(* What a transaction that inserts events adds to the contents.             *)
LEMMA InsertAddsContents ==
  ASSUME LogInv, NEW N \in SUBSET Ids, InsertRows(N),
         \A i \in N : ~Conflict(i)
  PROVE  /\ {KeyOf[i] : i \in events}'
               = {KeyOf[i] : i \in events} \cup {KeyOf[i] : i \in N}
         /\ {KeyOf[i] : i \in N} \cap {KeyOf[i] : i \in events} = {}
<1>1. events' = events \cup N
  BY DEF InsertRows
<1>2. \A i \in N, j \in events : KeyOf[i] # KeyOf[j]
  BY DEF Conflict, WithKey
<1> QED BY <1>1, <1>2

(* Every statement is a step of the set of contents, or leaves it alone.    *)
LEMMA ContentStep ==
  ASSUME LogInv, CallsHold, ~overlap => SerialInv, [Next]_vars
  PROVE  [Contents!Next]_(Contents!vars)
<1> DEFINE Stored == {KeyOf[i] : i \in events}
<1> USE DEF LogInv, TypeOK, PCs, Contents!vars
<1>0. Stored \subseteq Keys
  OBVIOUS
<1>1. ASSUME NEW p \in Procs, NEW k \in Keys, AppendLook(p, k)
      PROVE  Contents!Ask(p, k)
  BY <1>1 DEF AppendLook, Free, MayStart, tables, CallsHold, Contents!Ask
<1>2. ASSUME NEW p \in Procs, AppendDuplicate(p)
      PROVE  Contents!Repeat(p)
  <2>1. key[p] \in Keys /\ events' = events
    BY <1>2 DEF AppendDuplicate, CallsHold
  <2>2. ~overlap => key[p] \in Stored
    <3> SUFFICES ASSUME ~overlap PROVE key[p] \in Stored
      OBVIOUS
    <3>1. dedup[key[p]] \in events
      BY <1>2, <2>1 DEF AppendDuplicate, SerialInv, DeletedCanReturn
    <3>2. KeyOf[dedup[key[p]]] = key[p]
      BY <1>2, <2>1 DEF AppendDuplicate, SerialInv, RowsAgree
    <3> QED BY <3>1, <3>2
  <2> QED BY <1>2, <2>1, <2>2
          DEF AppendDuplicate, Return, Contents!Repeat, Contents!Say
<1>3. ASSUME NEW p \in Procs, NEW i \in Ids, AppendInsert(p, i)
      PROVE  Contents!Add(p) \/ Contents!Refuse(p)
  <2>1. key[p] \in Keys /\ KeyOf[i] = key[p] /\ overlap' = overlap
    BY <1>3 DEF AppendInsert, CallsHold
  <2>2. CASE Conflict(i)
    <3>1. Return(p, "error") /\ events' = events
      BY <1>3, <2>2 DEF AppendInsert, tables
    <3>2. overlap
      <4>1. dedup[key[p]] = None => ~Conflict(i)
        BY <2>1, InvImpliesNoFailure DEF Conflict, ImportsNeverFail
      <4> QED BY <1>3, <2>1, <2>2, <4>1 DEF AppendInsert, SerialInv
    <3> QED BY <2>1, <3>1, <3>2 DEF Return, Contents!Refuse, Contents!Say
  <2>3. CASE ~Conflict(i)
    <3>1. Return(p, "new") /\ InsertRows({i})
      BY <1>3, <2>3 DEF AppendInsert
    <3>2. /\ {KeyOf[j] : j \in events}' = Stored \cup {key[p]}
          /\ key[p] \notin Stored
      <4>1. {KeyOf[j] : j \in {i}} = {key[p]}
        BY <2>1
      <4> QED BY <2>3, <3>1, <4>1, InsertAddsContents
    <3> QED BY <2>1, <3>1, <3>2 DEF Return, Contents!Add, Contents!Say
  <2> QED BY <2>2, <2>3
<1>4. ASSUME NEW p \in Procs, NEW S \in SUBSET Ids, ImportEvents(p, S)
      PROVE  \E A \in SUBSET Keys : \E T \in SUBSET A : Contents!Import(A, T)
  <2>1. PICK N \in SUBSET S :
            /\ New(S, N)
            /\ IF \E i \in N : Conflict(i)
               THEN UNCHANGED tables ELSE InsertRows(N)
    BY <1>4 DEF ImportEvents
  <2>2. \A i \in N : ~Conflict(i)
    BY <2>1, InvImpliesNoFailure DEF New, Conflict, ImportsNeverFail
  <2> DEFINE A == {KeyOf[i] : i \in S}
             T == {KeyOf[i] : i \in N}
  <2>3. /\ {KeyOf[i] : i \in events}' = Stored \cup T
        /\ T \cap Stored = {}
    BY <2>1, <2>2, InsertAddsContents
  <2>4. ~overlap => A \subseteq Stored \cup T
    <3> SUFFICES ASSUME ~overlap, NEW i \in S
                 PROVE  KeyOf[i] \in Stored \cup T
      OBVIOUS
    <3>1. CASE i \in N \/ i \in events \/ \E j \in N : KeyOf[j] = KeyOf[i]
      BY <3>1
    <3>2. CASE dedup[KeyOf[i]] # None
      <4>1. dedup[KeyOf[i]] \in events /\ KeyOf[dedup[KeyOf[i]]] = KeyOf[i]
        BY <3>2 DEF SerialInv, DeletedCanReturn, RowsAgree
      <4> QED BY <4>1
    <3> QED BY <2>1, <3>1, <3>2 DEF New
  <2>5. UNCHANGED <<key, outcome, overlap>>
    BY <1>4 DEF ImportEvents, locals
  <2>6. A \in SUBSET Keys /\ T \in SUBSET A
    OBVIOUS
  <2>7. Contents!Import(A, T)
    BY <2>3, <2>4, <2>5, <2>6 DEF Contents!Import
  <2> QED BY <2>6, <2>7
<1>5. ASSUME NEW p \in Procs, NEW s \in Sessions, DeleteLook(p, s)
      PROVE  UNCHANGED Contents!vars
  BY <1>5 DEF DeleteLook, tables
<1>6. ASSUME NEW p \in Procs, DeleteRun(p)
      PROVE  \E s \in Sessions : Contents!DeleteSession(s)
  <2>1. session[p] \in Sessions /\ key[p] = None
    BY <1>6 DEF DeleteRun, CallsHold
  <2>2. UNCHANGED <<key, outcome, overlap>>
    BY <1>6, <2>1 DEF DeleteRun, Return
  <2>3. {KeyOf[i] : i \in events}'
           = {k \in Stored : SessionOf[k] # session[p]}
    BY <1>6 DEF DeleteRun, OfSession
  <2>4. Contents!DeleteSession(session[p])
    BY <2>2, <2>3 DEF Contents!DeleteSession
  <2> QED BY <2>1, <2>4 DEF Contents!DeleteSession
<1>7. ASSUME NEW p \in Procs, Crash(p) PROVE Contents!Die(p)
  BY <1>7 DEF Crash, Return, tables, Contents!Die, Contents!Say
<1>8. CASE UNCHANGED vars
  BY <1>8 DEF vars, tables, locals
<1> QED BY <1>1, <1>2, <1>3, <1>4, <1>5, <1>6, <1>7, <1>8
        DEF Next, Contents!Next

(* append(), importEvents() and deleteSessionEvents() take effect at one    *)
(* point each, whatever runs between and beside their statements; their     *)
(* answers are right there while calls do not overlap.                      *)
THEOREM StoreImplementsContents == Spec => ImplementsContents
<1> DEFINE Inv == LogInv /\ CallsHold /\ (~overlap => SerialInv)
<1>1. Init => Inv
  BY LogInitial DEF Init, CallsHold, SerialInv, DeletedCanReturn,
                    RepeatIsNoError
<1>2. Inv /\ [Next]_vars => Inv'
  BY LogStep, SerialStep, OverlapStays, CallsHoldStep
<1>3. Init => Contents!Init
  BY DEF Init, Contents!Init
<1>4. Inv /\ [Next]_vars => [Contents!Next]_(Contents!vars)
  BY ContentStep
<1> QED BY <1>1, <1>2, <1>3, <1>4, PTL
        DEF Spec, ImplementsContents, Contents!Spec

(* So a caller may repeat what it is not sure of: the calls are atomic on   *)
(* the contents, and while they do not overlap, success means stored, a     *)
(* repetition is no error and what was deleted can return.                  *)
THEOREM CallsCanBeRepeated == Spec => CallsRepeat
BY SerialLogIsIdempotent, StoreImplementsContents DEF CallsRepeat

-----------------------------------------------------------------------------
(* The import of a transcript s: its prompts and texts; the texts around n, *)
(* of those up to z; the texts that end at z; the last prompt up to z.      *)
SaidIn(s) == {n \in 1 .. Len(s) : s[n] \in Prompts}
TextsIn(s) == {n \in 1 .. Len(s) : s[n] = "text"}
Run(s, n, z) ==
    {m \in TextsIn(s) : m <= z /\ (m .. n) \cup (n .. m) \subseteq TextsIn(s)}
Trailing(s, z) == {m \in TextsIn(s) : m <= z /\ m .. z \subseteq TextsIn(s)}
LastPrompt(s, m, z) == /\ m \in SaidIn(s) /\ m <= z
                       /\ \A k \in SaidIn(s) : k <= z => k <= m
Once(s, m) == \A k \in SaidIn(s) : s[k] = s[m] => k = m

(* The events E are those of s up to z, but for the texts C.                *)
AnswersIn(E) == {v \in E : v.prompt = ""}
AnswersTo(s, E, z, C) ==
    /\ \A v \in AnswersIn(E) : \E n \in TextsIn(s) : /\ n <= z /\ n \notin C
                                                    /\ v.texts = Run(s, n, z)
    /\ \A n \in TextsIn(s) : n <= z /\ n \notin C =>
          \E v \in AnswersIn(E) : v.texts = Run(s, n, z)
InTurns(s, E) ==
    \A v \in AnswersIn(E) : \A n \in v.texts : \E m \in SaidIn(s) :
          /\ LastPrompt(s, m, n)
          /\ Once(s, m) => PromptOf(s[m], v.turn) \in E
PromptsTo(s, E, z) ==
    \A v \in E : v.prompt # "" => \E n \in SaidIn(s) : n <= z /\ v.prompt = s[n]
ReadTo(s, E, z, C) ==
    AnswersTo(s, E, z, C) /\ InTurns(s, E) /\ PromptsTo(s, E, z)

LEMMA PlacesOfEntries ==
  ASSUME spoken \in Seq(Entry)
  PROVE  /\ Said = SaidIn(spoken) /\ TextPlaces = TextsIn(spoken)
         /\ Answers = AnswersIn(imported)
         /\ \A n : SaidOnce(n) <=> Once(spoken, n)
<1>1. DOMAIN spoken = 1 .. Len(spoken)
  OBVIOUS
<1>2. Said = SaidIn(spoken) /\ TextPlaces = TextsIn(spoken)
  BY <1>1 DEF Said, SaidIn, TextPlaces, TextsIn
<1>3. Answers = AnswersIn(imported)
  BY DEF Answers, AnswersIn
<1> QED BY <1>2, <1>3 DEF SaidOnce, Once

LEMMA PromptsAreNoTexts ==
  ASSUME NEW s
  PROVE  SaidIn(s) \cap TextsIn(s) = {}
  BY DEF SaidIn, TextsIn, Prompts

LEMMA WithBoth ==
  ASSUME NEW v, NEW E
  PROVE  /\ E \subseteq WithEvent(v, E) /\ WithEvent(v, E) \subseteq E \cup {v}
         /\ \E w \in WithEvent(v, E) : w.prompt = v.prompt /\ w.texts = v.texts
  BY DEF WithEvent

(* What was read stays so when the session goes on.                         *)
LEMMA GoesOn ==
  ASSUME NEW s \in Seq(Entry), NEW t \in Seq(Entry), Len(t) >= Len(s),
         \A n \in 1 .. Len(s) : t[n] = s[n],
         NEW z \in 0 .. Len(s)
  PROVE  /\ \A n \in Nat : n <= z => /\ n \in TextsIn(t) <=> n \in TextsIn(s)
                                     /\ n \in SaidIn(t) <=> n \in SaidIn(s)
         /\ Trailing(t, z) = Trailing(s, z)
         /\ \A m \in SaidIn(s) : LastPrompt(s, m, z) => LastPrompt(t, m, z)
         /\ \A m \in SaidIn(s) : Once(t, m) => Once(s, m)
         /\ \A E, C : ReadTo(s, E, z, C) => ReadTo(t, E, z, C)
<1>0. Len(s) \in Nat /\ Len(t) \in Nat
  OBVIOUS
<1>1. \A n \in Nat : n <= z => /\ n \in TextsIn(t) <=> n \in TextsIn(s)
                               /\ n \in SaidIn(t) <=> n \in SaidIn(s)
  BY <1>0 DEF TextsIn, SaidIn
<1>2. /\ TextsIn(s) \subseteq Nat /\ TextsIn(t) \subseteq Nat
      /\ SaidIn(s) \subseteq Nat /\ SaidIn(t) \subseteq Nat
      /\ SaidIn(s) \subseteq SaidIn(t)
      /\ \A m \in SaidIn(s) : t[m] = s[m]
  BY <1>0 DEF TextsIn, SaidIn
<1>3. Trailing(t, z) = Trailing(s, z)
  BY <1>1, <1>2 DEF Trailing
<1>4. \A m \in SaidIn(s), y \in Nat :
         y <= z /\ LastPrompt(s, m, y) => LastPrompt(t, m, y)
  BY <1>1, <1>2 DEF LastPrompt
<1>5. \A m \in SaidIn(s) : Once(t, m) => Once(s, m)
  BY <1>2 DEF Once
<1>6. \A n \in TextsIn(s) : n <= z => Run(t, n, z) = Run(s, n, z)
  BY <1>1, <1>2 DEF Run
<1>7. ASSUME NEW E, NEW C, ReadTo(s, E, z, C) PROVE ReadTo(t, E, z, C)
  <2>1. AnswersTo(t, E, z, C)
    BY <1>1, <1>2, <1>6, <1>7 DEF ReadTo, AnswersTo
  <2>2. \A v \in AnswersIn(E) : \A n \in v.texts : n \in Nat /\ n <= z
    BY <1>2, <1>7 DEF ReadTo, AnswersTo, Run
  <2>3. InTurns(t, E)
    BY <1>2, <1>4, <1>5, <1>7, <2>2 DEF ReadTo, InTurns
  <2>4. PromptsTo(t, E, z)
    BY <1>2, <1>7 DEF ReadTo, PromptsTo
  <2> QED BY <2>1, <2>3, <2>4 DEF ReadTo
<1> QED BY <1>1, <1>3, <1>4, <1>5, <1>7

(* A text is collected.                                                     *)
LEMMA TextIsRead ==
  ASSUME NEW s \in Seq(Entry), NEW z \in Nat, z < Len(s), s[z + 1] = "text",
         NEW E, ReadTo(s, E, z, Trailing(s, z))
  PROVE  /\ Trailing(s, z + 1) = Trailing(s, z) \cup {z + 1}
         /\ ReadTo(s, E, z + 1, Trailing(s, z) \cup {z + 1})
         /\ \A m \in SaidIn(s) :
               LastPrompt(s, m, z) => LastPrompt(s, m, z + 1)
<1> DEFINE C == Trailing(s, z)
           T == TextsIn(s)
<1>0. /\ z + 1 \in T /\ z + 1 \notin SaidIn(s)
      /\ T \subseteq Nat /\ SaidIn(s) \subseteq Nat
  BY DEF TextsIn, SaidIn, Prompts
<1>1. C = {m \in T : m <= z /\ m .. z \subseteq T}
  BY DEF Trailing
<1>2. Trailing(s, z + 1) = C \cup {z + 1}
  <2>1. \A m \in Nat : m <= z =>
           (m .. (z + 1) \subseteq T <=> m .. z \subseteq T)
    BY <1>0
  <2>2. (z + 1) .. (z + 1) \subseteq T
    BY <1>0
  <2> QED BY <1>0, <1>1, <2>1, <2>2 DEF Trailing
<1>3. \A n \in T : n <= z /\ n \notin C => Run(s, n, z + 1) = Run(s, n, z)
  <2> SUFFICES ASSUME NEW n \in T, n <= z, n \notin C
               PROVE  Run(s, n, z + 1) = Run(s, n, z)
    OBVIOUS
  <2>1. ~(n .. (z + 1) \subseteq T)
    BY <1>0, <1>1
  <2> QED BY <1>0, <2>1 DEF Run
<1>4. \A n \in T : n <= z + 1 /\ n \notin C \cup {z + 1} <=> n <= z /\ n \notin C
  BY <1>0
<1> HIDE DEF C, T
<1>5. AnswersTo(s, E, z + 1, C \cup {z + 1})
  <2>1. AnswersTo(s, E, z, C)
    BY DEF ReadTo, C
  <2> QED BY <2>1, <1>3, <1>4 DEF AnswersTo, T
<1>6. PromptsTo(s, E, z + 1) /\ InTurns(s, E)
  <2>1. \A n \in SaidIn(s) : n <= z => n <= z + 1
    BY <1>0
  <2>2. PromptsTo(s, E, z) /\ InTurns(s, E)
    BY DEF ReadTo
  <2> QED BY <2>1, <2>2 DEF PromptsTo
<1>7. \A m \in SaidIn(s) : LastPrompt(s, m, z) => LastPrompt(s, m, z + 1)
  BY <1>0 DEF LastPrompt
<1> QED BY <1>2, <1>5, <1>6, <1>7 DEF ReadTo, C

(* The collected texts become an answer.                                    *)
LEMMA TextsAreAnswered ==
  ASSUME NEW s \in Seq(Entry), NEW z \in 0 .. Len(s), NEW E, NEW id,
         ReadTo(s, E, z, Trailing(s, z)), Trailing(s, z) # {},
         NEW m \in SaidIn(s), LastPrompt(s, m, z),
         Once(s, m) => PromptOf(s[m], id) \in E
  PROVE  ReadTo(s, WithEvent(AnswerOf(Trailing(s, z), id), E), z, {})
<1> DEFINE C == Trailing(s, z)
           T == TextsIn(s)
           a == AnswerOf(C, id)
           F == WithEvent(a, E)
<1>0. T \subseteq Nat /\ SaidIn(s) \subseteq Nat /\ Len(s) \in Nat
      /\ SaidIn(s) \cap T = {}
  BY PromptsAreNoTexts DEF TextsIn, SaidIn
<1>1. C = {k \in T : k <= z /\ k .. z \subseteq T}
  BY DEF Trailing
<1>2. \A n \in C : Run(s, n, z) = C
  <2> SUFFICES ASSUME NEW n \in C PROVE Run(s, n, z) = C
    OBVIOUS
  <2>1. n \in Nat /\ n <= z /\ n .. z \subseteq T
    BY <1>0, <1>1
  <2>2. ASSUME NEW k \in T, k <= z
        PROVE  (k .. n) \cup (n .. k) \subseteq T <=> k .. z \subseteq T
    <3>0. k \in Nat
      BY <1>0
    <3>1. CASE k <= n
      BY <2>1, <2>2, <3>0, <3>1
    <3>2. CASE k > n
      BY <2>1, <2>2, <3>0, <3>2
    <3> QED BY <2>1, <3>0, <3>1, <3>2
  <2> QED BY <1>1, <2>2 DEF Run
<1>3. a.prompt = "" /\ a.texts = C /\ a.turn = id
  BY DEF AnswerOf
<1>4. /\ E \subseteq F /\ F \subseteq E \cup {a}
      /\ \E w \in F : w.prompt = "" /\ w.texts = C
  <2> HIDE DEF a
  <2>1. /\ E \subseteq F /\ F \subseteq E \cup {a}
        /\ \E w \in F : w.prompt = a.prompt /\ w.texts = a.texts
    BY WithBoth
  <2> QED BY <1>3, <2>1
<1>5. /\ AnswersIn(E) \subseteq AnswersIn(F)
      /\ AnswersIn(F) \subseteq AnswersIn(E) \cup {a}
      /\ \E w \in AnswersIn(F) : w.texts = C
  BY <1>4 DEF AnswersIn
<1>6. \A n \in C : n \in T /\ n <= z /\ LastPrompt(s, m, n)
  <2> SUFFICES ASSUME NEW n \in C PROVE n \in T /\ n <= z /\ LastPrompt(s, m, n)
    OBVIOUS
  <2>1. n \in T /\ n \in Nat /\ n <= z /\ n .. z \subseteq T
    BY <1>0, <1>1
  <2>2. \A k \in SaidIn(s) : k <= z => k < n
    BY <1>0, <2>1
  <2> QED BY <1>0, <2>1, <2>2 DEF LastPrompt
<1> HIDE DEF C, T, a, F
<1>7. AnswersTo(s, F, z, {})
  <2>1. AnswersTo(s, E, z, C)
    BY DEF ReadTo, C
  <2>2. ASSUME NEW v \in AnswersIn(F)
        PROVE  \E n \in T : n <= z /\ n \notin {} /\ v.texts = Run(s, n, z)
    <3>1. CASE v \in AnswersIn(E)
      BY <2>1, <3>1 DEF AnswersTo, T
    <3>2. CASE v = a
      BY <1>2, <1>3, <1>6, <3>2 DEF C
    <3> QED BY <1>5, <3>1, <3>2
  <2>3. ASSUME NEW n \in T, n <= z
        PROVE  \E v \in AnswersIn(F) : v.texts = Run(s, n, z)
    <3>1. CASE n \in C
      BY <1>2, <1>5, <3>1
    <3>2. CASE n \notin C
      BY <1>5, <2>1, <2>3, <3>2 DEF AnswersTo, T
    <3> QED BY <3>1, <3>2
  <2> QED BY <2>2, <2>3 DEF AnswersTo, T
<1>8. InTurns(s, F)
  <2> SUFFICES ASSUME NEW v \in AnswersIn(F), NEW n \in v.texts
               PROVE  \E k \in SaidIn(s) :
                         /\ LastPrompt(s, k, n)
                         /\ Once(s, k) => PromptOf(s[k], v.turn) \in F
    BY DEF InTurns
  <2>1. CASE v \in AnswersIn(E)
    BY <1>4, <2>1 DEF ReadTo, InTurns
  <2>2. CASE v = a
    BY <1>3, <1>4, <1>6, <2>2
  <2> QED BY <1>5, <2>1, <2>2
<1>9. PromptsTo(s, F, z)
  BY <1>3, <1>4 DEF ReadTo, PromptsTo
<1> QED BY <1>7, <1>8, <1>9 DEF ReadTo, F, a, C

(* The user speaks, after everything was answered.                          *)
LEMMA UserIsRead ==
  ASSUME NEW s \in Seq(Entry), NEW z \in Nat, z < Len(s), s[z + 1] # "text",
         NEW E, ReadTo(s, E, z, {})
  PROVE  ReadTo(s, E, z + 1, {}) /\ Trailing(s, z + 1) = {}
<1>0. /\ z + 1 \notin TextsIn(s) /\ TextsIn(s) \subseteq Nat
      /\ SaidIn(s) \subseteq Nat
  BY DEF TextsIn, SaidIn
<1>1. \A n \in TextsIn(s) : n <= z + 1 <=> n <= z
  BY <1>0
<1>2. \A n \in TextsIn(s) : Run(s, n, z + 1) = Run(s, n, z)
  BY <1>1 DEF Run
<1>3. AnswersTo(s, E, z + 1, {})
  BY <1>1, <1>2 DEF ReadTo, AnswersTo
<1>4. PromptsTo(s, E, z + 1)
  <2>1. \A n \in SaidIn(s) : n <= z => n <= z + 1
    BY <1>0
  <2>2. PromptsTo(s, E, z)
    BY DEF ReadTo
  <2> QED BY <2>1, <2>2 DEF PromptsTo
<1>5. \A m \in TextsIn(s) : m <= z + 1 => z + 1 \in m .. (z + 1)
  BY <1>0
<1> QED BY <1>0, <1>3, <1>4, <1>5 DEF ReadTo, Trailing

LEMMA PromptIsRead ==
  ASSUME NEW s \in Seq(Entry), NEW z \in Nat, z < Len(s), s[z + 1] \in Prompts,
         NEW E, NEW id, ReadTo(s, E, z, {}),
         NEW p, p = PromptOf(s[z + 1], id)
  PROVE  /\ ReadTo(s, WithEvent(p, E), z + 1, {}) /\ Trailing(s, z + 1) = {}
         /\ z + 1 \in SaidIn(s) /\ LastPrompt(s, z + 1, z + 1)
         /\ Once(s, z + 1) => p \in WithEvent(p, E)
<1> DEFINE F == WithEvent(p, E)
<1>1. ReadTo(s, E, z + 1, {}) /\ Trailing(s, z + 1) = {}
  BY UserIsRead DEF Prompts
<1>2. /\ z + 1 \in SaidIn(s) /\ z + 1 \in Nat
      /\ \A n \in SaidIn(s) : n \in Nat
  <2>1. z + 1 \in 1 .. Len(s)
    OBVIOUS
  <2> QED BY <2>1 DEF SaidIn
<1>3. LastPrompt(s, z + 1, z + 1)
  BY <1>2 DEF LastPrompt
<1>4. p.prompt = s[z + 1] /\ p.prompt # "" /\ p.texts = {}
  BY DEF PromptOf, Prompts
<1>5. E \subseteq F /\ F \subseteq E \cup {p}
  BY WithBoth
<1>6. Once(s, z + 1) => p \in F
  <2> SUFFICES ASSUME Once(s, z + 1), NEW w \in E, w.prompt = p.prompt
               PROVE  FALSE
    BY DEF WithEvent
  <2>1. PICK n \in SaidIn(s) : n <= z /\ w.prompt = s[n]
    BY <1>4 DEF ReadTo, PromptsTo
  <2>2. n = z + 1
    BY <1>2, <1>4, <2>1 DEF Once
  <2> QED BY <1>2, <2>1, <2>2
<1> HIDE DEF F
<1>7. AnswersIn(F) = AnswersIn(E)
  BY <1>4, <1>5 DEF AnswersIn
<1>8. AnswersTo(s, F, z + 1, {}) /\ InTurns(s, F)
  BY <1>1, <1>5, <1>7 DEF ReadTo, AnswersTo, InTurns
<1>9. PromptsTo(s, F, z + 1)
  <2>1. PromptsTo(s, E, z + 1)
    BY <1>1 DEF ReadTo
  <2>2. z + 1 <= z + 1
    BY <1>2
  <2> QED BY <1>2, <1>4, <1>5, <2>1, <2>2 DEF PromptsTo
<1> QED BY <1>1, <1>2, <1>3, <1>6, <1>8, <1>9 DEF ReadTo, F

(* The prompts of s up to z are among the events E, and its texts among     *)
(* their answers, but for the texts C.                                      *)
KeptTo(s, E, z, C) ==
    /\ \A n \in SaidIn(s) : n <= z => \E v \in E : v.prompt = s[n]
    /\ \A n \in TextsIn(s) : n <= z =>
          n \in C \/ \E v \in AnswersIn(E) : n \in v.texts

LEMMA KeptGrows ==
  ASSUME NEW s \in Seq(Entry), NEW t \in Seq(Entry), Len(t) >= Len(s),
         \A n \in 1 .. Len(s) : t[n] = s[n],
         NEW z \in 0 .. Len(s), NEW E, NEW C, KeptTo(s, E, z, C)
  PROVE  KeptTo(t, E, z, C)
<1>1. /\ TextsIn(t) \subseteq Nat /\ SaidIn(t) \subseteq Nat
      /\ \A m \in SaidIn(s) : t[m] = s[m]
  BY DEF TextsIn, SaidIn
<1> QED BY <1>1, GoesOn DEF KeptTo

LEMMA KeptText ==
  ASSUME NEW s \in Seq(Entry), NEW z \in Nat, z < Len(s), s[z + 1] = "text",
         NEW E, NEW C, KeptTo(s, E, z, C)
  PROVE  KeptTo(s, E, z + 1, C \cup {z + 1})
<1>1. /\ z + 1 \notin SaidIn(s) /\ TextsIn(s) \subseteq Nat
      /\ SaidIn(s) \subseteq Nat
  BY DEF TextsIn, SaidIn, Prompts
<1>2. /\ \A n \in SaidIn(s) : n <= z + 1 => n <= z
      /\ \A n \in TextsIn(s) : n <= z + 1 => n <= z \/ n = z + 1
  BY <1>1
<1> QED BY <1>2 DEF KeptTo

LEMMA KeptUser ==
  ASSUME NEW s \in Seq(Entry), NEW z \in Nat, z < Len(s), s[z + 1] # "text",
         NEW E, KeptTo(s, E, z, {}),
         s[z + 1] \in Prompts => \E v \in E : v.prompt = s[z + 1]
  PROVE  KeptTo(s, E, z + 1, {})
<1>1. /\ z + 1 \notin TextsIn(s) /\ TextsIn(s) \subseteq Nat
      /\ SaidIn(s) \subseteq Nat
      /\ \A n \in SaidIn(s) : s[n] \in Prompts
  BY DEF TextsIn, SaidIn
<1>2. /\ \A n \in SaidIn(s) : n <= z + 1 => n <= z \/ n = z + 1
      /\ \A n \in TextsIn(s) : n <= z + 1 => n <= z
  BY <1>1
<1> QED BY <1>1, <1>2 DEF KeptTo

LEMMA KeptMore ==
  ASSUME NEW s, NEW z, NEW C, NEW E, NEW F, E \subseteq F, KeptTo(s, E, z, C)
  PROVE  KeptTo(s, F, z, C)
  BY DEF KeptTo, AnswersIn

LEMMA KeptAnswer ==
  ASSUME NEW s, NEW z, NEW C, NEW E, NEW id, KeptTo(s, E, z, C)
  PROVE  KeptTo(s, WithEvent(AnswerOf(C, id), E), z, {})
<1> DEFINE a == AnswerOf(C, id)
           F == WithEvent(a, E)
<1>1. a.prompt = "" /\ a.texts = C
  BY DEF AnswerOf
<1> HIDE DEF a
<1>2. E \subseteq F /\ \E w \in F : w.prompt = a.prompt /\ w.texts = a.texts
  BY WithBoth
<1>3. \E w \in AnswersIn(F) : w.texts = C
  BY <1>1, <1>2 DEF AnswersIn
<1> HIDE DEF F
<1>4. KeptTo(s, F, z, {})
  BY <1>2, <1>3 DEF KeptTo, AnswersIn
<1> QED BY <1>4 DEF F, a

-----------------------------------------------------------------------------
(* An import without failure has kept all it read, but what it collects.    *)
WholeInv ==
    /\ KeptTo(spoken, imported, whole, {})
    /\ place # NoImport /\ ~failed => KeptTo(spoken, imported, place, collected)

(* A forced one has kept nothing else, and collects the texts it read last. *)
ExactInv ==
    /\ exact > 0 => place = NoImport /\ ReadTo(spoken, imported, exact, {})
    /\ place # NoImport /\ forced /\ ~failed =>
          /\ ReadTo(spoken, imported, place, collected)
          /\ collected = Trailing(spoken, place)
          /\ place > 0 => \E m \in SaidIn(spoken) :
                /\ LastPrompt(spoken, m, place)
                /\ Once(spoken, m) =>
                      PromptOf(spoken[m], turnId) \in imported

(* After the first prompt there is a turn.                                  *)
ImportInv ==
    /\ spoken \in Seq(Entry) /\ Len(spoken) <= MaxEntries
    /\ place \in 0 .. Len(spoken) \cup {NoImport}
    /\ whole \in 0 .. Len(spoken) /\ exact \in 0 .. Len(spoken)
    /\ place = 0 => collected = {}
    /\ forced => spoken # <<>> /\ place # NoImport
    /\ BeginsWell => /\ place \in 1 .. Len(spoken) => turnId # Nowhere
                     /\ WholeInv /\ ExactInv

LEMMA ImportInitial == ImporterInit => ImportInv
  BY ImporterAssumption
     DEF ImporterInit, ImportInv, BeginsWell, Entry, NoImport

LEMMA FlushStep ==
  ASSUME ImportInv, BeginsWell, place \in 0 .. Len(spoken)
  PROVE  /\ Remaining = {} /\ imported \subseteq Flushed(imported)
         /\ ~failed => KeptTo(spoken, Flushed(imported), place, {})
         /\ forced /\ ~failed => ReadTo(spoken, Flushed(imported), place, {})
<1>0. /\ spoken \in Seq(Entry) /\ Len(spoken) \in Nat /\ place # NoImport
      /\ WholeInv /\ ExactInv
  BY ImporterAssumption DEF ImportInv, NoImport
<1>1. CASE collected = {}
  BY <1>0, <1>1 DEF Remaining, Flushed, HasAnswer, WholeInv, ExactInv
<1>2. CASE collected # {}
  <2>1. place > 0 /\ HasAnswer
    BY <1>2 DEF ImportInv, HasAnswer
  <2>2. Remaining = {} /\ Flushed(imported)
           = WithEvent(AnswerOf(collected, turnId), imported)
    BY <2>1 DEF Remaining, Flushed
  <2>3. imported \subseteq Flushed(imported)
    BY <2>2, WithBoth
  <2>4. ~failed => KeptTo(spoken, Flushed(imported), place, {})
    BY <1>0, <2>2, KeptAnswer DEF WholeInv
  <2>5. forced /\ ~failed => ReadTo(spoken, Flushed(imported), place, {})
    <3> SUFFICES ASSUME forced, ~failed
                 PROVE  ReadTo(spoken, Flushed(imported), place, {})
      OBVIOUS
    <3>1. PICK m \in SaidIn(spoken) :
             /\ LastPrompt(spoken, m, place)
             /\ Once(spoken, m) => PromptOf(spoken[m], turnId) \in imported
      BY <1>0, <2>1 DEF ExactInv
    <3>2. /\ ReadTo(spoken, imported, place, Trailing(spoken, place))
          /\ collected = Trailing(spoken, place)
      BY <1>0 DEF ExactInv
    <3> QED BY <1>0, <1>2, <2>2, <3>1, <3>2, TextsAreAnswered
  <2> QED BY <2>2, <2>3, <2>4, <2>5
<1> QED BY <1>1, <1>2

LEMMA SpeakStep ==
  ASSUME ImportInv, NEW e \in Entry, Speak(e)
  PROVE  ImportInv'
<1>0. /\ UNCHANGED <<imported, place, collected, turnId, forced, failed, whole,
                     exact>>
      /\ spoken' = Append(spoken, e) /\ Len(spoken) < MaxEntries
  BY DEF Speak
<1>1. /\ spoken' \in Seq(Entry) /\ Len(spoken') = Len(spoken) + 1
      /\ Len(spoken) \in Nat /\ spoken' # <<>>
      /\ \A n \in 1 .. Len(spoken) : spoken'[n] = spoken[n]
  BY <1>0 DEF ImportInv
<1>2. PICK t \in Seq(Entry) : t = spoken'
  BY <1>1
<1>3. /\ place \in 0 .. Len(t) \cup {NoImport}
      /\ whole \in 0 .. Len(t) /\ exact \in 0 .. Len(t)
      /\ Len(t) <= MaxEntries
  BY <1>0, <1>1, <1>2, ImporterAssumption DEF ImportInv
<1>4. ASSUME BeginsWell'
      PROVE  (/\ place \in 1 .. Len(spoken) => turnId # Nowhere
              /\ WholeInv /\ ExactInv)'
  <2>1. CASE spoken = <<>>
    <3>1. whole = 0 /\ exact = 0 /\ ~forced /\ place \in {0, NoImport}
      BY <2>1 DEF ImportInv
    <3>2. \A E, C : KeptTo(t, E, 0, C)
      <4>1. \A n \in TextsIn(t) \cup SaidIn(t) : ~(n <= 0)
        BY DEF TextsIn, SaidIn
      <4> QED BY <4>1 DEF KeptTo
    <3>3. place \notin 1 .. Len(t)
      BY <1>1, <1>2, <1>3, <3>1, ImporterAssumption DEF NoImport
    <3> QED BY <1>0, <1>2, <3>1, <3>2, <3>3 DEF WholeInv, ExactInv
  <2>2. CASE spoken # <<>>
    <3>1. BeginsWell /\ Len(spoken) > 0
      <4>1. Len(spoken) > 0
        BY <1>1, <2>2 DEF ImportInv
      <4> QED BY <1>1, <1>4, <2>2, <4>1 DEF BeginsWell
    <3>2. /\ WholeInv /\ ExactInv
          /\ place \in 1 .. Len(spoken) => turnId # Nowhere
      BY <3>1 DEF ImportInv
    <3>3. place # NoImport => place \in 0 .. Len(spoken)
      BY DEF ImportInv
    <3>4. place \in 1 .. Len(t) => place \in 1 .. Len(spoken)
      BY <1>1, <1>2, <1>3, <3>3, ImporterAssumption DEF NoImport
    <3>5. /\ \A z \in 0 .. Len(spoken) :
               /\ \A E, C : /\ KeptTo(spoken, E, z, C) => KeptTo(t, E, z, C)
                            /\ ReadTo(spoken, E, z, C) => ReadTo(t, E, z, C)
               /\ Trailing(t, z) = Trailing(spoken, z)
               /\ \A m \in SaidIn(spoken) :
                     LastPrompt(spoken, m, z) => LastPrompt(t, m, z)
          /\ \A m \in SaidIn(spoken) : Once(t, m) => Once(spoken, m)
      <4>1. /\ spoken \in Seq(Entry) /\ Len(t) >= Len(spoken)
            /\ \A n \in 1 .. Len(spoken) : t[n] = spoken[n]
            /\ 0 \in 0 .. Len(spoken)
        BY <1>1, <1>2 DEF ImportInv
      <4> QED BY <4>1, GoesOn, KeptGrows
    <3>6. \A m \in SaidIn(spoken) : m \in SaidIn(t) /\ t[m] = spoken[m]
      BY <1>1, <1>2 DEF SaidIn
    <3>7. WholeInv'
      BY <1>0, <1>2, <3>2, <3>3, <3>5 DEF ImportInv, WholeInv
    <3>8. ExactInv'
      <4>1. exact > 0 => place = NoImport /\ ReadTo(t, imported, exact, {})
        BY <3>2, <3>5 DEF ImportInv, ExactInv
      <4>2. ASSUME place # NoImport, forced, ~failed
            PROVE  /\ ReadTo(t, imported, place, collected)
                   /\ collected = Trailing(t, place)
                   /\ place > 0 => \E m \in SaidIn(t) :
                         /\ LastPrompt(t, m, place)
                         /\ Once(t, m) => PromptOf(t[m], turnId) \in imported
        BY <3>2, <3>3, <3>5, <3>6, <4>2 DEF ExactInv
      <4> QED BY <1>0, <1>2, <4>1, <4>2 DEF ExactInv
    <3> QED BY <1>0, <1>2, <3>2, <3>4, <3>7, <3>8
  <2> QED BY <2>1, <2>2
<1> QED BY <1>0, <1>1, <1>2, <1>3, <1>4 DEF ImportInv

LEMMA ImportStarts ==
  ASSUME ImportInv, NEW force \in BOOLEAN, StartImport(force)
  PROVE  ImportInv'
<1>0. /\ spoken' = spoken /\ place' = 0 /\ collected' = {} /\ exact' = 0
      /\ forced' = force /\ (force => spoken # <<>> /\ imported' = {})
      /\ ~force => UNCHANGED <<imported, whole>>
      /\ whole' \in {0, whole} /\ (force => whole' = 0)
  BY DEF StartImport
<1>1. \A n \in TextsIn(spoken) \cup SaidIn(spoken) : ~(n <= 0)
  BY DEF TextsIn, SaidIn
<1>2. /\ \A E, C : KeptTo(spoken, E, 0, C)
      /\ Trailing(spoken, 0) = {}
      /\ ReadTo(spoken, {}, 0, {})
  BY <1>1 DEF KeptTo, Trailing, ReadTo, AnswersTo, InTurns, PromptsTo, AnswersIn
<1>3. BeginsWell' => BeginsWell
  BY <1>0 DEF BeginsWell
<1>4. BeginsWell => WholeInv'
  BY <1>0, <1>2 DEF ImportInv, WholeInv
<1>5. ExactInv'
  <2>1. ~(exact' > 0) /\ ~(place' > 0)
    BY <1>0
  <2>2. forced' => ReadTo(spoken', imported', place', collected')
                   /\ collected' = Trailing(spoken', place')
    BY <1>0, <1>2
  <2> QED BY <2>1, <2>2 DEF ExactInv
<1>6. 0 # NoImport /\ Len(spoken) \in Nat
  BY ImporterAssumption DEF NoImport, ImportInv
<1> QED BY <1>0, <1>3, <1>4, <1>5, <1>6 DEF ImportInv

(* What every step that reads the next entry has in common.                 *)
LEMMA NextEntry ==
  ASSUME ImportInv, place < Len(spoken)
  PROVE  /\ spoken \in Seq(Entry) /\ Len(spoken) \in Nat
         /\ place \in Nat /\ place \in 0 .. Len(spoken)
         /\ place + 1 \in 1 .. Len(spoken) /\ place + 1 \notin {0, NoImport}
         /\ place # NoImport
         /\ BeginsWell => exact = 0
<1>1. /\ spoken \in Seq(Entry) /\ Len(spoken) \in Nat /\ Len(spoken) <= MaxEntries
      /\ place \in 0 .. Len(spoken) \cup {NoImport} /\ exact \in Nat
  BY DEF ImportInv
<1>2. place # NoImport
  BY <1>1, ImporterAssumption DEF NoImport
<1> QED BY <1>1, <1>2, ImporterAssumption DEF NoImport, ImportInv, ExactInv

LEMMA TextStep ==
  ASSUME ImportInv, ReadText
  PROVE  ImportInv'
<1>0. /\ spoken[place + 1] = "text" /\ place' = place + 1
      /\ collected' = collected \cup {place + 1}
      /\ UNCHANGED <<spoken, imported, turnId, forced, failed, whole, exact>>
      /\ place < Len(spoken)
  BY DEF ReadText
<1>1. PICK z \in Nat : z = place
  BY <1>0, NextEntry
<1>2. ASSUME BeginsWell
      PROVE  (/\ place \in 1 .. Len(spoken) => turnId # Nowhere
              /\ WholeInv /\ ExactInv)'
  <2>1. z > 0
    BY <1>0, <1>1, <1>2 DEF BeginsWell, Prompts
  <2>2. /\ spoken \in Seq(Entry) /\ z < Len(spoken) /\ exact = 0
        /\ z \in 1 .. Len(spoken) /\ place # NoImport
    BY <1>0, <1>1, <1>2, <2>1, NextEntry
  <2>3. turnId # Nowhere /\ WholeInv /\ ExactInv
    BY <1>1, <1>2, <2>2 DEF ImportInv
  <2>4. ~failed => KeptTo(spoken, imported, z + 1, collected \cup {z + 1})
    BY <1>0, <1>1, <2>2, <2>3, KeptText DEF WholeInv
  <2>5. ASSUME forced, ~failed
        PROVE  /\ ReadTo(spoken, imported, z + 1, collected \cup {z + 1})
               /\ collected \cup {z + 1} = Trailing(spoken, z + 1)
               /\ \E m \in SaidIn(spoken) :
                     /\ LastPrompt(spoken, m, z + 1)
                     /\ Once(spoken, m) =>
                           PromptOf(spoken[m], turnId) \in imported
    <3>1. /\ ReadTo(spoken, imported, z, Trailing(spoken, z))
          /\ collected = Trailing(spoken, z)
          /\ \E m \in SaidIn(spoken) :
                /\ LastPrompt(spoken, m, z)
                /\ Once(spoken, m) =>
                      PromptOf(spoken[m], turnId) \in imported
      BY <1>1, <2>1, <2>2, <2>3, <2>5 DEF ExactInv
    <3> QED BY <1>0, <1>1, <2>2, <3>1, TextIsRead
  <2>6. WholeInv'
    BY <1>0, <1>1, <2>3, <2>4 DEF WholeInv
  <2>7. ExactInv'
    BY <1>0, <1>1, <2>2, <2>5 DEF ExactInv
  <2> QED BY <1>0, <2>3, <2>6, <2>7
<1>3. BeginsWell' => BeginsWell
  BY <1>0 DEF BeginsWell
<1> QED BY <1>0, <1>1, <1>2, <1>3, NextEntry DEF ImportInv

LEMMA FailedFlushStep ==
  ASSUME ImportInv, FailFlush
  PROVE  ImportInv'
<1>0. /\ place < Len(spoken) /\ place' = place + 1 /\ failed'
      /\ turnId # Nowhere
      /\ UNCHANGED <<spoken, imported, collected, turnId, forced, whole, exact>>
  BY DEF FailFlush, HasAnswer
<1>1. BeginsWell' => BeginsWell
  BY <1>0 DEF BeginsWell
<1>2. BeginsWell => WholeInv' /\ ExactInv'
  BY <1>0, NextEntry DEF ImportInv, WholeInv, ExactInv
<1> QED BY <1>0, <1>1, <1>2, NextEntry DEF ImportInv

LEMMA TrivialStep ==
  ASSUME ImportInv, ReadTrivial
  PROVE  ImportInv'
<1>0. /\ spoken[place + 1] = "trivial" /\ place' = place + 1
      /\ imported' = Flushed(imported) /\ collected' = Remaining
      /\ UNCHANGED <<spoken, turnId, forced, failed, whole, exact>>
      /\ place < Len(spoken)
  BY DEF ReadTrivial
<1>1. PICK z \in Nat : z = place
  BY <1>0, NextEntry
<1>2. ASSUME BeginsWell
      PROVE  (/\ place \in 1 .. Len(spoken) => turnId # Nowhere
              /\ WholeInv /\ ExactInv)'
  <2>1. z > 0
    BY <1>0, <1>1, <1>2 DEF BeginsWell, Prompts
  <2>2. /\ spoken \in Seq(Entry) /\ z < Len(spoken) /\ exact = 0
        /\ z \in 1 .. Len(spoken) /\ place # NoImport
        /\ spoken[z + 1] \notin Prompts /\ spoken[z + 1] # "text"
    BY <1>0, <1>1, <1>2, <2>1, NextEntry DEF Prompts
  <2>3. turnId # Nowhere /\ WholeInv /\ ExactInv
    BY <1>1, <1>2, <2>2 DEF ImportInv
  <2>4. PICK F : F = Flushed(imported)
    OBVIOUS
  <2>5. /\ Remaining = {} /\ imported \subseteq F
        /\ ~failed => KeptTo(spoken, F, z, {})
        /\ forced /\ ~failed => ReadTo(spoken, F, z, {})
    BY <1>1, <1>2, <2>2, <2>4, FlushStep, NextEntry, <1>0
  <2>6. ~failed => KeptTo(spoken, F, z + 1, {})
    BY <2>2, <2>5, KeptUser
  <2>7. ASSUME forced, ~failed
        PROVE  /\ ReadTo(spoken, F, z + 1, {})
               /\ Trailing(spoken, z + 1) = {}
               /\ \E m \in SaidIn(spoken) :
                     /\ LastPrompt(spoken, m, z + 1)
                     /\ Once(spoken, m) => PromptOf(spoken[m], turnId) \in F
    <3>1. PICK m \in SaidIn(spoken) :
             /\ LastPrompt(spoken, m, z)
             /\ Once(spoken, m) => PromptOf(spoken[m], turnId) \in imported
      BY <1>1, <2>1, <2>2, <2>3, <2>7 DEF ExactInv
    <3>2. LastPrompt(spoken, m, z + 1)
      <4>1. \A k \in SaidIn(spoken) : k \in Nat /\ k # z + 1
        BY <2>2 DEF SaidIn
      <4> QED BY <3>1, <4>1 DEF LastPrompt
    <3> QED BY <2>2, <2>5, <2>7, <3>1, <3>2, UserIsRead
  <2>8. WholeInv'
    BY <1>0, <1>1, <2>3, <2>4, <2>5, <2>6, KeptMore DEF WholeInv
  <2>9. ExactInv'
    BY <1>0, <1>1, <2>2, <2>4, <2>5, <2>7 DEF ExactInv
  <2> QED BY <1>0, <2>3, <2>8, <2>9
<1>3. BeginsWell' => BeginsWell
  BY <1>0 DEF BeginsWell
<1> QED BY <1>0, <1>1, <1>2, <1>3, NextEntry DEF ImportInv

LEMMA PromptStep ==
  ASSUME ImportInv, ReadPrompt
  PROVE  ImportInv'
<1>0. /\ spoken[place + 1] \in Prompts /\ place' = place + 1
      /\ turnId' = <<imports, place + 1>> /\ collected' = Remaining
      /\ UNCHANGED <<spoken, forced, whole, exact>>
      /\ place < Len(spoken)
  BY DEF ReadPrompt
<1>1. PICK z \in Nat : z = place
  BY <1>0, NextEntry
<1>2. ASSUME BeginsWell
      PROVE  (/\ place \in 1 .. Len(spoken) => turnId # Nowhere
              /\ WholeInv /\ ExactInv)'
  <2>1. turnId' # Nowhere
    BY <1>0, <1>1 DEF Nowhere
  <2>2. /\ spoken \in Seq(Entry) /\ z < Len(spoken) /\ exact = 0
        /\ z \in 0 .. Len(spoken) /\ place # NoImport
        /\ spoken[z + 1] \in Prompts /\ spoken[z + 1] # "text"
    BY <1>0, <1>1, <1>2, NextEntry DEF Prompts
  <2>3. WholeInv /\ ExactInv
    BY <1>2 DEF ImportInv
  <2>4. PICK F : F = Flushed(imported)
    OBVIOUS
  <2>5. /\ Remaining = {} /\ imported \subseteq F
        /\ ~failed => KeptTo(spoken, F, z, {})
        /\ forced /\ ~failed => ReadTo(spoken, F, z, {})
    BY <1>1, <1>2, <2>2, <2>4, FlushStep
  <2>6. CASE imported' = F /\ failed' = TRUE
    BY <1>0, <2>1, <2>2, <2>3, <2>5, <2>6, KeptMore DEF WholeInv, ExactInv
  <2>7. CASE /\ imported' = WithEvent(PromptOf(spoken[place + 1], turnId'), F)
             /\ UNCHANGED failed
    <3>1. PICK p : p = PromptOf(spoken[z + 1], turnId')
      OBVIOUS
    <3>2. PICK G : G = WithEvent(p, F)
      OBVIOUS
    <3>3. F \subseteq G /\ \E w \in G : w.prompt = p.prompt
      BY <3>2, WithBoth
    <3>4. p.prompt = spoken[z + 1]
      BY <3>1 DEF PromptOf
    <3>5. ~failed => KeptTo(spoken, G, z + 1, {})
      <4> SUFFICES ASSUME ~failed PROVE KeptTo(spoken, G, z + 1, {})
        OBVIOUS
      <4>1. KeptTo(spoken, G, z, {})
        BY <2>5, <3>3, KeptMore
      <4> QED BY <2>2, <3>3, <3>4, <4>1, KeptUser
    <3>6. ASSUME forced, ~failed
          PROVE  /\ ReadTo(spoken, G, z + 1, {})
                 /\ Trailing(spoken, z + 1) = {}
                 /\ \E m \in SaidIn(spoken) :
                       /\ LastPrompt(spoken, m, z + 1)
                       /\ Once(spoken, m) => PromptOf(spoken[m], turnId') \in G
      BY <2>2, <2>5, <3>1, <3>2, <3>6, PromptIsRead
    <3>7. KeptTo(spoken, G, whole, {})
      BY <2>3, <2>5, <3>3, KeptMore DEF WholeInv
    <3>8. imported' = G
      BY <1>1, <2>7, <3>1, <3>2
    <3>9. WholeInv'
      BY <1>0, <1>1, <2>5, <2>7, <3>5, <3>7, <3>8 DEF WholeInv
    <3>10. ExactInv'
      BY <1>0, <1>1, <2>2, <2>5, <2>7, <3>6, <3>8 DEF ExactInv
    <3> QED BY <2>1, <3>9, <3>10
  <2> QED BY <2>4, <2>6, <2>7 DEF ReadPrompt
<1>3. BeginsWell' => BeginsWell
  BY <1>0 DEF BeginsWell
<1>4. place' # 0 /\ place' \in 0 .. Len(spoken') /\ place' # NoImport
  BY <1>0, NextEntry
<1> QED BY <1>0, <1>2, <1>3, <1>4 DEF ImportInv

LEMMA EndStep ==
  ASSUME ImportInv, EndImport \/ DieImporting
  PROVE  ImportInv'
<1>0. /\ place' = NoImport /\ collected' = {} /\ forced' = FALSE
      /\ spoken' = spoken
      /\ Len(spoken) \in Nat /\ Len(spoken) <= MaxEntries
      /\ NoImport \notin 0 .. Len(spoken)
  BY ImporterAssumption DEF EndImport, DieImporting, ImportInv, NoImport
<1>1. BeginsWell' => BeginsWell
  BY <1>0 DEF BeginsWell
<1>2. CASE UNCHANGED <<imported, whole, exact>>
  BY <1>0, <1>1, <1>2 DEF ImportInv, WholeInv, ExactInv
<1>3. CASE /\ place = Len(spoken) /\ imported' = Flushed(imported)
           /\ whole' = (IF failed THEN whole ELSE place)
           /\ exact' = (IF forced /\ ~failed THEN place ELSE 0)
  <2>1. whole' \in 0 .. Len(spoken) /\ exact' \in 0 .. Len(spoken)
    BY <1>0, <1>3 DEF ImportInv
  <2>2. ASSUME BeginsWell PROVE WholeInv' /\ ExactInv'
    <3>0. place \in 0 .. Len(spoken) /\ WholeInv
      BY <1>0, <1>3, <2>2 DEF ImportInv
    <3>1. PICK F : F = Flushed(imported)
      OBVIOUS
    <3>2. /\ imported \subseteq F
          /\ ~failed => KeptTo(spoken, F, place, {})
          /\ forced /\ ~failed => ReadTo(spoken, F, place, {})
      BY <2>2, <3>0, <3>1, FlushStep
    <3>3. KeptTo(spoken, F, whole, {})
      BY <3>0, <3>2, KeptMore DEF WholeInv
    <3>4. WholeInv'
      BY <1>0, <1>3, <3>1, <3>2, <3>3 DEF WholeInv
    <3>5. ExactInv'
      BY <1>0, <1>3, <3>1, <3>2 DEF ExactInv
    <3> QED BY <3>4, <3>5
  <2> QED BY <1>0, <1>1, <2>1, <2>2 DEF ImportInv
<1> QED BY <1>2, <1>3 DEF EndImport, DieImporting, Final

LEMMA ImportStep == ImportInv /\ [ImporterNext]_importVars => ImportInv'
<1> SUFFICES ASSUME ImportInv, [ImporterNext]_importVars PROVE ImportInv'
  OBVIOUS
<1>1. CASE UNCHANGED importVars
  BY <1>1 DEF importVars, ImportInv, WholeInv, ExactInv, BeginsWell
<1> QED BY <1>1, SpeakStep, ImportStarts, TextStep, FailedFlushStep,
           TrivialStep, PromptStep, EndStep DEF ImporterNext

(* Of the prompts before a text only one is the last.                       *)
LEMMA TheLastPrompt ==
  ASSUME spoken \in Seq(Entry), NEW n \in TextPlaces, NEW m \in Said,
         LastPrompt(spoken, m, n)
  PROVE  PromptBefore(n) = m
<1> DEFINE Is(k) == k < n /\ \A j \in Said : j < n => j <= k
<1>1. /\ Said = SaidIn(spoken) /\ n \notin Said
      /\ n \in Nat /\ \A k \in Said : k \in Nat
  BY PlacesOfEntries, PromptsAreNoTexts DEF SaidIn, TextsIn
<1>2. \A k \in Said : k <= n => k < n
  BY <1>1
<1>3. m \in Said /\ Is(m)
  BY <1>1, <1>2 DEF LastPrompt
<1>4. \A k \in Said : Is(k) => k = m
  BY <1>1, <1>3
<1>5. PromptBefore(n) \in Said /\ Is(PromptBefore(n))
  BY <1>3 DEF PromptBefore
<1> QED BY <1>4, <1>5

(* For transcripts of any length, however they grow while they are read and *)
(* however often stores fail or imports die: what an import without failure *)
(* has read is stored, every prompt and every text; and a forced one leaves *)
(* exactly an answer for each run of texts, in the turn of its prompt.      *)
THEOREM ImportsAreFaithful == ImporterSpec => []ImportIsFaithful
<1>1. ImportInv => ImportedIsWhole
  <2> SUFFICES ASSUME ImportInv, BeginsWell
               PROVE  ImportedIsWhole
    BY DEF ImportedIsWhole
  <2>1. KeptTo(spoken, imported, whole, {}) /\ spoken \in Seq(Entry)
    BY DEF ImportInv, WholeInv
  <2> QED BY <2>1, PlacesOfEntries DEF KeptTo, ImportedIsWhole
<1>2. ImportInv => ForcedIsExact
  <2> SUFFICES ASSUME ImportInv, BeginsWell, exact > 0
               PROVE  ForcedIsExact
    BY DEF ForcedIsExact
  <2>1. /\ ReadTo(spoken, imported, exact, {}) /\ exact \in 0 .. Len(spoken)
        /\ spoken \in Seq(Entry)
    BY DEF ImportInv, ExactInv
  <2>2. \A n \in TextPlaces : Around(n) = Run(spoken, n, exact)
    BY <2>1, PlacesOfEntries DEF Around, Run
  <2>3. \A n : n \in TextPlaces \cap 1 .. exact <=> n \in TextPlaces /\ n <= exact
    BY <2>1, PlacesOfEntries DEF TextsIn
  <2>4. AnswersTo(spoken, imported, exact, {}) /\ InTurns(spoken, imported)
    BY <2>1 DEF ReadTo
  <2>5. /\ \A v \in Answers : \E n \in TextPlaces \cap 1 .. exact :
              v.texts = Around(n)
        /\ \A n \in TextPlaces \cap 1 .. exact : \E v \in Answers :
              v.texts = Around(n)
    BY <2>1, <2>2, <2>3, <2>4, PlacesOfEntries DEF AnswersTo
  <2>6. {v.texts : v \in Answers} = {Around(n) : n \in TextPlaces \cap 1 .. exact}
    BY <2>5
  <2>7. ASSUME NEW v \in Answers, NEW n \in v.texts
        PROVE  SaidOnce(PromptBefore(n)) =>
                  PromptOf(spoken[PromptBefore(n)], v.turn) \in imported
    <3>1. n \in TextPlaces
      BY <2>5, <2>7 DEF Around
    <3>2. PICK m \in Said :
             /\ LastPrompt(spoken, m, n)
             /\ Once(spoken, m) => PromptOf(spoken[m], v.turn) \in imported
      BY <2>1, <2>4, <2>7, PlacesOfEntries DEF InTurns
    <3> QED BY <2>1, <3>1, <3>2, TheLastPrompt, PlacesOfEntries
  <2> QED BY <2>6, <2>7 DEF ForcedIsExact
<1>3. ImportInv => ImportIsFaithful
  BY <1>1, <1>2 DEF ImportIsFaithful
<1> QED BY <1>3, ImportInitial, ImportStep, PTL DEF ImporterSpec

LEMMA PromptsStayApart ==
  ASSUME NEW E, PromptsOrAnswers(E), NEW s \in Prompts, NEW id
  PROVE  PromptsOrAnswers(WithEvent(PromptOf(s, id), E))
<1>1. s # ""
  BY DEF Prompts
<1>2. PromptOf(s, id).prompt = s /\ PromptOf(s, id).texts = {}
  BY DEF PromptOf
<1> QED BY <1>1, <1>2, Zenon DEF PromptsOrAnswers, WithEvent

LEMMA AnswersStayApart ==
  ASSUME NEW E, PromptsOrAnswers(E), NEW T, T # {}, NEW id
  PROVE  PromptsOrAnswers(WithEvent(AnswerOf(T, id), E))
<1>1. AnswerOf(T, id).prompt = "" /\ AnswerOf(T, id).texts = T
  BY Zenon DEF AnswerOf
<1> QED BY <1>1, Zenon DEF PromptsOrAnswers, WithEvent

LEMMA NothingIsApart == PromptsOrAnswers({})
  BY DEF PromptsOrAnswers

LEMMA ImporterTypesStep ==
  ImporterTypeOK /\ [ImporterNext]_importVars => ImporterTypeOK'
<1> SUFFICES ASSUME ImporterTypeOK, [ImporterNext]_importVars
             PROVE  ImporterTypeOK'
  OBVIOUS
<1> DEFINE len == Len(spoken)
           TextPlace(n) == n \in 1 .. len /\ spoken[n] = "text"
<1>1. /\ spoken \in Seq(Entry) /\ len \in Nat /\ len <= MaxEntries
      /\ DOMAIN spoken = 1 .. len
  BY DEF ImporterTypeOK
<1>2. /\ place \in 0 .. len \cup {NoImport}
      /\ whole \in 0 .. len /\ exact \in 0 .. whole
      /\ imports \in 0 .. MaxImports /\ forced \in BOOLEAN
      /\ failed \in BOOLEAN /\ PromptsOrAnswers(imported)
  BY DEF ImporterTypeOK
<1>3. \A n \in collected : TextPlace(n)
  BY <1>1 DEF ImporterTypeOK
<1>4. /\ NoImport \in Nat /\ NoImport > MaxEntries
      /\ MaxEntries \in Nat /\ MaxImports \in Nat
  BY ImporterAssumption DEF NoImport
<1>5. PromptsOrAnswers(Flushed(imported)) /\ Remaining \subseteq collected
  BY <1>2, AnswersStayApart DEF Flushed, Remaining, HasAnswer
<1> HIDE DEF len
(* A step that leaves the transcript.                                       *)
<1>6. ASSUME UNCHANGED spoken, PromptsOrAnswers(imported'),
             place' \in 0 .. len \cup {NoImport},
             \A n \in collected' : TextPlace(n),
             imports' \in 0 .. MaxImports, forced' \in BOOLEAN,
             failed' \in BOOLEAN, whole' \in 0 .. len, exact' \in 0 .. whole'
      PROVE  ImporterTypeOK'
  <2>1. UNCHANGED NoImport
    BY DEF NoImport
  <2> QED BY <1>1, <1>6, <2>1 DEF ImporterTypeOK, len
<1>7. ASSUME place < len, place' = place + 1
      PROVE  place' \in 1 .. len
  BY <1>1, <1>2, <1>4, <1>7
<1>8. ASSUME NEW e \in Entry, Speak(e) PROVE ImporterTypeOK'
  <2>1. /\ spoken' = Append(spoken, e) /\ len < MaxEntries
        /\ UNCHANGED <<imported, place, collected, imports, forced, failed,
                       whole, exact>>
    BY <1>8 DEF Speak, len
  <2>2. /\ spoken' \in Seq(Entry) /\ Len(spoken') = len + 1
        /\ DOMAIN spoken' = 1 .. len + 1
        /\ \A n \in 1 .. len : spoken'[n] = spoken[n]
    BY <1>1, <2>1 DEF len
  <2>3. \A n \in collected : n \in 1 .. len + 1 /\ spoken'[n] = "text"
    BY <1>1, <1>3, <2>2
  <2>4. /\ len + 1 <= MaxEntries /\ place \in 0 .. len + 1 \cup {NoImport}
        /\ whole \in 0 .. len + 1
    BY <1>1, <1>2, <1>4, <2>1
  <2>5. UNCHANGED NoImport
    BY DEF NoImport
  <2> QED BY <1>2, <2>1, <2>2, <2>3, <2>4, <2>5 DEF ImporterTypeOK
<1>9. ASSUME NEW force \in BOOLEAN, StartImport(force) PROVE ImporterTypeOK'
  <2>1. /\ PromptsOrAnswers(imported') /\ imports' \in 0 .. MaxImports
        /\ place' \in 0 .. len /\ whole' \in 0 .. len
        /\ exact' \in 0 .. whole'
    <3>1. PromptsOrAnswers(imported')
      BY <1>2, <1>9, NothingIsApart DEF StartImport
    <3>2. imports' = imports + 1 /\ imports < MaxImports /\ place' = 0
          /\ exact' = 0 /\ whole' \in {0, whole}
      BY <1>9 DEF StartImport
    <3> QED BY <1>1, <1>2, <1>4, <3>1, <3>2
  <2> QED BY <1>2, <1>6, <1>9, <2>1 DEF StartImport
<1>10. CASE ReadText
  <2>1. TextPlace(place + 1)
    BY <1>1, <1>7, <1>10 DEF ReadText, len
  <2> QED BY <1>2, <1>3, <1>6, <1>7, <1>10, <2>1 DEF ReadText, len
<1>11. CASE FailFlush
  BY <1>2, <1>3, <1>6, <1>7, <1>11 DEF FailFlush, len
<1>12. CASE ReadTrivial
  BY <1>2, <1>3, <1>5, <1>6, <1>7, <1>12 DEF ReadTrivial, len
<1>13. CASE ReadPrompt
  <2>1. PromptsOrAnswers(imported')
    BY <1>5, <1>13, PromptsStayApart DEF ReadPrompt
  <2>2. place' \in 1 .. len /\ failed' \in BOOLEAN
    BY <1>2, <1>7, <1>13 DEF ReadPrompt, len
  <2> QED BY <1>2, <1>3, <1>5, <1>6, <1>13, <2>1, <2>2 DEF ReadPrompt
<1>14. CASE EndImport
  <2>1. PromptsOrAnswers(imported')
    BY <1>2, <1>5, <1>14 DEF EndImport, Final
  <2>2. whole' \in 0 .. len /\ exact' \in 0 .. whole'
    BY <1>1, <1>2, <1>14 DEF EndImport, len
  <2> QED BY <1>2, <1>6, <1>14, <2>1, <2>2 DEF EndImport
<1>15. CASE DieImporting
  BY <1>2, <1>6, <1>15 DEF DieImporting
<1>16. CASE UNCHANGED importVars
  BY <1>2, <1>3, <1>6, <1>16 DEF importVars
<1> QED BY <1>8, <1>9, <1>10, <1>11, <1>12, <1>13, <1>14, <1>15, <1>16
        DEF ImporterNext

(* The importer's variables keep their types: it keeps places that are      *)
(* texts, and only ever an event that is either a prompt or an answer.      *)
THEOREM ImportsHaveTypes == ImporterSpec => []ImporterTypeOK
<1>1. ImporterInit => ImporterTypeOK
  <2> SUFFICES ASSUME ImporterInit PROVE ImporterTypeOK
    OBVIOUS
  <2>1. /\ spoken \in Seq(Entry) /\ Len(spoken) = 0 /\ Len(spoken) <= MaxEntries
        /\ whole \in 0 .. Len(spoken) /\ exact \in 0 .. whole
        /\ imports \in 0 .. MaxImports
    BY ImporterAssumption DEF ImporterInit
  <2>2. PromptsOrAnswers(imported)
    BY NothingIsApart DEF ImporterInit
  <2> QED BY <2>1, <2>2 DEF ImporterInit, ImporterTypeOK
<1> QED BY <1>1, ImporterTypesStep, PTL DEF ImporterSpec
=============================================================================
