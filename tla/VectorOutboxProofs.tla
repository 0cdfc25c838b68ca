------------------------- MODULE VectorOutboxProofs -------------------------
(***************************************************************************)
(* Proofs about the vector outbox, for every number of items and workers,   *)
(* every batch size, retry limit and threshold.                             *)
(***************************************************************************)
EXTENDS VectorOutbox, TLAPS

USE DEF Exhausted, CountFailure, Statuses, Stages, PCs, outbox, worker, vars,
        AgeCap, Held, At

-----------------------------------------------------------------------------
(* Type correctness.                                                        *)

LEMMA InitType == Init => TypeOK
  BY FaultAssumption, AgeAssumption DEF Init, TypeOK

(* A status change keeps the rows well typed.                               *)
LEMMA SetStatusType ==
  ASSUME TypeOK, NEW S, NEW s \in Statuses, SetStatus(S, s)
  PROVE  status' \in [Items -> Statuses] /\ age' \in [Items -> 0 .. AgeCap]
<1>1. status' \in [Items -> Statuses]
  BY DEF TypeOK, SetStatus
<1>2. age' \in [Items -> 0 .. AgeCap]
  BY AgeAssumption DEF TypeOK, SetStatus
<1> QED BY <1>1, <1>2

(* So does an enqueue.                                                      *)
LEMMA EnqueueType ==
  ASSUME TypeOK, NEW i \in Items, Enqueue(i)
  PROVE  /\ older' \in [Items -> SUBSET Items]
         /\ status' \in [Items -> Statuses]
         /\ retries' \in [Items -> Nat]
         /\ age' \in [Items -> 0 .. AgeCap]
<1>1. CASE status[i] = "none"
  <2>1. status' \in [Items -> Statuses] /\ age' \in [Items -> 0 .. AgeCap]
    <3>1. SetStatus({i}, "pending") /\ "pending" \in Statuses
      BY <1>1 DEF Enqueue
    <3> QED BY <3>1, SetStatusType
  <2>2. retries' \in [Items -> Nat]
    BY <1>1 DEF Enqueue, TypeOK
  <2>3. older' \in [Items -> SUBSET Items]
    <3>1. older' = [older EXCEPT ![i] = {j \in Items : status[j] # "none"}]
      BY <1>1 DEF Enqueue
    <3>2. {j \in Items : status[j] # "none"} \in SUBSET Items
      OBVIOUS
    <3> QED BY <3>1, <3>2 DEF TypeOK
  <2> QED BY <2>1, <2>2, <2>3
<1>2. CASE status[i] # "none"
  BY <1>2 DEF Enqueue, TypeOK
<1> QED BY <1>1, <1>2

(* The environment's steps keep the types.                                  *)
LEMMA StoreType == TypeOK /\ StoreStep => TypeOK'
<1> SUFFICES ASSUME TypeOK, NEW i \in Items,
                    \/ AppendEvent(i) \/ ImportEvent(i)
                    \/ AppendDuplicate(i) \/ DeleteEvent(i)
             PROVE  TypeOK'
  BY DEF StoreStep
<1> USE AgeAssumption, FaultAssumption DEF TypeOK
<1>2. CASE AppendEvent(i) \/ ImportEvent(i)
  BY <1>2, EnqueueType DEF AppendEvent, ImportEvent, Insert
<1>3. CASE AppendDuplicate(i)
  BY <1>3, EnqueueType DEF AppendDuplicate
<1>4. CASE DeleteEvent(i)
  BY <1>4 DEF DeleteEvent
<1> QED BY <1>2, <1>3, <1>4

LEMMA MaintenanceType == TypeOK /\ (Recover \/ Cleanup \/ Tick) => TypeOK'
<1> SUFFICES ASSUME TypeOK, Recover \/ Cleanup \/ Tick PROVE TypeOK'
  OBVIOUS
<1> USE AgeAssumption, FaultAssumption DEF TypeOK
<1>1. CASE Recover
  BY <1>1 DEF Recover, SetStatus
<1>2. CASE Cleanup
  BY <1>2 DEF Cleanup
<1>3. CASE Tick
  BY <1>3 DEF Tick
<1> QED BY <1>1, <1>2, <1>3

LEMMA BatchType ==
  ASSUME TypeOK, NEW w \in Workers, BatchStep(w)
  PROVE  TypeOK'
<1> USE AgeAssumption, FaultAssumption, RetryAssumption DEF TypeOK
<1>1. CASE Claim(w)
  <2> PICK S \in SUBSET Pending :
             /\ SetStatus(S, "processing")
             /\ hold' = [hold EXCEPT ![w] =
                            [i \in Items |-> IF i \in S THEN "todo" ELSE "no"]]
    BY <1>1 DEF Claim
  <2> QED BY <1>1 DEF Claim, SetStatus
<1>2. ASSUME NEW i \in Items, Build(w, i) PROVE TypeOK'
  BY <1>2 DEF Build, Stage
<1>3. ASSUME NEW i \in Items, MarkDone(w, i) PROVE TypeOK'
  <2>1. "done" \in Statuses
    OBVIOUS
  <2>2. status' \in [Items -> Statuses] /\ age' \in [Items -> 0 .. AgeCap]
    BY <1>3, <2>1, SetStatusType DEF MarkDone
  <2> QED BY <1>3, <2>2 DEF MarkDone, Stage
<1>4. ASSUME NEW i \in Items, FailRead(w, i) PROVE TypeOK'
  <2>1. PICK s \in Stages : Stage(w, i, s)
    BY <1>4 DEF FailRead
  <2>2. hold' \in [Workers -> [Items -> Stages]]
    BY <2>1 DEF Stage
  <2>3. retries[i] \in Nat
    OBVIOUS
  <2>4. seen' = seen \/ seen' = [seen EXCEPT ![w] = retries[i]]
    BY <1>4 DEF FailRead
  <2>5. seen' \in [Workers -> Nat]
    BY <2>3, <2>4
  <2> QED BY <1>4, <2>2, <2>5 DEF FailRead
<1>5. ASSUME NEW i \in Items, FailWrite(w, i) PROVE TypeOK'
  <2>1. CASE status[i] = "none"
    BY <1>5, <2>1 DEF FailWrite, Stage
  <2>2. CASE status[i] # "none"
    <3>1. PICK s \in Statuses : SetStatus({i}, s)
      BY <1>5, <2>2 DEF FailWrite
    <3>2. status' \in [Items -> Statuses] /\ age' \in [Items -> 0 .. AgeCap]
      BY <3>1, SetStatusType
    <3>3. retries' \in [Items -> Nat]
      BY <1>5, <2>2 DEF FailWrite
    <3> QED BY <1>5, <3>2, <3>3 DEF FailWrite, Stage
  <2> QED BY <2>1, <2>2
<1>6. CASE UpsertDelete(w)
  BY <1>6 DEF UpsertDelete
<1>7. CASE UpsertAdd(w)
  BY <1>7 DEF UpsertAdd
<1>8. CASE EndBatch(w)
  BY <1>8 DEF EndBatch
<1> QED BY <1>1, <1>2, <1>3, <1>4, <1>5, <1>6, <1>7, <1>8 DEF BatchStep

LEMMA FaultType ==
  ASSUME TypeOK, NEW w \in Workers, WorkerFault(w) \/ Start(w) \/ Exit(w)
  PROVE  TypeOK'
<1> USE AgeAssumption, FaultAssumption DEF TypeOK, Fault
<1>1. ASSUME NEW i \in Items, BuildError(w, i) PROVE TypeOK'
  BY <1>1 DEF BuildError, Stage
<1>2. ASSUME NEW i \in Items, MarkDoneError(w, i) PROVE TypeOK'
  BY <1>2 DEF MarkDoneError, Stage
<1>3. CASE UpsertAgain(w)
  BY <1>3 DEF UpsertAgain
<1>4. CASE UpsertError(w)
  BY <1>4 DEF UpsertError
<1>5. CASE Stop(w)
  BY <1>5 DEF Stop
<1>6. CASE Crash(w)
  BY <1>6 DEF Crash
<1>7. CASE Start(w)
  BY <1>7 DEF Start
<1>8. CASE Exit(w)
  BY <1>8 DEF Exit
<1> QED BY <1>1, <1>2, <1>3, <1>4, <1>5, <1>6, <1>7, <1>8 DEF WorkerFault

LEMMA NextType == TypeOK /\ [Next]_vars => TypeOK'
<1> SUFFICES ASSUME TypeOK, [Next]_vars PROVE TypeOK'
  OBVIOUS
<1>1. CASE StoreStep
  BY <1>1, StoreType
<1>2. CASE Recover \/ Cleanup \/ Tick
  BY <1>2, MaintenanceType
<1>3. ASSUME NEW w \in Workers,
             BatchStep(w) \/ WorkerFault(w) \/ Start(w) \/ Exit(w)
      PROVE  TypeOK'
  BY <1>3, BatchType, FaultType
<1>4. CASE UNCHANGED vars
  BY <1>4 DEF TypeOK
<1> QED BY <1>1, <1>2, <1>3, <1>4 DEF Next

(* Every reachable state is well typed: no operation of the outbox, of its  *)
(* workers or of the event store leaves a row or a batch malformed.         *)
THEOREM TypeCorrect == Spec => []TypeOK
<1>1. Init => TypeOK
  BY InitType
<1>2. TypeOK /\ [Next]_vars => TypeOK'
  BY NextType
<1> QED BY <1>1, <1>2, PTL DEF Spec

-----------------------------------------------------------------------------
(* A failed job is exhausted, with no assumption on timing.                 *)

LEMMA RetryEnvironment ==
  ASSUME TypeOK, RetryInv, StoreStep \/ Recover \/ Cleanup \/ Tick
  PROVE  RetryInv'
<1> USE DEF TypeOK, RetryInv, FailedIsExhausted, SetStatus
<1>1. ASSUME NEW i \in Items, Enqueue(i), UNCHANGED worker PROVE RetryInv'
  <2>1. CASE status[i] = "none"
    <3>1. /\ status' = [status EXCEPT ![i] = "pending"]
          /\ retries' = [retries EXCEPT ![i] = 0]
      BY <1>1, <2>1 DEF Enqueue
    <3>2. \A w \in Workers : hold[w][i] = "no"
      BY <2>1
    <3> QED BY <1>1, <3>1, <3>2
  <2>2. CASE status[i] # "none"
    BY <1>1, <2>2 DEF Enqueue
  <2> QED BY <2>1, <2>2
<1>2. ASSUME NEW i \in Items,
             \/ AppendEvent(i) \/ ImportEvent(i)
             \/ AppendDuplicate(i) \/ DeleteEvent(i)
      PROVE  RetryInv'
  <2>1. CASE AppendEvent(i) \/ ImportEvent(i)
    BY <1>1, <2>1 DEF AppendEvent, ImportEvent, Insert
  <2>2. CASE AppendDuplicate(i)
    BY <1>1, <2>2 DEF AppendDuplicate
  <2>3. CASE DeleteEvent(i)
    BY <2>3 DEF DeleteEvent
  <2> QED BY <1>2, <2>1, <2>2, <2>3
<1>3. CASE Recover
  BY <1>3 DEF Recover
<1>4. CASE Cleanup
  BY <1>4 DEF Cleanup, Expired
<1>5. CASE Tick
  BY <1>5 DEF Tick
<1> QED BY <1>2, <1>3, <1>4, <1>5 DEF StoreStep

LEMMA RetryBatch ==
  ASSUME TypeOK, RetryInv, NEW w \in Workers, BatchStep(w)
  PROVE  RetryInv'
<1> USE DEF TypeOK, RetryInv, FailedIsExhausted
<1>1. CASE Claim(w)
  <2> PICK S \in SUBSET Pending :
             /\ SetStatus(S, "processing")
             /\ hold' = [hold EXCEPT ![w] =
                            [i \in Items |-> IF i \in S THEN "todo" ELSE "no"]]
    BY <1>1 DEF Claim
  <2> QED BY <1>1 DEF Claim, SetStatus, Pending
<1>2. ASSUME NEW i \in Items, Build(w, i) PROVE RetryInv'
  BY <1>2 DEF Build, Stage
<1>3. ASSUME NEW i \in Items, MarkDone(w, i) PROVE RetryInv'
  BY <1>3 DEF MarkDone, Stage, SetStatus
<1>4. ASSUME NEW i \in Items, FailRead(w, i) PROVE RetryInv'
  <2>1. CASE Stage(w, i, "no") /\ UNCHANGED seen
    BY <1>4, <2>1 DEF FailRead, Stage
  <2>2. CASE Stage(w, i, "failing") /\ seen' = [seen EXCEPT ![w] = retries[i]]
    BY <1>4, <2>2 DEF FailRead, Stage
  <2> QED BY <1>4, <2>1, <2>2 DEF FailRead
<1>5. ASSUME NEW i \in Items, FailWrite(w, i) PROVE RetryInv'
  <2>1. status[i] # "none" /\ seen[w] <= retries[i]
    BY <1>5 DEF FailWrite
  <2>2. PICK s \in {"failed", "pending"} :
          SetStatus({i}, s) /\ (s = "failed" => /\ ~conflict[w]
                                                /\ seen[w] >= MaxRetries - 1)
    BY <1>5, <2>1 DEF FailWrite
  <2>3. /\ hold' = [hold EXCEPT ![w][i] = "no"]
        /\ retries' = [retries EXCEPT ![i] = IF conflict[w] THEN @ ELSE @ + 1]
        /\ UNCHANGED seen
    BY <1>5, <2>1 DEF FailWrite, Stage
  <2>4. status' = [j \in Items |-> IF j \in {i} THEN s ELSE status[j]]
    BY <2>2 DEF SetStatus
  <2>5. FailedIsExhausted'
    BY <2>1, <2>2, <2>3, <2>4, RetryAssumption
  <2>6. ASSUME NEW v \in Workers, NEW j \in Items
        PROVE  /\ hold'[v][j] # "no" => status'[j] # "none"
               /\ hold'[v][j] = "failing" => seen'[v] <= retries'[j]
    BY <2>2, <2>3, <2>4
  <2> QED BY <2>5, <2>6
<1>6. CASE UpsertDelete(w)
  BY <1>6 DEF UpsertDelete
<1>7. CASE UpsertAdd(w)
  BY <1>7 DEF UpsertAdd
<1>8. CASE EndBatch(w)
  BY <1>8 DEF EndBatch
<1> QED BY <1>1, <1>2, <1>3, <1>4, <1>5, <1>6, <1>7, <1>8 DEF BatchStep

LEMMA RetryFault ==
  ASSUME TypeOK, RetryInv, NEW w \in Workers,
         WorkerFault(w) \/ Start(w) \/ Exit(w)
  PROVE  RetryInv'
<1> USE DEF TypeOK, RetryInv, FailedIsExhausted, Fault
<1>1. ASSUME NEW i \in Items, BuildError(w, i) PROVE RetryInv'
  BY <1>1 DEF BuildError, Stage
<1>2. ASSUME NEW i \in Items, MarkDoneError(w, i) PROVE RetryInv'
  BY <1>2 DEF MarkDoneError, Stage, Completing
<1>3. CASE UpsertAgain(w)
  BY <1>3 DEF UpsertAgain
<1>4. CASE UpsertError(w)
  BY <1>4 DEF UpsertError
<1>5. CASE Stop(w)
  BY <1>5 DEF Stop
<1>6. CASE Crash(w)
  BY <1>6 DEF Crash
<1>7. CASE Start(w)
  BY <1>7 DEF Start
<1>8. CASE Exit(w)
  BY <1>8 DEF Exit
<1> QED BY <1>1, <1>2, <1>3, <1>4, <1>5, <1>6, <1>7, <1>8 DEF WorkerFault

(* A job fails for good only after MaxRetries counted failures, whatever    *)
(* the workers' timing: markFailed's verdict rests on a count that may be   *)
(* stale, but a stale count is never too high.                              *)
THEOREM FailedJobsAreExhausted == Spec => []FailedIsExhausted
<1>1. Init => TypeOK /\ RetryInv
  BY InitType DEF Init, RetryInv, FailedIsExhausted
<1>2. TypeOK /\ RetryInv /\ [Next]_vars => TypeOK' /\ RetryInv'
  <2> SUFFICES ASSUME TypeOK, RetryInv, [Next]_vars PROVE RetryInv'
    BY NextType
  <2>1. CASE UNCHANGED vars
    BY <2>1 DEF RetryInv, FailedIsExhausted
  <2> QED BY <2>1, RetryEnvironment, RetryBatch, RetryFault DEF Next
<1>3. RetryInv => FailedIsExhausted
  BY DEF RetryInv
<1> QED BY <1>1, <1>2, <1>3, PTL DEF Spec

-----------------------------------------------------------------------------
(* The claim as a mutual exclusion, under the timing assumption.            *)

(* What ClaimInv says of one worker and one item.                           *)
HoldInv(w, i) ==
    /\ hold[w][i] # "no" => /\ pc[w] \in {"batch", "add", "complete"}
                            /\ status[i] = "processing"
                            /\ age[i] <= StuckThreshold
                            /\ i \in born
    /\ hold[w][i] = "skip" => i \notin events
    /\ hold[w][i] = "rec" => /\ pc[w] = "add" => vectors[i] = 0
                             /\ pc[w] = "complete" => vectors[i] = 1
    /\ pc[w] = "add" => hold[w][i] \notin {"todo", "fail", "failing"}
    /\ pc[w] = "complete" => hold[w][i] # "todo"

(* ClaimInv, point by point.                                                *)
PointInv ==
    /\ \A v, w \in Workers, i \in Items :
          v # w => hold[v][i] = "no" \/ hold[w][i] = "no"
    /\ UniqueVectors /\ DoneIsIndexed
    /\ events \subseteq born
    /\ \A w \in Workers, i \in Items : HoldInv(w, i)
    /\ \A i \in Items : status[i] # "none" => i \in born

LEMMA ClaimIsPoint == TypeOK => (ClaimInv <=> PointInv)
<1> SUFFICES ASSUME TypeOK PROVE ClaimInv <=> PointInv
  OBVIOUS
<1>1. OneHolder <=> \A v, w \in Workers, i \in Items :
                       v # w => hold[v][i] = "no" \/ hold[w][i] = "no"
  BY DEF OneHolder
<1>2. ASSUME NEW w \in Workers
      PROVE  /\ NoFailure(w) <=>
                   \A i \in Items : hold[w][i] \notin {"fail", "failing"}
             /\ (At(w, "todo") = {}) <=>
                   \A i \in Items : hold[w][i] # "todo"
  BY DEF NoFailure
<1> QED BY <1>1, <1>2 DEF ClaimInv, PointInv, HoldInv

LEMMA ClaimEnvironment ==
  ASSUME Timely, ~ReimportDeleted, TypeOK, RetryInv, PointInv,
         StoreStep \/ Recover \/ Cleanup \/ Tick
  PROVE  PointInv'
<1> USE DEF TypeOK, PointInv, HoldInv, UniqueVectors, DoneIsIndexed
<1>1. ASSUME NEW i \in Items, AppendEvent(i) \/ ImportEvent(i) PROVE PointInv'
  <2>1. /\ i \notin born /\ status[i] = "none"
        /\ \A w \in Workers : hold[w][i] = "no"
    BY <1>1 DEF AppendEvent, ImportEvent
  <2>2. /\ events' = events \cup {i} /\ born' = born \cup {i}
        /\ status' = [status EXCEPT ![i] = "pending"]
        /\ age' = [age EXCEPT ![i] = 0]
        /\ UNCHANGED <<vectors, pc, hold>>
    BY <1>1, <2>1 DEF AppendEvent, ImportEvent, Insert, Enqueue, SetStatus
  <2> QED BY <2>1, <2>2
<1>2. ASSUME NEW i \in Items, AppendDuplicate(i) PROVE PointInv'
  BY <1>2 DEF AppendDuplicate, Enqueue, SetStatus
<1>3. ASSUME NEW i \in Items, DeleteEvent(i) PROVE PointInv'
  BY <1>3 DEF DeleteEvent
<1>4. CASE Recover
  <2>1. \A i \in Items : ~Retryable(i)
    BY RetryAssumption DEF RetryInv, FailedIsExhausted, Retryable
  <2>2. \A i \in Items, w \in Workers : Stuck(i) => hold[w][i] = "no"
    BY AgeAssumption DEF Stuck
  <2> QED BY <1>4, <2>1, <2>2 DEF Recover, SetStatus, Stuck
<1>5. CASE Cleanup
  BY <1>5 DEF Cleanup, Expired
<1>6. CASE Tick
  BY <1>6, AgeAssumption DEF Tick
<1> QED BY <1>1, <1>2, <1>3, <1>4, <1>5, <1>6 DEF StoreStep

LEMMA ClaimBatch ==
  ASSUME TypeOK, PointInv, NEW w \in Workers, BatchStep(w)
  PROVE  PointInv'
<1> USE DEF TypeOK, PointInv, HoldInv, UniqueVectors, DoneIsIndexed
<1>1. CASE Claim(w)
  <2> PICK S \in SUBSET Pending :
             /\ SetStatus(S, "processing")
             /\ hold' = [hold EXCEPT ![w] =
                            [i \in Items |-> IF i \in S THEN "todo" ELSE "no"]]
    BY <1>1 DEF Claim
  <2>1. \A i \in S, v \in Workers : hold[v][i] = "no" /\ status[i] = "pending"
    BY DEF Pending
  <2> QED BY <1>1, <2>1, AgeAssumption DEF Claim, SetStatus, Pending
<1>2. ASSUME NEW i \in Items, Build(w, i) PROVE PointInv'
  BY <1>2 DEF Build, Stage
<1>3. ASSUME NEW i \in Items, MarkDone(w, i) PROVE PointInv'
  <2>1. hold[w][i] = "skip" \/ (hold[w][i] = "rec" /\ pc[w] = "complete")
    BY <1>3 DEF MarkDone, Completing
  <2> QED BY <1>3, <2>1 DEF MarkDone, Stage, SetStatus
<1>4. ASSUME NEW i \in Items, FailRead(w, i) PROVE PointInv'
  <2>1. PICK s \in {"no", "failing"} : Stage(w, i, s)
    BY <1>4 DEF FailRead
  <2> QED BY <1>4, <2>1 DEF FailRead, Stage
<1>5. ASSUME NEW i \in Items, FailWrite(w, i) PROVE PointInv'
  <2>1. status[i] = "processing"
    BY <1>5 DEF FailWrite
  <2>2. PICK s \in {"failed", "pending"} : SetStatus({i}, s)
    BY <1>5, <2>1 DEF FailWrite
  <2> QED BY <1>5, <2>1, <2>2 DEF FailWrite, Stage, SetStatus
<1>6. CASE UpsertDelete(w)
  BY <1>6 DEF UpsertDelete, Built, NoFailure
<1>7. CASE UpsertAdd(w)
  BY <1>7 DEF UpsertAdd
<1>8. CASE EndBatch(w)
  BY <1>8 DEF EndBatch
<1> QED BY <1>1, <1>2, <1>3, <1>4, <1>5, <1>6, <1>7, <1>8 DEF BatchStep

LEMMA ClaimFault ==
  ASSUME TypeOK, PointInv, NEW w \in Workers,
         WorkerFault(w) \/ Start(w) \/ Exit(w)
  PROVE  PointInv'
<1> USE DEF TypeOK, PointInv, HoldInv, UniqueVectors, DoneIsIndexed, Fault
<1>1. ASSUME NEW i \in Items, BuildError(w, i) PROVE PointInv'
  BY <1>1 DEF BuildError, Stage
<1>2. ASSUME NEW i \in Items, MarkDoneError(w, i) PROVE PointInv'
  <2>1. pc[w] \in {"batch", "complete"} /\ hold[w][i] \in {"rec", "skip"}
    BY <1>2 DEF MarkDoneError, Completing, Built
  <2>2. /\ hold' = [hold EXCEPT ![w][i] = "fail"]
        /\ UNCHANGED <<events, born, outbox, vectors, pc>>
    BY <1>2 DEF MarkDoneError, Stage
  <2> QED BY <2>1, <2>2
<1>3. CASE UpsertAgain(w)
  BY <1>3 DEF UpsertAgain
<1>4. CASE UpsertError(w)
  BY <1>4 DEF UpsertError, Built
<1>5. CASE Stop(w)
  BY <1>5 DEF Stop
<1>6. CASE Crash(w)
  BY <1>6 DEF Crash
<1>7. CASE Start(w)
  BY <1>7 DEF Start
<1>8. CASE Exit(w)
  BY <1>8 DEF Exit
<1> QED BY <1>1, <1>2, <1>3, <1>4, <1>5, <1>6, <1>7, <1>8 DEF WorkerFault

(* ClaimInv is inductive under the timing assumption.                       *)
LEMMA ClaimInductive ==
  ASSUME Timely, ~ReimportDeleted
  PROVE  Spec => [](TypeOK /\ RetryInv /\ PointInv)
<1>1. Init => TypeOK /\ RetryInv /\ PointInv
  BY InitType DEF Init, RetryInv, FailedIsExhausted, PointInv, HoldInv,
                  UniqueVectors, DoneIsIndexed
<1>2. TypeOK /\ RetryInv /\ PointInv /\ [Next]_vars
         => (TypeOK /\ RetryInv /\ PointInv)'
  <2> SUFFICES ASSUME TypeOK, RetryInv, PointInv, [Next]_vars
               PROVE  RetryInv' /\ PointInv'
    BY NextType
  <2>1. CASE UNCHANGED vars
    BY <2>1 DEF RetryInv, FailedIsExhausted, PointInv, HoldInv,
                UniqueVectors, DoneIsIndexed
  <2>2. CASE Next
    <3>1. RetryInv'
      BY <2>2, RetryEnvironment, RetryBatch, RetryFault DEF Next
    <3>2. PointInv'
      BY <2>2, ClaimEnvironment, ClaimBatch, ClaimFault DEF Next
    <3> QED BY <3>1, <3>2
  <2> QED BY <2>1, <2>2
<1> QED BY <1>1, <1>2, PTL DEF Spec

(* When live workers finish a batch before it counts as stuck and deleted   *)
(* ids stay deleted, then for any number of workers, crashes, stops and     *)
(* retries: no two workers hold one job, no item has two vectors, and an    *)
(* existing event whose job is done is in the index.                        *)
THEOREM ClaimsAreExclusive ==
  ASSUME Timely, ~ReimportDeleted
  PROVE  Spec => [](OneHolder /\ IndexIsSound)
<1>1. TypeOK /\ PointInv => OneHolder /\ IndexIsSound
  BY ClaimIsPoint DEF ClaimInv, IndexIsSound
<1> QED BY <1>1, ClaimInductive, PTL

(* A step from a state of ClaimInv keeps every settled job settled.         *)
LEMMA SettledStep ==
  ASSUME Timely, ~ReimportDeleted, TypeOK, RetryInv, PointInv, Next,
         NEW i \in Items
  PROVE  /\ status[i] = "done" => status'[i] \in {"done", "none"}
         /\ status[i] = "failed" => status'[i] = "failed"
<1> USE DEF TypeOK, PointInv, HoldInv
<1>1. ASSUME NEW j \in Items,
             \/ AppendEvent(j) \/ ImportEvent(j)
             \/ AppendDuplicate(j) \/ DeleteEvent(j)
      PROVE  status[i] \in {"done", "failed"} => status'[i] = status[i]
  BY <1>1 DEF AppendEvent, ImportEvent, Insert, AppendDuplicate,
               DeleteEvent, Enqueue, SetStatus
<1>2. CASE Recover
  <2>1. ~Retryable(i)
    BY RetryAssumption DEF RetryInv, FailedIsExhausted, Retryable
  <2> QED BY <1>2, <2>1 DEF Recover, SetStatus, Stuck
<1>3. CASE Cleanup \/ Tick
  BY <1>3 DEF Cleanup, Expired, Tick
<1>4. ASSUME NEW w \in Workers, BatchStep(w)
      PROVE  status[i] \in {"done", "failed"} => status'[i] = status[i]
  <2>1. CASE Claim(w)
    BY <2>1 DEF Claim, SetStatus, Pending
  <2>2. ASSUME NEW j \in Items, MarkDone(w, j)
        PROVE  status[i] \in {"done", "failed"} => status'[i] = status[i]
    BY <2>2 DEF MarkDone, Completing, SetStatus
  <2>3. ASSUME NEW j \in Items, FailWrite(w, j)
        PROVE  status[i] \in {"done", "failed"} => status'[i] = status[i]
    BY <2>3 DEF FailWrite, SetStatus
  <2>4. ASSUME NEW j \in Items, Build(w, j) \/ FailRead(w, j)
        PROVE  status' = status
    BY <2>4 DEF Build, FailRead
  <2>5. CASE UpsertDelete(w) \/ UpsertAdd(w) \/ EndBatch(w)
    BY <2>5 DEF UpsertDelete, UpsertAdd, EndBatch
  <2> QED BY <1>4, <2>1, <2>2, <2>3, <2>4, <2>5 DEF BatchStep
<1>5. ASSUME NEW w \in Workers, WorkerFault(w) \/ Start(w) \/ Exit(w)
      PROVE  status' = status
  BY <1>5 DEF WorkerFault, BuildError, MarkDoneError, UpsertAgain,
              UpsertError, Stop, Crash, Start, Exit
<1> QED BY <1>1, <1>2, <1>3, <1>4, <1>5 DEF Next, StoreStep

(* Under the same assumptions a done or failed job is final: no late write  *)
(* of any worker brings it back.                                            *)
THEOREM SettledJobsAreFinal ==
  ASSUME Timely, ~ReimportDeleted
  PROVE  Spec => SettledIsFinal
<1>1. TypeOK /\ RetryInv /\ PointInv /\ [Next]_vars
        => [\A i \in Items :
              /\ status[i] = "done" => status'[i] \in {"done", "none"}
              /\ status[i] = "failed" => status'[i] = "failed"]_vars
  BY SettledStep
<1> QED BY <1>1, ClaimInductive, PTL DEF Spec, SettledIsFinal
-----------------------------------------------------------------------------
(* The outbox implements VectorJobs, under the timing assumption.           *)

(* The count a worker has read is the row's still, and it reads the next    *)
(* only after it has written the verdict on the last.                       *)
FailingInv ==
    \A w \in Workers, i \in Items : hold[w][i] = "failing" =>
        /\ seen[w] = retries[i]
        /\ \A j \in Items : hold[w][j] = "failing" => j = i

(* Nothing is disturbed by a step that lets no job begin to fail.           *)
LEMMA FailingFrame ==
  ASSUME FailingInv, UNCHANGED <<seen, retries>>,
         \A v \in Workers, j \in Items :
            hold'[v][j] = "failing" => hold[v][j] = "failing"
  PROVE  FailingInv'
BY DEF FailingInv

LEMMA FailingBatch ==
  ASSUME TypeOK, PointInv, FailingInv, NEW w \in Workers, BatchStep(w)
  PROVE  FailingInv'
<1> USE DEF TypeOK, PointInv, HoldInv, FailingInv
<1>1. CASE Claim(w)
  <2> PICK S \in SUBSET Pending :
             hold' = [hold EXCEPT ![w] =
                            [i \in Items |-> IF i \in S THEN "todo" ELSE "no"]]
    BY <1>1 DEF Claim
  <2> QED BY <1>1 DEF Claim
<1>2. ASSUME NEW i \in Items, Build(w, i) \/ MarkDone(w, i) PROVE FailingInv'
  BY <1>2 DEF Build, MarkDone, Stage
<1>3. ASSUME NEW i \in Items, FailRead(w, i) PROVE FailingInv'
  <2>1. \A j \in Items : hold[w][j] # "failing"
    BY <1>3 DEF FailRead
  <2>2. CASE Stage(w, i, "no") /\ UNCHANGED seen
    BY <1>3, <2>1, <2>2 DEF FailRead, Stage
  <2>3. CASE Stage(w, i, "failing") /\ seen' = [seen EXCEPT ![w] = retries[i]]
    BY <1>3, <2>1, <2>3 DEF FailRead, Stage
  <2> QED BY <1>3, <2>2, <2>3 DEF FailRead
<1>4. ASSUME NEW i \in Items, FailWrite(w, i) PROVE FailingInv'
  <2>1. /\ hold' = [hold EXCEPT ![w][i] = "no"]
        /\ UNCHANGED seen
        /\ \A j \in Items : j # i => retries'[j] = retries[j]
    BY <1>4 DEF FailWrite, Stage
  <2>2. \A v \in Workers : v # w => hold[v][i] = "no"
    BY <1>4 DEF FailWrite
  <2> QED BY <2>1, <2>2
<1>5. CASE UpsertDelete(w) \/ UpsertAdd(w) \/ EndBatch(w)
  BY <1>5 DEF UpsertDelete, UpsertAdd, EndBatch
<1> QED BY <1>1, <1>2, <1>3, <1>4, <1>5 DEF BatchStep

LEMMA FailingRest ==
  ASSUME TypeOK, PointInv, FailingInv,
         \/ StoreStep \/ Recover \/ Cleanup \/ Tick
         \/ \E w \in Workers : WorkerFault(w) \/ Start(w) \/ Exit(w)
  PROVE  FailingInv'
<1> USE DEF TypeOK, PointInv, HoldInv, FailingInv
<1>1. ASSUME NEW i \in Items, Enqueue(i), UNCHANGED worker PROVE FailingInv'
  <2>1. CASE status[i] = "none"
    <3>1. retries' = [retries EXCEPT ![i] = 0]
      BY <1>1, <2>1 DEF Enqueue
    <3>2. \A w \in Workers : hold[w][i] = "no"
      BY <2>1
    <3> QED BY <1>1, <3>1, <3>2
  <2>2. CASE status[i] # "none"
    BY <1>1, <2>2 DEF Enqueue
  <2> QED BY <2>1, <2>2
<1>2. CASE StoreStep
  <2> PICK i \in Items : \/ AppendEvent(i) \/ ImportEvent(i)
                         \/ AppendDuplicate(i) \/ DeleteEvent(i)
    BY <1>2 DEF StoreStep
  <2>1. CASE DeleteEvent(i)
    BY <2>1 DEF DeleteEvent
  <2>2. CASE AppendEvent(i) \/ ImportEvent(i) \/ AppendDuplicate(i)
    BY <1>1, <2>2 DEF AppendEvent, ImportEvent, Insert, AppendDuplicate
  <2> QED BY <2>1, <2>2
<1>3. CASE Recover \/ Cleanup \/ Tick
  BY <1>3 DEF Recover, Cleanup, Tick
<1>4. ASSUME NEW w \in Workers, WorkerFault(w) \/ Start(w) \/ Exit(w)
      PROVE  FailingInv'
  <2>1. ASSUME NEW i \in Items, BuildError(w, i) \/ MarkDoneError(w, i)
        PROVE  FailingInv'
    <3> HIDE DEF TypeOK, PointInv, HoldInv, FailingInv
    <3>1. UNCHANGED <<seen, retries>>
      BY <2>1 DEF BuildError, MarkDoneError, outbox
    <3>2. hold' = [hold EXCEPT ![w][i] = "fail"]
      BY <2>1 DEF BuildError, MarkDoneError, Stage
    <3>3. \A v \in Workers, j \in Items :
             hold'[v][j] = "failing" => hold[v][j] = "failing"
      BY <3>2 DEF TypeOK
    <3> QED BY <3>1, <3>3, FailingFrame
  <2>2. CASE UpsertError(w)
    BY <2>2 DEF UpsertError
  <2>3. CASE Crash(w)
    BY <2>3 DEF Crash
  <2>4. CASE UpsertAgain(w) \/ Stop(w) \/ Start(w) \/ Exit(w)
    BY <2>4 DEF UpsertAgain, Stop, Start, Exit
  <2> QED BY <1>4, <2>1, <2>2, <2>3, <2>4 DEF WorkerFault
<1> QED BY <1>2, <1>3, <1>4

(* An item stays in its phase while its row does, or is queued still, and   *)
(* the vectors of a done row stay.                                          *)
SameJob(i) ==
    \/ status'[i] = status[i]
       /\ (status[i] = "done" => vectors'[i] = vectors[i])
    \/ {status[i], status'[i]} \subseteq {"pending", "processing"}

LEMMA SamePhase ==
  ASSUME TypeOK, NEW i \in Items, SameJob(i)
  PROVE  Phase(i)' = Phase(i)
<1>1. CASE {status[i], status'[i]} \subseteq {"pending", "processing"}
  <2>1. Phase(i) = "queued" /\ Phase(i)' = "queued"
    BY <1>1 DEF Phase
  <2> QED BY <2>1
<1>2. CASE status'[i] = status[i] /\ status[i] = "done" /\ vectors'[i] = vectors[i]
  BY <1>2 DEF Phase
<1>3. CASE status'[i] = status[i] /\ status[i] # "done"
  BY <1>3 DEF Phase, TypeOK
<1> QED BY <1>1, <1>2, <1>3 DEF SameJob

(* A step that changes the job of item i alone.                             *)
LEMMA OnePhase ==
  ASSUME TypeOK, NEW i \in Items, \A j \in Items : j # i => SameJob(j)
  PROVE  [j \in Items |-> Phase(j)]' =
            [[j \in Items |-> Phase(j)] EXCEPT ![i] = Phase(i)']
  BY SamePhase

LEMMA NoPhase ==
  ASSUME TypeOK, \A j \in Items : SameJob(j)
  PROVE  [j \in Items |-> Phase(j)]' = [j \in Items |-> Phase(j)]
  BY SamePhase

LEMMA StoreImplements ==
  ASSUME ~ReimportDeleted, TypeOK, PointInv, StoreStep
  PROVE  [Jobs!Next]_(Jobs!vars)
<1> USE DEF TypeOK, PointInv
<1> PICK i \in Items : \/ AppendEvent(i) \/ ImportEvent(i)
                       \/ AppendDuplicate(i) \/ DeleteEvent(i)
  BY DEF StoreStep
<1>1. CASE DeleteEvent(i)
  <2>1. [j \in Items |-> Phase(j)]' = [j \in Items |-> Phase(j)]
    BY <1>1, NoPhase DEF DeleteEvent, SameJob
  <2> QED BY <1>1, <2>1 DEF DeleteEvent, Jobs!Next, Jobs!Remove
<1>2. ASSUME Enqueue(i), status[i] = "none", events' = events \cup {i},
             UNCHANGED vectors
      PROVE  Jobs!Submit(i)
  <2>1. /\ status' = [status EXCEPT ![i] = "pending"]
        /\ retries' = [retries EXCEPT ![i] = 0]
    BY <1>2 DEF Enqueue, SetStatus
  <2>2. Phase(i) = "absent" /\ Phase(i)' = "queued"
    BY <1>2, <2>1 DEF Phase
  <2>3. [j \in Items |-> Phase(j)]' =
           [[j \in Items |-> Phase(j)] EXCEPT ![i] = "queued"]
    BY <1>2, <2>1, <2>2, OnePhase DEF SameJob
  <2> QED BY <1>2, <2>1, <2>2, <2>3 DEF Jobs!Submit, Jobs!Become
<1>3. CASE AppendEvent(i) \/ ImportEvent(i)
  <2>1. Jobs!Submit(i)
    BY <1>2, <1>3 DEF AppendEvent, ImportEvent, Insert
  <2> QED BY <2>1 DEF Jobs!Next
<1>4. CASE AppendDuplicate(i)
  <2>1. CASE status[i] = "none"
    <3>1. Jobs!Submit(i)
      BY <1>2, <1>4, <2>1 DEF AppendDuplicate
    <3> QED BY <3>1 DEF Jobs!Next
  <2>2. CASE status[i] # "none"
    <3>1. UNCHANGED <<events, status, retries, vectors>>
      BY <1>4, <2>2 DEF AppendDuplicate, Enqueue
    <3>2. [j \in Items |-> Phase(j)]' = [j \in Items |-> Phase(j)]
      BY <3>1, NoPhase DEF SameJob
    <3> QED BY <3>1, <3>2 DEF Jobs!vars
  <2> QED BY <2>1, <2>2
<1> QED BY <1>1, <1>3, <1>4

LEMMA MaintenanceImplements ==
  ASSUME TypeOK, RetryInv, Recover \/ Cleanup \/ Tick
  PROVE  [Jobs!Next]_(Jobs!vars)
<1> USE DEF TypeOK
<1>1. CASE Recover
  <2>1. \A i \in Items : ~Retryable(i)
    BY RetryAssumption DEF RetryInv, FailedIsExhausted, Retryable
  <2>2. \A i \in Items : SameJob(i)
    BY <1>1, <2>1 DEF Recover, SetStatus, Stuck, SameJob
  <2>3. [j \in Items |-> Phase(j)]' = [j \in Items |-> Phase(j)]
    BY <2>2, NoPhase
  <2> QED BY <1>1, <2>3 DEF Recover, Jobs!vars
<1>2. CASE Cleanup
  <2> DEFINE S == {i \in Items : Expired(i)}
  <2>1. /\ status' = [i \in Items |-> IF Expired(i) THEN "none" ELSE status[i]]
        /\ UNCHANGED <<events, retries, vectors>>
    BY <1>2 DEF Cleanup
  <2>2. \A i \in S : Phase(i) \in {"indexed", "dropped"} /\ Phase(i)' = "absent"
    BY <2>1 DEF Expired, Phase
  <2>3. \A i \in Items \ S : Phase(i)' = Phase(i)
    BY <2>1, SamePhase DEF SameJob
  <2>4. [i \in Items |-> Phase(i)]' =
           [i \in Items |-> IF i \in S THEN "absent"
                            ELSE [j \in Items |-> Phase(j)][i]]
    BY <2>2, <2>3
  <2>5. Jobs!Forget(S)
    BY <2>1, <2>2, <2>4 DEF Jobs!Forget
  <2> QED BY <2>5 DEF Jobs!Next
<1>3. CASE Tick
  <2>1. [j \in Items |-> Phase(j)]' = [j \in Items |-> Phase(j)]
    BY <1>3, NoPhase DEF Tick, SameJob
  <2> QED BY <1>3, <2>1 DEF Tick, Jobs!vars
<1> QED BY <1>1, <1>2, <1>3

(* A batch in which nothing is settled changes no job.                      *)
LEMMA BatchStutters ==
  ASSUME TypeOK, PointInv, NEW w \in Workers,
         \/ Claim(w) \/ UpsertDelete(w) \/ UpsertAdd(w) \/ EndBatch(w)
         \/ \E i \in Items : Build(w, i) \/ FailRead(w, i)
         \/ WorkerFault(w) \/ Start(w) \/ Exit(w)
  PROVE  UNCHANGED Jobs!vars
<1> USE DEF TypeOK, PointInv, HoldInv
<1>1. /\ UNCHANGED <<events, retries>>
      /\ \A j \in Items : SameJob(j)
  <2>1. CASE Claim(w)
    BY <2>1 DEF Claim, SetStatus, Pending, SameJob
  <2>2. CASE UpsertDelete(w) \/ UpsertAdd(w)
    BY <2>2 DEF UpsertDelete, UpsertAdd, SameJob
  <2>3. CASE \/ EndBatch(w) \/ Start(w) \/ Exit(w)
             \/ \E i \in Items : Build(w, i) \/ FailRead(w, i)
    BY <2>3 DEF EndBatch, Start, Exit, Build, FailRead, SameJob
  <2>4. CASE WorkerFault(w)
    BY <2>4 DEF WorkerFault, BuildError, MarkDoneError, UpsertAgain,
                UpsertError, Stop, Crash, SameJob
  <2> QED BY <2>1, <2>2, <2>3, <2>4
<1>2. [j \in Items |-> Phase(j)]' = [j \in Items |-> Phase(j)]
  BY <1>1, NoPhase
<1> QED BY <1>1, <1>2 DEF Jobs!vars

(* markDone settles the job of an item: the holder has put it in the index, *)
(* or has found it gone.                                                    *)
LEMMA MarkDoneImplements ==
  ASSUME TypeOK, PointInv, NEW w \in Workers, NEW i \in Items, MarkDone(w, i)
  PROVE  Jobs!Index(i) \/ Jobs!Drop(i)
<1> USE DEF TypeOK, PointInv, HoldInv
<1>1. /\ hold[w][i] = "skip" \/ (hold[w][i] = "rec" /\ pc[w] = "complete")
      /\ status[i] = "processing"
  BY DEF MarkDone, Completing
<1>2. status' = [status EXCEPT ![i] = "done"]
  BY <1>1 DEF MarkDone, SetStatus
<1>3. UNCHANGED <<events, retries, vectors>>
  BY DEF MarkDone
<1>4. [j \in Items |-> Phase(j)]' =
         [[j \in Items |-> Phase(j)] EXCEPT ![i] = Phase(i)']
  BY <1>2, <1>3, OnePhase DEF SameJob
<1>5. Phase(i) = "queued"
  BY <1>1 DEF Phase
<1>6. CASE vectors[i] > 0
  <2>1. Phase(i)' = "indexed"
    BY <1>2, <1>3, <1>6 DEF Phase
  <2> QED BY <1>3, <1>4, <1>5, <2>1 DEF Jobs!Index, Jobs!Become
<1>7. CASE ~(vectors[i] > 0)
  <2>1. Phase(i)' = "dropped" /\ i \notin events
    BY <1>1, <1>2, <1>3, <1>7 DEF Phase
  <2> QED BY <1>3, <1>4, <1>5, <2>1 DEF Jobs!Drop, Jobs!Become
<1> QED BY <1>6, <1>7

(* markFailed counts a failure, and gives the job up at the last; a commit  *)
(* conflict is not counted.                                                 *)
LEMMA FailWriteImplements ==
  ASSUME TypeOK, PointInv, FailingInv,
         NEW w \in Workers, NEW i \in Items, FailWrite(w, i)
  PROVE  Jobs!Retry(i) \/ Jobs!GiveUp(i) \/ UNCHANGED Jobs!vars
<1> USE DEF TypeOK, PointInv, HoldInv
<1>1. status[i] = "processing" /\ seen[w] = retries[i]
  BY DEF FailWrite, FailingInv
<1>2. /\ status' = [status EXCEPT ![i] = IF ~conflict[w] /\ Exhausted(w)
                                         THEN "failed" ELSE "pending"]
      /\ retries' = [retries EXCEPT ![i] = CountFailure(w, i)]
      /\ UNCHANGED <<events, vectors>>
  BY <1>1 DEF FailWrite, SetStatus
<1>3. [j \in Items |-> Phase(j)]' =
         [[j \in Items |-> Phase(j)] EXCEPT ![i] = Phase(i)']
  BY <1>2, OnePhase DEF SameJob
<1>4. Phase(i) = "queued"
  BY <1>1 DEF Phase
<1>5. status'[i] = "pending" =>
         [j \in Items |-> Phase(j)]' = [j \in Items |-> Phase(j)]
  BY <1>1, <1>2, NoPhase DEF SameJob
<1>6. CASE conflict[w]
  <2>1. status'[i] = "pending"
    BY <1>2, <1>6
  <2>2. retries' = retries
    BY <1>2, <1>6 DEF CountFailure
  <2> QED BY <1>2, <1>5, <2>1, <2>2 DEF Jobs!vars
<1>7. CASE ~conflict[w] /\ Exhausted(w)
  <2>1. Phase(i)' = "abandoned"
    BY <1>2, <1>7 DEF Phase
  <2>2. /\ retries[i] + 1 >= MaxRetries
        /\ retries' = [retries EXCEPT ![i] = @ + 1]
    BY <1>1, <1>2, <1>7, RetryAssumption DEF Exhausted, CountFailure
  <2> QED BY <1>2, <1>3, <1>4, <2>1, <2>2 DEF Jobs!GiveUp, Jobs!Become
<1>8. CASE ~conflict[w] /\ ~Exhausted(w)
  <2>1. status'[i] = "pending"
    BY <1>2, <1>8
  <2>2. /\ retries[i] + 1 < MaxRetries
        /\ retries' = [retries EXCEPT ![i] = @ + 1]
    BY <1>1, <1>2, <1>8, RetryAssumption DEF Exhausted, CountFailure
  <2> QED BY <1>2, <1>4, <1>5, <2>1, <2>2 DEF Jobs!Retry
<1> QED BY <1>6, <1>7, <1>8

LEMMA StepImplements ==
  ASSUME ~ReimportDeleted, TypeOK, RetryInv, PointInv, FailingInv, [Next]_vars
  PROVE  [Jobs!Next]_(Jobs!vars)
<1>1. CASE StoreStep
  BY <1>1, StoreImplements
<1>2. CASE Recover \/ Cleanup \/ Tick
  BY <1>2, MaintenanceImplements
<1>3. ASSUME NEW w \in Workers, NEW i \in Items, MarkDone(w, i)
      PROVE  Jobs!Next
  BY <1>3, MarkDoneImplements DEF Jobs!Next
<1>4. ASSUME NEW w \in Workers, NEW i \in Items, FailWrite(w, i)
      PROVE  [Jobs!Next]_(Jobs!vars)
  BY <1>4, FailWriteImplements DEF Jobs!Next
<1>5. ASSUME NEW w \in Workers,
             \/ Claim(w) \/ UpsertDelete(w) \/ UpsertAdd(w) \/ EndBatch(w)
             \/ \E i \in Items : Build(w, i) \/ FailRead(w, i)
             \/ WorkerFault(w) \/ Start(w) \/ Exit(w)
      PROVE  [Jobs!Next]_(Jobs!vars)
  BY <1>5, BatchStutters
<1>6. CASE UNCHANGED vars
  <2>1. [j \in Items |-> Phase(j)]' = [j \in Items |-> Phase(j)]
    BY <1>6, NoPhase DEF SameJob
  <2> QED BY <1>6, <2>1 DEF Jobs!vars
<1> QED BY <1>1, <1>2, <1>3, <1>4, <1>5, <1>6 DEF Next, BatchStep

(* When live workers finish a batch before it counts as stuck and deleted   *)
(* ids stay deleted, the outbox, its workers, their failures, crashes and   *)
(* recoveries implement VectorJobs: each step is one of its steps or none.  *)
THEOREM OutboxImplementsJobs ==
  ASSUME Timely, ~ReimportDeleted
  PROVE  Spec => ImplementsJobs
<1> DEFINE Inv == TypeOK /\ RetryInv /\ PointInv
<1>1. Init => Jobs!Init /\ FailingInv
  BY DEF Init, Jobs!Init, Phase, FailingInv
<1>2. Inv /\ FailingInv /\ [Next]_vars => FailingInv'
  <2> SUFFICES ASSUME Inv, FailingInv, [Next]_vars PROVE FailingInv'
    OBVIOUS
  <2>1. CASE UNCHANGED vars
    BY <2>1 DEF FailingInv
  <2> QED BY <2>1, FailingBatch, FailingRest DEF Next
<1>3. Inv /\ FailingInv /\ [Next]_vars => [Jobs!Next]_(Jobs!vars)
  BY StepImplements
<1>4. Spec => []Inv
  BY ClaimInductive
<1> QED BY <1>1, <1>2, <1>3, <1>4, PTL DEF Spec, ImplementsJobs, Jobs!Spec
=============================================================================
