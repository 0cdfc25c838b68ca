------------------------- MODULE VectorWritersProofs ------------------------
(***************************************************************************)
(* The lock file is exclusive when acquire() calls do not overlap, for any  *)
(* number of processes and crashes, and it makes the store exclusive for    *)
(* the commands that shut down before they release.                         *)
(***************************************************************************)
EXTENDS VectorWriters, TLAPS

(* At most one process is in acquire(); a process that has created the file *)
(* finds it still empty and its own; a holder's pid is in the file; and a   *)
(* process judged the file stale only when nobody holds the lock.           *)
LockInv ==
    /\ LockTypeOK
    /\ \A p, q \in Procs : Acquiring(p) /\ Acquiring(q) => p = q
    /\ \A p \in Procs :
          /\ pc[p] = "write" => exists /\ inode[p] /\ payload = None
          /\ Holds(p) => exists /\ payload = p
          /\ pc[p] = "unlink" => \A q \in Procs : ~Holds(q)

LEMMA LockInitial == LockInit => LockInv
<1> SUFFICES ASSUME LockInit PROVE LockInv
  OBVIOUS
<1>1. LockTypeOK
  <2>1. inode \in [Procs -> BOOLEAN] /\ exists \in BOOLEAN
    BY Zenon DEF LockInit
  <2>2. /\ payload \in Procs \cup {None}
        /\ pc \in [Procs -> PCs]
        /\ crashes \in 0 .. MaxCrashes
    BY CrashAssumption DEF LockInit, PCs
  <2> QED BY <2>1, <2>2 DEF LockTypeOK
<1>2. \A p \in Procs : pc[p] = "out"
  BY DEF LockInit
<1> QED BY <1>1, <1>2 DEF LockInv, Acquiring, Holds

LEMMA LockStep ==
  ASSUME ~Overlap, LockInv, Next
  PROVE  LockInv'
<1> USE NoneAssumption, CrashAssumption
    DEF LockInv, LockTypeOK, PCs, Acquiring, Holds, Alive, Goto, Remove
<1>1. ASSUME NEW p \in Procs, StartAcquire(p) PROVE LockInv'
  BY <1>1 DEF StartAcquire
<1>2. ASSUME NEW p \in Procs, Open(p) PROVE LockInv'
  <2>1. CASE exists
    BY <1>2, <2>1 DEF Open
  <2>2. CASE ~exists
    BY <1>2, <2>2 DEF Open
  <2> QED BY <2>1, <2>2
<1>3. ASSUME NEW p \in Procs, Write(p) PROVE LockInv'
  BY <1>3 DEF Write
<1>4. ASSUME NEW p \in Procs, Read(p) PROVE LockInv'
  BY <1>4 DEF Read
<1>5. ASSUME NEW p \in Procs, Unlink(p) PROVE LockInv'
  BY <1>5 DEF Unlink
<1>6. ASSUME NEW p \in Procs, Release(p) PROVE LockInv'
  BY <1>6 DEF Release
<1>7. ASSUME NEW p \in Procs, Disown(p) PROVE LockInv'
  BY <1>7 DEF Disown
<1>8. ASSUME NEW p \in Procs, Exit(p) PROVE LockInv'
  BY <1>8 DEF Exit
<1>9. ASSUME NEW p \in Procs, Crash(p) PROVE LockInv'
  BY <1>9 DEF Crash
<1> QED BY <1>1, <1>2, <1>3, <1>4, <1>5, <1>6, <1>7, <1>8, <1>9
        DEF Next, AcquireStep

(* When acquire() calls do not overlap, at most one live process holds the  *)
(* lock, whatever crashes where and whatever file it leaves behind.         *)
THEOREM LockIsExclusive ==
  ASSUME ~Overlap
  PROVE  Spec => []Exclusive
<1>1. LockInit => LockInv
  BY LockInitial
<1>2. LockInv /\ [Next]_lockVars => LockInv'
  <2> SUFFICES ASSUME LockInv, [Next]_lockVars PROVE LockInv'
    OBVIOUS
  <2>1. CASE UNCHANGED lockVars
    BY <2>1 DEF lockVars, LockInv, LockTypeOK, Acquiring, Holds
  <2> QED BY <2>1, LockStep
<1>3. LockInv => Exclusive
  BY DEF LockInv, Exclusive
<1> QED BY <1>1, <1>2, <1>3, PTL DEF Spec

(* Under the same assumption nobody removes the lock file of a live holder  *)
(* but the holder itself, in release().                                     *)
THEOREM LiveLockIsKept ==
  ASSUME ~Overlap
  PROVE  Spec => KeepsLiveLock
<1>1. LockInit => LockInv
  BY LockInitial
<1>2. LockInv /\ [Next]_lockVars
        => LockInv' /\ [\A p \in Procs :
              Holds(p) /\ payload = p /\ payload' # p
                 => pc[p] = "disown"]_lockVars
  <2> SUFFICES ASSUME LockInv, [Next]_lockVars
               PROVE  /\ LockInv'
                      /\ Next => \A p \in Procs :
                            Holds(p) /\ payload = p /\ payload' # p
                               => pc[p] = "disown"
    OBVIOUS
  <2>1. CASE UNCHANGED lockVars
    BY <2>1, NoneAssumption DEF lockVars, LockInv, LockTypeOK, Acquiring, Holds
  <2>2. CASE Next
    <3> SUFFICES ASSUME NEW p \in Procs,
                        Holds(p) /\ payload = p /\ payload' # p
                 PROVE  LockInv' /\ pc[p] = "disown"
      BY LockStep, <2>2
    <3> QED BY <2>2, LockStep, NoneAssumption
            DEF Next, AcquireStep, LockInv, Holds, Acquiring, StartAcquire,
                Open, Write, Read, Unlink, Release, Disown, Exit, Crash,
                Remove, Goto
  <2> QED BY <2>1, <2>2
<1> QED BY <1>1, <1>2, PTL DEF Spec, KeepsLiveLock

-----------------------------------------------------------------------------
(* What a process runs never changes.                                       *)
LEMMA KindStays == [WritersNext]_vars => UNCHANGED kind
  BY DEF WritersNext, Step, Acquire, AcquireSummary, Initialize, StartBatch,
         EndBatch, Finish, ExitInCatch, StopWorkers, Close, ReleaseLock,
         ExitProcess, CrashProcess, vars

(* A batch in flight belongs to a service that is not closed yet.           *)
ServiceInv ==
    /\ TypeOK
    /\ \A p \in Procs : writing[p] => phase[p] \in {"open", "done", "stopping"}

LEMMA ServiceStep ==
  ASSUME ServiceInv, WritersNext
  PROVE  ServiceInv'
<1> USE CrashAssumption DEF ServiceInv, TypeOK, LockTypeOK, PCs, Phases
<1>0. kind' = kind
  BY KindStays
<1>1. ASSUME NEW p \in Procs, Acquire(p) PROVE ServiceInv'
  BY <1>0, <1>1 DEF Acquire, StartAcquire, AcquireStep, Open, Write, Read,
                    Unlink, Remove, Goto
<1>2. ASSUME NEW p \in Procs, AcquireSummary(p) PROVE ServiceInv'
  BY <1>0, <1>2 DEF AcquireSummary, Goto
<1>3. ASSUME NEW p \in Procs, Initialize(p) PROVE ServiceInv'
  BY <1>0, <1>3 DEF Initialize, Enter, lockVars
<1>4. ASSUME NEW p \in Procs, StartBatch(p) PROVE ServiceInv'
  BY <1>0, <1>4 DEF StartBatch, lockVars
<1>5. ASSUME NEW p \in Procs, EndBatch(p) PROVE ServiceInv'
  BY <1>0, <1>5 DEF EndBatch, lockVars
<1>6. ASSUME NEW p \in Procs, Finish(p) PROVE ServiceInv'
  BY <1>0, <1>6 DEF Finish, Enter, lockVars
<1>7. ASSUME NEW p \in Procs, ExitInCatch(p) PROVE ServiceInv'
  BY <1>0, <1>7 DEF ExitInCatch, Enter, Goto
<1>8. ASSUME NEW p \in Procs, StopWorkers(p) PROVE ServiceInv'
  BY <1>0, <1>8 DEF StopWorkers, Enter, lockVars
<1>9. ASSUME NEW p \in Procs, Close(p) PROVE ServiceInv'
  BY <1>0, <1>9 DEF Close, Enter, lockVars
<1>10. ASSUME NEW p \in Procs, ReleaseLock(p) PROVE ServiceInv'
  BY <1>0, <1>10 DEF ReleaseLock, Release, Disown, Remove, Goto
<1>11. ASSUME NEW p \in Procs, ExitProcess(p) PROVE ServiceInv'
  BY <1>0, <1>11 DEF ExitProcess, Exit, Enter, Goto
<1>12. ASSUME NEW p \in Procs, CrashProcess(p) PROVE ServiceInv'
  <2>1. crashes' \in 0 .. MaxCrashes
    BY <1>12 DEF CrashProcess, Crash
  <2> QED BY <1>0, <1>12, <2>1 DEF CrashProcess, Crash, Enter, Goto
<1> QED BY <1>1, <1>2, <1>3, <1>4, <1>5, <1>6, <1>7, <1>8, <1>9, <1>10,
           <1>11, <1>12 DEF WritersNext, Step

(* Whatever the commands are and however they interleave, a shutdown never  *)
(* closes the stores under a running batch, and every variable has its      *)
(* type.                                                                    *)
THEOREM WritersCloseQuietly == WritersSpec => []TypeOK /\ []ClosedIsQuiet
<1>1. Init => ServiceInv
  <2> SUFFICES ASSUME Init PROVE ServiceInv
    OBVIOUS
  <2>1. LockTypeOK
    BY LockInitial DEF Init, LockInv
  <2>2. kind \in [Procs -> Kinds]
    BY TeamsAssumption DEF Init
  <2>3. phase \in [Procs -> Phases] /\ writing \in [Procs -> BOOLEAN]
    BY DEF Init, Phases
  <2>4. \A p \in Procs : ~writing[p]
    BY DEF Init
  <2> QED BY <2>1, <2>2, <2>3, <2>4 DEF ServiceInv, TypeOK
<1>2. ServiceInv /\ [WritersNext]_vars => ServiceInv'
  <2> SUFFICES ASSUME ServiceInv, [WritersNext]_vars PROVE ServiceInv'
    OBVIOUS
  <2>1. CASE UNCHANGED vars
    BY <2>1 DEF vars, lockVars, ServiceInv, TypeOK, LockTypeOK
  <2> QED BY <2>1, ServiceStep
<1>3. ServiceInv => TypeOK /\ ClosedIsQuiet
  BY DEF ServiceInv, ClosedIsQuiet
<1> QED BY <1>1, <1>2, <1>3, PTL DEF WritersSpec
-----------------------------------------------------------------------------
(* The lock as the commands use it: two of their steps are none of the      *)
(* lock's own, a summary that starts without it and an exit in a catch      *)
(* block, which leaves the file as a crash does.                            *)
LEMMA LockOfWriters ==
  ASSUME ~Overlap, LockInv, WritersNext
  PROVE  \/ Next
         \/ UNCHANGED lockVars
         \/ \E p \in Procs :
               /\ \/ pc[p] = "out" /\ pc' = [pc EXCEPT ![p] = "after"]
                  \/ pc' = [pc EXCEPT ![p] = "out"]
               /\ UNCHANGED <<exists, payload, inode, crashes>>
  BY DEF WritersNext, Step, Acquire, AcquireSummary, Initialize, StartBatch,
         EndBatch, Finish, ExitInCatch, StopWorkers, Close, ReleaseLock,
         ExitProcess, CrashProcess, Goto, Next, lockVars

LEMMA LockInvOfWriters ==
  ASSUME ~Overlap, LockInv, [WritersNext]_vars
  PROVE  /\ LockInv'
         /\ \A p \in Procs :
               Holds(p) /\ payload = p /\ payload' # p => pc[p] = "disown"
<1>1. CASE UNCHANGED lockVars
  BY <1>1, NoneAssumption DEF lockVars, LockInv, LockTypeOK, Acquiring, Holds
<1>2. CASE Next
  <2> SUFFICES ASSUME NEW p \in Procs,
                      Holds(p) /\ payload = p /\ payload' # p
               PROVE  LockInv' /\ pc[p] = "disown"
    BY LockStep, <1>2
  <2> QED BY <1>2, LockStep, NoneAssumption
          DEF Next, AcquireStep, LockInv, Holds, Acquiring, StartAcquire,
              Open, Write, Read, Unlink, Release, Disown, Exit, Crash,
              Remove, Goto
<1>3. ASSUME NEW p \in Procs,
             \/ pc[p] = "out" /\ pc' = [pc EXCEPT ![p] = "after"]
             \/ pc' = [pc EXCEPT ![p] = "out"],
             UNCHANGED <<exists, payload, inode, crashes>>
      PROVE  LockInv'
  <2>1. pc' \in [Procs -> PCs]
    BY <1>3 DEF LockInv, LockTypeOK, PCs
  <2>2. \A q \in Procs : pc'[q] \in {pc[q], "out", "after"}
    BY <1>3 DEF LockInv, LockTypeOK
  <2> QED BY <1>3, <2>1, <2>2 DEF LockInv, LockTypeOK, Acquiring, Holds
<1> QED BY <1>1, <1>2, <1>3, LockOfWriters DEF vars, lockVars

-----------------------------------------------------------------------------
(* Only a process that has the lock is named in the file, or one that died  *)
(* with it: what a live one has returned is not its own any more.  This is  *)
(* so also when acquire() calls overlap.                                    *)
NamedInv ==
    /\ TypeOK
    /\ payload # None => exists
    /\ \A p \in Procs :
          /\ inode[p] => exists
          /\ Acquiring(p) \/ pc[p] = "after" => payload # p
          /\ ~Locks(p) => payload # p /\ ~Acquiring(p) /\ ~Holds(p)

LEMMA NamedStep ==
  ASSUME NamedInv, TypeOK', WritersNext
  PROVE  NamedInv'
<1> USE NoneAssumption DEF NamedInv, TypeOK, LockTypeOK, PCs, Acquiring, Holds,
                           Locks, Goto
<1>0. kind' = kind
  BY KindStays
<1>1. ASSUME NEW p \in Procs, Locks(p), StartAcquire(p), UNCHANGED kind
      PROVE  NamedInv'
  BY <1>1 DEF StartAcquire
<1>2. ASSUME NEW p \in Procs, Open(p) PROVE NamedInv'
  BY <1>0, <1>2 DEF Open
<1>3. ASSUME NEW p \in Procs, Write(p) PROVE NamedInv'
  BY <1>0, <1>3 DEF Write
<1>4. ASSUME NEW p \in Procs, Read(p) PROVE NamedInv'
  BY <1>0, <1>4 DEF Read
<1>5. ASSUME NEW p \in Procs, Unlink(p) \/ Disown(p) PROVE NamedInv'
  BY <1>0, <1>5 DEF Unlink, Disown, Remove
<1>6. ASSUME NEW p \in Procs, Release(p) PROVE NamedInv'
  BY <1>0, <1>6 DEF Release
<1>7. ASSUME NEW p \in Procs, AcquireSummary(p) PROVE NamedInv'
  BY <1>0, <1>7 DEF AcquireSummary
<1>8. ASSUME NEW p \in Procs, pc' = [pc EXCEPT ![p] = "out"],
             UNCHANGED <<exists, payload, inode>>
      PROVE  NamedInv'
  BY <1>0, <1>8
<1>9. ASSUME UNCHANGED lockVars PROVE NamedInv'
  BY <1>0, <1>9 DEF lockVars
<1> QED
  BY <1>0, <1>1, <1>2, <1>3, <1>4, <1>5, <1>6, <1>7, <1>8, <1>9
     DEF WritersNext, Step, Acquire, AcquireStep, Initialize, StartBatch,
         EndBatch, Finish, ExitInCatch, StopWorkers, Close, ReleaseLock,
         ExitProcess, Exit, CrashProcess, Crash

LEMMA NamedInitial == Init => NamedInv
<1> SUFFICES ASSUME Init PROVE NamedInv
  OBVIOUS
<1>1. LockTypeOK
  BY LockInitial DEF Init, LockInv
<1>2. TypeOK
  BY <1>1, TeamsAssumption DEF Init, TypeOK, Phases
<1> QED BY <1>2, NoneAssumption
        DEF NamedInv, Init, LockInit, Acquiring, Holds

LEMMA NamedKept == TypeOK' /\ NamedInv /\ [WritersNext]_vars => NamedInv'
<1>1. NamedInv /\ UNCHANGED vars => NamedInv'
  BY DEF vars, lockVars, NamedInv, TypeOK, LockTypeOK, Acquiring, Holds, Locks
<1> QED BY <1>1, NamedStep

(* Also when acquire() calls overlap: whoever is told that the lock is busy *)
(* has read the name of a live holder.  This is the half of StaleIsRecovered *)
(* that is not liveness, for a file of nobody alive is never taken for a    *)
(* lock.                                                                    *)
THEOREM BusyIsHonest == WritersSpec => BusyMeansHeld
<1>1. NamedInv /\ [WritersNext]_vars
        => [\A p \in Procs :
              pc[p] = "read" /\ pc'[p] = "after"
                 => exists /\ payload # None /\ Holds(payload)]_lockVars
  <2> SUFFICES ASSUME NamedInv, WritersNext, NEW p \in Procs,
                      pc[p] = "read", pc'[p] = "after"
               PROVE  exists /\ payload # None /\ Holds(payload)
    BY DEF vars, lockVars
  <2>1. pc \in [Procs -> PCs] /\ payload \in Procs \cup {None}
    BY DEF NamedInv, TypeOK, LockTypeOK
  <2>2. PICK q \in Procs : Step(q) \/ StartBatch(q) \/ ExitInCatch(q)
                           \/ CrashProcess(q)
    BY DEF WritersNext
  <2>3. Read(p)
    BY <2>1, <2>2 DEF Step, Acquire, StartAcquire, AcquireStep, Open, Write,
       Read, Unlink, AcquireSummary, Initialize, StartBatch, EndBatch, Finish,
       ExitInCatch, StopWorkers, Close, ReleaseLock, Release, Disown,
       ExitProcess, Exit, CrashProcess, Crash, Enter, Goto, lockVars
  <2>4. payload # None /\ Alive(payload)
    BY <2>1, <2>3 DEF Read, Goto
  <2> QED BY <2>1, <2>4 DEF NamedInv, PCs, Acquiring, Alive, Holds
<1> QED BY NamedInitial, NamedKept, <1>1, WritersCloseQuietly, PTL
        DEF WritersSpec, BusyMeansHeld

(* Whatever the commands are: when their acquire() calls do not overlap,    *)
(* the lock has one live holder, nobody else removes its file, and nobody   *)
(* gives way but to a live holder.                                          *)
THEOREM WritersShareTheLock ==
  ASSUME ~Overlap
  PROVE  WritersSpec => LockIsSound
<1>1. Init => LockInv
  BY LockInitial DEF Init
<1>2. LockInv /\ [WritersNext]_vars
        => LockInv' /\ [\A p \in Procs :
              Holds(p) /\ payload = p /\ payload' # p
                 => pc[p] = "disown"]_lockVars
  BY LockInvOfWriters
<1>3. LockInv => Exclusive
  BY DEF LockInv, Exclusive
<1> QED BY <1>1, <1>2, <1>3, BusyIsHonest, PTL
        DEF WritersSpec, LockIsSound, KeepsLiveLock

(* Whoever runs what, and also when acquire() calls overlap: a command that *)
(* ends, in whatever way but a crash or the exit in the catch block of      *)
(* process, has released the lock and shut its service down.                *)
THEOREM WritersExitClean == WritersSpec => ExitsAfterRelease
<1>1. NamedInv /\ [WritersNext]_vars
        => [\A p \in Procs :
              Alive(p) /\ pc'[p] = "out" /\ crashes' = crashes
              /\ kind[p] # "process"
                 => payload # p /\ phase[p] \in {"none", "closed"}]_vars
  <2> SUFFICES ASSUME NamedInv, WritersNext, NEW p \in Procs, Alive(p),
                      pc'[p] = "out", crashes' = crashes, kind[p] # "process"
               PROVE  payload # p /\ phase[p] \in {"none", "closed"}
    OBVIOUS
  <2>1. pc \in [Procs -> PCs] /\ crashes \in 0 .. MaxCrashes
    BY DEF NamedInv, TypeOK, LockTypeOK
  <2>2. ~ExitInCatch(p) /\ \A q \in Procs : ~CrashProcess(q)
    BY <2>1, CrashAssumption DEF CrashProcess, Crash, ExitInCatch
  <2>3. \A q \in Procs : ~(Acquire(q) \/ AcquireSummary(q))
    <3> SUFFICES ASSUME NEW q \in Procs, Acquire(q) \/ AcquireSummary(q)
                 PROVE  FALSE
      OBVIOUS
    <3>1. \E l \in PCs \ {"out"} : pc' = [pc EXCEPT ![q] = l]
      BY DEF Acquire, StartAcquire, AcquireStep, Open, Write, Read, Unlink,
             AcquireSummary, Goto, PCs
    <3> QED BY <2>1, <3>1 DEF Alive
  <2>4. \A q \in Procs :
           ~(\/ Initialize(q) \/ EndBatch(q) \/ Finish(q) \/ StopWorkers(q)
             \/ Close(q) \/ StartBatch(q) \/ ReleaseLock(q))
    BY <2>1 DEF Initialize, EndBatch, Finish, StopWorkers, Close, StartBatch,
                ReleaseLock, Release, Disown, Goto, Alive, lockVars
  <2>5. \A q \in Procs : ExitInCatch(q) => q = p
    BY <2>1 DEF ExitInCatch, Goto, Alive
  <2>6. PICK q \in Procs : ExitProcess(q)
    BY <2>2, <2>3, <2>4, <2>5 DEF WritersNext, Step
  <2> QED BY <2>1, <2>6 DEF ExitProcess, Exit, Goto, Alive, NamedInv
<1> QED BY NamedInitial, NamedKept, <1>1, WritersCloseQuietly, PTL
        DEF WritersSpec, ExitsAfterRelease
-----------------------------------------------------------------------------
(* A command that shuts down before it releases holds the lock for as long  *)
(* as its service may write, whatever the commands beside it do.            *)
OrderInv ==
    /\ ServiceInv
    /\ \A p \in Procs :
          KeepsOrder(p) /\ phase[p] \in {"open", "done", "stopping"}
             => pc[p] = "held"

(* A service enters such a phase from outside them only with the lock held  *)
(* (Initialize), and a command leaves "held" only with its service closed   *)
(* or by its death: a step of one process leaves the others where they are. *)
LEMMA OrderStep ==
  ASSUME OrderInv, WritersNext
  PROVE  OrderInv'
<1> USE DEF OrderInv, ServiceInv, TypeOK, LockTypeOK, PCs, Phases, KeepsOrder
<1>0. kind' = kind /\ ServiceInv'
  BY KindStays, ServiceStep
<1>1. PICK p \in Procs : Step(p) \/ StartBatch(p) \/ ExitInCatch(p)
                         \/ CrashProcess(p)
  BY DEF WritersNext
<1>2. \A q \in Procs : q # p => pc'[q] = pc[q] /\ phase'[q] = phase[q]
  BY <1>1 DEF Step, Acquire, StartAcquire, AcquireStep, Open, Write, Read,
      Unlink, AcquireSummary, Initialize, StartBatch, EndBatch, Finish,
      ExitInCatch, StopWorkers, Close, ReleaseLock, Release, Disown,
      ExitProcess, Exit, CrashProcess, Crash, Enter, Goto, lockVars
<1>3. ASSUME KeepsOrder(p), phase'[p] \in {"open", "done", "stopping"}
      PROVE  pc'[p] = "held"
  BY <1>1, <1>3 DEF Step, Acquire, StartAcquire, AcquireStep, AcquireSummary,
      Initialize, StartBatch, EndBatch, Finish, ExitInCatch, StopWorkers,
      Close, ReleaseLock, ReleasesFirst, ExitProcess, CrashProcess, Enter,
      Locks, lockVars
<1> QED BY <1>0, <1>2, <1>3

(* The owner is whoever holds the lock.                                     *)
LEMMA TheOwner ==
  LockInv => /\ \A p \in Procs : Holds(p) <=> Owner = p
             /\ (\A p \in Procs : ~Holds(p)) => Owner = None
<1> SUFFICES ASSUME LockInv
             PROVE  /\ \A p \in Procs : Holds(p) <=> Owner = p
                    /\ (\A p \in Procs : ~Holds(p)) => Owner = None
  OBVIOUS
<1>1. \A p, q \in Procs : Holds(p) /\ Holds(q) => p = q
  BY DEF LockInv, Holds
<1> QED BY <1>1, NoneAssumption DEF Owner

(* Only a step of the owner, or of the process that takes a free lock,      *)
(* changes the owner.                                                       *)
LEMMA OwnerMoves ==
  ASSUME LockInv, LockInv', NEW p \in Procs,
         \A q \in Procs : q # p => pc'[q] = pc[q]
  PROVE  /\ Holds(p)  /\ ~Holds(p)' => Owner = p /\ Owner' = None
         /\ ~Holds(p) /\ Holds(p)'  => Owner = None /\ Owner' = p
         /\ (Holds(p) <=> Holds(p)') => Owner' = Owner
<1>1. \A q \in Procs : q # p => (Holds(q)' <=> Holds(q))
  BY DEF Holds
<1>2. /\ \A q \in Procs : Holds(q) <=> Owner = q
      /\ (\A q \in Procs : ~Holds(q)) => Owner = None
  BY TheOwner
<1>3. (/\ \A q \in Procs : Holds(q) <=> Owner = q
       /\ (\A q \in Procs : ~Holds(q)) => Owner = None)'
  <2>1. \A q, r \in Procs : Holds(q)' /\ Holds(r)' => q = r
    BY DEF LockInv, Holds
  <2> QED BY <2>1, NoneAssumption DEF Owner
<1>4. ASSUME Holds(p), ~Holds(p)' PROVE Owner = p /\ Owner' = None
  <2>1. \A q \in Procs : ~Holds(q)'
    <3>1. \A q \in Procs : Holds(q) => q = p
      BY <1>2, <1>4
    <3> QED BY <1>1, <1>4, <3>1
  <2> QED BY <1>2, <1>3, <1>4, <2>1
<1>5. ASSUME ~Holds(p), Holds(p)' PROVE Owner = None /\ Owner' = p
  <2>1. \A q \in Procs : ~Holds(q)
    <3>1. \A q \in Procs : Holds(q)' => q = p
      BY <1>3, <1>5
    <3> QED BY <1>1, <1>5, <3>1
  <2> QED BY <1>2, <1>3, <1>5, <2>1
<1>6. ASSUME Holds(p) <=> Holds(p)' PROVE Owner' = Owner
  <2>1. \A q \in Procs : Holds(q)' <=> Holds(q)
    BY <1>1, <1>6
  <2>2. CASE \E q \in Procs : Holds(q)
    BY <1>2, <1>3, <2>1, <2>2
  <2> QED BY <1>2, <1>3, <2>1, <2>2
<1> QED BY <1>4, <1>5, <1>6

(* Each step is one of the exclusive store, or none: Write takes it, Disown *)
(* yields it, the holder's crash and the exit in the catch block of process *)
(* are deaths, and a batch of a command that keeps the order begins while   *)
(* the command is the owner.                                                *)
LEMMA StoreStep ==
  ASSUME LockInv, LockInv', OrderInv, OrderInv', WritersNext
  PROVE  [Store!Next]_Store!vars
<1>0. /\ pc \in [Procs -> PCs] /\ writing \in [Procs -> BOOLEAN]
      /\ \A q \in Procs : KeepsOrder(q)' = KeepsOrder(q)
      /\ \A q \in Busy : phase[q] \in {"open", "done", "stopping"}
      /\ \A q \in Procs :
            KeepsOrder(q) /\ phase[q] \in {"open", "done", "stopping"}
               => pc[q] = "held"
  BY KindStays
     DEF OrderInv, ServiceInv, TypeOK, LockTypeOK, KeepsOrder, Busy
<1>1. PICK p \in Procs : Step(p) \/ StartBatch(p) \/ ExitInCatch(p)
                         \/ CrashProcess(p)
  BY DEF WritersNext
<1>2. \A q \in Procs : q # p => pc'[q] = pc[q]
  BY <1>0, <1>1 DEF Step, Acquire, StartAcquire, AcquireStep, Open, Write, Read,
      Unlink, AcquireSummary, Initialize, StartBatch, EndBatch, Finish,
      ExitInCatch, StopWorkers, Close, ReleaseLock, Release, Disown,
      ExitProcess, Exit, CrashProcess, Crash, Enter, Goto, lockVars
<1>3. /\ Holds(p)  /\ ~Holds(p)' => Owner = p /\ Owner' = None
      /\ ~Holds(p) /\ Holds(p)'  => Owner = None /\ Owner' = p
      /\ (Holds(p) <=> Holds(p)') => Owner' = Owner
  BY <1>2, OwnerMoves
<1>4. Holds(p) => Owner = p
  BY TheOwner
<1>5. CASE Acquire(p) \/ AcquireSummary(p) \/ Initialize(p) \/ Finish(p)
           \/ StopWorkers(p) \/ Close(p) \/ ReleaseLock(p) \/ ExitProcess(p)
  <2>1. Busy' = Busy
    BY <1>0, <1>5 DEF Acquire, AcquireSummary, Initialize, Finish,
        StopWorkers, Close, ReleaseLock, ExitProcess, Busy
  <2>2. Holds(p) /\ ~Holds(p)' => p \notin Busy
    BY <1>0, <1>5 DEF Acquire, StartAcquire, AcquireStep, Open, Write, Read, Unlink,
        AcquireSummary, Initialize, Finish, StopWorkers, Close, ReleaseLock,
        ReleasesFirst, ExitProcess, Exit, Holds, Goto, lockVars,
        KeepsOrder, Busy
  <2> QED BY <1>3, <2>1, <2>2 DEF Store!Next, Store!Take, Store!Yield,
                                  Store!vars
<1>6. CASE StartBatch(p)
  <2>1. Owner' = Owner /\ p \notin Busy
    BY <1>3, <1>6 DEF StartBatch, Holds, lockVars, Busy
  <2>2. CASE KeepsOrder(p)
    <3>1. Busy' = Busy \cup {p}
      BY <1>0, <1>6, <2>2 DEF StartBatch, Busy
    <3>2. Owner = p
      BY <1>0, <1>4, <1>6, <2>2 DEF StartBatch, Holds
    <3> QED BY <2>1, <3>1, <3>2 DEF Store!Next, Store!Begin
  <2>3. CASE ~KeepsOrder(p)
    <3>1. Busy' = Busy
      BY <1>0, <1>6, <2>3 DEF StartBatch, Busy
    <3> QED BY <2>1, <3>1 DEF Store!vars
  <2> QED BY <2>2, <2>3
<1>7. CASE EndBatch(p)
  <2>1. Owner' = Owner
    BY <1>3, <1>7 DEF EndBatch, Holds, lockVars
  <2>2. Busy' = Busy \ {p}
    BY <1>0, <1>7 DEF EndBatch, Busy
  <2>3. CASE p \in Busy
    BY <2>1, <2>2, <2>3 DEF Store!Next, Store!End
  <2>4. CASE p \notin Busy
    BY <2>1, <2>2, <2>4 DEF Store!vars
  <2> QED BY <2>3, <2>4
<1>8. CASE ExitInCatch(p) \/ CrashProcess(p)
  <2>1. Busy' = Busy \ {p}
    BY <1>0, <1>8 DEF ExitInCatch, CrashProcess, Busy
  <2>2. ~Holds(p)'
    BY <1>0, <1>8 DEF ExitInCatch, CrashProcess, Crash, Goto, Holds
  <2>3. ~Holds(p) => p \notin Busy
    BY <1>0 DEF Holds, Busy
  <2>4. CASE Holds(p)
    BY <1>3, <2>1, <2>2, <2>4 DEF Store!Next, Store!Die
  <2>5. CASE ~Holds(p)
    BY <1>3, <2>1, <2>2, <2>3, <2>5 DEF Store!vars
  <2> QED BY <2>4, <2>5
<1> QED BY <1>1, <1>5, <1>6, <1>7, <1>8 DEF Step

(* No two of these commands write at the same time.                         *)
OneOrderedWriter == \A p, q \in Busy : p = q

(* When acquire() calls do not overlap, the commands implement the          *)
(* exclusive store, for any number of processes, of any kinds, that crash   *)
(* wherever they do; and of those that shut down before they release no two *)
(* ever write vectors at the same time.                                     *)
THEOREM WritersImplementStore ==
  ASSUME ~Overlap
  PROVE  WritersSpec => ImplementsStore /\ []OneOrderedWriter
<1>1. Init => LockInv /\ OrderInv /\ Store!Init
  <2> SUFFICES ASSUME Init PROVE LockInv /\ OrderInv /\ Store!Init
    OBVIOUS
  <2>1. LockInv
    BY LockInitial DEF Init
  <2>2. kind \in [Procs -> Kinds]
    BY TeamsAssumption DEF Init
  <2>3. phase \in [Procs -> Phases] /\ \A p \in Procs : phase[p] = "none"
    BY DEF Init, Phases
  <2>4. writing \in [Procs -> BOOLEAN] /\ \A p \in Procs : ~writing[p]
    BY DEF Init
  <2>5. OrderInv
    BY <2>1, <2>2, <2>3, <2>4 DEF OrderInv, ServiceInv, TypeOK, LockInv
  <2>6. Owner = None
    BY DEF Init, LockInit, Holds, Owner
  <2> QED BY <2>1, <2>4, <2>5, <2>6 DEF Store!Init, Busy
<1>2. LockInv /\ OrderInv /\ [WritersNext]_vars
        => LockInv' /\ OrderInv' /\ [Store!Next]_Store!vars
  <2> SUFFICES ASSUME LockInv, OrderInv, [WritersNext]_vars
               PROVE  LockInv' /\ OrderInv' /\ [Store!Next]_Store!vars
    OBVIOUS
  <2>1. LockInv'
    BY LockInvOfWriters
  <2>2. CASE UNCHANGED vars
    <3>1. OrderInv'
      BY <2>2 DEF vars, lockVars, OrderInv, ServiceInv, TypeOK, LockTypeOK,
                  KeepsOrder
    <3>2. UNCHANGED Store!vars
      BY <2>2 DEF vars, lockVars, Store!vars, Owner, Holds, Busy, KeepsOrder
    <3> QED BY <2>1, <3>1, <3>2
  <2> QED BY <2>1, <2>2, OrderStep, StoreStep
<1>3. LockInv /\ OrderInv => OneOrderedWriter
  BY DEF LockInv, OrderInv, ServiceInv, Holds, OneOrderedWriter, Busy
<1> QED BY <1>1, <1>2, <1>3, PTL DEF WritersSpec, ImplementsStore, Store!Spec
=============================================================================
