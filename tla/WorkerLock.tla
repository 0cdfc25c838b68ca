----------------------------- MODULE WorkerLock -----------------------------
(***************************************************************************)
(* The lock file that makes a process the vector writer of a store          *)
(* (core/worker-lock.ts).  acquire() and release() are synchronous, but     *)
(* every file-system call is a step other processes interleave with.        *)
(*                                                                          *)
(* The file is created empty (open with flag wx) and then filled through    *)
(* the descriptor, which still works when somebody has unlinked the path:   *)
(* inode[p] says whether the path still leads to the file p created.        *)
(***************************************************************************)
EXTENDS Naturals

CONSTANTS
    Procs,      \* processes, one WorkerLock object each
    None,       \* no file, or no payload in it
    Overlap,    \* acquire() calls of different processes may overlap
    MaxCrashes  \* bound: crashes in a behaviour

ASSUME NoneAssumption == None \notin Procs
ASSUME OverlapAssumption == Overlap \in BOOLEAN
ASSUME CrashAssumption == MaxCrashes \in Nat

PCs == {"out",        \* the process does not run
        "open",       \* acquire: about to create the file
        "write",      \* created it, about to write the payload
        "read",       \* it exists, about to read the payload
        "unlink",     \* judged it stale, about to remove it
        "held",       \* acquire() returned acquired: true
        "disown",     \* release: found its own payload, about to unlink
        "after"}     \* it found the lock busy, or has released it

VARIABLES
    exists,   \* there is a file at lockPath
    payload,  \* the process named in it, None while it is empty
    inode,    \* inode[p]: the file at lockPath is the one p created
    pc,       \* where each process is in acquire() and release()
    crashes   \* crashes so far, at most MaxCrashes

lockVars == <<exists, payload, inode, pc, crashes>>

Acquiring(p) == pc[p] \in {"open", "write", "read", "unlink"}
Alive(p) == pc[p] # "out"
Holds(p) == pc[p] \in {"held", "disown"}

Goto(p, label) == pc' = [pc EXCEPT ![p] = label]

Remove == /\ exists' = FALSE
          /\ payload' = None
          /\ inode' = [p \in Procs |-> FALSE]

LockInit ==
    /\ exists = FALSE /\ payload = None
    /\ inode = [p \in Procs |-> FALSE]
    /\ pc = [p \in Procs |-> "out"]
    /\ crashes = 0

-----------------------------------------------------------------------------
(* acquire()                                                                *)

(* A process starts with a pid the lock file does not name.                 *)
StartAcquire(p) ==
    /\ pc[p] = "out" /\ payload # p
    /\ Overlap \/ \A q \in Procs : ~Acquiring(q)
    /\ Goto(p, "open")
    /\ UNCHANGED <<exists, payload, inode, crashes>>

(* tryCreateLockFile, up to the open.  Mistaken variant: without flag wx.    *)
OpenTruncating(p) ==
    /\ pc[p] = "open"
    /\ exists' = TRUE /\ payload' = None
    /\ inode' = [q \in Procs |-> q = p]
    /\ Goto(p, "write")
    /\ UNCHANGED crashes
Open(p) ==
    /\ pc[p] = "open"
    /\ IF exists
       THEN Goto(p, "read") /\ UNCHANGED <<exists, payload, inode>>
       ELSE /\ exists' = TRUE /\ payload' = None
            /\ inode' = [inode EXCEPT ![p] = TRUE]
            /\ Goto(p, "write")
    /\ UNCHANGED crashes

(* The payload goes into the file p created, whether or not the path still  *)
(* leads there; acquire() returns.                                          *)
Write(p) ==
    /\ pc[p] = "write"
    /\ payload' = IF inode[p] THEN p ELSE payload
    /\ Goto(p, "held")
    /\ UNCHANGED <<exists, inode, crashes>>

(* readPayload and isProcessRunning: busy when the payload names a live     *)
(* process, stale when it is missing, empty or names a dead one.  Mistaken  *)
(* variants: every file is stale; every file is live.                       *)
ReadCarelessly(p) ==
    /\ pc[p] = "read"
    /\ Goto(p, "unlink")
    /\ UNCHANGED <<exists, payload, inode, crashes>>
ReadStrictly(p) ==
    /\ pc[p] = "read"
    /\ Goto(p, IF exists THEN "after" ELSE "unlink")
    /\ UNCHANGED <<exists, payload, inode, crashes>>
Read(p) ==
    /\ pc[p] = "read"
    /\ IF payload # None /\ Alive(payload)
       THEN Goto(p, "after") ELSE Goto(p, "unlink")
    /\ UNCHANGED <<exists, payload, inode, crashes>>

(* removeExistingLock: whatever is at the path now; a missing file counts   *)
(* as removed.                                                              *)
Unlink(p) ==
    /\ pc[p] = "unlink"
    /\ Remove
    /\ Goto(p, "open")
    /\ UNCHANGED crashes

-----------------------------------------------------------------------------
(* release(), and the end of the process.                                   *)

(* release() looks for its own payload; without it the file is left alone.  *)
Release(p) ==
    /\ pc[p] = "held"
    /\ Goto(p, IF exists /\ payload = p THEN "disown" ELSE "after")
    /\ UNCHANGED <<exists, payload, inode, crashes>>

Disown(p) ==
    /\ pc[p] = "disown"
    /\ Remove
    /\ Goto(p, "after")
    /\ UNCHANGED crashes

Exit(p) ==
    /\ pc[p] = "after"
    /\ Goto(p, "out")
    /\ UNCHANGED <<exists, payload, inode, crashes>>

Crash(p) ==
    /\ Alive(p)
    /\ crashes < MaxCrashes
    /\ crashes' = crashes + 1
    /\ Goto(p, "out")
    /\ UNCHANGED <<exists, payload, inode>>

AcquireStep(p) == Open(p) \/ Write(p) \/ Read(p) \/ Unlink(p)

Next ==
    \E p \in Procs : \/ StartAcquire(p) \/ AcquireStep(p)
                     \/ Release(p) \/ Disown(p) \/ Exit(p) \/ Crash(p)

Spec == LockInit /\ [][Next]_lockVars

-----------------------------------------------------------------------------
(* Every variable has its type.                                             *)
LockTypeOK ==
    /\ exists \in BOOLEAN
    /\ payload \in Procs \cup {None}
    /\ inode \in [Procs -> BOOLEAN]
    /\ pc \in [Procs -> PCs]
    /\ crashes \in 0 .. MaxCrashes

(* At most one live process believes it holds the lock, across crashes in   *)
(* any step and the recovery of what they leave behind (acquire, release).  *)
Exclusive ==
    \A p, q \in Procs : Holds(p) /\ Holds(q) => p = q

(* Nobody ever removes or replaces the lock file of another live holder.    *)
KeepsLiveLock ==
    [][\A p \in Procs :
          Holds(p) /\ payload = p /\ payload' # p => pc[p] = "disown"]_lockVars

(* A lock file left by a dead process, empty or with its pid, is not there  *)
(* for ever: the next acquire() recovers it.                                *)
StaleIsRecovered ==
    exists /\ (\A p \in Procs : inode[p] => ~Alive(p))
        ~> (\E p \in Procs : Holds(p) /\ inode[p])

(* acquire() answers busy only because of a holder: the live process named  *)
(* in the file it read is one that has the lock, never one that has given   *)
(* it back, or waits for it, under the pid of an earlier holder.            *)
BusyMeansHeld ==
    [][\A p \in Procs :
          pc[p] = "read" /\ pc'[p] = "after"
             => exists /\ payload # None /\ Holds(payload)]_lockVars

(* The lock has one holder and the holder keeps it: no interleaving of      *)
(* acquire(), release(), crashes and recoveries gives it to two live        *)
(* processes, takes the file of a live holder away, or makes an acquire()   *)
(* give way to anyone but a live holder.                                    *)
LockIsSound == []Exclusive /\ KeepsLiveLock /\ BusyMeansHeld
=============================================================================
