------------------------------- MODULE Leases -------------------------------
(***************************************************************************)
(* Leases on actions and other targets (core/operations/                    *)
(* lease-repository.ts): a holder acquires a target until a time, renews    *)
(* and releases.  The lease ids are 1 .. MaxLeases, in the order of their   *)
(* rows; time is abstracted to the moment a lease expires.  Each process is *)
(* a holder of its own.                                                     *)
(***************************************************************************)
EXTENDS Processes, Naturals

CONSTANTS
    Targets,
    MaxLeases   \* bound: leases ever granted

ASSUME LeaseAssumption == MaxLeases \in Nat /\ None \notin Procs

VARIABLES
    lease,      \* lease[l]: the row of lease l, None before it is inserted
    granted,    \* leases inserted so far
    leasePc,    \* "idle", "renew" or "release": about to write
    leaseOf     \* the lease that the call in progress is about

leaseVars == <<lease, granted, leasePc, leaseOf, overlap>>

LeaseIds == 1 .. MaxLeases
LeaseRow == [target: Targets, holder: Procs, expired: BOOLEAN,
             released: BOOLEAN]

(* getActiveLease(): not released, and expires_at > now.                    *)
Active(l) == lease[l] # None /\ ~lease[l].released /\ ~lease[l].expired
ActiveOn(t) == {l \in LeaseIds : Active(l) /\ lease[l].target = t}

LeaseInit ==
    /\ lease = [l \in LeaseIds |-> None] /\ granted = 0
    /\ leasePc = [p \in Procs |-> "idle"]
    /\ leaseOf = [p \in Procs |-> None]
    /\ overlap \in BOOLEAN

LeaseReturn(p) ==
    /\ leasePc' = [leasePc EXCEPT ![p] = "idle"]
    /\ leaseOf' = [leaseOf EXCEPT ![p] = None]

(* acquire(): one transaction.  A target that is taken answers with its     *)
(* lease and changes nothing.                                               *)
AcquireLease(p, t) ==
    /\ MayStart(p, leasePc)
    /\ ActiveOn(t) = {} /\ granted < MaxLeases
    /\ granted' = granted + 1
    /\ lease' = [lease EXCEPT ![granted'] =
                    [target |-> t, holder |-> p, expired |-> FALSE,
                     released |-> FALSE]]
    /\ UNCHANGED <<leasePc, leaseOf, overlap>>

(* What renew() reads: the caller's lease, not released, and the active one *)
(* of its target.  Mistaken variant: an expired lease will do.              *)
RenewableAnyway(p, l) ==
    lease[l] # None /\ lease[l].holder = p /\ ~lease[l].released
Renewable(p, l) ==
    /\ lease[l] # None /\ lease[l].holder = p /\ ~lease[l].released
    /\ l \in ActiveOn(lease[l].target)

RenewLook(p, l) ==
    /\ MayStart(p, leasePc)
    /\ Renewable(p, l)
    /\ leasePc' = [leasePc EXCEPT ![p] = "renew"]
    /\ leaseOf' = [leaseOf EXCEPT ![p] = l]
    /\ UNCHANGED <<lease, granted, overlap>>

(* The UPDATE asks for the id only.                                         *)
RenewWrite(p) ==
    /\ leasePc[p] = "renew"
    /\ lease' = [lease EXCEPT ![leaseOf[p]].expired = FALSE]
    /\ LeaseReturn(p)
    /\ UNCHANGED <<granted, overlap>>

ReleaseLook(p, l) ==
    /\ MayStart(p, leasePc)
    /\ lease[l] # None /\ lease[l].holder = p /\ ~lease[l].released
    /\ leasePc' = [leasePc EXCEPT ![p] = "release"]
    /\ leaseOf' = [leaseOf EXCEPT ![p] = l]
    /\ UNCHANGED <<lease, granted, overlap>>

ReleaseWrite(p) ==
    /\ leasePc[p] = "release"
    /\ lease' = [lease EXCEPT ![leaseOf[p]].released = TRUE]
    /\ LeaseReturn(p)
    /\ UNCHANGED <<granted, overlap>>

(* Time passes the lease's expires_at.                                      *)
Expire(l) ==
    /\ Active(l)
    /\ lease' = [lease EXCEPT ![l].expired = TRUE]
    /\ UNCHANGED <<granted, leasePc, leaseOf, overlap>>

(* The process dies inside a call.                                          *)
LeaseCrash(p) ==
    /\ leasePc[p] # "idle"
    /\ LeaseReturn(p)
    /\ UNCHANGED <<lease, granted, overlap>>

LeaseNext ==
    \/ \E p \in Procs, t \in Targets : AcquireLease(p, t)
    \/ \E p \in Procs, l \in LeaseIds : RenewLook(p, l) \/ ReleaseLook(p, l)
    \/ \E p \in Procs : RenewWrite(p) \/ ReleaseWrite(p) \/ LeaseCrash(p)
    \/ \E l \in LeaseIds : Expire(l)

LeaseSpec == LeaseInit /\ [][LeaseNext]_leaseVars

-----------------------------------------------------------------------------
(* Every variable has its type.                                             *)
LeaseTypeOK ==
    /\ lease \in [LeaseIds -> LeaseRow \cup {None}]
    /\ granted \in 0 .. MaxLeases
    /\ leasePc \in [Procs -> {"idle", "renew", "release"}]
    /\ leaseOf \in [Procs -> LeaseIds \cup {None}]
    /\ overlap \in BOOLEAN

(* A target has at most one active lease: an expired lease is not renewed   *)
(* over its successor (lease-repository.test.ts:55), while no process runs  *)
(* inside the renew() of another.                                           *)
OneActiveLease ==
    ~overlap => \A k, l \in LeaseIds :
        Active(k) /\ Active(l) /\ lease[k].target = lease[l].target => k = l
=============================================================================
