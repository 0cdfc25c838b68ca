----------------------------- MODULE EdgeHistory ----------------------------
(***************************************************************************)
(* The versions of one logical edge (core/operations/edge-history-repo.ts): *)
(* recordVersion() supersedes the active version by a new one, and          *)
(* selectAsOf() finds the version that was valid at a time.  validFrom is   *)
(* the time of the record and validTo is not given, as EdgeRepo calls it.   *)
(***************************************************************************)
EXTENDS Processes, FiniteSets, Integers, Sequences

CONSTANTS
    Weights,
    MaxVersions,  \* bounds: versions, time
    MaxClock

ASSUME HistoryAssumption ==
    MaxVersions \in Nat /\ MaxClock \in Nat /\ None \notin Nat \cup Weights

VARIABLES
    versions,   \* the rows of edge_history, in the order they are inserted
    clock,
    edgePc,     \* "idle" or "write"
    recording,  \* [weight, current, at]: the input, the active version read,
                \* and the time it was read
    truth       \* history: truth[t], the last weight recorded until t

edgeVars == <<versions, clock, edgePc, recording, truth, overlap>>

Version == [weight: Weights, from: 0 .. MaxClock,
            to: 0 .. MaxClock \cup {None}, active: BOOLEAN,
            by: 1 .. MaxVersions \cup {None}]
NoRecord == [weight |-> None, current |-> None, at |-> None]

EdgeInit ==
    /\ versions = <<>> /\ clock = 0
    /\ edgePc = [p \in Procs |-> "idle"]
    /\ recording = [p \in Procs |-> NoRecord]
    /\ truth = [t \in 0 .. MaxClock |-> None]
    /\ overlap \in BOOLEAN

Tick ==
    /\ clock < MaxClock /\ clock' = clock + 1
    /\ overlap \/ \A p \in Procs : edgePc[p] = "idle"
    /\ truth' = [truth EXCEPT ![clock'] = truth[clock]]
    /\ UNCHANGED <<versions, edgePc, recording, overlap>>

(* getCurrentSync(): an active version that was committed last.             *)
ActiveVersions == {n \in DOMAIN versions : versions[n].active}
Newest(S) == {n \in S : \A m \in S : versions[m].from <= versions[n].from}
Current == IF ActiveVersions = {} THEN {None} ELSE Newest(ActiveVersions)

(* recordVersion(): a weight that is the current one makes no version.      *)
RecordLook(p, w) ==
    /\ MayStart(p, edgePc) /\ Len(versions) < MaxVersions
    /\ \E n \in Current :
          /\ n # None => versions[n].weight # w
          /\ recording' = [recording EXCEPT ![p] =
                              [weight |-> w, current |-> n, at |-> clock]]
    /\ edgePc' = [edgePc EXCEPT ![p] = "write"]
    /\ UNCHANGED <<versions, clock, truth, overlap>>

(* The UPDATE of the transaction.  Mistaken variants: the old version keeps *)
(* its end; it stays active; it names the version after the next.           *)
SupersedeTooFar(n, t) ==
    [versions EXCEPT ![n].active = FALSE, ![n].by = Len(versions) + 2,
                     ![n].to = IF @ = None THEN t ELSE @]
SupersedeOpen(n, t) ==
    [versions EXCEPT ![n].active = FALSE, ![n].by = Len(versions) + 1]
SupersedeActive(n, t) ==
    [versions EXCEPT ![n].by = Len(versions) + 1,
                     ![n].to = IF @ = None THEN t ELSE @]
Supersede(n, t) ==
    [versions EXCEPT ![n].active = FALSE, ![n].by = Len(versions) + 1,
                     ![n].to = IF @ = None THEN t ELSE @]
RecordWrite(p) ==
    /\ edgePc[p] = "write" /\ Len(versions) < MaxVersions
    /\ LET r == recording[p]
           old == IF r.current = None THEN versions
                  ELSE Supersede(r.current, r.at)
       IN  /\ versions' = Append(old, [weight |-> r.weight, from |-> r.at,
                                       to |-> None, active |-> TRUE,
                                       by |-> None])
           /\ truth' = [t \in 0 .. MaxClock |->
                           IF t \in r.at .. clock THEN r.weight ELSE truth[t]]
    /\ edgePc' = [edgePc EXCEPT ![p] = "idle"]
    /\ recording' = [recording EXCEPT ![p] = NoRecord]
    /\ UNCHANGED <<clock, overlap>>

EdgeCrash(p) ==
    /\ edgePc[p] # "idle"
    /\ edgePc' = [edgePc EXCEPT ![p] = "idle"]
    /\ recording' = [recording EXCEPT ![p] = NoRecord]
    /\ UNCHANGED <<versions, clock, truth, overlap>>

EdgeNext ==
    \/ Tick
    \/ \E p \in Procs : \/ \E w \in Weights : RecordLook(p, w)
                        \/ RecordWrite(p) \/ EdgeCrash(p)

EdgeSpec == EdgeInit /\ [][EdgeNext]_edgeVars

(* selectAsOf() at time t, as known now.                                    *)
ValidAt(t) ==
    Newest({n \in DOMAIN versions :
              /\ versions[n].from <= t
              /\ versions[n].to = None \/ versions[n].to > t})

-----------------------------------------------------------------------------
(* Every variable has its type.                                             *)
EdgeTypeOK ==
    /\ versions \in Seq(Version) /\ Len(versions) <= MaxVersions
    /\ clock \in 0 .. MaxClock
    /\ edgePc \in [Procs -> {"idle", "write"}]
    /\ recording \in [Procs -> [weight: Weights \cup {None},
                                current: 1 .. MaxVersions \cup {None},
                                at: 0 .. MaxClock \cup {None}]]
    /\ truth \in [0 .. MaxClock -> Weights \cup {None}]
    /\ overlap \in BOOLEAN

(* An edge that was recorded has exactly one active version, and every      *)
(* other leads to the one that came after it.                               *)
OneActiveVersion ==
    ~overlap => /\ versions # <<>> => ActiveVersions = {Len(versions)}
                /\ \A n \in 1 .. Len(versions) - 1 : versions[n].by = n + 1

(* selectAsOf() answers for every past time with the weight that was known  *)
(* at that time, several versions in one millisecond or none.               *)
PastIsKept ==
    ~overlap => \A t \in 0 .. clock :
        {versions[n].weight : n \in ValidAt(t)} =
            IF truth[t] = None THEN {} ELSE {truth[t]}

(* The history of an edge is kept: one active version, a chain behind it,   *)
(* and for every past time the weight that was known then.                  *)
HistoryIsKept == OneActiveVersion /\ PastIsKept
=============================================================================
