------------------------------ MODULE Promotion -----------------------------
(***************************************************************************)
(* Promotion of a project's verified entries to the store that all projects *)
(* share (core/shared-promoter.ts, core/shared-store.ts): a row of SQLite,  *)
(* then a vector of LanceDB under the row's id.                             *)
(***************************************************************************)
EXTENDS Processes, FiniteSets, Integers

CONSTANTS
    Entries,    \* eligible entries: a project and an entry id
    MaxShared   \* bound: ids made for shared rows

ASSUME PromotionAssumption == MaxShared \in Nat /\ None \notin 1 .. MaxShared

VARIABLES
    shared,     \* shared[x]: the entry_id of the row of x, or None
    vectors,    \* vectors of the shared index: [entry, id]
    sharedIds,  \* ids made so far
    sharePc,    \* "idle", "store" or "embed"
    sharing,    \* the entry that is promoted
    shareId,    \* the id that promoteEntry() of the store returned
    dropped     \* history: entries whose embedding failed or was cut short

shareVars == <<shared, vectors, sharedIds, sharePc, sharing, shareId, dropped,
               overlap>>

ShareInit ==
    /\ shared = [x \in Entries |-> None]
    /\ vectors = {} /\ sharedIds = 0 /\ dropped = {}
    /\ sharePc = [p \in Procs |-> "idle"]
    /\ sharing = [p \in Procs |-> None]
    /\ shareId = [p \in Procs |-> None]
    /\ overlap \in BOOLEAN

ShareReturn(p) ==
    /\ sharePc' = [sharePc EXCEPT ![p] = "idle"]
    /\ sharing' = [sharing EXCEPT ![p] = None]
    /\ shareId' = [shareId EXCEPT ![p] = None]

(* exists(): an entry with a row is skipped.  Mistaken variant: none is.    *)
NothingExists(x) == FALSE
Exists(x) == shared[x] # None

PromoteEntry(p, x) ==
    /\ MayStart(p, sharePc) /\ sharedIds < MaxShared
    /\ ~Exists(x)
    /\ sharePc' = [sharePc EXCEPT ![p] = "store"]
    /\ sharing' = [sharing EXCEPT ![p] = x]
    /\ UNCHANGED <<shared, vectors, sharedIds, shareId, dropped, overlap>>

(* INSERT ... ON CONFLICT DO UPDATE: the row keeps the id it has, and the   *)
(* new id is returned all the same.                                         *)
StoreShared(p) ==
    /\ sharePc[p] = "store" /\ sharedIds < MaxShared
    /\ sharedIds' = sharedIds + 1
    /\ shareId' = [shareId EXCEPT ![p] = sharedIds']
    /\ shared' = IF shared[sharing[p]] = None
                 THEN [shared EXCEPT ![sharing[p]] = sharedIds'] ELSE shared
    /\ sharePc' = [sharePc EXCEPT ![p] = "embed"]
    /\ UNCHANGED <<vectors, sharing, dropped, overlap>>

(* The embedding, and the upsert under a new random vector id.  Mistaken    *)
(* variant: under an id made of the entry's, so that it replaces.           *)
EmbedInstead(p) ==
    /\ sharePc[p] = "embed"
    /\ vectors' = {v \in vectors : v.entry # sharing[p]}
                  \cup {[entry |-> sharing[p], id |-> shareId[p]]}
    /\ ShareReturn(p)
    /\ UNCHANGED <<shared, sharedIds, dropped, overlap>>
EmbedShared(p) ==
    /\ sharePc[p] = "embed"
    /\ vectors' = vectors \cup {[entry |-> sharing[p], id |-> shareId[p]]}
    /\ ShareReturn(p)
    /\ UNCHANGED <<shared, sharedIds, dropped, overlap>>

(* The promotion fails, with an error that is returned, or its process      *)
(* dies.                                                                    *)
PromotionFails(p) ==
    /\ sharePc[p] # "idle"
    /\ dropped' = IF sharePc[p] = "embed" THEN dropped \cup {sharing[p]}
                  ELSE dropped
    /\ ShareReturn(p)
    /\ UNCHANGED <<shared, vectors, sharedIds, overlap>>

ShareNext ==
    \E p \in Procs : \/ \E x \in Entries : PromoteEntry(p, x)
                     \/ StoreShared(p) \/ EmbedShared(p) \/ PromotionFails(p)

ShareSpec == ShareInit /\ [][ShareNext]_shareVars

-----------------------------------------------------------------------------
(* Every variable has its type.                                             *)
ShareTypeOK ==
    /\ shared \in [Entries -> 1 .. MaxShared \cup {None}]
    /\ vectors \subseteq [entry: Entries, id: 1 .. MaxShared]
    /\ sharedIds \in 0 .. MaxShared
    /\ sharePc \in [Procs -> {"idle", "store", "embed"}]
    /\ sharing \in [Procs -> Entries \cup {None}]
    /\ shareId \in [Procs -> 1 .. MaxShared \cup {None}]
    /\ dropped \subseteq Entries
    /\ overlap \in BOOLEAN

(* A vector leads to the row of its entry, and an entry has one vector.     *)
VectorsLeadToRows ==
    ~overlap => /\ \A v \in vectors : shared[v.entry] = v.id
                /\ \A v, w \in vectors : v.entry = w.entry => v = w

(* A shared entry can be found by its vector, unless its promotion stopped  *)
(* between the two stores: exists() then keeps every retry from repairing   *)
(* it.                                                                      *)
SharedIsSearchable ==
    \A x \in Entries :
        shared[x] # None /\ x \notin dropped =>
            \/ \E v \in vectors : v.entry = x /\ v.id = shared[x]
            \/ \E p \in Procs : sharing[p] = x /\ sharePc[p] = "embed"

(* The shared tables agree: no vector leads nowhere or to an old row, and a *)
(* promoted entry is found by its vector.                                   *)
SharedStoresAgree == VectorsLeadToRows /\ SharedIsSearchable
=============================================================================
