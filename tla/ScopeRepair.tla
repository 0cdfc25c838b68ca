----------------------------- MODULE ScopeRepair ----------------------------
(***************************************************************************)
(* The project a row of a store belongs to: `repair project-scope' tags the *)
(* rows without a project and quarantines those of another one              *)
(* (core/sqlite-event-store.ts), while a directory above the instances of a *)
(* workspace may adopt a marker, which changes the hash of each of them to  *)
(* that of the workspace (core/registry/project-path.ts).  Memories are     *)
(* quarantined by hand too (core/operations/governance-service.ts).  A path *)
(* stands for its repository; one that cannot be hashed is left out.        *)
(***************************************************************************)
EXTENDS Processes

CONSTANTS
    Traced,     \* event ids
    Instances   \* repositories in the workspace

Root == "root"          \* the workspace
Outside == "outside"    \* a repository that is not in it
Places == Instances \cup {Root, Outside}

ASSUME PlacesAssumption == None \notin Places /\ {Root, Outside} \cap
                           Instances = {}

VARIABLES
    adopted,    \* the workspace has a marker
    storeHash,  \* the place whose hash the store is kept under
    row,        \* row[e]: origin, the metadata and whether the text hints at
                \* another project
    scopePc,    \* "idle", or how the store is named: "byPath", "byHash"
    rowsRead,   \* what the repair read
    rowsLeft,   \* those it has still to look at
    swept       \* a repair has gone through all the rows

scopeVars == <<adopted, storeHash, row, scopePc, rowsRead, rowsLeft, swept,
               overlap>>

RowType == [origin : Places, stamp : Places \cup {None},
            paths : SUBSET Places, imported : BOOLEAN, hint : BOOLEAN,
            quarantine : {"no", "scope", "manual"}]

(* Stamped by the store it was written to or by none, which may have been   *)
(* merged into this one; without a path, or with its own.                   *)
ScopeInit ==
    /\ adopted \in BOOLEAN
    /\ storeHash \in (IF adopted THEN {Root} ELSE {}) \cup Instances
    /\ row \in [Traced -> {r \in RowType :
                    /\ r.stamp \in {None, r.origin, Root}
                    /\ r.stamp = Root => adopted \/ r.origin = Root
                    /\ r.paths \subseteq {r.origin}
                    /\ r.quarantine = "no"}]
    /\ scopePc = [p \in Procs |-> "idle"]
    /\ rowsRead = [p \in Procs |-> None]
    /\ rowsLeft = [p \in Procs |-> {}]
    /\ swept = FALSE
    /\ overlap \in BOOLEAN

(* hashProjectPath() and hashProjectPathIgnoringMarker()                    *)
Hash(place) == IF adopted /\ place \in Instances THEN Root ELSE place
PreMarkerHash(place) == place

(* Mistaken variant: the hash it has now.                                   *)
BelongsNow(place) == Hash(place) = storeHash
Belongs(place) == storeHash \in {Hash(place), PreMarkerHash(place)}

-----------------------------------------------------------------------------
(* repairLegacyProjectScope()                                               *)

(* imported, or in a session with a project path                            *)
ImportedOrLegacy(r) == r.imported \/ r.paths # {}

Quarantines(r, byPath) ==
    \/ \E q \in r.paths : ~Belongs(q)
    \/ /\ r.stamp = storeHash
       /\ ImportedOrLegacy(r) /\ r.hint /\ byPath
    \/ /\ r.stamp \notin {None, storeHash}
       /\ ~\E q \in r.paths : Belongs(q) /\ PreMarkerHash(q) = r.stamp
    \/ r.stamp = None /\ r.paths = {} /\ r.imported
(* Mistaken variant: only rows without a stamp.                             *)
RepairsUnstamped(r) == r.stamp = None /\ \E q \in r.paths : Belongs(q)
Repairs(r) == r.stamp # storeHash /\ \E q \in r.paths : Belongs(q)

Judged(r, byPath) ==
    CASE r.quarantine # "no" -> r
      [] r.quarantine = "no" /\ Quarantines(r, byPath) ->
            [r EXCEPT !.quarantine = "scope"]
      [] r.quarantine = "no" /\ ~Quarantines(r, byPath) /\ Repairs(r) ->
            [r EXCEPT !.stamp = storeHash]
      [] OTHER -> r

StartRepair(p) ==
    /\ MayStart(p, scopePc)
    /\ \E label \in {"byPath", "byHash"} :
          scopePc' = [scopePc EXCEPT ![p] = label]
    /\ rowsRead' = [rowsRead EXCEPT ![p] = row]
    /\ rowsLeft' = [rowsLeft EXCEPT ![p] = Traced]
    /\ UNCHANGED <<adopted, storeHash, row, swept, overlap>>

(* The metadata is written as it was read, but for the verdict.             *)
RepairRow(p) ==
    /\ scopePc[p] # "idle"
    /\ \E e \in rowsLeft[p] :
          LET r == rowsRead[p][e]
              judged == Judged(r, scopePc[p] = "byPath")
          IN  /\ row' = IF judged = r THEN row ELSE [row EXCEPT ![e] = judged]
              /\ rowsLeft' = [rowsLeft EXCEPT ![p] = @ \ {e}]
    /\ UNCHANGED <<adopted, storeHash, scopePc, rowsRead, swept, overlap>>

(* All the rows have been looked at, or the process died before that.       *)
LeaveRepair(p) ==
    /\ scopePc[p] # "idle"
    /\ scopePc' = [scopePc EXCEPT ![p] = "idle"]
    /\ rowsRead' = [rowsRead EXCEPT ![p] = None]
    /\ rowsLeft' = [rowsLeft EXCEPT ![p] = {}]
    /\ swept' = (swept \/ rowsLeft[p] = {})
    /\ UNCHANGED <<adopted, storeHash, row, overlap>>

-----------------------------------------------------------------------------
AdoptMarker ==
    /\ ~adopted /\ adopted' = TRUE
    /\ UNCHANGED <<storeHash, row, scopePc, rowsRead, rowsLeft, swept,
                   overlap>>

(* quarantine(): in a transaction, if the metadata is what was validated.   *)
Quarantine(e) ==
    /\ overlap \/ \A p \in Procs : scopePc[p] = "idle"
    /\ row[e].stamp # None /\ row[e].quarantine # "manual"
    /\ row' = [row EXCEPT ![e].quarantine = "manual"]
    /\ UNCHANGED <<adopted, storeHash, scopePc, rowsRead, rowsLeft, swept,
                   overlap>>

ScopeNext ==
    \/ \E p \in Procs : StartRepair(p) \/ RepairRow(p) \/ LeaveRepair(p)
    \/ AdoptMarker \/ \E e \in Traced : Quarantine(e)

ScopeSpec == ScopeInit /\ [][ScopeNext]_scopeVars

-----------------------------------------------------------------------------
(* A repair never quarantines a row that has its path in this store, whose  *)
(* stamp is none, the store's or that of its path, and whose text names no  *)
(* other project: not before the marker, not after it, not when the stamp   *)
(* is older than it, and not the second time either.                        *)
OwnRowsStay ==
    \A e \in Traced :
        LET r == row[e]
        IN  /\ r.paths = {r.origin} /\ ~r.hint
            /\ storeHash \in {Hash(r.origin), PreMarkerHash(r.origin)}
            /\ r.stamp \in {None, storeHash, r.origin}
            => r.quarantine # "scope"

(* After a repair, each row that reads return is of the store by its stamp, *)
(* or was never imported and says nothing of a project.                     *)
ForeignRowsGo ==
    swept => \A e \in Traced :
        \/ row[e].stamp = storeHash \/ row[e].quarantine # "no"
        \/ row[e].stamp = None /\ ~ImportedOrLegacy(row[e])

(* The repair sorts the rows rightly: the project's own stay visible, and   *)
(* foreign ones go.                                                         *)
RowsAreSorted == OwnRowsStay /\ ForeignRowsGo
=============================================================================
