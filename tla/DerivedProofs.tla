---------------------------- MODULE DerivedProofs ---------------------------
(***************************************************************************)
(* What is derived from other rows stays true to them: the copy of the log  *)
(* in DuckDB, shared vectors, consolidated memories, search results, the    *)
(* project scope, repaired indexes, the actions of tasks, tasks and edges   *)
(* as against the log of task events.                                       *)
(***************************************************************************)
EXTENDS ServiceProps, Consolidation, VectorRepairs, FiniteSetTheorems,
        SequenceTheorems, TLAPS

(* The copy of every event stamped up to t is in DuckDB.                    *)
Covered(t) == \A e \in Stored : stamp[e] <= t => e \in analytics

(* The batch in flight is an interval of the log, from where the run began. *)
Batched(r) ==
    /\ synced[r] \subseteq Stored
    /\ \A e \in Stored, f \in synced[r] :
          stamp[e] <= stamp[f] /\ stamp[e] > syncFrom[r] => e \in synced[r]

(* A timestamp is the number of events stored by then, so a new event is    *)
(* later than every position that a run has read or is to save.             *)
SyncInv ==
    /\ \A e \in Stored : stamp[e] <= Cardinality(Stored)
    /\ \A e, f \in Stored : stamp[e] = stamp[f] => e = f
    /\ position <= Cardinality(Stored) /\ Covered(position)
    /\ \A r \in Runs :
          /\ syncFrom[r] <= Cardinality(Stored) /\ Covered(syncFrom[r])
          /\ syncPc[r] \in {"insert", "save"} => Batched(r)
          /\ syncPc[r] = "save" => synced[r] \subseteq analytics

-----------------------------------------------------------------------------
LEMMA CountsAreNumbers ==
  /\ Cardinality(Copies) \in Nat /\ Cardinality(Stored) \in Nat
  /\ Cardinality(Stored) <= Cardinality(Copies)
  BY SyncAssumption, FS_CardinalityType, FS_Subset DEF Stored

LEMMA SyncInitial == SyncInit => SyncTypeOK /\ (inOrder => SyncInv)
  BY CountsAreNumbers
     DEF SyncInit, SyncTypeOK, SyncInv, Covered, Batched, Stored, SyncStatus

LEMMA SyncTypes ==
  ASSUME SyncTypeOK, [SyncNext]_syncVars
  PROVE  SyncTypeOK'
<1> USE DEF SyncTypeOK, SyncStatus
<1>1. ASSUME NEW e \in Copies, StoreEvent(e) PROVE SyncTypeOK'
  BY <1>1 DEF StoreEvent
<1>2. ASSUME NEW r \in Runs, SyncNow(r) PROVE SyncTypeOK'
  BY <1>2 DEF SyncNow
<1>3. ASSUME NEW r \in Runs, ReadEvents(r) PROVE SyncTypeOK'
  BY <1>3 DEF ReadEvents, SyncReturn, Batches, Stored
<1>4. ASSUME NEW r \in Runs, InsertEvents(r) PROVE SyncTypeOK'
  BY <1>4 DEF InsertEvents
<1>5. ASSUME NEW r \in Runs, SyncFails(r) PROVE SyncTypeOK'
  BY <1>5 DEF SyncFails, SyncReturn
<1>6. ASSUME NEW r \in Runs, SavePosition(r) PROVE SyncTypeOK'
  BY <1>6 DEF SavePosition, SyncReturn
<1>7. CASE StopSync
  BY <1>7 DEF StopSync
<1>8. CASE SyncCrash
  BY <1>8 DEF SyncCrash
<1>9. CASE UNCHANGED syncVars
  BY <1>9 DEF syncVars
<1> QED BY <1>1, <1>2, <1>3, <1>4, <1>5, <1>6, <1>7, <1>8, <1>9 DEF SyncNext

(* A new event is stamped past all others, and so outside every interval    *)
(* there is.                                                                *)
LEMMA SyncStoreStep ==
  ASSUME SyncTypeOK, inOrder, SyncInv, NEW e \in Copies, StoreEvent(e)
  PROVE  SyncInv'
<1> DEFINE n == Cardinality(Stored)
<1>0. /\ stamp \in [Copies -> Nat] /\ position \in Nat
      /\ syncFrom \in [Runs -> Nat]
  BY CountsAreNumbers DEF SyncTypeOK, Times
<1>1. /\ n \in Nat
      /\ stamp[e] = 0 /\ stamp' = [stamp EXCEPT ![e] = n + 1]
      /\ UNCHANGED <<position, analytics, syncPc, syncFrom, synced>>
  BY CountsAreNumbers DEF StoreEvent
<1>3. Cardinality(Stored \cup {e}) = n + 1
  BY <1>1, FS_AddElement, FS_Subset, SyncAssumption DEF Stored
<1> HIDE DEF n
<1>2. Stored' = Stored \cup {e} /\ e \notin Stored
  BY <1>0, <1>1 DEF Stored
<1>4. \A f \in Stored : stamp'[f] = stamp[f] /\ stamp[f] \in Nat /\ f # e
  BY <1>0, <1>1, <1>2 DEF Stored
<1>5. stamp'[e] = n + 1
  BY <1>0, <1>1
<1>6. ASSUME NEW t \in Nat, t <= n, Covered(t) PROVE Covered(t)'
  <2> SUFFICES ASSUME NEW f \in Stored', stamp'[f] <= t PROVE f \in analytics'
    BY DEF Covered
  <2> QED BY <1>1, <1>2, <1>4, <1>5, <1>6 DEF Covered
<1>7. /\ \A f \in Stored : stamp[f] <= n
      /\ \A f, g \in Stored : stamp[f] = stamp[g] => f = g
      /\ position \in Nat /\ position <= n /\ Covered(position)
      /\ \A r \in Runs : /\ syncFrom[r] \in Nat /\ syncFrom[r] <= n
                         /\ Covered(syncFrom[r])
                         /\ syncPc[r] \in {"insert", "save"} => Batched(r)
                         /\ syncPc[r] = "save" => synced[r] \subseteq analytics
  BY <1>0 DEF n, SyncInv
<1>8. Cardinality(Stored)' = n + 1
  BY <1>2, <1>3
<1>9. (/\ \A f \in Stored : stamp[f] <= Cardinality(Stored)
       /\ \A f, g \in Stored : stamp[f] = stamp[g] => f = g)'
  BY <1>1, <1>2, <1>4, <1>5, <1>7, <1>8
<1>10. (position <= Cardinality(Stored) /\ Covered(position))'
  BY <1>1, <1>6, <1>7, <1>8 DEF Covered
<1>11. (\A r \in Runs : /\ syncFrom[r] <= Cardinality(Stored)
                         /\ Covered(syncFrom[r]))'
  BY <1>1, <1>6, <1>7, <1>8 DEF Covered
<1>12. (\A r \in Runs : syncPc[r] \in {"insert", "save"} => Batched(r))'
  BY <1>1, <1>2, <1>4, <1>5, <1>7 DEF Batched
<1>13. (\A r \in Runs : syncPc[r] = "save" => synced[r] \subseteq analytics)'
  BY <1>1, <1>7
<1> QED BY <1>9, <1>10, <1>11, <1>12, <1>13 DEF SyncInv

(* A batch covers the log up to its last event, once it is in.              *)
LEMMA SyncRunStep ==
  ASSUME SyncTypeOK, inOrder, SyncInv, NEW r \in Runs,
         \/ SyncNow(r) \/ ReadEvents(r) \/ InsertEvents(r)
         \/ SyncFails(r) \/ SavePosition(r)
  PROVE  SyncInv'
<1> USE DEF SyncInv, SyncTypeOK
<1>0. /\ stamp \in [Copies -> Nat] /\ position \in Nat
      /\ syncFrom \in [Runs -> Nat] /\ Cardinality(Stored) \in Nat
  BY CountsAreNumbers DEF Times
<1>A. UNCHANGED <<stamp, Stored>>
  BY DEF Stored, SyncNow, ReadEvents, InsertEvents, SyncFails, SavePosition
<1>B. Stored \subseteq Copies
  BY DEF Stored
<1>1. CASE SyncNow(r)
  BY <1>0, <1>A, <1>B, <1>1 DEF SyncNow, Covered, Batched
<1>2. CASE ReadEvents(r)
  <2>1. PICK T \in Batches(syncFrom[r]) :
           IF T = {} THEN SyncReturn(r, "idle")
           ELSE /\ synced' = [synced EXCEPT ![r] = T]
                /\ syncPc' = [syncPc EXCEPT ![r] = "insert"]
                /\ UNCHANGED <<syncFrom, status>>
    BY <1>2 DEF ReadEvents
  <2>2. UNCHANGED <<position, analytics>>
    BY <1>2 DEF ReadEvents
  <2>3. CASE T = {}
    BY <1>0, <1>A, <1>B, <2>1, <2>2, <2>3 DEF SyncReturn, Covered, Batched
  <2>4. CASE T # {}
    <3>1. /\ T \subseteq Stored
          /\ \A f \in T : stamp[f] > syncFrom[r]
          /\ \A e \in Stored, f \in T :
                stamp[e] <= stamp[f] /\ stamp[e] > syncFrom[r] => e \in T
      <4> DEFINE S == {e \in Stored : stamp[e] > syncFrom[r]}
      <4>1. T \subseteq S /\ \A f \in T, e \in S \ T : stamp[f] <= stamp[e]
        BY DEF Batches
      <4>2. \A e, f \in Stored : stamp[e] \in Nat /\ stamp[f] \in Nat
        BY <1>0, <1>A, <1>B
      <4>3. SUFFICES ASSUME NEW e \in Stored, NEW f \in T,
                            stamp[e] <= stamp[f], stamp[e] > syncFrom[r]
                     PROVE  e \in T
        BY <4>1
      <4> QED BY <1>0, <1>A, <1>B, <4>1, <4>2, <4>3
    <3> QED BY <1>0, <1>A, <1>B, <2>1, <2>2, <2>4, <3>1 DEF Covered, Batched
  <2> QED BY <2>3, <2>4
<1>3. CASE InsertEvents(r)
  BY <1>0, <1>A, <1>B, <1>3 DEF InsertEvents, Covered, Batched
<1>4. CASE SyncFails(r)
  BY <1>0, <1>A, <1>B, <1>4 DEF SyncFails, SyncReturn, Covered, Batched
<1>5. CASE SavePosition(r)
  <2>1. PICK last \in synced[r] :
           /\ \A e \in synced[r] : stamp[e] <= stamp[last]
           /\ position' = stamp[last]
    BY <1>5 DEF SavePosition
  <2>2. Covered(position)' /\ position' <= Cardinality(Stored)
    BY <1>0, <1>A, <1>B, <1>5, <2>1 DEF SavePosition, Covered, Batched
  <2>3. /\ syncPc' = [syncPc EXCEPT ![r] = syncPc'[r]]
        /\ syncPc'[r] \in {"idle", "read"}
        /\ syncFrom' \in [Runs -> Nat]
        /\ \A q \in Runs : /\ syncFrom'[q] \in {0, syncFrom[q]}
                           /\ q # r => synced'[q] = synced[q]
                                       /\ syncFrom'[q] = syncFrom[q]
        /\ UNCHANGED analytics
    BY <1>0, <1>A, <1>B, <1>5 DEF SavePosition, SyncReturn
  <2>4. \A q \in Runs : Covered(syncFrom[q])'
    BY <1>0, <1>A, <1>B, <2>3 DEF Covered, Stored
  <2> QED BY <1>0, <1>A, <1>B, <2>2, <2>3, <2>4 DEF Batched
<1> QED BY <1>1, <1>2, <1>3, <1>4, <1>5

LEMMA SyncStep ==
  ASSUME SyncTypeOK, inOrder => SyncInv, [SyncNext]_syncVars
  PROVE  (inOrder => SyncInv)'
<1> USE DEF SyncInv, SyncTypeOK, Covered, Batched
<1>1. UNCHANGED inOrder
  BY DEF SyncNext, syncVars, StoreEvent, SyncNow, ReadEvents, InsertEvents,
         SyncFails, SavePosition, StopSync, SyncCrash
<1>2. CASE StopSync
  BY <1>1, <1>2 DEF StopSync, Stored
<1>3. CASE SyncCrash
  <2>1. /\ \A e \in Copies : stamp[e] \in Nat
        /\ Cardinality(Stored) \in Nat
    BY CountsAreNumbers DEF Times
  <2>2. /\ UNCHANGED <<stamp, position, analytics>>
        /\ \A r \in Runs : syncPc'[r] = "idle" /\ syncFrom'[r] = 0
    BY <1>3 DEF SyncCrash
  <2>3. UNCHANGED Stored /\ \A e \in Stored : stamp[e] > 0
    BY <2>1, <2>2 DEF Stored
  <2>4. Covered(0)
    BY <2>1, <2>3 DEF Stored
  <2> QED BY <1>1, <2>1, <2>2, <2>3, <2>4
<1>4. CASE UNCHANGED syncVars
  BY <1>1, <1>4 DEF syncVars, Stored
<1> QED BY <1>1, <1>2, <1>3, <1>4, SyncStoreStep, SyncRunStep DEF SyncNext

(* Everything up to the saved position is in DuckDB, for any number of      *)
(* events and of runs that overlap, whatever fails and whenever the process *)
(* dies, while the log is in the order of its timestamps.                   *)
THEOREM PositionsAreCovered ==
  SyncSpec => [](SyncTypeOK /\ PositionIsCovered)
<1>1. SyncInv => \A e \in Stored : stamp[e] <= position => e \in analytics
  BY DEF SyncInv, Covered
<1>2. SyncTypeOK /\ (inOrder => SyncInv) => SyncTypeOK /\ PositionIsCovered
  BY <1>1 DEF PositionIsCovered
<1> QED BY <1>2, SyncInitial, SyncTypes, SyncStep, PTL DEF SyncSpec

-----------------------------------------------------------------------------
(* A promotion that goes on is of an entry; a row that no promotion failed  *)
(* to embed has its vector, or whoever made it still will.                  *)
ShareInv ==
    /\ ShareTypeOK
    /\ \A p \in Procs : /\ sharePc[p] # "idle" => sharing[p] \in Entries
                        /\ sharePc[p] = "embed" => shareId[p] # None
    /\ \A x \in Entries :
          shared[x] # None /\ x \notin dropped =>
             \/ \E v \in vectors : v.entry = x /\ v.id = shared[x]
             \/ \E p \in Procs : /\ sharePc[p] = "embed" /\ sharing[p] = x
                                 /\ shareId[p] = shared[x]

(* One promotion at a time: the entry had no row when it began, so the row  *)
(* has the id that comes back.                                              *)
SerialShare ==
    /\ \A p, q \in Procs : sharePc[p] # "idle" /\ sharePc[q] # "idle" => p = q
    /\ \A v \in vectors : shared[v.entry] = v.id
    /\ \A p \in Procs :
          /\ sharePc[p] = "store" => shared[sharing[p]] = None
          /\ sharePc[p] = "embed" => shared[sharing[p]] = shareId[p]

LEMMA ShareInitial == ShareInit => ShareInv /\ SerialShare
  BY PromotionAssumption DEF ShareInit, ShareInv, ShareTypeOK, SerialShare

LEMMA ShareInvStep ==
  ASSUME ShareInv, [ShareNext]_shareVars
  PROVE  ShareInv'
<1> USE PromotionAssumption DEF ShareInv, ShareTypeOK
<1>1. ASSUME NEW p \in Procs, NEW x \in Entries, PromoteEntry(p, x)
      PROVE  ShareInv'
  BY <1>1 DEF PromoteEntry, MayStart
<1>2. ASSUME NEW p \in Procs, StoreShared(p) PROVE ShareInv'
  <2>1. PICK n \in 1 .. MaxShared : n = sharedIds + 1
    BY <1>2 DEF StoreShared
  <2>2. /\ sharing[p] \in Entries /\ n # None
        /\ sharePc[p] = "store"
        /\ sharedIds' = n
        /\ shareId' = [shareId EXCEPT ![p] = n]
        /\ shared' = IF shared[sharing[p]] = None
                     THEN [shared EXCEPT ![sharing[p]] = n] ELSE shared
        /\ sharePc' = [sharePc EXCEPT ![p] = "embed"]
        /\ UNCHANGED <<vectors, sharing, dropped, overlap>>
    BY <1>2, <2>1 DEF StoreShared
  <2>3. /\ shareId'[p] = n /\ sharePc'[p] = "embed"
        /\ \A q \in Procs \ {p} : /\ shareId'[q] = shareId[q]
                                  /\ sharePc'[q] = sharePc[q]
        /\ \A x \in Entries :
              shared'[x] = IF x = sharing[p] /\ shared[x] = None THEN n
                           ELSE shared[x]
    BY <2>2
  <2>4. ShareTypeOK'
    BY <2>1, <2>2
  <2>5. ASSUME NEW x \in Entries, shared'[x] # None, x \notin dropped'
        PROVE  \/ \E v \in vectors' : v.entry = x /\ v.id = shared'[x]
               \/ \E q \in Procs : /\ sharePc'[q] = "embed" /\ sharing'[q] = x
                                   /\ shareId'[q] = shared'[x]
    BY <2>2, <2>3, <2>5
  <2> QED BY <2>2, <2>3, <2>4, <2>5
<1>3. ASSUME NEW p \in Procs, EmbedShared(p) PROVE ShareInv'
  <2> DEFINE v == [entry |-> sharing[p], id |-> shareId[p]]
  <2>1. /\ v \in [entry: Entries, id: 1 .. MaxShared]
        /\ v.entry = sharing[p] /\ v.id = shareId[p]
    BY <1>3 DEF EmbedShared
  <2>2. vectors' = vectors \cup {v}
    BY <1>3 DEF EmbedShared
  <2> HIDE DEF v
  <2> QED BY <1>3, <2>1, <2>2 DEF EmbedShared, ShareReturn
<1>4. ASSUME NEW p \in Procs, PromotionFails(p) PROVE ShareInv'
  BY <1>4 DEF PromotionFails, ShareReturn
<1>5. CASE UNCHANGED shareVars
  BY <1>5 DEF shareVars
<1> QED BY <1>1, <1>2, <1>3, <1>4, <1>5 DEF ShareNext

LEMMA ShareSerialStep ==
  ASSUME ShareInv, ~overlap, SerialShare, [ShareNext]_shareVars
  PROVE  SerialShare'
<1> USE PromotionAssumption DEF ShareInv, ShareTypeOK, SerialShare
<1>1. ASSUME NEW p \in Procs, NEW x \in Entries, PromoteEntry(p, x)
      PROVE  SerialShare'
  BY <1>1 DEF PromoteEntry, MayStart, Exists
<1>2. ASSUME NEW p \in Procs, StoreShared(p) PROVE SerialShare'
  <2>1. PICK n \in 1 .. MaxShared : n = sharedIds + 1
    BY <1>2 DEF StoreShared
  <2>2. /\ sharing[p] \in Entries /\ n # None
        /\ sharePc[p] = "store" /\ shared[sharing[p]] = None
        /\ shareId' = [shareId EXCEPT ![p] = n]
        /\ shared' = [shared EXCEPT ![sharing[p]] = n]
        /\ sharePc' = [sharePc EXCEPT ![p] = "embed"]
        /\ UNCHANGED <<vectors, sharing>>
    BY <1>2, <2>1 DEF StoreShared
  <2>3. \A v \in vectors : v.entry \in Entries /\ v.id # None
    OBVIOUS
  <2> QED BY <2>2, <2>3
<1>3. ASSUME NEW p \in Procs, EmbedShared(p) PROVE SerialShare'
  BY <1>3 DEF EmbedShared, ShareReturn
<1>4. ASSUME NEW p \in Procs, PromotionFails(p) PROVE SerialShare'
  BY <1>4 DEF PromotionFails, ShareReturn
<1>5. CASE UNCHANGED shareVars
  BY <1>5 DEF shareVars
<1> QED BY <1>1, <1>2, <1>3, <1>4, <1>5 DEF ShareNext

(* For any number of entries and processes, a row is found by its vector    *)
(* unless its promotion stopped half-way, and if none runs inside another   *)
(* an entry has one vector, which leads to its row.                         *)
THEOREM SharedStoresMatch == ShareSpec => [](ShareTypeOK /\ SharedStoresAgree)
<1>1. ShareInv => ShareTypeOK /\ SharedIsSearchable
  BY DEF ShareInv, SharedIsSearchable
<1>2. ShareInv /\ (~overlap => SerialShare) => VectorsLeadToRows
  <2> SUFFICES ASSUME ShareInv, SerialShare, NEW v \in vectors, NEW w \in vectors,
                      v.entry = w.entry
               PROVE  v = w
    BY DEF VectorsLeadToRows, SerialShare
  <2> QED BY DEF ShareInv, ShareTypeOK, SerialShare
<1>3. [ShareNext]_shareVars => UNCHANGED overlap
  BY DEF ShareNext, PromoteEntry, StoreShared, EmbedShared, PromotionFails,
         shareVars
<1>4. /\ ShareInv /\ (~overlap => SerialShare) /\ [ShareNext]_shareVars
      => ShareInv' /\ (~overlap => SerialShare)'
  BY <1>3, ShareInvStep, ShareSerialStep
<1> QED BY <1>1, <1>2, <1>4, ShareInitial, PTL
        DEF ShareSpec, SharedStoresAgree

-----------------------------------------------------------------------------
(* One run at a time: what it is about to create shares no event with a     *)
(* memory, and no two memories share one.                                   *)
SerialCons ==
    /\ \A p, q \in Procs : consPc[p] # "idle" /\ consPc[q] # "idle" => p = q
    /\ \A p \in Procs : consPc[p] = "create" =>
          \A m \in DOMAIN memories : memories[m] \cap Head(todo[p]) = {}
    /\ \A m, n \in DOMAIN memories :
          m # n => memories[m] \cap memories[n] = {}

(* Memories are a sequence, of whatever the groups are.                     *)
ConsInv ==
    /\ memories \in Seq({memories[m] : m \in DOMAIN memories})
    /\ DOMAIN todo = Procs
    /\ consPc \in [Procs -> {"idle", "group", "create", "promote", "prune"}]

LEMMA AppendAnything ==
  ASSUME NEW s, NEW S, s \in Seq(S), NEW x
  PROVE  /\ Append(s, x) \in Seq(S \cup {x})
         /\ DOMAIN s = 1 .. Len(s) /\ Len(s) \in Nat
         /\ DOMAIN Append(s, x) = 1 .. Len(s) + 1
         /\ \A i \in 1 .. Len(s) : Append(s, x)[i] = s[i]
         /\ Append(s, x)[Len(s) + 1] = x
<1>1. s \in Seq(S \cup {x})
  BY SeqDef
<1> QED BY <1>1, AppendProperties, LenProperties

LEMMA ConsStep ==
  ASSUME ConsInv, ~overlap => SerialCons, [ConsNext]_consVars
  PROVE  ConsInv' /\ (~overlap => SerialCons)'
<1> USE DEF ConsInv, SerialCons, ConsGoto
<1>1. ASSUME NEW e \in Recent, AddToWorkingSet(e) \/ ExpireRow(e)
      PROVE  ConsInv' /\ (~overlap => SerialCons)'
  BY <1>1 DEF AddToWorkingSet, ExpireRow
<1>2. ASSUME NEW p \in Procs, StartConsolidation(p)
      PROVE  ConsInv' /\ (~overlap => SerialCons)'
  BY <1>2 DEF StartConsolidation, MayStart
<1>3. ASSUME NEW p \in Procs, NextGroup(p)
      PROVE  ConsInv' /\ (~overlap => SerialCons)'
  BY <1>3 DEF NextGroup, Already, Sources
<1>4. ASSUME NEW p \in Procs, CreateMemory(p)
      PROVE  ConsInv' /\ (~overlap => SerialCons)'
  <2> DEFINE new == Head(todo[p])
  <2>1. /\ memories' = Append(memories, new) /\ consPc[p] = "create"
        /\ consPc' = [consPc EXCEPT ![p] = "group"]
        /\ DOMAIN todo' = Procs /\ UNCHANGED overlap
    BY <1>4 DEF CreateMemory
  <2> DEFINE n == Len(memories)
  <2>2. /\ n \in Nat /\ DOMAIN memories = 1 .. n
        /\ DOMAIN memories' = 1 .. n + 1
        /\ \A i \in 1 .. n : memories'[i] = memories[i]
        /\ memories'[n + 1] = new
    BY <2>1, AppendAnything
  <2>6. memories' \in Seq({memories[m] : m \in DOMAIN memories} \cup {new})
    BY <2>1, AppendAnything
  <2> HIDE DEF new, n
  <2>3. {memories[m] : m \in DOMAIN memories} \cup {new}
          = {memories'[m] : m \in DOMAIN memories'}
    BY <2>2
  <2>4. ASSUME ~overlap PROVE SerialCons'
    BY <2>1, <2>2, <2>4 DEF new
  <2>5. memories' \in Seq({memories'[m] : m \in DOMAIN memories'})
    BY <2>3, <2>6
  <2> HIDE DEF SerialCons
  <2> QED BY <2>1, <2>4, <2>5
<1>5. ASSUME NEW p \in Procs, Promote(p) \/ Prune(p) \/ ConsFails(p)
      PROVE  ConsInv' /\ (~overlap => SerialCons)'
  <2>1. PICK label \in {"idle", "prune"} :
           consPc' = [consPc EXCEPT ![p] = label]
    BY <1>5 DEF Promote, Prune, ConsFails, ConsReturn
  <2>2. consPc[p] # "idle" /\ UNCHANGED <<memories, overlap>>
    BY <1>5 DEF Promote, Prune, ConsFails
  <2>3. DOMAIN todo' = Procs /\ \A q \in Procs \ {p} : todo'[q] = todo[q]
    BY <1>5 DEF Promote, Prune, ConsFails, ConsReturn
  <2> QED BY <2>1, <2>2, <2>3
<1>6. CASE UNCHANGED consVars
  BY <1>6 DEF consVars
<1> QED BY <1>1, <1>2, <1>3, <1>4, <1>5, <1>6 DEF ConsNext

(* An event is the source of one memory at most, whatever topics events     *)
(* share, however many runs there are and wherever one of them fails, when  *)
(* no run takes place inside another.                                       *)
THEOREM MemoriesAreDisjoint == ConsSpec => []OneMemoryPerEvent
<1>1. ConsInit => ConsInv /\ SerialCons
  BY DEF ConsInit, ConsInv, SerialCons
<1>2. SerialCons => \A m, n \in DOMAIN memories :
                       m # n => memories[m] \cap memories[n] = {}
  BY DEF SerialCons
<1> QED BY <1>1, <1>2, ConsStep, PTL DEF ConsSpec, OneMemoryPerEvent

-----------------------------------------------------------------------------
(* Nothing passes a filter but what it read; results wait for the last      *)
(* stage, and only a search that is not filtered yet has hits.              *)
RetrievalInv ==
    /\ doc \in [Docs -> DocType] /\ results \subseteq Docs
    /\ Ours \subseteq seen
    /\ hits # None => /\ hits \in SUBSET Docs
                      /\ stage \in {"primary", "deep", "expanded", "summary"}
    /\ stage \in {"primary", "deep", "expanded", "summary", "enrich", "done"}
    /\ request.mode = "strict" =>
          results \subseteq seen /\ (stage = "done" => returned \subseteq seen)
    /\ confident => results # {}
    /\ ~overlap /\ request.mode # "global" =>
          /\ \A e \in results : Readable(e)
          /\ stage = "done" /\ confident => returned # {}

LEMMA RetrievalStep ==
  ASSUME RetrievalInv, [RetrievalNext]_retrievalVars
  PROVE  RetrievalInv'
<1> USE DEF RetrievalInv
<1>1. CASE Search
  BY <1>1 DEF Search, Readable, Ours
<1>2. CASE Filter
  <2>1. /\ hits \in SUBSET Docs /\ hits' = None
        /\ results' \subseteq InScope(hits)
        /\ confident' => results' # {}
        /\ stage' \in {"deep", "expanded", "summary", "enrich"}
        /\ UNCHANGED <<doc, request, returned, seen, overlap>>
    BY <1>2 DEF Filter, NextStage
  <2>2. /\ InScope(hits) \subseteq hits
        /\ request.mode = "strict" => InScope(hits) \subseteq Ours
        /\ request.mode # "global" => \A e \in InScope(hits) : Readable(e)
    BY DEF InScope, Filtering, Reading
  <2> QED BY <2>1, <2>2 DEF Readable, Ours
<1>3. CASE Enrich
  BY <1>3 DEF Enrich, Readable, Ours
<1>4. ASSUME NEW e \in Docs, DocChanges(e) PROVE RetrievalInv'
  <2>1. doc' \in [Docs -> DocType]
    <3>1. /\ [doc[e] EXCEPT !.gone = TRUE] \in DocType
          /\ [doc[e] EXCEPT !.quarantined = TRUE] \in DocType
          /\ [doc[e] EXCEPT !.project = Here] \in DocType
      BY DEF DocType, Here
    <3>2. PICK d \in DocType : doc' = [doc EXCEPT ![e] = d]
      BY <1>4, <3>1 DEF DocChanges
    <3> QED BY <3>2
  <2> QED BY <1>4, <2>1 DEF DocChanges, Ours
<1>5. CASE UNCHANGED retrievalVars
  BY <1>5 DEF retrievalVars, Readable, Ours
<1> QED BY <1>1, <1>2, <1>3, <1>4, <1>5 DEF RetrievalNext

(* Whatever the indexes name and whoever deletes, quarantines and tags      *)
(* events meanwhile, no stage lets an event of another project into a       *)
(* strict search; and a match that is reported has its memory.              *)
THEOREM ResultsBelong == RetrievalSpec => []ResultsAreOurs
<1>1. RetrievalInit => RetrievalInv
  BY DEF RetrievalInit, RetrievalInv
<1>2. RetrievalInv => ResultsAreOurs
  BY DEF RetrievalInv, ResultsAreOurs, StrictIsOurs, MatchHasMemory
<1> QED BY <1>1, <1>2, RetrievalStep, PTL DEF RetrievalSpec

-----------------------------------------------------------------------------
(* A row that its own store would keep is not quarantined as another's.     *)
Own(r) ==
    /\ r.paths = {r.origin} /\ ~r.hint
    /\ storeHash \in {Hash(r.origin), PreMarkerHash(r.origin)}
    /\ r.stamp \in {None, storeHash, r.origin}

(* What a repair leaves behind.                                             *)
Sorted(r) ==
    \/ r.stamp = storeHash \/ r.quarantine # "no"
    \/ r.stamp = None /\ ~ImportedOrLegacy(r)

(* A store is under the hash of the workspace only since it has a marker;   *)
(* a row has changed since a repair read it only if somebody sorted it.     *)
ScopeInv ==
    /\ storeHash \in Instances \/ (adopted /\ storeHash = Root)
    /\ row \in [Traced -> RowType]
    /\ scopePc \in [Procs -> {"idle", "byPath", "byHash"}]
    /\ DOMAIN rowsRead = Procs /\ DOMAIN rowsLeft = Procs
    /\ \A e \in Traced : Own(row[e]) => row[e].quarantine # "scope"
    /\ \A p \in Procs : scopePc[p] # "idle" =>
          /\ rowsRead[p] \in [Traced -> RowType]
          /\ rowsLeft[p] \subseteq Traced
          /\ \A e \in Traced :
                /\ row[e] = rowsRead[p][e] \/ Sorted(row[e])
                /\ e \notin rowsLeft[p] => Sorted(row[e])
    /\ swept => \A e \in Traced : Sorted(row[e])

(* The verdict on a row is right whenever it is reached.                    *)
LEMMA JudgedIsSorted ==
  ASSUME NEW r \in RowType, NEW byPath \in BOOLEAN, storeHash \in Places
  PROVE  /\ Judged(r, byPath) \in RowType
         /\ Sorted(Judged(r, byPath))
         /\ r.quarantine = "no" /\ Own(Judged(r, byPath)) =>
               Judged(r, byPath).quarantine # "scope"
         /\ r.quarantine # "no" => Judged(r, byPath) = r
<1> USE DEF RowType
<1>1. CASE r.quarantine # "no"
  BY <1>1 DEF Judged, Sorted
<1>2. CASE r.quarantine = "no" /\ Quarantines(r, byPath)
  <2> DEFINE judged == [r EXCEPT !.quarantine = "scope"]
  <2>1. Judged(r, byPath) = judged
    BY <1>2 DEF Judged
  <2>2. /\ judged \in RowType /\ judged.quarantine = "scope"
        /\ judged.origin = r.origin /\ judged.stamp = r.stamp
        /\ judged.paths = r.paths /\ judged.hint = r.hint
    OBVIOUS
  <2>3. ~Own(r)
    BY <1>2 DEF Own, Quarantines, Belongs, PreMarkerHash
  <2> QED BY <1>2, <2>1, <2>2, <2>3 DEF Own, Sorted
<1>3. CASE r.quarantine = "no" /\ ~Quarantines(r, byPath) /\ Repairs(r)
  BY <1>3 DEF Judged, Sorted
<1>4. CASE r.quarantine = "no" /\ ~Quarantines(r, byPath) /\ ~Repairs(r)
  <2>1. Judged(r, byPath) = r
    BY <1>4 DEF Judged
  <2>2. Sorted(r)
    BY <1>4 DEF Sorted, Quarantines, Repairs, ImportedOrLegacy
  <2> QED BY <1>4, <2>1, <2>2
<1> QED BY <1>1, <1>2, <1>3, <1>4

LEMMA ScopeStep ==
  ASSUME ScopeInv, [ScopeNext]_scopeVars
  PROVE  ScopeInv'
<1> USE DEF ScopeInv
<1>1. ASSUME NEW p \in Procs, StartRepair(p) PROVE ScopeInv'
  BY <1>1 DEF StartRepair, Own, Sorted, Hash
<1>2. ASSUME NEW p \in Procs, RepairRow(p) PROVE ScopeInv'
  <2>1. PICK e \in rowsLeft[p] :
           LET r == rowsRead[p][e]
               judged == Judged(r, scopePc[p] = "byPath")
           IN  /\ row' = IF judged = r THEN row ELSE [row EXCEPT ![e] = judged]
               /\ rowsLeft' = [rowsLeft EXCEPT ![p] = @ \ {e}]
    BY <1>2 DEF RepairRow
  <2> DEFINE r == rowsRead[p][e]
             judged == Judged(r, scopePc[p] = "byPath")
  <2>2. /\ e \in Traced /\ r \in RowType /\ scopePc[p] # "idle"
        /\ storeHash \in Places
        /\ UNCHANGED <<adopted, storeHash, scopePc, rowsRead, swept>>
    BY <1>2 DEF RepairRow, Places
  <2>3. /\ judged \in RowType /\ Sorted(judged)
        /\ r.quarantine = "no" /\ Own(judged) => judged.quarantine # "scope"
        /\ r.quarantine # "no" => judged = r
    BY <2>2, JudgedIsSorted
  <2>4. /\ row' = IF judged = r THEN row ELSE [row EXCEPT ![e] = judged]
        /\ rowsLeft' = [rowsLeft EXCEPT ![p] = rowsLeft[p] \ {e}]
    BY <2>1
  <2>5. \A d \in Traced : row[d] = rowsRead[p][d] \/ Sorted(row[d])
    BY <2>2
  <2> HIDE DEF r, judged
  <2>6. /\ Sorted(row'[e]) /\ row' \in [Traced -> RowType]
        /\ \A d \in Traced \ {e} : row'[d] = row[d]
        /\ Own(row'[e]) => row'[e].quarantine # "scope"
        /\ row'[e] = row[e] \/ row'[e] = judged
    BY <2>2, <2>3, <2>4, <2>5 DEF r
  <2>7. \A x : (Own(x) <=> Own(x)') /\ (Sorted(x) <=> Sorted(x)')
    BY <2>2 DEF Own, Sorted, Hash
  <2>8. (\A d \in Traced : Own(row[d]) => row[d].quarantine # "scope")'
    BY <2>6, <2>7
  <2>9. (swept => \A d \in Traced : Sorted(row[d]))'
    BY <2>2, <2>6, <2>7
  <2>10. (\A q \in Procs : scopePc[q] # "idle" =>
             /\ rowsRead[q] \in [Traced -> RowType]
             /\ rowsLeft[q] \subseteq Traced
             /\ \A d \in Traced :
                   /\ row[d] = rowsRead[q][d] \/ Sorted(row[d])
                   /\ d \notin rowsLeft[q] => Sorted(row[d]))'
    BY <2>2, <2>4, <2>6, <2>7
  <2> QED BY <2>2, <2>4, <2>6, <2>8, <2>9, <2>10
<1>3. ASSUME NEW p \in Procs, LeaveRepair(p) PROVE ScopeInv'
  BY <1>3 DEF LeaveRepair, Own, Sorted, Hash
<1>4. CASE AdoptMarker
  BY <1>4, PlacesAssumption DEF AdoptMarker, Own, Sorted, Hash, PreMarkerHash
<1>5. ASSUME NEW e \in Traced, Quarantine(e) PROVE ScopeInv'
  <2>1. /\ row'[e] = [row[e] EXCEPT !.quarantine = "manual"]
        /\ \A d \in Traced \ {e} : row'[d] = row[d]
        /\ row' \in [Traced -> RowType]
        /\ UNCHANGED <<adopted, storeHash, scopePc, rowsRead, rowsLeft, swept>>
    BY <1>5 DEF Quarantine, RowType
  <2>2. row'[e].quarantine = "manual"
    BY <2>1 DEF RowType
  <2> QED BY <2>1, <2>2 DEF Own, Sorted, Hash
<1>6. CASE UNCHANGED scopeVars
  BY <1>6 DEF scopeVars, Own, Sorted, Hash
<1> QED BY <1>1, <1>2, <1>3, <1>4, <1>5, <1>6 DEF ScopeNext

(* Whoever repairs at the same time on what was read before, adopts the     *)
(* marker half-way or quarantines by hand: no repair hides a row of its     *)
(* own, and one that ends leaves no other row in sight.                     *)
THEOREM RowsGetSorted == ScopeSpec => []RowsAreSorted
<1>1. ScopeInit => ScopeInv
  BY DEF ScopeInit, ScopeInv
<1>2. ScopeInv => RowsAreSorted
  BY DEF ScopeInv, RowsAreSorted, OwnRowsStay, ForeignRowsGo, Own, Sorted
<1> QED BY <1>1, <1>2, ScopeStep, PTL DEF ScopeSpec

-----------------------------------------------------------------------------
RepairTypes ==
    /\ tool \subseteq Indexed /\ text \in [Indexed -> Texts]
    /\ legacyJob \in [Indexed -> Texts \cup {None}]
    /\ job \in [Indexed -> {"pending", "processing", "done", None}]
    /\ index \in [Tables -> [Indexed -> Texts \cup {None}]]
    /\ repairPc \in [Procs -> {"idle", "prune", "pruneRows"} \cup Tables
                              \cup Healing \cup Redacting]
    /\ targets \in [Procs -> SUBSET Indexed]
    /\ chosenText \in [Procs -> Texts \cup {None}]

(* What a command has done of its work while it runs alone: an auto-heal    *)
(* has emptied the table of what is not in its targets, and a redaction has *)
(* still to see to the vectors and the rows of those that are.              *)
HealsInTurn(p) ==
    /\ repairPc[p] = "heal" =>
          \A e \in tool \ targets[p] : index["event_vectors"][e] = None
    /\ repairPc[p] \in {"healRows", "healFlag"} =>
          \A e \in tool : index["event_vectors"][e] = None
    /\ repairPc[p] = "healFlag" => \A e \in tool : job[e] = None

Unseen(e, labels) ==
    \E p \in Procs : repairPc[p] \in labels /\ e \in targets[p]

TextsAreCurrent ==
    \A e \in Indexed :
        /\ \/ Unseen(e, {"rewrite", "redact"})
           \/ \A t \in Tables : index[t][e] \in {None, text[e]}
        /\ Unseen(e, Redacting) \/ legacyJob[e] \in {None, text[e]}

SerialRepairs ==
    /\ \A p, q \in Procs :
          repairPc[p] # "idle" /\ repairPc[q] # "idle" => p = q
    /\ \A p \in Procs :
          /\ HealsInTurn(p)
          /\ ~lapsed /\ repairPc[p] \in Tables =>
                \A e \in targets[p] : chosenText[p] = text[e]
          /\ healed /\ repairPc[p] = "event_vectors" =>
                targets[p] \cap tool = {}
    /\ healed => \A e \in tool : /\ index["event_vectors"][e] = None
                                 /\ job[e] = None
    /\ ~lapsed => TextsAreCurrent

LEMMA RepairInitial == RepairInit => RepairTypes /\ SerialRepairs
<1> SUFFICES ASSUME RepairInit PROVE RepairTypes /\ SerialRepairs
  OBVIOUS
<1>1. PICK S \in SUBSET Indexed :
         /\ job = [e \in Indexed |-> IF e \in S THEN "pending" ELSE "done"]
         /\ legacyJob = [e \in Indexed |-> IF e \in S THEN text[e] ELSE None]
         /\ index = [t \in Tables |-> [e \in Indexed |->
                        IF e \in S THEN None ELSE text[e]]]
  BY DEF RepairInit
<1>2. /\ tool \subseteq Indexed /\ text \in [Indexed -> Texts]
      /\ ~healed /\ \A p \in Procs : repairPc[p] = "idle"
      /\ repairPc = [p \in Procs |-> "idle"]
      /\ targets = [p \in Procs |-> {}]
      /\ chosenText = [p \in Procs |-> None]
  BY DEF RepairInit
<1> QED BY <1>1, <1>2 DEF RepairTypes, SerialRepairs, HealsInTurn,
                          TextsAreCurrent, Unseen, Healing, Redacting, Tables

LEMMA RepairTypesStep ==
  ASSUME RepairTypes, [RepairNext]_repairVars
  PROVE  RepairTypes' /\ UNCHANGED <<tool, overlap>>
<1> USE DEF RepairTypes, RepairGoto, RepairReturn, Tables, Healing, Redacting
<1>1. ASSUME NEW p \in Procs, NEW e \in Indexed, EmbedLegacy(p, e) \/ Embed(p, e)
      PROVE  RepairTypes' /\ UNCHANGED <<tool, overlap>>
  BY <1>1 DEF EmbedLegacy, Embed
<1>2. ASSUME NEW p \in Procs, StoreVector(p)
      PROVE  RepairTypes' /\ UNCHANGED <<tool, overlap>>
  <2>1. PICK e \in targets[p] :
           /\ index' = [index EXCEPT ![repairPc[p]][e] = chosenText[p]]
           /\ job' = IF repairPc[p] = "event_vectors" /\ job[e] # None
                     THEN [job EXCEPT ![e] = "done"] ELSE job
    BY <1>2 DEF StoreVector
  <2>2. index' \in [Tables -> [Indexed -> Texts \cup {None}]]
    BY <1>2, <2>1 DEF StoreVector
  <2> QED BY <1>2, <2>1, <2>2 DEF StoreVector
<1>3. ASSUME NEW p \in Procs, StartPrune(p) \/ PruneVector(p)
      PROVE  RepairTypes' /\ UNCHANGED <<tool, overlap>>
  BY <1>3 DEF StartPrune, PruneVector, Unindexed
<1>4. ASSUME NEW p \in Procs, PruneRows(p) \/ SetHealed(p)
      PROVE  RepairTypes' /\ UNCHANGED <<tool, overlap>>
  BY <1>4 DEF PruneRows, SetHealed
<1>5. ASSUME NEW p \in Procs, StartRedaction(p) \/ Rewrite(p)
      PROVE  RepairTypes' /\ UNCHANGED <<tool, overlap>>
  BY <1>5 DEF StartRedaction, Rewrite, Texts
<1>6. ASSUME NEW p \in Procs, DropVectors(p) \/ Requeue(p)
      PROVE  RepairTypes' /\ UNCHANGED <<tool, overlap>>
  BY <1>6 DEF DropVectors, Requeue, Requeued
<1>7. ASSUME NEW p \in Procs, RepairFails(p)
      PROVE  RepairTypes' /\ UNCHANGED <<tool, overlap>>
  BY <1>7 DEF RepairFails
<1>8. CASE Reembed
  BY <1>8 DEF Reembed
<1>9. CASE UNCHANGED repairVars
  BY <1>9 DEF repairVars
<1> QED BY <1>1, <1>2, <1>3, <1>4, <1>5, <1>6, <1>7, <1>8, <1>9 DEF RepairNext

LEMMA RepairSerialStep ==
  ASSUME RepairTypes, ~overlap, SerialRepairs, [RepairNext]_repairVars
  PROVE  SerialRepairs'
<1> USE DEF RepairTypes, SerialRepairs, HealsInTurn, TextsAreCurrent, Unseen,
            RepairGoto, RepairReturn, Tables, Healing, Redacting
<1>1. ASSUME NEW p \in Procs, NEW e \in Indexed, EmbedLegacy(p, e)
      PROVE  SerialRepairs'
  <2>1. /\ \A q \in Procs : repairPc[q] = "idle"
        /\ repairPc' = [repairPc EXCEPT ![p] = "conversations"]
        /\ targets' = [targets EXCEPT ![p] = {e}]
        /\ chosenText' = [chosenText EXCEPT ![p] = legacyJob[e]]
        /\ legacyJob' = [legacyJob EXCEPT ![e] = None]
        /\ legacyJob[e] # None
        /\ UNCHANGED <<tool, text, job, index, healed, lapsed>>
    BY <1>1 DEF EmbedLegacy, MayStart
  <2> QED BY <2>1
<1>14. ASSUME NEW p \in Procs, NEW e \in Indexed, Embed(p, e)
      PROVE  SerialRepairs'
  <2>1. /\ \A q \in Procs : repairPc[q] = "idle"
        /\ repairPc' = [repairPc EXCEPT ![p] = "event_vectors"]
        /\ targets' = [targets EXCEPT ![p] = {e}]
        /\ chosenText' = [chosenText EXCEPT ![p] = text[e]]
        /\ job' = [job EXCEPT ![e] = "processing"] /\ job[e] = "pending"
        /\ UNCHANGED <<tool, text, legacyJob, index, healed, lapsed>>
    BY <1>14 DEF Embed, MayStart
  <2>2. healed => e \notin tool
    BY <2>1, RepairAssumption
  <2> QED BY <2>1, <2>2
<1>2. ASSUME NEW p \in Procs, StoreVector(p) PROVE SerialRepairs'
  BY <1>2 DEF StoreVector
<1>3. ASSUME NEW p \in Procs, StartPrune(p) PROVE SerialRepairs'
  BY <1>3 DEF StartPrune, MayStart
<1>4. ASSUME NEW p \in Procs, PruneVector(p) PROVE SerialRepairs'
  BY <1>4 DEF PruneVector, Unindexed
<1>5. ASSUME NEW p \in Procs, PruneRows(p) PROVE SerialRepairs'
  BY <1>5 DEF PruneRows, Removed
<1>6. ASSUME NEW p \in Procs, SetHealed(p) PROVE SerialRepairs'
  BY <1>6 DEF SetHealed
<1>7. ASSUME NEW p \in Procs, StartRedaction(p) PROVE SerialRepairs'
  BY <1>7 DEF StartRedaction, MayStart
<1>8. ASSUME NEW p \in Procs, Rewrite(p) PROVE SerialRepairs'
  BY <1>8 DEF Rewrite
<1>9. ASSUME NEW p \in Procs, DropVectors(p) PROVE SerialRepairs'
  <2>1. PICK S \in SUBSET targets[p] :
           /\ index' = [t \in Tables |-> [e \in Indexed |->
                           IF e \in S THEN None ELSE index[t][e]]]
           /\ lapsed' = (lapsed \/ S # targets[p])
    BY <1>9 DEF DropVectors
  <2>2. /\ repairPc[p] = "redact"
        /\ repairPc' = [repairPc EXCEPT ![p] = "requeue"]
        /\ UNCHANGED <<tool, text, legacyJob, job, healed, targets>>
    BY <1>9 DEF DropVectors
  <2>3. \A t \in Tables, e \in Indexed :
           index'[t][e] = IF e \in S THEN None ELSE index[t][e]
    BY <2>1
  <2>4. ~lapsed' => TextsAreCurrent'
    BY <2>1, <2>2, <2>3
  <2> QED BY <2>1, <2>2, <2>3, <2>4
<1>10. ASSUME NEW p \in Procs, Requeue(p) PROVE SerialRepairs'
  BY <1>10 DEF Requeue, Requeued
<1>11. ASSUME NEW p \in Procs, RepairFails(p) PROVE SerialRepairs'
  <2>1. /\ repairPc[p] # "idle" /\ \A q \in Procs \ {p} : repairPc[q] = "idle"
        /\ repairPc' = [repairPc EXCEPT ![p] = "idle"]
        /\ UNCHANGED <<tool, text, index, healed>>
    BY <1>11 DEF RepairFails
  <2>2. \A q \in Procs : repairPc'[q] = "idle"
    BY <2>1
  <2>3. healed' => \A e \in tool' : /\ index'["event_vectors"][e] = None
                                    /\ job'[e] = None
    BY <1>11, <2>1 DEF RepairFails
  <2>4. ~lapsed' => TextsAreCurrent'
    <3> SUFFICES ASSUME ~lapsed' PROVE TextsAreCurrent'
      OBVIOUS
    <3>1. ~lapsed /\ repairPc[p] \notin Redacting
      BY <1>11 DEF RepairFails
    <3>2. \A e \in Indexed : ~Unseen(e, Redacting) /\ ~Unseen(e, {"rewrite", "redact"})
      BY <2>1, <3>1
    <3>3. \A e \in Indexed : /\ \A t \in Tables : index[t][e] \in {None, text[e]}
                             /\ legacyJob[e] \in {None, text[e]}
      BY <3>1, <3>2
    <3>4. \A e \in Indexed : legacyJob'[e] \in {None, text[e]}
      BY <1>11, <3>1, <3>3 DEF RepairFails
    <3> QED BY <2>1, <3>3, <3>4
  <2> QED BY <2>2, <2>3, <2>4
<1>12. CASE Reembed
  BY <1>12 DEF Reembed
<1>13. CASE UNCHANGED repairVars
  BY <1>13 DEF repairVars
<1> QED BY <1>1, <1>2, <1>3, <1>4, <1>5, <1>6, <1>7, <1>8, <1>9, <1>10, <1>11,
           <1>12, <1>13, <1>14 DEF RepairNext

(* The repairs leave a clean index, for any number of events and processes, *)
(* wherever one of them dies, when none runs inside another.                *)
THEOREM RepairsCleanUp == RepairSpec => []IndexIsClean
<1>1. SerialRepairs => \/ ~healed
                       \/ \A e \in tool : /\ index["event_vectors"][e] = None
                                          /\ job[e] = None
  BY DEF SerialRepairs
<1>2. (~overlap => SerialRepairs) => HealedIsClean
  BY <1>1 DEF HealedIsClean
<1>3. (~overlap => SerialRepairs) => NoStaleText
  BY DEF SerialRepairs, TextsAreCurrent, Unseen, NoStaleText, Redacting
<1>4. RepairTypes /\ (~overlap => SerialRepairs) /\ [RepairNext]_repairVars
        => RepairTypes' /\ (~overlap => SerialRepairs)'
  BY RepairTypesStep, RepairSerialStep
<1> QED BY <1>2, <1>3, <1>4, RepairInitial, PTL DEF RepairSpec, IndexIsClean

-----------------------------------------------------------------------------
(* Actions: what a projection that is alone has read is still so, and an    *)
(* action is its task's from the moment it was written.                     *)
SerialActs ==
    /\ followed \subseteq Work
    /\ \A p, q \in Procs : actPc[p] # "idle" /\ actPc[q] # "idle" => p = q
    /\ \A p \in Procs : actPc[p] # "idle" =>
          LET k == actOf[p]
          IN  /\ k \in Work
              /\ actPc[p] = "write" => /\ before[p] = action[k]
                                      /\ wanted[p] = work[k].status
              /\ actPc[p] \in {"edges", "sync"} => action[k] = work[k].status
              /\ actPc[p] = "sync" => wanted[p] = work[k].blockers
    /\ \A k \in followed : /\ action[k] = work[k].status
                           /\ depends[k] = work[k].blockers

ActDomains ==
    /\ DOMAIN work = Work /\ DOMAIN action = Work /\ DOMAIN depends = Work
    /\ DOMAIN actPc = Procs /\ DOMAIN actOf = Procs
    /\ DOMAIN before = Procs /\ DOMAIN wanted = Procs

LEMMA ActDomainsStep ==
  ASSUME ActDomains, [ActNext]_actVars
  PROVE  ActDomains'
<1> USE DEF ActDomains, ActReturn, ActGoto, ActStart
<1>1. ASSUME NEW k \in Work, WorkChanges(k) PROVE ActDomains'
  BY <1>1 DEF WorkChanges
<1>2. ASSUME NEW k \in Work, NEW p \in Procs,
             StartUpdate(p, k) \/ StartProject(p, k)
      PROVE  ActDomains'
  BY <1>2 DEF StartUpdate, StartProject
<1>3. ASSUME NEW p \in Procs,
             \/ WriteUpdate(p) \/ InsertAction(p) \/ UpdateAction(p)
             \/ LeaveAction(p) \/ ReadBlockers(p)
      PROVE  ActDomains'
  BY <1>3 DEF WriteUpdate, InsertAction, UpdateAction, LeaveAction, ReadBlockers
<1>4. ASSUME NEW p \in Procs, SyncEdge(p) \/ EndProject(p) \/ ActFails(p)
      PROVE  ActDomains'
  BY <1>4 DEF SyncEdge, EndProject, ActFails
<1>5. CASE UNCHANGED actVars
  BY <1>5 DEF actVars
<1> QED BY <1>1, <1>2, <1>3, <1>4, <1>5 DEF ActNext

LEMMA ActSerialStep ==
  ASSUME ActDomains, SerialActs, ~overlap, [ActNext]_actVars
  PROVE  SerialActs'
<1> USE DEF SerialActs, ActDomains, ActReturn, ActGoto
<1>1. ASSUME NEW k \in Work, WorkChanges(k) PROVE SerialActs'
  BY <1>1 DEF WorkChanges
<1>2. ASSUME NEW k \in Work, NEW p \in Procs, StartUpdate(p, k)
      PROVE  SerialActs'
  BY <1>2 DEF StartUpdate, ActStart, MayStart
<1>3. ASSUME NEW k \in Work, NEW p \in Procs, StartProject(p, k)
      PROVE  SerialActs'
  BY <1>3 DEF StartProject, ActStart, MayStart
<1>4. ASSUME NEW p \in Procs, WriteUpdate(p) PROVE SerialActs'
  BY <1>4 DEF WriteUpdate
<1>5. ASSUME NEW p \in Procs, InsertAction(p) PROVE SerialActs'
  BY <1>5 DEF InsertAction
<1>6. ASSUME NEW p \in Procs, UpdateAction(p) PROVE SerialActs'
  BY <1>6 DEF UpdateAction
<1>7. ASSUME NEW p \in Procs, LeaveAction(p) PROVE SerialActs'
  BY <1>7 DEF LeaveAction
<1>8. ASSUME NEW p \in Procs, ReadBlockers(p) PROVE SerialActs'
  BY <1>8 DEF ReadBlockers
<1>9. ASSUME NEW p \in Procs, SyncEdge(p) PROVE SerialActs'
  BY <1>9 DEF SyncEdge
<1>10. ASSUME NEW p \in Procs, EndProject(p) PROVE SerialActs'
  BY <1>10 DEF EndProject
<1>11. ASSUME NEW p \in Procs, ActFails(p) PROVE SerialActs'
  BY <1>11 DEF ActFails
<1>12. CASE UNCHANGED actVars
  BY <1>12 DEF actVars
<1> QED BY <1>1, <1>2, <1>3, <1>4, <1>5, <1>6, <1>7, <1>8, <1>9, <1>10, <1>11,
           <1>12 DEF ActNext

(* A projection that returned leaves the task's status and blockers in the  *)
(* action and its edges, whatever they were and wherever the projection     *)
(* before it stopped, for any number of tasks, blockers and processes whose *)
(* calls do not overlap.                                                    *)
THEOREM ActionsAreTheirTasks == ActSpec => []ActionsFollowTasks
<1> DEFINE I == ActDomains /\ (~overlap => SerialActs)
<1>1. ActInit => I
  BY DEF ActInit, SerialActs, ActDomains
<1>2. I /\ [ActNext]_actVars => I'
  <2> SUFFICES ASSUME I, [ActNext]_actVars PROVE I'
    OBVIOUS
  <2>1. UNCHANGED overlap
    BY DEF ActNext, actVars, WorkChanges, StartUpdate, StartProject, ActStart,
           WriteUpdate, InsertAction, UpdateAction, LeaveAction, ReadBlockers,
           SyncEdge, EndProject, ActFails
  <2> QED BY <2>1, ActDomainsStep, ActSerialStep
<1>3. I => ActionsFollowTasks
  BY DEF SerialActs, ActionsFollowTasks
<1> HIDE DEF I
<1> QED BY <1>1, <1>2, <1>3, PTL DEF ActSpec

-----------------------------------------------------------------------------
(* No event is in the log twice.                                            *)
Unrepeated(s) == \A m, n \in 1 .. Len(s) : s[m] = s[n] => m = n

(* A log has grown when it holds what it held and is still one.             *)
GrownTo(s, t) ==
    /\ t \in Seq(TaskEvent) /\ Unrepeated(t) /\ Len(s) <= Len(t)
    /\ \A m \in 1 .. Len(s) : \E n \in 1 .. Len(t) : t[n] = s[m]

Logged(L, i, s) ==
    \E n \in 1 .. Len(L) : /\ L[n].type \in {"created", "status"}
                           /\ L[n].task = i /\ L[n].status = s

(* What a call works on is a task there is, and a move that it is about to  *)
(* write has its event.                                                     *)
TaskInv ==
    /\ task \in [TaskIds -> {None} \cup TaskRow]
    /\ log \in Seq(TaskEvent) /\ Unrepeated(log)
    /\ taskPc \in [Procs -> {"idle", "create", "status", "update", "blockers",
                             "project", "insert", "save", "reset"}]
    /\ call \in [Procs -> Extracted \cup {NoCall}]
    /\ entity \in [Procs -> [id : TaskIds \cup {None},
                             status : Statuses \cup {None}]]
    /\ fresh \in [Procs -> Nat] /\ \A p \in Procs : fresh[p] <= Len(log)
    /\ \A p \in Procs :
          taskPc[p] \in {"create", "status", "update", "blockers"} =>
              call[p] \in Extracted
    /\ \A p \in Procs :
          taskPc[p] \in {"status", "update", "blockers"} =>
              /\ entity[p].id \in TaskIds /\ entity[p].status \in Statuses
              /\ task[entity[p].id] \in TaskRow
    /\ \A p \in Procs :
          taskPc[p] = "update" =>
              /\ call[p].status \in Statuses
              /\ Logged(log, entity[p].id, call[p].status)
    /\ \A i \in TaskIds : task[i] # None => Logged(log, i, task[i].status)

Inserted(S, s, n, e, t) ==
    /\ t \in Seq(S) /\ Len(t) = Len(s) + 1
    /\ \A k \in 1 .. n : t[k] = s[k]
    /\ t[n + 1] = e
    /\ \A k \in n + 1 .. Len(s) : t[k + 1] = s[k]

LEMMA InsertedIsSeq ==
  ASSUME NEW S, NEW s \in Seq(S), NEW e \in S, NEW n \in 0 .. Len(s)
  PROVE  Inserted(S, s, n, e, InsertAt(s, n + 1, e))
<1> DEFINE a == SubSeq(s, 1, n)  b == SubSeq(s, n + 1, Len(s))
<1>0. Len(s) \in Nat /\ \A k \in 1 .. Len(s) : s[k] \in S
  BY ElementOfSeq, LenProperties
<1>1. /\ a \in Seq(S) /\ Len(a) = n
      /\ \A k \in 1 .. n : a[k] = s[k]
  <2>1. /\ SubSeq(s, 1, n) \in Seq(S)
        /\ Len(SubSeq(s, 1, n)) = IF 1 <= n THEN n - 1 + 1 ELSE 0
        /\ \A k \in 1 .. n - 1 + 1 : SubSeq(s, 1, n)[k] = s[1 + k - 1]
    <3>1. 1 \in Int /\ n \in Int /\ \A k \in 1 .. n : s[k] \in S
      BY <1>0
    <3> QED BY <3>1, SubSeqProperties
  <2> QED BY <2>1
<1>2. /\ b \in Seq(S) /\ Len(b) = Len(s) - n
      /\ \A k \in 1 .. Len(s) - n : b[k] = s[n + k]
  <2>1. /\ SubSeq(s, n + 1, Len(s)) \in Seq(S)
        /\ Len(SubSeq(s, n + 1, Len(s))) =
              IF n + 1 <= Len(s) THEN Len(s) - (n + 1) + 1 ELSE 0
        /\ \A k \in 1 .. Len(s) - (n + 1) + 1 :
              SubSeq(s, n + 1, Len(s))[k] = s[n + 1 + k - 1]
    <3>1. /\ n + 1 \in Int /\ Len(s) \in Int
          /\ \A k \in n + 1 .. Len(s) : s[k] \in S
      BY <1>0
    <3> HIDE DEF b
    <3> QED BY <3>1, SubSeqProperties
  <2> QED BY <2>1, <1>0
<1>3. InsertAt(s, n + 1, e) = (a \o <<e>>) \o b
  <2>1. (n + 1) - 1 = n
    BY <1>0
  <2>2. InsertAt(s, n + 1, e) =
           (SubSeq(s, 1, (n + 1) - 1) \o <<e>>) \o SubSeq(s, n + 1, Len(s))
    BY DEF InsertAt
  <2> QED BY <2>1, <2>2
<1> HIDE DEF a, b
<1>4. <<e>> \in Seq(S) /\ Len(<<e>>) = 1 /\ <<e>>[1] = e
  OBVIOUS
<1>5. /\ a \o <<e>> \in Seq(S) /\ Len(a \o <<e>>) = n + 1
      /\ \A k \in 1 .. n + 1 :
            (a \o <<e>>)[k] = IF k <= n THEN a[k] ELSE <<e>>[k - n]
  BY <1>1, <1>4, ConcatProperties
<1> DEFINE c == a \o <<e>>
<1>6. /\ c \in Seq(S) /\ Len(c) = n + 1 /\ c[n + 1] = e
      /\ \A k \in 1 .. n : c[k] = s[k]
  BY <1>1, <1>4, <1>5
<1> HIDE DEF c
<1>7. /\ c \o b \in Seq(S) /\ Len(c \o b) = Len(c) + Len(b)
      /\ \A k \in 1 .. Len(c) + Len(b) :
            (c \o b)[k] = IF k <= Len(c) THEN c[k] ELSE b[k - Len(c)]
  BY <1>2, <1>6, ConcatProperties
<1>8. InsertAt(s, n + 1, e) = c \o b
  BY <1>3 DEF c
<1>9. c \o b \in Seq(S) /\ Len(c \o b) = Len(s) + 1
  BY <1>0, <1>2, <1>6, <1>7
<1>10. \A k \in 1 .. n : (c \o b)[k] = s[k]
  BY <1>0, <1>2, <1>6, <1>7
<1>11. (c \o b)[n + 1] = e
  BY <1>0, <1>2, <1>6, <1>7
<1>12. ASSUME NEW k \in n + 1 .. Len(s)
       PROVE  (c \o b)[k + 1] = s[k]
  <2>1. (c \o b)[k + 1] = b[(k + 1) - (n + 1)]
    BY <1>0, <1>2, <1>6, <1>7
  <2>2. (k + 1) - (n + 1) = k - n /\ k - n \in 1 .. Len(s) - n
        /\ n + (k - n) = k
    BY <1>0
  <2> QED BY <2>1, <2>2, <1>2
<1> QED BY <1>8, <1>9, <1>10, <1>11, <1>12 DEF Inserted

(* An emission leaves the events of before this call where they are.        *)
LEMMA EmitGrows ==
  ASSUME NEW p \in Procs, NEW e \in TaskEvent, Emit(p, e),
         log \in Seq(TaskEvent), Unrepeated(log), fresh \in [Procs -> Nat],
         \A q \in Procs : fresh[q] <= Len(log)
  PROVE  /\ GrownTo(log, log')
         /\ \E n \in 1 .. Len(log') : log'[n] = e
         /\ \A k \in 1 .. Len(log) - fresh[p] : log'[k] = log[k]
<1>0. Len(log) \in Nat
  OBVIOUS
<1>1. CASE Contains(log, e)
  <2>1. log' = log
    BY <1>1 DEF Emit
  <2>2. \E n \in 1 .. Len(log) : log[n] = e
    BY <1>1 DEF Contains
  <2> QED BY <2>1, <2>2, <1>0 DEF GrownTo
<1>2. CASE ~Contains(log, e)
  <2>1. PICK n \in Len(log) - fresh[p] .. Len(log) :
            log' = InsertAt(log, n + 1, e)
    BY <1>2 DEF Emit
  <2>2. n \in 0 .. Len(log)
    BY <1>0
  <2>3. /\ log' \in Seq(TaskEvent) /\ Len(log') = Len(log) + 1
        /\ \A k \in 1 .. n : log'[k] = log[k]
        /\ log'[n + 1] = e
        /\ \A k \in n + 1 .. Len(log) : log'[k + 1] = log[k]
    <3>1. n \in 0 .. Len(log) /\ log' = InsertAt(log, n + 1, e)
      BY <2>1, <2>2
    <3>2. Inserted(TaskEvent, log, n, e, log')
      BY <3>1, InsertedIsSeq
    <3> QED BY <3>2 DEF Inserted
  <2>4. \A k \in 1 .. Len(log) : log[k] # e
    BY <1>2 DEF Contains
  <2>5. \A k \in 1 .. Len(log') :
           \/ k = n + 1
           \/ k \in 1 .. n /\ log'[k] = log[k]
           \/ k - 1 \in n + 1 .. Len(log) /\ log'[k] = log[k - 1]
    <3> SUFFICES ASSUME NEW k \in 1 .. Len(log'), k # n + 1, k \notin 1 .. n
                 PROVE  k - 1 \in n + 1 .. Len(log) /\ log'[k] = log[k - 1]
      BY <2>3
    <3>1. k - 1 \in n + 1 .. Len(log)
      BY <2>2, <2>3, <1>0
    <3>2. log'[(k - 1) + 1] = log[k - 1]
      BY <3>1, <2>3
    <3>3. (k - 1) + 1 = k
      BY <2>3, <1>0
    <3> QED BY <3>1, <3>2, <3>3
  <2>6. Unrepeated(log')
    <3> SUFFICES ASSUME NEW i \in 1 .. Len(log'), NEW j \in 1 .. Len(log'),
                        log'[i] = log'[j]
                 PROVE  i = j
      BY DEF Unrepeated
    <3>0. \A k \in 1 .. Len(log') : k # n + 1 => log'[k] # e
      <4> TAKE k \in 1 .. Len(log')
      <4> HAVE k # n + 1
      <4>1. CASE k \in 1 .. n /\ log'[k] = log[k]
        BY <4>1, <2>2, <2>4, <1>0
      <4>2. CASE k - 1 \in n + 1 .. Len(log) /\ log'[k] = log[k - 1]
        BY <4>2, <2>2, <2>4, <1>0
      <4> QED BY <4>1, <4>2, <2>5
    <3>1. CASE i = n + 1
      BY <3>0, <3>1, <2>3
    <3>2. CASE j = n + 1
      BY <3>0, <3>2, <2>3
    <3>3. CASE i # n + 1 /\ j # n + 1
      <4>0. \A k \in 1 .. Len(log') : k # n + 1 =>
               \E a \in 1 .. Len(log) : /\ log'[k] = log[a]
                                        /\ k = IF a <= n THEN a ELSE a + 1
        <5> TAKE k \in 1 .. Len(log')
        <5> HAVE k # n + 1
        <5>1. CASE k \in 1 .. n /\ log'[k] = log[k]
          <6>1. k \in 1 .. Len(log) /\ k <= n
            BY <5>1, <2>2, <1>0
          <6> QED BY <6>1, <5>1
        <5>2. CASE k - 1 \in n + 1 .. Len(log) /\ log'[k] = log[k - 1]
          <6>1. k - 1 \in 1 .. Len(log) /\ ~(k - 1 <= n) /\ k = (k - 1) + 1
            BY <5>2, <2>2, <2>3, <1>0
          <6> QED BY <6>1, <5>2
        <5> QED BY <5>1, <5>2, <2>5
      <4>1. PICK a \in 1 .. Len(log) : /\ log'[i] = log[a]
                                       /\ i = IF a <= n THEN a ELSE a + 1
        BY <3>3, <4>0
      <4>2. PICK b \in 1 .. Len(log) : /\ log'[j] = log[b]
                                       /\ j = IF b <= n THEN b ELSE b + 1
        BY <3>3, <4>0
      <4>3. a = b
        BY <4>1, <4>2 DEF Unrepeated
      <4> QED BY <4>1, <4>2, <4>3
    <3> QED BY <3>1, <3>2, <3>3
  <2>8. \A m \in 1 .. Len(log) : \E k \in 1 .. Len(log') : log'[k] = log[m]
    <3> SUFFICES ASSUME NEW m \in 1 .. Len(log)
                 PROVE  \E k \in 1 .. Len(log') : log'[k] = log[m]
      OBVIOUS
    <3>1. CASE m <= n
      <4>1. m \in 1 .. n /\ m \in 1 .. Len(log')
        BY <3>1, <2>2, <2>3, <1>0
      <4> QED BY <4>1, <2>3
    <3>2. CASE m > n
      <4>1. m \in n + 1 .. Len(log) /\ m + 1 \in 1 .. Len(log')
        BY <3>2, <2>2, <2>3, <1>0
      <4> QED BY <4>1, <2>3
    <3> QED BY <3>1, <3>2, <2>2
  <2>9. GrownTo(log, log')
    BY <2>3, <2>6, <2>8, <1>0 DEF GrownTo
  <2>10. n + 1 \in 1 .. Len(log')
    BY <2>2, <2>3, <1>0
  <2>11. \A k \in 1 .. Len(log) - fresh[p] : log'[k] = log[k]
    <3> TAKE k \in 1 .. Len(log) - fresh[p]
    <3>1. k \in 1 .. n
      BY <2>1, <2>2, <1>0
    <3> QED BY <3>1, <2>3
  <2> QED BY <2>9, <2>10, <2>11, <2>3
<1> QED BY <1>1, <1>2

LEMMA TaskInitial == TaskInit => TaskInv
<1> SUFFICES ASSUME TaskInit PROVE TaskInv
  OBVIOUS
<1>1. /\ <<>> \in Seq(TaskEvent) /\ Len(<<>>) = 0 /\ Unrepeated(<<>>)
  BY DEF Unrepeated
<1> QED BY <1>1 DEF TaskInit, TaskInv, NoCall, NoEntity

(* The parts of an emission that every emitting step shares.                *)
LEMMA EmissionKeeps ==
  ASSUME TaskInv, NEW p \in Procs, NEW e \in TaskEvent, Emit(p, e)
  PROVE  /\ GrownTo(log, log')
         /\ log' \in Seq(TaskEvent) /\ Unrepeated(log')
         /\ \A i, s : Logged(log, i, s) => Logged(log', i, s)
         /\ \E n \in 1 .. Len(log') : log'[n] = e
         /\ \A k \in 1 .. Len(log) - fresh[p] : log'[k] = log[k]
<1>1. /\ GrownTo(log, log')
      /\ \E n \in 1 .. Len(log') : log'[n] = e
      /\ \A k \in 1 .. Len(log) - fresh[p] : log'[k] = log[k]
  <2>1. /\ log \in Seq(TaskEvent) /\ Unrepeated(log)
        /\ fresh \in [Procs -> Nat] /\ \A q \in Procs : fresh[q] <= Len(log)
    BY DEF TaskInv
  <2> QED BY <2>1, EmitGrows
<1>2. log' \in Seq(TaskEvent) /\ Unrepeated(log')
  BY <1>1 DEF GrownTo
<1>3. \A i, s : Logged(log, i, s) => Logged(log', i, s)
  BY <1>1 DEF GrownTo, Logged
<1> QED BY <1>1, <1>2, <1>3

LEMMA EmittedCounts ==
  ASSUME TaskInv, NEW p \in Procs, Emitted(p), GrownTo(log, log')
  PROVE  /\ fresh' \in [Procs -> Nat]
         /\ \A q \in Procs : fresh'[q] <= Len(log')
         /\ \A q \in Procs \ {p} : fresh'[q] = fresh[q]
         /\ Len(log') - fresh'[p] = Len(log) - fresh[p]
<1>1. /\ Len(log) \in Nat /\ Len(log') \in Nat /\ Len(log) <= Len(log')
      /\ fresh \in [Procs -> Nat] /\ \A q \in Procs : fresh[q] <= Len(log)
  BY DEF TaskInv, GrownTo
<1>2. PICK d \in Nat : d = fresh[p] + Len(log') - Len(log)
  BY <1>1
<1>3. fresh' = [fresh EXCEPT ![p] = d]
  BY <1>2 DEF Emitted
<1>4. fresh' \in [Procs -> Nat] /\ fresh'[p] = d
      /\ \A q \in Procs \ {p} : fresh'[q] = fresh[q]
  BY <1>1, <1>3
<1> QED BY <1>1, <1>2, <1>4

LEMMA CreateKeepsTasks ==
  ASSUME TaskInv, NEW p \in Procs, CreateTask(p)
  PROVE  TaskInv'
<1> USE DEF TaskInv
<1>1. PICK i \in TaskIds :
         LET first == FirstStatus(call[p].status) IN
         /\ task[i] = None
         /\ task' = [task EXCEPT ![i] = [title |-> call[p].title,
                                         status |-> first]]
         /\ entity' = [entity EXCEPT ![p] = [id |-> i, status |-> first]]
         /\ Emit(p, [type |-> "created", task |-> i, status |-> first])
  BY DEF CreateTask
<1> DEFINE first == FirstStatus(call[p].status)
           e == [type |-> "created", task |-> i, status |-> first]
<1>2. /\ taskPc[p] = "create" /\ Emitted(p)
      /\ taskPc' = [taskPc EXCEPT ![p] = "status"]
      /\ call' = call
  BY DEF CreateTask, TaskGoto
<1>3. /\ call[p] \in Extracted /\ call[p].title \in Titles
      /\ call[p].status \in Statuses \cup {None}
  BY <1>2, TaskAssumption
<1>4. first \in Statuses
  BY <1>3 DEF FirstStatus, Statuses
<1> HIDE DEF first
<1>5. e \in TaskEvent
  BY <1>4 DEF TaskEvent
<1>6. Emit(p, e)
  BY <1>1 DEF first
<1>7. e.type = "created" /\ e.task = i /\ e.status = first
  OBVIOUS
<1> HIDE DEF e
<1>8. /\ log' \in Seq(TaskEvent) /\ Unrepeated(log')
      /\ fresh' \in [Procs -> Nat]
      /\ \A q \in Procs : fresh'[q] <= Len(log')
      /\ \A j, s : Logged(log, j, s) => Logged(log', j, s)
      /\ \E n \in 1 .. Len(log') : log'[n] = e
  BY EmittedCounts, <1>2, <1>5, <1>6, EmissionKeeps
<1>9. Logged(log', i, first)
  BY <1>7, <1>8 DEF Logged
<1>10. [title |-> call[p].title, status |-> first] \in TaskRow
  BY <1>3, <1>4 DEF TaskRow
<1>11. /\ task' \in [TaskIds -> {None} \cup TaskRow]
       /\ task'[i] \in TaskRow /\ task'[i].status = first
       /\ \A j \in TaskIds \ {i} : task'[j] = task[j]
       /\ \A j \in TaskIds : task[j] \in TaskRow => task'[j] \in TaskRow
  BY <1>1, <1>10 DEF first
<1>12. /\ entity' \in [Procs -> [id : TaskIds \cup {None},
                                 status : Statuses \cup {None}]]
       /\ entity'[p].id = i /\ entity'[p].status = first
       /\ \A q \in Procs \ {p} : entity'[q] = entity[q]
  BY <1>1, <1>4 DEF first
<1>13. /\ taskPc'[p] = "status"
       /\ \A q \in Procs \ {p} : taskPc'[q] = taskPc[q]
       /\ taskPc' \in [Procs -> {"idle", "create", "status", "update",
                             "blockers", "project", "insert", "save", "reset"}]
  BY <1>2
<1>14. \A j \in TaskIds : task'[j] # None => Logged(log', j, task'[j].status)
  <2> TAKE j \in TaskIds
  <2> QED BY <1>8, <1>9, <1>11
<1>15. \A q \in Procs :
          taskPc'[q] \in {"create", "status", "update", "blockers"} =>
              call'[q] \in Extracted
  BY <1>2, <1>3, <1>13
<1>16. \A q \in Procs :
          taskPc'[q] \in {"status", "update", "blockers"} =>
              /\ entity'[q].id \in TaskIds /\ entity'[q].status \in Statuses
              /\ task'[entity'[q].id] \in TaskRow
  BY <1>4, <1>11, <1>12, <1>13
<1>17. \A q \in Procs :
          taskPc'[q] = "update" =>
              /\ call'[q].status \in Statuses
              /\ Logged(log', entity'[q].id, call'[q].status)
  BY <1>2, <1>8, <1>12, <1>13
<1> QED BY <1>2, <1>8, <1>11, <1>12, <1>13, <1>14, <1>15, <1>16, <1>17

LEMMA ProcessKeepsTasks ==
  ASSUME TaskInv, NEW p \in Procs, NEW x \in Extracted, ProcessTask(p, x)
  PROVE  TaskInv'
<1> USE DEF TaskInv
<1>1. /\ call' = [call EXCEPT ![p] = x]
      /\ task' = task /\ log' = log /\ fresh' = fresh
  BY DEF ProcessTask, taskStore
<1>2. CASE Known(x.title) = {}
  <2>1. /\ taskPc' = [taskPc EXCEPT ![p] = "create"] /\ entity' = entity
    BY <1>2 DEF ProcessTask, TaskGoto
  <2> QED BY <1>1, <2>1
<1>3. CASE Known(x.title) # {}
  <2>1. /\ taskPc' = [taskPc EXCEPT ![p] = "status"]
        /\ \E i \in Known(x.title) :
              entity' = [entity EXCEPT ![p] =
                            [id |-> i, status |-> task[i].status]]
    BY <1>3 DEF ProcessTask, TaskGoto
  <2>2. PICK i \in Known(x.title) :
           entity' = [entity EXCEPT ![p] =
                         [id |-> i, status |-> task[i].status]]
    BY <2>1
  <2>3. i \in TaskIds /\ task[i] \in TaskRow
    BY DEF Known, Matches
  <2>4. task[i].status \in Statuses
    BY <2>3 DEF TaskRow
  <2>5. /\ entity' \in [Procs -> [id : TaskIds \cup {None},
                                  status : Statuses \cup {None}]]
        /\ entity'[p].id = i /\ entity'[p].status \in Statuses
        /\ \A q \in Procs \ {p} : entity'[q] = entity[q]
    BY <2>2, <2>3, <2>4
  <2> QED BY <1>1, <2>1, <2>3, <2>5
<1> QED BY <1>2, <1>3

(* The event of a move, and that of a refused one.                          *)
LEMMA StatusEventHasType ==
  ASSUME TaskInv, NEW p \in Procs, taskPc[p] = "status",
         call[p].status \in Statuses, NEW type \in {"status", "rejected"}
  PROVE  StatusEvent(p, type) \in TaskEvent
BY DEF TaskInv, StatusEvent, TaskEvent

LEMMA ChangeKeepsTasks ==
  ASSUME TaskInv, NEW p \in Procs, ChangeStatus(p)
  PROVE  TaskInv'
<1> USE DEF TaskInv
<1> DEFINE e == StatusEvent(p, "status")
<1>1. /\ taskPc[p] = "status" /\ Emit(p, e) /\ Emitted(p) /\ Moves(p)
      /\ taskPc' = [taskPc EXCEPT ![p] = "update"]
      /\ call' = call /\ entity' = entity /\ task' = task
  BY DEF ChangeStatus, TaskGoto
<1>2. call[p].status \in Statuses
  BY <1>1 DEF Moves, Valid, Statuses
<1>3. /\ e \in TaskEvent /\ e.type = "status" /\ e.task = entity[p].id
      /\ e.status = call[p].status
  BY <1>1, <1>2, StatusEventHasType DEF StatusEvent
<1> HIDE DEF e
<1>4. /\ log' \in Seq(TaskEvent) /\ Unrepeated(log')
      /\ fresh' \in [Procs -> Nat]
      /\ \A q \in Procs : fresh'[q] <= Len(log')
      /\ \A j, s : Logged(log, j, s) => Logged(log', j, s)
      /\ \E n \in 1 .. Len(log') : log'[n] = e
  BY EmittedCounts, <1>1, <1>3, EmissionKeeps
<1>5. Logged(log', entity[p].id, call[p].status)
  <2>1. PICK n \in 1 .. Len(log') : log'[n] = e
    BY <1>4
  <2>2. /\ log'[n].type \in {"created", "status"}
        /\ log'[n].task = entity[p].id /\ log'[n].status = call[p].status
    BY <1>3, <2>1
  <2> QED BY <2>2 DEF Logged
<1> QED BY <1>1, <1>2, <1>4, <1>5

LEMMA RejectKeepsTasks ==
  ASSUME TaskInv, NEW p \in Procs, RejectStatus(p)
  PROVE  TaskInv'
<1> USE DEF TaskInv
<1>1. /\ taskPc[p] = "status" /\ Emitted(p)
      /\ taskPc' = [taskPc EXCEPT ![p] = "blockers"]
      /\ call' = call /\ entity' = entity /\ task' = task
  BY DEF RejectStatus, TaskGoto
<1>2. call[p].status \in Statuses \cup {None}
  BY <1>1, TaskAssumption
<1>3. CASE call[p].status \in {None, entity[p].status}
  <2>1. log' = log
    BY <1>3 DEF RejectStatus
  <2>2. fresh' = fresh
    <3>1. fresh[p] + Len(log) - Len(log) = fresh[p]
      OBVIOUS
    <3> QED BY <2>1, <3>1, <1>1 DEF Emitted
  <2> QED BY <1>1, <2>1, <2>2
<1>4. CASE call[p].status \notin {None, entity[p].status}
  <2> DEFINE e == StatusEvent(p, "rejected")
  <2>1. Emit(p, e)
    BY <1>4 DEF RejectStatus
  <2>2. e \in TaskEvent
    BY <1>1, <1>2, <1>4, StatusEventHasType
  <2> HIDE DEF e
  <2>3. /\ log' \in Seq(TaskEvent) /\ Unrepeated(log')
        /\ fresh' \in [Procs -> Nat]
        /\ \A q \in Procs : fresh'[q] <= Len(log')
        /\ \A j, s : Logged(log, j, s) => Logged(log', j, s)
    BY EmittedCounts, <1>1, <2>1, <2>2, EmissionKeeps
  <2> QED BY <1>1, <2>3
<1> QED BY <1>3, <1>4

LEMMA UpdateKeepsTasks ==
  ASSUME TaskInv, NEW p \in Procs, UpdateStatus(p)
  PROVE  TaskInv'
<1> USE DEF TaskInv
<1> DEFINE i == entity[p].id  s == call[p].status
<1>1. /\ taskPc[p] = "update"
      /\ task' = [task EXCEPT ![i] = [task[i] EXCEPT !.status = s]]
      /\ taskPc' = [taskPc EXCEPT ![p] = "blockers"]
      /\ log' = log /\ call' = call /\ entity' = entity /\ fresh' = fresh
  BY DEF UpdateStatus, TaskGoto
<1>2. i \in TaskIds /\ s \in Statuses /\ task[i] \in TaskRow
      /\ Logged(log, i, s)
  BY <1>1
<1>3. [task[i] EXCEPT !.status = s] \in TaskRow
      /\ [task[i] EXCEPT !.status = s].status = s
  BY <1>2 DEF TaskRow
<1> HIDE DEF i, s
<1>4. /\ task' \in [TaskIds -> {None} \cup TaskRow]
      /\ task'[i] \in TaskRow /\ task'[i].status = s
      /\ \A j \in TaskIds \ {i} : task'[j] = task[j]
      /\ \A j \in TaskIds : task[j] \in TaskRow => task'[j] \in TaskRow
  BY <1>1, <1>2, <1>3
<1>5. \A j \in TaskIds : task'[j] # None => Logged(log', j, task'[j].status)
  <2> TAKE j \in TaskIds
  <2> QED BY <1>1, <1>2, <1>4
<1>6. \A q \in Procs : taskPc'[q] = IF q = p THEN "blockers" ELSE taskPc[q]
  BY <1>1
<1>7. \A q \in Procs :
         taskPc'[q] \in {"create", "status", "update", "blockers"} =>
             call'[q] \in Extracted
  BY <1>1, <1>6
<1>8. \A q \in Procs :
         taskPc'[q] \in {"status", "update", "blockers"} =>
             /\ entity'[q].id \in TaskIds /\ entity'[q].status \in Statuses
             /\ task'[entity'[q].id] \in TaskRow
  BY <1>1, <1>4, <1>6
<1>9. \A q \in Procs :
         taskPc'[q] = "update" =>
             /\ call'[q].status \in Statuses
             /\ Logged(log', entity'[q].id, call'[q].status)
  BY <1>1, <1>6
<1> QED BY <1>1, <1>4, <1>5, <1>7, <1>8, <1>9

LEMMA BlockersEventHasType ==
  ASSUME TaskInv, NEW p \in Procs, taskPc[p] = "blockers", NEW rel \in Rels
  PROVE  /\ BlockersEvent(p, rel, {RefTo(x) : x \in call[p].blockers})
                \in TaskEvent
         /\ BlockersEvent(p, rel, {Placeholder}) \in TaskEvent
<1>1. entity[p].id \in TaskIds /\ call[p] \in Extracted
  BY DEF TaskInv
<1>2. ASSUME NEW R, R \subseteq Blocker
      PROVE  BlockersEvent(p, rel, R) \in TaskEvent
  BY <1>1, <1>2 DEF BlockersEvent, TaskEvent
<1>3. ASSUME NEW x \in call[p].blockers
      PROVE  RefTo(x) \in Blocker
  <2>0. x \in BlockerIds /\ TaskIds \subseteq BlockerIds
    <3>1. call[p].blockers \in {y.blockers : y \in Extracted}
      BY <1>1
    <3>2. x \in UNION {y.blockers : y \in Extracted}
      BY <3>1
    <3> QED BY <3>2, Zenon DEF BlockerIds
  <2>1. CASE Known(x) = {}
    BY <2>0, <2>1 DEF RefTo, Blocker
  <2>2. CASE Known(x) # {}
    <3>1. (CHOOSE i \in Known(x) : TRUE) \in TaskIds
      BY <2>2 DEF Known, Matches
    <3>2. RefTo(x) = [kind |-> "task", id |-> CHOOSE i \in Known(x) : TRUE]
      BY <2>2 DEF RefTo
    <3> QED BY <2>0, <3>1, <3>2 DEF Blocker
  <2> QED BY <2>1, <2>2
<1>4. Placeholder \in Blocker
  <2>1. None \in BlockerIds
    BY Zenon DEF BlockerIds
  <2> QED BY <2>1 DEF Placeholder, Blocker
<1>5. {RefTo(x) : x \in call[p].blockers} \subseteq Blocker
  BY <1>3
<1> QED BY <1>2, <1>4, <1>5

(* A call that returns, or dies, leaves nothing behind but its events.      *)
LEMMA ReturnKeepsTasks ==
  ASSUME TaskInv, NEW p \in Procs, TaskReturn(p), task' = task,
         GrownTo(log, log')
  PROVE  TaskInv'
<1> USE DEF TaskInv
<1>1. /\ taskPc' = [taskPc EXCEPT ![p] = "idle"]
      /\ call' = [call EXCEPT ![p] = NoCall]
      /\ entity' = [entity EXCEPT ![p] = NoEntity]
      /\ fresh' = [fresh EXCEPT ![p] = 0]
  BY DEF TaskReturn, TaskGoto
<1>2. /\ log' \in Seq(TaskEvent) /\ Unrepeated(log')
      /\ \A j, s : Logged(log, j, s) => Logged(log', j, s)
      /\ Len(log) \in Nat /\ Len(log') \in Nat /\ Len(log) <= Len(log')
  BY DEF GrownTo, Logged
<1>3. /\ fresh' \in [Procs -> Nat]
      /\ \A q \in Procs : fresh'[q] <= Len(log')
  BY <1>1, <1>2
<1>4. entity' \in [Procs -> [id : TaskIds \cup {None},
                            status : Statuses \cup {None}]]
  BY <1>1 DEF NoEntity
<1> QED BY <1>1, <1>2, <1>3, <1>4

LEMMA SetBlockersEmits ==
  ASSUME TaskInv, NEW p \in Procs, SetBlockers(p)
  PROVE  log' = log \/ \E e \in TaskEvent : Emit(p, e)
<1>1. taskPc[p] = "blockers"
  BY DEF SetBlockers
<1>2. "blocked_by_suggested" \in Rels
  BY DEF Rels
<1> QED BY <1>1, <1>2, BlockersEventHasType DEF SetBlockers

LEMMA TaskInvStep ==
  ASSUME TaskInv, [TaskNext]_taskVars
  PROVE  TaskInv'
<1>1. CASE UNCHANGED taskVars
  BY <1>1 DEF TaskInv, taskVars, taskStore
<1>2. ASSUME NEW p \in Procs, SetBlockers(p)
      PROVE  TaskInv'
  <2>1. TaskReturn(p) /\ task' = task
    BY <1>2 DEF SetBlockers
  <2>2. GrownTo(log, log')
    <3>1. log' = log => GrownTo(log, log')
      BY DEF GrownTo, TaskInv
    <3> QED BY <1>2, <3>1, SetBlockersEmits, EmissionKeeps
  <2> QED BY <2>1, <2>2, ReturnKeepsTasks
<1>3. ASSUME NEW p \in Procs, TaskCrash(p)
      PROVE  TaskInv'
  <2>1. TaskReturn(p) /\ task' = task /\ log' = log
    BY <1>3 DEF TaskCrash, taskStore
  <2>2. GrownTo(log, log')
    BY <2>1 DEF GrownTo, TaskInv
  <2> QED BY <2>1, <2>2, ReturnKeepsTasks
<1>4. ASSUME NEW p \in Procs,
             Fetch(p) \/ ProjectDelete(p) \/ ProjectInsert(p) \/ SaveOffset(p)
             \/ Rebuild(p) \/ ResetOffset(p)
      PROVE  TaskInv'
  <2>1. PICK label \in {"project", "insert", "save", "idle", "reset"} :
           taskPc' = [taskPc EXCEPT ![p] = label]
    BY <1>4 DEF Fetch, ProjectDelete, ProjectInsert, SaveOffset, Rebuild,
                ResetOffset, TaskGoto
  <2>2. UNCHANGED <<task, log, call, entity, fresh>>
    BY <1>4 DEF Fetch, ProjectDelete, ProjectInsert, SaveOffset, Rebuild,
                ResetOffset, taskStore
  <2> QED BY <2>1, <2>2 DEF TaskInv
<1>5. CASE TaskNext
  BY <1>5, <1>2, <1>3, <1>4, ProcessKeepsTasks, CreateKeepsTasks,
     ChangeKeepsTasks, RejectKeepsTasks, UpdateKeepsTasks DEF TaskNext
<1> QED BY <1>1, <1>5

LEMMA TaskInvLogs == TaskInv => StatusIsLogged
BY DEF TaskInv, Logged, StatusIsLogged

-----------------------------------------------------------------------------
(* What the edges up to an event are, from those up to the one before.      *)
Cut(E, e) == {x \in E : ~Takes(e, x)}

LEMMA EdgesGrow ==
  ASSUME NEW s, NEW n \in Nat
  PROVE  EdgesUpTo(s, n + 1) = Cut(EdgesUpTo(s, n), s[n + 1])
                                  \cup Put(s, n + 1)
<1>1. ASSUME NEW x
      PROVE  x \in EdgesUpTo(s, n + 1) <=>
                \E k \in 1 .. n + 1 :
                   x \in Put(s, k) /\ \A m \in k + 1 .. n + 1 : ~Takes(s[m], x)
  BY DEF EdgesUpTo
<1>2. ASSUME NEW x
      PROVE  x \in EdgesUpTo(s, n) <=>
                \E k \in 1 .. n :
                   x \in Put(s, k) /\ \A m \in k + 1 .. n : ~Takes(s[m], x)
  BY DEF EdgesUpTo
<1>3. ASSUME NEW x, NEW k \in 1 .. n
      PROVE  (\A m \in k + 1 .. n + 1 : ~Takes(s[m], x)) <=>
                (\A m \in k + 1 .. n : ~Takes(s[m], x)) /\ ~Takes(s[n + 1], x)
  <2>1. k + 1 .. n + 1 = (k + 1 .. n) \cup {n + 1}
    OBVIOUS
  <2> QED BY <2>1
<1>4. 1 .. n + 1 = (1 .. n) \cup {n + 1} /\ (n + 1) + 1 .. n + 1 = {}
  OBVIOUS
<1>5. ASSUME NEW x
      PROVE  x \in EdgesUpTo(s, n + 1) <=>
                \/ x \in EdgesUpTo(s, n) /\ ~Takes(s[n + 1], x)
                \/ x \in Put(s, n + 1)
  BY <1>1, <1>2, <1>3, <1>4
<1> QED BY <1>5 DEF Cut

LEMMA EdgesOfPrefix ==
  ASSUME NEW s, NEW t, NEW n \in Nat, \A k \in 1 .. n : t[k] = s[k]
  PROVE  EdgesUpTo(t, n) = EdgesUpTo(s, n)
<1>1. \A k \in 1 .. n : Put(t, k) = Put(s, k)
  BY DEF Put
<1>2. \A k \in 1 .. n : \A m \in k + 1 .. n : t[m] = s[m]
  OBVIOUS
<1>3. ASSUME NEW x
      PROVE  x \in EdgesUpTo(t, n) <=> x \in EdgesUpTo(s, n)
  BY <1>1, <1>2 DEF EdgesUpTo
<1> QED BY <1>3

(* An event replaces its own edges: applying it again adds nothing.         *)
LEMMA OwnEdges ==
  ASSUME NEW s \in Seq(TaskEvent), NEW n \in 1 .. Len(s)
  PROVE  /\ \A x \in Put(s, n) : Takes(s[n], x)
         /\ s[n].type # "blockers" => Put(s, n) = {}
         /\ s[n].type = "blockers" => Put(s, n) = NewEdges(s[n])
BY DEF Put, NewEdges, Takes

LEMMA EdgesHaveRels ==
  ASSUME NEW s \in Seq(TaskEvent), NEW n \in 0 .. Len(s),
         NEW x \in EdgesUpTo(s, n)
  PROVE  x.rel \in Rels
<1>1. PICK k \in 1 .. n : x \in Put(s, k)
  BY DEF EdgesUpTo
<1>2. k \in 1 .. Len(s) /\ s[k] \in TaskEvent
  OBVIOUS
<1>3. s[k].type = "blockers" /\ x \in NewEdges(s[k])
  BY <1>1 DEF Put
<1>4. s[k].rel \in Rels
  BY <1>2, <1>3 DEF TaskEvent
<1> QED BY <1>3, <1>4 DEF NewEdges

LEMMA ReplacedCuts ==
  ASSUME NEW E, edges = SetToBag(E), \A x \in E : x.rel \in Rels,
         NEW e \in TaskEvent
  PROVE  Without(edges, Replaced(e)) = SetToBag(Cut(E, e))
<1>1. DOMAIN edges = E /\ \A x \in E : edges[x] = 1
  BY DEF SetToBag
<1>2. E \ Replaced(e) = Cut(E, e)
  <2>1. CASE e.type = "status" /\ e.status = "done"
    BY <1>1, <2>1 DEF Replaced, EdgesOf, BagToSet, Cut, Takes
  <2>2. CASE e.type = "blockers"
    BY <1>1, <2>2 DEF Replaced, EdgesOf, BagToSet, Cut, Takes
  <2>3. CASE e.type # "blockers" /\ ~(e.type = "status" /\ e.status = "done")
    BY <1>1, <2>3 DEF Replaced, EdgesOf, BagToSet, Cut, Takes
  <2> QED BY <2>1, <2>2, <2>3
<1> QED BY <1>1, <1>2 DEF Without, SetToBag

LEMMA DisjointBagsAdd ==
  ASSUME NEW S, NEW T, \A x \in S : x \notin T
  PROVE  SetToBag(S) (+) SetToBag(T) = SetToBag(S \cup T)
BY DEF SetToBag, (+)

-----------------------------------------------------------------------------
(* The offset o names the n-th event of log L.                              *)
At(L, o, n) == IF n = 0 THEN o = None ELSE o = L[n]

Resolving == {"create", "status", "update", "blockers"}
Projecting == {"project", "insert", "save"}

(* Alone, a call finds its title as it left it, and only its own events are *)
(* younger than it.                                                         *)
SerialTasks ==
    /\ \A p, q \in Procs : taskPc[p] # "idle" /\ taskPc[q] # "idle" => p = q
    /\ \A p \in Procs : taskPc[p] \notin Resolving => fresh[p] = 0
    /\ \A p \in Procs : taskPc[p] = "create" =>
          \A i \in TaskIds : task[i] # None => task[i].title # call[p].title
    /\ \A i, j \in TaskIds :
          task[i] # None /\ task[j] # None /\ task[i].title = task[j].title
              => i = j

(* The event after the offset has been projected, or half so, or not at     *)
(* all; a rebuild that died between its deletes is excused.                 *)
Untouched(n) ==
    /\ edges = SetToBag(EdgesUpTo(log, n))
    /\ \A p \in Procs : taskPc[p] \notin {"insert", "save"}
Begun(n) ==
    /\ n < Len(log) /\ \A p \in Procs : n + 1 + fresh[p] <= Len(log)
    /\ \/ /\ edges = SetToBag(Cut(EdgesUpTo(log, n), log[n + 1]))
          /\ \A p \in Procs : taskPc[p] # "save"
       \/ /\ edges = SetToBag(EdgesUpTo(log, n + 1))
          /\ \A p \in Procs : taskPc[p] # "insert"
ProjectedTo(n) ==
    /\ At(log, offset, n)
    /\ \A p \in Procs :
          /\ n + fresh[p] <= Len(log)
          /\ taskPc[p] \in Projecting =>
                n < Len(log) /\ batch[p] = SubSeq(log, n + 1, Len(log))
          /\ taskPc[p] = "insert" => log[n + 1].type = "blockers"
          /\ taskPc[p] = "reset" => edges = EmptyBag
    /\ ~torn /\ (\A p \in Procs : taskPc[p] # "reset") =>
          Untouched(n) \/ Begun(n)
SerialEdges ==
    /\ batch \in [Procs -> Seq(TaskEvent)]
    /\ \E n \in 0 .. Len(log) : ProjectedTo(n)

LEMMA SerialTasksStep ==
  ASSUME TaskInv, ~overlap, SerialTasks, [TaskNext]_taskVars
  PROVE  SerialTasks'
<1> USE DEF SerialTasks, Resolving
<1>1. CASE UNCHANGED taskVars
  BY <1>1 DEF taskVars, taskStore
<1>2. ASSUME NEW p \in Procs, NEW x \in Extracted, ProcessTask(p, x)
      PROVE  SerialTasks'
  <2>1. /\ \A q \in Procs : taskPc[q] = "idle"
        /\ call' = [call EXCEPT ![p] = x] /\ task' = task /\ fresh' = fresh
    BY <1>2 DEF ProcessTask, MayStart, taskStore
  <2>2. \/ /\ taskPc' = [taskPc EXCEPT ![p] = "create"]
           /\ Known(x.title) = {}
        \/ taskPc' = [taskPc EXCEPT ![p] = "status"]
    BY <1>2 DEF ProcessTask, TaskGoto
  <2> QED BY <2>1, <2>2 DEF TaskInv, Known, Matches
<1>3. ASSUME NEW p \in Procs, CreateTask(p)
      PROVE  SerialTasks'
  <2>1. PICK i \in TaskIds :
           /\ task[i] = None
           /\ task' = [task EXCEPT ![i] =
                          [title |-> call[p].title,
                           status |-> FirstStatus(call[p].status)]]
    BY <1>3 DEF CreateTask
  <2>2. /\ taskPc[p] = "create" /\ Emitted(p)
        /\ taskPc' = [taskPc EXCEPT ![p] = "status"]
    BY <1>3 DEF CreateTask, TaskGoto
  <2>3. \A q \in Procs \ {p} : fresh'[q] = fresh[q]
    BY <2>2 DEF Emitted, TaskInv
  <2>4. /\ task'[i].title = call[p].title
        /\ \A j \in TaskIds \ {i} : task'[j] = task[j]
    BY <2>1 DEF TaskInv
  <2>5. /\ taskPc'[p] = "status"
        /\ \A q \in Procs \ {p} : taskPc'[q] = taskPc[q] /\ taskPc[q] = "idle"
    BY <2>2 DEF TaskInv
  <2> QED BY <2>2, <2>3, <2>4, <2>5
<1>4. ASSUME NEW p \in Procs, ChangeStatus(p) \/ RejectStatus(p)
      PROVE  SerialTasks'
  <2>1. PICK label \in {"update", "blockers"} :
           taskPc' = [taskPc EXCEPT ![p] = label]
    BY <1>4 DEF ChangeStatus, RejectStatus, TaskGoto
  <2>2. taskPc[p] = "status" /\ Emitted(p) /\ task' = task
    BY <1>4 DEF ChangeStatus, RejectStatus
  <2>3. \A q \in Procs \ {p} : fresh'[q] = fresh[q]
    BY <2>2 DEF Emitted, TaskInv
  <2> QED BY <2>1, <2>2, <2>3 DEF TaskInv
<1>5. ASSUME NEW p \in Procs, UpdateStatus(p)
      PROVE  SerialTasks'
  <2>1. /\ taskPc[p] = "update" /\ taskPc' = [taskPc EXCEPT ![p] = "blockers"]
        /\ fresh' = fresh
        /\ task' = [task EXCEPT ![entity[p].id] =
                       [task[entity[p].id] EXCEPT !.status = call[p].status]]
    BY <1>5 DEF UpdateStatus, TaskGoto
  <2>2. entity[p].id \in TaskIds /\ task[entity[p].id] \in TaskRow
    BY <2>1 DEF TaskInv
  <2>3. \A i \in TaskIds : task'[i] # None =>
           task[i] # None /\ task'[i].title = task[i].title
    <3> TAKE i \in TaskIds
    <3>1. CASE i = entity[p].id
      <4>1. task[i] # None
        BY <2>2, <3>1, TaskAssumption
      <4>2. task'[i] = [task[i] EXCEPT !.status = call[p].status]
        BY <2>1, <2>2, <3>1 DEF TaskInv
      <4>3. task'[i].title = task[i].title
        BY <2>2, <3>1, <4>2 DEF TaskRow
      <4> QED BY <4>1, <4>3
    <3>2. CASE i # entity[p].id
      BY <2>1, <3>2 DEF TaskInv
    <3> QED BY <3>1, <3>2
  <2> QED BY <2>1, <2>3 DEF TaskInv
<1>6. ASSUME NEW p \in Procs, SetBlockers(p) \/ TaskCrash(p)
      PROVE  SerialTasks'
  <2>1. /\ taskPc' = [taskPc EXCEPT ![p] = "idle"]
        /\ fresh' = [fresh EXCEPT ![p] = 0] /\ task' = task
        /\ \A q \in Procs \ {p} : call'[q] = call[q]
    BY <1>6 DEF SetBlockers, TaskCrash, TaskReturn, TaskGoto, taskStore, TaskInv
  <2> QED BY <2>1 DEF TaskInv
<1>7. ASSUME NEW p \in Procs,
             ProjectDelete(p) \/ ProjectInsert(p) \/ SaveOffset(p)
             \/ ResetOffset(p)
      PROVE  SerialTasks'
  <2>1. PICK label \in {"project", "insert", "save", "idle"} :
           taskPc' = [taskPc EXCEPT ![p] = label]
    BY <1>7 DEF ProjectDelete, ProjectInsert, SaveOffset, ResetOffset, TaskGoto
  <2>2. /\ UNCHANGED <<task, call, fresh>>
        /\ taskPc[p] \in {"project", "insert", "save", "reset"}
    BY <1>7 DEF ProjectDelete, ProjectInsert, SaveOffset, ResetOffset
  <2> QED BY <2>1, <2>2 DEF TaskInv
<1>8. ASSUME NEW p \in Procs, Fetch(p) \/ Rebuild(p)
      PROVE  SerialTasks'
  <2>1. PICK label \in {"project", "reset"} :
           taskPc' = [taskPc EXCEPT ![p] = label]
    BY <1>8 DEF Fetch, Rebuild, TaskGoto
  <2>2. /\ UNCHANGED <<task, call, fresh>>
        /\ \A q \in Procs : taskPc[q] = "idle"
    BY <1>8 DEF Fetch, Rebuild, MayStart, taskStore
  <2> QED BY <2>1, <2>2 DEF TaskInv
<1> QED BY <1>1, <1>2, <1>3, <1>4, <1>5, <1>6, <1>7, <1>8 DEF TaskNext

(* A call that emits, alone, adds events beyond the one half projected.     *)
LEMMA ResolvingKeepsEdges ==
  ASSUME TaskInv, SerialEdges, NEW p \in Procs,
         \A q \in Procs \ {p} : /\ taskPc[q] = "idle" /\ taskPc'[q] = "idle"
                               /\ fresh'[q] = fresh[q],
         taskPc[p] \in Resolving \cup {"idle"},
         taskPc'[p] \in Resolving \cup {"idle"},
         edges' = edges, offset' = offset, torn' = torn,
         batch' \in [Procs -> Seq(TaskEvent)],
         log' \in Seq(TaskEvent), fresh'[p] \in Nat,
         Len(log) <= Len(log'),
         Len(log) - fresh[p] <= Len(log') - fresh'[p],
         \A k \in 1 .. Len(log) - fresh[p] : log'[k] = log[k]
  PROVE  SerialEdges'
<1>0. /\ Len(log) \in Nat /\ Len(log') \in Nat
      /\ \A q \in Procs : fresh[q] \in Nat
  BY DEF TaskInv
<1>1. PICK n \in 0 .. Len(log) : ProjectedTo(n)
  BY DEF SerialEdges
<1>2. \A q \in Procs : taskPc[q] \notin Projecting \cup {"reset"}
                       /\ taskPc'[q] \notin Projecting \cup {"reset"}
  BY DEF Resolving, Projecting
<1>3. n \in 0 .. Len(log') /\ n \in 0 .. Len(log) - fresh[p]
  BY <1>0, <1>1 DEF ProjectedTo
<1>4. At(log', offset', n)
  BY <1>0, <1>1, <1>3 DEF ProjectedTo, At
<1>5. ASSUME NEW q \in Procs, NEW m \in Nat, m + fresh[q] <= Len(log)
      PROVE  m + fresh'[q] <= Len(log')
  <2>1. CASE q = p
    <3>1. m <= Len(log) - fresh[p]
      BY <1>0, <1>5, <2>1
    <3>2. fresh'[p] \in Nat /\ Len(log) - fresh[p] <= Len(log') - fresh'[p]
      OBVIOUS
    <3> QED BY <1>0, <2>1, <3>1, <3>2
  <2>2. CASE q # p
    <3>1. fresh'[q] = fresh[q] /\ Len(log) <= Len(log')
      BY <2>2
    <3> QED BY <1>0, <1>5, <3>1
  <2> QED BY <2>1, <2>2
<1>6. \A q \in Procs : n + fresh'[q] <= Len(log')
  BY <1>0, <1>1, <1>5 DEF ProjectedTo
<1>7. EdgesUpTo(log', n) = EdgesUpTo(log, n)
  <2>1. \A k \in 1 .. n : log'[k] = log[k]
    BY <1>0, <1>3
  <2> QED BY <2>1, <1>3, EdgesOfPrefix
<1>8. Untouched(n) => Untouched(n)'
  BY <1>2, <1>7 DEF Untouched, Projecting
<1>9. ASSUME Begun(n)
      PROVE  Begun(n)'
  <2>1. n + 1 + fresh[p] <= Len(log)
    BY <1>9 DEF Begun
  <2>2. n + 1 \in 1 .. Len(log) - fresh[p] /\ n < Len(log')
    BY <2>1, <1>0, <1>3
  <2>3. log'[n + 1] = log[n + 1]
    BY <2>2
  <2>4. EdgesUpTo(log', n + 1) = EdgesUpTo(log, n + 1)
    <3>1. \A k \in 1 .. n + 1 : log'[k] = log[k]
      BY <2>2, <1>0
    <3> QED BY <3>1, <1>3, EdgesOfPrefix
  <2>5. ASSUME NEW q \in Procs PROVE n + 1 + fresh'[q] <= Len(log')
    <3>1. n + 1 \in Nat /\ n + 1 + fresh[q] <= Len(log)
      BY <1>3, <1>9 DEF Begun
    <3> QED BY <1>5, <3>1
  <2> QED BY <1>2, <1>7, <1>9, <2>2, <2>3, <2>4, <2>5 DEF Begun, Projecting
<1>10. ~torn => Untouched(n) \/ Begun(n)
  BY <1>1, <1>2 DEF ProjectedTo
<1>11. ~torn' => Untouched(n)' \/ Begun(n)'
  BY <1>8, <1>9, <1>10
<1>12. ProjectedTo(n)'
  BY <1>2, <1>4, <1>6, <1>11 DEF ProjectedTo, Projecting
<1> QED BY <1>3, <1>12 DEF SerialEdges

LEMMA AtUnique ==
  ASSUME NEW L \in Seq(TaskEvent), Unrepeated(L), NEW o,
         NEW m \in 0 .. Len(L), NEW n \in 0 .. Len(L), At(L, o, m), At(L, o, n)
  PROVE  m = n
<1>1. \A k \in 1 .. Len(L) : L[k] # None
  BY TaskAssumption
<1> QED BY <1>1 DEF At, Unrepeated

LEMMA FetchKeepsEdges ==
  ASSUME TaskInv, ~overlap, SerialTasks, SerialEdges, NEW p \in Procs, Fetch(p)
  PROVE  SerialEdges'
<1>0. log \in Seq(TaskEvent) /\ Unrepeated(log) /\ Len(log) \in Nat
  BY DEF TaskInv
<1>1. PICK n \in 0 .. Len(log) : ProjectedTo(n)
  BY DEF SerialEdges
<1>2. /\ \A q \in Procs : taskPc[q] = "idle"
      /\ batch' = [batch EXCEPT ![p] = Pending] /\ Pending # <<>>
      /\ taskPc' = [taskPc EXCEPT ![p] = "project"]
      /\ UNCHANGED <<log, edges, offset, fresh, torn>>
  BY DEF Fetch, MayStart, TaskGoto, taskStore
<1>3. Pending = SubSeq(log, n + 1, Len(log))
  <2>1. CASE offset = None
    <3>1. At(log, offset, 0)
      BY <2>1 DEF At
    <3>2. n = 0
      BY <3>1, <1>0, <1>1, AtUnique DEF ProjectedTo
    <3>3. SubSeq(log, 1, Len(log)) = log
      BY <1>0, SubSeqFull
    <3> QED BY <2>1, <3>2, <3>3 DEF Pending
  <2>2. CASE offset # None
    <3>1. n \in DOMAIN log /\ log[n] = offset
      BY <1>0, <1>1, <2>2 DEF ProjectedTo, At
    <3>2. \A m \in DOMAIN log : log[m] = offset => m = n
      BY <1>0, <3>1 DEF Unrepeated
    <3>3. (CHOOSE m \in DOMAIN log : log[m] = offset) = n
      BY <3>1, <3>2
    <3> QED BY <2>2, <3>3 DEF Pending
  <2> QED BY <2>1, <2>2
<1>4. n < Len(log)
  <2>1. n + 1 > Len(log) => SubSeq(log, n + 1, Len(log)) = <<>>
    BY <1>0, SubSeqEmpty
  <2> QED BY <1>0, <1>2, <1>3, <2>1
<1>5. Pending \in Seq(TaskEvent)
  <2>1. \A k \in n + 1 .. Len(log) : log[k] \in TaskEvent
    BY <1>0
  <2>2. n + 1 \in Int /\ Len(log) \in Int
    BY <1>0
  <2> QED BY <1>3, <2>1, <2>2, SubSeqProperties
<1>6. batch' \in [Procs -> Seq(TaskEvent)] /\ batch'[p] = Pending
  BY <1>2, <1>5 DEF SerialEdges
<1>7. /\ taskPc'[p] = "project"
      /\ \A q \in Procs \ {p} : taskPc'[q] = "idle"
  BY <1>2 DEF TaskInv
<1>8. /\ Untouched(n) => Untouched(n)'
      /\ Begun(n) => Begun(n)'
  BY <1>2, <1>7 DEF Untouched, Begun
<1>9. ProjectedTo(n)'
  <2>1. At(log, offset, n)' /\ \A q \in Procs : n + fresh'[q] <= Len(log')
    BY <1>1, <1>2 DEF ProjectedTo
  <2>2. \A q \in Procs : taskPc'[q] \in Projecting =>
           n < Len(log') /\ batch'[q] = SubSeq(log', n + 1, Len(log'))
    BY <1>2, <1>3, <1>4, <1>6, <1>7 DEF Projecting
  <2>3. ~torn' => Untouched(n)' \/ Begun(n)'
    BY <1>1, <1>2, <1>8 DEF ProjectedTo
  <2> QED BY <1>7, <2>1, <2>2, <2>3 DEF ProjectedTo
<1> QED BY <1>2, <1>6, <1>9 DEF SerialEdges

(* The one process that projects is at the event after the offset.          *)
LEMMA ProjectingFacts ==
  ASSUME TaskInv, ~overlap, SerialTasks, NEW p \in Procs,
         taskPc[p] \in Projecting, NEW n \in 0 .. Len(log), ProjectedTo(n)
  PROVE  /\ n \in Nat /\ n + 1 \in 1 .. Len(log) /\ n < Len(log)
         /\ log[n + 1] \in TaskEvent
         /\ batch[p] = SubSeq(log, n + 1, Len(log))
         /\ Head(batch[p]) = log[n + 1]
         /\ Tail(batch[p]) = SubSeq(log, n + 2, Len(log))
         /\ \A q \in Procs : fresh[q] = 0
         /\ \A q \in Procs \ {p} : taskPc[q] = "idle"
<1>0. log \in Seq(TaskEvent) /\ Len(log) \in Nat
  BY DEF TaskInv
<1>1. n < Len(log) /\ batch[p] = SubSeq(log, n + 1, Len(log))
  BY DEF ProjectedTo
<1>2. n \in Nat /\ n + 1 \in 1 .. Len(log) /\ Len(log) \in n + 1 .. Len(log)
      /\ (n + 1) + 1 = n + 2
  BY <1>0, <1>1
<1>3. log[n + 1] \in TaskEvent
  BY <1>0, <1>2
<1>4. /\ Head(SubSeq(log, n + 1, Len(log))) = log[n + 1]
      /\ Tail(SubSeq(log, n + 1, Len(log))) = SubSeq(log, (n + 1) + 1, Len(log))
  BY <1>0, <1>2, HeadTailOfSubSeq
<1>5. \A q \in Procs \ {p} : taskPc[q] = "idle"
  BY DEF SerialTasks, Projecting
<1>6. \A q \in Procs : fresh[q] = 0
  BY <1>5 DEF SerialTasks, Projecting, Resolving
<1> QED BY <1>1, <1>2, <1>3, <1>4, <1>5, <1>6

LEMMA DeleteKeepsEdges ==
  ASSUME TaskInv, ~overlap, SerialTasks, SerialEdges, NEW p \in Procs,
         ProjectDelete(p)
  PROVE  SerialEdges'
<1>1. PICK n \in 0 .. Len(log) : ProjectedTo(n)
  BY DEF SerialEdges
<1> DEFINE e == log[n + 1]  E == EdgesUpTo(log, n)
<1>2. /\ taskPc[p] = "project"
      /\ UNCHANGED <<log, offset, fresh, batch, torn>>
      /\ edges' = Without(edges, Replaced(Head(batch[p])))
      /\ taskPc' = [taskPc EXCEPT
                       ![p] = IF Head(batch[p]).type = "blockers"
                              THEN "insert" ELSE "save"]
  BY DEF ProjectDelete, TaskGoto
<1>3. /\ n \in Nat /\ n + 1 \in 1 .. Len(log) /\ n < Len(log)
      /\ e \in TaskEvent
      /\ batch[p] = SubSeq(log, n + 1, Len(log)) /\ Head(batch[p]) = e
      /\ \A q \in Procs : fresh[q] = 0
      /\ \A q \in Procs \ {p} : taskPc[q] = "idle"
  BY <1>1, <1>2, ProjectingFacts DEF Projecting
<1>4. log \in Seq(TaskEvent) /\ Len(log) \in Nat
  BY DEF TaskInv
<1>5. EdgesUpTo(log, n + 1) = Cut(E, e) \cup Put(log, n + 1)
  BY <1>3, EdgesGrow
<1>6. /\ \A x \in Put(log, n + 1) : Takes(e, x)
      /\ e.type # "blockers" => Put(log, n + 1) = {}
  BY <1>3, <1>4, OwnEdges
<1>7. /\ \A x \in E : x.rel \in Rels
      /\ \A x \in EdgesUpTo(log, n + 1) : x.rel \in Rels
  BY <1>3, <1>4, EdgesHaveRels
<1> HIDE DEF e, E
<1>8. Cut(Cut(E, e), e) = Cut(E, e)
      /\ Cut(EdgesUpTo(log, n + 1), e) = Cut(E, e)
  BY <1>5, <1>6 DEF Cut
<1>9. ~torn => edges' = SetToBag(Cut(E, e))
  <2> SUFFICES ASSUME ~torn PROVE edges' = SetToBag(Cut(E, e))
    OBVIOUS
  <2>1. PICK F \in {E, Cut(E, e), EdgesUpTo(log, n + 1)} :
           edges = SetToBag(F)
    <3>1. \A q \in Procs : taskPc[q] # "reset"
      BY <1>2, <1>3
    <3> QED BY <1>1, <3>1 DEF ProjectedTo, Untouched, Begun, E, e
  <2>2. \A x \in F : x.rel \in Rels
    BY <1>7 DEF Cut
  <2>3. Cut(F, e) = Cut(E, e)
    BY <1>8
  <2> QED BY <1>2, <1>3, <2>1, <2>2, <2>3, ReplacedCuts
<1>10. /\ taskPc'[p] = IF e.type = "blockers" THEN "insert" ELSE "save"
       /\ \A q \in Procs \ {p} : taskPc'[q] = "idle"
  BY <1>2, <1>3 DEF TaskInv
<1>11. ~torn' => Begun(n)'
  <2> SUFFICES ASSUME ~torn PROVE Begun(n)'
    BY <1>2
  <2>1. edges' = SetToBag(Cut(EdgesUpTo(log', n), log'[n + 1]))
    BY <1>2, <1>9 DEF E, e
  <2>2. e.type # "blockers" => edges' = SetToBag(EdgesUpTo(log', n + 1))
    <3>1. e.type # "blockers" => EdgesUpTo(log, n + 1) = Cut(E, e)
      BY <1>5, <1>6
    <3> QED BY <1>2, <1>9, <3>1
  <2>3. n < Len(log') /\ \A q \in Procs : n + 1 + fresh'[q] <= Len(log')
    BY <1>2, <1>3, <1>4
  <2> QED BY <1>10, <2>1, <2>2, <2>3 DEF Begun
<1>12. ProjectedTo(n)'
  <2>1. At(log, offset, n)' /\ \A q \in Procs : n + fresh'[q] <= Len(log')
    BY <1>1, <1>2 DEF ProjectedTo
  <2>2. \A q \in Procs : taskPc'[q] \in Projecting =>
           n < Len(log') /\ batch'[q] = SubSeq(log', n + 1, Len(log'))
    BY <1>2, <1>3, <1>10 DEF Projecting
  <2>3. \A q \in Procs : /\ taskPc'[q] = "insert" => e.type = "blockers"
                         /\ taskPc'[q] # "reset"
    BY <1>10
  <2> QED BY <1>2, <1>11, <2>1, <2>2, <2>3 DEF ProjectedTo, e
<1> QED BY <1>1, <1>2, <1>12 DEF SerialEdges

LEMMA InsertKeepsEdges ==
  ASSUME TaskInv, ~overlap, SerialTasks, SerialEdges, NEW p \in Procs,
         ProjectInsert(p)
  PROVE  SerialEdges'
<1>1. PICK n \in 0 .. Len(log) : ProjectedTo(n)
  BY DEF SerialEdges
<1> DEFINE e == log[n + 1]  E == EdgesUpTo(log, n)
<1>2. /\ taskPc[p] = "insert"
      /\ UNCHANGED <<log, offset, fresh, batch, torn>>
      /\ edges' = edges (+) SetToBag(NewEdges(Head(batch[p])))
      /\ taskPc' = [taskPc EXCEPT ![p] = "save"]
  BY DEF ProjectInsert, TaskGoto
<1>3. /\ n \in Nat /\ n + 1 \in 1 .. Len(log) /\ n < Len(log)
      /\ batch[p] = SubSeq(log, n + 1, Len(log)) /\ Head(batch[p]) = e
      /\ \A q \in Procs : fresh[q] = 0
      /\ \A q \in Procs \ {p} : taskPc[q] = "idle"
  BY <1>1, <1>2, ProjectingFacts DEF Projecting
<1>4. log \in Seq(TaskEvent) /\ Len(log) \in Nat /\ e.type = "blockers"
  BY <1>1, <1>2 DEF TaskInv, ProjectedTo
<1>5. EdgesUpTo(log, n + 1) = Cut(E, e) \cup NewEdges(e)
  BY <1>3, <1>4, EdgesGrow, OwnEdges
<1>6. \A x \in Cut(E, e) : x \notin NewEdges(e)
  <2>1. \A x \in NewEdges(e) : Takes(e, x)
    BY <1>3, <1>4, OwnEdges
  <2> QED BY <2>1 DEF Cut
<1> HIDE DEF e, E
<1>7. ~torn => edges' = SetToBag(EdgesUpTo(log, n + 1))
  <2> SUFFICES ASSUME ~torn PROVE edges' = SetToBag(EdgesUpTo(log, n + 1))
    OBVIOUS
  <2>1. edges = SetToBag(Cut(E, e))
    <3>1. \A q \in Procs : taskPc[q] # "reset"
      BY <1>2, <1>3
    <3> QED BY <1>1, <1>2, <3>1 DEF ProjectedTo, Untouched, Begun, E, e
  <2> QED BY <1>2, <1>3, <1>5, <1>6, <2>1, DisjointBagsAdd
<1>8. /\ taskPc'[p] = "save" /\ \A q \in Procs \ {p} : taskPc'[q] = "idle"
  BY <1>2, <1>3 DEF TaskInv
<1>9. ~torn' => Begun(n)'
  <2>1. n < Len(log') /\ \A q \in Procs : n + 1 + fresh'[q] <= Len(log')
    BY <1>2, <1>3, <1>4
  <2> QED BY <1>2, <1>7, <1>8, <2>1 DEF Begun
<1>10. ProjectedTo(n)'
  <2>1. At(log, offset, n)' /\ \A q \in Procs : n + fresh'[q] <= Len(log')
    BY <1>1, <1>2 DEF ProjectedTo
  <2>2. \A q \in Procs : taskPc'[q] \in Projecting =>
           n < Len(log') /\ batch'[q] = SubSeq(log', n + 1, Len(log'))
    BY <1>2, <1>3, <1>8 DEF Projecting
  <2>3. \A q \in Procs : taskPc'[q] \notin {"insert", "reset"}
    BY <1>8
  <2> QED BY <1>9, <2>1, <2>2, <2>3 DEF ProjectedTo
<1> QED BY <1>1, <1>2, <1>10 DEF SerialEdges

LEMMA SaveKeepsEdges ==
  ASSUME TaskInv, ~overlap, SerialTasks, SerialEdges, NEW p \in Procs,
         SaveOffset(p)
  PROVE  SerialEdges'
<1>1. PICK n \in 0 .. Len(log) : ProjectedTo(n)
  BY DEF SerialEdges
<1>2. /\ taskPc[p] = "save"
      /\ UNCHANGED <<log, edges, fresh, torn>>
      /\ offset' = Head(batch[p])
      /\ batch' = [batch EXCEPT ![p] = Tail(batch[p])]
      /\ taskPc' = [taskPc EXCEPT ![p] = IF Tail(batch[p]) = <<>> THEN "idle"
                                         ELSE "project"]
  BY DEF SaveOffset, TaskGoto
<1>3. /\ n \in Nat /\ n + 1 \in 1 .. Len(log) /\ n < Len(log)
      /\ Head(batch[p]) = log[n + 1]
      /\ Tail(batch[p]) = SubSeq(log, n + 2, Len(log))
      /\ \A q \in Procs : fresh[q] = 0
      /\ \A q \in Procs \ {p} : taskPc[q] = "idle"
  BY <1>1, <1>2, ProjectingFacts DEF Projecting
<1>4. log \in Seq(TaskEvent) /\ Len(log) \in Nat
  BY DEF TaskInv
<1> DEFINE m == n + 1
<1>5. m \in 1 .. Len(log') /\ m \in Nat /\ m # 0 /\ n + 2 = m + 1
  BY <1>2, <1>3, <1>4
<1>6. At(log, offset, m)'
  BY <1>2, <1>3, <1>5 DEF At
<1>7. SubSeq(log, n + 2, Len(log)) \in Seq(TaskEvent)
  <2>1. /\ n + 2 \in Int /\ Len(log) \in Int
        /\ \A k \in n + 2 .. Len(log) : log[k] \in TaskEvent
    BY <1>3, <1>4
  <2> QED BY <2>1, SubSeqProperties
<1>8. /\ batch' \in [Procs -> Seq(TaskEvent)]
      /\ batch'[p] = SubSeq(log', m + 1, Len(log'))
  BY <1>2, <1>3, <1>5, <1>7 DEF SerialEdges
<1>9. /\ taskPc'[p] \in {"idle", "project"}
      /\ taskPc'[p] = "project" => Tail(batch[p]) # <<>>
      /\ \A q \in Procs \ {p} : taskPc'[q] = "idle"
  BY <1>2, <1>3 DEF TaskInv
<1>10. taskPc'[p] = "project" => m < Len(log')
  <2>1. n + 2 > Len(log) => SubSeq(log, n + 2, Len(log)) = <<>>
    BY <1>3, <1>4, SubSeqEmpty
  <2> QED BY <1>2, <1>3, <1>4, <1>9, <2>1
<1>11. ~torn' => Untouched(m)'
  <2> SUFFICES ASSUME ~torn PROVE Untouched(m)'
    BY <1>2
  <2>1. \A q \in Procs : taskPc[q] # "reset"
    BY <1>2, <1>3
  <2>2. edges = SetToBag(EdgesUpTo(log, m))
    BY <1>1, <1>2, <2>1 DEF ProjectedTo, Untouched, Begun
  <2>3. \A q \in Procs : taskPc'[q] \notin {"insert", "save"}
    BY <1>9
  <2> QED BY <1>2, <2>2, <2>3 DEF Untouched
<1>12. ProjectedTo(m)'
  <2>1. \A q \in Procs : m + fresh'[q] <= Len(log')
    BY <1>2, <1>3, <1>4, <1>5
  <2>2. \A q \in Procs : taskPc'[q] \in Projecting =>
           m < Len(log') /\ batch'[q] = SubSeq(log', m + 1, Len(log'))
    BY <1>8, <1>9, <1>10 DEF Projecting
  <2>3. \A q \in Procs : taskPc'[q] \notin {"insert", "reset"}
    BY <1>9
  <2> HIDE DEF m
  <2> QED BY <1>6, <1>11, <2>1, <2>2, <2>3 DEF ProjectedTo
<1> HIDE DEF m
<1> QED BY <1>5, <1>8, <1>12 DEF SerialEdges

LEMMA RebuildKeepsEdges ==
  ASSUME TaskInv, ~overlap, SerialTasks, SerialEdges, NEW p \in Procs,
         Rebuild(p) \/ ResetOffset(p)
  PROVE  SerialEdges'
<1>0. Len(log) \in Nat /\ 0 \in 0 .. Len(log)
  BY DEF TaskInv
<1>1. PICK n \in 0 .. Len(log) : ProjectedTo(n)
  BY DEF SerialEdges
<1>2. CASE Rebuild(p)
  <2>1. /\ \A q \in Procs : taskPc[q] = "idle"
        /\ UNCHANGED <<log, offset, fresh, batch, torn>>
        /\ edges' = EmptyBag
        /\ taskPc' = [taskPc EXCEPT ![p] = "reset"]
    BY <1>2 DEF Rebuild, MayStart, TaskGoto
  <2>2. /\ taskPc'[p] = "reset" /\ \A q \in Procs \ {p} : taskPc'[q] = "idle"
    BY <2>1 DEF TaskInv
  <2>3. ProjectedTo(n)'
    BY <1>1, <2>1, <2>2 DEF ProjectedTo, Projecting
  <2> QED BY <1>1, <2>1, <2>3 DEF SerialEdges
<1>3. CASE ResetOffset(p)
  <2>1. /\ taskPc[p] = "reset" /\ offset' = None
        /\ UNCHANGED <<log, edges, fresh, batch>>
        /\ taskPc' = [taskPc EXCEPT ![p] = "idle"]
    BY <1>3 DEF ResetOffset, TaskGoto
  <2>2. \A q \in Procs : taskPc'[q] = "idle" /\ fresh'[q] <= Len(log')
    BY <2>1 DEF TaskInv, SerialTasks
  <2>3. EdgesUpTo(log, 0) = {}
    BY DEF EdgesUpTo
  <2>4. edges' = SetToBag(EdgesUpTo(log', 0))
    BY <1>1, <2>1, <2>3 DEF ProjectedTo, EmptyBag
  <2>5. \A q \in Procs : 0 + fresh'[q] <= Len(log')
    BY <2>1, <2>2 DEF TaskInv
  <2>6. ProjectedTo(0)'
    BY <2>1, <2>2, <2>4, <2>5 DEF ProjectedTo, At, Untouched, Projecting
  <2> QED BY <1>0, <2>1, <2>6 DEF SerialEdges
<1> QED BY <1>2, <1>3

LEMMA CrashKeepsEdges ==
  ASSUME TaskInv, ~overlap, SerialTasks, SerialEdges, NEW p \in Procs,
         TaskCrash(p)
  PROVE  SerialEdges'
<1>1. PICK n \in 0 .. Len(log) : ProjectedTo(n)
  BY DEF SerialEdges
<1>2. /\ taskPc[p] # "idle" /\ torn' = (torn \/ taskPc[p] = "reset")
      /\ UNCHANGED <<log, edges, offset>>
      /\ taskPc' = [taskPc EXCEPT ![p] = "idle"]
      /\ fresh' = [fresh EXCEPT ![p] = 0]
      /\ batch' = [batch EXCEPT ![p] = <<>>]
  BY DEF TaskCrash, TaskReturn, TaskGoto, taskStore
<1>3. \A q \in Procs : /\ taskPc'[q] = "idle"
                       /\ q # p => taskPc[q] = "idle"
                       /\ fresh[q] \in Nat /\ fresh'[q] \in Nat
                       /\ fresh'[q] <= fresh[q]
  BY <1>2 DEF TaskInv, SerialTasks
<1>4. batch' \in [Procs -> Seq(TaskEvent)]
  BY <1>2 DEF SerialEdges
<1>5. Len(log) \in Nat /\ n \in Nat
  BY <1>1 DEF TaskInv
<1>6. \A q \in Procs : n + fresh'[q] <= Len(log')
  BY <1>1, <1>2, <1>3, <1>5 DEF ProjectedTo
<1>7. ~torn' => /\ ~torn /\ \A q \in Procs : taskPc[q] # "reset"
  BY <1>2, <1>3
<1>8. Untouched(n) => Untouched(n)'
  BY <1>2, <1>3 DEF Untouched
<1>9. ASSUME Begun(n) PROVE Begun(n)'
  <2>1. \A q \in Procs : n + 1 + fresh'[q] <= Len(log')
    BY <1>2, <1>3, <1>5, <1>9 DEF Begun
  <2> QED BY <1>2, <1>3, <1>9, <2>1 DEF Begun
<1>10. ~torn' => Untouched(n)' \/ Begun(n)'
  BY <1>1, <1>7, <1>8, <1>9 DEF ProjectedTo
<1>11. ProjectedTo(n)'
  <2>1. At(log, offset, n)'
    BY <1>1, <1>2 DEF ProjectedTo
  <2> QED BY <1>3, <1>6, <1>10, <2>1 DEF ProjectedTo, Projecting
<1> QED BY <1>1, <1>2, <1>4, <1>11 DEF SerialEdges

LEMMA SerialEdgesStep ==
  ASSUME TaskInv, ~overlap, SerialTasks, SerialEdges, [TaskNext]_taskVars
  PROVE  SerialEdges'
<1>1. CASE UNCHANGED taskVars
  BY <1>1 DEF taskVars, taskStore, SerialEdges, ProjectedTo, Untouched, Begun
<1>0. /\ Len(log) \in Nat /\ log \in Seq(TaskEvent)
      /\ batch \in [Procs -> Seq(TaskEvent)] /\ fresh \in [Procs -> Nat]
  BY DEF TaskInv, SerialEdges
<1>2. ASSUME NEW p \in Procs, NEW x \in Extracted, ProcessTask(p, x)
      PROVE  SerialEdges'
  <2>1. /\ \A q \in Procs : taskPc[q] = "idle"
        /\ UNCHANGED <<log, edges, offset, torn, batch, fresh>>
    BY <1>2 DEF ProcessTask, MayStart, taskStore
  <2>2. PICK label \in {"create", "status"} :
           taskPc' = [taskPc EXCEPT ![p] = label]
    BY <1>2 DEF ProcessTask, TaskGoto
  <2>3. /\ taskPc'[p] \in Resolving
        /\ \A q \in Procs \ {p} : taskPc'[q] = "idle"
    BY <2>1, <2>2 DEF TaskInv, Resolving
  <2>4. /\ taskPc[p] \in Resolving \cup {"idle"}
        /\ taskPc'[p] \in Resolving \cup {"idle"}
        /\ \A q \in Procs \ {p} : /\ taskPc[q] = "idle" /\ taskPc'[q] = "idle"
                                /\ fresh'[q] = fresh[q]
    BY <2>1, <2>3
  <2>5. /\ fresh'[p] \in Nat /\ Len(log) <= Len(log')
        /\ Len(log) - fresh[p] <= Len(log') - fresh'[p]
        /\ \A k \in 1 .. Len(log) - fresh[p] : log'[k] = log[k]
        /\ batch' \in [Procs -> Seq(TaskEvent)] /\ log' \in Seq(TaskEvent)
    BY <1>0, <2>1
  <2> QED BY <2>1, <2>4, <2>5, ResolvingKeepsEdges
<1>3. ASSUME NEW p \in Procs,
             CreateTask(p) \/ ChangeStatus(p) \/ RejectStatus(p)
      PROVE  SerialEdges'
  <2>1. /\ taskPc[p] \in Resolving /\ Emitted(p)
        /\ UNCHANGED <<edges, offset, torn, batch>>
        /\ \E label \in Resolving : taskPc' = [taskPc EXCEPT ![p] = label]
    BY <1>3 DEF CreateTask, ChangeStatus, RejectStatus, TaskGoto, Resolving
  <2>2. /\ taskPc'[p] \in Resolving
        /\ \A q \in Procs \ {p} : taskPc[q] = "idle" /\ taskPc'[q] = "idle"
    BY <2>1 DEF TaskInv, SerialTasks, Resolving
  <2>3. log' = log \/ \E e \in TaskEvent : Emit(p, e)
    <3>1. CASE CreateTask(p)
      <4>1. PICK i \in TaskIds :
               Emit(p, [type |-> "created", task |-> i,
                        status |-> FirstStatus(call[p].status)])
        BY <3>1 DEF CreateTask
      <4>2. call[p] \in Extracted
        BY <3>1 DEF CreateTask, TaskInv
      <4>3. FirstStatus(call[p].status) \in Statuses
        BY <4>2, TaskAssumption DEF FirstStatus, Statuses
      <4>4. [type |-> "created", task |-> i,
             status |-> FirstStatus(call[p].status)] \in TaskEvent
        BY <4>3 DEF TaskEvent
      <4> QED BY <4>1, <4>4
    <3>2. CASE ChangeStatus(p)
      <4>1. /\ taskPc[p] = "status" /\ Moves(p)
            /\ Emit(p, StatusEvent(p, "status"))
        BY <3>2 DEF ChangeStatus
      <4>2. call[p].status \in Statuses
        BY <4>1 DEF Moves, Valid, Statuses
      <4> QED BY <4>1, <4>2, StatusEventHasType
    <3>3. CASE RejectStatus(p)
      <4>1. /\ taskPc[p] = "status"
            /\ IF call[p].status \in {None, entity[p].status} THEN log' = log
               ELSE Emit(p, StatusEvent(p, "rejected"))
        BY <3>3 DEF RejectStatus
      <4>2. call[p].status \in Statuses \cup {None}
        BY <4>1, TaskAssumption DEF TaskInv
      <4> QED BY <4>1, <4>2, StatusEventHasType
    <3> QED BY <1>3, <3>1, <3>2, <3>3
  <2>4. GrownTo(log, log') /\ \A k \in 1 .. Len(log) - fresh[p] :
                                 log'[k] = log[k]
    <3>1. log' = log => GrownTo(log, log')
      BY DEF GrownTo, TaskInv
    <3> QED BY <2>3, <3>1, EmissionKeeps
  <2>5. /\ fresh' \in [Procs -> Nat]
        /\ \A q \in Procs \ {p} : fresh'[q] = fresh[q]
        /\ Len(log') - fresh'[p] = Len(log) - fresh[p]
    BY <2>1, <2>4, EmittedCounts
  <2>6. /\ log' \in Seq(TaskEvent) /\ Len(log) <= Len(log')
        /\ Len(log) - fresh[p] <= Len(log') - fresh'[p]
        /\ fresh'[p] \in Nat
    BY <1>0, <2>4, <2>5 DEF GrownTo
  <2> QED BY <1>0, <2>1, <2>2, <2>4, <2>5, <2>6, ResolvingKeepsEdges
<1>4. ASSUME NEW p \in Procs, UpdateStatus(p)
      PROVE  SerialEdges'
  <2>1. /\ taskPc[p] = "update" /\ taskPc' = [taskPc EXCEPT ![p] = "blockers"]
        /\ UNCHANGED <<log, edges, offset, torn, batch, fresh>>
    BY <1>4 DEF UpdateStatus, TaskGoto
  <2>2. /\ taskPc[p] \in Resolving /\ taskPc'[p] \in Resolving
        /\ \A q \in Procs \ {p} : taskPc[q] = "idle" /\ taskPc'[q] = "idle"
    BY <2>1 DEF TaskInv, SerialTasks, Resolving
  <2>3. /\ log' \in Seq(TaskEvent) /\ Len(log) \in Nat
        /\ fresh \in [Procs -> Nat] /\ fresh[p] \in Nat
    BY <2>1 DEF TaskInv
  <2>4. batch' \in [Procs -> Seq(TaskEvent)]
    BY <2>1 DEF SerialEdges
  <2>5. /\ taskPc[p] \in Resolving \cup {"idle"}
        /\ taskPc'[p] \in Resolving \cup {"idle"}
        /\ \A q \in Procs \ {p} : /\ taskPc[q] = "idle" /\ taskPc'[q] = "idle"
                                /\ fresh'[q] = fresh[q]
    BY <2>1, <2>2
  <2>6. /\ fresh'[p] \in Nat /\ Len(log) <= Len(log')
        /\ Len(log) - fresh[p] <= Len(log') - fresh'[p]
        /\ \A k \in 1 .. Len(log) - fresh[p] : log'[k] = log[k]
    BY <2>1, <2>3
  <2> QED BY <2>1, <2>3, <2>4, <2>5, <2>6, ResolvingKeepsEdges
<1>5. ASSUME NEW p \in Procs, SetBlockers(p)
      PROVE  SerialEdges'
  <2>1. /\ taskPc[p] = "blockers" /\ taskPc' = [taskPc EXCEPT ![p] = "idle"]
        /\ fresh' = [fresh EXCEPT ![p] = 0]
        /\ batch' = [batch EXCEPT ![p] = <<>>]
        /\ UNCHANGED <<edges, offset, torn>>
    BY <1>5 DEF SetBlockers, TaskReturn, TaskGoto
  <2>2. /\ taskPc[p] \in Resolving /\ taskPc'[p] = "idle"
        /\ \A q \in Procs \ {p} : taskPc[q] = "idle" /\ taskPc'[q] = "idle"
    BY <2>1 DEF TaskInv, SerialTasks, Resolving
  <2>3. GrownTo(log, log') /\ \A k \in 1 .. Len(log) - fresh[p] :
                                 log'[k] = log[k]
    <3>1. log' = log => GrownTo(log, log')
      BY DEF GrownTo, TaskInv
    <3> QED BY <1>5, <3>1, SetBlockersEmits, EmissionKeeps
  <2>4. batch' \in [Procs -> Seq(TaskEvent)]
    BY <1>0, <2>1
  <2>5. /\ log' \in Seq(TaskEvent) /\ Len(log) <= Len(log')
        /\ Len(log) - fresh[p] <= Len(log') - fresh'[p]
        /\ fresh'[p] \in Nat
        /\ \A q \in Procs \ {p} : fresh'[q] = fresh[q]
    BY <1>0, <2>1, <2>3 DEF GrownTo
  <2> QED BY <2>1, <2>2, <2>3, <2>4, <2>5, ResolvingKeepsEdges
<1>6. CASE TaskNext
  BY <1>6, <1>2, <1>3, <1>4, <1>5, FetchKeepsEdges, DeleteKeepsEdges,
     InsertKeepsEdges, SaveKeepsEdges, RebuildKeepsEdges, CrashKeepsEdges
     DEF TaskNext
<1> QED BY <1>1, <1>6

(* A projector that has caught up has projected the last event.             *)
LEMMA CaughtUp ==
  ASSUME TaskInv, ~overlap => SerialTasks /\ SerialEdges
  PROVE  EdgesFollowLog
<1> SUFFICES ASSUME ~overlap, ~torn, \A p \in Procs : taskPc[p] = "idle",
                    log # <<>>, offset = Last(log)
             PROVE  edges = SetToBag(EdgesUpTo(log, Len(log)))
  BY DEF EdgesFollowLog
<1>1. PICK n \in 0 .. Len(log) : ProjectedTo(n)
  BY DEF SerialEdges
<1>2. log \in Seq(TaskEvent) /\ Unrepeated(log) /\ Len(log) \in Nat \ {0}
  BY DEF TaskInv
<1>3. Len(log) \in 0 .. Len(log) /\ At(log, offset, Len(log))
  BY <1>2 DEF At, Last
<1>4. n = Len(log)
  BY <1>1, <1>2, <1>3, AtUnique DEF ProjectedTo
<1> QED BY <1>1, <1>2, <1>4 DEF ProjectedTo, Untouched, Begun

LEMMA OneEntityPerTitle ==
  ASSUME ~overlap => SerialTasks
  PROVE  OneTaskPerTitle
<1> SUFFICES ASSUME SerialTasks, NEW title \in Titles
             PROVE  Cardinality(Matches(title)) <= 1
  BY DEF OneTaskPerTitle
<1>1. CASE Matches(title) = {}
  BY <1>1, FS_EmptySet
<1>2. CASE Matches(title) # {}
  <2>1. PICK i \in Matches(title) : TRUE
    BY <1>2
  <2>2. Matches(title) = {i}
    BY <2>1 DEF Matches, SerialTasks
  <2> QED BY <2>2, FS_Singleton
<1> QED BY <1>1, <1>2

(* The entities, the titles and the edges are what the log says, for any    *)
(* number of tasks and processes: a status has its event whatever dies or   *)
(* overlaps; alone, a title has one task, and a projector that has caught   *)
(* up has the edges of the last events about blockers.                      *)
THEOREM TasksAreInTheLog == TaskSpec => []TasksFollowLog
<1> DEFINE I == TaskInv /\ (~overlap => SerialTasks /\ SerialEdges)
<1>1. TaskInit => I
  <2> SUFFICES ASSUME TaskInit PROVE I
    OBVIOUS
  <2>1. TaskInv /\ SerialTasks
    BY TaskInitial DEF TaskInit, SerialTasks, Resolving
  <2>2. /\ Len(log) = 0 /\ offset = None /\ edges = EmptyBag
        /\ batch \in [Procs -> Seq(TaskEvent)]
        /\ \A p \in Procs : taskPc[p] = "idle" /\ fresh[p] = 0
    BY DEF TaskInit
  <2>3. EdgesUpTo(log, 0) = {}
    BY DEF EdgesUpTo
  <2>4. ProjectedTo(0)
    <3>1. At(log, offset, 0)
      BY <2>2 DEF At
    <3>2. Untouched(0)
      BY <2>2, <2>3 DEF Untouched, EmptyBag
    <3>3. \A p \in Procs : 0 + fresh[p] <= Len(log)
      <4>1. 0 + 0 <= 0
        OBVIOUS
      <4> QED BY <2>2, <4>1
    <3> QED BY <2>2, <3>1, <3>2, <3>3 DEF ProjectedTo, Projecting
  <2>5. 0 \in 0 .. Len(log)
    BY <2>2
  <2>6. SerialEdges
    BY <2>2, <2>4, <2>5 DEF SerialEdges
  <2> QED BY <2>1, <2>6
<1>2. I /\ [TaskNext]_taskVars => I'
  <2> SUFFICES ASSUME I, [TaskNext]_taskVars PROVE I'
    OBVIOUS
  <2>1. UNCHANGED overlap
    BY DEF TaskNext, taskVars, ProcessTask, CreateTask, ChangeStatus,
           RejectStatus, UpdateStatus, SetBlockers, Fetch, ProjectDelete,
           ProjectInsert, SaveOffset, Rebuild, ResetOffset, TaskCrash
  <2> QED BY <2>1, TaskInvStep, SerialTasksStep, SerialEdgesStep
<1>3. I => TasksFollowLog
  BY TaskInvLogs, CaughtUp, OneEntityPerTitle DEF TasksFollowLog
<1> HIDE DEF I
<1> QED BY <1>1, <1>2, <1>3, PTL DEF TaskSpec

(* The task service and the action projector keep what they promise         *)
(* together, whatever order their steps come in (task-resolver.ts,          *)
(* task-projector.ts, action-projector.ts).                                 *)
THEOREM WorkStaysTracked == TaskSpec /\ ActSpec => []WorkIsTracked
BY TasksAreInTheLog, ActionsAreTheirTasks, PTL DEF WorkIsTracked

(* So do the repair of project stamps and retrieval (sqlite-event-store.ts, *)
(* retriever.ts).                                                           *)
THEOREM ScopeStaysKept == ScopeSpec /\ RetrievalSpec => []ScopeIsKept
BY RowsGetSorted, ResultsBelong, PTL DEF ScopeIsKept
=============================================================================
