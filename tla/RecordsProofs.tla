---------------------------- MODULE RecordsProofs ---------------------------
(***************************************************************************)
(* What the store keeps of the past: the levels that memories have earned,  *)
(* the versions of an edge, the lessons that a reviewer has read, the       *)
(* observations that one actor has made of another.                         *)
(***************************************************************************)
EXTENDS Graduation, EdgeHistory, Lessons, Perspectives, FiniteSetTheorems,
        WellFoundedInduction, SequenceTheorems, TLAPS

(* Uses only grow, so what a worker has read is never more than there is.   *)
EarnedInv ==
    /\ GradTypeOK /\ LevelIsEarned
    /\ \A e \in Memories : uses[e].refs <= uses[e].access
    /\ \A p \in Procs, e \in Memories :
          /\ metrics[p][e].access <= uses[e].access
          /\ metrics[p][e].refs <= uses[e].refs

(* One run at a time: its candidates are at its level still, and what it    *)
(* raised is in its cooldown.                                               *)
SerialGrad ==
    /\ \A p, q \in Procs : gradPc[p] # "idle" /\ gradPc[q] # "idle" => p = q
    /\ \A p \in Procs :
          /\ gradPc[p] = "idle" => /\ chosen[p] = {} /\ raised[p] = {}
                                   /\ gradAt[p] = 0
          /\ \A e \in chosen[p] : level[e] \in {gradAt[p], None}
          /\ raised[p] \subseteq cooling[p]

-----------------------------------------------------------------------------
LEMMA GradInitial == GradInit => EarnedInv /\ SerialGrad
<1> SUFFICES ASSUME GradInit PROVE EarnedInv /\ SerialGrad
  OBVIOUS
<1> USE GradAssumption DEF GradInit, Unused
<1>1. GradTypeOK
  BY DEF GradTypeOK, Evidence, Levels
<1>2. LevelIsEarned
  BY DEF LevelIsEarned, Levels
<1> QED BY <1>1, <1>2 DEF EarnedInv, SerialGrad

LEMMA ReadStep ==
  ASSUME EarnedInv, NEW p \in Procs, NEW l \in 0 .. TopLevel - 1,
         ReadCandidates(p, l)
  PROVE  /\ chosen' \in [Procs -> SUBSET Memories]
         /\ metrics' \in [Procs -> [Memories -> Evidence]]
         /\ \A q \in Procs \ {p} : chosen'[q] = chosen[q]
         /\ \A e \in chosen'[p] : level[e] = l
         /\ \A q \in Procs, e \in Memories :
               /\ metrics'[q][e].access <= uses[e].access
               /\ metrics'[q][e].refs <= uses[e].refs
<1> USE GradAssumption DEF EarnedInv, GradTypeOK
<1>1. PICK T \in MostUsed(Candidates(l)) :
         /\ chosen' = [chosen EXCEPT ![p] = T]
         /\ metrics' = [metrics EXCEPT ![p] =
               [e \in Memories |-> IF e \in T THEN uses[e] ELSE Unused]]
  BY DEF ReadCandidates
<1>2. T \subseteq Memories /\ \A e \in T : level[e] = l
  BY <1>1 DEF MostUsed, Candidates
<1>3. Unused \in Evidence
  BY DEF Unused, Evidence
<1>4. \A e \in Memories : uses[e].access >= 0 /\ uses[e].refs >= 0
                          /\ uses[e].access \in Int /\ uses[e].refs \in Int
  BY DEF Evidence
<1> DEFINE row == [e \in Memories |-> IF e \in T THEN uses[e] ELSE Unused]
<1>5. row \in [Memories -> Evidence]
  BY <1>3
<1>6. \A e \in Memories : /\ row[e].access <= uses[e].access
                          /\ row[e].refs <= uses[e].refs
  BY <1>4 DEF Unused
<1> HIDE DEF row
<1>7. metrics' = [metrics EXCEPT ![p] = row]
  BY <1>1 DEF row
<1> QED BY <1>1, <1>2, <1>5, <1>6, <1>7

LEMMA MeasuresAreInts ==
  ASSUME EarnedInv
  PROVE  /\ \A e \in Memories : uses[e].access \in Nat /\ uses[e].refs \in Nat
         /\ \A p \in Procs, e \in Memories :
               metrics[p][e].access \in Nat /\ metrics[p][e].refs \in Nat
         /\ \A l \in Levels : l > 0 => /\ MinAccess[l - 1] \in Nat
                                       /\ MinRefs[l - 1] \in Nat
  BY GradAssumption DEF EarnedInv, GradTypeOK, Evidence, Levels

LEMMA EarnedStep ==
  ASSUME EarnedInv, [GradNext]_gradVars
  PROVE  EarnedInv'
<1>0. /\ \A e \in Memories : uses[e].access \in Nat /\ uses[e].refs \in Nat
      /\ \A p \in Procs, e \in Memories :
            metrics[p][e].access \in Nat /\ metrics[p][e].refs \in Nat
      /\ \A l \in Levels : l > 0 => /\ MinAccess[l - 1] \in Nat
                                    /\ MinRefs[l - 1] \in Nat
  BY MeasuresAreInts
<1> USE GradAssumption DEF EarnedInv, GradTypeOK, LevelIsEarned, Levels
<1>1. ASSUME NEW e \in Memories, Forget(e) PROVE EarnedInv'
  BY <1>1 DEF Forget
<1>2. ASSUME NEW e \in Memories, NEW other \in BOOLEAN, Use(e, other)
      PROVE  EarnedInv'
  <2> DEFINE u == [access |-> uses[e].access + 1,
                   refs |-> IF other THEN uses[e].refs + 1 ELSE uses[e].refs]
  <2>1. uses' = [uses EXCEPT ![e] = u]
    BY <1>2 DEF Use
  <2>2. /\ u \in Evidence /\ u.refs <= u.access
        /\ u.access >= uses[e].access /\ u.refs >= uses[e].refs
    <3>1. uses[e].access \in 0 .. MaxAccess - 1 /\ uses[e].refs \in Nat
      BY <1>2 DEF Use, Evidence
    <3> QED BY <3>1 DEF Evidence
  <2> HIDE DEF u
  <2>3. /\ uses' \in [Memories -> Evidence]
        /\ \A d \in Memories : /\ uses'[d].refs <= uses'[d].access
                               /\ uses'[d].access >= uses[d].access
                               /\ uses'[d].refs >= uses[d].refs
                               /\ uses'[d].access \in Nat
                               /\ uses'[d].refs \in Nat
    BY <2>1, <2>2, <1>0 DEF Evidence
  <2>4. UNCHANGED <<level, gradPc, gradAt, chosen, metrics, cooling, raised,
                    overlap>>
    BY <1>2 DEF Use
  <2>5. GradTypeOK'
    BY <2>3, <2>4
  <2>6. LevelIsEarned'
    <3> SUFFICES ASSUME NEW d \in Memories, NEW l \in Levels,
                        level[d] = l, l > 0
                 PROVE  /\ uses'[d].access >= MinAccess[l - 1]
                        /\ uses'[d].refs >= MinRefs[l - 1]
      BY <2>4
    <3>1. /\ uses[d].access >= MinAccess[l - 1]
          /\ uses[d].refs >= MinRefs[l - 1]
      OBVIOUS
    <3>2. /\ MinAccess[l - 1] \in Nat /\ MinRefs[l - 1] \in Nat
          /\ uses[d].access \in Nat /\ uses[d].refs \in Nat
      BY <1>0
    <3>3. /\ uses'[d].access >= uses[d].access /\ uses'[d].access \in Nat
          /\ uses'[d].refs >= uses[d].refs /\ uses'[d].refs \in Nat
      BY <2>3
    <3> HIDE DEF EarnedInv
    <3> QED BY <3>1, <3>2, <3>3
  <2>7. ASSUME NEW q \in Procs, NEW d \in Memories
        PROVE  /\ metrics'[q][d].access <= uses'[d].access
               /\ metrics'[q][d].refs <= uses'[d].refs
    <3>1. /\ metrics[q][d].access <= uses[d].access
          /\ metrics[q][d].refs <= uses[d].refs
          /\ metrics[q][d].access \in Nat /\ metrics[q][d].refs \in Nat
          /\ uses[d].access \in Nat /\ uses[d].refs \in Nat
      BY <1>0
    <3>2. /\ uses'[d].access >= uses[d].access /\ uses'[d].access \in Nat
          /\ uses'[d].refs >= uses[d].refs /\ uses'[d].refs \in Nat
          /\ metrics'[q][d] = metrics[q][d]
      BY <2>3, <2>4
    <3> HIDE DEF EarnedInv
    <3> QED BY <3>1, <3>2
  <2> QED BY <2>3, <2>5, <2>6, <2>7
<1>3. ASSUME NEW p \in Procs, StartRun(p) PROVE EarnedInv'
  <2>1. 0 \in 0 .. TopLevel - 1 /\ ReadCandidates(p, 0)
    BY <1>3 DEF StartRun
  <2> QED BY <1>3, <2>1, ReadStep DEF StartRun
<1>4. ASSUME NEW p \in Procs, NextLevel(p) PROVE EarnedInv'
  <2>1. gradAt[p] + 1 \in 0 .. TopLevel - 1
    BY <1>4 DEF NextLevel
  <2> QED BY <1>4, <2>1, ReadStep DEF NextLevel
<1>5. ASSUME NEW p \in Procs, EndRun(p) PROVE EarnedInv'
  BY <1>5 DEF EndRun
<1>6. ASSUME NEW p \in Procs, CoolDown(p) PROVE EarnedInv'
  BY <1>6 DEF CoolDown
<1>7. ASSUME NEW p \in Procs, EndGraduation(p) PROVE EarnedInv'
  <2> DEFINE none == [e \in Memories |-> Unused]
  <2>1. /\ none \in [Memories -> Evidence]
        /\ \A e \in Memories : none[e].access = 0 /\ none[e].refs = 0
    BY DEF Unused, Evidence
  <2>2. metrics' = [metrics EXCEPT ![p] = none]
    BY <1>7 DEF EndGraduation
  <2> HIDE DEF none
  <2>3. /\ metrics' \in [Procs -> [Memories -> Evidence]]
        /\ \A q \in Procs, e \in Memories :
              /\ metrics'[q][e].access <= uses[e].access
              /\ metrics'[q][e].refs <= uses[e].refs
    BY <2>1, <2>2, <1>0
  <2> QED BY <1>7, <2>3 DEF EndGraduation
<1>8. ASSUME NEW p \in Procs, NEW e \in Memories, EvaluateGraduation(p, e)
      PROVE  EarnedInv'
  <2>1. metrics' = [metrics EXCEPT ![p][e] = Unused]
    BY <1>8 DEF EvaluateGraduation
  <2>2. /\ metrics' \in [Procs -> [Memories -> Evidence]]
        /\ \A q \in Procs, d \in Memories :
              metrics'[q][d] = metrics[q][d] \/ metrics'[q][d] = Unused
    BY <2>1 DEF Unused, Evidence
  <2>3. ASSUME NEW q \in Procs, NEW d \in Memories
        PROVE  /\ metrics'[q][d].access <= uses[d].access
               /\ metrics'[q][d].refs <= uses[d].refs
    <3>1. /\ metrics[q][d].access <= uses[d].access
          /\ metrics[q][d].refs <= uses[d].refs
          /\ uses[d].access \in Nat /\ uses[d].refs \in Nat
      BY <1>0
    <3>2. Unused.access = 0 /\ Unused.refs = 0
      BY DEF Unused
    <3>3. metrics'[q][d] = metrics[q][d] \/ metrics'[q][d] = Unused
      BY <2>2
    <3> HIDE DEF EarnedInv
    <3> QED BY <3>1, <3>2, <3>3
  <2>4. /\ level' \in [Memories -> Levels \cup {None}]
        /\ \A d \in Memories :
              \/ level'[d] = level[d]
              \/ /\ level'[d] = gradAt[p] + 1
                 /\ Meets(metrics[p][d], gradAt[p])
    <3>1. gradAt[p] + 1 \in Levels
      OBVIOUS
    <3>2. CASE UNCHANGED level
      BY <3>2
    <3>3. CASE /\ level' = [level EXCEPT ![e] = gradAt[p] + 1]
               /\ Meets(metrics[p][e], gradAt[p])
      BY <3>1, <3>3
    <3> QED BY <1>8, <3>2, <3>3 DEF EvaluateGraduation
  <2>5. LevelIsEarned'
    <3> SUFFICES ASSUME NEW d \in Memories, NEW l \in Levels,
                        level'[d] = l, l > 0, level'[d] # level[d]
                 PROVE  /\ uses[d].access >= MinAccess[l - 1]
                        /\ uses[d].refs >= MinRefs[l - 1]
      BY <1>8, <2>4 DEF EvaluateGraduation
    <3>1. gradAt[p] = l - 1 /\ Meets(metrics[p][d], gradAt[p])
      BY <2>4
    <3> QED BY <3>1, <1>0 DEF Meets
  <2>6. UNCHANGED <<uses, gradPc, gradAt, overlap>>
    BY <1>8 DEF EvaluateGraduation
  <2>7. chosen' \in [Procs -> SUBSET Memories]
    BY <1>8 DEF EvaluateGraduation
  <2>8. cooling' \in [Procs -> SUBSET Memories]
    BY <1>8 DEF EvaluateGraduation, Cooled
  <2>9. raised' \in [Procs -> SUBSET Memories]
    <3>1. UNCHANGED raised \/ raised' = [raised EXCEPT ![p] = @ \cup {e}]
      BY <1>8 DEF EvaluateGraduation
    <3>2. raised \in [Procs -> SUBSET Memories]
      OBVIOUS
    <3> HIDE DEF EarnedInv
    <3> QED BY <3>1, <3>2
  <2> QED BY <2>2, <2>3, <2>4, <2>5, <2>6, <2>7, <2>8, <2>9
<1>9. CASE UNCHANGED gradVars
  BY <1>9 DEF gradVars
<1> QED BY <1>1, <1>2, <1>3, <1>4, <1>5, <1>6, <1>7, <1>8, <1>9 DEF GradNext
-----------------------------------------------------------------------------
LEMMA GradSerialStep ==
  ASSUME EarnedInv, ~overlap, SerialGrad, [GradNext]_gradVars
  PROVE  SerialGrad'
<1>0. /\ level \in [Memories -> Levels \cup {None}]
      /\ gradPc \in [Procs -> {"idle", "evaluate"}]
      /\ gradAt \in [Procs -> 0 .. TopLevel - 1]
      /\ chosen \in [Procs -> SUBSET Memories]
      /\ cooling \in [Procs -> SUBSET Memories]
      /\ raised \in [Procs -> SUBSET Memories]
  BY DEF EarnedInv, GradTypeOK
<1> USE <1>0 DEF SerialGrad
<1>1. ASSUME NEW e \in Memories, Forget(e) PROVE SerialGrad'
  BY <1>1 DEF Forget
<1>2. ASSUME NEW e \in Memories, NEW other \in BOOLEAN, Use(e, other)
      PROVE  SerialGrad'
  BY <1>2 DEF Use
<1>3. ASSUME NEW p \in Procs, StartRun(p) PROVE SerialGrad'
  <2>1. 0 \in 0 .. TopLevel - 1 /\ ReadCandidates(p, 0)
    BY <1>3, GradAssumption DEF StartRun
  <2>2. /\ \A q \in Procs \ {p} : chosen'[q] = chosen[q]
        /\ \A e \in chosen'[p] : level[e] = 0
    BY <2>1, ReadStep
  <2>3. \A q \in Procs : gradPc[q] = "idle"
    BY <1>3 DEF StartRun, MayStart
  <2> QED BY <1>3, <2>2, <2>3 DEF StartRun
<1>4. ASSUME NEW p \in Procs, NextLevel(p) PROVE SerialGrad'
  <2>1. gradAt[p] + 1 \in 0 .. TopLevel - 1
    BY <1>4, GradAssumption DEF NextLevel
  <2>2. /\ \A q \in Procs \ {p} : chosen'[q] = chosen[q]
        /\ \A e \in chosen'[p] : level[e] = gradAt[p] + 1
    BY <1>4, <2>1, ReadStep DEF NextLevel
  <2> QED BY <1>4, <2>2 DEF NextLevel
<1>5. ASSUME NEW p \in Procs, EndRun(p) PROVE SerialGrad'
  BY <1>5 DEF EndRun
<1>6. ASSUME NEW p \in Procs, CoolDown(p) PROVE SerialGrad'
  BY <1>6 DEF CoolDown
<1>7. ASSUME NEW p \in Procs, EndGraduation(p) PROVE SerialGrad'
  BY <1>7 DEF EndGraduation
<1>8. ASSUME NEW p \in Procs, NEW e \in Memories, EvaluateGraduation(p, e)
      PROVE  SerialGrad'
  <2>1. /\ \A q \in Procs \ {p} : gradPc[q] = "idle"
        /\ UNCHANGED <<gradPc, gradAt>>
        /\ chosen' = [chosen EXCEPT ![p] = chosen[p] \ {e}]
        /\ cooling' = [cooling EXCEPT ![p] = cooling[p] \cup {e}]
        /\ \A d \in Memories : d # e => level'[d] = level[d]
    BY <1>8 DEF EvaluateGraduation, Cooled
  <2>2. UNCHANGED raised \/ raised' = [raised EXCEPT ![p] = @ \cup {e}]
    BY <1>8 DEF EvaluateGraduation
  <2>3. /\ \A q \in Procs \ {p} : chosen'[q] = chosen[q] /\ chosen[q] = {}
        /\ \A d \in chosen'[p] : level'[d] \in {gradAt[p], None}
    BY <2>1
  <2>4. \A q \in Procs : raised'[q] \subseteq cooling'[q]
    BY <2>1, <2>2
  <2>5. \A q \in Procs \ {p} : raised'[q] = raised[q]
    BY <2>2
  <2> QED BY <1>8, <2>1, <2>3, <2>4, <2>5 DEF EvaluateGraduation
<1>9. CASE UNCHANGED gradVars
  BY <1>9 DEF gradVars
<1> QED BY <1>1, <1>2, <1>3, <1>4, <1>5, <1>6, <1>7, <1>8, <1>9 DEF GradNext

(* What one step does to the levels when runs do not overlap.               *)
LEMMA GradRises ==
  ASSUME EarnedInv, ~overlap, SerialGrad, [GradNext]_gradVars,
         NEW e \in Memories
  PROVE  /\ None \notin {level[e], level'[e]} => level'[e] >= level[e]
         /\ \A p \in Procs :
               e \in raised[p] => level'[e] \in {level[e], None}
<1>0. /\ level \in [Memories -> Levels \cup {None}]
      /\ gradAt \in [Procs -> 0 .. TopLevel - 1]
      /\ level[e] # None => level[e] \in Int
  BY GradAssumption DEF EarnedInv, GradTypeOK, Levels
<1>1. ASSUME NEW d \in Memories, Forget(d)
      PROVE  level'[e] \in {level[e], None}
  BY <1>0, <1>1 DEF Forget
<1>2. ASSUME NEW p \in Procs, NEW d \in Memories, EvaluateGraduation(p, d)
      PROVE  /\ None \notin {level[e], level'[e]} => level'[e] >= level[e]
             /\ \A q \in Procs : e \in raised[q] => level'[e] = level[e]
  <2>1. CASE UNCHANGED level
    BY <1>0, <2>1
  <2>2. CASE /\ level' = [level EXCEPT ![d] = gradAt[p] + 1]
             /\ d \notin cooling[p]
    <3>1. level[d] \in {gradAt[p], None}
      BY <1>2 DEF EvaluateGraduation, SerialGrad
    <3>2. \A q \in Procs : d \notin raised[q]
      BY <1>2, <2>2 DEF EvaluateGraduation, SerialGrad
    <3> QED BY <1>0, <2>2, <3>1, <3>2, GradAssumption
  <2> QED BY <1>2, <2>1, <2>2 DEF EvaluateGraduation
<1> QED
  BY <1>0, <1>1, <1>2
     DEF GradNext, gradVars, Use, StartRun, NextLevel, EndRun, CoolDown,
         EndGraduation

LEMMA GradOverlapStays == [GradNext]_gradVars => overlap' = overlap
  BY DEF GradNext, gradVars, Use, Forget, StartRun, NextLevel, EndRun,
         CoolDown, EndGraduation, EvaluateGraduation

(* A memory has the level its uses have earned, although workers act on     *)
(* what they read before others used, raised or deleted it.                 *)
THEOREM LevelsAreEarned == GradSpec => [](GradTypeOK /\ LevelIsEarned)
<1>1. EarnedInv => GradTypeOK /\ LevelIsEarned
  BY DEF EarnedInv
<1> QED BY GradInitial, EarnedStep, <1>1, PTL DEF GradSpec

(* Runs that do not overlap lower no memory, and raise each by one level.   *)
THEOREM LevelsRise == GradSpec => LevelNeverFalls /\ OneLevelPerRun
<1> DEFINE Inv == EarnedInv /\ (~overlap => SerialGrad)
<1>1. GradInit => Inv
  BY GradInitial
<1>2. Inv /\ [GradNext]_gradVars => Inv'
  BY EarnedStep, GradSerialStep, GradOverlapStays
<1>3. Inv /\ [GradNext]_gradVars
        => [~overlap =>
               \A e \in Memories : None \notin {level[e], level'[e]}
                                   => level'[e] >= level[e]]_gradVars
  BY GradRises
<1>4. Inv /\ [GradNext]_gradVars
        => [\A p \in Procs : ~overlap =>
               \A e \in raised[p] : level'[e] \in {level[e], None}]_gradVars
  BY GradRises DEF EarnedInv, GradTypeOK
<1> QED BY <1>1, <1>2, <1>3, <1>4, PTL
        DEF GradSpec, LevelNeverFalls, OneLevelPerRun

(* Both together: however old what a worker acts on, no level without its   *)
(* evidence, and without overlap no step back and one step in a run.        *)
THEOREM GraduationIsFair == GradSpec => LevelsAreFair
BY LevelsAreEarned, LevelsRise, PTL DEF LevelsAreFair

-----------------------------------------------------------------------------
(* The versions of an edge.                                                 *)

(* A call in progress has read what recordVersion() needs.                  *)
EdgeInv ==
    /\ EdgeTypeOK
    /\ \A p \in Procs : edgePc[p] = "write" =>
          /\ recording[p].weight \in Weights
          /\ recording[p].at \in 0 .. MaxClock
          /\ recording[p].current \in DOMAIN versions \cup {None}

Chained ==
    /\ versions # <<>> => ActiveVersions = {Len(versions)}
    /\ \A n \in 1 .. Len(versions) - 1 : versions[n].by = n + 1

(* The version that a serial call supersedes is the last one still.         *)
EdgesAreCalm ==
    /\ Chained
    /\ \A p, q \in Procs : edgePc[p] # "idle" /\ edgePc[q] # "idle" => p = q
    /\ \A p \in Procs : edgePc[p] = "write" =>
          recording[p].current = IF versions = <<>> THEN None
                                 ELSE Len(versions)

LEMMA EdgeInitial == EdgeInit => EdgeInv /\ EdgesAreCalm
<1> SUFFICES ASSUME EdgeInit PROVE EdgeInv /\ EdgesAreCalm
  OBVIOUS
<1> USE HistoryAssumption DEF EdgeInit
<1>1. EdgeTypeOK
  BY DEF EdgeTypeOK, NoRecord
<1> QED BY <1>1 DEF EdgeInv, EdgesAreCalm, Chained

LEMMA SupersedeOne ==
  ASSUME versions \in Seq(Version), Len(versions) < MaxVersions,
         NEW n \in DOMAIN versions, NEW t \in 0 .. MaxClock
  PROVE  /\ Supersede(n, t) \in Seq(Version)
         /\ Len(Supersede(n, t)) = Len(versions)
         /\ ~Supersede(n, t)[n].active
         /\ Supersede(n, t)[n].by = Len(versions) + 1
         /\ Supersede(n, t)[n].from = versions[n].from
         /\ Supersede(n, t)[n].weight = versions[n].weight
         /\ versions[n].to = None => Supersede(n, t)[n].to = t
         /\ \A k \in DOMAIN versions \ {n} : Supersede(n, t)[k] = versions[k]
<1> DEFINE v == versions[n]
           u == [v EXCEPT !.active = FALSE, !.by = Len(versions) + 1,
                          !.to = IF v.to = None THEN t ELSE v.to]
<1>1. Supersede(n, t) = [versions EXCEPT ![n] = u]
  BY DEF Supersede
<1>2. v \in Version /\ Len(versions) + 1 \in 1 .. MaxVersions
  BY HistoryAssumption
<1>3. u \in Version /\ ~u.active /\ u.by = Len(versions) + 1
  BY <1>2 DEF Version
<1>4. /\ u.from = v.from /\ u.weight = v.weight
      /\ v.to = None => u.to = t
  BY <1>2 DEF Version
<1> HIDE DEF u
<1> QED BY <1>1, <1>3, <1>4

LEMMA CurrentIsRow ==
  ASSUME EdgeInv, NEW n \in Current
  PROVE  /\ n \in DOMAIN versions \cup {None}
         /\ Chained => n = IF versions = <<>> THEN None ELSE Len(versions)
  BY DEF EdgeInv, EdgeTypeOK, Current, Newest, ActiveVersions, Chained

LEMMA EdgeStep ==
  ASSUME EdgeInv, [EdgeNext]_edgeVars
  PROVE  EdgeInv'
<1> USE HistoryAssumption DEF EdgeInv, EdgeTypeOK
<1>1. CASE Tick
  BY <1>1 DEF Tick
<1>2. ASSUME NEW p \in Procs, NEW w \in Weights, RecordLook(p, w)
      PROVE  EdgeInv'
  <2>1. PICK n \in Current : recording' = [recording EXCEPT ![p] =
           [weight |-> w, current |-> n, at |-> clock]]
    BY <1>2 DEF RecordLook
  <2>2. n \in DOMAIN versions \cup {None} /\ n \in 1 .. MaxVersions \cup {None}
    BY CurrentIsRow
  <2> QED BY <1>2, <2>1, <2>2 DEF RecordLook
<1>3. ASSUME NEW p \in Procs, RecordWrite(p) PROVE EdgeInv'
  <2> DEFINE r == recording[p]
             old == IF r.current = None THEN versions
                    ELSE Supersede(r.current, r.at)
             new == [weight |-> r.weight, from |-> r.at, to |-> None,
                     active |-> TRUE, by |-> None]
  <2>1. r.weight \in Weights /\ r.at \in 0 .. MaxClock
    BY <1>3 DEF RecordWrite
  <2>2. new \in Version
    BY <2>1 DEF Version
  <2>3. old \in Seq(Version) /\ Len(old) = Len(versions)
    BY <1>3, SupersedeOne DEF RecordWrite
  <2>4. versions' = Append(old, new)
    BY <1>3 DEF RecordWrite
  <2> HIDE DEF old, new
  <2>5. versions' \in Seq(Version) /\ Len(versions') = Len(versions) + 1
    BY <2>2, <2>3, <2>4
  <2>6. truth' \in [0 .. MaxClock -> Weights \cup {None}]
    BY <1>3, <2>1 DEF RecordWrite
  <2>7. recording' \in [Procs -> [weight: Weights \cup {None},
                                 current: 1 .. MaxVersions \cup {None},
                                 at: 0 .. MaxClock \cup {None}]]
    BY <1>3 DEF RecordWrite, NoRecord
  <2> QED BY <1>3, <2>5, <2>6, <2>7 DEF RecordWrite
<1>4. ASSUME NEW p \in Procs, EdgeCrash(p) PROVE EdgeInv'
  BY <1>4 DEF EdgeCrash, NoRecord
<1>5. CASE UNCHANGED edgeVars
  BY <1>5 DEF edgeVars
<1> QED BY <1>1, <1>2, <1>3, <1>4, <1>5 DEF EdgeNext

LEMMA EdgeSerialStep ==
  ASSUME EdgeInv, ~overlap, EdgesAreCalm, [EdgeNext]_edgeVars
  PROVE  EdgesAreCalm'
<1>0. /\ versions \in Seq(Version)
      /\ edgePc \in [Procs -> {"idle", "write"}]
  BY DEF EdgeInv, EdgeTypeOK
<1>1. CASE Tick
  BY <1>1 DEF Tick, EdgesAreCalm, Chained, ActiveVersions
<1>2. ASSUME NEW p \in Procs, NEW w \in Weights, RecordLook(p, w)
      PROVE  EdgesAreCalm'
  <2>1. PICK n \in Current : recording' = [recording EXCEPT ![p] =
           [weight |-> w, current |-> n, at |-> clock]]
    BY <1>2 DEF RecordLook
  <2>2. recording'[p].current = n
    BY <2>1 DEF EdgeInv, EdgeTypeOK
  <2>3. n = IF versions = <<>> THEN None ELSE Len(versions)
    BY CurrentIsRow DEF EdgesAreCalm
  <2>4. \A q \in Procs : edgePc[q] = "idle"
    BY <1>2 DEF RecordLook, MayStart
  <2>5. edgePc' = [edgePc EXCEPT ![p] = "write"] /\ UNCHANGED versions
    BY <1>2 DEF RecordLook
  <2>6. \A q \in Procs : edgePc'[q] # "idle" => q = p
    BY <1>0, <2>4, <2>5
  <2>7. Chained'
    BY <2>5 DEF EdgesAreCalm, Chained, ActiveVersions
  <2> QED BY <2>2, <2>3, <2>5, <2>6, <2>7 DEF EdgesAreCalm
<1>3. ASSUME NEW p \in Procs, RecordWrite(p) PROVE EdgesAreCalm'
  <2> DEFINE r == recording[p]
             old == IF r.current = None THEN versions
                    ELSE Supersede(r.current, r.at)
             new == [weight |-> r.weight, from |-> r.at, to |-> None,
                     active |-> TRUE, by |-> None]
             len == Len(versions)
  <2>1. r.current = IF versions = <<>> THEN None ELSE len
    BY <1>3 DEF RecordWrite, EdgesAreCalm
  <2>2. r.at \in 0 .. MaxClock /\ len < MaxVersions /\ len \in Nat
    BY <1>0, <1>3 DEF RecordWrite, EdgeInv
  <2>3. versions' = Append(old, new)
    BY <1>3 DEF RecordWrite
  <2>4. ASSUME len > 0
        PROVE  /\ old \in Seq(Version) /\ Len(old) = len
               /\ ~old[len].active /\ old[len].by = len + 1
               /\ \A k \in 1 .. len - 1 : old[k] = versions[k]
    <3>1. versions # <<>> /\ len \in DOMAIN versions
      BY <1>0, <2>2, <2>4
    <3>2. old = Supersede(len, r.at)
      BY <2>1, <3>1, HistoryAssumption, <2>2
    <3> QED BY <1>0, <2>2, <3>1, <3>2, SupersedeOne
  <2>5. ASSUME len = 0 PROVE old = <<>>
    BY <1>0, <2>1, <2>5
  <2>6. \A k \in 1 .. len - 1 : ~versions[k].active
    BY <1>0, <2>2 DEF EdgesAreCalm, Chained, ActiveVersions
  <2>7. new.active
    OBVIOUS
  <2> HIDE DEF old, new
  <2>8. /\ Len(versions') = len + 1 /\ versions'[len + 1] = new
        /\ DOMAIN versions' = 1 .. len + 1
        /\ \A k \in 1 .. len : versions'[k] = old[k]
    <3>1. CASE len = 0
      BY <2>3, <2>5, <3>1
    <3>2. CASE len > 0
      BY <2>2, <2>3, <2>4, <3>2
    <3> QED BY <2>2, <3>1, <3>2
  <2>9. \A k \in 1 .. len : ~versions'[k].active /\ versions'[k].by = k + 1
    BY <2>2, <2>4, <2>6, <2>8 DEF EdgesAreCalm, Chained
  <2>10. Chained'
    BY <2>2, <2>7, <2>8, <2>9 DEF Chained, ActiveVersions
  <2>11. \A q \in Procs : edgePc'[q] = "idle"
    BY <1>0, <1>3 DEF RecordWrite, EdgesAreCalm
  <2> QED BY <2>10, <2>11 DEF EdgesAreCalm
<1>4. ASSUME NEW p \in Procs, EdgeCrash(p) PROVE EdgesAreCalm'
  <2>1. /\ UNCHANGED versions
        /\ \A q \in Procs : edgePc'[q] = "idle"
    BY <1>0, <1>4 DEF EdgeCrash, EdgesAreCalm
  <2>2. Chained'
    BY <2>1 DEF EdgesAreCalm, Chained, ActiveVersions
  <2> QED BY <2>1, <2>2 DEF EdgesAreCalm
<1>5. CASE UNCHANGED edgeVars
  BY <1>5 DEF edgeVars, EdgesAreCalm, Chained, ActiveVersions
<1> QED BY <1>1, <1>2, <1>3, <1>4, <1>5 DEF EdgeNext

LEMMA EdgeOverlapStays == [EdgeNext]_edgeVars => overlap' = overlap
  BY DEF EdgeNext, edgeVars, Tick, RecordLook, RecordWrite, EdgeCrash

(* An edge that was recorded has one active version, the last, and the      *)
(* others form a chain to it, unless calls run inside one another.          *)
THEOREM EdgesHaveOneVersion == EdgeSpec => [](EdgeTypeOK /\ OneActiveVersion)
<1> DEFINE Inv == EdgeInv /\ (~overlap => EdgesAreCalm)
<1>1. EdgeInit => Inv
  BY EdgeInitial
<1>2. Inv /\ [EdgeNext]_edgeVars => Inv'
  BY EdgeStep, EdgeSerialStep, EdgeOverlapStays
<1>3. Inv => EdgeTypeOK /\ OneActiveVersion
  BY DEF EdgeInv, EdgesAreCalm, Chained, OneActiveVersion
<1> QED BY <1>1, <1>2, <1>3, PTL DEF EdgeSpec

-----------------------------------------------------------------------------
(* What selectAsOf() answers.                                               *)

ValidFor(n, t) ==
    /\ versions[n].from <= t
    /\ versions[n].to = None \/ versions[n].to > t

(* A version ends before a later one begins, and the last has no end.       *)
Dated ==
    /\ \A n \in DOMAIN versions : versions[n].from <= clock
    /\ \A m, n \in DOMAIN versions : m < n =>
          versions[m].to # None /\ versions[m].to <= versions[n].from
    /\ versions # <<>> => versions[Len(versions)].to = None

(* At a past time some version was valid if any had been recorded, and all  *)
(* that were have the weight that was known.                                *)
Told ==
    \A t \in 0 .. clock :
        /\ truth[t] # None => \E n \in DOMAIN versions : ValidFor(n, t)
        /\ \A n \in DOMAIN versions :
              ValidFor(n, t) => truth[t] = versions[n].weight

(* Time stands still within a serial call.                                  *)
PastInv ==
    /\ Dated /\ Told
    /\ \A p \in Procs : edgePc[p] = "write" => recording[p].at = clock

LEMMA VersionFields ==
  ASSUME EdgeTypeOK, NEW n \in DOMAIN versions
  PROVE  /\ n \in Nat /\ n >= 1 /\ n <= Len(versions)
         /\ versions[n].weight \in Weights /\ versions[n].weight # None
         /\ versions[n].from \in Nat
         /\ versions[n].to # None => versions[n].to \in Nat
<1>1. versions[n] \in Version /\ n \in 1 .. Len(versions)
  BY DEF EdgeTypeOK
<1> QED BY <1>1, HistoryAssumption DEF EdgeTypeOK, Version

(* The weight at a past time is that of the one version valid then.         *)
LEMMA PastAnswers ==
  ASSUME EdgeTypeOK, PastInv
  PROVE  \A t \in 0 .. clock :
             {versions[n].weight : n \in ValidAt(t)} =
                 IF truth[t] = None THEN {} ELSE {truth[t]}
<1> SUFFICES ASSUME NEW t \in 0 .. clock
             PROVE  {versions[n].weight : n \in ValidAt(t)} =
                        IF truth[t] = None THEN {} ELSE {truth[t]}
  OBVIOUS
<1> DEFINE S == {n \in DOMAIN versions : ValidFor(n, t)}
<1>1. ValidAt(t) = {n \in S : \A m \in S : versions[m].from
                                              <= versions[n].from}
  BY DEF ValidAt, Newest, ValidFor
<1>2. ASSUME NEW m \in S, NEW n \in S PROVE m = n
  <2>1. \A k \in S : /\ k \in Nat /\ versions[k].from \in Nat
                     /\ versions[k].to # None => versions[k].to \in Nat
    BY VersionFields
  <2>2. \A i, j \in S : ~(i < j)
    BY <2>1 DEF PastInv, Dated, ValidFor
  <2> QED BY <2>1, <2>2
<1>3. ValidAt(t) = S
  BY <1>1, <1>2, VersionFields
<1>4. CASE truth[t] = None
  BY <1>3, <1>4, VersionFields DEF PastInv, Told
<1>5. CASE truth[t] # None
  <2>1. PICK n \in DOMAIN versions : ValidFor(n, t)
    BY <1>5 DEF PastInv, Told
  <2>2. S = {n} /\ truth[t] = versions[n].weight
    BY <1>2, <2>1 DEF PastInv, Told
  <2> QED BY <1>3, <1>5, <2>2
<1> QED BY <1>4, <1>5

LEMMA PastInitial == EdgeInit => PastInv
  BY HistoryAssumption DEF EdgeInit, PastInv, Dated, Told, ValidFor

(* A version that is valid now has no end.                                  *)
LEMMA EndsArePast ==
  ASSUME EdgeTypeOK, Dated, NEW n \in DOMAIN versions
  PROVE  versions[n].to = None \/ versions[n].to <= clock
<1>1. CASE n = Len(versions)
  BY <1>1 DEF Dated
<1>2. CASE n # Len(versions)
  <2>1. Len(versions) \in DOMAIN versions /\ n < Len(versions)
    BY <1>2 DEF EdgeTypeOK
  <2>2. /\ versions[n].to # None
        /\ versions[n].to <= versions[Len(versions)].from
        /\ versions[Len(versions)].from <= clock
    BY <2>1 DEF Dated
  <2>3. clock \in Nat
    BY DEF EdgeTypeOK
  <2> QED BY <2>1, <2>2, <2>3, VersionFields
<1> QED BY <1>1, <1>2

LEMMA PastTick ==
  ASSUME EdgeInv, ~overlap, EdgesAreCalm, PastInv, Tick
  PROVE  PastInv'
<1> USE DEF EdgeInv
<1>1. /\ clock' = clock + 1 /\ clock \in Nat /\ clock' \in 0 .. MaxClock
      /\ truth' = [truth EXCEPT ![clock'] = truth[clock]]
      /\ UNCHANGED <<versions, edgePc, recording, overlap>>
  BY HistoryAssumption DEF Tick, EdgeTypeOK
<1>2. \A p \in Procs : edgePc'[p] # "write"
  BY <1>1 DEF Tick, EdgeTypeOK
<1>3. Dated'
  <2>1. \A n \in DOMAIN versions : versions[n].from <= clock'
    BY <1>1, VersionFields DEF PastInv, Dated
  <2> QED BY <1>1, <2>1 DEF PastInv, Dated
<1>4. Told'
  <2> SUFFICES ASSUME NEW t \in 0 .. clock'
               PROVE  /\ truth'[t] # None =>
                            \E n \in DOMAIN versions : ValidFor(n, t)
                      /\ \A n \in DOMAIN versions :
                            ValidFor(n, t) => truth'[t] = versions[n].weight
    BY <1>1 DEF Told, ValidFor
  <2>1. CASE t \in 0 .. clock
    <3>1. truth'[t] = truth[t]
      BY <1>1, <2>1 DEF EdgeTypeOK
    <3> QED BY <2>1, <3>1 DEF PastInv, Told
  <2>2. CASE t = clock'
    <3>1. truth'[t] = truth[clock]
      BY <1>1, <2>2 DEF EdgeTypeOK
    <3>2. ASSUME NEW n \in DOMAIN versions
          PROVE  ValidFor(n, t) <=> ValidFor(n, clock)
      <4>1. /\ versions[n].from <= clock /\ versions[n].from \in Nat
            /\ versions[n].to = None \/ versions[n].to <= clock
            /\ versions[n].to # None => versions[n].to \in Nat
        BY EndsArePast, VersionFields DEF PastInv, Dated
      <4> QED BY <1>1, <2>2, <4>1 DEF ValidFor
    <3>3. clock \in 0 .. clock
      BY <1>1
    <3> QED BY <3>1, <3>2, <3>3 DEF PastInv, Told
  <2> QED BY <1>1, <2>1, <2>2
<1> QED BY <1>2, <1>3, <1>4 DEF PastInv

(* The last version gets an end, and the new one begins with it.            *)
LEMMA PastWrite ==
  ASSUME EdgeInv, ~overlap, EdgesAreCalm, PastInv,
         NEW p \in Procs, RecordWrite(p)
  PROVE  PastInv'
<1> USE DEF EdgeInv
<1> DEFINE r == recording[p]
           old == IF r.current = None THEN versions
                  ELSE Supersede(r.current, r.at)
           new == [weight |-> r.weight, from |-> r.at, to |-> None,
                   active |-> TRUE, by |-> None]
           len == Len(versions)
<1>1. /\ r.current = IF versions = <<>> THEN None ELSE len
      /\ r.at = clock /\ clock \in Nat /\ len \in Nat
      /\ versions \in Seq(Version)
  BY DEF RecordWrite, EdgesAreCalm, PastInv, EdgeTypeOK
<1>2. /\ versions' = Append(old, new) /\ clock' = clock
      /\ truth' = [t \in 0 .. MaxClock |->
                      IF t \in r.at .. clock THEN r.weight ELSE truth[t]]
  BY DEF RecordWrite
<1>3. ASSUME len > 0
      PROVE  /\ old \in Seq(Version) /\ Len(old) = len
             /\ \A n \in 1 .. len - 1 : old[n] = versions[n]
             /\ old[len].from = versions[len].from
             /\ old[len].weight = versions[len].weight
             /\ old[len].to = clock
  <2>1. len \in DOMAIN versions /\ versions # <<>>
    BY <1>1, <1>3
  <2>2. old = Supersede(len, clock)
    BY <1>1, <2>1, HistoryAssumption
  <2>3. /\ old \in Seq(Version) /\ Len(old) = len
        /\ \A n \in DOMAIN versions \ {len} : old[n] = versions[n]
    BY <2>1, <2>2, SupersedeOne DEF RecordWrite, EdgeTypeOK
  <2>4. versions[len] \in Version /\ versions[len].to = None
    BY <1>1, <2>1 DEF PastInv, Dated
  <2>5. /\ old[len].from = versions[len].from
        /\ old[len].weight = versions[len].weight
        /\ old[len].to = clock
    BY <2>1, <2>2, <2>4, SupersedeOne DEF RecordWrite, EdgeTypeOK
  <2> QED BY <1>1, <2>3, <2>5
<1>4. new.from = clock /\ new.to = None /\ new.weight = r.weight
  BY <1>1
<1> HIDE DEF old, new
<1>5. /\ DOMAIN versions' = 1 .. len + 1 /\ Len(versions') = len + 1
      /\ versions'[len + 1] = new
      /\ \A n \in 1 .. len - 1 : versions'[n] = versions[n]
      /\ len > 0 => /\ versions'[len].from = versions[len].from
                    /\ versions'[len].weight = versions[len].weight
                    /\ versions'[len].to = clock
  <2>1. CASE len = 0
    <3>1. old = <<>>
      BY <1>1, <2>1 DEF old
    <3> QED BY <1>1, <1>2, <2>1, <3>1
  <2>2. CASE len > 0
    BY <1>1, <1>2, <1>3, <2>2
  <2> QED BY <1>1, <2>1, <2>2
<1>6. \A n \in 1 .. len :
         /\ versions[n].from \in Nat /\ versions[n].from <= clock
         /\ versions[n].to = None \/ versions[n].to \in Nat
         /\ versions'[n].from = versions[n].from
         /\ versions'[n].weight = versions[n].weight
         /\ versions'[n].to \in Nat /\ versions'[n].to <= clock
         /\ n < len => versions'[n].to = versions[n].to
         /\ n = len => versions[n].to = None /\ versions'[n].to = clock
  <2> TAKE n \in 1 .. len
  <2>1. n \in DOMAIN versions /\ n <= len /\ len > 0
    BY <1>1
  <2>2. /\ versions[n].from \in Nat /\ versions[n].from <= clock
        /\ versions[n].to = None \/ versions[n].to \in Nat
    BY <2>1, VersionFields DEF PastInv, Dated
  <2>3. CASE n = len
    BY <1>1, <1>5, <2>1, <2>2, <2>3 DEF PastInv, Dated
  <2>4. CASE n # len
    <3>1. n \in 1 .. len - 1 /\ n < len /\ len \in DOMAIN versions
      BY <1>1, <2>1, <2>4
    <3>2. versions[n].to # None
      BY <3>1 DEF PastInv, Dated
    <3>3. versions[n].to \in Nat /\ versions[n].to <= clock
      BY <2>1, <3>2, EndsArePast, VersionFields DEF PastInv
    <3> QED BY <1>5, <2>1, <2>2, <3>1, <3>3
  <2> QED BY <2>3, <2>4
<1>7. Dated'
  <2>1. \A n \in DOMAIN versions' : versions'[n].from <= clock'
    BY <1>1, <1>2, <1>4, <1>5, <1>6
  <2>2. ASSUME NEW m \in 1 .. len + 1, NEW n \in 1 .. len + 1, m < n
        PROVE  /\ versions'[m].to # None
               /\ versions'[m].to <= versions'[n].from
    <3>1. m \in 1 .. len
      BY <1>1, <2>2
    <3>2. CASE n = len + 1
      BY <1>1, <1>4, <1>5, <1>6, <3>1, <3>2, HistoryAssumption
    <3>3. CASE n \in 1 .. len
      <4>1. m < len /\ m \in DOMAIN versions /\ n \in DOMAIN versions
        BY <1>1, <2>2, <3>1, <3>3
      <4> QED BY <1>6, <2>2, <3>1, <3>3, <4>1 DEF PastInv, Dated
    <3> QED BY <1>1, <3>2, <3>3
  <2> QED BY <1>4, <1>5, <2>1, <2>2 DEF Dated
<1>8. Told'
  <2>9. PICK last \in Nat : last = len + 1
    BY <1>1
  <2> SUFFICES ASSUME NEW t \in 0 .. clock
               PROVE  /\ truth'[t] # None =>
                            \E n \in 1 .. len + 1 : ValidFor(n, t)'
                      /\ \A n \in 1 .. len + 1 :
                            ValidFor(n, t)' => truth'[t] = versions'[n].weight
    BY <1>2, <1>5 DEF Told, ValidFor
  <2>0. t \in 0 .. MaxClock /\ t \in Nat /\ t <= clock
    BY <1>1, HistoryAssumption DEF EdgeTypeOK
  <2>1. CASE t = clock
    <3>1. truth'[t] = r.weight
      BY <1>1, <1>2, <2>0, <2>1
    <3>2. ValidFor(last, t)' /\ last \in 1 .. len + 1
      BY <1>1, <1>4, <1>5, <2>1, <2>9 DEF ValidFor
    <3>3. ASSUME NEW n \in 1 .. len PROVE ~ValidFor(n, t)'
      <4>1. versions'[n].to \in Nat /\ versions'[n].to <= clock
        BY <1>6
      <4> QED BY <1>1, <2>1, <4>1, HistoryAssumption DEF ValidFor
    <3>4. versions'[last].weight = r.weight
      BY <1>4, <1>5, <2>9
    <3>5. \A n \in 1 .. len + 1 : n \in 1 .. len \/ n = last
      BY <1>1, <2>9
    <3> QED BY <3>1, <3>2, <3>3, <3>4, <3>5
  <2>2. CASE t < clock
    <3>1. truth'[t] = truth[t]
      BY <1>1, <1>2, <2>0, <2>2
    <3>2. ~ValidFor(last, t)'
      BY <1>1, <1>4, <1>5, <2>0, <2>2, <2>9 DEF ValidFor
    <3>3. ASSUME NEW n \in 1 .. len PROVE ValidFor(n, t)' <=> ValidFor(n, t)
      <4>1. CASE n = len
        BY <1>1, <1>6, <2>0, <2>2, <4>1 DEF ValidFor
      <4>2. CASE n # len
        BY <1>1, <1>6, <4>2 DEF ValidFor
      <4> QED BY <4>1, <4>2
    <3>4. DOMAIN versions = 1 .. len
      BY <1>1
    <3>5. \A n \in 1 .. len + 1 : n \in 1 .. len \/ n = last
      BY <1>1, <2>9
    <3>6. /\ truth[t] # None => \E n \in 1 .. len : ValidFor(n, t)
          /\ \A n \in 1 .. len : ValidFor(n, t) => truth[t] = versions[n].weight
      BY <3>4 DEF PastInv, Told
    <3>7. \A n \in 1 .. len : /\ versions'[n].weight = versions[n].weight
                             /\ n \in 1 .. len + 1
      BY <1>1, <1>6
    <3> QED BY <3>1, <3>2, <3>3, <3>5, <3>6, <3>7
  <2> QED BY <1>1, <2>0, <2>1, <2>2
<1>9. \A q \in Procs : edgePc'[q] # "write"
  BY DEF RecordWrite, EdgesAreCalm, EdgeTypeOK
<1> QED BY <1>7, <1>8, <1>9 DEF PastInv

LEMMA PastStep ==
  ASSUME EdgeInv, ~overlap, EdgesAreCalm, PastInv, [EdgeNext]_edgeVars
  PROVE  PastInv'
<1> USE DEF PastInv, Dated, Told, ValidFor, EdgeInv, EdgeTypeOK
<1>1. CASE Tick
  BY <1>1, PastTick
<1>2. ASSUME NEW p \in Procs, NEW w \in Weights, RecordLook(p, w)
      PROVE  PastInv'
  BY <1>2 DEF RecordLook
<1>3. ASSUME NEW p \in Procs, RecordWrite(p) PROVE PastInv'
  BY <1>3, PastWrite
<1>4. ASSUME NEW p \in Procs, EdgeCrash(p) PROVE PastInv'
  BY <1>4 DEF EdgeCrash
<1>5. CASE UNCHANGED edgeVars
  BY <1>5 DEF edgeVars
<1> QED BY <1>1, <1>2, <1>3, <1>4, <1>5 DEF EdgeNext

(* The history of an edge is kept, unless calls run inside one another: one *)
(* active version with a chain behind it, and for every past time the       *)
(* weight that selectAsOf() would have given then.                          *)
THEOREM HistoryStays == EdgeSpec => []HistoryIsKept
<1> DEFINE Inv == EdgeInv /\ (~overlap => EdgesAreCalm /\ PastInv)
<1>1. EdgeInit => Inv
  BY EdgeInitial, PastInitial
<1>2. Inv /\ [EdgeNext]_edgeVars => Inv'
  BY EdgeStep, EdgeSerialStep, PastStep, EdgeOverlapStays
<1>3. Inv => HistoryIsKept
  BY PastAnswers
  DEF EdgeInv, EdgesAreCalm, Chained, OneActiveVersion, PastIsKept,
      HistoryIsKept
<1> QED BY <1>1, <1>2, <1>3, PTL DEF EdgeSpec

-----------------------------------------------------------------------------
(* Lessons: a cached verdict, a candidate and a draft name the sources that *)
(* their text was made of.                                                  *)
WrittenText == [from : SUBSET Origins, name : LessonNames]

LessonTypes ==
    /\ DOMAIN source = Origins /\ texts \in Seq(WrittenText)
    /\ DOMAIN verdict = Patterns /\ DOMAIN reviewed = Patterns
    /\ DOMAIN lessons = LessonNames
    /\ DOMAIN lessonPc = Procs /\ DOMAIN draft = Procs
    /\ promoting \in [Procs -> Patterns \cup {None}]
    /\ material \in [Procs -> [Patterns -> SUBSET Origins]]
    /\ ahead \in [Procs -> SUBSET Patterns]
    /\ DOMAIN offered = Procs
    /\ \A p \in Procs : DOMAIN offered[p] = Patterns

MadeOf(t, X) == t \in 1 .. Len(texts) /\ texts[t].from = X

MadeInv ==
    /\ LessonTypes
    /\ \A g \in Patterns : verdict[g] # None /\ verdict[g].text # NoLesson =>
          MadeOf(verdict[g].text, verdict[g].from)
    /\ \A p \in Procs :
          /\ \A g \in Patterns : offered[p][g] # None =>
                MadeOf(offered[p][g], material[p][g])
          /\ draft[p] # None /\ draft[p].class = "derived" =>
                MadeOf(draft[p].text, draft[p].from)
          /\ lessonPc[p] = "idle" =>
                draft[p] = None /\ \A g \in Patterns : offered[p][g] = None

LEMMA MadeInitial == LessonInit => MadeInv
  BY DEF LessonInit, MadeInv, LessonTypes

LEMMA AppendText ==
  ASSUME texts \in Seq(WrittenText), NEW e \in WrittenText,
         texts' = Append(texts, e)
  PROVE  /\ texts' \in Seq(WrittenText)
         /\ Len(texts') \in 1 .. Len(texts') /\ texts'[Len(texts')] = e
         /\ \A t \in 1 .. Len(texts) :
               t \in 1 .. Len(texts') /\ texts'[t] = texts[t]
<1>1. texts' \in Seq(WrittenText) /\ Len(texts') = Len(texts) + 1
      /\ Len(texts) \in Nat
  OBVIOUS
<1>2. texts'[Len(texts) + 1] = e
  OBVIOUS
<1>3. \A t \in 1 .. Len(texts) : texts'[t] = texts[t]
  OBVIOUS
<1> QED BY <1>1, <1>2, <1>3

LEMMA MadeReturn ==
  ASSUME MadeInv, NEW p \in Procs, LessonReturn(p), LessonTypes',
         UNCHANGED <<texts, verdict>>
  PROVE  MadeInv'
  BY DEF MadeInv, LessonTypes, LessonReturn, LessonGoto, MadeOf

LEMMA MadeStep ==
  ASSUME MadeInv, [LessonNext]_lessonVars
  PROVE  MadeInv'
<1> USE DEF MadeInv, LessonTypes, LessonGoto
<1>1. ASSUME NEW x \in Origins, NEW s, Moved(x, s) PROVE MadeInv'
  BY <1>1 DEF Moved, lessonStores, lessonLocals, MadeOf
<1>2. ASSUME NEW p \in Procs, NEW g \in Patterns \cup {None},
             FindCandidates(p, g)
      PROVE  MadeInv'
  BY <1>2 DEF FindCandidates, MayStart, lessonStores, MadeOf, Usable
<1>3. ASSUME NEW p \in Procs, NEW g \in Patterns, ReadCache(p, g)
      PROVE  MadeInv'
  BY <1>3 DEF ReadCache, InTurn, Cached, Offer, lessonStores, MadeOf
<1>4. ASSUME NEW p \in Procs, NEW g \in Patterns, SkipGroup(p, g)
      PROVE  MadeInv'
  BY <1>4 DEF SkipGroup, lessonStores, MadeOf
<1>5. ASSUME NEW p \in Procs, NEW g \in Patterns, AskLlm(p, g)
      PROVE  MadeInv'
  BY <1>5 DEF AskLlm, InTurn, lessonStores, MadeOf
<1>6. ASSUME NEW p \in Procs, NEW g \in Patterns, LlmAnswers(p, g)
      PROVE  MadeInv'
  <2>0. /\ lessonPc' = [lessonPc EXCEPT ![p] = "turn"]
        /\ ahead' = [ahead EXCEPT ![p] = @ \ {g}]
        /\ UNCHANGED <<source, lessons, reviewed, promoting, material, draft>>
        /\ lessonPc[p] = "extract"
    BY <1>6 DEF LlmAnswers
  <2>1. CASE UNCHANGED <<texts, verdict, offered>>
    BY <2>0, <2>1 DEF MadeOf
  <2>2. CASE WriteCache(p, g, NoLesson) /\ Offer(p, g, NoLesson)
             /\ UNCHANGED texts
    BY <2>0, <2>2 DEF WriteCache, Offer, MadeOf
  <2>3. ASSUME NEW n \in LessonNames,
               texts' = Append(texts, [from |-> material[p][g], name |-> n]),
               WriteCache(p, g, Len(texts')), Offer(p, g, Len(texts'))
        PROVE  MadeInv'
    <3> DEFINE e == [from |-> material[p][g], name |-> n]
    <3>1. e \in WrittenText /\ e.from = material[p][g]
      BY DEF WrittenText
    <3> HIDE DEF e
    <3>2. texts' = Append(texts, e)
      BY <2>3 DEF e
    <3> DEFINE t == Len(texts')
    <3>3. /\ texts' \in Seq(WrittenText) /\ t # NoLesson
          /\ t \in 1 .. Len(texts') /\ texts'[t].from = material[p][g]
          /\ \A k \in 1 .. Len(texts) :
                k \in 1 .. Len(texts') /\ texts'[k] = texts[k]
      BY <3>1, <3>2, AppendText DEF NoLesson
    <3>4. /\ verdict' = [verdict EXCEPT ![g] =
                            [from |-> material[p][g], text |-> t]]
          /\ offered' = [offered EXCEPT ![p][g] = t]
      BY <2>3, <3>3 DEF WriteCache, Offer
    <3> HIDE DEF t
    <3>5. LessonTypes'
      BY <2>0, <3>3, <3>4
    <3>6. (\A h \in Patterns : verdict[h] # None /\ verdict[h].text # NoLesson
              => MadeOf(verdict[h].text, verdict[h].from))'
      BY <3>3, <3>4 DEF MadeOf
    <3>7. (\A q \in Procs : \A h \in Patterns : offered[q][h] # None =>
              MadeOf(offered[q][h], material[q][h]))'
      BY <2>0, <3>3, <3>4 DEF MadeOf
    <3>8. (\A q \in Procs :
              /\ draft[q] # None /\ draft[q].class = "derived" =>
                    MadeOf(draft[q].text, draft[q].from)
              /\ lessonPc[q] = "idle" =>
                    draft[q] = None /\ \A h \in Patterns : offered[q][h] = None)'
      BY <2>0, <3>3, <3>4 DEF MadeOf
    <3> QED BY <3>5, <3>6, <3>7, <3>8
  <2> QED BY <1>6, <2>1, <2>2, <2>3 DEF LlmAnswers
<1>7. ASSUME NEW p \in Procs, EndListing(p) \/ PromoteFails(p) PROVE MadeInv'
  <2>1. LessonReturn(p) /\ UNCHANGED <<source, texts, verdict, lessons>>
    BY <1>7 DEF EndListing, PromoteFails, lessonStores
  <2>2. DOMAIN reviewed' = Patterns
    BY <1>7 DEF EndListing, PromoteFails
  <2> QED BY <2>1, <2>2, MadeReturn DEF LessonReturn
<1>8. ASSUME NEW p \in Procs, PromoteCandidate(p) PROVE MadeInv'
  BY <1>8 DEF PromoteCandidate, lessonStores, MadeOf
<1>9. ASSUME NEW p \in Procs, NEW n, NEW X, SaveCurated(p, n, X) PROVE MadeInv'
  BY <1>9 DEF SaveCurated, lessonStores, MadeOf
<1>10. ASSUME NEW p \in Procs, ValidateSources(p) PROVE MadeInv'
  <2>0. UNCHANGED <<source, texts, verdict, lessons, reviewed>>
    BY <1>10 DEF ValidateSources, lessonStores
  <2>1. CASE LessonReturn(p)
    BY <2>0, <2>1, MadeReturn DEF LessonReturn
  <2>2. CASE LessonGoto(p, "look") /\ UNCHANGED lessonLocals
    BY <2>0, <2>2 DEF lessonLocals, MadeOf
  <2> QED BY <1>10, <2>1, <2>2 DEF ValidateSources
<1>11. ASSUME NEW p \in Procs, LookUpName(p) PROVE MadeInv'
  BY <1>11 DEF LookUpName, lessonStores, MadeOf
<1>12. ASSUME NEW p \in Procs, SaveLesson(p) PROVE MadeInv'
  BY <1>12 DEF SaveLesson, LessonReturn, MadeOf
<1>13. CASE UNCHANGED lessonVars
  BY <1>13 DEF lessonVars, MadeOf
<1> QED BY <1>1, <1>2, <1>3, <1>4, <1>5, <1>6, <1>7, <1>8, <1>9, <1>10, <1>11,
           <1>12, <1>13 DEF LessonNext, EndSession, HideSession, DeleteSession

(* While nobody else is in a call: the cache holds what was offered, and    *)
(* for a group that was reviewed the text that was read, made of what the   *)
(* group still consists of; so the LLM is not asked about that group again. *)
ReviewInv ==
    /\ \A p, q \in Procs : lessonPc[p] # "idle" /\ lessonPc[q] # "idle"
                              => p = q
    /\ \A g \in Patterns : reviewed[g] # None =>
          /\ verdict[g] # None /\ verdict[g].text = reviewed[g]
          /\ verdict[g].from = Usable(g)
    /\ \A p \in Procs :
          /\ \A g \in Patterns : offered[p][g] # None =>
                /\ verdict[g] # None /\ verdict[g].text = offered[p][g]
                /\ verdict[g].from = material[p][g]
          /\ lessonPc[p] \in {"turn", "extract"} => \A g \in Patterns :
                reviewed[g] # None => material[p][g] = Usable(g)
          /\ lessonPc[p] = "extract" => \A g \in ahead[p] :
                g = Foremost(p) => reviewed[g] = None
          /\ draft[p] # None /\ draft[p].class = "derived" =>
                reviewed[promoting[p]] \in {None, draft[p].text}
          /\ lessonPc[p] \in {"look", "save"} =>
                \A x \in draft[p].from : source[x] = "open"

LEMMA ReviewInitial == LessonInit => ReviewInv
  BY DEF LessonInit, ReviewInv

LEMMA ReviewMoves ==
  ASSUME MadeInv, ReviewInv, ~overlap, NEW x \in Origins, NEW s, Moved(x, s)
  PROVE  ReviewInv'
<1> USE DEF ReviewInv, MadeInv, LessonTypes
<1>1. /\ source' = [source EXCEPT ![x] = s]
      /\ reviewed' = [reviewed EXCEPT ![PatternOf[x]] = None]
      /\ UNCHANGED <<texts, verdict, lessons, lessonPc, promoting, material,
                     ahead, offered, draft>>
      /\ \A p \in Procs : lessonPc[p] \notin {"look", "save"}
  BY DEF Moved, lessonStores, lessonLocals
<1>2. \A g \in Patterns : reviewed'[g] # None =>
         reviewed'[g] = reviewed[g] /\ Usable(g)' = Usable(g)
  BY <1>1 DEF Usable
<1>3. \A g : reviewed[g] = None => reviewed'[g] = None
  BY <1>1, LessonAssumption
<1> QED BY <1>1, <1>2, <1>3 DEF Foremost

LEMMA ReviewReturn ==
  ASSUME MadeInv, ReviewInv, NEW p \in Procs, lessonPc[p] # "idle",
         LessonReturn(p), UNCHANGED <<source, verdict, reviewed>>
  PROVE  ReviewInv'
<1> USE DEF ReviewInv, MadeInv, LessonTypes
<1>1. \A g \in Patterns : Usable(g)' = Usable(g)
  BY DEF Usable
<1>2. \A q \in Procs : q # p => lessonPc[q] = "idle" /\ lessonPc'[q] = "idle"
  BY DEF LessonReturn, LessonGoto
<1>3. \A q \in Procs : lessonPc'[q] = "idle"
  BY <1>2 DEF LessonReturn, LessonGoto
<1>4. \A q \in Procs : draft'[q] = None /\ \A g \in Patterns : offered'[q][g] = None
  BY <1>2 DEF LessonReturn
<1> QED BY <1>1, <1>3, <1>4

LEMMA ReviewStep ==
  ASSUME MadeInv, MadeInv', ReviewInv, ~overlap, [LessonNext]_lessonVars
  PROVE  ReviewInv'
<1> USE DEF ReviewInv, MadeInv, LessonTypes, LessonGoto
<1>0. ASSUME UNCHANGED source PROVE \A g : Usable(g)' = Usable(g)
  BY <1>0 DEF Usable
<1>1. ASSUME NEW x \in Origins, NEW s, Moved(x, s) PROVE ReviewInv'
  BY <1>1, ReviewMoves
<1>2. ASSUME NEW p \in Procs, NEW g \in Patterns \cup {None},
             FindCandidates(p, g)
      PROVE  ReviewInv'
  <2>1. /\ lessonPc' = [lessonPc EXCEPT ![p] = "turn"]
        /\ material' = [material EXCEPT ![p] = [h \in Patterns |-> Usable(h)]]
        /\ promoting' = [promoting EXCEPT ![p] = g]
        /\ UNCHANGED <<source, verdict, reviewed, offered, draft>>
        /\ \A q \in Procs : lessonPc[q] = "idle"
    BY <1>2 DEF FindCandidates, MayStart, lessonStores
  <2>2. \A q \in Procs : /\ draft'[q] = None
                         /\ \A h \in Patterns : offered'[q][h] = None
    BY <2>1
  <2>3. \A q \in Procs : lessonPc'[q] \in {"idle", "turn"}
                         /\ (lessonPc'[q] = "turn" => q = p)
    BY <2>1
  <2> QED BY <1>0, <2>1, <2>2, <2>3
<1>3. ASSUME NEW p \in Procs, NEW g \in Patterns, ReadCache(p, g)
      PROVE  ReviewInv'
  <2>1. /\ offered' = [offered EXCEPT ![p][g] =
                          IF verdict[g].text = NoLesson THEN None
                          ELSE verdict[g].text]
        /\ UNCHANGED <<source, verdict, reviewed, lessonPc, promoting,
                       material, draft>>
        /\ verdict[g] # None /\ verdict[g].from = material[p][g]
        /\ lessonPc[p] = "turn"
    BY <1>3 DEF ReadCache, InTurn, Cached, Offer, lessonStores
  <2>2. \A q \in Procs : lessonPc[q] # "extract"
    BY <2>1
  <2> QED BY <1>0, <2>1, <2>2
<1>4. ASSUME NEW p \in Procs, NEW g \in Patterns, SkipGroup(p, g)
      PROVE  ReviewInv'
  <2>1. /\ UNCHANGED <<source, verdict, reviewed, lessonPc, promoting,
                       material, offered, draft>>
        /\ lessonPc[p] = "turn"
    BY <1>4 DEF SkipGroup, InTurn, lessonStores
  <2>2. \A q \in Procs : lessonPc[q] # "extract"
    BY <2>1
  <2> QED BY <1>0, <2>1, <2>2
<1>5. ASSUME NEW p \in Procs, NEW g \in Patterns, AskLlm(p, g)
      PROVE  ReviewInv'
  <2>1. /\ UNCHANGED <<source, verdict, reviewed, promoting, material, ahead,
                       offered, draft>>
        /\ lessonPc' = [lessonPc EXCEPT ![p] = "extract"]
        /\ lessonPc[p] = "turn" /\ g = Foremost(p) /\ ~Cached(p, g)
    BY <1>5 DEF AskLlm, InTurn, lessonStores
  <2>2. reviewed[g] = None
    BY <2>1 DEF Cached
  <2>3. Foremost(p)' = Foremost(p)
    BY <2>1 DEF Foremost
  <2>4. \A q \in Procs : lessonPc'[q] = "extract" => q = p
    BY <2>1
  <2> QED BY <1>0, <2>1, <2>2, <2>3, <2>4
<1>6. ASSUME NEW p \in Procs, NEW g \in Patterns, LlmAnswers(p, g)
      PROVE  ReviewInv'
  <2>0. /\ lessonPc' = [lessonPc EXCEPT ![p] = "turn"]
        /\ UNCHANGED <<source, reviewed, promoting, material, draft>>
        /\ lessonPc[p] = "extract" /\ g \in ahead[p] /\ g = Foremost(p)
    BY <1>6 DEF LlmAnswers
  <2>1. reviewed[g] = None
    BY <2>0
  <2>2. \A q \in Procs : lessonPc'[q] # "extract"
    BY <2>0
  <2>3. CASE UNCHANGED <<verdict, offered>>
    BY <1>0, <2>0, <2>2, <2>3
  <2>4. ASSUME NEW t \in Nat, WriteCache(p, g, t), Offer(p, g, t)
        PROVE  ReviewInv'
    <3>1. [from |-> material[p][g], text |-> t] # None
      BY LessonAssumption
    <3>2. /\ verdict'[g] # None /\ verdict'[g].from = material[p][g]
          /\ verdict'[g].text = t
          /\ \A h \in Patterns : h # g => verdict'[h] = verdict[h]
      BY <2>4, <3>1 DEF WriteCache
    <3>3. /\ offered'[p][g] \in {None, t}
          /\ \A q \in Procs, h \in Patterns :
                q # p \/ h # g => offered'[q][h] = offered[q][h]
      BY <2>4 DEF Offer
    <3>4. \A q \in Procs : q # p => \A h \in Patterns : offered[q][h] = None
      BY <2>0
    <3>5. (\A h \in Patterns : reviewed[h] # None =>
              /\ verdict[h] # None /\ verdict[h].text = reviewed[h]
              /\ verdict[h].from = Usable(h))'
      <4>1. \A h \in Patterns : reviewed'[h] # None =>
               h # g /\ reviewed[h] # None /\ reviewed'[h] = reviewed[h]
        BY <2>0, <2>1
      <4>2. \A h \in Patterns : Usable(h)' = Usable(h)
        BY <1>0, <2>0
      <4> QED BY <2>0, <3>2, <4>1, <4>2
    <3>6. (\A q \in Procs, h \in Patterns : offered[q][h] # None =>
                /\ verdict[h] # None /\ verdict[h].text = offered[q][h]
                /\ verdict[h].from = material[q][h])'
      BY <2>0, <3>2, <3>3, <3>4
    <3> QED BY <1>0, <2>0, <2>2, <3>5, <3>6
  <2>5. Len(texts') \in Nat /\ NoLesson \in Nat
    BY DEF NoLesson
  <2> QED BY <1>6, <2>3, <2>4, <2>5 DEF LlmAnswers
<1>7. ASSUME NEW p \in Procs, EndListing(p) PROVE ReviewInv'
  <2>1. /\ lessonPc[p] = "turn" /\ LessonReturn(p)
        /\ reviewed' = [g \in Patterns |->
                          IF offered[p][g] # None /\ material[p][g] = Usable(g)
                          THEN offered[p][g] ELSE reviewed[g]]
        /\ UNCHANGED <<source, verdict>>
    BY <1>7 DEF EndListing, lessonStores
  <2>2. \A q \in Procs : q # p => lessonPc[q] = "idle"
    BY <2>1
  <2>3. \A q \in Procs :
           /\ lessonPc'[q] = "idle" /\ draft'[q] = None
           /\ \A g \in Patterns : offered'[q][g] = None
    BY <2>1, <2>2 DEF LessonReturn
  <2> QED BY <1>0, <2>1, <2>3
<1>8. ASSUME NEW p \in Procs, PromoteFails(p) PROVE ReviewInv'
  BY <1>8, ReviewReturn DEF PromoteFails, lessonStores
<1>9. ASSUME NEW p \in Procs, PromoteCandidate(p) PROVE ReviewInv'
  <2> DEFINE g == promoting[p]
             d == [name |-> texts[offered[p][g]].name, text |-> offered[p][g],
                   from |-> material[p][g], class |-> "derived"]
  <2>1. /\ lessonPc[p] = "turn" /\ g # None /\ offered[p][g] # None
        /\ draft' = [draft EXCEPT ![p] = d]
        /\ lessonPc' = [lessonPc EXCEPT ![p] = "validate"]
        /\ UNCHANGED <<source, verdict, reviewed, promoting, material, ahead,
                       offered>>
    BY <1>9 DEF PromoteCandidate, lessonStores
  <2>2. g \in Patterns
    BY <2>1
  <2>3. reviewed[g] \in {None, d.text}
    BY <2>1, <2>2
  <2> HIDE DEF d
  <2>4. \A q \in Procs : q # p => draft'[q] = draft[q]
    BY <2>1
  <2>5. draft'[p] = d
    BY <2>1
  <2>6. \A q \in Procs : lessonPc'[q] \in {"idle", "validate"}
    BY <2>1
  <2> QED BY <1>0, <2>1, <2>3, <2>4, <2>5, <2>6
<1>10. ASSUME NEW p \in Procs, NEW n \in LessonNames,
              NEW X \in {{}} \cup {{x} : x \in Origins}, SaveCurated(p, n, X)
       PROVE  ReviewInv'
  <2>1. /\ \A q \in Procs : lessonPc[q] = "idle"
        /\ draft' = [draft EXCEPT ![p] = [name |-> n, text |-> None,
                                         from |-> X, class |-> "curated"]]
        /\ lessonPc' = [lessonPc EXCEPT ![p] = "validate"]
        /\ UNCHANGED <<source, verdict, reviewed, promoting, material, ahead,
                       offered>>
    BY <1>10 DEF SaveCurated, MayStart, lessonStores
  <2>2. \A q \in Procs : draft'[q] # None => draft'[q].class = "curated"
    BY <2>1
  <2>3. \A q \in Procs : lessonPc'[q] \in {"idle", "validate"}
                         /\ (lessonPc'[q] # "idle" => q = p)
    BY <2>1
  <2> QED BY <1>0, <2>1, <2>2, <2>3
<1>11. ASSUME NEW p \in Procs, ValidateSources(p) PROVE ReviewInv'
  <2>0. lessonPc[p] = "validate" /\ UNCHANGED <<source, verdict, reviewed>>
    BY <1>11 DEF ValidateSources, lessonStores
  <2>1. CASE LessonReturn(p)
    BY <2>0, <2>1, ReviewReturn
  <2>2. CASE Permits(draft[p].from) /\ LessonGoto(p, "look")
             /\ UNCHANGED lessonLocals
    <3>1. \A q \in Procs : lessonPc'[q] \in {"idle", "look"}
                           /\ (lessonPc'[q] = "look" => q = p)
      BY <2>0, <2>2
    <3> QED BY <1>0, <2>0, <2>2, <3>1 DEF lessonLocals, Permits
  <2> QED BY <1>11, <2>1, <2>2 DEF ValidateSources
<1>12. ASSUME NEW p \in Procs, LookUpName(p) PROVE ReviewInv'
  <2>1. /\ lessonPc[p] = "look" /\ lessonPc' = [lessonPc EXCEPT ![p] = "save"]
        /\ UNCHANGED <<source, verdict, reviewed, promoting, material, offered,
                       draft>>
    BY <1>12 DEF LookUpName, lessonStores
  <2>2. \A q \in Procs : lessonPc'[q] \in {"idle", "save"}
                         /\ (lessonPc'[q] = "save" => q = p)
    BY <2>1
  <2> QED BY <1>0, <2>1, <2>2
<1>13. ASSUME NEW p \in Procs, SaveLesson(p) PROVE ReviewInv'
  BY <1>13, ReviewReturn DEF SaveLesson
<1>14. CASE UNCHANGED lessonVars
  BY <1>0, <1>14 DEF lessonVars, Foremost
<1> QED BY <1>1, <1>2, <1>3, <1>4, <1>5, <1>6, <1>7, <1>8, <1>9, <1>10, <1>11,
           <1>12, <1>13, <1>14
        DEF LessonNext, EndSession, HideSession, DeleteSession

(* For any number of sessions, groups, texts and processes: the text that a *)
(* promotion stores was made of the sources it cites; and when calls do not *)
(* overlap it is the text a reviewer has read, if the sources stayed, and   *)
(* what a stored lesson cites may be shared, though sessions are hidden and *)
(* deleted while an LLM writes.                                             *)
THEOREM LessonsAreAsReviewed == LessonSpec => LessonsAreReviewed
<1> DEFINE I == MadeInv /\ (~overlap => ReviewInv)
<1>1. LessonInit => I
  BY MadeInitial, ReviewInitial
<1>2. I /\ [LessonNext]_lessonVars => I'
  <2> SUFFICES ASSUME I, [LessonNext]_lessonVars PROVE I'
    OBVIOUS
  <2>1. UNCHANGED overlap
    BY DEF LessonNext, lessonVars, EndSession, HideSession, DeleteSession,
           Moved, FindCandidates, ReadCache, SkipGroup, AskLlm, LlmAnswers,
           EndListing, PromoteCandidate, PromoteFails, SaveCurated,
           ValidateSources, LookUpName, SaveLesson
  <2> QED BY <2>1, MadeStep, ReviewStep
<1>3. I => ReviewedIsStored
  BY DEF MadeInv, ReviewInv, MadeOf, ReviewedIsStored
<1>4. I /\ [LessonNext]_lessonVars =>
        [~overlap => \A n \in LessonNames :
            lessons'[n] # lessons[n] =>
                \A x \in lessons'[n].from : source[x] = "open"]_lessonVars
  <2> SUFFICES ASSUME I, LessonNext, ~overlap, NEW n \in LessonNames,
                      lessons'[n] # lessons[n]
               PROVE  \A x \in lessons'[n].from : source[x] = "open"
    OBVIOUS
  <2>1. PICK p \in Procs : SaveLesson(p)
    BY DEF LessonNext, EndSession, HideSession, DeleteSession, Moved,
           FindCandidates, ReadCache, SkipGroup, AskLlm, LlmAnswers,
           EndListing, PromoteCandidate, PromoteFails, SaveCurated,
           ValidateSources, LookUpName, lessonStores
  <2> QED BY <2>1 DEF SaveLesson, MadeInv, LessonTypes, ReviewInv
<1> HIDE DEF I
<1> QED BY <1>1, <1>2, <1>3, <1>4, PTL
        DEF LessonSpec, LessonsAreReviewed, CitesSharedOnly

-----------------------------------------------------------------------------
(* Derived observations: their level and what they are of.                  *)
Derivations == {"deductive", "inductive", "contradiction"} \X SUBSET Remarks

(* The rest R of what is derivable, D, after the M first of it.             *)
LeftOf(D, R, M) ==
    /\ M + Len(R) = Len(D)
    /\ \A j \in 1..Len(R) : R[j] = D[M + j]

PersInv ==
    /\ obsDone \subseteq obsIndex \cup passedOver
    /\ budget \in Nat
    /\ card \subseteq Remarks \cup OwnEntries
    /\ persPc \in [Procs -> {"idle", "derive", "card", "edit"}]
    /\ sources \in [Procs -> Seq(Grounded)]
    /\ derivable \in [Procs -> Seq(Derivations)]
    /\ made \in [Procs -> Nat]
    /\ cardRead \in [Procs -> SUBSET (Remarks \cup OwnEntries)]

(* A consolidation that runs alone: its sources are live, and so is what it *)
(* has derived; the card is the one it has read.                            *)
SerialPers ==
    \A p \in Procs :
        /\ \A q \in Procs : persPc[p] # "idle" /\ persPc[q] # "idle" => p = q
        /\ persPc[p] = "idle" => made[p] = 0
        /\ persPc[p] = "derive" =>
              /\ \A x \in Range(sources[p]) : Live(x)
              /\ made[p] <= budget
              /\ LeftOf(Derivable(sources[p]), derivable[p], made[p])
              /\ \A i \in 1..made[p] : Derivable(sources[p])[i] \in obsLive
        /\ persPc[p] = "card" =>
              /\ card = cardRead[p]
              /\ \A i \in 1..Len(Derivable(sources[p])) :
                    i <= budget => Derivable(sources[p])[i] \in obsLive

LEMMA SequenceOfSet ==
  ASSUME NEW S, IsFiniteSet(S)
  PROVE  SetToSeq(S) \in Seq(S)
<1>1. Cardinality(S) \in Nat /\ ExistsBijection(1..Cardinality(S), S)
  BY FS_CardinalityType
<1>2. \E f \in [1..Cardinality(S) -> S] : IsInjective(f)
  BY <1>1 DEF ExistsBijection, Bijection, Injection
<1>3. SetToSeq(S) \in [1..Cardinality(S) -> S]
  BY <1>2 DEF SetToSeq
<1> QED BY <1>1, <1>3

(* Everything derived from S is of statements in S.                         *)
LEMMA DerivableOf ==
  ASSUME NEW S \in Seq(Grounded)
  PROVE  /\ Derivable(S) \in Seq(Derivations)
         /\ \A i \in 1..Len(Derivable(S)) :
               Derivable(S)[i][2] \subseteq Range(S)
<1> DEFINE Of == {"deductive", "inductive", "contradiction"} \X SUBSET Range(S)
           Each == [i \in 1..Len(S) |-> <<"deductive", {S[i]}>>]
           All == IF Len(S) < 2 THEN <<>> ELSE << <<"inductive", Range(S)>> >>
           C == Opposed \cap SUBSET Range(S)
           Pairs == {<<"contradiction", P>> : P \in C}
<1>1. Range(S) \subseteq Remarks /\ Len(S) \in Nat
      /\ \A i \in 1..Len(S) : S[i] \in Range(S)
  BY PerspectiveAssumption DEF Range
<1>2. Each \in Seq(Of)
  <2>1. \A i \in 1..Len(S) : <<"deductive", {S[i]}>> \in Of
    BY <1>1
  <2>2. Each \in [1..Len(S) -> Of]
    BY <2>1
  <2>3. Len(S) \in Nat
    BY <1>1
  <2> HIDE DEF Of, Each
  <2> QED BY <2>2, <2>3
<1>3. All \in Seq(Of)
  <2>1. <<"inductive", Range(S)>> \in Of
    OBVIOUS
  <2> HIDE DEF Of
  <2> QED BY <2>1
<1>4. IsFiniteSet(Pairs)
  <2>1. IsFiniteSet(SUBSET Range(S))
    BY <1>1, PerspectiveAssumption, FS_Subset, FS_SUBSET
  <2>2. IsFiniteSet(C)
    BY <2>1, FS_Subset
  <2>3. [P \in C |-> <<"contradiction", P>>] \in Surjection(C, Pairs)
    BY DEF Surjection
  <2> QED BY <2>2, <2>3, FS_Surjection
<1>5. SetToSeq(Pairs) \in Seq(Of)
  <2>1. Pairs \subseteq Of
    OBVIOUS
  <2>2. SetToSeq(Pairs) \in Seq(Pairs)
    BY <1>4, SequenceOfSet
  <2> HIDE DEF Pairs, Of
  <2> QED BY <2>1, <2>2
<1>6. Derivable(S) \in Seq(Of)
  <2>1. Derivable(S) = (Each \o All) \o SetToSeq(Pairs)
    BY DEF Derivable
  <2> HIDE DEF Pairs, Of, Each, All
  <2> QED BY <2>1, <1>2, <1>3, <1>5
<1>7. Of \subseteq Derivations
  BY <1>1 DEF Derivations
<1>8. \A i \in 1..Len(Derivable(S)) : Derivable(S)[i] \in Of
  <2> HIDE DEF Of
  <2> QED BY <1>6
<1>9. Derivable(S) \in Seq(Derivations)
  <2> HIDE DEF Of
  <2> QED BY <1>6, <1>7
<1> QED BY <1>8, <1>9

LEMMA SourcesOf ==
  ASSUME NEW S \in SetToSeqs(Queried)
  PROVE  S \in Seq(Grounded) /\ Range(S) \subseteq Queried
<1>1. Queried \subseteq Grounded /\ Cardinality(Queried) \in Nat
  BY PerspectiveAssumption, FS_Subset, FS_CardinalityType DEF Queried
<1>2. S \in [1..Cardinality(Queried) -> Queried]
  BY DEF SetToSeqs
<1>3. S \in Seq(Queried)
  BY <1>1, <1>2
<1> QED BY <1>1, <1>2, <1>3 DEF Range

LEMMA LastExists ==
  ASSUME NEW n \in Nat, NEW I, I \subseteq 1..n, I # {}
  PROVE  \E m \in I : \A i \in I : i <= m
<1> DEFINE T == {n - i : i \in I}
<1>1. T \subseteq Nat /\ T # {}
  <2>1. \A i \in I : i \in Int /\ i <= n /\ n - i \in Nat
    OBVIOUS
  <2> QED BY <2>1
<1>2. PICK x \in T : \A y \in T : ~ (<<y, x>> \in OpToRel(<, Nat))
  BY <1>1, NatLessThanWellFounded, WFMin
<1>3. PICK m \in I : x = n - m
  BY <1>2
<1>4. ASSUME NEW i \in I PROVE i <= m
  <2>1. ~ (n - i < n - m) /\ n - i \in Nat
    BY <1>1, <1>2, <1>3 DEF OpToRel
  <2> QED BY <2>1
<1> QED BY <1>4

(* Maintenance keeps the card within its size: the last entry accepted had  *)
(* room after all the others.                                               *)
LEMMA CardFits ==
  ASSUME PersInv, NEW p \in Procs
  PROVE  /\ Maintained(p) \subseteq Remarks \cup OwnEntries
         /\ NewEntries(p) # {} => Cardinality(Maintained(p)) <= CardLimit
<1> DEFINE I == Accepted(p)
           n == Len(sources[p])
<1>0. sources[p] \in Seq(Grounded) /\ IsFiniteSet(cardRead[p])
      /\ cardRead[p] \subseteq Remarks \cup OwnEntries
  <2>1. IsFiniteSet(Remarks \cup OwnEntries)
    BY PerspectiveAssumption, FS_Union
  <2> QED BY <2>1, FS_Subset DEF PersInv
<1>1. n \in Nat /\ Eligible(p) \subseteq 1..n /\ I \subseteq Eligible(p)
  BY <1>0 DEF Eligible, Accepted
<1>2. IsFiniteSet(Eligible(p)) /\ IsFiniteSet(I)
  <2>1. IsFiniteSet(1..n)
    BY <1>1, FS_Interval
  <2> QED BY <1>1, <2>1, FS_Subset
<1>3. IsFiniteSet(NewEntries(p)) /\ Cardinality(NewEntries(p)) <= Cardinality(I)
  <2>1. [i \in I |-> sources[p][i]] \in Surjection(I, NewEntries(p))
    BY DEF Surjection, NewEntries
  <2> QED BY <1>2, <2>1, FS_Surjection
<1>4. /\ IsFiniteSet(Maintained(p))
      /\ Cardinality(Maintained(p))
            <= Cardinality(cardRead[p]) + Cardinality(NewEntries(p))
  <2>1. cardRead[p] \cap NewEntries(p) \in SUBSET cardRead[p]
    OBVIOUS
  <2>2. IsFiniteSet(cardRead[p] \cap NewEntries(p))
    BY <1>0, <2>1, FS_Subset
  <2>3. /\ IsFiniteSet(Maintained(p))
        /\ Cardinality(Maintained(p))
              = Cardinality(cardRead[p]) + Cardinality(NewEntries(p))
                - Cardinality(cardRead[p] \cap NewEntries(p))
    BY <1>0, <1>3, FS_Union DEF Maintained
  <2>4. /\ Cardinality(cardRead[p]) \in Nat
        /\ Cardinality(NewEntries(p)) \in Nat
        /\ Cardinality(cardRead[p] \cap NewEntries(p)) \in Nat
    BY <1>0, <1>3, <2>2, FS_CardinalityType
  <2> QED BY <2>3, <2>4
<1>5. Maintained(p) \subseteq Remarks \cup OwnEntries
  BY <1>0, <1>1, PerspectiveAssumption DEF Maintained, NewEntries, Eligible
<1>6. ASSUME NewEntries(p) # {}
      PROVE  Cardinality(Maintained(p)) <= CardLimit
  <2>1. I # {}
    BY <1>6 DEF NewEntries
  <2>2. PICK m \in I : \A i \in I : i <= m
    BY <1>1, <2>1, LastExists
  <2> DEFINE Before == {j \in Eligible(p) : j < m}
  <2>3. Cardinality(cardRead[p]) + Cardinality(Before) < CardLimit
    BY <2>2 DEF Accepted, Fits
  <2>4. I \ {m} \subseteq Before /\ Before \subseteq Eligible(p)
    BY <1>1, <2>2
  <2>5. Cardinality(I \ {m}) <= Cardinality(Before) /\ IsFiniteSet(Before)
    BY <1>2, <2>4, FS_Subset
  <2>6. Cardinality(I) - 1 = Cardinality(I \ {m})
    BY <1>2, <2>2, FS_RemoveElement
  <2>7. /\ Cardinality(I) \in Nat /\ Cardinality(Before) \in Nat
        /\ Cardinality(cardRead[p]) \in Nat /\ CardLimit \in Nat
        /\ Cardinality(NewEntries(p)) \in Nat
        /\ Cardinality(Maintained(p)) \in Nat
        /\ Cardinality(I \ {m}) \in Nat
    <3>1. IsFiniteSet(I \ {m})
      BY <1>2, FS_RemoveElement
    <3> QED BY <3>1, <1>0, <1>2, <1>3, <1>4, <2>5, FS_CardinalityType,
               PerspectiveAssumption
  <2> HIDE DEF I, Before
  <2> QED BY <1>3, <1>4, <2>3, <2>5, <2>6, <2>7
<1> QED BY <1>5, <1>6

LEMMA PersInitial == PersInit => PersInv /\ SerialPers
<1> SUFFICES ASSUME PersInit PROVE PersInv /\ SerialPers
  OBVIOUS
<1>1. PersInv
  BY PerspectiveAssumption DEF PersInit, PersInv
<1>2. SerialPers
  BY DEF PersInit, SerialPers
<1> QED BY <1>1, <1>2

LEMMA PersStep == PersInv /\ [PersNext]_persVars => PersInv'
<1> SUFFICES ASSUME PersInv, [PersNext]_persVars PROVE PersInv'
  OBVIOUS
<1> USE DEF PersInv
<1> DEFINE Entries == Remarks \cup OwnEntries
<1>0. UNCHANGED budget
  BY DEF PersNext, persVars, Observe, DeleteObservation, TakeObservation,
         IndexObservation, CleanObservations, ConsolidatePair, DeriveNext,
         ReadCard, UpsertCard, PersFail, OpenCard, SaveCard
<1>1. (obsDone \subseteq obsIndex \cup passedOver)'
  BY DEF PersNext, persVars, obsStores, Observe, CreateObservation,
         DeleteObservation, VectorsAfter, TakeObservation, IndexObservation,
         CleanObservations, ConsolidatePair, DeriveNext, ReadCard, UpsertCard,
         PersFail, OpenCard, SaveCard
<1>2. \/ UNCHANGED <<card, persPc, sources, derivable, made, cardRead>>
      \/ \E p \in Procs :
            \/ ConsolidatePair(p) \/ DeriveNext(p) \/ ReadCard(p)
            \/ UpsertCard(p) \/ PersFail(p) \/ OpenCard(p)
            \/ \E e \in OwnEntries : SaveCard(p, cardRead[p] \cup {e})
            \/ \E e \in cardRead[p] : SaveCard(p, cardRead[p] \ {e})
  BY DEF PersNext, persVars, persLocals, Observe, DeleteObservation,
         TakeObservation, IndexObservation, CleanObservations
<1> DEFINE Locals ==
             /\ card' \subseteq Entries
             /\ persPc' \in [Procs -> {"idle", "derive", "card", "edit"}]
             /\ sources' \in [Procs -> Seq(Grounded)]
             /\ derivable' \in [Procs -> Seq(Derivations)]
             /\ made' \in [Procs -> Nat]
             /\ cardRead' \in [Procs -> SUBSET Entries]
<1>3. ASSUME NEW p \in Procs, PersReturn(p), card' \subseteq Entries
      PROVE  Locals
  BY <1>3 DEF PersReturn, PersGoto
<1>4. ASSUME NEW p \in Procs, ConsolidatePair(p) PROVE Locals
  <2>1. PICK S \in SetToSeqs(Queried) :
           /\ sources' = [sources EXCEPT ![p] = S]
           /\ derivable' = [derivable EXCEPT ![p] = Derivable(S)]
    BY <1>4 DEF ConsolidatePair
  <2>2. S \in Seq(Grounded)
    BY SourcesOf
  <2>3. Derivable(S) \in Seq(Derivations)
    BY <2>2, DerivableOf
  <2>4. sources' \in [Procs -> Seq(Grounded)]
    BY <2>1, <2>2
  <2>5. derivable' \in [Procs -> Seq(Derivations)]
    BY <2>1, <2>3
  <2> QED BY <1>4, <2>4, <2>5 DEF ConsolidatePair, PersGoto
<1>5. ASSUME NEW p \in Procs, DeriveNext(p) PROVE Locals
  <2>1. Tail(derivable[p]) \in Seq(Derivations) /\ made[p] + 1 \in Nat
    BY <1>5 DEF DeriveNext
  <2> QED BY <1>5, <2>1 DEF DeriveNext
<1>6. ASSUME NEW p \in Procs, ReadCard(p) \/ OpenCard(p) PROVE Locals
  BY <1>6 DEF ReadCard, OpenCard, PersGoto
<1>7. ASSUME NEW p \in Procs, UpsertCard(p) PROVE Locals
  <2>1. card' \subseteq Entries
    BY <1>7, CardFits DEF UpsertCard
  <2> QED BY <1>3, <1>7, <2>1 DEF UpsertCard
<1>8. ASSUME NEW p \in Procs, PersFail(p) PROVE Locals
  BY <1>3, <1>8 DEF PersFail
<1>9. ASSUME NEW p \in Procs, NEW E \in SUBSET Entries, SaveCard(p, E)
      PROVE  Locals
  BY <1>3, <1>9 DEF SaveCard
<1>10. Locals
  <2>1. CASE UNCHANGED <<card, persPc, sources, derivable, made, cardRead>>
    BY <2>1
  <2>2. \A p \in Procs : cardRead[p] \in SUBSET Entries
    OBVIOUS
  <2>3. \A p \in Procs : \A e \in OwnEntries :
           cardRead[p] \cup {e} \in SUBSET Entries
    BY <2>2
  <2>4. \A p \in Procs : \A e \in cardRead[p] :
           cardRead[p] \ {e} \in SUBSET Entries
    BY <2>2
  <2> HIDE DEF Locals, Entries
  <2> QED BY <1>2, <2>1, <1>4, <1>5, <1>6, <1>7, <1>8, <1>9, <2>3, <2>4
<1> QED BY <1>0, <1>1, <1>10

(* Alone, nobody but the worker moves while p does, and the worker changes  *)
(* neither what is live nor the card.                                       *)
LEMMA SerialPersStep ==
  PersInv /\ SerialPers /\ ~overlap /\ [PersNext]_persVars => SerialPers'
<1> SUFFICES ASSUME PersInv, SerialPers, ~overlap, [PersNext]_persVars
             PROVE  SerialPers'
  OBVIOUS
<1> USE DEF PersInv
<1>1. CASE UNCHANGED <<obsLive, card, budget, persPc, sources, derivable,
                       made, cardRead>>
  BY <1>1 DEF SerialPers, Live
<1>2. ASSUME PersMove, UNCHANGED persPc, UNCHANGED made PROVE SerialPers'
  BY <1>2 DEF PersMove, SerialPers
<1>3. ASSUME NEW p \in Procs, persPc[p] # "idle", PersReturn(p)
      PROVE  SerialPers'
  <2>1. \A q \in Procs : persPc'[q] = "idle" /\ made'[q] = 0
    BY <1>3 DEF PersReturn, PersGoto, SerialPers
  <2> QED BY <2>1 DEF SerialPers
<1>4. ASSUME NEW p \in Procs, ConsolidatePair(p) PROVE SerialPers'
  <2>1. \A q \in Procs : persPc[q] = "idle" /\ made[q] = 0
    BY <1>4 DEF ConsolidatePair, PersStart, PersMove, SerialPers
  <2>2. \A q \in Procs : persPc'[q] = IF q = p THEN "derive" ELSE "idle"
    BY <1>4, <2>1 DEF ConsolidatePair, PersGoto
  <2>3. PICK S \in SetToSeqs(Queried) :
           /\ sources' = [sources EXCEPT ![p] = S]
           /\ derivable' = [derivable EXCEPT ![p] = Derivable(S)]
    BY <1>4 DEF ConsolidatePair
  <2>4. S \in Seq(Grounded) /\ Range(S) \subseteq Queried
    BY SourcesOf
  <2>5. sources'[p] = S /\ derivable'[p] = Derivable(S)
    BY <2>3
  <2>6. Derivable(S) \in Seq(Derivations)
    BY <2>4, DerivableOf
  <2>7. UNCHANGED <<obsLive, budget, made>>
    BY <1>4 DEF ConsolidatePair, obsStores
  <2>8. \A x \in Range(S) : Live(x)'
    BY <2>4, <2>7 DEF Queried, Live
  <2>9. LeftOf(Derivable(S), Derivable(S), 0)
    BY <2>6 DEF LeftOf
  <2>10. made'[p] = 0 /\ 0 <= budget
    BY <2>1, <2>7
  <2>11. /\ \A x \in Range(sources'[p]) : Live(x)'
         /\ made'[p] <= budget'
         /\ LeftOf(Derivable(sources'[p]), derivable'[p], made'[p])
         /\ \A i \in 1..made'[p] : Derivable(sources'[p])[i] \in obsLive'
    BY <2>5, <2>7, <2>8, <2>9, <2>10
  <2>12. \A q, r \in Procs :
            persPc'[q] # "idle" /\ persPc'[r] # "idle" => q = r
    BY <2>2
  <2>13. \A q \in Procs : made'[q] = 0 /\ persPc'[q] # "card"
    BY <2>1, <2>2, <2>7
  <2>14. \A q \in Procs : persPc'[q] = "derive" => q = p
    BY <2>2
  <2> HIDE DEF PersInv
  <2> QED BY <2>11, <2>12, <2>13, <2>14 DEF SerialPers
<1>5. ASSUME NEW p \in Procs, DeriveNext(p) PROVE SerialPers'
  <2> DEFINE D == Derivable(sources[p])
             R == derivable[p]
             m == made[p]
  <2>1. /\ R \in Seq(Derivations) /\ R # <<>> /\ m \in Nat /\ m < budget
        /\ D \in Seq(Derivations)
        /\ LeftOf(D, R, m)
        /\ \A i \in 1..m : D[i] \in obsLive
    BY <1>5, DerivableOf DEF DeriveNext, SerialPers
  <2>2. /\ persPc' = persPc /\ sources' = sources /\ budget' = budget
        /\ card' = card /\ cardRead' = cardRead
        /\ derivable'[p] = Tail(R) /\ made'[p] = m + 1
        /\ obsLive' = obsLive \cup {Head(R)}
        /\ \A q \in Procs \ {p} : made'[q] = made[q]
    BY <1>5 DEF DeriveNext, CreateObservation
  <2>3. LeftOf(D, Tail(R), m + 1) /\ Head(R) = D[m + 1]
    <3> HIDE DEF D, R, m
    <3>1. Len(R) \in Nat \ {0} /\ Len(Tail(R)) = Len(R) - 1
      BY <2>1
    <3>2. \A j \in 1..Len(Tail(R)) :
             Tail(R)[j] = R[j + 1] /\ j + 1 \in 1..Len(R)
      BY <2>1, <3>1
    <3>3. ASSUME NEW j \in 1..Len(Tail(R)) PROVE Tail(R)[j] = D[(m + 1) + j]
      <4>1. Tail(R)[j] = D[m + (j + 1)]
        BY <2>1, <3>2 DEF LeftOf
      <4>2. m + (j + 1) = (m + 1) + j
        BY <2>1, <3>1
      <4> QED BY <4>1, <4>2
    <3>4. Head(R) = R[1] /\ 1 \in 1..Len(R)
      BY <2>1, <3>1
    <3>5. Head(R) = D[m + 1]
      BY <2>1, <3>4 DEF LeftOf
    <3>6. Len(D) \in Nat /\ (m + 1) + (Len(R) - 1) = Len(D)
      BY <2>1, <3>1 DEF LeftOf
    <3> QED BY <3>1, <3>3, <3>5, <3>6 DEF LeftOf
  <2>4. \A i \in 1..(m + 1) : D[i] \in obsLive'
    <3> HIDE DEF D, R, m
    <3>1. \A i \in 1..(m + 1) : i \in 1..m \/ i = m + 1
      BY <2>1
    <3> QED BY <2>1, <2>2, <2>3, <3>1
  <2>5. \A q \in Procs : persPc'[q] # "idle" => q = p
    BY <1>5, <2>2 DEF DeriveNext, SerialPers
  <2>6. persPc'[p] = "derive" /\ \A x \in Range(sources'[p]) : Live(x)'
    BY <1>5, <2>2 DEF DeriveNext, SerialPers, Live
  <2>7. /\ made'[p] <= budget'
        /\ LeftOf(Derivable(sources'[p]), derivable'[p], made'[p])
        /\ \A i \in 1..made'[p] : Derivable(sources'[p])[i] \in obsLive'
    BY <2>1, <2>2, <2>3, <2>4
  <2>8. \A q \in Procs : persPc'[q] = "idle" => made'[q] = 0
    BY <2>2, <2>6 DEF SerialPers
  <2> QED BY <2>5, <2>6, <2>7, <2>8 DEF SerialPers
<1>6. ASSUME NEW p \in Procs, ReadCard(p) PROVE SerialPers'
  <2>1. /\ persPc' = [persPc EXCEPT ![p] = "card"]
        /\ UNCHANGED <<card, made>>
        /\ cardRead' = [cardRead EXCEPT ![p] = card]
        /\ persPc[p] = "derive"
    BY <1>6 DEF ReadCard, PersGoto
  <2>2. \A q \in Procs : persPc'[q] = IF q = p THEN "card" ELSE "idle"
    BY <2>1 DEF SerialPers
  <2>3. UNCHANGED <<obsLive, budget, sources>>
    BY <1>6 DEF ReadCard, obsStores
  <2> DEFINE D == Derivable(sources[p])
  <2>4. ASSUME NEW i \in 1..Len(D), i <= budget PROVE D[i] \in obsLive
    <3>1. D \in Seq(Derivations) /\ derivable[p] \in Seq(Derivations)
      BY DerivableOf
    <3>2. derivable[p] = <<>> \/ made[p] >= budget
      BY <1>6 DEF ReadCard, Spent
    <3>3. /\ made[p] \in Nat /\ LeftOf(D, derivable[p], made[p])
          /\ \A j \in 1..made[p] : D[j] \in obsLive
      BY <2>1 DEF SerialPers
    <3> HIDE DEF D
    <3>4. i <= made[p]
      BY <2>4, <3>1, <3>2, <3>3 DEF LeftOf
    <3> QED BY <3>3, <3>4
  <2>5. (\A i \in 1..Len(Derivable(sources[p])) :
            i <= budget => Derivable(sources[p])[i] \in obsLive)'
    BY <2>3, <2>4
  <2>6. card' = cardRead'[p] /\ persPc'[p] = "card"
    BY <2>1
  <2>7. \A q, r \in Procs :
           persPc'[q] # "idle" /\ persPc'[r] # "idle" => q = r
    BY <2>2
  <2>8. \A q \in Procs : persPc'[q] = "idle" => made'[q] = 0
    BY <2>1, <2>2 DEF SerialPers
  <2>9. \A q \in Procs : persPc'[q] # "derive" /\ (persPc'[q] = "card" => q = p)
    BY <2>2
  <2> HIDE DEF PersInv
  <2> QED BY <2>5, <2>6, <2>7, <2>8, <2>9 DEF SerialPers
<1>7. ASSUME NEW p \in Procs, OpenCard(p) PROVE SerialPers'
  <2>1. \A q \in Procs : persPc'[q] = IF q = p THEN "edit" ELSE "idle"
    BY <1>7 DEF OpenCard, PersGoto, PersStart, PersMove
  <2>2. \A q \in Procs : made'[q] = 0
    BY <1>7 DEF OpenCard, PersStart, PersMove, SerialPers
  <2>3. \A q \in Procs : persPc'[q] # "derive" /\ persPc'[q] # "card"
    BY <2>1
  <2>4. \A q, r \in Procs :
           persPc'[q] # "idle" /\ persPc'[r] # "idle" => q = r
    BY <2>1
  <2> HIDE DEF PersInv
  <2> QED BY <2>2, <2>3, <2>4 DEF SerialPers
<1>8. ASSUME NEW p \in Procs,
             UpsertCard(p) \/ PersFail(p) \/ \E E : SaveCard(p, E)
      PROVE  SerialPers'
  BY <1>3, <1>8 DEF UpsertCard, PersFail, SaveCard
<1>9. CASE UNCHANGED persVars
  BY <1>1, <1>9 DEF persVars
<1>10. CASE TakeObservation \/ IndexObservation \/ CleanObservations
  BY <1>1, <1>10 DEF TakeObservation, IndexObservation, CleanObservations,
                     persLocals
<1>11. ASSUME NEW x, Observe(x) PROVE SerialPers'
  BY <1>2, <1>11 DEF Observe, persLocals
<1>12. ASSUME NEW o, DeleteObservation(o) PROVE SerialPers'
  BY <1>2, <1>12 DEF DeleteObservation, persLocals
<1> QED BY <1>4, <1>5, <1>6, <1>7, <1>8, <1>9, <1>10, <1>11, <1>12 DEF PersNext

(* For any number of statements, processes and consolidations: a live       *)
(* observation whose job is done can be found; a consolidation that runs    *)
(* alone leaves out nothing that its budget allows and derives nothing from *)
(* what was deleted; and the card stays within its size and loses nothing   *)
(* (perspective-consolidator.ts, perspective-observation-repository.ts).    *)
THEOREM ObservationsAreKept == PersSpec => ObservationsHold
<1> DEFINE I == PersInv /\ (~overlap => SerialPers)
<1>1. PersInit => I
  BY PersInitial
<1>2. I /\ [PersNext]_persVars => I'
  <2>1. [PersNext]_persVars => UNCHANGED overlap
    BY DEF PersNext, persVars, Observe, DeleteObservation, TakeObservation,
           IndexObservation, CleanObservations, ConsolidatePair, DeriveNext,
           ReadCard, UpsertCard, PersFail, OpenCard, SaveCard
  <2> QED BY <2>1, PersStep, SerialPersStep
<1>3. I => LiveIsFound /\ NothingLeftOut
  <2> SUFFICES ASSUME I PROVE LiveIsFound /\ NothingLeftOut
    OBVIOUS
  <2>1. LiveIsFound
    BY DEF PersInv, LiveIsFound
  <2>2. ASSUME NEW p \in Procs, persPc[p] = "card", ~overlap,
               NEW i \in 1..(IF Len(Derivable(sources[p])) <= budget
                             THEN Len(Derivable(sources[p])) ELSE budget)
        PROVE  Derivable(sources[p])[i] \in obsLive
    <3>1. Derivable(sources[p]) \in Seq(Derivations) /\ budget \in Nat
      BY DerivableOf DEF PersInv
    <3>2. i \in 1..Len(Derivable(sources[p])) /\ i <= budget
      BY <2>2, <3>1
    <3> QED BY <2>2, <3>2 DEF SerialPers
  <2> QED BY <2>1, <2>2 DEF NothingLeftOut
<1>4. I /\ [PersNext]_persVars =>
        [~overlap => \A o \in obsLive' \ obsLive :
            o[1] # "explicit" => \A x \in o[2] : Live(x)]_persVars
  <2> SUFFICES ASSUME I, PersNext, ~overlap, NEW o \in obsLive' \ obsLive,
                      o[1] # "explicit"
               PROVE  \A x \in o[2] : Live(x)
    OBVIOUS
  <2>1. PICK p \in Procs : DeriveNext(p)
    <3>1. ASSUME NEW x \in Remarks, Observe(x) PROVE FALSE
      BY <3>1 DEF Observe, CreateObservation, Explicit
    <3>2. ASSUME NEW x, DeleteObservation(x) PROVE FALSE
      BY <3>2 DEF DeleteObservation
    <3>3. ~ UNCHANGED obsLive
      OBVIOUS
    <3> QED BY <3>1, <3>2, <3>3
            DEF PersNext, TakeObservation, IndexObservation,
                CleanObservations, ConsolidatePair, ReadCard, UpsertCard,
                PersFail, OpenCard, SaveCard, obsStores
  <2> DEFINE D == Derivable(sources[p])
  <2>2. /\ D \in Seq(Derivations) /\ derivable[p] \in Seq(Derivations)
        /\ \A i \in 1..Len(D) : D[i][2] \subseteq Range(sources[p])
    BY DerivableOf DEF PersInv
  <2>3. /\ derivable[p] # <<>> /\ o = Head(derivable[p])
        /\ made[p] \in Nat /\ LeftOf(D, derivable[p], made[p])
        /\ \A x \in Range(sources[p]) : Live(x)
    BY <2>1 DEF DeriveNext, CreateObservation, SerialPers, PersInv
  <2> HIDE DEF D
  <2>4. /\ o = derivable[p][1] /\ 1 \in 1..Len(derivable[p])
        /\ made[p] + 1 \in 1..Len(D)
    BY <2>2, <2>3 DEF LeftOf
  <2>5. o = D[made[p] + 1]
    BY <2>3, <2>4 DEF LeftOf
  <2> QED BY <2>2, <2>3, <2>4, <2>5
<1>5. I /\ [PersNext]_persVars =>
        [\A p \in Procs : persPc[p] = "card" /\ card' # card =>
            /\ Cardinality(card') <= CardLimit
            /\ ~overlap => card \subseteq card']_persVars
  <2> SUFFICES ASSUME I, PersNext, NEW p \in Procs, persPc[p] = "card",
                      card' # card
               PROVE  /\ Cardinality(card') <= CardLimit
                      /\ ~overlap => card \subseteq card'
    OBVIOUS
  <2>1. ASSUME NEW q \in Procs, UpsertCard(q)
        PROVE  /\ Cardinality(card') <= CardLimit
               /\ ~overlap => card \subseteq card'
    <3>1. card' = Maintained(q) /\ NewEntries(q) # {} /\ persPc[q] = "card"
      BY <2>1 DEF UpsertCard
    <3>2. Cardinality(card') <= CardLimit
      BY <3>1, CardFits
    <3>3. ~overlap => card = cardRead[q]
      BY <3>1 DEF SerialPers
    <3> QED BY <3>1, <3>2, <3>3 DEF Maintained
  <2>2. ASSUME NEW q \in Procs, NEW E, SaveCard(q, E)
        PROVE  Cardinality(card') <= CardLimit /\ overlap
    <3>1. Cardinality(card') <= CardLimit /\ persPc[q] = "edit"
      BY <2>2 DEF SaveCard
    <3> QED BY <3>1 DEF SerialPers
  <2>3. ASSUME UNCHANGED card PROVE FALSE
    BY <2>3
  <2> QED BY <2>1, <2>2, <2>3
          DEF PersNext, Observe, DeleteObservation, TakeObservation,
              IndexObservation, CleanObservations, ConsolidatePair,
              DeriveNext, ReadCard, PersFail, OpenCard
<1> QED BY <1>1, <1>2, <1>3, <1>4, <1>5, PTL
        DEF PersSpec, ObservationsHold, DerivedFromLive, MaintenanceAddsOnly
=============================================================================
