----------------------------- MODULE Graduation -----------------------------
(***************************************************************************)
(* Graduation of memories through the levels (core/graduation-worker.ts,    *)
(* core/graduation.ts): workers of several processes read the candidates of *)
(* a level with the evidence of their use, then raise one after the other   *)
(* those that meet the criteria.                                            *)
(***************************************************************************)
EXTENDS Processes, FiniteSets, Integers

CONSTANTS
    Memories,   \* event ids
    TopLevel,   \* 4 in the code: levels L0 .. L4
    MinAccess,  \* MinAccess[l], MinRefs[l]: the criteria for leaving level l
    MinRefs,
    GradBatch,  \* batchSize: candidates read per level
    MaxAccess   \* bound: uses of a memory

Levels == 0 .. TopLevel

ASSUME GradAssumption ==
    /\ TopLevel \in Nat \ {0} /\ GradBatch \in Nat \ {0}
    /\ MaxAccess \in Nat /\ None \notin Levels
    /\ MinAccess \in [0 .. TopLevel - 1 -> Nat]
    /\ MinRefs \in [0 .. TopLevel - 1 -> Nat]

VARIABLES
    level,      \* level[e]: memory_levels, None when the event is deleted
    uses,       \* uses[e]: [access, refs], how often and in how many other
                \* sessions the memory was used
    gradPc,     \* "idle" or "evaluate"
    gradAt,     \* the level the run is at
    chosen,     \* the candidates not yet evaluated
    metrics,    \* metrics[p][e]: the evidence read with candidate e
    cooling,    \* lastEvaluated: the events still in cooldown
    raised      \* history: the events this run has raised

gradVars == <<level, uses, gradPc, gradAt, chosen, metrics, cooling, raised,
              overlap>>

Evidence == [access: 0 .. MaxAccess, refs: 0 .. MaxAccess]
Unused == [access |-> 0, refs |-> 0]

GradInit ==
    /\ level = [e \in Memories |-> 0]
    /\ uses = [e \in Memories |-> Unused]
    /\ gradPc = [p \in Procs |-> "idle"]
    /\ gradAt = [p \in Procs |-> 0]
    /\ chosen = [p \in Procs |-> {}]
    /\ metrics = [p \in Procs |-> [e \in Memories |-> Unused]]
    /\ cooling = [p \in Procs |-> {}]
    /\ raised = [p \in Procs |-> {}]
    /\ overlap \in BOOLEAN

(* A memory is injected into a prompt: incrementAccessCount(), and a row of *)
(* memory_helpfulness that may be of another session.                       *)
Use(e, other) ==
    /\ level[e] # None /\ uses[e].access < MaxAccess
    /\ other => uses[e].access > 0
    /\ uses' = [uses EXCEPT ![e] =
                   [access |-> @.access + 1,
                    refs |-> IF other THEN @.refs + 1 ELSE @.refs]]
    /\ UNCHANGED <<level, gradPc, gradAt, chosen, metrics, cooling, raised,
                   overlap>>

(* deleteSessionEvents()                                                    *)
Forget(e) ==
    /\ level[e] # None
    /\ level' = [level EXCEPT ![e] = None]
    /\ UNCHANGED <<uses, gradPc, gradAt, chosen, metrics, cooling, raised,
                   overlap>>

(* getGraduationCandidates(): the rows of the level with evidence, ORDER BY *)
(* access_count DESC LIMIT batchSize.  Mistaken variant: of every level.    *)
CandidatesAnywhere(l) ==
    {e \in Memories : level[e] # None /\ uses[e].access > 0}
Candidates(l) == {e \in Memories : level[e] = l /\ uses[e].access > 0}
MostUsed(S) ==
    {T \in SUBSET S :
        /\ Cardinality(T) = IF Cardinality(S) < GradBatch
                            THEN Cardinality(S) ELSE GradBatch
        /\ \A e \in T, f \in S \ T : uses[e].access >= uses[f].access}

(* p reads the candidates of level l and their evidence (hydrateMetrics()). *)
ReadCandidates(p, l) ==
    \E T \in MostUsed(Candidates(l)) :
        /\ chosen' = [chosen EXCEPT ![p] = T]
        /\ metrics' = [metrics EXCEPT ![p] =
               [e \in Memories |-> IF e \in T THEN uses[e] ELSE Unused]]

StartRun(p) ==
    /\ MayStart(p, gradPc)
    /\ gradPc' = [gradPc EXCEPT ![p] = "evaluate"]
    /\ ReadCandidates(p, 0)
    /\ UNCHANGED <<level, uses, gradAt, cooling, raised, overlap>>

(* checkCriteria().  Mistaken variant: the criteria for L1 at every level.  *)
MeetsFirst(m, l) == m.access >= MinAccess[0] /\ m.refs >= MinRefs[0]
Meets(m, l) == m.access >= MinAccess[l] /\ m.refs >= MinRefs[l]

(* lastEvaluated.set().  Mistaken variant: no cooldown.                     *)
NotCooled(p, e) == cooling[p]
Cooled(p, e) == cooling[p] \cup {e}

(* One candidate, skipped while in cooldown.  evaluateGraduation() sets the *)
(* level after the one the run is at, whatever the level is now; the UPDATE *)
(* finds no row of a deleted event.                                         *)
EvaluateGraduation(p, e) ==
    /\ gradPc[p] = "evaluate" /\ e \in chosen[p]
    /\ chosen' = [chosen EXCEPT ![p] = @ \ {e}]
    /\ metrics' = [metrics EXCEPT ![p][e] = Unused]
    /\ cooling' = [cooling EXCEPT ![p] = Cooled(p, e)]
    /\ IF /\ e \notin cooling[p] /\ level[e] # None
          /\ Meets(metrics[p][e], gradAt[p])
       THEN /\ level' = [level EXCEPT ![e] = gradAt[p] + 1]
            /\ raised' = [raised EXCEPT ![p] = @ \cup {e}]
       ELSE UNCHANGED <<level, raised>>
    /\ UNCHANGED <<uses, gradPc, gradAt, overlap>>

(* The loop over the levels, from L0 to the one below the top.  Mistaken    *)
(* variant: to the top.                                                     *)
NextLevelTooFar(p) ==
    /\ gradPc[p] = "evaluate" /\ chosen[p] = {} /\ gradAt[p] < TopLevel
    /\ gradAt' = [gradAt EXCEPT ![p] = @ + 1]
    /\ ReadCandidates(p, gradAt[p] + 1)
    /\ UNCHANGED <<level, uses, gradPc, cooling, raised, overlap>>
NextLevel(p) ==
    /\ gradPc[p] = "evaluate" /\ chosen[p] = {} /\ gradAt[p] + 1 < TopLevel
    /\ gradAt' = [gradAt EXCEPT ![p] = @ + 1]
    /\ ReadCandidates(p, gradAt[p] + 1)
    /\ UNCHANGED <<level, uses, gradPc, cooling, raised, overlap>>

EndRun(p) ==
    /\ gradPc[p] = "evaluate" /\ chosen[p] = {} /\ gradAt[p] + 1 = TopLevel
    /\ gradPc' = [gradPc EXCEPT ![p] = "idle"]
    /\ gradAt' = [gradAt EXCEPT ![p] = 0]
    /\ raised' = [raised EXCEPT ![p] = {}]
    /\ UNCHANGED <<level, uses, chosen, metrics, cooling, overlap>>

(* cooldownMs passes after a run, or the process ends, in a run or not: the *)
(* next one starts with an empty map.                                       *)
CoolDown(p) ==
    /\ gradPc[p] = "idle" /\ cooling[p] # {}
    /\ cooling' = [cooling EXCEPT ![p] = {}]
    /\ UNCHANGED <<level, uses, gradPc, gradAt, chosen, metrics, raised,
                   overlap>>

EndGraduation(p) ==
    /\ gradPc[p] = "evaluate"
    /\ gradPc' = [gradPc EXCEPT ![p] = "idle"]
    /\ gradAt' = [gradAt EXCEPT ![p] = 0]
    /\ chosen' = [chosen EXCEPT ![p] = {}]
    /\ metrics' = [metrics EXCEPT ![p] = [e \in Memories |-> Unused]]
    /\ cooling' = [cooling EXCEPT ![p] = {}]
    /\ raised' = [raised EXCEPT ![p] = {}]
    /\ UNCHANGED <<level, uses, overlap>>

GradNext ==
    \/ \E e \in Memories : Forget(e) \/ \E other \in BOOLEAN : Use(e, other)
    \/ \E p \in Procs : \/ StartRun(p) \/ NextLevel(p) \/ EndRun(p)
                        \/ CoolDown(p) \/ EndGraduation(p)
                        \/ \E e \in Memories : EvaluateGraduation(p, e)

GradSpec == GradInit /\ [][GradNext]_gradVars

-----------------------------------------------------------------------------
(* Every variable has its type.                                             *)
GradTypeOK ==
    /\ level \in [Memories -> Levels \cup {None}]
    /\ uses \in [Memories -> Evidence]
    /\ gradPc \in [Procs -> {"idle", "evaluate"}]
    /\ gradAt \in [Procs -> 0 .. TopLevel - 1]
    /\ chosen \in [Procs -> SUBSET Memories]
    /\ metrics \in [Procs -> [Memories -> Evidence]]
    /\ cooling \in [Procs -> SUBSET Memories]
    /\ raised \in [Procs -> SUBSET Memories]
    /\ overlap \in BOOLEAN

(* A memory has the level it earned: every criterion on the way is met by   *)
(* its uses, even when a worker acts on what it read long ago.              *)
LevelIsEarned ==
    \A e \in Memories, l \in Levels :
        level[e] = l /\ l > 0 => LET m == uses[e]
                                 IN  /\ m.access >= MinAccess[l - 1]
                                     /\ m.refs >= MinRefs[l - 1]

(* Workers that do not overlap never lower a memory (graduation.ts:4: the   *)
(* levels go one way), although the UPDATE does not look at the level.      *)
LevelNeverFalls ==
    [][~overlap =>
          \A e \in Memories : None \notin {level[e], level'[e]}
                              => level'[e] >= level[e]]_gradVars

(* A run raises a memory by one level at most: what it raised at one level  *)
(* it finds again among the candidates of the next.                         *)
OneLevelPerRun ==
    [][\A p \in Procs : ~overlap =>
          \A e \in raised[p] : level'[e] \in {level[e], None}]_gradVars

(* Levels are climbed one by one: no level without the evidence it asks     *)
(* for, however old what a worker acts on, no step back, and at most one    *)
(* step in a run.                                                           *)
LevelsAreFair == []LevelIsEarned /\ LevelNeverFalls /\ OneLevelPerRun
=============================================================================
