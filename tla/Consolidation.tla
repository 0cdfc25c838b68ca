---------------------------- MODULE Consolidation ---------------------------
(***************************************************************************)
(* Endless mode: events enter a working set, and a worker makes memories of *)
(* those that share a topic (core/working-set-store.ts,                     *)
(* core/consolidation-worker.ts, core/consolidated-store.ts).  The runs are *)
(* those of the timer and of forceRun(), in one process or several.         *)
(***************************************************************************)
EXTENDS Processes, FiniteSets, Integers, Sequences, SequencesExt

CONSTANTS
    Recent,      \* event ids
    Topics,
    TopicsOf,    \* TopicsOf[e]: the topics extracted from event e
    MinGroup,    \* 3 in the code, for the working set and for a group
    MaxWorking,  \* workingSet.maxEvents
    MaxMemories  \* bound

ASSUME ConsolidationAssumption ==
    /\ TopicsOf \in [Recent -> SUBSET Topics]
    /\ MinGroup \in Nat \ {0} /\ MaxWorking \in Nat \ {0}
    /\ MaxMemories \in Nat

VARIABLES
    working,    \* working[e]: the rows of event e in working_set
    memories,   \* consolidated_memories: memories[m], its source events
    rules,      \* the memories with a row in consolidated_rules
    consPc,     \* "idle", "group", "create", "promote" or "prune"
    groups,     \* the groups of the run, and those still to come
    todo,
    created     \* createdMemoryIds

consVars == <<working, memories, rules, consPc, groups, todo, created,
              overlap>>

ConsInit ==
    /\ working = [e \in Recent |-> 0]
    /\ memories = <<>> /\ rules = {}
    /\ consPc = [p \in Procs |-> "idle"]
    /\ groups = [p \in Procs |-> <<>>]
    /\ todo = [p \in Procs |-> <<>>]
    /\ created = [p \in Procs |-> {}]
    /\ overlap \in BOOLEAN

ConsGoto(p, label) == consPc' = [consPc EXCEPT ![p] = label]
ConsReturn(p) ==
    /\ ConsGoto(p, "idle")
    /\ groups' = [groups EXCEPT ![p] = <<>>]
    /\ todo' = [todo EXCEPT ![p] = <<>>]
    /\ created' = [created EXCEPT ![p] = {}]

Rows == FoldFunction(+, 0, working)

(* add(): a row with an id of its own, also for an event that has one; over *)
(* the limit the least relevant row goes.                                   *)
AddToWorkingSet(e) ==
    /\ LET more == [working EXCEPT ![e] = @ + 1]
       IN  IF Rows < MaxWorking THEN working' = more
           ELSE \E f \in Recent : /\ more[f] > 0
                                  /\ working' = [more EXCEPT ![f] = @ - 1]
    /\ UNCHANGED <<memories, rules, consPc, groups, todo, created, overlap>>

(* cleanup() in get(): a row expires.                                       *)
ExpireRow(e) ==
    /\ working[e] > 0
    /\ working' = [working EXCEPT ![e] = @ - 1]
    /\ UNCHANGED <<memories, rules, consPc, groups, todo, created, overlap>>

(* groupByTopic(): a group per topic, in the order they are met; one that   *)
(* shares more than half of its events with an earlier one goes into it.    *)
Merge(G, g) ==
    LET near == {n \in DOMAIN G :
                    2 * Cardinality(G[n] \cap g) > Cardinality(g)}
    IN  IF near = {} THEN Append(G, g)
        ELSE LET first == CHOOSE n \in near : \A k \in near : n <= k
             IN  [G EXCEPT ![first] = @ \cup g]
Grouped(order) ==
    LET Of(t) == {e \in Recent : working[e] > 0 /\ t \in TopicsOf[e]}
    IN  FoldLeft(LAMBDA G, t : IF Of(t) = {} THEN G ELSE Merge(G, Of(t)),
                 <<>>, order)

(* get() answers a row per entry, so an event that entered twice counts     *)
(* twice.                                                                   *)
StartConsolidation(p) ==
    /\ MayStart(p, consPc)
    /\ Rows >= MinGroup
    /\ \E order \in {q \in [1 .. Cardinality(Topics) -> Topics] :
                        \A t \in Topics : \E n \in DOMAIN q : q[n] = t} :
          /\ groups' = [groups EXCEPT ![p] = Grouped(order)]
          /\ todo' = [todo EXCEPT ![p] = Grouped(order)]
    /\ ConsGoto(p, "group")
    /\ UNCHANGED <<working, memories, rules, created, overlap>>

(* isAlreadyConsolidated(): any event of the group is in a memory.          *)
(* Mistaken variant: all are.                                               *)
Sources == UNION {memories[m] : m \in DOMAIN memories}
AlreadyAll(g) == g \subseteq Sources
Already(g) == g \cap Sources # {}

NextGroup(p) ==
    /\ consPc[p] = "group"
    /\ IF todo[p] = <<>> THEN ConsGoto(p, "promote") /\ UNCHANGED todo
       ELSE IF Cardinality(Head(todo[p])) < MinGroup \/ Already(Head(todo[p]))
       THEN todo' = [todo EXCEPT ![p] = Tail(@)] /\ UNCHANGED consPc
       ELSE ConsGoto(p, "create") /\ UNCHANGED todo
    /\ UNCHANGED <<working, memories, rules, groups, created, overlap>>

(* After the summary: the memory and its junction rows, one transaction.    *)
CreateMemory(p) ==
    /\ consPc[p] = "create" /\ Len(memories) < MaxMemories
    /\ memories' = Append(memories, Head(todo[p]))
    /\ created' = [created EXCEPT ![p] = @ \cup {Len(memories')}]
    /\ todo' = [todo EXCEPT ![p] = Tail(@)]
    /\ ConsGoto(p, "group")
    /\ UNCHANGED <<working, rules, groups, overlap>>

(* promoteStableSummariesToRules(): a memory the run created, confident and *)
(* large enough, gets a rule.                                               *)
Promote(p) ==
    /\ consPc[p] = "promote"
    /\ IF created[p] = {}
       THEN ConsReturn(p) /\ UNCHANGED rules
       ELSE /\ \E S \in SUBSET created[p] : rules' = rules \cup S
            /\ ConsGoto(p, "prune")
            /\ UNCHANGED <<groups, todo, created>>
    /\ UNCHANGED <<working, memories, overlap>>

(* The old events of every group of three, consolidated now or not.         *)
Prune(p) ==
    /\ consPc[p] = "prune"
    /\ \E old \in SUBSET UNION {g \in ToSet(groups[p]) :
                                   Cardinality(g) >= MinGroup} :
          working' = [e \in Recent |-> IF e \in old THEN 0 ELSE working[e]]
    /\ ConsReturn(p)
    /\ UNCHANGED <<memories, rules, overlap>>

(* A summary or a statement fails, or the process dies.                     *)
ConsFails(p) ==
    /\ consPc[p] # "idle"
    /\ ConsReturn(p)
    /\ UNCHANGED <<working, memories, rules, overlap>>

ConsNext ==
    \/ \E e \in Recent : AddToWorkingSet(e) \/ ExpireRow(e)
    \/ \E p \in Procs : \/ StartConsolidation(p) \/ NextGroup(p)
                        \/ CreateMemory(p) \/ Promote(p) \/ Prune(p)
                        \/ ConsFails(p)

ConsSpec == ConsInit /\ [][ConsNext]_consVars

-----------------------------------------------------------------------------
(* An event is the source of one memory at most: in one run, where topics   *)
(* share events, and over all runs, whatever fails between a memory and the *)
(* pruning, as long as two runs do not overlap.                             *)
OneMemoryPerEvent ==
    ~overlap => \A m, n \in DOMAIN memories :
                    m # n => memories[m] \cap memories[n] = {}
=============================================================================
