--------------------------- MODULE AutoGraduation ---------------------------
(***************************************************************************)
(* The graduation passes that the semantic daemon schedules after a         *)
(* retrieval (adapters/claude/hooks/semantic-daemon-graduation.ts): one     *)
(* state per project, with a timer, a running pass and a cooldown.          *)
(***************************************************************************)
EXTENDS Naturals

CONSTANTS
    Projects,
    MaxPasses   \* bound: passes of a project at a time

ASSUME SchedulerAssumption == MaxPasses \in Nat

VARIABLES
    states,     \* states[k]: [timer, running, cool]
    timers,     \* timers[k]: timers pending, of a state in the map or not
    passes,     \* passes[k]: passes in progress, in the map or not
    stopping,   \* shutdown(): "no", "waiting" or "cleared"
    awaited     \* the projects whose pass shutdown() waits for

schedulerVars == <<states, timers, passes, stopping, awaited>>

NoState == [timer |-> FALSE, running |-> FALSE, cool |-> TRUE]

SchedulerInit ==
    /\ states = [k \in Projects |-> NoState]
    /\ timers = [k \in Projects |-> 0]
    /\ passes = [k \in Projects |-> 0]
    /\ stopping = "no" /\ awaited = {}

(* What keeps schedule() from a second pass.  Mistaken variant: only the    *)
(* timer does.                                                              *)
InFlightTimer(k) == states[k].timer
InFlight(k) == states[k].timer \/ states[k].running

Schedule(k) ==
    /\ ~InFlight(k) /\ states[k].cool
    /\ states' = [states EXCEPT ![k].timer = TRUE, ![k].cool = FALSE]
    /\ timers' = [timers EXCEPT ![k] = @ + 1]
    /\ UNCHANGED <<passes, stopping, awaited>>

(* The timer of the state in the map, and one whose state was cleared.      *)
Fire(k) ==
    /\ timers[k] > 0 /\ passes[k] < MaxPasses
    /\ timers' = [timers EXCEPT ![k] = @ - 1]
    /\ passes' = [passes EXCEPT ![k] = @ + 1]
    /\ \/ /\ states[k].timer
          /\ states' = [states EXCEPT ![k].timer = FALSE, ![k].running = TRUE]
       \/ /\ ~states[k].timer \/ timers[k] > 1
          /\ UNCHANGED states
    /\ UNCHANGED <<stopping, awaited>>

(* The task settles, with an error or without; its state forgets it, if the *)
(* state holds this pass and not a later one.                               *)
FinishPass(k) ==
    /\ passes[k] > 0
    /\ passes' = [passes EXCEPT ![k] = @ - 1]
    /\ \/ /\ states[k].running
          /\ states' = [states EXCEPT ![k].running = FALSE]
       \/ /\ ~states[k].running \/ passes[k] > 1
          /\ UNCHANGED states
    /\ awaited' = awaited \ {k}
    /\ UNCHANGED <<timers, stopping>>

Cool(k) ==
    /\ ~states[k].cool
    /\ states' = [states EXCEPT ![k].cool = TRUE]
    /\ UNCHANGED <<timers, passes, stopping, awaited>>

(* shutdown() clears the timers and waits for the passes; requests are      *)
(* still served, and may schedule.                                          *)
StopScheduler ==
    /\ stopping = "no" /\ stopping' = "waiting"
    /\ awaited' = {k \in Projects : states[k].running}
    /\ timers' = [k \in Projects |-> IF states[k].timer THEN timers[k] - 1
                                     ELSE timers[k]]
    /\ states' = [k \in Projects |-> [states[k] EXCEPT !.timer = FALSE]]
    /\ UNCHANGED passes

ClearStates ==
    /\ stopping = "waiting" /\ awaited = {}
    /\ stopping' = "cleared"
    /\ states' = [k \in Projects |-> NoState]
    /\ UNCHANGED <<timers, passes, awaited>>

(* The process exits, and with it what is in progress; another one starts.  *)
RestartDaemon ==
    /\ stopping # "no"
    /\ states' = [k \in Projects |-> NoState]
    /\ timers' = [k \in Projects |-> 0]
    /\ passes' = [k \in Projects |-> 0]
    /\ stopping' = "no" /\ awaited' = {}

SchedulerNext ==
    \/ \E k \in Projects : \/ Schedule(k) \/ Fire(k) \/ FinishPass(k)
                           \/ Cool(k)
    \/ StopScheduler \/ ClearStates \/ RestartDaemon

SchedulerSpec == SchedulerInit /\ [][SchedulerNext]_schedulerVars

-----------------------------------------------------------------------------
(* "a burst of prompt hooks cannot start overlapping passes" of a project   *)
(* (semantic-daemon-graduation.ts:23), however long a pass takes, up to the *)
(* point where shutdown() has cleared the map.                              *)
OnePassPerProject ==
    stopping # "cleared" => \A k \in Projects : passes[k] + timers[k] <= 1
=============================================================================
