-------------------------------- MODULE Turns -------------------------------
(***************************************************************************)
(* The turn of an event: the UserPromptSubmit hook writes a state file, the *)
(* PostToolUse hook reads it, the Stop hook reads it, stores the answers of *)
(* the transcript and removes it (core/turn-state.ts and adapters/claude/   *)
(* hooks/user-prompt-submit.ts, post-tool-use.ts, stop.ts).  One session,   *)
(* whose hooks are processes; `overlap' says whether the next hook may      *)
(* start before the Stop hook has ended.                                    *)
(***************************************************************************)
EXTENDS Processes, Naturals

CONSTANT MaxTurns   \* bound

ASSUME TurnAssumption == MaxTurns \in Nat

VARIABLES
    turn,       \* prompts so far: the number of the turn, 0 before the first
    running,    \* the agent is working on it
    turnFile,   \* .turn-state-<session>.json: a turn, or None
    stopped,    \* the turns whose Stop hook read the file
    stopPc,     \* "idle", "store" or "clear"
    stopTurn,   \* the turn id the Stop hook read
    transcript, \* the turns with an answer in the transcript
    answers,    \* answers[n]: the turn the answer of turn n is stored under,
                \* None for no turn id; 0 while it is not stored
    observed    \* the pairs of a tool observation's turn and its turn id

turnVars == <<turn, running, turnFile, stopped, stopPc, stopTurn, transcript,
              answers, observed, overlap>>

Numbers == 1 .. MaxTurns

TurnInit ==
    /\ turn = 0 /\ running = FALSE /\ turnFile = None
    /\ stopped = {} /\ stopPc = "idle" /\ stopTurn = None
    /\ transcript = {} /\ answers = [n \in Numbers |-> 0]
    /\ observed = {}
    /\ overlap \in BOOLEAN

HookMayStart == overlap \/ stopPc = "idle"

(* writeTurnState(): an error is swallowed, and the old file stays.         *)
SubmitPrompt ==
    /\ HookMayStart /\ ~running /\ turn < MaxTurns
    /\ turn' = turn + 1 /\ running' = TRUE
    /\ turnFile' \in {turn', turnFile}
    /\ UNCHANGED <<stopped, stopPc, stopTurn, transcript, answers, observed,
                   overlap>>

(* readTurnState(): a file of more than 30 minutes is removed.              *)
ReadTurn(n) ==
    \/ n = turnFile /\ UNCHANGED turnFile
    \/ n = None /\ turnFile' = None

ObserveTool ==
    /\ HookMayStart /\ running
    /\ \E n \in Numbers \cup {None} :
          ReadTurn(n) /\ observed' = observed \cup {<<turn, n>>}
    /\ UNCHANGED <<turn, running, stopped, stopPc, stopTurn, transcript,
                   answers, overlap>>

Answer ==
    /\ running /\ turn \notin transcript
    /\ transcript' = transcript \cup {turn}
    /\ UNCHANGED <<turn, running, turnFile, stopped, stopPc, stopTurn,
                   answers, observed, overlap>>

(* The user interrupts: the turn ends without a Stop hook.                  *)
Interrupt ==
    /\ running /\ running' = FALSE
    /\ UNCHANGED <<turn, turnFile, stopped, stopPc, stopTurn, transcript,
                   answers, observed, overlap>>

StopHook ==
    /\ running /\ stopPc = "idle"
    /\ running' = FALSE
    /\ \E n \in Numbers \cup {None} : ReadTurn(n) /\ stopTurn' = n
    /\ stopped' = stopped \cup {turn}
    /\ stopPc' = "store"
    /\ UNCHANGED <<turn, transcript, answers, observed, overlap>>

(* The answers in the tail of the transcript, under the turn that was read; *)
(* one that is stored is a duplicate.                                       *)
StoreAnswers ==
    /\ stopPc = "store"
    /\ answers' = [n \in Numbers |->
                      IF n \in transcript /\ answers[n] = 0 THEN stopTurn
                                                            ELSE answers[n]]
    /\ stopPc' = "clear"
    /\ UNCHANGED <<turn, running, turnFile, stopped, stopTurn, transcript,
                   observed, overlap>>

(* clearTurnState(): the file, whichever turn wrote it.  Mistaken variant:  *)
(* it stays.                                                                *)
ClearedNever == turnFile
Cleared == None

ClearTurn ==
    /\ stopPc = "clear"
    /\ turnFile' = Cleared
    /\ stopPc' = "idle" /\ stopTurn' = None
    /\ UNCHANGED <<turn, running, stopped, transcript, answers, observed,
                   overlap>>

TurnNext == \/ SubmitPrompt \/ ObserveTool \/ Answer \/ Interrupt
            \/ StopHook \/ StoreAnswers \/ ClearTurn

TurnSpec == TurnInit /\ [][TurnNext]_turnVars

-----------------------------------------------------------------------------
(* A tool observation is stored under no turn but its own, or one that was  *)
(* interrupted, even when the state file of its turn could not be written:  *)
(* "then cleans up" (turn-state.ts:9).  And an answer is never stored under *)
(* an earlier turn than its own that has ended, if hooks do not overlap.    *)
TurnsAreApart ==
    ~overlap =>
        /\ \A o \in observed : o[2] \in {o[1], None} \/ o[2] \notin stopped
        /\ \A n \in Numbers :
              \/ answers[n] \in {0, None} \/ answers[n] >= n
              \/ answers[n] \notin stopped \ {n}
=============================================================================
