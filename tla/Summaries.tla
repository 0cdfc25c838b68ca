------------------------------ MODULE Summaries -----------------------------
(***************************************************************************)
(* The summary of a session (core/engine/memory-ingest-service.ts): made of *)
(* its events by rule in the hook, or by an LLM in the semantic daemon      *)
(* under summary-worker.lock, when the session stops or when a later one    *)
(* starts.  WorkerLock is the lock in detail; here it is taken and free.    *)
(***************************************************************************)
EXTENDS Processes, Naturals

CONSTANTS
    Chats,      \* session ids
    MinEvents,  \* 3 in the code
    MaxEvents   \* bound: events of a session

ASSUME SummaryAssumption ==
    MinEvents \in Nat /\ MaxEvents \in Nat /\ None \notin Procs

VARIABLES
    count,      \* count[s]: the events of session s that are no summary
    summaries,  \* summaries[s]: its events of type session_summary
    llm,        \* isLlmSummaryEnabled(); chosen once
    keeper,     \* who has summary-worker.lock, or None
    sumPc,      \* "idle", "check", "generate" or "store"
    sumOf       \* the session summarized

sumVars == <<count, summaries, llm, keeper, sumPc, sumOf, overlap>>

SumInit ==
    /\ count = [s \in Chats |-> 0]
    /\ summaries = [s \in Chats |-> 0]
    /\ llm \in BOOLEAN
    /\ keeper = None
    /\ sumPc = [p \in Procs |-> "idle"]
    /\ sumOf = [p \in Procs |-> None]
    /\ overlap \in BOOLEAN

SumGoto(p, label) == sumPc' = [sumPc EXCEPT ![p] = label]
(* The call returns, or its process dies: a dead keeper's lock is free.     *)
SumReturn(p) ==
    /\ SumGoto(p, "idle")
    /\ sumOf' = [sumOf EXCEPT ![p] = None]
    /\ keeper' = IF keeper = p THEN None ELSE keeper

StoreChatEvent(s) ==
    /\ count[s] < MaxEvents
    /\ count' = [count EXCEPT ![s] = @ + 1]
    /\ UNCHANGED <<summaries, llm, keeper, sumPc, sumOf, overlap>>

(* acquire(): a request that finds the lock taken, by another request in    *)
(* the same daemon too, is dropped.  Mistaken variant: nobody asks.         *)
LockFreeAnyway == TRUE
LockFree == keeper = None

(* generateSessionSummary(), or runSessionSummaryWithWriterLock(); for any  *)
(* session, as the backfill asks for those without a summary and the stop   *)
(* hook does not look.                                                      *)
Summarize(p, s) ==
    /\ MayStart(p, sumPc)
    /\ llm => LockFree
    /\ keeper' = IF llm THEN p ELSE keeper
    /\ SumGoto(p, "check")
    /\ sumOf' = [sumOf EXCEPT ![p] = s]
    /\ UNCHANGED <<count, summaries, llm, overlap>>

(* The events are read: too few, or a summary among them, is the end.       *)
(* Mistaken variant: the summary is not looked for.                         *)
WantsAnother(s) == count[s] + summaries[s] >= MinEvents
Wants(s) == count[s] + summaries[s] >= MinEvents /\ summaries[s] = 0

ReadEventsOf(p) ==
    /\ sumPc[p] = "check"
    /\ IF Wants(sumOf[p])
       THEN /\ SumGoto(p, IF llm THEN "generate" ELSE "store")
            /\ UNCHANGED <<keeper, sumOf>>
       ELSE SumReturn(p)
    /\ UNCHANGED <<count, summaries, llm, overlap>>

(* The LLM answers, or does not: nothing durable, an error, a timeout.      *)
Generate(p) ==
    /\ sumPc[p] = "generate"
    /\ \/ SumGoto(p, "store") /\ UNCHANGED <<keeper, sumOf>>
       \/ SumReturn(p)
    /\ UNCHANGED <<count, summaries, llm, overlap>>

(* storeSessionSummary(): a text by rule may be one the session has, and is *)
(* a duplicate then.                                                        *)
StoreSummary(p) ==
    /\ sumPc[p] = "store"
    /\ LET s == sumOf[p]
       IN  \/ summaries' = [summaries EXCEPT ![s] = @ + 1]
           \/ ~llm /\ summaries[s] > 0 /\ UNCHANGED summaries
    /\ SumReturn(p)
    /\ UNCHANGED <<count, llm, overlap>>

SumFails(p) ==
    /\ sumPc[p] # "idle"
    /\ SumReturn(p)
    /\ UNCHANGED <<count, summaries, llm, overlap>>

SumNext ==
    \/ \E s \in Chats : StoreChatEvent(s) \/ \E p \in Procs : Summarize(p, s)
    \/ \E p \in Procs : \/ ReadEventsOf(p) \/ Generate(p) \/ StoreSummary(p)
                        \/ SumFails(p)

SumSpec == SumInit /\ [][SumNext]_sumVars

-----------------------------------------------------------------------------
(* A session has one summary at most: by the lock, although the check and   *)
(* the store are a whole LLM call apart; by rule, as long as a stop hook    *)
(* and a backfill do not run at the same time.                              *)
OneSummary == llm \/ ~overlap => \A s \in Chats : summaries[s] <= 1
=============================================================================
