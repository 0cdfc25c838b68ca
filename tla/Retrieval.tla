------------------------------ MODULE Retrieval -----------------------------
(***************************************************************************)
(* The search for the memories of a prompt (core/retriever.ts): up to four  *)
(* stages, each with wider means than the one before, over indexes that may *)
(* name events which are gone, beside the commands that delete, quarantine  *)
(* and tag events.  What a search finds, its order and the scores are left  *)
(* open, filters by facet and the lines of neighbouring events left out.    *)
(* One retrieval of strategy `auto', the project of the store being known.  *)
(***************************************************************************)
EXTENDS Processes

CONSTANT Docs   \* events

Here == "here"      \* the project of the store
There == "there"    \* another, or none
Modes == {"strict", "prefer", "global"}

VARIABLES
    doc,        \* doc[e]: [project, session, gone, quarantined]
    request,    \* [mode, scoped]: the scope may name session "s"
    stage,      \* "primary", "deep", "expanded", "summary", "enrich", "done"
    hits,      \* candidates of this stage; None before its search
    results,    \* those that passed the filters of the last stage
    confident,  \* the match of the results has a confidence
    returned,   \* memories
    seen        \* history: the events that were of this project at some time
                \* since the retrieval began

retrievalVars == <<doc, request, stage, hits, results, confident, returned,
                   seen, overlap>>

DocType == [project : {Here, There}, session : {"s", "t"},
            gone : BOOLEAN, quarantined : BOOLEAN]

(* Not quarantined: what the store returns by default.                      *)
Readable(e) == ~doc[e].gone /\ ~doc[e].quarantined
Ours == {e \in Docs : doc[e].project = Here}

RetrievalInit ==
    /\ doc \in [Docs -> DocType]
    /\ request \in [mode : Modes, scoped : BOOLEAN]
    /\ stage = "primary" /\ hits = None
    /\ results = {} /\ confident = FALSE /\ returned = {}
    /\ seen = Ours
    /\ overlap \in BOOLEAN

-----------------------------------------------------------------------------
(* searchByKeyword() reads the events, the vector table may name any;       *)
(* expandGraphHops() and expandSessionEventHybrid() add events of any       *)
(* session, buildSummaryFallback() takes recent ones.                       *)
Searched(S) ==
    CASE stage \in {"primary", "summary"} -> \A e \in S : Readable(e)
      [] stage \in {"deep", "expanded"} -> TRUE

Search ==
    /\ stage \in {"primary", "deep", "expanded", "summary"} /\ hits = None
    /\ \E S \in SUBSET Docs : Searched(S) /\ hits' = S
    /\ UNCHANGED <<doc, request, stage, results, confident, returned, seen,
                   overlap>>

(* Every stage but "expanded" has the scope of the request.                 *)
InSession(e) ==
    request.scoped /\ stage # "expanded" => doc[e].session = "s"

(* Mistaken variant: the stage that drops the scope drops the project too.  *)
FilteringInScope ==
    request.mode # "global" /\ stage # "expanded"
Filtering == request.mode # "global"

(* The events are read anew, and those that are gone dropped.  Mistaken     *)
(* variant: only the others are looked at.                                  *)
ReadingCareless(S) == {e \in S : InSession(e)}
Reading(S) == {e \in S : Readable(e) /\ InSession(e)}

(* applyScopeFilters(), which does nothing if there is nothing to filter by *)
InScope(S) ==
    LET read == Reading(S)
        ours == read \cap Ours
    IN  CASE ~Filtering /\ (~request.scoped \/ stage = "expanded") -> S
          [] ~Filtering /\ request.scoped /\ stage # "expanded" -> read
          [] Filtering /\ (request.mode = "strict" \/ ours # {}) -> ours
          [] OTHER -> read

NextStage == [primary |-> "deep", deep |-> "expanded",
              expanded |-> "summary", summary |-> "enrich"]

(* applyQualityFilters() may drop any.  shouldFallback(): nothing was       *)
(* found, or the match has no confidence.                                   *)
Filter ==
    /\ hits # None
    /\ results' \in SUBSET InScope(hits)
    /\ confident' \in {c \in BOOLEAN : c => results' # {}}
    /\ stage' = IF confident' THEN "enrich" ELSE NextStage[stage]
    /\ hits' = None
    /\ UNCHANGED <<doc, request, returned, seen, overlap>>

(* The best of the results, those with a high score if the match has no     *)
(* confidence; enrichResults() reads them again.                            *)
Enrich ==
    /\ stage = "enrich"
    /\ \E S \in SUBSET results :
          /\ confident => S # {}
          /\ returned' = {e \in S : Readable(e)}
    /\ stage' = "done"
    /\ UNCHANGED <<doc, request, hits, results, confident, seen, overlap>>

-----------------------------------------------------------------------------
(* Beside it: a session is deleted, a row is quarantined, or a row without  *)
(* a project, or with another hash of it, is tagged.                        *)
DocChanges(e) ==
    /\ overlap /\ stage # "done"
    /\ \/ doc' = [doc EXCEPT ![e].gone = TRUE]
       \/ doc' = [doc EXCEPT ![e].quarantined = TRUE]
       \/ doc' = [doc EXCEPT ![e].project = Here]
    /\ seen' = seen \cup {d \in Docs : doc'[d].project = Here}
    /\ UNCHANGED <<request, stage, hits, results, confident, returned,
                   overlap>>

RetrievalNext == \/ Search \/ Filter \/ Enrich
                 \/ \E e \in Docs : DocChanges(e)

RetrievalSpec == RetrievalInit /\ [][RetrievalNext]_retrievalVars

-----------------------------------------------------------------------------
(* The project survives every stage, the one that gives up the scope too:   *)
(* a strict retrieval returns no memory that was not of the project at some *)
(* time since it began.                                                     *)
StrictIsOurs ==
    stage = "done" /\ request.mode = "strict" => returned \subseteq seen

(* A match with confidence comes with a memory, if the project is asked for *)
(* and no event goes meanwhile: the results were read before they were      *)
(* matched.                                                                 *)
MatchHasMemory ==
    stage = "done" /\ confident /\ request.mode # "global" /\ ~overlap =>
        returned # {}

(* What a strict search returns belongs to the project, and every match it  *)
(* reports still has its memory.                                            *)
ResultsAreOurs == StrictIsOurs /\ MatchHasMemory
=============================================================================
