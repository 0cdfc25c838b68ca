------------------------------- MODULE Lessons ------------------------------
(***************************************************************************)
(* Lessons (core/operations/lesson-candidate-service.ts, lesson-service.ts, *)
(* lesson-extraction-cache.ts): sessions that ended well and share a        *)
(* pattern form a group; an LLM writes the lesson of a group, and its       *)
(* verdict is cached; a reviewer reads the candidates of a listing and      *)
(* promotes one, which derives the candidate again.  A session is one event *)
(* here, and a group stands for its candidate id.                           *)
(***************************************************************************)
EXTENDS Processes, Naturals, Sequences, FiniteSets

CONSTANTS
    Origins,       \* sessions, with their events
    Patterns,      \* groups: the signatures of sessions
    PatternOf,     \* PatternOf[x]: the signature of session x
    LessonNames,
    MinSessions,   \* a group has as many sessions at least
    MaxFresh,      \* maxFreshExtractions
    MaxTexts,      \* bound: texts written by the LLM
    MaxSourceMoves \* bound: changes to sources, with and without overlap

ASSUME LessonAssumption ==
    /\ PatternOf \in [Origins -> Patterns]
    /\ {MinSessions, MaxFresh, MaxTexts} \subseteq Nat
    /\ MaxSourceMoves \in [BOOLEAN -> Nat]
    /\ None \notin [from : SUBSET Origins, text : Nat]

VARIABLES
    source,     \* source[x]: "none", "open", "redacted", "hidden" or "gone"
    moves,      \* changes to sources so far
    texts,      \* the texts the LLM has written: what each was made of, and
                \* the name it gave
    verdict,    \* lesson_extraction_cache: what it was made of and a text
    lessons,    \* memory_lessons, by name
    reviewed,   \* the text listed last for a group, its sources unchanged
    lessonPc,   \* "idle", "turn", "extract", "validate", "look" or "save"
    promoting,     \* the group to promote, or None
    material,   \* the sources of each group, as they were read
    ahead,      \* the groups not yet looked at
    offered,    \* the texts of the candidates found
    spent,      \* extractions done by this call
    draft,      \* the lesson to be stored
    nameTaken   \* a row with its name was found

lessonVars == <<source, moves, texts, verdict, lessons, reviewed, lessonPc,
                promoting, material, ahead, offered, spent, draft, nameTaken,
                overlap>>
lessonStores == <<texts, verdict, lessons>>
lessonLocals == <<promoting, material, ahead, offered, spent, draft,
                  nameTaken>>

NoLesson == 0    \* the LLM's verdict that there is none

(* The sessions of a group that a listing may use.                          *)
Usable(g) == {x \in Origins : PatternOf[x] = g
                              /\ source[x] \in {"open", "redacted"}}

LessonInit ==
    /\ source \in [Origins -> {"none", "open"}] /\ moves = 0
    /\ texts = <<>>
    /\ verdict = [g \in Patterns |-> None]
    /\ lessons = [n \in LessonNames |-> None]
    /\ reviewed = [g \in Patterns |-> None]
    /\ lessonPc = [p \in Procs |-> "idle"]
    /\ promoting = [p \in Procs |-> None]
    /\ material = [p \in Procs |-> [g \in Patterns |-> {}]]
    /\ ahead = [p \in Procs |-> {}]
    /\ offered = [p \in Procs |-> [g \in Patterns |-> None]]
    /\ spent = [p \in Procs |-> 0]
    /\ draft = [p \in Procs |-> None]
    /\ nameTaken = [p \in Procs |-> FALSE]
    /\ overlap \in BOOLEAN

LessonGoto(p, label) == lessonPc' = [lessonPc EXCEPT ![p] = label]
LessonReturn(p) ==
    /\ LessonGoto(p, "idle")
    /\ promoting' = [promoting EXCEPT ![p] = None]
    /\ material' = [material EXCEPT ![p] = [g \in Patterns |-> {}]]
    /\ ahead' = [ahead EXCEPT ![p] = {}]
    /\ offered' = [offered EXCEPT ![p] = [g \in Patterns |-> None]]
    /\ spent' = [spent EXCEPT ![p] = 0]
    /\ draft' = [draft EXCEPT ![p] = None]
    /\ nameTaken' = [nameTaken EXCEPT ![p] = FALSE]

-----------------------------------------------------------------------------
(* Sessions end well, with or without text that the privacy filter has      *)
(* redacted; they are quarantined or deleted, while an LLM writes too.      *)
Moved(x, s) ==
    /\ overlap \/ \A p \in Procs : lessonPc[p] \notin {"look", "save"}
    /\ moves < MaxSourceMoves[overlap] /\ moves' = moves + 1
    /\ source' = [source EXCEPT ![x] = s]
    /\ reviewed' = [reviewed EXCEPT ![PatternOf[x]] = None]
    /\ UNCHANGED <<lessonStores, lessonPc, lessonLocals, overlap>>

EndSession(x, s) ==
    source[x] = "none" /\ s \in {"open", "redacted"} /\ Moved(x, s)
HideSession(x) == source[x] \in {"open", "redacted"} /\ Moved(x, "hidden")
DeleteSession(x) == source[x] \notin {"none", "gone"} /\ Moved(x, "gone")

-----------------------------------------------------------------------------
(* findCandidates(), for a listing or for promoteCandidate(): the groups    *)
(* are read once, before the LLM is asked about any.                        *)
FindCandidates(p, g) ==
    /\ MayStart(p, lessonPc)
    /\ promoting' = [promoting EXCEPT ![p] = g]
    /\ material' = [material EXCEPT ![p] = [h \in Patterns |-> Usable(h)]]
    /\ ahead' = [ahead EXCEPT ![p] =
                    {h \in Patterns : Cardinality(Usable(h)) >= MinSessions}]
    /\ LessonGoto(p, "turn")
    /\ UNCHANGED <<source, moves, lessonStores, reviewed, offered, spent,
                   draft, nameTaken, overlap>>

(* The loop has ended, after the last group or at the limit of candidates.  *)
Over(p) == ahead[p] = {} \/ \E g \in Patterns : offered[p][g] # None

(* Groups are ranked, by the number of sessions first.                      *)
Foremost(p) ==
    CHOOSE g \in ahead[p] : \A h \in ahead[p] :
        Cardinality(material[p][h]) <= Cardinality(material[p][g])
InTurn(p, g) == lessonPc[p] = "turn" /\ g \in ahead[p] /\ g = Foremost(p)

(* The cache answers when it was written for the same sources.  Mistaken    *)
(* variant: for any.                                                        *)
CachedAny(p, g) == verdict[g] # None
Cached(p, g) == verdict[g] # None /\ verdict[g].from = material[p][g]

Offer(p, g, t) ==
    offered' = [offered EXCEPT ![p][g] = IF t = NoLesson THEN None ELSE t]

ReadCache(p, g) ==
    /\ InTurn(p, g) /\ Cached(p, g)
    /\ Offer(p, g, verdict[g].text)
    /\ ahead' = [ahead EXCEPT ![p] = @ \ {g}]
    /\ UNCHANGED <<source, moves, lessonStores, reviewed, lessonPc, promoting,
                   material, spent, draft, nameTaken, overlap>>

(* A miss is skipped without an LLM or when the budget is spent.            *)
SkipGroup(p, g) ==
    /\ InTurn(p, g) /\ ~Cached(p, g)
    /\ ahead' = [ahead EXCEPT ![p] = @ \ {g}]
    /\ UNCHANGED <<source, moves, lessonStores, reviewed, lessonPc, promoting,
                   material, offered, spent, draft, nameTaken, overlap>>

AskLlm(p, g) ==
    /\ InTurn(p, g) /\ ~Cached(p, g)
    /\ spent[p] < MaxFresh
    /\ spent' = [spent EXCEPT ![p] = @ + 1]
    /\ LessonGoto(p, "extract")
    /\ UNCHANGED <<source, moves, lessonStores, reviewed, promoting, material,
                   ahead, offered, draft, nameTaken, overlap>>

(* The LLM fails, finds no lesson, or writes one; a verdict is cached with  *)
(* the sources it was made of.  Mistaken variant: nothing is cached.        *)
CacheNothing(p, g, t) == verdict' = verdict
WriteCache(p, g, t) ==
    verdict' = [verdict EXCEPT ![g] = [from |-> material[p][g], text |-> t]]

LlmAnswers(p, g) ==
    /\ lessonPc[p] = "extract" /\ g \in ahead[p] /\ g = Foremost(p)
    /\ \/ UNCHANGED <<texts, verdict, offered>>
       \/ /\ WriteCache(p, g, NoLesson) /\ Offer(p, g, NoLesson)
          /\ UNCHANGED texts
       \/ /\ Len(texts) < MaxTexts
          /\ \E n \in LessonNames :
                texts' = Append(texts, [from |-> material[p][g], name |-> n])
          /\ WriteCache(p, g, Len(texts')) /\ Offer(p, g, Len(texts'))
    /\ ahead' = [ahead EXCEPT ![p] = @ \ {g}]
    /\ LessonGoto(p, "turn")
    /\ UNCHANGED <<source, moves, lessons, reviewed, promoting, material, spent,
                   draft, nameTaken, overlap>>

(* A listing ends: a reviewer has seen the candidates.                      *)
EndListing(p) ==
    /\ lessonPc[p] = "turn" /\ Over(p) /\ promoting[p] = None
    /\ reviewed' = [g \in Patterns |->
                       IF offered[p][g] # None /\ material[p][g] = Usable(g)
                       THEN offered[p][g] ELSE reviewed[g]]
    /\ LessonReturn(p)
    /\ UNCHANGED <<source, moves, lessonStores, overlap>>

-----------------------------------------------------------------------------
(* promoteCandidate(): it fails when the candidate is not derived again, or *)
(* is not approved.                                                         *)
PromoteCandidate(p) ==
    LET g == promoting[p]
        t == offered[p][g]
    IN  /\ lessonPc[p] = "turn" /\ Over(p) /\ g # None /\ t # None
        /\ draft' = [draft EXCEPT ![p] =
                        [name |-> texts[t].name, text |-> t,
                         from |-> material[p][g], class |-> "derived"]]
        /\ LessonGoto(p, "validate")
        /\ UNCHANGED <<source, moves, lessonStores, reviewed, promoting,
                       material, ahead, offered, spent, nameTaken, overlap>>

PromoteFails(p) ==
    /\ lessonPc[p] = "turn" /\ Over(p) /\ promoting[p] # None
    /\ LessonReturn(p)
    /\ UNCHANGED <<source, moves, lessonStores, reviewed, overlap>>

(* saveCurated(): with source events or without.                            *)
SaveCurated(p, n, X) ==
    /\ MayStart(p, lessonPc)
    /\ draft' = [draft EXCEPT ![p] = [name |-> n, text |-> None, from |-> X,
                                      class |-> "curated"]]
    /\ LessonGoto(p, "validate")
    /\ UNCHANGED <<source, moves, lessonStores, reviewed, promoting, material,
                   ahead, offered, spent, nameTaken, overlap>>

(* validateSourceEvents(): the events are there, and none is quarantined or *)
(* was redacted.  Mistaken variant: what was listed is taken as it was.     *)
PermitsListed(X) == \A x \in X : source[x] # "none"
Permits(X) == \A x \in X : source[x] = "open"

ValidateSources(p) ==
    /\ lessonPc[p] = "validate"
    /\ IF Permits(draft[p].from)
       THEN LessonGoto(p, "look") /\ UNCHANGED lessonLocals
       ELSE LessonReturn(p)
    /\ UNCHANGED <<source, moves, lessonStores, reviewed, overlap>>

(* upsert(): by name, curated or not.                                       *)
LookUpName(p) ==
    /\ lessonPc[p] = "look"
    /\ nameTaken' = [nameTaken EXCEPT ![p] = lessons[draft[p].name] # None]
    /\ LessonGoto(p, "save")
    /\ UNCHANGED <<source, moves, lessonStores, reviewed, promoting, material,
                   ahead, offered, spent, draft, overlap>>

(* An INSERT of a name that somebody else has taken since fails.  The audit *)
(* row that follows is left out.                                            *)
SaveLesson(p) ==
    /\ lessonPc[p] = "save"
    /\ IF ~nameTaken[p] /\ lessons[draft[p].name] # None
       THEN UNCHANGED lessons
       ELSE lessons' = [lessons EXCEPT ![draft[p].name] = draft[p]]
    /\ LessonReturn(p)
    /\ UNCHANGED <<source, moves, texts, verdict, reviewed, overlap>>

LessonNext ==
    \/ \E x \in Origins : \/ \E s \in {"open", "redacted"} : EndSession(x, s)
                          \/ HideSession(x) \/ DeleteSession(x)
    \/ \E p \in Procs : \/ \E g \in Patterns \cup {None} : FindCandidates(p, g)
                        \/ \E g \in Patterns : \/ ReadCache(p, g)
                                               \/ SkipGroup(p, g)
                                               \/ AskLlm(p, g)
                                               \/ LlmAnswers(p, g)
                        \/ EndListing(p)
                        \/ PromoteCandidate(p) \/ PromoteFails(p)
                        \/ \E n \in LessonNames,
                              X \in {{}} \cup {{x} : x \in Origins} :
                              SaveCurated(p, n, X)
                        \/ ValidateSources(p) \/ LookUpName(p) \/ SaveLesson(p)

LessonSpec == LessonInit /\ [][LessonNext]_lessonVars

-----------------------------------------------------------------------------
(* A promotion stores the text a reviewer has read: deriving the candidate  *)
(* again gives what was listed, as long as its sources stay and nobody asks *)
(* the LLM at once.  What is stored was in any case made of the sources it  *)
(* cites.                                                                   *)
ReviewedIsStored ==
    \A p \in Procs : draft[p] # None /\ draft[p].class = "derived" =>
        /\ texts[draft[p].text].from = draft[p].from
        /\ ~overlap => reviewed[promoting[p]] \in {None, draft[p].text}

(* What a lesson cites may be shared when it is stored, though a quarantine *)
(* or a deletion ran while the LLM was writing.                             *)
CitesSharedOnly ==
    [][~overlap => \A n \in LessonNames :
          lessons'[n] # lessons[n] =>
              \A x \in lessons'[n].from : source[x] = "open"]_lessonVars

LessonsAreReviewed == []ReviewedIsStored /\ CitesSharedOnly
=============================================================================
