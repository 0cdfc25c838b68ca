---------------------------- MODULE Perspectives ----------------------------
(***************************************************************************)
(* What one actor observes of another (core/operations/perspective-*.ts,    *)
(* actor-card-repository.ts): explicit observations come from the deriver   *)
(* of the ingest and from MCP calls, which also delete them softly; a       *)
(* consolidation derives others from them and maintains the actor card; the *)
(* V2 worker indexes what is enqueued.  One pair of actors; an observation  *)
(* is named by its unique key, its level and what it was made of.           *)
(***************************************************************************)
EXTENDS Processes, FiniteSets, Naturals, Sequences, SequencesExt

CONSTANTS
    Remarks,       \* what explicit observations say
    Grounded,      \* those that cite an event
    Preferring,    \* those that an entry of the card can be made of
    Opposed,       \* pairs of them that contradict each other
    OwnEntries,    \* entries that a client may write
    Budgets,       \* values of maxDerivedObservations
    MaxUpdates,    \* maxCardUpdates
    CardLimit,     \* MAX_ACTOR_CARD_ENTRIES
    MaxPersMoves   \* bound: observations, deletions, edits of the card and
                   \* consolidations, with and without overlap

ASSUME PerspectiveAssumption ==
    /\ IsFiniteSet(Remarks) /\ IsFiniteSet(OwnEntries)
    /\ Grounded \subseteq Remarks /\ Preferring \subseteq Remarks
    /\ Opposed \subseteq SUBSET Remarks
    /\ Budgets \cup {MaxUpdates, CardLimit} \subseteq Nat
    /\ MaxPersMoves \in [BOOLEAN -> Nat]

VARIABLES
    obsLive,    \* perspective_observations: the rows that are not deleted
    obsGone,    \* ... and those that are
    obsQueue,   \* pending jobs of vector_outbox, oldest first
    obsClaim,   \* the observation whose text is being embedded, or None
    obsDone,    \* observations with a done job
    obsIndex,   \* observations with a vector
    passedOver, \* observations that were deleted when their job's turn came
    card,       \* actor_cards: the entries
    budget,     \* maxDerivedObservations
    persPc,     \* "idle", "derive", "card" or "edit"
    sources,    \* the grounded observations a consolidation works with
    derivable,  \* what it is still to derive
    made,       \* what it has derived
    cardRead,   \* the entries it, or a client, has read
    persMoves

persVars == <<obsLive, obsGone, obsQueue, obsClaim, obsDone, obsIndex,
              passedOver, card, budget, persPc, sources, derivable, made,
              cardRead, persMoves, overlap>>
obsStores == <<obsLive, obsGone, obsQueue, obsClaim, obsDone, obsIndex,
               passedOver>>
persLocals == <<sources, derivable, made, cardRead>>

Explicit(x) == <<"explicit", {x}>>
Live(x) == Explicit(x) \in obsLive

PersInit ==
    /\ \E X \in SUBSET Remarks :
          /\ obsLive = {Explicit(x) : x \in X}
          /\ obsDone = obsLive /\ obsIndex = obsLive
    /\ obsGone = {} /\ obsQueue = <<>> /\ obsClaim = None /\ passedOver = {}
    /\ card = {} /\ budget \in Budgets
    /\ persPc = [p \in Procs |-> "idle"]
    /\ sources = [p \in Procs |-> <<>>]
    /\ derivable = [p \in Procs |-> <<>>]
    /\ made = [p \in Procs |-> 0]
    /\ cardRead = [p \in Procs |-> {}]
    /\ persMoves = 0
    /\ overlap \in BOOLEAN

PersGoto(p, label) == persPc' = [persPc EXCEPT ![p] = label]
PersReturn(p) ==
    /\ PersGoto(p, "idle")
    /\ sources' = [sources EXCEPT ![p] = <<>>]
    /\ derivable' = [derivable EXCEPT ![p] = <<>>]
    /\ made' = [made EXCEPT ![p] = 0]
    /\ cardRead' = [cardRead EXCEPT ![p] = {}]

(* A client, or a consolidation, may act alone or while others do.          *)
PersMove ==
    /\ overlap \/ \A p \in Procs : persPc[p] = "idle"
    /\ persMoves < MaxPersMoves[overlap] /\ persMoves' = persMoves + 1
PersStart(p) == persPc[p] = "idle" /\ PersMove

-----------------------------------------------------------------------------
(* create(): one transaction that inserts the observation or, when its key  *)
(* is there, brings it back, and enqueues it unless it has a job.           *)
Enqueue(o) ==
    obsQueue' = IF o \in Range(obsQueue) \cup obsDone \cup {obsClaim}
                THEN obsQueue ELSE Append(obsQueue, o)
CreateObservation(o) ==
    /\ obsLive' = obsLive \cup {o} /\ obsGone' = obsGone \ {o}
    /\ Enqueue(o)
    /\ UNCHANGED <<obsClaim, obsDone, obsIndex, passedOver>>

(* The deriver, for a prompt or an answer that was just stored, or an MCP   *)
(* call.                                                                    *)
Observe(x) ==
    /\ PersMove
    /\ CreateObservation(Explicit(x))
    /\ UNCHANGED <<card, budget, persPc, persLocals, overlap>>

(* deleteSoft(): the row is marked; its job and its vector stay.  Mistaken  *)
(* variant: the vector goes.                                                *)
VectorsWithout(o) == obsIndex \ {o}
VectorsAfter(o) == obsIndex

DeleteObservation(o) ==
    /\ PersMove
    /\ obsLive' = obsLive \ {o} /\ obsGone' = obsGone \cup {o}
    /\ obsIndex' = VectorsAfter(o)
    /\ UNCHANGED <<obsQueue, obsClaim, obsDone, passedOver, card, budget,
                   persPc, persLocals, overlap>>

-----------------------------------------------------------------------------
(* The worker claims the oldest job and reads the text, which a deleted     *)
(* observation does not give: its job is done without a vector.  Failures   *)
(* are in VectorOutbox.                                                     *)
TakeObservation ==
    /\ obsClaim = None /\ obsQueue # <<>>
    /\ LET o == Head(obsQueue)
       IN  IF o \in obsLive
           THEN obsClaim' = o /\ UNCHANGED <<obsDone, passedOver>>
           ELSE /\ obsDone' = obsDone \cup {o}
                /\ passedOver' = passedOver \cup {o}
                /\ UNCHANGED obsClaim
    /\ obsQueue' = Tail(obsQueue)
    /\ UNCHANGED <<obsLive, obsGone, obsIndex, card, budget, persPc,
                   persLocals, persMoves, overlap>>

IndexObservation ==
    /\ obsClaim # None
    /\ obsIndex' = obsIndex \cup {obsClaim}
    /\ obsDone' = obsDone \cup {obsClaim}
    /\ obsClaim' = None
    /\ passedOver' = passedOver \ {obsClaim}
    /\ UNCHANGED <<obsLive, obsGone, obsQueue, card, budget, persPc,
                   persLocals, persMoves, overlap>>

(* cleanup(): a week later nothing is left of done jobs.                    *)
CleanObservations ==
    /\ obsDone # {} /\ obsDone' = {}
    /\ UNCHANGED <<obsLive, obsGone, obsQueue, obsClaim, obsIndex, passedOver,
                   card, budget, persPc, persLocals, persMoves, overlap>>

-----------------------------------------------------------------------------
(* What is derived from explicit observations S: a deduction of each, an    *)
(* induction over them all, a contradiction of each pair of opposed ones.   *)
Derivable(S) ==
    [i \in 1..Len(S) |-> <<"deductive", {S[i]}>>]
    \o (IF Len(S) < 2 THEN <<>> ELSE << <<"inductive", Range(S)>> >>)
    \o SetToSeq({<<"contradiction", P>> : P \in Opposed \cap SUBSET Range(S)})

(* run(): the explicit observations are read once, in any order of their    *)
(* confidence and age, and end the run when there are none; every           *)
(* specialist passes over those that cite no evidence.  Mistaken variant:   *)
(* deleted ones too.                                                        *)
QueriedAll == {x \in Grounded : Explicit(x) \in obsLive \cup obsGone}
Queried == {x \in Grounded : Live(x)}

ConsolidatePair(p) ==
    /\ PersStart(p)
    /\ \E x \in Remarks : Live(x)
    /\ \E S \in SetToSeqs(Queried) :
          /\ sources' = [sources EXCEPT ![p] = S]
          /\ derivable' = [derivable EXCEPT ![p] = Derivable(S)]
    /\ PersGoto(p, "derive")
    /\ UNCHANGED <<obsStores, card, budget, made, cardRead, overlap>>

(* createDerivedObservation(): an observation that was there counts, too.   *)
DeriveNext(p) ==
    /\ persPc[p] = "derive" /\ derivable[p] # <<>> /\ made[p] < budget
    /\ CreateObservation(Head(derivable[p]))
    /\ derivable' = [derivable EXCEPT ![p] = Tail(@)]
    /\ made' = [made EXCEPT ![p] = @ + 1]
    /\ UNCHANGED <<card, budget, persPc, sources, cardRead, persMoves,
                   overlap>>

(* canCreateDerived(): every specialist stops when the budget of the run is *)
(* spent.  Mistaken variant: one short of it.                               *)
SpentEarly(p) == made[p] + 1 >= budget
Spent(p) == made[p] >= budget

ReadCard(p) ==
    /\ persPc[p] = "derive" /\ (derivable[p] = <<>> \/ Spent(p))
    /\ cardRead' = [cardRead EXCEPT ![p] = card]
    /\ PersGoto(p, "card")
    /\ UNCHANGED <<obsStores, card, budget, sources, derivable, made,
                   persMoves, overlap>>

(* runActorCardMaintenance(): the entries read and those of observations    *)
(* that give a new one, up to a number of updates and the size of a card.   *)
(* Mistaken variant: the new ones only.                                     *)
Eligible(p) == {i \in DOMAIN sources[p] :
                    sources[p][i] \in Preferring \ cardRead[p]}
Fits(p, I) == /\ Cardinality(I) < MaxUpdates
              /\ Cardinality(cardRead[p]) + Cardinality(I) < CardLimit
Accepted(p) ==
    {i \in Eligible(p) : Fits(p, {j \in Eligible(p) : j < i})}
NewEntries(p) == {sources[p][i] : i \in Accepted(p)}
MaintainedAnew(p) == NewEntries(p)
Maintained(p) == cardRead[p] \cup NewEntries(p)

UpsertCard(p) ==
    /\ persPc[p] = "card"
    /\ card' = IF NewEntries(p) = {} THEN card ELSE Maintained(p)
    /\ PersReturn(p)
    /\ UNCHANGED <<obsStores, budget, persMoves, overlap>>

(* The process may end, or a call fail, between any two of these.           *)
PersFail(p) ==
    /\ persPc[p] # "idle"
    /\ PersReturn(p)
    /\ UNCHANGED <<obsStores, card, budget, persMoves, overlap>>

-----------------------------------------------------------------------------
(* A client reads the card and writes it back with an entry more or one     *)
(* less; one without entries is refused.                                    *)
OpenCard(p) ==
    /\ PersStart(p)
    /\ cardRead' = [cardRead EXCEPT ![p] = card]
    /\ PersGoto(p, "edit")
    /\ UNCHANGED <<obsStores, card, budget, sources, derivable, made, overlap>>

SaveCard(p, E) ==
    /\ persPc[p] = "edit"
    /\ E # {} /\ Cardinality(E) <= CardLimit
    /\ card' = E
    /\ PersReturn(p)
    /\ UNCHANGED <<obsStores, budget, persMoves, overlap>>

PersNext ==
    \/ \E x \in Remarks : Observe(x)
    \/ \E o \in obsLive \cup obsGone : DeleteObservation(o)
    \/ TakeObservation \/ IndexObservation \/ CleanObservations
    \/ \E p \in Procs :
          \/ ConsolidatePair(p) \/ DeriveNext(p) \/ ReadCard(p)
          \/ UpsertCard(p) \/ PersFail(p) \/ OpenCard(p)
          \/ \E e \in OwnEntries : SaveCard(p, cardRead[p] \cup {e})
          \/ \E e \in cardRead[p] : SaveCard(p, cardRead[p] \ {e})

PersSpec == PersInit /\ [][PersNext]_persVars

-----------------------------------------------------------------------------
(* A live observation whose job is done can be found, unless it was deleted *)
(* when the job's turn came and brought back since: then nothing enqueues   *)
(* it until the job is cleaned up.                                          *)
LiveIsFound ==
    obsDone \cap obsLive \subseteq obsIndex \cup passedOver

(* A consolidation that comes to the card has derived all there is to       *)
(* derive, or its budget is spent; what it derived is there, unless it was  *)
(* deleted meanwhile.                                                       *)
NothingLeftOut ==
    \A p \in Procs : persPc[p] = "card" /\ ~overlap =>
        LET All == Derivable(sources[p])
            Due == IF Len(All) <= budget THEN Len(All) ELSE budget
        IN  \A i \in 1..Due : All[i] \in obsLive

(* Nothing is derived from what was deleted: a derived observation appears, *)
(* or comes back after its deletion, while its sources are live, when       *)
(* consolidations run alone.                                                *)
DerivedFromLive ==
    [][~overlap => \A o \in obsLive' \ obsLive :
          o[1] # "explicit" => \A x \in o[2] : Live(x)]_persVars

(* Maintenance takes nothing off the card when nobody edits it meanwhile,   *)
(* and keeps it within the size of a card.                                  *)
MaintenanceAddsOnly ==
    [][\A p \in Procs : persPc[p] = "card" /\ card' # card =>
          /\ Cardinality(card') <= CardLimit
          /\ ~overlap => card \subseteq card']_persVars

ObservationsHold == [](LiveIsFound /\ NothingLeftOut) /\ DerivedFromLive
                    /\ MaintenanceAddsOnly
=============================================================================
