--------------------------- MODULE CoordinationProofs -----------------------
(***************************************************************************)
(* What processes do for each other they do once: an active lease per       *)
(* target, a summary per session, a graduation pass per project at a time,  *)
(* a daemon behind the socket; and what they leave in files for each other  *)
(* is what they meant: turns, the registry, the definition of the timer.    *)
(***************************************************************************)
EXTENDS Summaries, AutoGraduation, Turns, MaintenanceTimer, SessionRegistry,
        EventStoreProofs, RecordsProofs, DerivedProofs,
        SequenceTheorems, NaturalsInduction, WellFoundedInduction, TLAPS

(* A call in progress is about a row there is; rows are made in their order *)
LeaseInv ==
    /\ LeaseTypeOK
    /\ \A p \in Procs : leasePc[p] # "idle" =>
          leaseOf[p] \in LeaseIds /\ lease[leaseOf[p]] \in LeaseRow

(* What a serial renew() read still holds when it writes: another active    *)
(* lease of the target would have had to be acquired in between.            *)
SerialLeases ==
    /\ \A p, q \in Procs : leasePc[p] # "idle" /\ leasePc[q] # "idle" => p = q
    /\ \A p \in Procs : leasePc[p] = "renew" =>
          \A l \in ActiveOn(lease[leaseOf[p]].target) : l = leaseOf[p]
    /\ \A k, l \in LeaseIds :
          Active(k) /\ Active(l) /\ lease[k].target = lease[l].target => k = l

-----------------------------------------------------------------------------
LEMMA LeaseInitial == LeaseInit => LeaseInv /\ SerialLeases
  BY LeaseAssumption
     DEF LeaseInit, LeaseInv, LeaseTypeOK, SerialLeases, Active, LeaseIds

LEMMA LeaseInvStep ==
  ASSUME LeaseInv, [LeaseNext]_leaseVars
  PROVE  LeaseInv'
<1> USE LeaseAssumption DEF LeaseInv, LeaseTypeOK, LeaseIds, LeaseRow
<1>1. ASSUME NEW p \in Procs, NEW t \in Targets, AcquireLease(p, t)
      PROVE  LeaseInv'
  <2>1. granted' \in 1 .. MaxLeases
    BY <1>1 DEF AcquireLease
  <2> DEFINE lr == [target |-> t, holder |-> p, expired |-> FALSE,
                    released |-> FALSE]
  <2>2. lr \in LeaseRow /\ lease' = [lease EXCEPT ![granted'] = lr]
    BY <1>1 DEF AcquireLease
  <2> QED BY <1>1, <2>1, <2>2 DEF AcquireLease
<1>2. ASSUME NEW p \in Procs, NEW l \in LeaseIds, RenewLook(p, l)
      PROVE  LeaseInv'
  BY <1>2 DEF RenewLook, Renewable
<1>3. ASSUME NEW p \in Procs, NEW l \in LeaseIds, ReleaseLook(p, l)
      PROVE  LeaseInv'
  BY <1>3 DEF ReleaseLook
<1>4. ASSUME NEW p \in Procs, RenewWrite(p) PROVE LeaseInv'
  BY <1>4 DEF RenewWrite, LeaseReturn
<1>5. ASSUME NEW p \in Procs, ReleaseWrite(p) PROVE LeaseInv'
  BY <1>5 DEF ReleaseWrite, LeaseReturn
<1>6. ASSUME NEW p \in Procs, LeaseCrash(p) PROVE LeaseInv'
  BY <1>6 DEF LeaseCrash, LeaseReturn
<1>7. ASSUME NEW l \in LeaseIds, Expire(l) PROVE LeaseInv'
  BY <1>7 DEF Expire, Active
<1>8. CASE UNCHANGED leaseVars
  BY <1>8 DEF leaseVars
<1> QED BY <1>1, <1>2, <1>3, <1>4, <1>5, <1>6, <1>7, <1>8 DEF LeaseNext

LEMMA LeaseSerialStep ==
  ASSUME LeaseInv, ~overlap, SerialLeases, [LeaseNext]_leaseVars
  PROVE  SerialLeases'
<1> USE LeaseAssumption
    DEF LeaseInv, LeaseTypeOK, LeaseIds, LeaseRow, SerialLeases, Active,
        ActiveOn
<1>1. ASSUME NEW p \in Procs, NEW t \in Targets, AcquireLease(p, t)
      PROVE  SerialLeases'
  <2> DEFINE lr == [target |-> t, holder |-> p, expired |-> FALSE,
                    released |-> FALSE]
  <2>1. granted' \in LeaseIds /\ lease' = [lease EXCEPT ![granted'] = lr]
    BY <1>1 DEF AcquireLease
  <2>2. \A k \in LeaseIds : k # granted' => lease'[k] = lease[k]
    BY <2>1
  <2>3. \A k \in LeaseIds : Active(k) => lease[k].target # t
    BY <1>1 DEF AcquireLease
  <2>4. lease'[granted'].target = t
    BY <2>1
  <2>5. \A q \in Procs : leasePc'[q] = "idle"
    BY <1>1 DEF AcquireLease, MayStart
  <2>6. ASSUME NEW k \in LeaseIds, NEW l \in LeaseIds, Active(k)', Active(l)',
               lease'[k].target = lease'[l].target
        PROVE  k = l
    <3>1. CASE k = granted'
      BY <3>1, <2>2, <2>3, <2>4, <2>6
    <3>2. CASE l = granted'
      BY <3>2, <2>2, <2>3, <2>4, <2>6
    <3> QED BY <3>1, <3>2, <2>2, <2>6
  <2> QED BY <2>5, <2>6
<1>2. ASSUME NEW p \in Procs, NEW l \in LeaseIds, RenewLook(p, l)
      PROVE  SerialLeases'
  BY <1>2 DEF RenewLook, Renewable, MayStart
<1>3. ASSUME NEW p \in Procs, NEW l \in LeaseIds, ReleaseLook(p, l)
      PROVE  SerialLeases'
  BY <1>3 DEF ReleaseLook, MayStart
<1>4. ASSUME NEW p \in Procs, RenewWrite(p) PROVE SerialLeases'
  <2> DEFINE l == leaseOf[p]
  <2>1. /\ l \in LeaseIds /\ lease'[l].target = lease[l].target
        /\ \A k \in LeaseIds : k # l => lease'[k] = lease[k]
    BY <1>4 DEF RenewWrite
  <2>2. \A q \in Procs : leasePc'[q] = "idle"
    BY <1>4 DEF RenewWrite, LeaseReturn
  <2>3. \A k \in LeaseIds :
           Active(k) /\ lease[k].target = lease[l].target => k = l
    BY <1>4 DEF RenewWrite
  <2> QED BY <2>1, <2>2, <2>3
<1>5. ASSUME NEW p \in Procs, ReleaseWrite(p) PROVE SerialLeases'
  <2> DEFINE l == leaseOf[p]
  <2>1. /\ l \in LeaseIds /\ lease'[l].released
        /\ \A k \in LeaseIds : k # l => lease'[k] = lease[k]
    BY <1>5 DEF ReleaseWrite
  <2>2. \A q \in Procs : leasePc'[q] = "idle"
    BY <1>5 DEF ReleaseWrite, LeaseReturn
  <2> QED BY <2>1, <2>2
<1>6. ASSUME NEW p \in Procs, LeaseCrash(p) PROVE SerialLeases'
  BY <1>6 DEF LeaseCrash, LeaseReturn
<1>7. ASSUME NEW l \in LeaseIds, Expire(l) PROVE SerialLeases'
  <2>1. /\ lease'[l].expired /\ lease'[l].target = lease[l].target
        /\ \A k \in LeaseIds : k # l => lease'[k] = lease[k]
    BY <1>7 DEF Expire
  <2> QED BY <1>7, <2>1 DEF Expire
<1>8. CASE UNCHANGED leaseVars
  BY <1>8 DEF leaseVars
<1> QED BY <1>1, <1>2, <1>3, <1>4, <1>5, <1>6, <1>7, <1>8 DEF LeaseNext

LEMMA LeaseOverlapStays == [LeaseNext]_leaseVars => overlap' = overlap
  BY DEF LeaseNext, leaseVars, AcquireLease, RenewLook, ReleaseLook,
         RenewWrite, ReleaseWrite, LeaseCrash, Expire

-----------------------------------------------------------------------------
(* Rows and calls have their types, although a holder may die in a call.    *)
THEOREM LeasesHaveTypes == LeaseSpec => []LeaseTypeOK
<1> QED BY LeaseInitial, LeaseInvStep, PTL DEF LeaseSpec, LeaseInv

(* A target never has two holders: an expired lease cannot be renewed over  *)
(* its successor, nor two be acquired, when calls do not overlap.           *)
THEOREM LeasesAreExclusive == LeaseSpec => []OneActiveLease
<1> DEFINE Inv == LeaseInv /\ (~overlap => SerialLeases)
<1>1. LeaseInit => Inv
  BY LeaseInitial
<1>2. Inv /\ [LeaseNext]_leaseVars => Inv'
  BY LeaseInvStep, LeaseSerialStep, LeaseOverlapStays
<1>3. Inv => OneActiveLease
  BY DEF SerialLeases, OneActiveLease
<1> QED BY <1>1, <1>2, <1>3, PTL DEF LeaseSpec

-----------------------------------------------------------------------------
SumTypes ==
    /\ summaries \in [Chats -> Nat]
    /\ llm \in BOOLEAN /\ overlap \in BOOLEAN
    /\ keeper \in Procs \cup {None}
    /\ sumPc \in [Procs -> {"idle", "check", "generate", "store"}]
    /\ sumOf \in [Procs -> Chats \cup {None}]

(* One request is at work, with the lock if it asked for it, and the check  *)
(* it made still holds.                                                     *)
SumAlone ==
    /\ \A p, q \in Procs : sumPc[p] # "idle" /\ sumPc[q] # "idle" => p = q
    /\ llm => \A p \in Procs : sumPc[p] # "idle" => keeper = p
    /\ \A p \in Procs : sumPc[p] \in {"generate", "store"} =>
          summaries[sumOf[p]] = 0
    /\ \A s \in Chats : summaries[s] <= 1

SumInv ==
    /\ SumTypes
    /\ \A p \in Procs : sumPc[p] # "idle" => sumOf[p] \in Chats
    /\ llm \/ ~overlap => SumAlone

-----------------------------------------------------------------------------
LEMMA SumStep ==
  ASSUME SumInv, [SumNext]_sumVars
  PROVE  SumInv'
<1> USE SummaryAssumption DEF SumInv, SumTypes
<1>1. ASSUME NEW s \in Chats, StoreChatEvent(s) PROVE SumInv'
  BY <1>1 DEF StoreChatEvent, SumAlone
<1>2. ASSUME NEW p \in Procs, NEW s \in Chats, Summarize(p, s)
      PROVE  SumInv'
  <2>1. SumTypes' /\ \A q \in Procs : sumPc'[q] # "idle" => sumOf'[q] \in Chats
    BY <1>2 DEF Summarize, SumGoto
  <2>2. ASSUME llm \/ ~overlap PROVE SumAlone'
    <3>1. \A q \in Procs : sumPc[q] = "idle"
      BY <1>2, <2>2 DEF Summarize, MayStart, LockFree, SumAlone
    <3>2. llm => keeper' = p
      BY <1>2 DEF Summarize
    <3>3. /\ UNCHANGED <<summaries, llm>>
          /\ sumPc' = [sumPc EXCEPT ![p] = "check"]
      BY <1>2 DEF Summarize, SumGoto
    <3> QED BY <2>2, <3>1, <3>2, <3>3 DEF SumAlone
  <2> QED BY <1>2, <2>1, <2>2 DEF Summarize
<1>3. ASSUME NEW p \in Procs, ReadEventsOf(p) PROVE SumInv'
  <2>1. CASE Wants(sumOf[p])
    BY <1>3, <2>1 DEF ReadEventsOf, Wants, SumGoto, SumAlone
  <2>2. CASE ~Wants(sumOf[p])
    BY <1>3, <2>2 DEF ReadEventsOf, SumReturn, SumGoto, SumAlone
  <2> QED BY <2>1, <2>2
<1>4. ASSUME NEW p \in Procs, Generate(p) PROVE SumInv'
  BY <1>4 DEF Generate, SumReturn, SumGoto, SumAlone
<1>5. ASSUME NEW p \in Procs, StoreSummary(p) PROVE SumInv'
  <2> DEFINE s == sumOf[p]
  <2>1. /\ s \in Chats /\ sumPc' = [sumPc EXCEPT ![p] = "idle"]
        /\ sumOf' = [sumOf EXCEPT ![p] = None]
        /\ keeper' = IF keeper = p THEN None ELSE keeper
        /\ UNCHANGED <<llm, overlap>>
        /\ \/ UNCHANGED summaries
           \/ summaries' = [summaries EXCEPT ![s] = @ + 1]
    BY <1>5 DEF StoreSummary, SumReturn, SumGoto
  <2>2. SumTypes' /\ \A q \in Procs : sumPc'[q] # "idle" => sumOf'[q] \in Chats
    BY <2>1
  <2>3. ASSUME llm \/ ~overlap PROVE SumAlone'
    <3>1. /\ summaries[s] = 0
          /\ \A q \in Procs : sumPc'[q] = "idle"
      BY <1>5, <2>1, <2>3 DEF StoreSummary, SumAlone
    <3>2. \A c \in Chats : summaries'[c] <= 1
      BY <2>1, <2>3, <3>1 DEF SumAlone
    <3> QED BY <3>1, <3>2 DEF SumAlone
  <2> QED BY <2>1, <2>2, <2>3
<1>6. ASSUME NEW p \in Procs, SumFails(p) PROVE SumInv'
  BY <1>6 DEF SumFails, SumReturn, SumGoto, SumAlone
<1>7. CASE UNCHANGED sumVars
  BY <1>7 DEF sumVars, SumAlone
<1> QED BY <1>1, <1>2, <1>3, <1>4, <1>5, <1>6, <1>7 DEF SumNext

(* However long the LLM takes, and whoever asks in the meantime, a session  *)
(* gets one summary: by the lock, or by rule if no call runs inside another.*)
THEOREM SessionsHaveOneSummary == SumSpec => []OneSummary
<1>1. SumInit => SumInv
  BY SummaryAssumption DEF SumInit, SumInv, SumTypes, SumAlone
<1>2. SumInv => OneSummary
  BY DEF SumInv, SumAlone, OneSummary
<1> QED BY <1>1, <1>2, SumStep, PTL DEF SumSpec

-----------------------------------------------------------------------------
One(b) == IF b THEN 1 ELSE 0

(* Before shutdown() clears the map, its states say what is in progress.    *)
SchedulerInv ==
    /\ states \in [Projects -> [timer: BOOLEAN, running: BOOLEAN,
                                cool: BOOLEAN]]
    /\ timers \in [Projects -> Int] /\ passes \in [Projects -> Int]
    /\ stopping # "cleared" => \A k \in Projects :
          /\ passes[k] = One(states[k].running)
          /\ timers[k] = One(states[k].timer)
          /\ ~(states[k].timer /\ states[k].running)

LEMMA SchedulerStep ==
  ASSUME SchedulerInv, [SchedulerNext]_schedulerVars
  PROVE  SchedulerInv'
<1> USE DEF SchedulerInv, One
<1>1. ASSUME NEW k \in Projects, Schedule(k) PROVE SchedulerInv'
  BY <1>1 DEF Schedule, InFlight
<1>2. ASSUME NEW k \in Projects, Fire(k) PROVE SchedulerInv'
  <2>1. CASE /\ states[k].timer
             /\ states' = [states EXCEPT ![k].timer = FALSE,
                                         ![k].running = TRUE]
    <3>1. /\ ~states'[k].timer /\ states'[k].running
          /\ \A j \in Projects \ {k} : states'[j] = states[j]
      BY <2>1
    <3>2. states' \in [Projects -> [timer: BOOLEAN, running: BOOLEAN,
                                    cool: BOOLEAN]]
      <4> DEFINE s == [states[k] EXCEPT !.timer = FALSE, !.running = TRUE]
      <4>1. states' = [states EXCEPT ![k] = s]
        BY <2>1
      <4>2. s \in [timer: BOOLEAN, running: BOOLEAN, cool: BOOLEAN]
        OBVIOUS
      <4> HIDE DEF s
      <4> QED BY <4>1, <4>2
    <3> QED BY <1>2, <2>1, <3>1, <3>2 DEF Fire
  <2>2. CASE (~states[k].timer \/ timers[k] > 1) /\ UNCHANGED states
    BY <1>2, <2>2 DEF Fire
  <2> QED BY <1>2, <2>1, <2>2 DEF Fire
<1>3. ASSUME NEW k \in Projects, FinishPass(k) PROVE SchedulerInv'
  <2>1. CASE /\ states[k].running
             /\ states' = [states EXCEPT ![k].running = FALSE]
    <3>1. /\ ~states'[k].running /\ states'[k].timer = states[k].timer
          /\ \A j \in Projects \ {k} : states'[j] = states[j]
      BY <2>1
    <3>2. states' \in [Projects -> [timer: BOOLEAN, running: BOOLEAN,
                                    cool: BOOLEAN]]
      BY <2>1
    <3> QED BY <1>3, <2>1, <3>1, <3>2 DEF FinishPass
  <2>2. CASE (~states[k].running \/ passes[k] > 1) /\ UNCHANGED states
    BY <1>3, <2>2 DEF FinishPass
  <2> QED BY <1>3, <2>1, <2>2 DEF FinishPass
<1>4. ASSUME NEW k \in Projects, Cool(k) PROVE SchedulerInv'
  BY <1>4 DEF Cool
<1>5. CASE StopScheduler
  <2>1. \A k \in Projects :
           /\ ~states'[k].timer /\ states'[k].running = states[k].running
           /\ timers'[k] = timers[k] - One(states[k].timer)
    BY <1>5 DEF StopScheduler
  <2>2. states' \in [Projects -> [timer: BOOLEAN, running: BOOLEAN,
                                  cool: BOOLEAN]]
    <3>1. states' = [k \in Projects |-> [states[k] EXCEPT !.timer = FALSE]]
      BY <1>5 DEF StopScheduler
    <3>2. \A k \in Projects : [states[k] EXCEPT !.timer = FALSE]
             \in [timer: BOOLEAN, running: BOOLEAN, cool: BOOLEAN]
      OBVIOUS
    <3> QED BY <3>1, <3>2
  <2>3. timers' \in [Projects -> Int]
    BY <1>5 DEF StopScheduler
  <2>4. UNCHANGED passes /\ stopping = "no"
    BY <1>5 DEF StopScheduler
  <2> QED BY <2>1, <2>2, <2>3, <2>4
<1>6. CASE ClearStates
  BY <1>6 DEF ClearStates, NoState
<1>7. CASE RestartDaemon
  BY <1>7 DEF RestartDaemon, NoState
<1>8. CASE UNCHANGED schedulerVars
  BY <1>8 DEF schedulerVars
<1> QED BY <1>1, <1>2, <1>3, <1>4, <1>5, <1>6, <1>7, <1>8 DEF SchedulerNext

(* A burst of prompts starts no second pass of a project, whatever number   *)
(* of projects there are and however their timers and passes interleave.    *)
THEOREM PassesDoNotOverlap == SchedulerSpec => []OnePassPerProject
<1>1. SchedulerInit => SchedulerInv
  BY DEF SchedulerInit, SchedulerInv, NoState, One
<1>2. SchedulerInv => OnePassPerProject
  BY DEF SchedulerInv, OnePassPerProject, One
<1> QED BY <1>1, <1>2, SchedulerStep, PTL DEF SchedulerSpec

-----------------------------------------------------------------------------
Unsettled(d) == daemonPc[d] \in {"unlink", "listen", "closed"}

(* While a daemon takes the path or gives it up, no other does, and nobody  *)
(* listens: it found nobody there, or was the one that did.                 *)
SerialDaemons ==
    /\ \A c, d \in Daemons : Unsettled(c) /\ Unsettled(d) => c = d
    /\ \A c, d \in Daemons : Unsettled(c) => ~Listening(d)
    /\ \A d \in Daemons : Listening(d) => socket = d

LEMMA DaemonTypes ==
  ASSUME DaemonTypeOK, [DaemonNext]_daemonVars
  PROVE  DaemonTypeOK'
<1> USE DaemonAssumption DEF DaemonTypeOK, DaemonPCs, HookPCs, DaemonGoto,
                             HookGoto, Reachable
<1>1. ASSUME NEW d \in Daemons,
             \/ Probe(d) \/ UnlinkOld(d) \/ Listen(d) \/ Shutdown(d)
             \/ CloseServer(d) \/ ExitDaemon(d) \/ KillDaemon(d)
      PROVE  DaemonTypeOK'
  BY <1>1 DEF Probe, UnlinkOld, Listen, Shutdown, CloseServer, ExitDaemon,
              KillDaemon
<1>2. ASSUME NEW h \in Hooks, Ask(h) \/ Retry(h) PROVE DaemonTypeOK'
  BY <1>2 DEF Ask, Retry, Request
<1>3. ASSUME NEW h \in Hooks, Ensure(h) \/ Wait(h) PROVE DaemonTypeOK'
  BY <1>3 DEF Ensure, Wait, Spawn
<1>4. CASE StartEarly \/ InstallBuild
  BY <1>4 DEF StartEarly, Spawn, InstallBuild
<1>5. CASE UNCHANGED daemonVars
  BY <1>5 DEF daemonVars
<1> QED BY <1>1, <1>2, <1>3, <1>4, <1>5 DEF DaemonNext

LEMMA DaemonSerialStep ==
  ASSUME DaemonTypeOK, ~overlap, SerialDaemons, [DaemonNext]_daemonVars
  PROVE  SerialDaemons'
<1> USE DaemonAssumption DEF DaemonTypeOK, DaemonPCs, DaemonGoto, Reachable,
            SerialDaemons, Unsettled, Listening, Settled
<1>1. ASSUME NEW d \in Daemons, Probe(d) PROVE SerialDaemons'
  BY <1>1 DEF Probe
<1>2. ASSUME NEW d \in Daemons,
             \/ UnlinkOld(d) \/ Listen(d) \/ Shutdown(d)
             \/ CloseServer(d) \/ ExitDaemon(d) \/ KillDaemon(d)
      PROVE  SerialDaemons'
  BY <1>2 DEF UnlinkOld, Listen, Shutdown, CloseServer, ExitDaemon, KillDaemon
<1>3. ASSUME NEW h \in Hooks, Ask(h) \/ Retry(h) PROVE SerialDaemons'
  BY <1>3 DEF Ask, Retry, Request
<1>4. ASSUME NEW h \in Hooks, Ensure(h) \/ Wait(h) PROVE SerialDaemons'
  BY <1>4 DEF Ensure, Wait, Spawn
<1>5. CASE StartEarly \/ InstallBuild
  BY <1>5 DEF StartEarly, Spawn, InstallBuild
<1>6. CASE UNCHANGED daemonVars
  BY <1>6 DEF daemonVars
<1> QED BY <1>1, <1>2, <1>3, <1>4, <1>5, <1>6 DEF DaemonNext

(* The path leads to the one daemon that listens, for any number of daemons *)
(* and hooks that spawn them, whoever is killed and whenever a new build is *)
(* installed, unless a start or a shutdown runs inside another.             *)
THEOREM OneDaemonListens == DaemonSpec => [](DaemonTypeOK /\ OneDaemon)
<1>1. DaemonInit => DaemonTypeOK /\ SerialDaemons
  BY DaemonAssumption
     DEF DaemonInit, DaemonTypeOK, DaemonPCs, HookPCs, SerialDaemons,
         Unsettled, Listening
<1>2. (~overlap => SerialDaemons) => OneDaemon
  BY DEF SerialDaemons, OneDaemon
<1>3. [DaemonNext]_daemonVars => UNCHANGED overlap
  BY DEF DaemonNext, daemonVars, Probe, UnlinkOld, Listen, Shutdown,
         CloseServer, ExitDaemon, KillDaemon, Ask, Ensure, Wait, Retry,
         StartEarly, InstallBuild
<1>4. /\ DaemonTypeOK /\ (~overlap => SerialDaemons)
      /\ [DaemonNext]_daemonVars
      => DaemonTypeOK' /\ (~overlap => SerialDaemons)'
  BY <1>3, DaemonTypes, DaemonSerialStep
<1> QED BY <1>1, <1>2, <1>4, PTL DEF DaemonSpec

-----------------------------------------------------------------------------
(* A state file that no Stop hook has read is not of a turn that one ended; *)
(* a turn that ended is not after the present one, so that what is stored   *)
(* under an open turn before this one stays right.                          *)
TurnInv ==
    /\ turn \in 0 .. MaxTurns
    /\ stopped \subseteq 1 .. turn /\ transcript \subseteq 1 .. turn
    /\ stopPc \in {"idle", "store", "clear"}
    /\ running => turn > 0 /\ turn \notin stopped /\ stopPc = "idle"
    /\ turnFile = None \/ turnFile \in 1 .. turn
    /\ stopPc = "idle" /\ turnFile # None => turnFile \notin stopped
    /\ stopPc # "idle" => \/ stopTurn \in {None, turn}
                          \/ stopTurn \in (1 .. turn) \ stopped
    /\ \A o \in observed :
          \/ o[2] \in {o[1], None}
          \/ o[2] \in 1 .. turn - 1 /\ o[2] \notin stopped
    /\ answers \in [Numbers -> Numbers \cup {0, None}]
    /\ \A n \in Numbers :
          \/ answers[n] \in {0, None}
          \/ answers[n] \in n .. turn
          \/ answers[n] \in 1 .. turn - 1 /\ answers[n] \notin stopped

LEMMA TurnStep ==
  ASSUME ~overlap, TurnInv, [TurnNext]_turnVars
  PROVE  TurnInv'
<1> USE TurnAssumption DEF TurnInv, Numbers, HookMayStart, ReadTurn
<1>1. CASE SubmitPrompt
  BY <1>1 DEF SubmitPrompt
<1>2. CASE ObserveTool
  BY <1>2 DEF ObserveTool
<1>3. CASE Answer
  BY <1>3 DEF Answer
<1>8. CASE Interrupt
  BY <1>8 DEF Interrupt
<1>4. CASE StopHook
  BY <1>4 DEF StopHook
<1>5. CASE StoreAnswers
  BY <1>5 DEF StoreAnswers
<1>6. CASE ClearTurn
  BY <1>6 DEF ClearTurn, Cleared
<1>7. CASE UNCHANGED turnVars
  BY <1>7 DEF turnVars
<1> QED BY <1>1, <1>2, <1>3, <1>4, <1>5, <1>6, <1>7, <1>8 DEF TurnNext

(* No observation and no answer is stored under the turn of another, for    *)
(* any number of turns, whichever state files are lost or grow old, when    *)
(* the next hook waits for the Stop hook.                                   *)
THEOREM TurnsStayApart == TurnSpec => []TurnsAreApart
<1>1. TurnInit => TurnInv
  BY TurnAssumption DEF TurnInit, TurnInv, Numbers
<1>2. (~overlap => TurnInv) => TurnsAreApart
  BY DEF TurnInv, TurnsAreApart, Numbers
<1>3. [TurnNext]_turnVars => UNCHANGED overlap
  BY DEF TurnNext, turnVars, SubmitPrompt, ObserveTool, Answer, Interrupt,
         StopHook, StoreAnswers, ClearTurn
<1>4. (~overlap => TurnInv) /\ [TurnNext]_turnVars => (~overlap => TurnInv)'
  BY <1>3, TurnStep
<1> QED BY <1>1, <1>2, <1>4, PTL DEF TurnSpec

-----------------------------------------------------------------------------
LinuxPCs == {"reload", "enable", "restart", "disable", "reloadBack",
             "restartBack", "reloadLast"}
DarwinPCs == {"bootout", "bootstrap", "bootstrapBack"}

TimerTypes ==
    /\ platform \in {"linux", "darwin"} /\ installs \in Nat
    /\ definition \in [Definitions -> Nat]
    /\ loaded \in [Definitions -> Nat]
    /\ active \in BOOLEAN /\ mended \in BOOLEAN
    /\ previous \in [files : [Definitions -> Nat], active : BOOLEAN]
    /\ instPc \in {"idle", "write", "restore", "failed", "unlink"}
                  \cup LinuxPCs \cup DarwinPCs
    /\ instPc \in LinuxPCs => platform = "linux"
    /\ instPc \in DarwinPCs => platform = "darwin"
    /\ instPc = "write" => installs > 0

(* What a command that nobody interrupts has done when each of its steps is *)
(* next: the job runs as before from what the manager has loaded, until the *)
(* step that starts it anew, and a rollback ends where that was.            *)
RunsAsBefore == (active <=> previous.active) /\ (active => loaded = previous.files)

TimerInv ==
    /\ instPc \notin {"idle", "unlink", "reloadLast"} =>
          (previous.active => AllThere(previous.files))
    /\ instPc \in {"write", "reload", "bootout"} => RunsAsBefore
    /\ instPc \in {"reload", "enable", "restart", "bootout", "bootstrap"} =>
          AllThere(definition)
    /\ instPc \in {"enable", "restart", "restartBack"} => loaded = definition
    /\ instPc \in {"enable", "restart", "disable", "reloadBack"} =>
          (active <=> previous.active)
    /\ instPc \in {"bootstrap", "restore"} /\ active => previous.active
    /\ instPc = "restore" /\ platform = "linux" => (active <=> previous.active)
    /\ instPc = "disable" => ~AllThere(previous.files)
    /\ instPc \in {"reloadBack", "restartBack", "bootstrapBack", "failed"} =>
          definition = previous.files
    /\ instPc \in {"restartBack", "bootstrapBack"} => AllThere(previous.files)
    /\ instPc \in {"unlink", "reloadLast"} => ~active
    /\ instPc \in {"idle", "failed"} /\ active =>
          loaded = definition /\ AllThere(definition)
    /\ instPc = "failed" /\ previous.active => active

LEMMA ManagerTypes ==
  ASSUME TimerTypes,
         \/ Reload \/ Enable \/ Restart \/ Disable \/ Bootout \/ Bootstrap
         \/ Fails
  PROVE  loaded' \in [Definitions -> Nat] /\ active' \in BOOLEAN
<1>1. CASE Bootout
  BY <1>1 DEF Bootout, Absent
<1>2. CASE ~Bootout
  BY <1>2 DEF TimerTypes, Reload, Enable, Restart, Disable, Bootstrap, Fails
<1> QED BY <1>1, <1>2

LEMMA TimerTypesStep ==
  ASSUME TimerTypes, [TimerNext]_timerVars
  PROVE  TimerTypes'
<1> USE InstallsAssumption DEF TimerTypes, LinuxPCs, DarwinPCs
<1>1. CASE StartInstall
  BY <1>1 DEF StartInstall
<1>2. CASE WriteDefinitions
  BY <1>2 DEF WriteDefinitions
<1>3. CASE RunCommand
  <2>1. Reload \/ Enable \/ Restart \/ Bootstrap \/ Fails
    BY <1>3 DEF RunCommand, Command, After
  <2>2. loaded' \in [Definitions -> Nat] /\ active' \in BOOLEAN
    BY <2>1, ManagerTypes
  <2>3. UNCHANGED <<platform, definition, installs, previous, mended>>
    BY <1>3 DEF RunCommand
  <2>4. instPc \in {"reload", "enable", "restart", "bootstrap"}
    BY <1>3 DEF RunCommand, After
  <2>5. \/ instPc \in {"reload", "enable"} /\ instPc' \in {"enable", "restart"}
        \/ instPc' = "idle"
        \/ instPc' = "restore"
        \/ platform = "linux" /\ instPc' = "disable"
    BY <1>3 DEF RunCommand, After
  <2> QED BY <2>2, <2>3, <2>4, <2>5
<1>4. CASE RunBootout
  <2>1. loaded' \in [Definitions -> Nat] /\ active' \in BOOLEAN
    BY <1>4, ManagerTypes DEF RunBootout
  <2> QED BY <1>4, <2>1 DEF RunBootout
<1>5. CASE Restore
  BY <1>5 DEF Restore, Restored
<1>6. CASE RollBack
  <2>1. loaded' \in [Definitions -> Nat] /\ active' \in BOOLEAN
    BY <1>6, ManagerTypes DEF RollBack, Try
  <2>2. mended' \in BOOLEAN
    BY <1>6 DEF RollBack, Try
  <2> QED BY <1>6, <2>1, <2>2 DEF RollBack
<1>7. CASE Throw
  BY <1>7 DEF Throw
<1>8. CASE StartUninstall
  <2>1. loaded' \in [Definitions -> Nat] /\ active' \in BOOLEAN
    BY <1>8, ManagerTypes DEF StartUninstall, Try
  <2>2. mended' \in BOOLEAN
    BY <1>8 DEF StartUninstall, Try
  <2> QED BY <1>8, <2>1, <2>2 DEF StartUninstall
<1>9. CASE Unlink
  BY <1>9 DEF Unlink, Absent
<1>10. CASE ReloadLast
  <2>1. loaded' \in [Definitions -> Nat] /\ active' \in BOOLEAN
    BY <1>10, ManagerTypes DEF ReloadLast, Try
  <2>2. mended' \in BOOLEAN
    BY <1>10 DEF ReloadLast, Try
  <2> QED BY <1>10, <2>1, <2>2 DEF ReloadLast
<1>11. CASE Die
  BY <1>11 DEF Die
<1>12. CASE UNCHANGED timerVars
  BY <1>12 DEF timerVars
<1> QED BY <1>1, <1>2, <1>3, <1>4, <1>5, <1>6, <1>7, <1>8, <1>9, <1>10, <1>11,
           <1>12 DEF TimerNext

LEMMA TimerStep ==
  ASSUME TimerTypes, mended => TimerInv, [TimerNext]_timerVars
  PROVE  mended' => TimerInv'
<1> USE InstallsAssumption DEF TimerTypes, TimerInv, LinuxPCs, DarwinPCs,
        RunsAsBefore, AllThere, Definitions, Absent
<1>1. CASE StartInstall
  BY <1>1 DEF StartInstall
<1>2. CASE WriteDefinitions
  <2>1. CASE /\ platform = "linux" /\ instPc' = "write"
             /\ definition' = [definition EXCEPT !["service"] = installs]
    BY <1>2, <2>1 DEF WriteDefinitions
  <2>2. CASE /\ definition' = [f \in Definitions |-> installs]
             /\ instPc' = IF platform = "linux" THEN "reload" ELSE "bootout"
    BY <1>2, <2>2 DEF WriteDefinitions
  <2> QED BY <1>2, <2>1, <2>2 DEF WriteDefinitions
<1>3. CASE RunCommand
  <2>1. CASE Command(instPc) /\ instPc' = After[instPc]
    <3>1. CASE instPc = "reload"
      BY <1>3, <2>1, <3>1 DEF RunCommand, Command, After, Reload
    <3>2. CASE instPc = "enable"
      BY <1>3, <2>1, <3>2 DEF RunCommand, Command, After, Enable
    <3>3. CASE instPc = "restart"
      BY <1>3, <2>1, <3>3 DEF RunCommand, Command, After, Restart
    <3>4. CASE instPc = "bootstrap"
      BY <1>3, <2>1, <3>4 DEF RunCommand, Command, After, Bootstrap
    <3> QED BY <1>3, <3>1, <3>2, <3>3, <3>4 DEF RunCommand, After
  <2>2. CASE Fails /\ instPc' = IF platform = "linux" /\ ~AllThere(previous.files)
                                THEN "disable" ELSE "restore"
    BY <1>3, <2>2 DEF RunCommand, Fails, After
  <2> QED BY <1>3, <2>1, <2>2 DEF RunCommand
<1>4. CASE RunBootout
  BY <1>4 DEF RunBootout, Bootout, Fails
<1>5. CASE Restore
  BY <1>5 DEF Restore, Restored
<1>6. CASE RollBack
  BY <1>6 DEF RollBack, Try, Disable, Reload, Restart, Bootstrap, Fails
<1>7. CASE Throw
  BY <1>7 DEF Throw
<1>8. CASE StartUninstall
  BY <1>8 DEF StartUninstall, Try, Disable, Bootout, Fails
<1>9. CASE Unlink
  BY <1>9 DEF Unlink
<1>10. CASE ReloadLast
  BY <1>10 DEF ReloadLast, Try, Reload, Fails
<1>11. CASE Die
  BY <1>11 DEF Die
<1>12. CASE UNCHANGED timerVars
  BY <1>12 DEF timerVars
<1> QED BY <1>1, <1>2, <1>3, <1>4, <1>5, <1>6, <1>7, <1>8, <1>9, <1>10, <1>11,
           <1>12 DEF TimerNext

(* Whichever command of the service manager fails, on either system and     *)
(* after any number of installations, the job runs from the files there     *)
(* are, and a rollback that works brings back the job that was running.     *)
THEOREM TimerIsRolledBack == TimerSpec => []TimerRunsItsFiles
<1>1. ASSUME TimerInit PROVE TimerTypes
  <2>1. definition \in [Definitions -> Nat]
    BY <1>1 DEF TimerInit, Absent
  <2> QED BY <1>1, <2>1 DEF TimerInit, TimerTypes, LinuxPCs, DarwinPCs
<1>3. TimerInit => TimerInv
  BY DEF TimerInit, TimerInv, LinuxPCs, DarwinPCs, AllThere, RunsAsBefore,
         Definitions, Absent
<1>2. (mended => TimerInv) => TimerRunsItsFiles
  BY DEF TimerInv, TimerRunsItsFiles
<1> QED BY <1>1, <1>2, <1>3, TimerTypesStep, TimerStep, PTL DEF TimerSpec

-----------------------------------------------------------------------------
LEMMA MinExists ==
  ASSUME NEW S, S \subseteq Nat, S # {}
  PROVE  Min(S) \in S
<1>1. \E x \in S : \A y \in S : ~ (<<y, x>> \in OpToRel(<, Nat))
  BY NatLessThanWellFounded, WFMin
<1>2. PICK x \in S : \A y \in S : ~ (<<y, x>> \in OpToRel(<, Nat))
  BY <1>1
<1>3. ASSUME NEW y \in S PROVE x =< y
  <2>1. ~ (y < x)
    BY <1>2, <1>3 DEF OpToRel
  <2> QED BY <2>1
<1> QED BY <1>3 DEF Min

LEMMA RemoveFirstType ==
  ASSUME NEW S, NEW seq \in Seq(S), NEW e
  PROVE  RemoveFirst(seq, e) \in Seq(S)
<1>1. CASE \E i \in 1 .. Len(seq) : seq[i] = e
  <2> DEFINE I == {i \in 1 .. Len(seq) : seq[i] = e}
             m == Min(I)
  <2>1. I \subseteq Nat /\ I # {}
    BY <1>1
  <2>2. m \in I
    BY <2>1, MinExists
  <2>3. SelectInSeq(seq, LAMBDA v : v = e) = m
    BY <2>1 DEF SelectInSeq
  <2>4. m \in 1 .. Len(seq) /\ Len(seq) \in Nat
    BY <2>2
  <2> HIDE DEF m
  <2>5. SubSeq(seq, 1, m - 1) \in Seq(S)
    BY <2>4, SubSeqProperties
  <2>6. SubSeq(seq, m + 1, Len(seq)) \in Seq(S)
    BY <2>4, SubSeqProperties
  <2>7. RemoveFirst(seq, e) = RemoveAt(seq, m)
    BY <1>1, <2>3 DEF RemoveFirst
  <2> QED BY <2>5, <2>6, <2>7, ConcatProperties DEF RemoveAt
<1>2. CASE ~ \E i \in 1 .. Len(seq) : seq[i] = e
  BY <1>2 DEF RemoveFirst
<1> QED BY <1>1, <1>2

LEMMA WithType ==
  ASSUME NEW S, NEW seq \in Seq(S), NEW e \in S
  PROVE  With(seq, e) \in Seq(S)
<1> DEFINE all == Append(RemoveFirst(seq, e), e)
<1>1. all \in Seq(S) /\ all # <<>>
  BY RemoveFirstType, AppendProperties
<1> HIDE DEF all
<1>2. Tail(all) \in Seq(S)
  BY <1>1, HeadTailProperties
<1> QED BY <1>1, <1>2 DEF With, all

LEMMA SeqWidens ==
  ASSUME NEW S, NEW T, S \subseteq T, NEW seq \in Seq(S)
  PROVE  seq \in Seq(T)
BY \A i \in 1 .. Len(seq) : seq[i] \in T, seq = [i \in 1 .. Len(seq) |-> seq[i]],
   Len(seq) \in Nat

(* A call in progress is about to save what it was told to; the temporary   *)
(* file is another than the registry.                                       *)
Applied(p) == IF regOp[p].op = "register"
              THEN With(intended, regOp[p].session)
              ELSE RemoveFirst(intended, regOp[p].session)

RegTypes ==
    /\ inode \in [Inodes -> Seq(Registered \cup {None})]
    /\ file \in [registry : Inodes \cup {None}, temp : Inodes \cup {None}]
    /\ regPc \in [Procs -> {"idle", "open", "write", "rename"}]
    /\ regOp \in [Procs -> [op : {"register", "unregister", None},
                           session : Registered \cup {None}]]
    /\ copy \in [Procs -> Seq(Registered)]
    /\ fd \in [Procs -> Inodes \cup {None}]
    /\ intended \in Seq(Registered)

LEMMA RegReturnTypes ==
  ASSUME RegTypes, NEW p \in Procs, RegReturn(p)
  PROVE  /\ regPc' \in [Procs -> {"idle", "open", "write", "rename"}]
         /\ regOp' \in [Procs -> [op : {"register", "unregister", None},
                                  session : Registered \cup {None}]]
         /\ copy' \in [Procs -> Seq(Registered)]
         /\ fd' \in [Procs -> Inodes \cup {None}]
<1>1. <<>> \in Seq(Registered)
  OBVIOUS
<1>2. NoOp \in [op : {"register", "unregister", None},
               session : Registered \cup {None}]
  BY DEF NoOp
<1> QED BY <1>1, <1>2 DEF RegTypes, RegReturn, RegGoto

Saves(p) ==
    /\ regPc[p] # "idle" => regOp[p].session \in Registered /\ copy[p] = Applied(p)
    /\ regPc[p] \in {"idle", "open"} => fd[p] = None
    /\ regPc[p] \in {"write", "rename"} => fd[p] = file.temp /\ file.temp # None
    /\ regPc[p] = "rename" => inode[file.temp] = copy[p]
RegInv ==
    /\ Loaded = intended
    /\ file.temp # None => file.temp # file.registry
    /\ \A p, q \in Procs : regPc[p] # "idle" /\ regPc[q] # "idle" => p = q
    /\ \A p \in Procs : Saves(p)

LEMMA OneSaves ==
  ASSUME NEW p \in Procs, Saves(p)', Loaded' = intended',
         file'.temp # None => file'.temp # file'.registry,
         \A q \in Procs \ {p} : regPc'[q] = "idle" /\ fd'[q] = None
  PROVE  RegInv'
<1>1. \A q \in Procs : Saves(q)'
  BY DEF Saves
<1> QED BY <1>1 DEF RegInv

LEMMA RegStep ==
  ASSUME ~overlap, RegTypes, RegInv, [RegNext]_regVars
  PROVE  RegTypes' /\ RegInv'
<1> USE FileAssumption DEF RegTypes, RegInv, Saves
<1>0. ASSUME NEW p \in Procs, regPc[p] # "idle"
      PROVE  \A q \in Procs \ {p} : regPc[q] = "idle" /\ fd[q] = None
  BY <1>0
<1>1. ASSUME NEW p \in Procs, NEW s \in Registered,
             RegisterSession(p, s) \/ UnregisterSession(p, s)
      PROVE  RegTypes' /\ RegInv'
  <2>1. \A q \in Procs : regPc[q] = "idle"
    BY <1>1 DEF RegisterSession, UnregisterSession, MayStart
  <2>2. PICK o \in [op : {"register", "unregister"}, session : Registered] :
           /\ regOp' = [regOp EXCEPT ![p] = o]
           /\ copy' = [copy EXCEPT ![p] = IF o.op = "register"
                                          THEN With(intended, o.session)
                                          ELSE RemoveFirst(intended, o.session)]
    <3>1. CASE RegisterSession(p, s)
      <4>1. [op |-> "register", session |-> s]
               \in [op : {"register", "unregister"}, session : Registered]
        OBVIOUS
      <4> QED BY <3>1, <4>1 DEF RegisterSession
    <3>2. CASE UnregisterSession(p, s)
      <4>1. [op |-> "unregister", session |-> s]
               \in [op : {"register", "unregister"}, session : Registered]
        OBVIOUS
      <4> QED BY <3>2, <4>1 DEF UnregisterSession
    <3> QED BY <1>1, <3>1, <3>2
  <2>3. /\ regPc' = [regPc EXCEPT ![p] = "open"]
        /\ UNCHANGED <<inode, file, fd, intended>>
    BY <1>1 DEF RegisterSession, UnregisterSession, RegGoto
  <2>4. With(intended, o.session) \in Seq(Registered)
    BY WithType
  <2>5. RemoveFirst(intended, o.session) \in Seq(Registered)
    BY RemoveFirstType
  <2>6. RegTypes'
    BY <2>2, <2>3, <2>4, <2>5
  <2>7. Loaded' = Loaded
    BY <2>3 DEF Loaded
  <2>8. regOp'[p] = o /\ copy'[p] = Applied(p)'
    BY <2>2, <2>3 DEF Applied
  <2>9. Saves(p)'
    BY <2>1, <2>2, <2>3, <2>8
  <2>10. \A q \in Procs \ {p} : regPc'[q] = "idle" /\ fd'[q] = None
    BY <2>1, <2>3
  <2>11. /\ Loaded' = intended'
         /\ file'.temp # None => file'.temp # file'.registry
    BY <2>3, <2>7
  <2> HIDE DEF RegTypes, RegInv, Saves
  <2> QED BY <2>6, <2>9, <2>10, <2>11, OneSaves
<1>2. ASSUME NEW p \in Procs, OpenTemp(p) PROVE RegTypes' /\ RegInv'
  <2> DEFINE i == IF file.temp = None THEN FreeInode ELSE file.temp
  <2>1. regPc[p] = "open" /\ \A q \in Procs \ {p} : regPc[q] = "idle"
    BY <1>2 DEF OpenTemp
  <2>2. \A q \in Procs : fd[q] = None
    BY <2>1
  <2>3. i \in Inodes /\ i # file.registry
    <3>1. CASE file.temp # None
      BY <3>1
    <3>2. CASE file.temp = None
      <4>1. \E j \in Inodes : /\ j \notin {file.registry, file.temp}
                              /\ \A q \in Procs : fd[q] # j
        <5>1. file.registry \in Inodes \cup {None}
          OBVIOUS
        <5> HIDE DEF RegTypes, RegInv, Saves
        <5>2. PICK j \in Inodes : j # file.registry
          BY <5>1
        <5>3. j # None
          OBVIOUS
        <5> QED BY <2>2, <3>2, <5>2, <5>3
      <4>2. /\ FreeInode \in Inodes
            /\ FreeInode \notin {file.registry, file.temp}
        BY <4>1 DEF FreeInode
      <4> QED BY <3>2, <4>2
    <3> QED BY <3>1, <3>2
  <2>4. /\ inode' = [inode EXCEPT ![i] = Torn]
        /\ fd' = [fd EXCEPT ![p] = i]
        /\ file' = [file EXCEPT !.temp = i]
        /\ regPc' = [regPc EXCEPT ![p] = "write"]
        /\ UNCHANGED <<regOp, copy, intended>>
    BY <1>2 DEF OpenTemp, RegGoto
  <2> HIDE DEF i
  <2>5. file'.registry = file.registry /\ file'.temp = i
    BY <2>4
  <2>6. Torn \in Seq(Registered \cup {None})
    BY DEF Torn
  <2>7. RegTypes'
    BY <2>3, <2>4, <2>6
  <2>8. Loaded' = Loaded
    BY <2>3, <2>4, <2>5 DEF Loaded
  <2>9. Applied(p)' = Applied(p)
    BY <2>4 DEF Applied
  <2>10. Saves(p)'
    BY <2>1, <2>3, <2>4, <2>5, <2>9
  <2>11. \A q \in Procs \ {p} : regPc'[q] = "idle" /\ fd'[q] = None
    BY <1>0, <2>1, <2>4
  <2>12. Loaded' = intended' /\ file'.temp # file'.registry
    BY <2>3, <2>4, <2>5, <2>8
  <2> HIDE DEF RegTypes, RegInv, Saves
  <2> QED BY <2>7, <2>10, <2>11, <2>12, OneSaves
<1>3. ASSUME NEW p \in Procs, WriteTemp(p) PROVE RegTypes' /\ RegInv'
  <2>1. /\ inode' = [inode EXCEPT ![fd[p]] = copy[p]] /\ regPc[p] = "write"
        /\ regPc' = [regPc EXCEPT ![p] = "rename"]
        /\ UNCHANGED <<file, regOp, copy, fd, intended>>
    BY <1>3 DEF WriteTemp, RegGoto
  <2>2. RegTypes'
    <3>1. copy[p] \in Seq(Registered \cup {None})
      BY SeqWidens
    <3> QED BY <2>1, <3>1
  <2>3. Loaded' = Loaded
    BY <2>1 DEF Loaded
  <2>4. Applied(p)' = Applied(p)
    BY <2>1 DEF Applied
  <2>5. Saves(p)'
    BY <2>1, <2>4
  <2>6. \A q \in Procs \ {p} : regPc'[q] = "idle" /\ fd'[q] = None
    BY <1>0, <2>1
  <2>7. /\ Loaded' = intended'
        /\ file'.temp # None => file'.temp # file'.registry
    BY <2>1, <2>3
  <2> HIDE DEF RegTypes, RegInv, Saves
  <2> QED BY <2>2, <2>5, <2>6, <2>7, OneSaves
<1>4. ASSUME NEW p \in Procs, Rename(p) PROVE RegTypes' /\ RegInv'
  <2>1. /\ regPc[p] = "rename" /\ file.temp \in Inodes
        /\ \A q \in Procs \ {p} : regPc[q] = "idle"
        /\ inode[file.temp] = copy[p] /\ file.temp # file.registry
    BY <1>4 DEF Rename
  <2>2. /\ file' = [registry |-> file.temp, temp |-> None]
        /\ regPc' = [regPc EXCEPT ![p] = "idle"]
        /\ regOp' = [regOp EXCEPT ![p] = NoOp]
        /\ copy' = [copy EXCEPT ![p] = <<>>]
        /\ fd' = [fd EXCEPT ![p] = None]
    BY <1>4 DEF Rename, RegReturn, RegGoto
  <2>3. intended' = Applied(p) /\ copy[p] = Applied(p)
    BY <1>4, <2>1 DEF Rename, Applied
  <2>4. /\ inode' \in [Inodes -> Seq(Registered \cup {None})]
        /\ inode'[file.temp] = copy[p]
    <3>1. inode' = [i \in Inodes |->
                       IF i = file.registry /\ \A q \in Procs \ {p} : fd[q] # i
                       THEN Torn ELSE inode[i]]
      BY <1>4 DEF Rename
    <3>2. Torn \in Seq(Registered \cup {None})
      BY DEF Torn
    <3>3. file.temp # file.registry /\ inode[file.temp] = copy[p]
      BY <2>1
    <3> QED BY <2>1, <3>1, <3>2, <3>3
  <2>5. RegTypes'
    <3>1. Applied(p) \in Seq(Registered)
      BY <2>3
    <3>2. file' \in [registry : Inodes \cup {None}, temp : Inodes \cup {None}]
      BY <2>1, <2>2
    <3>3. RegReturn(p)
      BY <1>4 DEF Rename
    <3> QED BY <2>3, <2>4, <3>1, <3>2, <3>3, RegReturnTypes
  <2>6. copy[p] # Torn
    <3>1. copy[p] \in Seq(Registered)
      OBVIOUS
    <3> HIDE DEF RegTypes, RegInv
    <3>2. Torn[1] = None /\ Len(Torn) = 1
      BY DEF Torn
    <3>3. ASSUME copy[p] = Torn PROVE copy[p][1] \in Registered
      <4>1. Len(copy[p]) = 1
        BY <3>2, <3>3
      <4> QED BY <3>1, <4>1, ElementOfSeq
    <3> QED BY <3>2, <3>3, FileAssumption
  <2>7. Loaded' = copy[p]
    BY <2>1, <2>2, <2>4, <2>6 DEF Loaded
  <2>8. regPc'[p] = "idle" /\ fd'[p] = None
    BY <2>2
  <2>9. \A q \in Procs \ {p} : regPc'[q] = "idle" /\ fd'[q] = None
    BY <1>0, <2>1, <2>2
  <2>10. Loaded' = intended' /\ file'.temp = None
    BY <2>2, <2>3, <2>7
  <2> HIDE DEF RegTypes, RegInv
  <2> QED BY <2>5, <2>8, <2>9, <2>10, OneSaves
<1>5. ASSUME NEW p \in Procs, RegFails(p) PROVE RegTypes' /\ RegInv'
  <2>1. /\ regPc' = [regPc EXCEPT ![p] = "idle"]
        /\ regOp' = [regOp EXCEPT ![p] = NoOp]
        /\ copy' = [copy EXCEPT ![p] = <<>>]
        /\ fd' = [fd EXCEPT ![p] = None]
        /\ UNCHANGED <<inode, file, intended>>
    BY <1>5 DEF RegFails, RegReturn, RegGoto
  <2>2. RegTypes'
    <3>1. RegReturn(p)
      BY <1>5 DEF RegFails
    <3> QED BY <2>1, <3>1, RegReturnTypes
  <2>3. Loaded' = Loaded
    BY <2>1 DEF Loaded
  <2>4. \A q \in Procs : regPc'[q] = "idle" /\ fd'[q] = None
    <3>1. regPc[p] # "idle"
      BY <1>5 DEF RegFails
    <3> QED BY <1>0, <2>1, <3>1
  <2>5. /\ Loaded' = intended'
        /\ file'.temp # None => file'.temp # file'.registry
    BY <2>1, <2>3
  <2> HIDE DEF RegTypes, RegInv
  <2> QED BY <2>2, <2>4, <2>5, OneSaves
<1>6. CASE UNCHANGED regVars
  BY <1>6 DEF regVars, Loaded, Applied
<1> QED BY <1>1, <1>2, <1>3, <1>4, <1>5, <1>6 DEF RegNext

(* The registry is what the saves that returned made of it, for any number  *)
(* of processes and sessions, wherever a save dies, when none overlap.      *)
THEOREM RegistryStays == RegSpec => []RegistryIsIntended
<1>1. ASSUME RegInit PROVE RegTypes /\ RegInv
  <2>1. Torn \in Seq(Registered \cup {None}) /\ <<>> \in Seq(Registered)
    BY DEF Torn
  <2>2. NoOp \in [op : {"register", "unregister", None},
                 session : Registered \cup {None}]
    BY DEF NoOp
  <2>3. RegTypes
    BY <1>1, <2>1, <2>2 DEF RegInit, RegTypes
  <2> QED BY <1>1, <2>3 DEF RegInit, RegInv, Saves, Loaded
<1>2. (~overlap => RegTypes /\ RegInv) => RegistryIsIntended
  BY DEF RegInv, RegistryIsIntended
<1>3. [RegNext]_regVars => UNCHANGED overlap
  BY DEF RegNext, regVars, RegisterSession, UnregisterSession, OpenTemp,
         WriteTemp, Rename, RegFails
<1>4. (~overlap => RegTypes /\ RegInv) /\ [RegNext]_regVars
      => (~overlap => RegTypes /\ RegInv)'
  BY <1>3, RegStep
<1> QED BY <1>1, <1>2, <1>4, PTL DEF RegSpec

-----------------------------------------------------------------------------
(* Services that run side by side keep the types of their tables, files and *)
(* calls, for any number of processes, in calls that overlap or do not.     *)
THEOREM ServicesHaveTypes == ServicesSpec => []SuiteTypeOK
<1>1. /\ TypeOK /\ LeaseTypeOK /\ GradTypeOK /\ SyncTypeOK
      /\ ShareTypeOK /\ EdgeTypeOK /\ DaemonTypeOK /\ ImporterTypeOK
      => SuiteTypeOK
  BY DEF SuiteTypeOK
<1> QED
  BY <1>1, LogIsConsistent, LeasesHaveTypes, LevelsAreEarned,
     PositionsAreCovered, SharedStoresMatch, EdgesHaveOneVersion,
     OneDaemonListens, ImportsHaveTypes, PTL DEF ServicesSpec
=============================================================================
