---------------------------- MODULE Replication -----------------------------
(***************************************************************************)
(* What the Mongo replication promises: machines share a log of events.  An *)
(* event is shared once, by a machine that holds it, and received with its  *)
(* content once; a machine is done with an event of its own only when it is *)
(* shared, and with a shared one only when it holds its content.  What it   *)
(* is done with, on either side, changes by its own steps alone: nothing    *)
(* new ever appears where it has already been.                              *)
(***************************************************************************)
CONSTANTS Machines, Ids, KeyOf

VARIABLES
    held,    \* held[m]: the events of machine m
    log,     \* the shared ones
    pushed,  \* pushed[m]: its own that it is done with
    pulled   \* pulled[m]: the shared ones that it is done with

vars == <<held, log, pushed, pulled>>

Has(m, i) == \E j \in held[m] : KeyOf[j] = KeyOf[i]

Init ==
    /\ held = [m \in Machines |-> {}] /\ log = {}
    /\ pushed = [m \in Machines |-> {}] /\ pulled = [m \in Machines |-> {}]

Write(m, i) ==
    /\ ~Has(m, i)
    /\ held' = [held EXCEPT ![m] = @ \cup {i}]
    /\ UNCHANGED <<log, pushed, pulled>>

Share(m, i) ==
    /\ i \in held[m] \ log
    /\ log' = log \cup {i}
    /\ UNCHANGED <<held, pushed, pulled>>

Receive(m, S) ==
    /\ S \subseteq log
    /\ \A i \in S : ~Has(m, i)
    /\ \A i, j \in S : KeyOf[i] = KeyOf[j] => i = j
    /\ held' = [held EXCEPT ![m] = @ \cup S]
    /\ UNCHANGED <<log, pushed, pulled>>

EndPush(m, S) ==
    /\ S \subseteq held[m] \cap log
    /\ pushed' = [pushed EXCEPT ![m] = S]
    /\ UNCHANGED <<held, log, pulled>>

EndPull(m, S) ==
    /\ S \subseteq log /\ \A i \in S : Has(m, i)
    /\ pulled' = [pulled EXCEPT ![m] = S]
    /\ UNCHANGED <<held, log, pushed>>

Next ==
    \E m \in Machines :
        \/ \E i \in Ids : Write(m, i) \/ Share(m, i)
        \/ \E S \in SUBSET Ids : \/ Receive(m, S)
                                 \/ EndPush(m, S) \/ EndPull(m, S)

Spec == Init /\ [][Next]_vars
=============================================================================
