--------------------------- MODULE ExclusiveStore ---------------------------
(***************************************************************************)
(* What the writer lock promises the commands that use it as it is meant:   *)
(* the store has one owner, only the owner starts a batch of vector writes, *)
(* and it gives the store up with no batch in flight.  An owner may also    *)
(* die, and then its batch dies with it.                                    *)
(***************************************************************************)
CONSTANTS Procs, None

VARIABLES
    owner,   \* the process that has the store, or None
    writers  \* the processes with a batch in flight

vars == <<owner, writers>>

Init == owner = None /\ writers = {}

Take(p) ==
    /\ owner = None
    /\ owner' = p
    /\ UNCHANGED writers

Begin(p) ==
    /\ owner = p /\ p \notin writers
    /\ writers' = writers \cup {p}
    /\ UNCHANGED owner

End(p) ==
    /\ p \in writers
    /\ writers' = writers \ {p}
    /\ UNCHANGED owner

Yield(p) ==
    /\ owner = p /\ p \notin writers
    /\ owner' = None
    /\ UNCHANGED writers

Die(p) ==
    /\ owner = p
    /\ owner' = None
    /\ writers' = writers \ {p}

Next == \E p \in Procs : Take(p) \/ Begin(p) \/ End(p) \/ Yield(p) \/ Die(p)

Spec == Init /\ [][Next]_vars
=============================================================================
