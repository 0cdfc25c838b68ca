----------------------------- MODULE VectorJobs -----------------------------
(***************************************************************************)
(* What the vector outbox promises its clients (core/vector-outbox.ts and   *)
(* specs/vector-outbox-v2): every submitted item is queued until it is      *)
(* settled once - indexed, dropped because the item is gone, or abandoned   *)
(* after MaxRetries failed attempts - and a settled item is only ever       *)
(* forgotten, never worked on again.                                        *)
(***************************************************************************)
EXTENDS Naturals

CONSTANTS Items, MaxRetries

VARIABLES
    exists,  \* items that have content
    phase,   \* the life of an item's job
    tries    \* failed attempts

vars == <<exists, phase, tries>>

Settled == {"indexed", "dropped", "abandoned"}

Init ==
    /\ exists = {}
    /\ phase = [i \in Items |-> "absent"]
    /\ tries = [i \in Items |-> 0]

Become(i, p) == phase' = [phase EXCEPT ![i] = p]

Create(i) ==
    /\ i \notin exists
    /\ exists' = exists \cup {i}
    /\ UNCHANGED <<phase, tries>>

Submit(i) ==
    /\ phase[i] = "absent"
    /\ exists' = exists \cup {i}
    /\ Become(i, "queued")
    /\ tries' = [tries EXCEPT ![i] = 0]

Remove(i) ==
    /\ exists' = exists \ {i}
    /\ UNCHANGED <<phase, tries>>

Index(i) ==
    /\ phase[i] = "queued"
    /\ Become(i, "indexed")
    /\ UNCHANGED <<exists, tries>>

Drop(i) ==
    /\ phase[i] = "queued" /\ i \notin exists
    /\ Become(i, "dropped")
    /\ UNCHANGED <<exists, tries>>

Retry(i) ==
    /\ phase[i] = "queued"
    /\ tries[i] + 1 < MaxRetries
    /\ tries' = [tries EXCEPT ![i] = @ + 1]
    /\ UNCHANGED <<exists, phase>>

GiveUp(i) ==
    /\ phase[i] = "queued"
    /\ tries[i] + 1 >= MaxRetries
    /\ tries' = [tries EXCEPT ![i] = @ + 1]
    /\ Become(i, "abandoned")
    /\ UNCHANGED exists

Forget(S) ==
    /\ \A i \in S : phase[i] \in {"indexed", "dropped"}
    /\ phase' = [i \in Items |-> IF i \in S THEN "absent" ELSE phase[i]]
    /\ UNCHANGED <<exists, tries>>

Next ==
    \/ \E i \in Items : \/ Create(i) \/ Submit(i) \/ Remove(i)
                        \/ Index(i) \/ Drop(i) \/ Retry(i) \/ GiveUp(i)
    \/ \E S \in SUBSET Items : Forget(S)

Spec == Init /\ [][Next]_vars

(* Every queued item is eventually settled.                                 *)
Settles == \A i \in Items : phase[i] = "queued" ~> phase[i] \in Settled
=============================================================================
