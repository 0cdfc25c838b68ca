----------------------------- MODULE ContentLog -----------------------------
(***************************************************************************)
(* What the event store promises its callers: a set of contents on which    *)
(* append(), importEvents() and deleteSessionEvents() are single steps.     *)
(* While calls do not overlap, appending is idempotent and an import leaves *)
(* nothing out; when they do, an append may be refused, and a deletion may  *)
(* make one or an import pass for done too early, but an answer of "new"    *)
(* still means that this call stored its content, which was not there.      *)
(***************************************************************************)
CONSTANTS Procs, None, Keys, Sessions, SessionOf

VARIABLES
    stored,   \* the contents in the store
    asked,    \* the content each process is appending, or None
    answer,   \* what its last append returned
    overlap   \* another process may run inside a call

vars == <<stored, asked, answer, overlap>>

Init ==
    /\ stored = {}
    /\ asked = [p \in Procs |-> None]
    /\ answer = [p \in Procs |-> "none"]
    /\ overlap \in BOOLEAN

Ask(p, k) ==
    /\ asked[p] = None
    /\ asked' = [asked EXCEPT ![p] = k]
    /\ UNCHANGED <<stored, answer, overlap>>

Say(p, a) ==
    /\ asked' = [asked EXCEPT ![p] = None]
    /\ answer' = [answer EXCEPT ![p] = a]
    /\ UNCHANGED overlap

Add(p) ==
    /\ asked[p] \in Keys \ stored
    /\ stored' = stored \cup {asked[p]}
    /\ Say(p, "new")

Repeat(p) ==
    /\ asked[p] \in Keys
    /\ overlap \/ asked[p] \in stored
    /\ Say(p, "duplicate")
    /\ UNCHANGED stored

Refuse(p) ==
    /\ asked[p] \in Keys /\ overlap
    /\ Say(p, "error")
    /\ UNCHANGED stored

(* A batch of contents, of which T are stored.                              *)
Import(S, T) ==
    /\ T \subseteq S /\ T \cap stored = {}
    /\ overlap \/ S \subseteq stored \cup T
    /\ stored' = stored \cup T
    /\ UNCHANGED <<asked, answer, overlap>>

DeleteSession(s) ==
    /\ stored' = {k \in stored : SessionOf[k] # s}
    /\ UNCHANGED <<asked, answer, overlap>>

(* The process dies; what it appended may not be stored.                    *)
Die(p) ==
    /\ Say(p, "none")
    /\ UNCHANGED stored

Next ==
    \/ \E p \in Procs : \/ \E k \in Keys : Ask(p, k)
                        \/ Add(p) \/ Repeat(p) \/ Refuse(p) \/ Die(p)
    \/ \E S \in SUBSET Keys : \E T \in SUBSET S : Import(S, T)
    \/ \E s \in Sessions : DeleteSession(s)

Spec == Init /\ [][Next]_vars
=============================================================================
