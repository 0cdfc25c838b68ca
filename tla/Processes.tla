------------------------------ MODULE Processes -----------------------------
(***************************************************************************)
(* The processes that share one SQLite store: hooks, commands, the semantic *)
(* daemon, MCP servers.  A statement and a transaction are atomic; whether  *)
(* another process may run between two of them is chosen once.              *)
(***************************************************************************)
CONSTANTS
    Procs,
    None       \* no value: undefined, null, a row that is not there

VARIABLE
    overlap    \* another process may run inside a call

(* p may start a call, pc being where each process is.                      *)
MayStart(p, pc) ==
    /\ pc[p] = "idle"
    /\ overlap \/ \A q \in Procs : pc[q] = "idle"
=============================================================================
