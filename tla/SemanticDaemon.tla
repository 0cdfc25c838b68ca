--------------------------- MODULE SemanticDaemon ---------------------------
(***************************************************************************)
(* The semantic daemon behind one socket path and the hooks that ask it     *)
(* (adapters/claude/hooks/semantic-daemon.ts, semantic-daemon-client.ts).   *)
(* A daemon keeps the build it was started from; a new build replaces it at *)
(* the next connection.  The path names the daemon that bound it last, dead *)
(* or alive, until somebody unlinks it.                                     *)
(***************************************************************************)
EXTENDS Processes, FiniteSets, Integers

CONSTANTS
    Daemons,    \* daemon processes, each started at most once
    Hooks,      \* hook processes, each with one request
    MaxBuild    \* bound: builds installed

ASSUME DaemonAssumption == MaxBuild \in Nat /\ None \notin Daemons

VARIABLES
    socket,     \* the daemon bound to the path, or None: no such file
    daemonPc,   \* "off", "probe", "unlink", "listen", "up", "draining",
                \* "closed" or "gone"
    daemonOf,   \* the build a daemon was started from
    build,      \* the build that is installed
    hookPc      \* "idle", "ensure", "wait", "retry", "answered", "failed", or
                \* "dropped": the retry too met a daemon of an old build

daemonVars == <<socket, daemonPc, daemonOf, build, hookPc, overlap>>

DaemonPCs == {"off", "probe", "unlink", "listen", "up", "draining", "closed",
              "gone"}
HookPCs == {"idle", "ensure", "wait", "retry", "answered", "dropped",
            "failed"}

(* A connection is accepted until server.close(), during a shutdown too.    *)
Listening(d) == daemonPc[d] \in {"up", "draining"}
Reachable == socket # None /\ Listening(socket)
Stale(d) == daemonOf[d] # build

(* Nobody is between a probe and listen(), or between the two unlinks.      *)
Settled == \A d \in Daemons : daemonPc[d] \notin {"unlink", "listen", "closed"}

DaemonGoto(d, label) == daemonPc' = [daemonPc EXCEPT ![d] = label]
HookGoto(h, label) == hookPc' = [hookPc EXCEPT ![h] = label]

DaemonInit ==
    /\ socket = None /\ build = 0
    /\ daemonPc = [d \in Daemons |-> "off"]
    /\ daemonOf = [d \in Daemons |-> 0]
    /\ hookPc = [h \in Hooks |-> "idle"]
    /\ overlap \in BOOLEAN

-----------------------------------------------------------------------------
(* The daemon                                                               *)

Spawn(d) ==
    /\ daemonPc[d] = "off"
    /\ DaemonGoto(d, "probe")
    /\ daemonOf' = [daemonOf EXCEPT ![d] = build]

(* socketInUse(): a daemon that does not accept within 120 ms counts as     *)
(* dead.  Mistaken variant: whoever is there is not asked.                  *)
ProbeNothing(d) ==
    /\ daemonPc[d] = "probe" /\ (overlap \/ Settled)
    /\ DaemonGoto(d, "unlink")
    /\ UNCHANGED <<socket, daemonOf, build, hookPc, overlap>>
Probe(d) ==
    /\ daemonPc[d] = "probe" /\ (overlap \/ Settled)
    /\ \/ Reachable /\ DaemonGoto(d, "gone")
       \/ (Reachable => overlap) /\ DaemonGoto(d, "unlink")
    /\ UNCHANGED <<socket, daemonOf, build, hookPc, overlap>>

UnlinkOld(d) ==
    /\ daemonPc[d] = "unlink"
    /\ socket' = None
    /\ DaemonGoto(d, "listen")
    /\ UNCHANGED <<daemonOf, build, hookPc, overlap>>

(* listen() fails on a path bound meanwhile, and the process exits.         *)
Listen(d) ==
    /\ daemonPc[d] = "listen"
    /\ IF socket = None
       THEN socket' = d /\ DaemonGoto(d, "up")
       ELSE DaemonGoto(d, "gone") /\ UNCHANGED socket
    /\ UNCHANGED <<daemonOf, build, hookPc, overlap>>

(* shutdown() by the idle timer or a signal; it waits for graduations, the  *)
(* services and the embedder with the server still open.  Mistaken variant: *)
(* a state of its own.                                                      *)
ShutdownAstray(d) ==
    /\ daemonPc[d] = "up"
    /\ DaemonGoto(d, "stopping")
    /\ UNCHANGED <<socket, daemonOf, build, hookPc, overlap>>
Shutdown(d) ==
    /\ daemonPc[d] = "up"
    /\ DaemonGoto(d, "draining")
    /\ UNCHANGED <<socket, daemonOf, build, hookPc, overlap>>

(* server.close() unlinks the path, whoever is bound to it.                 *)
CloseServer(d) ==
    /\ daemonPc[d] = "draining" /\ (overlap \/ Settled)
    /\ socket' = None
    /\ DaemonGoto(d, "closed")
    /\ UNCHANGED <<daemonOf, build, hookPc, overlap>>

(* The connections have ended; the path, if it is there, is unlinked again. *)
ExitDaemon(d) ==
    /\ daemonPc[d] = "closed"
    /\ socket' = None
    /\ DaemonGoto(d, "gone")
    /\ UNCHANGED <<daemonOf, build, hookPc, overlap>>

(* Killed: the path stays.                                                  *)
KillDaemon(d) ==
    /\ daemonPc[d] \notin {"off", "gone"}
    /\ DaemonGoto(d, "gone")
    /\ UNCHANGED <<socket, daemonOf, build, hookPc, overlap>>

-----------------------------------------------------------------------------
(* The hooks                                                                *)

(* What a connection comes to.  A daemon of an old build destroys it and    *)
(* shuts down; the hook sees a connection error, or an empty answer when    *)
(* its request had not arrived yet.  A daemon that is going may take the    *)
(* request with it.                                                         *)
Request(h, refused, dropped) ==
    IF ~Reachable THEN HookGoto(h, refused) /\ UNCHANGED daemonPc
    ELSE IF Stale(socket)
    THEN /\ DaemonGoto(socket, "draining")
         /\ HookGoto(h, dropped) \/ HookGoto(h, "failed")
    ELSE /\ \/ HookGoto(h, "answered")
            \/ daemonPc[socket] = "draining" /\ HookGoto(h, refused)
         /\ UNCHANGED daemonPc

Ask(h) ==
    /\ hookPc[h] = "idle" /\ (overlap \/ Settled)
    /\ Request(h, "ensure", "ensure")
    /\ UNCHANGED <<socket, daemonOf, build, overlap>>

(* ensureDaemonRunning(): canConnect(), or a daemon is spawned and the path *)
(* polled until startDeadline.                                              *)
Ensure(h) ==
    /\ hookPc[h] = "ensure" /\ (overlap \/ Settled)
    /\ IF Reachable
       THEN HookGoto(h, "retry") /\ UNCHANGED <<daemonPc, daemonOf>>
       ELSE (\E d \in Daemons : Spawn(d)) /\ HookGoto(h, "wait")
    /\ UNCHANGED <<socket, build, overlap>>

Wait(h) ==
    /\ hookPc[h] = "wait" /\ (overlap \/ Settled)
    /\ HookGoto(h, IF Reachable THEN "retry" ELSE "failed")
    /\ UNCHANGED <<socket, daemonPc, daemonOf, build, overlap>>

Retry(h) ==
    /\ hookPc[h] = "retry" /\ (overlap \/ Settled)
    /\ Request(h, "failed", "dropped")
    /\ UNCHANGED <<socket, daemonOf, build, overlap>>

(* SessionStart starts a daemon and asks it nothing.                        *)
StartEarly ==
    /\ ~Reachable /\ (overlap \/ Settled)
    /\ \E d \in Daemons : Spawn(d)
    /\ UNCHANGED <<socket, build, hookPc, overlap>>

InstallBuild ==
    /\ build < MaxBuild /\ build' = build + 1
    /\ UNCHANGED <<socket, daemonPc, daemonOf, hookPc, overlap>>

DaemonNext ==
    \/ \E d \in Daemons : \/ Probe(d) \/ UnlinkOld(d) \/ Listen(d)
                          \/ Shutdown(d) \/ CloseServer(d) \/ ExitDaemon(d)
                          \/ KillDaemon(d)
    \/ \E h \in Hooks : Ask(h) \/ Ensure(h) \/ Wait(h) \/ Retry(h)
    \/ StartEarly \/ InstallBuild

DaemonSpec == DaemonInit /\ [][DaemonNext]_daemonVars

-----------------------------------------------------------------------------
(* Every variable has its type.                                             *)
DaemonTypeOK ==
    /\ socket \in Daemons \cup {None}
    /\ daemonPc \in [Daemons -> DaemonPCs]
    /\ daemonOf \in [Daemons -> 0 .. MaxBuild]
    /\ build \in 0 .. MaxBuild
    /\ hookPc \in [Hooks -> HookPCs]
    /\ overlap \in BOOLEAN

(* At most one daemon listens and the path leads to it, however many hooks  *)
(* spawn one at once, if starting and closing are not interleaved.          *)
OneDaemon ==
    ~overlap => \A d \in Daemons : Listening(d) => socket = d

(* "refusing here makes the retry land on a daemon running the new build"   *)
(* (semantic-daemon.ts:312).  It does not: the daemon that refused listens  *)
(* until its shutdown closes the server, and the retry meets it again.      *)
RetryMeetsNewBuild == \A h \in Hooks : hookPc[h] # "dropped"
=============================================================================
