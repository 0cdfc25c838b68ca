--------------------------- MODULE SessionRegistry --------------------------
(***************************************************************************)
(* session-registry.json, by which every hook finds the project of its      *)
(* session (core/registry/session-registry.ts).  A process loads the file,  *)
(* changes the copy, writes it to one temporary name that all processes     *)
(* share, and renames.  A file is an inode, so that a process that still    *)
(* writes to a renamed file writes to the registry.                         *)
(***************************************************************************)
EXTENDS Processes, Naturals, Sequences, SequencesExt

CONSTANTS
    Registered, \* session ids
    Inodes,
    Cap         \* 1000 in the code: the newest sessions that are kept

ASSUME RegistryAssumption == Cap \in Nat \ {0}
ASSUME FileAssumption ==    \* and there is always a file to write to
    /\ None \notin Registered \cup Inodes
    /\ \A i \in Inodes \cup {None} : \E j \in Inodes : j # i

VARIABLES
    inode,      \* the text of a file: its sessions, by registeredAt and each
                \* once, or Torn
    file,       \* [registry, temp]: the inode under the name, or None
    regPc,      \* "idle", "open", "write" or "rename"
    regOp,      \* [op, session], op "register" or "unregister"
    copy,       \* the sessions to be saved
    fd,         \* the inode that the process has open
    intended    \* history: what the saves that returned were told to do,
                \* kept while calls do not overlap

regVars == <<inode, file, regPc, regOp, copy, fd, intended, overlap>>

Torn == <<None>>    \* not JSON: no text, or parts of two texts
NoOp == [op |-> None, session |-> None]

RegInit ==
    /\ inode = [i \in Inodes |-> Torn]
    /\ file = [registry |-> None, temp |-> None]
    /\ regPc = [p \in Procs |-> "idle"]
    /\ regOp = [p \in Procs |-> NoOp]
    /\ copy = [p \in Procs |-> <<>>]
    /\ fd = [p \in Procs |-> None]
    /\ intended = <<>>
    /\ overlap \in BOOLEAN

RegGoto(p, label) == regPc' = [regPc EXCEPT ![p] = label]
RegReturn(p) ==
    /\ RegGoto(p, "idle")
    /\ regOp' = [regOp EXCEPT ![p] = NoOp]
    /\ copy' = [copy EXCEPT ![p] = <<>>]
    /\ fd' = [fd EXCEPT ![p] = None]

(* loadSessionRegistry(): no file, or one that does not parse, is empty.    *)
Loaded == IF file.registry = None \/ inode[file.registry] = Torn THEN <<>>
          ELSE inode[file.registry]

(* The newest Cap sessions are kept.                                        *)
With(seq, s) ==
    LET all == Append(RemoveFirst(seq, s), s)
    IN  IF Len(all) > Cap THEN Tail(all) ELSE all

RegisterSession(p, s) ==
    /\ MayStart(p, regPc)
    /\ regOp' = [regOp EXCEPT ![p] = [op |-> "register", session |-> s]]
    /\ copy' = [copy EXCEPT ![p] = With(Loaded, s)]
    /\ RegGoto(p, "open")
    /\ UNCHANGED <<inode, file, fd, intended, overlap>>

(* A session that is not there is no write.                                 *)
UnregisterSession(p, s) ==
    /\ MayStart(p, regPc) /\ Contains(Loaded, s)
    /\ regOp' = [regOp EXCEPT ![p] = [op |-> "unregister", session |-> s]]
    /\ copy' = [copy EXCEPT ![p] = RemoveFirst(Loaded, s)]
    /\ RegGoto(p, "open")
    /\ UNCHANGED <<inode, file, fd, intended, overlap>>

(* writeFileSync() opens the temporary file, truncating it.  Mistaken       *)
(* variant: the registry itself.                                            *)
FreeInode == CHOOSE i \in Inodes : /\ i \notin {file.registry, file.temp}
                                   /\ \A q \in Procs : fd[q] # i
OpenInPlace(p) ==
    /\ regPc[p] = "open"
    /\ LET i == IF file.registry = None THEN FreeInode ELSE file.registry
       IN  /\ inode' = [inode EXCEPT ![i] = Torn]
           /\ fd' = [fd EXCEPT ![p] = i]
           /\ file' = [registry |-> i, temp |-> i]
    /\ RegGoto(p, "write")
    /\ UNCHANGED <<regOp, copy, intended, overlap>>
OpenTemp(p) ==
    /\ regPc[p] = "open"
    /\ LET i == IF file.temp = None THEN FreeInode ELSE file.temp
       IN  /\ inode' = [inode EXCEPT ![i] = Torn]
           /\ fd' = [fd EXCEPT ![p] = i]
           /\ file' = [file EXCEPT !.temp = i]
    /\ RegGoto(p, "write")
    /\ UNCHANGED <<regOp, copy, intended, overlap>>

(* The text, from the start of the file: the end of a longer text that      *)
(* another process wrote meanwhile stays.                                   *)
WriteTemp(p) ==
    /\ regPc[p] = "write"
    /\ \E text \in {copy[p], Torn} :
          /\ text = Torn => overlap
          /\ inode' = [inode EXCEPT ![fd[p]] = text]
    /\ RegGoto(p, "rename")
    /\ UNCHANGED <<file, regOp, copy, fd, intended, overlap>>

(* renameSync(): whatever the temporary name names.  The old registry is    *)
(* gone, unless a process still has it open.                                *)
Rename(p) ==
    /\ regPc[p] = "rename" /\ file.temp # None
    /\ file' = [registry |-> file.temp, temp |-> None]
    /\ inode' = [i \in Inodes |->
                    IF i = file.registry /\ \A q \in Procs \ {p} : fd[q] # i
                    THEN Torn ELSE inode[i]]
    /\ intended' = CASE overlap -> intended
                     [] regOp[p].op = "register" ->
                            With(intended, regOp[p].session)
                     [] OTHER -> RemoveFirst(intended, regOp[p].session)
    /\ RegReturn(p)
    /\ UNCHANGED overlap

(* ENOENT: another process renamed it.  Or the process dies, where it is.   *)
RegFails(p) ==
    /\ regPc[p] # "idle"
    /\ RegReturn(p)
    /\ UNCHANGED <<inode, file, intended, overlap>>

RegNext ==
    \E p \in Procs :
        \/ \E s \in Registered : \/ RegisterSession(p, s)
                                \/ UnregisterSession(p, s)
        \/ OpenTemp(p) \/ WriteTemp(p) \/ Rename(p) \/ RegFails(p)

RegSpec == RegInit /\ [][RegNext]_regVars

-----------------------------------------------------------------------------
(* The registry holds what the saves that returned made of it, and a save   *)
(* that dies anywhere leaves it whole: no session is lost but by its cap.   *)
RegistryIsIntended == ~overlap => Loaded = intended
=============================================================================
