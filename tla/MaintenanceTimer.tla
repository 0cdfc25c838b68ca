-------------------------- MODULE MaintenanceTimer --------------------------
(***************************************************************************)
(* `maintenance install' and `uninstall' (apps/cli/maintenance-scheduler.   *)
(* ts): the definition files of the job, and the service manager of the     *)
(* system, which runs what it loaded of them.  A command of the manager may *)
(* fail, and the installation is rolled back; commands do not overlap.      *)
(***************************************************************************)
EXTENDS Naturals

CONSTANT MaxInstalls    \* bound

ASSUME InstallsAssumption == MaxInstalls \in Nat

Absent == 0     \* a file that is not there; else the installation it is of
Definitions == {"service", "timer"}     \* launchd has one: both are it

VARIABLES
    platform,   \* "linux" or "darwin"
    definition, \* the files
    loaded,     \* what the manager knows of them
    active,     \* the timer is running
    installs,   \* installations begun
    instPc,     \* the next step of the command
    previous,   \* the files when it started, and `active': history
    mended      \* history: no rollback or removal failed, no command died

timerVars == <<platform, definition, loaded, active, installs, instPc,
               previous, mended>>

TimerInit ==
    /\ platform \in {"linux", "darwin"}
    /\ definition = [f \in Definitions |-> Absent] /\ loaded = definition
    /\ active = FALSE /\ installs = 0 /\ instPc = "idle"
    /\ previous = [files |-> definition, active |-> FALSE]
    /\ mended = TRUE

AllThere(files) == \A f \in Definitions : files[f] # Absent

StartInstall ==
    /\ instPc = "idle" /\ installs < MaxInstalls
    /\ installs' = installs + 1
    /\ previous' = [files |-> definition, active |-> active]
    /\ instPc' = "write"
    /\ UNCHANGED <<platform, definition, loaded, active, mended>>

(* writeAtomic() of the service, then of the timer; or of the one plist.    *)
WriteDefinitions ==
    /\ instPc = "write"
    /\ IF platform = "linux" /\ definition["service"] # installs
       THEN /\ definition' = [definition EXCEPT !["service"] = installs]
            /\ UNCHANGED instPc
       ELSE /\ definition' = [f \in Definitions |-> installs]
            /\ instPc' = IF platform = "linux" THEN "reload" ELSE "bootout"
    /\ UNCHANGED <<platform, loaded, active, installs, previous, mended>>

-----------------------------------------------------------------------------
(* The manager.                                                             *)

Reload == loaded' = definition /\ UNCHANGED active
Enable == UNCHANGED <<loaded, active>>
Restart ==
    /\ loaded["timer"] # Absent
    /\ active' = TRUE /\ UNCHANGED loaded
Disable == active' = FALSE /\ UNCHANGED loaded
Bootout ==
    /\ active' = FALSE
    /\ loaded' = [f \in Definitions |-> Absent]
Bootstrap ==
    /\ definition["timer"] # Absent /\ ~active
    /\ loaded' = definition /\ active' = TRUE
Fails == UNCHANGED <<loaded, active>>

Command(name) == CASE name = "reload" -> Reload
                   [] name = "enable" -> Enable
                   [] name = "restart" -> Restart
                   [] name = "bootstrap" -> Bootstrap

(* Those that are run(): the first to fail starts the rollback.             *)
After == [reload |-> "enable", enable |-> "restart", restart |-> "idle",
          bootstrap |-> "idle"]

RunCommand ==
    /\ instPc \in DOMAIN After
    /\ \/ Command(instPc) /\ instPc' = After[instPc]
       \/ /\ Fails
          /\ instPc' = IF platform = "linux" /\ ~AllThere(previous.files)
                       THEN "disable" ELSE "restore"
    /\ UNCHANGED <<platform, definition, installs, previous, mended>>

(* tryExec() of `launchctl bootout': there may be no job.                    *)
RunBootout ==
    /\ instPc = "bootout"
    /\ Bootout \/ Fails
    /\ instPc' = "bootstrap"
    /\ UNCHANGED <<platform, definition, installs, previous, mended>>

(* Mistaken variant: an absent file stays as it was written.                *)
RestoredThere(f) ==
    IF previous.files[f] = Absent THEN definition[f] ELSE previous.files[f]
Restored(f) == previous.files[f]

Restore ==
    /\ instPc = "restore"
    /\ definition' = [f \in Definitions |-> Restored(f)]
    /\ instPc' = CASE platform = "linux" -> "reloadBack"
                   [] platform = "darwin" /\ AllThere(previous.files) ->
                         "bootstrapBack"
                   [] OTHER -> "failed"
    /\ UNCHANGED <<platform, loaded, active, installs, previous, mended>>

(* tryExec() of the rollback                                                *)
Try(command) == \/ command /\ UNCHANGED mended
                \/ Fails /\ mended' = FALSE

RollBack ==
    /\ \/ instPc = "disable" /\ Try(Disable) /\ instPc' = "restore"
       \/ /\ instPc = "reloadBack" /\ Try(Reload)
          /\ instPc' = IF AllThere(previous.files) THEN "restartBack"
                                                   ELSE "failed"
       \/ instPc = "restartBack" /\ Try(Restart) /\ instPc' = "failed"
       \/ instPc = "bootstrapBack" /\ Try(Bootstrap) /\ instPc' = "failed"
    /\ UNCHANGED <<platform, definition, installs, previous>>

Throw ==
    /\ instPc = "failed" /\ instPc' = "idle"
    /\ UNCHANGED <<platform, definition, loaded, active, installs, previous,
                   mended>>

-----------------------------------------------------------------------------
(* uninstallMaintenanceScheduler()                                          *)
StartUninstall ==
    /\ instPc = "idle"
    /\ Try(IF platform = "linux" THEN Disable ELSE Bootout)
    /\ instPc' = "unlink"
    /\ UNCHANGED <<platform, definition, installs, previous>>

Unlink ==
    /\ instPc = "unlink"
    /\ definition' = [f \in Definitions |-> Absent]
    /\ instPc' = IF platform = "linux" THEN "reloadLast" ELSE "idle"
    /\ UNCHANGED <<platform, loaded, active, installs, previous, mended>>

ReloadLast ==
    /\ instPc = "reloadLast" /\ Try(Reload) /\ instPc' = "idle"
    /\ UNCHANGED <<platform, definition, installs, previous>>

Die ==
    /\ instPc # "idle" /\ instPc' = "idle"
    /\ mended' = FALSE
    /\ UNCHANGED <<platform, definition, loaded, active, installs, previous>>

TimerNext == \/ StartInstall \/ WriteDefinitions \/ RunCommand \/ RunBootout
             \/ Restore \/ RollBack \/ Throw
             \/ StartUninstall \/ Unlink \/ ReloadLast \/ Die

TimerSpec == TimerInit /\ [][TimerNext]_timerVars

-----------------------------------------------------------------------------
(* Whatever command of an installation fails, once it is rolled back the    *)
(* job runs from the files there are, and a job that was running runs on,   *)
(* from the files it had; unless the rollback failed itself.                *)
TimerRunsItsFiles ==
    mended /\ instPc \in {"idle", "failed"} =>
        /\ active => loaded = definition /\ AllThere(definition)
        /\ instPc = "failed" =>
              /\ definition = previous.files
              /\ previous.active => active
=============================================================================
