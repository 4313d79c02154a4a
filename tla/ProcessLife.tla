---- MODULE ProcessLife ----
(***************************************************************************)
(* The life of the process (src/main.rs) and the upgrade of its binary     *)
(* (src/update/mod.rs): the parts are brought up in one order and taken    *)
(* down in another, a restart replaces the process by whatever binary is   *)
(* on disk, and an upgrade puts a new one there while the old one runs.    *)
(*                                                                         *)
(* A restart is asked for over a broadcast channel of capacity 1: a second *)
(* request that comes before main has read the first makes its receiver    *)
(* lag, which main takes for the end of the program.                       *)
(***************************************************************************)
EXTENDS Naturals, Sequences

CONSTANTS
    MaxRestarts,  \* bound: requests to restart
    MaxUpgrades,  \* bound: upgrades begun
    MaxPlFaults   \* bound: crashes and failing parts

ASSUME PlAssumption == MaxRestarts \in Nat /\ MaxUpgrades \in Nat /\ MaxPlFaults \in Nat

VARIABLES
    plMain,   \* [pc, step, act]: "boot", "serve", "cleanup", "exec" or "gone"
    plUp,     \* parts that were brought up and not yet taken down
    plLinked, \* current_exe() still names the file that runs
    plVer,    \* the version that runs
    plDisk,   \* the binary at its path
    plStage,  \* the file one-kvm.upgrade.new: "none", "part" or a binary
    plUpd,    \* the upgrade task: [pc, file]
    plPhase,  \* UpdateStatusResponse.phase
    plChan,   \* the shutdown channel: unread actions
    plCount   \* [restarts, upgrades, faults]

plVars == <<plMain, plUp, plLinked, plVer, plDisk, plStage, plUpd, plPhase, plChan, plCount>>
plFiles == <<plDisk, plStage>>

\* The order of main.
BootOrder == <<"streamer", "otg", "hid", "msd", "atx", "audio", "streams", "watchdog",
               "rustdesk", "vnc", "rtsp", "extensions">>

\* The order of cleanup; stopping the stream manager stops the streamer.
StopOrder == <<"extensions", "rustdesk", "vnc", "rtsp", "streams", "hid", "msd", "otg", "atx", "audio", "watchdog">>

\* Who calls whom: the constructors in main are given these.
Uses == {<<"hid", "otg">>, <<"msd", "otg">>, <<"streams", "streamer">>, <<"streams", "hid">>,
         <<"streams", "audio">>, <<"rustdesk", "streams">>, <<"rustdesk", "hid">>, <<"rustdesk", "audio">>,
         <<"vnc", "streams">>, <<"vnc", "hid">>, <<"rtsp", "streams">>}

NoUpgrade == [pc |-> "idle", file |-> "none"]

PlInit ==
    /\ plMain = [pc |-> "boot", step |-> 1, act |-> "-"] /\ plUp = {}
    /\ plLinked = TRUE /\ plVer = 1 /\ plDisk = 1 /\ plStage = "none"
    /\ plUpd = NoUpgrade /\ plPhase = "idle" /\ plChan = <<>>
    /\ plCount = [restarts |-> 0, upgrades |-> 0, faults |-> 0]

PlFault == plCount.faults < MaxPlFaults /\ plCount' = [plCount EXCEPT !.faults = @ + 1]

-----------------------------------------------------------------------------
\* main

\* One part after the other; a part that is disabled or does not start is left
\* out, with a warning.
BootPart ==
    LET p == BootOrder[plMain.step] IN
    /\ plMain.pc = "boot"
    /\ plMain' = IF plMain.step = Len(BootOrder)
                 THEN [plMain EXCEPT !.pc = "serve", !.step = 1] ELSE [plMain EXCEPT !.step = @ + 1]
    /\ \/ plUp' = plUp \cup {p} /\ UNCHANGED plCount
       \/ PlFault /\ UNCHANGED plUp
    /\ UNCHANGED <<plFiles, plLinked, plVer, plUpd, plPhase, plChan>>

\* No address can be bound, or the certificate not read: main returns the
\* error and nothing is cleaned up.
BindFails ==
    /\ plMain.pc = "serve" /\ plUpd.pc = "idle" /\ plChan = <<>> /\ plPhase = "idle" /\ PlFault
    /\ plMain' = [plMain EXCEPT !.pc = "gone"]
    /\ UNCHANGED <<plFiles, plUp, plLinked, plVer, plUpd, plPhase, plChan>>

\* run_servers_until_shutdown: a signal or a server that ends means exit; a
\* request is taken from the channel, and one that was overwritten is an error,
\* which also means exit.
Shutdown ==
    /\ plMain.pc = "serve"
    /\ \/ /\ plChan # <<>>
          /\ plMain' = [pc |-> "cleanup", step |-> 1, act |-> IF Len(plChan) = 1 THEN Head(plChan) ELSE "exit"]
       \/ plMain' = [pc |-> "cleanup", step |-> 1, act |-> "exit"]
    /\ plChan' = <<>>
    /\ UNCHANGED <<plFiles, plUp, plLinked, plVer, plUpd, plPhase, plCount>>

\* cleanup: a part that fails to stop is logged and the next one is stopped.
\* Connections that are open are still served.
StopPart ==
    LET p == StopOrder[plMain.step] IN
    /\ plMain.pc = "cleanup"
    /\ plUp' = plUp \ (IF p = "streams" THEN {p, "streamer"} ELSE {p})
    /\ plMain' = IF plMain.step < Len(StopOrder) THEN [plMain EXCEPT !.step = @ + 1]
                 ELSE [plMain EXCEPT !.pc = IF plMain.act = "exit" THEN "gone" ELSE "exec"]
    /\ UNCHANGED <<plFiles, plLinked, plVer, plUpd, plPhase, plChan, plCount>>

\* What a new process starts with.
Fresh(v) ==
    /\ plMain' = [pc |-> "boot", step |-> 1, act |-> "-"] /\ plUp' = {}
    /\ plVer' = v /\ plLinked' = TRUE
    /\ plUpd' = NoUpgrade /\ plPhase' = "idle" /\ plChan' = <<>>

\* restart_current_process: the path of the request, or current_exe(), which
\* names a file that does not exist once the binary has been replaced.
Restart ==
    /\ plMain.pc = "exec"
    /\ IF plMain.act = "path" \/ plLinked
       THEN Fresh(plDisk)
       ELSE plMain' = [plMain EXCEPT !.pc = "gone"] /\ UNCHANGED <<plUp, plVer, plLinked, plUpd, plPhase, plChan>>
    /\ UNCHANGED <<plFiles, plCount>>

\* The process dies, or it has ended; it is started again from outside.
StartedAgain ==
    /\ IF plMain.pc = "gone" THEN UNCHANGED plCount ELSE PlFault
    /\ Fresh(plDisk)
    /\ UNCHANGED plFiles

\* system_restart.
SystemRestart ==
    /\ plMain.pc \in {"serve", "cleanup"} /\ plCount.restarts < MaxRestarts
    /\ plCount' = [plCount EXCEPT !.restarts = @ + 1]
    /\ plChan' = IF plMain.pc = "serve" THEN Append(plChan, "self") ELSE plChan
    /\ UNCHANGED <<plFiles, plMain, plUp, plLinked, plVer, plUpd, plPhase>>

-----------------------------------------------------------------------------
\* UpdateService

UpdGoes(pc, phase) == plUpd' = [plUpd EXCEPT !.pc = pc] /\ plPhase' = phase
UpdFails == PlFault /\ plUpd' = NoUpgrade /\ plPhase' = "failed"

\* start_upgrade: one at a time.
StartUpgrade ==
    /\ plMain.pc \in {"serve", "cleanup"} /\ plUpd.pc = "idle" /\ plCount.upgrades < MaxUpgrades
    /\ plCount' = [plCount EXCEPT !.upgrades = @ + 1]
    /\ UpdGoes("manifest", "checking")
    /\ UNCHANGED <<plFiles, plMain, plUp, plLinked, plVer, plChan>>

\* The manifests are fetched; the target must be newer than what runs and have
\* a binary for this platform.  There is one newer release.
CheckManifest ==
    /\ plUpd.pc = "manifest"
    /\ \/ plVer = 1 /\ UpdGoes("download", "downloading") /\ UNCHANGED plCount
       \/ plVer > 1 /\ plUpd' = NoUpgrade /\ plPhase' = "failed" /\ UNCHANGED plCount
       \/ UpdFails
    /\ UNCHANGED <<plFiles, plMain, plUp, plLinked, plVer, plChan>>

\* download_and_verify, into a directory that goes with the task: a file that
\* has another size or another hash is refused.
DownloadAndVerify ==
    /\ plUpd.pc = "download"
    /\ \/ plUpd' = [pc |-> "copy", file |-> "good"] /\ plPhase' = "installing" /\ UNCHANGED plCount
       \/ UpdFails
    /\ UNCHANGED <<plFiles, plMain, plUp, plLinked, plVer, plChan>>

Installed(f) == IF f = "good" THEN 2 ELSE 0

\* install_binary: the copy beside the binary is begun.
CopyStage ==
    /\ plUpd.pc = "copy"
    /\ plStage' = "part" /\ UpdGoes("copying", "installing")
    /\ UNCHANGED <<plDisk, plMain, plUp, plLinked, plVer, plChan, plCount>>

\* The copy is complete and made executable, or it fails.
CopyDone ==
    /\ plUpd.pc = "copying"
    /\ \/ plStage' = plUpd.file /\ UpdGoes("rename", "installing") /\ UNCHANGED plCount
       \/ UpdFails /\ UNCHANGED plStage
    /\ UNCHANGED <<plDisk, plMain, plUp, plLinked, plVer, plChan>>

\* Mutant of RenameBinary: an error of the rename is only logged.
RenameBinary_Lenient ==
    /\ plUpd.pc = "rename"
    /\ \/ /\ plDisk' = IF plLinked THEN Installed(plStage) ELSE plDisk
          /\ plStage' = "none" /\ plLinked' = FALSE /\ UNCHANGED plCount
       \/ PlFault /\ UNCHANGED <<plFiles, plLinked>>
    /\ UpdGoes("restart", "restarting")
    /\ UNCHANGED <<plMain, plUp, plVer, plChan>>

\* rename.  When the file that runs was already replaced, current_exe() names
\* another one and the binary stays as it is.
RenameBinary ==
    /\ plUpd.pc = "rename"
    /\ \/ /\ plDisk' = IF plLinked THEN Installed(plStage) ELSE plDisk
          /\ plStage' = "none" /\ plLinked' = FALSE
          /\ UpdGoes("restart", "restarting") /\ UNCHANGED plCount
       \/ UpdFails /\ UNCHANGED <<plFiles, plLinked>>
    /\ UNCHANGED <<plMain, plUp, plVer, plChan>>

\* The restart is asked for, with the path; without a receiver that fails.
RequestRestart ==
    /\ plUpd.pc = "restart"
    /\ plUpd' = NoUpgrade
    /\ IF plMain.pc = "serve" THEN plChan' = Append(plChan, "path") /\ UNCHANGED plPhase
       ELSE plPhase' = "failed" /\ UNCHANGED plChan
    /\ UNCHANGED <<plFiles, plMain, plUp, plLinked, plVer, plCount>>

PlNext ==
    \/ BootPart \/ BindFails \/ Shutdown \/ StopPart \/ Restart \/ StartedAgain \/ SystemRestart
    \/ StartUpgrade \/ CheckManifest \/ DownloadAndVerify \/ CopyStage \/ CopyDone \/ RenameBinary
    \/ RequestRestart

PlSpec == PlInit /\ [][PlNext]_plVars

-----------------------------------------------------------------------------

\* Whenever the process dies or is restarted, also in the middle of an upgrade,
\* the binary at its path is a whole one: the old release or a verified new one.
BinaryIsWhole == plDisk \in {1, 2}

\* cleanup takes no part down while one that calls it still runs, whichever
\* parts came up; and a process that is replaced leaves nothing running.
ProvidersOutliveUsers ==
    LET stopped == {StopOrder[i] : i \in 1..(plMain.step - 1)} IN
    /\ plMain.pc = "cleanup" =>
         \A u \in Uses : u[1] \in plUp =>
            u[2] \notin stopped /\ ~(u[2] = "streamer" /\ "streams" \in stopped)
    /\ plMain.pc = "exec" => plUp = {}

\* The status shows the upgrade as being restarted into only when the new
\* binary is in place, and once it runs no further upgrade to it is made.
RestartingMeansInstalled == plPhase = "restarting" => plDisk = 2

====
