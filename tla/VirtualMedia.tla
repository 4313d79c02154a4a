--------------------------- MODULE VirtualMedia ---------------------------
(***************************************************************************)
(* Virtual media of the KVM: MsdController (msd/controller.rs) over the    *)
(* mass-storage function of the USB gadget (otg/msd.rs), the OTG service   *)
(* that builds the gadget (otg/service.rs), and the requests that reach    *)
(* them: mount, unmount and delete, the disk mode, USB configuration       *)
(* updates (config/usb_update.rs, config/apply.rs) and server-side access  *)
(* to the virtual drive (web/handlers/msd_api.rs).                         *)
(*                                                                         *)
(* One task at a time rebuilds the gadget: config_apply_locks.otg is taken *)
(* by USB updates and disk mode switches and refused while held.  A mount  *)
(* or unmount holds operation_lock and the state lock throughout, and the  *)
(* manager lock while it writes to configfs, so it is one step; it may     *)
(* fall between any two steps of a rebuild.                                *)
(***************************************************************************)
EXTENDS Integers, FiniteSets

CONSTANTS
    Images,      \* image files
    Drive,       \* the Ventoy virtual drive
    Capacity,    \* LUNs of the multi-disk mode (8 in the code)
    Others,      \* what the gadget holds beside MSD (HID, network, UAC)
    NoOthers,    \* ... nothing
    Dirs,        \* directories the media may be kept in
    Configs,     \* configurations that are asked for
    None

ASSUME MediaAssumption ==
    /\ Capacity \in Nat /\ Capacity > 1
    /\ Drive \notin Images /\ None \notin Images /\ None # Drive
    /\ NoOthers \in Others
    /\ None \notin [msd : BOOLEAN, capacity : {1, Capacity}, others : Others]
    /\ Configs \subseteq [msd : BOOLEAN, others : Others, dir : Dirs]
    /\ \E c \in Configs : c.msd

Media == Images \cup {Drive}
Luns  == 0 .. Capacity - 1
Modes == {1, Capacity}          \* DiskMode::Single, DiskMode::Multi

\* OtgDesiredState
Desired == [msd : BOOLEAN, capacity : Modes, others : Others]

VARIABLES
    (* MsdController, in AppState.msd *)
    controller,  \* AppState.msd is Some
    available, mode, mounted, reenumerating,
    cached,      \* its copy of the MSD function: the capacity, 0 for None
    (* OtgService *)
    desired, manager, function, health,
    active,      \* OtgServiceState: what the gadget was built for, or None
    (* configfs *)
    dirs, file, bound,
    (* the stored configuration, and the files *)
    config, files,
    (* the task that holds config_apply_locks.otg *)
    job, pc, target, origin, rolling, previous, retrying, goal, todo,
    access,      \* server-side access to the drive
    (* history *)
    fresh,       \* LUNs configured since the gadget was last torn down
    abandoned    \* media may have been forgotten that are still in the gadget

msdVars   == <<controller, available, mode, mounted, reenumerating, cached>>
otgVars   == <<desired, manager, function, health, active>>
lunVars   == <<file, bound>>
jobVars   == <<job, target, origin, rolling, goal>>
applyVars == <<previous, retrying>>
storeVars == <<config, files, access>>
vars == <<msdVars, otgVars, dirs, lunVars, storeVars, jobVars, applyVars, pc,
          todo, fresh, abandoned>>

NoMedia == [l \in Luns |-> None]

\* The service has started with MSD enabled, single-disk mode.
Init ==
    /\ controller = TRUE /\ available = TRUE /\ mode = 1
    /\ mounted = NoMedia /\ reenumerating = FALSE /\ cached = 1
    /\ config \in {c \in Configs : c.msd}
    /\ desired = [msd |-> TRUE, capacity |-> 1, others |-> config.others]
    /\ manager = TRUE /\ function = 1 /\ health = "Healthy"
    /\ active = desired
    /\ dirs = {0} /\ file = NoMedia /\ bound = TRUE
    /\ files = Media /\ access = FALSE
    /\ job = "none" /\ pc = "idle" /\ target = config /\ origin = config
    /\ rolling = FALSE /\ previous = desired /\ retrying = FALSE
    /\ goal = 1 /\ todo = {} /\ fresh = {} /\ abandoned = FALSE

Listed == {l \in Luns : mounted[l] # None}

\* AppState.msd is write-locked by set_disk_mode from its first line on.
Guarded == job = "switch" /\ pc # "s_check"

-----------------------------------------------------------------------------
(***************************************************************************)
(* configfs                                                                *)
(***************************************************************************)

\* configure_msd_lun and configure_lun get as far as writing attributes.
Configurable(l) == manager /\ function > l /\ l \in dirs

\* Mutant: the busy error of the last attempt to write the file is lost.
ConfigureLun_Busy(l, m, ok) ==
    \/ ~Configurable(l) /\ ~ok /\ UNCHANGED lunVars
    \/ /\ Configurable(l)
       /\ \E written, rebound \in BOOLEAN :
            /\ ok = rebound /\ (rebound \/ bound)
            /\ bound' = (bound /\ rebound)
            /\ \E f \in IF ~written THEN {file[l], None}
                       ELSE IF m \in files THEN {m} ELSE {None} :
                 file' = [file EXCEPT ![l] = f]

\* A LUN is given a medium.  The attributes or the file may fail; a change
\* between disk and CD-ROM unbinds the UDC meanwhile, and binding it again may
\* fail.  A medium whose file is gone is accepted, and the LUN stays empty.
ConfigureLun(l, m, ok) ==
    \/ ~Configurable(l) /\ ~ok /\ UNCHANGED lunVars
    \/ /\ Configurable(l)
       /\ \E written, rebound \in BOOLEAN :
            /\ ok = (written /\ rebound) /\ (rebound \/ bound)
            /\ bound' = (bound /\ rebound)
            /\ \E f \in IF ~written THEN {file[l], None}
                       ELSE IF m \in files THEN {m} ELSE {None} :
                 file' = [file EXCEPT ![l] = f]

\* disconnect_lun: refused without a gadget or function, or by the host that
\* prevents medium removal.
DisconnectLun(l, ok) ==
    \/ ~ok /\ UNCHANGED file
    \/ ok /\ manager /\ cached > l /\ file' = [file EXCEPT ![l] = None]

-----------------------------------------------------------------------------
(***************************************************************************)
(* Requests to the controller                                              *)
(***************************************************************************)

\* lowest_free_lun and select_lun: any free LUN may be asked for (Redfish),
\* otherwise the lowest is taken.
FreeLuns == {l \in Luns : l < mode /\ mounted[l] = None}
SelectLun(l, m) ==
    /\ l \in FreeLuns
    /\ m = Drive => \A k \in FreeLuns : l <= k

\* mount_image, mount_image_at_lun, mount_drive
Mount(m, l) ==
    /\ controller /\ ~Guarded /\ available /\ m \in files
    /\ \A k \in Listed : mounted[k] # m
    /\ SelectLun(l, m)
    /\ \E ok \in BOOLEAN :
         /\ ConfigureLun(l, m, ok)
         /\ mounted' = IF ok THEN [mounted EXCEPT ![l] = m] ELSE mounted
         /\ fresh' = IF ok THEN fresh \cup {l} ELSE fresh
    /\ UNCHANGED <<controller, available, mode, reenumerating, cached, otgVars,
                   dirs, storeVars, jobVars, applyVars, pc, todo, abandoned>>

\* Mutant: the medium is struck off the list before the LUN lets go of it.
Unmount_Unchecked(l) ==
    /\ controller /\ ~Guarded /\ l \in Listed
    /\ \E ok \in BOOLEAN : DisconnectLun(l, ok)
    /\ mounted' = [mounted EXCEPT ![l] = None]
    /\ UNCHANGED <<controller, available, mode, reenumerating, cached, otgVars,
                   dirs, bound, storeVars, jobVars, applyVars, pc, todo,
                   fresh, abandoned>>

\* unmount_image, unmount_drive, unmount_lun
Unmount(l) ==
    /\ controller /\ ~Guarded /\ l \in Listed
    /\ \E ok \in BOOLEAN :
         /\ DisconnectLun(l, ok)
         /\ mounted' = IF ok THEN [mounted EXCEPT ![l] = None] ELSE mounted
    /\ UNCHANGED <<controller, available, mode, reenumerating, cached, otgVars,
                   dirs, bound, storeVars, jobVars, applyVars, pc, todo,
                   fresh, abandoned>>

\* delete_image
DeleteImage(m) ==
    /\ controller /\ ~Guarded /\ m \in files
    /\ \A l \in Listed : mounted[l] # m
    /\ files' = files \ {m}
    /\ UNCHANGED <<msdVars, otgVars, dirs, lunVars, config, access, jobVars,
                   applyVars, pc, todo, fresh, abandoned>>

\* An upload or a download adds an image.
AddImage(m) ==
    /\ m \notin files /\ files' = files \cup {m}
    /\ UNCHANGED <<msdVars, otgVars, dirs, lunVars, config, access, jobVars,
                   applyVars, pc, todo, fresh, abandoned>>

\* assert_drive_not_connected, or the same test in msd_drive_delete; the lock
\* on AppState.msd is gone when the image of the drive is opened.
DriveOpen ==
    /\ ~access /\ ~Guarded /\ access' = TRUE
    /\ controller => \A l \in Listed : mounted[l] # Drive
    /\ UNCHANGED <<msdVars, otgVars, dirs, lunVars, config, files, jobVars,
                   applyVars, pc, todo, fresh, abandoned>>

\* The drive was created, deleted, or its files read or changed.
DriveDone ==
    /\ access /\ access' = FALSE
    /\ files' \in {files, files \cup {Drive}, files \ {Drive}}
    /\ UNCHANGED <<msdVars, otgVars, dirs, lunVars, config, jobVars, applyVars,
                   pc, todo, fresh, abandoned>>

-----------------------------------------------------------------------------
(***************************************************************************)
(* reconcile_gadget, for the task that holds the OTG lock                  *)
(***************************************************************************)

reconcileVars == <<msdVars, desired, health, storeVars, jobVars, applyVars,
                   todo>>

Reconciled == active = desired /\ health # "Degraded"

\* The gadget already matches the desired state, or has to be rebuilt.
ReconcileCheck ==
    /\ pc = "r_check" /\ pc' = IF Reconciled THEN "r_ok" ELSE "r_down"
    /\ UNCHANGED <<reconcileVars, manager, function, active, dirs, lunVars,
                   fresh, abandoned>>

\* The old gadget, its LUNs included, is removed; without any function left
\* that is all.
Teardown ==
    /\ pc = "r_down"
    /\ manager' = FALSE /\ function' = 0 /\ active' = None
    /\ dirs' = {} /\ file' = NoMedia /\ bound' = FALSE
    /\ fresh' = {} /\ abandoned' = FALSE
    /\ pc' = IF desired.msd \/ desired.others # NoOthers THEN "r_build"
             ELSE "r_ok"
    /\ UNCHANGED reconcileVars

\* The network bridge or the removal fails; what could be removed is gone,
\* and the service goes on as if the gadget were there.
TeardownFails ==
    /\ pc = "r_down" /\ pc' = "r_err"
    /\ bound' \in {bound, FALSE} /\ dirs' \in {dirs, dirs \cap {0}}
    /\ \E gone \in SUBSET Luns :
         file' = [l \in Luns |-> IF l \in gone THEN None ELSE file[l]]
    /\ fresh' = {}
    /\ UNCHANGED <<reconcileVars, manager, function, active, abandoned>>

\* The new gadget, with empty LUNs, is set up, bound and stored.
Build ==
    /\ pc = "r_build" /\ pc' = "r_ok"
    /\ manager' = TRUE /\ active' = desired /\ bound' = TRUE
    /\ function' = IF desired.msd THEN desired.capacity ELSE 0
    /\ dirs' = IF desired.msd THEN 0 .. desired.capacity - 1 ELSE {}
    /\ UNCHANGED <<reconcileVars, file, fresh, abandoned>>

\* No ConfigFS or UDC, or a function, the set-up, the binding or the bridge
\* fails: what was created is removed, or left empty and without a manager.
BuildFails ==
    /\ pc = "r_build" /\ pc' = "r_err"
    /\ UNCHANGED <<reconcileVars, manager, function, active, dirs, lunVars,
                   fresh, abandoned>>

-----------------------------------------------------------------------------
(***************************************************************************)
(* USB configuration updates                                               *)
(***************************************************************************)

usbVars == <<manager, function, active, dirs, bound, files, access,
             goal, todo, fresh>>

\* update_usb_config takes the lock and stages the new configuration.
UpdateBegin(c) ==
    /\ job = "none" /\ job' = "update" /\ pc' = "apply"
    /\ target' = c /\ origin' = config /\ c # config
    /\ UNCHANGED <<msdVars, desired, health, config, rolling, applyVars, file,
                   abandoned, usbVars>>

\* Mutant: the new desired state starts from its default capacity.
Apply_Single ==
    /\ pc \in {"apply", "reapply"} /\ pc' = "r_check"
    /\ previous' = desired /\ retrying' = FALSE /\ health' = "Applying"
    /\ desired' = [msd |-> target.msd, capacity |-> 1,
                   others |-> target.others]
    /\ job' = IF pc = "apply" THEN "update" ELSE "reload"
    /\ UNCHANGED <<msdVars, config, target, origin, rolling, file, abandoned,
                   usbVars>>

\* apply_config: the desired state follows the configuration and keeps the
\* LUN capacity.  apply_msd_config calls it a second time.
Apply ==
    /\ pc \in {"apply", "reapply"} /\ pc' = "r_check"
    /\ previous' = desired /\ retrying' = FALSE /\ health' = "Applying"
    /\ desired' = [msd |-> target.msd, capacity |-> desired.capacity,
                   others |-> target.others]
    /\ job' = IF pc = "apply" THEN "update" ELSE "reload"
    /\ UNCHANGED <<msdVars, config, target, origin, rolling, file, abandoned,
                   usbVars>>

\* The gadget could not be built: apply_config goes back once.
ApplyRetry ==
    /\ job \in {"update", "reload"} /\ pc = "r_err" /\ ~retrying
    /\ desired' = previous /\ retrying' = TRUE /\ health' = "Degraded"
    /\ pc' = "r_check"
    /\ UNCHANGED <<msdVars, config, job, target, origin, rolling, previous,
                   file, abandoned, usbVars>>

\* The previous gadget is back, or nothing is: apply_config returns an error.
ApplyFailed ==
    /\ job \in {"update", "reload"} /\ retrying /\ pc \in {"r_ok", "r_err"}
    /\ health' = IF pc = "r_ok" THEN "Healthy" ELSE "Degraded"
    /\ pc' = "failed"
    /\ UNCHANGED <<msdVars, desired, config, job, target, origin, rolling,
                   applyVars, file, abandoned, usbVars>>

NeedsReload == target.msd # origin.msd \/ target.dir # origin.dir

\* The first reconcile is over; HID is reloaded, then apply_msd_config
\* decides: with MSD enabled the gadget comes first, without it last.
Applied ==
    /\ job = "update" /\ pc = "r_ok" /\ ~retrying /\ health' = "Healthy"
    /\ pc' \in {"failed", IF ~NeedsReload THEN "store"
                          ELSE IF target.msd THEN "reapply" ELSE "shutdown"}
    /\ UNCHANGED <<msdVars, desired, config, job, target, origin, rolling,
                   applyVars, file, abandoned, usbVars>>

\* The second reconcile is over.
Reapplied ==
    /\ job = "reload" /\ pc = "r_ok" /\ ~retrying /\ health' = "Healthy"
    /\ job' = "update" /\ pc' = IF target.msd THEN "shutdown" ELSE "store"
    /\ UNCHANGED <<msdVars, desired, config, target, origin, rolling, applyVars,
                   file, abandoned, usbVars>>

\* MsdController::shutdown disconnects the media and forgets them; when that
\* fails some have been disconnected, or connected again, and it only warns.
Shutdown ==
    /\ pc = "shutdown" /\ pc' = IF target.msd THEN "init" ELSE "reapply"
    /\ controller' = FALSE /\ available' = FALSE /\ mounted' = NoMedia
    /\ cached' = 0 /\ reenumerating' = FALSE
    /\ \/ /\ \A l \in Listed : manager /\ cached > l
          /\ file' = [l \in Luns |-> IF l \in Listed THEN None ELSE file[l]]
          /\ UNCHANGED <<bound, abandoned>>
       \/ /\ Listed # {} /\ abandoned' = TRUE
          /\ \E gone, back \in SUBSET Listed :
               /\ \A l \in back : Configurable(l)
               /\ file' = [l \in Luns |-> IF l \in gone THEN None
                             ELSE IF l \in back THEN mounted[l]
                             ELSE file[l]]
          /\ bound' \in {bound, FALSE}
    /\ UNCHANGED <<mode, otgVars, dirs, storeVars, jobVars, applyVars, todo,
                   fresh>>

\* A new controller; init fails when there is no MSD function.
InitController ==
    /\ pc = "init"
    /\ \/ /\ function = 0 /\ pc' = "failed" /\ UNCHANGED msdVars
       \/ /\ function > 0 /\ pc' = "store"
          /\ controller' = TRUE /\ available' = TRUE
          /\ mode' = desired.capacity /\ cached' = function
          /\ mounted' = NoMedia /\ reenumerating' = FALSE
    /\ UNCHANGED <<desired, health, config, jobVars, applyVars, file, abandoned,
                   manager, function, active, dirs, bound, files,
                   access, todo, fresh>>

\* The lock is released, with c as the stored configuration.
Unlock(c) ==
    /\ config' = c /\ job' = "none" /\ pc' = "idle" /\ rolling' = FALSE /\ goal' = 1
    /\ retrying' = FALSE /\ previous' = desired
    /\ target' = c /\ origin' = c

\* HID and UAC playback follow, and the configuration is stored; after a
\* rollback it is not.
UpdateStore ==
    /\ pc = "store"
    /\ \/ /\ Unlock(IF rolling THEN config ELSE target)
       \/ /\ pc' = "failed" /\ UNCHANGED <<config, jobVars, applyVars>>
    /\ UNCHANGED <<msdVars, otgVars, dirs, lunVars, files, access, todo, fresh,
                   abandoned>>

\* Mutant: after a failure the configuration of before is not applied.
UpdateFailed_NoRollback ==
    /\ pc = "failed" /\ Unlock(config) /\ UNCHANGED health
    /\ UNCHANGED <<msdVars, desired, manager, function, active, dirs, lunVars,
                   files, access, todo, fresh, abandoned>>

\* rollback_after_failure applies the configuration of before; when that
\* fails as well the service is marked degraded.
UpdateFailed ==
    /\ pc = "failed"
    /\ \/ /\ ~rolling /\ rolling' = TRUE /\ target' = origin
          /\ origin' = target /\ job' = "update" /\ pc' = "apply"
          /\ UNCHANGED <<config, health, applyVars, goal>>
       \/ /\ rolling /\ Unlock(config) /\ health' = "Degraded"
    /\ UNCHANGED <<msdVars, desired, manager, function, active, dirs, lunVars,
                   files, access, todo, fresh, abandoned>>

-----------------------------------------------------------------------------
(***************************************************************************)
(* The disk mode                                                           *)
(***************************************************************************)

switchVars == <<manager, function, health, active, dirs, storeVars, applyVars,
                target, origin, abandoned>>

\* msd_disk_mode_put takes the OTG lock and finds another mode in force.
SwitchBegin(n) ==
    /\ job = "none" /\ controller /\ mode # n
    /\ job' = "switch" /\ pc' = "s_check" /\ goal' = n
    /\ UNCHANGED <<msdVars, desired, lunVars, rolling, todo, fresh, switchVars>>

\* HID cannot be prepared, or set_disk_mode finds the controller unavailable.
SwitchRefused ==
    /\ pc = "s_check" /\ Unlock(config)
    /\ UNCHANGED <<msdVars, otgVars, dirs, lunVars, storeVars, todo, fresh,
                   abandoned>>

\* set_disk_mode announces the switch ...
SwitchMark ==
    /\ pc = "s_check" /\ available
    /\ reenumerating' = TRUE /\ pc' = "s_set"
    /\ UNCHANGED <<controller, available, mode, mounted, cached, desired,
                   lunVars, job, rolling, goal, todo, fresh, switchVars>>

\* ... and asks the OTG service for a gadget with the new capacity, or with
\* the old one when that has failed.
SetCapacity ==
    /\ pc = "s_set"
    /\ \/ /\ desired.msd /\ pc' = "r_check"
          /\ desired' = [desired EXCEPT !.capacity = IF rolling THEN mode
                                                    ELSE goal]
       \/ ~desired.msd /\ pc' = "r_err" /\ UNCHANGED desired
    /\ UNCHANGED <<msdVars, lunVars, jobVars, todo, fresh, switchVars>>

\* The gadget is there: the new mode holds, with nothing mounted.
Switched ==
    /\ job = "switch" /\ ~rolling /\ pc = "r_ok" /\ function > 0
    /\ mode' = goal /\ mounted' = NoMedia /\ cached' = function
    /\ reenumerating' = FALSE /\ Unlock(config)
    /\ UNCHANGED <<controller, available, otgVars, dirs, lunVars, storeVars,
                   todo, fresh, abandoned>>

\* The switch failed: rollback_mode_switch.
SwitchBack ==
    /\ job = "switch" /\ ~rolling
    /\ pc = "r_err" \/ (pc = "r_ok" /\ function = 0)
    /\ rolling' = TRUE /\ pc' = "s_set"
    /\ UNCHANGED <<msdVars, desired, lunVars, job, goal, todo, fresh,
                   switchVars>>

\* The old gadget is back; its media have to be configured again ...
SwitchedBack ==
    /\ job = "switch" /\ rolling /\ pc = "r_ok" /\ function > 0
    /\ cached' = function /\ todo' = Listed /\ pc' = "s_media"
    /\ UNCHANGED <<controller, available, mode, mounted, reenumerating, desired,
                   lunVars, jobVars, fresh, switchVars>>

\* ... one after the other ...
RestoreMedium(l) ==
    /\ pc = "s_media" /\ l \in todo /\ todo' = todo \ {l}
    /\ \E ok \in BOOLEAN :
         /\ ConfigureLun(l, mounted[l], ok)
         /\ pc' = IF ok THEN "s_media" ELSE "s_fail"
         /\ fresh' = IF ok THEN fresh \cup {l} ELSE fresh
    /\ UNCHANGED <<msdVars, desired, jobVars, switchVars>>

\* Mutant: the announcement is not taken back.
Restored_Marked ==
    /\ pc = "s_media" /\ todo = {}
    /\ Unlock(config)
    /\ UNCHANGED <<msdVars, otgVars, dirs, lunVars, storeVars, todo, fresh,
                   abandoned>>

\* ... until the state of before is in force again.
Restored ==
    /\ pc = "s_media" /\ todo = {}
    /\ reenumerating' = FALSE /\ Unlock(config)
    /\ UNCHANGED <<controller, available, mode, mounted, cached, otgVars, dirs,
                   lunVars, storeVars, todo, fresh, abandoned>>

\* Nothing helped: the controller is unavailable.
SwitchGivesUp ==
    /\ job = "switch" /\ rolling
    /\ pc \in {"r_err", "s_fail"} \/ (pc = "r_ok" /\ function = 0)
    /\ available' = FALSE /\ mounted' = NoMedia /\ cached' = 0
    /\ reenumerating' = FALSE /\ todo' = {} /\ Unlock(config)
    /\ abandoned' = TRUE
    /\ UNCHANGED <<controller, mode, otgVars, dirs, lunVars, storeVars, fresh>>

-----------------------------------------------------------------------------
Request ==
    \/ \E m \in Media, l \in Luns : Mount(m, l)
    \/ \E l \in Luns : Unmount(l)
    \/ \E m \in Images : DeleteImage(m) \/ AddImage(m)
    \/ DriveOpen \/ DriveDone
    \/ \E c \in Configs : UpdateBegin(c)
    \/ \E n \in Modes : SwitchBegin(n)

Reconcile ==
    ReconcileCheck \/ Teardown \/ TeardownFails \/ Build \/ BuildFails

Update ==
    \/ Apply \/ ApplyRetry \/ ApplyFailed \/ Applied \/ Reapplied \/ Shutdown
    \/ InitController \/ UpdateStore \/ UpdateFailed

Switch ==
    \/ SwitchRefused \/ SwitchMark \/ SetCapacity \/ Switched \/ SwitchBack
    \/ SwitchedBack \/ (\E l \in Luns : RestoreMedium(l)) \/ Restored
    \/ SwitchGivesUp

Next == Request \/ Reconcile \/ Update \/ Switch

Spec == Init /\ [][Next]_vars

-----------------------------------------------------------------------------
(***************************************************************************)
(* Properties                                                              *)
(***************************************************************************)

\* Types; only LUNs the disk mode offers hold media (controller.rs 279-297).
TypeOK ==
    /\ controller \in BOOLEAN /\ available \in BOOLEAN /\ mode \in Modes
    /\ mounted \in [Luns -> Media \cup {None}] /\ reenumerating \in BOOLEAN
    /\ Listed \subseteq 0 .. mode - 1
    /\ cached \in Modes \cup {0}
    /\ desired \in Desired /\ manager \in BOOLEAN
    /\ function \in Modes \cup {0} /\ active \in Desired \cup {None}
    /\ health \in {"Healthy", "Applying", "Degraded"}
    /\ dirs \subseteq Luns /\ file \in [Luns -> Media \cup {None}]
    /\ bound \in BOOLEAN
    /\ config \in Configs /\ files \subseteq Media
    /\ access \in BOOLEAN
    /\ job \in {"none", "update", "reload", "switch"}
    /\ pc \in {"idle", "apply", "reapply", "r_check", "r_down", "r_build",
               "r_ok", "r_err", "shutdown", "init", "store", "failed",
               "s_check", "s_set", "s_media", "s_fail"}
    /\ target \in Configs /\ origin \in Configs /\ previous \in Desired
    /\ rolling \in BOOLEAN /\ retrying \in BOOLEAN /\ goal \in Modes
    /\ todo \subseteq Luns /\ fresh \subseteq Luns /\ abandoned \in BOOLEAN

Exposed(l) == bound /\ file[l] # None
Serving == controller /\ available /\ ~Guarded

\* Every request that is let in works on the gadget that is there: the mode
\* the controller allots LUNs by, its copy of the MSD function and the
\* function of the OTG service have the same number of LUNs, whatever updates
\* and switches failed half way (controller.rs 73-80, service.rs 315).
ModeAgrees ==
    Serving /\ function > 0 => mode = function /\ cached = function

\* An image listed as mounted is in its LUN, unless the gadget has been torn
\* down since (controller.rs 174-179, 389-406, 444-458).
MountedIsExposed ==
    Serving => \A l \in fresh \cap Listed :
                  mounted[l] \in Images => file[l] = mounted[l]

\* What the host sees is listed, so delete_image and a second mount know of
\* it, unless a shutdown or a mode switch that could not be undone forgot it
\* (controller.rs 517-526).
ExposedIsMounted ==
    Serving /\ ~abandoned => \A l \in Luns :
        Exposed(l) => l \in Listed /\ mounted[l] = file[l]

\* The list of mounted media and what the host sees agree, each way as far as
\* the controller answers for it (controller.rs 174-179, 389-406, 444-458).
ListIsTrue == MountedIsExposed /\ ExposedIsMounted

\* Healthy, with nothing going on, means that the OTG service wants what the
\* stored configuration says, whichever steps of an update, of its rollback
\* or of a disk mode switch failed (usb_update.rs 61-111, service.rs 265-293).
HealthyMeansApplied ==
    job = "none" /\ health = "Healthy"
        => desired.msd = config.msd /\ desired.others = config.others

\* The announcement that USB is being re-enumerated is taken back by the time
\* the switch lets other requests in again, whatever failed in it
\* (controller.rs 313, 339-362).
ReenumerationEnds == reenumerating => Guarded

\* msd_api.rs 25-28: server-side access to the drive while it is connected to
\* the host "would cause double-access corruption".
DriveNotShared ==
    access => \A l \in Luns : Exposed(l) => file[l] # Drive
====
