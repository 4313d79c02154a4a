---- MODULE NetBridge ----
(***************************************************************************)
(* The network bridge of the gadget (src/otg/bridge.rs) and the part of    *)
(* OtgService that owns it: an Ethernet uplink is taken from its own       *)
(* NetworkManager connection and put into a bridge with the USB interface, *)
(* and given back.  A journal under /run names what has to be undone; the  *)
(* process may die between any two commands, and any command may fail.     *)
(*                                                                         *)
(* A transaction makes three profiles, named after it, in the order of     *)
(* Kinds.  apply_config, reconcile_gadget and shutdown run one at a time   *)
(* (OTG_OPS is held by their callers).                                     *)
(***************************************************************************)
EXTENDS Naturals, Sequences

CONSTANTS
    NbUplinks,  \* physical Ethernet interfaces, connected at boot
    NbNone,
    MaxTxns,    \* bound: activations
    MaxNbFaults \* bound: failing commands, crashes and reboots

ASSUME NbAssumption ==
    /\ NbNone \notin NbUplinks
    /\ NbNone \notin [txn : Nat, uplink : NbUplinks, uuids : SUBSET {"bridge", "uplink", "usb"}]
    /\ MaxTxns \in Nat /\ MaxNbFaults \in Nat

VARIABLES
    nbCon,   \* external: what each uplink runs: "orig", "port" or "down"
    nbLink,  \* external: okvm-br0 exists
    nbProfs, \* external: the profiles of NetworkManager that are ours
    nbDisk,  \* the journal under /run, NbNone for no file
    nbSvc,   \* OtgService: [up, checked, runtime]
    nbJob,   \* the operation: [pc, step, j, ok, then, want]
    nbTxn,   \* transactions begun
    nbFaults,
    nbGone   \* journals that were overwritten, or lost with /run

nbVars == <<nbCon, nbLink, nbProfs, nbDisk, nbSvc, nbJob, nbTxn, nbFaults, nbGone>>
nbHost == <<nbCon, nbLink, nbProfs>>

Kinds == <<"bridge", "uplink", "usb">>
NbKinds == {Kinds[i] : i \in 1..3}

\* BridgeJournal: the profiles whose UUID it has; their names it always has.
Journal(t, u) == [txn |-> t, uplink |-> u, uuids |-> {}]

NbIdle == [pc |-> "idle", step |-> 0, j |-> NbNone, ok |-> TRUE, then |-> "-", want |-> FALSE]
NbDown == [up |-> FALSE, checked |-> FALSE, runtime |-> NbNone]

NbInit ==
    /\ nbCon = [u \in NbUplinks |-> "orig"] /\ nbLink = FALSE /\ nbProfs = {}
    /\ nbDisk = NbNone /\ nbSvc = NbDown /\ nbJob = NbIdle
    /\ nbTxn = 0 /\ nbFaults = 0 /\ nbGone = {}

-----------------------------------------------------------------------------
\* restore_from_journal

\* restore_from_journal begins; `then' says who waits for it.
Restoring(j, then, want) ==
    [pc |-> "delete", step |-> 3, j |-> j, ok |-> TRUE, then |-> then, want |-> want]

Fault == nbFaults < MaxNbFaults /\ nbFaults' = nbFaults + 1
Sound == UNCHANGED nbFaults

\* The uplink falls off the bridge with the port profile or the bridge.
Dropped(u) == [nbCon EXCEPT ![u] = IF @ = "port" THEN "down" ELSE @]

\* delete_owned_connection, for one profile: by UUID, else by name.  An error
\* is noted and the next profile is tried.
DeleteProfile ==
    LET k == Kinds[nbJob.step] IN
    /\ nbJob.pc = "delete"
    /\ \/ /\ Sound
          /\ nbProfs' = nbProfs \ {<<nbJob.j.txn, k>>}
          /\ nbCon' = IF k = "usb" THEN nbCon ELSE Dropped(nbJob.j.uplink)
          /\ nbJob' = [nbJob EXCEPT !.step = @ - 1, !.pc = IF nbJob.step = 1 THEN "unlink" ELSE "delete"]
       \/ /\ Fault
          /\ nbJob' = [nbJob EXCEPT !.step = @ - 1, !.ok = FALSE, !.pc = IF nbJob.step = 1 THEN "unlink" ELSE "delete"]
          /\ UNCHANGED <<nbProfs, nbCon>>
    /\ UNCHANGED <<nbLink, nbDisk, nbSvc, nbTxn, nbGone>>

\* delete_bridge_interface.
DeleteLink ==
    /\ nbJob.pc = "unlink"
    /\ \/ /\ Sound
          /\ nbLink' = FALSE /\ nbCon' = Dropped(nbJob.j.uplink)
          /\ nbJob' = [nbJob EXCEPT !.pc = "original"]
       \/ /\ nbLink /\ Fault
          /\ nbJob' = [nbJob EXCEPT !.pc = "original", !.ok = FALSE]
          /\ UNCHANGED <<nbLink, nbCon>>
    /\ UNCHANGED <<nbProfs, nbDisk, nbSvc, nbTxn, nbGone>>

\* Mutant of RestoreOriginal: the original not coming up is only logged.
RestoreOriginal_Quiet ==
    /\ nbJob.pc = "original"
    /\ nbJob' = [nbJob EXCEPT !.pc = "forget"]
    /\ \/ Sound /\ nbCon' = [nbCon EXCEPT ![nbJob.j.uplink] = "orig"]
       \/ Fault /\ UNCHANGED nbCon
    /\ UNCHANGED <<nbLink, nbProfs, nbDisk, nbSvc, nbTxn, nbGone>>

\* connection up of the original profile on its uplink.
RestoreOriginal ==
    /\ nbJob.pc = "original"
    /\ \/ /\ Sound
          /\ nbCon' = [nbCon EXCEPT ![nbJob.j.uplink] = "orig"]
          /\ nbJob' = [nbJob EXCEPT !.pc = "forget"]
       \/ /\ Fault
          /\ nbJob' = [nbJob EXCEPT !.pc = "forget", !.ok = FALSE]
          /\ UNCHANGED nbCon
    /\ UNCHANGED <<nbLink, nbProfs, nbDisk, nbSvc, nbTxn, nbGone>>

\* What follows a restore that ended well or badly.
AfterRestore(ok) ==
    CASE nbJob.then = "recover" /\ ok ->
            /\ nbSvc' = [nbSvc EXCEPT !.checked = TRUE]
            /\ nbJob' = [NbIdle EXCEPT !.pc = "reconcile", !.want = nbJob.want]
      [] nbJob.then = "reconcile" /\ ok ->
            /\ nbSvc' = [nbSvc EXCEPT !.runtime = NbNone]
            /\ nbJob' = [NbIdle EXCEPT !.pc = "build", !.want = nbJob.want]
      [] nbJob.then = "shutdown" -> nbSvc' = NbDown /\ nbJob' = NbIdle
      [] OTHER -> nbJob' = NbIdle /\ UNCHANGED nbSvc

\* With no error the journal is removed, which may fail; else it stays.
RestoreEnds ==
    /\ nbJob.pc = "forget"
    /\ \/ /\ Sound
          /\ nbDisk' = IF nbJob.ok THEN NbNone ELSE nbDisk
          /\ AfterRestore(nbJob.ok)
       \/ nbJob.ok /\ Fault /\ AfterRestore(FALSE) /\ UNCHANGED nbDisk
    /\ UNCHANGED <<nbHost, nbTxn, nbGone>>

-----------------------------------------------------------------------------
\* OtgService

Boot ==
    /\ ~nbSvc.up
    /\ nbSvc' = [NbDown EXCEPT !.up = TRUE]
    /\ UNCHANGED <<nbHost, nbDisk, nbJob, nbTxn, nbFaults, nbGone>>

\* apply_config: the first one of a process undoes what an earlier one left;
\* when that fails nothing is applied.
ApplyConfig(want) ==
    /\ nbSvc.up /\ nbJob.pc = "idle"
    /\ IF nbSvc.checked \/ nbDisk = NbNone
       THEN /\ nbSvc' = [nbSvc EXCEPT !.checked = TRUE]
            /\ nbJob' = [NbIdle EXCEPT !.pc = "reconcile", !.want = want]
       ELSE nbJob' = Restoring(nbDisk, "recover", want) /\ UNCHANGED nbSvc
    /\ UNCHANGED <<nbHost, nbDisk, nbTxn, nbFaults, nbGone>>

\* reconcile_gadget: a bridge that is on is taken down first, and a failure
\* keeps the runtime.
ReconcileGadget ==
    /\ nbJob.pc = "reconcile"
    /\ nbJob' = IF nbSvc.runtime = NbNone
                THEN [nbJob EXCEPT !.pc = "build"]
                ELSE Restoring(nbSvc.runtime, "reconcile", nbJob.want)
    /\ UNCHANGED <<nbHost, nbDisk, nbSvc, nbTxn, nbFaults, nbGone>>

\* The gadget is built; without the network function, or when building it
\* fails, no bridge is asked for.
BuildGadget ==
    /\ nbJob.pc = "build"
    /\ \/ nbJob' = NbIdle
       \/ nbJob.want /\ nbTxn < MaxTxns /\ nbJob' = [nbJob EXCEPT !.pc = "select"]
    /\ UNCHANGED <<nbHost, nbDisk, nbSvc, nbTxn, nbFaults, nbGone>>

\* OtgService::shutdown.
ShutdownOtg ==
    /\ nbSvc.up /\ nbJob.pc = "idle"
    /\ IF nbSvc.runtime = NbNone
       THEN nbSvc' = NbDown /\ UNCHANGED nbJob
       ELSE nbJob' = Restoring(nbSvc.runtime, "shutdown", FALSE) /\ UNCHANGED nbSvc
    /\ UNCHANGED <<nbHost, nbDisk, nbTxn, nbFaults, nbGone>>

\* The process dies: /run survives it, and what NetworkManager holds.
Crash ==
    /\ nbSvc.up /\ Fault
    /\ nbSvc' = NbDown /\ nbJob' = NbIdle
    /\ UNCHANGED <<nbHost, nbDisk, nbTxn, nbGone>>

\* The machine restarts: profiles are kept by NetworkManager, /run is not; an
\* original connection starts by itself, one of ours does not (external).
Reboot ==
    /\ Fault
    /\ nbSvc' = NbDown /\ nbJob' = NbIdle
    /\ nbCon' = [u \in NbUplinks |-> "orig"] /\ nbLink' = FALSE
    /\ nbGone' = IF nbDisk = NbNone THEN nbGone ELSE nbGone \cup {nbDisk}
    /\ nbDisk' = NbNone
    /\ UNCHANGED <<nbProfs, nbTxn>>

-----------------------------------------------------------------------------
\* activate

\* A command fails while there is nothing to undo.
GiveUp == Fault /\ nbJob' = NbIdle

\* A command fails later: restore_or_combine.
RollBack(j) == Fault /\ nbJob' = Restoring(j, "failed", FALSE)

\* list_network_interfaces, select_bridge_candidate: an uplink with an active
\* connection of its own, named or the one with the default route.  A port of
\* a bridge has no IPv4 method to copy and is refused later, before anything
\* is written.
SelectUplink ==
    /\ nbJob.pc = "select"
    /\ \/ /\ \E u \in {v \in NbUplinks : nbCon[v] = "orig"} :
                nbJob' = [nbJob EXCEPT !.pc = "prepare", !.j = Journal(nbTxn + 1, u)]
          /\ Sound
       \/ (\E u \in NbUplinks : nbCon[u] # "orig") /\ nbJob' = NbIdle /\ Sound
       \/ GiveUp
    /\ UNCHANGED <<nbHost, nbDisk, nbSvc, nbTxn, nbGone>>

\* prepare_device_for_network_manager: the USB interface is brought up and
\* waited for until NetworkManager manages it, or has it as something else.
PrepareDevice ==
    /\ nbJob.pc = "prepare"
    /\ \/ Sound /\ nbJob' = [nbJob EXCEPT !.pc = "reset"]
       \/ GiveUp
    /\ UNCHANGED <<nbHost, nbDisk, nbSvc, nbTxn, nbGone>>

\* reset_bridge_interface: whatever profile is bound to okvm-br0 goes, and the
\* interface.  A port of that bridge falls off.
ResetBridge ==
    /\ nbJob.pc = "reset"
    /\ \/ /\ Sound
          /\ nbProfs' = {p \in nbProfs : p[2] # "bridge"} /\ nbLink' = FALSE
          /\ nbCon' = [u \in NbUplinks |-> IF nbCon[u] = "port" THEN "down" ELSE nbCon[u]]
          /\ nbJob' = [nbJob EXCEPT !.pc = "journal"]
       \/ GiveUp /\ UNCHANGED nbHost
    /\ UNCHANGED <<nbDisk, nbSvc, nbTxn, nbGone>>

\* The journal is written to a file beside it and renamed; one that is there
\* from a roll back that failed is replaced.
WriteJournal ==
    /\ nbJob.pc = "journal"
    /\ \/ /\ Sound
          /\ nbDisk' = nbJob.j
          /\ nbGone' = IF nbDisk = NbNone THEN nbGone ELSE nbGone \cup {nbDisk}
          /\ nbTxn' = nbTxn + 1 /\ nbJob' = [nbJob EXCEPT !.pc = "link"]
       \/ GiveUp /\ UNCHANGED <<nbDisk, nbTxn, nbGone>>
    /\ UNCHANGED <<nbHost, nbSvc>>

\* create_bridge_interface; setting it up may fail once it is there.
CreateLink ==
    /\ nbJob.pc = "link"
    /\ \/ Sound /\ nbLink' = TRUE /\ nbJob' = [nbJob EXCEPT !.pc = "add", !.step = 1]
       \/ RollBack(nbJob.j) /\ nbLink' \in BOOLEAN
    /\ UNCHANGED <<nbCon, nbProfs, nbDisk, nbSvc, nbTxn, nbGone>>

\* connection add.
AddProfile ==
    LET p == <<nbJob.j.txn, Kinds[nbJob.step]>> IN
    /\ nbJob.pc = "add"
    /\ \/ Sound /\ nbProfs' = nbProfs \cup {p} /\ nbJob' = [nbJob EXCEPT !.pc = "record"]
       \/ RollBack(nbJob.j) /\ nbProfs' \in {nbProfs, nbProfs \cup {p}}
    /\ UNCHANGED <<nbCon, nbLink, nbDisk, nbSvc, nbTxn, nbGone>>

\* The UUID is read and the journal written again; the one in memory has the
\* UUID even when writing fails.
RecordProfile ==
    LET j == [nbJob.j EXCEPT !.uuids = @ \cup {Kinds[nbJob.step]}] IN
    /\ nbJob.pc = "record"
    /\ \/ /\ Sound /\ nbDisk' = j
          /\ nbJob' = [nbJob EXCEPT !.j = j, !.step = (@ % 3) + 1,
                                    !.pc = <<"configure", "add", "down">>[nbJob.step]]
       \/ (\E k \in {j, nbJob.j} : RollBack(k)) /\ UNCHANGED nbDisk
    /\ UNCHANGED <<nbHost, nbSvc, nbTxn, nbGone>>

\* configure_ipv4_profile and the other properties of the bridge profile.
ConfigureProfile ==
    /\ nbJob.pc = "configure"
    /\ \/ Sound /\ nbJob' = [nbJob EXCEPT !.pc = "add"]
       \/ RollBack(nbJob.j)
    /\ UNCHANGED <<nbHost, nbDisk, nbSvc, nbTxn, nbGone>>

\* The original connection is taken down.
TakeDown ==
    /\ nbJob.pc = "down"
    /\ \/ Sound /\ nbCon' = [nbCon EXCEPT ![nbJob.j.uplink] = "down"] /\ nbJob' = [nbJob EXCEPT !.pc = "activate"]
       \/ RollBack(nbJob.j) /\ UNCHANGED nbCon
    /\ UNCHANGED <<nbLink, nbProfs, nbDisk, nbSvc, nbTxn, nbGone>>

\* activate_connection, in the same order.
ActivateProfile ==
    /\ nbJob.pc = "activate"
    /\ \/ /\ Sound
          /\ nbCon' = IF Kinds[nbJob.step] = "uplink" THEN [nbCon EXCEPT ![nbJob.j.uplink] = "port"] ELSE nbCon
          /\ nbJob' = [nbJob EXCEPT !.step = @ + 1, !.pc = IF nbJob.step = 3 THEN "address" ELSE "activate"]
       \/ RollBack(nbJob.j) /\ UNCHANGED nbCon
    /\ UNCHANGED <<nbLink, nbProfs, nbDisk, nbSvc, nbTxn, nbGone>>

\* The bridge gets an address, and the default route if the uplink had it,
\* within 35 seconds; then the service holds the bridge.
WaitAddress ==
    /\ nbJob.pc = "address"
    /\ \/ Sound /\ nbSvc' = [nbSvc EXCEPT !.runtime = nbJob.j] /\ nbJob' = NbIdle
       \/ RollBack(nbJob.j) /\ UNCHANGED nbSvc
    /\ UNCHANGED <<nbHost, nbDisk, nbTxn, nbGone>>

NbNext ==
    \/ DeleteProfile \/ DeleteLink \/ RestoreOriginal \/ RestoreEnds
    \/ Boot \/ (\E w \in BOOLEAN : ApplyConfig(w)) \/ ReconcileGadget \/ BuildGadget
    \/ ShutdownOtg \/ Crash \/ Reboot
    \/ SelectUplink \/ PrepareDevice \/ ResetBridge \/ ConfigureProfile \/ WriteJournal \/ CreateLink \/ AddProfile
    \/ RecordProfile \/ TakeDown \/ ActivateProfile \/ WaitAddress

NbSpec == NbInit /\ [][NbNext]_nbVars

-----------------------------------------------------------------------------

\* Whenever the process dies, and whatever command failed, an uplink that is
\* not on its own connection is named by a journal that says how to give it
\* back: the KVM does not cut itself off for good.  (A journal that was
\* replaced by a later activation is in nbGone.)
UplinkCanComeBack ==
    \A u \in NbUplinks : nbCon[u] # "orig" =>
       \/ nbDisk # NbNone /\ nbDisk.uplink = u
       \/ \E j \in nbGone : j.uplink = u

\* A profile that this program made belongs to the transaction of the journal,
\* also one whose UUID was never read; none is left behind by a restore.
ProfilesAccounted ==
    \A p \in nbProfs :
       \/ nbDisk # NbNone /\ nbDisk.txn = p[1]
       \/ \E j \in nbGone : j.txn = p[1]

\* A bridge the service holds is the one on disk: taking it down later, in this
\* process or in the next, undoes the same profiles and the same uplink.
RuntimeIsJournaled == nbSvc.runtime # NbNone => nbDisk = nbSvc.runtime

====
