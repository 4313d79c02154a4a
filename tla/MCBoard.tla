------------------------------ MODULE MCBoard -------------------------------
(***************************************************************************)
(* The parts of the program that keep the board and the controlled machine *)
(* in order and meet only through the configuration: login, input queue,   *)
(* USB gadget, its network bridge, ATX buttons, wake-on-LAN history,       *)
(* hardware watchdog, the life of the process and the store of images.     *)
(* One run checks them all: a behaviour chooses a part and runs that part  *)
(* alone.                                                                  *)
(***************************************************************************)
EXTENDS Login, HidQueue, GadgetTree, NetBridge, AtxPower, HostWatchdog, ProcessLife,
        MediaStore

VARIABLE part   \* the part that runs

MCConfigs == {<<>>, <<"hid0">>, <<"uac", "hid0", "hid1", "msd">>, <<"hid0", "net">>}

\* One setup of every driver; the lines of the GPIO ones differ, one is active
\* low, and one has no reset button.
MCSetups ==
    {[driver |-> "gpio", power |-> 1, reset |-> 2, low |-> TRUE],
     [driver |-> "gpio", power |-> 3, reset |-> 0, low |-> FALSE],
     [driver |-> "serial", power |-> 1, reset |-> 2, low |-> FALSE],
     [driver |-> "usbrelay", power |-> 2, reset |-> 1, low |-> TRUE],
     [driver |-> "none", power |-> 1, reset |-> 2, low |-> FALSE]}

vars == <<part, lgVars, hidVars, gtVars, nbVars, atxVars, wolVars, wdVars, plVars, msVars>>

\* The parts that do not run have one initial state.
MCInit ==
    /\ part \in {"login", "hid", "gadget", "bridge", "atx", "wol", "watchdog", "process", "media"}
    /\ IF part = "atx" THEN TRUE ELSE atxSetup = CHOOSE s \in MCSetups : TRUE
    /\ IF part = "watchdog" THEN TRUE ELSE wdFixed = FALSE /\ wdStored = FALSE
    /\ IF part = "login" THEN TRUE ELSE lgMulti = FALSE
    /\ LgInit /\ HidInit /\ GtInit /\ NbInit /\ AtxInit /\ WolInit /\ WdInit /\ PlInit /\ MsInit

\* Only the part that was chosen steps.
Alone ==
    /\ UNCHANGED part
    /\ part # "login" => UNCHANGED lgVars
    /\ part # "hid" => UNCHANGED hidVars
    /\ part # "gadget" => UNCHANGED gtVars
    /\ part # "bridge" => UNCHANGED nbVars
    /\ part # "atx" => UNCHANGED atxVars
    /\ part # "wol" => UNCHANGED wolVars
    /\ part # "watchdog" => UNCHANGED wdVars
    /\ part # "process" => UNCHANGED plVars
    /\ part # "media" => UNCHANGED msVars

MCNext ==
    /\ Alone
    /\ \/ part = "login" /\ LgNext
       \/ part = "hid" /\ HidNext
       \/ part = "gadget" /\ GtNext
       \/ part = "bridge" /\ NbNext
       \/ part = "atx" /\ AtxNext
       \/ part = "wol" /\ WolNext
       \/ part = "watchdog" /\ WdNext
       \/ part = "process" /\ PlNext
       \/ part = "media" /\ MsNext

\* What the gadget and its bridge promise, service.rs and bridge.rs together: an
\* attempt after a clean one works, an active gadget is what was asked for, the
\* HID files are the ones of their functions, an uplink taken for the bridge can
\* be given back after any failure or crash, and whatever runs is written down.
UsbPromise ==
    /\ part = "gadget" => NextAttemptWorks /\ ActiveIsBuilt /\ HidPathsRight
    /\ part = "bridge" => UplinkCanComeBack /\ ProfilesAccounted /\ RuntimeIsJournaled

\* What the controlled machine's power relies on: a button is down only while
\* somebody presses it, the controller that answers is the configured one, and
\* the wake-on-LAN history keeps the newest targets.
PowerPromise ==
    /\ part = "atx" => DownIsPressed /\ ConfiguredWorks
    /\ part = "wol" => HistoryKeepsNewest

\* What keeps the board itself alive: an armed watchdog is fed in time and does
\* what was stored, an update never leaves a binary in pieces, a restart means
\* that it was installed, and what others call is taken down after them.
LifePromise ==
    /\ part = "watchdog" => BoardStaysUp /\ ArmedIsFed /\ StoredIsApplied
    /\ part = "process" => BinaryIsWhole /\ ProvidersOutliveUsers /\ RestartingMeansInstalled

MCSpec == MCInit /\ [][MCNext]_vars
=============================================================================
