----------------------------- MODULE AtxPower -----------------------------
(***************************************************************************)
(* The power and reset buttons of the controlled machine (atx/*.rs): the   *)
(* controller, its two key executors and their backends -- GPIO lines, USB *)
(* HID relays and serial relays -- the requests that press them            *)
(* (web/handlers/atx_api.rs, redfish/routes/systems.rs) and changes of the *)
(* configuration (web/handlers/config/atx.rs), which rebuild everything.   *)
(*                                                                         *)
(* A press holds the controller's lock for reading from its first command  *)
(* to its last, so that a reload, which takes it for writing, is one step; *)
(* presses overlap freely.  A client that leaves ends its press wherever   *)
(* it waits.                                                               *)
(***************************************************************************)
EXTENDS Integers, FiniteSets

CONSTANTS
    AtxSetups,   \* configurations: a driver, the pin of each key (0: none),
                 \* and whether the lines are active low
    AtxPresses,  \* requests to press
    MaxReloads, MaxAtxFaults

AtxKeys == {"power", "reset"}

\* A configuration names a driver, two pins and a level.  The wiring of a GPIO
\* line is what it is: configurations that use a line agree on its level.
ASSUME AtxAssumption ==
    /\ AtxSetups \subseteq [driver : {"gpio", "usbrelay", "serial", "none"}, power : Nat, reset : Nat, low : BOOLEAN]
    /\ \A s, t \in AtxSetups, j, k \in AtxKeys :
         s.driver = "gpio" /\ t.driver = "gpio" /\ s[j] = t[k] /\ s[j] # 0 => s.low = t.low
    /\ MaxReloads \in Nat /\ MaxAtxFaults \in Nat

VARIABLES
    atxSetup,    \* AtxInner.config
    atxReady,    \* the keys with an executor that was initialised
    atxLevel,    \* the level of each line or relay of the hardware
    atxPress,    \* the key each request is pressing, "none" before, "over" after
    atxAdrift,   \* lines on which a press was broken off
    atxWhole,    \* nothing failed in the last reload
    atxLeft      \* reloads and faults still to come

atxVars == <<atxSetup, atxReady, atxLevel, atxPress, atxAdrift, atxWhole, atxLeft>>

\* A line or relay is known by its driver and its number.
AtxLines == {<<s.driver, s[k]>> : s \in AtxSetups, k \in AtxKeys}

\* build_key_config: what a key is bound to, if it is.
Line(s, k) == <<s.driver, s[k]>>
Bound(s) == {k \in AtxKeys : s.driver # "none" /\ s[k] # 0}

\* The wiring: GPIO lines may be active low, relays are not.
ActiveLow(line) ==
    \E s \in AtxSetups : s.low /\ s.driver = "gpio" /\ \E k \in AtxKeys : line = Line(s, k)
Rest(line) == IF ActiveLow(line) THEN 1 ELSE 0
Pressed(line) == atxLevel[line] # Rest(line)

\* The value that presses or releases a key of setup s: a GPIO line goes by its
\* active level, a relay is switched on or off whatever that says.
GpioLevel(s, on) == IF s.low = on THEN 0 ELSE 1
UsbRelayLevel(on) == IF on THEN 1 ELSE 0
SerialRelayLevel(on) == IF on THEN 1 ELSE 0
Level(s, on) ==
    CASE s.driver = "gpio" -> GpioLevel(s, on)
      [] s.driver = "usbrelay" -> UsbRelayLevel(on)
      [] OTHER -> SerialRelayLevel(on)

\* should_share_serial_device: two keys on one serial port use one handle.
Shared(s) == s.driver = "serial" /\ Bound(s) = AtxKeys

\* A serial port can be opened once: without sharing, the first key has it.
Openable(s) ==
    IF s.driver = "serial" /\ ~Shared(s) /\ Bound(s) = AtxKeys THEN {"power"} ELSE Bound(s)

\* The keys of ready are driven to rest by their backends.
Initialised(s, ready, level) ==
    [l \in AtxLines |-> IF \E k \in ready : l = Line(s, k) THEN Level(s, FALSE) ELSE level[l]]

AtxInit ==
    /\ atxSetup \in AtxSetups
    /\ atxReady = Openable(atxSetup)
    /\ atxLevel = [l \in AtxLines |-> Rest(l)]
    /\ atxPress = [r \in AtxPresses |-> "none"]
    /\ atxAdrift = {} /\ atxWhole = TRUE
    /\ atxLeft = [reloads |-> MaxReloads, faults |-> MaxAtxFaults]

AtxFault == atxLeft.faults > 0 /\ atxLeft' = [atxLeft EXCEPT !.faults = @ - 1]
Drive(k, on) == atxLevel' = [atxLevel EXCEPT ![Line(atxSetup, k)] = Level(atxSetup, on)]
Adrift(k) == atxAdrift' = atxAdrift \cup {Line(atxSetup, k)}

-----------------------------------------------------------------------------
\* pulse: the key is pressed, and stays so for the time of the press.
Press(r, k) ==
    /\ atxPress[r] = "none" /\ k \in atxReady
    /\ Drive(k, TRUE)
    /\ atxPress' = [atxPress EXCEPT ![r] = k]
    /\ UNCHANGED <<atxSetup, atxReady, atxAdrift, atxWhole, atxLeft>>

\* The command fails, before or after it has reached the relay.
PressFails(r, k) ==
    /\ atxPress[r] = "none" /\ k \in atxReady /\ AtxFault
    /\ \/ UNCHANGED <<atxLevel, atxAdrift>>
       \/ Drive(k, TRUE) /\ Adrift(k)
    /\ atxPress' = [atxPress EXCEPT ![r] = "over"]
    /\ UNCHANGED <<atxSetup, atxReady, atxWhole>>

\* The time is over: the key is released, whoever else is pressing it.
Release(r) ==
    /\ atxPress[r] \in AtxKeys
    /\ LET line == Line(atxSetup, atxPress[r]) IN
       IF atxPress[r] \in atxReady
       THEN Drive(atxPress[r], FALSE) /\ atxAdrift' = atxAdrift \ {line}
       ELSE UNCHANGED <<atxLevel, atxAdrift>>
    /\ atxPress' = [atxPress EXCEPT ![r] = "over"]
    /\ UNCHANGED <<atxSetup, atxReady, atxWhole, atxLeft>>

\* The release fails, or the client has left and it is never tried.
BrokenOff(r) ==
    /\ atxPress[r] \in AtxKeys /\ AtxFault
    /\ Adrift(atxPress[r])
    /\ atxPress' = [atxPress EXCEPT ![r] = "over"]
    /\ UNCHANGED <<atxSetup, atxReady, atxLevel, atxWhole>>

\* Mutant of Quiet: a reload does not wait for presses to end.
Quiet_Always == TRUE

\* The controller's lock: nobody is in the middle of a press.
Quiet == \A r \in AtxPresses : atxPress[r] \notin AtxKeys

\* shutdown_components: relays are released, GPIO lines only let go.
ShutDown(level) ==
    [l \in AtxLines |->
        IF atxSetup.driver # "gpio" /\ \E k \in atxReady : l = Line(atxSetup, k)
        THEN Level(atxSetup, FALSE) ELSE level[l]]

\* reload: everything is shut down, and built anew for the configuration s; a
\* backend that cannot be initialised leaves its key without an executor.
AtxReload(s) ==
    /\ Quiet /\ atxLeft.reloads > 0
    /\ \E failed \in SUBSET Openable(s) :
         /\ failed = {} \/ atxLeft.faults > 0
         /\ atxReady' = Openable(s) \ failed
         /\ atxWhole' = (failed = {})
         /\ atxLeft' = [reloads |-> atxLeft.reloads - 1,
                        faults |-> atxLeft.faults - (IF failed = {} THEN 0 ELSE 1)]
    /\ atxSetup' = s
    /\ atxLevel' = Initialised(s, atxReady', ShutDown(atxLevel))
    /\ atxAdrift' = atxAdrift \ ({Line(s, k) : k \in atxReady'} \cup
                       (IF atxSetup.driver = "gpio" THEN {}
                        ELSE {Line(atxSetup, k) : k \in atxReady}))
    /\ UNCHANGED atxPress

AtxNext ==
    \/ \E r \in AtxPresses :
         \/ \E k \in AtxKeys : Press(r, k) \/ PressFails(r, k)
         \/ Release(r) \/ BrokenOff(r)
    \/ \E s \in AtxSetups : AtxReload(s)

AtxSpec == AtxInit /\ [][AtxNext]_atxVars

-----------------------------------------------------------------------------
\* A button is down only while somebody is pressing it: overlapping presses,
\* changes of driver, pin or level and rebuilt backends never leave one down.
\* A press that was broken off is the exception, until the key is next released
\* (pulse, reload).
DownIsPressed ==
    \A l \in AtxLines : Pressed(l) =>
        \/ l \in atxAdrift
        \/ \E r \in AtxPresses : atxPress[r] \in AtxKeys /\ l = Line(atxSetup, atxPress[r])

\* Unless a device failed, every key that is configured can be pressed, two keys
\* on one serial port too (should_share_serial_device).
ConfiguredWorks == atxWhole => atxReady = Bound(atxSetup)

-----------------------------------------------------------------------------
(***************************************************************************)
(* Wake-on-LAN                                                             *)
(*                                                                         *)
(* The addresses packets were sent to (atx/wol.rs and atx_wol in           *)
(* web/handlers/atx_api.rs).  Each request notes its address with the      *)
(* second, then deletes what is not among the newest; the two statements   *)
(* of several requests interleave, and the second may not be reached.      *)
(***************************************************************************)

CONSTANTS
    WolMacs,     \* addresses
    WolKept,     \* WOL_HISTORY_MAX_ENTRIES
    MaxWolTime   \* seconds that pass

ASSUME WolAssumption == IsFiniteSet(WolMacs) /\ WolKept \in Nat /\ MaxWolTime \in Nat

VARIABLES
    wolNow,      \* the clock
    wolTable,    \* the table: the second each address was last noted, or -1
    wolBusy,     \* requests between their two statements
    wolSent      \* the second a packet was last sent to each address, or -1

wolVars == <<wolNow, wolTable, wolBusy, wolSent>>

WolInit ==
    /\ wolNow = 0 /\ wolBusy = 0
    /\ wolTable = [m \in WolMacs |-> -1] /\ wolSent = wolTable

Noted(t) == {m \in WolMacs : t[m] # -1}

\* atx_wol: the packet is sent and the address noted, once for all spellings
\* (normalize_wol_mac_address).
Wake(m) ==
    /\ wolTable' = [wolTable EXCEPT ![m] = wolNow]
    /\ wolSent' = [wolSent EXCEPT ![m] = wolNow]
    /\ wolBusy < 2 /\ wolBusy' = wolBusy + 1
    /\ UNCHANGED wolNow

\* Mutant of NewestWol: the oldest are kept.
NewestWol_Oldest(keep) ==
    \A m \in keep, n \in Noted(wolTable) \ keep : wolTable[m] <= wolTable[n]

\* ORDER BY updated_at DESC LIMIT: any choice between addresses of one second.
NewestWol(keep) ==
    \A m \in keep, n \in Noted(wolTable) \ keep : wolTable[m] >= wolTable[n]

\* The second statement.
Prune ==
    /\ wolBusy > 0 /\ wolBusy' = wolBusy - 1
    /\ \E keep \in SUBSET Noted(wolTable) :
         /\ Cardinality(keep) = IF Cardinality(Noted(wolTable)) < WolKept
                                THEN Cardinality(Noted(wolTable)) ELSE WolKept
         /\ NewestWol(keep)
         /\ wolTable' = [m \in WolMacs |-> IF m \in keep THEN wolTable[m] ELSE -1]
    /\ UNCHANGED <<wolNow, wolSent>>

\* The second statement fails, or the client has left.
PruneFails ==
    /\ wolBusy > 0 /\ wolBusy' = wolBusy - 1
    /\ UNCHANGED <<wolNow, wolTable, wolSent>>

WolTick ==
    /\ wolNow < MaxWolTime /\ wolNow' = wolNow + 1
    /\ UNCHANGED <<wolTable, wolBusy, wolSent>>

WolNext == (\E m \in WolMacs : Wake(m)) \/ Prune \/ PruneFails \/ WolTick

WolSpec == WolInit /\ [][WolNext]_wolVars

-----------------------------------------------------------------------------
\* An address that was used is missing only when as many others as the history
\* holds were used in the same second or later, whatever requests interleaved
\* or broke off (record_wol_history).
HistoryKeepsNewest ==
    \A m \in WolMacs : wolSent[m] # -1 /\ wolTable[m] = -1 =>
        Cardinality({n \in Noted(wolSent) : n # m /\ wolSent[n] >= wolSent[m]}) >= WolKept
=============================================================================
