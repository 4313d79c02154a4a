---- MODULE HostWatchdog ----
(***************************************************************************)
(* The hardware watchdog (src/watchdog/mod.rs), its handler                *)
(* (src/web/handlers/config/watchdog.rs) and its place in main.rs: a       *)
(* device that resets the board unless it is fed, a worker that feeds it,  *)
(* and a disable that may be refused.  Handlers run one at a time          *)
(* (try_apply_lock); the future of one is dropped when its client leaves,  *)
(* also in the middle of disable.                                          *)
(*                                                                         *)
(* Time is counted in seconds; the worker is scheduled within a second of  *)
(* its timer.                                                              *)
(***************************************************************************)
EXTENDS Naturals

CONSTANTS
    WdTimeout,   \* what WDIOC_GETTIMEOUT reports
    MaxWdFails,  \* bound: keepalives in a row that fail
    MaxWdReqs    \* bound: requests

VARIABLES
    wdDev,    \* external: [armed, left], seconds until it resets the board
    wdFixed,  \* external: nowayout, it cannot be disabled
    wdWorker, \* [on, timer, asked, fails]; asked says whose command it holds:
              \* the handler's ("mine"), one nobody waits for ("lost"), "both"
    wdEntry,  \* WatchdogController.running is Some
    wdShown,  \* SharedState.running
    wdStored, \* config.watchdog.enabled
    wdReq,    \* the handler, or main: [pc, old]
    wdReqs,
    wdOdd     \* history: what was cut short or could not be rolled back

wdVars == <<wdDev, wdFixed, wdWorker, wdEntry, wdShown, wdStored, wdReq, wdReqs, wdOdd>>

\* enable: three keepalives in every time-out.
WdPeriod == IF WdTimeout \div 3 = 0 THEN 1 ELSE WdTimeout \div 3

\* As many keepalives fail in a row as the time-out has room for.  (A device of
\* one second has room for none: its period is its time-out.)
ASSUME WdAssumption ==
    /\ WdTimeout \in Nat \ {0} /\ MaxWdFails \in Nat /\ MaxWdReqs \in Nat
    /\ (MaxWdFails + 1) * WdPeriod < WdTimeout

NoWorker == [on |-> FALSE, timer |-> 0, asked |-> "no", fails |-> 0]
WdIdle == [pc |-> "idle", old |-> FALSE]

WdInit ==
    /\ wdDev = [armed |-> FALSE, left |-> WdTimeout] /\ wdFixed \in BOOLEAN
    /\ wdWorker = NoWorker /\ wdEntry = FALSE /\ wdShown = FALSE
    /\ wdStored \in BOOLEAN /\ wdReq = [pc |-> "boot", old |-> FALSE]
    /\ wdReqs = 0 /\ wdOdd = {}

-----------------------------------------------------------------------------
\* WatchdogController::enable

\* Opening the device arms it; the first keepalive may fail.
Armed(ok) ==
    /\ wdDev' = [armed |-> TRUE, left |-> IF wdDev.armed /\ ~ok THEN wdDev.left ELSE WdTimeout]
    /\ wdWorker' = [on |-> TRUE, timer |-> WdPeriod, asked |-> "no", fails |-> IF ok THEN 0 ELSE 1]
    /\ wdEntry' = TRUE /\ wdShown' = ok

EnableOk ==
    \/ wdEntry /\ UNCHANGED <<wdDev, wdWorker, wdEntry, wdShown>>
    \/ ~wdEntry /\ (\E ok \in BOOLEAN : (ok \/ MaxWdFails > 0) /\ Armed(ok))

\* No device is found, or none can be opened.
EnableFails == ~wdEntry /\ wdShown' = FALSE /\ UNCHANGED <<wdDev, wdWorker, wdEntry>>

\* main: a watchdog that does not start is logged.
BootEnable ==
    /\ wdReq.pc = "boot"
    /\ wdReq' = WdIdle
    /\ \/ ~wdStored /\ UNCHANGED <<wdDev, wdWorker, wdEntry, wdShown, wdOdd>>
       \/ wdStored /\ EnableOk /\ UNCHANGED wdOdd
       \/ wdStored /\ EnableFails /\ wdOdd' = wdOdd \cup {"boot"}
    /\ UNCHANGED <<wdFixed, wdStored, wdReqs>>

-----------------------------------------------------------------------------
\* update_watchdog_config

RequestEnable ==
    /\ wdReq.pc = "idle" /\ wdReqs < MaxWdReqs /\ wdReqs' = wdReqs + 1
    /\ \/ EnableOk /\ wdReq' = [pc |-> "store_on", old |-> wdStored]
       \/ EnableFails /\ UNCHANGED wdReq
    /\ UNCHANGED <<wdFixed, wdStored, wdOdd>>

\* Mutant of StoreEnabled: the watchdog is left running.
StoreEnabled_NoRollback ==
    /\ wdReq.pc = "store_on"
    /\ \/ wdStored' = TRUE /\ wdReq' = WdIdle
       \/ wdReq' = WdIdle /\ UNCHANGED wdStored
    /\ UNCHANGED <<wdDev, wdFixed, wdWorker, wdEntry, wdShown, wdReqs, wdOdd>>

\* The configuration is stored; when that fails a watchdog that was off goes
\* off again.
StoreEnabled ==
    /\ wdReq.pc = "store_on"
    /\ \/ wdStored' = TRUE /\ wdReq' = WdIdle
       \/ /\ wdReq' = IF wdReq.old THEN WdIdle ELSE [wdReq EXCEPT !.pc = "undo"]
          /\ UNCHANGED wdStored
    /\ UNCHANGED <<wdDev, wdFixed, wdWorker, wdEntry, wdShown, wdReqs, wdOdd>>

\* disable, from a request, from the roll back and from cleanup: without an
\* entry there is nothing to do but to clear the state.
BeginDisable(from, to, after) ==
    /\ wdReq.pc = from
    /\ IF wdEntry
       THEN /\ wdReq' = [pc |-> to, old |-> wdStored]
            /\ wdWorker' = [wdWorker EXCEPT !.asked = IF ~wdWorker.on THEN "no" ELSE IF @ = "no" THEN "mine" ELSE "both"]
            /\ UNCHANGED wdShown
       ELSE wdShown' = FALSE /\ wdReq' = [pc |-> after, old |-> wdStored] /\ UNCHANGED wdWorker
    /\ UNCHANGED <<wdDev, wdFixed, wdEntry, wdStored, wdOdd>>

RequestDisable ==
    /\ wdReqs < MaxWdReqs /\ wdReqs' = wdReqs + 1
    /\ BeginDisable("idle", "wait", "store_off")

UndoEnable == BeginDisable("undo", "undo_wait", "idle") /\ UNCHANGED wdReqs
CleanupDisable == BeginDisable("idle", "exit_wait", "gone") /\ UNCHANGED wdReqs

\* The answer: the worker has ended and the entry is taken.
Disabled ==
    /\ wdReq.pc \in {"wait", "undo_wait", "exit_wait"} /\ ~wdWorker.on /\ wdEntry
    /\ wdWorker.asked = "mine"
    /\ wdEntry' = FALSE /\ wdWorker' = NoWorker
    /\ wdReq' = [wdReq EXCEPT !.pc = [wait |-> "store_off", undo_wait |-> "idle", exit_wait |-> "gone"][wdReq.pc]]
    /\ UNCHANGED <<wdDev, wdFixed, wdShown, wdStored, wdReqs, wdOdd>>

\* The answer is an error: the device refused, or the worker is gone and the
\* channel closed.
DisableRefused ==
    /\ wdReq.pc \in {"wait", "undo_wait", "exit_wait"} /\ wdWorker.asked = "no"
    /\ wdReq' = [wdReq EXCEPT !.pc = IF wdReq.pc = "exit_wait" THEN "gone" ELSE "idle"]
    /\ wdOdd' = IF wdReq.pc = "undo_wait" THEN wdOdd \cup {"rollback"} ELSE wdOdd
    /\ UNCHANGED <<wdDev, wdFixed, wdWorker, wdEntry, wdShown, wdStored, wdReqs>>

\* The configuration is stored; when that fails a watchdog that was on is
\* started again.
StoreDisabled ==
    /\ wdReq.pc = "store_off"
    /\ wdReq' = WdIdle
    /\ \/ wdStored' = FALSE /\ UNCHANGED <<wdDev, wdWorker, wdEntry, wdShown, wdOdd>>
       \/ /\ UNCHANGED wdStored
          /\ \/ ~wdReq.old /\ UNCHANGED <<wdDev, wdWorker, wdEntry, wdShown, wdOdd>>
             \/ wdReq.old /\ EnableOk /\ UNCHANGED wdOdd
             \/ wdReq.old /\ EnableFails /\ wdOdd' = wdOdd \cup {"rollback"}
    /\ UNCHANGED <<wdFixed, wdReqs>>

\* The client leaves while the handler waits.
HandlerCut ==
    /\ wdReq.pc \in {"wait", "undo_wait", "store_on", "undo", "store_off"}
    /\ wdReq' = WdIdle
    /\ wdOdd' = wdOdd \cup {"cut"}
    /\ wdWorker' = [wdWorker EXCEPT !.asked = IF wdWorker.on /\ @ # "no" THEN "lost" ELSE "no"]
    /\ UNCHANGED <<wdDev, wdFixed, wdEntry, wdShown, wdStored, wdReqs>>

-----------------------------------------------------------------------------
\* run_worker

KeepAlive ==
    /\ wdWorker.on /\ wdWorker.timer = 0
    /\ \/ /\ wdDev' = [wdDev EXCEPT !.left = WdTimeout] /\ wdShown' = TRUE
          /\ wdWorker' = [wdWorker EXCEPT !.timer = WdPeriod, !.fails = 0]
       \/ /\ wdWorker.fails < MaxWdFails
          /\ wdWorker' = [wdWorker EXCEPT !.timer = WdPeriod, !.fails = @ + 1]
          /\ wdShown' = FALSE /\ UNCHANGED wdDev
    /\ UNCHANGED <<wdFixed, wdEntry, wdStored, wdReq, wdReqs, wdOdd>>

\* Device::disable: refused by nowayout, or the driver offers no way that is
\* known to be safe; then the worker goes on.  When it ends, a command behind
\* the first is not answered.
WorkerAsked ==
    /\ wdWorker.on /\ wdWorker.asked # "no"
    /\ \/ /\ ~wdFixed
          /\ wdDev' = [armed |-> FALSE, left |-> WdTimeout] /\ wdShown' = FALSE
          /\ wdWorker' = [NoWorker EXCEPT !.asked = IF wdWorker.asked = "mine" THEN "mine" ELSE "no"]
       \/ /\ wdShown' = TRUE /\ wdWorker' = [wdWorker EXCEPT !.asked = IF @ = "both" THEN "mine" ELSE "no"]
          /\ UNCHANGED wdDev
    /\ UNCHANGED <<wdFixed, wdEntry, wdStored, wdReq, wdReqs, wdOdd>>

\* A second passes; a worker whose timer is due has run.
WdSecond ==
    /\ wdDev.armed /\ wdDev.left > 0 /\ wdReq.pc # "gone"
    /\ wdWorker.on => wdWorker.timer > 0
    /\ wdDev' = [wdDev EXCEPT !.left = @ - 1]
    /\ wdWorker' = [wdWorker EXCEPT !.timer = IF @ > 0 THEN @ - 1 ELSE 0]
    /\ UNCHANGED <<wdFixed, wdEntry, wdShown, wdStored, wdReq, wdReqs, wdOdd>>

WdNext ==
    \/ BootEnable \/ RequestEnable \/ StoreEnabled \/ RequestDisable \/ UndoEnable
    \/ CleanupDisable \/ Disabled \/ DisableRefused \/ StoreDisabled \/ HandlerCut
    \/ KeepAlive \/ WorkerAsked \/ WdSecond

WdSpec == WdInit /\ [][WdNext]_wdVars

-----------------------------------------------------------------------------

\* While the program runs, the board is not reset: an armed device is fed in
\* time, through a refused disable, a roll back and a keepalive that failed.
BoardStaysUp == wdReq.pc # "gone" => wdDev.left > 0

\* A device that is armed has its worker, and what the page shows as running
\* is armed.
ArmedIsFed == wdReq.pc # "gone" => (wdDev.armed => wdWorker.on) /\ (wdShown => wdDev.armed)

\* Between requests the device is in the state that is stored, unless a client
\* left in the middle, a roll back failed, or it did not start at boot.
StoredIsApplied ==
    wdReq.pc = "idle" /\ wdOdd = {} => (wdStored <=> wdDev.armed)

\* What the handler says when disabling fails: "Hardware watchdog cannot be
\* safely disabled; keepalive continues" (src/web/handlers/config/
\* watchdog.rs).  After a client left in the middle of a disable the worker has
\* ended and the entry is still there: every later disable fails, and nothing
\* is kept alive.
RefusalMeansFed == wdReq.pc = "wait" /\ wdWorker.asked = "no" => wdWorker.on

====
