---- MODULE GadgetTree ----
(***************************************************************************)
(* The USB gadget in configfs (src/otg/manager.rs, the functions of        *)
(* src/otg/hid.rs, msd.rs, network.rs and uac.rs, and reconcile_gadget of  *)
(* src/otg/service.rs): directories and links that must be made in one     *)
(* order and removed in another, where every single step may fail and the  *)
(* process may die between two of them.                                    *)
(*                                                                         *)
(* A node is a pair of a kind and a name.  What the kernel refuses is      *)
(* external: a directory that holds something, or that a link points to,   *)
(* cannot be removed; unlinking a function of a bound gadget unbinds it;   *)
(* a HID function gets the lowest free minor when it is made.              *)
(***************************************************************************)
EXTENDS Naturals, Sequences, SequencesExt, FiniteSets

CONSTANTS
    GtConfigs,    \* functions in their order: sequences over GtFunctions
    MaxGtApplies, \* bound: configurations applied
    MaxGtFaults   \* bound: steps that fail, and crashes

\* No function twice; the HID functions are numbered as they come.
ASSUME GtAssumption ==
    /\ \A c \in GtConfigs : c \in Seq({"uac", "hid0", "hid1", "msd", "net"})
    /\ \A c \in GtConfigs : \A i, j \in DOMAIN c : c[i] = c[j] => i = j
    /\ \A c \in GtConfigs : \A i \in DOMAIN c : c[i] = "hid1" => \E j \in DOMAIN c : j < i /\ c[j] = "hid0"
    /\ MaxGtApplies \in Nat /\ MaxGtFaults \in Nat

VARIABLES
    gtTree,   \* external: the nodes that exist
    gtBound,  \* external: UDC holds a name
    gtMinor,  \* external: minor of a HID function
    gtMgr,    \* OtgService.manager: its functions, "none" for None
    gtActive, \* gadget_active, of this process
    gtJob,    \* reconcile_gadget: [pc, want, todo, errs, ours], todo: nodes to make or remove
    gtCount,  \* [applies, faults]
    gtClean,  \* history: this attempt met no fault and nothing that is not its own
    gtOdd     \* history: the gadget was adopted bound, lost a link, or is half removed (Degraded)

gtVars == <<gtTree, gtBound, gtMinor, gtMgr, gtActive, gtJob, gtCount, gtClean, gtOdd>>
gtKernel == <<gtTree, gtBound, gtMinor>>

HidNames == {"hid0", "hid1"}
GDir == <<"dir", "gadget">>
GStrings == <<"dir", "strings">>
CDir == <<"dir", "config">>
CStrings == <<"dir", "config_strings">>
FDir(f) == <<"function", f>>
Link(f) == <<"link", f>>
Lun == <<"lun", "msd">>      \* lun.1 and up; lun.0 comes and goes with the function
OsLink == <<"os_desc", "net">>

GtDone == [pc |-> "idle", want |-> <<>>, todo |-> {}, errs |-> FALSE, ours |-> FALSE]

GtInit ==
    /\ gtTree = {} /\ gtBound = FALSE /\ gtMinor = [h \in HidNames |-> 0]
    /\ gtMgr = <<"none">> /\ gtActive = FALSE /\ gtJob = GtDone
    /\ gtCount = [applies |-> 0, faults |-> 0] /\ gtClean = TRUE /\ gtOdd = FALSE

GtFault == gtCount.faults < MaxGtFaults /\ gtCount' = [gtCount EXCEPT !.faults = @ + 1]

-----------------------------------------------------------------------------
\* configfs

\* What has to be gone before a node can be removed.
Holders(n) ==
    CASE n = GDir -> gtTree \ {GDir}
      [] n = CDir -> gtTree \cap ({CStrings, OsLink} \cup {m \in gtTree : m[1] = "link"})
      [] n[1] = "function" -> gtTree \cap ({Link(n[2])} \cup (IF n[2] = "msd" THEN {Lun} ELSE {}))
      [] OTHER -> {}

FreeMinor ==
    LET used == {gtMinor[h] : h \in {x \in HidNames : FDir(x) \in gtTree}} IN
    CHOOSE m \in 0..Cardinality(HidNames) : m \notin used /\ \A k \in 0..(m - 1) : k \in used

\* create_dir, create_symlink; what is there is kept.
MakeNode(n) ==
    /\ gtTree' = gtTree \cup {n}
    /\ gtMinor' = IF n[1] = "function" /\ n[2] \in HidNames /\ n \notin gtTree
                  THEN [gtMinor EXCEPT ![n[2]] = FreeMinor] ELSE gtMinor
    /\ UNCHANGED gtBound

\* remove_dir, remove_file; what is not there is no error.
RemoveNode(n) ==
    /\ gtTree' = gtTree \ {n}
    /\ gtBound' = (gtBound /\ ~(n[1] = "link" /\ n \in gtTree))
    /\ UNCHANGED gtMinor

-----------------------------------------------------------------------------
\* OtgGadgetManager

\* create and link of each kind of function.
HidNodes(f) == {FDir(f), Link(f)}
UacNodes == {FDir("uac"), Link("uac")}
MsdNodes == {FDir("msd"), Lun, Link("msd")}
NetNodes == {FDir("net"), Link("net"), OsLink}
NodesOf(f) ==
    CASE f \in HidNames -> HidNodes(f)
      [] f = "uac" -> UacNodes
      [] f = "msd" -> MsdNodes
      [] f = "net" -> NetNodes

\* The place of a function in the configuration.
At(fs, f) == CHOOSE i \in DOMAIN fs : fs[i] = f

\* What setup makes ...
SetupNodes(fs) == {GDir, GStrings, CDir, CStrings} \cup UNION {NodesOf(f) : f \in ToSet(fs)}

\* ... and in which order: the directories, then every function in the order of
\* the configuration.
Stage(n) ==
    CASE n = GDir -> 0 [] n = GStrings -> 1 [] n = CDir -> 2 [] n = CStrings -> 3
      [] n[1] = "function" -> 4 [] n[1] = "lun" -> 5 [] n[1] = "link" -> 6 [] n[1] = "os_desc" -> 7
MadeBefore(fs, m, n) ==
    IF m[1] = "dir" \/ n[1] = "dir" \/ m[2] = n[2] THEN Stage(m) < Stage(n)
    ELSE At(fs, m[2]) < At(fs, n[2])

\* cleanup, after unbind: unlink and cleanup of every function of this manager,
\* the last one first.
CleanupNodes(fs) == SetupNodes(fs)
\* Mutant of Round: a configuration is removed before its strings.
Round_ConfigFirst(n) ==
    CASE n[1] \in {"link", "os_desc"} -> 1 [] n = CDir -> 2 [] n = CStrings -> 3
      [] n[1] \in {"function", "lun"} -> 4 [] n = GStrings -> 5 [] n = GDir -> 6
Round(n) ==
    CASE n[1] \in {"link", "os_desc"} -> 1 [] n = CStrings -> 2 [] n = CDir -> 3
      [] n[1] \in {"function", "lun"} -> 4 [] n = GStrings -> 5 [] n = GDir -> 6
RemovedBefore(fs, m, n) ==
    \/ Round(m) < Round(n)
    \/ Round(m) = Round(n) /\ m[2] = n[2] /\ m[1] \in {"os_desc", "lun"}
    \/ Round(m) = Round(n) /\ m[2] # n[2] /\ At(fs, m[2]) > At(fs, n[2])

\* The manager whose gadget is taken down.
Manager == IF gtMgr = <<"none">> THEN gtJob.want ELSE gtMgr

GtGoes(pc, todo) == gtJob' = [gtJob EXCEPT !.pc = pc, !.todo = todo, !.errs = FALSE]

\* reconcile_gadget: the gadget of before is taken down by its own manager,
\* unless nothing is to change.  (The same functions may come with another
\* descriptor.)
Reconcile(fs) ==
    LET own == IF gtMgr = <<"none">> THEN fs ELSE gtMgr IN
    /\ gtJob.pc = "idle" /\ gtCount.applies < MaxGtApplies
    /\ gtCount' = [gtCount EXCEPT !.applies = @ + 1]
    /\ gtJob' = [GtDone EXCEPT !.want = fs, !.pc = IF gtMgr = <<"none">> THEN "begin" ELSE "unbind",
                               !.todo = IF gtMgr = <<"none">> THEN {} ELSE CleanupNodes(gtMgr)]
    /\ gtClean' = \A n \in gtTree : n[1] # "dir" => n[2] \in ToSet(own)
    /\ UNCHANGED <<gtKernel, gtMgr, gtActive, gtOdd>>

\* unbind, as cleanup begins; a failure is noted and cleanup goes on.
Unbind ==
    /\ gtJob.pc \in {"unbind", "rollback"}
    /\ \/ gtBound' = FALSE /\ UNCHANGED <<gtCount, gtClean>>
          /\ gtJob' = [gtJob EXCEPT !.pc = IF @ = "unbind" THEN "cleanup" ELSE "undo"]
       \/ gtBound /\ GtFault /\ gtClean' = FALSE /\ UNCHANGED gtBound
          /\ gtJob' = [gtJob EXCEPT !.pc = IF @ = "unbind" THEN "cleanup" ELSE "undo", !.errs = TRUE]
    /\ UNCHANGED <<gtTree, gtMinor, gtMgr, gtActive, gtOdd>>

\* One step of cleanup.
CleanupStep ==
    /\ gtJob.pc \in {"cleanup", "undo"}
    /\ \E n \in gtJob.todo :
         /\ \A m \in gtJob.todo \ {n} : RemovedBefore(Manager, n, m)
         /\ \/ /\ Holders(n) = {} \/ n \notin gtTree
               /\ RemoveNode(n) /\ gtJob' = [gtJob EXCEPT !.todo = @ \ {n}] /\ UNCHANGED <<gtCount, gtClean>>
            \/ /\ n \in gtTree /\ Holders(n) # {}
               /\ gtJob' = [gtJob EXCEPT !.todo = @ \ {n}, !.errs = TRUE] /\ UNCHANGED <<gtKernel, gtCount, gtClean>>
            \/ /\ n \in gtTree /\ GtFault /\ gtClean' = FALSE
               /\ gtJob' = [gtJob EXCEPT !.todo = @ \ {n}, !.errs = TRUE] /\ UNCHANGED gtKernel
    /\ UNCHANGED <<gtMgr, gtActive, gtOdd>>

\* The old gadget is gone, or cleanup fails: then its manager is kept.  A gadget
\* that was found unbound and cannot be removed is cleaned up once more.
CleanupEnds ==
    /\ gtJob.pc = "cleanup" /\ gtJob.todo = {}
    /\ IF ~gtJob.errs
       THEN GtGoes("begin", {}) /\ gtMgr' = <<"none">> /\ gtActive' = FALSE
       ELSE UNCHANGED <<gtMgr, gtActive>> /\ IF gtMgr = <<"none">> THEN GtGoes("rollback", CleanupNodes(gtJob.want))
                                             ELSE gtJob' = [GtDone EXCEPT !.pc = "failed"]
    /\ gtOdd' = (gtOdd \/ gtJob.errs)
    /\ UNCHANGED <<gtKernel, gtCount, gtClean>>

\* Nothing is wanted, or setup begins: a gadget that is there and bound is
\* taken as it is, one that is not bound is removed first.
SetupBegins ==
    /\ gtJob.pc = "begin"
    /\ CASE gtJob.want = <<>> -> gtJob' = [GtDone EXCEPT !.pc = "ok"] /\ UNCHANGED gtOdd
         [] gtJob.want # <<>> /\ GDir \in gtTree /\ gtBound -> GtGoes("bind", {}) /\ gtOdd' = TRUE
         [] gtJob.want # <<>> /\ GDir \in gtTree /\ ~gtBound -> GtGoes("unbind", CleanupNodes(gtJob.want)) /\ UNCHANGED gtOdd
         [] OTHER -> gtJob' = [gtJob EXCEPT !.pc = "setup", !.todo = SetupNodes(gtJob.want), !.ours = TRUE] /\ gtOdd' = FALSE
    /\ UNCHANGED <<gtKernel, gtMgr, gtActive, gtCount, gtClean>>

\* One step of setup; after a failure what was made is removed.
SetupStep ==
    /\ gtJob.pc = "setup"
    /\ \E n \in gtJob.todo :
         /\ \A m \in gtJob.todo \ {n} : MadeBefore(gtJob.want, n, m)
         /\ \/ MakeNode(n) /\ gtJob' = [gtJob EXCEPT !.todo = @ \ {n}] /\ UNCHANGED <<gtCount, gtClean>>
            \/ GtFault /\ gtClean' = FALSE /\ GtGoes("rollback", CleanupNodes(gtJob.want)) /\ UNCHANGED gtKernel
    /\ UNCHANGED <<gtMgr, gtActive, gtOdd>>

SetupEnds ==
    /\ gtJob.pc = "setup" /\ gtJob.todo = {} /\ GtGoes("bind", {})
    /\ UNCHANGED <<gtKernel, gtMgr, gtActive, gtCount, gtClean, gtOdd>>

\* bind: every function that is there is linked anew, which unbinds a bound
\* gadget; a link that cannot be made is logged.  Then UDC is written and
\* the network function is bridged; either may fail.
Bind ==
    LET made == {n[2] : n \in {m \in gtTree : m[1] = "function"}}
        linked == gtTree \cup {Link(f) : f \in made}
    IN /\ gtJob.pc = "bind"
       /\ \/ /\ gtTree' = linked /\ gtBound' = TRUE
             /\ gtMgr' = gtJob.want /\ gtActive' = TRUE /\ gtJob' = [GtDone EXCEPT !.pc = "ok"]
             /\ UNCHANGED <<gtCount, gtClean, gtOdd>>
          \/ /\ GtFault /\ gtClean' = FALSE
             /\ \E f \in made : gtTree' = linked \ {Link(f)}
             /\ gtBound' = TRUE /\ gtOdd' = TRUE
             /\ gtMgr' = gtJob.want /\ gtActive' = TRUE /\ gtJob' = [GtDone EXCEPT !.pc = "ok"]
          \/ /\ GtFault /\ gtClean' = FALSE
             /\ gtTree' = linked /\ gtBound' \in {FALSE, "net" \in ToSet(gtJob.want)}
             /\ GtGoes("rollback", CleanupNodes(gtJob.want)) /\ UNCHANGED <<gtMgr, gtActive, gtOdd>>
       /\ UNCHANGED gtMinor

\* cleanup_manager_or_combine; when it fails, drop cleans up once more what
\* this manager has made.
RollbackEnds ==
    /\ gtJob.pc = "undo" /\ gtJob.todo = {}
    /\ gtJob' = IF gtJob.errs /\ gtJob.ours
                THEN [gtJob EXCEPT !.pc = "rollback", !.todo = CleanupNodes(gtJob.want), !.errs = FALSE, !.ours = FALSE]
                ELSE [GtDone EXCEPT !.pc = "failed"]
    /\ UNCHANGED <<gtKernel, gtMgr, gtActive, gtCount, gtClean, gtOdd>>

AttemptEnds ==
    /\ gtJob.pc \in {"ok", "failed"} /\ gtJob' = GtDone
    /\ UNCHANGED <<gtKernel, gtMgr, gtActive, gtCount, gtClean, gtOdd>>

\* The process dies and is started again: configfs stays.
GtCrash ==
    /\ GtFault /\ gtMgr' = <<"none">> /\ gtActive' = FALSE /\ gtJob' = GtDone
    /\ UNCHANGED <<gtKernel, gtClean, gtOdd>>

GtNext ==
    \/ \E fs \in GtConfigs : Reconcile(fs)
    \/ Unbind \/ CleanupStep \/ CleanupEnds \/ SetupBegins \/ SetupStep \/ SetupEnds \/ Bind
    \/ RollbackEnds \/ AttemptEnds \/ GtCrash

GtSpec == GtInit /\ [][GtNext]_gtVars

-----------------------------------------------------------------------------

\* Whatever a crash or failed steps have left behind, a later attempt that
\* meets no failure itself succeeds, as long as what it finds belongs to
\* functions it knows.
NextAttemptWorks == gtClean => gtJob.pc \notin {"failed", "rollback", "undo"}

\* While the service shows the gadget as active it is bound and has exactly
\* the functions that were asked for, all of them linked; unless it was taken
\* over bound from a process that died, a link was lost in bind, or a cleanup
\* that failed has left it half removed, which its health shows.
ActiveIsBuilt ==
    gtActive /\ gtJob.pc \in {"idle", "ok"} /\ ~gtOdd =>
       /\ gtBound
       /\ {n[2] : n \in {m \in gtTree : m[1] = "function"}} = ToSet(gtMgr)
       /\ {n[2] : n \in {m \in gtTree : m[1] = "link"}} = ToSet(gtMgr)

\* The device files that are handed to the HID backend are those of its
\* functions: the n-th one has the n-th minor.
HidPathsRight ==
    gtActive /\ gtJob.pc = "idle" /\ ~gtOdd =>
       \A f \in ToSet(gtMgr) \cap HidNames : gtMinor[f] = (IF f = "hid0" THEN 0 ELSE 1)

====
