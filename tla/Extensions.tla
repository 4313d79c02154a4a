---- MODULE Extensions ----
(***************************************************************************)
(* The extension processes (src/extensions/, src/web/handlers/             *)
(* extensions.rs): web handlers and the health check of main.rs start and  *)
(* stop them.  The lock on the table is not held from the stop of the old  *)
(* process to the insertion of the new one, and a handler is dropped at    *)
(* its next await when its client disconnects.                             *)
(*                                                                         *)
(* A process is a number; with it goes the temporary directory of its      *)
(* configuration, which may hold tokens.  Dropping an ExtensionProcess     *)
(* kills the child (kill_on_drop) and removes the directory.               *)
(***************************************************************************)
EXTENDS Naturals, FiniteSets

CONSTANTS
    ExIds,     \* extensions whose binary is there
    ExWeb,     \* requests served at a time
    ExHealth   \* the health check task

ASSUME ExAssumption == ExHealth \notin ExWeb /\ IsFiniteSet(ExIds) /\ IsFiniteSet(ExWeb)

VARIABLES
    exCfg,   \* per extension: [on, valid], the stored configuration
    exTab,   \* processes: the process of an extension, 0 for none
    exLive,  \* external: processes that run
    exFiles, \* temporary directories that are there, by process
    exTask   \* per task: [pc, id, cfg, was, proc]

exVars == <<exCfg, exTab, exLive, exFiles, exTask>>

ExTasks == ExWeb \cup {ExHealth}
ExProcs == 1..(Cardinality(ExIds) + Cardinality(ExTasks))
ExConfigs == [on : BOOLEAN, valid : BOOLEAN]
ExRest == [pc |-> "idle", id |-> CHOOSE i \in ExIds : TRUE, cfg |-> [on |-> FALSE, valid |-> TRUE],
           was |-> FALSE, proc |-> 0]

\* validate_extension_config: only an enabled extension must be valid.
ExSound(c) == c.on => c.valid

ExInit ==
    /\ exCfg \in [ExIds -> {c \in ExConfigs : ExSound(c)}]
    /\ exTab = [i \in ExIds |-> 0] /\ exLive = {} /\ exFiles = {}
    /\ exTask = [t \in ExTasks |-> ExRest]

\* Who holds an ExtensionProcess: the table, and a start that has spawned.
ExHeld == {exTab[i] : i \in ExIds} \cup {exTask[t].proc : t \in ExTasks}

ExGoes(t, task) == exTask' = [exTask EXCEPT ![t] = task]

-----------------------------------------------------------------------------
\* Requests

\* start_extension: the configuration is read and validated once.
StartExtension(w, i) ==
    /\ exTask[w].pc = "idle" /\ exCfg[i].valid
    /\ ExGoes(w, [ExRest EXCEPT !.pc = "restop", !.id = i])
    /\ UNCHANGED <<exCfg, exTab, exLive, exFiles>>

\* stop_extension.
StopExtension(w, i) ==
    /\ exTask[w].pc = "idle"
    /\ ExGoes(w, [ExRest EXCEPT !.pc = "stop", !.id = i])
    /\ UNCHANGED <<exCfg, exTab, exLive, exFiles>>

\* update_ttyd_config and the other three: what was enabled is read first; an
\* enabled extension must be valid.
UpdateConfig(w, i, c) ==
    /\ exTask[w].pc = "idle" /\ ExSound(c)
    /\ ExGoes(w, [ExRest EXCEPT !.pc = "store", !.id = i, !.cfg = c, !.was = exCfg[i].on])
    /\ UNCHANGED <<exCfg, exTab, exLive, exFiles>>

\* config.update, and the configuration read back.
UpdateStored(w) ==
    LET t == exTask[w]
        pc == CASE t.was /\ ~t.cfg.on -> "stop" [] ~t.was /\ t.cfg.on -> "restop" [] OTHER -> "idle"
    IN /\ t.pc = "store"
       /\ exCfg' = [exCfg EXCEPT ![t.id] = t.cfg]
       /\ ExGoes(w, IF pc = "idle" THEN ExRest ELSE [ExRest EXCEPT !.pc = pc, !.id = t.id])
       /\ UNCHANGED <<exTab, exLive, exFiles>>

\* status: a process that has exited is
\* taken out of the table.
Status(i) ==
    /\ exTab[i] # 0 /\ exTab[i] \notin exLive
    /\ exTab' = [exTab EXCEPT ![i] = 0] /\ exFiles' = exFiles \ {exTab[i]}
    /\ UNCHANGED <<exCfg, exLive, exTask>>

\* list_extensions and get_extension ask for it.
GetExtension == \E i \in ExIds : Status(i)

\* health_check: an enabled extension without a process is started.  One that
\* exited and was not yet seen by status still has its pid and is left alone.
\* start_enabled, at boot, starts them the same way.
HealthCheck(i) ==
    /\ exTask[ExHealth].pc = "idle" /\ exCfg[i].on /\ exCfg[i].valid
    /\ exTab[i] = 0
    /\ ExGoes(ExHealth, [ExRest EXCEPT !.pc = "restop", !.id = i])
    /\ UNCHANGED <<exCfg, exTab, exLive, exFiles>>

-----------------------------------------------------------------------------
\* ExtensionManager

\* stop, under the write lock until the child is gone; the first part of start.
StopChild(t) ==
    LET p == exTab[exTask[t].id] IN
    /\ exTask[t].pc \in {"stop", "restop"}
    /\ exTab' = [exTab EXCEPT ![exTask[t].id] = 0]
    /\ exLive' = exLive \ {p} /\ exFiles' = exFiles \ {p}
    /\ ExGoes(t, IF exTask[t].pc = "stop" THEN ExRest ELSE [exTask[t] EXCEPT !.pc = "spawn"])
    /\ UNCHANGED exCfg

\* ProtectedConfigFile::create: a directory of its own, for the owner only.
WithConfig(p) == exFiles \cup {p}

\* build_launch, which validates what the task read once more and writes the
\* configuration file, and spawn; both without the lock.
SpawnChild(t) ==
    LET p == CHOOSE n \in ExProcs : n \notin ExHeld /\ n \notin exLive IN
    /\ exTask[t].pc = "spawn"
    /\ exLive' = exLive \cup {p}
    /\ exFiles' = WithConfig(p)
    /\ ExGoes(t, [exTask[t] EXCEPT !.pc = "insert", !.proc = p])
    /\ UNCHANGED <<exCfg, exTab>>

\* The launch cannot be built or the process not spawned.
SpawnFails(t) ==
    /\ exTask[t].pc = "spawn"
    /\ ExGoes(t, ExRest)
    /\ UNCHANGED <<exCfg, exTab, exLive, exFiles>>

\* Mutant of InsertChild: what another start has put there meanwhile lives on.
InsertChild_Keep(t) ==
    /\ exTask[t].pc = "insert"
    /\ exTab' = [exTab EXCEPT ![exTask[t].id] = exTask[t].proc]
    /\ ExGoes(t, ExRest)
    /\ UNCHANGED <<exCfg, exLive, exFiles>>

\* insert: what another start has put there meanwhile is dropped.
InsertChild(t) ==
    LET old == exTab[exTask[t].id] IN
    /\ exTask[t].pc = "insert"
    /\ exTab' = [exTab EXCEPT ![exTask[t].id] = exTask[t].proc]
    /\ exLive' = exLive \ {old} /\ exFiles' = exFiles \ {old}
    /\ ExGoes(t, ExRest)
    /\ UNCHANGED exCfg

\* The client disconnects and the future of the handler is dropped, with the
\* child it holds.
HandlerDropped(w) ==
    /\ exTask[w].pc # "idle"
    /\ exLive' = exLive \ {exTask[w].proc} /\ exFiles' = exFiles \ {exTask[w].proc}
    /\ ExGoes(w, ExRest)
    /\ UNCHANGED <<exCfg, exTab>>

\* A child exits by itself (external).
ChildExits(p) ==
    /\ p \in exLive
    /\ exLive' = exLive \ {p}
    /\ UNCHANGED <<exCfg, exTab, exFiles, exTask>>

ExTaskStep(t) == StopChild(t) \/ SpawnChild(t) \/ InsertChild(t)

ExNext ==
    \/ \E w \in ExWeb : \/ \E i \in ExIds : StartExtension(w, i) \/ StopExtension(w, i)
                        \/ \E i \in ExIds, c \in ExConfigs : UpdateConfig(w, i, c)
                        \/ UpdateStored(w) \/ HandlerDropped(w)
    \/ GetExtension \/ \E i \in ExIds : HealthCheck(i)
    \/ \E t \in ExTasks : ExTaskStep(t) \/ SpawnFails(t)
    \/ \E p \in ExProcs : ChildExits(p)

\* The health check runs every 30 seconds for ever, and the binary can be
\* spawned now and then.
ExTurn(i) ==
    CASE i = 1 -> StopChild(ExHealth) \/ InsertChild(ExHealth)
      [] OTHER -> FALSE

ExPatient(i) ==
    CASE i = 1 -> \E x \in ExIds : HealthCheck(x)
      [] i = 2 -> SpawnChild(ExHealth)
      [] OTHER -> FALSE

ExFairness == (\A i \in 1..1 : WF_exVars(ExTurn(i))) /\ \A i \in 1..2 : SF_exVars(ExPatient(i))

ExSpec == ExInit /\ [][ExNext]_exVars /\ ExFairness

-----------------------------------------------------------------------------

\* Whatever starts, stops, updates and disconnects interleave, a process that
\* runs is in the table or in the hands of a start that is about to put it
\* there, and no extension has two entries: no tunnel lives on that nobody can
\* stop.
NoStrayProcess ==
    /\ exLive \subseteq ExHeld
    /\ \A i, j \in ExIds : exTab[i] = exTab[j] /\ exTab[i] # 0 => i = j

\* A configuration file with the secrets of an extension is never left behind
\* by a process that is no longer held.
NoStrayConfig == exFiles \subseteq ExHeld

\* An enabled extension that has no process gets one from the health check,
\* unless it is disabled or becomes invalid.
EnabledComesBack ==
    \A i \in ExIds :
       (exCfg[i].on /\ exCfg[i].valid /\ exTab[i] = 0) ~> (exTab[i] # 0 \/ ~exCfg[i].on)
====
