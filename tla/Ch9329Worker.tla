---------------------------- MODULE Ch9329Worker ----------------------------
(***************************************************************************)
(* The CH9329 backend (hid/ch9329.rs): a thread owns the serial port and   *)
(* serves a channel of commands, opens the port again when the chip does   *)
(* not answer, and is started and stopped by init and shutdown.            *)
(*                                                                         *)
(* Mouse and media reports travel like keyboard reports and are left out;  *)
(* applying and reading the descriptor are one kind of request.            *)
(*                                                                         *)
(* The second half is what such a request does to the chip, and the update *)
(* of the configuration that makes it (web/handlers/config/usb_update.rs): *)
(* the chip keeps a copy of the stored descriptor, written in several      *)
(* transfers, any of which may fail.                                       *)
(***************************************************************************)
EXTENDS Integers, Sequences, SequencesExt

CONSTANTS
    ChKeys,      \* keys
    ChRequests,  \* requests for the descriptor
    MaxPackets,  \* bound: keyboard reports sent
    MaxFaults,   \* bound: times the port is lost
    CdFactory,   \* what the chip may hold at first: a set of [mem, on]
    CdStored,    \* the descriptors that may be stored at first
    CdUpdates,   \* what a request asks for: functions from some fields to values
    CdUnasked,   \* no descriptor
    MaxCdUpdates,\* bound: updates
    MaxCdFaults  \* bound: changes of the port and of the SET pin

ASSUME ChAssumption == MaxPackets \in Nat /\ MaxFaults \in Nat

VARIABLES
    chCommands,     \* the channel
    chTx, chHandle, \* worker_tx, worker_handle
    chWorker,       \* the thread
    chInitResult,   \* the channel init waits on
    chOnline, chInitialized,
    chLocal,        \* keyboard_state
    chip,           \* keys the chip holds down (external)
    portAlive,      \* the chip answers (external)
    chLife,         \* init and shutdown
    chRequest,      \* requests for the descriptor and their answers
    packets, faults,
    chLoss          \* history: a command was not carried out, or came after the reset

chVars == <<chCommands, chTx, chHandle, chWorker, chInitResult, chOnline,
            chInitialized, chLocal, chip, portAlive, chLife, chRequest, packets,
            faults, chLoss>>
ChRuntime == <<chOnline, chInitialized>>
ChEnds == <<chTx, chHandle, chLife, chInitResult>>
ChBounds == <<packets, faults>>

Packet(keys) == [type |-> "packet", keys |-> keys, req |-> 0]
Descriptor(r) == [type |-> "descriptor", keys |-> {}, req |-> r]
ResetState == [type |-> "reset", keys |-> {}, req |-> 0]
WorkerStops == [type |-> "shutdown", keys |-> {}, req |-> 0]

ChInit ==
    /\ chCommands = << >> /\ chTx = FALSE /\ chHandle = FALSE
    /\ chWorker = "off" /\ chInitResult = "none"
    /\ chOnline = FALSE /\ chInitialized = FALSE
    /\ chLocal = {} /\ chip = {} /\ portAlive \in BOOLEAN
    /\ chLife = "idle" /\ chRequest = [r \in ChRequests |-> "none"]
    /\ packets = 0 /\ faults = 0 /\ chLoss = FALSE

-----------------------------------------------------------------------------
(***************************************************************************)
(* Callers                                                                 *)
(***************************************************************************)

\* init: the thread is spawned, and its first attempt waited for.
InitBegin ==
    /\ chLife = "idle" /\ ~chHandle
    /\ chLife' = "init" /\ chWorker' = "start" /\ chInitResult' = "none"
    /\ chCommands' = << >>
    /\ UNCHANGED <<chTx, chHandle, ChRuntime, chLocal, chip, portAlive, chRequest,
                   ChBounds, chLoss>>

\* The first attempt is over; a chip that does not answer is tried again in the
\* background.  init sets the runtime state itself, after the thread did.
InitDone ==
    /\ chLife = "init" /\ chInitResult # "none"
    /\ chTx' = TRUE /\ chHandle' = TRUE /\ chLife' = "idle"
    /\ chOnline' = (chInitResult = "ok")
    /\ UNCHANGED <<chCommands, chWorker, chInitResult, chInitialized, chLocal, chip,
                   portAlive, chRequest, ChBounds, chLoss>>

\* INIT_WAIT_MS pass without a result.
InitTimesOut ==
    /\ chLife = "init" /\ chInitResult = "none"
    /\ chCommands' = Append(chCommands, WorkerStops) /\ chLife' = "join_init"
    /\ UNCHANGED <<chTx, chHandle, chWorker, chInitResult, ChRuntime, chLocal, chip,
                   portAlive, chRequest, ChBounds, chLoss>>

\* send_keyboard: the report is the whole keyboard, taken under its lock.
SendKeys(keys) ==
    /\ chTx /\ chLife = "idle" /\ packets < MaxPackets
    /\ packets' = packets + 1
    /\ chLocal' = keys
    /\ chCommands' = Append(chCommands, Packet(keys))
    /\ chLoss' = (chLoss \/ ResetState \in ToSet(chCommands))
    /\ UNCHANGED <<ChEnds, chWorker, ChRuntime, chip, portAlive, chRequest, faults>>

\* apply_ch9329_descriptor, read_ch9329_descriptor
AskDescriptor(r) ==
    /\ chTx /\ chLife = "idle" /\ chRequest[r] = "none"
    /\ chRequest' = [chRequest EXCEPT ![r] = "asked"]
    /\ chCommands' = Append(chCommands, Descriptor(r))
    /\ UNCHANGED <<ChEnds, chWorker, ChRuntime, chLocal, chip, portAlive, ChBounds, chLoss>>

\* shutdown asks for the release of all keys ...
ShutdownBegin ==
    /\ chLife = "idle" /\ chHandle
    /\ chCommands' = Append(chCommands, ResetState) /\ chLife' = "closing"
    /\ UNCHANGED <<chTx, chHandle, chWorker, chInitResult, ChRuntime, chLocal, chip,
                   portAlive, chRequest, ChBounds, chLoss>>

\* ... another caller may still get a report in ...
SendLate(keys) ==
    /\ chTx /\ chLife = "closing" /\ packets < MaxPackets
    /\ packets' = packets + 1 /\ chLocal' = keys
    /\ chCommands' = Append(chCommands, Packet(keys)) /\ chLoss' = TRUE
    /\ UNCHANGED <<ChEnds, chWorker, ChRuntime, chip, portAlive, chRequest, faults>>

\* ... takes the sender, stops the thread ...
ShutdownStop ==
    /\ chLife = "closing"
    /\ chTx' = FALSE /\ chCommands' = Append(chCommands, WorkerStops) /\ chLife' = "joining"
    /\ UNCHANGED <<chHandle, chWorker, chInitResult, ChRuntime, chLocal, chip,
                   portAlive, chRequest, ChBounds, chLoss>>

\* ... and waits for its end; the runtime state is set once more.
Joined ==
    /\ chLife \in {"joining", "join_init"} /\ chWorker = "ended"
    /\ chLife' = "idle" /\ chHandle' = FALSE /\ chWorker' = "off"
    /\ chOnline' = FALSE /\ chInitialized' = (chInitialized /\ chLife = "join_init")
    /\ UNCHANGED <<chCommands, chTx, chInitResult, chLocal, chip, portAlive, chRequest,
                   ChBounds, chLoss>>

-----------------------------------------------------------------------------
(***************************************************************************)
(* The thread                                                              *)
(***************************************************************************)

\* worker_loop begins.
WorkerStart ==
    /\ chWorker = "start"
    /\ chInitialized' = TRUE /\ chWorker' = "open"
    /\ UNCHANGED <<chCommands, ChEnds, chOnline, chLocal, chip, portAlive, chRequest,
                   ChBounds, chLoss>>

\* open_ready_port: the chip answers or not; the first result goes to init.
OpenPort ==
    /\ chWorker \in {"open", "reopen"}
    /\ chOnline' = portAlive
    /\ chWorker' = IF portAlive THEN "serve"
                   ELSE IF chWorker = "open" THEN "wait" ELSE "rewait"
    /\ chInitResult' = IF chWorker = "open" /\ chInitResult = "none"
                       THEN IF portAlive THEN "ok" ELSE "err" ELSE chInitResult
    /\ UNCHANGED <<chCommands, chTx, chHandle, chLife, chInitialized, chLocal, chip,
                   portAlive, chRequest, ChBounds, chLoss>>

Answer(c) == IF c.type = "descriptor" THEN [chRequest EXCEPT ![c.req] = "answered"]
             ELSE chRequest

\* wait_reconnect_delay: commands are refused until the delay is over.
WaitDelay ==
    /\ chWorker \in {"wait", "rewait"}
    /\ IF chCommands = << >>
       THEN /\ chWorker' = IF chWorker = "wait" THEN "open" ELSE "reopen"
            /\ UNCHANGED <<chCommands, chRequest, chLoss>>
       ELSE /\ chCommands' = Tail(chCommands)
            /\ chWorker' = IF Head(chCommands) = WorkerStops THEN "ending" ELSE chWorker
            /\ chRequest' = Answer(Head(chCommands))
            /\ chLoss' = (chLoss \/ Head(chCommands) # WorkerStops)
    /\ UNCHANGED <<ChEnds, ChRuntime, chLocal, chip, portAlive, ChBounds>>

\* A command is carried out; a chip that does not answer sends the thread into
\* recover_worker_port.  A descriptor the chip refuses leaves the port open.
Serve ==
    LET c == Head(chCommands)
    IN  /\ chWorker = "serve" /\ chCommands # << >>
        /\ chCommands' = Tail(chCommands)
        /\ chRequest' = Answer(c)
        /\ chLocal' = IF c.type = "reset" THEN {} ELSE chLocal
        /\ \/ /\ c = WorkerStops /\ chWorker' = "ending"
              /\ UNCHANGED <<chip, chOnline, chLoss>>
           \/ /\ c # WorkerStops /\ portAlive /\ UNCHANGED chWorker
              /\ chLoss' = IF c.type = "reset"
                           THEN \E x \in ToSet(Tail(chCommands)) : x.type = "packet"
                           ELSE chLoss
              /\ \/ /\ chOnline' = TRUE
                    /\ chip' = CASE c.type = "packet" -> c.keys
                                 [] c.type = "reset" -> {} [] OTHER -> chip
                 \/ /\ c.type = "descriptor" /\ chOnline' = FALSE /\ UNCHANGED chip
           \/ /\ c # WorkerStops /\ ~portAlive /\ chOnline' = FALSE /\ chLoss' = TRUE
              /\ chWorker' = "reopen" /\ UNCHANGED chip
        /\ UNCHANGED <<ChEnds, chInitialized, portAlive, ChBounds>>

\* Mutant: a chip that does not answer the probe is not reported.
Probe_Quiet ==
    /\ chWorker = "serve" /\ chCommands = << >> /\ portAlive /\ chOnline' = TRUE
    /\ UNCHANGED <<chWorker, chCommands, ChEnds, chInitialized, chLocal, chip, portAlive,
                   chRequest, ChBounds, chLoss>>

\* Nothing to do for PROBE_INTERVAL_MS: the chip is asked whether it is there.
Probe ==
    /\ chWorker = "serve" /\ chCommands = << >>
    /\ chOnline' = portAlive
    /\ chWorker' = IF portAlive THEN "serve" ELSE "reopen"
    /\ UNCHANGED <<chCommands, ChEnds, chInitialized, chLocal, chip, portAlive,
                   chRequest, ChBounds, chLoss>>

\* The thread ends: what is left in the channel is dropped, and with it the
\* senders of the answers.
WorkerEnds ==
    /\ chWorker = "ending"
    /\ chWorker' = "ended" /\ chOnline' = FALSE /\ chInitialized' = FALSE
    /\ chCommands' = << >>
    /\ chRequest' = [r \in ChRequests |-> IF chRequest[r] = "asked" THEN "answered"
                                          ELSE chRequest[r]]
    /\ UNCHANGED <<ChEnds, chLocal, chip, portAlive, ChBounds, chLoss>>

\* External: the cable is pulled and put back; a chip that lost power holds no key.
PortFails ==
    /\ portAlive /\ faults < MaxFaults /\ faults' = faults + 1
    /\ portAlive' = FALSE
    /\ chip' \in {chip, {}}
    /\ UNCHANGED <<chCommands, ChEnds, chWorker, ChRuntime, chLocal, chRequest, packets,
                   chLoss>>
PortReturns ==
    /\ ~portAlive /\ portAlive' = TRUE
    /\ UNCHANGED <<chCommands, ChEnds, chWorker, ChRuntime, chLocal, chip, chRequest,
                   ChBounds, chLoss>>

ChThread == WorkerStart \/ OpenPort \/ WaitDelay \/ Serve \/ Probe \/ WorkerEnds
ChNext ==
    \/ InitBegin \/ InitDone \/ InitTimesOut \/ ShutdownBegin \/ ShutdownStop \/ Joined
    \/ \E keys \in SUBSET ChKeys : SendKeys(keys) \/ SendLate(keys)
    \/ \E r \in ChRequests : AskDescriptor(r)
    \/ ChThread \/ PortFails \/ PortReturns

\* The thread runs, and init and shutdown wait with timeouts or for its end.
ChTurn(i) ==
    CASE i = 1 -> ChThread
      [] i = 2 -> InitDone \/ Joined
      [] OTHER -> FALSE

ChFairness == \A i \in 1..2 : WF_chVars(ChTurn(i))

ChSpec == ChInit /\ [][ChNext]_chVars /\ ChFairness

-----------------------------------------------------------------------------
(***************************************************************************)
(* Properties                                                              *)
(***************************************************************************)

\* Every variable has its type, and a thread that was not joined is owned by
\* init, shutdown or worker_handle.
ChTypeOK ==
    /\ chWorker \in {"off", "start", "open", "wait", "serve", "reopen", "rewait",
                     "ending", "ended"}
    /\ chLife \in {"idle", "init", "join_init", "closing", "joining"}
    /\ chInitResult \in {"none", "ok", "err"} /\ chOnline \in BOOLEAN
    /\ chip \subseteq ChKeys /\ chLocal \subseteq ChKeys
    /\ chRequest \in [ChRequests -> {"none", "asked", "answered"}]
    /\ chWorker # "off" => chHandle \/ chLife \in {"init", "join_init"}

\* Once shutdown, or an init that timed out, has returned, the backend is
\* offline and uninitialized and stays so until the next init: no late step of
\* the thread brings it back (shutdown, ch9329.rs:1360, joins it).
StoppedIsOffline == chLife = "idle" /\ ~chHandle => ~chOnline /\ ~chInitialized

\* A stopped backend has let go of every key, unless a command could not be
\* carried out or was queued behind the release (ch9329.rs:1361).
StoppedHoldsNoKey == chLife = "idle" /\ ~chHandle /\ ~chLoss => chip = {}

\* Whoever asks for the descriptor is answered, be the chip silent, the port
\* gone or the thread stopped meanwhile: reject_command_while_reconnecting
\* answers during the delay, and dropping the channel answers the rest.
RequestsAnswered ==
    \A r \in ChRequests : []<>(chRequest[r] # "asked")

\* A chip that never answers again is not reported online for ever, although
\* init reports it online after the thread may have seen it fail
\* (ch9329.rs:1186).
DeadPortShows == <>[](~portAlive) => <>[](~chOnline)

-----------------------------------------------------------------------------
(***************************************************************************)
(* The line: packets and the search for an answer (hid/ch9329_proto.rs,    *)
(* xfer_packet).  Bytes are numbers below 256; the address is 0.           *)
(***************************************************************************)

\* PACKET_HEADER, and no answer.
Header == <<87, 171>>
NoAnswer == [cmd |-> 0, data |-> << >>]

\* calculate_checksum
Checksum(bytes) == FoldLeft(LAMBDA sum, b : (sum + b) % 256, 0, bytes)

\* build_packet_buf
Frame(cmd, data) ==
    LET front == Header \o <<0, cmd, Len(data)>> \o data IN Append(front, Checksum(front))

\* expected_response_cmd: commands are below 64.
ExpectedCmd(cmd, isError) == cmd + IF isError THEN 192 ELSE 128

\* Response::parse, of a frame that begins with the header and has its length.
Parses(f) == f[Len(f)] = Checksum(Front(f))

\* Mutant of Stops: an unfinished frame is passed over.
Stops_Whole(buf) ==
    {o \in 0..(Len(buf) - 6) :
       /\ SubSeq(buf, o + 1, o + 2) = Header /\ o + 6 + buf[o + 5] <= Len(buf)
       /\ Parses(SubSeq(buf, o + 1, o + 6 + buf[o + 5]))}

\* Where the search of try_extract_response stops: at a header whose frame is not
\* all there yet, or at one with a good frame.
Stops(buf) ==
    {o \in 0..(Len(buf) - 6) :
       /\ SubSeq(buf, o + 1, o + 2) = Header
       /\ o + 6 + buf[o + 5] <= Len(buf) => Parses(SubSeq(buf, o + 1, o + 6 + buf[o + 5]))}

\* One turn of the loop over try_extract_response: an answer to another command is
\* dropped with all that is before it.
TakeResponse(line, cmd) ==
    LET buf == line.pending
        at == CHOOSE o \in Stops(buf) : \A x \in Stops(buf) : o <= x
        end == at + 6 + buf[at + 5]
        r == [cmd |-> buf[at + 4], data |-> SubSeq(buf, at + 6, end - 1)]
    IN IF line.answer # NoAnswer \/ Stops(buf) = {} THEN line
       ELSE IF end > Len(buf) THEN line
       ELSE [pending |-> SubSeq(buf, end + 1, Len(buf)),
             answer |-> IF r.cmd \in {ExpectedCmd(cmd, FALSE), ExpectedCmd(cmd, TRUE)} THEN r ELSE NoAnswer]

\* xfer_packet: the answer to cmd in what is read, chunk after chunk, before the
\* deadline.  The cut of a pending buffer that is too long is left out.
XferPacket(cmd, chunks) ==
    LET read(line, chunk) ==
           LET more == [line EXCEPT !.pending = @ \o chunk]
           IN FoldLeft(LAMBDA l, i : TakeResponse(l, cmd), more, [i \in 1..Len(more.pending) |-> i])
    IN FoldLeft(read, [pending |-> << >>, answer |-> NoAnswer], chunks).answer

\* Answers to command 2, one of which holds a frame of its own, and what a late
\* answer to command 1 leaves on the line when its beginning was cleared away.
Answers == {[cmd |-> 130, data |-> <<0>>], [cmd |-> 194, data |-> <<225>>],
            [cmd |-> 130, data |-> Frame(129, << >>)], [cmd |-> 130, data |-> <<5, 87, 171>>]}
Leftovers == {SubSeq(Frame(129, <<7, 0>>), i, 8) : i \in 1..9} \cup {Frame(193, <<226>>) \o Frame(129, <<7, 0>>)}

\* The answer to a command is found behind what is left of earlier answers, however
\* the line cuts it into chunks, and whatever it holds itself.
AnswerFound ==
    \A a \in Answers, before \in Leftovers :
       LET bytes == before \o Frame(a.cmd, a.data)
       IN \A i \in 0..Len(bytes), j \in {Len(bytes) - 7, Len(bytes) - 1, Len(bytes)} : i <= j =>
             XferPacket(2, <<SubSeq(bytes, 1, i), SubSeq(bytes, i + 1, j), SubSeq(bytes, j + 1, Len(bytes))>>) = a

\* An answer with a byte that is not what was sent is not taken for an answer.
DamagedNotTaken ==
    \A a \in Answers :
       LET bytes == Frame(a.cmd, a.data)
       IN \A i \in DOMAIN bytes, b \in {0, 1, 87, 171, 255} :
             b # bytes[i] => XferPacket(2, <<[bytes EXCEPT ![i] = b]>>) = NoAnswer

-----------------------------------------------------------------------------
(***************************************************************************)
(* The descriptor                                                          *)
(***************************************************************************)

VARIABLES
    cdChip,     \* external: the chip's memory, [mem, on]: values, strings enabled
    cdUp,       \* external: the chip answers
    cdPin,      \* external: SET is low, the chip takes configuration commands
    cdConfig,   \* the stored configuration: [serial, desc]
    cdLive,     \* the backend that runs: "serial", "other", "none"
    cdCommand,  \* the worker on ApplyDescriptor: [pc, todo, want]
    cdLost,     \* the worker has lost its port
    cdJob,      \* update_usb_config; before: history, the chip when it began
    cdRead,     \* GET of the descriptor; settled, shown: history, asked between two
                \* updates, and what was then shown
    cdUpdates, cdFaults

cdVars == <<cdChip, cdUp, cdPin, cdConfig, cdLive, cdCommand, cdLost, cdJob, cdRead,
            cdUpdates, cdFaults>>
CdWires == <<cdUp, cdPin, cdFaults>>

CdStrings == {"man", "prod", "ser"}
CdFields == {"ids"} \cup CdStrings

\* The chip has a place for every field, and a descriptor has every field.
ASSUME CdAssumption ==
    /\ \A c \in CdFactory : DOMAIN c = {"mem", "on"} /\ DOMAIN c.mem = CdFields
    /\ \A d \in CdStored : d = [f \in CdFields |-> d[f]]

NoCommand == [pc |-> "none", todo |-> << >>, want |-> CdUnasked]
NoRead == [pc |-> "idle", cached |-> CdUnasked, shown |-> CdUnasked, settled |-> FALSE]

CdInit ==
    /\ cdChip \in CdFactory /\ cdUp = TRUE /\ cdPin \in BOOLEAN
    /\ cdConfig \in [serial : BOOLEAN, desc : CdStored]
    /\ cdLive = IF cdConfig.serial THEN "serial" ELSE "other"
    /\ cdCommand = NoCommand /\ cdLost = FALSE
    /\ cdJob = [pc |-> "idle", old |-> cdConfig, staged |-> cdConfig, want |-> CdUnasked,
                applied |-> FALSE, errors |-> FALSE, before |-> cdChip]
    /\ cdRead = NoRead
    /\ cdUpdates = 0 /\ cdFaults = 0

\* read_device_descriptor_on_port: a string that is not enabled is empty.
Shows(c) == [f \in CdFields |-> IF f \in CdStrings \ c.on THEN "" ELSE c.mem[f]]

\* set_string_flags
StringFlags(c, d) == {"man", "prod"} \cup (IF d["ser"] # "" THEN {"ser"} ELSE {})

\* apply_device_descriptor_on_port: the parameters go first, then the strings; an
\* absent serial number is not written.
Transfers(d) == <<"params", "man", "prod">> \o (IF d["ser"] = "" THEN << >> ELSE <<"ser">>)

\* set_vid_pid, write_parameter_config_on_port, write_usb_string_on_port: the
\* chip after a transfer.
Written(c, d, t) ==
    IF t = "params" THEN [mem |-> [c.mem EXCEPT !["ids"] = d["ids"]], on |-> StringFlags(c, d)]
    ELSE [c EXCEPT !.mem[t] = d[t]]

\* finish_oneshot_command: the update goes on with the answer, the rollback notes
\* that it failed.
Tell(answer) ==
    \/ /\ cdJob.pc = "wait" /\ answer = "ok"
       /\ cdJob' = [cdJob EXCEPT !.pc = "store", !.applied = TRUE, !.staged.desc = cdCommand.want]
    \/ cdJob.pc = "wait" /\ answer = "err" /\ cdJob' = [cdJob EXCEPT !.pc = "refused"]
    \/ cdJob.pc = "waitBack" /\ cdJob' = [cdJob EXCEPT !.pc = "undone", !.errors = @ \/ answer = "err"]

\* The command fails; should_recover_descriptor_error tells a chip that is silent
\* from one that refuses.
Refuse(answers) ==
    /\ cdCommand' = NoCommand /\ Tell("err")
    /\ cdLost' = (cdLost \/ ~answers)

\* read_parameter_config_on_port: three invalid answers are the end of it.
ReadParameters ==
    /\ cdCommand.pc = "asked" /\ ~cdLost
    /\ \/ /\ cdUp /\ cdPin
          /\ cdCommand' = [cdCommand EXCEPT !.pc = "write"] /\ UNCHANGED <<cdLost, cdJob>>
       \/ ~(cdUp /\ cdPin) /\ Refuse(cdUp)
    /\ UNCHANGED <<cdChip, CdWires, cdConfig, cdLive, cdRead, cdUpdates>>

\* One transfer: done; refused; or done by a chip that goes silent before it answers.
Transfer ==
    /\ cdCommand.pc = "write"
    /\ LET t == Head(cdCommand.todo)
           next == Tail(cdCommand.todo)
       IN \/ /\ cdUp /\ cdPin /\ cdChip' = Written(cdChip, cdCommand.want, t)
             /\ cdCommand' = [cdCommand EXCEPT !.todo = next, !.pc = IF next = << >> THEN "reset" ELSE "write"]
             /\ UNCHANGED <<CdWires, cdLost, cdJob>>
          \/ /\ cdUp /\ cdPin /\ cdFaults < MaxCdFaults /\ cdFaults' = cdFaults + 1 /\ cdUp' = FALSE
             /\ cdChip' = Written(cdChip, cdCommand.want, t)
             /\ Refuse(FALSE) /\ UNCHANGED cdPin
          \/ ~(cdUp /\ cdPin) /\ Refuse(cdUp) /\ UNCHANGED <<cdChip, CdWires>>
    /\ UNCHANGED <<cdConfig, cdLive, cdRead, cdUpdates>>

\* try_best_effort_reset, and query_chip_info_on_port when the chip is back.
ResetChip ==
    /\ cdCommand.pc = "reset"
    /\ \/ cdUp /\ cdCommand' = NoCommand /\ Tell("ok") /\ UNCHANGED cdLost
       \/ ~cdUp /\ Refuse(FALSE)
    /\ UNCHANGED <<cdChip, CdWires, cdConfig, cdLive, cdRead, cdUpdates>>

\* worker_reconnect_loop: commands are refused until the port is open again.
RejectCommand ==
    /\ cdLost /\ cdCommand.pc = "asked" /\ Refuse(cdUp)
    /\ UNCHANGED <<cdChip, CdWires, cdConfig, cdLive, cdRead, cdUpdates>>
PortReopened ==
    /\ cdLost /\ cdUp /\ cdLost' = FALSE
    /\ UNCHANGED <<cdChip, CdWires, cdConfig, cdLive, cdCommand, cdJob, cdRead, cdUpdates>>

-----------------------------------------------------------------------------
(* update_usb_config *)

Updating == cdJob.pc \notin {"idle", "ok", "failed", "degraded"}

\* stage_hid_config_update: the descriptor is merged field by field, and kept
\* apart until the chip has taken it.
Merge(d, u) == [f \in CdFields |-> IF f \in DOMAIN u THEN u[f] ELSE d[f]]

\* try_apply_lock lets one update in at a time.
UpdateUsbConfig(serial, u) ==
    /\ ~Updating /\ cdUpdates < MaxCdUpdates /\ cdUpdates' = cdUpdates + 1
    /\ cdJob' = [pc |-> "apply", old |-> cdConfig, staged |-> [cdConfig EXCEPT !.serial = serial],
                 want |-> IF u = << >> THEN CdUnasked ELSE Merge(cdConfig.desc, u),
                 applied |-> FALSE, errors |-> FALSE, before |-> cdChip]
    /\ cdRead' = IF cdRead.pc = "done" THEN NoRead ELSE [cdRead EXCEPT !.settled = FALSE]
    /\ UNCHANGED <<cdChip, CdWires, cdConfig, cdLive, cdCommand, cdLost>>

\* hid_backend_type
Backend(config) == IF config.serial THEN "serial" ELSE "other"

\* apply_usb_config, apply_hid_config: the backend is reloaded when it changes;
\* reload and reconcile may fail, before and after the old one is gone.
Apply(from, to, ok) ==
    cdLive' \in IF from.serial = to.serial THEN {cdLive}
                ELSE IF ok THEN {Backend(to)} ELSE {cdLive, Backend(to), "none"}

ApplyRuntime ==
    /\ cdJob.pc = "apply"
    /\ \E ok \in BOOLEAN :
          /\ Apply(cdJob.old, cdJob.staged, ok)
          /\ cdJob' = [cdJob EXCEPT !.pc = IF ~ok THEN "undo"
                                           ELSE IF cdJob.want # CdUnasked /\ cdJob.staged.serial THEN "ask" ELSE "store"]
    /\ cdLost' = IF cdLive' = cdLive THEN cdLost ELSE ~cdUp
    /\ UNCHANGED <<cdChip, CdWires, cdConfig, cdCommand, cdRead, cdUpdates>>

\* HidController::apply_ch9329_descriptor: only the serial backend has one.
AskWorker(d, waiting, refused) ==
    IF cdLive = "serial"
    THEN /\ cdCommand' = [pc |-> "asked", todo |-> Transfers(d), want |-> d]
         /\ cdJob' = [cdJob EXCEPT !.pc = waiting]
    ELSE /\ cdJob' = [cdJob EXCEPT !.pc = refused, !.errors = @ \/ waiting = "waitBack"]
         /\ UNCHANGED cdCommand

AskApply ==
    /\ cdJob.pc = "ask" /\ AskWorker(cdJob.want, "wait", "refused")
    /\ UNCHANGED <<cdChip, CdWires, cdConfig, cdLive, cdLost, cdRead, cdUpdates>>

\* The configuration is stored once the chip has the descriptor; that may fail too.
Persist ==
    /\ cdJob.pc = "store"
    /\ \/ cdConfig' = cdJob.staged /\ cdJob' = [cdJob EXCEPT !.pc = "ok"]
       \/ cdJob' = [cdJob EXCEPT !.pc = "undo"] /\ UNCHANGED cdConfig
    /\ UNCHANGED <<cdChip, CdWires, cdLive, cdCommand, cdLost, cdRead, cdUpdates>>

\* Mutant of UndoRuntime: the descriptor is put back only when it was taken.
UndoRuntime_Taken ==
    /\ cdJob.pc \in {"undo", "refused"}
    /\ \E ok \in BOOLEAN :
          /\ Apply(cdJob.staged, cdJob.old, ok)
          /\ cdJob' = [cdJob EXCEPT !.errors = ~ok,
                                    !.pc = IF cdJob.applied /\ cdJob.old.serial THEN "askBack" ELSE "undone"]
    /\ cdLost' = IF cdLive' = cdLive THEN cdLost ELSE ~cdUp
    /\ UNCHANGED <<cdChip, CdWires, cdConfig, cdCommand, cdRead, cdUpdates>>

\* rollback_after_failure: the runtime goes back, and the descriptor when the chip
\* may have taken some of it.
UndoRuntime ==
    /\ cdJob.pc \in {"undo", "refused"}
    /\ \E ok \in BOOLEAN :
          /\ Apply(cdJob.staged, cdJob.old, ok)
          /\ cdJob' = [cdJob EXCEPT !.errors = ~ok,
                                    !.pc = IF (cdJob.pc = "refused" \/ cdJob.applied) /\ cdJob.old.serial
                                           THEN "askBack" ELSE "undone"]
    /\ cdLost' = IF cdLive' = cdLive THEN cdLost ELSE ~cdUp
    /\ UNCHANGED <<cdChip, CdWires, cdConfig, cdCommand, cdRead, cdUpdates>>

UndoDescriptor ==
    /\ cdJob.pc = "askBack" /\ AskWorker(cdJob.old.desc, "waitBack", "undone")
    /\ UNCHANGED <<cdChip, CdWires, cdConfig, cdLive, cdLost, cdRead, cdUpdates>>

\* The caller hears of the first error; a rollback that failed is reported too
\* and marks the gadget degraded.
UpdateFails ==
    /\ cdJob.pc = "undone"
    /\ cdJob' = [cdJob EXCEPT !.pc = IF cdJob.errors THEN "degraded" ELSE "failed"]
    /\ UNCHANGED <<cdChip, CdWires, cdConfig, cdLive, cdCommand, cdLost, cdRead, cdUpdates>>
-----------------------------------------------------------------------------
(* hid_ch9329_descriptor *)

\* The stored configuration is read first, the worker asked then.
BeginRead ==
    /\ cdRead.pc # "asked"
    /\ cdRead' = [NoRead EXCEPT !.pc = "asked", !.cached = cdConfig.desc,
                                !.settled = cdJob.pc = "ok" /\ cdJob.applied]
    /\ UNCHANGED <<cdChip, CdWires, cdConfig, cdLive, cdCommand, cdLost, cdJob, cdUpdates>>

\* The worker answers between two other commands.  A chip that is not in
\* configuration mode is answered for from the stored configuration
\* (cached_ch9329_descriptor); any other failure is reported.
EndRead ==
    /\ cdRead.pc = "asked" /\ cdCommand.pc \in {"none", "asked"}
    /\ IF cdLive # "serial" \/ cdLost \/ ~cdUp
       THEN /\ cdRead' = NoRead
            /\ cdLost' = (cdLost \/ (cdLive = "serial" /\ ~cdUp))
       ELSE /\ LET shown == IF cdPin THEN Shows(cdChip) ELSE cdRead.cached
               IN cdRead' = IF cdRead.settled THEN [cdRead EXCEPT !.pc = "done", !.shown = shown] ELSE NoRead
            /\ UNCHANGED cdLost
    /\ UNCHANGED <<cdChip, CdWires, cdConfig, cdLive, cdCommand, cdJob, cdUpdates>>

\* External: the chip falls silent and answers again, the SET pin is moved.
WiresChange ==
    /\ \/ cdFaults < MaxCdFaults /\ cdFaults' = cdFaults + 1
          /\ ((cdUp /\ cdUp' = FALSE /\ UNCHANGED cdPin) \/ (cdPin' = ~cdPin /\ UNCHANGED cdUp))
       \/ ~cdUp /\ cdUp' = TRUE /\ UNCHANGED <<cdPin, cdFaults>>
    /\ UNCHANGED <<cdChip, cdConfig, cdLive, cdCommand, cdLost, cdJob, cdRead, cdUpdates>>

CdWorker == ReadParameters \/ Transfer \/ ResetChip \/ RejectCommand
CdUpdate == ApplyRuntime \/ AskApply \/ Persist \/ UndoRuntime \/ UndoDescriptor \/ UpdateFails
CdNext ==
    \/ CdWorker \/ CdUpdate \/ PortReopened \/ BeginRead \/ EndRead \/ WiresChange
    \/ \E serial \in BOOLEAN, u \in CdUpdates : UpdateUsbConfig(serial, u)

\* The worker's transfers have a time limit, and the update awaits its calls.
CdTurn(i) ==
    CASE i = 1 -> CdWorker
      [] i = 2 -> CdUpdate
      [] OTHER -> FALSE

CdFairness == \A i \in 1..2 : WF_cdVars(CdTurn(i))

CdSpec == CdInit /\ [][CdNext]_cdVars /\ CdFairness

\* An update that was reported done, with a descriptor for the chip, left the chip
\* showing what is stored: no transfer of it was lost (usb_update.rs:71).
StoredIsOnChip == cdJob.pc = "ok" /\ cdJob.applied => Shows(cdChip) = cdConfig.desc

\* An update that failed, without a word of the rollback failing too, changed
\* nothing that is stored; the backend of before runs, and the chip, if it was in
\* use, shows what it did before or what is stored: it is not left with half of a
\* descriptor, whichever transfer failed (rollback_after_failure).
FailedUpdateUndone ==
    cdJob.pc = "failed" =>
       /\ cdConfig = cdJob.old
       /\ cdJob.staged.serial # cdJob.old.serial => cdLive = Backend(cdJob.old)
       /\ cdJob.old.serial => Shows(cdChip) \in {Shows(cdJob.before), cdConfig.desc}

\* Asked after an update was done and before the next, the descriptor is shown as
\* it is stored, be it read from the chip or taken from the configuration.
ShownIsStored == cdRead.pc = "done" /\ cdRead.settled => cdRead.shown = cdConfig.desc

\* An update, and with it the lock it holds, comes to an end, whatever the chip does.
UpdateEnds == []<>~Updating
====
