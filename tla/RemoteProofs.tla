---- MODULE RemoteProofs ----
(***************************************************************************)
(* Proofs about the parts through which others reach the board (MCRemote), *)
(* for every value of the constants: an inductive invariant for each part, *)
(* which holds in every behaviour since only the chosen part steps.  Video *)
(* data on its way is proved correct for every topology, every stream of   *)
(* units and every length: the bridge that is found, the units the         *)
(* scanners see, the packets of H.265.  Of the drive's volume it is proved *)
(* that no write escapes the dirty mark.                                   *)
(***************************************************************************)
EXTENDS MCRemote, Integers, SequencesExt, FiniteSetTheorems, SequenceTheorems,
        WellFoundedInduction, TLAPS

-----------------------------------------------------------------------------
\* The three remote services

TpAllCodecs == {"h264", "h265", "mjpeg"}
TpPcs == {"idle", "persist", "validate", "prepare", "guard", "stopping", "waiting", "starting", "enforce", "lock"}
TpConfs(n) == [enabled : BOOLEAN, codec : TpAllCodecs, version : 0..n]
TpStatuses == {"Stopped", "Starting", "Running", "Error"}
TpObjects(n) == [obj : BOOLEAN, status : TpStatuses, task : {"none", "run", "leaving"}, handle : BOOLEAN,
                 loose : [run : Nat, leaving : Nat], cfg : TpConfs(n), conn : TpConfs(n), updated : BOOLEAN]
TpRequests(n) == [pc : TpPcs, kind : {"none", "update", "start", "stop"}, old : TpConfs(n), new : TpConfs(n),
                  seen : {"none", "h264", "h265", "mjpeg"}]
TpStreams == [mode : {"mjpeg", "webrtc"}, codec : {"h264", "h265"}, lock : {"none", "h264", "h265", "mjpeg"}]

TpShapes ==
    /\ tpStored \in [TpServices -> TpConfs(tpReqs)] /\ tpSvc \in [TpServices -> TpObjects(tpReqs)]
    /\ tpReq \in [TpServices -> TpRequests(tpReqs)] /\ tpStream \in TpStreams /\ tpDirty \subseteq TpServices
    /\ tpLeft \subseteq TpServices /\ tpReqs \in 0..MaxTpReqs /\ tpFaults \in 0..MaxTpFaults

\* The fields of a configuration that a restart applies; RustDesk reads its
\* version anew.
TpSame(s, c, x) == c.codec = x.codec /\ (s # "rustdesk" => c.version = x.version)

\* The codecs a service can be set to, and what connections are served with.
TpWithin(s, st, sv, rq) ==
    /\ {st.codec, sv.cfg.codec, sv.conn.codec, rq.old.codec, rq.new.codec} \subseteq TpCodecs[s]
    /\ ~sv.updated => sv.conn.codec = sv.cfg.codec
    /\ s # "rustdesk" => sv.conn = sv.cfg

\* An object, its task and its status, by where the handler is and by whether an
\* earlier one left it half done.
TpTask(s, sv, rq, left) ==
    /\ ~sv.obj => sv.task = "none" /\ sv.status = "Stopped" /\ ~sv.handle /\ sv.loose = NoTasks
    /\ rq.pc \in {"stopping", "waiting", "starting"} => sv.obj
    /\ rq.pc = "waiting" => sv.task # "run"
    /\ rq.pc \in {"validate", "prepare", "guard"} => rq.kind \in {"update", "start", "stop"}
    /\ ~left =>
         /\ sv.loose = NoTasks /\ sv.status # "Starting"
         /\ rq.pc \notin {"waiting", "starting"} => (sv.status = "Running" <=> sv.task = "run") /\ sv.task # "leaving"
         /\ rq.pc \notin {"waiting", "starting"} /\ s = "rustdesk" => (sv.handle <=> sv.task = "run")
         /\ rq.pc = "starting" => sv.task = "none" /\ sv.status # "Running" /\ (s = "rustdesk" => ~sv.handle)

\* What runs against what is stored, by where the handler is.
TpRuns(s, st, sv, rq, odd) ==
    /\ rq.pc \in {"idle", "persist", "enforce", "lock"} \/ (rq.pc \in {"validate", "prepare", "guard"} /\ rq.kind # "update") =>
         (sv.task = "run" /\ ~odd => TpSame(s, sv.cfg, st))
    /\ rq.pc = "persist" => TpSame(s, rq.old, st) /\ rq.kind = "update"
    /\ rq.pc \in {"validate", "prepare", "guard"} => TpSame(s, rq.new, st)
    /\ rq.pc \in {"validate", "prepare", "guard"} /\ rq.kind = "update" =>
         (sv.task = "run" /\ ~odd => TpSame(s, sv.cfg, rq.old))
    /\ rq.pc \in {"stopping", "waiting"} /\ rq.kind # "stop" => TpSame(s, rq.new, st)
    /\ rq.pc = "starting" => TpSame(s, sv.cfg, st)

TpOne(s, st, sv, rq, odd, left) == TpWithin(s, st, sv, rq) /\ TpTask(s, sv, rq, left) /\ TpRuns(s, st, sv, rq, odd)

TpInv == TpShapes /\ \A s \in TpServices : TpOne(s, tpStored[s], tpSvc[s], tpReq[s], s \in tpDirty, s \in tpLeft)

\* What is typed by a number of requests is typed by a larger one.
LEMMA TpGrows ==
    ASSUME NEW n \in Nat, NEW m \in Nat, n <= m
    PROVE  TpConfs(n) \subseteq TpConfs(m) /\ TpObjects(n) \subseteq TpObjects(m) /\ TpRequests(n) \subseteq TpRequests(m)
<1>1. 0..n \subseteq 0..m
  OBVIOUS
<1>2. TpConfs(n) \subseteq TpConfs(m)
  BY <1>1 DEF TpConfs
<1> QED
  BY <1>1, <1>2 DEF TpObjects, TpRequests

\* The first configuration, no object and no request are well typed.
LEMMA TpFirstIs ==
    ASSUME NEW s \in TpServices, NEW n \in Nat
    PROVE  /\ TpFirst(s) \in TpConfs(n) /\ TpFirst(s).codec = "h264" /\ "h264" \in TpCodecs[s]
           /\ NoService(s) \in TpObjects(n) /\ NoRequest(s) \in TpRequests(n)
           /\ NoService(s).cfg = TpFirst(s) /\ NoService(s).conn = TpFirst(s) /\ ~NoService(s).updated
           /\ ~NoService(s).obj /\ NoService(s).task = "none" /\ NoService(s).status = "Stopped"
           /\ ~NoService(s).handle /\ NoService(s).loose = NoTasks
           /\ NoRequest(s).old = TpFirst(s) /\ NoRequest(s).new = TpFirst(s) /\ NoRequest(s).pc = "idle"
<1>1. (CHOOSE c \in TpCodecs[s] : c = "h264") = "h264" /\ "h264" \in TpCodecs[s]
  BY TpAssumption
<1>2. TpFirst(s) \in TpConfs(n) /\ TpFirst(s).codec = "h264"
  BY <1>1 DEF TpFirst, TpConfs, TpAllCodecs
<1> QED
  BY <1>1, <1>2 DEF NoService, NoTasks, NoRequest, TpObjects, TpStatuses, TpRequests, TpPcs

\* Every service starts disabled and without an object.
LEMMA TpStarts == TpInit => TpInv
<1> SUFFICES ASSUME TpInit PROVE TpInv
  OBVIOUS
<1>n. 0 \in Nat /\ tpReqs = 0
  BY DEF TpInit
<1>1. TpShapes
  BY <1>n, TpFirstIs, TpAssumption DEF TpInit, TpShapes, TpStreams
<1>2. ASSUME NEW s \in TpServices PROVE TpOne(s, tpStored[s], tpSvc[s], tpReq[s], s \in tpDirty, s \in tpLeft)
  <2>1. tpStored[s] = TpFirst(s) /\ tpSvc[s] = NoService(s) /\ tpReq[s] = NoRequest(s)
    BY DEF TpInit
  <2>2. TpWithin(s, tpStored[s], tpSvc[s], tpReq[s])
    BY <2>1, <1>n, TpFirstIs DEF TpWithin
  <2>3. TpTask(s, tpSvc[s], tpReq[s], s \in tpLeft) /\ TpRuns(s, tpStored[s], tpSvc[s], tpReq[s], s \in tpDirty)
    BY <2>1, <1>n, TpFirstIs DEF TpTask, TpRuns
  <2> QED
    BY <2>2, <2>3 DEF TpOne
<1> QED
  BY <1>1, <1>2 DEF TpInv

\* A step that touches one service keeps the others.
LEMMA TpOnly ==
    ASSUME TpInv, NEW s \in TpServices, tpReqs <= tpReqs', tpReqs' \in 0..MaxTpReqs, tpFaults' \in 0..MaxTpFaults,
           NEW st \in TpConfs(tpReqs'), NEW sv \in TpObjects(tpReqs'), NEW rq \in TpRequests(tpReqs'),
           tpStored' = [tpStored EXCEPT ![s] = st], tpSvc' = [tpSvc EXCEPT ![s] = sv], tpReq' = [tpReq EXCEPT ![s] = rq],
           tpStream' \in TpStreams, tpDirty' \subseteq TpServices, \A t \in TpServices : t # s => (t \in tpDirty' <=> t \in tpDirty),
           tpLeft' \subseteq TpServices, \A t \in TpServices : t # s => (t \in tpLeft' <=> t \in tpLeft),
           TpOne(s, st, sv, rq, s \in tpDirty', s \in tpLeft')
    PROVE  TpInv'
<1>1. TpShapes'
  <2>1. tpReqs \in Nat /\ tpReqs' \in Nat
    BY TpAssumption DEF TpInv, TpShapes
  <2>2. /\ tpStored \in [TpServices -> TpConfs(tpReqs')] /\ tpSvc \in [TpServices -> TpObjects(tpReqs')]
        /\ tpReq \in [TpServices -> TpRequests(tpReqs')]
    BY <2>1, TpGrows DEF TpInv, TpShapes
  <2> QED
    BY <2>2 DEF TpShapes
<1>2. ASSUME NEW t \in TpServices PROVE TpOne(t, tpStored[t], tpSvc[t], tpReq[t], t \in tpDirty, t \in tpLeft)'
  <2>0. DOMAIN tpStored = TpServices /\ DOMAIN tpSvc = TpServices /\ DOMAIN tpReq = TpServices
    BY DEF TpInv, TpShapes
  <2>1. CASE t = s
    <3>1. tpStored'[t] = st /\ tpSvc'[t] = sv /\ tpReq'[t] = rq
      BY <2>0, <2>1
    <3> QED
      BY <3>1, <2>1 DEF TpOne, TpWithin, TpTask, TpRuns, TpSame
  <2>2. CASE t # s
    <3>1. /\ tpStored'[t] = tpStored[t] /\ tpSvc'[t] = tpSvc[t] /\ tpReq'[t] = tpReq[t] /\ (t \in tpDirty' <=> t \in tpDirty)
          /\ (t \in tpLeft' <=> t \in tpLeft)
      BY <2>0, <2>2
    <3>2. TpOne(t, tpStored[t], tpSvc[t], tpReq[t], t \in tpDirty, t \in tpLeft)
      BY DEF TpInv
    <3> QED
      BY <3>1, <3>2 DEF TpOne, TpWithin, TpTask, TpRuns, TpSame
  <2> QED
    BY <2>1, <2>2
<1> QED
  BY <1>1, <1>2 DEF TpInv

\* What an action on one service may rely on.
LEMMA TpHas ==
    ASSUME TpInv, NEW s \in TpServices
    PROVE  /\ tpStored[s] \in TpConfs(tpReqs) /\ tpSvc[s] \in TpObjects(tpReqs) /\ tpReq[s] \in TpRequests(tpReqs)
           /\ tpReqs \in 0..MaxTpReqs /\ tpReqs \in Nat /\ tpFaults \in 0..MaxTpFaults /\ tpStream \in TpStreams /\ tpDirty \subseteq TpServices /\ tpLeft \subseteq TpServices
           /\ TpOne(s, tpStored[s], tpSvc[s], tpReq[s], s \in tpDirty, s \in tpLeft)
           /\ tpStored = [tpStored EXCEPT ![s] = tpStored[s]] /\ tpSvc = [tpSvc EXCEPT ![s] = tpSvc[s]]
           /\ tpReq = [tpReq EXCEPT ![s] = tpReq[s]]
BY DEF TpInv, TpShapes

\* The same without a new request.
LEMMA TpStays ==
    ASSUME TpInv, NEW s \in TpServices, UNCHANGED tpReqs, tpFaults' \in 0..MaxTpFaults,
           NEW st \in TpConfs(tpReqs), NEW sv \in TpObjects(tpReqs), NEW rq \in TpRequests(tpReqs),
           tpStored' = [tpStored EXCEPT ![s] = st], tpSvc' = [tpSvc EXCEPT ![s] = sv], tpReq' = [tpReq EXCEPT ![s] = rq],
           tpStream' \in TpStreams, tpDirty' \subseteq TpServices, \A t \in TpServices : t # s => (t \in tpDirty' <=> t \in tpDirty),
           tpLeft' \subseteq TpServices, \A t \in TpServices : t # s => (t \in tpLeft' <=> t \in tpLeft),
           TpOne(s, st, sv, rq, s \in tpDirty', s \in tpLeft')
    PROVE  TpInv'
<1>1. tpReqs <= tpReqs' /\ tpReqs' \in 0..MaxTpReqs
  BY TpHas
<1>2. st \in TpConfs(tpReqs') /\ sv \in TpObjects(tpReqs') /\ rq \in TpRequests(tpReqs')
  OBVIOUS
<1> QED
  BY <1>1, <1>2, TpOnly

\* A request that only moves on.
LEMMA TpGoes ==
    ASSUME TpInv, NEW s \in TpServices, NEW p \in TpPcs
    PROVE  /\ [tpReq[s] EXCEPT !.pc = p] \in TpRequests(tpReqs) /\ [tpReq[s] EXCEPT !.pc = p].pc = p
           /\ [tpReq[s] EXCEPT !.pc = p].kind = tpReq[s].kind /\ [tpReq[s] EXCEPT !.pc = p].old = tpReq[s].old
           /\ [tpReq[s] EXCEPT !.pc = p].new = tpReq[s].new
           /\ Goto(s, p) => tpReq' = [tpReq EXCEPT ![s] = [tpReq[s] EXCEPT !.pc = p]]
BY DEF TpInv, TpShapes, TpRequests, Goto

\* An update begins.
LEMMA TpBegins == ASSUME TpInv, NEW s \in TpServices, BeginUpdate(s) PROVE TpInv'
<1>1. PICK new \in Merged(s) :
         tpReq' = [tpReq EXCEPT ![s] = [pc |-> "persist", kind |-> "update", old |-> tpStored[s], new |-> new, seen |-> "none"]]
  BY DEF BeginUpdate
<1> DEFINE rq == [pc |-> "persist", kind |-> "update", old |-> tpStored[s], new |-> new, seen |-> "none"]
<1>2. tpReqs' = tpReqs + 1 /\ tpReqs' \in 0..MaxTpReqs /\ tpReqs <= tpReqs' /\ tpReqs' \in Nat /\ tpReqs \in Nat
  BY TpHas, TpAssumption DEF BeginUpdate
<1>3. /\ tpStored[s] \in TpConfs(tpReqs') /\ tpSvc[s] \in TpObjects(tpReqs')
      /\ tpStored[s] \in TpConfs(tpReqs)
  BY <1>2, TpHas, TpGrows
<1>4. new \in TpConfs(tpReqs') /\ new.codec \in TpCodecs[s]
  BY <1>2, <1>3, TpAssumption DEF Merged, TpConfs, TpAllCodecs
<1>5. rq \in TpRequests(tpReqs') /\ rq.pc = "persist" /\ rq.kind = "update" /\ rq.old = tpStored[s] /\ rq.new = new
  BY <1>3, <1>4 DEF TpRequests, TpPcs
<1> HIDE DEF rq
<1>6. tpReq[s].pc = "idle"
  BY DEF BeginUpdate
<1>7. TpOne(s, tpStored[s], tpSvc[s], rq, s \in tpDirty, s \in tpLeft)
  <2>1. TpOne(s, tpStored[s], tpSvc[s], tpReq[s], s \in tpDirty, s \in tpLeft)
    BY TpHas
  <2> QED
    BY <2>1, <1>4, <1>5, <1>6 DEF TpOne, TpWithin, TpTask, TpRuns, TpSame
<1>8. tpReq' = [tpReq EXCEPT ![s] = rq] /\ UNCHANGED <<tpStored, tpSvc, tpStream, tpDirty, tpLeft, tpFaults>>
  BY <1>1 DEF BeginUpdate, rq
<1> QED
  BY <1>2, <1>3, <1>5, <1>7, <1>8, TpHas, TpOnly

\* An update is stored, or storing it fails.
LEMMA TpPersists == ASSUME TpInv, NEW s \in TpServices, Persist(s) PROVE TpInv'
<1>u. UNCHANGED <<tpSvc, tpStream, tpDirty, tpLeft, tpReqs>> /\ tpReq[s].pc = "persist" /\ "validate" \in TpPcs
  BY DEF Persist, TpPcs
<1>o. TpOne(s, tpStored[s], tpSvc[s], tpReq[s], s \in tpDirty, s \in tpLeft)
  BY TpHas
<1>1. CASE tpStored' = [tpStored EXCEPT ![s] = tpReq[s].new] /\ Goto(s, "validate") /\ UNCHANGED tpFaults
  <2> DEFINE rq == [tpReq[s] EXCEPT !.pc = "validate"]
  <2>1. /\ rq \in TpRequests(tpReqs) /\ rq.pc = "validate" /\ rq.kind = tpReq[s].kind
        /\ rq.old = tpReq[s].old /\ rq.new = tpReq[s].new /\ tpReq' = [tpReq EXCEPT ![s] = rq]
    BY <1>1, <1>u, TpGoes
  <2> HIDE DEF rq
  <2>2. tpReq[s].new \in TpConfs(tpReqs)
    BY TpHas DEF TpRequests
  <2>3. TpOne(s, tpReq[s].new, tpSvc[s], rq, s \in tpDirty, s \in tpLeft)
    BY <1>o, <1>u, <2>1 DEF TpOne, TpWithin, TpTask, TpRuns, TpSame
  <2> QED
    BY <1>1, <1>u, <2>1, <2>2, <2>3, TpHas, TpStays
<1>2. CASE TpFault /\ Done(s) /\ UNCHANGED tpStored
  <2>1. tpFaults' \in 0..MaxTpFaults
    BY <1>2, TpHas, TpAssumption DEF TpFault
  <2>2. TpOne(s, tpStored[s], tpSvc[s], NoRequest(s), s \in tpDirty, s \in tpLeft)
    BY <1>o, <1>u, TpFirstIs, TpHas DEF TpOne, TpWithin, TpTask, TpRuns
  <2>3. NoRequest(s) \in TpRequests(tpReqs)
    BY TpFirstIs, TpHas
  <2> QED
    BY <1>2, <1>u, <2>1, <2>2, <2>3, TpHas, TpStays DEF Done
<1> QED
  BY <1>1, <1>2 DEF Persist

\* A start or stop begins.
LEMMA TpAsks == ASSUME TpInv, NEW s \in TpServices, BeginStartStop(s) PROVE TpInv'
<1>1. PICK kind \in {"start", "stop"} :
         tpReq' = [tpReq EXCEPT ![s] = [pc |-> "validate", kind |-> kind, old |-> RuntimeConfig[s],
                                        new |-> [tpStored[s] EXCEPT !.enabled = (kind = "start")], seen |-> "none"]]
  BY DEF BeginStartStop
<1> DEFINE old == RuntimeConfig[s]
           new == [tpStored[s] EXCEPT !.enabled = (kind = "start")]
           rq == [pc |-> "validate", kind |-> kind, old |-> old, new |-> new, seen |-> "none"]
<1>2. tpReqs' = tpReqs + 1 /\ tpReqs' \in 0..MaxTpReqs /\ tpReqs <= tpReqs' /\ tpReqs' \in Nat /\ tpReqs \in Nat
  BY TpHas, TpAssumption DEF BeginStartStop
<1>3. tpStored[s] \in TpConfs(tpReqs') /\ tpSvc[s] \in TpObjects(tpReqs')
  BY <1>2, TpHas, TpGrows
<1>4. /\ old \in TpConfs(tpReqs') /\ old.codec = tpStored[s].codec
      /\ new \in TpConfs(tpReqs') /\ new.codec = tpStored[s].codec /\ new.version = tpStored[s].version
  <2>1. old = [tpStored[s] EXCEPT !.enabled = Serving(s)] /\ Serving(s) \in BOOLEAN
    BY DEF RuntimeConfig, Serving
  <2> QED
    BY <1>3, <2>1 DEF TpConfs
<1> HIDE DEF old, new
<1>5. rq \in TpRequests(tpReqs') /\ rq.pc = "validate" /\ rq.kind = kind /\ rq.old = old /\ rq.new = new
  BY <1>4 DEF TpRequests, TpPcs
<1> HIDE DEF rq
<1>6. tpReq[s].pc = "idle" /\ kind # "update"
  BY DEF BeginStartStop
<1>7. TpOne(s, tpStored[s], tpSvc[s], rq, s \in tpDirty, s \in tpLeft)
  <2>1. TpOne(s, tpStored[s], tpSvc[s], tpReq[s], s \in tpDirty, s \in tpLeft)
    BY TpHas
  <2> QED
    BY <2>1, <1>4, <1>5, <1>6 DEF TpOne, TpWithin, TpTask, TpRuns, TpSame
<1>8. tpReq' = [tpReq EXCEPT ![s] = rq] /\ UNCHANGED <<tpStored, tpSvc, tpStream, tpDirty, tpLeft, tpFaults>>
  BY <1>1 DEF BeginStartStop, rq, old, new
<1> QED
  BY <1>2, <1>3, <1>5, <1>7, <1>8, TpHas, TpOnly

\* New keys of RustDesk: its version is not one a restart applies.
LEMMA TpRegenerates == ASSUME TpInv, Regenerate PROVE TpInv'
<1> DEFINE s == "rustdesk"
           st == [tpStored[s] EXCEPT !.version = @ + 1]
<1>1. s \in TpServices /\ UNCHANGED <<tpSvc, tpReq, tpStream, tpDirty, tpLeft, tpFaults>>
  BY DEF Regenerate
<1>2. tpReqs' = tpReqs + 1 /\ tpReqs' \in 0..MaxTpReqs /\ tpReqs <= tpReqs' /\ tpReqs' \in Nat /\ tpReqs \in Nat
  BY <1>1, TpHas, TpAssumption DEF Regenerate
<1>3. /\ tpSvc[s] \in TpObjects(tpReqs') /\ tpReq[s] \in TpRequests(tpReqs') /\ tpStored[s] \in TpConfs(tpReqs)
  BY <1>1, <1>2, TpHas, TpGrows
<1>4. st \in TpConfs(tpReqs') /\ st.codec = tpStored[s].codec
  BY <1>2, <1>3 DEF TpConfs
<1>5. tpStored' = [tpStored EXCEPT ![s] = st]
  BY <1>1 DEF Regenerate, TpInv, TpShapes
<1> HIDE DEF st
<1>6. TpOne(s, st, tpSvc[s], tpReq[s], s \in tpDirty, s \in tpLeft)
  <2>1. TpOne(s, tpStored[s], tpSvc[s], tpReq[s], s \in tpDirty, s \in tpLeft)
    BY <1>1, TpHas
  <2> QED
    BY <2>1, <1>4 DEF TpOne, TpWithin, TpTask, TpRuns, TpSame
<1>7. /\ tpReq' = [tpReq EXCEPT ![s] = tpReq[s]] /\ tpSvc' = [tpSvc EXCEPT ![s] = tpSvc[s]] /\ tpStream' \in TpStreams
      /\ tpFaults' \in 0..MaxTpFaults /\ tpDirty' \subseteq TpServices /\ tpLeft' \subseteq TpServices
  BY <1>1, TpHas
<1> QED
  BY <1>1, <1>2, <1>3, <1>4, <1>5, <1>6, <1>7, TpOnly

\* A request is validated again; a refused update is remembered.
LEMMA TpValidates == ASSUME TpInv, NEW s \in TpServices, Validate(s) PROVE TpInv'
<1>u. UNCHANGED <<tpStored, tpSvc, tpStream, tpLeft, tpReqs, tpFaults>> /\ tpReq[s].pc = "validate"
  BY DEF Validate
<1>o. TpOne(s, tpStored[s], tpSvc[s], tpReq[s], s \in tpDirty, s \in tpLeft)
  BY TpHas
<1>1. ASSUME NEW p \in {"prepare", "guard"}, Goto(s, p), tpReq[s].kind \in {"update", "start", "stop"}, UNCHANGED tpDirty PROVE TpInv'
  <2> DEFINE rq == [tpReq[s] EXCEPT !.pc = p]
  <2>0. p \in TpPcs
    BY <1>1 DEF TpPcs
  <2>1. /\ rq \in TpRequests(tpReqs) /\ rq.pc = p /\ rq.kind = tpReq[s].kind
        /\ rq.old = tpReq[s].old /\ rq.new = tpReq[s].new /\ tpReq' = [tpReq EXCEPT ![s] = rq]
    BY <1>1, <2>0, TpGoes
  <2> HIDE DEF rq
  <2>3. TpOne(s, tpStored[s], tpSvc[s], rq, s \in tpDirty, s \in tpLeft)
    BY <1>o, <1>u, <1>1, <2>1 DEF TpOne, TpWithin, TpTask, TpRuns, TpSame
  <2> QED
    BY <1>1, <1>u, <2>1, <2>3, TpHas, TpStays
<1>2. CASE /\ Done(s)
           /\ tpDirty' = IF tpReq[s].kind = "update" /\ NeedRestart(tpReq[s]) THEN tpDirty \cup {s} ELSE tpDirty
  <2>1. TpOne(s, tpStored[s], tpSvc[s], NoRequest(s), s \in tpDirty', s \in tpLeft')
    <3>1. TpWithin(s, tpStored[s], tpSvc[s], NoRequest(s)) /\ TpTask(s, tpSvc[s], NoRequest(s), s \in tpLeft)
      BY <1>o, <1>u, TpFirstIs, TpHas DEF TpOne, TpWithin, TpTask
    <3>2. tpSvc[s].task = "run" /\ s \notin tpDirty' => TpSame(s, tpSvc[s].cfg, tpStored[s])
      BY <1>o, <1>u, <1>2 DEF TpOne, TpRuns, TpSame, NeedRestart
    <3> QED
      BY <3>1, <3>2, <1>u, TpFirstIs, TpHas DEF TpOne, TpRuns
  <2>2. NoRequest(s) \in TpRequests(tpReqs)
    BY TpFirstIs, TpHas
  <2> QED
    <3>1. /\ tpStored' = [tpStored EXCEPT ![s] = tpStored[s]] /\ tpSvc' = [tpSvc EXCEPT ![s] = tpSvc[s]]
          /\ tpStored[s] \in TpConfs(tpReqs) /\ tpSvc[s] \in TpObjects(tpReqs) /\ tpReq' = [tpReq EXCEPT ![s] = NoRequest(s)]
          /\ tpStream' \in TpStreams /\ tpFaults' \in 0..MaxTpFaults
      BY <1>2, <1>u, TpHas DEF Done
    <3>2. /\ tpDirty' \subseteq TpServices /\ \A t \in TpServices : t # s => (t \in tpDirty' <=> t \in tpDirty)
          /\ tpLeft' \subseteq TpServices /\ \A t \in TpServices : t # s => (t \in tpLeft' <=> t \in tpLeft)
      BY <1>2, <1>u, TpHas
    <3> QED
      BY <1>u, <2>1, <2>2, <3>1, <3>2, TpStays
<1>3. tpReq[s].kind \in {"none", "update", "start", "stop"}
  BY TpHas DEF TpRequests
<1>4. tpReq[s].kind # "none"
  BY <1>o, <1>u DEF TpOne, TpTask
<1> QED
  BY <1>1, <1>2, <1>3, <1>4 DEF Validate

\* The lock of running services is a codec or none.
LEMMA CodecLocks ==
    ASSUME NEW cfg, NEW n \in Nat, cfg \in [TpServices -> TpConfs(n)]
    PROVE  CodecLock(cfg) \in {"none", "h264", "h265", "mjpeg"}
<1> DEFINE on == {s \in TpServices : cfg[s].enabled}
<1>1. on # {} => FirstOf(on) \in TpServices
  BY TpAssumption DEF FirstOf
<1> QED
  BY <1>1 DEF CodecLock, TpConfs, TpAllCodecs

\* Enforcing a lock leaves a well-typed stream.
LEMMA EnforcedIs ==
    ASSUME NEW stream \in TpStreams, NEW lock \in {"none", "h264", "h265", "mjpeg"}
    PROVE  Enforced(stream, lock) \in TpStreams /\ [stream EXCEPT !.lock = lock] \in TpStreams
BY DEF Enforced, TpStreams

\* The configuration of what runs is a configuration.
LEMMA RuntimeIs == TpInv => RuntimeConfig \in [TpServices -> TpConfs(tpReqs)]
<1> SUFFICES ASSUME TpInv, NEW s \in TpServices PROVE [tpStored[s] EXCEPT !.enabled = Serving(s)] \in TpConfs(tpReqs)
  BY DEF RuntimeConfig
<1>1. Serving(s) \in BOOLEAN /\ tpStored[s] \in TpConfs(tpReqs)
  BY TpHas DEF Serving
<1> QED
  BY <1>1 DEF TpConfs

\* The stream is switched ahead of a VNC start.
LEMMA TpPrepares == ASSUME TpInv, NEW s \in TpServices, Prepare(s) PROVE TpInv'
<1>u. UNCHANGED <<tpStored, tpSvc, tpDirty, tpLeft, tpReqs, tpFaults>> /\ tpReq[s].pc = "prepare" /\ "guard" \in TpPcs
  BY DEF Prepare, TpPcs
<1> DEFINE new == [tpReq[s].new EXCEPT !.enabled = TRUE]
           lock == CodecLock([RuntimeConfig EXCEPT ![s] = new])
           rq == [tpReq[s] EXCEPT !.pc = "guard"]
<1>0. tpReqs \in Nat /\ tpReq[s].new \in TpConfs(tpReqs)
  BY TpHas DEF TpRequests
<1>1. new \in TpConfs(tpReqs)
  BY <1>0 DEF TpConfs
<1> HIDE DEF new
<1>2. lock \in {"none", "h264", "h265", "mjpeg"}
  BY <1>0, <1>1, RuntimeIs, CodecLocks
<1>3. tpStream' \in {tpStream, Enforced(tpStream, lock)}
  BY DEF Prepare, new
<1> HIDE DEF lock
<1>4. tpStream' \in TpStreams
  <2>1. tpStream \in TpStreams
    BY TpHas
  <2> QED
    BY <1>2, <1>3, <2>1, EnforcedIs
<1>5. /\ rq \in TpRequests(tpReqs) /\ rq.pc = "guard" /\ rq.kind = tpReq[s].kind
      /\ rq.old = tpReq[s].old /\ rq.new = tpReq[s].new /\ tpReq' = [tpReq EXCEPT ![s] = rq]
  BY <1>u, TpGoes DEF Prepare
<1> HIDE DEF rq
<1>6. TpOne(s, tpStored[s], tpSvc[s], rq, s \in tpDirty, s \in tpLeft)
  <2>1. TpOne(s, tpStored[s], tpSvc[s], tpReq[s], s \in tpDirty, s \in tpLeft)
    BY TpHas
  <2> QED
    BY <2>1, <1>u, <1>5 DEF TpOne, TpWithin, TpTask, TpRuns, TpSame
<1> QED
  <2>1. /\ tpStored' = [tpStored EXCEPT ![s] = tpStored[s]] /\ tpSvc' = [tpSvc EXCEPT ![s] = tpSvc[s]]
        /\ tpStored[s] \in TpConfs(tpReqs) /\ tpSvc[s] \in TpObjects(tpReqs)
        /\ tpFaults' \in 0..MaxTpFaults /\ tpDirty' \subseteq TpServices /\ tpLeft' \subseteq TpServices
    BY <1>u, TpHas
  <2> QED
    BY <1>u, <1>4, <1>5, <1>6, <2>1, TpStays

\* What the branches of apply do with the object.
LEMMA TpDecides ==
    ASSUME NEW s \in TpServices, tpReq[s].kind \in {"update", "start", "stop"}
    PROVE  /\ Decide(s) \in {"stopping", "enforce", "starting"}
           /\ Decide(s) = "stopping" => tpSvc[s].obj
           /\ Decide(s) = "starting" => ~(tpSvc[s].obj /\ Listening(s)) /\ tpReq[s].kind = "start"
           /\ Decide(s) = "enforce" /\ tpReq[s].kind = "update" => ~tpSvc[s].obj \/ ~NeedRestart(tpReq[s])
           /\ Decide(s) = "enforce" /\ tpReq[s].kind = "stop" => ~tpSvc[s].obj
BY DEF Decide

\* A new configuration, and what its connections are served with.
LEMMA TpConfigures ==
    ASSUME NEW s \in TpServices, NEW n \in Nat, NEW svc \in TpObjects(n), NEW cfg \in TpConfs(n)
    PROVE  /\ Configured(s, svc, cfg) \in TpObjects(n) /\ Configured(s, svc, cfg).cfg = cfg
           /\ Configured(s, svc, cfg).obj = svc.obj /\ Configured(s, svc, cfg).task = svc.task
           /\ Configured(s, svc, cfg).status = svc.status /\ Configured(s, svc, cfg).handle = svc.handle
           /\ Configured(s, svc, cfg).loose = svc.loose
           /\ s # "rustdesk" => Configured(s, svc, cfg).conn = cfg
           /\ s = "rustdesk" => Configured(s, svc, cfg).conn = svc.conn /\ Configured(s, svc, cfg).updated
BY DEF Configured, TpObjects

\* The guard is taken and the object configured.
LEMMA TpTakes == ASSUME TpInv, NEW s \in TpServices, TakeGuard(s) PROVE TpInv'
<1> DEFINE next == Decide(s)
           cfg == [tpReq[s].new EXCEPT !.enabled = TRUE]
           rq == [tpReq[s] EXCEPT !.pc = next]
           made == [tpSvc[s] EXCEPT !.obj = TRUE, !.cfg = cfg, !.conn = cfg]
<1>u. UNCHANGED <<tpStored, tpStream, tpDirty, tpLeft, tpReqs, tpFaults>> /\ tpReq[s].pc = "guard"
  BY DEF TakeGuard
<1>o. TpOne(s, tpStored[s], tpSvc[s], tpReq[s], s \in tpDirty, s \in tpLeft)
  BY TpHas
<1>k. tpReq[s].kind \in {"update", "start", "stop"}
  BY <1>o, <1>u DEF TpOne, TpTask
<1>n. tpReqs \in Nat /\ tpReq[s].new \in TpConfs(tpReqs) /\ tpSvc[s] \in TpObjects(tpReqs)
  BY TpHas DEF TpRequests
<1>c. cfg \in TpConfs(tpReqs) /\ cfg.codec = tpReq[s].new.codec /\ cfg.version = tpReq[s].new.version
  BY <1>n DEF TpConfs
<1>d. /\ next \in {"stopping", "enforce", "starting"}
      /\ next = "stopping" => tpSvc[s].obj
      /\ next = "starting" => ~(tpSvc[s].obj /\ Listening(s)) /\ tpReq[s].kind = "start"
      /\ next = "enforce" /\ tpReq[s].kind = "update" => ~tpSvc[s].obj \/ ~NeedRestart(tpReq[s])
  BY <1>k, TpDecides
<1>p. next \in TpPcs /\ Goto(s, next)
  BY <1>d DEF TpPcs, TakeGuard
<1>s. PICK sv : /\ tpSvc' = [tpSvc EXCEPT ![s] = sv]
                /\ next = "starting" /\ ~tpSvc[s].obj => sv = made
                /\ next = "starting" /\ tpSvc[s].obj => sv = Configured(s, tpSvc[s], cfg)
                /\ next = "stopping" /\ tpReq[s].kind # "stop" /\ s # "rustdesk" => sv = Configured(s, tpSvc[s], cfg)
                /\ next # "starting" /\ ~(next = "stopping" /\ tpReq[s].kind # "stop" /\ s # "rustdesk") => sv = tpSvc[s]
  <2> DEFINE sv == CASE next = "starting" /\ ~tpSvc[s].obj -> made
                     [] next = "starting" /\ tpSvc[s].obj -> Configured(s, tpSvc[s], cfg)
                     [] next = "stopping" /\ tpReq[s].kind # "stop" /\ s # "rustdesk" -> Configured(s, tpSvc[s], cfg)
                     [] OTHER -> tpSvc[s]
  <2>1. tpSvc' = [tpSvc EXCEPT ![s] = sv]
    <3>1. tpSvc' = [tpSvc EXCEPT ![s] =
                 CASE next = "starting" /\ ~tpSvc[s].obj -> [@ EXCEPT !.obj = TRUE, !.cfg = cfg, !.conn = cfg]
                   [] next = "starting" /\ tpSvc[s].obj -> Configured(s, @, cfg)
                   [] next = "stopping" /\ tpReq[s].kind # "stop" /\ s # "rustdesk" -> Configured(s, @, cfg)
                   [] OTHER -> @]
      BY Zenon DEF TakeGuard
    <3> QED
      BY <3>1
  <2> HIDE DEF next, cfg
  <2>2. /\ next = "starting" /\ ~tpSvc[s].obj => sv = made
        /\ next = "starting" /\ tpSvc[s].obj => sv = Configured(s, tpSvc[s], cfg)
        /\ next = "stopping" /\ tpReq[s].kind # "stop" /\ s # "rustdesk" => sv = Configured(s, tpSvc[s], cfg)
        /\ next # "starting" /\ ~(next = "stopping" /\ tpReq[s].kind # "stop" /\ s # "rustdesk") => sv = tpSvc[s]
    OBVIOUS
  <2> HIDE DEF sv
  <2> QED
    BY <2>1, <2>2
<1> HIDE DEF next, cfg
<1>r. /\ rq \in TpRequests(tpReqs) /\ rq.pc = next /\ rq.kind = tpReq[s].kind
      /\ rq.old = tpReq[s].old /\ rq.new = tpReq[s].new /\ tpReq' = [tpReq EXCEPT ![s] = rq]
  BY <1>p, TpGoes
<1> HIDE DEF rq
<1>1. CASE next = "starting"
  <2>1. /\ sv \in TpObjects(tpReqs) /\ sv.obj /\ sv.cfg = cfg /\ sv.task = tpSvc[s].task /\ sv.status = tpSvc[s].status
        /\ sv.handle = tpSvc[s].handle /\ sv.loose = tpSvc[s].loose /\ (s # "rustdesk" => sv.conn = cfg)
        /\ (~sv.updated => sv.conn = cfg) /\ sv.conn.codec \in TpCodecs[s]
    <3>0. tpSvc[s].conn.codec \in TpCodecs[s] /\ cfg.codec \in TpCodecs[s]
      BY <1>o, <1>c DEF TpOne, TpWithin
    <3>1. CASE ~tpSvc[s].obj
      BY <3>0, <3>1, <1>1, <1>s, <1>n, <1>c DEF TpObjects
    <3>2. CASE tpSvc[s].obj
      <4>1. sv = Configured(s, tpSvc[s], cfg)
        BY <3>2, <1>1, <1>s
      <4> QED
        BY <4>1, <3>0, <3>2, <1>n, <1>c, TpConfigures
    <3> QED
      BY <3>1, <3>2
  <2>3. s \notin tpLeft => /\ tpSvc[s].task = "none" /\ tpSvc[s].status # "Running" /\ (s = "rustdesk" => ~tpSvc[s].handle)
    <3>1. /\ ~tpSvc[s].obj => tpSvc[s].task = "none" /\ tpSvc[s].status = "Stopped" /\ ~tpSvc[s].handle
          /\ s \notin tpLeft => /\ (tpSvc[s].status = "Running" <=> tpSvc[s].task = "run") /\ tpSvc[s].task # "leaving"
                                /\ (s = "rustdesk" => (tpSvc[s].handle <=> tpSvc[s].task = "run"))
          /\ tpSvc[s].task \in {"none", "run", "leaving"}
      BY <1>o, <1>u, <1>n DEF TpOne, TpTask, TpObjects
    <3> QED
      BY <3>1, <1>1, <1>d DEF Listening
  <2>4. TpWithin(s, tpStored[s], sv, rq)
    BY <1>o, <1>r, <1>c, <2>1 DEF TpOne, TpWithin
  <2>6. TpTask(s, sv, rq, s \in tpLeft)
    BY <1>o, <1>r, <1>1, <2>1, <2>3 DEF TpOne, TpTask
  <2>5. TpRuns(s, tpStored[s], sv, rq, s \in tpDirty)
    BY <1>o, <1>u, <1>r, <1>c, <1>1, <2>1 DEF TpOne, TpRuns, TpSame
  <2> QED
    BY <1>u, <1>r, <1>s, <2>1, <2>4, <2>5, <2>6, TpHas, TpStays DEF TpOne
<1>2. CASE next = "stopping" /\ tpReq[s].kind # "stop" /\ s # "rustdesk"
  <2>0. sv = Configured(s, tpSvc[s], cfg)
    BY <1>2, <1>s
  <2>1. /\ sv \in TpObjects(tpReqs) /\ sv.obj = tpSvc[s].obj /\ sv.cfg = cfg /\ sv.task = tpSvc[s].task /\ sv.status = tpSvc[s].status
        /\ sv.handle = tpSvc[s].handle /\ sv.loose = tpSvc[s].loose /\ sv.conn = cfg
    BY <2>0, <1>2, <1>n, <1>c, TpConfigures
  <2>4. TpOne(s, tpStored[s], sv, rq, s \in tpDirty, s \in tpLeft)
    BY <1>o, <1>u, <1>r, <1>c, <1>2, <1>d, <2>1 DEF TpOne, TpWithin, TpTask, TpRuns, TpSame
  <2> QED
    BY <1>u, <1>r, <1>s, <2>1, <2>4, TpHas, TpStays
<1>3. CASE next # "starting" /\ ~(next = "stopping" /\ tpReq[s].kind # "stop" /\ s # "rustdesk")
  <2>2. tpSvc' = [tpSvc EXCEPT ![s] = tpSvc[s]]
    BY <1>s, <1>3
  <2>3. TpWithin(s, tpStored[s], tpSvc[s], rq) /\ TpTask(s, tpSvc[s], rq, s \in tpLeft)
    BY <1>o, <1>u, <1>r, <1>3, <1>d DEF TpOne, TpWithin, TpTask
  <2>4. TpRuns(s, tpStored[s], tpSvc[s], rq, s \in tpDirty)
    <3>1. CASE next = "stopping"
      BY <1>o, <1>u, <1>r, <3>1 DEF TpOne, TpRuns, TpSame
    <3>2. CASE next = "enforce"
      <4>1. tpSvc[s].task = "run" /\ s \notin tpDirty => TpSame(s, tpSvc[s].cfg, tpStored[s])
        BY <1>o, <1>u, <1>d, <3>2 DEF TpOne, TpTask, TpRuns, TpSame, NeedRestart
      <4> QED
        BY <4>1, <1>r, <3>2 DEF TpRuns
    <3> QED
      BY <3>1, <3>2, <1>d, <1>3
  <2> QED
    BY <1>u, <1>r, <1>n, <2>2, <2>3, <2>4, TpHas, TpStays DEF TpOne
<1> QED
  BY <1>1, <1>2, <1>3

\* The listener is told to leave.
LEMMA TpSignals == ASSUME TpInv, NEW s \in TpServices, SignalStop(s) PROVE TpInv'
<1> DEFINE rq == [tpReq[s] EXCEPT !.pc = "waiting"]
           tk == IF tpSvc[s].task = "run" THEN "leaving" ELSE tpSvc[s].task
           ls == [run |-> 0, leaving |-> tpSvc[s].loose.run + tpSvc[s].loose.leaving]
           sv == [tpSvc[s] EXCEPT !.task = tk, !.loose = ls]
<1>u. UNCHANGED <<tpStored, tpStream, tpDirty, tpLeft, tpReqs, tpFaults>> /\ tpReq[s].pc = "stopping" /\ "waiting" \in TpPcs
  BY DEF SignalStop, TpPcs
<1>r. /\ rq \in TpRequests(tpReqs) /\ rq.pc = "waiting" /\ rq.kind = tpReq[s].kind
      /\ rq.old = tpReq[s].old /\ rq.new = tpReq[s].new /\ tpReq' = [tpReq EXCEPT ![s] = rq]
  BY <1>u, TpGoes DEF SignalStop
<1>n. tpSvc[s] \in TpObjects(tpReqs)
  BY TpHas
<1>t. tk \in {"none", "leaving"} /\ ls \in [run : Nat, leaving : Nat] /\ (tpSvc[s].loose = NoTasks => ls = NoTasks)
  BY <1>n DEF TpObjects, NoTasks
<1>s. tpSvc' = [tpSvc EXCEPT ![s] = sv]
  <2>1. tpSvc' = [tpSvc EXCEPT ![s] = [tpSvc[s] EXCEPT !.task = tk, !.loose = ls]]
    BY TpHas DEF SignalStop
  <2> QED
    BY <2>1
<1> HIDE DEF rq, tk, ls
<1>1. /\ sv \in TpObjects(tpReqs) /\ sv.obj = tpSvc[s].obj /\ sv.cfg = tpSvc[s].cfg /\ sv.task = tk /\ sv.status = tpSvc[s].status
      /\ sv.loose = ls /\ sv.handle = tpSvc[s].handle /\ sv.conn = tpSvc[s].conn /\ sv.updated = tpSvc[s].updated
  BY <1>n, <1>t DEF TpObjects
<1> HIDE DEF sv
<1>o. TpOne(s, tpStored[s], tpSvc[s], tpReq[s], s \in tpDirty, s \in tpLeft)
  BY TpHas
<1>2. TpOne(s, tpStored[s], sv, rq, s \in tpDirty, s \in tpLeft)
  BY <1>o, <1>1, <1>r, <1>t, <1>u DEF TpOne, TpWithin, TpTask, TpRuns, TpSame
<1> QED
  BY <1>u, <1>r, <1>s, <1>1, <1>2, TpHas, TpStays

\* The listener leaves.
LEMMA TpLeaves == ASSUME TpInv, NEW s \in TpServices, TaskLeaves(s) PROVE TpInv'
<1> DEFINE status == IF s = "rustdesk" THEN tpSvc[s].status ELSE "Stopped"
<1>u. UNCHANGED <<tpStored, tpReq, tpStream, tpDirty, tpLeft, tpReqs, tpFaults>>
  BY DEF TaskLeaves
<1>n. tpSvc[s] \in TpObjects(tpReqs) /\ status \in TpStatuses /\ (tpSvc[s].status # "Running" => status # "Running")
      /\ (tpSvc[s].status # "Starting" => status # "Starting")
  BY TpHas DEF TpObjects, TpStatuses
<1>o. TpOne(s, tpStored[s], tpSvc[s], tpReq[s], s \in tpDirty, s \in tpLeft)
  BY TpHas
<1>1. CASE tpSvc[s].task = "leaving" /\ tpSvc' = [tpSvc EXCEPT ![s].task = "none", ![s].status = IF s = "rustdesk" THEN @ ELSE "Stopped"]
  <2> DEFINE sv == [tpSvc[s] EXCEPT !.task = "none", !.status = status]
  <2>s. tpSvc' = [tpSvc EXCEPT ![s] = sv]
    BY <1>1, TpHas
  <2> HIDE DEF status
  <2>1. /\ sv \in TpObjects(tpReqs) /\ sv.obj = tpSvc[s].obj /\ sv.cfg = tpSvc[s].cfg /\ sv.task = "none" /\ sv.status = status
        /\ sv.loose = tpSvc[s].loose /\ sv.handle = tpSvc[s].handle /\ sv.conn = tpSvc[s].conn /\ sv.updated = tpSvc[s].updated
    BY <1>n DEF TpObjects
  <2> HIDE DEF sv
  <2>p. tpSvc[s].obj /\ (s \notin tpLeft => tpReq[s].pc = "waiting")
    BY <1>o, <1>1 DEF TpOne, TpTask
  <2>2. TpOne(s, tpStored[s], sv, tpReq[s], s \in tpDirty, s \in tpLeft)
    BY <1>o, <1>n, <2>p, <2>1 DEF TpOne, TpWithin, TpTask, TpRuns, TpSame
  <2> QED
    BY <1>u, <2>s, <2>1, <2>2, TpHas, TpStays
<1>2. CASE /\ tpSvc[s].loose.leaving > 0
           /\ tpSvc' = [tpSvc EXCEPT ![s].loose.leaving = @ - 1, ![s].status = IF s = "rustdesk" THEN @ ELSE "Stopped"]
  <2> DEFINE ls == [tpSvc[s].loose EXCEPT !.leaving = @ - 1]
             sv == [tpSvc[s] EXCEPT !.loose = ls, !.status = status]
  <2>s. tpSvc' = [tpSvc EXCEPT ![s] = sv]
    BY <1>2, TpHas
  <2>l. ls \in [run : Nat, leaving : Nat]
    <3>1. tpSvc[s].loose \in [run : Nat, leaving : Nat]
      BY <1>n DEF TpObjects
    <3> QED
      BY <3>1, <1>2
  <2> HIDE DEF status, ls
  <2>1. /\ sv \in TpObjects(tpReqs) /\ sv.obj = tpSvc[s].obj /\ sv.cfg = tpSvc[s].cfg /\ sv.task = tpSvc[s].task
        /\ sv.handle = tpSvc[s].handle /\ sv.conn = tpSvc[s].conn /\ sv.updated = tpSvc[s].updated
    BY <1>n, <2>l DEF TpObjects
  <2> HIDE DEF sv
  <2>p. tpSvc[s].obj /\ s \in tpLeft
    <3>1. tpSvc[s].loose # NoTasks
      BY <1>2 DEF NoTasks
    <3> QED
      BY <3>1, <1>o DEF TpOne, TpTask
  <2>2. TpOne(s, tpStored[s], sv, tpReq[s], s \in tpDirty, s \in tpLeft)
    BY <1>o, <2>p, <2>1 DEF TpOne, TpWithin, TpTask, TpRuns, TpSame
  <2> QED
    BY <1>u, <2>s, <2>1, <2>2, TpHas, TpStays
<1> QED
  BY <1>1, <1>2 DEF TaskLeaves

\* Stop has joined the listener.
LEMMA TpJoins == ASSUME TpInv, NEW s \in TpServices, TpJoined(s) PROVE TpInv'
<1>u. UNCHANGED <<tpStored, tpStream, tpReqs, tpFaults>> /\ tpReq[s].pc = "waiting" /\ "enforce" \in TpPcs /\ "starting" \in TpPcs
  BY DEF TpJoined, TpPcs
<1>o. TpOne(s, tpStored[s], tpSvc[s], tpReq[s], s \in tpDirty, s \in tpLeft)
  BY TpHas
<1>n. tpReqs \in Nat /\ tpReq[s].new \in TpConfs(tpReqs) /\ tpSvc[s] \in TpObjects(tpReqs)
  BY TpHas DEF TpRequests
<1>1. CASE tpReq[s].kind = "stop"
  <2> DEFINE rq == [tpReq[s] EXCEPT !.pc = "enforce"]
  <2>1. /\ rq \in TpRequests(tpReqs) /\ rq.pc = "enforce" /\ rq.kind = tpReq[s].kind
        /\ rq.old = tpReq[s].old /\ rq.new = tpReq[s].new /\ tpReq' = [tpReq EXCEPT ![s] = rq]
    BY <1>1, <1>u, TpGoes DEF TpJoined
  <2> HIDE DEF rq
  <2>2. /\ tpSvc' = [tpSvc EXCEPT ![s] = NoService(s)] /\ tpDirty' = tpDirty \ {s} /\ tpLeft' = tpLeft \ {s}
        /\ NoService(s) \in TpObjects(tpReqs) /\ TpFirst(s).codec \in TpCodecs[s]
        /\ NoService(s).cfg = TpFirst(s) /\ NoService(s).conn = TpFirst(s) /\ ~NoService(s).updated
        /\ ~NoService(s).obj /\ NoService(s).task = "none" /\ NoService(s).status = "Stopped"
        /\ ~NoService(s).handle /\ NoService(s).loose = NoTasks
    BY <1>1, <1>n, TpFirstIs DEF TpJoined
  <2>3. TpOne(s, tpStored[s], NoService(s), rq, s \in tpDirty', s \in tpLeft')
    BY <1>o, <2>1, <2>2 DEF TpOne, TpWithin, TpTask, TpRuns
  <2> QED
    BY <1>u, <2>1, <2>2, <2>3, TpHas, TpStays
<1>2. CASE tpReq[s].kind # "stop"
  <2> DEFINE rq == [tpReq[s] EXCEPT !.pc = "starting"]
             cfg == [tpReq[s].new EXCEPT !.enabled = TRUE]
             svc == [tpSvc[s] EXCEPT !.task = "none", !.handle = FALSE, !.status = "Stopped"]
             sv == Configured(s, svc, cfg)
  <2>1. /\ rq \in TpRequests(tpReqs) /\ rq.pc = "starting" /\ rq.kind = tpReq[s].kind
        /\ rq.old = tpReq[s].old /\ rq.new = tpReq[s].new /\ tpReq' = [tpReq EXCEPT ![s] = rq]
    BY <1>2, <1>u, TpGoes DEF TpJoined
  <2>c. cfg \in TpConfs(tpReqs) /\ cfg.codec = tpReq[s].new.codec /\ cfg.version = tpReq[s].new.version
    BY <1>n DEF TpConfs
  <2>2. tpSvc' = [tpSvc EXCEPT ![s] = sv] /\ UNCHANGED <<tpDirty, tpLeft>>
    BY <1>2, TpHas DEF TpJoined
  <2>4. /\ svc \in TpObjects(tpReqs) /\ svc.obj = tpSvc[s].obj /\ svc.task = "none" /\ svc.status = "Stopped" /\ ~svc.handle
        /\ svc.loose = tpSvc[s].loose /\ svc.conn = tpSvc[s].conn
    BY <1>n DEF TpObjects, TpStatuses
  <2> HIDE DEF rq, cfg, svc
  <2>3. /\ sv \in TpObjects(tpReqs) /\ sv.obj = tpSvc[s].obj /\ sv.cfg = cfg /\ sv.task = "none" /\ sv.status = "Stopped" /\ ~sv.handle
        /\ sv.loose = tpSvc[s].loose
        /\ s # "rustdesk" => sv.conn = cfg
        /\ s = "rustdesk" => sv.conn = tpSvc[s].conn /\ sv.updated
    BY <1>n, <2>c, <2>4, TpConfigures
  <2> HIDE DEF sv
  <2>5. TpOne(s, tpStored[s], sv, rq, s \in tpDirty, s \in tpLeft)
    <3>1. TpWithin(s, tpStored[s], sv, rq)
      BY <1>o, <2>c, <2>1, <2>3 DEF TpOne, TpWithin
    <3>2. TpTask(s, sv, rq, s \in tpLeft)
      BY <1>o, <1>u, <2>1, <2>3 DEF TpOne, TpTask
    <3>3. TpRuns(s, tpStored[s], sv, rq, s \in tpDirty)
      BY <1>o, <1>u, <1>2, <2>c, <2>1, <2>3 DEF TpOne, TpRuns, TpSame
    <3> QED
      BY <3>1, <3>2, <3>3 DEF TpOne
  <2> QED
    BY <1>u, <2>1, <2>2, <2>3, <2>5, TpHas, TpStays
<1> QED
  BY <1>1, <1>2

\* The stream a start prepares is one.
LEMMA TpPrepared == ASSUME TpInv, NEW s \in TpServices PROVE Prepared(s) \in TpStreams
<1>1. tpReqs \in Nat /\ tpSvc[s].cfg.codec \in TpAllCodecs /\ tpStream \in TpStreams
  BY TpHas DEF TpObjects, TpConfs
<1> QED
  BY <1>1 DEF Prepared, TpStreams, TpAllCodecs

\* The service starts, or fails to.
LEMMA TpStartsService == ASSUME TpInv, NEW s \in TpServices, StartService(s) PROVE TpInv'
<1> DEFINE rq == [tpReq[s] EXCEPT !.pc = "enforce"]
<1>u. UNCHANGED <<tpStored, tpReqs>> /\ tpReq[s].pc = "starting" /\ "enforce" \in TpPcs
  BY DEF StartService, TpPcs
<1>o. TpOne(s, tpStored[s], tpSvc[s], tpReq[s], s \in tpDirty, s \in tpLeft)
  BY TpHas
<1>n. tpReqs \in Nat /\ tpSvc[s] \in TpObjects(tpReqs) /\ tpStream \in TpStreams
  BY TpHas
<1>r. /\ rq \in TpRequests(tpReqs) /\ rq.pc = "enforce" /\ rq.kind = tpReq[s].kind
      /\ rq.old = tpReq[s].old /\ rq.new = tpReq[s].new
      /\ Goto(s, "enforce") => tpReq' = [tpReq EXCEPT ![s] = rq]
  BY <1>u, TpGoes
<1> HIDE DEF rq
<1>1. CASE /\ tpSvc' = [tpSvc EXCEPT ![s] = Spawned(@)] /\ tpStream' = Prepared(s)
           /\ Goto(s, "enforce") /\ tpDirty' = tpDirty \ {s}
           /\ tpLeft' = IF tpSvc[s].loose = NoTasks /\ tpSvc[s].task = "none" THEN tpLeft \ {s} ELSE tpLeft
           /\ UNCHANGED tpFaults
  <2> DEFINE sv == Spawned(tpSvc[s])
  <2>1. tpSvc' = [tpSvc EXCEPT ![s] = sv] /\ tpStream' \in TpStreams
    BY <1>1, TpHas, TpPrepared
  <2>2. /\ sv \in TpObjects(tpReqs) /\ sv.obj = tpSvc[s].obj /\ sv.cfg = tpSvc[s].cfg /\ sv.task = "run" /\ sv.status = "Running"
        /\ sv.handle /\ sv.conn = tpSvc[s].conn /\ sv.updated = tpSvc[s].updated
        /\ tpSvc[s].task = "none" => sv.loose = tpSvc[s].loose
    <3>1. tpSvc[s].loose \in [run : Nat, leaving : Nat]
      BY <1>n DEF TpObjects
    <3> DEFINE ls == [run |-> tpSvc[s].loose.run + (IF tpSvc[s].task = "run" THEN 1 ELSE 0), leaving |-> tpSvc[s].loose.leaving]
    <3>2. ls \in [run : Nat, leaving : Nat] /\ (tpSvc[s].task = "none" => ls = tpSvc[s].loose)
      BY <3>1
    <3>3. sv = [tpSvc[s] EXCEPT !.status = "Running", !.task = "run", !.handle = TRUE, !.loose = ls]
      BY DEF Spawned
    <3> HIDE DEF ls
    <3> HIDE DEF sv
    <3> QED
      BY <3>2, <3>3, <1>n DEF TpObjects, TpStatuses
  <2> HIDE DEF sv
  <2>4. TpOne(s, tpStored[s], sv, rq, s \in tpDirty', s \in tpLeft')
    <3>1. TpWithin(s, tpStored[s], sv, rq)
      BY <1>o, <1>r, <2>2 DEF TpOne, TpWithin
    <3>2. TpTask(s, sv, rq, s \in tpLeft')
      <4>1. s \notin tpLeft' => tpSvc[s].loose = NoTasks /\ tpSvc[s].task = "none"
        BY <1>1, <1>o, <1>u DEF TpOne, TpTask
      <4> QED
        BY <4>1, <1>o, <1>u, <1>r, <2>2 DEF TpOne, TpTask
    <3>3. TpRuns(s, tpStored[s], sv, rq, s \in tpDirty')
      BY <1>o, <1>u, <1>r, <2>2 DEF TpOne, TpRuns, TpSame
    <3> QED
      BY <3>1, <3>2, <3>3 DEF TpOne
  <2> QED
    <3>1. /\ tpStored' = [tpStored EXCEPT ![s] = tpStored[s]] /\ tpStored[s] \in TpConfs(tpReqs)
          /\ tpReq' = [tpReq EXCEPT ![s] = rq] /\ tpFaults' \in 0..MaxTpFaults
      BY <1>1, <1>u, <1>r, TpHas
    <3>2. /\ tpDirty' \subseteq TpServices /\ \A t \in TpServices : t # s => (t \in tpDirty' <=> t \in tpDirty)
          /\ tpLeft' \subseteq TpServices /\ \A t \in TpServices : t # s => (t \in tpLeft' <=> t \in tpLeft)
      BY <1>1, TpHas
    <3> QED
      BY <1>u, <1>r, <2>1, <2>2, <2>4, <3>1, <3>2, TpStays
<1>2. CASE TpFault /\ tpSvc' = [tpSvc EXCEPT ![s].status = "Error"] /\ Done(s) /\ UNCHANGED <<tpStream, tpDirty, tpLeft>>
  <2> DEFINE sv == [tpSvc[s] EXCEPT !.status = "Error"]
  <2>1. tpSvc' = [tpSvc EXCEPT ![s] = sv] /\ tpReq' = [tpReq EXCEPT ![s] = NoRequest(s)] /\ NoRequest(s) \in TpRequests(tpReqs)
    BY <1>2, <1>n, TpHas, TpFirstIs DEF Done
  <2>2. /\ sv \in TpObjects(tpReqs) /\ sv.obj = tpSvc[s].obj /\ sv.cfg = tpSvc[s].cfg /\ sv.task = tpSvc[s].task /\ sv.status = "Error"
        /\ sv.handle = tpSvc[s].handle /\ sv.loose = tpSvc[s].loose /\ sv.conn = tpSvc[s].conn /\ sv.updated = tpSvc[s].updated
    BY <1>n DEF TpObjects, TpStatuses
  <2> HIDE DEF sv
  <2>3. tpFaults' \in 0..MaxTpFaults
    BY <1>2, TpHas, TpAssumption DEF TpFault
  <2>4. TpOne(s, tpStored[s], sv, NoRequest(s), s \in tpDirty, s \in tpLeft)
    <3>1. NoRequest(s).pc = "idle" /\ NoRequest(s).old.codec \in TpCodecs[s] /\ NoRequest(s).new.codec \in TpCodecs[s]
      BY <1>n, TpFirstIs
    <3> QED
      BY <3>1, <1>o, <1>u, <2>2 DEF TpOne, TpWithin, TpTask, TpRuns
  <2> QED
    <3>1. /\ tpStored' = [tpStored EXCEPT ![s] = tpStored[s]] /\ tpStored[s] \in TpConfs(tpReqs)
          /\ tpStream' \in TpStreams /\ tpDirty' = tpDirty /\ tpLeft' = tpLeft
          /\ tpDirty' \subseteq TpServices /\ tpLeft' \subseteq TpServices
      BY <1>2, <1>u, TpHas
    <3>2. TpOne(s, tpStored[s], sv, NoRequest(s), s \in tpDirty', s \in tpLeft')
      BY <2>4, <3>1
    <3> QED
      BY <1>u, <2>1, <2>2, <2>3, <3>1, <3>2, TpStays
<1>3. CASE /\ (s = "rustdesk" /\ TpFault) \/ (tpSvc[s].status = "Running" /\ UNCHANGED tpFaults)
           /\ Goto(s, "enforce") /\ UNCHANGED <<tpSvc, tpStream, tpDirty, tpLeft>>
  <2>3. tpFaults' \in 0..MaxTpFaults
    BY <1>3, TpHas, TpAssumption DEF TpFault
  <2>4. TpOne(s, tpStored[s], tpSvc[s], rq, s \in tpDirty, s \in tpLeft)
    BY <1>o, <1>u, <1>r, <1>3 DEF TpOne, TpWithin, TpTask, TpRuns
  <2> QED
    BY <1>3, <1>u, <1>r, <2>3, <2>4, TpHas, TpStays
<1> QED
  BY <1>1, <1>2, <1>3 DEF StartService

\* A stop that is given up leaves its task, if it has one, without a handle.
LEMMA TpAbandons ==
    ASSUME NEW s \in TpServices, NEW n \in Nat, NEW svc \in TpObjects(n), NEW sv \in Abandoned(s, svc)
    PROVE  /\ sv \in TpObjects(n) /\ sv.obj = svc.obj /\ sv.cfg = svc.cfg /\ sv.conn = svc.conn /\ sv.updated = svc.updated
           /\ sv.status = svc.status /\ sv.task \in {"none", svc.task}
<1>1. svc.loose \in [run : Nat, leaving : Nat]
  BY DEF TpObjects
<1> DEFINE ls == [run |-> svc.loose.run, leaving |-> svc.loose.leaving + (IF svc.task = "leaving" THEN 1 ELSE 0)]
<1>3. ls \in [run : Nat, leaving : Nat]
  BY <1>1
<1>4. sv = svc \/ sv = [svc EXCEPT !.task = "none", !.handle = FALSE, !.loose = ls]
  BY DEF Abandoned
<1> HIDE DEF ls
<1>5. CASE sv = svc
  BY <1>5
<1>6. CASE sv = [svc EXCEPT !.task = "none", !.handle = FALSE, !.loose = ls]
  BY <1>3, <1>6 DEF TpObjects
<1> QED
  BY <1>4, <1>5, <1>6

\* A client that leaves in the middle.
LEMMA TpDrops == ASSUME TpInv, NEW s \in TpServices, HandlerDropped(s) PROVE TpInv'
<1>u. /\ UNCHANGED <<tpStored, tpReqs>>
      /\ tpReq[s].pc \in {"persist", "validate", "prepare", "guard", "waiting", "starting", "enforce", "lock"}
  BY DEF HandlerDropped
<1>o. TpOne(s, tpStored[s], tpSvc[s], tpReq[s], s \in tpDirty, s \in tpLeft)
  BY TpHas
<1>n. tpReqs \in Nat /\ tpSvc[s] \in TpObjects(tpReqs) /\ tpStream \in TpStreams
  BY TpHas
<1>f. tpFaults' \in 0..MaxTpFaults
  BY TpHas, TpAssumption DEF HandlerDropped, TpFault
<1>r. /\ tpReq' = [tpReq EXCEPT ![s] = NoRequest(s)] /\ NoRequest(s) \in TpRequests(tpReqs) /\ NoRequest(s).pc = "idle"
      /\ NoRequest(s).old.codec \in TpCodecs[s] /\ NoRequest(s).new.codec \in TpCodecs[s]
  BY <1>n, TpFirstIs DEF HandlerDropped, Done
<1>d. /\ tpDirty' \subseteq TpServices /\ \A t \in TpServices : t # s => (t \in tpDirty' <=> t \in tpDirty)
      /\ tpLeft' \subseteq TpServices /\ \A t \in TpServices : t # s => (t \in tpLeft' <=> t \in tpLeft)
      /\ (s \notin tpDirty' => s \notin tpDirty) /\ (s \notin tpLeft' => s \notin tpLeft /\ tpReq[s].pc \notin {"waiting", "starting"})
      /\ tpReq[s].pc \in {"validate", "prepare", "guard"} /\ tpReq[s].kind = "update" /\ s \notin tpDirty' => ~NeedRestart(tpReq[s])
  <2>1. tpDirty \subseteq TpServices /\ tpLeft \subseteq TpServices
    BY TpHas
  <2>2. tpDirty' = IF tpReq[s].pc \in {"validate", "prepare", "guard"} /\ tpReq[s].kind = "update" /\ NeedRestart(tpReq[s])
                   THEN tpDirty \cup {s} ELSE tpDirty
    BY DEF HandlerDropped
  <2>3. tpLeft' = IF tpReq[s].pc \in {"waiting", "starting"} THEN tpLeft \cup {s} ELSE tpLeft
    BY DEF HandlerDropped
  <2> QED
    BY <2>1, <2>2, <2>3
<1>s. \E sv \in TpObjects(tpReqs) :
         /\ tpSvc' = [tpSvc EXCEPT ![s] = sv] /\ tpStream' \in TpStreams
         /\ sv.obj = tpSvc[s].obj /\ sv.cfg = tpSvc[s].cfg /\ sv.conn = tpSvc[s].conn /\ sv.updated = tpSvc[s].updated
         /\ sv.task \in {"none", tpSvc[s].task}
         /\ tpReq[s].pc \notin {"waiting", "starting"} => sv = tpSvc[s]
  <2>1. CASE tpReq[s].pc = "waiting"
    <3>1. PICK sv \in Abandoned(s, tpSvc[s]) : tpSvc' = [tpSvc EXCEPT ![s] = sv] /\ UNCHANGED tpStream
      BY <2>1 DEF HandlerDropped
    <3>2. /\ sv \in TpObjects(tpReqs) /\ sv.obj = tpSvc[s].obj /\ sv.cfg = tpSvc[s].cfg /\ sv.conn = tpSvc[s].conn
          /\ sv.updated = tpSvc[s].updated /\ sv.task \in {"none", tpSvc[s].task}
      BY <1>n, TpAbandons
    <3> QED
      BY <3>1, <3>2, <2>1, <1>n
  <2>2. CASE tpReq[s].pc = "starting" /\ tpSvc[s].status # "Running"
    <3> DEFINE sv == [tpSvc[s] EXCEPT !.status = "Starting"]
    <3>1. tpSvc' = [tpSvc EXCEPT ![s] = sv] /\ tpStream' \in {tpStream, Prepared(s)}
      BY <2>2, TpHas DEF HandlerDropped
    <3>2. /\ sv \in TpObjects(tpReqs) /\ sv.obj = tpSvc[s].obj /\ sv.cfg = tpSvc[s].cfg /\ sv.conn = tpSvc[s].conn
          /\ sv.updated = tpSvc[s].updated /\ sv.task = tpSvc[s].task
      BY <1>n DEF TpObjects, TpStatuses
    <3> HIDE DEF sv
    <3> QED
      BY <3>1, <3>2, <2>2, <1>n, TpPrepared
  <2>3. CASE tpReq[s].pc # "waiting" /\ ~(tpReq[s].pc = "starting" /\ tpSvc[s].status # "Running")
    <3>1. UNCHANGED <<tpSvc, tpStream>>
      BY <2>3 DEF HandlerDropped
    <3>2. tpSvc' = [tpSvc EXCEPT ![s] = tpSvc[s]]
      BY <3>1, TpHas
    <3> QED
      BY <3>1, <3>2, <1>n
  <2> QED
    BY <2>1, <2>2, <2>3
<1>v. PICK sv \in TpObjects(tpReqs) :
         /\ tpSvc' = [tpSvc EXCEPT ![s] = sv] /\ tpStream' \in TpStreams
         /\ sv.obj = tpSvc[s].obj /\ sv.cfg = tpSvc[s].cfg /\ sv.conn = tpSvc[s].conn /\ sv.updated = tpSvc[s].updated
         /\ sv.task \in {"none", tpSvc[s].task}
         /\ tpReq[s].pc \notin {"waiting", "starting"} => sv = tpSvc[s]
  BY <1>s
<1>1. TpWithin(s, tpStored[s], sv, NoRequest(s))
  BY <1>o, <1>r, <1>v DEF TpOne, TpWithin
<1>2. TpTask(s, sv, NoRequest(s), s \in tpLeft')
  <2>1. CASE tpReq[s].pc \in {"waiting", "starting"}
    <3>1. sv.obj /\ s \in tpLeft'
      BY <2>1, <1>o, <1>v, <1>d DEF TpOne, TpTask
    <3> QED
      BY <3>1, <1>r DEF TpTask
  <2>2. CASE tpReq[s].pc \notin {"waiting", "starting"}
    BY <2>2, <1>o, <1>v, <1>d, <1>r DEF TpOne, TpTask
  <2> QED
    BY <2>1, <2>2
<1>3. TpRuns(s, tpStored[s], sv, NoRequest(s), s \in tpDirty')
  <2>1. sv.task = "run" /\ s \notin tpDirty' => TpSame(s, tpSvc[s].cfg, tpStored[s])
    <3>1. CASE tpReq[s].pc \in {"validate", "prepare", "guard"} /\ tpReq[s].kind = "update"
      BY <3>1, <1>o, <1>v, <1>d DEF TpOne, TpRuns, TpSame, NeedRestart
    <3>2. CASE tpReq[s].pc = "waiting"
      BY <3>2, <1>o, <1>v DEF TpOne, TpTask
    <3>3. CASE tpReq[s].pc = "starting"
      BY <3>3, <1>o DEF TpOne, TpRuns
    <3>4. CASE tpReq[s].pc \in {"persist", "enforce", "lock"} \/ (tpReq[s].pc \in {"validate", "prepare", "guard"} /\ tpReq[s].kind # "update")
      BY <3>4, <1>o, <1>v, <1>d DEF TpOne, TpRuns
    <3> QED
      BY <3>1, <3>2, <3>3, <3>4, <1>u
  <2> QED
    BY <2>1, <1>r, <1>v DEF TpRuns
<1> QED
  <2>1. /\ tpStored' = [tpStored EXCEPT ![s] = tpStored[s]] /\ tpStored[s] \in TpConfs(tpReqs) /\ UNCHANGED tpReqs
    BY <1>u, TpHas
  <2>2. TpOne(s, tpStored[s], sv, NoRequest(s), s \in tpDirty', s \in tpLeft')
    BY <1>1, <1>2, <1>3 DEF TpOne
  <2> QED
    BY <1>f, <1>r, <1>d, <1>v, <2>1, <2>2, TpStays

\* What runs is read once the guard is dropped.
LEMMA TpLooks == ASSUME TpInv, NEW s \in TpServices, ReadRuntime(s) PROVE TpInv'
<1> DEFINE k == CodecLock(RuntimeConfig)
           rq == [tpReq[s] EXCEPT !.pc = "lock", !.seen = k]
<1>u. UNCHANGED <<tpStored, tpSvc, tpStream, tpDirty, tpLeft, tpReqs, tpFaults>> /\ tpReq[s].pc = "enforce"
  BY DEF ReadRuntime
<1>k. k \in {"none", "h264", "h265", "mjpeg"} /\ tpReq[s] \in TpRequests(tpReqs)
  <2>1. tpReqs \in Nat /\ tpReq[s] \in TpRequests(tpReqs)
    BY TpHas
  <2> QED
    BY <2>1, RuntimeIs, CodecLocks
<1>s. tpReq' = [tpReq EXCEPT ![s] = rq]
  BY TpHas DEF ReadRuntime
<1> HIDE DEF k
<1>r. /\ rq \in TpRequests(tpReqs) /\ rq.pc = "lock" /\ rq.kind = tpReq[s].kind
      /\ rq.old = tpReq[s].old /\ rq.new = tpReq[s].new
  <2>1. "lock" \in TpPcs
    BY DEF TpPcs
  <2> QED
    BY <1>k, <2>1 DEF TpRequests
<1> HIDE DEF rq
<1>o. TpOne(s, tpStored[s], tpSvc[s], tpReq[s], s \in tpDirty, s \in tpLeft)
  BY TpHas
<1>4. TpOne(s, tpStored[s], tpSvc[s], rq, s \in tpDirty, s \in tpLeft)
  BY <1>o, <1>u, <1>r DEF TpOne, TpWithin, TpTask, TpRuns
<1> QED
  <2>1. /\ tpStored' = [tpStored EXCEPT ![s] = tpStored[s]] /\ tpSvc' = [tpSvc EXCEPT ![s] = tpSvc[s]]
        /\ tpStored[s] \in TpConfs(tpReqs) /\ tpSvc[s] \in TpObjects(tpReqs) /\ tpStream' \in TpStreams
        /\ tpFaults' \in 0..MaxTpFaults /\ tpDirty' \subseteq TpServices /\ tpLeft' \subseteq TpServices
    BY <1>u, TpHas
  <2> QED
    BY <1>u, <1>s, <1>r, <1>4, <2>1, TpStays

\* The lock is set and the stream brought in line.
LEMMA TpLocks == ASSUME TpInv, NEW s \in TpServices, SetLock(s) PROVE TpInv'
<1> DEFINE k == tpReq[s].seen
           stream == [tpStream EXCEPT !.lock = k]
<1>u. UNCHANGED <<tpStored, tpSvc, tpDirty, tpLeft, tpReqs, tpFaults>> /\ tpReq[s].pc = "lock" /\ tpStream' \in {Enforced(stream, k), stream}
  BY DEF SetLock
<1>k. k \in {"none", "h264", "h265", "mjpeg"} /\ tpStream \in TpStreams /\ tpReqs \in Nat
  BY TpHas DEF TpRequests
<1> HIDE DEF k
<1>1. stream \in TpStreams
  BY <1>k, EnforcedIs
<1> HIDE DEF stream
<1>2. tpStream' \in TpStreams
  BY <1>1, <1>k, <1>u, EnforcedIs
<1>3. tpReq' = [tpReq EXCEPT ![s] = NoRequest(s)] /\ NoRequest(s) \in TpRequests(tpReqs)
  BY <1>k, TpFirstIs DEF SetLock, Done
<1>o. TpOne(s, tpStored[s], tpSvc[s], tpReq[s], s \in tpDirty, s \in tpLeft)
  BY TpHas
<1>4. TpOne(s, tpStored[s], tpSvc[s], NoRequest(s), s \in tpDirty, s \in tpLeft)
  <2>1. NoRequest(s).pc = "idle" /\ NoRequest(s).old.codec \in TpCodecs[s] /\ NoRequest(s).new.codec \in TpCodecs[s]
    BY <1>k, TpFirstIs
  <2> QED
    BY <2>1, <1>o, <1>u DEF TpOne, TpWithin, TpTask, TpRuns
<1> QED
  BY <1>u, <1>2, <1>3, <1>4, TpHas, TpStays

\* Every step of the three services keeps the invariant.
LEMMA TpSteps == TpInv /\ [TpNext]_tpVars => TpInv'
<1> SUFFICES ASSUME TpInv, [TpNext]_tpVars PROVE TpInv'
  OBVIOUS
<1>1. CASE UNCHANGED tpVars
  <2>1. TpShapes'
    BY <1>1 DEF TpInv, TpShapes, tpVars
  <2>2. ASSUME NEW s \in TpServices PROVE TpOne(s, tpStored[s], tpSvc[s], tpReq[s], s \in tpDirty, s \in tpLeft)'
    BY <1>1 DEF TpInv, tpVars, TpOne, TpWithin, TpTask, TpRuns, TpSame
  <2> QED
    BY <2>1, <2>2 DEF TpInv
<1>2. CASE TpNext
  BY <1>2, TpBegins, TpPersists, TpAsks, TpRegenerates, TpValidates, TpPrepares, TpTakes, TpSignals, TpLeaves, TpJoins,
     TpStartsService, TpLooks, TpLocks, TpDrops DEF TpNext
<1> QED
  BY <1>1, <1>2

\* The invariant gives what is promised of the three services.
LEMMA TpPromised == TpInv => ThirdPartyPromise
<1> SUFFICES ASSUME TpInv PROVE ThirdPartyPromise
  OBVIOUS
<1>1. TpTypeOK
  <2>1. ASSUME NEW s \in TpServices
        PROVE  TpTypeOK!1!(s)
    <3>0. TpConfs(tpReqs) \subseteq TpConfs(MaxTpReqs) /\ 0..tpReqs \subseteq 0..MaxTpReqs
      BY TpHas, TpGrows, TpAssumption
    <3>1. /\ tpStored[s] \in TpConfs(MaxTpReqs) /\ tpSvc[s].cfg \in TpConfs(MaxTpReqs) /\ tpSvc[s].conn \in TpConfs(MaxTpReqs)
          /\ tpReq[s].old \in TpConfs(MaxTpReqs) /\ tpReq[s].new \in TpConfs(MaxTpReqs)
      BY <3>0, TpHas DEF TpObjects, TpRequests
    <3>2. {tpStored[s].codec, tpSvc[s].cfg.codec, tpSvc[s].conn.codec, tpReq[s].old.codec, tpReq[s].new.codec} \subseteq TpCodecs[s]
      BY TpHas DEF TpOne, TpWithin
    <3>3. \A c \in TpConfs(MaxTpReqs) : c.codec \in TpCodecs[s] => c \in TpConfig(s)
      BY DEF TpConfs, TpConfig
    <3>4. /\ tpStored[s] \in TpConfig(s) /\ tpSvc[s].cfg \in TpConfig(s) /\ tpSvc[s].conn \in TpConfig(s)
          /\ tpReq[s].old \in TpConfig(s) /\ tpReq[s].new \in TpConfig(s)
      BY <3>1, <3>2, <3>3
    <3>5. tpSvc[s] \in [obj : BOOLEAN, status : {"Stopped", "Starting", "Running", "Error"},
                        task : {"none", "run", "leaving"}, handle : BOOLEAN, loose : [run : Nat, leaving : Nat],
                        cfg : TpConfig(s), conn : TpConfig(s), updated : BOOLEAN]
      BY <3>4, TpHas DEF TpObjects, TpStatuses
    <3> QED
      BY <3>4, <3>5, TpHas DEF TpRequests, TpPcs
  <2> QED
    BY <2>1 DEF TpTypeOK, TpInv, TpShapes, TpStreams
<1>2. StatusTellsTheTask
  BY DEF TpInv, TpOne, TpTask, StatusTellsTheTask, Guarded
<1>3. RunsAsStored
  <2> SUFFICES ASSUME NEW s \in TpServices, s \notin tpDirty, tpReq[s].pc \in {"idle", "enforce", "lock"}, tpSvc[s].task = "run"
               PROVE  RunsAsStored!(s)!2
    BY DEF RunsAsStored
  <2>1. TpWithin(s, tpStored[s], tpSvc[s], tpReq[s]) /\ TpRuns(s, tpStored[s], tpSvc[s], tpReq[s], s \in tpDirty)
    BY TpHas DEF TpOne
  <2> QED
    BY <2>1 DEF TpWithin, TpRuns, TpSame
<1> QED
  BY <1>1, <1>2, <1>3 DEF ThirdPartyPromise

-----------------------------------------------------------------------------
\* Playback of the microphone

UaSession == [pc : {"none", "ready", "write", "drop", "close"}, gen : UaGens,
              sink : {"closed", "backoff", "probing", "stalled", "active"}]
UaPcms == [owner : UacSessions \cup {NoSession}, fill : Nat, speech : BOOLEAN]

UaTypes ==
    /\ uaPlay \in [UaGens -> [stopped : BOOLEAN, active : UacSessions \cup {NoSession}]]
    /\ uaGen \in 0..(MaxRebuilds + 1) /\ uaSes \in [UacSessions -> UaSession]
    /\ uaPcm \in UaPcms
    /\ uaApply \in [pc : {"idle", "take", "close", "rebuild"}, gen : UaGens, taken : UacSessions \cup {NoSession}]

\* The newest generation.
UaNow == IF uaApply.pc = "idle" THEN uaGen ELSE uaApply.gen

\* Playbacks before the newest are stopped and empty; the newest is stopped
\* once a rebuild has taken it, and empty once its session is taken out.
UaOrder ==
    /\ uaApply.pc = "idle" => uaGen # 0
    /\ uaApply.pc # "idle" => uaGen = 0 /\ uaApply.gen <= MaxRebuilds
    /\ \A s \in UacSessions : uaSes[s].gen <= UaNow
    /\ \A g \in UaGens : g < UaNow => uaPlay[g].stopped /\ uaPlay[g].active = NoSession
    /\ uaApply.pc # "idle" => uaPlay[uaApply.gen].stopped
    /\ uaApply.pc \in {"close", "rebuild"} => uaPlay[uaApply.gen].active = NoSession

\* A session that is at work has its place, or is about to be closed by the
\* rebuild, or has lost the device and cannot get it again.
UaPlaces ==
    \A s \in UacSessions : uaSes[s].pc \in {"ready", "write", "drop"} =>
       \/ uaPlay[uaSes[s].gen].active = s
       \/ uaApply.pc = "close" /\ uaApply.taken = s /\ uaPlay[uaSes[s].gen].stopped
       \/ uaPcm.owner # s /\ uaPlay[uaSes[s].gen].stopped

UaOwner == \A s \in UacSessions : uaPcm.owner = s => uaSes[s].pc # "none"

UaInv == UaTypes /\ UaOrder /\ UaPlaces /\ UaOwner /\ SilentUntilRead

\* Generations of the playback are numbered from one.
LEMMA GensAre == UaGens \subseteq Nat /\ 1 \in UaGens /\ \A g \in UaGens : g >= 1 /\ g <= MaxRebuilds + 1
BY UacAssumption DEF UaGens

\* Playback starts with one generation and no session.
LEMMA UaStarts == UaInit => UaInv
<1> SUFFICES ASSUME UaInit PROVE UaInv
  OBVIOUS
<1> USE UacAssumption, GensAre
<1>1. UaTypes
  BY DEF UaInit, UaTypes, NewPlayback, NewSession, UaSession, NoPcm, UaPcms
<1>2. UaOrder
  BY DEF UaInit, UaOrder, UaNow, NewSession, NewPlayback
<1>3. UaPlaces /\ UaOwner /\ SilentUntilRead
  BY DEF UaInit, UaPlaces, UaOwner, SilentUntilRead, NewSession, NoPcm
<1> QED
  BY <1>1, <1>2, <1>3 DEF UaInv

\* A session moves on, or lets go of the device.
LEMMA UaMoves ==
    ASSUME UaInv, NEW s \in UacSessions, NEW r \in UaSession, uaSes' = [uaSes EXCEPT ![s] = r],
           r.gen = uaSes[s].gen, r.pc \in {"ready", "write", "drop"}, uaSes[s].pc \in {"ready", "write", "drop"},
           r.sink \in {"closed", uaSes[s].sink}, uaPcm' = uaPcm \/ (uaPcm' = PcmWithout(s) /\ r.sink = "closed"),
           UNCHANGED <<uaPlay, uaGen, uaApply>>
    PROVE  UaInv'
<1>a. uaSes' \in [UacSessions -> UaSession] /\ uaSes'[s] = r /\ \A t \in UacSessions : t # s => uaSes'[t] = uaSes[t]
  BY DEF UaInv, UaTypes
<1>b. uaPcm' \in UaPcms /\ (uaPcm'.owner = uaPcm.owner \/ uaPcm'.owner = NoSession) /\ (uaPcm'.speech => uaPcm.speech)
  <2>1. uaPcm \in UaPcms /\ (uaPcm' = uaPcm \/ uaPcm' = NoPcm)
    BY DEF UaInv, UaTypes, PcmWithout
  <2>2. NoPcm \in UaPcms /\ NoPcm.owner = NoSession /\ NoPcm.speech = FALSE
    BY DEF NoPcm, UaPcms
  <2> QED
    BY <2>1, <2>2
<1>1. UaTypes'
  BY <1>a, <1>b DEF UaInv, UaTypes
<1>2. UaOrder'
  BY <1>a DEF UaInv, UaOrder, UaNow
<1>3. UaPlaces'
  BY <1>a, <1>b, UacAssumption DEF UaInv, UaPlaces
<1>4. UaOwner'
  BY <1>a, <1>b, UacAssumption DEF UaInv, UaOwner
<1>5. SilentUntilRead'
  BY <1>a, <1>b, UacAssumption DEF UaInv, SilentUntilRead
<1> QED
  BY <1>1, <1>2, <1>3, <1>4, <1>5 DEF UaInv

\* A session gets the place of the newest playback.
LEMMA UaAcquires == ASSUME UaInv, NEW s \in UacSessions, AcquireSession(s) PROVE UaInv'
<1> DEFINE r == [pc |-> "ready", gen |-> uaGen, sink |-> "closed"]
<1>i. uaApply.pc = "idle"
  BY DEF UaInv, UaOrder, AcquireSession
<1>g. uaGen \in UaGens /\ UaNow = uaGen /\ UaNow' = uaGen
  BY <1>i, UacAssumption DEF UaInv, UaTypes, AcquireSession, UaGens, UaNow
<1>r. r \in UaSession
  BY <1>g DEF UaSession
<1>a. uaSes' \in [UacSessions -> UaSession] /\ uaSes'[s] = r /\ \A t \in UacSessions : t # s => uaSes'[t] = uaSes[t]
  BY <1>r DEF UaInv, UaTypes, AcquireSession
<1>p. /\ uaPlay' \in [UaGens -> [stopped : BOOLEAN, active : UacSessions \cup {NoSession}]]
      /\ uaPlay'[uaGen].active = s /\ \A g \in UaGens : uaPlay'[g].stopped = uaPlay[g].stopped
      /\ \A g \in UaGens : g # uaGen => uaPlay'[g].active = uaPlay[g].active
  BY <1>g DEF UaInv, UaTypes, AcquireSession
<1>u. UNCHANGED <<uaGen, uaPcm, uaApply>> /\ uaSes[s].pc = "none" /\ uaPlay[uaGen].active = NoSession
  BY DEF AcquireSession
<1>1. UaTypes'
  BY <1>a, <1>p, <1>u DEF UaInv, UaTypes
<1>2. UaOrder'
  <2>1. \A g \in UaGens : g < uaGen => uaPlay'[g].stopped /\ uaPlay'[g].active = NoSession
    BY <1>p, <1>g, GensAre DEF UaInv, UaOrder
  <2>2. \A t \in UacSessions : uaSes'[t].gen <= uaGen
    BY <1>a, <1>g, GensAre DEF UaInv, UaOrder
  <2> QED
    BY <2>1, <2>2, <1>u, <1>i, <1>g DEF UaInv, UaOrder
<1>3. UaPlaces'
  <2>1. SUFFICES ASSUME NEW t \in UacSessions, uaSes'[t].pc \in {"ready", "write", "drop"}
                 PROVE  UaPlaces!(t)'
    BY DEF UaPlaces
  <2>2. CASE t = s
    BY <2>2, <1>a, <1>p
  <2>3. CASE t # s
    <3>1. uaSes[t].gen \in UaGens /\ uaSes'[t] = uaSes[t]
      BY <2>3, <1>a DEF UaInv, UaTypes, UaSession
    <3> QED
      BY <2>1, <3>1, <1>a, <1>p, <1>u, UacAssumption DEF UaInv, UaPlaces
  <2> QED
    BY <2>2, <2>3
<1>4. UaOwner' /\ SilentUntilRead'
  BY <1>a, <1>u DEF UaInv, UaOwner, SilentUntilRead
<1> QED
  BY <1>1, <1>2, <1>3, <1>4 DEF UaInv

\* The outcomes of driving the sink of a playback that is not stopped.
LEMMA UaDrives ==
    ASSUME UaInv, NEW s \in UacSessions, uaSes[s].pc = "write", ~uaPlay[uaSes[s].gen].stopped, DriveSink(s),
           UNCHANGED <<uaPlay, uaGen, uaApply>>
    PROVE  UaInv'
<1>o. uaPlay[uaSes[s].gen].active = s
  BY DEF UaInv, UaPlaces
<1>f. uaPcm \in UaPcms /\ UacBuffer \in Nat
  BY UacAssumption DEF UaInv, UaTypes
<1> DEFINE Outcome ==
             \E sink \in {"backoff", "probing", "stalled", "active"}, pcm \in UaPcms :
                /\ Sink(s, sink, pcm)
                /\ pcm.owner \in {uaPcm.owner, s, NoSession}
                /\ (sink \in {"probing", "stalled"} /\ pcm.owner = s => ~pcm.speech)
                /\ (pcm.owner # s => pcm = uaPcm \/ pcm.owner = NoSession)
<1>d. Outcome
  <2>0. NoPcm \in UaPcms /\ Primed(s) \in UaPcms /\ Reset(s) \in UaPcms /\ PcmWithout(s) \in UaPcms
    BY <1>f, UacAssumption DEF NoPcm, Primed, Reset, PcmWithout, UaPcms
  <2>w. /\ \A pcm \in UaPcms : Written(s, pcm) \in UaPcms /\ Written(s, pcm).owner = s
        /\ Primed(s).owner = s /\ ~Primed(s).speech /\ Reset(s).owner = s /\ ~Reset(s).speech
        /\ (PcmWithout(s) = uaPcm /\ uaPcm.owner # s) \/ PcmWithout(s).owner = NoSession
    BY <1>f DEF Written, UaPcms, Primed, Reset, PcmWithout, NoPcm
  <2>r. ASSUME RetryLater(s) PROVE Outcome
    BY <2>r, <2>0, <2>w, UacAssumption DEF RetryLater
  <2>a. ASSUME NEW pcm \in {uaPcm, Reset(s)}, DriveActive(s, pcm) PROVE Outcome
    <3>1. pcm \in UaPcms /\ (pcm.owner # s => pcm = uaPcm)
      BY <2>a, <1>f, <2>0, <2>w
    <3>2. CASE Sink(s, "active", Written(s, pcm))
      BY <3>1, <3>2, <2>w
    <3>3. CASE Sink(s, "active", Reset(s))
      BY <3>3, <2>0, <2>w
    <3>4. CASE Sink(s, "active", pcm)
      BY <3>1, <3>4, <2>a
    <3>5. CASE Sink(s, "stalled", Primed(s))
      BY <3>5, <2>0, <2>w
    <3> QED
      BY <3>2, <3>3, <3>4, <3>5, <2>r, <2>a DEF DriveActive
  <2>p. ASSUME NEW sink \in {"probing", "stalled"}, NEW pcm \in UaPcms, DriveProbe(s, sink, pcm),
               pcm = Primed(s) \/ (pcm = uaPcm /\ uaSes[s].sink = sink)
        PROVE  Outcome
    <3>1. pcm.owner = s => ~pcm.speech
      BY <2>p, <2>w DEF UaInv, SilentUntilRead
    <3>2. CASE Sink(s, sink, pcm)
      BY <2>p, <3>1, <3>2, <2>w
    <3> QED
      BY <3>2, <2>a, <2>r, <2>p DEF DriveProbe
  <2>1. CASE uaSes[s].sink \in {"closed", "backoff"}
    BY <2>1, <2>p, <2>r, <2>0 DEF DriveSink
  <2>2. CASE uaSes[s].sink \in {"probing", "stalled"}
    BY <2>2, <2>p, <1>f DEF DriveSink
  <2>3. CASE uaSes[s].sink \notin {"closed", "backoff", "probing", "stalled"}
    BY <2>3, <2>a DEF DriveSink
  <2> QED
    BY <2>1, <2>2, <2>3
<1>e. PICK sink \in {"backoff", "probing", "stalled", "active"}, pcm \in UaPcms :
         /\ Sink(s, sink, pcm)
         /\ pcm.owner \in {uaPcm.owner, s, NoSession}
         /\ (sink \in {"probing", "stalled"} /\ pcm.owner = s => ~pcm.speech)
         /\ (pcm.owner # s => pcm = uaPcm \/ pcm.owner = NoSession)
  BY <1>d
<1>a. /\ uaSes' \in [UacSessions -> UaSession] /\ uaPcm' = pcm
      /\ uaSes'[s].pc = "ready" /\ uaSes'[s].gen = uaSes[s].gen /\ uaSes'[s].sink = sink
      /\ \A t \in UacSessions : t # s => uaSes'[t] = uaSes[t]
  BY <1>e DEF UaInv, UaTypes, UaSession, Sink
<1>1. UaTypes'
  BY <1>a, <1>e DEF UaInv, UaTypes
<1>2. UaOrder'
  BY <1>a DEF UaInv, UaOrder, UaNow
<1>3. UaPlaces'
  BY <1>a, <1>o, <1>e, UacAssumption DEF UaInv, UaPlaces
<1>4. UaOwner'
  BY <1>a, <1>e, UacAssumption DEF UaInv, UaOwner
<1>5. SilentUntilRead'
  BY <1>a, <1>e, UacAssumption DEF UaInv, SilentUntilRead
<1> QED
  BY <1>1, <1>2, <1>3, <1>4, <1>5 DEF UaInv

\* A frame arrives.
LEMMA UaFrames == ASSUME UaInv, NEW s \in UacSessions, CheckStopped(s) PROVE UaInv'
<1> DEFINE r == [uaSes[s] EXCEPT !.pc = IF uaPlay[uaSes[s].gen].stopped THEN "drop" ELSE "write"]
<1>1. r \in UaSession /\ r.gen = uaSes[s].gen /\ r.pc \in {"drop", "write"} /\ r.sink = uaSes[s].sink
  BY DEF UaInv, UaTypes, UaSession
<1>2. uaSes' = [uaSes EXCEPT ![s] = r]
  BY DEF CheckStopped, UaInv, UaTypes
<1> HIDE DEF r
<1> QED
  BY <1>1, <1>2, UaMoves DEF CheckStopped

\* A frame is written, or the session finds its playback stopped.
LEMMA UaWrites == ASSUME UaInv, NEW s \in UacSessions, TryWrite(s) PROVE UaInv'
<1>1. CASE uaPlay[uaSes[s].gen].stopped
  <2> DEFINE r == [uaSes[s] EXCEPT !.pc = "drop", !.sink = "closed"]
  <2>1. r \in UaSession /\ r.gen = uaSes[s].gen /\ r.pc = "drop" /\ r.sink = "closed"
    BY DEF UaInv, UaTypes, UaSession
  <2>2. uaSes' = [uaSes EXCEPT ![s] = r] /\ uaPcm' = PcmWithout(s)
    BY <1>1 DEF TryWrite, UaInv, UaTypes
  <2> HIDE DEF r
  <2> QED
    BY <2>1, <2>2, UaMoves DEF TryWrite
<1>2. CASE ~uaPlay[uaSes[s].gen].stopped
  BY <1>2, UaDrives DEF TryWrite
<1> QED
  BY <1>1, <1>2

\* The socket closes.
LEMMA UaCloses == ASSUME UaInv, NEW s \in UacSessions, SocketCloses(s) PROVE UaInv'
<1> DEFINE r == [uaSes[s] EXCEPT !.pc = "drop"]
<1>1. r \in UaSession /\ r.gen = uaSes[s].gen /\ r.pc = "drop" /\ r.sink = uaSes[s].sink
  BY DEF UaInv, UaTypes, UaSession
<1>2. uaSes' = [uaSes EXCEPT ![s] = r]
  BY DEF SocketCloses, UaInv, UaTypes
<1> HIDE DEF r
<1> QED
  BY <1>1, <1>2, UaMoves DEF SocketCloses

\* A session gives its place back.
LEMMA UaDropsPlace == ASSUME UaInv, NEW s \in UacSessions, DropPlace(s) PROVE UaInv'
<1>g. uaSes[s].gen \in UaGens /\ uaSes[s].pc = "drop" /\ UNCHANGED <<uaGen, uaPcm, uaApply>>
  BY DEF UaInv, UaTypes, UaSession, DropPlace
<1>a. /\ uaSes' \in [UacSessions -> UaSession] /\ uaSes'[s].pc = "close" /\ uaSes'[s].gen = uaSes[s].gen
      /\ uaSes'[s].sink = uaSes[s].sink /\ \A t \in UacSessions : t # s => uaSes'[t] = uaSes[t]
  BY DEF UaInv, UaTypes, UaSession, DropPlace
<1>p. /\ uaPlay' \in [UaGens -> [stopped : BOOLEAN, active : UacSessions \cup {NoSession}]]
      /\ \A g \in UaGens : uaPlay'[g].stopped = uaPlay[g].stopped
      /\ \A g \in UaGens : uaPlay'[g].active = uaPlay[g].active \/ (uaPlay[g].active = s /\ uaPlay'[g].active = NoSession)
  BY <1>g DEF UaInv, UaTypes, DropPlace
<1>1. UaTypes'
  BY <1>a, <1>g, <1>p DEF UaInv, UaTypes
<1>2. UaOrder'
  <2>1. UaNow' = UaNow /\ UaTypes
    BY <1>g DEF UaNow, UaInv
  <2>2. \A g \in UaGens : g < UaNow => uaPlay'[g].stopped /\ uaPlay'[g].active = NoSession
    BY <1>p DEF UaInv, UaOrder
  <2>3. \A t \in UacSessions : uaSes'[t].gen <= UaNow
    BY <1>a DEF UaInv, UaOrder
  <2>4. uaApply.gen \in UaGens
    BY <2>1 DEF UaTypes
  <2> QED
    BY <2>1, <2>2, <2>3, <2>4, <1>g, <1>p DEF UaInv, UaOrder
<1>3. UaPlaces'
  <2>1. SUFFICES ASSUME NEW t \in UacSessions, uaSes'[t].pc \in {"ready", "write", "drop"}
                 PROVE  UaPlaces!(t)'
    BY DEF UaPlaces
  <2>2. t # s /\ uaSes'[t] = uaSes[t] /\ uaSes[t].gen \in UaGens
    BY <2>1, <1>a DEF UaInv, UaTypes, UaSession
  <2> QED
    BY <2>1, <2>2, <1>p, <1>g DEF UaInv, UaPlaces
<1>4. UaOwner' /\ SilentUntilRead'
  BY <1>a, <1>g DEF UaInv, UaOwner, SilentUntilRead
<1> QED
  BY <1>1, <1>2, <1>3, <1>4 DEF UaInv

\* A session closes the device.
LEMMA UaDropsSink == ASSUME UaInv, NEW s \in UacSessions, DropSink(s) PROVE UaInv'
<1>r. NewSession \in UaSession /\ NewSession.gen = 1 /\ NewSession.pc = "none" /\ NewSession.sink = "closed"
  BY GensAre DEF NewSession, UaSession
<1>a. uaSes' \in [UacSessions -> UaSession] /\ uaSes'[s] = NewSession /\ \A t \in UacSessions : t # s => uaSes'[t] = uaSes[t]
  BY <1>r DEF UaInv, UaTypes, DropSink
<1>u. UNCHANGED <<uaPlay, uaGen, uaApply>>
  BY DEF DropSink
<1>b. uaPcm' \in UaPcms /\ uaPcm'.owner # s /\ (uaPcm' = uaPcm \/ uaPcm'.owner = NoSession)
  <2>1. uaPcm \in UaPcms /\ ((uaPcm' = uaPcm /\ uaPcm.owner # s) \/ uaPcm' = NoPcm)
    BY DEF UaInv, UaTypes, PcmWithout, DropSink
  <2>2. NoPcm \in UaPcms /\ NoPcm.owner = NoSession
    BY DEF NoPcm, UaPcms
  <2> QED
    BY <2>1, <2>2, UacAssumption
<1>1. UaTypes'
  BY <1>a, <1>b, <1>u DEF UaInv, UaTypes
<1>2. UaOrder'
  <2>1. UaNow' = UaNow /\ UaNow \in Nat /\ UaNow >= 1
    <3>1. UaNow' = UaNow
      BY <1>u DEF UaNow
    <3>2. uaGen \in 0..(MaxRebuilds + 1) /\ uaApply.gen \in UaGens /\ (uaApply.pc = "idle" => uaGen # 0)
      BY DEF UaInv, UaTypes, UaOrder
    <3>3. CASE uaApply.pc = "idle"
      BY <3>1, <3>2, <3>3, UacAssumption DEF UaNow
    <3>4. CASE uaApply.pc # "idle"
      <4>1. uaApply.gen \in Nat /\ uaApply.gen >= 1
        BY <3>2, GensAre
      <4> QED
        BY <3>1, <3>4, <4>1 DEF UaNow
    <3> QED
      BY <3>3, <3>4
  <2> QED
    BY <2>1, <1>a, <1>r, <1>u DEF UaInv, UaOrder
<1>3. UaPlaces'
  BY <1>a, <1>b, <1>r, <1>u, UacAssumption DEF UaInv, UaPlaces
<1>4. UaOwner'
  BY <1>a, <1>b, <1>r, UacAssumption DEF UaInv, UaOwner
<1>5. SilentUntilRead'
  BY <1>a, <1>b, <1>r, UacAssumption DEF UaInv, SilentUntilRead
<1> QED
  BY <1>1, <1>2, <1>3, <1>4, <1>5 DEF UaInv

\* A rebuild stops the newest playback.
LEMMA UaStopFlag == ASSUME UaInv, StopFlag PROVE UaInv'
<1>g. uaGen \in UaGens /\ uaGen <= MaxRebuilds /\ uaApply.pc = "idle" /\ UNCHANGED <<uaSes, uaPcm>> /\ uaGen' = 0
  BY UacAssumption DEF UaInv, UaTypes, UaGens, StopFlag
<1>a. /\ uaApply' \in [pc : {"idle", "take", "close", "rebuild"}, gen : UaGens, taken : UacSessions \cup {NoSession}]
      /\ uaApply'.pc = "take" /\ uaApply'.gen = uaGen
  BY <1>g DEF StopFlag
<1>p. /\ uaPlay' \in [UaGens -> [stopped : BOOLEAN, active : UacSessions \cup {NoSession}]]
      /\ uaPlay'[uaGen].stopped /\ \A g \in UaGens : uaPlay[g].stopped => uaPlay'[g].stopped
      /\ \A g \in UaGens : uaPlay'[g].active = uaPlay[g].active
  BY <1>g DEF UaInv, UaTypes, StopFlag
<1>1. UaTypes'
  BY <1>a, <1>g, <1>p, UacAssumption DEF UaInv, UaTypes
<1>2. UaOrder'
  <2>1. UaNow = uaGen /\ UaNow' = uaGen
    BY <1>a, <1>g DEF UaNow
  <2> QED
    BY <2>1, <1>a, <1>g, <1>p DEF UaInv, UaOrder
<1>3. UaPlaces'
  <2>1. SUFFICES ASSUME NEW t \in UacSessions, uaSes'[t].pc \in {"ready", "write", "drop"}
                 PROVE  UaPlaces!(t)'
    BY DEF UaPlaces
  <2>2. uaSes'[t] = uaSes[t] /\ uaSes[t].gen \in UaGens
    BY <1>g DEF UaInv, UaTypes, UaSession
  <2> QED
    BY <2>1, <2>2, <1>g, <1>p DEF UaInv, UaPlaces
<1>4. UaOwner' /\ SilentUntilRead'
  BY <1>g DEF UaInv, UaOwner, SilentUntilRead
<1> QED
  BY <1>1, <1>2, <1>3, <1>4 DEF UaInv

\* A rebuild takes the session out of its place.
LEMMA UaStopTake == ASSUME UaInv, StopTake PROVE UaInv'
<1> DEFINE k == uaApply.gen
<1>g. k \in UaGens /\ uaApply.pc = "take" /\ UNCHANGED <<uaGen, uaSes, uaPcm>>
      /\ uaPlay[k].active \in UacSessions \cup {NoSession}
  BY DEF UaInv, UaTypes, StopTake
<1>a. /\ uaApply' \in [pc : {"idle", "take", "close", "rebuild"}, gen : UaGens, taken : UacSessions \cup {NoSession}]
      /\ uaApply'.pc = "close" /\ uaApply'.gen = k /\ uaApply'.taken = uaPlay[k].active
  BY <1>g DEF UaInv, UaTypes, StopTake
<1>p. /\ uaPlay' \in [UaGens -> [stopped : BOOLEAN, active : UacSessions \cup {NoSession}]]
      /\ uaPlay'[k].active = NoSession /\ \A g \in UaGens : uaPlay'[g].stopped = uaPlay[g].stopped
      /\ \A g \in UaGens : g # k => uaPlay'[g].active = uaPlay[g].active
  BY <1>g DEF UaInv, UaTypes, StopTake
<1>n. UaNow = k /\ UaNow' = k
  BY <1>a, <1>g DEF UaNow
<1>1. UaTypes'
  BY <1>a, <1>g, <1>p DEF UaInv, UaTypes
<1>2. UaOrder'
  <2>1. \A g \in UaGens : g < k => g # k /\ uaPlay[g].stopped /\ uaPlay[g].active = NoSession
    BY <1>n, <1>g, GensAre DEF UaInv, UaOrder
  <2>2. uaPlay[k].stopped /\ uaGen = 0 /\ k <= MaxRebuilds /\ \A s \in UacSessions : uaSes[s].gen <= k
    BY <1>n, <1>g DEF UaInv, UaOrder
  <2> HIDE DEF k
  <2> QED
    BY <2>1, <2>2, <1>n, <1>a, <1>g, <1>p DEF UaOrder
<1>3. UaPlaces'
  <2>1. SUFFICES ASSUME NEW t \in UacSessions, uaSes'[t].pc \in {"ready", "write", "drop"}
                 PROVE  UaPlaces!(t)'
    BY DEF UaPlaces
  <2>2. uaSes'[t] = uaSes[t] /\ uaSes[t].gen \in UaGens
    BY <1>g DEF UaInv, UaTypes, UaSession
  <2>3. uaSes[t].gen = k => uaPlay[k].stopped
    BY <1>g DEF UaInv, UaOrder
  <2> HIDE DEF k
  <2>4. \/ uaPlay[uaSes[t].gen].active = t
        \/ uaPcm.owner # t /\ uaPlay[uaSes[t].gen].stopped
    BY <2>1, <2>2, <1>g DEF UaInv, UaPlaces
  <2> QED
    BY <2>2, <2>3, <2>4, <1>a, <1>g, <1>p
<1>4. UaOwner' /\ SilentUntilRead'
  BY <1>g DEF UaInv, UaOwner, SilentUntilRead
<1> QED
  BY <1>1, <1>2, <1>3, <1>4 DEF UaInv

\* A rebuild closes the device of the session it took.
LEMMA UaStopClose == ASSUME UaInv, StopClose PROVE UaInv'
<1>g. uaApply.pc = "close" /\ uaApply.taken \in UacSessions \cup {NoSession} /\ UNCHANGED <<uaGen, uaPlay>>
  BY DEF UaInv, UaTypes, StopClose
<1>a. /\ uaApply' \in [pc : {"idle", "take", "close", "rebuild"}, gen : UaGens, taken : UacSessions \cup {NoSession}]
      /\ uaApply'.pc = "rebuild" /\ uaApply'.gen = uaApply.gen
  BY <1>g DEF UaInv, UaTypes, StopClose
<1>s. /\ uaSes' \in [UacSessions -> UaSession]
      /\ \A t \in UacSessions : uaSes'[t].pc = uaSes[t].pc /\ uaSes'[t].gen = uaSes[t].gen
                                /\ uaSes'[t].sink \in {uaSes[t].sink, "closed"}
  BY <1>g DEF UaInv, UaTypes, UaSession, StopClose
<1>b. /\ uaPcm' \in UaPcms /\ (uaPcm' = uaPcm \/ uaPcm'.owner = NoSession)
      /\ uaApply.taken # NoSession => uaPcm'.owner # uaApply.taken
  <2>1. NoPcm \in UaPcms /\ NoPcm.owner = NoSession
    BY DEF NoPcm, UaPcms
  <2> QED
    BY <2>1, <1>g, UacAssumption DEF UaInv, UaTypes, PcmWithout, StopClose
<1>1. UaTypes'
  BY <1>a, <1>b, <1>g, <1>s DEF UaInv, UaTypes
<1>2. UaOrder'
  <2>1. UaNow' = UaNow
    BY <1>a, <1>g DEF UaNow
  <2> QED
    BY <2>1, <1>a, <1>g, <1>s DEF UaInv, UaOrder
<1>3. UaPlaces'
  <2>1. SUFFICES ASSUME NEW t \in UacSessions, uaSes'[t].pc \in {"ready", "write", "drop"}
                 PROVE  UaPlaces!(t)'
    BY DEF UaPlaces
  <2>2. \/ uaPlay[uaSes[t].gen].active = t
        \/ uaApply.taken = t /\ uaPlay[uaSes[t].gen].stopped
        \/ uaPcm.owner # t /\ uaPlay[uaSes[t].gen].stopped
    BY <2>1, <1>s DEF UaInv, UaPlaces
  <2> QED
    BY <2>2, <1>a, <1>b, <1>g, <1>s, UacAssumption
<1>4. UaOwner'
  BY <1>b, <1>s, UacAssumption DEF UaInv, UaOwner
<1>5. SilentUntilRead'
  BY <1>b, <1>s, UacAssumption DEF UaInv, SilentUntilRead
<1> QED
  BY <1>1, <1>2, <1>3, <1>4, <1>5 DEF UaInv

\* A new playback is published.
LEMMA UaRebuilt == ASSUME UaInv, StartPlayback PROVE UaInv'
<1>g. uaApply.pc = "rebuild" /\ uaApply.gen \in UaGens /\ uaGen' = uaApply.gen + 1 /\ UNCHANGED <<uaPlay, uaSes, uaPcm>>
  BY DEF UaInv, UaTypes, StartPlayback
<1>a. /\ uaApply' \in [pc : {"idle", "take", "close", "rebuild"}, gen : UaGens, taken : UacSessions \cup {NoSession}]
      /\ uaApply'.pc = "idle"
  BY <1>g DEF UaInv, UaTypes, StartPlayback
<1>n. UaNow = uaApply.gen /\ UaNow' = uaApply.gen + 1 /\ uaApply.gen <= MaxRebuilds /\ uaApply.gen \in Nat
  BY <1>a, <1>g, GensAre DEF UaNow, UaInv, UaOrder
<1>1. UaTypes'
  BY <1>a, <1>g, <1>n, UacAssumption DEF UaInv, UaTypes
<1>2. UaOrder'
  <2>1. \A g \in UaGens : g < uaApply.gen + 1 => uaPlay[g].stopped /\ uaPlay[g].active = NoSession
    <3>1. SUFFICES ASSUME NEW g \in UaGens, g < uaApply.gen + 1
                   PROVE  uaPlay[g].stopped /\ uaPlay[g].active = NoSession
      OBVIOUS
    <3>2. g < uaApply.gen \/ g = uaApply.gen
      BY <3>1, <1>n, GensAre
    <3> QED
      BY <3>2, <1>n, <1>g DEF UaInv, UaOrder
  <2>2. \A s \in UacSessions : uaSes[s].gen \in Nat /\ uaSes[s].gen <= uaApply.gen
    BY <1>n, GensAre DEF UaInv, UaOrder, UaTypes, UaSession
  <2>3. \A s \in UacSessions : uaSes[s].gen <= uaApply.gen + 1
    BY <2>2, <1>n
  <2> QED
    BY <2>1, <2>3, <1>a, <1>g, <1>n DEF UaOrder
<1>3. UaPlaces'
  BY <1>g, <1>a DEF UaInv, UaPlaces
<1>4. UaOwner' /\ SilentUntilRead'
  BY <1>g DEF UaInv, UaOwner, SilentUntilRead
<1> QED
  BY <1>1, <1>2, <1>3, <1>4 DEF UaInv

\* The target reads, or opens or closes the microphone.
LEMMA UaReads == ASSUME UaInv, HostReads \/ HostChanges PROVE UaInv'
<1>a. uaPcm' \in UaPcms /\ uaPcm'.owner = uaPcm.owner /\ (uaPcm'.speech => uaPcm.speech)
  <2>1. uaPcm \in UaPcms
    BY DEF UaInv, UaTypes
  <2>2. CASE HostReads
    <3>1. uaPcm.fill - 1 \in Nat
      BY <2>1, <2>2 DEF HostReads, UaPcms
    <3>2. (uaPcm.speech /\ uaPcm.fill > 1) \in BOOLEAN
      OBVIOUS
    <3>3. uaPcm' = [uaPcm EXCEPT !.fill = uaPcm.fill - 1, !.speech = (uaPcm.speech /\ uaPcm.fill > 1)]
      BY <2>2 DEF HostReads
    <3> QED
      BY <2>1, <3>1, <3>2, <3>3 DEF UaPcms
  <2>3. CASE HostChanges
    BY <2>1, <2>3 DEF HostChanges
  <2> QED
    BY <2>2, <2>3
<1>b. UNCHANGED <<uaPlay, uaGen, uaSes, uaApply>>
  BY DEF HostReads, HostChanges
<1>1. UaTypes'
  BY <1>a, <1>b DEF UaInv, UaTypes
<1>2. UaOrder' /\ UaPlaces'
  BY <1>a, <1>b DEF UaInv, UaOrder, UaPlaces, UaNow
<1>3. UaOwner' /\ SilentUntilRead'
  BY <1>a, <1>b DEF UaInv, UaOwner, SilentUntilRead
<1> QED
  BY <1>1, <1>2, <1>3 DEF UaInv

\* Every step keeps the invariant.
LEMMA UaSteps == UaInv /\ [UaNext]_uaVars => UaInv'
<1> SUFFICES ASSUME UaInv, [UaNext]_uaVars PROVE UaInv'
  OBVIOUS
<1>1. CASE UNCHANGED uaVars
  BY <1>1 DEF UaInv, uaVars, UaTypes, UaOrder, UaNow, UaPlaces, UaOwner, SilentUntilRead
<1>2. CASE UaNext
  BY <1>2, UaAcquires, UaFrames, UaWrites, UaCloses, UaDropsPlace, UaDropsSink, UaStopFlag, UaStopTake, UaStopClose,
     UaRebuilt, UaReads DEF UaNext
<1> QED
  BY <1>1, <1>2

\* The invariant gives what is promised of playback.
LEMMA UaPromised == UaInv => UacPromise
<1> SUFFICES ASSUME UaInv, uaApply.pc = "rebuild", uaPcm.owner # NoSession
             PROVE  uaSes[uaPcm.owner].pc = "close"
  BY DEF UacPromise, StopLeavesOnlyDrops, UaInv
<1> DEFINE s == uaPcm.owner
<1>1. /\ s \in UacSessions /\ uaSes[s].gen \in UaGens /\ uaApply.gen \in UaGens
      /\ uaSes[s].pc \in {"none", "ready", "write", "drop", "close"}
  BY DEF UaInv, UaTypes, UaPcms, UaSession
<1>2. uaSes[s].gen <= uaApply.gen
  BY <1>1 DEF UaInv, UaOrder, UaNow
<1>3. uaSes[s].gen < uaApply.gen \/ uaSes[s].gen = uaApply.gen
  BY <1>1, <1>2, GensAre
<1>4. uaPlay[uaSes[s].gen].active = NoSession
  BY <1>1, <1>3 DEF UaInv, UaOrder, UaNow
<1>5. uaSes[s].pc \notin {"ready", "write", "drop"} /\ uaSes[s].pc # "none"
  BY <1>1, <1>4, UacAssumption DEF UaInv, UaPlaces, UaOwner
<1> QED
  BY <1>1, <1>5

-----------------------------------------------------------------------------
\* A RustDesk connection

PeData ==
    /\ peListed \in BOOLEAN /\ pePassword \in BOOLEAN /\ peDelay \in BOOLEAN /\ peStarted \in BOOLEAN
    /\ peKey \in PeKeys \cup {NoKey} /\ peHalf \in BOOLEAN /\ peSkewed \in BOOLEAN /\ peStopped \in BOOLEAN

\* A message on the socket carries a number its sender has counted.
PeWire ==
    /\ peNet \in Messages \cup {NoMsg} /\ peDec \in 0..MaxPeerSends /\ peSends \in 0..MaxPeerSends
    /\ peClient \in [key : PeKeys \cup {NoKey}, sent : 0..MaxPeerSends, open : BOOLEAN]
    /\ peClient.sent <= peSends

\* The counter of sealed frames is never behind a number that was used, under
\* whatever key.
PeSeal ==
    /\ peEnc \in Nat /\ peSealed \in SUBSET (PeKeys \X Nat)
    /\ \A x \in peSealed : x[2] <= peEnc

\* Only a login leads to the active state, the one state in which input counts.
PeRights ==
    /\ peState \in {"Pending", "Handshaking", "Active", "Closed"} /\ peLogin \in BOOLEAN
    /\ peInput \in {"none", "user"}
    /\ peState = "Active" => peLogin

\* Streams run only beside the task of their connection.
PeStreams ==
    /\ peTask \in {"none", "spawned", "run", "ended"} /\ peVideo \in StreamType /\ peAudio \in StreamType
    /\ peTask # "run" => peVideo.pc # "run" /\ peAudio.pc # "run"

PeInv == PeData /\ PeWire /\ PeSeal /\ PeRights /\ PeStreams

\* No connection is there when the program starts.
LEMMA PeStarts == PeInit => PeInv
<1> SUFFICES ASSUME PeInit PROVE PeInv
  OBVIOUS
<1>1. PeData /\ PeSeal /\ PeRights
  BY DEF PeInit, PeData, PeSeal, PeRights
<1>2. PeWire
  BY PeerAssumption DEF PeInit, PeWire
<1>3. PeStreams
  <2>1. Idle \in StreamType /\ Idle.pc = "none"
    BY PeerAssumption DEF Idle, StreamType
  <2> QED BY <2>1 DEF PeInit, PeStreams
<1> QED BY <1>1, <1>2, <1>3 DEF PeInv

\* A frame is sealed with a number above all that were used.
LEMMA PeSeals ==
    ASSUME PeSeal, NEW key \in PeKeys \cup {NoKey}, SendEncrypted(key)
    PROVE  PeSeal' /\ peEnc' \in {peEnc, peEnc + 1}
<1>1. CASE key = NoKey
  BY <1>1 DEF SendEncrypted, PeSeal
<1>2. CASE key # NoKey
  <2>1. peEnc' = peEnc + 1 /\ peSealed' = peSealed \cup {<<key, peEnc + 1>>} /\ key \in PeKeys
    BY <1>2 DEF SendEncrypted
  <2>2. peEnc' \in Nat /\ peSealed' \in SUBSET (PeKeys \X Nat)
    BY <2>1 DEF PeSeal
  <2>3. \A x \in peSealed' : x[2] <= peEnc'
    <3>1. SUFFICES ASSUME NEW x \in peSealed' PROVE x[2] <= peEnc'
      OBVIOUS
    <3>2. CASE x \in peSealed
      <4>1. x[2] <= peEnc /\ x[2] \in Nat /\ peEnc \in Nat
        BY <3>2 DEF PeSeal
      <4> QED BY <2>1, <4>1
    <3>3. CASE x = <<key, peEnc + 1>>
      <4>1. x[2] = peEnc + 1 /\ peEnc \in Nat
        BY <3>3 DEF PeSeal
      <4> QED BY <2>1, <4>1
    <3> QED BY <2>1, <3>2, <3>3
  <2> QED BY <2>1, <2>2, <2>3 DEF PeSeal
<1> QED BY <1>1, <1>2

\* The task ends with its streams.
LEMMA PeEnds ==
    ASSUME PeStreams, PeRights, EndTask, UNCHANGED <<peLogin, peInput>>
    PROVE  PeStreams' /\ PeRights'
<1>1. ASSUME NEW s \in StreamType, NEW t, t = [s EXCEPT !.pc = IF s.pc = "none" THEN s.pc ELSE "ended", !.queue = 0]
      PROVE  t \in StreamType /\ t.pc # "run"
  <2>1. 0 \in 0..FrameSlots
    BY PeerAssumption
  <2>2. CASE s.pc = "none"
    <3>1. t = [s EXCEPT !.pc = "none", !.queue = 0]
      BY <1>1, <2>2
    <3> QED BY <2>1, <3>1 DEF StreamType
  <2>3. CASE s.pc # "none"
    <3>1. t = [s EXCEPT !.pc = "ended", !.queue = 0]
      BY <1>1, <2>3
    <3> QED BY <2>1, <3>1 DEF StreamType
  <2> QED BY <2>2, <2>3
<1>2. /\ peTask' = "ended" /\ peState' = "Closed"
      /\ peVideo' = [peVideo EXCEPT !.pc = IF peVideo.pc = "none" THEN peVideo.pc ELSE "ended", !.queue = 0]
      /\ peAudio' = [peAudio EXCEPT !.pc = IF peAudio.pc = "none" THEN peAudio.pc ELSE "ended", !.queue = 0]
  BY DEF EndTask
<1>3. peVideo' \in StreamType /\ peVideo'.pc # "run"
  BY <1>1, <1>2 DEF PeStreams
<1>4. peAudio' \in StreamType /\ peAudio'.pc # "run"
  BY <1>1, <1>2 DEF PeStreams
<1> QED BY <1>2, <1>3, <1>4 DEF PeStreams, PeRights

\* A connection is accepted, begins, or is told to close.
LEMMA PeAccepted ==
    ASSUME PeInv, AcceptConnection \/ CloseAll \/ HandleTcp
    PROVE  PeInv' /\ peEnc' = peEnc
<1>1. CASE AcceptConnection
  <2>1. PeData' /\ PeSeal' /\ PeRights' /\ PeStreams' /\ peEnc' = peEnc
    BY <1>1 DEF AcceptConnection, PeInv, PeData, PeSeal, PeRights, PeStreams
  <2>2. PeWire'
    BY <1>1 DEF AcceptConnection, PeInv, PeWire
  <2> QED BY <2>1, <2>2 DEF PeInv
<1>2. CASE CloseAll
  <2>1. PeData' /\ PeSeal' /\ PeRights' /\ PeWire' /\ PeStreams' /\ peEnc' = peEnc
    BY <1>2 DEF CloseAll, PeInv, PeData, PeSeal, PeRights, PeWire, PeStreams
  <2> QED BY <2>1 DEF PeInv
<1>3. CASE HandleTcp
  <2>1. PeData' /\ PeSeal' /\ PeRights' /\ peEnc' = peEnc
    BY <1>3 DEF HandleTcp, PeInv, PeData, PeSeal, PeRights
  <2>2. PeWire'
    BY <1>3 DEF HandleTcp, PeInv, PeWire
  <2>3. PeStreams'
    BY <1>3 DEF HandleTcp, PeInv, PeStreams
  <2> QED BY <2>1, <2>2, <2>3 DEF PeInv
<1> QED BY <1>1, <1>2, <1>3

\* Bytes that were cut off are no message.
LEMMA PeJunk == [NoMsg EXCEPT !.kind = "junk"] \in Messages
BY PeerAssumption DEF NoMsg, Messages, MsgKinds

\* A message is taken from the socket, and its number is not above those sent.
LEMMA PeConsumes ==
    ASSUME PeInv, Consumed(peNet), peNet # NoMsg
    PROVE  PeWire' /\ UNCHANGED <<peListed, pePassword, peSkewed, peStopped>> /\ peHalf' = FALSE
<1>1. /\ peNet' = NoMsg /\ peHalf' = FALSE /\ peDec' = (IF Opens(peNet) THEN peDec + 1 ELSE peDec)
      /\ UNCHANGED <<peListed, pePassword, peSkewed, peClient, peSends, peStopped>>
  BY DEF Consumed
<1>2. peDec' \in 0..MaxPeerSends
  <2>1. CASE Opens(peNet)
    <3>1. peNet.num = peDec + 1 /\ peNet.num \in 0..MaxPeerSends
      BY <2>1 DEF Opens, PeInv, PeWire, Messages
    <3> QED BY <1>1, <2>1, <3>1
  <2>2. CASE ~Opens(peNet)
    BY <1>1, <2>2 DEF PeInv, PeWire
  <2> QED BY <2>1, <2>2
<1>3. PeWire'
  BY <1>1, <1>2 DEF PeInv, PeWire
<1> QED BY <1>1, <1>3

\* Only the right password opens the connection.
LEMMA PeLogsIn ==
    ASSUME PeInv, peTask = "run", HandleLoginRequest(peNet)
    PROVE  PeSeal' /\ PeRights' /\ PeStreams' /\ peStarted' \in BOOLEAN /\ peEnc' \in {peEnc, peEnc + 1}
<1>1. /\ SendEncrypted(peKey) /\ peKey \in PeKeys \cup {NoKey}
      /\ UNCHANGED <<peTask, peKey, peDelay, peInput>>
  BY DEF HandleLoginRequest, PeInv, PeData
<1>2. PeSeal' /\ peEnc' \in {peEnc, peEnc + 1}
  BY <1>1, PeSeals DEF PeInv
<1>3. CASE PasswordAccepted(peNet)
  <2>1. /\ peState' = "Active" /\ peStarted' = TRUE /\ peLogin' = TRUE
        /\ peVideo' = StartStreaming(peVideo) /\ peAudio' = StartStreaming(peAudio)
    BY <1>3 DEF HandleLoginRequest
  <2>2. ASSUME NEW s \in StreamType PROVE StartStreaming(s) \in StreamType
    BY DEF StartStreaming, StreamType
  <2>3. peVideo' \in StreamType /\ peAudio' \in StreamType
    BY <2>1, <2>2 DEF PeInv, PeStreams
  <2>4. PeStreams'
    BY <1>1, <2>3 DEF PeStreams
  <2>5. PeRights'
    BY <1>1, <2>1 DEF PeInv, PeRights
  <2> QED BY <1>2, <2>1, <2>4, <2>5
<1>4. CASE ~PasswordAccepted(peNet)
  <2>1. UNCHANGED <<peState, peStarted, peVideo, peAudio, peLogin>>
    BY <1>4 DEF HandleLoginRequest
  <2> QED BY <1>1, <1>2, <2>1 DEF PeInv, PeData, PeRights, PeStreams
<1> QED BY <1>3, <1>4

\* Every message the task handles keeps the invariant.
LEMMA PeHandles == ASSUME PeInv, HandleMessage PROVE PeInv' /\ peEnc' \in {peEnc, peEnc + 1}
<1>1. peTask = "run" /\ PeWire' /\ UNCHANGED <<peListed, pePassword, peSkewed, peStopped>> /\ peHalf' = FALSE
  BY PeConsumes DEF HandleMessage
<1>2. SUFFICES /\ peDelay' \in BOOLEAN /\ peStarted' \in BOOLEAN /\ peKey' \in PeKeys \cup {NoKey}
               /\ PeSeal' /\ PeRights' /\ PeStreams' /\ peEnc' \in {peEnc, peEnc + 1}
  BY <1>1 DEF PeInv, PeData
<1>3. ASSUME UNCHANGED <<peState, peLogin, peInput>> PROVE PeRights'
  BY <1>3 DEF PeInv, PeRights
<1>4. ASSUME UNCHANGED <<peTask, peVideo, peAudio>> PROVE PeStreams'
  BY <1>4 DEF PeInv, PeStreams
<1>5. ASSUME UNCHANGED <<peEnc, peSealed>> PROVE PeSeal' /\ peEnc' \in {peEnc, peEnc + 1}
  BY <1>5 DEF PeInv, PeSeal
<1>6. peDelay \in BOOLEAN /\ peStarted \in BOOLEAN /\ peKey \in PeKeys \cup {NoKey}
  BY DEF PeInv, PeData
<1>7. CASE \E k \in PeKeys : HandlePeerPublicKey(peNet, k)
  <2>1. PICK k \in PeKeys : HandlePeerPublicKey(peNet, k)
    BY <1>7
  <2>2. /\ peKey' = (IF peNet.kind = "pk_sealed" THEN k ELSE peKey) /\ SendEncrypted(peKey')
        /\ UNCHANGED <<peTask, peState, peDelay, peStarted, peVideo, peAudio, peLogin, peInput>>
    BY <2>1 DEF HandlePeerPublicKey
  <2>3. peKey' \in PeKeys \cup {NoKey}
    BY <1>6, <2>2
  <2>4. PICK key \in PeKeys \cup {NoKey} : key = peKey' /\ SendEncrypted(key)
    BY <2>2, <2>3
  <2>5. PeSeal' /\ peEnc' \in {peEnc, peEnc + 1}
    BY <2>4, PeSeals DEF PeInv
  <2> QED BY <1>3, <1>4, <1>6, <2>2, <2>3, <2>5
<1>8. CASE HandleLoginRequest(peNet)
  <2>1. UNCHANGED <<peKey, peDelay>>
    BY <1>8 DEF HandleLoginRequest
  <2> QED BY <1>1, <1>6, <1>8, <2>1, PeLogsIn
<1>9. CASE HandleInput(peNet)
  <2>1. /\ peInput' \in (IF peState = "Active" THEN {peInput, IF peLogin THEN "user" ELSE "stranger"} ELSE {peInput})
        /\ UNCHANGED <<peTask, peState, peKey, peEnc, peSealed, peDelay, peStarted, peVideo, peAudio, peLogin>>
    BY <1>9 DEF HandleInput
  <2>2. PeRights'
    BY <2>1 DEF PeInv, PeRights
  <2> QED BY <1>4, <1>5, <1>6, <2>1, <2>2
<1>10. CASE HandleMisc(peNet) \/ HandleSignedId(peNet)
  <2>1. UNCHANGED <<peTask, peState, peKey, peEnc, peSealed, peDelay, peStarted, peVideo, peAudio, peLogin, peInput>>
    BY <1>10 DEF HandleMisc, HandleSignedId
  <2> QED BY <1>3, <1>4, <1>5, <1>6, <2>1
<1>11. CASE HandleTestDelay(peNet)
  <2>1. /\ (SendEncrypted(peKey) /\ UNCHANGED peDelay) \/ (peDelay' = FALSE /\ UNCHANGED <<peEnc, peSealed>>)
        /\ UNCHANGED <<peTask, peState, peKey, peStarted, peVideo, peAudio, peLogin, peInput>>
    BY <1>11 DEF HandleTestDelay
  <2>2. PeSeal' /\ peEnc' \in {peEnc, peEnc + 1}
    BY <1>5, <1>6, <2>1, PeSeals DEF PeInv
  <2> QED BY <1>3, <1>4, <1>6, <2>1, <2>2
<1>12. CASE EndTask /\ UNCHANGED <<peKey, peEnc, peSealed, peDelay, peStarted, peLogin, peInput>>
  <2>1. PeStreams' /\ PeRights'
    BY <1>12, PeEnds DEF PeInv
  <2> QED BY <1>5, <1>6, <1>12, <2>1
<1>13. CASE UNCHANGED <<peTask, peState, peKey, peEnc, peSealed, peDelay, peStarted, peVideo, peAudio, peLogin,
                        peInput>>
  BY <1>3, <1>4, <1>5, <1>6, <1>13
<1> QED BY <1>7, <1>8, <1>9, <1>10, <1>11, <1>12, <1>13 DEF HandleMessage

\* A read that is cut off leaves nothing or junk on the socket.
LEMMA PeCuts ==
    ASSUME PeInv, CutRead, UNCHANGED <<peDec, peSends, peClient>>
    PROVE  PeWire' /\ peHalf' \in BOOLEAN /\ peSkewed' \in BOOLEAN
<1>1. peHalf' = FALSE /\ peSkewed' = (peSkewed \/ peHalf)
      /\ peNet' = (IF peHalf THEN [NoMsg EXCEPT !.kind = "junk"] ELSE peNet)
  BY DEF CutRead
<1>2. peNet' \in Messages \cup {NoMsg}
  BY <1>1, PeJunk DEF PeInv, PeWire
<1>3. PeWire'
  BY <1>2 DEF PeInv, PeWire
<1> QED BY <1>1, <1>3

\* What a stream does with its queue.
LEMMA PeStreamed ==
    ASSUME NEW s \in StreamType
    PROVE  /\ s.queue > 0 => [s EXCEPT !.queue = s.queue - 1] \in StreamType
           /\ [s EXCEPT !.pc = "ended"] \in StreamType
           /\ s.made < MaxFrames /\ s.queue < FrameSlots
              => [s EXCEPT !.made = s.made + 1, !.queue = s.queue + 1] \in StreamType
<1>1. s.made \in 0..MaxFrames /\ s.queue \in 0..FrameSlots /\ MaxFrames \in Nat /\ FrameSlots \in Nat
  BY PeerAssumption DEF StreamType
<1>2. s.queue > 0 => s.queue - 1 \in 0..FrameSlots
  BY <1>1
<1>3. s.made < MaxFrames => s.made + 1 \in 0..MaxFrames
  BY <1>1
<1>4. s.queue < FrameSlots => s.queue + 1 \in 0..FrameSlots
  BY <1>1
<1>5. ASSUME NEW m \in 0..MaxFrames, NEW q \in 0..FrameSlots
      PROVE  [s EXCEPT !.made = m, !.queue = q] \in StreamType /\ [s EXCEPT !.queue = q] \in StreamType
  BY DEF StreamType
<1>6. [s EXCEPT !.pc = "ended"] \in StreamType
  BY DEF StreamType
<1>7. ASSUME s.queue > 0 PROVE [s EXCEPT !.queue = s.queue - 1] \in StreamType
  <2>1. PICK m \in 0..MaxFrames, q \in 0..FrameSlots : m = s.made /\ q = s.queue - 1
    BY <1>1, <1>2, <1>7
  <2> QED BY <1>5, <2>1
<1>8. ASSUME s.made < MaxFrames, s.queue < FrameSlots
      PROVE  [s EXCEPT !.made = s.made + 1, !.queue = s.queue + 1] \in StreamType
  <2>1. PICK m \in 0..MaxFrames, q \in 0..FrameSlots : m = s.made + 1 /\ q = s.queue + 1
    BY <1>3, <1>4, <1>8
  <2> QED BY <1>5, <2>1
<1> QED BY <1>6, <1>7, <1>8

\* Every frame, answer and delay test that is sent keeps the invariant.
LEMMA PeWrites ==
    ASSUME PeInv, SendVideo \/ SendAudio \/ SendTestDelay \/ IdleTick
    PROVE  PeInv' /\ peEnc' \in {peEnc, peEnc + 1}
<1>1. peTask = "run" /\ CutRead /\ UNCHANGED <<peDec, peSends, peClient, peTask, peState, peLogin, peInput,
                                               peListed, pePassword, peKey, peStarted, peStopped>>
  BY DEF SendVideo, SendAudio, SendTestDelay, IdleTick
<1>2. PeWire' /\ peHalf' \in BOOLEAN /\ peSkewed' \in BOOLEAN
  BY <1>1, PeCuts
<1>3. peDelay' \in BOOLEAN
  BY DEF SendVideo, SendAudio, SendTestDelay, IdleTick, PeInv, PeData
<1>4. PeData' /\ PeRights'
  BY <1>1, <1>2, <1>3 DEF PeInv, PeData, PeRights
<1>5. PeSeal' /\ peEnc' \in {peEnc, peEnc + 1}
  <2>1. CASE SendEncrypted(peKey)
    BY <2>1, PeSeals DEF PeInv, PeData
  <2>2. CASE UNCHANGED <<peEnc, peSealed>>
    BY <2>2 DEF PeInv, PeSeal
  <2> QED BY <2>1, <2>2 DEF SendVideo, SendAudio, SendTestDelay, IdleTick
<1>6. peVideo' \in StreamType /\ peAudio' \in StreamType
  <2>1. peVideo \in StreamType /\ peAudio \in StreamType
    BY DEF PeInv, PeStreams
  <2>2. CASE SendVideo
    BY <2>1, <2>2, PeStreamed DEF SendVideo
  <2>3. CASE SendAudio
    BY <2>1, <2>3, PeStreamed DEF SendAudio
  <2>4. CASE SendTestDelay \/ IdleTick
    BY <2>1, <2>4 DEF SendTestDelay, IdleTick
  <2> QED BY <2>2, <2>3, <2>4
<1>7. PeStreams'
  BY <1>1, <1>6 DEF PeStreams
<1> QED BY <1>2, <1>4, <1>5, <1>7 DEF PeInv

\* The two streams produce a frame or end.
LEMMA PeFlows == ASSUME PeInv, VideoStream \/ AudioStream PROVE PeInv' /\ peEnc' = peEnc
<1>1. UNCHANGED <<peTask, peState, peListed, pePassword, peKey, peEnc, peDec, peDelay, peStarted, peNet,
                  peHalf, peSkewed, peClient, peSends, peStopped, peLogin, peInput, peSealed>>
  BY DEF VideoStream, AudioStream
<1>2. PeData' /\ PeWire' /\ PeSeal' /\ PeRights' /\ peEnc' = peEnc
  BY <1>1 DEF PeInv, PeData, PeWire, PeSeal, PeRights
<1>3. peTask = "run"
  BY DEF VideoStream, AudioStream, PeInv, PeStreams
<1>4. peVideo \in StreamType /\ peAudio \in StreamType
  BY DEF PeInv, PeStreams
<1>5. peVideo' \in StreamType
  BY <1>4, PeStreamed DEF VideoStream, AudioStream
<1>6. peAudio' \in StreamType
  BY <1>4, PeStreamed DEF VideoStream, AudioStream
<1>7. PeStreams'
  BY <1>1, <1>3, <1>5, <1>6 DEF PeStreams
<1> QED BY <1>2, <1>7 DEF PeInv

\* The peer sends a message with its next number.
LEMMA PeSpeaks == ASSUME PeInv, PeerSends PROVE PeInv' /\ peEnc' = peEnc
<1>1. /\ peSends < MaxPeerSends /\ peSends' = peSends + 1
      /\ UNCHANGED <<peTask, peState, peListed, pePassword, peKey, peEnc, peDec, peDelay, peStarted, peVideo,
                     peAudio, peHalf, peSkewed, peStopped, peLogin, peInput, peSealed>>
  BY DEF PeerSends
<1>2. PeData' /\ PeSeal' /\ PeRights' /\ PeStreams' /\ peEnc' = peEnc
  BY <1>1 DEF PeInv, PeData, PeSeal, PeRights, PeStreams
<1>3. /\ peClient \in [key : PeKeys \cup {NoKey}, sent : 0..MaxPeerSends, open : BOOLEAN] /\ peClient.sent <= peSends
      /\ peSends \in 0..MaxPeerSends /\ MaxPeerSends \in Nat
  BY PeerAssumption DEF PeInv, PeWire
<1>4. /\ peClient' \in [key : PeKeys \cup {NoKey}, sent : 0..MaxPeerSends, open : BOOLEAN]
      /\ peClient'.sent <= peSends' /\ peNet' \in Messages
  <2>1. CASE \E kind \in PlainKinds :
             /\ peClient' = [peClient EXCEPT !.sent = IF peClient.key = NoKey THEN peClient.sent ELSE peClient.sent + 1]
             /\ peNet' = IF peSkewed THEN [NoMsg EXCEPT !.kind = "junk"]
                         ELSE [kind |-> kind, key |-> peClient.key, num |-> peClient'.sent]
    <3>1. PICK kind \in PlainKinds :
             /\ peClient' = [peClient EXCEPT !.sent = IF peClient.key = NoKey THEN peClient.sent ELSE peClient.sent + 1]
             /\ peNet' = IF peSkewed THEN [NoMsg EXCEPT !.kind = "junk"]
                         ELSE [kind |-> kind, key |-> peClient.key, num |-> peClient'.sent]
      BY <2>1
    <3>2. PICK n \in 0..MaxPeerSends : n = (IF peClient.key = NoKey THEN peClient.sent ELSE peClient.sent + 1) /\ n <= peSends + 1
      <4>1. CASE peClient.key = NoKey
        BY <1>1, <1>3, <4>1
      <4>2. CASE peClient.key # NoKey
        BY <1>1, <1>3, <4>2
      <4> QED BY <4>1, <4>2
    <3>3. peClient' = [peClient EXCEPT !.sent = n]
      BY <3>1, <3>2
    <3>4. peClient' \in [key : PeKeys \cup {NoKey}, sent : 0..MaxPeerSends, open : BOOLEAN] /\ peClient'.sent = n
      BY <1>3, <3>3
    <3>5. [kind |-> kind, key |-> peClient.key, num |-> n] \in Messages
      BY <1>3 DEF Messages, MsgKinds
    <3>6. peNet' \in Messages
      BY <3>1, <3>4, <3>5, PeJunk
    <3> QED BY <1>1, <3>2, <3>4, <3>6
  <2>2. CASE \E kind \in PkKinds : \E k \in PeKeys :
             /\ peClient' = (IF kind = "pk_sealed" THEN [peClient EXCEPT !.key = k] ELSE peClient)
             /\ peNet' = [NoMsg EXCEPT !.kind = IF peSkewed THEN "junk" ELSE kind]
    <3>1. PICK kind \in PkKinds, k \in PeKeys :
             /\ peClient' = (IF kind = "pk_sealed" THEN [peClient EXCEPT !.key = k] ELSE peClient)
             /\ peNet' = [NoMsg EXCEPT !.kind = IF peSkewed THEN "junk" ELSE kind]
      BY <2>2
    <3>2. peNet' \in Messages
      BY <1>3, <3>1 DEF Messages, MsgKinds, NoMsg
    <3>3. peClient' \in [key : PeKeys \cup {NoKey}, sent : 0..MaxPeerSends, open : BOOLEAN] /\ peClient'.sent = peClient.sent
      BY <1>3, <3>1
    <3> QED BY <1>1, <1>3, <3>2, <3>3
  <2> QED BY <2>1, <2>2 DEF PeerSends
<1>5. PeWire'
  BY <1>1, <1>3, <1>4 DEF PeInv, PeWire
<1> QED BY <1>2, <1>5 DEF PeInv

\* A read begins, or one side goes away.
LEMMA PeQuiet == ASSUME PeInv, ReadHalf \/ ConnectionLost \/ PeerCloses PROVE PeInv' /\ peEnc' = peEnc
<1>1. CASE ReadHalf
  BY <1>1 DEF ReadHalf, PeInv, PeData, PeWire, PeSeal, PeRights, PeStreams
<1>2. CASE ConnectionLost
  <2>1. PeStreams' /\ PeRights'
    BY <1>2, PeEnds DEF ConnectionLost, PeInv
  <2>2. PeData' /\ PeWire' /\ PeSeal' /\ peEnc' = peEnc
    BY <1>2 DEF ConnectionLost, PeInv, PeData, PeWire, PeSeal
  <2> QED BY <2>1, <2>2 DEF PeInv
<1>3. CASE PeerCloses
  <2>1. PeData' /\ PeSeal' /\ PeRights' /\ PeStreams' /\ peEnc' = peEnc
    BY <1>3 DEF PeerCloses, PeInv, PeData, PeSeal, PeRights, PeStreams
  <2>2. PeWire'
    BY <1>3 DEF PeerCloses, PeInv, PeWire
  <2> QED BY <2>1, <2>2 DEF PeInv
<1> QED BY <1>1, <1>2, <1>3

\* Every step keeps the invariant, and the counter of sealed frames goes up by one at most.
LEMMA PeMoves == ASSUME PeInv, PeNext PROVE PeInv' /\ peEnc' \in {peEnc, peEnc + 1}
<1>1. CASE AcceptConnection \/ CloseAll \/ HandleTcp
  BY <1>1, PeAccepted
<1>2. CASE HandleMessage
  BY <1>2, PeHandles
<1>3. CASE ReadHalf \/ ConnectionLost \/ PeerCloses
  BY <1>3, PeQuiet
<1>4. CASE SendVideo \/ SendAudio \/ SendTestDelay \/ IdleTick
  BY <1>4, PeWrites
<1>5. CASE VideoStream \/ AudioStream
  BY <1>5, PeFlows
<1>6. CASE PeerSends
  BY <1>6, PeSpeaks
<1> QED BY <1>1, <1>2, <1>3, <1>4, <1>5, <1>6 DEF PeNext

\* Every step of a RustDesk connection keeps its invariant.
LEMMA PeSteps == PeInv /\ [PeNext]_peVars => PeInv'
<1> SUFFICES ASSUME PeInv, [PeNext]_peVars PROVE PeInv'
  OBVIOUS
<1>1. CASE UNCHANGED peVars
  BY <1>1 DEF peVars, PeInv, PeData, PeWire, PeSeal, PeRights, PeStreams
<1>2. CASE PeNext
  BY <1>2, PeMoves
<1> QED BY <1>1, <1>2

\* The invariant gives what is promised of every state of a connection.
LEMMA PePromised == PeInv => PeTypeOK /\ InputNeedsLogin /\ StreamsEndWithTask
<1> SUFFICES ASSUME PeInv PROVE PeTypeOK /\ InputNeedsLogin /\ StreamsEndWithTask
  OBVIOUS
<1>1. PeTypeOK
  BY DEF PeInv, PeData, PeWire, PeSeal, PeRights, PeStreams, PeTypeOK
<1>2. InputNeedsLogin
  BY DEF PeInv, PeRights, InputNeedsLogin
<1>3. StreamsEndWithTask
  BY DEF PeInv, PeStreams, StreamsEndWithTask
<1> QED BY <1>1, <1>2, <1>3

\* And what is promised of every step.
LEMMA PeNonce == PeInv /\ [PeNext]_peVars => [peEnc' # peEnc => <<peKey', peEnc'>> \notin peSealed]_peVars
<1> SUFFICES ASSUME PeInv, PeNext, peEnc' # peEnc, <<peKey', peEnc'>> \in peSealed PROVE FALSE
  OBVIOUS
<1>1. peEnc' = peEnc + 1 /\ peEnc \in Nat
  BY PeMoves DEF PeInv, PeSeal
<1>2. <<peKey', peEnc'>>[2] <= peEnc
  BY DEF PeInv, PeSeal
<1> QED BY <1>1, <1>2

-----------------------------------------------------------------------------
\* Who is let in by RTSP and VNC

SlClient == [pc : {"none", "accepted", "serve", "play", "end"}, run : Nat, aborted : BOOLEAN, setup : BOOLEAN,
             sub : BOOLEAN, last : 0..(StampWidth - 1), pts : Nat, par : 0..1]

SlTypes ==
    /\ slKind \in {"rtsp", "vnc"} /\ slOne \in BOOLEAN /\ slRun \in [up : BOOLEAN, runs : Nat]
    /\ slCl \in [SlClients -> SlClient] /\ slCount \in Nat /\ slLate \in BOOLEAN

\* VNC only serves, RTSP goes through its states with a place in a mutex.
SlKinds ==
    /\ slKind = "vnc" => \A c \in SlClients : slCl[c].pc \in {"none", "serve"}
    /\ \A c \in SlClients : slCl[c].pc = "none" => ~slCl[c].aborted

\* Where one client is allowed, the client that is served has the place.
SlPlace ==
    slKind = "rtsp" /\ slOne => \A c \in SlClients : slCl[c].pc \in Served /\ ~slCl[c].aborted => slSlot = c

AtVnc == {c \in SlClients : slCl[c].pc = "serve"}

\* The counter of VNC counts clients that are served, and misses none unless the
\* guard of an earlier run was dropped late.
SlCounts ==
    slKind = "vnc" =>
       /\ IsFiniteSet(AtVnc) /\ slCount <= Cardinality(AtVnc)
       /\ ~slLate => slCount = Cardinality(Present)
       /\ slOne => slCount <= 1

SlInv == SlTypes /\ SlKinds /\ SlPlace /\ SlCounts

\* A finite set without one of its members.
LEMMA OneLess ==
    ASSUME NEW Some, IsFiniteSet(Some), NEW x \in Some
    PROVE  IsFiniteSet(Some \ {x}) /\ Cardinality(Some) \in Nat /\ Cardinality(Some \ {x}) \in Nat /\ Cardinality(Some \ {x}) + 1 = Cardinality(Some)
<1>1. IsFiniteSet(Some \ {x}) /\ Cardinality(Some \ {x}) = Cardinality(Some) - 1
  BY FS_RemoveElement
<1>2. Cardinality(Some) \in Nat /\ Cardinality(Some \ {x}) \in Nat
  BY <1>1, FS_CardinalityType
<1> QED BY <1>1, <1>2

\* A finite set and one more member.
LEMMA OneMore ==
    ASSUME NEW Some, IsFiniteSet(Some), NEW x, x \notin Some
    PROVE  IsFiniteSet(Some \cup {x}) /\ Cardinality(Some) \in Nat /\ Cardinality(Some \cup {x}) = Cardinality(Some) + 1
<1>1. IsFiniteSet(Some \cup {x}) /\ Cardinality(Some \cup {x}) = Cardinality(Some) + 1
  BY FS_AddElement
<1>2. Cardinality(Some) \in Nat
  BY FS_CardinalityType
<1> QED BY <1>1, <1>2

\* No client is there when the program starts.
LEMMA SlStarts == SlInit => SlInv
<1> SUFFICES ASSUME SlInit PROVE SlInv
  OBVIOUS
<1> USE SlAssumption
<1>1. NewClient \in SlClient
  <2>1. 0 \in 0..(StampWidth - 1)
    OBVIOUS
  <2> QED BY <2>1 DEF NewClient, SlClient
<1>2. SlTypes
  BY <1>1 DEF SlInit, SlTypes
<1>3. SlKinds /\ SlPlace
  BY DEF SlInit, SlKinds, SlPlace, NewClient, Served
<1>4. AtVnc = {} /\ Present = {}
  BY DEF SlInit, AtVnc, Present, Served, NewClient
<1>5. SlCounts
  BY <1>4, FS_EmptySet DEF SlCounts, SlInit
<1> QED BY <1>2, <1>3, <1>5 DEF SlInv

\* Clients come and go without changing the counter where nobody of VNC does.
LEMMA SlOther ==
    ASSUME SlInv, UNCHANGED <<slKind, slOne, slCount, slLate>>, AtVnc' = AtVnc, Present' = Present
    PROVE  SlCounts'
BY DEF SlInv, SlCounts

\* A step of an RTSP connection.
LEMMA SlRtsp ==
    ASSUME SlInv, NEW c \in SlClients, NEW r \in SlClient, slCl' = [slCl EXCEPT ![c] = r],
           slKind = "rtsp", r.pc = "none" => ~r.aborted,
           r.pc \in Served /\ ~r.aborted => slCl[c].pc \in Served /\ ~slCl[c].aborted,
           slSlot' = slSlot \/ (slSlot = c /\ r.pc = "none"),
           UNCHANGED <<slKind, slOne, slRun, slCount, slLate>>
    PROVE  SlInv'
<1>1. SlTypes'
  BY DEF SlInv, SlTypes
<1>2. SlKinds'
  BY DEF SlInv, SlTypes, SlKinds
<1>3. SlPlace'
  BY DEF SlInv, SlTypes, SlPlace, Served
<1>4. SlCounts'
  BY DEF SlCounts
<1> QED BY <1>1, <1>2, <1>3, <1>4 DEF SlInv

\* The place of a client that is gone.
LEMMA SlFresh == NewClient \in SlClient /\ NewClient.pc = "none" /\ ~NewClient.aborted
<1>1. 0 \in 0..(StampWidth - 1)
  BY SlAssumption
<1> QED BY <1>1 DEF NewClient, SlClient

\* A service starts.
LEMMA SlBegins == ASSUME SlInv, SlStart PROVE SlInv'
<1>1. slRun' \in [up : BOOLEAN, runs : Nat] /\ UNCHANGED <<slKind, slOne, slCl, slSlot, slCount, slLate>>
  BY DEF SlInv, SlTypes, SlStart
<1>2. SlTypes' /\ SlKinds' /\ SlPlace'
  BY <1>1 DEF SlInv, SlTypes, SlKinds, SlPlace
<1>3. AtVnc' = AtVnc /\ Present' = Present
  BY <1>1 DEF AtVnc, Present
<1>4. SlCounts'
  BY <1>1, <1>3, SlOther
<1> QED BY <1>2, <1>4 DEF SlInv

\* A service stops: its clients are aborted, and the counter starts anew.
LEMMA SlStops == ASSUME SlInv, SlStop PROVE SlInv'
<1>1. /\ slRun' \in [up : BOOLEAN, runs : Nat] /\ UNCHANGED <<slKind, slOne, slLate>> /\ slCount' = 0
      /\ slCl' = [c \in SlClients |-> [slCl[c] EXCEPT !.aborted = slCl[c].aborted \/ slCl[c].pc # "none"]]
  BY DEF SlInv, SlTypes, SlStop
<1>2. ASSUME NEW c \in SlClients
      PROVE  slCl'[c] \in SlClient /\ slCl'[c].pc = slCl[c].pc
             /\ (slCl'[c].pc = "none" => ~slCl'[c].aborted) /\ (slCl'[c].pc # "none" => slCl'[c].aborted)
  <2>1. slCl[c] \in SlClient
    BY DEF SlInv, SlTypes
  <2>2. (slCl[c].aborted \/ slCl[c].pc # "none") \in BOOLEAN
    OBVIOUS
  <2>3. slCl'[c] = [slCl[c] EXCEPT !.aborted = slCl[c].aborted \/ slCl[c].pc # "none"]
    BY <1>1
  <2>4. slCl'[c] \in SlClient
    BY <2>1, <2>2, <2>3 DEF SlClient
  <2>5. slCl'[c].pc = slCl[c].pc /\ slCl'[c].aborted = (slCl[c].aborted \/ slCl[c].pc # "none")
    BY <2>1, <2>3 DEF SlClient
  <2> QED BY <2>4, <2>5 DEF SlInv, SlKinds
<1>3. SlTypes'
  <2>1. slCl' \in [SlClients -> SlClient]
    BY <1>1, <1>2
  <2> QED BY <1>1, <2>1 DEF SlInv, SlTypes
<1>4. SlKinds' /\ SlPlace'
  BY <1>1, <1>2 DEF SlInv, SlKinds, SlPlace, Served
<1>5. AtVnc' = AtVnc /\ Present' = {}
  BY <1>2 DEF AtVnc, Present, Served
<1>6. SlCounts'
  <2>1. SUFFICES ASSUME slKind = "vnc"
                 PROVE  IsFiniteSet(AtVnc') /\ 0 <= Cardinality(AtVnc') /\ Cardinality(Present') = 0
    BY <1>1 DEF SlCounts
  <2>2. IsFiniteSet(AtVnc)
    BY <2>1 DEF SlInv, SlCounts
  <2> QED BY <1>5, <2>2, FS_EmptySet, FS_CardinalityType
<1> QED BY <1>3, <1>4, <1>6 DEF SlInv

\* A VNC client is let in.
LEMMA SlAdmits == ASSUME SlInv, NEW c \in SlClients, VncAccept(c) PROVE SlInv'
<1> DEFINE r == [NewClient EXCEPT !.pc = "serve", !.run = slRun.runs]
<1>1. r \in SlClient /\ r.pc = "serve" /\ ~r.aborted
  <2>1. slRun.runs \in Nat
    BY DEF SlInv, SlTypes
  <2> QED BY <2>1, SlFresh DEF SlClient
<1>2. /\ slKind = "vnc" /\ slCl[c].pc = "none" /\ slCount' = slCount + 1 /\ slCl' = [slCl EXCEPT ![c] = r]
      /\ UNCHANGED <<slKind, slOne, slRun, slSlot, slLate>>
  BY DEF VncAccept
<1> HIDE DEF r
<1>3. SlTypes' /\ SlKinds' /\ SlPlace'
  BY <1>1, <1>2 DEF SlInv, SlTypes, SlKinds, SlPlace
<1>4. AtVnc' = AtVnc \cup {c} /\ c \notin AtVnc /\ Present' = Present \cup {c} /\ c \notin Present /\ Present \subseteq AtVnc
  BY <1>1, <1>2 DEF SlInv, SlTypes, SlKinds, AtVnc, Present, Served
<1>5. IsFiniteSet(AtVnc) /\ slCount <= Cardinality(AtVnc) /\ (~slLate => slCount = Cardinality(Present)) /\ slCount \in Nat
  BY <1>2 DEF SlInv, SlCounts, SlTypes
<1>6. IsFiniteSet(Present)
  BY <1>4, <1>5, FS_Subset
<1>7. IsFiniteSet(AtVnc') /\ Cardinality(AtVnc) \in Nat /\ Cardinality(AtVnc') = Cardinality(AtVnc) + 1
  BY <1>4, <1>5, OneMore
<1>8. Cardinality(Present) \in Nat /\ Cardinality(Present') = Cardinality(Present) + 1
  BY <1>4, <1>6, OneMore
<1>9. SlCounts'
  <2>1. slOne => slCount' <= 1
    BY <1>2, <1>5 DEF VncAccept
  <2> QED BY <1>2, <1>5, <1>7, <1>8, <2>1 DEF SlCounts
<1> QED BY <1>3, <1>9 DEF SlInv

\* A VNC client leaves, in its run or after it.
LEMMA SlLeaves == ASSUME SlInv, NEW c \in SlClients, VncLeave(c) PROVE SlInv'
<1>1. /\ slKind = "vnc" /\ slCl[c].pc = "serve" /\ slCl' = [slCl EXCEPT ![c] = NewClient]
      /\ slCount' = IF slCount = 0 THEN 0 ELSE slCount - 1
      /\ slLate' = (slLate \/ (slCl[c].aborted /\ slCount > 0))
      /\ UNCHANGED <<slKind, slOne, slRun, slSlot>>
  BY DEF VncLeave
<1>2. slCount \in Nat /\ slCount' \in Nat /\ slLate' \in BOOLEAN
  BY <1>1 DEF SlInv, SlTypes
<1>3. SlTypes' /\ SlKinds' /\ SlPlace'
  BY <1>1, <1>2, SlFresh DEF SlInv, SlTypes, SlKinds, SlPlace
<1>4. AtVnc' = AtVnc \ {c} /\ c \in AtVnc /\ Present' = Present \ {c} /\ Present \subseteq AtVnc /\ (c \in Present <=> ~slCl[c].aborted)
  BY <1>1, SlFresh DEF SlInv, SlTypes, SlKinds, AtVnc, Present, Served
<1>5. IsFiniteSet(AtVnc) /\ slCount <= Cardinality(AtVnc) /\ (~slLate => slCount = Cardinality(Present))
  BY <1>1 DEF SlInv, SlCounts
<1>6. IsFiniteSet(Present)
  BY <1>4, <1>5, FS_Subset
<1>7. IsFiniteSet(AtVnc') /\ Cardinality(AtVnc) \in Nat /\ Cardinality(AtVnc') \in Nat /\ Cardinality(AtVnc') + 1 = Cardinality(AtVnc)
  BY <1>4, <1>5, OneLess
<1>8. slCount' <= Cardinality(AtVnc')
  BY <1>1, <1>2, <1>5, <1>7
<1>9. ASSUME ~slLate' PROVE slCount' = Cardinality(Present')
  <2>1. ~slLate /\ slCount = Cardinality(Present)
    BY <1>1, <1>5, <1>9
  <2>2. CASE slCl[c].aborted
    <3>1. c \notin Present
      BY <1>4, <2>2
    <3>a. ~(slCl[c].aborted /\ slCount > 0)
      BY <1>1, <1>9
    <3>b. ~(slCount > 0)
      BY <2>2, <3>a
    <3>c. slCount = 0
      BY <1>2, <3>b
    <3>2. Present' = Present
      BY <1>4, <3>1
    <3> QED BY <1>1, <2>1, <3>c, <3>2
  <2>3. CASE ~slCl[c].aborted
    <3>1. Cardinality(Present) \in Nat /\ Cardinality(Present') \in Nat /\ Cardinality(Present') + 1 = Cardinality(Present)
      BY <1>4, <1>6, <2>3, OneLess
    <3> QED BY <1>1, <1>2, <2>1, <3>1
  <2> QED BY <2>2, <2>3
<1>10. SlCounts'
  <2>1. slOne' => slCount' <= 1
    <3>1. slOne => slCount <= 1
      BY <1>1 DEF SlInv, SlCounts
    <3> QED BY <1>1, <1>2, <3>1
  <2> QED BY <1>7, <1>8, <1>9, <2>1 DEF SlCounts
<1> QED BY <1>3, <1>10 DEF SlInv

\* An RTSP client is given the place, or sent away.
LEMMA SlSeats == ASSUME SlInv, NEW c \in SlClients, RtspAdmit(c) PROVE SlInv'
<1>1. CASE slOne /\ slSlot \notin {NoClient, c}
  <2>1. slCl' = [slCl EXCEPT ![c] = NewClient] /\ slKind = "rtsp" /\ UNCHANGED <<slKind, slOne, slRun, slSlot,
                                                                                 slCount, slLate>>
    BY <1>1 DEF RtspAdmit
  <2> QED BY <2>1, SlFresh, SlRtsp DEF Served
<1>2. CASE ~(slOne /\ slSlot \notin {NoClient, c})
  <2>1. /\ slKind = "rtsp" /\ slCl[c].pc = "accepted" /\ slCl' = [slCl EXCEPT ![c].pc = "serve"]
        /\ slSlot' = (IF slOne THEN c ELSE slSlot) /\ UNCHANGED <<slKind, slOne, slRun, slCount, slLate>>
        /\ (slOne => slSlot \in {NoClient, c})
    BY <1>2 DEF RtspAdmit
  <2>2. PICK r : r = [slCl[c] EXCEPT !.pc = "serve"]
    OBVIOUS
  <2>3. r \in SlClient /\ r.pc = "serve" /\ slCl' = [slCl EXCEPT ![c] = r]
    BY <2>1, <2>2 DEF SlInv, SlTypes, SlClient
  <2>4. SlTypes'
    BY <2>1, <2>3 DEF SlInv, SlTypes
  <2>5. SlKinds'
    BY <2>1, <2>3 DEF SlInv, SlTypes, SlKinds
  <2>6. SlPlace'
    <3>1. SUFFICES ASSUME slOne, NEW e \in SlClients, slCl'[e].pc \in Served, ~slCl'[e].aborted PROVE e = c
      BY <2>1 DEF SlPlace
    <3>2. CASE e # c
      <4>1. slCl[e].pc \in Served /\ ~slCl[e].aborted
        BY <2>3, <3>1, <3>2 DEF SlInv, SlTypes
      <4>2. slSlot = e
        BY <2>1, <3>1, <4>1 DEF SlInv, SlPlace
      <4> QED BY <2>1, <3>1, <3>2, <4>2, SlAssumption
    <3> QED BY <3>2
  <2>7. SlCounts'
    BY <2>1 DEF SlCounts
  <2> QED BY <2>4, <2>5, <2>6, <2>7 DEF SlInv
<1> QED BY <1>1, <1>2

\* The next stamp differs from the last, at the wrap of the counter too.
LEMMA StampMoves ==
    ASSUME NEW last \in 0..(StampWidth - 1), NEW pts \in Nat, NEW inc \in 0..1
    PROVE  MonotonicStamp(pts, last, inc) \in 0..(StampWidth - 1) /\ MonotonicStamp(pts, last, inc) # last
<1>1. PICK w \in Nat : w = StampWidth /\ w > 1
  BY SlAssumption
<1>2. CASE pts % w > last
  <2>1. pts % w \in 0..(w - 1)
    BY <1>1
  <2>2. MonotonicStamp(pts, last, inc) = pts % w
    BY <1>1, <1>2 DEF MonotonicStamp, PtsToStamp
  <2> QED BY <1>1, <1>2, <2>1, <2>2
<1>3. CASE ~(pts % w > last)
  <2>1. MonotonicStamp(pts, last, inc) = (last + 1) % w
    <3>1. (IF inc = 0 THEN 1 ELSE inc) = 1
      OBVIOUS
    <3> QED BY <1>1, <1>3, <3>1 DEF MonotonicStamp, PtsToStamp
  <2>2. last \in 0..(w - 1)
    BY <1>1
  <2>3. CASE last + 1 < w
    <3>1. (last + 1) % w = last + 1
      BY <1>1, <2>2, <2>3
    <3> QED BY <1>1, <2>1, <2>2, <2>3, <3>1
  <2>4. CASE last + 1 = w
    <3>1. w % w = 0
      BY <1>1
    <3> QED BY <1>1, <2>1, <2>2, <2>4, <3>1
  <2> QED BY <1>1, <2>2, <2>3, <2>4
<1> QED BY <1>2, <1>3


\* A playing connection belongs to RTSP.
LEMMA SlPlays ==
    ASSUME SlInv, NEW c \in SlClients, slCl[c].pc \notin {"none", "serve"}
    PROVE  slKind = "rtsp"
BY DEF SlInv, SlTypes, SlKinds

\* The steps of a connection that leave the slot alone.
LEMMA SlTalks ==
    ASSUME SlInv, NEW c \in SlClients,
           RtspAccept(c) \/ RtspAnswer(c) \/ RtspPlay(c) \/ RtspTeardown(c) \/ RtspResubscribe(c) \/ RtspControl(c) \/ RtspDropped(c)
    PROVE  SlInv'
<1>1. slCl[c] \in SlClient
  BY DEF SlInv, SlTypes
<1>2. CASE RtspAccept(c)
  <2>1. PICK r : r = [NewClient EXCEPT !.pc = "accepted", !.run = slRun.runs]
    OBVIOUS
  <2>2. r \in SlClient /\ r.pc = "accepted"
    <3>1. slRun.runs \in Nat
      BY DEF SlInv, SlTypes
    <3> QED BY <2>1, <3>1, SlFresh DEF SlClient
  <2>3. /\ slKind = "rtsp" /\ slCl' = [slCl EXCEPT ![c] = r]
        /\ UNCHANGED <<slKind, slOne, slRun, slSlot, slCount, slLate>>
    BY <1>2, <2>1 DEF RtspAccept
  <2> QED BY <2>2, <2>3, SlRtsp DEF Served
<1>3. CASE RtspAnswer(c)
  <2>1. PICK v \in RtspVerdicts : slCl' = [slCl EXCEPT ![c].setup = slCl[c].setup \/ v = "setup"]
    BY <1>3 DEF RtspAnswer
  <2>2. PICK b \in BOOLEAN : b = (slCl[c].setup \/ v = "setup")
    OBVIOUS
  <2>3. PICK r : r = [slCl[c] EXCEPT !.setup = b]
    OBVIOUS
  <2>4. r \in SlClient /\ r.pc = slCl[c].pc /\ r.aborted = slCl[c].aborted
    BY <1>1, <2>3 DEF SlClient
  <2>5. slCl' = [slCl EXCEPT ![c] = r]
    BY <2>1, <2>2, <2>3
  <2>6. slKind = "rtsp" /\ slCl[c].pc = "serve" /\ UNCHANGED <<slKind, slOne, slRun, slSlot, slCount, slLate>>
    BY <1>3 DEF RtspAnswer
  <2> QED BY <2>4, <2>5, <2>6, SlRtsp
<1>4. CASE RtspPlay(c)
  <2>1. PICK got \in BOOLEAN : slCl' = [slCl EXCEPT ![c].pc = IF got THEN "play" ELSE "end", ![c].sub = got]
    BY <1>4 DEF RtspPlay
  <2>2. PICK p \in {"play", "end"} : p = (IF got THEN "play" ELSE "end")
    OBVIOUS
  <2>3. PICK r : r = [slCl[c] EXCEPT !.pc = p, !.sub = got]
    OBVIOUS
  <2>4. r \in SlClient /\ r.pc = p /\ r.aborted = slCl[c].aborted
    BY <1>1, <2>3 DEF SlClient
  <2>5. slCl' = [slCl EXCEPT ![c] = r]
    BY <2>1, <2>2, <2>3
  <2>6. /\ slKind = "rtsp" /\ slCl[c].pc = "serve" /\ ~slCl[c].aborted
        /\ UNCHANGED <<slKind, slOne, slRun, slSlot, slCount, slLate>>
    BY <1>4 DEF RtspPlay
  <2> QED BY <2>4, <2>5, <2>6, SlRtsp DEF Served
<1>5. CASE RtspTeardown(c) \/ RtspControl(c)
  <2>1. PICK r : r = [slCl[c] EXCEPT !.pc = "end"]
    OBVIOUS
  <2>2. r \in SlClient /\ r.pc = "end"
    BY <1>1, <2>1 DEF SlClient
  <2>3. slCl' = [slCl EXCEPT ![c] = r] /\ UNCHANGED <<slKind, slOne, slRun, slSlot, slCount, slLate>>
    BY <1>5, <2>1 DEF RtspTeardown, RtspControl
  <2>4. slKind = "rtsp"
    BY <1>5, SlPlays DEF RtspTeardown, RtspControl
  <2> QED BY <2>2, <2>3, <2>4, SlRtsp DEF Served
<1>6. CASE RtspResubscribe(c)
  <2>1. slCl' = [slCl EXCEPT ![c].sub = ~slCl[c].sub] /\ slCl[c].pc = "play" /\ UNCHANGED <<slKind, slOne,
                                                                                            slRun, slSlot, slCount, slLate>>
    BY <1>6 DEF RtspResubscribe
  <2>2. PICK b \in BOOLEAN : b = ~slCl[c].sub
    OBVIOUS
  <2>3. PICK r : r = [slCl[c] EXCEPT !.sub = b]
    OBVIOUS
  <2>4. r \in SlClient /\ r.pc = slCl[c].pc /\ r.aborted = slCl[c].aborted
    BY <1>1, <2>3 DEF SlClient
  <2>5. slCl' = [slCl EXCEPT ![c] = r]
    BY <2>1, <2>2, <2>3
  <2>6. slKind = "rtsp"
    BY <2>1, SlPlays
  <2> QED BY <2>1, <2>4, <2>5, <2>6, SlRtsp
<1>7. CASE RtspDropped(c)
  <2>1. slKind = "rtsp" /\ slCl' = [slCl EXCEPT ![c] = NewClient] /\ UNCHANGED <<slKind, slOne, slRun, slSlot,
                                                                                 slCount, slLate>>
    BY <1>7 DEF RtspDropped
  <2> QED BY <2>1, SlFresh, SlRtsp DEF Served
<1> QED BY <1>2, <1>3, <1>4, <1>5, <1>6, <1>7

\* Every frame moves the stamp.
LEMMA SlFrames ==
    ASSUME SlInv, NEW c \in SlClients, RtspFrame(c)
    PROVE  SlInv' /\ slCl'[c].last # slCl[c].last /\ \A e \in SlClients \ {c} : slCl'[e] = slCl[e]
<1>1. slCl[c] \in SlClient /\ slCl[c].pts \in Nat /\ slCl[c].last \in 0..(StampWidth - 1) /\ slCl[c].par \in 0..1
  BY DEF SlInv, SlTypes, SlClient
<1>2. PICK pts \in slCl[c].pts..MaxPts, inc \in 0..1 :
        slCl' = [slCl EXCEPT ![c].pts = pts, ![c].last = MonotonicStamp(pts, slCl[c].last, inc), ![c].par = 1 - slCl[c].par]
  BY DEF RtspFrame
<1>3. PICK p \in Nat, l \in 0..(StampWidth - 1) : p = pts /\ l = slCl[c].last
  BY <1>1, SlAssumption
<1>4. PICK m : m = MonotonicStamp(p, l, inc)
  OBVIOUS
<1>5. m \in 0..(StampWidth - 1) /\ m # l
  BY <1>4, StampMoves
<1>6. PICK q \in 0..1 : q = 1 - slCl[c].par
  BY <1>1
<1>7. PICK r : r = [slCl[c] EXCEPT !.pts = p, !.last = m, !.par = q]
  OBVIOUS
<1>8. r \in SlClient /\ r.pc = slCl[c].pc /\ r.aborted = slCl[c].aborted /\ r.last = m
  BY <1>1, <1>3, <1>5, <1>6, <1>7 DEF SlClient
<1>9. slCl' = [slCl EXCEPT ![c] = r]
  BY <1>2, <1>3, <1>4, <1>6, <1>7
<1>10. slCl[c].pc = "play" /\ UNCHANGED <<slKind, slOne, slRun, slSlot, slCount, slLate>>
  BY DEF RtspFrame
<1>11. slKind = "rtsp"
  BY <1>10, SlPlays
<1>12. SlInv'
  BY <1>8, <1>9, <1>10, <1>11, SlRtsp
<1>13. slCl'[c] = r /\ \A e \in SlClients \ {c} : slCl'[e] = slCl[e]
  BY <1>9 DEF SlInv, SlTypes
<1> QED BY <1>3, <1>5, <1>8, <1>12, <1>13

\* The slot is given back by the client that has it.
LEMMA SlReleases == ASSUME SlInv, NEW c \in SlClients, RtspRelease(c) PROVE SlInv'
<1>1. /\ slCl[c].pc = "end" /\ slCl' = [slCl EXCEPT ![c] = NewClient]
      /\ slSlot' = (IF slOne /\ slSlot = c THEN NoClient ELSE slSlot)
      /\ UNCHANGED <<slKind, slOne, slRun, slCount, slLate>>
  BY DEF RtspRelease
<1>2. slKind = "rtsp"
  BY <1>1, SlPlays
<1>3. slSlot' = slSlot \/ (slSlot = c /\ NewClient.pc = "none")
  BY <1>1, SlFresh
<1> QED BY <1>1, <1>2, <1>3, SlFresh, SlRtsp DEF Served

\* Every step of the two listeners keeps their invariant.
LEMMA SlSteps == SlInv /\ [SlNext]_slVars => SlInv'
<1> SUFFICES ASSUME SlInv, [SlNext]_slVars PROVE SlInv'
  OBVIOUS
<1>1. CASE UNCHANGED slVars
  <2>1. SlTypes' /\ SlKinds' /\ SlPlace'
    BY <1>1 DEF slVars, SlInv, SlTypes, SlKinds, SlPlace
  <2>2. AtVnc' = AtVnc /\ Present' = Present
    BY <1>1 DEF slVars, AtVnc, Present
  <2>3. SlCounts'
    BY <1>1, <2>2, SlOther DEF slVars
  <2> QED BY <2>1, <2>3 DEF SlInv
<1>2. CASE SlStart
  BY <1>2, SlBegins
<1>3. CASE SlStop
  BY <1>3, SlStops
<1>4. ASSUME NEW c \in SlClients, VncAccept(c) \/ VncLeave(c) \/ RtspAccept(c) \/ RtspAdmit(c) \/ RtspAnswer(c) \/ RtspPlay(c)
          \/ RtspTeardown(c) \/ RtspFrame(c) \/ RtspResubscribe(c) \/ RtspControl(c) \/ RtspRelease(c) \/ RtspDropped(c)
      PROVE SlInv'
  BY <1>4, SlAdmits, SlLeaves, SlSeats, SlTalks, SlFrames, SlReleases
<1> QED BY <1>1, <1>2, <1>3, <1>4 DEF SlNext

\* A set without two different members has at most one.
LEMMA AtMostOne == ASSUME NEW Some, NEW x, Some \subseteq {x} PROVE Cardinality(Some) <= 1
<1>1. CASE Some = {}
  BY <1>1, FS_EmptySet
<1>2. CASE Some = {x}
  BY <1>2, FS_Singleton
<1> QED BY <1>1, <1>2

\* The invariant gives what is promised of every state of the listeners.
LEMMA SlPromised == SlInv => OneClientServed /\ VncPlaceComesBack
<1> SUFFICES ASSUME SlInv PROVE OneClientServed /\ VncPlaceComesBack
  OBVIOUS
<1>1. VncPlaceComesBack
  BY DEF SlInv, SlCounts, AtVnc, VncPlaceComesBack
<1>2. ASSUME slOne, ~slLate PROVE Cardinality(Present) <= 1
  <2>1. CASE slKind = "rtsp"
    <3>1. Present \subseteq {slSlot}
      BY <1>2, <2>1 DEF SlInv, SlPlace, Present
    <3> QED BY <3>1, AtMostOne
  <2>2. CASE slKind = "vnc"
    <3>1. slCount = Cardinality(Present) /\ slCount <= 1
      BY <1>2, <2>2 DEF SlInv, SlCounts
    <3> QED BY <3>1
  <2> QED BY <2>1, <2>2 DEF SlInv, SlTypes
<1> QED BY <1>1, <1>2 DEF OneClientServed

\* What StampsDiffer says of one step.
SlStamps == \A c \in SlClients :
    slCl[c].pc = "play" /\ slCl'[c].pc = "play" /\ slCl'[c].par # slCl[c].par => slCl'[c].last # slCl[c].last

\* And what is promised of every step.
LEMMA SlMarks == SlInv /\ [SlNext]_slVars => [SlStamps]_slVars
<1> SUFFICES ASSUME SlInv, SlNext, NEW c \in SlClients, slCl[c].pc = "play", slCl'[c].pc = "play", slCl'[c].par # slCl[c].par
             PROVE  slCl'[c].last # slCl[c].last
  BY DEF SlStamps
<1>1. slCl[c] \in SlClient
  BY DEF SlInv, SlTypes
<1>2. CASE SlStart
  BY <1>2 DEF SlStart
<1>3. CASE SlStop
  <2>1. slCl'[c] = [slCl[c] EXCEPT !.aborted = slCl[c].aborted \/ slCl[c].pc # "none"]
    BY <1>3 DEF SlStop
  <2>2. slCl'[c].par = slCl[c].par
    BY <1>1, <2>1 DEF SlClient
  <2> QED BY <2>2
<1>4. ASSUME NEW e \in SlClients, VncAccept(e) \/ VncLeave(e) \/ RtspAccept(e) \/ RtspAdmit(e) \/ RtspAnswer(e) \/ RtspPlay(e)
          \/ RtspTeardown(e) \/ RtspFrame(e) \/ RtspResubscribe(e) \/ RtspControl(e) \/ RtspRelease(e) \/ RtspDropped(e)
      PROVE slCl'[c].last # slCl[c].last
  <2>1. CASE RtspFrame(e)
    BY <2>1, SlFrames
  <2>2. CASE RtspResubscribe(e)
    <3>1. slCl'[c] = slCl[c] \/ slCl'[c] = [slCl[c] EXCEPT !.sub = ~slCl[c].sub]
      BY <2>2 DEF RtspResubscribe, SlInv, SlTypes
    <3>2. slCl'[c].par = slCl[c].par
      BY <1>1, <3>1 DEF SlClient
    <3> QED BY <3>2
  <2>3. CASE VncAccept(e) \/ VncLeave(e) \/ RtspAccept(e) \/ RtspAdmit(e) \/ RtspAnswer(e) \/ RtspPlay(e)
             \/ RtspTeardown(e) \/ RtspControl(e) \/ RtspRelease(e) \/ RtspDropped(e)
    <3>1. \A x \in SlClients : x # e => slCl'[x] = slCl[x]
      BY <2>3 DEF VncAccept, VncLeave, RtspAccept, RtspAdmit, RtspAnswer, RtspPlay, RtspTeardown, RtspControl,
                  RtspRelease, RtspDropped, SlInv, SlTypes
    <3>2. c = e
      BY <3>1
    <3>3. CASE VncAccept(c) \/ VncLeave(c) \/ RtspAccept(c) \/ RtspAdmit(c) \/ RtspAnswer(c) \/ RtspPlay(c) \/ RtspTeardown(c)
      <4>1. slCl[c].pc # "play"
        BY <3>3 DEF VncAccept, VncLeave, RtspAccept, RtspAdmit, RtspAnswer, RtspPlay, RtspTeardown
      <4> QED BY <4>1
    <3>4. CASE RtspControl(c) \/ RtspRelease(c) \/ RtspDropped(c)
      <4>1. slCl' = [slCl EXCEPT ![c].pc = "end"] \/ slCl' = [slCl EXCEPT ![c] = NewClient]
        BY <3>4 DEF RtspControl, RtspRelease, RtspDropped
      <4>2. slCl'[c].pc # "play"
        BY <1>1, <4>1, SlFresh DEF SlInv, SlTypes, SlClient
      <4> QED BY <4>2
    <3> QED BY <2>3, <3>2, <3>3, <3>4
  <2> QED BY <1>4, <2>1, <2>2, <2>3
<1> QED BY <1>2, <1>3, <1>4 DEF SlNext

-----------------------------------------------------------------------------
\* A VNC session

VnClient == [pc : {"auth", "negotiate", "loop", "ended"}, on : BOOLEAN, resize : BOOLEAN, size : VnSizes,
             pending : {"none", "inc", "full"}, sent : 0..MaxVnFrames, waiting : BOOLEAN, mask : SUBSET VnButtons]
VnPeer == [asked : 0..1, size : VnSizes, needKey : BOOLEAN, bad : {"no", "unasked", "size", "delta"}]

\* The frames of the source are counted from the start of a capture, all of them
\* together from the start of the session.
VnFramed ==
    /\ vnSrc \in [size : VnSizes, want : BOOLEAN, seq : 0..MaxVnFrames, made : 0..MaxVnFrames, open : BOOLEAN]
    /\ vnSrc.seq <= vnSrc.made
    /\ vnWatch \in [frame : VnFrames, fresh : BOOLEAN] /\ vnLatest \in VnFrames

VnQueued ==
    /\ vnCfg \in {"h264", "jpeg"} /\ vnBuf \in Seq(VnMessages)
    /\ vnMsgs \in Nat /\ Len(vnBuf) <= vnMsgs /\ vnMsgs <= MaxVnMsgs

\* What the client holds fits what the viewer was told and has asked for.
Fits(c, v) ==
    /\ v.bad = "no" /\ v.size = c.size
    /\ v.asked = 0 => c.pending = "none"
    /\ vnCfg = "h264" /\ v.needKey => c.waiting
    /\ vnCfg = "h264" /\ c.pending = "full" => c.waiting

\* A viewer that waits for nothing has no request on its way.
VnAsked == vnViewer.asked = 0 => \A i \in 1..Len(vnBuf) : vnBuf[i].kind # "request"

VnFitted == vnC \in VnClient /\ vnViewer \in VnPeer /\ Fits(vnC, vnViewer)

\* Nothing is pressed before the loop, and nothing but the mask in it.
VnPressed ==
    /\ vnHost \subseteq vnC.mask
    /\ vnC.pc \in {"auth", "negotiate"} => vnHost = {}

VnInv == VnFramed /\ VnQueued /\ VnAsked /\ VnFitted /\ VnPressed

\* The frame that stands for none is a frame.
LEMMA VnFirst == NoFrame \in VnFrames
<1>1. (CHOOSE s \in VnSizes : TRUE) \in VnSizes
  BY VnAssumption
<1>2. 0 \in 0..MaxVnFrames
  BY VnAssumption
<1> QED BY <1>1, <1>2 DEF NoFrame, VnFrames

\* A session starts with nothing asked and nothing pressed.
LEMMA VnStarts == VnInit => VnInv
<1> SUFFICES ASSUME VnInit PROVE VnInv
  OBVIOUS
<1>1. 0 \in 0..MaxVnFrames /\ {} \subseteq VnButtons
  BY VnAssumption
<1>2. PICK s \in VnSizes : vnSrc = [size |-> s, want |-> FALSE, seq |-> 0, made |-> 0, open |-> TRUE]
  BY DEF VnInit
<1>3. VnFramed
  <2>1. vnWatch = [frame |-> NoFrame, fresh |-> FALSE] /\ vnLatest = NoFrame
    BY DEF VnInit
  <2> QED BY <1>1, <1>2, <2>1, VnFirst DEF VnFramed
<1>4. VnQueued
  BY VnAssumption DEF VnInit, VnQueued
<1>5. VnAsked
  BY DEF VnInit, VnAsked
<1>6. /\ vnC = [pc |-> "auth", on |-> FALSE, resize |-> FALSE, size |-> s, pending |-> "none",
                sent |-> 0, waiting |-> TRUE, mask |-> {}]
      /\ vnViewer = [asked |-> 0, size |-> s, needKey |-> TRUE, bad |-> "no"] /\ vnHost = {}
  BY <1>2 DEF VnInit
<1>7. vnC \in VnClient
  BY <1>1, <1>6 DEF VnClient
<1>8. vnViewer \in VnPeer
  BY <1>6 DEF VnPeer
<1>9. Fits(vnC, vnViewer) /\ VnPressed
  BY <1>6 DEF Fits, VnPressed
<1> QED BY <1>3, <1>4, <1>5, <1>7, <1>8, <1>9 DEF VnInv, VnFitted

\* An answer fits what was asked, and leaves what fits.
LEMMA VnSends ==
    ASSUME NEW c \in VnClient, NEW v \in VnPeer, NEW g \in VnFrames, Fits(c, v),
           NEW r, r = SendFrame(c, g), NEW w, w = Viewed(v, r.out, g)
    PROVE  /\ w \in VnPeer /\ r.c \in VnClient /\ r.c.mask = c.mask /\ r.c.pc = c.pc
           /\ Fits(r.c, w) /\ r.out \in {"none", "error", "size", "frame"}
           /\ r.out = "error" => r.c = c
<1>1. g.size \in VnSizes /\ g.seq \in 0..MaxVnFrames /\ g.key \in BOOLEAN /\ 0 \in 0..MaxVnFrames
  BY VnAssumption DEF VnFrames
<1>2. CASE r.out \in {"none", "error"} /\ r.c = c
  <2>1. w = v
    BY <1>2 DEF Viewed
  <2> QED BY <1>2, <2>1
<1>3. CASE /\ c.pending # "none" /\ g.size # c.size
           /\ r = [out |-> "size", c |-> [c EXCEPT !.size = g.size, !.pending = "none", !.sent = 0, !.waiting = TRUE]]
  <2>1. v.asked = 1
    BY <1>3 DEF Fits, VnPeer
  <2>2. PICK b \in BOOLEAN : b = (vnCfg = "h264")
    OBVIOUS
  <2>3. w = [v EXCEPT !.asked = 0, !.size = g.size, !.needKey = b, !.bad = v.bad]
    BY <1>3, <2>1, <2>2 DEF Viewed
  <2>4. w \in VnPeer /\ w.bad = v.bad /\ w.size = g.size /\ w.asked = 0
    <3>1. PICK o \in {"no", "unasked", "size", "delta"} : o = v.bad
      BY DEF VnPeer
    <3>2. w = [v EXCEPT !.asked = 0, !.size = g.size, !.needKey = b, !.bad = o] /\ 0 \in 0..1
      BY <2>3, <3>1
    <3>3. w \in VnPeer
      BY <1>1, <2>2, <3>1, <3>2 DEF VnPeer
    <3>4. w.bad = o /\ w.size = g.size /\ w.asked = 0
      BY <3>2 DEF VnPeer
    <3> QED BY <3>1, <3>3, <3>4
  <2>5. PICK e : e = [c EXCEPT !.size = g.size, !.pending = "none", !.sent = 0, !.waiting = TRUE]
    OBVIOUS
  <2>6. e \in VnClient /\ e.mask = c.mask /\ e.pc = c.pc /\ e.size = g.size /\ e.pending = "none" /\ e.waiting
    BY <1>1, <2>5 DEF VnClient
  <2>7. r.c = e /\ r.out = "size"
    BY <1>3, <2>5
  <2>8. Fits(e, w)
    BY <2>4, <2>6 DEF Fits
  <2> QED BY <2>4, <2>6, <2>7, <2>8
<1>4. CASE /\ c.pending # "none" /\ g.size = c.size /\ ~(vnCfg = "h264" /\ c.waiting /\ ~g.key)
           /\ r = [out |-> "frame", c |-> [c EXCEPT !.pending = "none", !.sent = g.seq, !.waiting = FALSE]]
  <2>1. v.asked = 1 /\ v.size = g.size
    BY <1>4 DEF Fits, VnPeer
  <2>2. ~(vnCfg = "h264" /\ v.needKey /\ ~g.key)
    BY <1>4 DEF Fits
  <2>3. w = [v EXCEPT !.asked = 0, !.needKey = FALSE, !.bad = v.bad]
    <3>1. PICK o : o = IF v.asked = 0 THEN "unasked" ELSE IF v.size # g.size THEN "size"
                       ELSE IF vnCfg = "h264" /\ v.needKey /\ ~g.key THEN "delta" ELSE v.bad
      OBVIOUS
    <3>2. v.asked # 0
      BY <2>1
    <3>3. o = v.bad
      BY <2>1, <2>2, <3>1, <3>2
    <3>4. r.out = "frame"
      BY <1>4
    <3>5. w = [v EXCEPT !.asked = 0, !.needKey = FALSE, !.bad = o]
      BY <3>1, <3>4 DEF Viewed
    <3> QED BY <3>3, <3>5
  <2>4. w \in VnPeer /\ w.bad = v.bad /\ w.size = v.size /\ w.asked = 0 /\ ~w.needKey
    <3>1. PICK o \in {"no", "unasked", "size", "delta"} : o = v.bad
      BY DEF VnPeer
    <3>2. w = [v EXCEPT !.asked = 0, !.needKey = FALSE, !.bad = o] /\ 0 \in 0..1
      BY <2>3, <3>1
    <3>3. w \in VnPeer
      BY <3>1, <3>2 DEF VnPeer
    <3>4. w.bad = o /\ w.size = v.size /\ w.asked = 0 /\ w.needKey = FALSE
      BY <3>2 DEF VnPeer
    <3> QED BY <3>1, <3>3, <3>4
  <2>5. PICK e : e = [c EXCEPT !.pending = "none", !.sent = g.seq, !.waiting = FALSE]
    OBVIOUS
  <2>6. e \in VnClient /\ e.mask = c.mask /\ e.pc = c.pc /\ e.size = c.size /\ e.pending = "none"
    BY <1>1, <2>5 DEF VnClient
  <2>7. r.c = e /\ r.out = "frame"
    BY <1>4, <2>5
  <2>8. Fits(e, w)
    BY <2>4, <2>6 DEF Fits
  <2> QED BY <2>4, <2>6, <2>7, <2>8
<1>5. \/ r.out \in {"none", "error"} /\ r.c = c
      \/ /\ c.pending # "none" /\ g.size # c.size
         /\ r = [out |-> "size", c |-> [c EXCEPT !.size = g.size, !.pending = "none", !.sent = 0, !.waiting = TRUE]]
      \/ /\ c.pending # "none" /\ g.size = c.size /\ ~(vnCfg = "h264" /\ c.waiting /\ ~g.key)
         /\ r = [out |-> "frame", c |-> [c EXCEPT !.pending = "none", !.sent = g.seq, !.waiting = FALSE]]
  BY DEF SendFrame
<1> QED BY <1>2, <1>3, <1>4, <1>5

\* The end of a turn.
LEMMA VnTurns ==
    ASSUME VnInv, UNCHANGED vnCfg, NEW c \in VnClient, NEW g \in VnFrames, NEW want \in BOOLEAN, NEW buffered \in BOOLEAN,
           Fits(c, vnViewer), c.pc = "loop", EndOfTurn(c, g, want, buffered)
    PROVE  /\ VnFitted' /\ vnC'.mask = c.mask /\ vnC'.pc \notin {"auth", "negotiate"} /\ vnLatest' = g
           /\ vnSrc' \in [size : VnSizes, want : BOOLEAN, seq : 0..MaxVnFrames, made : 0..MaxVnFrames, open : BOOLEAN]
           /\ vnSrc'.seq = vnSrc.seq /\ vnSrc'.made = vnSrc.made
           /\ buffered => vnViewer' = vnViewer
<1>1. PICK r : r = IF g.seq = 0 \/ buffered THEN [out |-> "none", c |-> c] ELSE SendFrame(c, g)
  OBVIOUS
<1>2. PICK b : b = (vnSrc.want \/ (vnCfg = "h264" /\ (want \/ r.out = "size")))
  OBVIOUS
<1>3. /\ vnC' = (IF r.out = "error" THEN [c EXCEPT !.pc = "ended"] ELSE r.c)
      /\ vnViewer' = Viewed(vnViewer, r.out, g) /\ vnLatest' = g /\ vnSrc' = [vnSrc EXCEPT !.want = b]
  BY <1>1, <1>2 DEF EndOfTurn
<1>4. b \in BOOLEAN
  BY <1>2
<1>5. /\ vnSrc' \in [size : VnSizes, want : BOOLEAN, seq : 0..MaxVnFrames, made : 0..MaxVnFrames, open : BOOLEAN]
      /\ vnSrc'.seq = vnSrc.seq /\ vnSrc'.made = vnSrc.made
  BY <1>3, <1>4 DEF VnInv, VnFramed
<1>6. vnViewer \in VnPeer
  BY DEF VnInv, VnFitted
<1>7. CASE g.seq = 0 \/ buffered
  <2>1. r.out = "none" /\ r.c = c
    BY <1>1, <1>7
  <2>2. vnC' = c /\ vnViewer' = vnViewer
    BY <1>3, <2>1 DEF Viewed
  <2>3. VnFitted'
    BY <1>6, <2>2 DEF VnFitted, Fits
  <2> QED BY <1>3, <1>5, <2>2, <2>3
<1>8. CASE ~(g.seq = 0 \/ buffered)
  <2>1. r = SendFrame(c, g)
    BY <1>1, <1>8
  <2>2. PICK w : w = Viewed(vnViewer, r.out, g)
    OBVIOUS
  <2>3. /\ w \in VnPeer /\ r.c \in VnClient /\ r.c.mask = c.mask /\ r.c.pc = c.pc
        /\ Fits(r.c, w) /\ (r.out = "error" => r.c = c)
    BY <1>6, <2>1, <2>2, VnSends
  <2>4. CASE r.out = "error"
    <3>1. vnC' = [c EXCEPT !.pc = "ended"] /\ vnViewer' = w
      BY <1>3, <2>2, <2>4
    <3>2. /\ vnC' \in VnClient /\ vnC'.mask = c.mask /\ vnC'.pc = "ended"
          /\ vnC'.size = c.size /\ vnC'.pending = c.pending /\ vnC'.waiting = c.waiting
      BY <3>1 DEF VnClient
    <3>3. Fits(c, w)
      BY <2>3, <2>4
    <3>4. VnFitted'
      BY <2>3, <3>1, <3>2, <3>3 DEF VnFitted, Fits
    <3> QED BY <1>3, <1>5, <1>8, <3>2, <3>4
  <2>5. CASE r.out # "error"
    <3>1. vnC' = r.c /\ vnViewer' = w
      BY <1>3, <2>2, <2>5
    <3>2. VnFitted'
      BY <2>3, <3>1 DEF VnFitted, Fits
    <3> QED BY <1>3, <1>5, <1>8, <2>3, <3>1, <3>2
  <2> QED BY <2>4, <2>5
<1> QED BY <1>7, <1>8

\* Decoding a message keeps what fits.
LEMMA VnDecodes ==
    ASSUME VnInv, vnBuf # <<>>, NEW m, m = vnBuf[1], NEW c, c = DecodeMessage(vnC, m)
    PROVE  /\ m \in VnMessages /\ c \in VnClient /\ Fits(c, vnViewer) /\ c.pc = vnC.pc
           /\ c.mask = IF m.kind = "pointer" THEN m.mask ELSE vnC.mask
           /\ Len(vnBuf) \in Nat \ {0} /\ Tail(vnBuf) \in Seq(VnMessages) /\ Len(Tail(vnBuf)) = Len(vnBuf) - 1
           /\ \A i \in 1..Len(Tail(vnBuf)) : Tail(vnBuf)[i] = vnBuf[i + 1]
<1>1. vnBuf \in Seq(VnMessages) /\ vnC \in VnClient /\ vnViewer \in VnPeer /\ Fits(vnC, vnViewer)
  BY DEF VnInv, VnQueued, VnFitted
<1>2. /\ Len(vnBuf) \in Nat \ {0} /\ Tail(vnBuf) \in Seq(VnMessages) /\ Len(Tail(vnBuf)) = Len(vnBuf) - 1
      /\ \A i \in 1..Len(Tail(vnBuf)) : Tail(vnBuf)[i] = vnBuf[i + 1]
  <2>1. Len(vnBuf) \in Nat \ {0}
    BY <1>1, EmptySeq
  <2> QED BY <1>1, <2>1, HeadTailProperties
<1>3. m \in VnMessages
  BY <1>1, <1>2
<1>4. CASE m.kind = "encodings"
  <2>1. m \in [kind : {"encodings"}, on : BOOLEAN, resize : BOOLEAN]
    BY <1>3, <1>4 DEF VnMessages
  <2>2. PICK b : b = (vnC.waiting \/ (~vnC.on /\ m.on /\ vnCfg = "h264"))
    OBVIOUS
  <2>3. c = [vnC EXCEPT !.on = m.on, !.resize = m.resize, !.waiting = b]
    BY <1>4, <2>2 DEF DecodeMessage
  <2>4. b \in BOOLEAN /\ (vnC.waiting => b)
    BY <2>2
  <2>5. c \in VnClient /\ c.pc = vnC.pc /\ c.mask = vnC.mask /\ c.pending = vnC.pending /\ c.size = vnC.size /\ c.waiting = b
    BY <1>1, <2>1, <2>3, <2>4 DEF VnClient
  <2>6. Fits(c, vnViewer)
    BY <1>1, <2>4, <2>5 DEF Fits
  <2> QED BY <1>2, <1>3, <1>4, <2>5, <2>6
<1>5. CASE m.kind = "request"
  <2>1. m \in [kind : {"request"}, inc : BOOLEAN]
    BY <1>3, <1>5 DEF VnMessages
  <2>2. PICK b : b = (vnC.waiting \/ (~m.inc /\ vnCfg = "h264"))
    OBVIOUS
  <2>3. PICK p \in {"inc", "full"} : p = IF m.inc /\ vnC.pending # "full" THEN "inc" ELSE "full"
    OBVIOUS
  <2>4. c = [vnC EXCEPT !.pending = p, !.waiting = b]
    BY <1>5, <2>2, <2>3 DEF DecodeMessage
  <2>5. b \in BOOLEAN /\ (vnC.waiting => b) /\ (vnCfg = "h264" /\ p = "full" => b)
    <3>1. b \in BOOLEAN /\ (vnC.waiting => b)
      BY <2>2
    <3>2. ASSUME vnCfg = "h264", p = "full" PROVE b
      <4>1. ~m.inc \/ vnC.pending = "full"
        BY <2>3, <3>2
      <4>2. vnC.pending = "full" => vnC.waiting
        BY <1>1, <3>2 DEF Fits
      <4> QED BY <2>2, <3>2, <4>1, <4>2
    <3> QED BY <3>1, <3>2
  <2>6. c \in VnClient /\ c.pc = vnC.pc /\ c.mask = vnC.mask /\ c.pending = p /\ c.size = vnC.size /\ c.waiting = b
    BY <1>1, <2>3, <2>4, <2>5 DEF VnClient
  <2>7. vnViewer.asked # 0
    <3>1. 1 \in 1..Len(vnBuf)
      BY <1>2
    <3> QED BY <1>5, <3>1 DEF VnInv, VnAsked
  <2>8. Fits(c, vnViewer)
    BY <1>1, <2>5, <2>6, <2>7 DEF Fits
  <2> QED BY <1>2, <1>3, <1>5, <2>6, <2>8
<1>6. CASE m.kind = "pointer"
  <2>1. m \in [kind : {"pointer"}, mask : SUBSET VnButtons]
    BY <1>3, <1>6 DEF VnMessages
  <2>2. c = [vnC EXCEPT !.mask = m.mask]
    BY <1>6 DEF DecodeMessage
  <2>3. c \in VnClient /\ c.pc = vnC.pc /\ c.mask = m.mask /\ c.pending = vnC.pending /\ c.size = vnC.size /\ c.waiting = vnC.waiting
    BY <1>1, <2>1, <2>2 DEF VnClient
  <2>4. Fits(c, vnViewer)
    BY <1>1, <2>3 DEF Fits
  <2> QED BY <1>2, <1>3, <1>6, <2>3, <2>4
<1>7. CASE m.kind \notin {"encodings", "request", "pointer"}
  <2>1. c = vnC
    BY <1>7 DEF DecodeMessage
  <2> QED BY <1>1, <1>2, <1>3, <1>7, <2>1
<1> QED BY <1>4, <1>5, <1>6, <1>7

\* What is left in the buffer.
LEMMA VnTakes ==
    ASSUME VnInv, vnBuf # <<>>, vnBuf' = Tail(vnBuf), UNCHANGED <<vnCfg, vnMsgs>>,
           vnViewer' = vnViewer \/ Len(vnBuf) = 1
    PROVE  VnQueued' /\ VnAsked'
<1>1. PICK m, c : m = vnBuf[1] /\ c = DecodeMessage(vnC, m)
  OBVIOUS
<1>2. /\ Len(vnBuf) \in Nat \ {0} /\ Tail(vnBuf) \in Seq(VnMessages) /\ Len(Tail(vnBuf)) = Len(vnBuf) - 1
      /\ \A i \in 1..Len(Tail(vnBuf)) : Tail(vnBuf)[i] = vnBuf[i + 1]
  BY <1>1, VnDecodes
<1>3. VnQueued'
  BY <1>2 DEF VnInv, VnQueued
<1>4. ASSUME vnViewer'.asked = 0, NEW i \in 1..Len(vnBuf') PROVE vnBuf'[i].kind # "request"
  <2>1. CASE Len(vnBuf) = 1
    BY <1>2, <1>4, <2>1
  <2>2. CASE vnViewer' = vnViewer
    <3>1. vnBuf'[i] = vnBuf[i + 1] /\ i + 1 \in 1..Len(vnBuf)
      BY <1>2, <1>4
    <3> QED BY <1>4, <2>2, <3>1 DEF VnInv, VnAsked
  <2> QED BY <2>1, <2>2
<1> QED BY <1>3, <1>4 DEF VnAsked

\* A message before the loop.
LEMMA VnNegotiates == ASSUME VnInv, Negotiate PROVE VnInv'
<1>1. PICK m, c : m = vnBuf[1] /\ c = DecodeMessage(vnC, m)
  OBVIOUS
<1>2. /\ vnC.pc = "negotiate" /\ vnBuf # <<>> /\ vnBuf' = Tail(vnBuf)
      /\ UNCHANGED <<vnCfg, vnWatch, vnLatest, vnViewer, vnHost, vnMsgs, vnFaults>>
      /\ \/ vnC' = c /\ UNCHANGED vnSrc
         \/ vnC' = [c EXCEPT !.pc = "ended"] /\ UNCHANGED vnSrc
         \/ /\ vnC' = [c EXCEPT !.pc = "loop"]
            /\ vnSrc' = IF vnCfg = "h264" THEN [vnSrc EXCEPT !.want = TRUE] ELSE vnSrc
  BY <1>1 DEF Negotiate
<1>3. c \in VnClient /\ Fits(c, vnViewer) /\ c.pc = vnC.pc
  BY <1>1, <1>2, VnDecodes
<1>4. VnQueued' /\ VnAsked'
  BY <1>2, VnTakes
<1>5. VnFramed'
  <2>1. vnSrc' = vnSrc \/ vnSrc' = [vnSrc EXCEPT !.want = TRUE]
    BY <1>2
  <2> QED BY <1>2, <2>1 DEF VnInv, VnFramed
<1>6. vnC' \in VnClient /\ vnC'.size = c.size /\ vnC'.pending = c.pending /\ vnC'.waiting = c.waiting
  BY <1>2, <1>3 DEF VnClient
<1>7. VnFitted'
  BY <1>2, <1>3, <1>6 DEF VnInv, VnFitted, Fits
<1>8. VnPressed'
  BY <1>2 DEF VnInv, VnPressed
<1> QED BY <1>4, <1>5, <1>7, <1>8 DEF VnInv

\* What is pressed after a pointer event is what its mask says.
LEMMA VnPresses ==
    ASSUME NEW host, NEW before, NEW mask, host \subseteq before
    PROVE  Pressed(host, before, mask) \subseteq mask
BY DEF Pressed

\* A turn of the loop that begins with a message.
LEMMA VnTakesInput == ASSUME VnInv, InputTurn PROVE VnInv'
<1>1. PICK m, c : m = vnBuf[1] /\ c = DecodeMessage(vnC, m)
  OBVIOUS
<1>2. PICK want : want = (\/ m.kind = "encodings" /\ ~vnC.on /\ c.on
                          \/ m.kind = "request" /\ ~m.inc)
  OBVIOUS
<1>3. PICK buffered : buffered = (Len(vnBuf) > 1)
  OBVIOUS
<1>4. /\ vnC.pc = "loop" /\ vnBuf # <<>> /\ vnBuf' = Tail(vnBuf) /\ UNCHANGED <<vnCfg, vnWatch, vnMsgs, vnFaults>>
      /\ vnHost' = (IF m.kind = "pointer" THEN Pressed(vnHost, vnC.mask, m.mask) ELSE vnHost)
      /\ EndOfTurn(c, vnLatest, want, buffered)
  BY <1>1, <1>2, <1>3 DEF InputTurn
<1>5. want \in BOOLEAN /\ buffered \in BOOLEAN
  BY <1>2, <1>3
<1>6. /\ c \in VnClient /\ Fits(c, vnViewer) /\ c.pc = vnC.pc /\ Len(vnBuf) \in Nat \ {0}
      /\ c.mask = IF m.kind = "pointer" THEN m.mask ELSE vnC.mask
  BY <1>1, <1>4, VnDecodes
<1>7. PICK g \in VnFrames : g = vnLatest
  BY DEF VnInv, VnFramed
<1>8. /\ VnFitted' /\ vnC'.mask = c.mask /\ vnC'.pc \notin {"auth", "negotiate"} /\ vnLatest' = g
      /\ vnSrc' \in [size : VnSizes, want : BOOLEAN, seq : 0..MaxVnFrames, made : 0..MaxVnFrames, open : BOOLEAN]
      /\ vnSrc'.seq = vnSrc.seq /\ vnSrc'.made = vnSrc.made /\ (buffered => vnViewer' = vnViewer)
  <2>1. EndOfTurn(c, g, want, buffered)
    BY <1>4, <1>7
  <2>2. c.pc = "loop" /\ UNCHANGED vnCfg
    BY <1>4, <1>6
  <2> QED BY <1>5, <1>6, <2>1, <2>2, VnTurns
<1>9. vnViewer' = vnViewer \/ Len(vnBuf) = 1
  <2>1. CASE buffered
    BY <1>8, <2>1
  <2>2. CASE ~buffered
    <3>1. ~(Len(vnBuf) > 1)
      BY <1>3, <2>2
    <3>2. Len(vnBuf) \in Nat \ {0}
      BY <1>6
    <3>3. Len(vnBuf) = 1
      BY <3>1, <3>2
    <3> QED BY <3>3
  <2> QED BY <2>1, <2>2
<1>10. VnQueued' /\ VnAsked'
  BY <1>4, <1>9, VnTakes
<1>11. VnFramed'
  BY <1>4, <1>7, <1>8 DEF VnInv, VnFramed
<1>12. VnPressed'
  <2>1. vnHost' \subseteq c.mask
    BY <1>4, <1>6, VnPresses DEF VnInv, VnPressed
  <2> QED BY <1>8, <2>1 DEF VnPressed
<1> QED BY <1>8, <1>10, <1>11, <1>12 DEF VnInv

\* A turn of the loop that begins with a frame.
LEMMA VnTakesFrame == ASSUME VnInv, FrameTurn PROVE VnInv'
<1>1. PICK want : want = (vnLatest.seq # 0 /\ vnWatch.frame.size # vnLatest.size)
  OBVIOUS
<1>2. PICK g \in VnFrames : g = vnWatch.frame
  BY DEF VnInv, VnFramed
<1>3. PICK c \in VnClient : c = vnC
  BY DEF VnInv, VnFitted
<1>4. /\ c.pc = "loop" /\ vnBuf = <<>> /\ vnWatch' = [vnWatch EXCEPT !.fresh = FALSE]
      /\ EndOfTurn(c, g, want, FALSE) /\ UNCHANGED <<vnCfg, vnBuf, vnHost, vnMsgs, vnFaults>>
  BY <1>1, <1>2, <1>3 DEF FrameTurn
<1>5. want \in BOOLEAN /\ FALSE \in BOOLEAN /\ UNCHANGED vnCfg
  BY <1>1, <1>4
<1>6. Fits(c, vnViewer)
  BY <1>3 DEF VnInv, VnFitted
<1>7. /\ VnFitted' /\ vnC'.mask = c.mask /\ vnC'.pc \notin {"auth", "negotiate"} /\ vnLatest' = g
      /\ vnSrc' \in [size : VnSizes, want : BOOLEAN, seq : 0..MaxVnFrames, made : 0..MaxVnFrames, open : BOOLEAN]
      /\ vnSrc'.seq = vnSrc.seq /\ vnSrc'.made = vnSrc.made
  BY <1>4, <1>5, <1>6, VnTurns
<1>8. VnFramed'
  <2>1. vnWatch' \in [frame : VnFrames, fresh : BOOLEAN]
    BY <1>4 DEF VnInv, VnFramed
  <2> QED BY <1>7, <2>1 DEF VnInv, VnFramed
<1>9. VnQueued' /\ VnAsked'
  BY <1>4 DEF VnInv, VnQueued, VnAsked
<1>10. VnPressed'
  BY <1>3, <1>4, <1>7 DEF VnInv, VnPressed
<1> QED BY <1>7, <1>8, <1>9, <1>10 DEF VnInv

\* The client ends or starts, and nothing else.
LEMMA VnPlain == ASSUME VnInv, VnAuth \/ HidFails \/ VncEnds \/ ViewerLeaves PROVE VnInv'
<1>1. /\ UNCHANGED <<vnCfg, vnSrc, vnWatch, vnLatest, vnBuf, vnViewer, vnHost, vnMsgs>>
      /\ \/ vnC.pc = "auth" /\ vnC' = [vnC EXCEPT !.pc = "negotiate"]
         \/ vnC' = [vnC EXCEPT !.pc = "ended"]
  BY DEF VnAuth, HidFails, VncEnds, ViewerLeaves
<1>2. VnFramed' /\ VnQueued' /\ VnAsked'
  BY <1>1 DEF VnInv, VnFramed, VnQueued, VnAsked
<1>3. /\ vnC' \in VnClient /\ vnC'.size = vnC.size /\ vnC'.pending = vnC.pending /\ vnC'.waiting = vnC.waiting
      /\ vnC'.mask = vnC.mask /\ (vnC'.pc \in {"auth", "negotiate"} => vnC.pc = "auth")
  BY <1>1 DEF VnInv, VnFitted, VnClient
<1>4. VnFitted'
  BY <1>1, <1>3 DEF VnInv, VnFitted, Fits
<1>5. VnPressed'
  BY <1>1, <1>3 DEF VnInv, VnPressed
<1> QED BY <1>2, <1>4, <1>5 DEF VnInv

\* The source gives a frame or changes.
LEMMA VnProduces == ASSUME VnInv, Produce \/ SourceChanges PROVE VnInv'
<1>1. UNCHANGED <<vnCfg, vnC, vnLatest, vnBuf, vnViewer, vnHost, vnMsgs>>
  BY DEF Produce, SourceChanges
<1>2. VnQueued' /\ VnAsked' /\ VnFitted' /\ VnPressed'
  BY <1>1 DEF VnInv, VnQueued, VnAsked, VnFitted, VnPressed, Fits
<1>3. /\ vnSrc \in [size : VnSizes, want : BOOLEAN, seq : 0..MaxVnFrames, made : 0..MaxVnFrames, open : BOOLEAN]
      /\ vnSrc.seq <= vnSrc.made /\ vnSrc.seq \in 0..MaxVnFrames /\ vnSrc.made \in 0..MaxVnFrames /\ MaxVnFrames \in Nat
      /\ vnWatch \in [frame : VnFrames, fresh : BOOLEAN] /\ vnLatest \in VnFrames
  BY VnAssumption DEF VnInv, VnFramed
<1>4. VnFramed'
  <2>1. CASE Produce
    <3>1. PICK key \in BOOLEAN :
             /\ vnSrc' = [vnSrc EXCEPT !.want = FALSE, !.seq = vnSrc.seq + 1, !.made = vnSrc.made + 1]
             /\ vnWatch' = [frame |-> [key |-> key, size |-> vnSrc.size, seq |-> vnSrc'.seq], fresh |-> TRUE]
      BY <2>1 DEF Produce
    <3>2. vnSrc.made < MaxVnFrames
      BY <2>1 DEF Produce
    <3>3. PICK a \in 0..MaxVnFrames, b \in 0..MaxVnFrames : a = vnSrc.seq + 1 /\ b = vnSrc.made + 1 /\ a <= b
      BY <1>3, <3>2
    <3>4. vnSrc' = [vnSrc EXCEPT !.want = FALSE, !.seq = a, !.made = b]
      BY <3>1, <3>3
    <3>5. /\ vnSrc' \in [size : VnSizes, want : BOOLEAN, seq : 0..MaxVnFrames, made : 0..MaxVnFrames, open : BOOLEAN]
          /\ vnSrc'.seq = a /\ vnSrc'.made = b
      BY <1>3, <3>4
    <3>6. vnWatch' \in [frame : VnFrames, fresh : BOOLEAN]
      BY <1>3, <3>1, <3>5 DEF VnFrames
    <3> QED BY <1>1, <1>3, <3>3, <3>5, <3>6 DEF VnFramed
  <2>2. CASE SourceChanges
    <3>1. UNCHANGED vnWatch
      BY <2>2 DEF SourceChanges
    <3>2. \/ \E s \in VnSizes : vnSrc' = [vnSrc EXCEPT !.size = s]
          \/ vnSrc' = [vnSrc EXCEPT !.open = FALSE]
          \/ vnSrc' = [vnSrc EXCEPT !.seq = 0]
      BY <2>2 DEF SourceChanges
    <3>3. 0 \in 0..MaxVnFrames
      BY <1>3
    <3>4. /\ vnSrc' \in [size : VnSizes, want : BOOLEAN, seq : 0..MaxVnFrames, made : 0..MaxVnFrames, open : BOOLEAN]
          /\ vnSrc'.made = vnSrc.made /\ (vnSrc'.seq = vnSrc.seq \/ vnSrc'.seq = 0)
      BY <1>3, <3>2, <3>3
    <3> QED BY <1>1, <1>3, <3>1, <3>4 DEF VnFramed
  <2> QED BY <2>1, <2>2
<1> QED BY <1>2, <1>4 DEF VnInv

\* The viewer sends a message.
LEMMA VnAsks == ASSUME VnInv, ViewerSends PROVE VnInv'
<1>1. /\ vnMsgs < MaxVnMsgs /\ vnMsgs' = vnMsgs + 1
      /\ UNCHANGED <<vnCfg, vnC, vnSrc, vnWatch, vnLatest, vnHost, vnFaults>>
  BY DEF ViewerSends
<1>2. PICK m \in VnMessages :
          /\ vnBuf' = Append(vnBuf, m)
          /\ vnViewer' = IF m.kind = "request" THEN [vnViewer EXCEPT !.asked = 1] ELSE vnViewer
  BY DEF ViewerSends
<1>3. VnFramed' /\ VnPressed'
  BY <1>1 DEF VnInv, VnFramed, VnPressed
<1>4. vnBuf \in Seq(VnMessages) /\ Len(vnBuf) \in Nat /\ vnBuf' \in Seq(VnMessages) /\ Len(vnBuf') = Len(vnBuf) + 1
  BY <1>2, AppendProperties DEF VnInv, VnQueued
<1>5. (\A i \in 1..Len(vnBuf) : vnBuf'[i] = vnBuf[i]) /\ vnBuf'[Len(vnBuf) + 1] = m
  BY <1>2, <1>4, AppendProperties
<1>6. VnQueued'
  BY <1>1, <1>4, VnAssumption DEF VnInv, VnQueued
<1>7. VnFitted'
  <2>1. vnViewer \in VnPeer /\ vnC \in VnClient /\ Fits(vnC, vnViewer)
    BY DEF VnInv, VnFitted
  <2>2. CASE m.kind = "request"
    <3>1. /\ vnViewer' \in VnPeer /\ vnViewer'.asked = 1 /\ vnViewer'.size = vnViewer.size
          /\ vnViewer'.bad = vnViewer.bad /\ vnViewer'.needKey = vnViewer.needKey
      BY <1>2, <2>1, <2>2 DEF VnPeer
    <3> QED BY <1>1, <2>1, <3>1 DEF VnFitted, Fits
  <2>3. CASE m.kind # "request"
    BY <1>1, <1>2, <2>1, <2>3 DEF VnFitted, Fits
  <2> QED BY <2>2, <2>3
<1>8. VnAsked'
  <2>1. SUFFICES ASSUME vnViewer'.asked = 0, NEW i \in 1..Len(vnBuf') PROVE vnBuf'[i].kind # "request"
    BY DEF VnAsked
  <2>2. m.kind # "request" /\ vnViewer' = vnViewer
    <3>1. vnViewer \in VnPeer
      BY DEF VnInv, VnFitted
    <3>2. CASE m.kind = "request"
      <4>1. vnViewer'.asked = 1
        BY <1>2, <3>1, <3>2 DEF VnPeer
      <4> QED BY <2>1, <4>1
    <3> QED BY <1>2, <3>2
  <2>3. CASE i \in 1..Len(vnBuf)
    BY <1>5, <2>1, <2>2, <2>3 DEF VnInv, VnAsked
  <2>4. CASE i = Len(vnBuf) + 1
    BY <1>5, <2>2, <2>4
  <2> QED BY <1>4, <2>3, <2>4
<1> QED BY <1>3, <1>6, <1>7, <1>8 DEF VnInv

\* Every step of a VNC session keeps its invariant.
LEMMA VnSteps == VnInv /\ [VnNext]_vnVars => VnInv'
<1> SUFFICES ASSUME VnInv, [VnNext]_vnVars PROVE VnInv'
  OBVIOUS
<1>1. CASE UNCHANGED vnVars
  BY <1>1 DEF vnVars, VnInv, VnFramed, VnQueued, VnAsked, VnFitted, VnPressed, Fits
<1>2. CASE VnNext
  BY <1>2, VnPlain, VnNegotiates, VnTakesInput, VnTakesFrame, VnProduces, VnAsks DEF VnNext
<1> QED BY <1>1, <1>2

\* The invariant gives what is promised of a VNC session.
LEMMA VnPromised == VnInv => VnTypeOK /\ AnswersFit /\ FullMeansKey /\ ButtonsFollow
<1> SUFFICES ASSUME VnInv PROVE VnTypeOK /\ AnswersFit /\ FullMeansKey /\ ButtonsFollow
  OBVIOUS
<1>1. vnHost \subseteq VnButtons
  BY DEF VnInv, VnFitted, VnPressed, VnClient
<1>2. Len(vnBuf) <= MaxVnMsgs
  <2>1. Len(vnBuf) \in Nat
    BY DEF VnInv, VnQueued
  <2> QED BY <2>1, VnAssumption DEF VnInv, VnQueued
<1>3. VnTypeOK
  BY <1>1, <1>2 DEF VnInv, VnFramed, VnFitted, VnClient, VnTypeOK
<1> QED BY <1>3 DEF VnInv, VnFitted, VnPressed, Fits, AnswersFit, FullMeansKey, ButtonsFollow

-----------------------------------------------------------------------------
\* Numbers and sequences

\* The order of the natural numbers is a relation without descending chains.
LEMMA NatOrder ==
    \E R : IsWellFoundedOn(R, Nat) /\ \A x, y \in Nat : <<x, y>> \in R <=> x < y
<1>1. \A x, y \in Nat : <<x, y>> \in OpToRel(<, Nat) <=> x < y
  BY DEF OpToRel
<1> QED BY <1>1, NatLessThanWellFounded, Zenon

\* A set of numbers that is not empty has a least one.
LEMMA LeastIsThere ==
    ASSUME NEW T, T \subseteq Nat, T # {}
    PROVE  \E n \in T : \A m \in T : n <= m
<1>1. PICK R : IsWellFoundedOn(R, Nat) /\ \A x, y \in Nat : <<x, y>> \in R <=> x < y
  BY NatOrder
<1>2. IsWellFoundedOn(R, Nat)
  BY <1>1
<1>3. \E x \in T : \A y \in T : ~(<<y, x>> \in R)
  BY <1>2, WFMin
<1>4. PICK x \in T : \A y \in T : ~(<<y, x>> \in R)
  BY <1>3
<1>5. \A y \in T : ~(y < x)
  BY <1>1, <1>4, Zenon
<1>6. x \in Nat /\ \A y \in T : y \in Nat
  OBVIOUS
<1>7. \A y \in T : x <= y
  BY <1>5, <1>6
<1> QED BY <1>7

\* Induction over the natural numbers, for a set instead of a predicate.
LEMMA NatsFollow ==
    ASSUME NEW T, 0 \in T, \A n \in Nat : n \in T => n + 1 \in T
    PROVE  \A n \in Nat : n \in T
<1>1. SUFFICES ASSUME Nat \ T # {} PROVE FALSE
  OBVIOUS
<1>2. PICK n \in Nat \ T : \A m \in Nat \ T : n <= m
  BY <1>1, LeastIsThere
<1>3. n # 0 /\ n - 1 \in Nat /\ n - 1 \in T
  BY <1>2
<1> QED BY <1>2, <1>3

\* A function over 0..n that begins with c and is continued by U.
Recurses(n, D, c, U) == n \in Nat /\ c \in D /\ U \in [1..n -> [D -> D]]
Follows(fun, n, D, c, U) == fun \in [0..n -> D] /\ fun[0] = c /\ \A i \in 1..n : fun[i] = U[i][fun[i - 1]]

\* There is one.
LEMMA RecursionWorks ==
    ASSUME NEW n, NEW D, NEW c, NEW U, Recurses(n, D, c, U)
    PROVE  \E fun : Follows(fun, n, D, c, U)
<1>0. n \in Nat /\ c \in D /\ U \in [1..n -> [D -> D]]
  BY DEF Recurses
<1> DEFINE Good(m) == \E fun \in [0..m -> D] : fun[0] = c /\ \A i \in 1..m : fun[i] = U[i][fun[i - 1]]
           T == {m \in Nat : m <= n => Good(m)}
<1>1. 0 \in T
  <2> DEFINE g == [i \in 0..0 |-> c]
  <2>1. g \in [0..0 -> D] /\ g[0] = c /\ \A i \in 1..0 : g[i] = U[i][g[i - 1]]
    BY <1>0
  <2> HIDE DEF g
  <2>2. Good(0)
    BY <2>1
  <2> QED BY <2>2
<1>2. ASSUME NEW m \in Nat, m \in T PROVE m + 1 \in T
  <2>1. SUFFICES ASSUME m + 1 <= n PROVE Good(m + 1)
    OBVIOUS
  <2>2. Good(m)
    BY <1>0, <1>2, <2>1
  <2>3. PICK fun \in [0..m -> D] : fun[0] = c /\ \A i \in 1..m : fun[i] = U[i][fun[i - 1]]
    BY <2>2
  <2> DEFINE g == [i \in 0..(m + 1) |-> IF i <= m THEN fun[i] ELSE U[m + 1][fun[m]]]
  <2>4. fun[m] \in D /\ m + 1 \in 1..n /\ U[m + 1][fun[m]] \in D
    BY <1>0, <2>1, <2>3
  <2>5. g \in [0..(m + 1) -> D]
    BY <2>3, <2>4
  <2>6. g[0] = c
    BY <2>3
  <2>7. ASSUME NEW i \in 1..(m + 1) PROVE g[i] = U[i][g[i - 1]]
    <3>1. CASE i <= m
      <4>1. g[i] = fun[i] /\ g[i - 1] = fun[i - 1] /\ i \in 1..m
        BY <3>1
      <4> HIDE DEF g
      <4> QED BY <4>1, <2>3
    <3>2. CASE i = m + 1
      <4>1. g[i] = U[m + 1][fun[m]] /\ g[i - 1] = fun[m]
        BY <3>2
      <4> HIDE DEF g
      <4> QED BY <4>1, <3>2
    <3> QED BY <3>1, <3>2
  <2> HIDE DEF g
  <2> QED BY <2>5, <2>6, <2>7
<1> HIDE DEF T
<1>3. n \in T
  BY <1>0, <1>1, <1>2, NatsFollow
<1>4. Good(n)
  BY <1>0, <1>3 DEF T
<1> QED BY <1>4 DEF Follows

\* What flattening a sequence of sequences goes through.
LEMMA FlatGrows ==
    ASSUME NEW V, NEW p \in Seq(Seq(V))
    PROVE  \E cat \in [0..Len(p) -> Seq(V)] :
             /\ cat[0] = <<>> /\ \A i \in 1..Len(p) : cat[i] = cat[i - 1] \o p[i]
             /\ FlattenSeq(p) = cat[Len(p)]
<1> DEFINE n == Len(p)
           U == [i \in 1..n |-> [s \in Seq(V) |-> s \o p[i]]]
<1>1. n \in Nat /\ <<>> \in Seq(V) /\ \A i \in 1..n : p[i] \in Seq(V)
  OBVIOUS
<1>2. U \in [1..n -> [Seq(V) -> Seq(V)]]
  <2>1. \A i \in 1..n : \A s \in Seq(V) : s \o p[i] \in Seq(V)
    BY <1>1
  <2> HIDE DEF n
  <2> QED BY <2>1
<1>3. PICK cat \in [0..n -> Seq(V)] : cat[0] = <<>> /\ \A i \in 1..n : cat[i] = U[i][cat[i - 1]]
  <2>1. Recurses(n, Seq(V), <<>>, U)
    <3> HIDE DEF U, n
    <3> QED BY <1>1, <1>2 DEF Recurses
  <2> HIDE DEF U, n
  <2>2. PICK fun : Follows(fun, n, Seq(V), <<>>, U)
    BY <2>1, RecursionWorks
  <2> QED BY <2>2 DEF Follows
<1>4. \A i \in 1..n : cat[i] = cat[i - 1] \o p[i]
  <2>1. ASSUME NEW i \in 1..n PROVE cat[i - 1] \in Seq(V)
    <3>1. i - 1 \in 0..n
      BY <1>1
    <3> QED BY <3>1, <1>3
  <2> QED BY <1>3, <2>1
<1> DEFINE flat == [i \in 1..n |-> cat[i]]
           Body(way) == [i \in 1..n |-> IF i = 1 THEN p[i] ELSE way[i - 1] \o p[i]]
<1> HIDE DEF U
<1>5. flat = Body(flat)
  <2>1. ASSUME NEW i \in 1..n PROVE flat[i] = IF i = 1 THEN p[i] ELSE flat[i - 1] \o p[i]
    <3>1. CASE i = 1
      <4>1. cat[1] = <<>> \o p[1] /\ p[1] \in Seq(V)
        <5>1. 1 \in 1..n /\ 1 - 1 = 0
          BY <3>1
        <5> QED BY <5>1, <1>1, <1>3, <1>4
      <4>2. <<>> \o p[1] = p[1]
        BY <4>1
      <4> QED BY <3>1, <4>1, <4>2
    <3>2. CASE i # 1
      <4>1. i - 1 \in 1..n
        BY <3>2
      <4> QED BY <3>2, <4>1, <1>4
    <3> QED BY <3>1, <3>2
  <2> QED BY <2>1
<1> DEFINE way == CHOOSE way : way = Body(way)
<1>6. way = Body(way)
  <2> HIDE DEF Body, flat
  <2> QED BY <1>5
<1>7. n = 0 => FlattenSeq(p) = <<>> /\ p = <<>>
  BY DEF FlattenSeq
<1>8. n # 0 => FlattenSeq(p) = way[n]
  BY DEF FlattenSeq
<1> HIDE DEF way
<1>9. \A i \in 1..n : way[i] = IF i = 1 THEN p[i] ELSE way[i - 1] \o p[i]
  <2> DEFINE b == Body(way)
  <2>1. \A i \in 1..n : b[i] = IF i = 1 THEN p[i] ELSE way[i - 1] \o p[i]
    OBVIOUS
  <2>2. b = way
    BY <1>6
  <2> QED BY <2>1, <2>2
<1> DEFINE T == {m \in Nat : m + 1 <= n => way[m + 1] = cat[m + 1]}
<1>10. 0 \in T
  <2>1. SUFFICES ASSUME 1 <= n PROVE way[1] = cat[1]
    OBVIOUS
  <2>2. 1 \in 1..n /\ 1 - 1 = 0
    BY <2>1, <1>1
  <2>3. way[1] = p[1] /\ cat[1] = <<>> \o p[1] /\ p[1] \in Seq(V)
    BY <2>2, <1>1, <1>3, <1>4, <1>9
  <2> QED BY <2>3
<1>11. ASSUME NEW m \in Nat, m \in T PROVE m + 1 \in T
  <2>1. SUFFICES ASSUME m + 2 <= n PROVE way[m + 2] = cat[m + 2]
    OBVIOUS
  <2>2. way[m + 1] = cat[m + 1] /\ m + 2 \in 1..n /\ (m + 2) - 1 = m + 1
    BY <1>11, <2>1
  <2>3. cat[m + 2] = cat[m + 1] \o p[m + 2]
    BY <2>2, <1>4
  <2>4. way[m + 2] = way[m + 1] \o p[m + 2]
    <3>1. (m + 2) # 1 /\ (m + 2) \in 1..n
      BY <2>2
    <3>2. way[m + 2] = way[(m + 2) - 1] \o p[m + 2]
      BY <3>1, <1>9, Zenon
    <3> QED BY <3>2, <2>2
  <2> QED BY <2>2, <2>3, <2>4
<1> HIDE DEF T
<1>12. \A m \in Nat : m \in T
  BY <1>10, <1>11, NatsFollow
<1>13. n # 0 => way[n] = cat[n]
  <2>1. n # 0 => n - 1 \in Nat /\ (n - 1) + 1 = n
    BY <1>1
  <2>2. n # 0 => n - 1 \in T
    BY <1>12, <2>1
  <2> QED BY <2>1, <2>2 DEF T
<1>14. FlattenSeq(p) = cat[n]
  BY <1>3, <1>7, <1>8, <1>13
<1> QED BY <1>3, <1>4, <1>14

\* The length of a sequence of bytes is a number.
LEMMA LenIsNat == \A s \in Seq(Nat) : Len(s) \in Nat
OBVIOUS

\* A sequence after another: the first keeps its places, the second is moved.
LEMMA JoinIs ==
    ASSUME NEW k \in Seq(Nat), NEW n \in Seq(Nat)
    PROVE  /\ k \o n \in Seq(Nat) /\ Len(k \o n) = Len(k) + Len(n)
           /\ \A x \in 1..Len(k) : (k \o n)[x] = k[x]
           /\ \A x \in 1..Len(n) : (k \o n)[Len(k) + x] = n[x]
<1>1. k \o n \in Seq(Nat) /\ Len(k \o n) = Len(k) + Len(n)
  OBVIOUS
<1>2. \A x \in 1..Len(k) : (k \o n)[x] = k[x]
  OBVIOUS
<1>3. \A x \in 1..Len(n) : (k \o n)[Len(k) + x] = n[x]
  OBVIOUS
<1> QED BY <1>1, <1>2, <1>3

\* A cut of a sequence, place by place.
LEMMA CutAt ==
    ASSUME NEW t \in Seq(Nat), NEW a \in Nat \ {0}, NEW z \in Nat, a <= z, z <= Len(t),
           NEW l \in Nat, z + 1 = a + l
    PROVE  /\ SubSeq(t, a, z) \in Seq(Nat) /\ Len(SubSeq(t, a, z)) = l
           /\ \A x \in 1..l : SubSeq(t, a, z)[x] = t[a + x - 1]
<1>1. SubSeq(t, a, z) \in Seq(Nat)
  OBVIOUS
<1>2. Len(SubSeq(t, a, z)) = l
  OBVIOUS
<1>3. \A x \in 1..l : SubSeq(t, a, z)[x] = t[a + x - 1]
  OBVIOUS
<1> QED BY <1>1, <1>2, <1>3

\* What flattening p goes through: the first i of its sequences, one after the other.
Grown(p) == CHOOSE cat \in [0..Len(p) -> Seq(Nat)] :
              /\ cat[0] = <<>> /\ \A i \in 1..Len(p) : cat[i] = cat[i - 1] \o p[i]
              /\ FlattenSeq(p) = cat[Len(p)]

\* What has come after each piece is what its recursion says.
LEMMA GrownIs ==
    ASSUME NEW p \in Seq(Seq(Nat))
    PROVE  /\ Grown(p) \in [0..Len(p) -> Seq(Nat)] /\ Grown(p)[0] = <<>>
           /\ \A i \in 1..Len(p) : Grown(p)[i] = Grown(p)[i - 1] \o p[i]
           /\ FlattenSeq(p) = Grown(p)[Len(p)]
<1>1. \E cat \in [0..Len(p) -> Seq(Nat)] :
             /\ cat[0] = <<>> /\ \A i \in 1..Len(p) : cat[i] = cat[i - 1] \o p[i]
             /\ FlattenSeq(p) = cat[Len(p)]
  BY FlatGrows
<1> QED BY <1>1 DEF Grown

\* One more piece: the lengths add up, what was there stays and the piece follows it.
LEMMA GrownStep ==
    ASSUME NEW p \in Seq(Seq(Nat)), NEW i \in 1..Len(p)
    PROVE  /\ i - 1 \in 0..Len(p) /\ i \in 0..Len(p) /\ p[i] \in Seq(Nat)
           /\ Grown(p)[i - 1] \in Seq(Nat) /\ Grown(p)[i] \in Seq(Nat)
           /\ Grown(p)[i] = Grown(p)[i - 1] \o p[i]
           /\ Len(Grown(p)[i]) = Len(Grown(p)[i - 1]) + Len(p[i])
           /\ \A x \in 1..Len(Grown(p)[i - 1]) : Grown(p)[i][x] = Grown(p)[i - 1][x]
           /\ \A x \in 1..Len(p[i]) : Grown(p)[i][Len(Grown(p)[i - 1]) + x] = p[i][x]
<1> DEFINE cat == Grown(p)
<1>1. cat \in [0..Len(p) -> Seq(Nat)] /\ \A j \in 1..Len(p) : cat[j] = cat[j - 1] \o p[j]
  BY GrownIs
<1>2. i - 1 \in 0..Len(p) /\ i \in 0..Len(p) /\ p[i] \in Seq(Nat)
  OBVIOUS
<1> HIDE DEF cat
<1>3. cat[i - 1] \in Seq(Nat) /\ cat[i] \in Seq(Nat) /\ cat[i] = cat[i - 1] \o p[i]
  BY <1>1, <1>2
<1>4. ASSUME NEW a \in Seq(Nat), NEW b \in Seq(Nat), NEW c, c = a \o b
      PROVE  /\ Len(c) = Len(a) + Len(b) /\ \A x \in 1..Len(a) : c[x] = a[x]
             /\ \A x \in 1..Len(b) : c[Len(a) + x] = b[x]
  BY <1>4, JoinIs, Zenon
<1>5. PICK a \in Seq(Nat) : a = cat[i - 1]
  BY <1>3
<1>6. PICK b \in Seq(Nat) : b = p[i]
  BY <1>2
<1>7. PICK c \in Seq(Nat) : c = cat[i]
  BY <1>3
<1>8. /\ Len(c) = Len(a) + Len(b) /\ \A x \in 1..Len(a) : c[x] = a[x]
      /\ \A x \in 1..Len(b) : c[Len(a) + x] = b[x]
  <2>1. c = a \o b
    BY <1>3, <1>5, <1>6, <1>7
  <2> QED BY <2>1, <1>4
<1>9. /\ Len(cat[i]) = Len(cat[i - 1]) + Len(p[i])
      /\ \A x \in 1..Len(cat[i - 1]) : cat[i][x] = cat[i - 1][x]
      /\ \A x \in 1..Len(p[i]) : cat[i][Len(cat[i - 1]) + x] = p[i][x]
  BY <1>8, <1>5, <1>6, <1>7, Zenon
<1> QED BY <1>2, <1>3, <1>9 DEF cat

\* What has grown stays.
LEMMA GrownKeeps ==
    ASSUME NEW p \in Seq(Seq(Nat)), NEW i \in 0..Len(p), NEW j \in 0..Len(p), i <= j
    PROVE  /\ Grown(p)[i] \in Seq(Nat) /\ Grown(p)[j] \in Seq(Nat)
           /\ Len(Grown(p)[i]) <= Len(Grown(p)[j])
           /\ \A x \in 1..Len(Grown(p)[i]) : Grown(p)[j][x] = Grown(p)[i][x]
<1> DEFINE cat == Grown(p)
           Keeps(m) == Len(cat[i]) <= Len(cat[m]) /\ \A x \in 1..Len(cat[i]) : cat[m][x] = cat[i][x]
           T == {n \in Nat : i + n <= Len(p) => Keeps(i + n)}
<1>1. Grown(p) \in [0..Len(p) -> Seq(Nat)]
  BY GrownIs
<1>2. \A m \in 0..Len(p) : cat[m] \in Seq(Nat) /\ Len(cat[m]) \in Nat
  <2>1. \A m \in 0..Len(p) : cat[m] \in Seq(Nat)
    BY <1>1
  <2> QED BY <2>1, LenIsNat, Zenon
<1>3. 0 \in T
  <2>1. Keeps(i + 0)
    BY <1>2
  <2> QED BY <2>1
<1>4. ASSUME NEW n \in Nat, n \in T PROVE n + 1 \in T
  <2>1. SUFFICES ASSUME i + (n + 1) <= Len(p) PROVE Keeps(i + (n + 1))
    OBVIOUS
  <2>2. Keeps(i + n) /\ i + n \in 0..Len(p)
    BY <1>4, <2>1
  <2>3. PICK m \in 1..Len(p) : m = i + (n + 1) /\ m - 1 = i + n
    BY <2>1
  <2>4. /\ Len(cat[m]) = Len(cat[m - 1]) + Len(p[m]) /\ p[m] \in Seq(Nat)
        /\ \A x \in 1..Len(cat[m - 1]) : cat[m][x] = cat[m - 1][x]
    BY GrownStep
  <2> HIDE DEF cat
  <2>5. m - 1 \in 0..Len(p) /\ m \in 0..Len(p) /\ Keeps(m - 1)
    BY <2>2, <2>3
  <2>6. Len(p[m]) \in Nat
    BY <2>4
  <2>7. Len(cat[i]) <= Len(cat[m])
    <3> DEFINE a == Len(cat[i])  b == Len(cat[m - 1])  c == Len(cat[m])  l == Len(p[m])
    <3>1. a \in Nat /\ b \in Nat /\ c \in Nat /\ l \in Nat
      BY <1>2, <2>5, <2>6, Zenon
    <3>2. c = b + l /\ a <= b
      BY <2>4, <2>5
    <3> HIDE DEF a, b, c, l
    <3>3. a <= c
      BY <3>1, <3>2
    <3> QED BY <3>3 DEF a, c
  <2>8. ASSUME NEW x \in 1..Len(cat[i]) PROVE cat[m][x] = cat[i][x]
    <3>1. x \in 1..Len(cat[m - 1])
      BY <1>2, <2>5
    <3> QED BY <3>1, <2>4, <2>5
  <2>9. Keeps(m)
    BY <2>7, <2>8
  <2> QED BY <2>9, <2>3
<1> HIDE DEF T, Keeps, cat
<1>5. j - i \in T
  <2>1. \A n \in Nat : n \in T
    BY <1>3, <1>4, NatsFollow
  <2> QED BY <2>1
<1>6. Keeps(j)
  BY <1>5 DEF T
<1> QED BY <1>6, <1>2 DEF Keeps, cat

\* Nothing grows from empty sequences.
LEMMA GrownStays ==
    ASSUME NEW p \in Seq(Seq(Nat)), NEW i \in 0..Len(p), NEW j \in 0..Len(p), i <= j,
           \A x \in (i + 1)..j : p[x] = <<>>
    PROVE  Grown(p)[j] = Grown(p)[i]
<1> DEFINE cat == Grown(p)
           T == {n \in Nat : i + n <= j => cat[i + n] = cat[i]}
<1>1. 0 \in T
  OBVIOUS
<1>2. ASSUME NEW n \in Nat, n \in T PROVE n + 1 \in T
  <2>1. SUFFICES ASSUME i + (n + 1) <= j PROVE cat[i + (n + 1)] = cat[i]
    OBVIOUS
  <2>2. cat[i + n] = cat[i]
    BY <1>2, <2>1
  <2>3. PICK m \in 1..Len(p) : m = i + (n + 1) /\ m - 1 = i + n /\ m \in (i + 1)..j
    BY <2>1
  <2>4. cat[m] = cat[m - 1] \o p[m] /\ cat[m - 1] \in Seq(Nat)
    BY GrownStep
  <2> HIDE DEF cat
  <2>5. p[m] = <<>>
    BY <2>3
  <2>6. cat[m] = cat[m - 1]
    BY <2>4, <2>5
  <2> QED BY <2>2, <2>3, <2>6
<1> HIDE DEF T
<1>3. j - i \in T
  <2>1. \A n \in Nat : n \in T
    BY <1>1, <1>2, NatsFollow
  <2> QED BY <2>1
<1>4. i + (j - i) = j
  OBVIOUS
<1> QED BY <1>3, <1>4 DEF T

\* Where nothing has grown the sequences were empty.
LEMMA GrownNot ==
    ASSUME NEW p \in Seq(Seq(Nat)), NEW i \in 0..Len(p), NEW j \in 0..Len(p), i <= j,
           Len(Grown(p)[j]) <= Len(Grown(p)[i])
    PROVE  \A x \in (i + 1)..j : p[x] = <<>>
<1>1. SUFFICES ASSUME NEW x \in (i + 1)..j PROVE p[x] = <<>>
  OBVIOUS
<1>2. x \in 1..Len(p) /\ x - 1 \in 0..Len(p) /\ x \in 0..Len(p) /\ i <= x - 1 /\ x <= j
  OBVIOUS
<1>3. /\ Len(Grown(p)[x]) = Len(Grown(p)[x - 1]) + Len(p[x]) /\ p[x] \in Seq(Nat)
      /\ Grown(p)[x] \in Seq(Nat) /\ Grown(p)[x - 1] \in Seq(Nat)
  BY <1>2, GrownStep
<1>4. Len(Grown(p)[i]) <= Len(Grown(p)[x - 1]) /\ Grown(p)[i] \in Seq(Nat)
  BY <1>2, GrownKeeps
<1>5. Len(Grown(p)[x]) <= Len(Grown(p)[j]) /\ Grown(p)[j] \in Seq(Nat)
  BY <1>2, GrownKeeps
<1>6. Len(p[x]) = 0
  <2> DEFINE a == Len(Grown(p)[i])  b == Len(Grown(p)[j])  c == Len(Grown(p)[x])  e == Len(Grown(p)[x - 1])  l == Len(p[x])
  <2>1. a \in Nat /\ b \in Nat /\ c \in Nat /\ e \in Nat /\ l \in Nat
    BY <1>3, <1>4, <1>5, LenIsNat, Zenon
  <2>2. c = e + l /\ a <= e /\ c <= b /\ b <= a
    BY <1>3, <1>4, <1>5
  <2> HIDE DEF a, b, c, e, l
  <2>3. l = 0
    BY <2>1, <2>2
  <2> QED BY <2>3 DEF l
<1> QED BY <1>3, <1>6

\* The sequence that grows next.
LEMMA GrownNext ==
    ASSUME NEW p \in Seq(Seq(Nat)), NEW k \in 0..Len(p), Len(Grown(p)[k]) < Len(Grown(p)[Len(p)])
    PROVE  \E j \in (k + 1)..Len(p) : p[j] # <<>> /\ \A x \in (k + 1)..(j - 1) : p[x] = <<>>
<1> DEFINE T == {j \in (k + 1)..Len(p) : p[j] # <<>>}
<1>1. T # {}
  <2>1. SUFFICES ASSUME T = {} PROVE FALSE
    OBVIOUS
  <2>2. \A x \in (k + 1)..Len(p) : p[x] = <<>>
    BY <2>1
  <2>3. Len(p) \in 0..Len(p) /\ k <= Len(p)
    OBVIOUS
  <2>4. Grown(p)[Len(p)] = Grown(p)[k]
    BY <2>2, <2>3, GrownStays
  <2>5. Grown(p)[k] \in Seq(Nat)
    BY GrownIs
  <2> QED BY <2>4, <2>5
<1>2. T \subseteq Nat
  OBVIOUS
<1> HIDE DEF T
<1>3. PICK j \in T : \A m \in T : j <= m
  BY <1>1, <1>2, LeastIsThere
<1>4. j \in (k + 1)..Len(p) /\ p[j] # <<>>
  BY <1>3 DEF T
<1>5. ASSUME NEW x \in (k + 1)..(j - 1) PROVE p[x] = <<>>
  <2>1. x \in (k + 1)..Len(p) /\ ~(j <= x)
    BY <1>4
  <2>2. x \notin T
    BY <2>1, <1>3
  <2> QED BY <2>1, <2>2 DEF T
<1> QED BY <1>4, <1>5

\* Where the i-th sequence lies in what has grown in the end.
LEMMA GrownAt ==
    ASSUME NEW p \in Seq(Seq(Nat)), NEW i \in 1..Len(p)
    PROVE  /\ p[i] \in Seq(Nat) /\ FlattenSeq(p) \in Seq(Nat)
           /\ Len(Grown(p)[i - 1]) \in Nat /\ Len(Grown(p)[i]) \in Nat
           /\ Len(Grown(p)[i]) = Len(Grown(p)[i - 1]) + Len(p[i])
           /\ Len(Grown(p)[i]) <= Len(FlattenSeq(p))
           /\ \A x \in 1..Len(p[i]) : FlattenSeq(p)[Len(Grown(p)[i - 1]) + x] = p[i][x]
<1> DEFINE n == Len(p)  a == Grown(p)[i - 1]  b == Grown(p)[i]  c == Grown(p)[n]
<1>1. /\ i - 1 \in 0..n /\ i \in 0..n /\ n \in 0..n /\ i <= n /\ p[i] \in Seq(Nat)
      /\ a \in Seq(Nat) /\ b \in Seq(Nat) /\ Len(b) = Len(a) + Len(p[i])
      /\ \A x \in 1..Len(p[i]) : b[Len(a) + x] = p[i][x]
  <2>1. i - 1 \in 0..n /\ i \in 0..n /\ n \in 0..n /\ i <= n
    OBVIOUS
  <2>2. /\ p[i] \in Seq(Nat) /\ a \in Seq(Nat) /\ b \in Seq(Nat) /\ Len(b) = Len(a) + Len(p[i])
        /\ \A x \in 1..Len(p[i]) : b[Len(a) + x] = p[i][x]
    BY GrownStep, Zenon
  <2> QED BY <2>1, <2>2, Zenon
<1>2. c \in Seq(Nat) /\ Len(b) <= Len(c) /\ \A x \in 1..Len(b) : c[x] = b[x]
  BY <1>1, GrownKeeps
<1>3. FlattenSeq(p) = c
  BY GrownIs
<1> HIDE DEF a, b, c
<1>4. ASSUME NEW x \in 1..Len(p[i]) PROVE c[Len(a) + x] = p[i][x]
  <2>1. Len(a) + x \in 1..Len(b)
    <3>1. Len(a) \in Nat /\ Len(p[i]) \in Nat /\ Len(b) = Len(a) + Len(p[i])
      BY <1>1, LenIsNat, Zenon
    <3> QED BY <3>1
  <2>2. c[Len(a) + x] = b[Len(a) + x]
    BY <2>1, <1>2
  <2> QED BY <2>2, <1>1
<1>5. Len(a) \in Nat /\ Len(b) \in Nat
  BY <1>1, LenIsNat, Zenon
<1> QED BY <1>1, <1>2, <1>3, <1>4, <1>5 DEF a, b, c

-----------------------------------------------------------------------------
\* The search for the bridge

\* What feeds one of a set of entities directly.
Before(links, R) == {fun \in BgEntities : \E e \in R : <<fun, e>> \in links}

\* What the recursion of the reference goes through in n links.
FeedsBy(links, n, way) ==
    /\ way \in [0..n -> SUBSET BgEntities] /\ way[0] = {BgVideo}
    /\ \A i \in 1..n : way[i] = way[i - 1] \cup Before(links, way[i - 1])
    /\ FeedsOver(links, n) = way[n]

\* The reference is what its recursion says.
LEMMA FeedsIs ==
    ASSUME BgAssumption, NEW links, NEW n \in Nat
    PROVE  \E way : FeedsBy(links, n, way)
<1> DEFINE D == SUBSET BgEntities
           U == [i \in 1..n |-> [R \in D |-> R \cup Before(links, R)]]
           Body(g) == [i \in 0..n |-> IF i = 0 THEN {BgVideo}
                         ELSE g[i - 1] \cup {fun \in BgEntities : \E e \in g[i - 1] : <<fun, e>> \in links}]
<1>1. {BgVideo} \in D
  BY DEF BgAssumption
<1>2. \A R \in D : R \cup Before(links, R) \in D
  BY DEF Before
<1>3. U \in [1..n -> [D -> D]]
  <2> HIDE DEF D
  <2> QED BY <1>2
<1>4. Recurses(n, D, {BgVideo}, U)
  <2> HIDE DEF D, U
  <2> QED BY <1>1, <1>3 DEF Recurses
<1>5. PICK k : Follows(k, n, D, {BgVideo}, U)
  <2> HIDE DEF D, U
  <2> QED BY <1>4, RecursionWorks
<1>6. k \in [0..n -> D] /\ k[0] = {BgVideo} /\ \A i \in 1..n : k[i] = U[i][k[i - 1]]
  <2> HIDE DEF D, U
  <2> QED BY <1>5 DEF Follows
<1>7. \A i \in 1..n : k[i - 1] \in D
  BY <1>6
<1>8. \A i \in 1..n : k[i] = k[i - 1] \cup Before(links, k[i - 1])
  <2> HIDE DEF D
  <2> QED BY <1>6, <1>7
<1>9. k = Body(k)
  <2>1. \A i \in 0..n : k[i] = IF i = 0 THEN {BgVideo}
                         ELSE k[i - 1] \cup {fun \in BgEntities : \E e \in k[i - 1] : <<fun, e>> \in links}
    <3>1. \A i \in 0..n : i = 0 \/ i \in 1..n
      OBVIOUS
    <3> QED BY <3>1, <1>6, <1>8 DEF Before
  <2> HIDE DEF D
  <2> QED BY <2>1, <1>6
<1> DEFINE way == CHOOSE way : way = Body(way)
<1>10. way = Body(way)
  <2> HIDE DEF Body
  <2> QED BY <1>9
<1>11. FeedsOver(links, n) = way[n]
  BY DEF FeedsOver
<1> HIDE DEF way
<1>12. \A i \in 0..n : way[i] = IF i = 0 THEN {BgVideo} ELSE way[i - 1] \cup Before(links, way[i - 1])
  <2> DEFINE b == Body(way)
  <2>1. \A i \in 0..n : b[i] = IF i = 0 THEN {BgVideo} ELSE way[i - 1] \cup Before(links, way[i - 1])
    BY DEF Before
  <2>2. b = way
    BY <1>10
  <2> QED BY <2>1, <2>2
<1> DEFINE T == {m \in Nat : m <= n => way[m] = k[m]}
<1>13. 0 \in T
  <2>1. 0 \in 0..n
    OBVIOUS
  <2>2. way[0] = {BgVideo}
    BY <2>1, <1>12
  <2> QED BY <2>2, <1>6
<1>14. ASSUME NEW m \in Nat, m \in T PROVE m + 1 \in T
  <2>1. SUFFICES ASSUME m + 1 <= n PROVE way[m + 1] = k[m + 1]
    OBVIOUS
  <2>2. way[m] = k[m] /\ m + 1 \in 1..n /\ m + 1 \in 0..n /\ m + 1 # 0 /\ (m + 1) - 1 = m
    BY <1>14, <2>1
  <2>3. k[m + 1] = k[(m + 1) - 1] \cup Before(links, k[(m + 1) - 1])
    BY <2>2, <1>8, Zenon
  <2>4. way[m + 1] = way[(m + 1) - 1] \cup Before(links, way[(m + 1) - 1])
    BY <2>2, <1>12, Zenon
  <2> QED BY <2>2, <2>3, <2>4
<1> HIDE DEF T
<1>15. n \in T
  BY <1>13, <1>14, NatsFollow
<1>16. way[n] = k[n]
  BY <1>15 DEF T
<1> QED BY <1>6, <1>8, <1>11, <1>16 DEF FeedsBy

\* One link more.
LEMMA FeedsMore ==
    ASSUME BgAssumption, NEW links, NEW n \in Nat
    PROVE  /\ FeedsOver(links, 0) = {BgVideo}
           /\ FeedsOver(links, n) \subseteq BgEntities
           /\ FeedsOver(links, n + 1) = FeedsOver(links, n) \cup Before(links, FeedsOver(links, n))
<1>1. PICK z : z[0] = {BgVideo} /\ FeedsOver(links, 0) = z[0]
  <2>1. PICK z : FeedsBy(links, 0, z)
    BY FeedsIs
  <2> QED BY <2>1 DEF FeedsBy
<1>2. PICK g \in [0..n -> SUBSET BgEntities] :
             /\ g[0] = {BgVideo} /\ \A i \in 1..n : g[i] = g[i - 1] \cup Before(links, g[i - 1])
             /\ FeedsOver(links, n) = g[n]
  <2>1. PICK g : FeedsBy(links, n, g)
    BY FeedsIs
  <2> QED BY <2>1 DEF FeedsBy
<1>3. PICK way \in [0..(n + 1) -> SUBSET BgEntities] :
             /\ way[0] = {BgVideo} /\ \A i \in 1..(n + 1) : way[i] = way[i - 1] \cup Before(links, way[i - 1])
             /\ FeedsOver(links, n + 1) = way[n + 1]
  <2>1. PICK k \in Nat : k = n + 1
    OBVIOUS
  <2>2. PICK way : FeedsBy(links, k, way)
    BY FeedsIs
  <2>3. FeedsBy(links, n + 1, way)
    BY <2>1, <2>2
  <2> QED BY <2>3 DEF FeedsBy
<1> DEFINE T == {m \in Nat : m <= n => g[m] = way[m]}
<1>4. 0 \in T
  BY <1>2, <1>3
<1>5. ASSUME NEW m \in Nat, m \in T PROVE m + 1 \in T
  <2>1. SUFFICES ASSUME m + 1 <= n PROVE g[m + 1] = way[m + 1]
    OBVIOUS
  <2>2. g[m] = way[m] /\ m + 1 \in 1..n /\ m + 1 \in 1..(n + 1) /\ (m + 1) - 1 = m
    BY <1>5, <2>1
  <2>3. g[m + 1] = g[(m + 1) - 1] \cup Before(links, g[(m + 1) - 1])
    BY <2>2, <1>2, Zenon
  <2>4. way[m + 1] = way[(m + 1) - 1] \cup Before(links, way[(m + 1) - 1])
    BY <2>2, <1>3, Zenon
  <2> QED BY <2>2, <2>3, <2>4
<1> HIDE DEF T
<1>6. n \in T
  BY <1>4, <1>5, NatsFollow
<1>7. g[n] = way[n]
  BY <1>6 DEF T
<1>8. way[n + 1] = way[n] \cup Before(links, way[n])
  <2>1. n + 1 \in 1..(n + 1) /\ (n + 1) - 1 = n
    OBVIOUS
  <2>2. way[n + 1] = way[(n + 1) - 1] \cup Before(links, way[(n + 1) - 1])
    BY <2>1, <1>3, Zenon
  <2> QED BY <2>1, <2>2
<1>9. g[n] \subseteq BgEntities
  BY <1>2
<1> QED BY <1>1, <1>2, <1>3, <1>7, <1>8, <1>9

\* More links reach no less.
LEMMA FeedsStays ==
    ASSUME BgAssumption, NEW links, NEW m \in Nat, NEW n \in Nat, m <= n
    PROVE  FeedsOver(links, m) \subseteq FeedsOver(links, n)
<1> DEFINE T == {k \in Nat : FeedsOver(links, m) \subseteq FeedsOver(links, m + k)}
<1>1. 0 \in T
  OBVIOUS
<1>2. ASSUME NEW k \in Nat, k \in T PROVE k + 1 \in T
  <2>1. m + k \in Nat /\ (m + k) + 1 = m + (k + 1)
    OBVIOUS
  <2>2. FeedsOver(links, m + k) \subseteq FeedsOver(links, (m + k) + 1)
    BY <2>1, FeedsMore
  <2> QED BY <1>2, <2>1, <2>2
<1> HIDE DEF T
<1>3. \A k \in Nat : k \in T
  BY <1>1, <1>2, NatsFollow
<1>4. n - m \in T /\ m + (n - m) = n
  BY <1>3
<1> QED BY <1>4 DEF T

\* The search is at some entity: those in the queue were found and not looked at.
BgTypes ==
    /\ bgQueue \in Seq(BgEntities) /\ bgVisited \subseteq BgEntities /\ BgVideo \in bgVisited
    /\ \A i, j \in 1..Len(bgQueue) : bgQueue[i] = bgQueue[j] => i = j
    /\ \A i \in 1..Len(bgQueue) : bgQueue[i] \in bgVisited
Waits(x) == \E i \in 1..Len(bgQueue) : bgQueue[i] = x
\* All others were looked at: they are no bridges, and what feeds them is found.
BgLooked == \A x \in bgVisited : Waits(x) \/ (x \notin BgBridges /\ Upstream(x) \subseteq bgVisited)
\* The queue is in the order of the distance, and spans one link at most.
BgOrdered ==
    \A i, j \in 1..Len(bgQueue) : \A m \in Nat :
       i < j /\ bgQueue[j] \in Feeds(m) => bgQueue[i] \in Feeds(m)
BgNear ==
    \A j \in 1..Len(bgQueue) : \A m \in Nat : bgQueue[1] \in Feeds(m) => bgQueue[j] \in Feeds(m + 1)
\* Each entity that was found cost no more than a link.
BgReached == bgVisited \subseteq Feeds(Cardinality(bgVisited) - 1)
BgAtBridge == bgFound # 0 => bgQueue # <<>> /\ bgFound = bgQueue[1] /\ bgFound \in BgBridges
BgInv == BgTypes /\ BgLooked /\ BgOrdered /\ BgNear /\ BgReached /\ BgAtBridge

\* The search begins at the capture node.
LEMMA BgStarts == ASSUME BgAssumption PROVE BgInit => BgInv
<1> SUFFICES ASSUME BgInit PROVE BgInv
  OBVIOUS
<1>1. BgVideo \in BgEntities /\ Len(bgQueue) = 1 /\ bgQueue[1] = BgVideo /\ bgVisited = {BgVideo} /\ bgFound = 0
  BY DEF BgInit, BgAssumption
<1>2. BgTypes /\ BgLooked /\ BgAtBridge
  <2>1. bgQueue \in Seq(BgEntities)
    BY <1>1 DEF BgInit
  <2>2. BgTypes
    BY <1>1, <2>1 DEF BgTypes
  <2>3. BgLooked
    BY <1>1 DEF BgLooked, Waits
  <2>4. BgAtBridge
    BY <1>1 DEF BgAtBridge
  <2> QED BY <2>2, <2>3, <2>4
<1>3. BgOrdered
  BY <1>1 DEF BgOrdered
<1>4. \A m \in Nat : Feeds(m) \subseteq Feeds(m + 1)
  <2> TAKE m \in Nat
  <2> QED BY FeedsMore DEF Feeds
<1>5. BgNear
  BY <1>1, <1>4 DEF BgNear
<1>6. Cardinality(bgVisited) - 1 = 0
  <2>1. Cardinality({BgVideo}) = 1
    BY FS_Singleton
  <2> QED BY <1>1, <2>1
<1>7. Feeds(0) = {BgVideo}
  <2>1. 0 \in Nat
    OBVIOUS
  <2> QED BY <2>1, FeedsMore DEF Feeds
<1>8. BgReached
  BY <1>1, <1>6, <1>7 DEF BgReached
<1> QED BY <1>2, <1>3, <1>5, <1>8 DEF BgInv

\* What is nearer than all that waits was looked at.
LEMMA BgExplored ==
    ASSUME BgAssumption, BgInv, NEW n \in Nat, \A i \in 1..Len(bgQueue) : bgQueue[i] \notin Feeds(n)
    PROVE  \A x \in Feeds(n) : x \in bgVisited /\ x \notin BgBridges /\ Upstream(x) \subseteq bgVisited
<1> DEFINE Finished(x) == x \in bgVisited /\ x \notin BgBridges /\ Upstream(x) \subseteq bgVisited
           T == {m \in Nat : m <= n => \A x \in Feeds(m) : Finished(x)}
<1>1. ASSUME NEW x \in Feeds(n), x \in bgVisited PROVE Finished(x)
  <2>1. ~Waits(x)
    BY <1>1 DEF Waits
  <2> QED BY <2>1, <1>1 DEF BgInv, BgLooked
<1>2. 0 \in T
  <2>1. 0 \in Nat /\ 0 <= n
    OBVIOUS
  <2>2. Feeds(0) = {BgVideo} /\ Feeds(0) \subseteq Feeds(n)
    BY <2>1, FeedsMore, FeedsStays DEF Feeds
  <2>3. BgVideo \in bgVisited
    BY DEF BgInv, BgTypes
  <2> QED BY <1>1, <2>2, <2>3
<1>3. ASSUME NEW m \in Nat, m \in T PROVE m + 1 \in T
  <2>1. SUFFICES ASSUME m + 1 <= n, NEW x \in Feeds(m + 1) PROVE Finished(x)
    OBVIOUS
  <2>2. m <= n /\ m + 1 \in Nat
    BY <2>1
  <2>3. \A y \in Feeds(m) : Finished(y)
    BY <1>3, <2>2
  <2>4. Feeds(m + 1) = Feeds(m) \cup Before(bgLinks, Feeds(m))
    BY FeedsMore DEF Feeds
  <2>5. Feeds(m + 1) \subseteq Feeds(n)
    BY <2>1, <2>2, FeedsStays DEF Feeds
  <2>6. CASE x \in Feeds(m)
    BY <2>6, <2>3
  <2>7. CASE x \in Before(bgLinks, Feeds(m))
    <3>1. PICK e \in Feeds(m) : x \in BgEntities /\ <<x, e>> \in bgLinks
      BY <2>7 DEF Before
    <3>2. x \in Upstream(e) /\ Upstream(e) \subseteq bgVisited
      BY <3>1, <2>3 DEF Upstream
    <3> QED BY <3>2, <2>5, <2>1, <1>1
  <2> QED BY <2>1, <2>4, <2>6, <2>7
<1> HIDE DEF T
<1>4. n \in T
  BY <1>2, <1>3, NatsFollow
<1> QED BY <1>4 DEF T

\* What is found when an entity is looked at is one link behind it.
LEMMA BgBehind ==
    ASSUME BgAssumption, BgInv, bgQueue # <<>>, NEW y \in Upstream(bgQueue[1]) \ bgVisited, NEW m \in Nat,
           y \in Feeds(m)
    PROVE  m # 0 /\ bgQueue[1] \in Feeds(m - 1)
<1>1. Feeds(0) = {BgVideo} /\ BgVideo \in bgVisited
  <2>1. 0 \in Nat
    OBVIOUS
  <2> QED BY <2>1, FeedsMore DEF Feeds, BgInv, BgTypes
<1>2. m # 0
  BY <1>1
<1>3. PICK k \in Nat : m = k + 1
  <2>1. m - 1 \in Nat /\ m = (m - 1) + 1
    BY <1>2
  <2> QED BY <2>1
<1>4. SUFFICES ASSUME bgQueue[1] \notin Feeds(k) PROVE FALSE
  BY <1>2, <1>3
<1>5. \A i \in 1..Len(bgQueue) : bgQueue[i] \notin Feeds(k)
  <2>1. Len(bgQueue) \in Nat /\ 1 \in 1..Len(bgQueue)
    BY DEF BgInv, BgTypes
  <2>2. \A i \in 1..Len(bgQueue) : i = 1 \/ 1 < i
    BY <2>1
  <2> QED BY <1>4, <2>1, <2>2 DEF BgInv, BgOrdered
<1>6. \A x \in Feeds(k) : x \in bgVisited /\ Upstream(x) \subseteq bgVisited
  BY <1>5, BgExplored
<1>7. Feeds(k + 1) = Feeds(k) \cup Before(bgLinks, Feeds(k))
  BY FeedsMore DEF Feeds
<1>8. y \in Before(bgLinks, Feeds(k))
  BY <1>3, <1>6, <1>7
<1>9. PICK e \in Feeds(k) : y \in BgEntities /\ <<y, e>> \in bgLinks
  BY <1>8 DEF Before
<1>10. y \in Upstream(e)
  BY <1>9 DEF Upstream
<1> QED BY <1>6, <1>9, <1>10

\* All members of a set, each once.
Enumerates(q, E) ==
    /\ q \in Seq(E) /\ Len(q) \in Nat
    /\ \A i, j \in 1..Len(q) : q[i] = q[j] => i = j
    /\ \A x \in E : \E i \in 1..Len(q) : q[i] = x

\* The entities of a set in order are all of them, each once.
LEMMA InOrderIsWhole ==
    ASSUME NEW E, E \subseteq Nat, IsFiniteSet(E), NEW q \in InOrder(E)
    PROVE  Enumerates(q, E)
<1>1. Cardinality(E) \in Nat
  BY FS_CardinalityType
<1>2. q \in [1..Cardinality(E) -> E] /\ \A i, j \in DOMAIN q : i < j => q[i] < q[j]
  BY DEF InOrder
<1>3. q \in Seq(E) /\ Len(q) = Cardinality(E)
  BY <1>1, <1>2
<1>4. ASSUME NEW i \in 1..Len(q), NEW j \in 1..Len(q), q[i] = q[j] PROVE i = j
  <2>1. q[i] \in Nat /\ q[j] \in Nat /\ i \in Nat /\ j \in Nat
    <3>1. q[i] \in E /\ q[j] \in E
      BY <1>1, <1>2, <1>3
    <3>2. i \in Nat /\ j \in Nat
      BY <1>1, <1>3
    <3> QED BY <3>1, <3>2
  <2>2. ~(i < j) /\ ~(j < i)
    BY <1>1, <1>2, <1>3, <1>4, <2>1
  <2> QED BY <2>1, <2>2
<1>5. q \in Injection(1..Cardinality(E), E)
  BY <1>2, <1>3, <1>4 DEF Injection, IsInjective
<1>6. Cardinality(1..Cardinality(E)) = Cardinality(E)
  BY <1>1, FS_Interval
<1>7. q \in Surjection(1..Cardinality(E), E)
  BY <1>5, <1>6, FS_Injection
<1>8. \A x \in E : \E i \in 1..Len(q) : q[i] = x
  BY <1>3, <1>7 DEF Surjection
<1> QED BY <1>1, <1>3, <1>4, <1>8 DEF Enumerates

\* An entity is looked at that is no bridge.
LEMMA BgLooks ==
    ASSUME BgAssumption, BgInv, bgQueue # <<>>, bgFound = 0, bgQueue[1] = BgVideo \/ bgQueue[1] \notin BgBridges,
           NEW r \in InOrder(Upstream(bgQueue[1]) \ bgVisited), bgQueue' = Tail(bgQueue) \o r,
           bgVisited' = bgVisited \cup (Upstream(bgQueue[1]) \ bgVisited), bgFound' = bgFound, bgLinks' = bgLinks
    PROVE  BgInv'
<1> DEFINE e == bgQueue[1]
           new == Upstream(e) \ bgVisited
           n == Len(bgQueue)
           k == Len(r)
<1>0. BgTypes /\ BgLooked /\ BgOrdered /\ BgNear /\ BgReached
  BY DEF BgInv
<1>1. n \in Nat /\ n >= 1 /\ e \in BgEntities /\ e \in bgVisited /\ 1 \in 1..n
  BY <1>0 DEF BgTypes
<1>2. new \subseteq BgEntities /\ new \subseteq Nat /\ IsFiniteSet(new) /\ IsFiniteSet(bgVisited)
  <2>1. new \subseteq BgEntities
    BY DEF Upstream
  <2> QED BY <2>1, <1>0, FS_Subset DEF BgAssumption, BgTypes
<1>3. /\ r \in Seq(new) /\ k \in Nat
      /\ \A i, j \in 1..k : r[i] = r[j] => i = j
      /\ \A x \in new : \E i \in 1..k : r[i] = x
  <2>1. r \in InOrder(new)
    OBVIOUS
  <2>2. Enumerates(r, new)
    <3> HIDE DEF new
    <3> QED BY <2>1, <1>2, InOrderIsWhole
  <2> QED BY <2>2 DEF Enumerates
<1>4. /\ bgQueue' \in Seq(BgEntities) /\ Len(bgQueue') = n - 1 + k
      /\ \A i \in 1..(n - 1) : bgQueue'[i] = bgQueue[i + 1] /\ i + 1 \in 2..n
      /\ \A i \in n..(n - 1 + k) : bgQueue'[i] = r[i - n + 1] /\ i - n + 1 \in 1..k
      /\ \A i \in 1..k : r[i] \in new
  <2>1. bgQueue \in Seq(BgEntities) /\ r \in Seq(BgEntities)
    BY <1>0, <1>2, <1>3 DEF BgTypes
  <2>2. Tail(bgQueue) \in Seq(BgEntities) /\ Len(Tail(bgQueue)) = n - 1 /\ \A i \in 1..(n - 1) : Tail(bgQueue)[i] = bgQueue[i + 1]
    BY <2>1, <1>1
  <2>3. \A i \in 1..k : r[i] \in new
    BY <1>3
  <2> DEFINE t == Tail(bgQueue)
  <2> HIDE DEF t, new
  <2>4. t \o r \in Seq(BgEntities) /\ Len(t \o r) = n - 1 + k
    BY <2>1, <2>2, <1>1, <1>3 DEF t
  <2>5. \A i \in 1..(n - 1) : (t \o r)[i] = t[i]
    BY <2>1, <2>2, <1>1, <1>3 DEF t
  <2>6. \A i \in n..(n - 1 + k) : (t \o r)[i] = r[i - n + 1]
    BY <2>1, <2>2, <1>1, <1>3 DEF t
  <2>7. bgQueue' = t \o r
    BY DEF t
  <2>8. \A i \in 1..(n - 1) : t[i] = bgQueue[i + 1]
    BY <2>2 DEF t
  <2> HIDE DEF n, k
  <2>9. \A i \in 1..(n - 1) : bgQueue'[i] = bgQueue[i + 1] /\ i + 1 \in 2..n
    <3> TAKE i \in 1..(n - 1)
    <3>1. i + 1 \in 2..n
      BY <1>1
    <3> QED BY <3>1, <2>5, <2>7, <2>8
  <2>10. \A i \in n..(n - 1 + k) : bgQueue'[i] = r[i - n + 1] /\ i - n + 1 \in 1..k
    <3> TAKE i \in n..(n - 1 + k)
    <3>1. i - n + 1 \in 1..k
      BY <1>1, <1>3
    <3> QED BY <3>1, <2>6, <2>7
  <2> QED BY <2>3, <2>4, <2>7, <2>9, <2>10
<1>5. bgVisited' = bgVisited \cup new
  OBVIOUS
<1>6. ASSUME NEW i \in 1..Len(bgQueue')
      PROVE  \/ i \in 1..(n - 1) /\ bgQueue'[i] = bgQueue[i + 1] /\ i + 1 \in 1..n /\ i + 1 # 1
             \/ i \in n..(n - 1 + k) /\ bgQueue'[i] = r[i - n + 1] /\ i - n + 1 \in 1..k /\ r[i - n + 1] \in new
  <2>1. i \in Nat /\ (i \in 1..(n - 1) \/ i \in n..(n - 1 + k))
    BY <1>1, <1>3, <1>4
  <2> HIDE DEF n, k, new
  <2>2. CASE i \in 1..(n - 1)
    <3>1. i + 1 \in 1..n /\ i + 1 # 1
      BY <2>2, <1>1
    <3> QED BY <2>2, <3>1, <1>4
  <2>3. CASE i \in n..(n - 1 + k)
    BY <2>3, <1>4
  <2> QED BY <2>1, <2>2, <2>3
<1>7. \A i \in 1..n : bgQueue[i] \in bgVisited
  BY <1>0 DEF BgTypes
<1>8. BgTypes'
  <2>1. bgVisited' \subseteq BgEntities /\ BgVideo \in bgVisited'
    BY <1>0, <1>2, <1>5 DEF BgTypes
  <2>2. \A i \in 1..Len(bgQueue') : bgQueue'[i] \in bgVisited'
    <3> HIDE DEF n, k, new
    <3> QED BY <1>5, <1>6, <1>7
  <2>3. ASSUME NEW i \in 1..Len(bgQueue'), NEW j \in 1..Len(bgQueue'), bgQueue'[i] = bgQueue'[j] PROVE i = j
    <3>1. CASE i \in 1..(n - 1) /\ j \in 1..(n - 1)
      <4>1. bgQueue[i + 1] = bgQueue[j + 1] /\ i + 1 \in 1..n /\ j + 1 \in 1..n
        BY <3>1, <2>3, <1>4, <1>1
      <4>2. i + 1 = j + 1
        BY <4>1, <1>0 DEF BgTypes
      <4> QED BY <4>2, <3>1, <1>1
    <3>2. CASE i \in n..(n - 1 + k) /\ j \in n..(n - 1 + k)
      <4>1. r[i - n + 1] = r[j - n + 1] /\ i - n + 1 \in 1..k /\ j - n + 1 \in 1..k
        BY <3>2, <2>3, <1>4
      <4>2. i - n + 1 = j - n + 1
        BY <4>1, <1>3
      <4> QED BY <4>2, <3>2, <1>1, <1>3
    <3>3. \A x \in new : x \notin bgVisited
      OBVIOUS
    <3> HIDE DEF n, k, new
    <3> QED BY <3>1, <3>2, <3>3, <1>6, <1>7, <2>3
  <2> QED BY <1>4, <2>1, <2>2, <2>3 DEF BgTypes
<1>9. \A x \in new : \E i \in 1..Len(bgQueue') : bgQueue'[i] = x
  <2> SUFFICES ASSUME NEW x \in new PROVE \E i \in 1..Len(bgQueue') : bgQueue'[i] = x
    OBVIOUS
  <2>1. PICK i \in 1..k : r[i] = x
    BY <1>3
  <2> HIDE DEF n, k, new
  <2>2. i + n - 1 \in n..(n - 1 + k) /\ (i + n - 1) - n + 1 = i /\ i + n - 1 \in 1..Len(bgQueue')
    BY <1>1, <1>3, <1>4
  <2> QED BY <2>1, <2>2, <1>4
<1>10. BgLooked'
  <2> SUFFICES ASSUME NEW x \in bgVisited', ~Waits(x)' PROVE x \notin BgBridges /\ Upstream(x)' \subseteq bgVisited'
    BY DEF BgLooked
  <2>1. x \notin new /\ x \in bgVisited
    BY <1>5, <1>9 DEF Waits
  <2>2. Upstream(x)' = Upstream(x)
    BY DEF Upstream
  <2>3. CASE x = e
    <3>1. x \notin BgBridges
      BY <2>3 DEF BgAssumption
    <3>2. Upstream(x) \subseteq bgVisited'
      BY <2>3, <1>5
    <3> QED BY <2>2, <3>1, <3>2
  <2>4. CASE x # e
    <3>1. ~Waits(x)
      <4>1. SUFFICES ASSUME NEW i \in 1..n, bgQueue[i] = x PROVE FALSE
        BY DEF Waits
      <4>2. i # 1 /\ i \in Nat
        BY <2>4, <4>1, <1>1
      <4>3. i - 1 \in 1..(n - 1) /\ (i - 1) + 1 = i /\ i - 1 \in 1..Len(bgQueue')
        BY <4>2, <1>1, <1>3, <1>4
      <4>4. bgQueue'[i - 1] = x
        BY <4>3, <4>1, <1>4
      <4> QED BY <4>3, <4>4 DEF Waits
    <3>2. x \notin BgBridges /\ Upstream(x) \subseteq bgVisited
      BY <3>1, <2>1, <1>0 DEF BgLooked
    <3> QED BY <3>2, <2>2, <1>5
  <2> QED BY <2>3, <2>4
<1>11. \A m \in Nat : Feeds(m)' = Feeds(m)
  BY DEF Feeds
<1>12. \A y \in new : \A m \in Nat : y \in Feeds(m) => m # 0 /\ e \in Feeds(m - 1)
  BY BgBehind
<1>13. \A m \in Nat : m # 0 => m - 1 \in Nat /\ (m - 1) + 1 = m
  OBVIOUS
<1>14. \A y \in new : \A m \in Nat : e \in Feeds(m) => y \in Feeds(m + 1)
  <2> SUFFICES ASSUME NEW y \in new, NEW m \in Nat, e \in Feeds(m) PROVE y \in Feeds(m + 1)
    OBVIOUS
  <2>1. Feeds(m + 1) = Feeds(m) \cup Before(bgLinks, Feeds(m))
    BY FeedsMore DEF Feeds
  <2>2. y \in Before(bgLinks, Feeds(m))
    BY DEF Before, Upstream
  <2> QED BY <2>1, <2>2
<1>15. \A x \in bgVisited' : \A m \in Nat : Waits(x) /\ e \in Feeds(m) => x \in Feeds(m + 1)
  BY <1>0 DEF Waits, BgNear
<1>16. BgOrdered'
  <2> SUFFICES ASSUME NEW i \in 1..Len(bgQueue'), NEW j \in 1..Len(bgQueue'), NEW m \in Nat,
                      i < j, bgQueue'[j] \in Feeds(m)
               PROVE  bgQueue'[i] \in Feeds(m)
    BY DEF BgOrdered, Feeds
  <2>1. CASE j \in 1..(n - 1)
    <3>1. i \in 1..(n - 1) /\ i + 1 \in 1..n /\ j + 1 \in 1..n /\ i + 1 < j + 1
      BY <2>1, <1>1
    <3>2. bgQueue'[i] = bgQueue[i + 1] /\ bgQueue'[j] = bgQueue[j + 1]
      BY <3>1, <2>1, <1>4
    <3> QED BY <3>1, <3>2, <1>0 DEF BgOrdered
  <2>2. CASE j \in n..(n - 1 + k)
    <3>1. bgQueue'[j] \in new
      BY <2>2, <1>4
    <3>2. m # 0 /\ e \in Feeds(m - 1) /\ m - 1 \in Nat /\ (m - 1) + 1 = m
      BY <3>1, <1>12, <1>13
    <3>3. bgQueue'[i] \in new => bgQueue'[i] \in Feeds(m)
      BY <3>2, <1>14
    <3>4. i \in 1..(n - 1) => bgQueue'[i] \in Feeds(m)
      <4>1. SUFFICES ASSUME i \in 1..(n - 1) PROVE bgQueue[i + 1] \in Feeds(m)
        BY <1>4
      <4>2. i + 1 \in 1..n
        BY <4>1, <1>1
      <4>3. bgQueue[i + 1] \in Feeds((m - 1) + 1)
        BY <4>2, <3>2, <1>0 DEF BgNear
      <4> QED BY <4>3, <3>2
    <3> HIDE DEF n, k, new, e
    <3> QED BY <3>3, <3>4, <1>6
  <2> HIDE DEF n, k, new, e
  <2> QED BY <2>1, <2>2, <1>6
<1>17. BgNear'
  <2> SUFFICES ASSUME NEW j \in 1..Len(bgQueue'), NEW m \in Nat, bgQueue'[1] \in Feeds(m)
               PROVE  bgQueue'[j] \in Feeds(m + 1)
    BY DEF BgNear, Feeds
  <2>1. 1 \in 1..Len(bgQueue')
    BY <1>1, <1>3, <1>4
  <2>2. e \in Feeds(m)
    <3>1. CASE 1 \in 1..(n - 1)
      <4>1. bgQueue'[1] = bgQueue[2] /\ 2 \in 1..n /\ 1 < 2
        BY <3>1, <1>4, <1>1
      <4> QED BY <4>1, <1>0, <1>1 DEF BgOrdered
    <3>2. CASE bgQueue'[1] \in new
      <4>1. m # 0 /\ e \in Feeds(m - 1) /\ m - 1 \in Nat /\ (m - 1) + 1 = m
        BY <3>2, <1>12, <1>13
      <4>2. Feeds(m - 1) \subseteq Feeds(m)
        BY <4>1, FeedsStays, m - 1 <= m DEF Feeds
      <4> QED BY <4>1, <4>2
    <3> HIDE DEF n, k, new, e
    <3> QED BY <3>1, <3>2, <2>1, <1>6
  <2>3. j \in 1..(n - 1) => bgQueue'[j] \in Feeds(m + 1)
    <3>1. SUFFICES ASSUME j \in 1..(n - 1) PROVE bgQueue[j + 1] \in Feeds(m + 1)
      BY <1>4
    <3>2. j + 1 \in 1..n
      BY <3>1, <1>1
    <3> QED BY <3>2, <2>2, <1>0 DEF BgNear
  <2>4. bgQueue'[j] \in new => bgQueue'[j] \in Feeds(m + 1)
    BY <2>2, <1>14
  <2> HIDE DEF n, k, new, e
  <2> QED BY <2>3, <2>4, <1>6
<1>18. BgReached'
  <2> DEFINE c == Cardinality(bgVisited)
  <2>1. c \in Nat /\ c # 0
    BY <1>2, <1>1, FS_CardinalityType, FS_EmptySet
  <2>2. c - 1 \in Nat /\ (c - 1) + 1 = c
    BY <2>1
  <2>3. CASE new = {}
    <3>1. bgVisited' = bgVisited
      BY <2>3, <1>5
    <3>2. (Cardinality(bgVisited) - 1)' = c - 1
      BY <3>1
    <3> QED BY <3>1, <3>2, <2>2, <1>0, <1>11 DEF BgReached
  <2>4. CASE new # {}
    <3> DEFINE size == Cardinality(bgVisited')
    <3>1. IsFiniteSet(bgVisited') /\ size \in Nat /\ c <= size /\ c # size
      <4>1. bgVisited' \subseteq BgEntities
        BY <1>8 DEF BgTypes
      <4>2. IsFiniteSet(bgVisited')
        BY <4>1, FS_Subset DEF BgAssumption
      <4>3. bgVisited \in SUBSET bgVisited' /\ bgVisited # bgVisited'
        BY <2>4, <1>5
      <4> QED BY <4>2, <4>3, FS_Subset, FS_CardinalityType
    <3>2. size - 1 \in Nat /\ c <= size - 1 /\ c - 1 <= size - 1
      BY <3>1, <2>1
    <3>3. bgVisited \subseteq Feeds(c - 1)
      BY <1>0 DEF BgReached
    <3> HIDE DEF c, size
    <3>4. Feeds(c - 1) \subseteq Feeds(size - 1) /\ Feeds(c) \subseteq Feeds(size - 1)
      BY <2>1, <2>2, <3>2, FeedsStays DEF Feeds
    <3>5. new \subseteq Feeds(c)
      BY <3>3, <2>2, <1>1, <1>14
    <3>6. bgVisited' \subseteq Feeds(size - 1)
      BY <3>3, <3>4, <3>5, <1>5
    <3> QED BY <3>6 DEF BgReached, size, Feeds
  <2> QED BY <2>3, <2>4
<1>19. BgAtBridge'
  BY DEF BgAtBridge
<1> QED BY <1>8, <1>10, <1>16, <1>17, <1>18, <1>19 DEF BgInv

\* Every step keeps what the search relies on.
LEMMA BgSteps == ASSUME BgAssumption, BgInv, [BgNext]_bgVars PROVE BgInv'
<1>1. CASE UNCHANGED bgVars
  <2>1. BgTypes' /\ BgAtBridge'
    BY <1>1 DEF BgInv, BgTypes, BgAtBridge, bgVars
  <2>2. BgLooked'
    BY <1>1 DEF BgInv, BgLooked, Waits, Upstream, bgVars
  <2>3. BgOrdered'
    BY <1>1 DEF BgInv, BgOrdered, Feeds, bgVars
  <2>4. BgNear'
    BY <1>1 DEF BgInv, BgNear, Feeds, bgVars
  <2>5. BgReached'
    BY <1>1 DEF BgInv, BgReached, Feeds, bgVars
  <2> QED BY <2>1, <2>2, <2>3, <2>4, <2>5 DEF BgInv
<1>2. CASE Visit
  <2>1. bgQueue # <<>> /\ bgFound = 0 /\ bgLinks' = bgLinks /\ Head(bgQueue) = bgQueue[1]
    BY <1>2 DEF Visit, BgInv, BgTypes
  <2>2. CASE bgQueue[1] # BgVideo /\ bgQueue[1] \in BgBridges
    <3>1. bgFound' = bgQueue[1] /\ bgQueue' = bgQueue /\ bgVisited' = bgVisited
      BY <1>2, <2>1, <2>2 DEF Visit
    <3>2. BgTypes' /\ BgAtBridge'
      BY <2>1, <2>2, <3>1 DEF BgInv, BgTypes, BgAtBridge
    <3>3. BgLooked'
      BY <2>1, <3>1 DEF BgInv, BgLooked, Waits, Upstream
    <3>4. BgOrdered'
      BY <2>1, <3>1 DEF BgInv, BgOrdered, Feeds
    <3>5. BgNear'
      BY <2>1, <3>1 DEF BgInv, BgNear, Feeds
    <3>6. BgReached'
      BY <2>1, <3>1 DEF BgInv, BgReached, Feeds
    <3> QED BY <3>2, <3>3, <3>4, <3>5, <3>6 DEF BgInv
  <2>3. CASE ~(bgQueue[1] # BgVideo /\ bgQueue[1] \in BgBridges)
    <3>1. bgQueue[1] = BgVideo \/ bgQueue[1] \notin BgBridges
      BY <2>3
    <3>2. /\ \E q \in InOrder(Upstream(bgQueue[1]) \ bgVisited) : bgQueue' = Tail(bgQueue) \o q
          /\ bgVisited' = bgVisited \cup (Upstream(bgQueue[1]) \ bgVisited) /\ bgFound' = bgFound
      BY <1>2, <2>1, <2>3 DEF Visit
    <3>3. PICK r \in InOrder(Upstream(bgQueue[1]) \ bgVisited) : bgQueue' = Tail(bgQueue) \o r
      BY <3>2
    <3> QED BY <2>1, <3>1, <3>2, <3>3, BgLooks
  <2> QED BY <2>2, <2>3
<1> QED BY <1>1, <1>2 DEF BgNext

\* The bridge that is found feeds the node, is a nearest one, and none is missed.
LEMMA BgPromised == ASSUME BgAssumption, BgInv PROVE BridgeFeedsNode /\ BridgeIsNearest /\ NoBridgeMissed
<1> DEFINE c == Cardinality(BgEntities)
<1>1. c \in Nat /\ IsFiniteSet(BgEntities)
  BY FS_CardinalityType DEF BgAssumption
<1>2. \A n \in Nat : (\E x \in Feeds(n) : x \in BgBridges) => \E i \in 1..Len(bgQueue) : bgQueue[i] \in Feeds(n)
  BY BgExplored
<1>3. bgFound # 0 => bgQueue # <<>> /\ bgFound = bgQueue[1] /\ Len(bgQueue) \in Nat /\ 1 \in 1..Len(bgQueue)
  BY DEF BgInv, BgAtBridge, BgTypes
<1>4. BridgeFeedsNode
  <2> SUFFICES ASSUME bgFound # 0 PROVE bgFound \in Feeds(c)
    BY DEF BridgeFeedsNode
  <2>1. bgFound \in bgVisited /\ bgVisited \subseteq BgEntities
    BY <1>3 DEF BgInv, BgTypes
  <2> DEFINE k == Cardinality(bgVisited)
  <2>2. k \in Nat /\ k <= c /\ k # 0
    BY <1>1, <2>1, FS_Subset, FS_CardinalityType, FS_EmptySet
  <2>3. k - 1 \in Nat /\ k - 1 <= c
    BY <1>1, <2>2
  <2>4. bgFound \in Feeds(k - 1)
    BY <2>1 DEF BgInv, BgReached
  <2> HIDE DEF k, c
  <2> QED BY <1>1, <2>3, <2>4, FeedsStays DEF Feeds
<1>5. BridgeIsNearest
  <2> SUFFICES ASSUME bgFound # 0, NEW n \in 0..c, Feeds(n) \cap BgBridges # {} PROVE bgFound \in Feeds(n)
    BY DEF BridgeIsNearest
  <2>1. n \in Nat
    BY <1>1
  <2>2. PICK i \in 1..Len(bgQueue) : bgQueue[i] \in Feeds(n)
    BY <1>2, <2>1
  <2>3. i = 1 \/ 1 < i
    BY <1>3
  <2> QED BY <1>3, <2>1, <2>2, <2>3 DEF BgInv, BgOrdered
<1>6. NoBridgeMissed
  BY <1>1, <1>2 DEF NoBridgeMissed
<1> QED BY <1>4, <1>5, <1>6

-----------------------------------------------------------------------------
\* The scanners of a stream

Units == [sc : {3, 4}, nal : BsNals]

\* The sequences that a frame is made of, all or without what is spare.
Piece(u, all) == IF ~all /\ Spare(u) THEN <<>> ELSE Whole(u)
Pieces(us, all) == [i \in DOMAIN us |-> Piece(us[i], all)]

\* A unit without a start code in it.
Bare(n) ==
    /\ n \in Seq(Nat) /\ Len(n) > 0 /\ n[1] # 0 /\ n[Len(n)] # 0
    /\ \A i \in 1..(Len(n) - 2) : ~(n[i] = 0 /\ n[i + 1] = 0 /\ n[i + 2] < 3)

\* Unit n begins, with a start code of length c, at b.
Lies(c, n, b) ==
    /\ b \in Nat \ {0} /\ b + c + Len(n) <= Len(bsData) + 1
    /\ \A x \in 1..(c - 1) : bsData[b + x - 1] = 0
    /\ bsData[b + c - 1] = 1
    /\ \A x \in 1..Len(n) : bsData[b + c + x - 1] = n[x]

\* Sequences of one length that agree everywhere are one.
LEMMA SameSequence ==
    ASSUME NEW V, NEW s \in Seq(V), NEW t \in Seq(V), Len(s) = Len(t), \A i \in 1..Len(s) : s[i] = t[i]
    PROVE  s = t
OBVIOUS

\* What a unit of the stream looks like.
LEMMA UnitIs ==
    ASSUME BsAssumption, NEW u \in Units
    PROVE  u.sc \in {3, 4} /\ Bare(u.nal)
<1>1. u.sc \in {3, 4} /\ u.nal \in BsNals
  BY DEF Units
<1>2. u.nal \in Seq(Nat)
  BY <1>1 DEF BsAssumption
<1>3. /\ u.nal # <<>> /\ u.nal[1] # 0 /\ u.nal[Len(u.nal)] # 0
      /\ \A i \in 1..(Len(u.nal) - 2) : ~(u.nal[i] = 0 /\ u.nal[i + 1] = 0 /\ u.nal[i + 2] < 3)
  BY <1>1 DEF BsAssumption
<1>4. Len(u.nal) > 0
  BY <1>2, <1>3
<1> QED BY <1>1, <1>2, <1>3, <1>4 DEF Bare

\* The long start code, byte by byte.
LEMMA LongCode ==
    ASSUME NEW b \in Seq(Nat), Len(b) = 4
    PROVE  b = Code(4) <=> b[1] = 0 /\ b[2] = 0 /\ b[3] = 0 /\ b[4] = 1
<1> DEFINE t == <<0, 0, 0, 1>>
<1>1. t \in Seq(Nat) /\ Len(t) = 4 /\ t[1] = 0 /\ t[2] = 0 /\ t[3] = 0 /\ t[4] = 1
  OBVIOUS
<1>2. Code(4) = t
  BY DEF Code
<1> HIDE DEF t
<1>3. ASSUME b[1] = 0, b[2] = 0, b[3] = 0, b[4] = 1 PROVE b = t
  <2>1. \A x \in 1..4 : x = 1 \/ x = 2 \/ x = 3 \/ x = 4
    OBVIOUS
  <2>2. \A x \in 1..Len(b) : b[x] = t[x]
    BY <1>1, <1>3, <2>1, Zenon
  <2>3. Len(b) = Len(t)
    BY <1>1
  <2> QED BY <1>1, <2>2, <2>3, SameSequence, Zenon
<1> QED BY <1>1, <1>2, <1>3

\* The short start code, byte by byte.
LEMMA ShortCode ==
    ASSUME NEW b \in Seq(Nat), Len(b) = 3
    PROVE  b = Code(3) <=> b[1] = 0 /\ b[2] = 0 /\ b[3] = 1
<1> DEFINE t == <<0, 0, 1>>
<1>1. t \in Seq(Nat) /\ Len(t) = 3 /\ t[1] = 0 /\ t[2] = 0 /\ t[3] = 1
  OBVIOUS
<1>2. Code(3) = t
  BY DEF Code
<1> HIDE DEF t
<1>3. ASSUME b[1] = 0, b[2] = 0, b[3] = 1 PROVE b = t
  <2>1. \A x \in 1..3 : x = 1 \/ x = 2 \/ x = 3
    OBVIOUS
  <2>2. \A x \in 1..Len(b) : b[x] = t[x]
    BY <1>1, <1>3, <2>1, Zenon
  <2>3. Len(b) = Len(t)
    BY <1>1
  <2> QED BY <1>1, <2>2, <2>3, SameSequence, Zenon
<1> QED BY <1>1, <1>2, <1>3

\* A start code, byte by byte.
LEMMA CodeAt ==
    ASSUME bsData \in Seq(Nat), NEW i \in Nat \ {0}
    PROVE  /\ StartCode(i) = 4 <=> /\ i + 3 <= Len(bsData) /\ bsData[i] = 0 /\ bsData[i + 1] = 0
                                   /\ bsData[i + 2] = 0 /\ bsData[i + 3] = 1
           /\ StartCode(i) = 3 <=> /\ i + 2 <= Len(bsData) /\ bsData[i] = 0 /\ bsData[i + 1] = 0
                                   /\ bsData[i + 2] = 1
           /\ StartCode(i) \in {0, 3, 4}
<1> DEFINE n == Len(bsData)
<1>0. n \in Nat
  OBVIOUS
<1>1. i + 3 <= n => (Bytes(i, i + 3) = Code(4) <=> /\ bsData[i] = 0 /\ bsData[i + 1] = 0
                                              /\ bsData[i + 2] = 0 /\ bsData[i + 3] = 1)
  <2>1. SUFFICES ASSUME i + 3 <= n
                 PROVE  Bytes(i, i + 3) = Code(4) <=> /\ bsData[i] = 0 /\ bsData[i + 1] = 0
                                              /\ bsData[i + 2] = 0 /\ bsData[i + 3] = 1
    OBVIOUS
  <2>2. PICK z \in Nat : z = i + 3 /\ i <= z /\ z <= Len(bsData) /\ z + 1 = i + 4
    BY <1>0, <2>1
  <2>3. PICK b : b = SubSeq(bsData, i, z)
    OBVIOUS
  <2>4. b \in Seq(Nat) /\ Len(b) = 4 /\ \A x \in 1..4 : b[x] = bsData[i + x - 1]
    BY <2>2, <2>3, CutAt
  <2>5. b[1] = bsData[i] /\ b[2] = bsData[i + 1] /\ b[3] = bsData[i + 2] /\ b[4] = bsData[i + 3]
    <3>1. i + 1 - 1 = i /\ i + 2 - 1 = i + 1 /\ i + 3 - 1 = i + 2 /\ i + 4 - 1 = i + 3 /\ {1, 2, 3, 4} \subseteq 1..4
      OBVIOUS
    <3>2. b[1] = bsData[i + 1 - 1] /\ b[2] = bsData[i + 2 - 1] /\ b[3] = bsData[i + 3 - 1] /\ b[4] = bsData[i + 4 - 1]
      BY <2>4, <3>1, Zenon
    <3> QED BY <3>1, <3>2, Zenon
  <2>6. Bytes(i, i + 3) = b
    BY <2>2, <2>3 DEF Bytes
  <2>7. b = Code(4) <=> b[1] = 0 /\ b[2] = 0 /\ b[3] = 0 /\ b[4] = 1
    BY <2>4, LongCode
  <2> QED BY <2>5, <2>6, <2>7
<1>2. i + 2 <= n => (Bytes(i, i + 2) = Code(3) <=> bsData[i] = 0 /\ bsData[i + 1] = 0 /\ bsData[i + 2] = 1)
  <2>1. SUFFICES ASSUME i + 2 <= n
                 PROVE  Bytes(i, i + 2) = Code(3) <=> bsData[i] = 0 /\ bsData[i + 1] = 0 /\ bsData[i + 2] = 1
    OBVIOUS
  <2>2. PICK z \in Nat : z = i + 2 /\ i <= z /\ z <= Len(bsData) /\ z + 1 = i + 3
    BY <1>0, <2>1
  <2>3. PICK b : b = SubSeq(bsData, i, z)
    OBVIOUS
  <2>4. b \in Seq(Nat) /\ Len(b) = 3 /\ \A x \in 1..3 : b[x] = bsData[i + x - 1]
    BY <2>2, <2>3, CutAt
  <2>5. b[1] = bsData[i] /\ b[2] = bsData[i + 1] /\ b[3] = bsData[i + 2]
    <3>1. i + 1 - 1 = i /\ i + 2 - 1 = i + 1 /\ i + 3 - 1 = i + 2 /\ {1, 2, 3} \subseteq 1..3
      OBVIOUS
    <3>2. b[1] = bsData[i + 1 - 1] /\ b[2] = bsData[i + 2 - 1] /\ b[3] = bsData[i + 3 - 1]
      BY <2>4, <3>1, Zenon
    <3> QED BY <3>1, <3>2, Zenon
  <2>6. Bytes(i, i + 2) = b
    BY <2>2, <2>3 DEF Bytes
  <2>7. b = Code(3) <=> b[1] = 0 /\ b[2] = 0 /\ b[3] = 1
    BY <2>4, ShortCode
  <2> QED BY <2>5, <2>6, <2>7
<1> DEFINE long == i + 3 <= n /\ bsData[i] = 0 /\ bsData[i + 1] = 0 /\ bsData[i + 2] = 0 /\ bsData[i + 3] = 1
           short == i + 2 <= n /\ bsData[i] = 0 /\ bsData[i + 1] = 0 /\ bsData[i + 2] = 1
<1>3. (i + 3 <= n /\ Bytes(i, i + 3) = Code(4)) <=> long
  BY <1>1
<1>4. (i + 2 <= n /\ Bytes(i, i + 2) = Code(3)) <=> short
  BY <1>2
<1>5. ~(long /\ short)
  OBVIOUS
<1>6. StartCode(i) = IF long THEN 4 ELSE IF short THEN 3 ELSE 0
  BY <1>3, <1>4, <1>5 DEF StartCode
<1> HIDE DEF long, short
<1>7. (StartCode(i) = 4 <=> long) /\ (StartCode(i) = 3 <=> short) /\ StartCode(i) \in {0, 3, 4}
  BY <1>5, <1>6
<1> QED BY <1>7 DEF long, short

\* Where a unit begins its start code is found, whole.
LEMMA CodeThere ==
    ASSUME bsData \in Seq(Nat), NEW c \in {3, 4}, NEW n \in Seq(Nat), Bare(n), NEW b \in Nat, Lies(c, n, b)
    PROVE  StartCode(b) = c /\ b + c + Len(n) <= Len(bsData) + 1 /\ bsData[b + c] = n[1]
<1>1. /\ Len(n) \in Nat \ {0}
  BY DEF Bare
<1>2. /\ b \in Nat \ {0} /\ b + c + Len(n) <= Len(bsData) + 1
      /\ \A x \in 1..(c - 1) : bsData[b + x - 1] = 0
      /\ bsData[b + c - 1] = 1
      /\ \A x \in 1..Len(n) : bsData[b + c + x - 1] = n[x]
  BY DEF Lies
<1>3. bsData[b + c] = n[1]
  <2>1. 1 \in 1..Len(n) /\ b + c + 1 - 1 = b + c
    BY <1>1, <1>2
  <2> QED BY <2>1, <1>2
<1>4. StartCode(b) = c
  <2>1. Len(bsData) \in Nat
    OBVIOUS
  <2>2. CASE c = 4
    <3>1. bsData[b + 1 - 1] = 0 /\ bsData[b + 2 - 1] = 0 /\ bsData[b + 3 - 1] = 0 /\ bsData[b + 4 - 1] = 1
      <4>1. 1 \in 1..(c - 1) /\ 2 \in 1..(c - 1) /\ 3 \in 1..(c - 1)
        BY <2>2
      <4> QED BY <4>1, <1>2, <2>2
    <3>2. b + 1 - 1 = b /\ b + 2 - 1 = b + 1 /\ b + 3 - 1 = b + 2 /\ b + 4 - 1 = b + 3 /\ b + 3 <= Len(bsData)
      BY <1>1, <1>2, <2>1, <2>2
    <3>3. bsData[b] = 0 /\ bsData[b + 1] = 0 /\ bsData[b + 2] = 0 /\ bsData[b + 3] = 1
      BY <3>1, <3>2
    <3> QED BY <3>2, <3>3, <1>2, <2>2, CodeAt
  <2>3. CASE c = 3
    <3>1. bsData[b + 1 - 1] = 0 /\ bsData[b + 2 - 1] = 0 /\ bsData[b + 3 - 1] = 1
      <4>1. 1 \in 1..(c - 1) /\ 2 \in 1..(c - 1)
        BY <2>3
      <4> QED BY <4>1, <1>2, <2>3
    <3>2. b + 1 - 1 = b /\ b + 2 - 1 = b + 1 /\ b + 3 - 1 = b + 2 /\ b + 2 <= Len(bsData)
      BY <1>1, <1>2, <2>1, <2>3
    <3>3. bsData[b] = 0 /\ bsData[b + 1] = 0 /\ bsData[b + 2] = 1
      BY <3>1, <3>2
    <3> QED BY <3>2, <3>3, <1>2, <2>3, CodeAt
  <2> QED BY <1>1, <2>2, <2>3
<1> QED BY <1>2, <1>3, <1>4

\* Inside of a unit there is none.
LEMMA NoCodeInside ==
    ASSUME bsData \in Seq(Nat), NEW c \in {3, 4}, NEW n \in Seq(Nat), Bare(n), NEW b \in Nat, Lies(c, n, b),
           NEW j \in Nat, b + c <= j, j < b + c + Len(n)
    PROVE  StartCode(j) = 0
<1> DEFINE m == Len(n)
<1>1. /\ m \in Nat \ {0} /\ n[m] # 0
      /\ \A i \in 1..(m - 2) : ~(n[i] = 0 /\ n[i + 1] = 0 /\ n[i + 2] < 3)
  BY DEF Bare
<1>2. b \in Nat \ {0} /\ \A x \in 1..m : bsData[b + c + x - 1] = n[x]
  BY DEF Lies
<1> HIDE DEF m
<1>3. PICK i \in 1..m : j = b + c + i - 1
  <2>1. j - b - c + 1 \in 1..m /\ j = b + c + (j - b - c + 1) - 1
    BY <1>1, <1>2 DEF m
  <2> QED BY <2>1
<1>4. bsData[j] = n[i]
  BY <1>2, <1>3
<1>5. i < m => bsData[j + 1] = n[i + 1]
  <2>1. SUFFICES ASSUME i < m PROVE bsData[j + 1] = n[i + 1]
    OBVIOUS
  <2>2. i + 1 \in 1..m /\ j + 1 = b + c + (i + 1) - 1
    BY <1>1, <1>2, <1>3, <2>1
  <2>3. bsData[b + c + (i + 1) - 1] = n[i + 1]
    BY <1>2, <2>2
  <2> QED BY <2>2, <2>3
<1>6. i < m - 1 => bsData[j + 2] = n[i + 2]
  <2>1. SUFFICES ASSUME i < m - 1 PROVE bsData[j + 2] = n[i + 2]
    OBVIOUS
  <2>2. i + 2 \in 1..m /\ j + 2 = b + c + (i + 2) - 1
    BY <1>1, <1>2, <1>3, <2>1
  <2>3. bsData[b + c + (i + 2) - 1] = n[i + 2]
    BY <1>2, <2>2
  <2> QED BY <2>2, <2>3
<1>7. ~(bsData[j] = 0 /\ bsData[j + 1] = 0 /\ bsData[j + 2] \in {0, 1})
  <2>1. CASE i = m
    BY <2>1, <1>4, <1>1
  <2>2. CASE i = m - 1
    <3>1. i < m /\ i + 1 = m
      BY <2>2, <1>1
    <3> QED BY <3>1, <1>5, <1>1
  <2>3. CASE i < m - 1
    <3>1. i \in 1..(m - 2) /\ i < m
      BY <2>3, <1>1
    <3>2. ~(n[i] = 0 /\ n[i + 1] = 0 /\ n[i + 2] < 3)
      BY <3>1, <1>1
    <3>3. bsData[j] = n[i] /\ bsData[j + 1] = n[i + 1] /\ bsData[j + 2] = n[i + 2]
      BY <2>3, <3>1, <1>4, <1>5, <1>6
    <3> HIDE DEF m
    <3>4. 0 < 3 /\ 1 < 3
      OBVIOUS
    <3>5. bsData[j + 2] \in {0, 1} => bsData[j + 2] < 3
      BY <3>4
    <3> QED BY <3>2, <3>3, <3>5, Zenon
  <2> QED BY <2>1, <2>2, <2>3, <1>1
<1>8. j \in Nat \ {0}
  BY <1>1, <1>2
<1>9. StartCode(j) # 4 /\ StartCode(j) # 3 /\ StartCode(j) \in {0, 3, 4}
  BY <1>7, <1>8, CodeAt
<1> QED BY <1>9

\* A unit ends with the data, or where the next begins.
EndsAt(e) == e = Len(bsData) + 1 \/ \E k \in {3, 4}, v \in Seq(Nat) : Bare(v) /\ Lies(k, v, e)

\* So a unit ends where the next begins.
LEMMA EndFound ==
    ASSUME bsData \in Seq(Nat), NEW c \in {3, 4}, NEW n \in Seq(Nat), Bare(n), NEW b \in Nat, Lies(c, n, b),
           NEW e \in Nat, e = b + c + Len(n),
           EndsAt(e)
    PROVE  NalEnd(b + c) = e
<1> DEFINE s == b + c
           ends == {j \in (s + 1)..(Len(bsData) - 2) : StartCode(j) > 0}
<1>1. Len(n) \in Nat \ {0} /\ b \in Nat \ {0} /\ Len(bsData) \in Nat
  <2>1. Len(bsData) \in Nat
    OBVIOUS
  <2>2. b # 0
    BY DEF Lies
  <2>3. Len(n) > 0
    BY DEF Bare
  <2> QED BY <2>1, <2>2, <2>3
<1>2. \A j \in ends : e <= j
  <2>1. SUFFICES ASSUME NEW j \in ends, j < e PROVE FALSE
    <3>1. \A j \in ends : j \in Int
      OBVIOUS
    <3>2. e \in Int
      BY <1>1
    <3> QED BY <3>1, <3>2
  <2>2. j \in Nat /\ s <= j /\ StartCode(j) > 0
    BY <1>1
  <2>3. StartCode(j) = 0
    BY <2>1, <2>2, NoCodeInside
  <2> QED BY <2>2, <2>3
<1>3. CASE e = Len(bsData) + 1
  <2>1. ends = {}
    <3>1. \A j \in ends : j \in Int /\ j < e
      BY <1>1, <1>3
    <3>2. e \in Int
      BY <1>1
    <3> HIDE DEF ends
    <3> QED BY <3>1, <3>2, <1>2
  <2> QED BY <2>1, <1>3 DEF NalEnd
<1>4. CASE \E k \in {3, 4}, v \in Seq(Nat) : Bare(v) /\ Lies(k, v, e)
  <2>1. PICK k \in {3, 4}, v \in Seq(Nat) : Bare(v) /\ Lies(k, v, e)
    BY <1>4
  <2>2. Len(v) \in Nat \ {0} /\ e + k + Len(v) <= Len(bsData) + 1
    BY <2>1 DEF Bare, Lies
  <2>3. StartCode(e) = k
    BY <2>1, CodeThere
  <2>4. e \in ends
    <3>1. PICK l \in Nat : l = Len(v) /\ l > 0
      BY <2>2
    <3>2. PICK g \in Nat : g = Len(bsData)
      BY <1>1
    <3>3. PICK m \in Nat : m = Len(n) /\ m > 0
      BY <1>1
    <3>4. e + k + l <= g + 1 /\ e = b + c + m
      BY <2>2, <3>1, <3>2, <3>3
    <3>5. e \in (b + c + 1)..(g - 2)
      <4>1. e >= b + c + 1
        BY <3>3, <3>4
      <4>2. e + 3 <= g + 1 - l
        BY <3>1, <3>4
      <4>3. e \in Nat /\ e + 2 <= g
        BY <1>1, <3>1, <4>2
      <4> QED BY <4>1, <4>3
    <3>6. e \in (s + 1)..(Len(bsData) - 2)
      BY <3>2, <3>5
    <3> QED BY <2>1, <2>3, <3>6
  <2>5. (CHOOSE j \in ends : \A i \in ends : j <= i) = e
    <3>1. \A j \in ends : j \in Int
      OBVIOUS
    <3> HIDE DEF ends
    <3>2. \E j \in ends : \A i \in ends : j <= i
      BY <1>2, <2>4
    <3> DEFINE l == CHOOSE j \in ends : \A i \in ends : j <= i
    <3>3. l \in ends /\ \A i \in ends : l <= i
      BY <3>2
    <3> HIDE DEF l
    <3>4. l <= e /\ e <= l /\ l \in Int /\ e \in Int
      BY <1>2, <2>4, <3>1, <3>3
    <3>5. l = e
      BY <3>4
    <3> QED BY <3>5 DEF l
  <2>6. ends # {}
    BY <2>4
  <2> QED BY <2>5, <2>6 DEF NalEnd
<1> QED BY <1>3, <1>4 DEF EndsAt

\* A unit as it is sent, byte by byte.
LEMMA WholeIs ==
    ASSUME NEW c \in {3, 4}, NEW n \in Seq(Nat)
    PROVE  /\ Code(c) \o n \in Seq(Nat) /\ Len(Code(c) \o n) = c + Len(n)
           /\ \A x \in 1..(c - 1) : (Code(c) \o n)[x] = 0
           /\ (Code(c) \o n)[c] = 1
           /\ \A x \in 1..Len(n) : (Code(c) \o n)[c + x] = n[x]
<1>1. CASE c = 3
  <2>1. PICK k \in Seq(Nat) : k = <<0, 0, 1>> /\ Len(k) = 3 /\ k[1] = 0 /\ k[2] = 0 /\ k[3] = 1
    <3>1. <<0, 0, 1>> \in Seq(Nat) /\ Len(<<0, 0, 1>>) = 3
      OBVIOUS
    <3>2. <<0, 0, 1>>[1] = 0 /\ <<0, 0, 1>>[2] = 0 /\ <<0, 0, 1>>[3] = 1
      OBVIOUS
    <3> QED BY <3>1, <3>2
  <2>2. Len(k) = 3 /\ k[1] = 0 /\ k[2] = 0 /\ k[3] = 1
    BY <2>1, Zenon
  <2> DEFINE w == k \o n
  <2>3. w \in Seq(Nat) /\ Len(w) = 3 + Len(n) /\ w[1] = 0 /\ w[2] = 0 /\ w[3] = 1 /\ \A x \in 1..Len(n) : w[3 + x] = n[x]
    <3>1. /\ w \in Seq(Nat) /\ Len(w) = Len(k) + Len(n)
          /\ \A x \in 1..Len(k) : w[x] = k[x]
          /\ \A x \in 1..Len(n) : w[Len(k) + x] = n[x]
      BY JoinIs
    <3> HIDE DEF w
    <3>2. w[1] = 0 /\ w[2] = 0 /\ w[3] = 1
      <4>1. \A x \in 1..3 : w[x] = k[x]
        BY <2>2, <3>1
      <4> QED BY <2>2, <4>1
    <3> QED BY <2>2, <3>1, <3>2
  <2> HIDE DEF w
  <2>4. \A x \in 1..(3 - 1) : w[x] = 0
    BY <2>3
  <2>5. w = Code(c) \o n
    BY <1>1, <2>1 DEF w, Code
  <2> QED BY <1>1, <2>3, <2>4, <2>5
<1>2. CASE c = 4
  <2>1. PICK k \in Seq(Nat) : k = <<0, 0, 0, 1>> /\ Len(k) = 4 /\ k[1] = 0 /\ k[2] = 0 /\ k[3] = 0 /\ k[4] = 1
    <3>1. <<0, 0, 0, 1>> \in Seq(Nat) /\ Len(<<0, 0, 0, 1>>) = 4
      OBVIOUS
    <3>2. <<0, 0, 0, 1>>[1] = 0 /\ <<0, 0, 0, 1>>[2] = 0 /\ <<0, 0, 0, 1>>[3] = 0 /\ <<0, 0, 0, 1>>[4] = 1
      OBVIOUS
    <3> QED BY <3>1, <3>2
  <2>2. Len(k) = 4 /\ k[1] = 0 /\ k[2] = 0 /\ k[3] = 0 /\ k[4] = 1
    BY <2>1, Zenon
  <2> DEFINE w == k \o n
  <2>3. /\ w \in Seq(Nat) /\ Len(w) = 4 + Len(n) /\ w[1] = 0 /\ w[2] = 0 /\ w[3] = 0 /\ w[4] = 1
        /\ \A x \in 1..Len(n) : w[4 + x] = n[x]
    <3>1. /\ w \in Seq(Nat) /\ Len(w) = Len(k) + Len(n)
          /\ \A x \in 1..Len(k) : w[x] = k[x]
          /\ \A x \in 1..Len(n) : w[Len(k) + x] = n[x]
      BY JoinIs
    <3> HIDE DEF w
    <3>2. w[1] = 0 /\ w[2] = 0 /\ w[3] = 0 /\ w[4] = 1
      <4>1. \A x \in 1..4 : w[x] = k[x]
        BY <2>2, <3>1
      <4> QED BY <2>2, <4>1
    <3> QED BY <2>2, <3>1, <3>2
  <2> HIDE DEF w
  <2>4. \A x \in 1..(4 - 1) : w[x] = 0
    BY <2>3
  <2>5. w = Code(c) \o n
    BY <1>2, <2>1 DEF w, Code
  <2> QED BY <1>2, <2>3, <2>4, <2>5
<1> QED BY <1>1, <1>2

\* Cutting out the places of a sequence gives that sequence.
LEMMA CutIs ==
    ASSUME NEW e \in Seq(Nat), NEW q \in Seq(Nat), NEW a \in Nat \ {0}, NEW z \in Nat,
           z + 1 = a + Len(q), z <= Len(e), \A x \in 1..Len(q) : e[a + x - 1] = q[x]
    PROVE  SubSeq(e, a, z) = q
<1> DEFINE r == SubSeq(e, a, z)
<1>0. PICK m \in Nat : m = Len(q)
  OBVIOUS
<1>1. r \in Seq(Nat) /\ Len(r) = m /\ \A x \in 1..m : r[x] = e[a + x - 1]
  BY <1>0
<1> HIDE DEF r
<1>2. r = q
  BY <1>0, <1>1, SameSequence
<1> QED BY <1>2 DEF r

\* A unit with its start code.
Coded(c, n) == Code(c) \o n

\* What is cut out of the data for a unit.
LEMMA CutFound ==
    ASSUME bsData \in Seq(Nat), NEW c \in {3, 4}, NEW n \in Seq(Nat), NEW b \in Nat, Lies(c, n, b),
           NEW z \in Nat, z + 1 = b + c + Len(n)
    PROVE  Bytes(b + c, z) = n
<1>1. PICK m \in Nat : m = Len(n)
  OBVIOUS
<1>2. PICK g \in Nat : g = Len(bsData)
  OBVIOUS
<1>3. /\ b \in Nat \ {0} /\ b + c + m <= g + 1
      /\ \A x \in 1..(c - 1) : bsData[b + x - 1] = 0
      /\ bsData[b + c - 1] = 1
      /\ \A x \in 1..m : bsData[b + c + x - 1] = n[x]
  BY <1>1, <1>2 DEF Lies
<1>4. z + 1 = b + c + m /\ z <= g
  BY <1>1, <1>3
<1>5. Bytes(b + c, z) = n
  <2>1. PICK a \in Nat \ {0} : a = b + c
    OBVIOUS
  <2>2. \A x \in 1..m : bsData[a + x - 1] = n[x]
    BY <1>3, <2>1
  <2>3. z + 1 = a + m
    BY <1>4, <2>1
  <2>4. SubSeq(bsData, a, z) = n
    BY <1>1, <1>2, <1>4, <2>2, <2>3, CutIs
  <2> QED BY <2>1, <2>4 DEF Bytes
<1> QED BY <1>5

\* What is cut out where a unit lies is the unit with its code.
LEMMA WholeFound ==
    ASSUME bsData \in Seq(Nat), NEW c \in {3, 4}, NEW n \in Seq(Nat), NEW b \in Nat, Lies(c, n, b),
           NEW z \in Nat, z + 1 = b + c + Len(n)
    PROVE  Bytes(b, z) = Coded(c, n)
<1>1. PICK m \in Nat : m = Len(n)
  OBVIOUS
<1>2. PICK g \in Nat : g = Len(bsData)
  OBVIOUS
<1>3. /\ b \in Nat \ {0} /\ b + c + m <= g + 1
      /\ \A x \in 1..(c - 1) : bsData[b + x - 1] = 0
      /\ bsData[b + c - 1] = 1
      /\ \A x \in 1..m : bsData[b + c + x - 1] = n[x]
  BY <1>1, <1>2 DEF Lies
<1>4. z + 1 = b + c + m /\ z <= g
  BY <1>1, <1>3
<1>6. PICK w \in Seq(Nat) : w = Code(c) \o n
  BY WholeIs
<1>7. /\ Len(w) = c + m
      /\ \A x \in 1..(c - 1) : w[x] = 0
      /\ w[c] = 1
      /\ \A x \in 1..m : w[c + x] = n[x]
  <2>1. /\ Len(Code(c) \o n) = c + Len(n)
        /\ \A x \in 1..(c - 1) : (Code(c) \o n)[x] = 0
        /\ (Code(c) \o n)[c] = 1
        /\ \A x \in 1..Len(n) : (Code(c) \o n)[c + x] = n[x]
    BY WholeIs
  <2> QED BY <1>1, <1>6, <2>1, Zenon
<1>8. ASSUME NEW x \in 1..(c + m) PROVE bsData[b + x - 1] = w[x]
  <2>1. CASE x < c
    <3>1. x \in 1..(c - 1)
      BY <2>1
    <3> QED BY <3>1, <1>3, <1>7
  <2>2. CASE x = c
    BY <2>2, <1>3, <1>7
  <2>3. CASE x > c
    <3>1. PICK y \in 1..m : x = c + y
      <4>1. x - c \in 1..m /\ x = c + (x - c)
        BY <2>3
      <4> QED BY <4>1
    <3>2. b + x - 1 = b + c + y - 1
      BY <3>1
    <3>3. bsData[b + c + y - 1] = n[y] /\ w[c + y] = n[y]
      BY <1>3, <1>7
    <3> QED BY <3>1, <3>2, <3>3
  <2> QED BY <2>1, <2>2, <2>3
<1>9. SubSeq(bsData, b, z) = w
  <2>1. b \in Nat \ {0} /\ z + 1 = b + Len(w) /\ z <= Len(bsData)
    BY <1>2, <1>3, <1>4, <1>7
  <2>2. \A x \in 1..Len(w) : bsData[b + x - 1] = w[x]
    BY <1>7, <1>8
  <2> QED BY <2>1, <2>2, CutIs
<1> QED BY <1>6, <1>9 DEF Bytes, Coded

\* Where what comes after the first k units begins.
Behind(us, all, k) == Len(Grown(Pieces(us, all))[k]) + 1

\* The data is the frame us, all of it or without what is spare.
Holds(us, all) == us \in Seq(Units) /\ all \in BOOLEAN /\ bsData = FlattenSeq(Pieces(us, all))

\* What stays of a unit is all of it, or nothing if it is spare.
LEMMA PieceIs ==
    ASSUME BsAssumption, NEW u \in Units, NEW all \in BOOLEAN
    PROVE  /\ Piece(u, all) \in Seq(Nat) /\ u.sc \in {3, 4} /\ u.nal \in Seq(Nat) /\ Bare(u.nal)
           /\ Whole(u) = Code(u.sc) \o u.nal
           /\ Len(Whole(u)) = u.sc + Len(u.nal) /\ Whole(u) \in Seq(Nat) /\ Whole(u) # <<>>
           /\ Piece(u, all) # <<>> => Piece(u, all) = Whole(u)
           /\ all => Piece(u, all) = Whole(u)
           /\ Piece(u, FALSE) = IF Spare(u) THEN <<>> ELSE Whole(u)
<1>1. u.sc \in {3, 4} /\ u.nal \in Seq(Nat) /\ Bare(u.nal) /\ Whole(u) = Code(u.sc) \o u.nal
  BY UnitIs DEF Bare, Whole
<1>2. /\ Whole(u) \in Seq(Nat) /\ Len(Whole(u)) = u.sc + Len(u.nal)
  <2>1. PICK c \in {3, 4} : c = u.sc
    BY <1>1
  <2>2. PICK n \in Seq(Nat) : n = u.nal
    BY <1>1
  <2>3. Code(c) \o n \in Seq(Nat) /\ Len(Code(c) \o n) = c + Len(n)
    BY WholeIs
  <2> QED BY <1>1, <2>1, <2>2, <2>3
<1>3. Whole(u) # <<>>
  <2>1. PICK c \in {3, 4} : c = u.sc
    BY <1>1
  <2>2. PICK m \in Nat : m = Len(u.nal)
    BY <1>1
  <2>3. Len(Whole(u)) = c + m /\ c + m # 0
    BY <1>2, <2>1, <2>2
  <2>4. Len(<<>>) = 0
    OBVIOUS
  <2> QED BY <2>3, <2>4, Zenon
<1>4. <<>> \in Seq(Nat)
  OBVIOUS
<1>5. CASE all
  <2>1. Piece(u, all) = Whole(u)
    BY <1>5, Zenon DEF Piece
  <2> QED BY <1>1, <1>2, <1>3, <1>5, <2>1, Zenon DEF Piece
<1>6. CASE ~all
  <2>1. Piece(u, all) = IF Spare(u) THEN <<>> ELSE Whole(u)
    BY <1>6, Zenon DEF Piece
  <2>2. Piece(u, FALSE) = IF Spare(u) THEN <<>> ELSE Whole(u)
    BY Zenon DEF Piece
  <2> QED BY <1>1, <1>2, <1>3, <1>4, <1>6, <2>1, <2>2, Zenon
<1> QED BY <1>5, <1>6

\* What stays of the units, one by one.
LEMMA PiecesAre ==
    ASSUME BsAssumption, NEW us \in Seq(Units), NEW all \in BOOLEAN
    PROVE  /\ Pieces(us, all) \in Seq(Seq(Nat)) /\ Len(Pieces(us, all)) = Len(us)
           /\ \A i \in 1..Len(us) : us[i] \in Units /\ Pieces(us, all)[i] = Piece(us[i], all)
<1>1. \A i \in 1..Len(us) : us[i] \in Units
  OBVIOUS
<1>2. \A i \in 1..Len(us) : Piece(us[i], all) \in Seq(Nat)
  BY <1>1, PieceIs
<1>3. DOMAIN us = 1..Len(us)
  OBVIOUS
<1>4. Pieces(us, all) = [i \in 1..Len(us) |-> Piece(us[i], all)]
  BY <1>3 DEF Pieces
<1> DEFINE p == [i \in 1..Len(us) |-> Piece(us[i], all)]
<1>5. p \in Seq(Seq(Nat)) /\ Len(p) = Len(us) /\ \A i \in 1..Len(us) : p[i] = Piece(us[i], all)
  BY <1>2
<1> QED BY <1>1, <1>4, <1>5

\* A unit that is in the data lies where those before it end.
LEMMA PieceLies ==
    ASSUME BsAssumption, NEW us, NEW all, Holds(us, all), NEW i \in 1..Len(us),
           Pieces(us, all)[i] # <<>>
    PROVE  /\ bsData \in Seq(Nat) /\ us[i].sc \in {3, 4} /\ us[i].nal \in Seq(Nat) /\ Bare(us[i].nal)
           /\ Behind(us, all, i - 1) \in Nat /\ Behind(us, all, i) \in Nat
           /\ Behind(us, all, i) = Behind(us, all, i - 1) + us[i].sc + Len(us[i].nal)
           /\ Behind(us, all, i) <= Len(bsData) + 1
           /\ Lies(us[i].sc, us[i].nal, Behind(us, all, i - 1))
<1> DEFINE p == Pieces(us, all)
<1>1. us \in Seq(Units) /\ all \in BOOLEAN /\ bsData = FlattenSeq(p)
  BY DEF Holds
<1>2. p \in Seq(Seq(Nat)) /\ Len(p) = Len(us) /\ us[i] \in Units /\ p[i] = Piece(us[i], all)
  BY <1>1, PiecesAre
<1>3. PICK u \in Units : u = us[i]
  BY <1>2
<1>4. /\ u.sc \in {3, 4} /\ u.nal \in Seq(Nat) /\ Bare(u.nal) /\ p[i] = Code(u.sc) \o u.nal
      /\ Len(p[i]) = u.sc + Len(u.nal)
  BY <1>1, <1>2, <1>3, PieceIs
<1>5. PICK a \in Nat : a = Len(Grown(p)[i - 1])
  BY <1>2, GrownAt
<1>6. PICK c \in {3, 4} : c = u.sc
  BY <1>4
<1>7. PICK n \in Seq(Nat) : n = u.nal
  BY <1>4
<1>8. /\ bsData \in Seq(Nat) /\ Len(Grown(p)[i]) = a + Len(p[i]) /\ Len(Grown(p)[i]) <= Len(bsData)
      /\ \A x \in 1..Len(p[i]) : bsData[a + x] = p[i][x]
  <2>1. /\ FlattenSeq(p) \in Seq(Nat) /\ Len(Grown(p)[i]) = Len(Grown(p)[i - 1]) + Len(p[i])
        /\ Len(Grown(p)[i]) <= Len(FlattenSeq(p))
        /\ \A x \in 1..Len(p[i]) : FlattenSeq(p)[Len(Grown(p)[i - 1]) + x] = p[i][x]
    <3> HIDE DEF p
    <3> QED BY <1>2, GrownAt
  <2> HIDE DEF p
  <2> QED BY <1>1, <1>5, <2>1, Zenon
<1>9. PICK q \in Seq(Nat) : q = Code(c) \o n /\ q = p[i]
  BY <1>4, <1>6, <1>7, WholeIs
<1> HIDE DEF p
<1>10. /\ Len(q) = c + Len(n)
       /\ \A x \in 1..(c - 1) : q[x] = 0
       /\ q[c] = 1
       /\ \A x \in 1..Len(n) : q[c + x] = n[x]
  <2>1. /\ Len(Code(c) \o n) = c + Len(n)
        /\ \A x \in 1..(c - 1) : (Code(c) \o n)[x] = 0
        /\ (Code(c) \o n)[c] = 1
        /\ \A x \in 1..Len(n) : (Code(c) \o n)[c + x] = n[x]
    BY WholeIs
  <2> QED BY <1>9, <2>1, Zenon
<1>11. PICK m \in Nat : m = Len(n)
  OBVIOUS
<1>12. PICK g \in Nat : g = Len(bsData)
  BY <1>8, LenIsNat, Zenon
<1>13. a + c + m <= g
  BY <1>8, <1>9, <1>10, <1>11, <1>12
<1>14. ASSUME NEW x \in 1..(c + m), NEW y \in Nat, y = a + 1 + x - 1 PROVE bsData[y] = q[x]
  <2>1. y = a + x
    BY <1>14
  <2> QED BY <2>1, <1>8, <1>9, <1>10, <1>11
<1>15. \A x \in 1..(c - 1) : bsData[a + 1 + x - 1] = 0
  <2>1. ASSUME NEW x \in 1..(c - 1) PROVE bsData[a + 1 + x - 1] = 0
    <3>1. x \in 1..(c + m)
      OBVIOUS
    <3>2. PICK y \in Nat : y = a + 1 + x - 1
      OBVIOUS
    <3>3. bsData[y] = q[x]
      BY <3>1, <3>2, <1>14
    <3>4. q[x] = 0
      BY <1>10
    <3> QED BY <3>2, <3>3, <3>4
  <2> QED BY <2>1
<1>16. bsData[a + 1 + c - 1] = 1
  <2>1. c \in 1..(c + m) /\ a + 1 + c - 1 \in Nat
    OBVIOUS
  <2> QED BY <2>1, <1>14, <1>10
<1>17. \A x \in 1..m : bsData[a + 1 + c + x - 1] = n[x]
  <2>1. ASSUME NEW x \in 1..m PROVE bsData[a + 1 + c + x - 1] = n[x]
    <3>1. c + x \in 1..(c + m) /\ a + 1 + (c + x) - 1 \in Nat /\ a + 1 + (c + x) - 1 = a + 1 + c + x - 1
      OBVIOUS
    <3>2. bsData[a + 1 + (c + x) - 1] = q[c + x]
      BY <3>1, <1>14
    <3> QED BY <3>1, <3>2, <1>10, <1>11
  <2> QED BY <2>1
<1>18. Lies(c, n, a + 1)
  <2>1. a + 1 \in Nat \ {0} /\ a + 1 + c + Len(n) <= Len(bsData) + 1
    BY <1>11, <1>12, <1>13
  <2> QED BY <2>1, <1>15, <1>16, <1>17, <1>11 DEF Lies
<1>19. Behind(us, all, i - 1) = a + 1 /\ Behind(us, all, i) = a + c + m + 1
  <2>1. Behind(us, all, i - 1) = Len(Grown(p)[i - 1]) + 1 /\ Behind(us, all, i) = Len(Grown(p)[i]) + 1
    BY DEF Behind, p
  <2>2. Len(p[i]) = c + m
    BY <1>9, <1>10, <1>11
  <2>3. Len(Grown(p)[i]) = a + (c + m) /\ a + (c + m) + 1 = a + c + m + 1
    BY <1>8, <2>2
  <2> QED BY <1>5, <2>1, <2>3
<1>20. a + 1 \in Nat /\ a + c + m + 1 \in Nat /\ a + c + m + 1 = a + 1 + c + m /\ a + c + m + 1 <= g + 1
  BY <1>13
<1> QED BY <1>3, <1>4, <1>6, <1>7, <1>8, <1>11, <1>12, <1>18, <1>19, <1>20

\* What begins after the first k units: the next unit that is in the data.
LEMMA NextLies ==
    ASSUME BsAssumption, NEW us, NEW all, Holds(us, all), NEW k \in 0..Len(us),
           Behind(us, all, k) <= Len(bsData)
    PROVE  \E j \in (k + 1)..Len(us) :
              /\ Pieces(us, all)[j] # <<>> /\ (\A x \in (k + 1)..(j - 1) : Pieces(us, all)[x] = <<>>)
              /\ Behind(us, all, j - 1) = Behind(us, all, k)
<1> DEFINE p == Pieces(us, all)
<1>1. us \in Seq(Units) /\ all \in BOOLEAN /\ bsData = FlattenSeq(p)
  BY DEF Holds
<1>2. p \in Seq(Seq(Nat)) /\ Len(p) = Len(us)
  BY <1>1, PiecesAre
<1>3. Grown(p)[Len(p)] = bsData /\ Grown(p)[k] \in Seq(Nat) /\ Grown(p)[Len(p)] \in Seq(Nat)
  <2>1. k \in 0..Len(p) /\ Len(p) \in 0..Len(p)
    BY <1>2
  <2> QED BY <2>1, <1>1, <1>2, GrownIs
<1>4. Len(Grown(p)[k]) < Len(Grown(p)[Len(p)])
  <2>1. Len(Grown(p)[k]) \in Nat /\ Len(bsData) \in Nat
    BY <1>3, LenIsNat
  <2>2. Len(Grown(p)[k]) + 1 <= Len(bsData)
    BY DEF Behind
  <2>3. Len(Grown(p)[k]) < Len(bsData)
    BY <2>1, <2>2
  <2> QED BY <2>3, <1>3
<1> HIDE DEF p
<1>5. PICK j \in (k + 1)..Len(p) : p[j] # <<>> /\ \A x \in (k + 1)..(j - 1) : p[x] = <<>>
  BY <1>2, <1>4, GrownNext
<1>6. Grown(p)[j - 1] = Grown(p)[k]
  <2>1. k \in 0..Len(p) /\ j - 1 \in 0..Len(p) /\ k <= j - 1
    BY <1>2
  <2> QED BY <2>1, <1>2, <1>5, GrownStays
<1>7. Behind(us, all, j - 1) = Behind(us, all, k)
  BY <1>6 DEF Behind, p
<1> QED BY <1>2, <1>5, <1>7 DEF p

\* So the end that is looked for is the end of the unit.
LEMMA PieceEnds ==
    ASSUME BsAssumption, NEW us, NEW all, Holds(us, all), NEW i \in 1..Len(us),
           Pieces(us, all)[i] # <<>>
    PROVE  NalEnd(Behind(us, all, i - 1) + us[i].sc) = Behind(us, all, i)
<1>1. PICK e \in Nat : e = Behind(us, all, i)
  BY PieceLies
<1>2. PICK b \in Nat : b = Behind(us, all, i - 1)
  BY PieceLies
<1>3. PICK c \in {3, 4} : c = us[i].sc
  BY PieceLies
<1>4. PICK n \in Seq(Nat) : n = us[i].nal
  BY PieceLies
<1>5. bsData \in Seq(Nat) /\ Bare(n) /\ Lies(c, n, b) /\ e = b + c + Len(n) /\ e <= Len(bsData) + 1
  BY <1>1, <1>2, <1>3, <1>4, PieceLies
<1>6. e = Len(bsData) + 1 \/ \E k \in {3, 4}, v \in Seq(Nat) : Bare(v) /\ Lies(k, v, e)
  <2>1. CASE e = Len(bsData) + 1
    BY <2>1
  <2>2. CASE e # Len(bsData) + 1
    <3>1. e <= Len(bsData)
      BY <2>2, <1>5
    <3>2. i \in 0..Len(us) /\ Len(us) \in Nat
      BY DEF Holds
    <3>3. PICK j \in (i + 1)..Len(us) : Pieces(us, all)[j] # <<>> /\ Behind(us, all, j - 1) = Behind(us, all, i)
      BY <3>1, <3>2, <1>1, NextLies
    <3>4. j \in 1..Len(us)
      BY <3>2
    <3>5. us[j].sc \in {3, 4} /\ us[j].nal \in Seq(Nat) /\ Bare(us[j].nal) /\ Lies(us[j].sc, us[j].nal, e)
      BY <3>3, <3>4, <1>1, PieceLies
    <3> QED BY <3>5
  <2> QED BY <2>1, <2>2
<1>7. NalEnd(b + c) = e
  <2>1. bsData \in Seq(Nat)
    BY <1>5
  <2>2. Bare(n)
    BY <1>5
  <2>3. Lies(c, n, b)
    BY <1>5
  <2>4. e = b + c + Len(n)
    BY <1>5
  <2>5. EndsAt(e)
    BY <1>6 DEF EndsAt
  <2> QED BY <2>1, <2>2, <2>3, <2>4, <2>5, EndFound
<1> QED BY <1>1, <1>2, <1>3, <1>7

\* All that a scanner sees of a unit.
LEMMA UnitSeen ==
    ASSUME BsAssumption, NEW us, NEW all, Holds(us, all), NEW i \in 1..Len(us),
           Pieces(us, all)[i] # <<>>
    PROVE  LET b == Behind(us, all, i - 1)  s == b + us[i].sc  e == Behind(us, all, i) IN
           /\ StartCode(b) = us[i].sc /\ us[i].sc \in {3, 4} /\ b \in Nat \ {0} /\ e \in Nat
           /\ s < e /\ e <= Len(bsData) + 1 /\ b + 3 <= Len(bsData)
           /\ bsData[s] = us[i].nal[1]
           /\ NalEnd(s) = e /\ Bytes(b, e - 1) = Whole(us[i]) /\ Bytes(s, e - 1) = us[i].nal
           /\ \A j \in s..(e - 1) : StartCode(j) = 0
<1>1. PICK e \in Nat : e = Behind(us, all, i)
  BY PieceLies
<1>2. PICK b \in Nat : b = Behind(us, all, i - 1)
  BY PieceLies
<1>3. PICK c \in {3, 4} : c = us[i].sc
  BY PieceLies
<1>4. PICK n \in Seq(Nat) : n = us[i].nal
  BY PieceLies
<1>5. bsData \in Seq(Nat) /\ Bare(n) /\ Lies(c, n, b) /\ e = b + c + Len(n) /\ e <= Len(bsData) + 1
  BY <1>1, <1>2, <1>3, <1>4, PieceLies
<1>6. PICK m \in Nat : m = Len(n) /\ m > 0
  BY <1>5 DEF Bare
<1>7. PICK g \in Nat : g = Len(bsData)
  BY <1>5
<1>8. b # 0 /\ e = b + c + m /\ e <= g + 1
  BY <1>5, <1>6, <1>7 DEF Lies
<1>9. b + c < e /\ b + 3 <= g
  BY <1>6, <1>8
<1>10. StartCode(b) = c /\ bsData[b + c] = n[1]
  BY <1>5, CodeThere
<1>11. NalEnd(b + c) = e
  BY <1>1, <1>2, <1>3, PieceEnds
<1>12. Bytes(b + c, e - 1) = n /\ Bytes(b, e - 1) = Code(c) \o n
  <2>0. e - 1 \in Nat /\ (e - 1) + 1 = e
    BY <1>6, <1>8
  <2>1. PICK z \in Nat : z = e - 1 /\ z + 1 = b + c + m
    BY <2>0, <1>8
  <2>2. Bytes(b + c, z) = n /\ Bytes(b, z) = Code(c) \o n
    <3>1. z + 1 = b + c + Len(n)
      BY <1>6, <2>1
    <3>2. bsData \in Seq(Nat) /\ Lies(c, n, b)
      BY <1>5
    <3>3. Bytes(b + c, z) = n
      BY <3>1, <3>2, CutFound
    <3>4. Bytes(b, z) = Code(c) \o n
      <4>1. Bytes(b, z) = Coded(c, n)
        BY ONLY <3>1, <3>2, WholeFound
      <4> QED BY <4>1 DEF Coded
    <3> QED BY <3>3, <3>4
  <2> QED BY <2>1, <2>2
<1>13. ASSUME NEW j \in (b + c)..(e - 1) PROVE StartCode(j) = 0
  <2>1. j \in Nat /\ b + c <= j /\ j < b + c + m
    BY <1>8
  <2> QED BY <2>1, <1>5, <1>6, NoCodeInside
<1>14. Whole(us[i]) = Code(c) \o n
  BY <1>3, <1>4 DEF Whole
<1> QED BY <1>1, <1>2, <1>3, <1>4, <1>7, <1>8, <1>9, <1>10, <1>11, <1>12, <1>13, <1>14

Outs == [bytes : Seq(Nat), sps : Seq(Nat), pps : Seq(Nat), key : BOOLEAN]

\* Among the first k units one is of a type; the last of them.
Met(us, k, type) == \E i \in 1..k : us[i].nal[1] = type
LastAmong(us, fit) == IF fit = {} THEN <<>> ELSE us[CHOOSE i \in fit : \A j \in fit : j <= i].nal
LastIn(us, k, type) == LastAmong(us, {i \in 1..k : us[i].nal[1] = type})

\* The frame as avcc_to_annex_b is given it.
Sizes(us) == [i \in DOMAIN us |-> Sized(us[i])]

\* The scanner is in unit k, behind its start code, or right behind it.
Inside(us, k, pos) ==
    /\ k \in 0..Len(us) /\ pos \in Nat /\ pos <= Behind(us, TRUE, k)
    /\ k = 0 => pos = 1
    /\ k # 0 => Behind(us, TRUE, k - 1) + us[k].sc <= pos

BsTypes ==
    /\ bsUnits \in Seq(Units) /\ bsOut \in Outs
    /\ bsMode \in {"strip", "extract", "has", "key", "avcc"}

\* How far each scanner is, and what it has found of the units before.
StripIs ==
    \E all \in BOOLEAN : \E k \in 0..Len(bsUnits) :
       /\ Holds(bsUnits, all) /\ bsPos = Behind(bsUnits, all, k)
       /\ bsOut.bytes = Grown(Pieces(bsUnits, FALSE))[k]

ExtractIs ==
    /\ Holds(bsUnits, TRUE)
    /\ \E k \in 0..Len(bsUnits) :
          /\ bsPos = Behind(bsUnits, TRUE, k)
          /\ bsOut.sps = LastIn(bsUnits, k, 7) /\ bsOut.pps = LastIn(bsUnits, k, 8)

HasIs ==
    /\ Holds(bsUnits, TRUE)
    /\ \/ \E k \in 0..Len(bsUnits) :
             /\ Inside(bsUnits, k, bsPos)
             /\ (bsOut.sps # <<>>) <=> Met(bsUnits, k, 7)
             /\ (bsOut.pps # <<>>) <=> Met(bsUnits, k, 8)
       \/ /\ bsOut.sps # <<>> /\ bsOut.pps # <<>>
          /\ Met(bsUnits, Len(bsUnits), 7) /\ Met(bsUnits, Len(bsUnits), 8)

KeyIs ==
    /\ Holds(bsUnits, TRUE)
    /\ \/ \E k \in 0..Len(bsUnits) : Inside(bsUnits, k, bsPos) /\ (bsOut.key <=> Met(bsUnits, k, 5))
       \/ bsOut.key /\ Met(bsUnits, Len(bsUnits), 5)

AvccIs ==
    /\ bsData = FlattenSeq(Sizes(bsUnits)) /\ \A i \in 1..Len(bsUnits) : bsUnits[i].sc = 4
    /\ \E k \in 0..Len(bsUnits) :
          /\ bsPos = Len(Grown(Sizes(bsUnits))[k]) + 1
          /\ bsOut.bytes = Grown(Pieces(bsUnits, FALSE))[k]

BsInv ==
    /\ BsTypes
    /\ bsMode = "strip" => StripIs
    /\ bsMode = "extract" => ExtractIs
    /\ bsMode = "has" => HasIs
    /\ bsMode = "key" => KeyIs
    /\ bsMode = "avcc" => AvccIs

\* The last unit of a type, one unit further.
LEMMA LastGoesOn ==
    ASSUME NEW us, NEW k \in Nat \ {0}, NEW type
    PROVE  LastIn(us, k, type) = IF us[k].nal[1] = type THEN us[k].nal ELSE LastIn(us, k - 1, type)
<1> DEFINE fit == {i \in 1..k : us[i].nal[1] = type}
<1>1. CASE us[k].nal[1] = type
  <2>1. k \in fit /\ fit \subseteq 1..k
    BY <1>1
  <2>2. \A i \in fit : i \in Int /\ i <= k
    OBVIOUS
  <2> HIDE DEF fit
  <2>3. (CHOOSE i \in fit : \A j \in fit : j <= i) = k
    <3> DEFINE l == CHOOSE i \in fit : \A j \in fit : j <= i
    <3>1. l \in fit /\ \A j \in fit : j <= l
      BY <2>1, <2>2
    <3> HIDE DEF l
    <3>2. l \in Int /\ l <= k /\ k <= l
      BY <2>1, <2>2, <3>1
    <3>3. l = k
      BY <3>2
    <3> QED BY <3>3 DEF l
  <2>4. fit # {}
    BY <2>1
  <2>5. LastAmong(us, fit) = us[k].nal
    BY <2>3, <2>4, Zenon DEF LastAmong
  <2> QED BY <1>1, <2>5 DEF LastIn, fit
<1>2. CASE us[k].nal[1] # type
  <2>1. fit = {i \in 1..(k - 1) : us[i].nal[1] = type}
    <3>1. \A i \in fit : i # k
      BY <1>2
    <3>2. \A i \in 1..k : i # k => i \in 1..(k - 1)
      OBVIOUS
    <3>3. \A i \in 1..(k - 1) : i \in 1..k
      OBVIOUS
    <3> QED BY <3>1, <3>2, <3>3
  <2>2. LastIn(us, k, type) = LastIn(us, k - 1, type)
    BY <2>1, Zenon DEF LastIn
  <2> QED BY <1>2, <2>2
<1> QED BY <1>1, <1>2

\* A type is met up to a unit if that unit has it or an earlier one.
LEMMA SeenGoesOn ==
    ASSUME NEW us, NEW k \in Nat \ {0}, NEW type
    PROVE  Met(us, k, type) <=> (us[k].nal[1] = type \/ Met(us, k - 1, type))
<1>1. 1..k = (1..(k - 1)) \cup {k}
  OBVIOUS
<1> QED BY <1>1 DEF Met

\* Where the data ends, all units are behind; none begins elsewhere.
LEMMA AllBehind ==
    ASSUME BsAssumption, NEW us, NEW all, Holds(us, all), NEW k \in 0..Len(us), Behind(us, all, k) > Len(bsData)
    PROVE  \A x \in (k + 1)..Len(us) : Pieces(us, all)[x] = <<>>
<1> DEFINE p == Pieces(us, all)
<1>1. us \in Seq(Units) /\ all \in BOOLEAN /\ bsData = FlattenSeq(p)
  BY DEF Holds
<1>2. p \in Seq(Seq(Nat)) /\ Len(p) = Len(us)
  BY <1>1, PiecesAre
<1>3. k \in 0..Len(p) /\ Len(p) \in 0..Len(p) /\ k <= Len(p)
  BY <1>2
<1>4. Grown(p)[k] \in Seq(Nat) /\ Grown(p)[Len(p)] \in Seq(Nat) /\ Grown(p)[Len(p)] = bsData
  BY <1>1, <1>2, <1>3, GrownIs
<1>5. Len(Grown(p)[Len(p)]) <= Len(Grown(p)[k])
  <2>1. PICK a \in Nat : a = Len(Grown(p)[k])
    BY <1>4, LenIsNat
  <2>2. PICK g \in Nat : g = Len(bsData)
    BY <1>4, LenIsNat
  <2>3. a + 1 > g
    BY <2>1, <2>2 DEF Behind
  <2>4. g <= a
    BY <2>3
  <2> QED BY <2>1, <2>2, <2>4, <1>4
<1> HIDE DEF p
<1>6. \A x \in (k + 1)..Len(p) : p[x] = <<>>
  BY <1>2, <1>3, <1>5, GrownNot
<1> QED BY <1>2, <1>6 DEF p

\* What is left out of all is left out of the rest.
LEMMA RestSkips ==
    ASSUME BsAssumption, NEW us \in Seq(Units), NEW all \in BOOLEAN, NEW k \in 0..Len(us), NEW j \in 0..Len(us),
           k <= j, \A x \in (k + 1)..j : Pieces(us, all)[x] = <<>>
    PROVE  Grown(Pieces(us, FALSE))[j] = Grown(Pieces(us, FALSE))[k]
<1> DEFINE r == Pieces(us, FALSE)
<1>1. r \in Seq(Seq(Nat)) /\ Len(r) = Len(us)
  BY PiecesAre
<1>2. ASSUME NEW x \in (k + 1)..j PROVE r[x] = <<>>
  <2>1. x \in 1..Len(us)
    OBVIOUS
  <2>2. us[x] \in Units /\ Pieces(us, all)[x] = Piece(us[x], all) /\ r[x] = Piece(us[x], FALSE)
    BY <2>1, PiecesAre
  <2>3. Piece(us[x], all) = <<>>
    BY <2>2
  <2>4. Whole(us[x]) # <<>>
    BY <2>2, PieceIs
  <2>5. Spare(us[x])
    BY <2>3, <2>4, Zenon DEF Piece
  <2> QED BY <2>2, <2>5 DEF Piece
<1>3. k \in 0..Len(r) /\ j \in 0..Len(r)
  BY <1>1
<1> HIDE DEF r
<1>4. Grown(r)[j] = Grown(r)[k]
  BY <1>1, <1>2, <1>3, GrownStays
<1> QED BY <1>4 DEF r

\* What stays of the units grows by each that is not spare.
LEMMA RestGoesOn ==
    ASSUME BsAssumption, NEW us \in Seq(Units), NEW j \in 1..Len(us)
    PROVE  /\ Grown(Pieces(us, FALSE))[j] = IF Spare(us[j]) THEN Grown(Pieces(us, FALSE))[j - 1]
                                            ELSE Grown(Pieces(us, FALSE))[j - 1] \o Whole(us[j])
           /\ Grown(Pieces(us, FALSE))[j] \in Seq(Nat)
<1> DEFINE r == Pieces(us, FALSE)
<1>1. r \in Seq(Seq(Nat)) /\ Len(r) = Len(us) /\ us[j] \in Units /\ r[j] = Piece(us[j], FALSE)
  BY PiecesAre
<1>2. Grown(r)[j] = Grown(r)[j - 1] \o r[j] /\ Grown(r)[j] \in Seq(Nat) /\ Grown(r)[j - 1] \in Seq(Nat)
  BY <1>1, GrownStep
<1>3. Piece(us[j], FALSE) = IF Spare(us[j]) THEN <<>> ELSE Whole(us[j])
  BY DEF Piece
<1>4. Grown(r)[j - 1] \o <<>> = Grown(r)[j - 1]
  BY <1>2
<1> HIDE DEF r
<1>5. Grown(r)[j] = IF Spare(us[j]) THEN Grown(r)[j - 1] ELSE Grown(r)[j - 1] \o Whole(us[j])
  BY <1>1, <1>2, <1>3, <1>4
<1> QED BY <1>2, <1>5 DEF r

\* The stream stays while its units and bytes do.
LEMMA HoldsOn ==
    ASSUME UNCHANGED <<bsUnits, bsData>>, NEW all, Holds(bsUnits, all)
    PROVE  Holds(bsUnits, all)' /\ bsUnits' = bsUnits
BY DEF Holds

\* A step of the scanner that strips, in every case, keeps the invariant.
LEMMA StripGoes ==
    ASSUME BsAssumption, BsInv, StripStep
    PROVE  BsInv'
<1>1. bsMode = "strip" /\ bsPos <= Len(bsData)
  BY DEF StripStep
<1>2. BsTypes /\ StripIs
  BY <1>1 DEF BsInv
<1>3. PICK all \in BOOLEAN : \E k \in 0..Len(bsUnits) :
         /\ Holds(bsUnits, all) /\ bsPos = Behind(bsUnits, all, k)
         /\ bsOut.bytes = Grown(Pieces(bsUnits, FALSE))[k]
  BY <1>2 DEF StripIs
<1>4. PICK k \in 0..Len(bsUnits) :
         /\ Holds(bsUnits, all) /\ bsPos = Behind(bsUnits, all, k)
         /\ bsOut.bytes = Grown(Pieces(bsUnits, FALSE))[k]
  BY <1>3
<1>5. Holds(bsUnits, all)
  BY <1>4
<1>6. bsUnits \in Seq(Units)
  BY <1>2 DEF BsTypes
<1>7. Behind(bsUnits, all, k) <= Len(bsData)
  BY <1>1, <1>4
<1>8. PICK j \in (k + 1)..Len(bsUnits) :
         /\ Pieces(bsUnits, all)[j] # <<>> /\ (\A x \in (k + 1)..(j - 1) : Pieces(bsUnits, all)[x] = <<>>)
         /\ Behind(bsUnits, all, j - 1) = Behind(bsUnits, all, k)
  BY <1>5, <1>7, NextLies
<1>9. j \in 1..Len(bsUnits) /\ j \in 0..Len(bsUnits) /\ j - 1 \in 0..Len(bsUnits) /\ k <= j - 1 /\ (j - 1) + 1 = j
  BY <1>6
<1>10. Pieces(bsUnits, all)[j] # <<>>
  BY <1>8
<1> DEFINE s == bsPos + bsUnits[j].sc
           e == Behind(bsUnits, all, j)
           r == Grown(Pieces(bsUnits, FALSE))
<1>11. /\ StartCode(bsPos) = bsUnits[j].sc /\ bsUnits[j].sc \in {3, 4} /\ bsPos \in Nat \ {0} /\ e \in Nat
       /\ s < e /\ e <= Len(bsData) + 1
       /\ bsData[s] = bsUnits[j].nal[1]
       /\ NalEnd(s) = e /\ Bytes(bsPos, e - 1) = Whole(bsUnits[j])
  <2>1. bsPos = Behind(bsUnits, all, j - 1)
    BY <1>4, <1>8
  <2> QED BY <1>5, <1>9, <1>10, <2>1, UnitSeen
<1>12. bsData \in Seq(Nat)
  BY <1>5, <1>9, <1>10, PieceLies
<1>13. s <= Len(bsData)
  <2>1. PICK g \in Nat : g = Len(bsData)
    BY <1>12, LenIsNat
  <2>2. PICK c \in {3, 4} : c = bsUnits[j].sc
    BY <1>11
  <2>3. bsPos + c < e /\ e <= g + 1
    BY <1>11, <2>1, <2>2
  <2>4. bsPos \in Nat /\ e \in Nat
    BY <1>11
  <2>5. bsPos + c <= g
    BY <2>3, <2>4
  <2> QED BY <2>1, <2>2, <2>5
<1> HIDE DEF e, r
<1>14. BsStep(e, [bsOut EXCEPT !.bytes = IF Spare(bsUnits[j]) THEN @ ELSE @ \o Whole(bsUnits[j])])
  <2>1. StartCode(bsPos) # 0 /\ ~(s > Len(bsData))
    <3>1. PICK g \in Nat : g = Len(bsData)
      BY <1>12, LenIsNat
    <3>2. PICK c \in {3, 4} : c = bsUnits[j].sc
      BY <1>11
    <3>3. bsPos + c <= g /\ bsPos \in Nat
      BY <1>11, <1>13, <3>1, <3>2
    <3>4. ~(bsPos + c > g)
      BY <3>3
    <3> QED BY <1>11, <3>1, <3>2, <3>4
  <2>2. BsStep(NalEnd(s), [bsOut EXCEPT !.bytes = IF bsData[s] \in {9, 12} THEN @
                                                  ELSE @ \o Bytes(bsPos, NalEnd(s) - 1)])
    <3>1. s = bsPos + StartCode(bsPos)
      BY <1>11
    <3> HIDE DEF s
    <3> QED BY <2>1, <3>1 DEF StripStep
  <2>3. (bsData[s] \in {9, 12}) <=> Spare(bsUnits[j])
    BY <1>11 DEF Spare
  <2> HIDE DEF s
  <2> QED BY <1>11, <2>2, <2>3
<1>15. /\ bsPos' = e /\ UNCHANGED <<bsUnits, bsMode, bsData>>
       /\ bsOut' = [bsOut EXCEPT !.bytes = IF Spare(bsUnits[j]) THEN @ ELSE @ \o Whole(bsUnits[j])]
  BY <1>14 DEF BsStep
<1>16. bsOut'.bytes = r[j] /\ r[j] \in Seq(Nat)
  <2>1. r[j - 1] = r[k]
    <3>1. PICK i \in 0..Len(bsUnits) : i = j - 1 /\ k <= i
      BY <1>9
    <3>2. \A x \in (k + 1)..i : Pieces(bsUnits, all)[x] = <<>>
      BY <1>8, <3>1
    <3>3. r[i] = r[k]
      <4>1. k \in 0..Len(bsUnits) /\ bsUnits \in Seq(Units) /\ all \in BOOLEAN
        BY <1>6, <3>1
      <4>2. k <= i
        BY <3>1
      <4> QED BY <4>1, <4>2, <3>2, RestSkips DEF r
    <3> QED BY <3>1, <3>3
  <2>2. r[j] = (IF Spare(bsUnits[j]) THEN r[j - 1] ELSE r[j - 1] \o Whole(bsUnits[j])) /\ r[j] \in Seq(Nat)
    BY <1>6, <1>9, RestGoesOn DEF r
  <2>3. bsOut \in Outs /\ bsOut.bytes = r[k]
    BY <1>2, <1>4 DEF BsTypes, r
  <2>4. bsOut'.bytes = IF Spare(bsUnits[j]) THEN bsOut.bytes ELSE bsOut.bytes \o Whole(bsUnits[j])
    BY <1>15, <2>3 DEF Outs
  <2> QED BY <2>1, <2>2, <2>3, <2>4
<1>17. BsTypes'
  <2>1. bsOut \in Outs
    BY <1>2 DEF BsTypes
  <2>2. bsOut' \in Outs
    BY <1>15, <1>16, <2>1 DEF Outs
  <2> QED BY <1>2, <1>15, <2>2 DEF BsTypes
<1>18. StripIs'
  <2>1. Holds(bsUnits, all)' /\ bsUnits' = bsUnits
    BY <1>5, <1>15, HoldsOn
  <2>2. bsUnits' \in Seq(Units) /\ all \in BOOLEAN /\ bsData' = FlattenSeq(Pieces(bsUnits', all))
    BY <1>5, <1>15 DEF Holds
  <2>3. bsPos' = Behind(bsUnits', all, j)
    BY <1>15 DEF e
  <2>4. bsOut'.bytes = Grown(Pieces(bsUnits', FALSE))[j]
    BY <1>15, <1>16 DEF r
  <2>5. j \in 0..Len(bsUnits')
    BY <1>9, <2>1
  <2> QED BY <2>2, <2>3, <2>4, <2>5 DEF StripIs, Holds
<1>19. bsMode' = "strip"
  BY <1>1, <1>15
<1> QED BY <1>17, <1>18, <1>19 DEF BsInv

\* A unit of a frame that is held whole.
LEMMA AllThere ==
    ASSUME BsAssumption, NEW us, Holds(us, TRUE), NEW i \in 1..Len(us)
    PROVE  Pieces(us, TRUE)[i] # <<>>
<1>1. us \in Seq(Units) /\ TRUE \in BOOLEAN
  BY DEF Holds
<1>2. us[i] \in Units /\ Pieces(us, TRUE)[i] = Piece(us[i], TRUE)
  BY <1>1, PiecesAre
<1> QED BY <1>2, PieceIs

\* What begins where k units of a whole frame end.
LEMMA NextThere ==
    ASSUME BsAssumption, NEW us, Holds(us, TRUE), NEW k \in 0..Len(us), Behind(us, TRUE, k) <= Len(bsData)
    PROVE  k + 1 \in 1..Len(us)
<1>1. us \in Seq(Units)
  BY DEF Holds
<1>2. PICK j \in (k + 1)..Len(us) : TRUE
  BY NextLies
<1> QED BY <1>1, <1>2

\* Past the end of the bytes there is no unit left.
LEMMA NoneLeft ==
    ASSUME BsAssumption, NEW us, Holds(us, TRUE), NEW k \in 0..Len(us), Behind(us, TRUE, k) > Len(bsData)
    PROVE  k = Len(us)
<1>1. us \in Seq(Units) /\ Len(us) \in Nat
  BY DEF Holds
<1>2. SUFFICES ASSUME k # Len(us) PROVE FALSE
  OBVIOUS
<1>3. k + 1 \in (k + 1)..Len(us) /\ k + 1 \in 1..Len(us)
  BY <1>1, <1>2
<1>4. Pieces(us, TRUE)[k + 1] = <<>>
  BY <1>3, AllBehind
<1> QED BY <1>3, <1>4, AllThere

\* What is seen of unit u at b: its start code, its first byte, where it ends.
Seeing(u, b, e) ==
    /\ StartCode(b) = u.sc /\ u.sc \in {3, 4} /\ b \in Nat \ {0} /\ e \in Nat
    /\ b + u.sc < e /\ b + u.sc <= Len(bsData) /\ ~(b + u.sc > Len(bsData)) /\ b + 3 <= Len(bsData)
    /\ b + u.sc \in Nat /\ bsData[b + u.sc] = u.nal[1]
    /\ NalEnd(b + u.sc) = e /\ Bytes(b + u.sc, e - 1) = u.nal
    /\ u.nal \in Seq(Nat) /\ u.nal # <<>>

\* Before the end of the bytes there is a next unit, and it begins here.
LEMMA NextSeen ==
    ASSUME BsAssumption, NEW us, Holds(us, TRUE), NEW k \in 0..Len(us), NEW b, b = Behind(us, TRUE, k),
           b <= Len(bsData)
    PROVE  \E i \in 1..Len(us) :
              i = k + 1 /\ i \in 0..Len(us) /\ i \in Nat \ {0} /\ i - 1 = k /\ Seeing(us[i], b, Behind(us, TRUE, i))
<1>1. PICK i \in 1..Len(us) : i = k + 1
  BY NextThere
<1>2. us \in Seq(Units)
  BY DEF Holds
<1>3. i \in 0..Len(us) /\ i \in Nat \ {0} /\ i - 1 = k
  BY <1>1
<1>4. Pieces(us, TRUE)[i] # <<>>
  BY AllThere
<1>5. b = Behind(us, TRUE, i - 1)
  BY <1>3
<1> DEFINE s == b + us[i].sc  e == Behind(us, TRUE, i)
<1>6. /\ StartCode(b) = us[i].sc /\ us[i].sc \in {3, 4} /\ b \in Nat \ {0} /\ e \in Nat
      /\ s < e /\ e <= Len(bsData) + 1 /\ b + 3 <= Len(bsData)
      /\ bsData[s] = us[i].nal[1]
      /\ NalEnd(s) = e /\ Bytes(s, e - 1) = us[i].nal
  <2>1. PICK all : all = TRUE
    OBVIOUS
  <2>2. Holds(us, all)
    BY <2>1
  <2>3. Pieces(us, all)[i] # <<>>
    BY <2>1, <1>4
  <2>4. b = Behind(us, all, i - 1) /\ e = Behind(us, all, i)
    BY <2>1, <1>5
  <2>5. /\ StartCode(b) = us[i].sc /\ us[i].sc \in {3, 4} /\ b \in Nat \ {0} /\ e \in Nat
        /\ s < e /\ e <= Len(bsData) + 1 /\ b + 3 <= Len(bsData)
        /\ bsData[s] = us[i].nal[1]
        /\ NalEnd(s) = e /\ Bytes(s, e - 1) = us[i].nal
    <3> DEFINE bb == Behind(us, all, i - 1)  ss == bb + us[i].sc  ee == Behind(us, all, i)
    <3>1. /\ StartCode(bb) = us[i].sc /\ us[i].sc \in {3, 4} /\ bb \in Nat \ {0} /\ ee \in Nat
          /\ ss < ee /\ ee <= Len(bsData) + 1 /\ bb + 3 <= Len(bsData)
          /\ bsData[ss] = us[i].nal[1]
          /\ NalEnd(ss) = ee /\ Bytes(ss, ee - 1) = us[i].nal
      BY <2>2, <2>3, UnitSeen
    <3>2. bb = b /\ ee = e
      BY <2>4
    <3>3. ss = s
      BY <3>2
    <3> QED BY <3>1, <3>2, <3>3
  <2> QED BY <2>5
<1>7. bsData \in Seq(Nat) /\ us[i].nal \in Seq(Nat) /\ Bare(us[i].nal)
  BY <1>4, PieceLies
<1>8. us[i].nal # <<>>
  <2>1. Len(us[i].nal) > 0
    BY <1>7 DEF Bare
  <2>2. Len(us[i].nal) # 0
    BY <2>1
  <2> QED BY <2>2
<1>9. s <= Len(bsData) /\ ~(s > Len(bsData)) /\ s \in Nat
  <2>1. PICK g \in Nat : g = Len(bsData)
    BY <1>7, LenIsNat
  <2>2. PICK c \in {3, 4} : c = us[i].sc
    BY <1>6
  <2>3. PICK x \in Nat : x = b
    BY <1>6
  <2>4. PICK y \in Nat : y = e
    BY <1>6
  <2>5. x + c < y /\ y <= g + 1
    BY <1>6, <2>1, <2>2, <2>3, <2>4
  <2>6. x + c <= g /\ ~(x + c > g) /\ x + c \in Nat
    BY <2>5
  <2> QED BY <2>1, <2>2, <2>3, <2>6
<1>10. Seeing(us[i], b, e)
  BY <1>6, <1>7, <1>8, <1>9 DEF Seeing
<1> QED BY <1>1, <1>3, <1>10

\* The first unit begins at the first byte.
LEMMA AtStart ==
    ASSUME BsAssumption, NEW us, NEW all, Holds(us, all)
    PROVE  Behind(us, all, 0) = 1
<1>1. us \in Seq(Units) /\ all \in BOOLEAN
  BY DEF Holds
<1>2. Pieces(us, all) \in Seq(Seq(Nat))
  BY <1>1, PiecesAre
<1>3. Grown(Pieces(us, all))[0] = <<>>
  BY <1>2, GrownIs
<1>4. Len(<<>>) + 1 = 1
  OBVIOUS
<1> QED BY <1>3, <1>4, Zenon DEF Behind

\* A unit begins at some byte.
LEMMA WholeAt ==
    ASSUME BsAssumption, NEW us, Holds(us, TRUE), NEW k \in 0..Len(us)
    PROVE  Behind(us, TRUE, k) \in Nat \ {0}
<1>1. us \in Seq(Units) /\ TRUE \in BOOLEAN
  BY DEF Holds
<1>2. Pieces(us, TRUE) \in Seq(Seq(Nat)) /\ Len(Pieces(us, TRUE)) = Len(us)
  BY <1>1, PiecesAre
<1>3. Grown(Pieces(us, TRUE))[k] \in Seq(Nat)
  BY <1>2, GrownIs
<1>4. PICK l \in Nat : l = Len(Grown(Pieces(us, TRUE))[k])
  BY <1>3, LenIsNat
<1>5. l + 1 \in Nat \ {0}
  OBVIOUS
<1> QED BY <1>4, <1>5 DEF Behind

\* Inside a unit no start code is seen.
LEMMA InsideUnit ==
    ASSUME BsAssumption, NEW us, Holds(us, TRUE), NEW k, NEW pos, Inside(us, k, pos), pos # Behind(us, TRUE, k)
    PROVE  StartCode(pos) = 0 /\ Inside(us, k, pos + 1)
<1>1. /\ k \in 0..Len(us) /\ pos \in Nat /\ pos <= Behind(us, TRUE, k)
      /\ k = 0 => pos = 1
      /\ k # 0 => Behind(us, TRUE, k - 1) + us[k].sc <= pos
  BY DEF Inside
<1>2. us \in Seq(Units)
  BY DEF Holds
<1>3. k # 0
  BY <1>1, AtStart
<1>4. k \in 1..Len(us)
  BY <1>1, <1>2, <1>3
<1>5. PICK all : all = TRUE
  OBVIOUS
<1>6. Holds(us, all)
  BY <1>5
<1>7. Pieces(us, all)[k] # <<>>
  BY <1>4, <1>5, AllThere
<1> DEFINE b == Behind(us, all, k - 1)  s == b + us[k].sc  e == Behind(us, all, k)
<1>8. us[k].sc \in {3, 4} /\ b \in Nat \ {0} /\ e \in Nat /\ \A j \in s..(e - 1) : StartCode(j) = 0
  BY <1>4, <1>6, <1>7, UnitSeen
<1>9. s <= pos /\ pos <= e /\ pos # e
  BY <1>1, <1>3, <1>5
<1>10. PICK c \in Nat : c = us[k].sc
  BY <1>8
<1>11. PICK x \in Nat : x = b
  BY <1>8
<1>12. PICK y \in Nat : y = e
  BY <1>8
<1>13. PICK q \in Nat : q = pos
  BY <1>1
<1>14. x + c <= q /\ q <= y /\ q # y
  BY <1>9, <1>10, <1>11, <1>12, <1>13
<1>15. q \in (x + c)..(y - 1) /\ q + 1 \in Nat /\ q + 1 <= y /\ x + c <= q + 1
  BY <1>14
<1>16. StartCode(pos) = 0
  BY <1>8, <1>10, <1>11, <1>12, <1>13, <1>15
<1>17. /\ pos + 1 \in Nat /\ pos + 1 <= e /\ s <= pos + 1
  BY <1>10, <1>11, <1>12, <1>13, <1>15
<1>18. e = Behind(us, TRUE, k) /\ s = Behind(us, TRUE, k - 1) + us[k].sc
  BY <1>5
<1> HIDE DEF s, e
<1>19. pos + 1 \in Nat /\ pos + 1 <= Behind(us, TRUE, k) /\ Behind(us, TRUE, k - 1) + us[k].sc <= pos + 1
  BY <1>17, <1>18
<1>20. Inside(us, k, pos + 1)
  BY <1>1, <1>3, <1>19, Zenon DEF Inside
<1> QED BY <1>16, <1>20

\* Behind the next start code, and one further.
LEMMA InsideNext ==
    ASSUME BsAssumption, NEW us, Holds(us, TRUE), NEW i, i \in 0..Len(us), i \in Nat \ {0},
           NEW b, b = Behind(us, TRUE, i - 1), Seeing(us[i], b, Behind(us, TRUE, i))
    PROVE  Inside(us, i, b + us[i].sc) /\ Inside(us, i, b + us[i].sc + 1)
<1> DEFINE s == b + us[i].sc  e == Behind(us, TRUE, i)
<1>1. us[i].sc \in {3, 4} /\ b \in Nat \ {0} /\ e \in Nat /\ s < e /\ s \in Nat
  BY DEF Seeing
<1>2. Behind(us, TRUE, i - 1) + us[i].sc = s
  OBVIOUS
<1>3. PICK x \in Nat : x = s
  BY <1>1
<1>4. PICK y \in Nat : y = e
  BY <1>1
<1>5. x < y
  BY <1>1, <1>3, <1>4
<1>6. x <= y /\ x + 1 <= y /\ x <= x /\ x <= x + 1 /\ x + 1 \in Nat
  BY <1>5
<1>7. i # 0
  OBVIOUS
<1> HIDE DEF s, e
<1>8. s <= e /\ s + 1 <= e /\ s <= s /\ s <= s + 1 /\ s + 1 \in Nat
  BY <1>3, <1>4, <1>6
<1>9. Inside(us, i, s) /\ Inside(us, i, s + 1)
  BY <1>1, <1>2, <1>7, <1>8, Zenon DEF Inside, e
<1> QED BY <1>9 DEF s

\* A scanner past the end has been through all units.
LEMMA InsideEnds ==
    ASSUME BsAssumption, NEW us, Holds(us, TRUE), NEW k, NEW pos, Inside(us, k, pos), pos > Len(bsData)
    PROVE  k = Len(us)
<1>1. k \in 0..Len(us) /\ pos \in Nat /\ pos <= Behind(us, TRUE, k)
  BY DEF Inside
<1>2. Behind(us, TRUE, k) \in Nat
  BY <1>1, WholeAt
<1>3. Len(bsData) \in Nat
  <2>1. us \in Seq(Units) /\ TRUE \in BOOLEAN /\ bsData = FlattenSeq(Pieces(us, TRUE))
    BY DEF Holds
  <2>2. Pieces(us, TRUE) \in Seq(Seq(Nat)) /\ Len(Pieces(us, TRUE)) = Len(us)
    BY <2>1, PiecesAre
  <2>3. PICK p \in Seq(Seq(Nat)) : p = Pieces(us, TRUE)
    BY <2>2
  <2>4. Grown(p) \in [0..Len(p) -> Seq(Nat)] /\ FlattenSeq(p) = Grown(p)[Len(p)]
    BY GrownIs
  <2>5. Len(p) \in 0..Len(p)
    OBVIOUS
  <2>6. FlattenSeq(p) \in Seq(Nat)
    BY <2>4, <2>5
  <2> QED BY <2>1, <2>3, <2>6, LenIsNat
<1>4. Behind(us, TRUE, k) > Len(bsData)
  <2>1. PICK x \in Nat : x = Behind(us, TRUE, k)
    BY <1>2
  <2>2. PICK g \in Nat : g = Len(bsData)
    BY <1>3
  <2>3. PICK q \in Nat : q = pos
    BY <1>1
  <2>4. q <= x /\ q > g
    BY <1>1, <2>1, <2>2, <2>3
  <2>5. x > g
    BY <2>4
  <2> QED BY <2>1, <2>2, <2>5
<1> QED BY <1>1, <1>4, NoneLeft

\* A step of the scanner for parameter sets, in every case, keeps the invariant.
LEMMA ExtractGoes ==
    ASSUME BsAssumption, BsInv, ExtractStep
    PROVE  BsInv'
<1>1. bsMode = "extract" /\ bsPos <= Len(bsData)
  BY DEF ExtractStep
<1>2. BsTypes /\ ExtractIs
  BY <1>1 DEF BsInv
<1>3. Holds(bsUnits, TRUE)
  BY <1>2 DEF ExtractIs
<1>4. PICK k \in 0..Len(bsUnits) :
          /\ bsPos = Behind(bsUnits, TRUE, k)
          /\ bsOut.sps = LastIn(bsUnits, k, 7) /\ bsOut.pps = LastIn(bsUnits, k, 8)
  BY <1>2 DEF ExtractIs
<1>5. PICK i \in 1..Len(bsUnits) :
         i = k + 1 /\ i \in 0..Len(bsUnits) /\ i \in Nat \ {0} /\ i - 1 = k
         /\ Seeing(bsUnits[i], bsPos, Behind(bsUnits, TRUE, i))
  <2>1. bsPos = Behind(bsUnits, TRUE, k)
    BY <1>4
  <2>2. bsPos <= Len(bsData)
    BY <1>1
  <2> QED BY <1>3, <2>1, <2>2, NextSeen
<1> DEFINE u == bsUnits[i]  s == bsPos + u.sc  e == Behind(bsUnits, TRUE, i)
<1>6. /\ StartCode(bsPos) = u.sc /\ u.sc \in {3, 4} /\ ~(s > Len(bsData)) /\ bsData[s] = u.nal[1]
      /\ NalEnd(s) = e /\ Bytes(s, e - 1) = u.nal /\ u.nal \in Seq(Nat)
      /\ s = bsPos + StartCode(bsPos) /\ StartCode(bsPos) # 0
  <2>1. Seeing(u, bsPos, e)
    BY <1>5
  <2> HIDE DEF u, e
  <2>2. /\ StartCode(bsPos) = u.sc /\ u.sc \in {3, 4} /\ ~(s > Len(bsData)) /\ bsData[s] = u.nal[1]
        /\ NalEnd(s) = e /\ Bytes(s, e - 1) = u.nal /\ u.nal \in Seq(Nat)
    BY <2>1 DEF Seeing
  <2> QED BY <2>2
<1> HIDE DEF s, e, u
<1>7. BsStep(e, [bsOut EXCEPT !.sps = IF u.nal[1] = 7 THEN u.nal ELSE @,
                              !.pps = IF u.nal[1] = 8 THEN u.nal ELSE @])
  BY <1>6 DEF ExtractStep
<1>8. /\ bsPos' = e /\ bsUnits' = bsUnits /\ bsMode' = bsMode /\ bsData' = bsData
      /\ bsOut' = [bsOut EXCEPT !.sps = IF u.nal[1] = 7 THEN u.nal ELSE @,
                                !.pps = IF u.nal[1] = 8 THEN u.nal ELSE @]
  BY <1>7 DEF BsStep
<1>9. bsOut \in Outs
  BY <1>2 DEF BsTypes
<1>10. /\ bsOut'.sps = LastIn(bsUnits, i, 7) /\ bsOut'.pps = LastIn(bsUnits, i, 8)
  <2>1. /\ bsOut'.sps = IF u.nal[1] = 7 THEN u.nal ELSE bsOut.sps
        /\ bsOut'.pps = IF u.nal[1] = 8 THEN u.nal ELSE bsOut.pps
    BY <1>8, <1>9 DEF Outs
  <2>2. LastIn(bsUnits, i, 7) = IF u.nal[1] = 7 THEN u.nal ELSE LastIn(bsUnits, i - 1, 7)
    BY <1>5, LastGoesOn DEF u
  <2>3. LastIn(bsUnits, i, 8) = IF u.nal[1] = 8 THEN u.nal ELSE LastIn(bsUnits, i - 1, 8)
    BY <1>5, LastGoesOn DEF u
  <2>4. i - 1 = k
    BY <1>5
  <2> QED BY <1>4, <2>1, <2>2, <2>3, <2>4
<1>11. bsOut' \in Outs
  BY <1>6, <1>8, <1>9 DEF Outs
<1>12. BsTypes'
  BY <1>2, <1>8, <1>11 DEF BsTypes
<1>13. Holds(bsUnits, TRUE)'
  BY <1>3, <1>8 DEF Holds
<1>14. ExtractIs'
  <2>1. bsPos' = Behind(bsUnits', TRUE, i) /\ i \in 0..Len(bsUnits')
    BY <1>5, <1>8 DEF e
  <2>2. bsOut'.sps = LastIn(bsUnits', i, 7) /\ bsOut'.pps = LastIn(bsUnits', i, 8)
    BY <1>8, <1>10
  <2> QED BY <1>13, <2>1, <2>2 DEF ExtractIs
<1> QED BY <1>1, <1>8, <1>12, <1>14 DEF BsInv

\* What a scanner may meet inside a frame that is held whole: nothing, or the next unit.
LEMMA MeetsNext ==
    ASSUME BsAssumption, NEW us, Holds(us, TRUE), NEW k, NEW pos, Inside(us, k, pos), pos <= Len(bsData)
    PROVE  \/ StartCode(pos) = 0 /\ Inside(us, k, pos + 1)
           \/ \E i \in 1..Len(us) : /\ i \in Nat \ {0} /\ i - 1 = k /\ Seeing(us[i], pos, Behind(us, TRUE, i))
                                    /\ Inside(us, i, pos + us[i].sc) /\ Inside(us, i, pos + us[i].sc + 1)
<1>1. CASE pos # Behind(us, TRUE, k)
  BY <1>1, InsideUnit
<1>2. CASE pos = Behind(us, TRUE, k)
  <2>1. k \in 0..Len(us)
    BY DEF Inside
  <2>2. PICK i \in 1..Len(us) :
           i = k + 1 /\ i \in 0..Len(us) /\ i \in Nat \ {0} /\ i - 1 = k /\ Seeing(us[i], pos, Behind(us, TRUE, i))
    BY <1>2, <2>1, NextSeen
  <2>3. Seeing(us[i], pos, Behind(us, TRUE, i)) /\ pos = Behind(us, TRUE, i - 1) /\ i \in 0..Len(us) /\ i \in Nat \ {0}
    BY <1>2, <2>2
  <2>4. Inside(us, i, pos + us[i].sc) /\ Inside(us, i, pos + us[i].sc + 1)
    <3>1. Seeing(us[i], pos, Behind(us, TRUE, i))
      BY <2>3
    <3>2. pos = Behind(us, TRUE, i - 1)
      BY <2>3
    <3>3. i \in 0..Len(us)
      BY <2>3
    <3>4. i \in Nat \ {0}
      BY <2>3
    <3> QED BY <3>1, <3>2, <3>3, <3>4, InsideNext
  <2> QED BY <2>2, <2>4
<1> QED BY <1>1, <1>2

\* A type that was met early is met in all.
LEMMA SeenInAll ==
    ASSUME NEW us, Len(us) \in Nat, NEW k \in 0..Len(us), NEW type, Met(us, k, type)
    PROVE  Met(us, Len(us), type)
<1>1. \A i \in 1..k : i \in 1..Len(us)
  OBVIOUS
<1> QED BY <1>1 DEF Met

\* A step of the search for a parameter set keeps the invariant.
LEMMA HasGoes ==
    ASSUME BsAssumption, BsInv, HasStep
    PROVE  BsInv'
<1>1. bsMode = "has" /\ bsPos <= Len(bsData)
  BY DEF HasStep
<1>2. BsTypes /\ HasIs
  BY <1>1 DEF BsInv
<1>3. Holds(bsUnits, TRUE)
  BY <1>2 DEF HasIs
<1>4. bsOut \in Outs /\ bsUnits \in Seq(Units)
  BY <1>2 DEF BsTypes
<1> DEFINE sc == StartCode(bsPos)
           s == bsPos + sc
           sps == IF bsData[s] = 7 THEN <<7>> ELSE bsOut.sps
           pps == IF bsData[s] = 8 THEN <<8>> ELSE bsOut.pps
           Asleep == BsStep(bsPos + 1, bsOut) \/ BsStep(BsEnd, bsOut)
           Meets(z) == BsStep(z, [bsOut EXCEPT !.sps = sps, !.pps = pps])
<1>5. \/ sc = 0 /\ BsStep(bsPos + 1, bsOut)
      \/ sc > 0 /\ s > Len(bsData) /\ BsStep(BsEnd, bsOut)
      \/ ~(sc = 0) /\ ~(sc > 0 /\ s > Len(bsData)) /\ Meets(IF sps # <<>> /\ pps # <<>> THEN BsEnd ELSE s + 1)
  BY DEF HasStep
<1>6. /\ bsUnits' = bsUnits /\ bsMode' = bsMode /\ bsData' = bsData
  BY <1>5 DEF BsStep
<1>7. sps \in Seq(Nat) /\ pps \in Seq(Nat) /\ (bsOut.sps # <<>> => sps # <<>>) /\ (bsOut.pps # <<>> => pps # <<>>)
  <2>1. bsOut.sps \in Seq(Nat) /\ bsOut.pps \in Seq(Nat)
    BY <1>4 DEF Outs
  <2>2. <<7>> \in Seq(Nat) /\ <<8>> \in Seq(Nat) /\ <<7>> # <<>> /\ <<8>> # <<>>
    OBVIOUS
  <2> QED BY <2>1, <2>2
<1> HIDE DEF sps, pps
<1>8. bsOut' = bsOut \/ (bsOut' \in Outs /\ bsOut'.sps = sps /\ bsOut'.pps = pps)
  <2>1. bsOut' = bsOut \/ bsOut' = [bsOut EXCEPT !.sps = sps, !.pps = pps]
    BY <1>5 DEF BsStep
  <2> QED BY <1>4, <1>7, <2>1 DEF Outs
<1>9. BsTypes'
  BY <1>2, <1>4, <1>6, <1>8 DEF BsTypes
<1>10. Holds(bsUnits, TRUE)'
  BY <1>3, <1>6 DEF Holds
<1>11. HasIs'
  <2>1. CASE /\ bsOut.sps # <<>> /\ bsOut.pps # <<>>
             /\ Met(bsUnits, Len(bsUnits), 7) /\ Met(bsUnits, Len(bsUnits), 8)
    <3>1. bsOut'.sps # <<>> /\ bsOut'.pps # <<>>
      BY <1>7, <1>8, <2>1
    <3> QED BY <1>6, <1>10, <2>1, <3>1 DEF HasIs
  <2>2. CASE \E k \in 0..Len(bsUnits) :
             /\ Inside(bsUnits, k, bsPos)
             /\ (bsOut.sps # <<>>) <=> Met(bsUnits, k, 7)
             /\ (bsOut.pps # <<>>) <=> Met(bsUnits, k, 8)
    <3>1. PICK k \in 0..Len(bsUnits) :
             /\ Inside(bsUnits, k, bsPos)
             /\ (bsOut.sps # <<>>) <=> Met(bsUnits, k, 7)
             /\ (bsOut.pps # <<>>) <=> Met(bsUnits, k, 8)
      BY <2>2
    <3>2. Inside(bsUnits, k, bsPos)
      BY <3>1
    <3>3. bsPos <= Len(bsData)
      BY <1>1
    <3>4. CASE sc = 0 /\ Inside(bsUnits, k, bsPos + 1)
      <4>1. BsStep(bsPos + 1, bsOut)
        BY <1>5, <3>4
      <4>2. bsPos' = bsPos + 1 /\ bsOut' = bsOut
        BY <4>1 DEF BsStep
      <4>3. /\ Inside(bsUnits', k, bsPos') /\ k \in 0..Len(bsUnits')
            /\ (bsOut'.sps # <<>>) <=> Met(bsUnits', k, 7)
            /\ (bsOut'.pps # <<>>) <=> Met(bsUnits', k, 8)
        <5>1. Inside(bsUnits, k, bsPos')
          BY <3>4, <4>2
        <5> QED BY <1>6, <3>1, <4>2, <5>1
      <4> QED BY <1>10, <4>3 DEF HasIs
    <3>5. CASE \E i \in 1..Len(bsUnits) :
                 /\ i \in Nat \ {0} /\ i - 1 = k /\ Seeing(bsUnits[i], bsPos, Behind(bsUnits, TRUE, i))
                 /\ Inside(bsUnits, i, bsPos + bsUnits[i].sc) /\ Inside(bsUnits, i, bsPos + bsUnits[i].sc + 1)
      <4>1. PICK i \in 1..Len(bsUnits) :
                 /\ i \in Nat \ {0} /\ i - 1 = k /\ Seeing(bsUnits[i], bsPos, Behind(bsUnits, TRUE, i))
                 /\ Inside(bsUnits, i, bsPos + bsUnits[i].sc) /\ Inside(bsUnits, i, bsPos + bsUnits[i].sc + 1)
        BY <3>5
      <4> DEFINE u == bsUnits[i]  e == Behind(bsUnits, TRUE, i)
      <4>2. Seeing(u, bsPos, e)
        BY <4>1
      <4> HIDE DEF u, e
      <4>3. sc = u.sc /\ u.sc \in {3, 4} /\ ~(s > Len(bsData)) /\ bsData[s] = u.nal[1]
        BY <4>2 DEF Seeing
      <4>4. Meets(IF sps # <<>> /\ pps # <<>> THEN BsEnd ELSE s + 1)
        BY <1>5, <4>3
      <4>5. bsPos' = (IF sps # <<>> /\ pps # <<>> THEN BsEnd ELSE s + 1) /\ bsOut' = [bsOut EXCEPT !.sps = sps, !.pps = pps]
        BY <4>4 DEF BsStep
      <4>6. bsOut'.sps = sps /\ bsOut'.pps = pps
        BY <1>4, <4>5 DEF Outs
      <4>7. (sps # <<>>) <=> Met(bsUnits, i, 7)
        <5>1. Met(bsUnits, i, 7) <=> (u.nal[1] = 7 \/ Met(bsUnits, i - 1, 7))
          BY <4>1, SeenGoesOn DEF u
        <5>2. Met(bsUnits, i - 1, 7) <=> bsOut.sps # <<>>
          BY <3>1, <4>1
        <5>3. (sps # <<>>) <=> (u.nal[1] = 7 \/ bsOut.sps # <<>>)
          <6>1. <<7>> # <<>>
            OBVIOUS
          <6> QED BY <4>3, <6>1 DEF sps
        <5> QED BY <5>1, <5>2, <5>3
      <4>8. (pps # <<>>) <=> Met(bsUnits, i, 8)
        <5>1. Met(bsUnits, i, 8) <=> (u.nal[1] = 8 \/ Met(bsUnits, i - 1, 8))
          BY <4>1, SeenGoesOn DEF u
        <5>2. Met(bsUnits, i - 1, 8) <=> bsOut.pps # <<>>
          BY <3>1, <4>1
        <5>3. (pps # <<>>) <=> (u.nal[1] = 8 \/ bsOut.pps # <<>>)
          <6>1. <<8>> # <<>>
            OBVIOUS
          <6> QED BY <4>3, <6>1 DEF pps
        <5> QED BY <5>1, <5>2, <5>3
      <4>9. i \in 0..Len(bsUnits)
        OBVIOUS
      <4>10. CASE sps # <<>> /\ pps # <<>>
        <5>1. Met(bsUnits, Len(bsUnits), 7) /\ Met(bsUnits, Len(bsUnits), 8)
          <6>1. Len(bsUnits) \in Nat
            BY <1>4
          <6> QED BY <4>7, <4>8, <4>9, <4>10, <6>1, SeenInAll
        <5> QED BY <1>6, <1>10, <4>6, <4>10, <5>1 DEF HasIs
      <4>11. CASE ~(sps # <<>> /\ pps # <<>>)
        <5>1. bsPos' = s + 1 /\ s + 1 = bsPos + bsUnits[i].sc + 1
          BY <4>3, <4>5, <4>11 DEF u
        <5>2. Inside(bsUnits', i, bsPos') /\ i \in 0..Len(bsUnits')
          BY <1>6, <4>1, <4>9, <5>1
        <5>3. /\ (bsOut'.sps # <<>>) <=> Met(bsUnits', i, 7)
              /\ (bsOut'.pps # <<>>) <=> Met(bsUnits', i, 8)
          BY <1>6, <4>6, <4>7, <4>8
        <5> QED BY <1>10, <5>2, <5>3 DEF HasIs
      <4> QED BY <4>10, <4>11
    <3> QED BY <1>3, <3>2, <3>3, <3>4, <3>5, MeetsNext
  <2> QED BY <1>2, <2>1, <2>2 DEF HasIs
<1> QED BY <1>1, <1>6, <1>9, <1>11 DEF BsInv

\* A step of the search for a key frame keeps the invariant.
LEMMA KeyGoes ==
    ASSUME BsAssumption, BsInv, KeyStep
    PROVE  BsInv'
<1>1. bsMode = "key" /\ bsPos <= Len(bsData)
  BY DEF KeyStep
<1>2. BsTypes /\ KeyIs
  BY <1>1 DEF BsInv
<1>3. Holds(bsUnits, TRUE)
  BY <1>2 DEF KeyIs
<1>4. bsOut \in Outs /\ bsUnits \in Seq(Units)
  BY <1>2 DEF BsTypes
<1> DEFINE sc == IF bsPos + 3 <= Len(bsData) THEN StartCode(bsPos) ELSE 0
           s == bsPos + sc
<1>5. \/ (sc = 0 \/ s > Len(bsData)) /\ BsStep(bsPos + 1, bsOut)
      \/ ~(sc = 0 \/ s > Len(bsData)) /\ bsData[s] = 5 /\ BsStep(BsEnd, [bsOut EXCEPT !.key = TRUE])
      \/ ~(sc = 0 \/ s > Len(bsData)) /\ bsData[s] # 5 /\ BsStep(s, bsOut)
  BY DEF KeyStep
<1>6. /\ bsUnits' = bsUnits /\ bsMode' = bsMode /\ bsData' = bsData
      /\ bsOut' = bsOut \/ bsOut' = [bsOut EXCEPT !.key = TRUE]
  BY <1>5 DEF BsStep
<1>7. bsOut' = bsOut \/ (bsOut' \in Outs /\ bsOut'.key = TRUE)
  BY <1>4, <1>6 DEF Outs
<1>8. BsTypes'
  BY <1>2, <1>4, <1>6, <1>7 DEF BsTypes
<1>9. Holds(bsUnits, TRUE)'
  BY <1>3, <1>6 DEF Holds
<1>10. KeyIs'
  <2>1. CASE bsOut.key /\ Met(bsUnits, Len(bsUnits), 5)
    <3>1. bsOut'.key
      BY <1>7, <2>1, Zenon
    <3> QED BY <1>6, <1>9, <2>1, <3>1 DEF KeyIs
  <2>2. CASE \E k \in 0..Len(bsUnits) : Inside(bsUnits, k, bsPos) /\ (bsOut.key <=> Met(bsUnits, k, 5))
    <3>1. PICK k \in 0..Len(bsUnits) : Inside(bsUnits, k, bsPos) /\ (bsOut.key <=> Met(bsUnits, k, 5))
      BY <2>2
    <3>2. Inside(bsUnits, k, bsPos)
      BY <3>1
    <3>3. bsPos <= Len(bsData)
      BY <1>1
    <3>4. CASE StartCode(bsPos) = 0 /\ Inside(bsUnits, k, bsPos + 1)
      <4>1. BsStep(bsPos + 1, bsOut)
        BY <1>5, <3>4
      <4>2. bsPos' = bsPos + 1 /\ bsOut' = bsOut
        BY <4>1 DEF BsStep
      <4>3. Inside(bsUnits', k, bsPos') /\ k \in 0..Len(bsUnits')
        BY <1>6, <3>4, <4>2
      <4>4. bsOut'.key <=> Met(bsUnits', k, 5)
        BY <1>6, <3>1, <4>2, Zenon
      <4> QED BY <1>9, <4>3, <4>4 DEF KeyIs
    <3>5. CASE \E i \in 1..Len(bsUnits) :
                 /\ i \in Nat \ {0} /\ i - 1 = k /\ Seeing(bsUnits[i], bsPos, Behind(bsUnits, TRUE, i))
                 /\ Inside(bsUnits, i, bsPos + bsUnits[i].sc) /\ Inside(bsUnits, i, bsPos + bsUnits[i].sc + 1)
      <4>1. PICK i \in 1..Len(bsUnits) :
                 /\ i \in Nat \ {0} /\ i - 1 = k /\ Seeing(bsUnits[i], bsPos, Behind(bsUnits, TRUE, i))
                 /\ Inside(bsUnits, i, bsPos + bsUnits[i].sc) /\ Inside(bsUnits, i, bsPos + bsUnits[i].sc + 1)
        BY <3>5
      <4> DEFINE u == bsUnits[i]  e == Behind(bsUnits, TRUE, i)
      <4>2. Seeing(u, bsPos, e)
        BY <4>1
      <4> HIDE DEF u, e
      <4>3. sc = u.sc /\ u.sc \in {3, 4} /\ ~(s > Len(bsData)) /\ bsData[s] = u.nal[1]
        BY <4>2 DEF Seeing
      <4>4. Met(bsUnits, i, 5) <=> (u.nal[1] = 5 \/ Met(bsUnits, i - 1, 5))
        BY <4>1, SeenGoesOn DEF u
      <4>5. Met(bsUnits, i - 1, 5) <=> bsOut.key
        <5>1. i - 1 = k
          BY <4>1
        <5> QED BY <3>1, <5>1
      <4>6. i \in 0..Len(bsUnits)
        OBVIOUS
      <4>7. CASE u.nal[1] = 5
        <5>1. BsStep(BsEnd, [bsOut EXCEPT !.key = TRUE])
          BY <1>5, <4>3, <4>7
        <5>2. bsOut' = [bsOut EXCEPT !.key = TRUE]
          BY <5>1 DEF BsStep
        <5>3. bsOut'.key = TRUE
          BY <1>4, <5>2 DEF Outs
        <5>4. Met(bsUnits, Len(bsUnits), 5)
          <6>1. Len(bsUnits) \in Nat
            BY <1>4
          <6>2. Met(bsUnits, i, 5)
            BY <4>4, <4>7
          <6> QED BY <4>6, <6>1, <6>2, SeenInAll
        <5>5. bsOut'.key /\ Met(bsUnits', Len(bsUnits'), 5)
          BY <1>6, <5>3, <5>4, Zenon
        <5> QED BY <1>9, <5>5 DEF KeyIs
      <4>8. CASE u.nal[1] # 5
        <5>1. BsStep(s, bsOut)
          BY <1>5, <4>3, <4>8
        <5>2. bsPos' = s /\ bsOut' = bsOut /\ s = bsPos + bsUnits[i].sc
          BY <4>3, <5>1 DEF BsStep, u
        <5>3. Inside(bsUnits', i, bsPos') /\ i \in 0..Len(bsUnits')
          BY <1>6, <4>1, <4>6, <5>2
        <5>4. bsOut'.key <=> Met(bsUnits', i, 5)
          BY <1>6, <4>4, <4>5, <4>8, <5>2, Zenon
        <5> QED BY <1>9, <5>3, <5>4 DEF KeyIs
      <4> QED BY <4>7, <4>8
    <3> QED BY <1>3, <3>2, <3>3, <3>4, <3>5, MeetsNext
  <2> QED BY <1>2, <2>1, <2>2 DEF KeyIs
<1> QED BY <1>1, <1>6, <1>8, <1>10 DEF BsInv

\* The units with their lengths before them, one by one.
LEMMA SizesAre ==
    ASSUME BsAssumption, NEW us \in Seq(Units)
    PROVE  /\ Sizes(us) \in Seq(Seq(Nat)) /\ Len(Sizes(us)) = Len(us)
           /\ \A i \in 1..Len(us) : us[i] \in Units /\ Sizes(us)[i] = Sized(us[i])
<1>1. \A i \in 1..Len(us) : us[i] \in Units
  OBVIOUS
<1>2. ASSUME NEW u \in Units PROVE Sized(u) \in Seq(Nat)
  <2>1. u.nal \in Seq(Nat)
    BY UnitIs DEF Bare
  <2>2. PICK n \in Seq(Nat) : n = u.nal
    BY <2>1
  <2>3. PICK m \in Nat : m = Len(n)
    BY LenIsNat
  <2>4. <<0, 0, 0, m>> \in Seq(Nat)
    OBVIOUS
  <2> QED BY <2>2, <2>3, <2>4, JoinIs DEF Sized
<1>3. DOMAIN us = 1..Len(us) /\ Len(us) \in Nat
  OBVIOUS
<1>4. Sizes(us) = [i \in 1..Len(us) |-> Sized(us[i])]
  BY <1>3 DEF Sizes
<1>5. \A i \in 1..Len(us) : Sizes(us)[i] \in Seq(Nat) /\ Sizes(us)[i] = Sized(us[i])
  BY <1>1, <1>2, <1>4
<1>6. Sizes(us) \in Seq(Seq(Nat)) /\ Len(Sizes(us)) = Len(us)
  BY <1>3, <1>4, <1>5
<1> QED BY <1>1, <1>5, <1>6

\* A unit behind its length, byte by byte.
Reads(q, n, m) ==
    /\ q \in Seq(Nat) /\ Len(q) = 4 + m /\ m > 0 /\ n # <<>>
    /\ q[4] = m /\ \A x \in 1..m : q[4 + x] = n[x]

\* A unit with its length before it reads back as its length and its bytes.
LEMMA SizedIs ==
    ASSUME BsAssumption, NEW u \in Units, NEW n \in Seq(Nat), n = u.nal, NEW m \in Nat, m = Len(n)
    PROVE  Reads(Sized(u), n, m)
<1>1. Bare(n)
  BY UnitIs
<1>2. m > 0 /\ n # <<>>
  BY <1>1 DEF Bare
<1> DEFINE c == <<0, 0, 0, m>>
<1>3. c \in Seq(Nat) /\ Len(c) = 4 /\ c[4] = m
  OBVIOUS
<1>4. Sized(u) = c \o n
  BY DEF Sized
<1> HIDE DEF c
<1>5. /\ c \o n \in Seq(Nat) /\ Len(c \o n) = Len(c) + Len(n)
      /\ \A x \in 1..Len(c) : (c \o n)[x] = c[x]
      /\ \A x \in 1..Len(n) : (c \o n)[Len(c) + x] = n[x]
  BY <1>3, JoinIs
<1>6. 4 \in 1..4
  OBVIOUS
<1>7. (c \o n)[4] = m
  BY <1>3, <1>5, <1>6
<1> QED BY <1>2, <1>3, <1>4, <1>5, <1>7 DEF Reads

\* What is seen at b of the unit after the first k.
Sizing(us, k, b) ==
    \E i \in 1..Len(us), m \in Nat :
       /\ i = k + 1 /\ us[i] \in Units /\ us[i].nal \in Seq(Nat) /\ us[i].nal # <<>>
       /\ m = Len(us[i].nal) /\ m > 0
       /\ bsData[b + 3] = m /\ b + 3 + m <= Len(bsData)
       /\ Bytes(b + 4, b + 3 + m) = us[i].nal
       /\ Len(Grown(Sizes(us))[i]) + 1 = b + 4 + m

\* Where the frame is with lengths, and the next unit there.
LEMMA SizedThere ==
    ASSUME BsAssumption, NEW us \in Seq(Units), bsData = FlattenSeq(Sizes(us)), NEW k \in 0..Len(us),
           NEW b, b = Len(Grown(Sizes(us))[k]) + 1
    PROVE  /\ b \in Nat \ {0} /\ bsData \in Seq(Nat)
           /\ k = Len(us) => b = Len(bsData) + 1
           /\ k # Len(us) => Sizing(us, k, b)
<1> DEFINE p == Sizes(us)
<1>1. p \in Seq(Seq(Nat)) /\ Len(p) = Len(us) /\ Len(us) \in Nat
  BY SizesAre
<1>2. k \in 0..Len(p) /\ Len(p) \in 0..Len(p)
  BY <1>1
<1>3. Grown(p)[k] \in Seq(Nat) /\ Grown(p)[Len(p)] \in Seq(Nat) /\ Grown(p)[Len(p)] = bsData
  BY <1>1, <1>2, GrownIs
<1>4. PICK g \in Nat : g = Len(Grown(p)[k])
  BY <1>3, LenIsNat
<1>5. b = g + 1 /\ g + 1 \in Nat \ {0}
  BY <1>4
<1>6. k = Len(us) => b = Len(bsData) + 1
  BY <1>1, <1>3
<1>7. ASSUME k # Len(us)
      PROVE  Sizing(us, k, b)
  <2>1. PICK i \in 1..Len(us) : i = k + 1 /\ i - 1 = k
    BY <1>1, <1>7
  <2>2. us[i] \in Units /\ p[i] = Sized(us[i])
    BY SizesAre
  <2>3. PICK n \in Seq(Nat) : n = us[i].nal
    BY <2>2, UnitIs DEF Bare
  <2>4. PICK m \in Nat : m = Len(n)
    BY LenIsNat
  <2>5. PICK q : q = p[i]
    OBVIOUS
  <2>6. /\ q \in Seq(Nat) /\ Len(q) = 4 + m /\ m > 0 /\ n # <<>>
        /\ q[4] = m /\ \A x \in 1..m : q[4 + x] = n[x]
    <3>1. PICK u \in Units : u = us[i]
      BY <2>2
    <3>2. n = u.nal
      BY <2>3, <3>1
    <3>3. Reads(Sized(u), n, m)
      BY <2>4, <3>2, SizedIs
    <3>4. q = Sized(u)
      BY <2>2, <2>5, <3>1
    <3>5. Reads(q, n, m)
      BY <3>3, <3>4
    <3> HIDE DEF p
    <3> QED BY <3>5 DEF Reads
  <2>7. i \in 1..Len(p)
    BY <1>1
  <2> HIDE DEF p
  <2>8. /\ Len(Grown(p)[i - 1]) \in Nat /\ Len(Grown(p)[i]) \in Nat
        /\ Len(Grown(p)[i]) = Len(Grown(p)[i - 1]) + Len(p[i])
        /\ Len(Grown(p)[i]) <= Len(FlattenSeq(p)) /\ FlattenSeq(p) = bsData
        /\ \A x \in 1..Len(p[i]) : FlattenSeq(p)[Len(Grown(p)[i - 1]) + x] = p[i][x]
    BY <1>1, <2>7, GrownAt DEF p
  <2>9. PICK way \in Nat : way = Len(Grown(p)[i])
    BY <2>8
  <2>10. PICK z \in Nat : z = Len(bsData)
    BY <1>3, LenIsNat
  <2>11. way = g + (4 + m) /\ way <= z /\ \A x \in 1..(4 + m) : bsData[g + x] = q[x]
    BY <1>4, <2>1, <2>5, <2>6, <2>8, <2>9, <2>10
  <2>12. bsData[g + 4] = m
    <3>1. 4 \in 1..(4 + m)
      OBVIOUS
    <3> QED BY <2>6, <2>11, <3>1
  <2>13. \A x \in 1..m : bsData[g + 5 + x - 1] = n[x]
    <3>1. ASSUME NEW x \in 1..m PROVE bsData[g + 5 + x - 1] = n[x]
      <4>1. 4 + x \in 1..(4 + m) /\ g + (4 + x) = g + 5 + x - 1
        OBVIOUS
      <4>2. bsData[g + (4 + x)] = q[4 + x]
        BY <2>11, <4>1
      <4> QED BY <2>6, <4>1, <4>2
    <3> QED BY <3>1
  <2>14. SubSeq(bsData, g + 5, g + 4 + m) = n
    <3>1. PICK a \in Nat \ {0} : a = g + 5
      OBVIOUS
    <3>2. PICK e \in Nat : e = g + 4 + m
      OBVIOUS
    <3>3. e + 1 = a + Len(n)
      BY <2>4, <3>1, <3>2
    <3>4. e <= Len(bsData)
      BY <2>10, <2>11, <3>2
    <3>5. \A x \in 1..Len(n) : bsData[a + x - 1] = n[x]
      BY <2>4, <2>13, <3>1
    <3>6. bsData \in Seq(Nat)
      BY <1>3
    <3>7. SubSeq(bsData, a, e) = n
      BY <3>3, <3>4, <3>5, <3>6, CutIs
    <3> QED BY <3>1, <3>2, <3>7
  <2>15. b + 3 = g + 4 /\ b + 4 = g + 5 /\ b + 3 + m = g + 4 + m /\ b + 3 + m <= z /\ way + 1 = b + 4 + m
    <3>0. way = g + (4 + m) /\ way <= z
      BY <2>11
    <3>1. g + 1 + 3 = g + 4 /\ g + 1 + 4 = g + 5 /\ g + 1 + 3 + m = g + 4 + m /\ g + 1 + 3 + m <= z /\ way + 1 = g + 1 + 4 + m
      BY <3>0
    <3>2. b = g + 1
      BY <1>5
    <3> QED BY <3>1, <3>2, Zenon
  <2>16. Bytes(b + 4, b + 3 + m) = n
    BY <2>14, <2>15 DEF Bytes
  <2>17. bsData[b + 3] = m /\ b + 3 + m <= Len(bsData) /\ Len(Grown(p)[i]) + 1 = b + 4 + m
    BY <2>9, <2>10, <2>12, <2>15
  <2> QED BY <2>1, <2>2, <2>3, <2>4, <2>6, <2>16, <2>17 DEF p, Sizing
<1> QED BY <1>3, <1>5, <1>6, <1>7

\* Joining sequences can be bracketed either way.
LEMMA JoinsTurn == \A o, c, n \in Seq(Nat) : (o \o c) \o n = o \o (c \o n)
<1>1. SUFFICES ASSUME NEW o \in Seq(Nat), NEW c \in Seq(Nat), NEW n \in Seq(Nat)
               PROVE  (o \o c) \o n = o \o (c \o n)
  OBVIOUS
<1> DEFINE s == (o \o c) \o n  t == o \o (c \o n)
<1>2. s \in Seq(Nat) /\ t \in Seq(Nat) /\ Len(s) = Len(t) /\ Len(s) \in Nat
  OBVIOUS
<1>3. ASSUME NEW i \in 1..Len(s) PROVE s[i] = t[i]
  OBVIOUS
<1> HIDE DEF s, t
<1>4. s = t
  BY <1>2, <1>3, SameSequence
<1> QED BY <1>4 DEF s, t

\* A step of the change to start codes keeps the invariant.
LEMMA AvccGoes ==
    ASSUME BsAssumption, BsInv, AvccStep
    PROVE  BsInv'
<1>1. bsMode = "avcc" /\ bsPos + 3 <= Len(bsData)
  BY DEF AvccStep
<1>2. BsTypes /\ AvccIs
  BY <1>1 DEF BsInv
<1>3. bsUnits \in Seq(Units) /\ bsOut \in Outs
  BY <1>2 DEF BsTypes
<1>4. bsData = FlattenSeq(Sizes(bsUnits)) /\ \A i \in 1..Len(bsUnits) : bsUnits[i].sc = 4
  BY <1>2 DEF AvccIs
<1>5. PICK k \in 0..Len(bsUnits) :
          /\ bsPos = Len(Grown(Sizes(bsUnits))[k]) + 1
          /\ bsOut.bytes = Grown(Pieces(bsUnits, FALSE))[k]
  BY <1>2 DEF AvccIs
<1>6. bsPos = Len(Grown(Sizes(bsUnits))[k]) + 1
  BY <1>5
<1>7. /\ bsPos \in Nat \ {0} /\ bsData \in Seq(Nat)
      /\ k = Len(bsUnits) => bsPos = Len(bsData) + 1
      /\ k # Len(bsUnits) => Sizing(bsUnits, k, bsPos)
  <2>1. bsData = FlattenSeq(Sizes(bsUnits))
    BY <1>4
  <2> QED BY <1>3, <1>6, <2>1, SizedThere
<1>8. k # Len(bsUnits)
  <2>1. PICK g \in Nat : g = Len(bsData)
    BY <1>7, LenIsNat
  <2>2. PICK x \in Nat : x = bsPos
    BY <1>7
  <2>3. x + 3 <= g
    BY <1>1, <2>1, <2>2
  <2>4. x # g + 1
    BY <2>3
  <2> QED BY <1>7, <2>1, <2>2, <2>4
<1>9. PICK i \in 1..Len(bsUnits), m \in Nat : 
                                /\ i = k + 1 /\ bsUnits[i] \in Units /\ bsUnits[i].nal \in Seq(Nat) /\ bsUnits[i].nal # <<>>
                                /\ m = Len(bsUnits[i].nal) /\ m > 0
                                /\ bsData[bsPos + 3] = m /\ bsPos + 3 + m <= Len(bsData)
                                /\ Bytes(bsPos + 4, bsPos + 3 + m) = bsUnits[i].nal
                                /\ Len(Grown(Sizes(bsUnits))[i]) + 1 = bsPos + 4 + m
  BY <1>7, <1>8 DEF Sizing
<1> DEFINE u == bsUnits[i]  r == Grown(Pieces(bsUnits, FALSE))
<1>10. i - 1 = k /\ i \in 0..Len(bsUnits) /\ u.sc = 4
  BY <1>4, <1>9
<1>11. BsStep(bsPos + 4 + m, [bsOut EXCEPT !.bytes = IF u.nal[1] \in {9, 12} THEN @ ELSE @ \o Code(4) \o u.nal])
  BY <1>9 DEF AvccStep
<1>12. /\ bsPos' = bsPos + 4 + m /\ bsUnits' = bsUnits /\ bsMode' = bsMode /\ bsData' = bsData
       /\ bsOut' = [bsOut EXCEPT !.bytes = IF u.nal[1] \in {9, 12} THEN @ ELSE @ \o Code(4) \o u.nal]
  BY <1>11 DEF BsStep
<1>13. /\ r[i] = IF Spare(u) THEN r[i - 1] ELSE r[i - 1] \o Whole(u)
       /\ r[i] \in Seq(Nat)
  BY <1>3, RestGoesOn
<1>14. bsOut.bytes = r[i - 1] /\ bsOut.bytes \in Seq(Nat)
  BY <1>3, <1>5, <1>10 DEF Outs
<1> HIDE DEF u, r
<1>15. bsOut'.bytes = IF u.nal[1] \in {9, 12} THEN bsOut.bytes ELSE bsOut.bytes \o Code(4) \o u.nal
  BY <1>3, <1>12 DEF Outs
<1>16. bsOut.bytes \o Code(4) \o u.nal = bsOut.bytes \o Whole(u)
  <2>1. PICK o \in Seq(Nat) : o = bsOut.bytes
    BY <1>14
  <2>2. PICK n \in Seq(Nat) : n = u.nal
    BY <1>9 DEF u
  <2>3. Code(4) \in Seq(Nat)
    BY DEF Code
  <2>4. PICK c \in Seq(Nat) : c = Code(4)
    BY <2>3
  <2>5. (o \o c) \o n = o \o (c \o n)
    BY JoinsTurn
  <2>6. Whole(u) = c \o n
    BY <1>10, <2>2, <2>4 DEF Whole
  <2> QED BY <2>1, <2>2, <2>4, <2>5, <2>6
<1>17. bsOut'.bytes = r[i]
  BY <1>13, <1>14, <1>15, <1>16 DEF Spare
<1>18. BsTypes'
  <2>1. bsOut' \in Outs
    BY <1>3, <1>12, <1>13, <1>17 DEF Outs
  <2> QED BY <1>2, <1>12, <2>1 DEF BsTypes
<1>19. AvccIs'
  <2>1. bsPos' = Len(Grown(Sizes(bsUnits'))[i]) + 1
    BY <1>9, <1>12
  <2>2. bsOut'.bytes = Grown(Pieces(bsUnits', FALSE))[i]
    BY <1>12, <1>17 DEF r
  <2>3. bsData' = FlattenSeq(Sizes(bsUnits')) /\ \A j \in 1..Len(bsUnits') : bsUnits'[j].sc = 4
    BY <1>4, <1>12
  <2>4. i \in 0..Len(bsUnits')
    BY <1>10, <1>12
  <2> QED BY <2>1, <2>2, <2>3, <2>4 DEF AvccIs
<1>20. bsMode' = "avcc"
  BY <1>1, <1>12
<1> QED BY <1>18, <1>19, <1>20 DEF BsInv

\* The change to start codes ends with every unit turned.
LEMMA AvccTurns ==
    ASSUME BsAssumption, BsInv, AvccEnds
    PROVE  BsInv'
<1>1. /\ bsMode = "avcc" /\ bsPos + 3 > Len(bsData)
      /\ bsMode' = "strip" /\ bsData' = bsOut.bytes /\ bsPos' = 1 /\ bsOut' = Nothing /\ bsUnits' = bsUnits
  BY DEF AvccEnds
<1>2. BsTypes /\ AvccIs
  BY <1>1 DEF BsInv
<1>3. bsUnits \in Seq(Units) /\ bsOut \in Outs
  BY <1>2 DEF BsTypes
<1>4. bsData = FlattenSeq(Sizes(bsUnits))
  BY <1>2 DEF AvccIs
<1>5. PICK k \in 0..Len(bsUnits) :
          /\ bsPos = Len(Grown(Sizes(bsUnits))[k]) + 1
          /\ bsOut.bytes = Grown(Pieces(bsUnits, FALSE))[k]
  BY <1>2 DEF AvccIs
<1>6. bsPos = Len(Grown(Sizes(bsUnits))[k]) + 1
  BY <1>5
<1>7. /\ bsPos \in Nat \ {0} /\ bsData \in Seq(Nat)
      /\ k # Len(bsUnits) => Sizing(bsUnits, k, bsPos)
  BY <1>3, <1>4, <1>6, SizedThere
<1>8. k = Len(bsUnits)
  <2>1. SUFFICES ASSUME k # Len(bsUnits) PROVE FALSE
    OBVIOUS
  <2>2. PICK m \in Nat : bsPos + 3 + m <= Len(bsData)
    BY <1>7, <2>1 DEF Sizing
  <2>3. PICK g \in Nat : g = Len(bsData)
    BY <1>7, LenIsNat
  <2>4. PICK x \in Nat : x = bsPos
    BY <1>7
  <2>5. x + 3 + m <= g /\ x + 3 > g
    BY <1>1, <2>2, <2>3, <2>4
  <2> QED BY <2>5
<1>9. Pieces(bsUnits, FALSE) \in Seq(Seq(Nat)) /\ Len(Pieces(bsUnits, FALSE)) = Len(bsUnits)
  BY <1>3, PiecesAre
<1>10. FlattenSeq(Pieces(bsUnits, FALSE)) = Grown(Pieces(bsUnits, FALSE))[Len(Pieces(bsUnits, FALSE))]
       /\ Grown(Pieces(bsUnits, FALSE))[0] = <<>>
  BY <1>9, GrownIs
<1>11. bsData' = FlattenSeq(Pieces(bsUnits', FALSE))
  BY <1>1, <1>5, <1>8, <1>9, <1>10
<1>12. Holds(bsUnits, FALSE)'
  BY <1>1, <1>3, <1>11 DEF Holds
<1>13. bsPos' = Behind(bsUnits', FALSE, 0)
  <2>1. Len(<<>>) + 1 = 1
    OBVIOUS
  <2> QED BY <1>1, <1>10, <2>1 DEF Behind
<1>14. bsOut'.bytes = Grown(Pieces(bsUnits', FALSE))[0]
  BY <1>1, <1>10 DEF Nothing
<1>15. 0 \in 0..Len(bsUnits')
  BY <1>1, <1>3
<1>16. StripIs'
  <2>1. FALSE \in BOOLEAN
    OBVIOUS
  <2> QED BY <1>12, <1>13, <1>14, <1>15, <2>1 DEF StripIs, Holds
<1>17. BsTypes'
  <2>1. Nothing \in Outs
    BY DEF Nothing, Outs
  <2> QED BY <1>1, <1>2, <2>1 DEF BsTypes
<1> QED BY <1>1, <1>16, <1>17 DEF BsInv

\* A scanner starts at the first byte with nothing found.
LEMMA BsStarts ==
    ASSUME BsAssumption, BsInit
    PROVE  BsInv
<1>1. PICK n \in 1..BsMaxNals : bsUnits \in [1..n -> [sc : {3, 4}, nal : BsNals]]
  BY DEF BsInit
<1>2. bsUnits \in Seq(Units) /\ Len(bsUnits) = n /\ DOMAIN bsUnits = 1..Len(bsUnits) /\ Len(bsUnits) \in Nat
  <2>1. n \in Nat
    BY DEF BsAssumption
  <2>2. bsUnits \in [1..n -> Units]
    BY <1>1 DEF Units
  <2>3. \A U : \A f_1 \in [1..n -> U] : f_1 \in Seq(U) /\ Len(f_1) = n /\ DOMAIN f_1 = 1..n
    BY <2>1
  <2> QED BY <2>1, <2>2, <2>3
<1>3. /\ bsMode \in {"strip", "extract", "has", "key", "avcc"}
      /\ bsMode = "avcc" => \A i \in DOMAIN bsUnits : bsUnits[i].sc = 4
      /\ bsData = IF bsMode = "avcc" THEN Avcc(bsUnits) ELSE AnnexB(bsUnits)
      /\ bsPos = 1 /\ bsOut = Nothing
  BY DEF BsInit
<1>4. BsTypes
  BY <1>2, <1>3 DEF BsTypes, Nothing, Outs
<1>5. AnnexB(bsUnits) = FlattenSeq(Pieces(bsUnits, TRUE))
  BY DEF AnnexB, Pieces, Piece
<1>6. Avcc(bsUnits) = FlattenSeq(Sizes(bsUnits))
  BY DEF Avcc, Sizes
<1>7. 0 \in 0..Len(bsUnits)
  BY <1>2
<1>8. bsOut.bytes = <<>> /\ bsOut.sps = <<>> /\ bsOut.pps = <<>> /\ bsOut.key = FALSE
  BY <1>3 DEF Nothing
<1>9. \A type : ~Met(bsUnits, 0, type) /\ LastIn(bsUnits, 0, type) = <<>>
  <2>1. 1..0 = {}
    OBVIOUS
  <2> QED BY <2>1 DEF Met, LastIn, LastAmong
<1>10. Grown(Pieces(bsUnits, FALSE))[0] = <<>>
  <2>1. Pieces(bsUnits, FALSE) \in Seq(Seq(Nat))
    BY <1>2, PiecesAre
  <2> QED BY <2>1, GrownIs
<1>11. CASE bsMode = "avcc"
  <2>1. Grown(Sizes(bsUnits))[0] = <<>>
    <3>1. Sizes(bsUnits) \in Seq(Seq(Nat))
      BY <1>2, SizesAre
    <3> QED BY <3>1, GrownIs
  <2>2. bsPos = Len(Grown(Sizes(bsUnits))[0]) + 1
    <3>1. Len(<<>>) + 1 = 1
      OBVIOUS
    <3> QED BY <1>3, <2>1, <3>1, Zenon
  <2>3. bsOut.bytes = Grown(Pieces(bsUnits, FALSE))[0]
    BY <1>8, <1>10
  <2>4. bsData = FlattenSeq(Sizes(bsUnits)) /\ \A i \in 1..Len(bsUnits) : bsUnits[i].sc = 4
    BY <1>2, <1>3, <1>6, <1>11
  <2>5. AvccIs
    BY <1>7, <2>2, <2>3, <2>4 DEF AvccIs
  <2> QED BY <1>4, <1>11, <2>5 DEF BsInv
<1>12. CASE bsMode # "avcc"
  <2>1. Holds(bsUnits, TRUE)
    BY <1>2, <1>3, <1>5, <1>12 DEF Holds
  <2>2. bsPos = Behind(bsUnits, TRUE, 0)
    BY <1>3, <2>1, AtStart
  <2>3. Inside(bsUnits, 0, bsPos)
    <3>1. bsPos \in Nat /\ bsPos <= Behind(bsUnits, TRUE, 0)
      <4>1. 1 <= 1 /\ 1 \in Nat
        OBVIOUS
      <4> QED BY <1>3, <2>2, <4>1, Zenon
    <3> QED BY <1>3, <1>7, <3>1, Zenon DEF Inside
  <2>4. StripIs
    <3>1. TRUE \in BOOLEAN
      OBVIOUS
    <3> QED BY <1>7, <1>8, <1>10, <2>1, <2>2, <3>1 DEF StripIs
  <2>5. ExtractIs
    BY <1>7, <1>8, <1>9, <2>1, <2>2 DEF ExtractIs
  <2>6. HasIs
    BY <1>7, <1>8, <1>9, <2>1, <2>3 DEF HasIs
  <2>7. KeyIs
    <3>1. bsOut.key <=> Met(bsUnits, 0, 5)
      BY <1>8, <1>9
    <3> QED BY <1>7, <2>1, <2>3, <3>1 DEF KeyIs
  <2> QED BY <1>4, <1>12, <2>4, <2>5, <2>6, <2>7 DEF BsInv
<1> QED BY <1>11, <1>12

\* Every step of every scanner keeps the invariant.
LEMMA BsStays ==
    ASSUME BsAssumption, BsInv, [BsNext]_bsVars
    PROVE  BsInv'
<1>1. CASE UNCHANGED bsVars
  BY <1>1 DEF bsVars, BsInv, BsTypes, StripIs, ExtractIs, HasIs, KeyIs, AvccIs, Holds
<1>2. CASE StripStep
  BY <1>2, StripGoes
<1>3. CASE ExtractStep
  BY <1>3, ExtractGoes
<1>4. CASE HasStep
  BY <1>4, HasGoes
<1>5. CASE KeyStep
  BY <1>5, KeyGoes
<1>6. CASE AvccStep
  BY <1>6, AvccGoes
<1>7. CASE AvccEnds
  BY <1>7, AvccTurns
<1> QED BY <1>1, <1>2, <1>3, <1>4, <1>5, <1>6, <1>7 DEF BsNext

\* Where the last of a type is, of all units.
LEMMA LastIs ==
    ASSUME NEW us \in Seq(Units), NEW type
    PROVE  LastIn(us, Len(us), type) = LastOf(us, type)
<1>1. DOMAIN us = 1..Len(us)
  OBVIOUS
<1>2. Fit(us, type) = {i \in 1..Len(us) : us[i].nal[1] = type}
  BY <1>1 DEF Fit
<1>3. LastIn(us, Len(us), type) = LastAmong(us, Fit(us, type))
  BY <1>2 DEF LastIn
<1> QED BY <1>3, Zenon DEF LastAmong, LastOf

\* The invariant gives what is promised of the scanners.
LEMMA BsAgrees ==
    ASSUME BsAssumption, BsInv
    PROVE  ScannersAgree
<1>1. SUFFICES ASSUME bsPos > Len(bsData)
               PROVE  /\ bsMode = "strip" => bsOut.bytes = Rest(bsUnits)
                      /\ bsMode = "extract" => bsOut.sps = LastOf(bsUnits, 7) /\ bsOut.pps = LastOf(bsUnits, 8)
                      /\ bsMode = "has" => (bsOut.sps # <<>> /\ bsOut.pps # <<>>)
                             = (Fit(bsUnits, 7) # {} /\ Fit(bsUnits, 8) # {})
                      /\ bsMode = "key" => bsOut.key = (Fit(bsUnits, 5) # {})
  BY DEF ScannersAgree
<1>2. BsTypes
  BY DEF BsInv
<1>3. bsUnits \in Seq(Units) /\ bsOut \in Outs /\ DOMAIN bsUnits = 1..Len(bsUnits) /\ Len(bsUnits) \in Nat
  BY <1>2 DEF BsTypes
<1>4. \A type : Met(bsUnits, Len(bsUnits), type) <=> Fit(bsUnits, type) # {}
  BY <1>3 DEF Met, Fit
<1>5. ASSUME bsMode = "strip" PROVE bsOut.bytes = Rest(bsUnits)
  <2>1. StripIs
    BY <1>5 DEF BsInv
  <2>2. PICK all \in BOOLEAN, k \in 0..Len(bsUnits) :
       /\ Holds(bsUnits, all) /\ bsPos = Behind(bsUnits, all, k)
       /\ bsOut.bytes = Grown(Pieces(bsUnits, FALSE))[k]
    BY <2>1 DEF StripIs
  <2>3. Holds(bsUnits, all)
    BY <2>2
  <2>4. Behind(bsUnits, all, k) > Len(bsData)
    BY <1>1, <2>2
  <2>5. \A x \in (k + 1)..Len(bsUnits) : Pieces(bsUnits, all)[x] = <<>>
    BY <2>3, <2>4, AllBehind
  <2>6. PICK j \in 0..Len(bsUnits) : j = Len(bsUnits) /\ k <= j
    <3>1. PICK n \in Nat : n = Len(bsUnits)
      BY <1>3
    <3>2. k \in 0..n /\ n \in 0..n /\ k <= n
      BY <3>1
    <3> QED BY <3>1, <3>2
  <2>7. \A x \in (k + 1)..j : Pieces(bsUnits, all)[x] = <<>>
    BY <2>5, <2>6
  <2>8. Grown(Pieces(bsUnits, FALSE))[j] = Grown(Pieces(bsUnits, FALSE))[k]
    BY <1>3, <2>6, <2>7, RestSkips
  <2>9. Pieces(bsUnits, FALSE) \in Seq(Seq(Nat)) /\ Len(Pieces(bsUnits, FALSE)) = Len(bsUnits)
    BY <1>3, PiecesAre
  <2>10. FlattenSeq(Pieces(bsUnits, FALSE)) = Grown(Pieces(bsUnits, FALSE))[Len(Pieces(bsUnits, FALSE))]
    BY <2>9, GrownIs
  <2>11. Rest(bsUnits) = FlattenSeq(Pieces(bsUnits, FALSE))
    BY DEF Rest, Pieces, Piece
  <2> QED BY <2>2, <2>6, <2>8, <2>9, <2>10, <2>11
<1>6. ASSUME bsMode = "extract" PROVE bsOut.sps = LastOf(bsUnits, 7) /\ bsOut.pps = LastOf(bsUnits, 8)
  <2>1. ExtractIs
    BY <1>6 DEF BsInv
  <2>2. Holds(bsUnits, TRUE)
    BY <2>1 DEF ExtractIs
  <2>3. PICK k \in 0..Len(bsUnits) :
          /\ bsPos = Behind(bsUnits, TRUE, k)
          /\ bsOut.sps = LastIn(bsUnits, k, 7) /\ bsOut.pps = LastIn(bsUnits, k, 8)
    BY <2>1 DEF ExtractIs
  <2>4. Behind(bsUnits, TRUE, k) > Len(bsData)
    BY <1>1, <2>3
  <2>5. k = Len(bsUnits)
    BY <2>2, <2>4, NoneLeft
  <2> QED BY <1>3, <2>3, <2>5, LastIs
<1>7. ASSUME bsMode = "has"
      PROVE  (bsOut.sps # <<>> /\ bsOut.pps # <<>>) = (Fit(bsUnits, 7) # {} /\ Fit(bsUnits, 8) # {})
  <2>1. HasIs
    BY <1>7 DEF BsInv
  <2>2. Holds(bsUnits, TRUE)
    BY <2>1 DEF HasIs
  <2>3. \A k \in 0..Len(bsUnits) : Inside(bsUnits, k, bsPos) => k = Len(bsUnits)
    BY <1>1, <2>2, InsideEnds
  <2>4. (bsOut.sps # <<>> /\ bsOut.pps # <<>>) <=> (Met(bsUnits, Len(bsUnits), 7) /\ Met(bsUnits, Len(bsUnits), 8))
    BY <2>1, <2>3 DEF HasIs
  <2> QED BY <1>4, <2>4
<1>8. ASSUME bsMode = "key" PROVE bsOut.key = (Fit(bsUnits, 5) # {})
  <2>1. KeyIs
    BY <1>8 DEF BsInv
  <2>2. Holds(bsUnits, TRUE)
    BY <2>1 DEF KeyIs
  <2>3. \A k \in 0..Len(bsUnits) : Inside(bsUnits, k, bsPos) => k = Len(bsUnits)
    BY <1>1, <2>2, InsideEnds
  <2>4. bsOut.key <=> Met(bsUnits, Len(bsUnits), 5)
    BY <2>1, <2>3, Zenon DEF KeyIs
  <2>5. bsOut.key \in BOOLEAN
    BY <1>3 DEF Outs
  <2>6. bsOut.key <=> Fit(bsUnits, 5) # {}
    BY <1>4, <2>4, Zenon
  <2> QED BY <2>5, <2>6
<1> QED BY <1>5, <1>6, <1>7, <1>8

-----------------------------------------------------------------------------
\* The packets of H.265

\* A multiple and the next one.
LEMMA TimesNext == \A k, r \in Nat : (k + 1) * r = k * r + r /\ k * r \in Nat
OBVIOUS

\* More times is not less.
LEMMA Larger == \A k, l, r \in Nat : k <= l => k * r <= l * r
OBVIOUS

\* What a division leaves is less than the divisor.
LEMMA Divides ==
    ASSUME NEW a \in Nat, NEW r \in Nat \ {0}
    PROVE  a \div r \in Nat /\ (a \div r) * r <= a /\ a < (a \div r) * r + r
OBVIOUS

\* What is left of a multiple and a rest is the rest.
LEMMA Leaves == \A q \in Nat, r \in Nat \ {0} : \A m \in 0..(r - 1) : (q * r + m) % r = m
OBVIOUS

\* The rest goes up by one, and around.
LEMMA Remains ==
    ASSUME NEW a \in Nat, NEW r \in Nat \ {0}
    PROVE  a % r \in 0..(r - 1) /\ ((a % r) + 1) % r = (a + 1) % r
<1>1. PICK q \in Nat : q * r <= a /\ a < q * r + r
  BY Divides
<1>2. PICK p \in Nat : p = q * r
  BY TimesNext
<1>3. PICK m \in 0..(r - 1) : a = p + m
  <2>1. a - p \in 0..(r - 1) /\ a = p + (a - p)
    BY <1>1, <1>2
  <2> QED BY <2>1
<1>4. a = q * r + m /\ a % r = m
  BY <1>2, <1>3, Leaves
<1>5. CASE m + 1 \in 0..(r - 1)
  <2>1. a + 1 = q * r + (m + 1)
    BY <1>4, TimesNext
  <2>2. (q * r + (m + 1)) % r = m + 1
    BY <1>5, Leaves
  <2>3. (0 * r + (m + 1)) % r = m + 1
    BY <1>5, Leaves
  <2>4. 0 * r + (m + 1) = m + 1
    OBVIOUS
  <2> QED BY <1>4, <2>1, <2>2, <2>3, <2>4
<1>6. CASE m + 1 = r
  <2>1. a + 1 = (q + 1) * r + 0 /\ r = 1 * r + 0
    BY <1>4, <1>6, TimesNext
  <2>2. ((q + 1) * r + 0) % r = 0 /\ (1 * r + 0) % r = 0
    <3>1. 0 \in 0..(r - 1) /\ q + 1 \in Nat /\ 1 \in Nat
      OBVIOUS
    <3> QED BY <3>1, Leaves
  <2> QED BY <1>4, <1>6, <2>1, <2>2
<1> QED BY <1>4, <1>5, <1>6

\* A number below the divisor is its own rest.
LEMMA Within == \A r \in Nat : \A a \in 0..(r - 1) : a % r = a
OBVIOUS

Loaded == [kind : {"single", "ap", "fu"}, units : Seq(Nat), s : BOOLEAN, e : BOOLEAN,
           from : Int, to : Int, size : Int]

\* Unit n is in a load; a load that the network takes.
In(n, l) == \E i \in DOMAIN l.units : l.units[i] = n
Small(l) == l.size <= HpMtu \/ Header + HpSetLen > HpMtu

\* Fragment k of the loads from a to z, which bring a unit of a length.
Part(l, n, len, a, z, k) ==
    /\ l[k].kind = "fu" /\ l[k].units = <<n>>
    /\ k = a => l[k].s /\ l[k].from = 1
    /\ l[k].e <=> k = z
    /\ k = z => l[k].to = len
    /\ k # z => l[k].to + 1 = l[k + 1].from

Room == HpMtu - Header - 1
Parts(u) == (u.len + Room - 1) \div Room
EndOf(u, k) == IF k = Parts(u) THEN u.len ELSE k * Room

\* What a load looks like.
LEMMA LoadedIs ==
    ASSUME NEW kind \in {"single", "ap", "fu"}, NEW units \in Seq(Nat), NEW s \in BOOLEAN, NEW e \in BOOLEAN,
           NEW from \in Int, NEW to \in Int, NEW size \in Int
    PROVE  [kind |-> kind, units |-> units, s |-> s, e |-> e, from |-> from, to |-> to, size |-> size] \in Loaded
BY DEF Loaded

\* The parts of a long unit: only the last reaches its end.
LEMMA PartsAre ==
    ASSUME HpAssumption, NEW u, u.len \in Nat, u.len # 0
    PROVE  /\ Room \in Nat \ {0} /\ Parts(u) \in Nat \ {0}
           /\ \A k \in 1..Parts(u) :
                 /\ k * Room \in Nat /\ (k - 1) * Room \in Nat /\ k * Room = (k - 1) * Room + Room
                 /\ k # Parts(u) => k * Room < u.len
                 /\ k = Parts(u) => k * Room >= u.len
<1>1. Room \in Nat \ {0}
  BY DEF Room, Header, HpAssumption
<1>2. PICK r \in Nat \ {0} : r = Room
  BY <1>1
<1>3. PICK len \in Nat \ {0} : len = u.len
  OBVIOUS
<1>4. PICK a \in Nat : a = len + r - 1
  OBVIOUS
<1>5. PICK c \in Nat : c = a \div r /\ c * r <= a /\ a < c * r + r
  BY Divides
<1>6. c = Parts(u)
  BY <1>2, <1>3, <1>4, <1>5 DEF Parts
<1>7. PICK q \in Nat : q = c * r
  BY TimesNext
<1>8. q >= len
  BY <1>4, <1>5, <1>7
<1>9. c # 0
  <2>1. 0 * r = 0
    OBVIOUS
  <2> QED BY <1>7, <1>8, <2>1
<1>10. ASSUME NEW k \in 1..c
       PROVE  /\ k * r \in Nat /\ (k - 1) * r \in Nat /\ k * r = (k - 1) * r + r
              /\ k # c => k * r < len
              /\ k = c => k * r >= len
  <2>1. PICK j \in Nat : j = k - 1 /\ j + 1 = k
    OBVIOUS
  <2>2. (j + 1) * r = j * r + r /\ j * r \in Nat
    BY TimesNext
  <2>3. k * r \in Nat /\ (k - 1) * r \in Nat /\ k * r = (k - 1) * r + r
    BY <2>1, <2>2
  <2>4. ASSUME k # c PROVE k * r < len
    <3>1. PICK y \in Nat : y = k * r
      BY <2>3
    <3>2. (k + 1) * r = y + r
      BY <3>1, TimesNext
    <3>3. k + 1 <= c /\ k + 1 \in Nat
      BY <2>4
    <3>4. (k + 1) * r <= c * r
      BY <3>3, Larger
    <3>5. y + r <= q /\ q <= len + r - 1
      BY <1>4, <1>5, <1>7, <3>2, <3>4
    <3> QED BY <3>1, <3>5
  <2>5. k = c => k * r >= len
    BY <1>7, <1>8
  <2> QED BY <2>3, <2>4, <2>5
<1> QED BY <1>1, <1>2, <1>3, <1>6, <1>9, <1>10

\* The fragments of a long unit follow each other and fit.
LEMMA FragmentsAre ==
    ASSUME HpAssumption, NEW u, u.len \in Nat, u.len # 0, NEW n \in Nat
    PROVE  /\ Fragments(n, u) \in Seq(Loaded) /\ Len(Fragments(n, u)) = Parts(u) /\ Parts(u) \in Nat \ {0}
           /\ \A k \in 1..Parts(u) : Part(Fragments(n, u), n, u.len, 1, Parts(u), k)
           /\ \A k \in 1..Parts(u) : Fragments(n, u)[k].size <= HpMtu
<1> DEFINE fun == Fragments(n, u)
<1>1. /\ Room \in Nat \ {0} /\ Parts(u) \in Nat \ {0}
      /\ \A k \in 1..Parts(u) :
                 /\ k * Room \in Nat /\ (k - 1) * Room \in Nat /\ k * Room = (k - 1) * Room + Room
                 /\ k # Parts(u) => k * Room < u.len
                 /\ k = Parts(u) => k * Room >= u.len
  BY PartsAre
<1>2. PICK c \in Nat \ {0} : c = Parts(u)
  BY <1>1
<1>3. fun = [k \in 1..c |-> [kind |-> "fu", units |-> <<n>>, s |-> k = 1, e |-> k * Room >= u.len,
                            from |-> (k - 1) * Room + 1, to |-> EndOf(u, k),
                            size |-> Header + 1 + EndOf(u, k) - (k - 1) * Room]]
  BY <1>2 DEF Fragments, Room, Parts, EndOf
<1>4. \A k \in 1..c : EndOf(u, k) \in Nat
  BY <1>1, <1>2 DEF EndOf
<1> HIDE DEF fun
<1>5. ASSUME NEW k \in 1..c
      PROVE  /\ fun[k].kind = "fu" /\ fun[k].units = <<n>> /\ fun[k].s = (k = 1) /\ fun[k].e = (k * Room >= u.len)
             /\ fun[k].from = (k - 1) * Room + 1 /\ fun[k].to = EndOf(u, k)
             /\ fun[k].size = Header + 1 + EndOf(u, k) - (k - 1) * Room
  BY <1>3
<1>6. ASSUME NEW k \in 1..c PROVE fun[k] \in Loaded
  <2>1. fun[k] = [kind |-> "fu", units |-> <<n>>, s |-> k = 1, e |-> k * Room >= u.len,
                from |-> (k - 1) * Room + 1, to |-> EndOf(u, k),
                size |-> Header + 1 + EndOf(u, k) - (k - 1) * Room]
    BY <1>3
  <2>2. (k - 1) * Room + 1 \in Int /\ EndOf(u, k) \in Int /\ Header + 1 + EndOf(u, k) - (k - 1) * Room \in Int
    <3>1. PICK x \in Nat : x = (k - 1) * Room
      BY <1>1, <1>2
    <3>2. PICK y \in Nat : y = EndOf(u, k)
      BY <1>4
    <3>3. x + 1 \in Int /\ y \in Int /\ Header + 1 + y - x \in Int
      BY DEF Header
    <3> QED BY <3>1, <3>2, <3>3
  <2>3. <<n>> \in Seq(Nat) /\ "fu" \in {"single", "ap", "fu"} /\ (k = 1) \in BOOLEAN /\ (k * Room >= u.len) \in BOOLEAN
    BY <1>1, <1>2
  <2>4. PICK from \in Int, to \in Int, size \in Int :
           from = (k - 1) * Room + 1 /\ to = EndOf(u, k) /\ size = Header + 1 + EndOf(u, k) - (k - 1) * Room
    BY <2>2
  <2>5. PICK b \in BOOLEAN, g \in BOOLEAN : b = (k = 1) /\ g = (k * Room >= u.len)
    BY <2>3
  <2>6. fun[k] = [kind |-> "fu", units |-> <<n>>, s |-> b, e |-> g, from |-> from, to |-> to, size |-> size]
    BY <2>1, <2>4, <2>5
  <2>7. PICK kind \in {"single", "ap", "fu"}, units \in Seq(Nat) : kind = "fu" /\ units = <<n>>
    BY <2>3
  <2>8. [kind |-> kind, units |-> units, s |-> b, e |-> g, from |-> from, to |-> to, size |-> size] \in Loaded
    BY LoadedIs
  <2> QED BY <2>6, <2>7, <2>8
<1>7. fun \in Seq(Loaded) /\ Len(fun) = c
  <2>1. DOMAIN fun = 1..c
    BY <1>3
  <2>2. fun = [k \in 1..c |-> fun[k]]
    BY <1>3, <2>1
  <2> QED BY <1>6, <2>2
<1>8. ASSUME NEW k \in 1..c PROVE Part(fun, n, u.len, 1, c, k)
  <2>1. fun[k].kind = "fu" /\ fun[k].units = <<n>>
    BY <1>5
  <2>2. ASSUME k = 1 PROVE fun[k].s /\ fun[k].from = 1
    <3>1. (k - 1) * Room + 1 = 1
      <4>1. k - 1 = 0 /\ 0 * Room = 0
        BY <1>1, <2>2
      <4> QED BY <4>1
    <3>2. fun[k].s = (k = 1) /\ fun[k].from = (k - 1) * Room + 1
      BY <1>5
    <3> QED BY <2>2, <3>1, <3>2
  <2>3. fun[k].e <=> k = c
    <3>1. fun[k].e = (k * Room >= u.len)
      BY <1>5
    <3>2. (k * Room >= u.len) <=> k = c
      BY <1>1, <1>2
    <3> QED BY <3>1, <3>2, Zenon
  <2>4. k = c => fun[k].to = u.len
    BY <1>2, <1>5 DEF EndOf
  <2>5. ASSUME k # c PROVE fun[k].to + 1 = fun[k + 1].from
    <3>1. PICK j \in 1..c : j = k + 1
      BY <2>5
    <3>2. fun[j].from = (j - 1) * Room + 1 /\ j - 1 = k
      BY <1>5, <3>1
    <3>3. fun[k].to = k * Room
      BY <1>2, <1>5, <2>5 DEF EndOf
    <3> QED BY <3>1, <3>2, <3>3
  <2> QED BY <2>1, <2>2, <2>3, <2>4, <2>5 DEF Part
<1>9. ASSUME NEW k \in 1..c PROVE fun[k].size <= HpMtu
  <2>1. fun[k].size = Header + 1 + EndOf(u, k) - (k - 1) * Room
    BY <1>5
  <2>2. PICK x \in Nat : x = (k - 1) * Room
    BY <1>1, <1>2
  <2>3. PICK y \in Nat : y = EndOf(u, k)
    BY <1>4
  <2>4. y <= x + Room
    <3>1. k * Room = x + Room
      BY <1>1, <1>2, <2>2
    <3>2. k # c => y = k * Room
      BY <1>2, <2>3 DEF EndOf
    <3>3. k = c => y <= k * Room
      BY <1>1, <1>2, <2>3 DEF EndOf
    <3>4. PICK z \in Nat : z = k * Room
      BY <1>1, <1>2
    <3> QED BY <3>1, <3>2, <3>3, <3>4
  <2>5. Header + 1 + y - x <= HpMtu
    BY <2>4 DEF Room, Header, HpAssumption
  <2> QED BY <2>1, <2>2, <2>3, <2>5
<1> QED BY <1>2, <1>7, <1>8, <1>9 DEF fun

Sets == {"vps", "sps", "pps"}
Apart(l) == \A i, j \in DOMAIN l.units : i # j => l.units[i] # l.units[j]

\* The parameter sets held back.
CacheIs(sent, cache) ==
    /\ cache \in [Sets -> Nat]
    /\ \A t \in Sets : cache[t] # 0 => cache[t] \in 1..Len(sent) /\ sent[cache[t]].type = t

\* What can be sent of them.
Batch(cache, g) ==
    /\ g \in Seq(Loaded)
    /\ \A i \in 1..Len(g) : /\ g[i].kind # "fu" /\ Small(g[i]) /\ Apart(g[i])
                            /\ \A x : In(x, g[i]) => \E t \in Sets : x = cache[t]
    /\ \A i, j \in 1..Len(g) : \A x : In(x, g[i]) /\ In(x, g[j]) => i = j
    /\ g = <<>> \/ \A t \in Sets : cache[t] # 0
    /\ g = <<>> => \E t \in Sets : cache[t] = 0

\* The parameter sets in the order they are sent.
LEMMA SetsAre == ToSet(HpSets) = Sets /\ HpSets[1] = "vps" /\ HpSets[2] = "sps" /\ HpSets[3] = "pps"
<1>1. DOMAIN HpSets = {1, 2, 3}
  <2>1. DOMAIN HpSets = 1..3
    BY DEF HpSets
  <2> QED BY <2>1
<1>2. HpSets[1] = "vps" /\ HpSets[2] = "sps" /\ HpSets[3] = "pps"
  BY DEF HpSets
<1> QED BY <1>1, <1>2 DEF ToSet, Sets

\* The three cached sets are three units.
LEMMA CachedApart ==
    ASSUME CacheIs(hpSent, hpCache), \A t \in Sets : hpCache[t] # 0, NEW i \in 1..3, NEW j \in 1..3,
           hpCache[HpSets[i]] = hpCache[HpSets[j]]
    PROVE  i = j
<1>1. HpSets[1] = "vps" /\ HpSets[2] = "sps" /\ HpSets[3] = "pps"
  BY SetsAre
<1>2. HpSets[i] \in Sets /\ HpSets[j] \in Sets
  BY <1>1 DEF Sets
<1>3. hpSent[hpCache[HpSets[i]]].type = HpSets[i] /\ hpSent[hpCache[HpSets[j]]].type = HpSets[j]
  BY <1>2 DEF CacheIs
<1>4. HpSets[i] = HpSets[j]
  BY <1>3
<1>5. i \in {1, 2, 3} /\ j \in {1, 2, 3}
  OBVIOUS
<1> QED BY <1>1, <1>4, <1>5

\* A load of whole units looks like its arguments.
LEMMA LoadIs ==
    ASSUME NEW kind \in {"single", "ap"}, NEW units \in Seq(Nat), NEW size \in Int
    PROVE  /\ Load(kind, units, size) \in Loaded /\ Load(kind, units, size).kind = kind
           /\ Load(kind, units, size).units = units /\ Load(kind, units, size).size = size
<1>1. PICK k \in {"single", "ap", "fu"} : k = kind
  OBVIOUS
<1>2. PICK b \in BOOLEAN : b = FALSE
  OBVIOUS
<1>3. PICK z \in Int : z = 0
  OBVIOUS
<1>4. [kind |-> k, units |-> units, s |-> b, e |-> b, from |-> z, to |-> z, size |-> size] \in Loaded
  BY LoadedIs
<1>5. Load(kind, units, size) \in Loaded
  BY <1>1, <1>2, <1>3, <1>4 DEF Load
<1> QED BY <1>5 DEF Load

\* The aggregate of the cached sets holds each once and fits.
LEMMA AggregateIs ==
    ASSUME HpAssumption, CacheIs(hpSent, hpCache)
    PROVE  Batch(hpCache, Aggregate)
<1>1. ToSet(HpSets) = Sets
  BY SetsAre
<1>2. CASE \E t \in Sets : hpCache[t] = 0
  <2>1. Aggregate = <<>>
    BY <1>1, <1>2 DEF Aggregate
  <2>2. <<>> \in Seq(Loaded) /\ Len(<<>>) = 0 /\ 1..0 = {}
    OBVIOUS
  <2> QED BY <1>2, <2>1, <2>2 DEF Batch
<1>3. CASE \A t \in Sets : hpCache[t] # 0
  <2> DEFINE w(i) == hpCache[HpSets[i]]
             size == Header + 3 * (2 + Header + HpSetLen)
  <2>1. \A i \in 1..3 : HpSets[i] \in Sets /\ w(i) \in Nat
    <3>1. \A i \in 1..3 : i = 1 \/ i = 2 \/ i = 3
      OBVIOUS
    <3>2. \A i \in 1..3 : HpSets[i] \in Sets
      BY <3>1, SetsAre DEF Sets
    <3> QED BY <3>2 DEF CacheIs
  <2>2. \A i, j \in 1..3 : w(i) = w(j) => i = j
    BY <1>3, CachedApart
  <2>3. size \in Int /\ Header + HpSetLen \in Int
    BY DEF Header, HpAssumption
  <2> HIDE DEF w, size
  <2>4. CASE size > HpMtu
    <3> DEFINE g == [i \in 1..3 |-> Load("single", <<w(i)>>, Header + HpSetLen)]
    <3>1. Aggregate = g
      BY <1>1, <1>3, <2>4 DEF Aggregate, size, w
    <3>2. ASSUME NEW i \in 1..3
          PROVE  /\ g[i] \in Loaded /\ g[i].kind = "single" /\ g[i].units = <<w(i)>> /\ g[i].size = Header + HpSetLen
      <4>1. PICK kind \in {"single", "ap"}, units \in Seq(Nat), z \in Int :
               kind = "single" /\ units = <<w(i)>> /\ z = Header + HpSetLen
        <5>1. <<w(i)>> \in Seq(Nat)
          BY <2>1
        <5> QED BY <2>3, <5>1
      <4>2. /\ Load(kind, units, z) \in Loaded /\ Load(kind, units, z).kind = kind
            /\ Load(kind, units, z).units = units /\ Load(kind, units, z).size = z
        BY LoadIs
      <4>3. g[i] = Load(kind, units, z)
        BY <4>1
      <4> QED BY <4>1, <4>2, <4>3
    <3>3. g \in Seq(Loaded) /\ Len(g) = 3 /\ g # <<>>
      BY <3>2
    <3> HIDE DEF g
    <3>4. ASSUME NEW i \in 1..3, NEW x PROVE In(x, g[i]) <=> x = w(i)
      BY <3>2 DEF In
    <3>5. ASSUME NEW i \in 1..3 PROVE Apart(g[i])
      BY <3>2 DEF Apart
    <3>6. ASSUME NEW i \in 1..3 PROVE Small(g[i])
      <4>1. PICK z \in Int : z = Header + HpSetLen
        BY <2>3
      <4>2. z <= HpMtu \/ z > HpMtu
        BY DEF HpAssumption
      <4> QED BY <3>2, <4>1, <4>2 DEF Small
    <3>7. \A i \in 1..3 : g[i].kind # "fu"
      BY <3>2
    <3>8. \A i \in 1..3 : \A x : In(x, g[i]) => \E t \in Sets : x = hpCache[t]
      BY <2>1, <3>4 DEF w
    <3>9. \A i, j \in 1..3 : \A x : In(x, g[i]) /\ In(x, g[j]) => i = j
      BY <2>2, <3>4
    <3> QED BY <1>3, <3>1, <3>3, <3>5, <3>6, <3>7, <3>8, <3>9 DEF Batch
  <2>5. CASE ~(size > HpMtu)
    <3> DEFINE us == [i \in 1..3 |-> w(i)]
               l == Load("ap", us, size)
    <3>1. Aggregate = <<l>>
      BY <1>1, <1>3, <2>5 DEF Aggregate, size, w
    <3>2. us \in Seq(Nat) /\ DOMAIN us = 1..3 /\ \A i \in 1..3 : us[i] = w(i)
      BY <2>1
    <3> HIDE DEF us
    <3>3. l \in Loaded /\ l.kind = "ap" /\ l.units = us /\ l.size = size
      <4>1. PICK kind \in {"single", "ap"} : kind = "ap"
        OBVIOUS
      <4> QED BY <2>3, <3>2, <4>1, LoadIs
    <3> HIDE DEF l
    <3>4. Apart(l)
      BY <2>2, <3>2, <3>3 DEF Apart
    <3>5. Small(l)
      BY <2>3, <2>5, <3>3 DEF Small, HpAssumption
    <3>6. \A x : In(x, l) => \E t \in Sets : x = hpCache[t]
      BY <2>1, <3>2, <3>3 DEF In, w
    <3>7. <<l>> \in Seq(Loaded) /\ Len(<<l>>) = 1 /\ <<l>>[1] = l /\ <<l>> # <<>> /\ \A i \in 1..1 : i = 1
      BY <3>3
    <3>8. l.kind # "fu"
      BY <3>3
    <3> QED BY <1>3, <3>1, <3>4, <3>5, <3>6, <3>7, <3>8 DEF Batch
  <2> QED BY <2>4, <2>5
<1> QED BY <1>2, <1>3

Sent == [type : HpTypes, len : Nat]

LoadsAre(sent, l) ==
    \A k \in 1..Len(l) :
       /\ Small(l[k]) /\ Apart(l[k]) /\ \A x : In(x, l[k]) => x \in 1..Len(sent)
       /\ l[k].kind = "fu" => \E n \in 1..Len(sent) : sent[n].type = "slice" /\ l[k].units = <<n>>

\* Slices are sent in order; anything else is in one load.
Ordered(sent, l) ==
    \A k, j \in 1..Len(l) : \A x, y :
       /\ In(x, l[k]) /\ In(y, l[j])
       /\ sent[x].type = "slice" /\ sent[y].type = "slice" /\ x < y
       => k < j
Once(sent, l) == \A k, j \in 1..Len(l) : \A x : In(x, l[k]) /\ In(x, l[j]) /\ sent[x].type # "slice" => k = j

\* A slice is in the loads from a to z: in one, or in its fragments.
Spanned(l, n, len, a, z) ==
    /\ a <= z /\ \A k \in 1..Len(l) : In(n, l[k]) <=> k \in a..z
    /\ \/ a = z /\ l[a].kind # "fu"
       \/ \A k \in a..z : Part(l, n, len, a, z, k)
Spans(sent, l) ==
    \A n \in 1..Len(sent) :
       sent[n].type = "slice" => \E a, z \in 1..Len(l) : Spanned(l, n, sent[n].len, a, z)

\* What is held back was not sent yet.
HeldBack(cache, l) == \A t \in Sets : cache[t] # 0 => \A k \in 1..Len(l) : ~In(cache[t], l[k])

Book(sent, cache, l) ==
    /\ sent \in Seq(Sent) /\ l \in Seq(Loaded)
    /\ CacheIs(sent, cache) /\ HeldBack(cache, l)
    /\ LoadsAre(sent, l) /\ Ordered(sent, l) /\ Once(sent, l) /\ Spans(sent, l)

Joined(m, l, g) ==
    /\ m \in Seq(Loaded) /\ Len(l) \in Nat /\ Len(g) \in Nat /\ Len(m) = Len(l) + Len(g)
    /\ \A k \in 1..Len(l) : k \in 1..Len(m) /\ m[k] = l[k]
    /\ \A i \in 1..Len(g) : Len(l) + i \in 1..Len(m) /\ m[Len(l) + i] = g[i]
    /\ \A k \in 1..Len(m) : k \in 1..Len(l) \/ \E i \in 1..Len(g) : k = Len(l) + i

\* Loads after loads are joined.
LEMMA JoinOf ==
    ASSUME NEW l \in Seq(Loaded), NEW g \in Seq(Loaded)
    PROVE  Joined(l \o g, l, g)
<1>1. l \o g \in Seq(Loaded) /\ Len(l) \in Nat /\ Len(g) \in Nat /\ Len(l \o g) = Len(l) + Len(g)
  OBVIOUS
<1>2. \A k \in 1..Len(l) : k \in 1..Len(l \o g) /\ (l \o g)[k] = l[k]
  OBVIOUS
<1>3. \A i \in 1..Len(g) : Len(l) + i \in 1..Len(l \o g) /\ (l \o g)[Len(l) + i] = g[i]
  OBVIOUS
<1>4. ASSUME NEW k \in 1..Len(l \o g) PROVE k \in 1..Len(l) \/ \E i \in 1..Len(g) : k = Len(l) + i
  <2>1. PICK a \in Nat, b \in Nat : a = Len(l) /\ b = Len(g) /\ k \in 1..(a + b)
    BY <1>1
  <2>2. k \in 1..a \/ (k - a \in 1..b /\ k = a + (k - a))
    BY <2>1
  <2> QED BY <2>1, <2>2
<1> QED BY <1>1, <1>2, <1>3, <1>4 DEF Joined

\* A span does not change where its unit is not added.
LEMMA SpanStays ==
    ASSUME NEW l \in Seq(Loaded), NEW g \in Seq(Loaded), NEW n, NEW len, NEW a \in 1..Len(l), NEW z \in 1..Len(l),
           Spanned(l, n, len, a, z), \A i \in 1..Len(g) : ~In(n, g[i])
    PROVE  a \in 1..Len(l \o g) /\ z \in 1..Len(l \o g) /\ Spanned(l \o g, n, len, a, z)
<1> DEFINE m == l \o g
<1>0. Joined(m, l, g)
  BY JoinOf
<1> HIDE DEF m
<1>1. /\ m \in Seq(Loaded) /\ Len(l) \in Nat /\ Len(g) \in Nat /\ Len(m) = Len(l) + Len(g)
      /\ \A k \in 1..Len(l) : k \in 1..Len(m) /\ m[k] = l[k]
      /\ \A i \in 1..Len(g) : Len(l) + i \in 1..Len(m) /\ m[Len(l) + i] = g[i]
      /\ \A k \in 1..Len(m) : k \in 1..Len(l) \/ \E i \in 1..Len(g) : k = Len(l) + i
  BY <1>0 DEF Joined
<1>2. a \in 1..Len(m) /\ z \in 1..Len(m)
  BY <1>1
<1>3. /\ a <= z /\ \A k \in 1..Len(l) : In(n, l[k]) <=> k \in a..z
      /\ \/ a = z /\ l[a].kind # "fu"
         \/ \A k \in a..z : Part(l, n, len, a, z, k)
  BY DEF Spanned
<1>4. ASSUME NEW k \in 1..Len(m) PROVE In(n, m[k]) <=> k \in a..z
  <2>1. CASE k \in 1..Len(l)
    BY <1>1, <1>3, <2>1
  <2>2. CASE \E i \in 1..Len(g) : k = Len(l) + i
    <3>1. PICK i \in 1..Len(g) : k = Len(l) + i
      BY <2>2
    <3>2. ~In(n, m[k])
      BY <1>1, <3>1
    <3>3. k \notin a..z
      BY <1>1, <3>1
    <3> QED BY <3>2, <3>3
  <2> QED BY <1>1, <2>1, <2>2
<1>5. CASE a = z /\ l[a].kind # "fu"
  <2>1. a = z /\ m[a].kind # "fu"
    BY <1>1, <1>5
  <2> QED BY <1>2, <1>3, <1>4, <2>1 DEF Spanned, m
<1>6. CASE \A k \in a..z : Part(l, n, len, a, z, k)
  <2>1. ASSUME NEW k \in a..z PROVE Part(m, n, len, a, z, k)
    <3>1. Part(l, n, len, a, z, k)
      BY <1>6
    <3>2. k \in 1..Len(l) /\ (k # z => k + 1 \in 1..Len(l))
      BY <1>1
    <3>3. m[k] = l[k] /\ (k # z => m[k + 1] = l[k + 1])
      BY <1>1, <3>2
    <3> QED BY <3>1, <3>3, Zenon DEF Part
  <2> QED BY <1>2, <1>3, <1>4, <2>1 DEF Spanned, m
<1> QED BY <1>3, <1>5, <1>6

\* The parameter sets are sent and no longer held back.
LEMMA BatchBooked ==
    ASSUME NEW sent, NEW cache, NEW l, NEW g, Book(sent, cache, l), Batch(cache, g), NEW none,
           none = IF \E t \in Sets : cache[t] = 0 THEN cache ELSE [t \in Sets |-> 0]
    PROVE  Book(sent, none, l \o g)
<1> DEFINE m == l \o g
<1>1. /\ sent \in Seq(Sent) /\ l \in Seq(Loaded)
      /\ CacheIs(sent, cache) /\ HeldBack(cache, l)
      /\ LoadsAre(sent, l) /\ Ordered(sent, l) /\ Once(sent, l) /\ Spans(sent, l)
  BY DEF Book
<1>2. g \in Seq(Loaded)
  BY DEF Batch
<1>3. Joined(m, l, g)
  BY <1>1, <1>2, JoinOf
<1>4. ASSUME NEW n \in 1..Len(sent), sent[n].type = "slice", NEW i \in 1..Len(g) PROVE ~In(n, g[i])
  <2>1. SUFFICES ASSUME In(n, g[i]) PROVE FALSE
    OBVIOUS
  <2>2. PICK t \in Sets : n = cache[t]
    BY <2>1 DEF Batch
  <2>3. n # 0
    OBVIOUS
  <2>4. sent[n].type = t
    BY <1>1, <2>2, <2>3 DEF CacheIs
  <2> QED BY <1>4, <2>4 DEF Sets
<1>5. Spans(sent, m)
  <2>1. ASSUME NEW n \in 1..Len(sent), sent[n].type = "slice"
        PROVE  \E a, z \in 1..Len(m) : Spanned(m, n, sent[n].len, a, z)
    <3>1. PICK a \in 1..Len(l), z \in 1..Len(l) : Spanned(l, n, sent[n].len, a, z)
      BY <1>1, <2>1 DEF Spans
    <3>2. \A i \in 1..Len(g) : ~In(n, g[i])
      BY <1>4, <2>1
    <3>3. PICK len : len = sent[n].len
      OBVIOUS
    <3>4. Spanned(l, n, len, a, z)
      BY <3>1, <3>3
    <3>5. a \in 1..Len(m) /\ z \in 1..Len(m) /\ Spanned(m, n, len, a, z)
      BY <1>1, <1>2, <3>2, <3>4, SpanStays
    <3> QED BY <3>3, <3>5
  <2> QED BY <2>1 DEF Spans
<1> HIDE DEF m
<1>6. /\ m \in Seq(Loaded) /\ Len(l) \in Nat /\ Len(g) \in Nat /\ Len(m) = Len(l) + Len(g)
      /\ \A k \in 1..Len(l) : k \in 1..Len(m) /\ m[k] = l[k]
      /\ \A i \in 1..Len(g) : Len(l) + i \in 1..Len(m) /\ m[Len(l) + i] = g[i]
      /\ \A k \in 1..Len(m) : k \in 1..Len(l) \/ \E i \in 1..Len(g) : k = Len(l) + i
  BY <1>3 DEF Joined
<1>7. \A i \in 1..Len(g) : \A x : In(x, g[i]) => x \in 1..Len(sent) /\ sent[x].type # "slice"
  <2>1. ASSUME NEW i \in 1..Len(g), NEW x, In(x, g[i]) PROVE x \in 1..Len(sent) /\ sent[x].type # "slice"
    <3>1. PICK t \in Sets : x = cache[t]
      BY <2>1 DEF Batch
    <3>2. g # <<>>
      BY <1>2, <2>1
    <3>3. cache[t] # 0
      BY <3>2 DEF Batch
    <3>4. x \in 1..Len(sent) /\ sent[x].type = t
      BY <1>1, <3>1, <3>3 DEF CacheIs
    <3> QED BY <3>4 DEF Sets
  <2> QED BY <2>1
<1>8. LoadsAre(sent, m)
  <2>1. ASSUME NEW k \in 1..Len(m)
        PROVE  /\ Small(m[k]) /\ Apart(m[k]) /\ \A x : In(x, m[k]) => x \in 1..Len(sent)
               /\ m[k].kind = "fu" => \E n \in 1..Len(sent) : sent[n].type = "slice" /\ m[k].units = <<n>>
    <3>1. CASE k \in 1..Len(l)
      BY <1>1, <1>6, <3>1 DEF LoadsAre
    <3>2. CASE \E i \in 1..Len(g) : k = Len(l) + i
      <4>1. PICK i \in 1..Len(g) : k = Len(l) + i
        BY <3>2
      <4>2. m[k] = g[i]
        BY <1>6, <4>1
      <4>3. g[i].kind # "fu" /\ Small(g[i]) /\ Apart(g[i])
        BY DEF Batch
      <4> QED BY <1>7, <4>2, <4>3
    <3> QED BY <1>6, <3>1, <3>2
  <2> QED BY <2>1 DEF LoadsAre
<1>9. Ordered(sent, m)
  <2>1. ASSUME NEW k \in 1..Len(m), NEW x, In(x, m[k]), sent[x].type = "slice" PROVE k \in 1..Len(l) /\ m[k] = l[k]
    BY <1>6, <1>7, <2>1
  <2> QED BY <1>1, <2>1 DEF Ordered
<1>10. Once(sent, m)
  <2>1. ASSUME NEW k \in 1..Len(m), NEW j \in 1..Len(m), NEW x, In(x, m[k]), In(x, m[j]), sent[x].type # "slice"
        PROVE  k = j
    <3>1. CASE k \in 1..Len(l) /\ j \in 1..Len(l)
      BY <1>1, <1>6, <2>1, <3>1 DEF Once
    <3>2. ASSUME NEW i \in 1..Len(g), NEW o \in 1..Len(l), In(x, g[i]), In(x, l[o]) PROVE FALSE
      <4>1. PICK t \in Sets : x = cache[t]
        BY <3>2 DEF Batch
      <4>2. g # <<>>
        BY <1>2, <3>2
      <4>3. cache[t] # 0
        BY <4>2 DEF Batch
      <4> QED BY <1>1, <3>2, <4>1, <4>3 DEF HeldBack
    <3>3. CASE \E i \in 1..Len(g) : k = Len(l) + i
      <4>1. PICK i \in 1..Len(g) : k = Len(l) + i
        BY <3>3
      <4>2. In(x, g[i])
        BY <1>6, <2>1, <4>1
      <4>3. j \notin 1..Len(l)
        BY <1>6, <2>1, <3>2, <4>2
      <4>4. PICK way \in 1..Len(g) : j = Len(l) + way
        BY <1>6, <4>3
      <4>5. In(x, g[way])
        BY <1>6, <2>1, <4>4
      <4>6. i = way
        BY <4>2, <4>5 DEF Batch
      <4> QED BY <4>1, <4>4, <4>6
    <3>4. CASE k \in 1..Len(l) /\ \E i \in 1..Len(g) : j = Len(l) + i
      BY <1>6, <2>1, <3>2, <3>4
    <3> QED BY <1>6, <3>1, <3>3, <3>4
  <2> QED BY <2>1 DEF Once
<1>11. CacheIs(sent, none) /\ HeldBack(none, m)
  <2>1. CASE \E t \in Sets : cache[t] = 0
    <3>1. g = <<>> /\ none = cache
      BY <2>1 DEF Batch
    <3>2. \A k \in 1..Len(m) : k \in 1..Len(l) /\ m[k] = l[k]
      <4>1. Len(g) = 0
        BY <3>1
      <4> QED BY <1>6, <4>1
    <3> QED BY <1>1, <3>1, <3>2 DEF HeldBack
  <2>2. CASE ~\E t \in Sets : cache[t] = 0
    <3>1. none = [t \in Sets |-> 0]
      BY <2>2
    <3> QED BY <3>1 DEF CacheIs, HeldBack
  <2> QED BY <2>1, <2>2
<1>12. Book(sent, none, m)
  BY <1>1, <1>5, <1>6, <1>8, <1>9, <1>10, <1>11 DEF Book
<1> QED BY <1>12 DEF m

\* A slice is sent, after all that was.
LEMMA SliceBooked ==
    ASSUME NEW sent, NEW cache, NEW l, NEW g, Book(sent, cache, l), NEW u \in Sent, u.type = "slice", NEW n, n = Len(sent) + 1,
           g \in Seq(Loaded), NEW c \in Nat \ {0}, c = Len(g),
           \A i \in 1..c : Small(g[i]) /\ g[i].units = <<n>>,
           (c = 1 /\ g[1].kind # "fu") \/ \A i \in 1..c : Part(g, n, u.len, 1, c, i)
    PROVE  Book(Append(sent, u), cache, l \o g)
<1> DEFINE m == l \o g  all == Append(sent, u)
<1>1. /\ sent \in Seq(Sent) /\ l \in Seq(Loaded)
      /\ CacheIs(sent, cache) /\ HeldBack(cache, l)
      /\ LoadsAre(sent, l) /\ Ordered(sent, l) /\ Once(sent, l) /\ Spans(sent, l)
  BY DEF Book
<1>2. /\ all \in Seq(Sent) /\ Len(sent) \in Nat /\ Len(all) = n /\ n \in 1..Len(all) /\ all[n] = u
      /\ \A i \in 1..Len(sent) : i \in 1..Len(all) /\ all[i] = sent[i] /\ i < n /\ i # n
      /\ \A i \in 1..Len(all) : i \in 1..Len(sent) \/ i = n
  BY <1>1
<1>3. Joined(m, l, g)
  BY <1>1, JoinOf
<1>4. \A i \in 1..c : Apart(g[i]) /\ \A x : In(x, g[i]) <=> x = n
  <2>1. ASSUME NEW i \in 1..c PROVE Apart(g[i]) /\ \A x : In(x, g[i]) <=> x = n
    <3>1. g[i].units = <<n>>
      OBVIOUS
    <3>2. DOMAIN <<n>> = {1} /\ <<n>>[1] = n
      OBVIOUS
    <3> QED BY <3>1, <3>2 DEF Apart, In
  <2> QED BY <2>1
<1>5. PICK b \in Nat : b = Len(l)
  BY <1>1
<1>6. ASSUME NEW o \in 1..Len(sent), sent[o].type = "slice"
      PROVE  \E a, z \in 1..Len(m) : Spanned(m, o, sent[o].len, a, z)
  <2>1. PICK a \in 1..Len(l), z \in 1..Len(l) : Spanned(l, o, sent[o].len, a, z)
    BY <1>1, <1>6 DEF Spans
  <2>2. \A i \in 1..Len(g) : ~In(o, g[i])
    BY <1>2, <1>4
  <2>3. PICK len : len = sent[o].len
    OBVIOUS
  <2>4. Spanned(l, o, len, a, z)
    BY <2>1, <2>3
  <2>5. a \in 1..Len(m) /\ z \in 1..Len(m) /\ Spanned(m, o, len, a, z)
    BY <1>1, <2>2, <2>4, SpanStays
  <2> QED BY <2>3, <2>5
<1> HIDE DEF m, all
<1>7. /\ m \in Seq(Loaded) /\ Len(m) = b + c
      /\ \A k \in 1..b : k \in 1..Len(m) /\ m[k] = l[k]
      /\ \A i \in 1..c : b + i \in 1..Len(m) /\ m[b + i] = g[i]
      /\ \A k \in 1..Len(m) : k \in 1..b \/ \E i \in 1..c : k = b + i
  BY <1>3, <1>5 DEF Joined
<1>8. \A k \in 1..b : ~In(n, l[k])
  BY <1>1, <1>2, <1>5 DEF LoadsAre
<1>9. Spans(all, m)
  <2>1. ASSUME NEW o \in 1..Len(all), all[o].type = "slice"
        PROVE  \E a, z \in 1..Len(m) : Spanned(m, o, all[o].len, a, z)
    <3>1. CASE o \in 1..Len(sent)
      BY <1>2, <1>6, <2>1, <3>1
    <3>2. CASE o = n
      <4>0. b + 1 \in 1..Len(m) /\ b + c \in 1..Len(m)
        BY <1>7
      <4>1. PICK a \in 1..Len(m), z \in 1..Len(m) : a = b + 1 /\ z = b + c
        BY <4>0
      <4>2. \A k \in 1..Len(m) : In(n, m[k]) <=> k \in a..z
        <5>1. ASSUME NEW k \in 1..Len(m) PROVE In(n, m[k]) <=> k \in a..z
          <6>1. CASE k \in 1..b
            BY <1>7, <1>8, <4>1, <6>1
          <6>2. CASE \E i \in 1..c : k = b + i
            <7>1. PICK i \in 1..c : k = b + i
              BY <6>2
            <7>2. m[k] = g[i]
              BY <1>7, <7>1
            <7>3. In(n, g[i])
              BY <1>4
            <7>4. k \in a..z
              <8>1. b + i \in (b + 1)..(b + c)
                OBVIOUS
              <8> QED BY <4>1, <7>1, <8>1
            <7> QED BY <7>2, <7>3, <7>4
          <6> QED BY <1>7, <6>1, <6>2
        <5> QED BY <5>1
      <4>3. a <= z
        BY <4>1
      <4>4. CASE c = 1 /\ g[1].kind # "fu"
        <5>1. a = z /\ m[a] = g[1]
          BY <1>7, <4>1, <4>4
        <5> QED BY <3>2, <4>2, <4>3, <4>4, <5>1 DEF Spanned
      <4>5. CASE \A i \in 1..c : Part(g, n, u.len, 1, c, i)
        <5>1. ASSUME NEW k \in a..z PROVE Part(m, n, u.len, a, z, k)
          <6>1. PICK i \in 1..c : k = b + i
            <7>1. k - b \in 1..c /\ k = b + (k - b)
              BY <4>1
            <7> QED BY <7>1
          <6>2. Part(g, n, u.len, 1, c, i)
            BY <4>5
          <6>3. m[k] = g[i] /\ (k = a <=> i = 1) /\ (k = z <=> i = c)
            BY <1>7, <4>1, <6>1
          <6>4. ASSUME k # z PROVE m[k + 1] = g[i + 1]
            <7>1. i + 1 \in 1..c /\ k + 1 = b + (i + 1)
              BY <6>1, <6>3, <6>4
            <7>2. m[b + (i + 1)] = g[i + 1]
              <8>1. PICK y \in 1..c : y = i + 1
                BY <7>1
              <8> QED BY <1>7, <8>1
            <7> QED BY <7>1, <7>2, Zenon
          <6> QED BY <6>2, <6>3, <6>4, Zenon DEF Part
        <5>2. Spanned(m, n, u.len, a, z)
          BY <4>2, <4>3, <5>1 DEF Spanned
        <5> QED BY <1>2, <3>2, <5>2
      <4> QED BY <1>2, <3>2, <4>4, <4>5
    <3> QED BY <1>2, <3>1, <3>2
  <2> QED BY <2>1 DEF Spans
<1>10. LoadsAre(all, m)
  <2>1. ASSUME NEW k \in 1..Len(m)
        PROVE  /\ Small(m[k]) /\ Apart(m[k]) /\ \A x : In(x, m[k]) => x \in 1..Len(all)
               /\ m[k].kind = "fu" => \E o \in 1..Len(all) : all[o].type = "slice" /\ m[k].units = <<o>>
    <3>1. CASE k \in 1..b
      <4>1. /\ Small(l[k]) /\ Apart(l[k]) /\ \A x : In(x, l[k]) => x \in 1..Len(sent)
            /\ l[k].kind = "fu" => \E o \in 1..Len(sent) : sent[o].type = "slice" /\ l[k].units = <<o>>
        BY <1>1, <1>5, <3>1 DEF LoadsAre
      <4> QED BY <1>2, <1>7, <3>1, <4>1
    <3>2. CASE \E i \in 1..c : k = b + i
      <4>1. PICK i \in 1..c : k = b + i
        BY <3>2
      <4>2. m[k] = g[i] /\ Small(g[i]) /\ Apart(g[i]) /\ (\A x : In(x, g[i]) <=> x = n) /\ g[i].units = <<n>>
        BY <1>4, <1>7, <4>1
      <4> QED BY <1>2, <4>2
    <3> QED BY <1>7, <3>1, <3>2
  <2> QED BY <2>1 DEF LoadsAre
<1>11. ASSUME NEW k \in 1..Len(m), NEW x, In(x, m[k])
       PROVE  \/ k \in 1..b /\ m[k] = l[k] /\ In(x, l[k]) /\ x \in 1..Len(sent) /\ all[x] = sent[x] /\ x # n
              \/ k > b /\ x = n
  <2>1. CASE k \in 1..b
    <3>1. m[k] = l[k]
      BY <1>7, <2>1
    <3>2. x \in 1..Len(sent)
      BY <1>1, <1>5, <1>11, <2>1, <3>1 DEF LoadsAre
    <3> QED BY <1>2, <1>11, <2>1, <3>1, <3>2
  <2>2. CASE \E i \in 1..c : k = b + i
    <3>1. PICK i \in 1..c : k = b + i
      BY <2>2
    <3>2. m[k] = g[i]
      BY <1>7, <3>1
    <3>3. x = n
      <4>1. In(x, g[i])
        BY <1>11, <3>2
      <4>2. g[i].units = <<n>> /\ DOMAIN <<n>> = {1} /\ <<n>>[1] = n
        OBVIOUS
      <4> QED BY <4>1, <4>2 DEF In
    <3>4. k > b
      BY <3>1
    <3> QED BY <3>3, <3>4
  <2> QED BY <1>7, <2>1, <2>2
<1>12. Ordered(all, m)
  <2>1. ASSUME NEW k \in 1..Len(m), NEW j \in 1..Len(m), NEW x, NEW y, In(x, m[k]), In(y, m[j]),
               all[x].type = "slice", all[y].type = "slice", x < y
        PROVE  k < j
    <3>1. CASE y = n
      <4>1. j > b
        BY <1>11, <2>1, <3>1
      <4>2. x # n
        BY <1>2, <2>1, <3>1
      <4>3. k \in 1..b
        BY <1>11, <2>1, <4>2
      <4> QED BY <4>1, <4>3
    <3>2. CASE y # n
      <4>1. j \in 1..b /\ m[j] = l[j] /\ In(y, l[j]) /\ y \in 1..Len(sent) /\ all[y] = sent[y]
        BY <1>11, <2>1, <3>2
      <4>2. x # n
        BY <1>2, <2>1, <4>1
      <4>3. k \in 1..b /\ m[k] = l[k] /\ In(x, l[k]) /\ x \in 1..Len(sent) /\ all[x] = sent[x]
        BY <1>11, <2>1, <4>2
      <4> QED BY <1>1, <1>5, <2>1, <4>1, <4>3 DEF Ordered
    <3> QED BY <3>1, <3>2
  <2> QED BY <2>1 DEF Ordered
<1>13. Once(all, m)
  <2>1. ASSUME NEW k \in 1..Len(m), NEW j \in 1..Len(m), NEW x, In(x, m[k]), In(x, m[j]), all[x].type # "slice"
        PROVE  k = j
    <3>1. x # n
      BY <1>2, <2>1
    <3>2. k \in 1..b /\ m[k] = l[k] /\ In(x, l[k]) /\ x \in 1..Len(sent) /\ all[x] = sent[x]
      BY <1>11, <2>1, <3>1
    <3>3. j \in 1..b /\ m[j] = l[j] /\ In(x, l[j])
      BY <1>11, <2>1, <3>1
    <3> QED BY <1>1, <1>5, <2>1, <3>2, <3>3 DEF Once
  <2> QED BY <2>1 DEF Once
<1>14. CacheIs(all, cache) /\ HeldBack(cache, m)
  <2>1. CacheIs(all, cache)
    BY <1>1, <1>2 DEF CacheIs
  <2>2. ASSUME NEW t \in Sets, cache[t] # 0, NEW k \in 1..Len(m) PROVE ~In(cache[t], m[k])
    <3>1. cache[t] \in 1..Len(sent) /\ cache[t] # n
      BY <1>1, <1>2, <2>2 DEF CacheIs
    <3>2. k \in 1..b => ~In(cache[t], l[k])
      BY <1>1, <1>5, <2>2 DEF HeldBack
    <3> QED BY <1>11, <3>1, <3>2
  <2> QED BY <2>1, <2>2 DEF HeldBack
<1>15. Book(all, cache, m)
  BY <1>2, <1>7, <1>9, <1>10, <1>12, <1>13, <1>14 DEF Book
<1> QED BY <1>15 DEF m, all

\* A unit that is sent later or not at all.
LEMMA OtherBooked ==
    ASSUME NEW sent, NEW cache, NEW l, Book(sent, cache, l), NEW u \in Sent, u.type # "slice", NEW n, n = Len(sent) + 1,
           NEW more, more = cache \/ (u.type \in Sets /\ more = [cache EXCEPT ![u.type] = n])
    PROVE  Book(Append(sent, u), more, l)
<1> DEFINE all == Append(sent, u)
<1>1. /\ sent \in Seq(Sent) /\ l \in Seq(Loaded)
      /\ CacheIs(sent, cache) /\ HeldBack(cache, l)
      /\ LoadsAre(sent, l) /\ Ordered(sent, l) /\ Once(sent, l) /\ Spans(sent, l)
  BY DEF Book
<1>2. /\ all \in Seq(Sent) /\ Len(sent) \in Nat /\ Len(all) = n /\ n \in Nat /\ n # 0 /\ n \in 1..Len(all) /\ all[n] = u
      /\ \A i \in 1..Len(sent) : i \in 1..Len(all) /\ all[i] = sent[i] /\ i # n
      /\ \A i \in 1..Len(all) : i \in 1..Len(sent) \/ i = n
  BY <1>1
<1> HIDE DEF all
<1>3. ASSUME NEW k \in 1..Len(l), NEW x, In(x, l[k]) PROVE x \in 1..Len(sent) /\ all[x] = sent[x] /\ x # n
  BY <1>1, <1>2, <1>3 DEF LoadsAre
<1>4. LoadsAre(all, l)
  <2>1. ASSUME NEW k \in 1..Len(l)
        PROVE  /\ Small(l[k]) /\ Apart(l[k]) /\ \A x : In(x, l[k]) => x \in 1..Len(all)
               /\ l[k].kind = "fu" => \E o \in 1..Len(all) : all[o].type = "slice" /\ l[k].units = <<o>>
    <3>1. /\ Small(l[k]) /\ Apart(l[k]) /\ \A x : In(x, l[k]) => x \in 1..Len(sent)
          /\ l[k].kind = "fu" => \E o \in 1..Len(sent) : sent[o].type = "slice" /\ l[k].units = <<o>>
      BY <1>1 DEF LoadsAre
    <3> QED BY <1>2, <3>1
  <2> QED BY <2>1 DEF LoadsAre
<1>5. Ordered(all, l)
  <2>1. ASSUME NEW k \in 1..Len(l), NEW j \in 1..Len(l), NEW x, NEW y, In(x, l[k]), In(y, l[j]),
               all[x].type = "slice", all[y].type = "slice", x < y
        PROVE  k < j
    <3>1. all[x] = sent[x] /\ all[y] = sent[y]
      BY <1>3, <2>1
    <3> QED BY <1>1, <2>1, <3>1 DEF Ordered
  <2> QED BY <2>1 DEF Ordered
<1>6. Once(all, l)
  <2>1. ASSUME NEW k \in 1..Len(l), NEW j \in 1..Len(l), NEW x, In(x, l[k]), In(x, l[j]), all[x].type # "slice"
        PROVE  k = j
    <3>1. all[x] = sent[x]
      BY <1>3, <2>1
    <3> QED BY <1>1, <2>1, <3>1 DEF Once
  <2> QED BY <2>1 DEF Once
<1>7. Spans(all, l)
  <2>1. ASSUME NEW o \in 1..Len(all), all[o].type = "slice"
        PROVE  \E a, z \in 1..Len(l) : Spanned(l, o, all[o].len, a, z)
    <3>1. o \in 1..Len(sent) /\ all[o] = sent[o]
      BY <1>2, <2>1
    <3> QED BY <1>1, <2>1, <3>1 DEF Spans
  <2> QED BY <2>1 DEF Spans
<1>8. CacheIs(all, cache)
  BY <1>1, <1>2 DEF CacheIs
<1>9. CacheIs(all, more) /\ HeldBack(more, l)
  <2>1. CASE more = cache
    BY <1>1, <1>8, <2>1
  <2>2. CASE u.type \in Sets /\ more = [cache EXCEPT ![u.type] = n]
    <3>1. more \in [Sets -> Nat] /\ more[u.type] = n /\ \A t \in Sets : t # u.type => more[t] = cache[t]
      BY <1>1, <1>2, <2>2 DEF CacheIs
    <3>2. CacheIs(all, more)
      <4>1. ASSUME NEW t \in Sets, more[t] # 0 PROVE more[t] \in 1..Len(all) /\ all[more[t]].type = t
        <5>1. CASE t = u.type
          BY <1>2, <3>1, <5>1
        <5>2. CASE t # u.type
          BY <1>8, <3>1, <4>1, <5>2 DEF CacheIs
        <5> QED BY <5>1, <5>2
      <4> QED BY <3>1, <4>1 DEF CacheIs
    <3>3. ASSUME NEW t \in Sets, more[t] # 0, NEW k \in 1..Len(l) PROVE ~In(more[t], l[k])
      <4>1. CASE t = u.type
        BY <1>3, <3>1, <4>1
      <4>2. CASE t # u.type
        BY <1>1, <3>1, <3>3, <4>2 DEF HeldBack
      <4> QED BY <4>1, <4>2
    <3> QED BY <3>2, <3>3 DEF HeldBack
  <2> QED BY <2>1, <2>2
<1>10. Book(all, more, l)
  BY <1>1, <1>2, <1>4, <1>5, <1>6, <1>7, <1>9 DEF Book
<1> QED BY <1>10 DEF all

\* What was sent: on the track and in the frame at hand.
Loads == [k \in DOMAIN hpPackets |-> hpPackets[k].load] \o hpFrame

Packets == [load : Loaded, seq : Nat, time : Nat, last : BOOLEAN]

HpKinds ==
    /\ hpFrame \in Seq(Loaded) /\ hpPackets \in Seq(Packets)
    /\ hpSeq \in 0..(HpSeqWidth - 1) /\ hpTime \in Nat

\* What goes on with the next number, at the next time.
Numbered ==
    hpPackets # <<>> =>
       LET p == hpPackets[Len(hpPackets)] IN (p.seq + 1) % HpSeqWidth = hpSeq /\ p.last /\ p.time < hpTime

HpInv == HpKinds /\ Book(hpSent, hpCache, Loads) /\ NumbersFollow /\ Numbered

\* What a slice is sent as.
LEMMA SliceIs ==
    ASSUME HpAssumption, NEW n \in Nat, NEW u \in Sent, u.len # 0
    PROVE  \E g \in Seq(Loaded), c \in Nat \ {0} :
              /\ g = (IF SizeOf(u) <= HpMtu THEN <<Load("single", <<n>>, SizeOf(u))>> ELSE Fragments(n, u))
              /\ c = Len(g) /\ \A i \in 1..c : Small(g[i]) /\ g[i].units = <<n>>
              /\ (c = 1 /\ g[1].kind # "fu") \/ \A i \in 1..c : Part(g, n, u.len, 1, c, i)
<1>1. u.len \in Nat
  BY DEF Sent
<1>2. CASE SizeOf(u) <= HpMtu
  <2>1. PICK kind \in {"single", "ap"}, units \in Seq(Nat), size \in Int : kind = "single" /\ units = <<n>> /\ size = SizeOf(u)
    <3>1. <<n>> \in Seq(Nat) /\ SizeOf(u) \in Int
      BY <1>1 DEF SizeOf, Header
    <3> QED BY <3>1
  <2> DEFINE l == Load(kind, units, size)
  <2>2. l \in Loaded /\ l.kind = kind /\ l.units = units /\ l.size = size
    BY LoadIs
  <2>3. l = Load("single", <<n>>, SizeOf(u))
    BY <2>1
  <2> HIDE DEF l
  <2>4. <<l>> \in Seq(Loaded) /\ Len(<<l>>) = 1 /\ <<l>>[1] = l /\ \A i \in 1..1 : i = 1
    BY <2>2
  <2>5. l.size <= HpMtu
    BY <1>2, <2>1, <2>2
  <2>6. Small(l) /\ l.units = <<n>> /\ l.kind # "fu"
    BY <2>1, <2>2, <2>5 DEF Small
  <2>7. PICK g \in Seq(Loaded) : g = <<l>>
    BY <2>4
  <2>8. 1 = Len(g) /\ (\A i \in 1..1 : Small(g[i]) /\ g[i].units = <<n>>) /\ g[1].kind # "fu"
    BY <2>4, <2>6, <2>7
  <2>9. g = (IF SizeOf(u) <= HpMtu THEN <<Load("single", <<n>>, SizeOf(u))>> ELSE Fragments(n, u))
    BY <1>2, <2>3, <2>7
  <2>10. 1 \in Nat \ {0}
    OBVIOUS
  <2> QED BY <2>8, <2>9, <2>10
<1>3. CASE ~(SizeOf(u) <= HpMtu)
  <2>1. /\ Fragments(n, u) \in Seq(Loaded) /\ Len(Fragments(n, u)) = Parts(u) /\ Parts(u) \in Nat \ {0}
        /\ \A k \in 1..Parts(u) : Part(Fragments(n, u), n, u.len, 1, Parts(u), k)
        /\ \A k \in 1..Parts(u) : Fragments(n, u)[k].size <= HpMtu
    BY <1>1, FragmentsAre
  <2>2. PICK g \in Seq(Loaded), c \in Nat \ {0} : g = Fragments(n, u) /\ c = Parts(u)
    BY <2>1
  <2>3. c = Len(g) /\ (\A i \in 1..c : Part(g, n, u.len, 1, c, i)) /\ \A i \in 1..c : g[i].size <= HpMtu
    BY <2>1, <2>2
  <2>4. \A i \in 1..c : Small(g[i]) /\ g[i].units = <<n>>
    BY <2>3 DEF Small, Part
  <2>5. g = (IF SizeOf(u) <= HpMtu THEN <<Load("single", <<n>>, SizeOf(u))>> ELSE Fragments(n, u))
    BY <1>3, <2>2
  <2> QED BY <2>3, <2>4, <2>5
<1> QED BY <1>2, <1>3

\* Nothing is sent or packed at the start.
LEMMA HpStarts ==
    ASSUME HpAssumption, HpInit
    PROVE  HpInv
<1>1. /\ hpSent = <<>> /\ hpCache = [t \in Sets |-> 0]
      /\ hpFrame = <<>> /\ hpPackets = <<>> /\ hpSeq \in {0, HpSeqWidth - 1} /\ hpTime = 0
  BY SetsAre DEF HpInit
<1>2. Loads = <<>>
  <2>1. [k \in DOMAIN <<>> |-> <<>>[k].load] = <<>>
    OBVIOUS
  <2> QED BY <1>1, <2>1 DEF Loads
<1>3. HpKinds
  BY <1>1 DEF HpKinds, HpAssumption
<1>4. Book(<<>>, [t \in Sets |-> 0], <<>>)
  <2>1. Len(<<>>) = 0 /\ 1..0 = {}
    OBVIOUS
  <2>2. <<>> \in Seq(Sent) /\ <<>> \in Seq(Loaded)
    OBVIOUS
  <2>3. CacheIs(<<>>, [t \in Sets |-> 0]) /\ HeldBack([t \in Sets |-> 0], <<>>)
    BY DEF CacheIs, HeldBack
  <2> QED BY <2>1, <2>2, <2>3 DEF Book, LoadsAre, Ordered, Once, Spans
<1>5. Book(hpSent, hpCache, Loads)
  BY <1>1, <1>2, <1>4
<1>6. NumbersFollow /\ Numbered
  BY <1>1 DEF NumbersFollow, Numbered
<1> QED BY <1>3, <1>5, <1>6 DEF HpInv

\* The loads of packets, one by one.
LEMMA LoadsOf ==
    ASSUME NEW s \in Seq(Packets), NEW o, o = [k \in DOMAIN s |-> s[k].load]
    PROVE  o \in Seq(Loaded) /\ Len(o) = Len(s) /\ \A k \in 1..Len(s) : o[k] = s[k].load
<1>1. DOMAIN s = 1..Len(s) /\ Len(s) \in Nat /\ \A k \in 1..Len(s) : s[k] \in Packets
  OBVIOUS
<1>2. \A k \in 1..Len(s) : s[k].load \in Loaded
  BY <1>1 DEF Packets
<1>3. o = [k \in 1..Len(s) |-> s[k].load]
  BY <1>1
<1>4. o \in [1..Len(s) -> Loaded]
  BY <1>2, <1>3
<1> QED BY <1>1, <1>3, <1>4

\* Loads of a frame that grows come after those sent.
LEMMA LoadsTogether ==
    ASSUME HpKinds, NEW g \in Seq(Loaded), hpPackets' = hpPackets, hpFrame' = hpFrame \o g
    PROVE  Loads' = Loads \o g
<1> DEFINE p == [k \in DOMAIN hpPackets |-> hpPackets[k].load]
<1>1. p \in Seq(Loaded) /\ hpFrame \in Seq(Loaded)
  <2>1. hpPackets \in Seq(Packets) /\ hpFrame \in Seq(Loaded)
    BY DEF HpKinds
  <2> QED BY <2>1, LoadsOf
<1>2. Loads' = p \o (hpFrame \o g)
  BY DEF Loads
<1>3. Loads = p \o hpFrame
  BY DEF Loads
<1> HIDE DEF p
<1>4. (p \o hpFrame) \o g = p \o (hpFrame \o g)
  BY <1>1, ConcatAssociative
<1> QED BY <1>2, <1>3, <1>4

\* A unit that is packed is booked, whatever its type and length.
LEMMA EmitGoes ==
    ASSUME HpAssumption, HpInv, NEW type \in HpTypes, NEW len \in Nat, type = "slice" => len # 0, Emit(type, len)
    PROVE  HpInv'
<1> DEFINE n == Len(hpSent) + 1
           u == [type |-> type, len |-> len]
           ps == IF type = "slice" THEN Slices(n, u) ELSE <<>>
<1>1. HpKinds /\ Book(hpSent, hpCache, Loads) /\ NumbersFollow /\ Numbered
  BY DEF HpInv
<1>2. /\ hpSent' = Append(hpSent, u) /\ hpFrame' = hpFrame \o ps
      /\ hpPackets' = hpPackets /\ hpSeq' = hpSeq /\ hpTime' = hpTime
      /\ hpCache' = CASE type \in Sets -> [hpCache EXCEPT ![type] = n]
                      [] type = "aud" -> hpCache
                      [] OTHER -> Cleared
  BY SetsAre, Zenon DEF Emit
<1>3. /\ hpSent \in Seq(Sent) /\ Loads \in Seq(Loaded)
      /\ CacheIs(hpSent, hpCache)
  BY <1>1 DEF Book
<1>4. n \in Nat /\ u \in Sent /\ u.type = type /\ u.len = len
  BY <1>3 DEF Sent
<1> HIDE DEF u, n
<1>5. ps \in Seq(Loaded) /\ Book(hpSent', hpCache', Loads \o ps)
  <2>1. CASE type = "slice"
    <3>1. PICK g \in Seq(Loaded), c \in Nat \ {0} :
              /\ g = (IF SizeOf(u) <= HpMtu THEN <<Load("single", <<n>>, SizeOf(u))>> ELSE Fragments(n, u))
              /\ c = Len(g) /\ \A i \in 1..c : Small(g[i]) /\ g[i].units = <<n>>
              /\ (c = 1 /\ g[1].kind # "fu") \/ \A i \in 1..c : Part(g, n, u.len, 1, c, i)
      BY <1>4, <2>1, SliceIs
    <3>2. PICK a : a = Aggregate
      OBVIOUS
    <3>3. Batch(hpCache, a)
      BY <1>3, <3>2, AggregateIs
    <3>4. a \in Seq(Loaded)
      BY <3>3 DEF Batch
    <3>5. ps = a \o g
      BY <2>1, <3>1, <3>2 DEF Slices
    <3>6. hpCache' = Cleared
      BY <1>2, <2>1 DEF Sets
    <3>7. PICK none : none = Cleared
      OBVIOUS
    <3>8. none = IF \E t \in Sets : hpCache[t] = 0 THEN hpCache ELSE [t \in Sets |-> 0]
      BY <3>7, SetsAre DEF Cleared
    <3>9. PICK m : m = Loads \o a
      OBVIOUS
    <3>10. Book(hpSent, none, m)
      BY <1>1, <3>3, <3>8, <3>9, BatchBooked
    <3>11. Book(Append(hpSent, u), none, m \o g)
      <4>1. u \in Sent /\ u.type = "slice" /\ n = Len(hpSent) + 1
        BY <1>4, <2>1 DEF n
      <4>2. PICK v \in Sent : v = u
        BY <4>1
      <4>3. PICK k : k = n
        OBVIOUS
      <4>4. v.type = "slice" /\ k = Len(hpSent) + 1
        BY <4>1, <4>2, <4>3
      <4>5. c = Len(g) /\ \A i \in 1..c : Small(g[i]) /\ g[i].units = <<k>>
        BY <3>1, <4>3
      <4>6. (c = 1 /\ g[1].kind # "fu") \/ \A i \in 1..c : Part(g, k, v.len, 1, c, i)
        BY <3>1, <4>2, <4>3
      <4>7. Book(Append(hpSent, v), none, m \o g)
        BY <3>10, <4>4, <4>5, <4>6, SliceBooked
      <4> QED BY <4>2, <4>7
    <3>12. m \o g = Loads \o ps
      <4>1. PICK l \in Seq(Loaded) : l = Loads
        BY <1>3
      <4>2. (l \o a) \o g = l \o (a \o g)
        BY <3>4, ConcatAssociative
      <4> QED BY <3>5, <3>9, <4>1, <4>2
    <3>13. a \o g \in Seq(Loaded)
      BY <3>4
    <3> HIDE DEF ps
    <3> QED BY <1>2, <3>5, <3>6, <3>7, <3>11, <3>12, <3>13
  <2>2. CASE type # "slice"
    <3>1. ps = <<>>
      BY <2>2
    <3>2. Loads \o <<>> = Loads /\ <<>> \in Seq(Loaded)
      BY <1>3
    <3>3. hpCache' = hpCache \/ (u.type \in Sets /\ hpCache' = [hpCache EXCEPT ![u.type] = n])
      BY <1>2, <1>4, <2>2 DEF HpTypes, Sets
    <3>4. PICK more : more = hpCache'
      OBVIOUS
    <3>5. PICK v \in Sent : v = u /\ v.type # "slice"
      BY <1>4, <2>2
    <3>6. PICK k : k = n /\ k = Len(hpSent) + 1
      BY DEF n
    <3>7. more = hpCache \/ (v.type \in Sets /\ more = [hpCache EXCEPT ![v.type] = k])
      BY <3>3, <3>4, <3>5, <3>6
    <3>8. v.type # "slice" /\ k = Len(hpSent) + 1
      BY <3>5, <3>6
    <3>9. Book(Append(hpSent, v), more, Loads)
      <4>1. v.type # "slice"
        BY <3>8
      <4>2. k = Len(hpSent) + 1
        BY <3>8
      <4>3. PICK l : l = Loads
        OBVIOUS
      <4>4. Book(hpSent, hpCache, l)
        BY <1>1, <4>3
      <4>5. Book(Append(hpSent, v), more, l)
        BY <3>7, <4>1, <4>2, <4>4, OtherBooked
      <4> QED BY <4>3, <4>5
    <3> HIDE DEF ps
    <3> QED BY <1>2, <3>1, <3>2, <3>4, <3>5, <3>9
  <2> QED BY <2>1, <2>2
<1> HIDE DEF ps
<1>6. Loads' = Loads \o ps
  BY <1>1, <1>2, <1>5, LoadsTogether
<1>7. Book(hpSent, hpCache, Loads)'
  BY <1>5, <1>6
<1>8. HpKinds'
  <2>1. hpFrame \in Seq(Loaded)
    BY <1>1 DEF HpKinds
  <2>2. hpFrame' \in Seq(Loaded)
    BY <1>2, <1>5, <2>1
  <2> QED BY <1>1, <1>2, <2>2 DEF HpKinds
<1>9. NumbersFollow' /\ Numbered'
  BY <1>1, <1>2 DEF NumbersFollow, Numbered
<1> QED BY <1>7, <1>8, <1>9 DEF HpInv

\* Loads that become packets stay booked and are numbered.
LEMMA SendGoes ==
    ASSUME HpAssumption, HpInv, SendUnit
    PROVE  HpInv'
<1> DEFINE fun == hpFrame  ps == Number(hpFrame)  all == hpPackets \o ps
<1>1. HpKinds /\ Book(hpSent, hpCache, Loads) /\ NumbersFollow /\ Numbered
  BY DEF HpInv
<1>2. /\ hpFrame # <<>> /\ hpFrame' = <<>> /\ hpPackets' = all
      /\ hpSeq' = (hpSeq + Len(hpFrame)) % HpSeqWidth /\ hpTime' = hpTime + 1
      /\ hpSent' = hpSent /\ hpCache' = hpCache
  BY DEF SendUnit
<1>3. /\ hpFrame \in Seq(Loaded) /\ hpPackets \in Seq(Packets)
      /\ hpSeq \in 0..(HpSeqWidth - 1) /\ hpTime \in Nat
  BY <1>1 DEF HpKinds
<1>4. PICK w \in Nat \ {0} : w = HpSeqWidth
  BY DEF HpAssumption
<1>5. PICK q \in 0..(w - 1) : q = hpSeq
  BY <1>3, <1>4
<1>6. PICK t \in Nat : t = hpTime
  BY <1>3
<1>7. PICK c \in Nat \ {0} : c = Len(hpFrame)
  BY <1>2, <1>3
<1>8. PICK b \in Nat : b = Len(hpPackets)
  BY <1>3
<1>9. ps = [k \in 1..c |-> [load |-> hpFrame[k], seq |-> (q + k - 1) % w, time |-> t, last |-> k = c]]
  BY <1>3, <1>4, <1>5, <1>6, <1>7 DEF Number
<1>10. ASSUME NEW k \in 1..c
       PROVE  /\ ps[k] \in Packets /\ ps[k].load = hpFrame[k] /\ ps[k].seq = (q + k - 1) % w /\ ps[k].time = t
              /\ ps[k].last = (k = c) /\ (q + k - 1) % w \in 0..(w - 1) /\ (((q + k - 1) % w) + 1) % w = (q + k) % w
  <2>1. PICK a \in Nat : a = q + k - 1 /\ a + 1 = q + k
    OBVIOUS
  <2>2. a % w \in 0..(w - 1) /\ ((a % w) + 1) % w = (a + 1) % w
    BY Remains
  <2>3. PICK r \in Nat : r = (q + k - 1) % w
    BY <2>1, <2>2
  <2>4. PICK l \in Loaded : l = hpFrame[k]
    BY <1>3, <1>7
  <2>5. PICK g \in BOOLEAN : g = (k = c)
    OBVIOUS
  <2>6. [load |-> l, seq |-> r, time |-> t, last |-> g] \in Packets
    BY DEF Packets
  <2>7. ps[k] = [load |-> l, seq |-> r, time |-> t, last |-> g]
    BY <1>9, <2>3, <2>4, <2>5
  <2> HIDE DEF ps
  <2>8. ps[k].load = l /\ ps[k].seq = r /\ ps[k].time = t /\ ps[k].last = g
    BY <2>7
  <2> QED BY <2>1, <2>2, <2>3, <2>4, <2>5, <2>6, <2>7, <2>8
<1>11. ps \in Seq(Packets) /\ Len(ps) = c
  <2>1. DOMAIN ps = 1..c
    BY <1>9
  <2>2. ps = [k \in 1..c |-> ps[k]]
    BY <1>9, <2>1
  <2> HIDE DEF ps
  <2>3. ps \in [1..c -> Packets]
    BY <1>10, <2>2
  <2> QED BY <2>3
<1> HIDE DEF ps
<1>12. /\ all \in Seq(Packets) /\ Len(all) = b + c
       /\ \A k \in 1..b : k \in 1..Len(all) /\ all[k] = hpPackets[k]
       /\ \A i \in 1..c : b + i \in 1..Len(all) /\ all[b + i] = ps[i]
  BY <1>3, <1>8, <1>11
<1>13. \A k \in 1..Len(all) : k \in 1..b \/ \E i \in 1..c : k = b + i
  <2>1. ASSUME NEW k \in 1..Len(all) PROVE k \in 1..b \/ \E i \in 1..c : k = b + i
    <3>1. k \in 1..b \/ (k - b \in 1..c /\ k = b + (k - b))
      BY <1>12
    <3> QED BY <3>1
  <2> QED BY <2>1
<1>14. Loads' = Loads
  <2> DEFINE o == [k \in DOMAIN hpPackets |-> hpPackets[k].load]  m == [k \in DOMAIN all |-> all[k].load]
  <2>1. o \in Seq(Loaded) /\ Len(o) = b /\ \A k \in 1..b : o[k] = hpPackets[k].load
    BY <1>3, <1>8, LoadsOf
  <2>3. m \in Seq(Loaded) /\ Len(m) = b + c /\ \A k \in 1..(b + c) : m[k] = all[k].load
    <3>1. PICK y \in Seq(Packets) : y = all
      BY <1>12
    <3>2. PICK x : x = m
      OBVIOUS
    <3>3. x = [k \in DOMAIN y |-> y[k].load]
      BY <3>1, <3>2
    <3>4. x \in Seq(Loaded) /\ Len(x) = Len(y) /\ \A k \in 1..Len(y) : x[k] = y[k].load
      BY <3>3, LoadsOf
    <3>5. Len(y) = b + c
      BY <1>12, <3>1
    <3> HIDE DEF m, all
    <3> QED BY <3>1, <3>2, <3>4, <3>5
  <2>4. Loads' = m
    <3>1. Loads' = m \o <<>>
      BY <1>2 DEF Loads
    <3> HIDE DEF m
    <3> QED BY <2>3, <3>1
  <2>5. Loads = o \o hpFrame
    BY DEF Loads
  <2> HIDE DEF o, m, all
  <2>6. o \o hpFrame \in Seq(Loaded) /\ Len(o \o hpFrame) = b + c
        /\ (\A k \in 1..b : (o \o hpFrame)[k] = o[k]) /\ \A i \in 1..c : (o \o hpFrame)[b + i] = hpFrame[i]
    <3>1. o \in Seq(Loaded) /\ Len(o) = b
      BY <2>1
    <3>2. PICK x \in Seq(Loaded) : x = o
      BY <3>1
    <3>3. Joined(x \o hpFrame, x, hpFrame)
      BY <1>3, JoinOf
    <3> QED BY <1>3, <1>7, <3>1, <3>2, <3>3 DEF Joined
  <2>7. ASSUME NEW k \in 1..(b + c) PROVE m[k] = (o \o hpFrame)[k]
    <3>1. CASE k \in 1..b
      <4>1. k \in 1..(b + c) /\ m[k] = all[k].load
        BY <2>3
      <4>2. all[k] = hpPackets[k]
        BY <1>12, <3>1
      <4>3. (o \o hpFrame)[k] = o[k]
        BY <2>6, <3>1
      <4>4. o[k] = hpPackets[k].load
        BY <2>1, <3>1
      <4> QED BY <4>1, <4>2, <4>3, <4>4
    <3>2. CASE \E i \in 1..c : k = b + i
      <4>1. PICK i \in 1..c : k = b + i
        BY <3>2
      <4>2. m[k] = ps[i].load /\ (o \o hpFrame)[k] = hpFrame[i]
        BY <1>12, <2>3, <2>6, <4>1
      <4> QED BY <1>10, <4>2
    <3> QED BY <1>12, <1>13, <3>1, <3>2
  <2>8. PICK j \in Seq(Loaded) : j = o \o hpFrame
    BY <2>6
  <2>9. m = j
    BY <2>3, <2>6, <2>7, <2>8, SameSequence
  <2> QED BY <2>4, <2>5, <2>8, <2>9
<1>15. Book(hpSent, hpCache, Loads)'
  BY <1>1, <1>2, <1>14
<1>16. HpKinds'
  <2>1. PICK a \in Nat : a = q + c
    OBVIOUS
  <2>2. a % w \in 0..(w - 1)
    BY Remains
  <2>3. hpSeq' \in 0..(HpSeqWidth - 1)
    BY <1>2, <1>4, <1>5, <1>7, <2>1, <2>2
  <2>4. hpFrame' \in Seq(Loaded) /\ hpTime' \in Nat
    BY <1>2, <1>3
  <2> QED BY <1>2, <1>12, <2>3, <2>4 DEF HpKinds
<1> HIDE DEF all
<1>17. Numbered'
  <2>1. c \in 1..c /\ b + c \in 1..Len(all)
    BY <1>12
  <2>2. all[b + c] = ps[c]
    BY <1>12, <2>1
  <2>3. (ps[c].seq + 1) % w = (q + c) % w /\ ps[c].last /\ ps[c].time = t
    <3>1. ps[c].last = (c = c)
      BY <1>10, <2>1
    <3>2. ps[c].last
      BY <3>1, Zenon
    <3> QED BY <1>10, <2>1, <3>2
  <2>4. t < t + 1
    OBVIOUS
  <2>5. hpPackets'[Len(hpPackets')] = ps[c]
    BY <1>2, <1>12, <2>2
  <2>6. hpSeq' = (q + c) % w /\ hpTime' = t + 1
    BY <1>2, <1>4, <1>5, <1>6, <1>7
  <2>7. HpSeqWidth = w /\ (ps[c].seq + 1) % HpSeqWidth = hpSeq' /\ ps[c].time < hpTime'
    BY <1>4, <2>3, <2>4, <2>6
  <2> QED BY <2>3, <2>5, <2>7, Zenon DEF Numbered
<1>18. NumbersFollow'
  <2>1. ASSUME NEW k \in 2..Len(all)
        PROVE  all[k].seq = (all[k - 1].seq + 1) % w /\ (all[k - 1].last <=> all[k].time # all[k - 1].time)
    <3>1. CASE k \in 1..b
      <4>1. k \in 2..Len(hpPackets) /\ all[k] = hpPackets[k] /\ all[k - 1] = hpPackets[k - 1]
        <5>1. k \in 2..b /\ k - 1 \in 1..b
          BY <3>1
        <5> QED BY <1>8, <1>12, <5>1
      <4>2. hpPackets[k].seq = (hpPackets[k - 1].seq + 1) % w
        BY <1>1, <1>4, <4>1 DEF NumbersFollow
      <4>3. hpPackets[k - 1].last <=> hpPackets[k].time # hpPackets[k - 1].time
        BY <1>1, <4>1, Zenon DEF NumbersFollow
      <4> QED BY <4>1, <4>2, <4>3, Zenon
    <3>2. CASE k = b + 1
      <4>1. 1 \in 1..c /\ b \in 1..b /\ k - 1 = b
        BY <3>2
      <4>2. all[k] = ps[1] /\ all[k - 1] = hpPackets[b]
        BY <1>12, <3>2, <4>1
      <4>3. hpPackets # <<>>
        BY <1>8, <4>1
      <4>4. (hpPackets[b].seq + 1) % w = q /\ hpPackets[b].last /\ hpPackets[b].time < t
        <5>1. (hpPackets[b].seq + 1) % w = q /\ hpPackets[b].time < t
          BY <1>1, <1>4, <1>5, <1>6, <1>8, <4>3 DEF Numbered
        <5>2. hpPackets[b].last
          BY <1>1, <1>8, <4>3, Zenon DEF Numbered
        <5> QED BY <5>1, <5>2
      <4>5. ps[1].seq = q /\ ps[1].time = t
        <5>1. q + 1 - 1 = q /\ q % w = q
          BY Within
        <5>2. ps[1].seq = (q + 1 - 1) % w /\ ps[1].time = t
          BY <1>10, <4>1
        <5> QED BY <5>1, <5>2
      <4>6. hpPackets[b].time # t
        <5>1. hpPackets[b].time \in Nat
          <6>1. hpPackets[b] \in Packets
            BY <1>3, <1>8, <4>1
          <6> QED BY <6>1 DEF Packets
        <5> QED BY <4>4, <5>1
      <4>7. all[k].seq = (all[k - 1].seq + 1) % w
        BY <4>2, <4>4, <4>5
      <4>8. all[k - 1].last /\ all[k].time # all[k - 1].time
        BY <4>2, <4>4, <4>5, <4>6
      <4> QED BY <4>7, <4>8, Zenon
    <3>3. CASE k > b + 1
      <4>1. PICK i \in 1..c : k - 1 = b + i /\ i + 1 \in 1..c /\ k = b + (i + 1) /\ i # c
        <5>1. k - 1 - b \in 1..c /\ k - 1 = b + (k - 1 - b) /\ (k - 1 - b) + 1 \in 1..c /\ k = b + ((k - 1 - b) + 1)
              /\ k - 1 - b # c
          BY <1>12, <3>3
        <5> QED BY <5>1
      <4>2. all[k - 1] = ps[i]
        BY <1>12, <4>1
      <4>3. all[k] = ps[i + 1]
        BY <1>12, <4>1
      <4>4. ps[i].seq = (q + i - 1) % w /\ (((q + i - 1) % w) + 1) % w = (q + i) % w /\ ps[i].time = t
        BY <1>10
      <4>5. ps[i].last = (i = c)
        BY <1>10
      <4>6. ~ps[i].last
        BY <4>1, <4>5, Zenon
      <4>7. ps[i + 1].seq = (q + i) % w /\ ps[i + 1].time = t
        <5>1. PICK way \in 1..c : way = i + 1 /\ q + way - 1 = q + i
          BY <4>1
        <5>2. ps[way].seq = (q + way - 1) % w /\ ps[way].time = t
          BY <1>10
        <5> QED BY <5>1, <5>2
      <4>8. all[k].seq = (all[k - 1].seq + 1) % w
        BY <4>2, <4>3, <4>4, <4>7
      <4>9. ~all[k - 1].last /\ all[k].time = all[k - 1].time
        BY <4>2, <4>3, <4>4, <4>6, <4>7
      <4> QED BY <4>8, <4>9, Zenon
    <3> QED BY <1>12, <3>1, <3>2, <3>3
  <2>2. HpSeqWidth = w /\ hpPackets' = all
    BY <1>2, <1>4 DEF all
  <2> QED BY <2>1, <2>2, Zenon DEF NumbersFollow
<1> QED BY <1>15, <1>16, <1>17, <1>18 DEF HpInv

\* Every step of the packer keeps its invariant.
LEMMA HpStays ==
    ASSUME HpAssumption, HpInv, [HpNext]_hpVars
    PROVE  HpInv'
<1>1. CASE UNCHANGED hpVars
  <2>1. UNCHANGED <<hpSent, hpCache, hpFrame, hpPackets, hpSeq, hpTime>>
    BY <1>1 DEF hpVars
  <2>2. HpKinds' /\ NumbersFollow' /\ Numbered' /\ Loads' = Loads
    BY <2>1 DEF HpInv, HpKinds, NumbersFollow, Numbered, Loads
  <2>3. Book(hpSent, hpCache, Loads)'
    BY <2>1, <2>2 DEF HpInv
  <2> QED BY <2>2, <2>3 DEF HpInv
<1>2. CASE SendUnit
  BY <1>2, SendGoes
<1>3. ASSUME NEW t \in HpTypes, NEW l \in IF t \in ToSet(HpSets) \cup {"aud"} THEN {HpSetLen} ELSE HpLengths, Emit(t, l)
      PROVE  HpInv'
  <2>1. l \in Nat /\ (t = "slice" => l # 0)
    <3>1. t = "slice" => t \notin ToSet(HpSets) \cup {"aud"}
      BY SetsAre DEF Sets
    <3> QED BY <3>1 DEF HpAssumption
  <2> QED BY <1>3, <2>1, EmitGoes
<1> QED BY <1>1, <1>2, <1>3 DEF HpNext

\* Load k of what was written to the track.
Sending(k) == hpPackets[k].load

\* All of slice n is in the loads from a to z, and nowhere else.
Arrived(n, a, z) ==
    /\ a \in 1..Len(hpPackets) /\ z \in 1..Len(hpPackets) /\ a <= z
    /\ \A k \in 1..Len(hpPackets) : In(n, Sending(k)) <=> k \in a..z
    /\ \/ a = z /\ Sending(a).kind # "fu"
       \/ \A k \in a..z :
             /\ Sending(k).kind = "fu" /\ Sending(k).units = <<n>>
             /\ k = a => Sending(k).s /\ Sending(k).from = 1
             /\ Sending(k).e <=> k = z
             /\ k = z => Sending(k).to = hpSent[n].len
             /\ k # z => Sending(k).to + 1 = Sending(k + 1).from

\* Between frames the packets carry all loads.
LEMMA TrackIs ==
    ASSUME HpInv, hpFrame = <<>>
    PROVE  /\ DOMAIN hpPackets = 1..Len(hpPackets) /\ Len(hpPackets) \in Nat /\ Len(Loads) = Len(hpPackets)
           /\ \A k \in 1..Len(hpPackets) : Loads[k] = Sending(k) /\ Sending(k) \in Loaded
<1> DEFINE o == [k \in DOMAIN hpPackets |-> hpPackets[k].load]
<1>1. hpPackets \in Seq(Packets)
  BY DEF HpInv, HpKinds
<1>2. o \in Seq(Loaded) /\ Len(o) = Len(hpPackets) /\ \A k \in 1..Len(hpPackets) : o[k] = hpPackets[k].load
  BY <1>1, LoadsOf
<1>3. Loads = o \o <<>>
  BY DEF Loads
<1> HIDE DEF o
<1>4. Loads = o
  BY <1>2, <1>3
<1>5. DOMAIN hpPackets = 1..Len(hpPackets) /\ Len(hpPackets) \in Nat
  BY <1>1
<1>6. \A k \in 1..Len(hpPackets) : o[k] \in Loaded
  BY <1>2, <1>5
<1> QED BY <1>2, <1>4, <1>5, <1>6 DEF Sending

\* A slice lies in consecutive packets.
LEMMA SliceArrived ==
    ASSUME HpInv, hpFrame = <<>>, NEW n \in 1..Len(hpSent), hpSent[n].type = "slice"
    PROVE  \E a, z \in 1..Len(hpPackets) : Arrived(n, a, z)
<1>1. /\ Len(hpPackets) \in Nat /\ Len(Loads) = Len(hpPackets)
      /\ \A k \in 1..Len(hpPackets) : Loads[k] = Sending(k)
  BY TrackIs
<1>2. PICK a \in 1..Len(Loads), z \in 1..Len(Loads) : Spanned(Loads, n, hpSent[n].len, a, z)
  BY DEF HpInv, Book, Spans
<1>3. a <= z /\ (\A k \in 1..Len(Loads) : In(n, Loads[k]) <=> k \in a..z)
      /\ ((a = z /\ Loads[a].kind # "fu") \/ \A k \in a..z : Part(Loads, n, hpSent[n].len, a, z, k))
  BY <1>2 DEF Spanned
<1>4. \A k \in 1..Len(hpPackets) : In(n, Sending(k)) <=> k \in a..z
  BY <1>1, <1>3
<1>5. CASE a = z /\ Loads[a].kind # "fu"
  BY <1>1, <1>2, <1>3, <1>4, <1>5 DEF Arrived
<1>6. CASE \A k \in a..z : Part(Loads, n, hpSent[n].len, a, z, k)
  <2>1. ASSUME NEW k \in a..z
        PROVE  /\ Sending(k).kind = "fu" /\ Sending(k).units = <<n>>
               /\ k = a => Sending(k).s /\ Sending(k).from = 1
               /\ Sending(k).e <=> k = z
               /\ k = z => Sending(k).to = hpSent[n].len
               /\ k # z => Sending(k).to + 1 = Sending(k + 1).from
    <3>1. Part(Loads, n, hpSent[n].len, a, z, k)
      BY <1>6
    <3>2. k \in 1..Len(hpPackets) /\ (k # z => k + 1 \in 1..Len(hpPackets))
      BY <1>1
    <3>3. Loads[k] = Sending(k) /\ (k # z => Loads[k + 1] = Sending(k + 1))
      BY <1>1, <3>2
    <3> QED BY <3>1, <3>3, Zenon DEF Part
  <2> QED BY <1>1, <1>2, <1>3, <1>4, <2>1 DEF Arrived
<1> QED BY <1>1, <1>2, <1>3, <1>5, <1>6

\* What is complete with a packet is what is in it, or nothing yet.
LEMMA CompletesIs ==
    ASSUME HpInv, hpFrame = <<>>, NEW k \in 1..Len(hpPackets)
    PROVE  /\ Completes(k) = Sending(k).units \/ (Completes(k) = <<>> /\ Sending(k).kind = "fu")
           /\ Sending(k).kind = "fu" /\ Completes(k) # <<>> => Sending(k).e
           /\ Sending(k).units \in Seq(Nat)
<1>1. CASE Sending(k).kind # "fu"
  <2>1. Completes(k) = Sending(k).units
    BY <1>1 DEF Completes, Sending
  <2>2. Sending(k).units \in Seq(Nat)
    BY TrackIs DEF Loaded
  <2> QED BY <1>1, <2>1, <2>2
<1>2. CASE Sending(k).kind = "fu"
  <2>1. PICK n \in 1..Len(hpSent) : Sending(k).units = <<n>>
    <3>1. Loads[k] = Sending(k) /\ k \in 1..Len(Loads)
      BY TrackIs
    <3> QED BY <1>2, <3>1 DEF HpInv, Book, LoadsAre
  <2>2. Sending(k).units[1] = n
    BY <2>1
  <2>3. ~Sending(k).e => Completes(k) = <<>>
    BY <1>2 DEF Completes, Sending
  <2>4. Completes(k) = <<n>> \/ Completes(k) = <<>>
    <3>1. Completes(k) = <<Sending(k).units[1]>> \/ Completes(k) = <<>>
      BY <1>2, Zenon DEF Completes, Sending
    <3> QED BY <2>2, <3>1
  <2>5. <<n>> \in Seq(Nat)
    <3>1. n \in Nat
      OBVIOUS
    <3> QED BY <3>1
  <2> QED BY <1>2, <2>1, <2>3, <2>4, <2>5
<1> QED BY <1>1, <1>2

\* A packet that brings a unit carries it, or its end.
LEMMA BroughtIn ==
    ASSUME HpInv, hpFrame = <<>>, NEW n, NEW k \in Brings(n)
    PROVE  /\ k \in 1..Len(hpPackets) /\ In(n, Sending(k))
           /\ Sending(k).kind = "fu" => Sending(k).e
<1>1. k \in 1..Len(hpPackets) /\ n \in ToSet(Completes(k))
  BY TrackIs DEF Brings
<1>2. PICK i \in DOMAIN Completes(k) : Completes(k)[i] = n
  BY <1>1 DEF ToSet
<1>3. Completes(k) # <<>>
  <2>1. DOMAIN <<>> = {}
    OBVIOUS
  <2> QED BY <1>2, <2>1
<1>4. Completes(k) = Sending(k).units /\ (Sending(k).kind = "fu" => Sending(k).e)
  BY <1>1, <1>3, CompletesIs
<1>5. In(n, Sending(k))
  BY <1>2, <1>4 DEF In
<1> QED BY <1>1, <1>4, <1>5

\* A slice comes back with the last of its packets.
LEMMA LastBrings ==
    ASSUME HpInv, hpFrame = <<>>, NEW n \in 1..Len(hpSent), NEW a, NEW z, Arrived(n, a, z)
    PROVE  Brings(n) = {z}
<1>1. /\ a \in 1..Len(hpPackets) /\ z \in 1..Len(hpPackets) /\ a <= z
      /\ \A k \in 1..Len(hpPackets) : In(n, Sending(k)) <=> k \in a..z
  BY DEF Arrived
<1>2. CASE a = z /\ Sending(a).kind # "fu"
  <2>1. ASSUME NEW k \in Brings(n) PROVE k = z
    <3>1. k \in 1..Len(hpPackets) /\ In(n, Sending(k))
      BY BroughtIn
    <3>2. k \in a..z
      BY <1>1, <3>1
    <3> QED BY <1>1, <1>2, <3>2
  <2>2. z \in Brings(n)
    <3>1. In(n, Sending(z))
      BY <1>1
    <3>2. Completes(z) = Sending(z).units
      BY <1>2 DEF Completes, Sending
    <3>3. n \in ToSet(Completes(z))
      BY <3>1, <3>2 DEF In, ToSet
    <3>4. z \in DOMAIN hpPackets
      BY <1>1, TrackIs
    <3> QED BY <3>3, <3>4 DEF Brings
  <2> QED BY <2>1, <2>2
<1>3. CASE \A k \in a..z :
             /\ Sending(k).kind = "fu" /\ Sending(k).units = <<n>>
             /\ k = a => Sending(k).s /\ Sending(k).from = 1
             /\ Sending(k).e <=> k = z
             /\ k = z => Sending(k).to = hpSent[n].len
             /\ k # z => Sending(k).to + 1 = Sending(k + 1).from
  <2>1. ASSUME NEW k \in Brings(n) PROVE k = z
    <3>1. k \in 1..Len(hpPackets) /\ In(n, Sending(k)) /\ (Sending(k).kind = "fu" => Sending(k).e)
      BY BroughtIn
    <3>2. k \in a..z
      BY <1>1, <3>1
    <3>3. Sending(k).kind = "fu"
      BY <1>3, <3>2
    <3>4. Sending(k).e <=> k = z
      BY <1>3, <3>2, Zenon
    <3> QED BY <3>1, <3>3, <3>4, Zenon
  <2> DEFINE mine == {j \in 1..z : Sending(j).kind = "fu" /\ Sending(j).units = <<n>>}
  <2>2. a..z \subseteq 1..z /\ a \in a..z /\ z \in a..z
    BY <1>1
  <2>3. \A j \in a..z : j \in mine
    BY <1>3, <2>2
  <2>4. \A j \in mine : j \in a..z
    <3>1. ASSUME NEW j \in mine PROVE j \in a..z
      <4>1. j \in 1..Len(hpPackets)
        BY <1>1, TrackIs
      <4>2. In(n, Sending(j))
        <5>1. Sending(j).units = <<n>> /\ DOMAIN <<n>> = {1} /\ <<n>>[1] = n
          OBVIOUS
        <5> QED BY <5>1 DEF In
      <4> QED BY <1>1, <4>1, <4>2
    <3> QED BY <3>1
  <2> HIDE DEF mine
  <2>5. \E j \in mine : Sending(j).s /\ Sending(j).from = 1
    <3>1. a \in mine
      BY <2>2, <2>3
    <3>2. Sending(a).s /\ Sending(a).from = 1
      BY <1>3, <2>2, Zenon
    <3> QED BY <3>1, <3>2
  <2>6. ASSUME NEW j \in mine, Sending(j).to # hpSent[n].len
        PROVE  \E i \in mine : Sending(i).from = Sending(j).to + 1
    <3>1. j \in a..z
      BY <2>4
    <3>2. j # z
      BY <1>3, <2>6, <3>1
    <3>3. PICK i \in a..z : i = j + 1
      BY <1>1, <3>1, <3>2
    <3>4. Sending(j).to + 1 = Sending(j + 1).from
      BY <1>3, <3>1, <3>2
    <3>5. i \in mine /\ Sending(i).from = Sending(j).to + 1
      BY <2>3, <3>3, <3>4
    <3> QED BY <3>5
  <2>7. Sending(z).kind = "fu" /\ Sending(z).units = <<n>> /\ Sending(z).to = hpSent[n].len
    BY <1>3, <2>2
  <2>8. Sending(z).e
    BY <1>3, <2>2, Zenon
  <2>9. Sending(z).units[1] = n
    BY <2>7
  <2>10. Completes(z) = <<n>>
    <3>1. Completes(z) =
             IF /\ \E j \in mine : Sending(j).s /\ Sending(j).from = 1
                /\ \A j \in mine : Sending(j).to # hpSent[n].len => \E i \in mine : Sending(i).from = Sending(j).to + 1
                /\ Sending(z).to = hpSent[n].len
             THEN <<n>> ELSE <<>>
      <4> DEFINE first(x) == {j \in 1..z : Sending(j).kind = "fu" /\ Sending(j).units = <<x>>}
                 whole(x) == /\ \E j \in first(x) : Sending(j).s /\ Sending(j).from = 1
                             /\ \A j \in first(x) : Sending(j).to # hpSent[x].len
                                   => \E i \in first(x) : Sending(i).from = Sending(j).to + 1
                             /\ Sending(z).to = hpSent[x].len
      <4>1. Completes(z) = IF Sending(z).kind # "fu" THEN Sending(z).units
                           ELSE IF ~Sending(z).e THEN <<>>
                           ELSE IF whole(Sending(z).units[1]) THEN <<Sending(z).units[1]>> ELSE <<>>
        BY Zenon DEF Completes, Sending, Unit
      <4>2. Completes(z) = IF whole(Sending(z).units[1]) THEN <<Sending(z).units[1]>> ELSE <<>>
        <5> HIDE DEF whole
        <5> QED BY <2>7, <2>8, <4>1, Zenon
      <4>3. Completes(z) = IF whole(n) THEN <<n>> ELSE <<>>
        <5> HIDE DEF whole
        <5> QED BY <2>9, <4>2, Zenon
      <4> QED BY <4>3, Zenon DEF mine
    <3> QED BY <2>5, <2>6, <2>7, <3>1
  <2>11. n \in ToSet(Completes(z))
    <3>1. DOMAIN <<n>> = {1} /\ <<n>>[1] = n
      OBVIOUS
    <3> QED BY <2>10, <3>1 DEF ToSet
  <2>12. z \in DOMAIN hpPackets
    BY <1>1, TrackIs
  <2>13. z \in Brings(n)
    BY <2>11, <2>12 DEF Brings
  <2> QED BY <2>1, <2>13
<1> QED BY <1>2, <1>3 DEF Arrived

\* The invariant gives that units come back from the packets.
LEMMA AllComeBack ==
    ASSUME HpInv
    PROVE  UnitsComeBack
<1> DEFINE slices == {n \in DOMAIN hpSent : Unit(n).type = "slice"}
<1>1. SUFFICES ASSUME hpFrame = <<>>
      PROVE  /\ \A n \in slices : Brings(n) # {}
             /\ \A n, m \in slices : n < m => \A k \in Brings(n), l \in Brings(m) : k < l
             /\ \A n \in DOMAIN hpSent : \A k, l \in Brings(n) : k = l
             /\ \A k \in DOMAIN hpPackets : \A i, j \in DOMAIN Completes(k) :
                   i # j => Completes(k)[i] # Completes(k)[j]
  BY DEF UnitsComeBack
<1>2. DOMAIN hpSent = 1..Len(hpSent) /\ Len(hpSent) \in Nat
  BY DEF HpInv, Book
<1>3. /\ DOMAIN hpPackets = 1..Len(hpPackets) /\ Len(Loads) = Len(hpPackets)
      /\ \A k \in 1..Len(hpPackets) : Loads[k] = Sending(k)
  BY <1>1, TrackIs
<1>4. LoadsAre(hpSent, Loads) /\ Ordered(hpSent, Loads) /\ Once(hpSent, Loads)
  BY DEF HpInv, Book
<1>5. ASSUME NEW n \in 1..Len(hpSent), hpSent[n].type = "slice" PROVE \E z : Brings(n) = {z}
  <2>1. PICK a \in 1..Len(hpPackets), z \in 1..Len(hpPackets) : Arrived(n, a, z)
    BY <1>1, <1>5, SliceArrived
  <2>2. Brings(n) = {z}
    BY <1>1, <2>1, LastBrings
  <2> QED BY <2>2
<1>6. ASSUME NEW n, NEW k \in Brings(n) PROVE k \in 1..Len(Loads) /\ In(n, Loads[k])
  BY <1>1, <1>3, BroughtIn
<1>7. ASSUME NEW n \in slices PROVE Brings(n) # {}
  BY <1>2, <1>5 DEF Unit
<1>8. ASSUME NEW n \in slices, NEW m \in slices, n < m, NEW k \in Brings(n), NEW l \in Brings(m) PROVE k < l
  <2>1. hpSent[n].type = "slice" /\ hpSent[m].type = "slice"
    BY DEF Unit
  <2>2. k \in 1..Len(Loads) /\ In(n, Loads[k]) /\ l \in 1..Len(Loads) /\ In(m, Loads[l])
    BY <1>6
  <2> QED BY <1>4, <1>8, <2>1, <2>2 DEF Ordered
<1>9. ASSUME NEW n \in DOMAIN hpSent, NEW k \in Brings(n), NEW l \in Brings(n) PROVE k = l
  <2>1. CASE hpSent[n].type = "slice"
    BY <1>2, <1>5, <2>1
  <2>2. CASE hpSent[n].type # "slice"
    <3>1. k \in 1..Len(Loads) /\ In(n, Loads[k]) /\ l \in 1..Len(Loads) /\ In(n, Loads[l])
      BY <1>6
    <3> QED BY <1>4, <2>2, <3>1 DEF Once
  <2> QED BY <2>1, <2>2
<1>10. ASSUME NEW k \in DOMAIN hpPackets, NEW i \in DOMAIN Completes(k), NEW j \in DOMAIN Completes(k), i # j
       PROVE  Completes(k)[i] # Completes(k)[j]
  <2>1. k \in 1..Len(hpPackets)
    BY <1>3
  <2>2. Completes(k) = Sending(k).units \/ Completes(k) = <<>>
    BY <1>1, <2>1, CompletesIs
  <2>3. DOMAIN <<>> = {}
    OBVIOUS
  <2>4. Completes(k) = Loads[k].units
    BY <1>3, <2>1, <2>2, <2>3
  <2>5. Apart(Loads[k])
    BY <1>3, <1>4, <2>1 DEF LoadsAre
  <2> QED BY <1>10, <2>4, <2>5 DEF Apart
<1> HIDE DEF slices
<1> QED BY <1>7, <1>8, <1>9, <1>10

\* The invariant gives that packets fit.
LEMMA AllFit ==
    ASSUME HpInv
    PROVE  PacketsFit
<1> DEFINE o == [k \in DOMAIN hpPackets |-> hpPackets[k].load]
<1>1. hpPackets \in Seq(Packets) /\ hpFrame \in Seq(Loaded)
  BY DEF HpInv, HpKinds
<1>2. o \in Seq(Loaded) /\ Len(o) = Len(hpPackets) /\ \A k \in 1..Len(hpPackets) : o[k] = hpPackets[k].load
  BY <1>1, LoadsOf
<1>3. Loads = o \o hpFrame
  BY DEF Loads
<1> HIDE DEF o
<1>4. ASSUME NEW k \in DOMAIN hpPackets PROVE Small(hpPackets[k].load)
  <2>1. k \in 1..Len(o) /\ k \in 1..Len(hpPackets)
    BY <1>1, <1>2
  <2>2. k \in 1..Len(o \o hpFrame) /\ (o \o hpFrame)[k] = o[k]
    BY <1>1, <1>2, <2>1
  <2>3. Small(Loads[k])
    BY <1>3, <2>2 DEF HpInv, Book, LoadsAre
  <2> QED BY <1>2, <1>3, <2>1, <2>2, <2>3
<1> QED BY <1>4 DEF PacketsFit, Small

-----------------------------------------------------------------------------
\* The whole

\* The services alone step, so their invariant holds of the whole.
LEMMA TpHolds == MCSpec => []TpInv
<1>1. MCInit => TpInit
  BY DEF MCInit
<1>2. [MCNext]_vars => [TpNext]_tpVars
  BY DEF MCNext, Alone, vars
<1> QED
  BY <1>1, <1>2, TpStarts, TpSteps, PTL DEF MCSpec

\* The sessions of playback alone step, so their invariant holds of the whole.
LEMMA UaHolds == MCSpec => []UaInv
<1>1. MCInit => UaInit
  BY DEF MCInit
<1>2. [MCNext]_vars => [UaNext]_uaVars
  BY DEF MCNext, Alone, vars
<1> QED
  BY <1>1, <1>2, UaStarts, UaSteps, PTL DEF MCSpec

\* The tasks of the connection alone step, so their invariant holds of the whole.
LEMMA PeHolds == MCSpec => []PeInv
<1>1. MCInit => PeInit
  BY DEF MCInit
<1>2. [MCNext]_vars => [PeNext]_peVars
  BY DEF MCNext, Alone, vars
<1> QED
  BY <1>1, <1>2, PeStarts, PeSteps, PTL DEF MCSpec

\* The listeners alone step, so their invariant holds of the whole.
LEMMA SlHolds == MCSpec => []SlInv
<1>1. MCInit => SlInit
  BY DEF MCInit
<1>2. [MCNext]_vars => [SlNext]_slVars
  BY DEF MCNext, Alone, vars
<1> QED
  BY <1>1, <1>2, SlStarts, SlSteps, PTL DEF MCSpec

\* The session and its viewer alone step, so their invariant holds of the whole.
LEMMA VnHolds == MCSpec => []VnInv
<1>1. MCInit => VnInit
  BY DEF MCInit
<1>2. [MCNext]_vars => [VnNext]_vnVars
  BY DEF MCNext, Alone, vars
<1> QED
  BY <1>1, <1>2, VnStarts, VnSteps, PTL DEF MCSpec

\* A status tells the task behind it, and what runs, and the codec connections
\* are served with, is what was stored last, for every interleaving of the
\* handlers of RustDesk, VNC and RTSP, with any failure and any client that
\* leaves (web/handlers/config/apply.rs and the three handlers): but where such
\* a client left a service half stopped or started, until that is put right, and
\* but for a RustDesk object whose configuration was updated.
THEOREM ServicesKeepTheirWord == MCSpec => []ThirdPartyPromise
BY TpHolds, TpPromised, PTL

\* No speech is kept for a target that does not read, and a rebuild of the gadget
\* finds the device closed but for a session that is just being dropped
\* (audio/uac/playback.rs).
THEOREM PlaybackKeepsItsWord == MCSpec => []UacPromise
BY UaHolds, UaPromised, PTL

\* Input of a RustDesk peer reaches the board only after a login on the same
\* connection, the streams end with its task, and no nonce is used twice under
\* one key, however answers, frames and new keys interleave
\* (rustdesk/connection.rs).
THEOREM RustDeskPeerKeepsItsWord == MCSpec => RustDeskPeerPromise
<1>1. [MCNext]_vars => [PeNext]_peVars
  BY DEF MCNext, Alone, vars
<1>2. MCSpec => NonceNeverReused
  BY <1>1, PeHolds, PeNonce, PTL DEF MCSpec, NonceNeverReused
<1> QED
  BY <1>2, PeHolds, PePromised, PTL DEF RustDeskPeerPromise

\* A VNC viewer gets what it asked for and can decode, and the host holds no
\* button it has released (vnc/mod.rs, vnc/rfb.rs); one client is served where
\* one is allowed, a place that was left comes back, and no two frames of an
\* RTSP connection carry one time stamp (rtsp/service.rs, rtsp/streaming.rs).
THEOREM ClientsKeepTheirWord == MCSpec => ClientsPromise
<1>1. [MCNext]_vars => [SlNext]_slVars
  BY DEF MCNext, Alone, vars
<1>2. MCSpec => StampsDiffer
  BY <1>1, SlHolds, SlMarks, PTL DEF MCSpec, StampsDiffer, SlStamps
<1> QED
  BY <1>2, SlHolds, SlPromised, VnHolds, VnPromised, PTL DEF ClientsPromise

\* The search alone steps, so its invariant holds of the whole.
LEMMA BgHolds == MCSpec => []BgInv
<1>1. MCInit => BgInit
  BY DEF MCInit
<1>2. [MCNext]_vars => [BgNext]_bgVars
  BY DEF MCNext, Alone, vars
<1>3. BgInit => BgInv
  BY BgAssumption, BgStarts
<1>4. BgInv /\ [BgNext]_bgVars => BgInv'
  BY BgAssumption, BgSteps
<1> QED
  BY <1>1, <1>2, <1>3, <1>4, PTL DEF MCSpec

\* The scanners alone step, so their invariant holds of the whole.
LEMMA BsHolds == MCSpec => []BsInv
<1>1. MCInit => BsInit
  BY DEF MCInit
<1>2. [MCNext]_vars => [BsNext]_bsVars
  BY DEF MCNext, Alone, vars
<1>3. BsInit => BsInv
  BY BsAssumption, BsStarts
<1>4. BsInv /\ [BsNext]_bsVars => BsInv'
  BY BsAssumption, BsStays
<1> QED
  BY <1>1, <1>2, <1>3, <1>4, PTL DEF MCSpec

\* The packer alone steps, so its invariant holds of the whole.
LEMMA HpHolds == MCSpec => []HpInv
<1>1. MCInit => HpInit
  BY DEF MCInit
<1>2. [MCNext]_vars => [HpNext]_hpVars
  BY DEF MCNext, Alone, vars
<1>3. HpInit => HpInv
  BY HpAssumption, HpStarts
<1>4. HpInv /\ [HpNext]_hpVars => HpInv'
  BY HpAssumption, HpStays
<1> QED
  BY <1>1, <1>2, <1>3, <1>4, PTL DEF MCSpec

\* The bridge that is chosen feeds the node and is the nearest, all scanners of a
\* stream agree on its units, and the units of H.265 come back from packets that
\* fit and are numbered without a gap (video/device/bridge.rs,
\* video/codec/h264_bitstream.rs, webrtc/h265_payloader.rs), for every topology,
\* stream and unit.
THEOREM VideoDataKeepsItsWord == MCSpec => []VideoDataPromise
<1>1. BgInv => BridgeFeedsNode /\ BridgeIsNearest /\ NoBridgeMissed
  BY BgAssumption, BgPromised
<1>2. BsInv => ScannersAgree
  BY BsAssumption, BsAgrees
<1>3. HpInv => UnitsComeBack /\ PacketsFit /\ NumbersFollow
  BY AllComeBack, AllFit DEF HpInv
<1>4. BgInv /\ BsInv /\ HpInv => VideoDataPromise
  BY <1>1, <1>2, <1>3 DEF VideoDataPromise
<1> QED
  BY BgHolds, BsHolds, HpHolds, <1>4, PTL

-----------------------------------------------------------------------------
\* The drive's volume

\* The tasks are those of the writers.
DvTasks == task = [w \in Writers |-> task[w]]
DvInv == DvTasks /\ dirty \in BOOLEAN /\ Marked

\* A volume no operation works on.
LEMMA DvStarts == DvInit => DvInv
<1> SUFFICES ASSUME DvInit PROVE DvInv
  OBVIOUS
<1>1. task = [w \in Writers |-> IdleWriter] /\ dirty = FALSE
  BY DEF DvInit
<1>2. IdleWriter.pc = "idle"
  BY DEF IdleWriter
<1> QED
  BY <1>1, <1>2 DEF DvInv, DvTasks, Marked, At

\* The end of an operation leaves its writer idle, and no other is disturbed.
LEMMA DvDoes ==
    ASSUME DvTasks, NEW w \in Writers, NEW t, Does(w, t)
    PROVE  /\ DvTasks'
           /\ task'[w] = t
           /\ \A v \in Writers \ {w} : task'[v] = task[v]
BY DEF DvTasks, Does

\* What is not the beginning or the end of an operation keeps the mark, and is a
\* step of an operation under way.
DvWithin(w) ==
    /\ ~At(w, "idle") /\ dirty' = dirty
    /\ \E t : Does(w, t)
LEMMA DvMiddle ==
    ASSUME NEW w \in Writers,
           \/ Descend(w) \/ Target(w)
           \/ FreeBitmap(w) \/ FreeFat(w) \/ Unlink(w)
           \/ AllocBitmap(w) \/ AllocFat(w) \/ Fill(w)
           \/ FindSlot(w) \/ Link(w) \/ Grow(w) \/ Fresh(w) \/ ClearEnds(w)
           \/ WriteEntry(w) \/ Created(w) \/ Abort(w)
    PROVE  DvWithin(w)
<1>1. CASE Descend(w)
  BY <1>1 DEF Descend, DvWithin, At, Failed
<1>2. CASE Target(w)
  BY <1>2 DEF Target, DvWithin, At, Failed
<1>3. CASE FreeBitmap(w)
  BY <1>3 DEF FreeBitmap, DvWithin, At, Failed
<1>4. CASE FreeFat(w)
  BY <1>4 DEF FreeFat, DvWithin, At
<1>5. CASE Unlink(w)
  BY <1>5 DEF Unlink, DvWithin, At
<1>6. CASE AllocBitmap(w)
  BY <1>6 DEF AllocBitmap, DvWithin, At, Failed
<1>7. CASE AllocFat(w)
  BY <1>7 DEF AllocFat, DvWithin, At
<1>8. CASE Fill(w)
  BY <1>8 DEF Fill, DvWithin, At
<1>9. CASE FindSlot(w)
  BY <1>9 DEF FindSlot, DvWithin, At, Failed
<1>10. CASE Link(w)
  BY <1>10 DEF Link, DvWithin, At
<1>11. CASE Grow(w)
  BY <1>11 DEF Grow, DvWithin, At
<1>12. CASE Fresh(w)
  BY <1>12 DEF Fresh, DvWithin, At
<1>13. CASE ClearEnds(w)
  BY <1>13 DEF ClearEnds, DvWithin, At
<1>14. CASE WriteEntry(w)
  BY <1>14 DEF WriteEntry, DvWithin, At
<1>15. CASE Created(w)
  BY <1>15 DEF Created, DvWithin, At, Failed
<1>16. CASE Abort(w)
  BY <1>16 DEF Abort, DvWithin, At, Failed
<1> QED
  BY <1>1, <1>2, <1>3, <1>4, <1>5, <1>6, <1>7, <1>8, <1>9, <1>10, <1>11, <1>12,
     <1>13, <1>14, <1>15, <1>16

\* What a step may do with the mark.
DvMark ==
    /\ volume' # volume => (dirty /\ dirty') \/ Recreate
    /\ dirty /\ ~dirty' =>
         \/ Recreate
         \/ /\ \E w \in Writers : At(w, "commit") /\ ~task[w].was
            /\ \A w \in Writers : At(w, "idle")'

\* A step of an operation is taken under the mark and keeps it.
LEMMA DvWithinKeeps ==
    ASSUME DvInv, NEW w \in Writers, DvWithin(w)
    PROVE  DvInv' /\ DvMark
<1>1. dirty /\ dirty' = dirty
  BY DEF DvInv, Marked, DvWithin
<1>2. PICK t : Does(w, t)
  BY DEF DvWithin
<1>3. DvTasks'
  BY <1>2, DvDoes DEF DvInv
<1> QED
  BY <1>1, <1>3 DEF DvInv, Marked, DvMark

\* One writer: its operation alone is under way.
LEMMA DvStep ==
    ASSUME \A v, w \in Writers : v = w, DvInv, [DvNext]_dvVars
    PROVE  DvInv' /\ (DvMark \/ UNCHANGED dvVars)
<1>1. CASE Recreate
  <2>1. task' = [w \in Writers |-> IdleWriter] /\ dirty' = FALSE
    BY <1>1 DEF Recreate
  <2>2. IdleWriter.pc = "idle"
    BY DEF IdleWriter
  <2>3. DvInv'
    BY <2>1, <2>2 DEF DvInv, DvTasks, Marked, At
  <2> QED
    BY <1>1, <2>3 DEF DvMark
<1>2. ASSUME NEW w \in Writers, NEW r \in Requests, Begin(w, r)
      PROVE  DvInv' /\ DvMark
  <2>1. dirty' = TRUE /\ UNCHANGED volume
    BY <1>2 DEF Begin
  <2>2. DvTasks'
    BY <1>2, DvDoes DEF Begin, DvInv
  <2> QED
    BY <2>1, <2>2 DEF DvInv, Marked, DvMark
<1>3. ASSUME NEW w \in Writers, Commit(w)
      PROVE  DvInv' /\ DvMark
  <2>1. Does(w, IdleWriter) /\ At(w, "commit") /\ UNCHANGED volume
    BY <1>3 DEF Commit
  <2>2. DvTasks' /\ task'[w] = IdleWriter
    BY <2>1, DvDoes DEF DvInv
  <2>3. IdleWriter.pc = "idle"
    BY DEF IdleWriter
  <2>4. \A v \in Writers : At(v, "idle")'
    BY <2>2, <2>3 DEF At
  <2>5. dirty' = IF task[w].was THEN dirty ELSE FALSE
    BY <1>3 DEF Commit
  <2>6. DvInv'
    BY <2>2, <2>4, <2>5 DEF DvInv, Marked
  <2> QED
    BY <2>1, <2>4, <2>5, <2>6 DEF DvMark
<1>4. ASSUME NEW w \in Writers, Steps(w)
      PROVE  DvInv' /\ DvMark
  BY <1>2, <1>3, <1>4, DvMiddle, DvWithinKeeps DEF Steps
<1>5. CASE UNCHANGED dvVars
  BY <1>5 DEF DvInv, DvTasks, Marked, At, dvVars
<1> QED
  BY <1>1, <1>4, <1>5 DEF DvNext

\* With one writer the mark covers every write to the drive's volume: whatever
\* fails or is cut short, bitmap, FAT and directories change only while the volume
\* is marked dirty, and the mark goes only when the operation that set it has done
\* its last write, or with a new image (begin_write_transaction and
\* finish_write_transaction, exfat/ops.rs).
THEOREM DriveWritesAreMarked ==
    ASSUME \A v, w \in Writers : v = w
    PROVE  DvSpec => []Marked /\ WritesAreMarked
<1>1. DvInv /\ [DvNext]_dvVars => DvInv'
  BY DvStep
<1>2. DvInv => Marked
  BY DEF DvInv
<1>3. DvInv /\ [DvNext]_dvVars => [DvMark]_dvVars
  BY DvStep
<1> QED
  BY <1>1, <1>2, <1>3, DvStarts, PTL DEF DvSpec, WritesAreMarked, DvMark
====
