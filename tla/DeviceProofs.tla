---- MODULE DeviceProofs ----
(***************************************************************************)
(* Proofs about the parts that follow a device or a process which comes    *)
(* and goes (MCDevices), for every value of the constants: an inductive    *)
(* invariant for each part, which holds in every behaviour since only the  *)
(* chosen part steps.                                                      *)
(***************************************************************************)
EXTENDS MCDevices, Integers, FiniteSetTheorems, SequenceTheorems, TLAPS

-----------------------------------------------------------------------------
\* The serial worker

\* The channel: what the callers put into it.
ChKinds == {"packet", "descriptor", "reset", "shutdown"}
ChCmds == [type : ChKinds, keys : SUBSET ChKeys, req : ChRequests \cup {0}]
ChNone(q, kinds) == \A i \in 1..Len(q) : q[i].type \notin kinds
ChOrdered(q) == \A i, j \in 1..Len(q) : i < j /\ q[i].type = "shutdown" => q[j].type # "reset"

\* The thread by its owner, and the runtime state by the thread.
ChOwned ==
    /\ chWorker = "off" <=> chLife = "idle" /\ ~chHandle
    /\ chLife \in {"closing", "joining"} => chHandle
    /\ chLife \in {"init", "join_init"} => ~chHandle
    /\ chTx => chHandle /\ chLife # "joining"
    /\ chWorker \in {"ending", "ended"} => chLife \in {"joining", "join_init"}
    /\ chWorker = "off" => ~chOnline /\ ~chInitialized
    /\ chWorker = "ended" => ~chInitialized
    /\ chInitialized \in BOOLEAN /\ portAlive \in BOOLEAN

\* The channel by the one who starts or stops the thread: the order to end is
\* behind the release of the keys.
ChQueued ==
    /\ chCommands \in Seq(ChCmds) /\ ChOrdered(chCommands)
    /\ chWorker = "ended" => chCommands = << >>
    /\ chLife \notin {"joining", "join_init"} => ChNone(chCommands, {"shutdown"})
    /\ chLife \in {"init", "join_init"} => ChNone(chCommands, {"packet", "descriptor", "reset"})

\* The keys are released, or will be, or a command was not carried out.
ChClean == ~chLoss => chip = {} /\ ChNone(chCommands, {"packet"})
ChReleased ==
    /\ chWorker = "off" \/ chLife \in {"init", "join_init"} => (~chLoss => chip = {})
    /\ chLife \in {"closing", "joining"} => ~ChNone(chCommands, {"reset"}) \/ ChClean
    /\ chWorker \in {"ending", "ended"} => ChClean

ChInv == ChTypeOK /\ ChOwned /\ ChQueued /\ ChReleased

\* Nothing runs at first.
LEMMA ChStarts == ChInit => ChInv
<1> SUFFICES ASSUME ChInit PROVE ChInv
  OBVIOUS
<1>1. chCommands \in Seq(ChCmds) /\ Len(chCommands) = 0
  BY EmptySeq DEF ChInit
<1>2. ChTypeOK
  BY DEF ChInit, ChTypeOK
<1>3. ChOwned
  BY DEF ChInit, ChOwned
<1>4. ChQueued
  BY <1>1 DEF ChInit, ChQueued, ChOrdered, ChNone
<1>5. ChReleased
  BY DEF ChInit, ChReleased
<1> QED BY <1>2, <1>3, <1>4, <1>5 DEF ChInv

\* A command is put behind the others.
LEMMA ChPuts ==
    ASSUME NEW q \in Seq(ChCmds), NEW c \in ChCmds
    PROVE  /\ Append(q, c) \in Seq(ChCmds) /\ Append(q, c) # << >>
           /\ \A kinds : ChNone(Append(q, c), kinds) <=> ChNone(q, kinds) /\ c.type \notin kinds
           /\ ChOrdered(q) /\ (c.type = "reset" => ChNone(q, {"shutdown"})) => ChOrdered(Append(q, c))
<1>1. PICK p : p = Append(q, c)
  OBVIOUS
<1>2. p \in Seq(ChCmds) /\ Len(p) = Len(q) + 1 /\ Len(q) \in Nat
  BY <1>1, AppendProperties, LenProperties
<1>3. p[Len(p)] = c /\ \A i \in 1..Len(q) : p[i] = q[i]
  BY <1>1, AppendProperties
<1>4. p # << >>
  BY <1>2, EmptySeq
<1>5. ASSUME NEW kinds PROVE ChNone(p, kinds) <=> ChNone(q, kinds) /\ c.type \notin kinds
  BY <1>2, <1>3 DEF ChNone
<1>6. ChOrdered(q) /\ (c.type = "reset" => ChNone(q, {"shutdown"})) => ChOrdered(p)
  BY <1>2, <1>3 DEF ChOrdered, ChNone
<1> QED BY <1>1, <1>2, <1>4, <1>5, <1>6

\* No command but orders to end, so no report.
LEMMA ChFewer == ASSUME NEW q, ChNone(q, {"packet", "descriptor", "reset"}) PROVE ChNone(q, {"packet"})
BY DEF ChNone

\* The first command is taken.
LEMMA ChTakes ==
    ASSUME NEW q \in Seq(ChCmds), q # << >>
    PROVE  /\ Head(q) \in ChCmds /\ Tail(q) \in Seq(ChCmds)
           /\ \A kinds : ChNone(q, kinds) <=> ChNone(Tail(q), kinds) /\ Head(q).type \notin kinds
           /\ ChOrdered(q) => ChOrdered(Tail(q)) /\ (Head(q).type = "shutdown" => ChNone(q, {"reset"}))
           /\ (~\E x \in ToSet(Tail(q)) : x.type = "packet") => ChNone(Tail(q), {"packet"})
<1>1. PICK t : t = Tail(q)
  OBVIOUS
<1>2. PICK h : h = Head(q)
  OBVIOUS
<1>3. t \in Seq(ChCmds) /\ Len(t) = Len(q) - 1 /\ Len(q) \in Nat /\ Len(q) >= 1
  BY <1>1, HeadTailProperties, LenProperties, EmptySeq
<1>4. h = q[1] /\ h \in ChCmds /\ \A i \in 1..Len(t) : t[i] = q[i + 1]
  BY <1>1, <1>2, <1>3, HeadTailProperties
<1>5. ASSUME NEW kinds PROVE ChNone(q, kinds) <=> ChNone(t, kinds) /\ h.type \notin kinds
  <2>1. ASSUME ChNone(q, kinds) PROVE ChNone(t, kinds) /\ h.type \notin kinds
    BY <1>3, <1>4, <2>1 DEF ChNone
  <2>2. ASSUME ChNone(t, kinds), h.type \notin kinds, NEW i \in 1..Len(q) PROVE q[i].type \notin kinds
    <3>1. CASE i = 1
      BY <1>4, <2>2, <3>1
    <3>2. CASE i # 1
      <4>1. PICK j \in 1..Len(t) : i = j + 1
        BY <1>3, <3>2
      <4> QED BY <1>4, <2>2, <4>1 DEF ChNone
    <3> QED BY <3>1, <3>2
  <2> QED BY <2>1, <2>2 DEF ChNone
<1>6. ASSUME ChOrdered(q) PROVE ChOrdered(t)
  <2> SUFFICES ASSUME NEW i \in 1..Len(t), NEW j \in 1..Len(t), i < j, t[i].type = "shutdown"
               PROVE  t[j].type # "reset"
    BY DEF ChOrdered
  <2>1. i + 1 \in 1..Len(q) /\ j + 1 \in 1..Len(q) /\ i + 1 < j + 1
    BY <1>3
  <2> QED BY <1>4, <1>6, <2>1 DEF ChOrdered
<1>7. ASSUME ChOrdered(q), h.type = "shutdown" PROVE ChNone(q, {"reset"})
  <2> SUFFICES ASSUME NEW i \in 1..Len(q) PROVE q[i].type # "reset"
    BY DEF ChNone
  <2>1. 1 \in 1..Len(q)
    BY <1>3
  <2> QED BY <1>3, <1>4, <1>7, <2>1 DEF ChOrdered
<1>8. ASSUME ~\E x \in ToSet(t) : x.type = "packet" PROVE ChNone(t, {"packet"})
  <2>1. \A i \in 1..Len(t) : t[i] \in ToSet(t)
    BY <1>3, LenProperties DEF ToSet
  <2> QED BY <1>8, <2>1 DEF ChNone
<1> QED BY <1>1, <1>2, <1>3, <1>4, <1>5, <1>6, <1>7, <1>8

\* What is put into the channel is a command.
LEMMA ChWords ==
    /\ \A keys \in SUBSET ChKeys : Packet(keys) \in ChCmds /\ Packet(keys).type = "packet"
    /\ \A r \in ChRequests : Descriptor(r) \in ChCmds /\ Descriptor(r).type = "descriptor"
    /\ ResetState \in ChCmds /\ ResetState.type = "reset"
    /\ WorkerStops \in ChCmds /\ WorkerStops.type = "shutdown"
BY DEF Packet, Descriptor, ResetState, WorkerStops, ChCmds, ChKinds

\* The requests stay what they are, or are answered.
LEMMA ChAnswers ==
    ASSUME chRequest \in [ChRequests -> {"none", "asked", "answered"}], NEW c
    PROVE  Answer(c) \in [ChRequests -> {"none", "asked", "answered"}]
BY DEF Answer

\* Every step keeps the invariant.
LEMMA ChSteps == ChInv /\ [ChNext]_chVars => ChInv'
<1> SUFFICES ASSUME ChInv, [ChNext]_chVars PROVE ChInv'
  OBVIOUS
<1> USE DEF ChInv
<1>0. chCommands \in Seq(ChCmds) /\ ChOrdered(chCommands)
  BY DEF ChQueued
<1>e. << >> \in Seq(ChCmds) /\ ChOrdered(<< >>) /\ \A kinds : ChNone(<< >>, kinds)
  BY EmptySeq DEF ChOrdered, ChNone
<1>1. CASE InitBegin
  BY <1>1, <1>e DEF InitBegin, ChTypeOK, ChOwned, ChQueued, ChReleased, ChClean, ChBounds, ChRuntime, ChEnds
<1>2. CASE InitDone
  BY <1>2 DEF InitDone, ChTypeOK, ChOwned, ChQueued, ChReleased, ChClean, ChBounds, ChRuntime, ChEnds
<1>3. CASE InitTimesOut
  BY <1>0, <1>3, ChWords, ChPuts DEF InitTimesOut, ChTypeOK, ChOwned, ChQueued, ChReleased, ChClean, ChBounds, ChRuntime, ChEnds
<1>4. CASE ShutdownBegin
  BY <1>0, <1>4, ChWords, ChPuts DEF ShutdownBegin, ChTypeOK, ChOwned, ChQueued, ChReleased, ChClean, ChBounds, ChRuntime, ChEnds
<1>5. CASE ShutdownStop
  BY <1>0, <1>5, ChWords, ChPuts DEF ShutdownStop, ChTypeOK, ChOwned, ChQueued, ChReleased, ChClean, ChBounds, ChRuntime, ChEnds
<1>6. CASE Joined
  <2>1. chWorker = "ended" /\ ~chInitialized /\ chCommands = << >>
    BY <1>6 DEF Joined, ChOwned, ChQueued
  <2>2. chInitialized' = (chInitialized /\ chLife = "join_init")
    BY <1>6 DEF Joined
  <2>3. chInitialized' = FALSE
    BY <2>1, <2>2, Zenon
  <2>4. ChTypeOK'
    BY <1>6 DEF Joined, ChTypeOK, ChOwned, ChBounds, ChRuntime, ChEnds
  <2>5. ChOwned'
    BY <1>6, <2>3 DEF Joined, ChTypeOK, ChOwned, ChBounds, ChRuntime, ChEnds
  <2>6. ChQueued'
    BY <1>e, <1>6, <2>1 DEF Joined, ChQueued
  <2>7. ChReleased'
    BY <1>6 DEF Joined, ChOwned, ChReleased, ChClean
  <2> QED BY <2>4, <2>5, <2>6, <2>7
<1>7. ASSUME NEW keys \in SUBSET ChKeys, SendKeys(keys) PROVE ChInv'
  BY <1>0, <1>7, ChWords, ChPuts DEF SendKeys, ChTypeOK, ChOwned, ChQueued, ChReleased, ChClean, ChBounds, ChRuntime, ChEnds
<1>8. ASSUME NEW keys \in SUBSET ChKeys, SendLate(keys) PROVE ChInv'
  BY <1>0, <1>8, ChWords, ChPuts DEF SendLate, ChTypeOK, ChOwned, ChQueued, ChReleased, ChClean, ChBounds, ChRuntime, ChEnds
<1>9. ASSUME NEW r \in ChRequests, AskDescriptor(r) PROVE ChInv'
  BY <1>0, <1>9, ChWords, ChPuts DEF AskDescriptor, ChTypeOK, ChOwned, ChQueued, ChReleased, ChClean, ChBounds, ChRuntime, ChEnds
<1>10. CASE WorkerStart
  BY <1>10 DEF WorkerStart, ChTypeOK, ChOwned, ChQueued, ChReleased, ChClean, ChBounds, ChRuntime, ChEnds
<1>11. CASE OpenPort
  <2>1. ChTypeOK'
    BY <1>11 DEF OpenPort, ChTypeOK, ChOwned, ChBounds, ChRuntime, ChEnds
  <2>2. ChOwned'
    BY <1>11 DEF OpenPort, ChTypeOK, ChOwned, ChQueued, ChBounds, ChRuntime, ChEnds
  <2>3. ChQueued'
    BY <1>11 DEF OpenPort, ChTypeOK, ChOwned, ChQueued, ChBounds, ChRuntime, ChEnds
  <2>4. ChReleased'
    BY <1>11 DEF OpenPort, ChTypeOK, ChOwned, ChQueued, ChReleased, ChClean, ChBounds, ChRuntime, ChEnds
  <2> QED BY <2>1, <2>2, <2>3, <2>4
<1>12. CASE WaitDelay
  <2>1. ChTypeOK'
    BY <1>0, <1>12, ChAnswers DEF WaitDelay, ChTypeOK, ChRuntime, ChEnds
  <2>2. CASE chCommands = << >>
    BY <1>12, <2>1, <2>2 DEF WaitDelay, ChTypeOK, ChOwned, ChQueued, ChReleased, ChClean, ChBounds, ChRuntime, ChEnds
  <2>3. CASE chCommands # << >>
    <3>1. PICK q : q = chCommands
      OBVIOUS
    <3>2. PICK h : h = Head(q)
      OBVIOUS
    <3>3. PICK t : t = Tail(q)
      OBVIOUS
    <3>4. q \in Seq(ChCmds) /\ q # << >> /\ ChOrdered(q)
      BY <1>0, <2>3, <3>1
    <3>5. h \in ChCmds /\ t \in Seq(ChCmds) /\ ChOrdered(t)
      BY <3>2, <3>3, <3>4, ChTakes
    <3>6. \A kinds : ChNone(q, kinds) <=> ChNone(t, kinds) /\ h.type \notin kinds
      BY <3>2, <3>3, <3>4, ChTakes
    <3>7. h.type = "shutdown" => ChNone(q, {"reset"})
      BY <3>2, <3>4, ChTakes
    <3>8. h = WorkerStops => h.type = "shutdown"
      BY ChWords
    <3>9. /\ chCommands = q /\ chCommands' = t /\ chWorker' = (IF h = WorkerStops THEN "ending" ELSE chWorker)
          /\ chLoss' = (chLoss \/ h # WorkerStops) /\ chWorker \in {"wait", "rewait"}
          /\ UNCHANGED <<chTx, chHandle, chLife, chOnline, chInitialized, chip, portAlive>>
      BY <1>12, <2>3, <3>1, <3>2, <3>3 DEF WaitDelay, ChRuntime, ChEnds
    <3>10. ChOwned'
      BY <3>6, <3>8, <3>9 DEF ChOwned, ChQueued
    <3>11. ChQueued'
      BY <3>5, <3>6, <3>8, <3>9 DEF ChQueued
    <3>12. CASE h = WorkerStops
      <4>1. h.type = "shutdown" /\ (~chLoss' => ~chLoss) /\ chWorker' = "ending" /\ chLife \in {"joining", "join_init"}
        BY <3>6, <3>8, <3>9, <3>12 DEF ChQueued
      <4>2. ChClean
        BY <3>6, <3>7, <3>9, <4>1, ChFewer DEF ChReleased, ChClean, ChQueued, ChOwned
      <4>3. ChClean'
        BY <3>6, <3>9, <4>1, <4>2 DEF ChClean
      <4> QED BY <2>1, <3>9, <3>10, <3>11, <4>1, <4>3 DEF ChReleased, ChClean
    <3>13. CASE h # WorkerStops
      <4>1. chLoss' = TRUE
        BY <3>9, <3>13, Zenon
      <4> QED BY <2>1, <3>10, <3>11, <4>1 DEF ChReleased, ChClean
    <3> QED BY <2>1, <3>10, <3>11, <3>12, <3>13
  <2> QED BY <2>2, <2>3
<1>13. CASE Serve
  <2>1. PICK q : q = chCommands
    OBVIOUS
  <2>2. PICK h : h = Head(q)
    OBVIOUS
  <2>3. PICK t : t = Tail(q)
    OBVIOUS
  <2>4. q \in Seq(ChCmds) /\ q # << >> /\ ChOrdered(q)
    BY <1>0, <1>13, <2>1 DEF Serve
  <2>5. h \in ChCmds /\ t \in Seq(ChCmds) /\ ChOrdered(t)
    BY <2>2, <2>3, <2>4, ChTakes
  <2>6. \A kinds : ChNone(q, kinds) <=> ChNone(t, kinds) /\ h.type \notin kinds
    BY <2>2, <2>3, <2>4, ChTakes
  <2>7. h.type = "shutdown" => ChNone(q, {"reset"})
    BY <2>2, <2>4, ChTakes
  <2>8. h = WorkerStops => h.type = "shutdown"
    BY ChWords
  <2>9. (~\E x \in ToSet(t) : x.type = "packet") => ChNone(t, {"packet"})
    BY <2>3, <2>4, ChTakes
  <2>10. h.keys \subseteq ChKeys
    BY <2>5 DEF ChCmds
  <2>11. /\ chCommands = q /\ chCommands' = t /\ chWorker = "serve" /\ chRequest' = Answer(h)
         /\ chLocal' = (IF h.type = "reset" THEN {} ELSE chLocal)
         /\ UNCHANGED <<chTx, chHandle, chLife, chInitResult, chInitialized, portAlive>>
    BY <1>13, <2>1, <2>2, <2>3 DEF Serve, ChEnds
  <2>12. \/ h = WorkerStops /\ chWorker' = "ending" /\ UNCHANGED <<chip, chOnline, chLoss>>
         \/ /\ h # WorkerStops /\ chWorker' = chWorker
            /\ chLoss' = (IF h.type = "reset" THEN \E x \in ToSet(t) : x.type = "packet" ELSE chLoss)
            /\ \/ chOnline' = TRUE /\ chip' = (CASE h.type = "packet" -> h.keys [] h.type = "reset" -> {} [] OTHER -> chip)
               \/ h.type = "descriptor" /\ chOnline' = FALSE /\ UNCHANGED chip
         \/ h # WorkerStops /\ chOnline' = FALSE /\ chLoss' = TRUE /\ chWorker' = "reopen" /\ UNCHANGED chip
    BY <1>13, <2>1, <2>2, <2>3 DEF Serve
  <2>13. chRequest' \in [ChRequests -> {"none", "asked", "answered"}]
    BY <2>11, ChAnswers DEF ChTypeOK
  <2>14. chip' \subseteq ChKeys /\ chOnline' \in BOOLEAN
    BY <2>10, <2>12 DEF ChTypeOK
  <2>15. ChTypeOK'
    BY <2>11, <2>12, <2>13, <2>14 DEF ChTypeOK
  <2>16. ChOwned'
    BY <2>6, <2>8, <2>11, <2>12 DEF ChOwned, ChQueued
  <2>17. ChQueued'
    BY <2>5, <2>6, <2>8, <2>11, <2>12 DEF ChQueued
  <2>18. CASE h = WorkerStops
    <3>1. h.type = "shutdown" /\ chWorker' = "ending" /\ chLife \in {"joining", "join_init"} /\ UNCHANGED <<chip, chLoss>>
      BY <2>6, <2>8, <2>11, <2>12, <2>18 DEF ChQueued
    <3>2. ChClean
      BY <2>6, <2>7, <2>11, <3>1, ChFewer DEF ChReleased, ChClean, ChQueued, ChOwned
    <3>3. ChClean'
      BY <2>6, <2>11, <3>1, <3>2 DEF ChClean
    <3> QED BY <2>11, <2>15, <2>16, <2>17, <3>1, <3>3 DEF ChReleased, ChClean
  <2>19. CASE h # WorkerStops
    <3>1. CASE h.type = "reset"
      <4>1. ChClean'
        BY <2>9, <2>11, <2>12, <2>19, <3>1 DEF ChClean
      <4> QED BY <2>11, <2>15, <2>16, <2>17, <4>1 DEF ChReleased, ChClean
    <3>2. CASE h.type # "reset"
      <4>1. ~chLoss' => ~chLoss
        BY <2>12, <2>19, <3>2
      <4>2. ChNone(t, {"reset"}) => ChNone(q, {"reset"})
        BY <2>6, <3>2
      <4>3. ChNone(q, {"packet"}) => h.type # "packet" /\ ChNone(t, {"packet"})
        BY <2>6
      <4>4. h.type # "packet" => chip' = chip
        BY <2>12, <2>19, <3>2
      <4>5. ChClean => ChClean'
        BY <2>11, <4>1, <4>3, <4>4 DEF ChClean
      <4>6. chWorker' \in {"serve", "reopen"} /\ chWorker = "serve"
        BY <2>11, <2>12, <2>19
      <4>7. chLife \in {"init", "join_init"} => h.type # "packet"
        BY <2>6, <2>11 DEF ChQueued
      <4>8. ChReleased'
        BY <2>11, <4>1, <4>2, <4>4, <4>5, <4>6, <4>7 DEF ChReleased
      <4> QED BY <2>15, <2>16, <2>17, <4>8
    <3> QED BY <3>1, <3>2
  <2> QED BY <2>18, <2>19
<1>14. CASE Probe
  <2>1. ChTypeOK'
    BY <1>14 DEF Probe, ChTypeOK, ChOwned, ChBounds, ChRuntime, ChEnds
  <2>2. ChOwned'
    BY <1>14 DEF Probe, ChTypeOK, ChOwned, ChQueued, ChBounds, ChRuntime, ChEnds
  <2>3. ChQueued'
    BY <1>14 DEF Probe, ChTypeOK, ChOwned, ChQueued, ChBounds, ChRuntime, ChEnds
  <2>4. ChReleased'
    BY <1>14 DEF Probe, ChTypeOK, ChOwned, ChQueued, ChReleased, ChClean, ChBounds, ChRuntime, ChEnds
  <2> QED BY <2>1, <2>2, <2>3, <2>4
<1>15. CASE WorkerEnds
  BY <1>e, <1>15 DEF WorkerEnds, ChTypeOK, ChOwned, ChQueued, ChReleased, ChClean, ChBounds, ChRuntime, ChEnds
<1>16. CASE PortFails
  <2>1. chip' = chip \/ chip' = {}
    BY <1>16 DEF PortFails
  <2>2. UNCHANGED <<chCommands, chTx, chHandle, chLife, chInitResult, chWorker, chOnline, chInitialized, chLocal, chRequest, chLoss>>
        /\ portAlive' = FALSE
    BY <1>16 DEF PortFails, ChRuntime, ChEnds
  <2>3. ChTypeOK'
    BY <2>1, <2>2 DEF ChTypeOK
  <2>4. ChOwned'
    BY <2>2 DEF ChOwned
  <2>5. ChQueued'
    BY <2>2 DEF ChQueued
  <2>6. ChReleased'
    BY <2>1, <2>2 DEF ChReleased, ChClean
  <2> QED BY <2>3, <2>4, <2>5, <2>6
<1>17. CASE PortReturns
  BY <1>17 DEF PortReturns, ChTypeOK, ChOwned, ChQueued, ChReleased, ChClean, ChBounds, ChRuntime, ChEnds
<1>18. CASE UNCHANGED chVars
  BY <1>18 DEF chVars, ChTypeOK, ChOwned, ChQueued, ChReleased, ChClean
<1> QED
  BY <1>1, <1>2, <1>3, <1>4, <1>5, <1>6, <1>7, <1>8, <1>9, <1>10, <1>11, <1>12, <1>13, <1>14, <1>15, <1>16, <1>17, <1>18
  DEF ChNext, ChThread

\* What the serial backend keeps follows.
LEMMA ChPromised == ChInv => ChTypeOK /\ StoppedIsOffline /\ StoppedHoldsNoKey
BY DEF ChInv, ChOwned, ChReleased, StoppedIsOffline, StoppedHoldsNoKey

-----------------------------------------------------------------------------
\* The descriptor of the serial chip

\* A descriptor has every field, and so has the chip.
CdDesc(d) == d = [f \in CdFields |-> d[f]]
CdChipOK(c) == {"mem", "on"} \subseteq DOMAIN c /\ CdFields \subseteq DOMAIN c.mem

\* What of a descriptor the chip has, by the transfers that are left.
CdHas(c, d, fields) ==
    /\ "ids" \in fields => c.mem["ids"] = d["ids"] /\ c.on = StringFlags(c, d)
    /\ \A f \in CdStrings : f \in fields => c.mem[f] = d[f]
CdTodo(todo, c, d) ==
    \/ /\ d["ser"] = ""
       /\ \/ todo = <<"params", "man", "prod">>
          \/ todo = <<"man", "prod">> /\ CdHas(c, d, {"ids"})
          \/ todo = <<"prod">> /\ CdHas(c, d, {"ids", "man"})
          \/ todo = << >> /\ CdHas(c, d, {"ids", "man", "prod"})
    \/ /\ d["ser"] # ""
       /\ \/ todo = <<"params", "man", "prod", "ser">>
          \/ todo = <<"man", "prod", "ser">> /\ CdHas(c, d, {"ids"})
          \/ todo = <<"prod", "ser">> /\ CdHas(c, d, {"ids", "man"})
          \/ todo = <<"ser">> /\ CdHas(c, d, {"ids", "man", "prod"})
          \/ todo = << >> /\ CdHas(c, d, CdFields)

\* The shapes.
CdShapes ==
    /\ CdChipOK(cdChip) /\ {"serial", "desc"} \subseteq DOMAIN cdConfig /\ CdDesc(cdConfig.desc)
    /\ {"pc", "todo", "want"} \subseteq DOMAIN cdCommand
    /\ {"pc", "old", "staged", "want", "applied", "errors", "before"} \subseteq DOMAIN cdJob
    /\ {"serial", "desc"} \subseteq DOMAIN cdJob.staged
    /\ CdDesc(cdJob.old.desc) /\ CdDesc(cdJob.staged.desc)
    /\ cdJob.want # CdUnasked => CdDesc(cdJob.want)
    /\ {"pc", "cached", "shown", "settled"} \subseteq DOMAIN cdRead

\* The command of the worker is the one the update waits for, and the chip has what
\* was transferred.
CdAtWork ==
    cdCommand.pc # "none" =>
       /\ \/ cdJob.pc = "wait" /\ cdJob.want # CdUnasked /\ cdCommand.want = cdJob.want
          \/ cdJob.pc = "waitBack" /\ cdCommand.want = cdJob.old.desc
       /\ cdCommand.pc \in {"asked", "write", "reset"}
       /\ CdTodo(cdCommand.todo, cdChip, cdCommand.want)
       /\ cdCommand.pc \in {"asked", "write"} => cdCommand.todo # << >>
       /\ cdCommand.pc = "reset" => cdCommand.todo = << >>

\* The update by where it is: what is stored, what the chip shows, which backend
\* runs.
CdUpdated ==
    /\ cdJob.pc # "ok" => cdConfig = cdJob.old
    /\ cdJob.pc = "ok" => cdConfig = cdJob.staged
    /\ cdJob.pc = "ask" => cdJob.want # CdUnasked
    /\ cdJob.pc \in {"apply", "ask"} => ~cdJob.applied
    /\ cdJob.pc \in {"apply", "ask"} \/ (cdJob.pc \in {"store", "undo"} /\ ~cdJob.applied) => cdChip = cdJob.before
    /\ cdJob.pc \in {"store", "ok"} /\ cdJob.applied => Shows(cdChip) = cdJob.staged.desc
    /\ cdJob.pc \in {"askBack", "waitBack", "undone", "failed"} /\ ~cdJob.errors =>
         (cdJob.staged.serial # cdJob.old.serial => cdLive = Backend(cdJob.old))
    /\ cdJob.pc \in {"undone", "failed"} /\ ~cdJob.errors /\ cdJob.old.serial =>
         Shows(cdChip) \in {Shows(cdJob.before), cdJob.old.desc}
    /\ cdJob.pc = "failed" => ~cdJob.errors

\* A read that began after an update was done sees what is stored.
CdReads ==
    cdRead.settled => /\ cdJob.pc = "ok" /\ cdJob.applied /\ cdRead.cached = cdConfig.desc
                      /\ cdRead.pc = "done" => cdRead.shown = cdConfig.desc

CdInv == CdShapes /\ CdAtWork /\ CdUpdated /\ CdReads

\* The strings and the numbers.
LEMMA CdNames == /\ CdStrings \subseteq CdFields /\ CdFields = {"ids", "man", "prod", "ser"}
                 /\ CdStrings = {"man", "prod", "ser"}
BY DEF CdFields, CdStrings

\* A chip that has all of a descriptor shows it.
LEMMA CdShown ==
    ASSUME NEW c, NEW d, CdChipOK(c), CdDesc(d), CdTodo(<< >>, c, d)
    PROVE  Shows(c) = d
<1>1. CdHas(c, d, {"ids", "man", "prod"}) /\ (d["ser"] # "" => CdHas(c, d, CdFields))
  <2>1. << >> # <<"params", "man", "prod">> /\ << >> # <<"man", "prod">> /\ << >> # <<"prod">>
    OBVIOUS
  <2>2. /\ << >> # <<"params", "man", "prod", "ser">> /\ << >> # <<"man", "prod", "ser">>
        /\ << >> # <<"prod", "ser">> /\ << >> # <<"ser">>
    OBVIOUS
  <2>3. CASE d["ser"] = ""
    BY <2>1, <2>3, Zenon DEF CdTodo
  <2>4. CASE d["ser"] # ""
    <3>1. CdHas(c, d, CdFields)
      BY <2>2, <2>4, Zenon DEF CdTodo
    <3> QED BY <3>1, CdNames DEF CdHas
  <2> QED BY <2>3, <2>4
<1>2. c.mem["ids"] = d["ids"] /\ c.on = StringFlags(c, d)
  BY <1>1 DEF CdHas
<1>3. c.mem["man"] = d["man"] /\ c.mem["prod"] = d["prod"] /\ (d["ser"] # "" => c.mem["ser"] = d["ser"])
  BY <1>1, CdNames DEF CdHas
<1>4. ASSUME NEW f \in CdFields PROVE (IF f \in CdStrings \ c.on THEN "" ELSE c.mem[f]) = d[f]
  BY <1>2, <1>3, CdNames DEF StringFlags
<1>5. Shows(c) = [f \in CdFields |-> d[f]]
  BY <1>4 DEF Shows
<1> QED BY <1>5 DEF CdDesc

\* What is to be transferred at first.
LEMMA CdFirst ==
    ASSUME NEW c, NEW d
    PROVE  CdTodo(Transfers(d), c, d) /\ Transfers(d) # << >>
<1>1. CASE d["ser"] = ""
  <2>1. Transfers(d) = <<"params", "man", "prod">> \o << >>
    BY <1>1, Zenon DEF Transfers
  <2>2. Transfers(d) = <<"params", "man", "prod">>
    BY <2>1
  <2>3. CdTodo(Transfers(d), c, d)
    BY <1>1, <2>2, Zenon DEF CdTodo
  <2> QED BY <2>2, <2>3
<1>2. CASE d["ser"] # ""
  <2>1. Transfers(d) = <<"params", "man", "prod">> \o <<"ser">>
    BY <1>2, Zenon DEF Transfers
  <2>2. PICK s : s = <<"params", "man", "prod">>
    OBVIOUS
  <2>3. PICK e : e = <<"ser">>
    OBVIOUS
  <2>4. PICK l : l = <<"params", "man", "prod", "ser">>
    OBVIOUS
  <2>a. PICK W : W = {"params", "man", "prod", "ser"}
    OBVIOUS
  <2>b. s \in Seq(W) /\ Len(s) = 3
    BY <2>2, <2>a
  <2>c. e \in Seq(W) /\ Len(e) = 1
    BY <2>3, <2>a
  <2>d. l \in Seq(W) /\ Len(l) = 4
    BY <2>4, <2>a
  <2>5. /\ s \o e \in Seq(W) /\ Len(s \o e) = Len(s) + Len(e)
        /\ \A i \in 1..Len(s) + Len(e) : (s \o e)[i] = IF i <= Len(s) THEN s[i] ELSE e[i - Len(s)]
    BY <2>b, <2>c, ConcatProperties, Zenon
  <2>6. s \o e \in Seq(W) /\ Len(s \o e) = 4
    BY <2>5, <2>b, <2>c
  <2>7. \A i \in 1..4 : (s \o e)[i] = IF i <= 3 THEN s[i] ELSE e[i - 3]
    BY <2>5, <2>b, <2>c
  <2>8. \A i \in 1..4 : (s \o e)[i] = l[i]
    BY <2>2, <2>3, <2>4, <2>7
  <2>9. s \o e = l
    BY <2>d, <2>6, <2>8, SeqEqual
  <2>10. Transfers(d) = <<"params", "man", "prod", "ser">>
    BY <2>1, <2>2, <2>3, <2>4, <2>9
  <2>11. CdTodo(Transfers(d), c, d)
    BY <1>2, <2>10, Zenon DEF CdTodo
  <2> QED BY <2>10, <2>11
<1> QED BY <1>1, <1>2

\* A transfer writes its field, and leaves the others.
LEMMA CdWrites ==
    ASSUME NEW c, NEW d, NEW t \in {"params", "man", "prod", "ser"}, CdChipOK(c)
    PROVE  /\ CdChipOK(Written(c, d, t))
           /\ \A fields : CdHas(c, d, fields) => CdHas(Written(c, d, t), d, fields \cup {IF t = "params" THEN "ids" ELSE t})
           /\ t = "params" => CdHas(Written(c, d, t), d, {"ids"})
<1>1. CdFields = {"ids", "man", "prod", "ser"} /\ CdFields \subseteq DOMAIN c.mem /\ {"mem", "on"} \subseteq DOMAIN c
  BY CdNames DEF CdChipOK
<1>2. PICK w : w = Written(c, d, t)
  OBVIOUS
<1>3. CASE t = "params"
  <2>1. w = [mem |-> [c.mem EXCEPT !["ids"] = d["ids"]], on |-> StringFlags(c, d)]
    BY <1>2, <1>3 DEF Written
  <2>2. PICK m : m = [c.mem EXCEPT !["ids"] = d["ids"]]
    OBVIOUS
  <2>3. m["ids"] = d["ids"] /\ DOMAIN m = DOMAIN c.mem /\ \A f \in CdStrings : m[f] = c.mem[f]
    BY <1>1, <2>2, CdNames
  <2>4. w.mem = m /\ w.on = StringFlags(c, d) /\ {"mem", "on"} \subseteq DOMAIN w
    BY <2>1, <2>2
  <2>5. StringFlags(w, d) = StringFlags(c, d)
    BY DEF StringFlags
  <2>6. CdChipOK(w)
    BY <1>1, <2>3, <2>4 DEF CdChipOK
  <2>7. \A fields : CdHas(c, d, fields) => CdHas(w, d, fields \cup {"ids"})
    BY <2>3, <2>4, <2>5, CdNames DEF CdHas
  <2>8. CdHas(w, d, {"ids"})
    BY <2>3, <2>4, <2>5, CdNames DEF CdHas
  <2> QED BY <1>2, <1>3, <2>6, <2>7, <2>8
<1>4. CASE t # "params"
  <2>1. w = [c EXCEPT !.mem[t] = d[t]]
    BY <1>2, <1>4 DEF Written
  <2>2. PICK m : m = [c.mem EXCEPT ![t] = d[t]]
    OBVIOUS
  <2>3. t \in CdStrings /\ t \in DOMAIN c.mem
    BY <1>1, <1>4, CdNames
  <2>4. m[t] = d[t] /\ DOMAIN m = DOMAIN c.mem /\ \A f \in CdFields : f # t => m[f] = c.mem[f]
    BY <1>1, <2>2, <2>3
  <2>5. w.mem = m /\ w.on = c.on /\ DOMAIN w = DOMAIN c
    BY <1>1, <2>1, <2>2
  <2>6. StringFlags(w, d) = StringFlags(c, d)
    BY DEF StringFlags
  <2>7. CdChipOK(w)
    BY <1>1, <2>4, <2>5 DEF CdChipOK
  <2>8. \A fields : CdHas(c, d, fields) => CdHas(w, d, fields \cup {t})
    BY <1>1, <2>3, <2>4, <2>5, <2>6, CdNames DEF CdHas
  <2> QED BY <1>2, <1>4, <2>7, <2>8
<1> QED BY <1>3, <1>4

\* A transfer is made: what is left is less by it.
LEMMA CdMoves ==
    ASSUME NEW todo, NEW c, NEW d, CdTodo(todo, c, d), todo # << >>, CdChipOK(c)
    PROVE  /\ CdTodo(Tail(todo), Written(c, d, Head(todo)), d)
           /\ CdChipOK(Written(c, d, Head(todo)))
<1>0. CdFields = {"ids", "man", "prod", "ser"}
  BY CdNames
<1>1. ASSUME NEW t \in {"params", "man", "prod", "ser"}
      PROVE  /\ CdChipOK(Written(c, d, t)) /\ (t = "params" => CdHas(Written(c, d, t), d, {"ids"}))
             /\ \A fields : CdHas(c, d, fields) => CdHas(Written(c, d, t), d, fields \cup {IF t = "params" THEN "ids" ELSE t})
  BY CdWrites
<1>2. CASE d["ser"] = "" /\ todo = <<"params", "man", "prod">>
  <2>1. Head(<<"params", "man", "prod">>) = "params" /\ Tail(<<"params", "man", "prod">>) = <<"man", "prod">>
    OBVIOUS
  <2>2. Head(todo) = "params" /\ Tail(todo) = <<"man", "prod">>
    BY <1>2, <2>1, Zenon
  <2>4. CdChipOK(Written(c, d, "params")) /\ CdHas(Written(c, d, "params"), d, {"ids"})
    BY <1>1
  <2> QED BY <1>2, <2>2, <2>4, Zenon DEF CdTodo
<1>3. CASE d["ser"] = "" /\ todo = <<"man", "prod">> /\ CdHas(c, d, {"ids"})
  <2>1. Head(<<"man", "prod">>) = "man" /\ Tail(<<"man", "prod">>) = <<"prod">>
    OBVIOUS
  <2>2. Head(todo) = "man" /\ Tail(todo) = <<"prod">>
    BY <1>3, <2>1, Zenon
  <2>3. {"ids"} \cup {"man"} = {"ids", "man"}
    BY <1>0
  <2>4. CdChipOK(Written(c, d, "man")) /\ CdHas(Written(c, d, "man"), d, {"ids", "man"})
    BY <1>3, <1>1, <2>3
  <2> QED BY <1>3, <2>2, <2>4, Zenon DEF CdTodo
<1>4. CASE d["ser"] = "" /\ todo = <<"prod">> /\ CdHas(c, d, {"ids", "man"})
  <2>1. Head(<<"prod">>) = "prod" /\ Tail(<<"prod">>) = << >>
    OBVIOUS
  <2>2. Head(todo) = "prod" /\ Tail(todo) = << >>
    BY <1>4, <2>1, Zenon
  <2>3. {"ids", "man"} \cup {"prod"} = {"ids", "man", "prod"}
    BY <1>0
  <2>4. CdChipOK(Written(c, d, "prod")) /\ CdHas(Written(c, d, "prod"), d, {"ids", "man", "prod"})
    BY <1>4, <1>1, <2>3
  <2> QED BY <1>4, <2>2, <2>4, Zenon DEF CdTodo
<1>5. CASE d["ser"] # "" /\ todo = <<"params", "man", "prod", "ser">>
  <2>1. Head(<<"params", "man", "prod", "ser">>) = "params" /\ Tail(<<"params", "man", "prod", "ser">>) = <<"man", "prod", "ser">>
    OBVIOUS
  <2>2. Head(todo) = "params" /\ Tail(todo) = <<"man", "prod", "ser">>
    BY <1>5, <2>1, Zenon
  <2>4. CdChipOK(Written(c, d, "params")) /\ CdHas(Written(c, d, "params"), d, {"ids"})
    BY <1>1
  <2> QED BY <1>5, <2>2, <2>4, Zenon DEF CdTodo
<1>6. CASE d["ser"] # "" /\ todo = <<"man", "prod", "ser">> /\ CdHas(c, d, {"ids"})
  <2>1. Head(<<"man", "prod", "ser">>) = "man" /\ Tail(<<"man", "prod", "ser">>) = <<"prod", "ser">>
    OBVIOUS
  <2>2. Head(todo) = "man" /\ Tail(todo) = <<"prod", "ser">>
    BY <1>6, <2>1, Zenon
  <2>3. {"ids"} \cup {"man"} = {"ids", "man"}
    BY <1>0
  <2>4. CdChipOK(Written(c, d, "man")) /\ CdHas(Written(c, d, "man"), d, {"ids", "man"})
    BY <1>6, <1>1, <2>3
  <2> QED BY <1>6, <2>2, <2>4, Zenon DEF CdTodo
<1>7. CASE d["ser"] # "" /\ todo = <<"prod", "ser">> /\ CdHas(c, d, {"ids", "man"})
  <2>1. Head(<<"prod", "ser">>) = "prod" /\ Tail(<<"prod", "ser">>) = <<"ser">>
    OBVIOUS
  <2>2. Head(todo) = "prod" /\ Tail(todo) = <<"ser">>
    BY <1>7, <2>1, Zenon
  <2>3. {"ids", "man"} \cup {"prod"} = {"ids", "man", "prod"}
    BY <1>0
  <2>4. CdChipOK(Written(c, d, "prod")) /\ CdHas(Written(c, d, "prod"), d, {"ids", "man", "prod"})
    BY <1>7, <1>1, <2>3
  <2> QED BY <1>7, <2>2, <2>4, Zenon DEF CdTodo
<1>8. CASE d["ser"] # "" /\ todo = <<"ser">> /\ CdHas(c, d, {"ids", "man", "prod"})
  <2>1. Head(<<"ser">>) = "ser" /\ Tail(<<"ser">>) = << >>
    OBVIOUS
  <2>2. Head(todo) = "ser" /\ Tail(todo) = << >>
    BY <1>8, <2>1, Zenon
  <2>3. {"ids", "man", "prod"} \cup {"ser"} = CdFields
    BY <1>0
  <2>4. CdChipOK(Written(c, d, "ser")) /\ CdHas(Written(c, d, "ser"), d, CdFields)
    BY <1>8, <1>1, <2>3
  <2> QED BY <1>8, <2>2, <2>4, Zenon DEF CdTodo
<1> QED
  BY <1>2, <1>3, <1>4, <1>5, <1>6, <1>7, <1>8, Zenon DEF CdTodo

\* The program starts with the stored configuration.
LEMMA CdStarts == CdInit => CdInv
<1> SUFFICES ASSUME CdInit PROVE CdInv
  OBVIOUS
<1>1. CdChipOK(cdChip) /\ cdConfig \in [serial : BOOLEAN, desc : CdStored] /\ CdDesc(cdConfig.desc)
  BY CdAssumption DEF CdInit, CdChipOK, CdDesc
<1>2. /\ cdJob = [pc |-> "idle", old |-> cdConfig, staged |-> cdConfig, want |-> CdUnasked,
                  applied |-> FALSE, errors |-> FALSE, before |-> cdChip]
      /\ cdCommand.pc = "none" /\ {"pc", "todo", "want"} \subseteq DOMAIN cdCommand
      /\ ~cdRead.settled /\ {"pc", "cached", "shown", "settled"} \subseteq DOMAIN cdRead
  BY DEF CdInit, NoCommand, NoRead
<1>3. CdShapes
  BY <1>1, <1>2 DEF CdShapes
<1>4. CdAtWork /\ CdReads
  BY <1>2 DEF CdAtWork, CdReads
<1>5. CdUpdated
  BY <1>2 DEF CdUpdated
<1> QED BY <1>3, <1>4, <1>5 DEF CdInv

\* A step of the update alone, which leaves old, before and want as they are.
CdKept == /\ {"pc", "old", "staged", "want", "applied", "errors", "before"} \subseteq DOMAIN cdJob'
          /\ cdJob'.old = cdJob.old /\ cdJob'.want = cdJob.want /\ cdJob'.before = cdJob.before

\* The command fails: the update goes back, or notes that it could not.
LEMMA CdRefuses ==
    ASSUME CdInv, cdCommand.pc # "none", CdChipOK(cdChip'), UNCHANGED <<cdConfig, cdLive, cdRead>>,
           cdCommand' = NoCommand, Tell("err")
    PROVE  CdInv'
<1> USE DEF CdInv
<1>0. cdJob.pc \in {"wait", "waitBack"} /\ ~cdRead.settled
  BY DEF CdAtWork, CdReads
<1>1. cdCommand'.pc = "none" /\ {"pc", "todo", "want"} \subseteq DOMAIN cdCommand'
  BY DEF NoCommand
<1>2. \/ cdJob.pc = "wait" /\ cdJob' = [cdJob EXCEPT !.pc = "refused"]
      \/ cdJob.pc = "waitBack" /\ cdJob' = [cdJob EXCEPT !.pc = "undone", !.errors = @ \/ "err" = "err"]
  BY DEF Tell
<1>3. CdKept /\ cdJob'.staged = cdJob.staged
  BY <1>2 DEF CdShapes, CdKept
<1>4. cdJob'.pc = "refused" \/ (cdJob'.pc = "undone" /\ cdJob'.errors)
  <2>1. CASE cdJob' = [cdJob EXCEPT !.pc = "refused"]
    BY <2>1 DEF CdShapes
  <2>2. CASE cdJob' = [cdJob EXCEPT !.pc = "undone", !.errors = @ \/ "err" = "err"]
    <3>1. cdJob'.pc = "undone" /\ cdJob'.errors = (cdJob.errors \/ "err" = "err")
      BY <2>2 DEF CdShapes
    <3> QED BY <3>1, Zenon
  <2> QED BY <1>2, <2>1, <2>2
<1>5. CdShapes'
  BY <1>1, <1>3 DEF CdShapes, CdKept
<1>6. CdAtWork' /\ CdReads'
  BY <1>0, <1>1 DEF CdAtWork, CdReads
<1>7. CdUpdated'
  BY <1>0, <1>3, <1>4 DEF CdUpdated, CdKept
<1> QED BY <1>5, <1>6, <1>7

\* The worker's steps.
LEMMA CdWorks == ASSUME CdInv, CdWorker PROVE CdInv'
<1> USE DEF CdInv
<1>1. CASE ReadParameters
  <2>1. UNCHANGED <<cdChip, cdConfig, cdLive, cdRead>> /\ cdCommand.pc = "asked"
    BY <1>1 DEF ReadParameters
  <2>2. CASE cdCommand' = [cdCommand EXCEPT !.pc = "write"] /\ UNCHANGED cdJob
    <3>1. cdCommand'.pc = "write" /\ cdCommand'.todo = cdCommand.todo /\ cdCommand'.want = cdCommand.want
          /\ {"pc", "todo", "want"} \subseteq DOMAIN cdCommand'
      BY <2>2 DEF CdShapes
    <3>2. CdShapes' /\ CdUpdated' /\ CdReads'
      BY <2>1, <2>2, <3>1 DEF CdShapes, CdUpdated, CdReads
    <3>3. CdAtWork'
      BY <2>1, <2>2, <3>1 DEF CdAtWork
    <3> QED BY <3>2, <3>3
  <2>3. CASE Refuse(cdUp)
    BY <2>1, <2>3, CdRefuses DEF Refuse, CdShapes
  <2> QED BY <1>1, <2>2, <2>3 DEF ReadParameters
<1>2. CASE Transfer
  <2>1. UNCHANGED <<cdConfig, cdLive, cdRead>> /\ cdCommand.pc = "write"
    BY <1>2 DEF Transfer
  <2>2. PICK todo : todo = cdCommand.todo
    OBVIOUS
  <2>3. PICK d : d = cdCommand.want
    OBVIOUS
  <2>4. PICK w : w = Written(cdChip, d, Head(todo))
    OBVIOUS
  <2>5. CdTodo(todo, cdChip, d) /\ todo # << >> /\ CdChipOK(cdChip)
    BY <2>1, <2>2, <2>3 DEF CdAtWork, CdShapes
  <2>6. CdTodo(Tail(todo), w, d) /\ CdChipOK(w)
    BY <2>4, <2>5, CdMoves
  <2>7. \/ /\ cdChip' = w /\ UNCHANGED cdJob
           /\ cdCommand' = [cdCommand EXCEPT !.todo = Tail(todo), !.pc = IF Tail(todo) = << >> THEN "reset" ELSE "write"]
        \/ cdChip' \in {w, cdChip} /\ cdCommand' = NoCommand /\ Tell("err")
    BY <1>2, <2>2, <2>3, <2>4 DEF Transfer, Refuse
  <2>8. CASE /\ cdChip' = w /\ UNCHANGED cdJob
             /\ cdCommand' = [cdCommand EXCEPT !.todo = Tail(todo), !.pc = IF Tail(todo) = << >> THEN "reset" ELSE "write"]
    <3>1. /\ cdCommand'.pc = (IF Tail(todo) = << >> THEN "reset" ELSE "write") /\ cdCommand'.todo = Tail(todo)
          /\ cdCommand'.want = cdCommand.want /\ {"pc", "todo", "want"} \subseteq DOMAIN cdCommand'
      BY <2>8 DEF CdShapes
    <3>2. cdJob.pc \in {"wait", "waitBack"} /\ ~cdRead.settled
      BY <2>1 DEF CdAtWork, CdReads
    <3>3. CdShapes'
      BY <2>1, <2>6, <2>8, <3>1 DEF CdShapes
    <3>4. CdAtWork'
      BY <2>1, <2>3, <2>6, <2>8, <3>1, <3>2 DEF CdAtWork
    <3>5. CdUpdated' /\ CdReads'
      BY <2>1, <2>8, <3>2 DEF CdUpdated, CdReads
    <3> QED BY <3>3, <3>4, <3>5
  <2>9. CASE cdChip' \in {w, cdChip} /\ cdCommand' = NoCommand /\ Tell("err")
    <3>1. CdChipOK(cdChip')
      BY <2>5, <2>6, <2>9
    <3> QED BY <2>1, <2>9, <3>1, CdRefuses
  <2> QED BY <2>7, <2>8, <2>9
<1>3. CASE ResetChip
  <2>1. UNCHANGED <<cdChip, cdConfig, cdLive, cdRead>> /\ cdCommand.pc = "reset"
    BY <1>3 DEF ResetChip
  <2>2. CASE cdCommand' = NoCommand /\ Tell("ok")
    <3>0. cdJob.pc \in {"wait", "waitBack"} /\ ~cdRead.settled
      BY <2>1 DEF CdAtWork, CdReads
    <3>1. cdCommand'.pc = "none" /\ {"pc", "todo", "want"} \subseteq DOMAIN cdCommand'
      BY <2>2 DEF NoCommand
    <3>2. PICK d : d = cdCommand.want
      OBVIOUS
    <3>3. CdDesc(d) /\ (cdJob.pc = "wait" => d = cdJob.want) /\ (cdJob.pc = "waitBack" => d = cdJob.old.desc)
      BY <2>1, <3>2 DEF CdAtWork, CdShapes
    <3>4. CdTodo(<< >>, cdChip, d)
      BY <2>1, <3>2 DEF CdAtWork
    <3>5. Shows(cdChip) = d
      BY <3>3, <3>4, CdShown DEF CdShapes
    <3>6. CASE cdJob.pc = "wait"
      <4>1. cdJob' = [cdJob EXCEPT !.pc = "store", !.applied = TRUE, !.staged.desc = cdCommand.want]
        BY <2>2, <3>6 DEF Tell
      <4>2. CdKept /\ cdJob'.pc = "store" /\ cdJob'.staged = [cdJob.staged EXCEPT !.desc = cdCommand.want] /\ cdJob'.applied = TRUE
        BY <4>1 DEF CdShapes, CdKept
      <4>3. cdJob'.staged.desc = d /\ {"serial", "desc"} \subseteq DOMAIN cdJob'.staged
        BY <3>2, <4>2 DEF CdShapes
      <4>4. CdShapes'
        BY <2>1, <3>1, <3>3, <4>2, <4>3 DEF CdShapes, CdKept
      <4>5. CdAtWork' /\ CdReads'
        BY <2>1, <3>0, <3>1 DEF CdAtWork, CdReads
      <4>6. CdUpdated'
        BY <2>1, <3>0, <3>5, <4>2, <4>3 DEF CdUpdated, CdKept
      <4> QED BY <4>4, <4>5, <4>6
    <3>7. CASE cdJob.pc = "waitBack"
      <4>1. cdJob' = [cdJob EXCEPT !.pc = "undone", !.errors = @ \/ "ok" = "err"]
        BY <2>2, <3>7 DEF Tell
      <4>2. CdKept /\ cdJob'.pc = "undone" /\ cdJob'.staged = cdJob.staged /\ cdJob'.errors = (cdJob.errors \/ "ok" = "err")
        BY <4>1 DEF CdShapes, CdKept
      <4>3. cdJob.errors => cdJob'.errors
        BY <4>2, Zenon
      <4>4. CdShapes'
        BY <2>1, <3>1, <4>2 DEF CdShapes, CdKept
      <4>5. CdAtWork' /\ CdReads'
        BY <2>1, <3>0, <3>1 DEF CdAtWork, CdReads
      <4>6. CdUpdated'
        BY <2>1, <3>3, <3>5, <3>7, <4>2, <4>3 DEF CdUpdated, CdKept
      <4> QED BY <4>4, <4>5, <4>6
    <3> QED BY <3>0, <3>6, <3>7
  <2>3. CASE Refuse(FALSE)
    BY <2>1, <2>3, CdRefuses DEF Refuse, CdShapes
  <2> QED BY <1>3, <2>2, <2>3 DEF ResetChip
<1>4. CASE RejectCommand
  BY <1>4, CdRefuses DEF RejectCommand, Refuse, CdShapes
<1> QED BY <1>1, <1>2, <1>3, <1>4 DEF CdWorker

\* An update is not at the chip unless it waits for the worker.
LEMMA CdIdle == ASSUME CdInv, cdJob.pc \notin {"wait", "waitBack"} PROVE cdCommand.pc = "none"
BY DEF CdInv, CdAtWork

\* The runtime is changed over.
LEMMA CdLives ==
    ASSUME NEW from, NEW to, NEW ok, Apply(from, to, ok)
    PROVE  ok /\ from.serial # to.serial => cdLive' = Backend(to)
BY DEF Apply

\* The update's steps.
LEMMA CdGoes == ASSUME CdInv, CdUpdate PROVE CdInv'
<1> USE DEF CdInv
<1>1. CASE ApplyRuntime
  <2>1. PICK ok \in BOOLEAN : Apply(cdJob.old, cdJob.staged, ok) /\
          cdJob' = [cdJob EXCEPT !.pc = IF ~ok THEN "undo"
                                        ELSE IF cdJob.want # CdUnasked /\ cdJob.staged.serial THEN "ask" ELSE "store"]
    BY <1>1 DEF ApplyRuntime
  <2>2. UNCHANGED <<cdChip, cdConfig, cdCommand, cdRead>> /\ cdJob.pc = "apply"
    BY <1>1 DEF ApplyRuntime
  <2>3. CdKept /\ cdJob'.staged = cdJob.staged /\ cdJob'.applied = cdJob.applied
    BY <2>1 DEF CdShapes, CdKept
  <2>4. cdJob'.pc \in {"undo", "ask", "store"} /\ (cdJob'.pc = "ask" => cdJob.want # CdUnasked)
    BY <2>1 DEF CdShapes
  <2>5. CdShapes'
    BY <2>2, <2>3 DEF CdShapes, CdKept
  <2>6. CdAtWork' /\ CdReads'
    BY <2>2, CdIdle DEF CdAtWork, CdReads
  <2>7. CdUpdated'
    BY <2>2, <2>3, <2>4 DEF CdUpdated, CdKept
  <2> QED BY <2>5, <2>6, <2>7
<1>2. CASE AskApply
  <2>1. UNCHANGED <<cdChip, cdConfig, cdLive, cdRead>> /\ cdJob.pc = "ask" /\ AskWorker(cdJob.want, "wait", "refused")
    BY <1>2 DEF AskApply
  <2>2. cdCommand.pc = "none" /\ cdJob.want # CdUnasked
    BY <2>1, CdIdle DEF CdUpdated
  <2>3. PICK d : d = cdJob.want
    OBVIOUS
  <2>4. CASE /\ cdCommand' = [pc |-> "asked", todo |-> Transfers(d), want |-> d]
             /\ cdJob' = [cdJob EXCEPT !.pc = "wait"]
    <3>1. cdCommand'.pc = "asked" /\ cdCommand'.todo = Transfers(d) /\ cdCommand'.want = d
          /\ {"pc", "todo", "want"} \subseteq DOMAIN cdCommand'
      BY <2>4
    <3>2. CdKept /\ cdJob'.staged = cdJob.staged /\ cdJob'.pc = "wait"
      BY <2>4 DEF CdShapes, CdKept
    <3>3. CdTodo(Transfers(d), cdChip, d) /\ Transfers(d) # << >>
      BY CdFirst
    <3>4. CdShapes'
      BY <2>1, <3>1, <3>2 DEF CdShapes, CdKept
    <3>5. CdAtWork' /\ CdReads'
      BY <2>1, <2>2, <2>3, <3>1, <3>2, <3>3 DEF CdAtWork, CdReads, CdKept
    <3>6. CdUpdated'
      BY <2>1, <3>2 DEF CdUpdated, CdKept
    <3> QED BY <3>4, <3>5, <3>6
  <2>5. CASE /\ cdJob' = [cdJob EXCEPT !.pc = "refused", !.errors = @ \/ "wait" = "waitBack"] /\ UNCHANGED cdCommand
    <3>1. CdKept /\ cdJob'.staged = cdJob.staged /\ cdJob'.pc = "refused"
      BY <2>5 DEF CdShapes, CdKept
    <3>2. CdShapes'
      BY <2>1, <2>5, <3>1 DEF CdShapes, CdKept
    <3>3. CdAtWork' /\ CdReads'
      BY <2>1, <2>2, <2>5, <3>1 DEF CdAtWork, CdReads, CdKept
    <3>4. CdUpdated'
      BY <2>1, <3>1 DEF CdUpdated, CdKept
    <3> QED BY <3>2, <3>3, <3>4
  <2> QED BY <2>1, <2>3, <2>4, <2>5 DEF AskWorker
<1>3. CASE Persist
  <2>1. UNCHANGED <<cdChip, cdLive, cdCommand, cdRead>> /\ cdJob.pc = "store" /\ cdCommand.pc = "none" /\ ~cdRead.settled
    BY <1>3, CdIdle DEF Persist, CdReads
  <2>2. CASE cdConfig' = cdJob.staged /\ cdJob' = [cdJob EXCEPT !.pc = "ok"]
    <3>1. CdKept /\ cdJob'.staged = cdJob.staged /\ cdJob'.pc = "ok" /\ cdJob'.applied = cdJob.applied
      BY <2>2 DEF CdShapes, CdKept
    <3>2. CdShapes'
      BY <2>1, <2>2, <3>1 DEF CdShapes, CdKept
    <3>3. CdAtWork' /\ CdReads'
      BY <2>1 DEF CdAtWork, CdReads
    <3>4. CdUpdated'
      BY <2>1, <2>2, <3>1 DEF CdUpdated, CdKept
    <3> QED BY <3>2, <3>3, <3>4
  <2>3. CASE cdJob' = [cdJob EXCEPT !.pc = "undo"] /\ UNCHANGED cdConfig
    <3>1. CdKept /\ cdJob'.staged = cdJob.staged /\ cdJob'.pc = "undo" /\ cdJob'.applied = cdJob.applied
      BY <2>3 DEF CdShapes, CdKept
    <3>2. CdShapes'
      BY <2>1, <2>3, <3>1 DEF CdShapes, CdKept
    <3>3. CdAtWork' /\ CdReads'
      BY <2>1 DEF CdAtWork, CdReads
    <3>4. CdUpdated'
      BY <2>1, <2>3, <3>1 DEF CdUpdated, CdKept
    <3> QED BY <3>2, <3>3, <3>4
  <2> QED BY <1>3, <2>2, <2>3 DEF Persist
<1>4. CASE UndoRuntime
  <2>1. PICK ok \in BOOLEAN : Apply(cdJob.staged, cdJob.old, ok) /\
          cdJob' = [cdJob EXCEPT !.errors = ~ok,
                                 !.pc = IF (cdJob.pc = "refused" \/ cdJob.applied) /\ cdJob.old.serial
                                        THEN "askBack" ELSE "undone"]
    BY <1>4 DEF UndoRuntime
  <2>2. UNCHANGED <<cdChip, cdConfig, cdCommand, cdRead>> /\ cdJob.pc \in {"undo", "refused"} /\ cdCommand.pc = "none" /\ ~cdRead.settled
    BY <1>4, CdIdle DEF UndoRuntime, CdReads
  <2>3. CdKept /\ cdJob'.staged = cdJob.staged /\ cdJob'.applied = cdJob.applied /\ cdJob'.errors = ~ok
    BY <2>1 DEF CdShapes, CdKept
  <2>4. cdJob'.pc \in {"askBack", "undone"}
        /\ (cdJob'.pc = "undone" /\ cdJob.old.serial => cdJob.pc = "undo" /\ ~cdJob.applied)
    BY <2>1, <2>2 DEF CdShapes
  <2>5. ~cdJob'.errors /\ cdJob.staged.serial # cdJob.old.serial => cdLive' = Backend(cdJob.old)
    BY <2>1, <2>3, CdLives
  <2>6. CdShapes'
    BY <2>2, <2>3 DEF CdShapes, CdKept
  <2>7. CdAtWork' /\ CdReads'
    BY <2>2 DEF CdAtWork, CdReads
  <2>8. CdUpdated'
    BY <2>2, <2>3, <2>4, <2>5 DEF CdUpdated, CdKept
  <2> QED BY <2>6, <2>7, <2>8
<1>5. CASE UndoDescriptor
  <2>1. UNCHANGED <<cdChip, cdConfig, cdLive, cdRead>> /\ cdJob.pc = "askBack" /\ AskWorker(cdJob.old.desc, "waitBack", "undone")
    BY <1>5 DEF UndoDescriptor
  <2>2. cdCommand.pc = "none" /\ ~cdRead.settled
    BY <2>1, CdIdle DEF CdReads
  <2>3. PICK d : d = cdJob.old.desc
    OBVIOUS
  <2>4. CASE /\ cdCommand' = [pc |-> "asked", todo |-> Transfers(d), want |-> d]
             /\ cdJob' = [cdJob EXCEPT !.pc = "waitBack"]
    <3>1. cdCommand'.pc = "asked" /\ cdCommand'.todo = Transfers(d) /\ cdCommand'.want = d
          /\ {"pc", "todo", "want"} \subseteq DOMAIN cdCommand'
      BY <2>4
    <3>2. CdKept /\ cdJob'.staged = cdJob.staged /\ cdJob'.pc = "waitBack" /\ cdJob'.errors = cdJob.errors
      BY <2>4 DEF CdShapes, CdKept
    <3>3. CdTodo(Transfers(d), cdChip, d) /\ Transfers(d) # << >>
      BY CdFirst
    <3>4. CdShapes'
      BY <2>1, <3>1, <3>2 DEF CdShapes, CdKept
    <3>5. CdAtWork' /\ CdReads'
      BY <2>1, <2>2, <2>3, <3>1, <3>2, <3>3 DEF CdAtWork, CdReads, CdKept
    <3>6. CdUpdated'
      BY <2>1, <3>2 DEF CdUpdated, CdKept
    <3> QED BY <3>4, <3>5, <3>6
  <2>5. CASE /\ cdJob' = [cdJob EXCEPT !.pc = "undone", !.errors = @ \/ "waitBack" = "waitBack"] /\ UNCHANGED cdCommand
    <3>1. CdKept /\ cdJob'.staged = cdJob.staged /\ cdJob'.pc = "undone" /\ cdJob'.errors = (cdJob.errors \/ "waitBack" = "waitBack")
      BY <2>5 DEF CdShapes, CdKept
    <3>2. cdJob'.errors
      BY <3>1, Zenon
    <3>3. CdShapes'
      BY <2>1, <2>5, <3>1 DEF CdShapes, CdKept
    <3>4. CdAtWork' /\ CdReads'
      BY <2>1, <2>2, <2>5, <3>1 DEF CdAtWork, CdReads, CdKept
    <3>5. CdUpdated'
      BY <2>1, <3>1, <3>2 DEF CdUpdated, CdKept
    <3> QED BY <3>3, <3>4, <3>5
  <2> QED BY <2>1, <2>3, <2>4, <2>5 DEF AskWorker
<1>6. CASE UpdateFails
  <2>1. UNCHANGED <<cdChip, cdConfig, cdLive, cdCommand, cdRead>> /\ cdJob.pc = "undone" /\ cdCommand.pc = "none" /\ ~cdRead.settled
        /\ cdJob' = [cdJob EXCEPT !.pc = IF cdJob.errors THEN "degraded" ELSE "failed"]
    BY <1>6, CdIdle DEF UpdateFails, CdReads
  <2>2. CdKept /\ cdJob'.staged = cdJob.staged /\ cdJob'.errors = cdJob.errors
    BY <2>1 DEF CdShapes, CdKept
  <2>3. cdJob'.pc = (IF cdJob.errors THEN "degraded" ELSE "failed")
    BY <2>1 DEF CdShapes
  <2>4. CdShapes'
    BY <2>1, <2>2 DEF CdShapes, CdKept
  <2>5. CdAtWork' /\ CdReads'
    BY <2>1 DEF CdAtWork, CdReads
  <2>6. CdUpdated'
    BY <2>1, <2>2, <2>3 DEF CdUpdated, CdKept
  <2> QED BY <2>4, <2>5, <2>6
<1> QED BY <1>1, <1>2, <1>3, <1>4, <1>5, <1>6 DEF CdUpdate

\* A request begins an update of what is stored.
LEMMA CdBegins == ASSUME CdInv, NEW serial, NEW u, UpdateUsbConfig(serial, u) PROVE CdInv'
<1> USE DEF CdInv
<1>1. cdJob.pc \in {"idle", "ok", "failed", "degraded"} /\ cdCommand.pc = "none"
  BY CdIdle DEF UpdateUsbConfig, Updating
<1>2. PICK w : w = IF u = << >> THEN CdUnasked ELSE Merge(cdConfig.desc, u)
  OBVIOUS
<1>3. PICK s : s = [cdConfig EXCEPT !.serial = serial]
  OBVIOUS
<1>4. /\ cdJob' = [pc |-> "apply", old |-> cdConfig, staged |-> s, want |-> w,
                   applied |-> FALSE, errors |-> FALSE, before |-> cdChip]
      /\ UNCHANGED <<cdChip, cdConfig, cdLive, cdCommand>>
      /\ cdRead' = IF cdRead.pc = "done" THEN NoRead ELSE [cdRead EXCEPT !.settled = FALSE]
  BY <1>2, <1>3 DEF UpdateUsbConfig
<1>5. s.desc = cdConfig.desc /\ {"serial", "desc"} \subseteq DOMAIN s
  BY <1>3 DEF CdShapes
<1>6. w # CdUnasked => CdDesc(w)
  BY <1>2 DEF CdDesc, Merge
<1>7. ~cdRead'.settled /\ {"pc", "cached", "shown", "settled"} \subseteq DOMAIN cdRead'
  BY <1>4 DEF NoRead, CdShapes
<1>8. CdShapes'
  BY <1>4, <1>5, <1>6, <1>7 DEF CdShapes
<1>9. CdAtWork' /\ CdReads'
  BY <1>1, <1>4, <1>7 DEF CdAtWork, CdReads
<1>10. CdUpdated'
  BY <1>4 DEF CdUpdated
<1> QED BY <1>8, <1>9, <1>10

\* A read begins with what is stored.
LEMMA CdBeginsRead == ASSUME CdInv, BeginRead PROVE CdInv'
<1> USE DEF CdInv
<1>1. cdRead' = [NoRead EXCEPT !.pc = "asked", !.cached = cdConfig.desc, !.settled = cdJob.pc = "ok" /\ cdJob.applied]
      /\ UNCHANGED <<cdChip, cdConfig, cdLive, cdCommand, cdJob>>
  BY DEF BeginRead
<1>2. cdRead'.pc = "asked" /\ cdRead'.cached = cdConfig.desc /\ {"pc", "cached", "shown", "settled"} \subseteq DOMAIN cdRead'
      /\ cdRead'.settled = (cdJob.pc = "ok" /\ cdJob.applied)
  BY <1>1 DEF NoRead
<1>3. cdRead'.settled => cdJob.pc = "ok" /\ cdJob.applied
  BY <1>2, Zenon
<1>4. CdShapes' /\ CdAtWork' /\ CdUpdated'
  BY <1>1, <1>2 DEF CdShapes, CdAtWork, CdUpdated
<1>5. CdReads'
  BY <1>1, <1>2, <1>3 DEF CdReads
<1> QED BY <1>4, <1>5
\* The worker answers it, or the stored configuration does.
LEMMA CdEndsRead == ASSUME CdInv, EndRead PROVE CdInv'
<1> USE DEF CdInv
<1>1. PICK s : s = IF cdPin THEN Shows(cdChip) ELSE cdRead.cached
  OBVIOUS
<1>2. UNCHANGED <<cdChip, cdConfig, cdLive, cdCommand, cdJob>>
      /\ (cdRead' = NoRead \/ (cdRead.settled /\ cdRead' = [cdRead EXCEPT !.pc = "done", !.shown = s]))
  BY <1>1 DEF EndRead
<1>3. CASE cdRead' = NoRead
  <2>1. ~cdRead'.settled /\ {"pc", "cached", "shown", "settled"} \subseteq DOMAIN cdRead'
    BY <1>3 DEF NoRead
  <2> QED BY <1>2, <2>1 DEF CdShapes, CdAtWork, CdUpdated, CdReads
<1>4. CASE cdRead.settled /\ cdRead' = [cdRead EXCEPT !.pc = "done", !.shown = s]
  <2>1. cdRead'.shown = s /\ cdRead'.cached = cdRead.cached /\ {"pc", "cached", "shown", "settled"} \subseteq DOMAIN cdRead'
    BY <1>4 DEF CdShapes
  <2>2. s = cdConfig.desc /\ cdJob.pc = "ok" /\ cdJob.applied /\ cdRead.cached = cdConfig.desc
    BY <1>1, <1>4 DEF CdReads, CdUpdated
  <2>3. CdShapes' /\ CdAtWork' /\ CdUpdated'
    BY <1>2, <2>1 DEF CdShapes, CdAtWork, CdUpdated
  <2>4. CdReads'
    BY <1>2, <2>1, <2>2 DEF CdReads
  <2> QED BY <2>3, <2>4
<1> QED BY <1>2, <1>3, <1>4

\* Every step keeps the invariant.
LEMMA CdSteps == CdInv /\ [CdNext]_cdVars => CdInv'
<1> SUFFICES ASSUME CdInv, [CdNext]_cdVars PROVE CdInv'
  OBVIOUS
<1>1. CASE CdWorker
  BY <1>1, CdWorks
<1>2. CASE CdUpdate
  BY <1>2, CdGoes
<1>3. CASE BeginRead \/ EndRead
  BY <1>3, CdBeginsRead, CdEndsRead
<1>4. CASE \E serial \in BOOLEAN, u \in CdUpdates : UpdateUsbConfig(serial, u)
  BY <1>4, CdBegins
<1>5. CASE UNCHANGED <<cdChip, cdConfig, cdLive, cdCommand, cdJob, cdRead>>
  BY <1>5 DEF CdInv, CdShapes, CdAtWork, CdUpdated, CdReads
<1>6. PortReopened \/ WiresChange \/ UNCHANGED cdVars => UNCHANGED <<cdChip, cdConfig, cdLive, cdCommand, cdJob, cdRead>>
  BY DEF PortReopened, WiresChange, cdVars
<1> QED BY <1>1, <1>2, <1>3, <1>4, <1>5, <1>6 DEF CdNext

\* What the update keeps follows.
LEMMA CdPromised == CdInv => StoredIsOnChip /\ FailedUpdateUndone /\ ShownIsStored
<1> SUFFICES ASSUME CdInv PROVE StoredIsOnChip /\ FailedUpdateUndone /\ ShownIsStored
  OBVIOUS
<1>1. StoredIsOnChip
  BY DEF CdInv, CdUpdated, StoredIsOnChip
<1>2. FailedUpdateUndone
  BY DEF CdInv, CdUpdated, FailedUpdateUndone
<1>3. ShownIsStored
  BY DEF CdInv, CdReads, ShownIsStored
<1> QED BY <1>1, <1>2, <1>3

-----------------------------------------------------------------------------
\* Audio

\* The shapes; a recovery that holds a streamer is about to commit it, and
\* generations that have not begun are untouched.
AuStreamerOK(o) == {"state", "cap", "watched"} \subseteq DOMAIN o /\ (o.state = "Error" => ~o.cap)
AuRecOK(r, g, tok) ==
    /\ {"pc", "s"} \subseteq DOMAIN r
    /\ r.s # NoStreamer => r.pc = "commit"
    /\ r.pc = "commit" => r.s \in AuStreamers
    /\ 2 * g - 1 > tok => r.pc = "none"
AuShapes ==
    /\ {"enabled", "streamer", "error"} \subseteq DOMAIN auCtl /\ auCtl.streamer \in AuStreamers \cup {NoStreamer}
    /\ DOMAIN auObj = AuStreamers /\ \A s \in AuStreamers : AuStreamerOK(auObj[s])
    /\ auTok \in Nat /\ DOMAIN auRec = AuGens /\ \A g \in AuGens : AuRecOK(auRec[g], g, auTok)
    /\ {"pc", "kind", "s"} \subseteq DOMAIN auOp
    /\ IF auOp.pc = "wait" THEN auOp.s \in AuStreamers ELSE auOp.s = NoStreamer

\* Who holds a streamer in which state; no two hold the same.
Installed == {"Running", "Error"}
AuRoles ==
    /\ auCtl.streamer \in AuStreamers => auObj[auCtl.streamer].state \in Installed
    /\ auOp.pc = "wait" => auObj[auOp.s].state = "Starting"
    /\ \A g \in AuGens : auRec[g].s \in AuStreamers =>
          /\ auObj[auRec[g].s].state \in Installed /\ auRec[g].s # auCtl.streamer
          /\ \A h \in AuGens : auRec[h].s = auRec[g].s => h = g

\* A recovery is under way only while nothing streams, no operation is at work, and
\* audio that was turned off is disabled.
AuMeans ==
    /\ Streaming => auCtl.error # "shown" \/ auOp.pc = "report"
    /\ auTok % 2 = 1 => ~Streaming /\ auOp.pc = "idle" /\ (auCtl.enabled => auWant # "off")
    /\ auOp.pc \in {"config", "wait"} => ~Streaming
    /\ auOp.pc \in {"open", "wait", "report"} \/ (auOp.pc = "stop" /\ auOp.kind = "select") => auWant # "off"
    /\ auWant = "off" /\ auOp.pc = "idle" => ~Streaming /\ (~auCtl.enabled \/ auCtl.streamer = NoStreamer)

AuInv == AuShapes /\ AuRoles /\ NoOrphanCapture /\ AuMeans

\* An operation at rest, or at a step that holds no streamer.
LEMMA AuDoes ==
    ASSUME NEW k, NEW p
    PROVE  {"pc", "kind", "s"} \subseteq DOMAIN AuDoing(k, p) /\ AuDoing(k, p).pc = p /\ AuDoing(k, p).s = NoStreamer
BY DEF AuDoing

\* Nothing captures at first.
LEMMA AuStarts == AuInit => AuInv
<1> SUFFICES ASSUME AuInit PROVE AuInv
  OBVIOUS
<1>1. \A s \in AuStreamers : auObj[s] = NewStreamer
  BY DEF AuInit
<1>2. AuStreamerOK(NewStreamer) /\ ~NewStreamer.cap
  BY DEF AuStreamerOK, NewStreamer
<1>3. \A g \in AuGens : AuRecOK(NoRecovery, g, 0) /\ auRec[g].s = NoStreamer
  BY DEF AuRecOK, NoRecovery, AuInit
<1>4. auOp.pc = "idle" /\ auOp.s = NoStreamer /\ {"pc", "kind", "s"} \subseteq DOMAIN auOp
  BY AuDoes DEF AuInit
<1>5. auCtl.streamer = NoStreamer /\ {"enabled", "streamer", "error"} \subseteq DOMAIN auCtl
  BY DEF AuInit
<1>6. AuShapes
  BY <1>1, <1>2, <1>3, <1>4, <1>5 DEF AuInit, AuShapes
<1>7. NoOrphanCapture
  BY <1>1, <1>2 DEF NoOrphanCapture
<1>8. AuMeans
  BY <1>4, <1>5 DEF AuInit, AuMeans, Streaming
<1>9. AuRoles
  BY <1>3, <1>4, <1>5, AuAssumption DEF AuRoles
<1> QED
  BY <1>6, <1>7, <1>8, <1>9 DEF AuInv

\* The token of a recovery only grows, and a cancelled one is even.
LEMMA AuTokens ==
    ASSUME AuShapes
    PROVE  /\ Cancelled \in Nat /\ Cancelled >= auTok /\ Cancelled % 2 # 1
           /\ \A g \in AuGens : /\ Finished(g) \in Nat /\ Finished(g) >= auTok /\ (auTok % 2 # 1 => Finished(g) = auTok)
                                /\ (Current(g) => auTok % 2 = 1 /\ Finished(g) % 2 # 1)
                                /\ (~Current(g) => Finished(g) = auTok)
<1>1. auTok \in Nat
  BY DEF AuShapes
<1>2. AuGens \subseteq Int
  BY DEF AuGens
<1> QED
  BY <1>1, <1>2 DEF Cancelled, Finished, Current, Token

\* A larger token leaves the generations as they are.
LEMMA AuLater ==
    ASSUME AuShapes, NEW n \in Nat, n >= auTok
    PROVE  \A g \in AuGens : AuRecOK(auRec[g], g, n)
<1>1. AuGens \subseteq Int
  BY DEF AuGens
<1> QED
  BY <1>1 DEF AuShapes, AuRecOK

\* What a recovery that begins finds: its generation is new.
LEMMA AuBegins ==
    ASSUME AuInv, BeginRecovery(auTok)
    PROVE  /\ auTok' \in Nat /\ auTok' >= auTok /\ DOMAIN auRec' = AuGens
           /\ \A g \in AuGens : AuRecOK(auRec'[g], g, auTok') /\ auRec'[g].s = auRec[g].s
<1>a. /\ auTok \in Nat /\ DOMAIN auRec = AuGens /\ \A g \in AuGens : AuRecOK(auRec[g], g, auTok)
  BY DEF AuInv, AuShapes
<1>g. AuGens \subseteq Int
  BY DEF AuGens
<1>1. CASE auTok % 2 = 1
  BY <1>1, <1>a DEF BeginRecovery
<1>2. CASE auTok % 2 # 1
  <2>1. PICK k \in Nat : auTok = 2 * k /\ (auTok + 2) \div 2 = k + 1
    BY <1>2, <1>a
  <2>2. auTok' = auTok + 1 /\ auRec' = [auRec EXCEPT ![k + 1] = [pc |-> "check", s |-> NoStreamer]]
    BY <1>2, <2>1 DEF BeginRecovery
  <2>3. \A g \in AuGens : auRec'[g] = IF g = k + 1 THEN [pc |-> "check", s |-> NoStreamer] ELSE auRec[g]
    BY <2>2, <1>a
  <2>4. ASSUME NEW g \in AuGens PROVE AuRecOK(auRec'[g], g, auTok') /\ auRec'[g].s = auRec[g].s
    <3>1. CASE g = k + 1
      <4>1. 2 * g - 1 > auTok /\ ~(2 * g - 1 > auTok')
        BY <3>1, <2>1, <2>2
      <4>2. auRec[g].pc = "none" /\ auRec[g].s = NoStreamer
        BY <4>1, <1>a DEF AuRecOK
      <4>3. auRec'[g] = [pc |-> "check", s |-> NoStreamer]
        BY <3>1, <2>3
      <4> QED
        BY <4>1, <4>2, <4>3 DEF AuRecOK
    <3>2. CASE g # k + 1
      <4>1. auRec'[g] = auRec[g] /\ AuRecOK(auRec[g], g, auTok)
        BY <3>2, <2>3, <1>a
      <4>2. 2 * g - 1 > auTok' => 2 * g - 1 > auTok
        BY <2>2, <1>a, <1>g
      <4> QED
        BY <4>1, <4>2 DEF AuRecOK
    <3> QED
      BY <3>1, <3>2
  <2>5. auTok' \in Nat /\ auTok' >= auTok /\ DOMAIN auRec' = AuGens
    BY <2>2, <1>a
  <2> QED
    BY <2>4, <2>5
<1> QED
  BY <1>1, <1>2

\* One streamer changes, and nobody but who is allowed to.
LEMMA AuOne ==
    ASSUME AuShapes, NEW s \in AuStreamers, NEW x, AuStreamerOK(x), auObj' = [auObj EXCEPT ![s] = x]
    PROVE  /\ DOMAIN auObj' = AuStreamers /\ \A t \in AuStreamers : AuStreamerOK(auObj'[t])
           /\ auObj'[s] = x /\ \A t \in AuStreamers : t # s => auObj'[t] = auObj[t]
BY DEF AuShapes

\* An operation takes the lock.
LEMMA AuAsks == ASSUME AuInv, UserOp PROVE AuInv'
<1>a. AuShapes /\ AuMeans /\ AuRoles
  BY DEF AuInv
<1>1. /\ auOp.pc = "idle" /\ auTok' = Cancelled /\ UNCHANGED <<auObj, auRec>>
      /\ \E k \in {"select", "start", "stop", "enable", "update"} : \E p \in {"idle", "stop", "open", "config"} :
            auOp' = AuDoing(k, p)
  <2>1. CASE SelectDevice
    BY <2>1 DEF SelectDevice, Takes
  <2>2. CASE StartStreaming
    BY <2>2 DEF StartStreaming, Takes
  <2>3. CASE StopStreaming
    BY <2>3 DEF StopStreaming, Takes
  <2>4. CASE SetEnabled
    BY <2>4 DEF SetEnabled, Takes
  <2>5. CASE UpdateAudioConfig
    BY <2>5 DEF UpdateAudioConfig, Takes
  <2> QED
    BY <2>1, <2>2, <2>3, <2>4, <2>5 DEF UserOp
<1>2. /\ auCtl'.streamer = auCtl.streamer /\ auCtl'.error = auCtl.error
      /\ {"enabled", "streamer", "error"} \subseteq DOMAIN auCtl'
  <2>1. auCtl' = auCtl \/ \E b : auCtl' = [auCtl EXCEPT !.enabled = b]
    BY DEF UserOp, SelectDevice, StartStreaming, StopStreaming, SetEnabled, UpdateAudioConfig
  <2>2. {"enabled", "streamer", "error"} \subseteq DOMAIN auCtl
    BY <1>a DEF AuShapes
  <2> QED
    BY <2>1, <2>2
<1>3. Streaming' <=> Streaming
  BY <1>1, <1>2 DEF Streaming
<1>4. auTok' \in Nat /\ auTok' >= auTok /\ auTok' % 2 # 1
  BY <1>1, <1>a, AuTokens
<1>b. {"pc", "kind", "s"} \subseteq DOMAIN auOp' /\ auOp'.s = NoStreamer /\ auOp'.pc \notin {"wait", "report"}
  BY <1>1, AuDoes
<1>c. auOp.s = NoStreamer
  BY <1>1, <1>a DEF AuShapes
<1>5. AuShapes'
  <2>2. \A g \in AuGens : AuRecOK(auRec[g], g, auTok')
    BY <1>4, <1>a, AuLater
  <2> QED
    BY <1>1, <1>2, <1>4, <1>b, <2>2, <1>a DEF AuShapes
<1>6. NoOrphanCapture' /\ AuRoles'
  BY <1>1, <1>2, <1>b, <1>c DEF AuInv, NoOrphanCapture, AuRoles
<1>7. Streaming => auWant # "off" /\ auCtl.error # "shown"
  BY <1>1, <1>a DEF AuMeans
<1>8. /\ auOp'.pc = "config" => ~Streaming
      /\ auOp'.pc = "open" \/ (auOp'.pc = "stop" /\ auOp'.kind = "select") => auWant' # "off"
      /\ auWant' = "off" /\ auOp'.pc = "idle" => ~Streaming /\ ~auCtl'.enabled
  <2>1. CASE SelectDevice
    <3>1. \E p \in {"idle", "stop"} : auOp' = AuDoing("select", p)
      BY <2>1 DEF SelectDevice, Takes
    <3>2. auWant' # "off"
      BY <2>1, <1>7 DEF SelectDevice, Rests
    <3> QED
      BY <3>1, <3>2 DEF AuDoing
  <2>2. CASE StartStreaming
    BY <2>2 DEF StartStreaming, Takes, AuDoing
  <2>3. CASE StopStreaming
    BY <2>3 DEF StopStreaming, Takes, AuDoing
  <2>4. CASE SetEnabled
    <3>1. PICK b \in BOOLEAN : /\ auOp' = AuDoing("enable", IF ~b /\ Streaming THEN "stop" ELSE "idle")
                               /\ auCtl' = [auCtl EXCEPT !.enabled = b]
                               /\ IF b THEN Rests ELSE auWant' = "off"
      BY <2>4 DEF SetEnabled, Takes
    <3>2. CASE b
      <4>1. auWant' # "off"
        BY <3>1, <3>2, <1>7 DEF Rests
      <4>2. auOp'.pc = "idle"
        BY <3>1, <3>2 DEF AuDoing
      <4> QED
        BY <4>1, <4>2
    <3>3. CASE ~b
      <4>1. ~auCtl'.enabled
        BY <3>1, <3>3, <1>a DEF AuShapes
      <4>2. auOp'.pc = (IF Streaming THEN "stop" ELSE "idle") /\ (auOp'.pc = "stop" => auOp'.kind = "enable")
        BY <3>1, <3>3 DEF AuDoing
      <4> QED
        BY <4>1, <4>2
    <3> QED
      BY <3>2, <3>3
  <2>5. CASE UpdateAudioConfig
    BY <2>5 DEF UpdateAudioConfig, Takes, AuDoing
  <2> QED
    BY <2>1, <2>2, <2>3, <2>4, <2>5 DEF UserOp
<1>9. AuMeans'
  BY <1>2, <1>3, <1>4, <1>7, <1>8, <1>b DEF AuMeans
<1> QED
  BY <1>5, <1>6, <1>9 DEF AuInv

\* The controller lets go of its streamer, which was stopped or told to.
LEMMA AuLetsGo ==
    ASSUME AuInv, auOp.pc = "stop", UNCHANGED auRec, auTok' \in Nat, auTok' >= auTok,
           auCtl'.streamer = NoStreamer, {"enabled", "streamer", "error"} \subseteq DOMAIN auCtl',
           {"pc", "kind", "s"} \subseteq DOMAIN auOp', auOp'.pc # "wait", auOp'.s = NoStreamer,
           \/ auCtl.streamer = NoStreamer /\ auObj' = auObj
           \/ /\ auCtl.streamer # NoStreamer
              /\ \E x : auObj' = [auObj EXCEPT ![auCtl.streamer] = x] /\ AuStreamerOK(x) /\ x.state = "Stopped"
                        /\ (x.cap => auObj[auCtl.streamer].cap)
    PROVE  AuShapes' /\ AuRoles' /\ NoOrphanCapture'
<1>a. AuShapes /\ AuRoles /\ NoOrphanCapture /\ auOp.s = NoStreamer
  BY DEF AuInv, AuShapes
<1>1. /\ DOMAIN auObj' = AuStreamers
      /\ \A t \in AuStreamers : /\ AuStreamerOK(auObj'[t]) /\ (auObj'[t].cap => auObj[t].cap)
                                /\ t # auCtl.streamer => auObj'[t] = auObj[t]
                                /\ t = auCtl.streamer => auObj'[t].state = "Stopped"
  <2>1. CASE auCtl.streamer = NoStreamer /\ auObj' = auObj
    BY <2>1, <1>a, AuAssumption DEF AuShapes
  <2>2. CASE auCtl.streamer # NoStreamer
    <3>1. PICK s \in AuStreamers : s = auCtl.streamer
      BY <2>2, <1>a DEF AuShapes
    <3>2. PICK x : auObj' = [auObj EXCEPT ![s] = x] /\ AuStreamerOK(x) /\ x.state = "Stopped" /\ (x.cap => auObj[s].cap)
      BY <2>2, <3>1
    <3> QED
      BY <3>1, <3>2, <1>a, AuOne
  <2> QED
    BY <2>1, <2>2
<1>2. \A g \in AuGens : AuRecOK(auRec[g], g, auTok')
  BY <1>a, AuLater
<1>3. AuShapes'
  BY <1>1, <1>2, <1>a DEF AuShapes
<1>4. AuRoles'
  <2>1. \A g \in AuGens : auRec[g].s \in AuStreamers => auObj'[auRec[g].s] = auObj[auRec[g].s]
    BY <1>1, <1>a DEF AuRoles
  <2> QED
    BY <2>1, <1>a, AuAssumption DEF AuRoles
<1>5. NoOrphanCapture'
  <2> SUFFICES ASSUME NEW t \in AuStreamers, auObj'[t].cap
               PROVE  /\ t \in {auCtl'.streamer, auOp'.s} \/ (\E g \in AuGens : auRec'[g].s = t)
                         \/ auObj'[t].state \in {"Stopped", "Left"}
                      /\ \A u \in AuStreamers : auObj'[u].cap => u = t
    BY DEF NoOrphanCapture
  <2>1. \A u \in AuStreamers : auObj'[u].cap => u = t
    BY <1>1, <1>a DEF NoOrphanCapture
  <2>2. CASE t = auCtl.streamer
    BY <1>1, <2>1, <2>2
  <2>3. CASE t # auCtl.streamer
    BY <1>1, <2>1, <2>3, <1>a, AuAssumption DEF NoOrphanCapture
  <2> QED
    BY <2>2, <2>3
<1> QED
  BY <1>3, <1>4, <1>5

\* The streamer is stopped, or the configuration stored.
LEMMA AuStops == ASSUME AuInv, StopInner \/ StoreConfig PROVE AuInv'
<1>a. AuShapes /\ AuMeans /\ AuRoles /\ NoOrphanCapture
  BY DEF AuInv
<1>1. CASE StopInner
  <2>1. /\ auOp.pc = "stop" /\ auTok' = Cancelled /\ UNCHANGED <<auRec, auWant>>
        /\ auCtl' = Healthy([auCtl EXCEPT !.streamer = NoStreamer])
    BY <1>1 DEF StopInner
  <2>2. auCtl'.streamer = NoStreamer /\ {"enabled", "streamer", "error"} \subseteq DOMAIN auCtl'
    BY <2>1, <1>a DEF AuShapes, Healthy
  <2>3. ~Streaming'
    BY <2>2 DEF Streaming
  <2>4. \/ auCtl.streamer = NoStreamer /\ auObj' = auObj
        \/ /\ auCtl.streamer # NoStreamer
           /\ \E x : auObj' = [auObj EXCEPT ![auCtl.streamer] = x] /\ AuStreamerOK(x) /\ x.state = "Stopped"
                     /\ (x.cap => auObj[auCtl.streamer].cap)
    <3>1. CASE auCtl.streamer = NoStreamer
      BY <1>1, <3>1 DEF StopInner
    <3>2. CASE auCtl.streamer # NoStreamer
      <4>1. PICK x : x = StoppedStreamer(auObj[auCtl.streamer])
        OBVIOUS
      <4>2. AuStreamerOK(auObj[auCtl.streamer])
        BY <3>2, <1>a DEF AuShapes
      <4>3. AuStreamerOK(x) /\ x.state = "Stopped" /\ ~x.cap
        BY <4>1, <4>2 DEF AuStreamerOK, StoppedStreamer
      <4>4. auObj' = [auObj EXCEPT ![auCtl.streamer] = x]
        BY <1>1, <3>2, <4>1 DEF StopInner
      <4> QED
        BY <3>2, <4>3, <4>4
    <3> QED
      BY <3>1, <3>2
  <2>5. auTok' \in Nat /\ auTok' >= auTok /\ auTok' % 2 # 1
    BY <2>1, <1>a, AuTokens
  <2>7. /\ {"pc", "kind", "s"} \subseteq DOMAIN auOp' /\ auOp'.pc \in {"open", "config", "idle"} /\ auOp'.s = NoStreamer
        /\ auOp'.pc = "open" => auOp.kind = "select"
    BY <1>1 DEF StopInner, AuDoing
  <2>8. AuShapes' /\ AuRoles' /\ NoOrphanCapture'
    BY <2>1, <2>2, <2>4, <2>5, <2>7, AuLetsGo
  <2>10. AuMeans'
    BY <2>1, <2>2, <2>3, <2>5, <2>7, <1>a DEF AuMeans
  <2> QED
    BY <2>8, <2>10 DEF AuInv
<1>2. CASE StoreConfig
  <2>1. PICK b \in BOOLEAN : /\ auCtl' = [auCtl EXCEPT !.enabled = b]
                             /\ auOp' = AuDoing(auOp.kind, IF b THEN "open" ELSE "idle")
                             /\ auWant' = IF b THEN "on" ELSE "off"
    BY <1>2 DEF StoreConfig
  <2>2. auOp.pc = "config" /\ auOp.s = NoStreamer /\ UNCHANGED <<auObj, auTok, auRec>>
    BY <1>2, <1>a DEF StoreConfig, AuShapes
  <2>3. /\ auCtl'.streamer = auCtl.streamer /\ auCtl'.error = auCtl.error
        /\ {"enabled", "streamer", "error"} \subseteq DOMAIN auCtl'
    BY <2>1, <1>a DEF AuShapes
  <2>4. ~Streaming' /\ auTok % 2 # 1
    BY <2>2, <2>3, <1>a DEF Streaming, AuMeans
  <2>5. {"pc", "kind", "s"} \subseteq DOMAIN auOp' /\ auOp'.pc \in {"open", "idle"} /\ auOp'.s = NoStreamer
    BY <2>1 DEF AuDoing
  <2>6. (auOp'.pc = "open" => auWant' # "off") /\ (auWant' = "off" => ~auCtl'.enabled)
    <3>1. CASE b
      BY <3>1, <2>1
    <3>2. CASE ~b
      BY <3>2, <2>1, <1>a DEF AuDoing, AuShapes
    <3> QED
      BY <3>1, <3>2
  <2>7. AuShapes'
    BY <2>2, <2>3, <2>5, <1>a DEF AuShapes
  <2>8. NoOrphanCapture' /\ AuRoles'
    BY <2>2, <2>3, <2>5, <1>a DEF NoOrphanCapture, AuRoles
  <2>9. AuMeans'
    BY <2>2, <2>4, <2>5, <2>6 DEF AuMeans
  <2> QED
    BY <2>7, <2>8, <2>9 DEF AuInv
<1> QED
  BY <1>1, <1>2

\* A capture is spawned for the operation, unless audio is disabled or streams.
LEMMA AuOpens == ASSUME AuInv, OpenInner PROVE AuInv'
<1>a. AuShapes /\ AuMeans /\ AuRoles /\ NoOrphanCapture
  BY DEF AuInv
<1>b. auOp.pc = "open" /\ auOp.s = NoStreamer /\ UNCHANGED <<auCtl, auTok, auRec>>
  BY <1>a DEF OpenInner, AuShapes
<1>c. auTok % 2 # 1 /\ auWant # "off" /\ (Streaming => auCtl.error # "shown")
  BY <1>a, <1>b DEF AuMeans
<1>1. CASE auOp' = AuDoing("none", "idle") /\ UNCHANGED auObj /\ auWant' \in {auWant, "none"}
  <2>1. (Streaming' <=> Streaming) /\ auWant' # "off"
    BY <1>1, <1>b, <1>c DEF Streaming
  <2>a. {"pc", "kind", "s"} \subseteq DOMAIN auOp' /\ auOp'.pc = "idle" /\ auOp'.s = NoStreamer
    BY <1>1, AuDoes
  <2>2. AuShapes'
    BY <1>1, <1>a, <1>b, <2>a DEF AuShapes
  <2>3. NoOrphanCapture' /\ AuRoles'
    BY <1>1, <1>a, <1>b, <2>a DEF NoOrphanCapture, AuRoles
  <2>4. AuMeans'
    BY <1>1, <1>a, <1>b, <1>c, <2>1, <2>a DEF AuMeans
  <2> QED
    BY <2>2, <2>3, <2>4 DEF AuInv
<1>2. CASE /\ ~Streaming /\ UNCHANGED auWant
           /\ \E s \in {t \in AuStreamers : Unused(t)} :
                 /\ auObj' = [auObj EXCEPT ![s] = StartingStreamer(DeviceFree)]
                 /\ auOp' = [AuDoing(auOp.kind, "wait") EXCEPT !.s = s]
  <2>1. PICK s \in AuStreamers : /\ Unused(s) /\ auObj' = [auObj EXCEPT ![s] = StartingStreamer(DeviceFree)]
                                 /\ auOp' = [AuDoing(auOp.kind, "wait") EXCEPT !.s = s]
    BY <1>2
  <2>2. {"pc", "kind", "s"} \subseteq DOMAIN auOp' /\ auOp'.pc = "wait" /\ auOp'.s = s
    BY <2>1 DEF AuDoing
  <2>3. PICK x : x = StartingStreamer(DeviceFree)
    OBVIOUS
  <2>4. AuStreamerOK(x) /\ x.state = "Starting" /\ (x.cap => DeviceFree)
    BY <2>3 DEF AuStreamerOK, StartingStreamer
  <2>5. /\ DOMAIN auObj' = AuStreamers /\ \A t \in AuStreamers : AuStreamerOK(auObj'[t])
        /\ auObj'[s] = x /\ \A t \in AuStreamers : t # s => auObj'[t] = auObj[t]
    BY <2>1, <2>3, <2>4, <1>a, AuOne
  <2>6. s # auCtl.streamer /\ \A g \in AuGens : auRec[g].s # s
    BY <2>1 DEF Unused
  <2>7. ~Streaming'
    BY <1>2, <1>b, <2>5, <2>6, <1>a DEF Streaming, AuShapes
  <2>8. AuShapes'
    BY <1>b, <2>2, <2>5, <1>a DEF AuShapes
  <2>9. AuRoles'
    BY <1>b, <2>2, <2>4, <2>5, <2>6, <1>a DEF AuRoles
  <2>10. NoOrphanCapture'
    <3>1. CASE DeviceFree
      BY <3>1, <2>2, <2>5 DEF NoOrphanCapture, DeviceFree
    <3>2. CASE ~DeviceFree
      <4>1. \A t \in AuStreamers : auObj'[t].cap => t # s /\ auObj'[t] = auObj[t]
        BY <3>2, <2>4, <2>5
      <4> QED
        BY <4>1, <1>b, <1>a, AuAssumption DEF NoOrphanCapture
    <3> QED
      BY <3>1, <3>2
  <2>11. AuMeans'
    BY <1>2, <1>b, <1>c, <2>2, <2>7 DEF AuMeans
  <2> QED
    BY <2>8, <2>9, <2>10, <2>11 DEF AuInv
<1> QED
  BY <1>1, <1>2 DEF OpenInner

\* The streamer that was waited for is installed, or fails.
LEMMA AuOpened == ASSUME AuInv, StreamerOpened PROVE AuInv'
<1>a. AuShapes /\ AuMeans /\ AuRoles /\ NoOrphanCapture
  BY DEF AuInv
<1>b. auOp.pc = "wait" /\ UNCHANGED auWant
  BY DEF StreamerOpened
<1>1. PICK s \in AuStreamers : s = auOp.s
  BY <1>a, <1>b DEF AuShapes
<1>c. /\ auTok % 2 # 1 /\ auWant # "off" /\ ~Streaming /\ auObj[s].state = "Starting"
      /\ \A g \in AuGens : auRec[g].s # s
  BY <1>a, <1>b, <1>1 DEF AuMeans, AuRoles, Installed
<1>d. \A t \in AuStreamers : t = auCtl.streamer => ~auObj[t].cap /\ t # s
  BY <1>a, <1>c, AuAssumption DEF AuRoles, AuShapes, AuStreamerOK, Streaming, Installed
<1>2. CASE /\ auObj' = [auObj EXCEPT ![s] = StartedStreamer(TRUE)]
           /\ auObj[s].cap /\ auCtl' = [auCtl EXCEPT !.streamer = s]
           /\ auOp' = AuDoing(auOp.kind, IF auCtl.error = "none" THEN "idle" ELSE "report")
           /\ UNCHANGED <<auTok, auRec>>
  <2>1. /\ auCtl'.streamer = s /\ auCtl'.error = auCtl.error
        /\ {"enabled", "streamer", "error"} \subseteq DOMAIN auCtl'
    BY <1>2, <1>a DEF AuShapes
  <2>2. /\ {"pc", "kind", "s"} \subseteq DOMAIN auOp' /\ auOp'.s = NoStreamer
        /\ auOp'.pc = IF auCtl.error = "none" THEN "idle" ELSE "report"
    BY <1>2, AuDoes
  <2>3. PICK x : x = StartedStreamer(TRUE)
    OBVIOUS
  <2>4. AuStreamerOK(x) /\ x.state = "Running"
    BY <2>3 DEF AuStreamerOK, StartedStreamer
  <2>5. /\ DOMAIN auObj' = AuStreamers /\ \A t \in AuStreamers : AuStreamerOK(auObj'[t])
        /\ auObj'[s] = x /\ \A t \in AuStreamers : t # s => auObj'[t] = auObj[t]
    BY <1>2, <2>3, <2>4, <1>a, AuOne
  <2>6. AuShapes'
    BY <1>2, <2>1, <2>2, <2>5, <1>a DEF AuShapes
  <2>7. AuRoles'
    BY <1>2, <1>c, <2>1, <2>2, <2>4, <2>5, <1>a DEF AuRoles, Installed
  <2>8. NoOrphanCapture'
    <3>1. \A t \in AuStreamers : auObj[t].cap => t = s
      BY <1>2, <1>a DEF NoOrphanCapture
    <3>2. \A t \in AuStreamers : auObj'[t].cap => t = s
      BY <3>1, <2>5
    <3> QED
      BY <3>2, <2>1 DEF NoOrphanCapture
  <2>9. AuMeans'
    BY <1>2, <1>b, <1>c, <2>1, <2>2 DEF AuMeans
  <2> QED
    BY <2>6, <2>7, <2>8, <2>9 DEF AuInv
<1>3. CASE /\ auObj' = [auObj EXCEPT ![s] = NewStreamer] /\ ~auObj[s].cap
           /\ auCtl' = Failing(auCtl) /\ BeginRecovery(auTok) /\ auOp' = AuDoing("none", "idle")
  <2>1. /\ auCtl'.streamer = auCtl.streamer /\ {"enabled", "streamer", "error"} \subseteq DOMAIN auCtl'
    BY <1>3, <1>a DEF AuShapes, Failing
  <2>2. {"pc", "kind", "s"} \subseteq DOMAIN auOp' /\ auOp'.s = NoStreamer /\ auOp'.pc = "idle"
    BY <1>3, AuDoes
  <2>3. PICK x : x = NewStreamer
    OBVIOUS
  <2>4. AuStreamerOK(x) /\ ~x.cap
    BY <2>3 DEF AuStreamerOK, NewStreamer
  <2>5. /\ DOMAIN auObj' = AuStreamers /\ \A t \in AuStreamers : AuStreamerOK(auObj'[t])
        /\ auObj'[s] = x /\ \A t \in AuStreamers : t # s => auObj'[t] = auObj[t]
    BY <1>3, <2>3, <2>4, <1>a, AuOne
  <2>6. /\ auTok' \in Nat /\ DOMAIN auRec' = AuGens
        /\ \A g \in AuGens : AuRecOK(auRec'[g], g, auTok') /\ auRec'[g].s = auRec[g].s
    BY <1>3, AuBegins
  <2>7. ~Streaming'
    BY <1>c, <1>d, <2>1, <2>5, <1>a DEF Streaming, AuShapes
  <2>8. AuShapes'
    BY <2>1, <2>2, <2>5, <2>6, <1>a DEF AuShapes
  <2>9. AuRoles'
    BY <1>c, <1>d, <2>1, <2>2, <2>5, <2>6, <1>a DEF AuRoles
  <2>10. NoOrphanCapture'
    <3>1. \A t \in AuStreamers : auObj'[t].cap => t # s /\ auObj'[t] = auObj[t]
      BY <2>4, <2>5
    <3> QED
      BY <3>1, <2>1, <2>6, <1>1, <1>a DEF NoOrphanCapture
  <2>11. AuMeans'
    BY <1>b, <1>c, <2>2, <2>7 DEF AuMeans
  <2> QED
    BY <2>8, <2>9, <2>10, <2>11 DEF AuInv
<1> QED
  BY <1>1, <1>2, <1>3 DEF StreamerOpened

\* The error is cleared, or the client has left.
LEMMA AuEnds == ASSUME AuInv, ReportRecovered \/ GivenUp PROVE AuInv'
<1>a. AuShapes /\ AuMeans /\ AuRoles /\ NoOrphanCapture
  BY DEF AuInv
<1>b. {"pc", "kind", "s"} \subseteq DOMAIN auOp' /\ auOp'.s = NoStreamer /\ auOp'.pc = "idle" /\ UNCHANGED auRec
  BY AuDoes DEF ReportRecovered, GivenUp
<1>c. auOp.pc # "idle" /\ auTok % 2 # 1
  BY <1>a DEF ReportRecovered, GivenUp, AuMeans
<1>1. CASE auOp.pc = "report"
  <2>1. /\ auCtl' = Healthy(auCtl) \/ auCtl' = [auCtl EXCEPT !.error = "kept"]
        /\ UNCHANGED <<auObj, auTok, auWant>>
    BY <1>1 DEF ReportRecovered, GivenUp
  <2>2. /\ auCtl'.streamer = auCtl.streamer /\ auCtl'.error # "shown"
        /\ {"enabled", "streamer", "error"} \subseteq DOMAIN auCtl'
    BY <2>1, <1>a DEF AuShapes, Healthy
  <2>3. auOp.s = NoStreamer /\ auWant # "off"
    BY <1>1, <1>a DEF AuShapes, AuMeans
  <2>4. AuShapes'
    BY <1>b, <2>1, <2>2, <1>a DEF AuShapes
  <2>5. AuRoles' /\ NoOrphanCapture'
    BY <1>b, <2>1, <2>2, <2>3, <1>a DEF AuRoles, NoOrphanCapture
  <2>6. AuMeans'
    BY <1>b, <1>c, <2>1, <2>2, <2>3 DEF AuMeans
  <2> QED
    BY <2>4, <2>5, <2>6 DEF AuInv
<1>2. CASE auOp.pc \in {"stop", "config", "open"} /\ auWant' = "none" /\ UNCHANGED <<auCtl, auObj, auTok>>
  <2>1. (Streaming' <=> Streaming) /\ auOp.s = NoStreamer
    BY <1>2, <1>a DEF Streaming, AuShapes
  <2>2. AuShapes'
    BY <1>b, <1>2, <1>a DEF AuShapes
  <2>3. AuRoles' /\ NoOrphanCapture'
    BY <1>b, <1>2, <2>1, <1>a DEF AuRoles, NoOrphanCapture
  <2>4. AuMeans'
    BY <1>b, <1>c, <1>2, <2>1, <1>a DEF AuMeans
  <2> QED
    BY <2>2, <2>3, <2>4 DEF AuInv
<1>3. CASE /\ auOp.pc = "stop" /\ auCtl.streamer # NoStreamer /\ auWant' = "none"
           /\ auCtl' = [auCtl EXCEPT !.streamer = NoStreamer]
           /\ auObj' = [auObj EXCEPT ![auCtl.streamer].state = "Stopped"]
           /\ auTok' = Cancelled
  <2>1. auTok' \in Nat /\ auTok' >= auTok /\ auTok' % 2 # 1
    BY <1>3, <1>a, AuTokens
  <2>2. auCtl'.streamer = NoStreamer /\ {"enabled", "streamer", "error"} \subseteq DOMAIN auCtl'
    BY <1>3, <1>a DEF AuShapes
  <2>3. PICK x : x = [auObj[auCtl.streamer] EXCEPT !.state = "Stopped"]
    OBVIOUS
  <2>4. AuStreamerOK(auObj[auCtl.streamer])
    BY <1>3, <1>a DEF AuShapes
  <2>5. AuStreamerOK(x) /\ x.state = "Stopped" /\ x.cap = auObj[auCtl.streamer].cap
    BY <2>3, <2>4 DEF AuStreamerOK
  <2>6. auObj' = [auObj EXCEPT ![auCtl.streamer] = x]
    BY <1>3, <2>3
  <2>7. AuShapes' /\ AuRoles' /\ NoOrphanCapture'
    BY <1>3, <1>b, <2>1, <2>2, <2>5, <2>6, AuLetsGo
  <2>8. ~Streaming'
    BY <2>2 DEF Streaming
  <2>9. AuMeans'
    BY <1>3, <1>b, <2>1, <2>8 DEF AuMeans
  <2> QED
    BY <2>7, <2>9 DEF AuInv
<1>4. CASE /\ auOp.pc = "wait" /\ auObj' = [auObj EXCEPT ![auOp.s].state = "Left"] /\ auWant' = "none"
           /\ auCtl' \in {auCtl, Failing(auCtl)} /\ UNCHANGED auTok
  <2>1. PICK s \in AuStreamers : s = auOp.s
    BY <1>4, <1>a DEF AuShapes
  <2>2. PICK x : x = [auObj[s] EXCEPT !.state = "Left"]
    OBVIOUS
  <2>3. AuStreamerOK(x) /\ x.state = "Left" /\ x.cap = auObj[s].cap
    BY <2>2, <1>a DEF AuStreamerOK, AuShapes
  <2>4. /\ DOMAIN auObj' = AuStreamers /\ \A t \in AuStreamers : AuStreamerOK(auObj'[t])
        /\ auObj'[s] = x /\ \A t \in AuStreamers : t # s => auObj'[t] = auObj[t]
    BY <1>4, <2>1, <2>2, <2>3, <1>a, AuOne
  <2>5. /\ \A g \in AuGens : auRec[g].s # s
        /\ auCtl.streamer # s /\ ~Streaming
    BY <1>4, <2>1, <1>a DEF AuRoles, AuMeans, Installed
  <2>6. auCtl'.streamer = auCtl.streamer /\ {"enabled", "streamer", "error"} \subseteq DOMAIN auCtl'
    BY <1>4, <1>a DEF AuShapes, Failing
  <2>7. ~Streaming'
    BY <2>4, <2>5, <2>6, <1>a DEF Streaming, AuShapes
  <2>8. AuShapes'
    BY <1>4, <1>b, <2>4, <2>6, <1>a DEF AuShapes
  <2>9. AuRoles'
    BY <1>b, <2>4, <2>5, <2>6, <1>a DEF AuRoles
  <2>10. NoOrphanCapture'
    BY <1>b, <2>1, <2>3, <2>4, <2>6, <1>a DEF NoOrphanCapture
  <2>11. AuMeans'
    BY <1>4, <1>b, <1>c, <2>7 DEF AuMeans
  <2> QED
    BY <2>8, <2>9, <2>10, <2>11 DEF AuInv
<1> QED
  BY <1>1, <1>2, <1>3, <1>4 DEF ReportRecovered, GivenUp

\* A capture ends, its task notices, its watcher reports.
LEMMA AuWatches ==
    ASSUME AuInv, NEW s \in AuStreamers, CaptureEnds(s) \/ TaskNotices(s) \/ Watch(s)
    PROVE  AuInv'
<1>a. AuShapes /\ AuMeans /\ AuRoles /\ NoOrphanCapture
  BY DEF AuInv
<1>b. UNCHANGED <<auOp, auWant>>
  BY DEF CaptureEnds, TaskNotices, Watch
<1>1. /\ DOMAIN auObj' = AuStreamers
      /\ \A t \in AuStreamers : /\ AuStreamerOK(auObj'[t]) /\ (auObj'[t].cap => auObj[t].cap)
                                /\ auObj'[t].cap => auObj'[t].state = auObj[t].state
                                /\ auObj'[t].state # auObj[t].state => auObj[t].state = "Running" /\ auObj'[t].state = "Error"
  <2>1. PICK x : /\ auObj' = [auObj EXCEPT ![s] = x]
                 /\ AuStreamerOK(x) /\ (x.cap => auObj[s].cap) /\ (x.cap => x.state = auObj[s].state)
                 /\ x.state # auObj[s].state => auObj[s].state = "Running" /\ x.state = "Error"
    <3>a. AuStreamerOK(auObj[s])
      BY <1>a DEF AuShapes
    <3>1. CASE CaptureEnds(s)
      <4>1. PICK x : x = [auObj[s] EXCEPT !.cap = FALSE]
        OBVIOUS
      <4>2. AuStreamerOK(x) /\ ~x.cap /\ x.state = auObj[s].state
        BY <4>1, <3>a DEF AuStreamerOK
      <4>3. auObj' = [auObj EXCEPT ![s] = x]
        BY <4>1, <3>1 DEF CaptureEnds
      <4> QED
        BY <4>2, <4>3
    <3>2. CASE TaskNotices(s)
      <4>1. PICK x : x = [auObj[s] EXCEPT !.state = "Error"]
        OBVIOUS
      <4>2. AuStreamerOK(x) /\ ~x.cap /\ x.state = "Error" /\ auObj[s].state = "Running"
        BY <4>1, <3>2, <3>a DEF AuStreamerOK, TaskNotices
      <4>3. auObj' = [auObj EXCEPT ![s] = x]
        BY <4>1, <3>2 DEF TaskNotices
      <4> QED
        BY <4>2, <4>3
    <3>3. CASE Watch(s)
      <4>1. PICK x : x = [auObj[s] EXCEPT !.watched = FALSE]
        OBVIOUS
      <4>2. AuStreamerOK(x) /\ x.cap = auObj[s].cap /\ x.state = auObj[s].state
        BY <4>1, <3>a DEF AuStreamerOK
      <4>3. auObj' = [auObj EXCEPT ![s] = x]
        BY <4>1, <3>3 DEF Watch
      <4> QED
        BY <4>2, <4>3
    <3> QED
      BY <3>1, <3>2, <3>3
  <2> QED
    BY <2>1, <1>a DEF AuShapes
<1>c. ASSUME \A g \in AuGens : auRec'[g].s = auRec[g].s, auCtl'.streamer = auCtl.streamer PROVE AuRoles' /\ NoOrphanCapture'
  <2>1. AuRoles'
    BY <1>1, <1>b, <1>c, <1>a DEF AuRoles, AuShapes, Installed
  <2>2. NoOrphanCapture'
    BY <1>1, <1>b, <1>c, <1>a DEF NoOrphanCapture
  <2> QED
    BY <2>1, <2>2
<1>2. CASE UNCHANGED <<auCtl, auTok, auRec>>
  <2>1. Streaming' => Streaming
    BY <1>1, <1>2, <1>a DEF Streaming, AuShapes
  <2>2. AuShapes'
    BY <1>1, <1>2, <1>b, <1>a DEF AuShapes
  <2>3. AuRoles' /\ NoOrphanCapture'
    BY <1>2, <1>c
  <2>4. AuMeans'
    BY <1>2, <1>b, <2>1, <1>a DEF AuMeans
  <2> QED
    BY <2>2, <2>3, <2>4 DEF AuInv
<1>3. CASE /\ auObj[s].state = "Error" /\ auOp.pc = "idle" /\ auCtl.streamer = s
           /\ auCtl' = Failing(auCtl) /\ BeginRecovery(auTok)
  <2>1. /\ auCtl'.streamer = s /\ auCtl'.enabled = auCtl.enabled
        /\ {"enabled", "streamer", "error"} \subseteq DOMAIN auCtl'
    BY <1>3, <1>a DEF AuShapes, Failing
  <2>2. /\ auTok' \in Nat /\ DOMAIN auRec' = AuGens
        /\ \A g \in AuGens : AuRecOK(auRec'[g], g, auTok') /\ auRec'[g].s = auRec[g].s
    BY <1>3, AuBegins
  <2>3. ~Streaming'
    BY <1>1, <1>3, <2>1 DEF Streaming
  <2>4. AuShapes'
    BY <1>1, <1>b, <2>1, <2>2, <1>a DEF AuShapes
  <2>5. AuRoles' /\ NoOrphanCapture'
    BY <1>3, <1>c, <2>1, <2>2
  <2>6. auCtl.enabled => auWant # "off"
    BY <1>3, <1>a, AuAssumption DEF AuMeans
  <2>7. AuMeans'
    BY <1>3, <1>b, <2>1, <2>3, <2>6 DEF AuMeans
  <2> QED
    BY <2>4, <2>5, <2>7 DEF AuInv
<1> QED
  BY <1>2, <1>3 DEF CaptureEnds, TaskNotices, Watch

\* A recovery that is over.
LEMMA AuDone ==
    ASSUME AuInv, NEW g \in AuGens, auRec[g].pc # "none", RecDone(g)
    PROVE  /\ auTok' \in Nat /\ DOMAIN auRec' = AuGens /\ \A h \in AuGens : AuRecOK(auRec'[h], h, auTok')
           /\ \A h \in AuGens : h # g => auRec'[h] = auRec[h]
           /\ auTok' % 2 = 1 => auTok' = auTok /\ ~Current(g)
<1>a. AuShapes
  BY DEF AuInv
<1>g. AuGens \subseteq Int
  BY DEF AuGens
<1>1. auTok' = Finished(g) /\ auRec' = [auRec EXCEPT ![g] = [pc |-> "done", s |-> NoStreamer]]
  BY DEF RecDone
<1>2. auTok' \in Nat /\ auTok' >= auTok /\ (auTok' % 2 = 1 => auTok' = auTok /\ ~Current(g))
  BY <1>1, <1>a, AuTokens
<1>3. \A h \in AuGens : AuRecOK(auRec[h], h, auTok')
  BY <1>2, <1>a, AuLater
<1>4. ~(2 * g - 1 > auTok')
  BY <1>3 DEF AuRecOK
<1>5. PICK x : x = [pc |-> "done", s |-> NoStreamer]
  OBVIOUS
<1>6. AuRecOK(x, g, auTok')
  BY <1>4, <1>5 DEF AuRecOK
<1>7. DOMAIN auRec' = AuGens /\ \A h \in AuGens : auRec'[h] = IF h = g THEN x ELSE auRec[h]
  BY <1>1, <1>5, <1>a DEF AuShapes
<1> QED
  BY <1>2, <1>3, <1>6, <1>7

\* A recovery looks whether it is still wanted, and tries.
LEMMA AuTries == ASSUME AuInv, NEW g \in AuGens, RecCheck(g) \/ RecTry(g) PROVE AuInv'
<1>a. AuShapes /\ AuMeans /\ AuRoles /\ NoOrphanCapture
  BY DEF AuInv
<1>b. UNCHANGED <<auCtl, auOp, auWant>> /\ auRec[g].pc \in {"check", "try"}
  BY DEF RecCheck, RecTry
<1>c. auRec[g].s = NoStreamer /\ AuRecOK(auRec[g], g, auTok)
  BY <1>a, <1>b DEF AuShapes, AuRecOK
<1>1. CASE RecDone(g) /\ UNCHANGED auObj
  <2>1. /\ auTok' \in Nat /\ DOMAIN auRec' = AuGens /\ \A h \in AuGens : AuRecOK(auRec'[h], h, auTok')
        /\ \A h \in AuGens : h # g => auRec'[h] = auRec[h]
        /\ auTok' % 2 = 1 => auTok' = auTok
    BY <1>1, <1>b, AuDone
  <2>2. Streaming' <=> Streaming
    BY <1>1, <1>b DEF Streaming
  <2>3. AuShapes'
    BY <1>1, <1>b, <2>1, <1>a DEF AuShapes
  <2>a. auRec'[g].s \notin AuStreamers
    BY <1>1, <1>a, AuAssumption DEF RecDone, AuShapes
  <2>b. \A h \in AuGens : auRec'[h].s \in AuStreamers => h # g /\ auRec'[h].s = auRec[h].s
    BY <2>1, <2>a
  <2>4. NoOrphanCapture' /\ AuRoles'
    <3>1. NoOrphanCapture'
      BY <1>1, <1>b, <1>c, <2>1, <1>a, AuAssumption DEF NoOrphanCapture
    <3>2. AuRoles'
      BY <1>1, <1>b, <2>b, <1>a DEF AuRoles
    <3> QED
      BY <3>1, <3>2
  <2>5. AuMeans'
    BY <1>b, <2>1, <2>2, <1>a DEF AuMeans
  <2> QED
    BY <2>3, <2>4, <2>5 DEF AuInv
<1>2. CASE UNCHANGED <<auObj, auTok>> /\ \E p \in {"try", "check"} : auRec' = [auRec EXCEPT ![g].pc = p]
  <2>1. PICK p \in {"try", "check"} : auRec' = [auRec EXCEPT ![g].pc = p]
    BY <1>2
  <2>2. PICK x : x = [auRec[g] EXCEPT !.pc = p]
    OBVIOUS
  <2>3. AuRecOK(x, g, auTok) /\ x.s = NoStreamer
    BY <2>2, <1>b, <1>c DEF AuRecOK
  <2>4. DOMAIN auRec' = AuGens /\ \A h \in AuGens : auRec'[h] = IF h = g THEN x ELSE auRec[h]
    BY <2>1, <2>2, <1>a DEF AuShapes
  <2>5. \A h \in AuGens : AuRecOK(auRec'[h], h, auTok) /\ auRec'[h].s = auRec[h].s
    BY <2>3, <2>4, <1>a, <1>c DEF AuShapes
  <2>6. Streaming' <=> Streaming
    BY <1>2, <1>b DEF Streaming
  <2>7. AuShapes'
    BY <1>2, <1>b, <2>4, <2>5, <1>a DEF AuShapes
  <2>8. NoOrphanCapture' /\ AuRoles'
    BY <1>2, <1>b, <2>5, <1>a DEF NoOrphanCapture, AuRoles
  <2>9. AuMeans'
    BY <1>2, <1>b, <2>6, <1>a DEF AuMeans
  <2> QED
    BY <2>7, <2>8, <2>9 DEF AuInv
<1>3. CASE /\ DeviceFree /\ UNCHANGED auTok
           /\ \E s \in {t \in AuStreamers : Unused(t)} :
                 /\ auObj' = [auObj EXCEPT ![s] = StartedStreamer(FALSE)]
                 /\ auRec' = [auRec EXCEPT ![g] = [pc |-> "commit", s |-> s]]
  <2>1. PICK s \in AuStreamers : /\ Unused(s) /\ auObj' = [auObj EXCEPT ![s] = StartedStreamer(FALSE)]
                                 /\ auRec' = [auRec EXCEPT ![g] = [pc |-> "commit", s |-> s]]
    BY <1>3
  <2>2. PICK x : x = [pc |-> "commit", s |-> s]
    OBVIOUS
  <2>3. AuRecOK(x, g, auTok) /\ x.s = s
    BY <2>2, <1>b, <1>c DEF AuRecOK
  <2>4. DOMAIN auRec' = AuGens /\ \A h \in AuGens : auRec'[h] = IF h = g THEN x ELSE auRec[h]
    BY <2>1, <2>2, <1>a DEF AuShapes
  <2>5. AuStreamerOK(StartedStreamer(FALSE))
    BY DEF AuStreamerOK, StartedStreamer
  <2>6. /\ DOMAIN auObj' = AuStreamers /\ \A t \in AuStreamers : AuStreamerOK(auObj'[t])
        /\ auObj'[s].state = "Running" /\ \A t \in AuStreamers : t # s => auObj'[t] = auObj[t] /\ ~auObj'[t].cap
    <3>1. PICK o : o = StartedStreamer(FALSE)
      OBVIOUS
    <3>2. AuStreamerOK(o) /\ o.state = "Running" /\ auObj' = [auObj EXCEPT ![s] = o]
      BY <3>1, <2>1, <2>5 DEF StartedStreamer
    <3>3. /\ DOMAIN auObj' = AuStreamers /\ \A t \in AuStreamers : AuStreamerOK(auObj'[t])
          /\ auObj'[s] = o /\ \A t \in AuStreamers : t # s => auObj'[t] = auObj[t]
      BY <3>2, <1>a, AuOne
    <3> QED
      BY <1>3, <3>2, <3>3 DEF DeviceFree
  <2>7. s # auCtl.streamer /\ s # auOp.s /\ \A h \in AuGens : auRec[h].s # s
    BY <2>1 DEF Unused
  <2>8. Streaming' <=> Streaming
    BY <1>b, <2>6, <2>7, <1>a DEF Streaming, AuShapes
  <2>9. AuShapes'
    BY <1>3, <1>b, <2>3, <2>4, <2>6, <1>a DEF AuShapes
  <2>10. NoOrphanCapture' /\ AuRoles'
    <3>1. NoOrphanCapture'
      BY <2>3, <2>4, <2>6 DEF NoOrphanCapture
    <3>2. \A h \in AuGens : auRec'[h].s = IF h = g THEN s ELSE auRec[h].s
      BY <2>3, <2>4
    <3>3. AuRoles'
      BY <1>b, <2>6, <2>7, <3>2, <1>a DEF AuRoles, AuShapes, Installed
    <3> QED
      BY <3>1, <3>3
  <2>11. AuMeans'
    BY <1>3, <1>b, <2>8, <1>a DEF AuMeans
  <2> QED
    BY <2>9, <2>10, <2>11 DEF AuInv
<1> QED
  BY <1>1, <1>2, <1>3 DEF RecCheck, RecTry

\* A recovery installs what it opened, or stops it.
LEMMA AuCommits == ASSUME AuInv, NEW g \in AuGens, RecCommit(g) PROVE AuInv'
<1>a. AuShapes /\ AuMeans /\ AuRoles /\ NoOrphanCapture
  BY DEF AuInv
<1>b. auRec[g].pc = "commit" /\ auOp.pc = "idle" /\ RecDone(g) /\ UNCHANGED <<auOp, auWant>>
  BY DEF RecCommit
<1>1. PICK s \in AuStreamers : s = auRec[g].s
  BY <1>a, <1>b DEF AuShapes, AuRecOK
<1>2. /\ auTok' \in Nat /\ DOMAIN auRec' = AuGens /\ \A h \in AuGens : AuRecOK(auRec'[h], h, auTok')
      /\ \A h \in AuGens : h # g => auRec'[h] = auRec[h]
      /\ auTok' % 2 = 1 => auTok' = auTok /\ ~Current(g)
  BY <1>b, AuDone
<1>c. /\ auObj[s].state \in Installed /\ s # auCtl.streamer
      /\ \A h \in AuGens : auRec[h].s = s => h = g
      /\ auRec'[g].s = NoStreamer
  <2>1. auRec'[g].s = NoStreamer
    BY <1>b, <1>a DEF RecDone, AuShapes
  <2> QED
    BY <1>1, <1>a, <2>1 DEF AuRoles
<1>d. /\ \A h \in AuGens : auRec'[h].s \in AuStreamers => h # g /\ auRec'[h] = auRec[h] /\ auRec[h].s # s
      /\ auOp.s = NoStreamer /\ auOp.pc # "wait"
  BY <1>1, <1>2, <1>b, <1>c, <1>a, AuAssumption DEF AuShapes
<1>3. CASE Current(g) /\ auCtl.enabled
  <2>1. /\ auCtl' = Healthy([auCtl EXCEPT !.streamer = s])
        /\ auObj' = [auObj EXCEPT ![s].watched = TRUE]
    BY <1>1, <1>3 DEF RecCommit
  <2>2. auTok % 2 = 1 /\ auTok' % 2 # 1
    BY <1>2, <1>3, <1>a, AuTokens
  <2>3. ~Streaming /\ auWant # "off"
    BY <1>3, <2>2, <1>a DEF AuMeans
  <2>4. /\ auCtl'.streamer = s /\ auCtl'.error = "none"
        /\ {"enabled", "streamer", "error"} \subseteq DOMAIN auCtl'
    BY <2>1, <1>a DEF AuShapes, Healthy
  <2>5. PICK x : x = [auObj[s] EXCEPT !.watched = TRUE]
    OBVIOUS
  <2>6. AuStreamerOK(x) /\ x.cap = auObj[s].cap /\ x.state = auObj[s].state
    BY <2>5, <1>a DEF AuShapes, AuStreamerOK
  <2>7. DOMAIN auObj' = AuStreamers /\ \A t \in AuStreamers : auObj'[t] = IF t = s THEN x ELSE auObj[t]
    BY <2>1, <2>5, <1>a DEF AuShapes
  <2>8. \A t \in AuStreamers : AuStreamerOK(auObj'[t]) /\ auObj'[t].cap = auObj[t].cap /\ auObj'[t].state = auObj[t].state
    BY <2>6, <2>7, <1>a DEF AuShapes
  <2>9. AuShapes'
    BY <1>b, <1>2, <2>4, <2>7, <2>8, <1>a DEF AuShapes
  <2>10. \A t \in AuStreamers : t = auCtl.streamer => ~auObj[t].cap
    BY <2>3, <1>a, AuAssumption DEF Streaming, AuShapes, AuStreamerOK, AuRoles, Installed
  <2>11. NoOrphanCapture' /\ AuRoles'
    <3>1. NoOrphanCapture'
      <4> SUFFICES ASSUME NEW t \in AuStreamers, auObj'[t].cap
                   PROVE  /\ t = s \/ (\E h \in AuGens : auRec'[h].s = t) \/ auObj'[t].state \in {"Stopped", "Left"}
                          /\ \A u \in AuStreamers : auObj'[u].cap => u = t
        BY <2>4 DEF NoOrphanCapture
      <4>1. auObj[t].cap /\ \A u \in AuStreamers : auObj'[u].cap => u = t
        BY <2>8, <1>a DEF NoOrphanCapture
      <4>2. CASE \E h \in AuGens : auRec[h].s = t
        BY <4>1, <4>2, <1>1, <1>2
      <4>3. CASE auObj[t].state \in {"Stopped", "Left"}
        BY <4>1, <4>3, <2>8
      <4> QED
        BY <4>1, <4>2, <4>3, <2>10, <1>d, <1>a, AuAssumption DEF NoOrphanCapture
    <3>2. AuRoles'
      BY <1>b, <1>c, <1>d, <2>4, <2>8, <1>a DEF AuRoles
    <3> QED
      BY <3>1, <3>2
  <2>12. AuMeans'
    BY <1>b, <2>2, <2>3, <2>4 DEF AuMeans
  <2> QED
    BY <2>9, <2>11, <2>12 DEF AuInv
<1>4. CASE ~(Current(g) /\ auCtl.enabled)
  <2>1. auCtl' = auCtl /\ auObj' = [auObj EXCEPT ![s] = StoppedStreamer(auObj[s])]
    BY <1>1, <1>4 DEF RecCommit
  <2>2. AuStreamerOK(StoppedStreamer(auObj[s])) /\ ~StoppedStreamer(auObj[s]).cap /\ StoppedStreamer(auObj[s]).state # "Running"
    BY <1>a DEF AuShapes, AuStreamerOK, StoppedStreamer
  <2>3. PICK x : x = StoppedStreamer(auObj[s])
    OBVIOUS
  <2>4. DOMAIN auObj' = AuStreamers /\ \A t \in AuStreamers : auObj'[t] = IF t = s THEN x ELSE auObj[t]
    BY <2>1, <2>3, <1>a DEF AuShapes
  <2>5. Streaming' => Streaming
    BY <2>1, <2>2, <2>3, <2>4, <1>a DEF Streaming, AuShapes
  <2>6. AuShapes'
    BY <1>b, <1>2, <2>1, <2>2, <2>3, <2>4, <1>a DEF AuShapes
  <2>7. NoOrphanCapture' /\ AuRoles'
    <3>1. NoOrphanCapture'
      <4> SUFFICES ASSUME NEW t \in AuStreamers, auObj'[t].cap
                   PROVE  /\ t = auCtl.streamer \/ (\E h \in AuGens : auRec'[h].s = t) \/ auObj'[t].state \in {"Stopped", "Left"}
                          /\ \A u \in AuStreamers : auObj'[u].cap => u = t
        BY <2>1 DEF NoOrphanCapture
      <4>1. t # s /\ auObj'[t] = auObj[t]
        BY <2>2, <2>3, <2>4
      <4>2. \A u \in AuStreamers : auObj'[u].cap => auObj[u].cap
        BY <2>2, <2>3, <2>4
      <4>3. CASE \E h \in AuGens : auRec[h].s = t
        BY <4>1, <4>2, <4>3, <1>1, <1>2, <1>a DEF NoOrphanCapture
      <4> QED
        BY <4>1, <4>2, <4>3, <1>d, <1>a, AuAssumption DEF NoOrphanCapture
    <3>2. AuRoles'
      <4>1. \A h \in AuGens : auRec'[h].s \in AuStreamers => auObj'[auRec'[h].s] = auObj[auRec'[h].s]
        BY <1>d, <2>4
      <4>2. auCtl.streamer \in AuStreamers => auObj'[auCtl.streamer] = auObj[auCtl.streamer]
        BY <1>c, <2>4
      <4> QED
        BY <1>b, <1>d, <2>1, <4>1, <4>2, <1>a DEF AuRoles
    <3> QED
      BY <3>1, <3>2
  <2>8. AuMeans'
    BY <1>b, <1>2, <2>1, <2>5, <1>a DEF AuMeans
  <2> QED
    BY <2>6, <2>7, <2>8 DEF AuInv
<1> QED
  BY <1>3, <1>4

\* Every step keeps the invariant.
LEMMA AuSteps == AuInv /\ [AuNext]_auVars => AuInv'
<1> SUFFICES ASSUME AuInv, [AuNext]_auVars PROVE AuInv'
  OBVIOUS
<1>1. CASE UNCHANGED auVars
  BY <1>1 DEF auVars, AuInv, AuShapes, AuRoles, AuMeans, NoOrphanCapture, Streaming
<1>2. CASE DeviceChanges
  BY <1>2 DEF DeviceChanges, AuInv, AuShapes, AuRoles, AuMeans, NoOrphanCapture, Streaming
<1>3. CASE AuTaskStep
  BY <1>3, AuStops, AuOpens, AuOpened, AuEnds, AuWatches, AuTries, AuCommits DEF AuTaskStep
<1> QED
  BY <1>1, <1>2, <1>3, AuAsks DEF AuNext

\* The invariant gives what is promised of audio.
LEMMA AuPromised == AuInv => NoOrphanCapture /\ StoppedStaysStopped /\ HealthyWhileStreaming
BY DEF AuInv, AuMeans, StoppedStaysStopped, HealthyWhileStreaming

-----------------------------------------------------------------------------
\* Video capture

\* The stream has a mode of the source while it is open, and notes when the source
\* leaves it.
CvInv ==
    /\ cvSrc \in CvModes \cup {NoMode} /\ (cvKind = "usb" => cvSrc \in CvModes)
    /\ {"pc", "mode", "queued"} \subseteq DOMAIN cvFd
    /\ cvFd.pc = "closed" => cvFd.mode = NoMode
    /\ cvFd.pc # "closed" => cvFd.mode \in CvModes /\ (cvSrc # cvFd.mode => cvChanged)
    /\ FramesFit /\ HealthyStreamKept

\* Nothing is open at first.
LEMMA CvStarts == CvInit => CvInv
BY DEF CvInit, CvInv, CvClosed, FramesFit, HealthyStreamKept

\* A stream that is given up leaves its reason.
LEMMA CvReleases ==
    ASSUME CvInv, NEW why, Release(why), UNCHANGED <<cvSrc, cvKind, cvOut>>, why = "check" => cvChanged
    PROVE  CvInv'
BY DEF CvInv, Release, CvClosed, FramesFit, HealthyStreamKept

\* A step within an open stream.
LEMMA CvProceeds ==
    ASSUME CvInv, cvFd.pc # "closed", cvFd'.pc # "closed", cvFd'.mode = cvFd.mode,
           {"pc", "mode", "queued"} \subseteq DOMAIN cvFd', UNCHANGED <<cvSrc, cvKind, cvEnd, cvChanged>>, FramesFit'
    PROVE  CvInv'
BY DEF CvInv, HealthyStreamKept

\* Every step keeps the invariant.
LEMMA CvSteps == CvInv /\ [CvNext]_cvVars => CvInv'
<1> SUFFICES ASSUME CvInv, [CvNext]_cvVars PROVE CvInv'
  OBVIOUS
<1>0. {"pc", "mode", "queued"} \subseteq DOMAIN cvFd
  BY DEF CvInv
<1>f. cvOut' = cvOut => FramesFit'
  BY DEF CvInv, FramesFit
<1>1. CASE ProbeSubdev
  <2>1. CASE ProbeSignal # NoMode /\ cvFd' = [CvClosed EXCEPT !.pc = "subscribe", !.mode = ProbeSignal]
    <3>1. ProbeSignal = cvSrc /\ cvSrc \in CvModes
      BY <2>1 DEF ProbeSignal, Reported, CvInv
    <3>2. cvFd'.pc = "subscribe" /\ cvFd'.mode = cvSrc /\ {"pc", "mode", "queued"} \subseteq DOMAIN cvFd'
      BY <2>1, <3>1 DEF CvClosed
    <3> QED BY <1>1, <3>1, <3>2 DEF ProbeSubdev, CvInv, FramesFit, HealthyStreamKept
  <2>2. CASE UNCHANGED cvFd
    BY <1>1, <2>2 DEF ProbeSubdev, CvInv, FramesFit, HealthyStreamKept
  <2> QED BY <1>1, <2>1, <2>2 DEF ProbeSubdev
<1>2. CASE SubscribeSubdev
  BY <1>0, <1>2, <1>f, CvProceeds DEF SubscribeSubdev, To
<1>3. CASE OpenNode
  <2>1. UNCHANGED <<cvKind, cvSrc, cvOut, cvEnd>> /\ cvFd.pc = "closed"
    BY <1>3 DEF OpenNode
  <2>2. CASE cvSrc \in CvModes /\ cvFd' = [CvClosed EXCEPT !.pc = "format", !.mode = cvSrc]
    <3>1. cvFd'.pc = "format" /\ cvFd'.mode = cvSrc /\ {"pc", "mode", "queued"} \subseteq DOMAIN cvFd'
      BY <2>2 DEF CvClosed
    <3> QED BY <2>1, <2>2, <3>1 DEF CvInv, FramesFit, HealthyStreamKept
  <2>3. CASE UNCHANGED cvFd
    BY <2>1, <2>3 DEF CvInv, FramesFit, HealthyStreamKept
  <2> QED BY <1>3, <2>2, <2>3 DEF OpenNode, ProbeNode, CvInv
<1>4. CASE SetFormat
  <2>1. CASE Release("refused")
    BY <1>4, <2>1, CvReleases DEF SetFormat
  <2>2. CASE To("buffers") /\ UNCHANGED <<cvEvents, cvFrame, cvEnd, cvChanged>>
    BY <1>0, <1>4, <1>f, <2>2, CvProceeds DEF SetFormat, To
  <2> QED BY <1>4, <2>1, <2>2 DEF SetFormat
<1>5. CASE StreamOn
  <2>1. CASE Release("refused")
    BY <1>5, <2>1, CvReleases DEF StreamOn
  <2>2. CASE /\ cvFd' = [cvFd EXCEPT !.pc = IF cvKind = "rk628" THEN "run" ELSE "listen", !.queued = QueueAll]
             /\ UNCHANGED <<cvEnd, cvChanged>>
    BY <1>0, <1>5, <1>f, <2>2, CvProceeds DEF StreamOn
  <2> QED BY <1>5, <2>1, <2>2 DEF StreamOn
<1>6. CASE SubscribeNode
  BY <1>0, <1>6, <1>f, CvProceeds DEF SubscribeNode, To
<1>7. CASE ReadEvent
  <2>1. CASE Release("event")
    BY <1>7, <2>1, CvReleases DEF ReadEvent
  <2>2. CASE UNCHANGED <<cvFd, cvEnd, cvChanged>>
    BY <1>7, <2>2 DEF ReadEvent, CvInv, FramesFit, HealthyStreamKept
  <2> QED BY <1>7, <2>1, <2>2 DEF ReadEvent
<1>8. CASE CheckState
  <2>1. cvChanged
    BY <1>8 DEF CheckState, CvInv
  <2> QED BY <1>8, <2>1, CvReleases DEF CheckState
<1>9. CASE Dequeue
  BY <1>0, <1>9, <1>f, CvProceeds DEF Dequeue
<1>10. CASE CopyFrame
  <2>1. CASE Release("size") /\ UNCHANGED cvOut
    BY <1>10, <2>1, CvReleases DEF CopyFrame
  <2>2. CASE /\ CvSize[cvFrame] = Expected /\ cvFd' = [cvFd EXCEPT !.pc = "run", !.queued = @ + 1]
             /\ cvOut' = [got |-> cvFrame, mode |-> cvFd.mode] /\ UNCHANGED <<cvEnd, cvChanged>>
    <3>1. FramesFit'
      BY <2>2 DEF FramesFit, Expected
    <3> QED BY <1>0, <1>10, <2>2, <3>1, CvProceeds DEF CopyFrame
  <2> QED BY <1>10, <2>1, <2>2 DEF CopyFrame
<1>11. CASE Timeout
  BY <1>11, CvReleases DEF Timeout
<1>12. CASE SourceChanges
  <2>1. cvFd.pc # "closed" /\ cvSrc' # cvFd.mode => cvChanged'
    <3>1. cvChanged' = (cvChanged \/ (cvFd.mode # NoMode /\ cvSrc' # cvFd.mode))
      BY <1>12 DEF SourceChanges
    <3>2. cvFd.pc # "closed" => cvFd.mode # NoMode
      BY CvAssumption DEF CvInv
    <3> QED BY <3>1, <3>2, Zenon
  <2> QED BY <1>12, <2>1 DEF SourceChanges, CvInv, FramesFit, HealthyStreamKept
<1>13. CASE UNCHANGED cvVars
  BY <1>13 DEF cvVars, CvInv, FramesFit, HealthyStreamKept
<1> QED
  BY <1>1, <1>2, <1>3, <1>4, <1>5, <1>6, <1>7, <1>8, <1>9, <1>10, <1>11, <1>12, <1>13 DEF CvNext

\* What a stream keeps follows.
LEMMA CvPromised == CvInv => NoStreamWithoutSignal /\ FramesFit /\ HealthyStreamKept
BY CvAssumption DEF CvInv, NoStreamWithoutSignal

-----------------------------------------------------------------------------
\* The list of devices

\* What a probe may have found: a receiver has the one format on the wire, and a
\* card offers what it takes or what it is set to.
DpSeen(i) ==
    /\ i.dev \in DpDevices /\ i.formats \subseteq Range(FormatRank)
    /\ Driver(i) = "hdmirx" => i.formats = {i.wire}
    /\ ~Follows(i.dev) => i.formats \subseteq DpTraits[i.dev].works \cup {DpTraits[i.dev].active}

DpInv ==
    /\ dpWire \in Wires /\ {"pc", "probes", "infos"} \subseteq DOMAIN dpJob
    /\ \A i \in dpJob.infos \cup dpList : DpSeen(i)
    /\ dpChosen # DpNone => dpJob.pc = "idle" /\ dpHint.dev # DpNone /\ RecoveryFindsDevice

\* Nothing is listed at first.
LEMMA DpStarts == DpInit => DpInv
BY DEF DpInit, DpInv

\* The first of some formats is one of them.
LEMMA DpFirst ==
    ASSUME NEW fs, fs # {}, fs \subseteq Range(FormatRank)
    PROVE  FirstFormat(fs) \in fs
<1>1. DOMAIN FormatRank = 1..4
  BY DEF FormatRank
<1> DEFINE Has(n) == FormatRank[n] \in fs
<1>2. \E n \in 1..4 : Has(n)
  BY <1>1 DEF Range
<1>3. PICK k \in 1..4 : Has(k) /\ \A m \in 1..4 : Has(m) => k <= m
  <2> HIDE DEF Has
  <2> QED BY <1>2
<1>4. \E f \in fs : \E n \in DOMAIN FormatRank :
         FormatRank[n] = f /\ \A m \in DOMAIN FormatRank : FormatRank[m] \in fs => n <= m
  BY <1>1, <1>3
<1> QED BY <1>4 DEF FirstFormat

\* What a probe finds is well seen.
LEMMA DpFinds ==
    ASSUME DpInv, NEW d \in DpDevices
    PROVE  DpSeen(Info(d))
<1>1. PICK i : i = Info(d)
  OBVIOUS
<1>2. /\ i.dev = d /\ i.formats = (IF Follows(d) THEN BridgeFormats(d) ELSE Offered(d))
      /\ i.wire = (IF DpTraits[d].driver = "hdmirx" THEN dpWire ELSE DpTraits[d].active)
  BY <1>1 DEF Info
<1>3. i.formats \subseteq DpTraits[d].formats
  BY <1>2 DEF BridgeFormats, Offered
<1>4. ASSUME DpTraits[d].driver = "hdmirx" PROVE i.formats = {i.wire}
  <2>1. dpWire \in DpTraits[d].formats
    BY <1>4, DpAssumption DEF DpInv, Wires
  <2> QED BY <1>2, <1>4, <2>1 DEF Follows, BridgeFormats
<1>5. ASSUME ~Follows(d) PROVE i.formats \subseteq DpTraits[d].works \cup {DpTraits[d].active}
  BY <1>2, <1>5, DpAssumption DEF Offered, Sized, Works
<1> QED BY <1>1, <1>2, <1>3, <1>4, <1>5, DpAssumption DEF DpSeen, Driver

\* A device that is alone with its path and its bus is found.
LEMMA DpRecovers ==
    ASSUME DpInv, Recover PROVE RecoveryFindsDevice'
<1>1. dpChosen' \in SelectRecovery(dpHint) /\ UNCHANGED <<dpList, dpHint>>
  BY DEF Recover
<1>2. SUFFICES ASSUME NEW i \in dpList, i.dev = dpHint.dev, DpTraits[i.dev].bus # "",
                      \A j \in dpList : j.dev # i.dev => j.path # dpHint.path /\ Bus(j) # Bus(i)
               PROVE  dpChosen' = i.dev
  BY <1>1 DEF RecoveryFindsDevice, Bus
<1>3. PICK byPath : byPath = {k \in dpList : k.path = dpHint.path}
  OBVIOUS
<1>4. PICK byBus : byBus = {k \in dpList : DpTraits[dpHint.dev].bus # "" /\ Bus(k) = DpTraits[dpHint.dev].bus}
  OBVIOUS
<1>5. i \in byBus
  BY <1>2, <1>4 DEF Bus
<1>6. dpChosen' \in Earliest(IF byPath # {} THEN byPath ELSE byBus)
  BY <1>1, <1>3, <1>4, <1>5 DEF SelectRecovery
<1>7. PICK is : is = IF byPath # {} THEN byPath ELSE byBus
  OBVIOUS
<1>8. PICK k \in is : dpChosen' = k.dev
  BY <1>6, <1>7 DEF Earliest
<1>9. k \in dpList /\ (k.path = dpHint.path \/ Bus(k) = Bus(i))
  BY <1>2, <1>3, <1>4, <1>7, <1>8 DEF Bus
<1> QED BY <1>2, <1>8, <1>9

\* The invariant holds on: a step at a time.
LEMMA DpSteps == DpInv /\ [DpNext]_dpVars => DpInv'
<1> SUFFICES ASSUME DpInv, [DpNext]_dpVars PROVE DpInv'
  OBVIOUS
<1> USE DEF DpInv
<1>0. /\ dpWire' \in Wires' <=> dpWire' \in Wires
      /\ \A i : DpSeen(i)' <=> DpSeen(i)
  BY DEF Wires, DpSeen, Driver, Follows
<1>1. CASE BeginListing
  BY <1>0, <1>1 DEF BeginListing
<1>2. CASE EndListing
  BY <1>0, <1>2 DEF EndListing, Dedup
<1>3. CASE UseDevice
  BY <1>0, <1>3 DEF UseDevice, RecoveryFindsDevice
<1>4. CASE Recover
  BY <1>0, <1>4, DpRecovers DEF Recover
<1>5. CASE Adopt
  BY <1>0, <1>5 DEF Adopt
<1>6. CASE Moves
  BY <1>0, <1>6 DEF Moves, RecoveryFindsDevice
<1>7. CASE WireChanges
  BY <1>0, <1>7 DEF WireChanges, RecoveryFindsDevice
<1>8. ASSUME NEW d \in DpDevices, ProbeAnswers(d) PROVE DpInv'
  <2>1. PICK s : s = IF dpAt[d] = Unplugged THEN dpJob.infos ELSE dpJob.infos \cup {Info(d)}
    OBVIOUS
  <2>2. \A i \in s : DpSeen(i)
    BY <2>1, DpFinds
  <2>3. dpJob' = [dpJob EXCEPT !.probes = @ \ {d}, !.infos = s]
    BY <1>8, <2>1 DEF ProbeAnswers
  <2>4. dpJob'.infos = s /\ dpJob'.pc = "probing" /\ DOMAIN dpJob' = DOMAIN dpJob
    BY <1>8, <2>3 DEF ProbeAnswers
  <2> QED BY <1>0, <1>8, <2>2, <2>4 DEF ProbeAnswers
<1>9. ASSUME NEW d \in DpDevices, ProbeTimesOut(d) PROVE DpInv'
  BY <1>0, <1>9 DEF ProbeTimesOut
<1>10. CASE UNCHANGED dpVars
  BY <1>0, <1>10 DEF dpVars, RecoveryFindsDevice
<1> QED BY <1>1, <1>2, <1>3, <1>4, <1>5, <1>6, <1>7, <1>8, <1>9, <1>10 DEF DpNext

\* What the list promises follows.
LEMMA DpPromised == DpInv => RecoveryFindsDevice /\ WireFormatAsked /\ OfferedWorks
<1> SUFFICES ASSUME DpInv PROVE RecoveryFindsDevice /\ WireFormatAsked /\ OfferedWorks
  OBVIOUS
<1>1. RecoveryFindsDevice
  BY DEF DpInv, RecoveryFindsDevice
<1>2. ASSUME NEW i \in dpList, NEW f \in Range(FormatRank), Driver(i) = "hdmirx" PROVE CaptureFormat(i, f) = i.wire
  <2>1. i.formats = {i.wire} /\ Follows(i.dev) /\ i.formats \subseteq Range(FormatRank)
    BY <1>2 DEF DpInv, DpSeen, Follows, Driver
  <2>2. FirstFormat(i.formats) = i.wire
    BY <2>1, DpFirst
  <2> QED BY <2>1, <2>2 DEF CaptureFormat, Resolved
<1>3. ASSUME NEW i \in dpList, ~Follows(i.dev)
      PROVE  LET takes == DpTraits[i.dev].works \cup {DpTraits[i.dev].active}
             IN /\ i.formats \subseteq takes
                /\ \A f \in Range(FormatRank) : CaptureFormat(i, f) \in takes \cup {DpNone}
  <2>1. DpSeen(i)
    BY <1>3 DEF DpInv
  <2>2. i.formats # {} => FirstFormat(i.formats) \in i.formats
    BY <2>1, DpFirst DEF DpSeen
  <2> QED BY <1>3, <2>1, <2>2 DEF DpSeen, CaptureFormat, Resolved, SelectFormat
<1> QED BY <1>1, <1>2, <1>3 DEF WireFormatAsked, OfferedWorks

-----------------------------------------------------------------------------
\* Encoders

\* The encoders that were found: where a driver answered, each codec has one that
\* works.
VeRegistered(e) ==
    /\ e.codec \in Codecs /\ e.backend \in GpuBackends \cup {"amlogic", "software"}
    /\ e.backend # "software" => e.known
    /\ e.backend = "amlogic" => e.codec \in {"h264", "h265"}
    /\ e.codec \in {"vp8", "vp9"} => e.backend \in {"vaapi", "software"}
VeServed(es, c) ==
    \/ \E e \in es : e.codec = c /\ e.backend # "software"
    \/ (\E e \in es : e.codec = c) /\ \A e \in es : e.codec = c => e.known
VeRegistry(es) ==
    /\ \A e \in es : VeRegistered(e)
    /\ \A e, o \in es : ~(e.backend = "rkmpp" /\ o.backend = "amlogic")
    /\ (\E e \in es : e.backend \notin {"software", "amlogic"}) => \A c \in Codecs : VeServed(es, c)

\* An Amlogic encoder behind its viewers has a key to give, or no handle.
VeSound(a) == a \in VeChips /\ (a.behind => ~a.handle \/ a.expect \/ a.force \/ a.rebuild)

\* What a pipeline was built for: the format its device is open in, or will be.
VeConf(c, got) == [c EXCEPT !.input = IF ParallelDecode(c) THEN "NV12" ELSE got]
VeBuiltFor(q, c, e) ==
    /\ q.asked = c /\ q.got \in VeFormats \cup {NoEncoder} /\ q.built = Building(VeConf(c, ExpectedInput(q)), e)
    /\ q.built.conv # "error" /\ (q.chip # NoEncoder <=> e.backend = "amlogic")
VePipeOK(q) ==
    /\ {"pc", "asked", "got", "built", "ask", "chip", "out"} \subseteq DOMAIN q
    /\ q.pc = "off" => q.chip = NoEncoder
    /\ q.out # "broken"
    /\ q.pc = "on" => /\ veFound # {}
                      /\ q.chip # NoEncoder => q.built.enc.codec \in {"h264", "h265"} /\ VeSound(q.chip)
                      /\ q.out # "short" /\ \E c \in VeAsked, e \in veFound : VeBuiltFor(q, c, e)

VeOneChip ==
    /\ \A p, o \in VePipes : vePipe[p].chip # NoEncoder /\ vePipe[o].chip # NoEncoder => p = o
    /\ veInUse <=> \E p \in VePipes : vePipe[p].chip # NoEncoder

VeInv ==
    /\ veHost \in VeHosts /\ VeRegistry(veFound) /\ DOMAIN vePipe = VePipes
    /\ \A p \in VePipes : VePipeOK(vePipe[p])
    /\ VeOneChip

\* Nothing is found, and nothing runs, at first.
LEMMA VeStarts == VeInit => VeInv
<1> SUFFICES ASSUME VeInit PROVE VeInv
  OBVIOUS
<1>1. \A p \in VePipes : vePipe[p] = Idle
  BY DEF VeInit
<1>2. VePipeOK(Idle) /\ Idle.chip = NoEncoder
  BY DEF VePipeOK, Idle
<1>3. VeRegistry({})
  BY DEF VeRegistry
<1>4. VeOneChip
  BY <1>1, <1>2 DEF VeInit, VeOneChip
<1> QED BY <1>1, <1>2, <1>3, <1>4 DEF VeInit, VeInv

\* What the drivers, the chip and the fallbacks give is a registry.
LEMMA VeDetects == ASSUME VeInv, Detect PROVE VeRegistry(veFound')
<1>1. PICK inTime \in BOOLEAN, passed \in SUBSET veHost.aml :
         veFound' = Fallbacks((IF inTime THEN AddSoftware(Validated(veHost)) ELSE {}) \cup Native(passed))
  BY DEF Detect
<1>2. /\ veHost.gpu \subseteq GpuBackends /\ veHost.aml \subseteq {"h264", "h265"}
      /\ "rkmpp" \in veHost.gpu => veHost.aml = {}
  BY VeAssumption DEF VeInv
<1>3. PICK S : S = (IF inTime THEN AddSoftware(Validated(veHost)) ELSE {})
  OBVIOUS
<1>4. PICK T : T = S \cup Native(passed)
  OBVIOUS
<1>5. veFound' = Fallbacks(T)
  BY <1>1, <1>3, <1>4
<1>6. \A e \in Validated(veHost) : /\ e.codec \in Codecs /\ e.backend \in veHost.gpu /\ e.known
                                   /\ e.codec \in {"vp8", "vp9"} => e.backend = "vaapi"
  BY <1>2 DEF Validated, Candidates, Encoder, Codecs
<1>6a. ASSUME NEW e \in Validated(veHost) PROVE e.backend \in GpuBackends /\ e.backend \notin {"software", "amlogic"}
  <2>1. PICK b : b = e.backend
    OBVIOUS
  <2>2. b \in veHost.gpu
    BY <1>6, <2>1
  <2>3. b \in GpuBackends
    BY <1>2, <2>2
  <2>4. b \notin {"software", "amlogic"}
    BY <2>3 DEF GpuBackends
  <2> QED BY <2>1, <2>3, <2>4
<1>7. \A e \in S : e \in Validated(veHost) \/ (e.codec \in Codecs /\ e.backend = "software" /\ e.known)
  BY <1>3 DEF AddSoftware, Encoder
<1>8. \A e \in Native(passed) : e.backend = "amlogic" /\ e.codec \in veHost.aml /\ e.known
  BY <1>1 DEF Native, Encoder
<1>9. \A e \in Fallbacks(T) : e \in T \/ (e.codec \in Codecs /\ e.backend = "software"
                                          /\ ~\E o \in T : o.codec = e.codec /\ o.backend = "software")
  BY DEF Fallbacks, Encoder
<1>10. T \subseteq Fallbacks(T)
  BY DEF Fallbacks
<1>11. ASSUME NEW e \in Fallbacks(T) PROVE VeRegistered(e)
  <2>1. CASE e \in Validated(veHost)
    BY <1>6, <1>6a, <2>1 DEF VeRegistered
  <2>2. CASE e \in Native(passed)
    BY <1>2, <1>8, <2>2 DEF VeRegistered, Codecs
  <2>3. CASE e.codec \in Codecs /\ e.backend = "software"
    BY <2>3 DEF VeRegistered
  <2> QED BY <1>4, <1>7, <1>9, <1>11, <2>1, <2>2, <2>3
<1>12. ASSUME NEW e \in Fallbacks(T), NEW o \in Fallbacks(T), e.backend = "rkmpp", o.backend = "amlogic" PROVE FALSE
  <2>1. e \in Validated(veHost)
    BY <1>4, <1>7, <1>8, <1>9, <1>12
  <2>2. o \in Native(passed) \/ o \in Validated(veHost)
    BY <1>4, <1>7, <1>9, <1>12
  <2>3. "rkmpp" \in veHost.gpu
    BY <1>6, <1>12, <2>1
  <2>4. o \in Native(passed)
    BY <1>6a, <1>12, <2>2
  <2> QED BY <1>2, <1>8, <2>3, <2>4
<1>13. ASSUME NEW e \in Fallbacks(T), e.backend \notin {"software", "amlogic"}, NEW c \in Codecs PROVE VeServed(Fallbacks(T), c)
  <2>1. e \in Validated(veHost) /\ e \in S
    BY <1>4, <1>7, <1>8, <1>9, <1>13
  <2>2. S = AddSoftware(Validated(veHost))
    BY <1>3, <2>1
  <2>3. CASE \E v \in Validated(veHost) : v.codec = c
    <3>1. PICK v \in Validated(veHost) : v.codec = c
      BY <2>3
    <3>2. v \in Fallbacks(T)
      BY <1>4, <1>10, <2>2, <3>1 DEF AddSoftware
    <3>3. v.backend # "software"
      BY <1>6a, <3>1
    <3> QED BY <3>1, <3>2, <3>3 DEF VeServed
  <2>4. CASE ~\E v \in Validated(veHost) : v.codec = c
    <3>1. PICK s : s = Encoder(c, "software", TRUE)
      OBVIOUS
    <3>2. s \in S /\ s.codec = c /\ s.backend = "software"
      BY <1>13, <2>2, <2>4, <3>1 DEF AddSoftware, Encoder
    <3>3. s \in T /\ s \in Fallbacks(T)
      BY <1>4, <1>10, <3>2
    <3>4. ASSUME NEW o \in Fallbacks(T), o.codec = c PROVE o.known
      <4>1. o \in T
        BY <1>9, <3>2, <3>3, <3>4
      <4> QED BY <1>4, <1>7, <1>8, <2>4, <3>4, <4>1
    <3> QED BY <3>2, <3>3, <3>4 DEF VeServed
  <2> QED BY <2>3, <2>4
<1> QED BY <1>5, <1>11, <1>12, <1>13 DEF VeRegistry

\* Of the encoders of a codec one has the highest priority; a software encoder
\* has the lowest.
LEMMA VeBest ==
    ASSUME VeRegistry(veFound), NEW c \in Codecs, VeServed(veFound, c)
    PROVE  Best(c) # {} /\ \A e \in Best(c) : e.known
<1> DEFINE Has(i) == \E e \in veFound : e.codec = c /\ e.backend = Backends[i]
<1>1. DOMAIN Backends = 1..8
  BY DEF Backends
<1>2. /\ Backends[1] = "nvenc" /\ Backends[2] = "qsv" /\ Backends[3] = "amf" /\ Backends[4] = "amlogic"
      /\ Backends[5] = "rkmpp" /\ Backends[6] = "vaapi" /\ Backends[7] = "v4l2m2m" /\ Backends[8] = "software"
  BY DEF Backends
<1>3. \A e \in veFound : \E i \in 1..8 : e.backend = Backends[i]
  BY <1>2 DEF VeRegistry, VeRegistered, GpuBackends
<1>4. \E i \in 1..8 : Has(i)
  <2>1. PICK e \in veFound : e.codec = c
    BY DEF VeServed
  <2> QED BY <1>3, <2>1
<1>5. PICK k \in 1..8 : Has(k) /\ \A i \in 1..8 : Has(i) => k <= i
  <2> HIDE DEF Has
  <2> QED BY <1>4
<1>6. PICK b \in veFound : b.codec = c /\ b.backend = Backends[k]
  BY <1>5
<1>7. ASSUME NEW o \in veFound, o.codec = c PROVE \E i, j \in DOMAIN Backends : i <= j /\ Backends[i] = b.backend /\ Backends[j] = o.backend
  <2>1. PICK j \in 1..8 : o.backend = Backends[j]
    BY <1>3
  <2>2. k <= j
    BY <1>5, <1>7, <2>1
  <2> QED BY <1>1, <1>6, <2>1, <2>2
<1>8. b \in Best(c)
  BY <1>6, <1>7 DEF Best
<1>9. ASSUME NEW e \in Best(c) PROVE e.known
  <2>1. e \in veFound /\ e.codec = c
    BY DEF Best
  <2>2. CASE e.backend # "software"
    BY <2>1, <2>2 DEF VeRegistry, VeRegistered
  <2>3. CASE e.backend = "software"
    <3>1. ASSUME NEW o \in veFound, o.codec = c PROVE o.backend = "software"
      <4>1. PICK i \in 1..8, j \in 1..8 : i <= j /\ Backends[i] = "software" /\ Backends[j] = o.backend
        BY <1>1, <2>3, <3>1 DEF Best
      <4>2. i = 8
        BY <1>2, <4>1
      <4> QED BY <1>2, <4>1, <4>2
    <3> QED BY <2>1, <3>1 DEF VeServed
  <2> QED BY <2>2, <2>3
<1> QED BY <1>8, <1>9

\* What is sent to the chip's encoder, and what it answers, is again such an encoder.
LEMMA VeRebuilds ==
    ASSUME NEW a \in VeChips, NEW codec, NEW r \in Rebuilt(a, codec)
    PROVE  r \in VeChips /\ VeSound(r) /\ (r.handle => r.expect /\ ~r.rebuild)
<1>1. CASE r = Fresh(codec)
  <2>1. (codec = "h265") \in BOOLEAN
    OBVIOUS
  <2> QED BY <1>1, <2>1 DEF Fresh, VeSound, VeChips
<1>2. CASE r = [a EXCEPT !.handle = FALSE]
  <2>1. r \in VeChips /\ r.handle = FALSE
    BY <1>2 DEF VeChips
  <2> QED BY <2>1 DEF VeSound
<1> QED BY <1>1, <1>2 DEF Rebuilt

\* One that was asked for a key is behind, and has one to give.
LEMMA VeRequests ==
    ASSUME NEW a, VeSound(a), NEW codec \in {"h264", "h265"}
    PROVE  VeSound(Requested(a, codec))
<1>1. PICK f : f = (a.force \/ codec = "h265")
  OBVIOUS
<1>2. PICK b : b = (a.rebuild \/ (codec = "h264" /\ ~a.expect))
  OBVIOUS
<1>3. f \in BOOLEAN /\ b \in BOOLEAN
  BY <1>1, <1>2, Zenon
<1>4. a \in VeChips
  BY DEF VeSound
<1>5. PICK r : r = Requested(a, codec)
  OBVIOUS
<1>6. r = [a EXCEPT !.behind = TRUE, !.force = f, !.rebuild = b]
  BY <1>1, <1>2, <1>5, Zenon DEF Requested
<1>7. r \in VeChips /\ r.force = f /\ r.rebuild = b /\ r.expect = a.expect
  BY <1>3, <1>4, <1>6 DEF VeChips
<1>8. r.expect \/ r.force \/ r.rebuild
  <2>1. CASE codec = "h265"
    <3>1. f = TRUE
      BY <1>1, <2>1, Zenon
    <3> QED BY <1>7, <3>1
  <2>2. CASE codec = "h264" /\ a.expect
    BY <1>7, <2>2, Zenon
  <2>3. CASE codec = "h264" /\ ~a.expect
    <3>1. b = TRUE
      BY <1>2, <2>3, Zenon
    <3> QED BY <1>7, <3>1
  <2> QED BY <2>1, <2>2, <2>3
<1> QED BY <1>5, <1>7, <1>8 DEF VeSound

\* One try: no encoder that has a key to give hands out a picture that needs one.
LEMMA VeOnce ==
    ASSUME NEW a, VeSound(a), ~a.rebuild, NEW codec, NEW t \in Once(a, codec)
    PROVE  /\ t[1] \in VeChips /\ t[2] \in {"none", "key", "delta", "error"}
           /\ t[2] # "error" \/ a.expect \/ ~a.handle => VeSound(t[1])
<1>0. a \in VeChips
  BY DEF VeSound
<1>1. PICK sent : sent = [a EXCEPT !.force = FALSE]
  OBVIOUS
<1>2. PICK met : met = [sent EXCEPT !.expect = FALSE]
  OBVIOUS
<1>3. PICK kept : kept = [met EXCEPT !.behind = FALSE]
  OBVIOUS
<1>4. /\ sent \in VeChips /\ sent.handle = a.handle /\ sent.expect = a.expect /\ sent.behind = a.behind
      /\ sent.rebuild = a.rebuild
  BY <1>0, <1>1 DEF VeChips
<1>5. met \in VeChips /\ met.behind = a.behind
  BY <1>2, <1>4 DEF VeChips
<1>6. kept \in VeChips /\ kept.behind = FALSE
  BY <1>3, <1>5 DEF VeChips
<1>7. a.expect \/ ~a.handle => VeSound(sent)
  BY <1>4 DEF VeSound
<1>8. VeSound(kept)
  BY <1>6 DEF VeSound
<1>9. \/ t = <<a, "error">> \/ t = <<sent, "error">> \/ t = <<kept, "key">>
      \/ ~a.force /\ t = <<sent, "none">>
      \/ \E r \in Rebuilt(sent, codec) : t = <<r, IF r.handle THEN "none" ELSE "error">>
      \/ ~a.expect /\ ~a.force /\ a.handle /\ t = <<met, IF a.behind THEN "broken" ELSE "delta">>
  BY <1>1, <1>2, <1>3 DEF Once
<1>10. CASE t = <<a, "error">>
  BY <1>0, <1>10
<1>11. CASE t = <<sent, "error">>
  BY <1>4, <1>7, <1>11
<1>12. CASE t = <<kept, "key">>
  BY <1>6, <1>8, <1>12
<1>13. CASE ~a.force /\ t = <<sent, "none">>
  <2>1. VeSound(sent)
    BY <1>4, <1>13 DEF VeSound
  <2> QED BY <1>4, <1>13, <2>1
<1>14. CASE \E r \in Rebuilt(sent, codec) : t = <<r, IF r.handle THEN "none" ELSE "error">>
  <2>1. PICK r \in Rebuilt(sent, codec) : t = <<r, IF r.handle THEN "none" ELSE "error">>
    BY <1>14
  <2>2. r \in VeChips /\ VeSound(r)
    BY <1>4, <2>1, VeRebuilds
  <2> QED BY <2>1, <2>2
<1>15. CASE ~a.expect /\ ~a.force /\ a.handle /\ t = <<met, IF a.behind THEN "broken" ELSE "delta">>
  <2>1. ~a.behind
    BY <1>15 DEF VeSound
  <2>2. VeSound(met)
    BY <1>5, <2>1 DEF VeSound
  <2> QED BY <1>5, <1>15, <2>1, <2>2
<1> QED BY <1>9, <1>10, <1>11, <1>12, <1>13, <1>14, <1>15

\* After an error one more try, with a new encoder.
LEMMA VeAgain ==
    ASSUME NEW a \in VeChips, NEW codec, NEW t \in Again(a, codec)
    PROVE  VeSound(t[1]) /\ t[2] \in {"none", "key", "delta", "error"}
<1>1. PICK r \in Rebuilt(a, codec) : t \in IF r.handle THEN Once(r, codec) ELSE {<<r, "error">>}
  BY DEF Again
<1>2. VeSound(r) /\ (r.handle => r.expect /\ ~r.rebuild)
  BY <1>1, VeRebuilds
<1>3. CASE r.handle
  <2>1. t \in Once(r, codec) /\ ~r.rebuild /\ r.expect
    BY <1>1, <1>2, <1>3
  <2> QED BY <1>2, <2>1, VeOnce
<1>4. CASE ~r.handle
  BY <1>1, <1>2, <1>4
<1> QED BY <1>3, <1>4

\* So a try with its second one leaves an encoder with a key to give.
LEMMA VeTries ==
    ASSUME NEW a, VeSound(a), ~a.rebuild, NEW codec, NEW t \in Tries(a, codec)
    PROVE  VeSound(t[1]) /\ t[2] \in {"none", "key", "delta", "error"}
<1>1. PICK u \in Once(a, codec) : t \in IF u[2] = "error" THEN Again(u[1], codec) ELSE {u}
  BY DEF Tries
<1>2. /\ u[1] \in VeChips /\ u[2] \in {"none", "key", "delta", "error"}
      /\ u[2] # "error" \/ a.expect \/ ~a.handle => VeSound(u[1])
  BY <1>1, VeOnce
<1>3. CASE u[2] = "error"
  <2>1. PICK c \in VeChips : c = u[1]
    BY <1>2
  <2>2. t \in Again(c, codec)
    BY <1>1, <1>3, <2>1
  <2> QED BY <2>2, VeAgain
<1>4. CASE u[2] # "error"
  <2>1. t = u
    BY <1>1, <1>4
  <2> QED BY <1>2, <1>4, <2>1
<1> QED BY <1>3, <1>4

\* So does a frame that finds a rebuild due.
LEMMA VeEncodes ==
    ASSUME NEW a, VeSound(a), NEW codec, NEW t \in EncodeRaw(a, codec)
    PROVE  VeSound(t[1]) /\ t[2] \in {"none", "key", "delta", "error"}
<1>1. CASE ~a.rebuild
  <2>1. t \in Tries(a, codec)
    BY <1>1 DEF EncodeRaw
  <2> QED BY <1>1, <2>1, VeTries
<1>2. CASE a.rebuild
  <2>1. PICK r \in Rebuilt(a, codec) : t \in IF r.handle THEN Tries(r, codec) ELSE {<<r, "error">>}
    BY <1>2 DEF EncodeRaw
  <2>2. VeSound(r) /\ (r.handle => r.expect /\ ~r.rebuild)
    BY <2>1, VeRebuilds DEF VeSound
  <2>3. CASE r.handle
    <3>1. t \in Tries(r, codec) /\ ~r.rebuild
      BY <2>1, <2>2, <2>3
    <3> QED BY <2>2, <3>1, VeTries
  <2>4. CASE ~r.handle
    BY <2>1, <2>2, <2>4
  <2> QED BY <2>3, <2>4
<1> QED BY <1>1, <1>2

\* A format has a length.
LEMMA VeBytes == \A f : Bytes(f) \in Nat
<1> SUFFICES ASSUME NEW f PROVE Bytes(f) \in Nat
  OBVIOUS
<1>1. (2 * 2 * 3) \div 2 \in Nat /\ 2 * 2 * 2 \in Nat /\ 2 * 2 * 3 \in Nat /\ 2 * 2 \in Nat
  BY SMT
<1>2. CompactSize(f, 2, 2) \in Nat
  BY <1>1 DEF CompactSize
<1> QED BY <1>2 DEF Bytes

\* A converter makes the format the encoder is opened for, and none is made where
\* that is the format there is.
LEMMA VeConverts ==
    ASSUME NEW e, VeRegistered(e), NEW f, Converter(e, f, FALSE) # "error"
    PROVE  IF Converter(e, f, FALSE) = "none" THEN f = Opened(e, f) ELSE Converter(e, f, FALSE) = Opened(e, f)
<1>1. e.codec \in {"h264", "h265", "vp8", "vp9"}
  BY DEF VeRegistered, Codecs
<1>2. CASE e.backend = "software"
  <2>1. Opened(e, f) = IF e.codec = "h264" /\ f \in X264Formats THEN f ELSE "YUV420"
    BY <1>1, <1>2 DEF Opened, H264Input, H265Input, Vp8Input, Vp9Input
  <2>2. DirectInput(e, f) <=> e.codec = "h264" /\ f \in X264Formats
    BY <1>2 DEF DirectInput
  <2>3. NeedsYuv420(e, f) <=> ~(e.codec = "h264" /\ f \in X264Formats)
    BY <1>2 DEF NeedsYuv420
  <2> QED BY <2>1, <2>2, <2>3 DEF Converter
<1>3. CASE e.backend = "rkmpp"
  <2>1. e.codec \in {"h264", "h265"}
    BY <1>1, <1>3 DEF VeRegistered
  <2>2. f \in RkFormats => Opened(e, f) = f
    BY <1>3, <2>1 DEF Opened, H264Input, H265Input
  <2>3. DirectInput(e, f) <=> f \in RkFormats
    BY <1>3 DEF DirectInput
  <2> QED BY <2>2, <2>3 DEF Converter
<1>4. CASE e.backend \notin {"software", "rkmpp"}
  <2>1. Opened(e, f) = "NV12"
    BY <1>1, <1>4 DEF Opened, H264Input, H265Input, Vp8Input, Vp9Input
  <2>2. DirectInput(e, f) => f = "NV12"
    BY <1>4 DEF DirectInput
  <2>3. ~NeedsYuv420(e, f)
    BY <1>4 DEF NeedsYuv420
  <2> QED BY <2>1, <2>2, <2>3 DEF Converter
<1> QED BY <1>2, <1>3, <1>4

\* YUYV taken as it comes is what RKMPP was opened for, and enough for any other
\* encoder but the Amlogic one, which is on another board.
LEMMA VeDirect ==
    ASSUME NEW e, VeRegistered(e)
    PROVE  /\ e.backend = "rkmpp" => Opened(e, "YUYV") = "YUYV"
           /\ Bytes("YUYV") >= Bytes(Opened(e, "YUYV"))
<1>1. e.codec \in {"h264", "h265", "vp8", "vp9"}
  BY DEF VeRegistered, Codecs
<1>2. e.backend = "rkmpp" => e.codec \in {"h264", "h265"}
  BY <1>1 DEF VeRegistered
<1>3. e.backend = "rkmpp" => Opened(e, "YUYV") = "YUYV"
  BY <1>1, <1>2 DEF Opened, H264Input, H265Input, RkFormats
<1>4. Opened(e, "YUYV") \in {"YUYV", "NV12", "YUV420"}
  BY <1>1 DEF Opened, H264Input, H265Input, Vp8Input, Vp9Input, X264Formats
<1>5. Bytes("YUYV") = 8 /\ Bytes("NV12") = 6 /\ Bytes("YUV420") = 6
  BY DEF Bytes, Compressed, CompactSize
<1>6. PICK o \in {"YUYV", "NV12", "YUV420"} : o = Opened(e, "YUYV")
  BY <1>4
<1>7. Bytes("YUYV") >= Bytes(o)
  BY <1>5
<1> QED BY <1>3, <1>6, <1>7

\* What reaches an encoder that was built for its device is what it was opened for,
\* and as long as it wants it.
LEMMA VeFits ==
    ASSUME VeInv, NEW q, NEW c \in VeAsked, NEW e \in veFound, VeBuiltFor(q, c, e),
           q.got # NoEncoder, Reaches(q)
    PROVE  /\ Handed(q) = q.built.opened \/ (q.built.direct /\ q.built.enc.backend # "rkmpp")
           /\ Fits(q)
<1>1. PICK conf : conf = VeConf(c, q.got)
  OBVIOUS
<1>2. /\ q.asked = c /\ q.got \in VeFormats /\ q.built = Building(conf, e) /\ q.built.conv # "error"
      /\ q.chip # NoEncoder <=> e.backend = "amlogic"
  BY <1>1 DEF VeBuiltFor, ExpectedInput
<1>3. conf.input = (IF ParallelDecode(c) THEN "NV12" ELSE q.got)
  <2>1. "input" \in DOMAIN c
    BY VeAssumption
  <2> QED BY <1>1, <2>1 DEF VeConf
<1>4. VeRegistered(e)
  BY DEF VeInv, VeRegistry
<1>5. PICK f : f = (IF conf.input \in Compressed THEN "NV12" ELSE conf.input)
  OBVIOUS
<1>6. "NV12" \notin Compressed
  BY DEF Compressed
<1>7. CASE q.built.hw
  <2>1. /\ q.built = [hw |-> TRUE, enc |-> e, decode |-> FALSE, from |-> conf.input, opened |-> "MJPEG",
                      conv |-> "none", direct |-> FALSE]
        /\ e.backend = "rkmpp"
    BY <1>2, <1>7 DEF Building
  <2>2. Handed(q) = q.got /\ q.built.from = "MJPEG"
    BY <1>7 DEF Handed, Reaches
  <2>3. q.got = "MJPEG"
    BY <1>3, <2>1, <2>2
  <2>4. q.chip = NoEncoder
    BY <1>2, <2>1
  <2>5. Fits(q)
    BY <2>1, <2>2, <2>3, <2>4, VeBytes DEF Fits, FfmpegTakes
  <2> QED BY <2>1, <2>2, <2>3, <2>5
<1>8. CASE ~q.built.hw
  <2>1. q.built = [hw |-> FALSE, enc |-> e, decode |-> conf.input \in Compressed, from |-> f, opened |-> Opened(e, f),
                   conv |-> Converter(e, f, YuyvDirect(conf)), direct |-> YuyvDirect(conf)]
    BY <1>2, <1>5, <1>8 DEF Building
  <2>2. q.built.from = f /\ q.built.opened = Opened(e, f) /\ q.built.conv = Converter(e, f, YuyvDirect(conf)) /\ q.built.enc = e
    BY <2>1
  <2>a. PICK dec : dec = (conf.input \in Compressed)
    OBVIOUS
  <2>b. PICK dir : dir = YuyvDirect(conf)
    OBVIOUS
  <2>c. q.built = [hw |-> FALSE, enc |-> e, decode |-> dec, from |-> f, opened |-> Opened(e, f),
                   conv |-> Converter(e, f, YuyvDirect(conf)), direct |-> dir]
    BY <2>1, <2>a, <2>b, Zenon
  <2>d. q.built.decode = dec /\ q.built.direct = dir
    BY <2>c
  <2>3. q.built.decode <=> conf.input \in Compressed
    BY <2>a, <2>d, Zenon
  <2>4. q.built.direct <=> YuyvDirect(conf)
    BY <2>b, <2>d, Zenon
  <2>5. PICK inner : inner = (IF ParallelDecode(q.asked) \/ q.built.decode THEN "NV12" ELSE q.got)
    OBVIOUS
  <2>6. inner = f
    BY <1>2, <1>3, <1>5, <1>6, <2>3, <2>5
  <2>7. Handed(q) = (IF q.built.conv = "none" THEN f ELSE q.built.conv)
    BY <1>8, <2>2, <2>5, <2>6 DEF Handed, Reaches
  <2>8. CASE YuyvDirect(conf)
    <3>1. f = "YUYV" /\ q.built.conv = "none"
      BY <1>2, <1>5, <2>2, <2>8 DEF YuyvDirect, Compressed, Converter
    <3>2. e.backend # "amlogic"
      <4>1. PICK r \in veFound : r.backend = "rkmpp"
        BY <2>8 DEF YuyvDirect, RkDirect, WithBackend
      <4> QED BY <4>1 DEF VeInv, VeRegistry
    <3>3. q.chip = NoEncoder
      BY <1>2, <3>2
    <3>4. Fits(q)
      BY <1>4, <2>2, <2>7, <3>1, <3>3, VeDirect DEF Fits, FfmpegTakes
    <3>5. Handed(q) = q.built.opened \/ e.backend # "rkmpp"
      BY <1>4, <2>2, <2>7, <3>1, VeDirect
    <3> QED BY <2>2, <2>4, <2>8, <3>4, <3>5
  <2>9. CASE ~YuyvDirect(conf)
    <3>1. q.built.conv = Converter(e, f, FALSE)
      BY <2>2, <2>9 DEF Converter
    <3>2. Handed(q) = Opened(e, f) /\ (q.built.conv # "none" => q.built.conv = Opened(e, f))
      BY <1>2, <1>4, <2>7, <3>1, VeConverts
    <3>3. PICK n : n = Bytes(Opened(e, f))
      OBVIOUS
    <3>4. n \in Nat
      BY <3>3, VeBytes
    <3>5. Fits(q)
      BY <2>2, <3>2, <3>3, <3>4 DEF Fits, FfmpegTakes, AmlogicTakes
    <3> QED BY <2>2, <3>2, <3>5
  <2> QED BY <2>8, <2>9
<1> QED BY <1>7, <1>8

\* What was found stays, and with it what a pipeline was built for.
LEMMA VeSame ==
    ASSUME UNCHANGED <<veHost, veFound>>, NEW q, VePipeOK(q)
    PROVE  VePipeOK(q)'
<1>1. \A c, e : Building(c, e)' = Building(c, e)
  BY DEF Building, YuyvDirect, RkDirect, WithBackend
<1>2. \A c : ParallelDecode(c)' <=> ParallelDecode(c)
  BY DEF ParallelDecode, Best, WithBackend
<1>3. \A c, g : VeConf(c, g)' = VeConf(c, g)
  BY <1>2 DEF VeConf
<1>4. ASSUME NEW c, NEW e PROVE VeBuiltFor(q, c, e)' <=> VeBuiltFor(q, c, e)
  <2>1. Building(VeConf(c, ExpectedInput(q)), e)' = Building(VeConf(c, ExpectedInput(q)), e)
    BY <1>1, <1>3
  <2> QED BY <2>1 DEF VeBuiltFor, ExpectedInput
<1> QED BY <1>4 DEF VePipeOK

\* A pipeline goes on as what it was built for.
VeFollows(q, r) ==
    /\ {"pc", "asked", "got", "built", "ask", "chip", "out"} \subseteq DOMAIN r /\ r.pc = "on"
    /\ r.built = q.built /\ r.asked = q.asked /\ (r.got = q.got \/ (r.got = ExpectedInput(q) /\ r.got \in VeFormats))
    /\ r.out # "broken" /\ r.out # "short"
    /\ r.chip = q.chip \/ (q.chip # NoEncoder /\ VeSound(r.chip))

\* What follows leaves the others alone.
LEMMA VeGoesOn ==
    ASSUME VeInv, NEW p \in VePipes, NEW q, q = vePipe[p], q.pc = "on", NEW r, vePipe' = [vePipe EXCEPT ![p] = r],
           UNCHANGED <<veHost, veFound, veInUse>>, VeFollows(q, r)
    PROVE  VeInv'
<1>0. /\ {"pc", "asked", "got", "built", "ask", "chip", "out"} \subseteq DOMAIN r /\ r.pc = "on"
      /\ r.built = q.built /\ r.asked = q.asked /\ (r.got = q.got \/ (r.got = ExpectedInput(q) /\ r.got \in VeFormats))
      /\ r.out # "broken" /\ r.out # "short"
      /\ r.chip = q.chip \/ (q.chip # NoEncoder /\ VeSound(r.chip))
  BY DEF VeFollows
<1>1. VePipeOK(q)
  BY DEF VeInv
<1>2. r.chip # NoEncoder <=> q.chip # NoEncoder
  BY <1>0, VeAssumption DEF VeSound
<1>3. veFound # {} /\ (r.chip # NoEncoder => r.built.enc.codec \in {"h264", "h265"} /\ VeSound(r.chip))
  BY <1>0, <1>1, <1>2 DEF VePipeOK
<1>4. \E c \in VeAsked, e \in veFound : VeBuiltFor(r, c, e)
  <2>1. PICK c \in VeAsked, e \in veFound : VeBuiltFor(q, c, e)
    BY <1>0, <1>1 DEF VePipeOK
  <2>a. ExpectedInput(r) = ExpectedInput(q)
    BY <1>0, VeAssumption DEF ExpectedInput
  <2>2. VeBuiltFor(r, c, e)
    BY <1>0, <1>2, <2>1, <2>a DEF VeBuiltFor
  <2> QED BY <2>2
<1>5. VePipeOK(r)
  BY <1>0, <1>3, <1>4 DEF VePipeOK
<1>6. DOMAIN vePipe = VePipes
  BY DEF VeInv
<1>7. \A o \in VePipes : vePipe'[o] = (IF o = p THEN r ELSE vePipe[o])
  BY <1>6
<1>8. ASSUME NEW o \in VePipes PROVE VePipeOK(vePipe[o])'
  <2>1. PICK w : w = vePipe'[o]
    OBVIOUS
  <2>2. VePipeOK(w)
    BY <1>5, <1>7, <2>1 DEF VeInv
  <2>3. VePipeOK(w)'
    BY <2>2, VeSame
  <2> QED BY <2>1, <2>3
<1>9. \A o \in VePipes : vePipe'[o].chip # NoEncoder <=> vePipe[o].chip # NoEncoder
  BY <1>2, <1>7
<1>10. VeOneChip'
  <2>1. VeOneChip
    BY DEF VeInv
  <2> QED BY <1>9, <2>1 DEF VeOneChip
<1>11. VeRegistry(veFound)' /\ veHost' \in VeHosts /\ DOMAIN vePipe' = VePipes
  BY <1>6 DEF VeInv
<1> QED BY <1>8, <1>10, <1>11 DEF VeInv

\* What is chosen was found.
LEMMA VeSelects == ASSUME NEW c, NEW e \in Select(c) PROVE e \in veFound
BY DEF Select, WithBackend, Best

\* A pipeline that starts was built for its device, and has the chip to itself.
LEMMA VeStartsPipe ==
    ASSUME VeInv, NEW p \in VePipes, Start(p) PROVE VeInv'
<1>1. veFound # {} /\ vePipe[p].pc = "off" /\ UNCHANGED <<veHost, veFound>>
  BY DEF Start
<1>2. PICK c \in VeAsked, got \in VeFormats \cup {NoEncoder} :
         LET input == IF got = NoEncoder THEN c.input ELSE got
             conf == [c EXCEPT !.input = IF ParallelDecode(c) THEN "NV12" ELSE input]
         IN \E e \in Select(conf) :
               LET b == Building(conf, e)
                   unit == IF e.backend = "amlogic" THEN Fresh(e.codec) ELSE NoEncoder
               IN /\ e.known /\ b.conv # "error"
                  /\ e.backend = "amlogic" => ~veInUse
                  /\ vePipe' = [vePipe EXCEPT ![p] =
                        [pc |-> "on", asked |-> c, got |-> got, built |-> b,
                         ask |-> FALSE, chip |-> unit, out |-> "none"]]
                  /\ veInUse' = (veInUse \/ e.backend = "amlogic")
  BY DEF Start
<1>3. PICK input : input = (IF got = NoEncoder THEN c.input ELSE got)
  OBVIOUS
<1>4. PICK conf : conf = VeConf(c, input)
  OBVIOUS
<1>5. PICK e \in Select(conf) :
         LET b == Building(conf, e)
             unit == IF e.backend = "amlogic" THEN Fresh(e.codec) ELSE NoEncoder
         IN /\ b.conv # "error"
            /\ e.backend = "amlogic" => ~veInUse
            /\ vePipe' = [vePipe EXCEPT ![p] =
                  [pc |-> "on", asked |-> c, got |-> got, built |-> b,
                   ask |-> FALSE, chip |-> unit, out |-> "none"]]
            /\ veInUse' = (veInUse \/ e.backend = "amlogic")
  BY <1>2, <1>3, <1>4 DEF VeConf
<1>6. PICK b : b = Building(conf, e)
  OBVIOUS
<1>7. PICK unit : unit = IF e.backend = "amlogic" THEN Fresh(e.codec) ELSE NoEncoder
  OBVIOUS
<1>9. PICK r : r = [pc |-> "on", asked |-> c, got |-> got, built |-> b, ask |-> FALSE, chip |-> unit, out |-> "none"]
  OBVIOUS
<1>10. vePipe' = [vePipe EXCEPT ![p] = r]
  BY <1>5, <1>6, <1>7, <1>9, Zenon
<1>11. e \in veFound /\ VeRegistered(e)
  BY <1>5, VeSelects DEF VeInv, VeRegistry
<1>12. b.enc = e
  BY <1>6 DEF Building
<1>13. e.backend = "amlogic" => VeSound(unit)
  <2>1. PICK k : k = (e.codec = "h265")
    OBVIOUS
  <2>2. k \in BOOLEAN
    BY <2>1
  <2>3. ASSUME e.backend = "amlogic" PROVE VeSound(unit)
    <3>1. unit = [handle |-> TRUE, force |-> k, rebuild |-> FALSE, expect |-> TRUE, behind |-> TRUE]
      BY <1>7, <2>1, <2>3, Zenon DEF Fresh
    <3>2. unit \in VeChips /\ unit.expect = TRUE
      BY <2>2, <3>1 DEF VeChips
    <3> QED BY <3>2 DEF VeSound
  <2> QED BY <2>3
<1>14. unit # NoEncoder <=> e.backend = "amlogic"
  BY <1>7, <1>13, VeAssumption DEF VeSound
<1>15. VeBuiltFor(r, c, e)
  <2>1. r.asked = c /\ r.got = got /\ r.built = b /\ r.chip = unit
    BY <1>9
  <2>2. conf = VeConf(c, ExpectedInput(r))
    BY <1>3, <1>4, <2>1 DEF ExpectedInput
  <2>3. b = Building(VeConf(c, ExpectedInput(r)), e)
    BY <1>6, <2>2
  <2> QED BY <1>2, <1>5, <1>6, <1>14, <2>1, <2>3 DEF VeBuiltFor
<1>16. r.chip # NoEncoder => r.built.enc.codec \in {"h264", "h265"} /\ VeSound(r.chip)
  <2>1. r.chip = unit /\ r.built = b
    BY <1>9
  <2> QED BY <1>11, <1>12, <1>13, <1>14, <2>1 DEF VeRegistered
<1>17. VePipeOK(r)
  BY <1>1, <1>9, <1>11, <1>15, <1>16 DEF VePipeOK
<1>18. DOMAIN vePipe = VePipes
  BY DEF VeInv
<1>19. \A o \in VePipes : vePipe'[o] = (IF o = p THEN r ELSE vePipe[o])
  BY <1>10, <1>18
<1>20. ASSUME NEW o \in VePipes PROVE VePipeOK(vePipe[o])'
  <2>1. PICK w : w = vePipe'[o]
    OBVIOUS
  <2>2. VePipeOK(w)
    BY <1>17, <1>19, <2>1 DEF VeInv
  <2>3. VePipeOK(w)'
    BY <1>1, <2>2, VeSame
  <2> QED BY <2>1, <2>3
<1>21. VeOneChip'
  <2>1. VeOneChip /\ vePipe[p].chip = NoEncoder
    BY <1>1 DEF VeInv, VePipeOK
  <2>2. r.chip = unit
    BY <1>9
  <2>3. CASE e.backend = "amlogic"
    <3>1. ~veInUse /\ veInUse'
      BY <1>5, <2>3, Zenon
    <3>2. \A o \in VePipes : vePipe[o].chip = NoEncoder
      BY <2>1, <3>1 DEF VeOneChip
    <3> QED BY <1>14, <1>19, <2>2, <2>3, <3>1, <3>2 DEF VeOneChip
  <2>4. CASE e.backend # "amlogic"
    <3>1. veInUse' <=> veInUse
      BY <1>5, <2>4, Zenon
    <3> QED BY <1>14, <1>19, <2>1, <2>2, <2>4, <3>1 DEF VeOneChip
  <2> QED BY <2>3, <2>4
<1>22. VeRegistry(veFound)' /\ veHost' \in VeHosts /\ DOMAIN vePipe' = VePipes
  BY <1>1, <1>10, <1>18 DEF VeInv
<1> QED BY <1>20, <1>21, <1>22 DEF VeInv

\* No picture is broken, and none too short for what was built for the device.
LEMMA VeEncodesFrame ==
    ASSUME VeInv, NEW p \in VePipes, EncodeFrame(p) PROVE VeInv'
<1>1. PICK q : q = vePipe[p]
  OBVIOUS
<1>2. PICK codec : codec = q.built.enc.codec
  OBVIOUS
<1>3. PICK unit : unit = IF q.ask /\ q.chip # NoEncoder THEN Requested(q.chip, codec) ELSE q.chip
  OBVIOUS
<1>4. /\ q.pc = "on" /\ q.got # NoEncoder /\ UNCHANGED <<veHost, veFound, veInUse>>
      /\ \/ /\ Handed(q) \in {"refused", "dropped"}
            /\ vePipe' = [vePipe EXCEPT ![p].out = Handed(q)]
         \/ vePipe' = [vePipe EXCEPT ![p].out = "error", ![p].ask = FALSE, ![p].chip = unit]
         \/ /\ Reaches(q) /\ ~Fits(q)
            /\ vePipe' = [vePipe EXCEPT ![p].out = "short", ![p].ask = FALSE, ![p].chip = unit]
         \/ \E o \in FfmpegAnswers : vePipe' = [vePipe EXCEPT ![p].out = o, ![p].ask = FALSE]
         \/ /\ unit # NoEncoder
            /\ \E t \in EncodeRaw(unit, codec) :
                  vePipe' = [vePipe EXCEPT ![p].out = t[2], ![p].ask = FALSE, ![p].chip = t[1]]
  BY <1>1, <1>2, <1>3, Zenon DEF EncodeFrame
<1>4a. DOMAIN vePipe = VePipes
  BY DEF VeInv
<1>5. VePipeOK(q)
  BY <1>1 DEF VeInv
<1>6. {"pc", "asked", "got", "built", "ask", "chip", "out"} \subseteq DOMAIN q
  BY <1>5 DEF VePipeOK
<1>7. q.chip # NoEncoder => codec \in {"h264", "h265"} /\ VeSound(q.chip)
  BY <1>2, <1>4, <1>5 DEF VePipeOK
<1>8. unit = q.chip \/ (q.chip # NoEncoder /\ VeSound(unit))
  BY <1>3, <1>7, VeRequests
<1>9. ASSUME Reaches(q) PROVE Fits(q)
  <2>1. PICK c \in VeAsked, e \in veFound : VeBuiltFor(q, c, e)
    BY <1>4, <1>5, <1>9 DEF VePipeOK
  <2> QED BY <1>4, <1>9, <2>1, VeFits
<1>10. CASE /\ Handed(q) \in {"refused", "dropped"}
            /\ vePipe' = [vePipe EXCEPT ![p].out = Handed(q)]
  <2>1. PICK h \in {"refused", "dropped"} : h = Handed(q)
    BY <1>10
  <2>2. PICK r : r = [q EXCEPT !.out = h]
    OBVIOUS
  <2>3. vePipe' = [vePipe EXCEPT ![p] = r]
    BY <1>1, <1>4a, <1>10, <2>1, <2>2
  <2>4. /\ DOMAIN r = DOMAIN q /\ r.out = h /\ r.pc = q.pc /\ r.built = q.built /\ r.asked = q.asked /\ r.got = q.got
        /\ r.chip = q.chip
    BY <1>6, <2>2
  <2>5. r.out # "broken" /\ r.out # "short"
    BY <2>1, <2>4
  <2>6. VeFollows(q, r)
    BY <1>4, <1>6, <2>4, <2>5 DEF VeFollows
  <2> QED BY <1>1, <1>4, <2>3, <2>6, VeGoesOn
<1>11. CASE vePipe' = [vePipe EXCEPT ![p].out = "error", ![p].ask = FALSE, ![p].chip = unit]
  <2>2. PICK r : r = [q EXCEPT !.out = "error", !.ask = FALSE, !.chip = unit]
    OBVIOUS
  <2>3. vePipe' = [vePipe EXCEPT ![p] = r]
    BY <1>1, <1>4a, <1>11, <2>2
  <2>4. /\ DOMAIN r = DOMAIN q /\ r.out = "error" /\ r.pc = q.pc /\ r.built = q.built /\ r.asked = q.asked /\ r.got = q.got
        /\ r.chip = unit
    BY <1>6, <2>2
  <2>6. VeFollows(q, r)
    BY <1>4, <1>6, <1>8, <2>4 DEF VeFollows
  <2> QED BY <1>1, <1>4, <2>3, <2>6, VeGoesOn
<1>12. CASE Reaches(q) /\ ~Fits(q)
  BY <1>9, <1>12
<1>13. CASE \E o \in FfmpegAnswers : vePipe' = [vePipe EXCEPT ![p].out = o, ![p].ask = FALSE]
  <2>1. PICK o \in FfmpegAnswers : vePipe' = [vePipe EXCEPT ![p].out = o, ![p].ask = FALSE]
    BY <1>13
  <2>2. PICK r : r = [q EXCEPT !.out = o, !.ask = FALSE]
    OBVIOUS
  <2>3. vePipe' = [vePipe EXCEPT ![p] = r]
    BY <1>1, <1>4a, <2>1, <2>2
  <2>4. /\ DOMAIN r = DOMAIN q /\ r.out = o /\ r.pc = q.pc /\ r.built = q.built /\ r.asked = q.asked /\ r.got = q.got
        /\ r.chip = q.chip
    BY <1>6, <2>2
  <2>5. r.out # "broken" /\ r.out # "short"
    BY <2>1, <2>4 DEF FfmpegAnswers
  <2>6. VeFollows(q, r)
    BY <1>4, <1>6, <2>4, <2>5 DEF VeFollows
  <2> QED BY <1>1, <1>4, <2>3, <2>6, VeGoesOn
<1>14. CASE /\ unit # NoEncoder
            /\ \E t \in EncodeRaw(unit, codec) :
                  vePipe' = [vePipe EXCEPT ![p].out = t[2], ![p].ask = FALSE, ![p].chip = t[1]]
  <2>1. PICK t \in EncodeRaw(unit, codec) :
           vePipe' = [vePipe EXCEPT ![p].out = t[2], ![p].ask = FALSE, ![p].chip = t[1]]
    BY <1>14
  <2>2. VeSound(unit) /\ q.chip # NoEncoder
    BY <1>7, <1>8, <1>14
  <2>3. VeSound(t[1]) /\ t[2] \in {"none", "key", "delta", "error"}
    BY <2>1, <2>2, VeEncodes
  <2>4. PICK a, o : a = t[1] /\ o = t[2]
    OBVIOUS
  <2>5. PICK r : r = [q EXCEPT !.out = o, !.ask = FALSE, !.chip = a]
    OBVIOUS
  <2>6. vePipe' = [vePipe EXCEPT ![p] = r]
    BY <1>1, <1>4a, <2>1, <2>4, <2>5
  <2>7. /\ DOMAIN r = DOMAIN q /\ r.out = o /\ r.pc = q.pc /\ r.built = q.built /\ r.asked = q.asked /\ r.got = q.got
        /\ r.chip = a
    BY <1>6, <2>5
  <2>8. r.out # "broken" /\ r.out # "short" /\ VeSound(r.chip)
    BY <2>3, <2>4, <2>7
  <2>9. VeFollows(q, r)
    BY <1>4, <1>6, <2>2, <2>7, <2>8 DEF VeFollows
  <2> QED BY <1>1, <1>4, <2>6, <2>9, VeGoesOn
<1> QED BY <1>4, <1>10, <1>11, <1>12, <1>13, <1>14

\* The encoders are found before anything runs.
LEMMA VeDetectsFirst == ASSUME VeInv, Detect PROVE VeInv'
<1>1. veFound = {} /\ UNCHANGED <<veHost, vePipe, veInUse>>
  BY DEF Detect
<1>2. VeRegistry(veFound)'
  BY VeDetects DEF VeRegistry, VeServed, VeRegistered
<1>3. ASSUME NEW o \in VePipes PROVE VePipeOK(vePipe[o])'
  <2>1. VePipeOK(vePipe[o]) /\ vePipe[o].pc # "on"
    BY <1>1 DEF VeInv, VePipeOK
  <2> QED BY <1>1, <2>1 DEF VePipeOK
<1>4. VeOneChip'
  BY <1>1 DEF VeInv, VeOneChip
<1> QED BY <1>1, <1>2, <1>3, <1>4 DEF VeInv

\* One that is told to stop keeps its chip until its thread ends.
LEMMA VeStops ==
    ASSUME VeInv, NEW p \in VePipes, Stop(p) \/ ThreadEnds(p) PROVE VeInv'
<1>1. UNCHANGED <<veHost, veFound>> /\ DOMAIN vePipe = VePipes
  BY DEF Stop, ThreadEnds, VeInv
<1>2. PICK n : n = IF Stop(p) THEN vePipe[p].chip ELSE NoEncoder
  OBVIOUS
<1>3. PICK s : s = IF Stop(p) THEN "ending" ELSE "off"
  OBVIOUS
<1>4. PICK r : r = [Idle EXCEPT !.pc = s, !.chip = n]
  OBVIOUS
<1>5. vePipe' = [vePipe EXCEPT ![p] = r]
  <2>1. CASE Stop(p)
    BY <1>2, <1>3, <1>4, <2>1 DEF Stop
  <2>2. CASE ~Stop(p)
    <3>1. vePipe' = [vePipe EXCEPT ![p] = Idle]
      BY <2>2 DEF ThreadEnds
    <3>2. r = Idle
      BY <1>2, <1>3, <1>4, <2>2 DEF Idle
    <3> QED BY <3>1, <3>2
  <2> QED BY <2>1, <2>2
<1>6. \A o \in VePipes : vePipe'[o] = (IF o = p THEN r ELSE vePipe[o])
  BY <1>1, <1>5
<1>7. r.chip = n /\ r.pc = s /\ r.out = "none"
      /\ {"pc", "asked", "got", "built", "ask", "chip", "out"} \subseteq DOMAIN r
  BY <1>4 DEF Idle
<1>8. VePipeOK(r)
  BY <1>2, <1>3, <1>7 DEF VePipeOK
<1>9. ASSUME NEW o \in VePipes PROVE VePipeOK(vePipe[o])'
  <2>1. PICK w : w = vePipe'[o]
    OBVIOUS
  <2>2. VePipeOK(w)
    BY <1>6, <1>8, <2>1 DEF VeInv
  <2>3. VePipeOK(w)'
    BY <1>1, <2>2, VeSame
  <2> QED BY <2>1, <2>3
<1>10. VeOneChip'
  <2>0. VeOneChip
    BY DEF VeInv
  <2>1. CASE Stop(p)
    <3>1. veInUse' = veInUse /\ r.chip = vePipe[p].chip
      BY <1>2, <1>7, <2>1 DEF Stop
    <3> QED BY <1>6, <2>0, <3>1 DEF VeOneChip
  <2>2. CASE ~Stop(p) /\ vePipe[p].chip = NoEncoder
    <3>1. r.chip = NoEncoder
      BY <1>2, <1>7, <2>2
    <3>2. veInUse' <=> veInUse
      BY <2>2, Zenon DEF ThreadEnds
    <3> QED BY <1>6, <2>0, <2>2, <3>1, <3>2 DEF VeOneChip
  <2>3. CASE ~Stop(p) /\ vePipe[p].chip # NoEncoder
    <3>1. r.chip = NoEncoder
      BY <1>2, <1>7, <2>3
    <3>2. ~veInUse'
      BY <2>3, Zenon DEF ThreadEnds
    <3>3. \A o \in VePipes : vePipe'[o].chip = NoEncoder
      BY <1>6, <2>0, <2>3, <3>1 DEF VeOneChip
    <3> QED BY <3>2, <3>3 DEF VeOneChip
  <2> QED BY <2>1, <2>2, <2>3
<1>11. VeRegistry(veFound)' /\ veHost' \in VeHosts /\ DOMAIN vePipe' = VePipes
  BY <1>1, <1>5 DEF VeInv
<1> QED BY <1>9, <1>10, <1>11 DEF VeInv

\* The invariant holds on: a step at a time.
LEMMA VeSteps == VeInv /\ [VeNext]_veVars => VeInv'
<1> SUFFICES ASSUME VeInv, [VeNext]_veVars PROVE VeInv'
  OBVIOUS
<1>0. DOMAIN vePipe = VePipes
      /\ \A p \in VePipes : {"pc", "asked", "got", "built", "ask", "chip", "out"} \subseteq DOMAIN vePipe[p]
  BY DEF VeInv, VePipeOK
<1>1. CASE Detect
  BY <1>1, VeDetectsFirst
<1>2. ASSUME NEW p \in VePipes, Start(p) PROVE VeInv'
  BY <1>2, VeStartsPipe
<1>3. ASSUME NEW p \in VePipes, OpensLater(p) PROVE VeInv'
  <2>1. CASE Stop(p)
    BY <2>1, VeStops
  <2>2. CASE /\ vePipe[p].pc = "on" /\ ExpectedInput(vePipe[p]) \in VeFormats
             /\ vePipe' = [vePipe EXCEPT ![p].got = ExpectedInput(vePipe[p])]
             /\ UNCHANGED <<veHost, veFound, veInUse>>
    <3>1. PICK q : q = vePipe[p]
      OBVIOUS
    <3>2. PICK r : r = [q EXCEPT !.got = ExpectedInput(q)]
      OBVIOUS
    <3>3. vePipe' = [vePipe EXCEPT ![p] = r]
      BY <1>0, <2>2, <3>1, <3>2
    <3>4. VeFollows(q, r)
      BY <1>0, <2>2, <3>1, <3>2 DEF VeFollows, VePipeOK, VeInv
    <3> QED BY <2>2, <3>1, <3>3, <3>4, VeGoesOn
  <2> QED BY <1>3, <2>1, <2>2 DEF OpensLater
<1>4. ASSUME NEW p \in VePipes, AskKeyframe(p) PROVE VeInv'
  <2>1. PICK q : q = vePipe[p]
    OBVIOUS
  <2>2. vePipe' = [vePipe EXCEPT ![p] = [q EXCEPT !.ask = TRUE]]
    BY <1>0, <1>4, <2>1 DEF AskKeyframe
  <2>3. q.pc = "on" /\ UNCHANGED <<veHost, veFound, veInUse>> /\ VePipeOK(q)
    BY <1>4, <2>1 DEF AskKeyframe, VeInv
  <2>5. PICK r : r = [q EXCEPT !.ask = TRUE]
    OBVIOUS
  <2>6. VeFollows(q, r)
    BY <1>0, <2>1, <2>3, <2>5 DEF VeFollows, VePipeOK
  <2> QED BY <1>4, <2>1, <2>2, <2>3, <2>5, <2>6, VeGoesOn
<1>5. ASSUME NEW p \in VePipes, SetBitrate(p) PROVE VeInv'
  <2>1. PICK q : q = vePipe[p]
    OBVIOUS
  <2>2. PICK c \in Rebuilt(q.chip, q.built.enc.codec) : vePipe' = [vePipe EXCEPT ![p] = [q EXCEPT !.chip = c]]
    BY <1>0, <1>5, <2>1 DEF SetBitrate
  <2>3. q.pc = "on" /\ q.chip # NoEncoder /\ UNCHANGED <<veHost, veFound, veInUse>> /\ VePipeOK(q)
    BY <1>5, <2>1 DEF SetBitrate, VeInv
  <2>4. VeSound(c)
    BY <2>2, <2>3, VeRebuilds DEF VePipeOK, VeSound
  <2>5. PICK r : r = [q EXCEPT !.chip = c]
    OBVIOUS
  <2>6. VeFollows(q, r)
    BY <1>0, <2>1, <2>3, <2>4, <2>5 DEF VeFollows, VePipeOK
  <2> QED BY <1>5, <2>1, <2>2, <2>3, <2>5, <2>6, VeGoesOn
<1>6. ASSUME NEW p \in VePipes, EncodeFrame(p) PROVE VeInv'
  BY <1>6, VeEncodesFrame
<1>7. ASSUME NEW p \in VePipes, Stop(p) \/ ThreadEnds(p) PROVE VeInv'
  BY <1>7, VeStops
<1>8. CASE UNCHANGED veVars
  <2>1. UNCHANGED <<veHost, veFound, vePipe, veInUse>>
    BY <1>8 DEF veVars
  <2>2. ASSUME NEW o \in VePipes PROVE VePipeOK(vePipe[o])'
    <3>1. PICK w : w = vePipe'[o]
      OBVIOUS
    <3>2. VePipeOK(w)'
      BY <2>1, <3>1, VeSame DEF VeInv
    <3> QED BY <3>1, <3>2
  <2>3. VeOneChip' /\ VeRegistry(veFound)'
    BY <2>1 DEF VeInv, VeOneChip
  <2> QED BY <1>0, <2>1, <2>2, <2>3 DEF VeInv
<1> QED BY <1>1, <1>2, <1>3, <1>4, <1>5, <1>6, <1>7, <1>8 DEF VeNext

\* What encoders keep follows.
LEMMA VePromised == VeInv => AutomaticWorks /\ FedAsTaken /\ KeyComesFirst /\ OneChip
<1> SUFFICES ASSUME VeInv PROVE AutomaticWorks /\ FedAsTaken /\ KeyComesFirst /\ OneChip
  OBVIOUS
<1>1. AutomaticWorks
  BY VeBest DEF AutomaticWorks, VeInv, VeRegistry
<1>2. FedAsTaken
  <2>1. ASSUME NEW p \in VePipes, vePipe[p].pc = "on", vePipe[p].got # NoEncoder, Reaches(vePipe[p])
        PROVE  /\ Handed(vePipe[p]) = vePipe[p].built.opened \/ (vePipe[p].built.direct /\ vePipe[p].built.enc.backend # "rkmpp")
               /\ vePipe[p].out # "short"
    <3>1. PICK q : q = vePipe[p]
      OBVIOUS
    <3>2. VePipeOK(q)
      BY <3>1 DEF VeInv
    <3>3. PICK c \in VeAsked, e \in veFound : VeBuiltFor(q, c, e)
      BY <2>1, <3>1, <3>2 DEF VePipeOK
    <3>4. Reaches(q) /\ q.out # "short"
      BY <2>1, <3>1, <3>2 DEF VePipeOK
    <3>5. Handed(q) = q.built.opened \/ (q.built.direct /\ q.built.enc.backend # "rkmpp")
      BY <2>1, <3>1, <3>3, <3>4, VeFits
    <3> QED BY <3>1, <3>4, <3>5
  <2> QED BY <2>1 DEF FedAsTaken
<1>3. KeyComesFirst
  BY DEF KeyComesFirst, VeInv, VePipeOK
<1>4. OneChip
  <2> DEFINE users == {p \in VePipes : vePipe[p].chip # NoEncoder}
  <2>1. \A p, o \in users : p = o
    BY DEF VeInv, VeOneChip
  <2>2. veInUse <=> users # {}
    BY DEF VeInv, VeOneChip
  <2>3. CASE users = {}
    BY <2>2, <2>3, FS_EmptySet DEF OneChip
  <2>4. CASE users # {}
    <3>1. PICK p \in users : TRUE
      BY <2>4
    <3>2. users = {p}
      BY <2>1, <3>1
    <3>3. Cardinality(users) = 1
      BY <3>2, FS_Singleton
    <3> QED BY <2>2, <3>3 DEF OneChip
  <2> QED BY <2>3, <2>4
<1> QED BY <1>1, <1>2, <1>3, <1>4

-----------------------------------------------------------------------------
\* Extensions

\* A task at work names an extension, and holds a process only to insert it.
ExTaskOK(t) ==
    /\ {"pc", "id", "cfg", "was", "proc"} \subseteq DOMAIN t
    /\ t.pc # "idle" => t.id \in ExIds
    /\ t.proc \in ExProcs \cup {0} /\ (t.pc # "insert" => t.proc = 0)

\* What an extension or a task holds nobody else holds.
ExAlone ==
    /\ \A i, j \in ExIds : exTab[i] = exTab[j] /\ exTab[i] # 0 => i = j
    /\ \A s, t \in ExTasks : exTask[s].proc = exTask[t].proc /\ exTask[s].proc # 0 => s = t
    /\ \A i \in ExIds, t \in ExTasks : exTab[i] = exTask[t].proc => exTab[i] = 0

\* All that lives or has a directory is held.
ExInv ==
    /\ DOMAIN exTab = ExIds /\ \A i \in ExIds : exTab[i] \in ExProcs \cup {0}
    /\ DOMAIN exTask = ExTasks /\ \A t \in ExTasks : ExTaskOK(exTask[t])
    /\ ExAlone
    /\ exLive \subseteq ExHeld \ {0} /\ exFiles \subseteq ExHeld \ {0}

\* Nothing runs at first.
LEMMA ExStarts == ExInit => ExInv
<1> SUFFICES ASSUME ExInit PROVE ExInv
  OBVIOUS
<1>1. ExTaskOK(ExRest) /\ ExRest.proc = 0
  BY DEF ExTaskOK, ExRest
<1>2. DOMAIN exTab = ExIds /\ \A i \in ExIds : exTab[i] = 0
  BY DEF ExInit
<1>3. DOMAIN exTask = ExTasks /\ \A t \in ExTasks : exTask[t] = ExRest
  BY DEF ExInit
<1>4. exLive = {} /\ exFiles = {}
  BY DEF ExInit
<1> QED
  BY <1>1, <1>2, <1>3, <1>4 DEF ExInv, ExAlone

\* Who holds fewer, holds no other's.
LEMMA ExLetsGo ==
    ASSUME ExInv, DOMAIN exTab' = ExIds, DOMAIN exTask' = ExTasks,
           \A i \in ExIds : exTab'[i] \in {exTab[i], 0},
           \A t \in ExTasks : ExTaskOK(exTask'[t]) /\ exTask'[t].proc \in {exTask[t].proc, 0},
           \A p \in exLive' \cup exFiles' :
              p \in exLive \cup exFiles /\ ((\E i \in ExIds : exTab'[i] = p) \/ \E t \in ExTasks : exTask'[t].proc = p)
    PROVE  ExInv'
<1>1. 0 \notin exLive' \cup exFiles'
  BY DEF ExInv
<1>2. exLive' \subseteq ExHeld' /\ exFiles' \subseteq ExHeld'
  BY DEF ExHeld
<1>3. \A i \in ExIds : exTab'[i] \in ExProcs \cup {0}
  BY DEF ExInv
<1>4. ExAlone'
  BY DEF ExInv, ExAlone
<1> QED
  BY <1>1, <1>2, <1>3, <1>4 DEF ExInv

\* A task moves on with what it holds.
LEMMA ExGoesOn ==
    ASSUME ExInv, NEW t \in ExTasks, NEW x, ExTaskOK(x), x.proc = exTask[t].proc, ExGoes(t, x),
           UNCHANGED <<exTab, exLive, exFiles>>
    PROVE  ExInv'
<1>1. DOMAIN exTask' = ExTasks /\ \A s \in ExTasks : exTask'[s] = IF s = t THEN x ELSE exTask[s]
  BY DEF ExInv, ExGoes
<1>2. \A s \in ExTasks : ExTaskOK(exTask'[s]) /\ exTask'[s].proc = exTask[s].proc
  BY <1>1 DEF ExInv
<1>3. \A p \in exLive \cup exFiles : (\E i \in ExIds : exTab[i] = p) \/ \E s \in ExTasks : exTask[s].proc = p
  BY DEF ExInv, ExHeld
<1>4. \A p \in exLive' \cup exFiles' :
         p \in exLive \cup exFiles /\ ((\E i \in ExIds : exTab'[i] = p) \/ \E s \in ExTasks : exTask'[s].proc = p)
  BY <1>2, <1>3
<1>5. DOMAIN exTab' = ExIds /\ \A i \in ExIds : exTab'[i] = exTab[i]
  BY DEF ExInv
<1> QED
  BY <1>1, <1>2, <1>4, <1>5, ExLetsGo

\* What a resting task may become: one that begins something for an extension.
LEMMA ExBegun ==
    ASSUME NEW i \in ExIds, NEW p, p # "insert"
    PROVE  /\ ExTaskOK([ExRest EXCEPT !.pc = p, !.id = i]) /\ [ExRest EXCEPT !.pc = p, !.id = i].proc = 0
           /\ \A c, b : /\ ExTaskOK([ExRest EXCEPT !.pc = p, !.id = i, !.cfg = c, !.was = b])
                        /\ [ExRest EXCEPT !.pc = p, !.id = i, !.cfg = c, !.was = b].proc = 0
           /\ ExTaskOK(ExRest) /\ ExRest.proc = 0
<1>1. ExTaskOK([ExRest EXCEPT !.pc = p, !.id = i]) /\ [ExRest EXCEPT !.pc = p, !.id = i].proc = 0
  BY DEF ExTaskOK, ExRest
<1>2. ASSUME NEW c, NEW b PROVE /\ ExTaskOK([ExRest EXCEPT !.pc = p, !.id = i, !.cfg = c, !.was = b])
                                /\ [ExRest EXCEPT !.pc = p, !.id = i, !.cfg = c, !.was = b].proc = 0
  BY DEF ExTaskOK, ExRest
<1>3. ExTaskOK(ExRest) /\ ExRest.proc = 0
  BY DEF ExTaskOK, ExRest
<1> QED
  BY <1>1, <1>2, <1>3

\* Requests and the health check begin, a configuration is stored, a spawn fails.
LEMMA ExAsks ==
    ASSUME ExInv, NEW t \in ExTasks,
           \/ \E i \in ExIds : StartExtension(t, i) \/ StopExtension(t, i)
           \/ \E i \in ExIds, c \in ExConfigs : UpdateConfig(t, i, c)
           \/ t = ExHealth /\ \E i \in ExIds : HealthCheck(i)
           \/ UpdateStored(t) \/ SpawnFails(t)
    PROVE  ExInv'
<1>a. ExTaskOK(exTask[t]) /\ ExTaskOK(ExRest) /\ ExRest.proc = 0
  BY DEF ExInv, ExTaskOK, ExRest
<1>b. UNCHANGED <<exTab, exLive, exFiles>>
  BY DEF StartExtension, StopExtension, UpdateConfig, HealthCheck, UpdateStored, SpawnFails
<1>1. exTask[t].proc = 0
  BY <1>a DEF ExTaskOK, StartExtension, StopExtension, UpdateConfig, HealthCheck, UpdateStored, SpawnFails
<1>2. ASSUME NEW i \in ExIds, NEW p, p # "insert", ExGoes(t, [ExRest EXCEPT !.pc = p, !.id = i]) PROVE ExInv'
  <2>1. PICK x : x = [ExRest EXCEPT !.pc = p, !.id = i]
    OBVIOUS
  <2>2. ExTaskOK(x) /\ x.proc = 0
    BY <2>1, <1>2, ExBegun
  <2> QED
    BY <1>1, <1>2, <1>b, <2>1, <2>2, ExGoesOn
<1>3. ASSUME ExGoes(t, ExRest) PROVE ExInv'
  BY <1>1, <1>3, <1>a, <1>b, ExGoesOn
<1>4. CASE \E i \in ExIds : StartExtension(t, i)
  BY <1>4, <1>2 DEF StartExtension
<1>5. CASE \E i \in ExIds : StopExtension(t, i)
  BY <1>5, <1>2 DEF StopExtension
<1>6. CASE \E i \in ExIds, c \in ExConfigs : UpdateConfig(t, i, c)
  <2>1. PICK i \in ExIds, c \in ExConfigs : UpdateConfig(t, i, c)
    BY <1>6
  <2>2. PICK b, p, x : b = exCfg[i].on /\ p = "store" /\ x = [ExRest EXCEPT !.pc = p, !.id = i, !.cfg = c, !.was = b]
    OBVIOUS
  <2>3. ExTaskOK(x) /\ x.proc = 0
    BY <2>2 DEF ExTaskOK, ExRest
  <2>4. ExGoes(t, x)
    BY <2>1, <2>2 DEF UpdateConfig
  <2> QED
    BY <1>1, <1>b, <2>3, <2>4, ExGoesOn
<1>7. CASE t = ExHealth /\ \E i \in ExIds : HealthCheck(i)
  BY <1>7, <1>2 DEF HealthCheck
<1>8. CASE UpdateStored(t)
  <2>1. exTask[t].pc = "store" /\ exTask[t].id \in ExIds
    BY <1>8, <1>a DEF UpdateStored, ExTaskOK
  <2>2. \/ ExGoes(t, ExRest)
        \/ ExGoes(t, [ExRest EXCEPT !.pc = "stop", !.id = exTask[t].id])
        \/ ExGoes(t, [ExRest EXCEPT !.pc = "restop", !.id = exTask[t].id])
    BY <1>8 DEF UpdateStored
  <2>3. PICK i \in ExIds : i = exTask[t].id
    BY <2>1
  <2>4. ExGoes(t, ExRest) \/ \E p \in {"stop", "restop"} : ExGoes(t, [ExRest EXCEPT !.pc = p, !.id = i])
    BY <2>2, <2>3
  <2> QED
    BY <2>4, <1>2, <1>3
<1>9. CASE SpawnFails(t)
  BY <1>9, <1>3 DEF SpawnFails
<1> QED
  BY <1>4, <1>5, <1>6, <1>7, <1>8, <1>9

\* A process is stopped, is taken out of the table, is dropped with its handler, or
\* exits.
LEMMA ExEnds ==
    ASSUME ExInv, \/ \E t \in ExTasks : StopChild(t) \/ HandlerDropped(t)
                  \/ GetExtension \/ \E p \in ExProcs : ChildExits(p)
    PROVE  ExInv'
<1>a. /\ DOMAIN exTab = ExIds /\ DOMAIN exTask = ExTasks /\ \A t \in ExTasks : ExTaskOK(exTask[t])
      /\ \A p \in exLive \cup exFiles : (\E i \in ExIds : exTab[i] = p) \/ \E s \in ExTasks : exTask[s].proc = p
  BY DEF ExInv, ExHeld
<1>r. ExTaskOK(ExRest) /\ ExRest.proc = 0
  BY DEF ExTaskOK, ExRest
<1>1. CASE \E t \in ExTasks : StopChild(t)
  <2>1. PICK t \in ExTasks : StopChild(t)
    BY <1>1
  <2>2. PICK i \in ExIds : i = exTask[t].id /\ exTask[t].proc = 0
    BY <2>1, <1>a DEF StopChild, ExTaskOK
  <2>3. PICK x : x = IF exTask[t].pc = "stop" THEN ExRest ELSE [exTask[t] EXCEPT !.pc = "spawn"]
    OBVIOUS
  <2>4. ExTaskOK([exTask[t] EXCEPT !.pc = "spawn"]) /\ [exTask[t] EXCEPT !.pc = "spawn"].proc = 0
    BY <2>1, <2>2, <1>a DEF ExTaskOK, StopChild
  <2>5. ExTaskOK(x) /\ x.proc = 0
    BY <2>3, <2>4, <1>r
  <2>6. /\ exTab' = [exTab EXCEPT ![i] = 0] /\ exTask' = [exTask EXCEPT ![t] = x]
        /\ exLive' = exLive \ {exTab[i]} /\ exFiles' = exFiles \ {exTab[i]}
    BY <2>1, <2>2, <2>3 DEF StopChild, ExGoes
  <2>7. /\ DOMAIN exTab' = ExIds /\ DOMAIN exTask' = ExTasks
        /\ \A j \in ExIds : exTab'[j] = IF j = i THEN 0 ELSE exTab[j]
        /\ \A s \in ExTasks : exTask'[s] = IF s = t THEN x ELSE exTask[s]
    BY <2>6, <1>a
  <2>8. \A s \in ExTasks : ExTaskOK(exTask'[s]) /\ exTask'[s].proc = exTask[s].proc
    BY <2>2, <2>5, <2>7, <1>a
  <2>9. \A p \in exLive' \cup exFiles' :
           p \in exLive \cup exFiles /\ ((\E j \in ExIds : exTab'[j] = p) \/ \E s \in ExTasks : exTask'[s].proc = p)
    BY <2>6, <2>7, <2>8, <1>a
  <2> QED
    BY <2>7, <2>8, <2>9, ExLetsGo
<1>2. CASE \E t \in ExTasks : HandlerDropped(t)
  <2>1. PICK t \in ExTasks : HandlerDropped(t)
    BY <1>2
  <2>2. /\ exTask' = [exTask EXCEPT ![t] = ExRest] /\ exTab' = exTab
        /\ exLive' = exLive \ {exTask[t].proc} /\ exFiles' = exFiles \ {exTask[t].proc}
    BY <2>1 DEF HandlerDropped, ExGoes
  <2>3. DOMAIN exTask' = ExTasks /\ \A s \in ExTasks : exTask'[s] = IF s = t THEN ExRest ELSE exTask[s]
    BY <2>2, <1>a
  <2>4. \A s \in ExTasks : ExTaskOK(exTask'[s]) /\ exTask'[s].proc \in {exTask[s].proc, 0}
    BY <2>3, <1>a, <1>r
  <2>5. \A p \in exLive' \cup exFiles' :
           p \in exLive \cup exFiles /\ ((\E j \in ExIds : exTab'[j] = p) \/ \E s \in ExTasks : exTask'[s].proc = p)
    BY <2>2, <2>3, <1>a
  <2>6. DOMAIN exTab' = ExIds /\ \A j \in ExIds : exTab'[j] = exTab[j]
    BY <2>2, <1>a
  <2> QED
    BY <2>3, <2>4, <2>5, <2>6, ExLetsGo
<1>3. CASE GetExtension
  <2>1. PICK i \in ExIds : Status(i)
    BY <1>3 DEF GetExtension
  <2>2. /\ exTab' = [exTab EXCEPT ![i] = 0] /\ exTask' = exTask /\ exLive' = exLive
        /\ exFiles' = exFiles \ {exTab[i]} /\ exTab[i] \notin exLive
    BY <2>1 DEF Status
  <2>3. DOMAIN exTab' = ExIds /\ \A j \in ExIds : exTab'[j] = IF j = i THEN 0 ELSE exTab[j]
    BY <2>2, <1>a
  <2>4. \A p \in exLive' \cup exFiles' :
           p \in exLive \cup exFiles /\ ((\E j \in ExIds : exTab'[j] = p) \/ \E s \in ExTasks : exTask'[s].proc = p)
    BY <2>2, <2>3, <1>a
  <2>5. DOMAIN exTask' = ExTasks /\ \A s \in ExTasks : ExTaskOK(exTask'[s]) /\ exTask'[s].proc = exTask[s].proc
    BY <2>2, <1>a
  <2> QED
    BY <2>3, <2>4, <2>5, ExLetsGo
<1>4. CASE \E p \in ExProcs : ChildExits(p)
  <2>1. UNCHANGED <<exTab, exTask, exFiles>> /\ exLive' \subseteq exLive
    BY <1>4 DEF ChildExits
  <2>2. ExHeld' = ExHeld /\ ExAlone'
    BY <2>1 DEF ExHeld, ExAlone, ExInv
  <2> QED
    BY <2>1, <2>2 DEF ExInv
<1> QED
  BY <1>1, <1>2, <1>3, <1>4

\* What is held by some are not more than they.
LEMMA ExFew ==
    ASSUME NEW S, IsFiniteSet(S), NEW f, NEW P, \A p \in P : \E s \in S : f[s] = p
    PROVE  IsFiniteSet(P) /\ Cardinality(P) <= Cardinality(S)
<1> DEFINE g == [p \in P |-> CHOOSE s \in S : f[s] = p]
<1>1. g \in [P -> S] /\ \A p \in P : f[g[p]] = p
  OBVIOUS
<1>2. g \in Injection(P, S)
  BY <1>1 DEF Injection, IsInjective
<1> HIDE DEF g
<1> QED
  BY <1>2, FS_Injection

\* A number is free for a start that spawns.
LEMMA ExFree ==
    ASSUME ExInv, NEW t \in ExTasks, exTask[t].proc = 0
    PROVE  \E p \in ExProcs : p \notin ExHeld /\ p \notin exLive
<1> SUFFICES ASSUME \A p \in ExProcs : p \in ExHeld PROVE FALSE
  BY DEF ExInv
<1>1. IsFiniteSet(ExIds) /\ IsFiniteSet(ExTasks)
  BY ExAssumption, FS_AddElement DEF ExTasks
<1>2. IsFiniteSet(ExTasks \ {t}) /\ Cardinality(ExTasks \ {t}) = Cardinality(ExTasks) - 1
  BY <1>1, FS_RemoveElement
<1>3. Cardinality(ExIds) \in Nat /\ Cardinality(ExTasks) \in Nat /\ Cardinality(ExTasks \ {t}) \in Nat
  BY <1>1, <1>2, FS_CardinalityType
<1> DEFINE A == {p \in ExProcs : \E i \in ExIds : exTab[i] = p}
           B == {p \in ExProcs : \E s \in ExTasks \ {t} : exTask[s].proc = p}
           g == [s \in ExTasks |-> exTask[s].proc]
<1>4. A \cup B = ExProcs
  BY <1>3 DEF ExHeld, ExProcs
<1>5. \A p \in B : \E s \in ExTasks \ {t} : g[s] = p
  OBVIOUS
<1>6. \A p \in A : \E i \in ExIds : exTab[i] = p
  OBVIOUS
<1> HIDE DEF A, B, g
<1>7. IsFiniteSet(A) /\ Cardinality(A) <= Cardinality(ExIds)
  BY <1>1, <1>6, ExFew
<1>8. IsFiniteSet(B) /\ Cardinality(B) <= Cardinality(ExTasks \ {t})
  BY <1>2, <1>5, ExFew
<1>9. Cardinality(A \cup B) <= Cardinality(A) + Cardinality(B)
  <2>1. IsFiniteSet(A \cap B)
    BY <1>7, FS_Subset
  <2>2. Cardinality(A \cap B) \in Nat /\ Cardinality(A) \in Nat /\ Cardinality(B) \in Nat
    BY <2>1, <1>7, <1>8, FS_CardinalityType
  <2>3. Cardinality(A \cup B) = Cardinality(A) + Cardinality(B) - Cardinality(A \cap B)
    BY <1>7, <1>8, FS_Union
  <2> QED
    BY <2>2, <2>3
<1>10. Cardinality(ExProcs) = Cardinality(ExIds) + Cardinality(ExTasks)
  <2>1. PICK n \in Nat : n = Cardinality(ExIds) + Cardinality(ExTasks)
    BY <1>3
  <2>2. Cardinality(1..n) = n
    BY FS_Interval
  <2> QED
    BY <2>1, <2>2 DEF ExProcs
<1>11. Cardinality(A) \in Nat /\ Cardinality(B) \in Nat
  BY <1>7, <1>8, FS_CardinalityType
<1>12. Cardinality(A \cup B) = Cardinality(ExProcs)
  BY <1>4
<1> QED
  BY <1>2, <1>3, <1>7, <1>8, <1>9, <1>10, <1>11, <1>12

\* A process is spawned.
LEMMA ExSpawns == ASSUME ExInv, NEW t \in ExTasks, SpawnChild(t) PROVE ExInv'
<1>a. ExTaskOK(exTask[t]) /\ exTask[t].pc = "spawn" /\ exTask[t].proc = 0
  BY DEF ExInv, SpawnChild, ExTaskOK
<1>1. PICK p \in ExProcs : /\ p \notin ExHeld /\ p \notin exLive
                           /\ exLive' = exLive \cup {p} /\ exFiles' = WithConfig(p)
                           /\ ExGoes(t, [exTask[t] EXCEPT !.pc = "insert", !.proc = p])
  BY <1>a, ExFree DEF SpawnChild
<1>2. PICK x : x = [exTask[t] EXCEPT !.pc = "insert", !.proc = p]
  OBVIOUS
<1>3. ExTaskOK(x) /\ x.proc = p
  BY <1>a, <1>2 DEF ExTaskOK
<1>4. exTab' = exTab /\ exFiles' = exFiles \cup {p}
  BY <1>1 DEF SpawnChild, WithConfig
<1>5. DOMAIN exTask' = ExTasks /\ \A s \in ExTasks : exTask'[s] = IF s = t THEN x ELSE exTask[s]
  BY <1>1, <1>2 DEF ExInv, ExGoes
<1>6. p # 0
  <2>1. ExProcs \subseteq Nat \ {0}
    BY DEF ExProcs
  <2> QED
    BY <2>1
<1>7. (\A i \in ExIds : exTab[i] # p) /\ \A s \in ExTasks : exTask[s].proc # p
  BY <1>1 DEF ExHeld
<1>8. ExAlone'
  BY <1>3, <1>4, <1>5, <1>7 DEF ExInv, ExAlone
<1>9. ExHeld' \cup {0} = ExHeld \cup {p, 0}
  BY <1>a, <1>3, <1>4, <1>5 DEF ExHeld
<1>10. exLive' \subseteq ExHeld' \ {0} /\ exFiles' \subseteq ExHeld' \ {0}
  BY <1>1, <1>4, <1>6, <1>9 DEF ExInv
<1> QED
  BY <1>3, <1>4, <1>5, <1>8, <1>10 DEF ExInv

\* A process is inserted, and what is there is dropped.
LEMMA ExInserts == ASSUME ExInv, NEW t \in ExTasks, InsertChild(t) PROVE ExInv'
<1>a. ExTaskOK(exTask[t]) /\ exTask[t].pc = "insert"
  BY DEF ExInv, InsertChild
<1>r. ExTaskOK(ExRest) /\ ExRest.proc = 0
  BY DEF ExTaskOK, ExRest
<1>1. PICK i \in ExIds, p \in ExProcs \cup {0} : i = exTask[t].id /\ p = exTask[t].proc
  BY <1>a DEF ExTaskOK
<1>2. /\ exTab' = [exTab EXCEPT ![i] = p] /\ exTask' = [exTask EXCEPT ![t] = ExRest]
      /\ exLive' = exLive \ {exTab[i]} /\ exFiles' = exFiles \ {exTab[i]}
  BY <1>1 DEF InsertChild, ExGoes
<1>3. DOMAIN exTab' = ExIds /\ \A j \in ExIds : exTab'[j] = IF j = i THEN p ELSE exTab[j]
  BY <1>2 DEF ExInv
<1>4. DOMAIN exTask' = ExTasks /\ \A s \in ExTasks : exTask'[s] = IF s = t THEN ExRest ELSE exTask[s]
  BY <1>2 DEF ExInv
<1>5. ExAlone'
  <2>1. \A s \in ExTasks : s # t /\ exTask[s].proc = p => p = 0
    BY <1>1 DEF ExInv, ExAlone
  <2>2. \A j \in ExIds : exTab[j] = p => p = 0
    BY <1>1 DEF ExInv, ExAlone
  <2> QED
    BY <1>3, <1>4, <1>r, <2>1, <2>2 DEF ExInv, ExAlone
<1>6. \A q \in exLive' \cup exFiles' : q \in ExHeld' \ {0}
  <2> SUFFICES ASSUME NEW q \in exLive' \cup exFiles' PROVE q \in ExHeld' \ {0}
    OBVIOUS
  <2>1. q \in ExHeld /\ q # 0 /\ q # exTab[i]
    BY <1>2 DEF ExInv
  <2>2. CASE \E j \in ExIds : exTab[j] = q
    BY <2>1, <2>2, <1>3 DEF ExHeld
  <2>3. CASE \E s \in ExTasks : exTask[s].proc = q
    BY <2>1, <2>3, <1>1, <1>3, <1>4 DEF ExHeld
  <2> QED
    BY <2>1, <2>2, <2>3 DEF ExHeld
<1>7. (\A j \in ExIds : exTab'[j] \in ExProcs \cup {0}) /\ \A s \in ExTasks : ExTaskOK(exTask'[s])
  BY <1>3, <1>4, <1>r DEF ExInv
<1> QED
  BY <1>3, <1>4, <1>5, <1>6, <1>7 DEF ExInv

\* Every step keeps the invariant.
LEMMA ExSteps == ExInv /\ [ExNext]_exVars => ExInv'
<1> SUFFICES ASSUME ExInv, [ExNext]_exVars PROVE ExInv'
  OBVIOUS
<1>1. CASE UNCHANGED exVars
  BY <1>1 DEF exVars, ExInv, ExAlone, ExHeld
<1>2. CASE \E w \in ExWeb : \/ \E i \in ExIds : StartExtension(w, i) \/ StopExtension(w, i)
                            \/ \E i \in ExIds, c \in ExConfigs : UpdateConfig(w, i, c)
                            \/ UpdateStored(w) \/ HandlerDropped(w)
  <2>1. PICK w \in ExWeb : \/ \E i \in ExIds : StartExtension(w, i) \/ StopExtension(w, i)
                           \/ \E i \in ExIds, c \in ExConfigs : UpdateConfig(w, i, c)
                           \/ UpdateStored(w) \/ HandlerDropped(w)
    BY <1>2
  <2>2. w \in ExTasks
    BY DEF ExTasks
  <2> QED
    BY <2>1, <2>2, ExAsks, ExEnds
<1>3. CASE \E i \in ExIds : HealthCheck(i)
  <2>1. ExHealth \in ExTasks
    BY DEF ExTasks
  <2> QED
    BY <2>1, <1>3, ExAsks
<1>4. CASE \E t \in ExTasks : ExTaskStep(t) \/ SpawnFails(t)
  BY <1>4, ExAsks, ExEnds, ExSpawns, ExInserts DEF ExTaskStep
<1>5. CASE GetExtension \/ \E p \in ExProcs : ChildExits(p)
  BY <1>5, ExEnds
<1> QED
  BY <1>1, <1>2, <1>3, <1>4, <1>5 DEF ExNext

\* Whatever lives is held.
LEMMA ExPromised == ExInv => NoStrayProcess /\ NoStrayConfig
BY DEF ExInv, ExAlone, NoStrayProcess, NoStrayConfig

-----------------------------------------------------------------------------
\* Files streamed from the drive

\* Whether the browser can still be given all of the file.
DsGood == dsClient = "here" /\ dsThread # "error" /\ \A i \in 1..Len(dsQueue) : dsQueue[i] # 0

\* All that was read has been received, or waits in the channel in whole chunks, in
\* the buffer or before it; when the thread is over the last chunk is what was left.
DsInv ==
    /\ {dsSize, dsRead, dsPiece, dsBuffer, dsSeen} \subseteq Nat /\ dsQueue \in Seq(Nat)
    /\ dsRead <= dsSize /\ dsBuffer <= DsChunk
    /\ dsThread = "read" => dsPiece = 0
    /\ dsThread = "send" => dsBuffer = DsChunk
    /\ DsGood /\ dsThread # "over" =>
          /\ \A i \in 1..Len(dsQueue) : dsQueue[i] = DsChunk
          /\ dsSeen + DsChunk * Len(dsQueue) + dsBuffer + dsPiece = dsRead
          /\ dsThread = "drop" => dsRead = dsSize /\ dsPiece = 0
    /\ DsGood /\ dsThread = "over" =>
          IF dsQueue = << >> THEN dsSeen = dsSize
          ELSE /\ \A i \in 1..(Len(dsQueue) - 1) : dsQueue[i] = DsChunk
               /\ dsSeen + DsChunk * (Len(dsQueue) - 1) + dsQueue[Len(dsQueue)] = dsSize
    /\ StreamIsWhole

\* One chunk more.
LEMMA DsTimes == DsChunk * 0 = 0 /\ \A n \in Nat : DsChunk * n \in Nat /\ DsChunk * (n + 1) = DsChunk * n + DsChunk
BY DsAssumption

\* Nothing is read at first.
LEMMA DsStarts == DsInit => DsInv
<1> SUFFICES ASSUME DsInit PROVE DsInv
  OBVIOUS
<1>1. Len(dsQueue) = 0 /\ dsQueue \in Seq(Nat)
  BY DEF DsInit
<1> QED
  BY <1>1, DsAssumption, DsTimes DEF DsInit, DsInv, StreamIsWhole

\* A total may be grouped by its last two terms.
LEMMA DsGroups == ASSUME NEW m \in Nat, NEW b \in Nat, NEW p \in Nat PROVE m + b + p = m + (b + p)
  OBVIOUS

\* A piece is read, copied, or the file is at its end.
LEMMA DsFills == ASSUME DsInv, DsReads \/ DsCopies \/ DsEnds \/ DsReadFails PROVE DsInv'
<1>a. UNCHANGED <<dsSize, dsQueue, dsSeen, dsClient>> /\ dsThread # "over" /\ dsThread' # "over"
  BY DEF DsReads, DsCopies, DsEnds, DsReadFails
<1>b. /\ {dsSize, dsRead, dsPiece, dsBuffer, dsSeen} \subseteq Nat /\ dsQueue \in Seq(Nat)
      /\ dsRead <= dsSize /\ dsBuffer <= DsChunk /\ StreamIsWhole
  BY DEF DsInv
<1>c. StreamIsWhole'
  BY <1>a, <1>b DEF StreamIsWhole
<1>d. DsChunk * Len(dsQueue) \in Nat /\ DsChunk \in Nat \ {0} /\ DsBlock \in Nat \ {0}
  BY <1>b, DsTimes, DsAssumption
<1>1. CASE DsReads
  <2>1. dsThread = "read" /\ dsThread' = "copy" /\ dsBuffer' = dsBuffer /\ dsPiece = 0
    BY <1>1 DEF DsReads, DsInv
  <2>2. PICK k \in Nat : dsRead' = dsRead + k /\ dsPiece' = k /\ k <= dsSize - dsRead
    BY <1>1, <1>b, <1>d DEF DsReads
  <2>3. DsGood' => DsGood
    BY <1>a, <2>1 DEF DsGood
  <2> QED
    BY <1>a, <1>b, <1>c, <1>d, <2>1, <2>2, <2>3 DEF DsInv
<1>2. CASE DsCopies
  <2>1. PICK n \in Nat : /\ dsBuffer' = dsBuffer + n /\ dsPiece' = dsPiece - n
                         /\ n <= dsPiece /\ n <= DsChunk - dsBuffer /\ (n = dsPiece \/ dsBuffer + n = DsChunk)
                         /\ dsThread' = IF dsBuffer + n = DsChunk THEN "send" ELSE "read"
    <3> DEFINE k == IF dsPiece < DsChunk - dsBuffer THEN dsPiece ELSE DsChunk - dsBuffer
    <3>1. /\ dsBuffer' = dsBuffer + k /\ dsPiece' = dsPiece - k
          /\ dsThread' = IF dsBuffer + k = DsChunk THEN "send" ELSE "read"
      BY <1>2 DEF DsCopies
    <3>2. k \in Nat /\ k <= dsPiece /\ k <= DsChunk - dsBuffer /\ (k = dsPiece \/ dsBuffer + k = DsChunk)
      BY <1>b, <1>d
    <3> HIDE DEF k
    <3> QED
      BY <3>1, <3>2
  <2>2. dsThread = "copy" /\ dsRead' = dsRead
    BY <1>2 DEF DsCopies
  <2>3. DsGood' => DsGood
    BY <1>a, <2>2 DEF DsGood
  <2>4. /\ dsBuffer' \in Nat /\ dsPiece' \in Nat /\ dsBuffer' <= DsChunk
        /\ dsBuffer' + dsPiece' = dsBuffer + dsPiece
        /\ dsThread' = "read" => dsPiece' = 0
        /\ dsThread' = "send" => dsBuffer' = DsChunk
        /\ dsThread' \in {"send", "read"}
    <3>1. dsBuffer \in Nat /\ dsPiece \in Nat /\ dsBuffer <= DsChunk
      BY <1>b
    <3>2. dsBuffer' \in Nat /\ dsPiece' \in Nat /\ dsBuffer' <= DsChunk /\ dsBuffer' + dsPiece' = dsBuffer + dsPiece
      BY <3>1, <1>d, <2>1
    <3>3. CASE n = dsPiece
      BY <3>1, <3>2, <3>3, <2>1
    <3>4. CASE dsBuffer + n = DsChunk
      BY <3>1, <3>2, <3>4, <2>1
    <3> QED
      BY <3>3, <3>4, <2>1
  <2>5. DsGood => /\ \A i \in 1..Len(dsQueue) : dsQueue[i] = DsChunk
                  /\ dsSeen + DsChunk * Len(dsQueue) + dsBuffer + dsPiece = dsRead
    BY <2>2 DEF DsInv
  <2>6. DsGood' => /\ \A i \in 1..Len(dsQueue) : dsQueue[i] = DsChunk
                   /\ dsSeen + DsChunk * Len(dsQueue) + dsBuffer' + dsPiece' = dsRead
    <3>1. PICK k \in Nat : k = DsChunk * Len(dsQueue)
      BY <1>d
    <3>2. DsGood => dsSeen + k + dsBuffer + dsPiece = dsRead
      BY <2>5, <3>1
    <3>3. dsSeen + k + dsBuffer' + dsPiece' = dsSeen + k + dsBuffer + dsPiece
      <4>1. dsSeen + k \in Nat /\ dsBuffer \in Nat /\ dsPiece \in Nat
        BY <1>b
      <4>2. dsBuffer' \in Nat /\ dsPiece' \in Nat
        BY <2>4
      <4>3. dsSeen + k + dsBuffer + dsPiece = dsSeen + k + (dsBuffer + dsPiece)
        BY <4>1, DsGroups
      <4>4. dsSeen + k + dsBuffer' + dsPiece' = dsSeen + k + (dsBuffer' + dsPiece')
        BY <4>1, <4>2, DsGroups
      <4>5. dsSeen + k + (dsBuffer' + dsPiece') = dsSeen + k + (dsBuffer + dsPiece)
        BY <2>4
      <4> QED
        BY <4>3, <4>4, <4>5
    <3>4. DsGood => dsSeen + k + dsBuffer' + dsPiece' = dsRead
      BY <3>2, <3>3, Zenon
    <3> QED
      BY <3>1, <3>4, <2>3, <2>5
  <2> QED
    BY <1>a, <1>b, <1>c, <2>2, <2>4, <2>6 DEF DsInv
<1>3. CASE DsEnds
  <2>1. dsThread = "read" /\ dsThread' = "drop" /\ dsRead = dsSize /\ UNCHANGED <<dsRead, dsPiece, dsBuffer>>
    BY <1>3 DEF DsEnds
  <2>2. DsGood' => DsGood
    BY <1>a, <2>1 DEF DsGood
  <2> QED
    BY <1>a, <1>b, <1>c, <1>d, <2>1, <2>2 DEF DsInv
<1>4. CASE DsReadFails
  <2>1. dsThread' = "error" /\ UNCHANGED <<dsRead, dsPiece, dsBuffer>>
    BY <1>4 DEF DsReadFails
  <2>2. ~DsGood'
    BY <2>1 DEF DsGood
  <2> QED
    BY <1>a, <1>b, <1>c, <2>1, <2>2 DEF DsInv
<1> QED
  BY <1>1, <1>2, <1>3, <1>4

\* A chunk more in the channel.
LEMMA DsPuts ==
    ASSUME NEW q \in Seq(Nat), NEW x \in Nat
    PROVE  /\ Append(q, x) \in Seq(Nat) /\ Len(Append(q, x)) = Len(q) + 1 /\ Append(q, x) # << >>
           /\ Append(q, x)[Len(q) + 1] = x /\ \A i \in 1..Len(q) : Append(q, x)[i] = q[i]
<1>1. /\ Append(q, x) \in Seq(Nat) /\ Len(Append(q, x)) = Len(q) + 1 /\ Append(q, x) # << >>
      /\ \A i \in 1..Len(q) : Append(q, x)[i] = q[i]
  BY AppendProperties
<1>2. Append(q, x)[Len(q) + 1] = x
  BY AppendProperties
<1> QED BY <1>1, <1>2

\* The buffer is sent, or an error, or the receiver is gone.
LEMMA DsGives == ASSUME DsInv, DsSends \/ DsReports \/ DsDrops PROVE DsInv'
<1>a. UNCHANGED <<dsSize, dsRead, dsSeen, dsClient>> /\ dsThread # "over"
  BY DEF DsSends, DsReports, DsDrops
<1>b. /\ {dsSize, dsRead, dsPiece, dsBuffer, dsSeen} \subseteq Nat /\ dsQueue \in Seq(Nat)
      /\ dsRead <= dsSize /\ dsBuffer <= DsChunk /\ StreamIsWhole
  BY DEF DsInv
<1>c. StreamIsWhole'
  BY <1>a, <1>b DEF StreamIsWhole
<1>d. DsChunk \in Nat \ {0} /\ \A n \in Nat : DsChunk * n \in Nat /\ DsChunk * (n + 1) = DsChunk * n + DsChunk
  BY DsTimes, DsAssumption
<1>e. Len(dsQueue) \in Nat /\ (Len(dsQueue) = 0 <=> dsQueue = << >>)
  BY <1>b
<1>1. CASE DsSends
  <2>1. dsThread = "send" /\ dsBuffer = DsChunk /\ dsBuffer' = 0 /\ dsPiece' = dsPiece
    BY <1>1 DEF DsSends, DsInv
  <2>2. CASE dsClient = "here"
    <3>1. dsQueue' = Append(dsQueue, dsBuffer) /\ dsThread' = IF dsPiece > 0 THEN "copy" ELSE "read"
      BY <1>1, <2>2 DEF DsSends
    <3>2. /\ dsQueue' \in Seq(Nat) /\ Len(dsQueue') = Len(dsQueue) + 1 /\ dsQueue'[Len(dsQueue) + 1] = DsChunk
          /\ \A i \in 1..Len(dsQueue) : dsQueue'[i] = dsQueue[i]
      BY <3>1, <2>1, <1>b, DsPuts
    <3>3. DsGood' => DsGood
      BY <3>2, <2>1, <2>2, <1>e DEF DsGood
    <3>4. \A i \in 1..Len(dsQueue') : i \in 1..Len(dsQueue) \/ i = Len(dsQueue) + 1
      BY <3>2, <1>e
    <3>5. DsGood' => \A i \in 1..Len(dsQueue') : dsQueue'[i] = DsChunk
      <4>1. DsGood => \A i \in 1..Len(dsQueue) : dsQueue[i] = DsChunk
        BY <2>1 DEF DsInv
      <4> QED
        BY <3>2, <3>3, <3>4, <4>1
    <3>6. DsGood' => dsSeen' + DsChunk * Len(dsQueue') + dsBuffer' + dsPiece' = dsRead'
      <4> SUFFICES ASSUME DsGood PROVE dsSeen' + DsChunk * Len(dsQueue') + dsBuffer' + dsPiece' = dsRead'
        BY <3>3
      <4>1. dsSeen + DsChunk * Len(dsQueue) + dsBuffer + dsPiece = dsRead
        BY <2>1 DEF DsInv
      <4>2. DsChunk * Len(dsQueue') = DsChunk * Len(dsQueue) + DsChunk
        BY <3>2, <1>d, <1>e
      <4>3. DsChunk * Len(dsQueue) \in Nat
        BY <1>d, <1>e
      <4> QED
        BY <4>1, <4>2, <4>3, <2>1, <1>a, <1>b, <1>d
    <3>7. dsThread' \in {"copy", "read"} /\ (dsThread' = "read" => dsPiece' = 0)
      BY <3>1, <2>1, <1>b
    <3> QED
      BY <3>2, <3>5, <3>6, <3>7, <2>1, <1>a, <1>b, <1>c, <1>d DEF DsInv
  <2>3. CASE dsClient # "here"
    <3>1. dsQueue' = dsQueue /\ dsThread' = "error" /\ ~DsGood'
      BY <1>1, <2>3 DEF DsSends, DsGood
    <3> QED
      BY <3>1, <2>1, <1>a, <1>b, <1>c, <1>d DEF DsInv
  <2> QED
    BY <2>2, <2>3
<1>2. CASE DsReports
  <2>1. dsThread' = "drop" /\ dsPiece' = 0 /\ dsBuffer' = dsBuffer
    BY <1>2 DEF DsReports
  <2>2. dsQueue' \in Seq(Nat) /\ ~DsGood'
    <3>1. CASE dsClient = "here"
      <4>1. dsQueue' = Append(dsQueue, 0)
        BY <1>2, <3>1 DEF DsReports
      <4>2. dsQueue' \in Seq(Nat) /\ Len(dsQueue') = Len(dsQueue) + 1 /\ dsQueue'[Len(dsQueue) + 1] = 0
        BY <4>1, <1>b, DsPuts
      <4>3. Len(dsQueue) + 1 \in 1..Len(dsQueue')
        BY <4>2, <1>e
      <4> QED
        BY <4>2, <4>3 DEF DsGood
    <3>2. CASE dsClient # "here"
      BY <1>2, <3>2, <1>a, <1>b DEF DsReports, DsGood
    <3> QED
      BY <3>1, <3>2
  <2> QED
    BY <2>1, <2>2, <1>a, <1>b, <1>c DEF DsInv
<1>3. CASE DsDrops
  <2>1. dsThread = "drop" /\ dsThread' = "over" /\ dsBuffer' = 0 /\ dsPiece' = dsPiece
    BY <1>3 DEF DsDrops
  <2>2. CASE dsQueue' = Append(dsQueue, dsBuffer) /\ dsBuffer > 0
    <3>1. /\ dsQueue' \in Seq(Nat) /\ Len(dsQueue') = Len(dsQueue) + 1 /\ dsQueue'[Len(dsQueue) + 1] = dsBuffer
          /\ \A i \in 1..Len(dsQueue) : dsQueue'[i] = dsQueue[i]
      BY <2>2, <1>b, DsPuts
    <3>2. DsGood' => DsGood
      BY <3>1, <2>1, <1>a, <1>e DEF DsGood
    <3>3. Len(dsQueue') - 1 = Len(dsQueue) /\ dsQueue' # << >>
      BY <3>1, <1>e
    <3>4. DsGood' => /\ \A i \in 1..(Len(dsQueue') - 1) : dsQueue'[i] = DsChunk
                     /\ dsSeen' + DsChunk * (Len(dsQueue') - 1) + dsQueue'[Len(dsQueue')] = dsSize'
      <4> SUFFICES ASSUME DsGood PROVE /\ \A i \in 1..(Len(dsQueue') - 1) : dsQueue'[i] = DsChunk
                                       /\ dsSeen' + DsChunk * (Len(dsQueue') - 1) + dsQueue'[Len(dsQueue')] = dsSize'
        BY <3>2
      <4>1. /\ \A i \in 1..Len(dsQueue) : dsQueue[i] = DsChunk
            /\ dsSeen + DsChunk * Len(dsQueue) + dsBuffer + dsPiece = dsRead /\ dsRead = dsSize /\ dsPiece = 0
        BY <2>1 DEF DsInv
      <4>2. DsChunk * Len(dsQueue) \in Nat
        BY <1>d, <1>e
      <4>3. dsSeen + DsChunk * Len(dsQueue) + dsBuffer = dsSize
        BY <4>1, <4>2, <1>b
      <4> QED
        BY <4>1, <4>3, <3>1, <3>3, <1>a
    <3> QED
      BY <3>1, <3>3, <3>4, <2>1, <1>a, <1>b, <1>c, <1>d DEF DsInv
  <2>3. CASE dsQueue' = dsQueue /\ (dsBuffer = 0 \/ dsClient # "here")
    <3>1. DsGood' => DsGood /\ dsBuffer = 0
      BY <2>1, <2>3, <1>a DEF DsGood
    <3>2. DsGood' => IF dsQueue = << >> THEN dsSeen = dsSize
                     ELSE /\ \A i \in 1..(Len(dsQueue) - 1) : dsQueue[i] = DsChunk
                          /\ dsSeen + DsChunk * (Len(dsQueue) - 1) + dsQueue[Len(dsQueue)] = dsSize
      <4> SUFFICES ASSUME DsGood, dsBuffer = 0
                   PROVE  IF dsQueue = << >> THEN dsSeen = dsSize
                          ELSE /\ \A i \in 1..(Len(dsQueue) - 1) : dsQueue[i] = DsChunk
                               /\ dsSeen + DsChunk * (Len(dsQueue) - 1) + dsQueue[Len(dsQueue)] = dsSize
        BY <3>1
      <4>1. /\ \A i \in 1..Len(dsQueue) : dsQueue[i] = DsChunk
            /\ dsSeen + DsChunk * Len(dsQueue) + dsBuffer + dsPiece = dsRead /\ dsRead = dsSize /\ dsPiece = 0
        BY <2>1 DEF DsInv
      <4>2. DsChunk * Len(dsQueue) \in Nat
        BY <1>d, <1>e
      <4>3. dsSeen + DsChunk * Len(dsQueue) = dsSize
        BY <4>1, <4>2, <1>b
      <4>4. CASE dsQueue = << >>
        BY <4>3, <4>4, <1>b, <1>e, DsTimes
      <4>5. CASE dsQueue # << >>
        <5>1. PICK n \in Nat : n = Len(dsQueue) - 1 /\ n + 1 = Len(dsQueue)
          BY <4>5, <1>e
        <5>2. DsChunk * Len(dsQueue) = DsChunk * n + DsChunk /\ DsChunk * n \in Nat
          BY <5>1, <1>d
        <5>3. dsQueue[Len(dsQueue)] = DsChunk /\ \A i \in 1..n : dsQueue[i] = DsChunk
          BY <5>1, <4>1
        <5>4. dsSeen + DsChunk * n + DsChunk = dsSize
          BY <5>2, <4>3, <1>b, <1>d
        <5> QED
          BY <4>5, <5>1, <5>3, <5>4
      <4> QED
        BY <4>4, <4>5
    <3> QED
      BY <3>1, <3>2, <2>1, <2>3, <1>a, <1>b, <1>c, <1>d DEF DsInv
  <2> QED
    BY <1>3, <2>2, <2>3 DEF DsDrops
<1> QED
  BY <1>1, <1>2, <1>3

\* The browser takes a chunk, an error or the end, or leaves.
LEMMA DsTakes == ASSUME DsInv, ClientReads \/ ClientGoes PROVE DsInv'
<1>a. UNCHANGED <<dsSize, dsRead, dsPiece, dsBuffer, dsThread>> /\ dsClient = "here"
  BY DEF ClientReads, ClientGoes
<1>b. /\ {dsSize, dsRead, dsPiece, dsBuffer, dsSeen} \subseteq Nat /\ dsQueue \in Seq(Nat)
      /\ dsRead <= dsSize /\ dsBuffer <= DsChunk /\ StreamIsWhole
  BY DEF DsInv
<1>d. DsChunk \in Nat \ {0} /\ \A n \in Nat : DsChunk * n \in Nat /\ DsChunk * (n + 1) = DsChunk * n + DsChunk
  BY DsTimes, DsAssumption
<1>1. CASE ClientReads /\ dsQueue # << >>
  <2>1. /\ dsSeen' = dsSeen + Head(dsQueue) /\ dsQueue' = Tail(dsQueue)
        /\ dsClient' = IF Head(dsQueue) = 0 THEN "cut" ELSE "here"
    BY <1>1 DEF ClientReads
  <2>2. PICK n \in Nat : n + 1 = Len(dsQueue)
    BY <1>1, <1>b
  <2>3. /\ dsQueue' \in Seq(Nat) /\ Len(dsQueue') = n /\ \A i \in 1..n : dsQueue'[i] = dsQueue[i + 1]
        /\ Head(dsQueue) = dsQueue[1] /\ dsQueue[1] \in Nat /\ (dsQueue' = << >> <=> n = 0)
    <3>1. dsQueue' \in Seq(Nat) /\ Len(dsQueue') = n
      BY <1>1, <2>1, <2>2, <1>b
    <3>2. \A i \in 1..n : dsQueue'[i] = dsQueue[i + 1]
      BY <1>1, <2>1, <2>2, <1>b
    <3>3. Head(dsQueue) = dsQueue[1] /\ dsQueue[1] \in Nat
      BY <1>1, <2>2, <1>b
    <3> QED
      BY <3>1, <3>2, <3>3
  <2>4. \A i \in 1..(n + 1) : i = 1 \/ (i - 1 \in 1..n /\ (i - 1) + 1 = i)
    OBVIOUS
  <2>5. DsGood' => DsGood /\ dsQueue[1] # 0
    <3> SUFFICES ASSUME DsGood' PROVE DsGood /\ dsQueue[1] # 0
      OBVIOUS
    <3>1. dsQueue[1] # 0 /\ \A i \in 1..n : dsQueue[i + 1] # 0
      BY <2>1, <2>3 DEF DsGood
    <3>2. \A i \in 1..(n + 1) : dsQueue[i] # 0
      BY <3>1, <2>4
    <3> QED
      BY <3>1, <3>2, <2>2, <1>a DEF DsGood
  <2>6. DsGood' /\ dsThread # "over" =>
          /\ \A i \in 1..Len(dsQueue') : dsQueue'[i] = DsChunk
          /\ dsSeen' + DsChunk * Len(dsQueue') + dsBuffer + dsPiece = dsRead
          /\ dsThread = "drop" => dsRead = dsSize /\ dsPiece = 0
    <3> SUFFICES ASSUME DsGood, dsThread # "over"
                 PROVE  /\ \A i \in 1..n : dsQueue'[i] = DsChunk
                        /\ dsSeen' + DsChunk * n + dsBuffer + dsPiece = dsRead
                        /\ dsThread = "drop" => dsRead = dsSize /\ dsPiece = 0
      BY <2>5, <2>3
    <3>1. /\ \A i \in 1..(n + 1) : dsQueue[i] = DsChunk
          /\ dsSeen + DsChunk * (n + 1) + dsBuffer + dsPiece = dsRead
          /\ dsThread = "drop" => dsRead = dsSize /\ dsPiece = 0
      BY <2>2 DEF DsInv
    <3>2. DsChunk * (n + 1) = DsChunk * n + DsChunk /\ DsChunk * n \in Nat
      BY <1>d
    <3>3. dsSeen' = dsSeen + DsChunk
      BY <2>1, <2>3, <3>1
    <3>4. dsSeen' + DsChunk * n + dsBuffer + dsPiece = dsRead
      BY <3>1, <3>2, <3>3, <1>b, <1>d
    <3>5. \A i \in 1..n : i + 1 \in 1..(n + 1)
      OBVIOUS
    <3> QED
      BY <3>1, <3>4, <3>5, <2>3
  <2>7. DsGood' /\ dsThread = "over" =>
          IF dsQueue' = << >> THEN dsSeen' = dsSize
          ELSE /\ \A i \in 1..(Len(dsQueue') - 1) : dsQueue'[i] = DsChunk
               /\ dsSeen' + DsChunk * (Len(dsQueue') - 1) + dsQueue'[Len(dsQueue')] = dsSize
    <3> SUFFICES ASSUME DsGood, dsThread = "over"
                 PROVE  IF n = 0 THEN dsSeen' = dsSize
                        ELSE /\ \A i \in 1..(n - 1) : dsQueue'[i] = DsChunk
                             /\ dsSeen' + DsChunk * (n - 1) + dsQueue'[n] = dsSize
      BY <2>5, <2>3
    <3>1. /\ \A i \in 1..((n + 1) - 1) : dsQueue[i] = DsChunk
          /\ dsSeen + DsChunk * ((n + 1) - 1) + dsQueue[n + 1] = dsSize
      BY <1>1, <2>2 DEF DsInv
    <3>2. (n + 1) - 1 = n
      OBVIOUS
    <3>3. (\A i \in 1..n : dsQueue[i] = DsChunk) /\ dsSeen + DsChunk * n + dsQueue[n + 1] = dsSize
      BY <3>1, <3>2
    <3>4. CASE n = 0
      BY <3>3, <3>4, <2>1, <2>3, <1>b, DsTimes
    <3>5. CASE n # 0
      <4>1. PICK m \in Nat : m = n - 1 /\ m + 1 = n
        BY <3>5
      <4>2. DsChunk * n = DsChunk * m + DsChunk /\ DsChunk * m \in Nat
        BY <4>1, <1>d
      <4>3. dsSeen' = dsSeen + DsChunk
        BY <2>1, <2>3, <3>3, <3>5
      <4>4. dsQueue'[n] = dsQueue[n + 1] /\ dsQueue[n + 1] \in Nat
        BY <2>2, <2>3, <3>5, <1>b
      <4>5. dsSeen' + DsChunk * m + dsQueue'[n] = dsSize
        <5>1. PICK k \in Nat, x \in Nat : k = DsChunk * m /\ x = dsQueue[n + 1]
          BY <4>2, <4>4
        <5>2. dsSeen + (k + DsChunk) + x = dsSize
          BY <5>1, <4>2, <3>3
        <5>3. dsSeen' + k + x = dsSize
          BY <5>2, <4>3, <1>b, <1>d
        <5> QED
          BY <5>1, <5>3, <4>4
      <4>6. \A i \in 1..m : i \in 1..n /\ i + 1 \in 1..n
        BY <4>1
      <4>7. \A i \in 1..m : dsQueue'[i] = DsChunk
        BY <4>6, <3>3, <2>3
      <4> QED
        BY <4>1, <4>5, <4>7, <3>5
    <3> QED
      BY <3>4, <3>5
  <2>8. dsSeen' \in Nat /\ StreamIsWhole'
    <3>1. dsClient' # "served"
      BY <2>1
    <3>2. dsSeen' \in Nat
      BY <2>1, <2>3, <1>b
    <3> QED
      BY <3>1, <3>2 DEF StreamIsWhole
  <2> QED
    BY <2>3, <2>6, <2>7, <2>8, <1>a, <1>b DEF DsInv
<1>2. CASE ClientReads /\ dsQueue = << >>
  <2>1. dsThread = "over" /\ dsClient' = "served" /\ UNCHANGED <<dsSeen, dsQueue>>
    BY <1>2 DEF ClientReads
  <2>2. DsGood
    BY <1>2, <2>1, <1>a DEF DsGood
  <2>3. StreamIsWhole' /\ ~DsGood'
    BY <1>2, <2>1, <2>2, <1>a DEF DsInv, StreamIsWhole, DsGood
  <2> QED
    BY <2>1, <2>3, <1>a, <1>b DEF DsInv
<1>3. CASE ClientGoes
  <2>1. dsClient' = "gone" /\ dsQueue' = << >> /\ dsSeen' = dsSeen
    BY <1>3 DEF ClientGoes
  <2>2. dsQueue' \in Seq(Nat) /\ ~DsGood' /\ StreamIsWhole'
    BY <2>1 DEF DsGood, StreamIsWhole
  <2> QED
    BY <2>1, <2>2, <1>a, <1>b DEF DsInv
<1> QED
  BY <1>1, <1>2, <1>3

\* Every step keeps the invariant, which has what is promised in it.
LEMMA DsStepsKeep == DsInv /\ [DsNext]_dsVars => DsInv'
<1> SUFFICES ASSUME DsInv, [DsNext]_dsVars PROVE DsInv'
  OBVIOUS
<1>1. CASE UNCHANGED dsVars
  BY <1>1 DEF dsVars, DsInv, DsGood, StreamIsWhole
<1> QED
  BY <1>1, DsFills, DsGives, DsTakes DEF DsNext, DsSteps

\* What a reader and its browser share follows.
LEMMA DsPromised == DsInv => StreamIsWhole
BY DEF DsInv

-----------------------------------------------------------------------------
\* The whole

\* The callers and the thread alone step, so their invariant holds of the whole.
LEMMA ChHolds == MCSpec => []ChInv
<1>1. MCInit => ChInit
  BY DEF MCInit
<1>2. [MCNext]_vars => [ChNext]_chVars
  BY DEF MCNext, Alone, vars
<1> QED
  BY <1>1, <1>2, ChStarts, ChSteps, PTL DEF MCSpec

\* The update, the worker and the reader alone step, so their invariant holds of the whole.
LEMMA CdHolds == MCSpec => []CdInv
<1>1. MCInit => CdInit
  BY DEF MCInit
<1>2. [MCNext]_vars => [CdNext]_cdVars
  BY DEF MCNext, Alone, vars
<1> QED
  BY <1>1, <1>2, CdStarts, CdSteps, PTL DEF MCSpec

\* The operations, the monitor and the recoveries alone step, so their invariant holds of the whole.
LEMMA AuHolds == MCSpec => []AuInv
<1>1. MCInit => AuInit
  BY DEF MCInit
<1>2. [MCNext]_vars => [AuNext]_auVars
  BY DEF MCNext, Alone, vars
<1> QED
  BY <1>1, <1>2, AuStarts, AuSteps, PTL DEF MCSpec

\* The stream, its watcher and the source alone step, so their invariant holds of the whole.
LEMMA CvHolds == MCSpec => []CvInv
<1>1. MCInit => CvInit
  BY DEF MCInit
<1>2. [MCNext]_vars => [CvNext]_cvVars
  BY DEF MCNext, Alone, vars
<1> QED
  BY <1>1, <1>2, CvStarts, CvSteps, PTL DEF MCSpec

\* The listing, its probes and its users alone step, so their invariant holds of the whole.
LEMMA DpHolds == MCSpec => []DpInv
<1>1. MCInit => DpInit
  BY DEF MCInit
<1>2. [MCNext]_vars => [DpNext]_dpVars
  BY DEF MCNext, Alone, vars
<1> QED
  BY <1>1, <1>2, DpStarts, DpSteps, PTL DEF MCSpec

\* The pipelines alone step, so their invariant holds of the whole.
LEMMA VeHolds == MCSpec => []VeInv
<1>1. MCInit => VeInit
  BY DEF MCInit
<1>2. [MCNext]_vars => [VeNext]_veVars
  BY DEF MCNext, Alone, vars
<1> QED
  BY <1>1, <1>2, VeStarts, VeSteps, PTL DEF MCSpec

\* The manager and the processes alone step, so their invariant holds of the whole.
LEMMA ExHolds == MCSpec => []ExInv
<1>1. MCInit => ExInit
  BY DEF MCInit
<1>2. [MCNext]_vars => [ExNext]_exVars
  BY DEF MCNext, Alone, vars
<1> QED
  BY <1>1, <1>2, ExStarts, ExSteps, PTL DEF MCSpec

\* The reader and the browser alone step, so their invariant holds of the whole.
LEMMA DsHolds == MCSpec => []DsInv
<1>1. MCInit => DsInit
  BY DEF MCInit
<1>2. [MCNext]_vars => [DsNext]_dsVars
  BY DEF MCNext, Alone, vars
<1> QED
  BY <1>1, <1>2, DsStarts, DsStepsKeep, PTL DEF MCSpec

\* A stopped serial backend is offline and holds no key (hid/ch9329.rs); an update
\* that was reported done is on the chip as it is stored, one that failed left
\* nothing half done, and what is shown is what is stored
\* (web/handlers/config/usb_update.rs).
THEOREM SerialKeepsItsWord == MCSpec => []SerialSafe
<1>1. ChInv /\ CdInv => SerialSafe
  BY ChPromised, CdPromised DEF SerialSafe
<1> QED
  BY <1>1, ChHolds, CdHolds, PTL

\* A capture is within the controller's reach but for one whose opening its client
\* gave up, and no two have the device; none runs after a stop, and no failure is
\* shown while audio streams, whatever operations, losses, recoveries and clients
\* that leave meet (audio/controller.rs, audio/recovery.rs).
THEOREM AudioKeepsItsWord == MCSpec => []AudioSafe
<1>1. AuInv => AudioSafe
  BY AuPromised DEF AudioSafe
<1> QED
  BY <1>1, AuHolds, PTL

\* A stream opens on a signal only and hands out frames of the mode it announced
\* (video/capture); a lost device is found again and a receiver is asked for what
\* is on its wire (video/device/linux.rs); the encoder that is chosen exists, gets
\* what it was opened for and begins with a key, and the chip has one user
\* (video/codec, video/pipeline).
THEOREM VideoInputKeepsItsWord == MCSpec => []VideoInputSafe
<1>1. CvInv /\ DpInv /\ VeInv => VideoInputSafe
  BY CvPromised, DpPromised, VePromised DEF VideoInputSafe
<1> QED
  BY <1>1, CvHolds, DpHolds, VeHolds, PTL

\* Every process and socket file of an extension is one the manager knows of
\* (extensions/manager.rs), and a browser that was served a file has all of it
\* (msd/ventoy_drive.rs).
THEOREM TasksKeepTheirWord == MCSpec => []TasksSafe
<1>1. ExInv /\ DsInv => TasksSafe
  BY ExPromised, DsPromised DEF TasksSafe
<1> QED
  BY <1>1, ExHolds, DsHolds, PTL
====
