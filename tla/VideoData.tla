----------------------------- MODULE VideoData -----------------------------
(***************************************************************************)
(* Video data on its way: the search for the HDMI bridge that feeds a      *)
(* capture node (src/video/device/bridge.rs), the scanners of              *)
(* src/video/codec/h264_bitstream.rs that decide what a browser, an RTSP   *)
(* or a RustDesk client is sent of an encoded frame, and the packets of    *)
(* H.265 (src/webrtc/h265_payloader.rs and video_track.rs).                *)
(***************************************************************************)
EXTENDS Naturals, Sequences, SequencesExt, FiniteSets

-----------------------------------------------------------------------------
(* The bridge: a breadth-first walk of the media graph against the         *)
(* direction of the data, from the capture node to the first entity with a *)
(* device node and a bridge's name.  Boards have several bridges in one    *)
(* graph, connected and not.                                               *)
-----------------------------------------------------------------------------

CONSTANTS
    BgEntities,  \* media entities, numbers (their ids)
    BgBridges,   \* the ones named like a bridge, with a device node
    BgVideo      \* the capture node

ASSUME BgAssumption ==
    /\ BgEntities \subseteq Nat \ {0} /\ IsFiniteSet(BgEntities)
    /\ BgBridges \subseteq BgEntities /\ BgVideo \in BgEntities \ BgBridges

VARIABLES
    bgLinks,    \* enabled data links <<source, sink>> of the graph
    bgQueue,    \* entities still to be looked at
    bgVisited,
    bgFound     \* the entity found, 0 while there is none

bgVars == <<bgLinks, bgQueue, bgVisited, bgFound>>

\* read_media_graph: links that are disabled or carry no data are left out.
BgInit ==
    /\ bgLinks \in SUBSET {l \in BgEntities \X BgEntities : l[1] # l[2]}
    /\ bgQueue = <<BgVideo>> /\ bgVisited = {BgVideo} /\ bgFound = 0

\* Mutant of Upstream: of several sources of an entity only one is kept.
Upstream_One(e) ==
    {f \in BgEntities : <<f, e>> \in bgLinks /\ \A g \in BgEntities : <<g, e>> \in bgLinks => f <= g}

\* The neighbours against the flow of data.
Upstream(e) == {f \in BgEntities : <<f, e>> \in bgLinks}

\* Entities in the order of their ids.
InOrder(E) == {q \in [1..Cardinality(E) -> E] : \A i, j \in DOMAIN q : i < j => q[i] < q[j]}

\* connected_bridge_entity: the neighbours are looked at after all that were
\* found before.
Visit ==
    LET e == Head(bgQueue)
        new == Upstream(e) \ bgVisited
    IN /\ bgQueue # <<>> /\ bgFound = 0
       /\ IF e # BgVideo /\ e \in BgBridges
          THEN bgFound' = e /\ UNCHANGED <<bgQueue, bgVisited>>
          ELSE /\ \E q \in InOrder(new) : bgQueue' = Tail(bgQueue) \o q
               /\ bgVisited' = bgVisited \cup new
               /\ UNCHANGED bgFound
       /\ UNCHANGED bgLinks

BgNext == Visit

BgSpec == BgInit /\ [][BgNext]_bgVars

\* Reference: the entities that feed the capture node over at most n links.
FeedsOver(links, n) ==
    LET step[i \in 0..n] ==
          IF i = 0 THEN {BgVideo}
          ELSE step[i - 1] \cup {f \in BgEntities : \E e \in step[i - 1] : <<f, e>> \in links}
    IN step[n]
Feeds(n) == FeedsOver(bgLinks, n)

\* The bridge that is found feeds the capture node: one that is downstream of an
\* entity on the way, or in the graph and not connected, is never taken.
BridgeFeedsNode == bgFound # 0 => bgFound \in Feeds(Cardinality(BgEntities))

\* It is a nearest one: no other bridge is fewer links away.
BridgeIsNearest ==
    bgFound # 0 =>
       \A n \in 0..Cardinality(BgEntities) : Feeds(n) \cap BgBridges # {} => bgFound \in Feeds(n)

\* A search that gives up has not missed one.
NoBridgeMissed ==
    bgQueue = << >> /\ bgFound = 0 => Feeds(Cardinality(BgEntities)) \cap BgBridges = {}

-----------------------------------------------------------------------------
(* The scanners of H.264, each a loop over bytes of its own, checked       *)
(* against the NAL units the frame was made of.  A byte is a number; the   *)
(* type of a unit is its first byte.                                       *)
-----------------------------------------------------------------------------

CONSTANTS
    BsNals,   \* NAL units: byte sequences with emulation prevention
    BsMaxNals \* bound: units of a frame

ASSUME BsAssumption ==
    /\ BsMaxNals \in Nat /\ BsNals \subseteq Seq(Nat)
    /\ \A n \in BsNals : n # <<>> /\ n[1] # 0 /\ n[Len(n)] # 0
    /\ \A n \in BsNals : \A i \in 1..(Len(n) - 2) : ~(n[i] = 0 /\ n[i + 1] = 0 /\ n[i + 2] < 3)

VARIABLES
    bsUnits, \* the frame: units, with the length of the start code before each
    bsMode,  \* the function at work
    bsData,  \* its input
    bsPos,   \* i, counted from 1
    bsOut    \* what it has found: [bytes, sps, pps, key]

bsVars == <<bsUnits, bsMode, bsData, bsPos, bsOut>>

Nothing == [bytes |-> <<>>, sps |-> <<>>, pps |-> <<>>, key |-> FALSE]
Code(n) == IF n = 4 THEN <<0, 0, 0, 1>> ELSE <<0, 0, 1>>
Whole(u) == Code(u.sc) \o u.nal
Sized(u) == <<0, 0, 0, Len(u.nal)>> \o u.nal
AnnexB(us) == FlattenSeq([i \in DOMAIN us |-> Whole(us[i])])
Avcc(us) == FlattenSeq([i \in DOMAIN us |-> Sized(us[i])])

\* Reference: the frame without access unit delimiters and filler, the units
\* of a type, and the last of them.
Spare(u) == u.nal[1] \in {9, 12}
Rest(us) == FlattenSeq([i \in DOMAIN us |-> IF Spare(us[i]) THEN <<>> ELSE Whole(us[i])])
Fit(us, type) == {i \in DOMAIN us : us[i].nal[1] = type}
LastOf(us, type) ==
    IF Fit(us, type) = {} THEN <<>>
    ELSE us[CHOOSE i \in Fit(us, type) : \A j \in Fit(us, type) : j <= i].nal

\* An AVCC frame whose first unit is one byte long would pass for Annex B.
BsInit ==
    /\ bsUnits \in UNION {[1..n -> [sc : {3, 4}, nal : BsNals]] : n \in 1..BsMaxNals}
    /\ bsMode \in {"strip", "extract", "has", "key", "avcc"}
    /\ bsMode = "avcc" => Len(bsUnits[1].nal) > 1 /\ \A i \in DOMAIN bsUnits : bsUnits[i].sc = 4
    /\ bsData = IF bsMode = "avcc" THEN Avcc(bsUnits) ELSE AnnexB(bsUnits)
    /\ bsPos = 1 /\ bsOut = Nothing

Bytes(a, b) == SubSeq(bsData, a, b)

\* Mutant of StartCode: only the long form.
StartCode_Long(i) == IF i + 3 <= Len(bsData) /\ Bytes(i, i + 3) = Code(4) THEN 4 ELSE 0

\* Length of the start code at i, 0 for none.
StartCode(i) ==
    CASE i + 3 <= Len(bsData) /\ Bytes(i, i + 3) = Code(4) -> 4
      [] i + 2 <= Len(bsData) /\ Bytes(i, i + 2) = Code(3) -> 3
      [] OTHER -> 0

\* The first start code after the unit at s begins, else the end of the data.
NalEnd(s) ==
    LET ends == {j \in (s + 1)..(Len(bsData) - 2) : StartCode(j) > 0}
    IN IF ends = {} THEN Len(bsData) + 1 ELSE CHOOSE j \in ends : \A k \in ends : j <= k

BsStep(pos, out) == bsPos' = pos /\ bsOut' = out /\ UNCHANGED <<bsUnits, bsMode, bsData>>
BsEnd == Len(bsData) + 1

\* strip_aud_nal_units; what would be empty is left as it is.
StripStep ==
    LET sc == StartCode(bsPos)  s == bsPos + sc IN
    /\ bsMode = "strip" /\ bsPos <= Len(bsData)
    /\ CASE sc = 0 -> BsStep(bsPos + 1, bsOut)
         [] sc > 0 /\ s > Len(bsData) -> BsStep(BsEnd, bsOut)
         [] OTHER -> BsStep(NalEnd(s), [bsOut EXCEPT !.bytes = IF bsData[s] \in {9, 12} THEN @
                                                                ELSE @ \o Bytes(bsPos, NalEnd(s) - 1)])

\* extract_sps_pps
ExtractStep ==
    LET sc == StartCode(bsPos)  s == bsPos + sc  nal == Bytes(s, NalEnd(s) - 1) IN
    /\ bsMode = "extract" /\ bsPos <= Len(bsData)
    /\ CASE sc = 0 -> BsStep(bsPos + 1, bsOut)
         [] sc > 0 /\ s > Len(bsData) -> BsStep(BsEnd, bsOut)
         [] OTHER -> BsStep(NalEnd(s), [bsOut EXCEPT !.sps = IF bsData[s] = 7 THEN nal ELSE @,
                                                     !.pps = IF bsData[s] = 8 THEN nal ELSE @])

\* has_sps_pps: stops at the second of the two.
HasStep ==
    LET sc == StartCode(bsPos)  s == bsPos + sc
        sps == IF bsData[s] = 7 THEN <<7>> ELSE bsOut.sps
        pps == IF bsData[s] = 8 THEN <<8>> ELSE bsOut.pps
    IN /\ bsMode = "has" /\ bsPos <= Len(bsData)
       /\ CASE sc = 0 -> BsStep(bsPos + 1, bsOut)
            [] sc > 0 /\ s > Len(bsData) -> BsStep(BsEnd, bsOut)
            [] OTHER -> BsStep(IF sps # <<>> /\ pps # <<>> THEN BsEnd ELSE s + 1,
                               [bsOut EXCEPT !.sps = sps, !.pps = pps])

\* is_keyframe: a scanner of its own, that asks for a byte after the code.
KeyStep ==
    LET sc == IF bsPos + 3 <= Len(bsData) THEN StartCode(bsPos) ELSE 0
        s == bsPos + sc
    IN /\ bsMode = "key" /\ bsPos <= Len(bsData)
       /\ IF sc = 0 \/ s > Len(bsData) THEN BsStep(bsPos + 1, bsOut)
          ELSE IF bsData[s] = 5 THEN BsStep(BsEnd, [bsOut EXCEPT !.key = TRUE]) ELSE BsStep(s, bsOut)

\* avcc_to_annex_b, for data that does not begin like Annex B; a length that
\* does not fit gives up.
AvccStep ==
    LET n == bsData[bsPos + 3]  nal == Bytes(bsPos + 4, bsPos + 3 + n) IN
    /\ bsMode = "avcc" /\ bsPos + 3 <= Len(bsData) /\ n > 0 /\ bsPos + 3 + n <= Len(bsData)
    /\ BsStep(bsPos + 4 + n, [bsOut EXCEPT !.bytes = IF nal[1] \in {9, 12} THEN @ ELSE @ \o Code(4) \o nal])

\* normalize_for_webrtc goes on with what avcc_to_annex_b has made.
AvccEnds ==
    /\ bsMode = "avcc" /\ bsPos + 3 > Len(bsData) /\ bsOut.bytes # <<>>
    /\ bsMode' = "strip" /\ bsData' = bsOut.bytes /\ bsPos' = 1 /\ bsOut' = Nothing /\ UNCHANGED bsUnits

BsNext == StripStep \/ ExtractStep \/ HasStep \/ KeyStep \/ AvccStep \/ AvccEnds

BsSpec == BsInit /\ [][BsNext]_bsVars

-----------------------------------------------------------------------------

\* Each scanner, once it is through, has found what the frame was made of:
\* the units that are not access unit delimiters or filler, the last
\* parameter sets, whether both are there, whether there is an IDR slice.
ScannersAgree ==
    bsPos > Len(bsData) =>
       /\ bsMode = "strip" => bsOut.bytes = Rest(bsUnits)
       /\ bsMode = "extract" => bsOut.sps = LastOf(bsUnits, 7) /\ bsOut.pps = LastOf(bsUnits, 8)
       /\ bsMode = "has" => (bsOut.sps # <<>> /\ bsOut.pps # <<>>)
                             = (Fit(bsUnits, 7) # {} /\ Fit(bsUnits, 8) # {})
       /\ bsMode = "key" => bsOut.key = (Fit(bsUnits, 5) # {})

-----------------------------------------------------------------------------
(***************************************************************************)
(* The RTP payloader for H.265 (src/webrtc/h265_payloader.rs and           *)
(* send_h265_rtp of video_track.rs): parameter sets are held back and sent *)
(* together before the next slice, large units are cut into fragments, and *)
(* sequence numbers wrap.                                                  *)
(*                                                                         *)
(* A unit is its type, its length without the two bytes of its header, and *)
(* a number that tells it from others.                                     *)
(***************************************************************************)

CONSTANTS
    HpMtu,      \* RTP_MTU
    HpLengths,  \* lengths of slices
    HpSetLen,   \* length of a parameter set
    HpSeqWidth, \* sequence numbers are counted modulo this
    MaxHpUnits  \* bound: units encoded

ASSUME HpAssumption ==
    /\ HpMtu \in Nat /\ HpMtu > 3 /\ HpLengths \subseteq Nat \ {0} /\ HpSetLen \in Nat
    /\ HpSeqWidth \in Nat /\ MaxHpUnits \in Nat /\ MaxHpUnits < HpSeqWidth

VARIABLES
    hpSent,   \* units handed to emit, in order
    hpCache,  \* vps_nalu, sps_nalu, pps_nalu: number of the unit, 0 for None
    hpFrame,  \* payloads of the frame at hand
    hpPackets,\* what was written to the track, as the receiver has it
    hpSeq,    \* sequence_number
    hpTime    \* timestamp: one tick per frame

hpVars == <<hpSent, hpCache, hpFrame, hpPackets, hpSeq, hpTime>>

HpSets == <<"vps", "sps", "pps">>
HpTypes == {"vps", "sps", "pps", "aud", "slice"}
Header == 2

HpInit ==
    /\ hpSent = <<>> /\ hpCache = [t \in ToSet(HpSets) |-> 0]
    /\ hpFrame = <<>> /\ hpPackets = <<>> /\ hpSeq \in {0, HpSeqWidth - 1} /\ hpTime = 0

Unit(i) == hpSent[i]
SizeOf(u) == Header + u.len

\* The payload of a packet that is not a fragment: what is in it.
Load(kind, units, size) ==
    [kind |-> kind, units |-> units, s |-> FALSE, e |-> FALSE, from |-> 0, to |-> 0, size |-> size]

\* try_emit_aggregation_packet: all three, in one packet when it fits.
Aggregate ==
    IF \E t \in ToSet(HpSets) : hpCache[t] = 0 THEN <<>>
    ELSE LET size == Header + 3 * (2 + Header + HpSetLen)
         IN IF size > HpMtu
            THEN [i \in 1..3 |-> Load("single", <<hpCache[HpSets[i]]>>, Header + HpSetLen)]
            ELSE <<Load("ap", [i \in 1..3 |-> hpCache[HpSets[i]]], size)>>

\* Mutant of Fragments: the last fragment is not marked when it is full.
Fragments_NoEnd(n, u) ==
    LET room == HpMtu - Header - 1
        count == (u.len + room - 1) \div room
        end(k) == IF k = count THEN u.len ELSE k * room
    IN [k \in 1..count |-> [kind |-> "fu", units |-> <<n>>, s |-> k = 1, e |-> k * room > u.len,
                            from |-> (k - 1) * room + 1, to |-> end(k),
                            size |-> Header + 1 + end(k) - (k - 1) * room]]

\* emit_fragmented: the header of the unit is replaced by one per fragment.
Fragments(n, u) ==
    LET room == HpMtu - Header - 1
        count == (u.len + room - 1) \div room
        end(k) == IF k = count THEN u.len ELSE k * room
    IN [k \in 1..count |-> [kind |-> "fu", units |-> <<n>>, s |-> k = 1, e |-> k * room >= u.len,
                            from |-> (k - 1) * room + 1, to |-> end(k),
                            size |-> Header + 1 + end(k) - (k - 1) * room]]

\* What is sent for a unit that is not a parameter set.
Slices(n, u) ==
    Aggregate \o (IF SizeOf(u) <= HpMtu THEN <<Load("single", <<n>>, SizeOf(u))>>
                  ELSE Fragments(n, u))

Cleared == IF \E t \in ToSet(HpSets) : hpCache[t] = 0 THEN hpCache ELSE [t \in ToSet(HpSets) |-> 0]

\* Numbers are taken under the lock, the packets go out after it.
Number(ps) == [k \in DOMAIN ps |-> [load |-> ps[k], seq |-> (hpSeq + k - 1) % HpSeqWidth,
                                    time |-> hpTime, last |-> k = Len(ps)]]

\* emit, for one unit of a frame
Emit(type, len) ==
    LET n == Len(hpSent) + 1
        u == [type |-> type, len |-> len]
        ps == IF type = "slice" THEN Slices(n, u) ELSE <<>>
    IN /\ n <= MaxHpUnits
       /\ hpSent' = Append(hpSent, u)
       /\ hpCache' = CASE type \in ToSet(HpSets) -> [hpCache EXCEPT ![type] = n]
                       [] type = "aud" -> hpCache
                       [] OTHER -> Cleared
       /\ hpFrame' = hpFrame \o ps /\ UNCHANGED <<hpPackets, hpSeq, hpTime>>

\* send_h265_rtp, at the end of a frame that has given payloads
SendUnit ==
    /\ hpFrame # <<>> /\ hpFrame' = <<>>
    /\ hpPackets' = hpPackets \o Number(hpFrame)
    /\ hpSeq' = (hpSeq + Len(hpFrame)) % HpSeqWidth /\ hpTime' = hpTime + 1
    /\ UNCHANGED <<hpSent, hpCache>>

HpNext ==
    \/ SendUnit
    \/ \E t \in HpTypes : \E l \in IF t \in ToSet(HpSets) \cup {"aud"} THEN {HpSetLen} ELSE HpLengths : Emit(t, l)

HpSpec == HpInit /\ [][HpNext]_hpVars

-----------------------------------------------------------------------------

\* The units that are complete with packet k, for a receiver that puts
\* fragments together by their start and end marks.
Completes(k) ==
    LET load(j) == hpPackets[j].load IN
    IF load(k).kind # "fu" THEN load(k).units
    ELSE IF ~load(k).e THEN <<>>
    ELSE LET n == load(k).units[1]
             mine == {j \in 1..k : load(j).kind = "fu" /\ load(j).units = <<n>>}
         IN IF /\ \E j \in mine : load(j).s /\ load(j).from = 1
               /\ \A j \in mine : load(j).to # Unit(n).len => \E i \in mine : load(i).from = load(j).to + 1
               /\ load(k).to = Unit(n).len
            THEN <<n>> ELSE <<>>

\* The packets that unit n comes back with.
Brings(n) == {k \in DOMAIN hpPackets : n \in ToSet(Completes(k))}

\* The receiver gets back every slice, in order and whole; and no unit twice.
UnitsComeBack ==
    LET slices == {n \in DOMAIN hpSent : Unit(n).type = "slice"} IN
    hpFrame = <<>> =>
       /\ \A n \in slices : Brings(n) # {}
       /\ \A n, m \in slices : n < m => \A k \in Brings(n), l \in Brings(m) : k < l
       /\ \A n \in DOMAIN hpSent : \A k, l \in Brings(n) : k = l
       /\ \A k \in DOMAIN hpPackets : \A i, j \in DOMAIN Completes(k) :
             i # j => Completes(k)[i] # Completes(k)[j]

\* No packet is larger than the network takes, but for a parameter set that
\* alone is.
PacketsFit == \A k \in DOMAIN hpPackets : hpPackets[k].load.size <= HpMtu \/ Header + HpSetLen > HpMtu

\* The receiver can put the packets in order: numbers follow each other
\* across frames and across their wrap, and only the last of a frame is marked.
NumbersFollow ==
    \A k \in 2..Len(hpPackets) :
       LET p == hpPackets[k - 1]  q == hpPackets[k] IN
       q.seq = (p.seq + 1) % HpSeqWidth /\ (p.last <=> q.time # p.time)

=============================================================================
