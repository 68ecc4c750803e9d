-------------------------- MODULE RtpOverTcpProofs --------------------------
(* What TCPForH264 makes of the nodes, for all blocks, limits and slices:  *)
(* it uses the stream as H264MediaStream allows, so that what is proved of *)
(* the nodes holds here; and as long as no block end cuts a parameter set  *)
(* or SEI, packets form the runs that their nodes form, with one type and, *)
(* but for the start of a key frame, one timestamp each.                   *)
EXTENDS RtpOverTcp, TLAPS

rtpvars == <<StreamSps, CurSlice, CurNalType, frame_count, pframe_count,
             sqsnumber, sent, fault>>

LEMMA StreamStep == [Next]_vars => [H264!Next]_(H264!vars)
<1> SUFFICES ASSUME [Next]_vars PROVE [H264!Next]_(H264!vars)
  OBVIOUS
<1>1. CASE ReadBlock
  <2>1. PICK b \in Blocks : H264!DevNode(b)
    BY <1>1, RtpOverTcpAssumption DEF ReadBlock
  <2> QED BY <1>1, <2>1 DEF ReadBlock, H264!Next
<1>2. CASE CutBlock
  BY <1>2 DEF CutBlock, H264!Next
<1>3. CASE SkipNode \/ SliceNode \/ FragmentNode \/ OtherNode
  BY <1>3 DEF SkipNode, SliceNode, FragmentNode, OtherNode, Take, H264!Next
<1>4. CASE UNCHANGED vars
  BY <1>4 DEF vars, nodes, H264!vars, H264!scan, H264!large
<1> QED BY <1>1, <1>2, <1>3, <1>4 DEF Next

(* TCPForH264 takes nodes and reads blocks only as H264MediaStream says:   *)
(* every behaviour is one of that module, whatever the packets are.        *)
THEOREM UsesH264MediaStream == Spec => H264!Spec
<1>1. Init => H264!Init
  BY DEF Init
<1> QED BY <1>1, StreamStep, PTL DEF Spec, H264!Spec

-----------------------------------------------------------------------------
(* What H264MediaStreamProofs proves of the nodes.                         *)
Cuts == INSTANCE H264MediaStreamProofs

LEMMA SameStream ==
  /\ H264!Init => Cuts!Init
  /\ [H264!Next]_(H264!vars) => [Cuts!Next]_(Cuts!vars)
<1>1. H264!Init => Cuts!Init
  BY DEF H264!Init, Cuts!Init, H264!NoNode, Cuts!NoNode
<1>2. \A b : H264!DevNode(b) => Cuts!DevNode(b)
  BY Zenon DEF H264!DevNode, H264!large, H264!MostNodes, Cuts!DevNode,
               Cuts!large, Cuts!MostNodes
<1>3. H264!Cut => Cuts!Cut
  <2>1. /\ H264!Advance => Cuts!Advance
        /\ H264!FirstStartCode => Cuts!FirstStartCode
        /\ H264!RawNode => Cuts!RawNode
        /\ H264!NextStartCode => Cuts!NextStartCode
        /\ H264!Leftover => Cuts!Leftover
    BY Zenon
       DEF H264!Advance, H264!FirstStartCode, H264!RawNode,
           H264!NextStartCode, H264!Leftover, H264!Scanning,
           H264!StartCode, H264!Byte, H264!Type, H264!Call, H264!NextNal,
           H264!Node, H264!scan, H264!large, Cuts!Advance,
           Cuts!FirstStartCode, Cuts!RawNode, Cuts!NextStartCode,
           Cuts!Leftover, Cuts!Scanning, Cuts!StartCode, Cuts!Byte,
           Cuts!Type, Cuts!Call, Cuts!NextNal, Cuts!Node, Cuts!scan,
           Cuts!large
  <2>2. /\ H264!Fragment => Cuts!Fragment
        /\ H264!LastFragment => Cuts!LastFragment
        /\ H264!Single => Cuts!Single
    BY Zenon
       DEF H264!Fragment, H264!LastFragment, H264!Single, H264!Return,
           H264!NextFragment, H264!Node, H264!Byte, H264!scan,
           Cuts!Fragment, Cuts!LastFragment, Cuts!Single, Cuts!Return,
           Cuts!NextFragment, Cuts!Node, Cuts!Byte, Cuts!scan
  <2> QED BY <2>1, <2>2 DEF H264!Cut, Cuts!Cut
<1>4. H264!GetNode => Cuts!GetNode
  BY Zenon DEF H264!GetNode, H264!scan, H264!large, Cuts!GetNode, Cuts!scan,
               Cuts!large
<1>5. UNCHANGED H264!vars => UNCHANGED Cuts!vars
  BY DEF H264!vars, H264!scan, H264!large, Cuts!vars, Cuts!scan,
         Cuts!large
<1> QED BY <1>1, <1>2, <1>3, <1>4, <1>5 DEF H264!Next, Cuts!Next

(* What DevNode and DevLargeNode promise, for this module's nodes.         *)
NodesRight == H264!TypeOK

LEMMA NodesTyped == Spec => []NodesRight
<1>1. Cuts!H264Assumption
  BY RtpOverTcpAssumption DEF H264!H264Assumption, Cuts!H264Assumption
<1>2. Cuts!Spec => [](Cuts!TypeOK /\ Cuts!BlockUsedUp)
  BY <1>1, Cuts!LoopsStayInBlock
<1>3. Cuts!TypeOK => NodesRight
  BY DEF Cuts!TypeOK, Cuts!Nodes, NodesRight, H264!TypeOK, H264!Nodes
<1>4. Init => Cuts!Init
  BY SameStream DEF Init
<1>5. [Next]_vars => [Cuts!Next]_(Cuts!vars)
  BY StreamStep, SameStream
<1> QED BY <1>2, <1>3, <1>4, <1>5, PTL DEF Spec, Cuts!Spec

-----------------------------------------------------------------------------
(* Types.                                                                  *)

Packets == [kind : Kinds, type : 0 .. 31, seq : 0 .. SqsMod - 1,
            timestamp : Nat, key : BOOLEAN]

PacketsTyped ==
  /\ StreamSps \in BOOLEAN
  /\ CurSlice \in Slices \cup {NoSlice}
  /\ CurNalType \in 0 .. 31
  /\ frame_count \in Nat /\ pframe_count \in Nat
  /\ frame_count <= pframe_count
  /\ sqsnumber \in 0 .. SqsMod - 1
  /\ sent \in {NoPacket} \cup Packets
  /\ fault \in {"none", "null", "overrun"}

LEMMA Constants == SqsMod \in Nat /\ SqsMod >= 2 /\ Lsbs \subseteq Nat
BY RtpOverTcpAssumption

LEMMA NalTypeRange ==
  ASSUME NEW n \in H264!Nodes
  PROVE  H264!GetNalType(n) \in 0 .. 31
BY DEF H264!Nodes, H264!GetNalType, H264!Type

LEMMA HeadTyped ==
  ASSUME NodesRight, Take
  PROVE  /\ Node \in H264!Nodes /\ NalType \in 0 .. 31
         /\ bufferlist # <<>> /\ last' = Node
<1>1. bufferlist \in Seq(H264!Nodes) /\ bufferlist # <<>> /\ last' = Node
  BY DEF NodesRight, H264!TypeOK, Take, H264!GetNode, Node
<1>2. Node \in H264!Nodes
  BY <1>1 DEF Node
<1> QED BY <1>1, <1>2, NalTypeRange DEF NalType

(* The counters stay in order and the packet has its type.                 *)
LEMMA PacketTyped ==
  ASSUME PacketsTyped, NEW kind \in Kinds, NEW type \in 0 .. 31,
         NEW slice \in Slices, NEW pcount \in Nat, pframe_count <= pcount,
         Packet(kind, type, slice, pcount)
  PROVE  /\ CurSlice' \in Slices \cup {NoSlice}
         /\ frame_count' \in Nat /\ pframe_count' \in Nat
         /\ frame_count' <= pframe_count'
         /\ sqsnumber' \in 0 .. SqsMod - 1
         /\ sent' \in Packets
<1> DEFINE stamp == Stamp(slice, frame_count, pcount)
<1>1. /\ slice.key \in BOOLEAN /\ slice.lsb \in Nat
      /\ frame_count \in Nat /\ frame_count <= pcount
      /\ sqsnumber \in 0 .. SqsMod - 1 /\ SqsMod \in Nat /\ SqsMod >= 2
  <2>1. slice.key \in BOOLEAN /\ slice.lsb \in Nat
    BY Constants DEF Slices
  <2>2. frame_count \in Nat /\ frame_count <= pcount
    BY DEF PacketsTyped
  <2> QED BY <2>1, <2>2, Constants DEF PacketsTyped
<1>2. /\ stamp.timestamp \in Nat
      /\ stamp.frame_count \in Nat /\ stamp.frame_count <= pcount
  BY <1>1 DEF Stamp
<1>3. (sqsnumber + 1) % SqsMod \in 0 .. SqsMod - 1
  BY <1>1
<1>4. sent' \in Packets
  BY <1>1, <1>2 DEF Packet, Packets
<1> QED BY <1>1, <1>2, <1>3, <1>4 DEF Packet

LEMMA InitTyped == Init => PacketsTyped
<1> SUFFICES ASSUME Init PROVE PacketsTyped
  OBVIOUS
<1>1. /\ StreamSps = FALSE /\ CurSlice = NoSlice /\ CurNalType = 0
      /\ frame_count = 0 /\ pframe_count = 0 /\ sqsnumber = 0
      /\ sent = NoPacket /\ fault = "none"
  BY Zenon DEF Init
<1>2. StreamSps \in BOOLEAN
  BY <1>1, Zenon
<1>3. /\ sqsnumber \in 0 .. SqsMod - 1 /\ CurNalType \in 0 .. 31
      /\ frame_count \in Nat /\ pframe_count \in Nat
      /\ frame_count <= pframe_count
  BY <1>1, Constants
<1> QED BY <1>1, <1>2, <1>3 DEF PacketsTyped

LEMMA NextTyped ==
  ASSUME PacketsTyped, NodesRight, [Next]_vars
  PROVE  PacketsTyped'
<1>1. CASE ReadBlock \/ CutBlock
  BY <1>1 DEF ReadBlock, CutBlock, PacketsTyped
<1>2. CASE SkipNode
  BY <1>2 DEF SkipNode, PacketsTyped
<1>3. CASE SliceNode
  <2>1. NalType \in 0 .. 31
    BY <1>3, HeadTyped DEF SliceNode
  <2>2. CASE StreamSps
    <3>1. PICK slice \in Slices :
            Packet(IF Node.b0 = 0 THEN "single" ELSE "S", NalType, slice,
                   pframe_count + 1)
      BY <1>3, <2>2 DEF SliceNode
    <3>2. /\ (IF Node.b0 = 0 THEN "single" ELSE "S") \in Kinds
          /\ pframe_count + 1 \in Nat /\ pframe_count <= pframe_count + 1
      BY DEF Kinds, PacketsTyped
    <3> QED BY <1>3, <2>1, <2>2, <3>1, <3>2, PacketTyped
            DEF SliceNode, PacketsTyped
  <2>3. CASE ~ StreamSps
    BY <1>3, <2>1, <2>3 DEF SliceNode, NullPointer, PacketsTyped
  <2> QED BY <2>2, <2>3
<1>4. CASE FragmentNode
  <2>1. CASE CurSlice # NoSlice
    <3>1. /\ (IF Node.b1 = 0 THEN "E" ELSE "mid") \in Kinds
          /\ CurSlice \in Slices /\ CurNalType \in 0 .. 31
          /\ pframe_count \in Nat /\ pframe_count <= pframe_count
      BY <2>1 DEF Kinds, PacketsTyped
    <3>2. Packet(IF Node.b1 = 0 THEN "E" ELSE "mid", CurNalType, CurSlice,
                 pframe_count)
      BY <1>4, <2>1 DEF FragmentNode
    <3> QED BY <1>4, <2>1, <3>1, <3>2, PacketTyped DEF FragmentNode, PacketsTyped
  <2>2. CASE CurSlice = NoSlice
    BY <1>4, <2>2 DEF FragmentNode, NullPointer, PacketsTyped
  <2> QED BY <2>1, <2>2
<1>5. CASE OtherNode
  <2>1. CASE CurSlice # NoSlice
    <3>1. /\ "junk" \in Kinds /\ CurSlice \in Slices /\ NalType \in 0 .. 31
          /\ pframe_count \in Nat /\ pframe_count <= pframe_count
      BY <1>5, <2>1, HeadTyped DEF OtherNode, Kinds, PacketsTyped
    <3>2. /\ Packet("junk", NalType, CurSlice, pframe_count)
          /\ fault' \in {"none", "overrun"}
      BY <1>5, <2>1 DEF OtherNode
    <3> QED BY <1>5, <3>1, <3>2, PacketTyped DEF OtherNode, PacketsTyped
  <2>2. CASE CurSlice = NoSlice
    BY <1>5, <2>2 DEF OtherNode, NullPointer, PacketsTyped
  <2> QED BY <2>1, <2>2
<1>6. CASE UNCHANGED vars
  BY <1>6 DEF vars, PacketsTyped
<1> QED BY <1>1, <1>2, <1>3, <1>4, <1>5, <1>6 DEF Next

(* For all blocks, slices and marks: the counters keep their order, and    *)
(* packets and nodes their types.                                          *)
THEOREM TypeCorrectness == Spec => []TypeOK
<1>1. Init => PacketsTyped
  BY InitTyped
<1>2. PacketsTyped /\ NodesRight /\ [Next]_vars => PacketsTyped'
  BY NextTyped
<1>3. PacketsTyped /\ NodesRight => TypeOK
  BY DEF PacketsTyped, Packets, NodesRight, TypeOK
<1> QED BY <1>1, <1>2, <1>3, NodesTyped, PTL DEF Spec

-----------------------------------------------------------------------------
(* The runs of packets.                                                    *)

(* No block end has cut a parameter set or SEI, so that the first node of  *)
(* an FU-A run is never kept back.                                         *)
SlicesCutOnly ==
  bufferlist # <<>> /\ Node.b0 = 1 /\ Node.b1 = 1 => NalType \notin KeptBack

(* The node that is taken next goes on with the run of the last one, or no *)
(* run is open.                                                            *)
NextFits ==
  bufferlist # <<>> => (H264!Opens(last) <=> H264!Continues(Node))

LEMMA NodesFit == LongNals = FALSE => (Spec => []NextFits)
<1> SUFFICES ASSUME LongNals = FALSE PROVE Spec => []NextFits
  OBVIOUS
<1>1. Cuts!H264Assumption
  BY RtpOverTcpAssumption DEF H264!H264Assumption, Cuts!H264Assumption
<1>2. Cuts!Spec => [](Cuts!NodeGrammar /\ Cuts!PayloadContiguous)
  BY <1>1, Cuts!RunsAreWhole
<1>3. NodesRight /\ Cuts!NodeGrammar => NextFits
  <2> SUFFICES ASSUME NodesRight, Cuts!NodeGrammar, bufferlist # <<>>
               PROVE  H264!Opens(last) <=> H264!Continues(Node)
    BY DEF NextFits
  <2>1. bufferlist \in Seq(H264!Nodes)
    BY DEF NodesRight, H264!TypeOK
  <2>2. /\ Len(<<last>> \o bufferlist) >= 2
        /\ (<<last>> \o bufferlist)[1] = last
        /\ (<<last>> \o bufferlist)[2] = Head(bufferlist)
    BY <2>1
  <2>3. 1 \in 1 .. Len(<<last>> \o bufferlist) - 1
    BY <2>1, <2>2
  <2> QED BY <2>2, <2>3
          DEF Cuts!NodeGrammar, Cuts!Cutting, Cuts!Opens, Cuts!Continues,
              H264!Opens, H264!Continues, Node
<1>4. Init => Cuts!Init
  BY SameStream DEF Init
<1>5. [Next]_vars => [Cuts!Next]_(Cuts!vars)
  BY StreamStep, SameStream
<1> QED BY <1>2, <1>3, <1>4, <1>5, NodesTyped, PTL DEF Spec, Cuts!Spec

(* What a run keeps between its packets: the packet that was made last is  *)
(* of the node that was taken last, and has what the next fragment will    *)
(* get from CurNalType, CurSlice and the counters; in a key frame these    *)
(* were refreshed behind its first packet.                                 *)
Going ==
  fault = "none" =>
    /\ H264!Opens(last) <=> sent.kind \in {"S", "mid"}
    /\ sent.kind \in {"S", "mid"} =>
         /\ sent.type = CurNalType
         /\ sent.key = CurSlice.key
         /\ CurSlice.key => frame_count = pframe_count
         /\ ~ (sent.kind = "S" /\ sent.key) =>
              sent.timestamp = Stamp(CurSlice, frame_count, pframe_count).timestamp

LEMMA InitGoing == Init => Going
<1> SUFFICES ASSUME Init PROVE Going
  OBVIOUS
<1>1. last = H264!NoNode /\ sent = NoPacket
  BY DEF Init, H264!Init
<1> QED BY <1>1 DEF Going, NoPacket, H264!NoNode, H264!Opens

(* One step: the runs go on, and nothing else does.                        *)
GoesOn ==
  /\ Made => (Continued <=> sent.kind \in {"S", "mid"})
  /\ Continued => sent'.type = sent.type
  /\ Continued /\ ~ (sent.kind = "S" /\ sent.key) =>
       sent'.timestamp = sent.timestamp

LEMMA NextGoing ==
  ASSUME PacketsTyped, NodesRight, NextFits, SlicesCutOnly, Going, [Next]_vars
  PROVE  Going' /\ GoesOn
<1>1. CASE ReadBlock \/ CutBlock \/ UNCHANGED vars
  <2>1. UNCHANGED <<StreamSps, CurSlice, CurNalType, frame_count,
                    pframe_count, sqsnumber, sent, fault>>
    BY <1>1 DEF ReadBlock, CutBlock, vars
  <2>2. last' = last
    BY <1>1 DEF ReadBlock, CutBlock, vars, nodes, H264!DevNode, H264!Cut,
       H264!Advance, H264!FirstStartCode, H264!RawNode, H264!NextStartCode,
       H264!Leftover, H264!Fragment, H264!LastFragment, H264!Single
  <2> QED BY <2>1, <2>2 DEF Going, GoesOn, Made, Continued
<1>2. CASE SkipNode
  <2>1. last' = Node /\ bufferlist # <<>> /\ NalType \in KeptBack
    BY <1>2, HeadTyped DEF SkipNode
  <2>2. Node.b0 # 1
    BY <2>1 DEF SlicesCutOnly, NalType, H264!GetNalType, KeptBack
  <2>3. ~ H264!Opens(last) /\ ~ H264!Opens(last')
    BY <2>1, <2>2 DEF NextFits, H264!Opens, H264!Continues
  <2> QED BY <1>2, <2>3 DEF SkipNode, Take, Going, GoesOn, Made, Continued
<1>3. CASE SliceNode
  <2>1. last' = Node /\ bufferlist # <<>>
    BY <1>3, HeadTyped DEF SliceNode
  <2>2. ~ H264!Opens(last) /\ fault = "none"
    BY <1>3, <2>1 DEF SliceNode, Take, NextFits, H264!Continues
  <2>3. CASE ~ StreamSps
    BY <1>3, <2>3 DEF SliceNode, NullPointer, Going, GoesOn, Made, Continued
  <2>4. CASE StreamSps
    <3>1. PICK slice \in Slices :
            Packet(IF Node.b0 = 0 THEN "single" ELSE "S", NalType, slice,
                   pframe_count + 1)
      BY <1>3, <2>4 DEF SliceNode
    <3>2. /\ sent'.kind = IF Node.b0 = 0 THEN "single" ELSE "S"
          /\ sent'.type = NalType /\ sent'.key = slice.key
          /\ sent'.timestamp = Stamp(slice, frame_count,
                                     pframe_count + 1).timestamp
          /\ frame_count' = Stamp(slice, frame_count,
                                  pframe_count + 1).frame_count
          /\ CurSlice' = slice /\ pframe_count' = pframe_count + 1
      BY <3>1 DEF Packet
    <3>3. GoesOn
      BY <2>2, <3>2 DEF Going, GoesOn, Made, Continued
    <3>4. CASE Node.b0 = 0
      BY <2>1, <3>2, <3>3, <3>4 DEF Going, H264!Opens
    <3>5. CASE Node.b0 = 1 /\ Node.b1 = 1
      <4>1. H264!Opens(last') /\ CurNalType' = NalType
        BY <1>3, <2>1, <3>5 DEF SliceNode, H264!Opens
      <4>2. slice.key => frame_count' = pframe_count'
        BY <3>2 DEF Stamp
      <4>3. ~ slice.key => sent'.timestamp =
                Stamp(slice, frame_count', pframe_count').timestamp
        BY <3>2 DEF Stamp
      <4> QED BY <3>2, <3>3, <3>5, <4>1, <4>2, <4>3 DEF Going
    <3> QED BY <1>3, <3>4, <3>5 DEF SliceNode
  <2> QED BY <2>3, <2>4
<1>4. CASE FragmentNode
  <2>1. last' = Node /\ bufferlist # <<>> /\ Node.b0 = 1 /\ Node.b1 # 1
    BY <1>4, HeadTyped DEF FragmentNode
  <2>2. H264!Opens(last) /\ fault = "none"
    BY <1>4, <2>1 DEF FragmentNode, Take, NextFits, H264!Continues
  <2>3. CASE CurSlice = NoSlice
    BY <1>4, <2>3 DEF FragmentNode, NullPointer, Going, GoesOn, Made, Continued
  <2>4. CASE CurSlice # NoSlice
    <3>1. Packet(IF Node.b1 = 0 THEN "E" ELSE "mid", CurNalType, CurSlice,
                 pframe_count)
      BY <1>4, <2>4 DEF FragmentNode
    <3>2. /\ sent'.kind = IF Node.b1 = 0 THEN "E" ELSE "mid"
          /\ sent'.type = CurNalType /\ sent'.key = CurSlice.key
          /\ sent'.timestamp = Stamp(CurSlice, frame_count,
                                     pframe_count).timestamp
          /\ frame_count' = Stamp(CurSlice, frame_count,
                                  pframe_count).frame_count
          /\ CurSlice' = CurSlice /\ pframe_count' = pframe_count
          /\ CurNalType' = CurNalType
      BY <1>4, <3>1 DEF FragmentNode, Packet
    <3>3. /\ sent.kind \in {"S", "mid"} /\ sent.type = CurNalType
          /\ CurSlice.key => frame_count = pframe_count
      BY <2>2 DEF Going
    <3>4. GoesOn
      BY <2>2, <3>2, <3>3 DEF Going, GoesOn, Made, Continued
    <3>5. frame_count' = frame_count
      BY <3>2, <3>3 DEF Stamp
    <3>6. H264!Opens(last') <=> sent'.kind = "mid"
      BY <2>1, <3>2 DEF H264!Opens
    <3> QED BY <3>2, <3>3, <3>4, <3>5, <3>6 DEF Going
  <2> QED BY <2>3, <2>4
<1>5. CASE OtherNode
  <2>1. last' = Node /\ bufferlist # <<>> /\ Node.b0 # 1
    <3>1. Node \in H264!Nodes /\ Node.b0 > 1
      BY <1>5, HeadTyped DEF OtherNode
    <3> QED BY <1>5, <3>1, HeadTyped DEF OtherNode, H264!Nodes
  <2>2. ~ H264!Opens(last) /\ ~ H264!Opens(last') /\ fault = "none"
    BY <1>5, <2>1 DEF OtherNode, Take, NextFits, H264!Opens, H264!Continues
  <2>3. CASE CurSlice = NoSlice
    BY <1>5, <2>3 DEF OtherNode, NullPointer, Going, GoesOn, Made, Continued
  <2>4. CASE CurSlice # NoSlice
    <3>1. sent'.kind = "junk"
      BY <1>5, <2>4 DEF OtherNode, Packet
    <3> QED BY <2>2, <3>1 DEF Going, GoesOn, Made, Continued
  <2> QED BY <2>3, <2>4
<1> QED BY <1>1, <1>2, <1>3, <1>4, <1>5 DEF Next

(* Whatever blocks the shared file gives, as long as their ends cut only   *)
(* slices and no NAL unit makes MarkMod nodes: the packets of a NAL unit   *)
(* follow each other from the S bit to the E bit with nothing in between,  *)
(* all under its type, and under one timestamp but for the first packet of *)
(* a key frame.                                                            *)
THEOREM PacketsFollowNodes ==
  ASSUME LongNals = FALSE
  PROVE  Spec /\ []SlicesCutOnly =>
           PacketGrammar /\ NalTypeKept /\ TimestampKept
<1>1. Going /\ PacketsTyped /\ NodesRight /\ NextFits /\ SlicesCutOnly
        /\ [Next]_vars => Going' /\ GoesOn
  BY NextGoing
<1>2. Spec => []NextFits
  BY NodesFit
<1>3. PacketsTyped /\ NodesRight /\ [Next]_vars => PacketsTyped'
  BY NextTyped
<1>4. GoesOn =>
        /\ [Made => (Continued <=> sent.kind \in {"S", "mid"})]_vars
        /\ [Continued => sent'.type = sent.type]_vars
        /\ [Continued /\ ~ (sent.kind = "S" /\ sent.key) =>
              sent'.timestamp = sent.timestamp]_vars
  BY DEF GoesOn
<1> QED BY <1>1, <1>2, <1>3, <1>4, InitTyped, InitGoing, NodesTyped, PTL
        DEF Spec, PacketGrammar, NalTypeKept, TimestampKept
-----------------------------------------------------------------------------
(* Null pointers.                                                          *)

(* The nodes of parameter sets and SEI, and the node a slice begins with.  *)
Parameter(n) == n.b0 > 1 /\ H264!Type(n.nal) \in KeptBack
Beginning(n) == /\ n.b0 = 0 \/ (n.b0 = 1 /\ n.b1 = 1)
                /\ H264!Type(n.nal) < 6
AllParameters == \A i \in DOMAIN bufferlist : Parameter(bufferlist[i])
SpsNode(n) == n.b0 > 1 /\ H264!Type(n.nal) = 7
SpsQueued == \E i \in DOMAIN bufferlist : SpsNode(bufferlist[i])

(* A slice is in the queue behind parameter sets only, and an SPS among    *)
(* them when none has been parsed.                                         *)
QueuedAt(i) ==
  /\ i \in DOMAIN bufferlist
  /\ Beginning(bufferlist[i])
  /\ \A j \in 1 .. i - 1 : Parameter(bufferlist[j])
  /\ StreamSps \/ \E j \in 1 .. i - 1 : SpsNode(bufferlist[j])
SliceQueued == \E i \in DOMAIN bufferlist : QueuedAt(i)

(* Where the start code of a header begins.                                *)
CodeStart(b, q) == IF q > 3 /\ b[q - 3] = 0 THEN q - 4 ELSE q - 3

(* DevNode is in the first block, with an SPS at p and the first slice at  *)
(* s: it has seen no start code yet, or has got to the unit at pos, not    *)
(* behind s, or has handed the slice to DevLargeNode.                      *)
Searching ==
  /\ task = "scan" /\ ~ NalFlag /\ pos = 0 /\ bufferlist = <<>>
  /\ \A q \in Headers(block) : CodeStart(block, q) >= sta

AtUnit(p, s) ==
  /\ task = "scan" /\ NalFlag
  /\ pos \in Headers(block) /\ pos <= s /\ pos <= sta
  /\ pos <= p \/ SpsQueued
  /\ pos < s => \A q \in Headers(block) : q > pos => CodeStart(block, q) >= sta

AtSlice ==
  /\ task = "large" /\ SpsQueued
  /\ H264!Type(nal_type) < 6
  /\ \/ dpage = 0 /\ ~ IsFU_A /\ H264!Byte(from) = nal_type
     \/ dpage = 1 /\ IsFU_A

InFirstBlock(p, s) ==
  /\ Introduces(block, p, s)
  /\ AllParameters /\ DevCount = 0
  /\ Searching \/ AtUnit(p, s) \/ AtSlice

NotStarted == task = "idle" /\ blockno = 0 /\ bufferlist = <<>> /\ DevCount = 0

(* Before the first slice the stream knows its parameters or will know     *)
(* them by then, and behind it both are there.                             *)
ParametersFirst ==
  /\ fault # "null"
  /\ CurSlice # NoSlice => StreamSps
  /\ CurSlice = NoSlice =>
       \/ NotStarted \/ SliceQueued
       \/ \E p \in Headers(block) : \E s \in Headers(block) : InFirstBlock(p, s)

(* A start code that DevNode finds is that of a header, and it finds every *)
(* header's start code where that begins.                                  *)
LEMMA CodesAreHeaders ==
  ASSUME block \in Seq(Nat), sta \in Nat, sta < Len(block) - 4
  PROVE  /\ H264!StartCode(sta) # 0 =>
              /\ H264!StartCode(sta) \in {3, 4}
              /\ sta + H264!StartCode(sta) \in Headers(block)
              /\ sta + H264!StartCode(sta) < Len(block)
         /\ H264!StartCode(sta) = 0 =>
              \A q \in Headers(block) : CodeStart(block, q) # sta
<1>1. Len(block) \in Nat
  OBVIOUS
<1>2. /\ H264!StartCode(sta) = 3 \/ H264!StartCode(sta) = 4
           \/ H264!StartCode(sta) = 0
      /\ H264!StartCode(sta) = 3 =>
           block[sta + 1] = 0 /\ block[sta + 2] = 0 /\ block[sta + 3] = 1
      /\ H264!StartCode(sta) = 4 =>
           block[sta + 1] = 0 /\ block[sta + 2] = 0 /\ block[sta + 3] = 0
           /\ block[sta + 4] = 1
      /\ H264!StartCode(sta) = 0 =>
           ~ (block[sta + 1] = 0 /\ block[sta + 2] = 0
              /\ (block[sta + 3] = 1
                  \/ (block[sta + 3] = 0 /\ block[sta + 4] = 1)))
  BY <1>1 DEF H264!StartCode, H264!Byte
<1>3. CASE H264!StartCode(sta) = 3
  BY <1>1, <1>2, <1>3 DEF Headers
<1>4. CASE H264!StartCode(sta) = 4
  BY <1>1, <1>2, <1>4 DEF Headers
<1>5. CASE H264!StartCode(sta) = 0
  <2> SUFFICES ASSUME NEW q \in Headers(block), CodeStart(block, q) = sta
               PROVE  FALSE
    BY <1>5
  <2>1. /\ q \in Nat /\ block[q - 2] = 0 /\ block[q - 1] = 0 /\ block[q] = 1
    BY <1>1 DEF Headers
  <2>2. CASE q > 3 /\ block[q - 3] = 0
    <3>1. q = sta + 4
      BY <2>1, <2>2 DEF CodeStart
    <3>2. q - 3 = sta + 1 /\ q - 2 = sta + 2 /\ q - 1 = sta + 3
      BY <3>1
    <3> QED BY <1>2, <1>5, <2>1, <2>2, <3>1, <3>2
  <2>3. CASE ~ (q > 3 /\ block[q - 3] = 0)
    <3>1. q = sta + 3
      BY <2>1, <2>3 DEF CodeStart
    <3>2. q - 2 = sta + 1 /\ q - 1 = sta + 2
      BY <3>1
    <3> QED BY <1>2, <1>5, <2>1, <3>1, <3>2
  <2> QED BY <2>2, <2>3
<1> QED BY <1>2, <1>3, <1>4, <1>5

(* The header behind the start code at sta is the next one, and the start  *)
(* codes of those after it do not begin in front of it.                    *)
LEMMA NextHeader ==
  ASSUME block \in Seq(Nat), sta \in Nat, sta < Len(block) - 4,
         H264!StartCode(sta) # 0,
         NEW q \in Headers(block), CodeStart(block, q) >= sta
  PROVE  \/ q = sta + H264!StartCode(sta)
         \/ /\ q > sta + H264!StartCode(sta)
            /\ CodeStart(block, q) >= sta + H264!StartCode(sta)
<1>1. Len(block) \in Nat
  OBVIOUS
<1>2. /\ q \in Nat /\ q >= 3
      /\ block[q - 2] = 0 /\ block[q - 1] = 0 /\ block[q] = 1
      /\ CodeStart(block, q) = IF q > 3 /\ block[q - 3] = 0 THEN q - 4
                               ELSE q - 3
  BY <1>1 DEF Headers, CodeStart
<1>3. /\ H264!StartCode(sta) = 3 =>
           block[sta + 1] = 0 /\ block[sta + 2] = 0 /\ block[sta + 3] = 1
      /\ H264!StartCode(sta) = 4 =>
           block[sta + 1] = 0 /\ block[sta + 2] = 0 /\ block[sta + 3] = 0
           /\ block[sta + 4] = 1
      /\ H264!StartCode(sta) \in {3, 4}
  BY <1>1 DEF H264!StartCode, H264!Byte
<1> DEFINE h == sta + H264!StartCode(sta)
<1>4. h \in Nat /\ block[h] = 1 /\ h \in {sta + 3, sta + 4}
  <2>1. CASE H264!StartCode(sta) = 3
    <3>1. h = sta + 3
      BY <2>1
    <3> QED BY <1>3, <2>1, <3>1
  <2>2. CASE H264!StartCode(sta) = 4
    <3>1. h = sta + 4
      BY <2>2
    <3> QED BY <1>3, <2>2, <3>1
  <2> QED BY <1>3, <2>1, <2>2
<1> HIDE DEF h
<1>5. h # q - 1 /\ h # q - 2 /\ (q > 3 /\ block[q - 3] = 0 => h # q - 3)
  BY <1>2, <1>4
<1>6. h = q \/ (h < q /\ CodeStart(block, q) >= h)
  <2>1. CASE CodeStart(block, q) = q - 3
    <3>1. q >= sta + 3
      BY <1>2, <2>1
    <3>2. CASE h = sta + 4 /\ q = sta + 3
      BY <1>2, <1>3, <1>4, <2>1, <3>2 DEF h
    <3> QED BY <1>2, <1>4, <1>5, <2>1, <3>1, <3>2
  <2>2. CASE CodeStart(block, q) = q - 4 /\ q > 3 /\ block[q - 3] = 0
    BY <1>2, <1>4, <1>5, <2>2
  <2> QED BY <1>2, <2>1, <2>2
<1> QED BY <1>6 DEF h

(* No start code begins at the header of a parameter set.                  *)
LEMMA HeaderNotZero ==
  ASSUME block \in Seq(Nat), NEW h \in Headers(block),
         H264!Type(block[h + 1]) \in KeptBack,
         NEW q \in Headers(block)
  PROVE  CodeStart(block, q) # h
<1>1. Len(block) \in Nat /\ h \in Nat /\ block[h + 1] # 0
  <2>1. Len(block) \in Nat /\ h \in Nat
    BY DEF Headers
  <2> QED BY <2>1 DEF H264!Type, KeptBack
<1>2. /\ q \in Nat /\ q >= 3 /\ block[q - 2] = 0
      /\ CodeStart(block, q) = IF q > 3 /\ block[q - 3] = 0 THEN q - 4
                               ELSE q - 3
  BY <1>1 DEF Headers, CodeStart
<1> QED BY <1>1, <1>2

LEMMA BlockTyped ==
  ASSUME NodesRight
  PROVE  /\ block \in Seq(Nat) /\ Len(block) \in Nat
         /\ pos \in Nat /\ sta \in Nat /\ DevCount \in Nat
         /\ bufferlist \in Seq(H264!Nodes) /\ Len(bufferlist) \in Nat
         /\ MarkMod \in Nat /\ MarkMod >= 2
<1>1. MarkMod \in Nat /\ MarkMod >= 2
  BY RtpOverTcpAssumption DEF H264!H264Assumption
<1>2. /\ block \in Seq(Nat) /\ pos \in 0 .. Len(block)
      /\ sta \in 0 .. Len(block)
      /\ DevCount \in Nat /\ bufferlist \in Seq(H264!Nodes)
  BY DEF NodesRight, H264!TypeOK
<1> QED BY <1>1, <1>2

(* A header, and the four bytes behind its start code, lie in the block.   *)
LEMMA HeaderPlace ==
  ASSUME NodesRight, NEW q \in Headers(block)
  PROVE  /\ q \in Nat /\ q <= Len(block) - 1
         /\ CodeStart(block, q) \in Int /\ CodeStart(block, q) < Len(block) - 4
<1>1. Len(block) \in Nat
  BY BlockTyped
<1>2. /\ q \in 3 .. Len(block) - 1
      /\ q <= Len(block) - 2 \/ (q > 3 /\ block[q - 3] = 0)
  BY DEF Headers
<1>3. q \in Nat /\ q <= Len(block) - 1
  BY <1>1, <1>2
<1>4. CASE q > 3 /\ block[q - 3] = 0
  <2>1. CodeStart(block, q) = q - 4
    BY <1>4 DEF CodeStart
  <2> QED BY <1>1, <1>3, <2>1
<1>5. CASE ~ (q > 3 /\ block[q - 3] = 0)
  <2>1. CodeStart(block, q) = q - 3 /\ q <= Len(block) - 2
    BY <1>2, <1>5 DEF CodeStart
  <2> QED BY <1>1, <1>3, <2>1
<1> QED BY <1>3, <1>4, <1>5

(* DevNode looks for the first start code.                                 *)
LEMMA SearchGoesOn ==
  ASSUME NodesRight, NEW p \in Headers(block), NEW s \in Headers(block),
         InFirstBlock(p, s), Searching, H264!Cut
  PROVE  /\ p \in Headers(block)' /\ s \in Headers(block)'
         /\ InFirstBlock(p, s)'
<1>1. /\ task = "scan" /\ ~ NalFlag /\ pos = 0 /\ bufferlist = <<>>
      /\ \A q \in Headers(block) : CodeStart(block, q) >= sta
      /\ Introduces(block, p, s) /\ AllParameters /\ DevCount = 0
  BY DEF Searching, InFirstBlock
<1>2. p < s /\ p \in Nat /\ s \in Nat /\ s <= Len(block) - 1
      /\ CodeStart(block, s) \in Int /\ CodeStart(block, s) < Len(block) - 4
  <2>1. p < s
    BY <1>1 DEF Introduces
  <2> QED BY <2>1, HeaderPlace
<1>3. sta < Len(block) - 4
  <2>1. CodeStart(block, s) >= sta
    BY <1>1
  <2> QED BY <1>2, <2>1, BlockTyped
<1>4. H264!Advance \/ H264!FirstStartCode
  BY <1>1, <1>3 DEF H264!Cut, H264!Leftover, H264!RawNode, H264!NextStartCode,
                    H264!Fragment, H264!LastFragment, H264!Single
<1>5. CASE H264!Advance
  <2>1. /\ sta' = sta + 1
        /\ UNCHANGED <<task, block, pos, NalFlag, DevCount, bufferlist>>
        /\ H264!StartCode(sta) = 0
    BY <1>5 DEF H264!Advance
  <2>2. \A q \in Headers(block) : CodeStart(block, q) # sta
    BY <1>3, <2>1, BlockTyped, CodesAreHeaders
  <2>3. \A q \in Headers(block) : CodeStart(block, q) \in Int
    BY BlockTyped DEF Headers, CodeStart
  <2>4. \A q \in Headers(block) : CodeStart(block, q) >= sta + 1
    BY <1>1, <2>2, <2>3, BlockTyped
  <2>5. Searching'
    BY <1>1, <2>1, <2>4 DEF Searching
  <2> QED BY <1>1, <2>1, <2>5 DEF InFirstBlock, AllParameters
<1>6. CASE H264!FirstStartCode
  <2> DEFINE h == sta + H264!StartCode(sta)
  <2>1. /\ H264!StartCode(sta) # 0
        /\ NalFlag' = TRUE /\ pos' = h /\ sta' = h
        /\ UNCHANGED <<task, block, DevCount, bufferlist>>
    BY <1>1, <1>6, BlockTyped, <1>3, CodesAreHeaders DEF H264!FirstStartCode
  <2>2. h \in Headers(block) /\ h \in Nat
    BY <1>3, <2>1, BlockTyped, CodesAreHeaders
  <2>3. \A q \in Headers(block) :
          q = h \/ (q > h /\ CodeStart(block, q) >= h)
    BY <1>1, <1>3, <2>1, BlockTyped, NextHeader
  <2> HIDE DEF h
  <2>4. h <= p
    BY <1>2, <2>2, <2>3
  <2>5. AtUnit(p, s)'
    BY <1>1, <1>2, <2>1, <2>2, <2>3, <2>4 DEF AtUnit
  <2> QED BY <1>1, <2>1, <2>5 DEF InFirstBlock, AllParameters
<1> QED BY <1>4, <1>5, <1>6

(* The nodes of a queue that gets one more are still what they were.       *)
LEMMA ParameterAppended ==
  ASSUME NodesRight, AllParameters, NEW n \in H264!Nodes, Parameter(n),
         bufferlist' = Append(bufferlist, n)
  PROVE  /\ AllParameters'
         /\ SpsQueued \/ H264!Type(n.nal) = 7 => SpsQueued'
<1>1. /\ Len(bufferlist) \in Nat
      /\ DOMAIN bufferlist = 1 .. Len(bufferlist)
      /\ DOMAIN bufferlist' = 1 .. Len(bufferlist) + 1
      /\ \A i \in 1 .. Len(bufferlist) : bufferlist'[i] = bufferlist[i]
      /\ bufferlist'[Len(bufferlist) + 1] = n
  BY BlockTyped
<1>2. AllParameters'
  BY <1>1 DEF AllParameters
<1>3. SpsQueued => SpsQueued'
  BY <1>1 DEF SpsQueued
<1>4. H264!Type(n.nal) = 7 => SpsQueued'
  <2> SUFFICES ASSUME H264!Type(n.nal) = 7 PROVE SpsQueued'
    OBVIOUS
  <2>1. SpsNode(n)
    BY DEF SpsNode, Parameter
  <2>2. Len(bufferlist) + 1 \in DOMAIN bufferlist'
    BY <1>1
  <2> QED BY <1>1, <2>1, <2>2 DEF SpsQueued
<1> QED BY <1>2, <1>3, <1>4

LEMMA SliceAppended ==
  ASSUME NodesRight, AllParameters, SpsQueued, NEW n \in H264!Nodes,
         Beginning(n), bufferlist' = Append(bufferlist, n)
  PROVE  SliceQueued'
<1>1. /\ Len(bufferlist) \in Nat
      /\ DOMAIN bufferlist = 1 .. Len(bufferlist)
      /\ DOMAIN bufferlist' = 1 .. Len(bufferlist) + 1
      /\ \A i \in 1 .. Len(bufferlist) : bufferlist'[i] = bufferlist[i]
      /\ bufferlist'[Len(bufferlist) + 1] = n
  BY BlockTyped
<1>2. PICK i \in Nat : i = Len(bufferlist) + 1
  BY <1>1
<1>3. i \in DOMAIN bufferlist' /\ 1 .. i - 1 = DOMAIN bufferlist
  BY <1>1, <1>2
<1>4. \A j \in 1 .. i - 1 : Parameter(bufferlist'[j])
  BY <1>1, <1>3 DEF AllParameters
<1>5. \E j \in 1 .. i - 1 : SpsNode(bufferlist'[j])
  BY <1>1, <1>3 DEF SpsQueued
<1>6. Beginning(bufferlist'[i])
  BY <1>1, <1>2
<1> QED BY <1>3, <1>4, <1>5, <1>6 DEF SliceQueued, QueuedAt

(* A queue keeps its slice when more nodes come behind it.                 *)
LEMMA QueueGrows ==
  ASSUME NodesRight, SliceQueued, NEW n, bufferlist' = Append(bufferlist, n),
         StreamSps' = StreamSps
  PROVE  SliceQueued'
<1>1. PICK i \in DOMAIN bufferlist : QueuedAt(i)
  BY DEF SliceQueued
<1>2. /\ Len(bufferlist) \in Nat
      /\ DOMAIN bufferlist = 1 .. Len(bufferlist)
      /\ DOMAIN bufferlist' = 1 .. Len(bufferlist) + 1
      /\ \A j \in 1 .. Len(bufferlist) : bufferlist'[j] = bufferlist[j]
  BY BlockTyped
<1>3. /\ i \in DOMAIN bufferlist' /\ i \in 1 .. Len(bufferlist)
      /\ \A j \in 1 .. i - 1 : j \in 1 .. Len(bufferlist)
  BY <1>2
<1>4. /\ Beginning(bufferlist[i])
      /\ \A j \in 1 .. i - 1 : Parameter(bufferlist[j])
      /\ StreamSps \/ \E j \in 1 .. i - 1 : SpsNode(bufferlist[j])
  BY <1>1 DEF QueuedAt
<1>5. /\ Beginning(bufferlist'[i])
      /\ \A j \in 1 .. i - 1 : Parameter(bufferlist'[j])
      /\ StreamSps' \/ \E j \in 1 .. i - 1 : SpsNode(bufferlist'[j])
  BY <1>2, <1>3, <1>4
<1> QED BY <1>3, <1>5 DEF SliceQueued, QueuedAt

(* DevNode makes nodes of the parameter sets and hands the slice over.     *)
LEMMA UnitsGoOn ==
  ASSUME NodesRight, NEW p \in Headers(block), NEW s \in Headers(block),
         InFirstBlock(p, s), AtUnit(p, s), H264!Cut
  PROVE  /\ p \in Headers(block)' /\ s \in Headers(block)'
         /\ InFirstBlock(p, s)'
<1>1. /\ task = "scan" /\ NalFlag
      /\ pos \in Headers(block) /\ pos <= s /\ pos <= sta
      /\ pos <= p \/ SpsQueued
      /\ pos < s =>
           \A q \in Headers(block) : q > pos => CodeStart(block, q) >= sta
      /\ Introduces(block, p, s) /\ AllParameters /\ DevCount = 0
  BY DEF AtUnit, InFirstBlock
<1>2. /\ p < s /\ p \in Nat /\ s \in Nat
      /\ CodeStart(block, s) \in Int /\ CodeStart(block, s) < Len(block) - 4
      /\ H264!Type(block[p + 1]) = 7 /\ H264!Type(block[s + 1]) < 6
      /\ \A q \in Headers(block) : q < s => H264!Type(block[q + 1]) \in KeptBack
  <2>1. /\ p < s
        /\ H264!Type(block[p + 1]) = 7 /\ H264!Type(block[s + 1]) < 6
        /\ \A q \in Headers(block) :
             q < s => H264!Type(block[q + 1]) \in KeptBack
    BY <1>1 DEF Introduces
  <2>2. /\ p \in Nat /\ s \in Nat
        /\ CodeStart(block, s) \in Int /\ CodeStart(block, s) < Len(block) - 4
    BY HeaderPlace
  <2> QED BY <2>1, <2>2
<1>3. \A q \in Headers(block) : q \in Nat /\ CodeStart(block, q) \in Int
  BY HeaderPlace
<1>4. /\ H264!Byte(pos) = block[pos + 1] /\ H264!Byte(pos) \in Nat
      /\ H264!Type(H264!Byte(pos)) \in Nat
  <2>1. pos + 1 \in 1 .. Len(block)
    BY <1>1, BlockTyped DEF Headers
  <2>2. block[pos + 1] \in Nat
    BY <2>1, BlockTyped
  <2> QED BY <2>2 DEF H264!Byte, H264!Type
<1>5. \/ H264!Advance \/ H264!RawNode \/ H264!NextStartCode \/ H264!Leftover
  BY <1>1 DEF H264!Cut, H264!FirstStartCode, H264!Fragment,
              H264!LastFragment, H264!Single
<1>6. CASE H264!Advance
  <2>1. /\ sta' = sta + 1 /\ sta < Len(block) - 4
        /\ UNCHANGED <<task, block, pos, NalFlag, DevCount, bufferlist>>
        /\ H264!StartCode(sta) = 0
    BY <1>6 DEF H264!Advance, H264!Scanning
  <2>2. \A q \in Headers(block) : CodeStart(block, q) # sta
    BY <2>1, BlockTyped, CodesAreHeaders
  <2>3. pos < s => \A q \in Headers(block) :
                     q > pos => CodeStart(block, q) >= sta + 1
    BY <1>1, <1>3, <2>2, BlockTyped
  <2>4. AtUnit(p, s)'
    BY <1>1, <2>1, <2>3, BlockTyped DEF AtUnit, SpsQueued
  <2> QED BY <1>1, <2>1, <2>4 DEF InFirstBlock, AllParameters
<1>7. CASE H264!RawNode
  <2> DEFINE h == sta + H264!StartCode(sta)
             n == H264!Node(H264!Byte(pos),
                            IF sta > pos + 1 THEN H264!Byte(pos + 1) ELSE 0,
                            H264!Byte(pos), pos, sta)
  <2>1. /\ sta < Len(block) - 4 /\ H264!StartCode(sta) # 0
        /\ H264!Type(H264!Byte(pos)) >= 6
        /\ pos' = h /\ sta' = h + 1
        /\ bufferlist' = Append(bufferlist, n)
        /\ UNCHANGED <<task, block, NalFlag, DevCount>>
    BY <1>7 DEF H264!RawNode, H264!Scanning, H264!NextNal
  <2>2. pos < s
    <3>1. H264!Type(block[pos + 1]) >= 6
      BY <1>4, <2>1
    <3>2. pos # s
      BY <1>2, <1>4, <3>1
    <3> QED BY <1>1, <1>2, <3>2, BlockTyped
  <2>3. H264!Type(H264!Byte(pos)) \in KeptBack
    BY <1>1, <1>2, <1>4, <2>2
  <2>4. n \in H264!Nodes
    <3>1. blockno \in Nat
      BY DEF NodesRight, H264!TypeOK
    <3>2. sta > pos + 1 => H264!Byte(pos + 1) \in Nat
      <4> sta < Len(block) - 4
        BY <2>1
      <4>1. sta > pos + 1 => pos + 2 \in 1 .. Len(block)
        BY BlockTyped
      <4>2. sta > pos + 1 => block[pos + 2] \in Nat
        BY <4>1, BlockTyped
      <4>3. (pos + 1) + 1 = pos + 2
        BY BlockTyped
      <4> QED BY <4>2, <4>3 DEF H264!Byte
    <3> QED BY <1>4, <3>1, <3>2, BlockTyped DEF H264!Node, H264!Nodes
  <2>5. Parameter(n) /\ (H264!Type(H264!Byte(pos)) = 7 => H264!Type(n.nal) = 7)
    <3>1. H264!Byte(pos) > 1
      BY <1>4, <2>3 DEF KeptBack, H264!Type
    <3> QED BY <2>3, <3>1 DEF Parameter, H264!Node
  <2> HIDE DEF n
  <2>6. /\ AllParameters'
        /\ SpsQueued \/ H264!Type(H264!Byte(pos)) = 7 => SpsQueued'
    BY <1>1, <2>1, <2>4, <2>5, ParameterAppended
  <2>7. h \in Headers(block) /\ h \in Nat /\ h > sta
    <3>1. h \in Headers(block) /\ H264!StartCode(sta) \in {3, 4}
      BY <2>1, BlockTyped, CodesAreHeaders
    <3> QED BY <3>1, BlockTyped
  <2>8. \A q \in Headers(block) :
          q > pos => q = h \/ (q > h /\ CodeStart(block, q) >= h)
    BY <1>1, <2>1, <2>2, BlockTyped, NextHeader
  <2> HIDE DEF h
  <2>9. h <= s
    BY <1>2, <2>2, <2>7, <2>8
  <2>10. h <= p \/ SpsQueued'
    <3>1. CASE pos < p
      BY <1>2, <2>7, <2>8, <3>1
    <3>2. CASE pos = p
      BY <1>2, <1>4, <2>6, <3>2
    <3>3. CASE pos > p
      BY <1>1, <1>2, <1>3, <2>6, <3>3
    <3> QED BY <1>1, <1>2, <1>3, <3>1, <3>2, <3>3
  <2>11. h < s => \A q \in Headers(block) :
                    q > h => CodeStart(block, q) >= h + 1
    <3> SUFFICES ASSUME h < s, NEW q \in Headers(block), q > h
                 PROVE  CodeStart(block, q) >= h + 1
      OBVIOUS
    <3>1. H264!Type(block[h + 1]) \in KeptBack
      BY <1>2, <2>7
    <3>2. CodeStart(block, q) # h
      BY <2>7, <3>1, BlockTyped, HeaderNotZero
    <3>3. q > pos
      BY <1>1, <1>3, <2>7, BlockTyped
    <3>4. CodeStart(block, q) >= h
      BY <1>3, <2>7, <2>8, <3>3
    <3> QED BY <1>3, <2>7, <3>2, <3>4
  <2>12. AtUnit(p, s)'
    BY <1>1, <2>1, <2>7, <2>9, <2>10, <2>11 DEF AtUnit
  <2> QED BY <1>1, <2>1, <2>6, <2>12 DEF InFirstBlock
<1>8. CASE H264!NextStartCode \/ H264!Leftover
  <2>1. /\ UNCHANGED <<block, DevCount, bufferlist>>
        /\ task' = "large" /\ from' = pos /\ nal_type' = H264!Byte(pos)
        /\ \/ dpage' = 0 /\ ~ IsFU_A'
           \/ dpage' = 1 /\ IsFU_A'
    <3>1. CASE H264!NextStartCode
      <4>1. /\ UNCHANGED <<block, DevCount, bufferlist>>
            /\ task' = "large" /\ from' = pos /\ nal_type' = H264!Byte(pos)
            /\ dpage' = 0 /\ IsFU_A' = (0 > 0)
        BY <3>1, Zenon DEF H264!NextStartCode, H264!Call
      <4>2. ~ (0 > 0)
        OBVIOUS
      <4> QED BY <4>1, <4>2, Zenon
    <3>2. CASE H264!Leftover
      <4>1. /\ UNCHANGED <<block, DevCount, bufferlist>>
            /\ task' = "large" /\ from' = pos /\ nal_type' = H264!Byte(pos)
            /\ dpage' = 1 /\ IsFU_A' = (1 > 0)
        BY <3>2, Zenon DEF H264!Leftover, H264!Call
      <4>2. 1 > 0
        OBVIOUS
      <4> QED BY <4>1, <4>2, Zenon
    <3> QED BY <1>8, <3>1, <3>2
  <2>2. pos = s
    <3>1. CASE H264!NextStartCode
      BY <1>1, <1>2, <1>3, <1>4, <3>1 DEF H264!NextStartCode, KeptBack
    <3>2. CASE H264!Leftover
      <4>1. ~ (sta < Len(block) - 4)
        BY <3>2 DEF H264!Leftover
      <4>2. pos < s => CodeStart(block, s) >= sta
        BY <1>1, <1>2
      <4> QED BY <1>1, <1>2, <1>3, <4>1, <4>2, BlockTyped
    <3> QED BY <1>8, <3>1, <3>2
  <2>3. SpsQueued
    BY <1>1, <1>2, <2>2
  <2>4. H264!Type(nal_type') < 6 /\ (H264!Byte(from) = nal_type)'
    BY <1>2, <1>4, <2>1, <2>2 DEF H264!Byte
  <2>5. AtSlice'
    BY <2>1, <2>3, <2>4 DEF AtSlice, SpsQueued, H264!Type
  <2> QED BY <1>1, <2>1, <2>5 DEF InFirstBlock, AllParameters
<1> QED BY <1>5, <1>6, <1>7, <1>8

(* DevLargeNode makes the first node of the slice.                         *)
LEMMA SliceBegins ==
  ASSUME NodesRight, AllParameters, DevCount = 0, AtSlice, H264!Cut
  PROVE  SliceQueued'
<1>1. /\ task = "large" /\ SpsQueued /\ H264!Type(nal_type) < 6
      /\ \/ dpage = 0 /\ ~ IsFU_A /\ H264!Byte(from) = nal_type
         \/ dpage = 1 /\ IsFU_A
  BY DEF AtSlice
<1>2. H264!Fragment \/ H264!LastFragment \/ H264!Single
  BY <1>1 DEF H264!Cut, H264!Advance, H264!FirstStartCode, H264!RawNode,
              H264!NextStartCode, H264!Leftover, H264!Scanning
<1>3. /\ from \in Nat /\ end \in Nat /\ nal_type \in Nat /\ blockno \in Nat
      /\ Limit \in Nat /\ 0 % MarkMod = 0 /\ 1 % MarkMod = 1
  BY BlockTyped, RtpOverTcpAssumption
     DEF NodesRight, H264!TypeOK, H264!H264Assumption
<1>4. CASE H264!Fragment
  <2>1. bufferlist' = Append(bufferlist,
          H264!Node(1, 1, nal_type, from + 1, from + Limit))
    BY <1>3, <1>4 DEF H264!Fragment
  <2>2. H264!Node(1, 1, nal_type, from + 1, from + Limit) \in H264!Nodes
    BY <1>3 DEF H264!Node, H264!Nodes
  <2>3. Beginning(H264!Node(1, 1, nal_type, from + 1, from + Limit))
    BY <1>1 DEF Beginning, H264!Node
  <2> QED BY <1>1, <2>1, <2>2, <2>3, SliceAppended
<1>5. CASE H264!LastFragment
  <2>1. dpage = 1
    BY <1>1, <1>5 DEF H264!LastFragment
  <2>2. bufferlist' = Append(bufferlist,
          H264!Node(1, 1, nal_type, from + 1, end))
    BY <1>3, <1>5, <2>1 DEF H264!LastFragment
  <2>3. H264!Node(1, 1, nal_type, from + 1, end) \in H264!Nodes
    BY <1>3 DEF H264!Node, H264!Nodes
  <2>4. Beginning(H264!Node(1, 1, nal_type, from + 1, end))
    BY <1>1 DEF Beginning, H264!Node
  <2> QED BY <1>1, <2>2, <2>3, <2>4, SliceAppended
<1>6. CASE H264!Single
  <2>1. bufferlist' = Append(bufferlist,
          H264!Node(0, 0, nal_type, from, end))
    BY <1>1, <1>3, <1>6 DEF H264!Single
  <2>2. H264!Node(0, 0, nal_type, from, end) \in H264!Nodes
    BY <1>3 DEF H264!Node, H264!Nodes
  <2>3. Beginning(H264!Node(0, 0, nal_type, from, end))
    BY <1>1 DEF Beginning, H264!Node
  <2> QED BY <1>1, <2>1, <2>2, <2>3, SliceAppended
<1> QED BY <1>2, <1>4, <1>5, <1>6

LEMMA InitFirst == Init => ParametersFirst
<1> SUFFICES ASSUME Init PROVE ParametersFirst
  OBVIOUS
<1>1. /\ StreamSps = FALSE /\ CurSlice = NoSlice /\ fault = "none"
      /\ task = "idle" /\ blockno = 0 /\ bufferlist = <<>> /\ DevCount = 0
  BY DEF Init, H264!Init
<1> QED BY <1>1 DEF ParametersFirst, NotStarted

FilesBegin == \A b \in FirstBlocks : BeginsWithParameters(b)

(* The first block is read.                                                *)
LEMMA ReadFirst ==
  ASSUME NodesRight, FilesBegin, ParametersFirst, ReadBlock
  PROVE  ParametersFirst'
<1>1. /\ UNCHANGED <<StreamSps, CurSlice, fault>> /\ bufferlist = <<>>
      /\ task = "idle"
  BY DEF ReadBlock, H264!DevNode
<1>2. SUFFICES ASSUME CurSlice = NoSlice
               PROVE  \E p \in Headers(block') : \E s \in Headers(block') :
                        InFirstBlock(p, s)'
  BY <1>1 DEF ParametersFirst
<1>3. NotStarted
  <2>1. ~ SliceQueued
    BY <1>1 DEF SliceQueued
  <2>2. ~ \E p, s : InFirstBlock(p, s)
    BY <1>1 DEF InFirstBlock, Searching, AtUnit, AtSlice
  <2> QED BY <1>2, <2>1, <2>2 DEF ParametersFirst
<1>4. PICK b \in FirstBlocks : H264!DevNode(b)
  BY <1>3 DEF ReadBlock, NotStarted
<1>5. /\ task' = "scan" /\ block' = b /\ pos' = 0 /\ sta' = 0
      /\ ~ NalFlag' /\ DevCount' = 0 /\ bufferlist' = <<>>
  BY <1>3, <1>4 DEF H264!DevNode, NotStarted
<1>6. PICK p \in Headers(b) : \E s \in Headers(b) : Introduces(b, p, s)
  BY DEF FilesBegin, BeginsWithParameters
<1>7. PICK s \in Headers(b) : Introduces(b, p, s)
  BY <1>6
<1>8. \A q \in Headers(b) : CodeStart(b, q) >= 0
  <2>1. Len(b) \in Nat
    BY RtpOverTcpAssumption DEF H264!H264Assumption
  <2> QED BY <2>1 DEF Headers, CodeStart
<1>9. Searching'
  BY <1>5, <1>8 DEF Searching
<1>10. AllParameters'
  BY <1>5 DEF AllParameters
<1>11. InFirstBlock(p, s)'
  BY <1>5, <1>7, <1>9, <1>10 DEF InFirstBlock
<1> QED BY <1>5, <1>11

(* A step of the loops.                                                    *)
LEMMA CutFirst ==
  ASSUME NodesRight, ParametersFirst, CutBlock
  PROVE  ParametersFirst'
<1>1. UNCHANGED <<StreamSps, CurSlice, fault>> /\ H264!Cut
  BY DEF CutBlock
<1>2. SUFFICES ASSUME CurSlice = NoSlice
               PROVE  \/ SliceQueued'
                      \/ \E p \in Headers(block') : \E s \in Headers(block') :
                           InFirstBlock(p, s)'
  BY <1>1 DEF ParametersFirst
<1>3. task # "idle"
  BY <1>1 DEF H264!Cut, H264!Advance, H264!FirstStartCode, H264!RawNode,
       H264!NextStartCode, H264!Leftover, H264!Scanning, H264!Fragment,
       H264!LastFragment, H264!Single
<1>4. CASE SliceQueued
  <2>1. \/ bufferlist' = bufferlist
        \/ \E n : bufferlist' = Append(bufferlist, n)
    BY <1>1 DEF H264!Cut, H264!Advance, H264!FirstStartCode, H264!RawNode,
         H264!NextStartCode, H264!Leftover, H264!Fragment,
         H264!LastFragment, H264!Single
  <2>2. CASE bufferlist' = bufferlist
    BY <1>1, <1>4, <2>2 DEF SliceQueued, QueuedAt
  <2>3. CASE \E n : bufferlist' = Append(bufferlist, n)
    BY <1>1, <1>4, <2>3, QueueGrows
  <2> QED BY <2>1, <2>2, <2>3
<1>5. ASSUME NEW p \in Headers(block), NEW s \in Headers(block),
             InFirstBlock(p, s)
      PROVE  \/ SliceQueued'
             \/ /\ p \in Headers(block)' /\ s \in Headers(block)'
                /\ InFirstBlock(p, s)'
  <2>1. CASE Searching
    BY <1>1, <1>5, <2>1, SearchGoesOn
  <2>2. CASE AtUnit(p, s)
    BY <1>1, <1>5, <2>2, UnitsGoOn
  <2>3. CASE AtSlice
    BY <1>1, <1>5, <2>3, SliceBegins DEF InFirstBlock
  <2> QED BY <1>5, <2>1, <2>2, <2>3 DEF InFirstBlock
<1>6. ~ NotStarted
  BY <1>3 DEF NotStarted
<1> QED BY <1>2, <1>4, <1>5, <1>6 DEF ParametersFirst

(* A node is taken before the first slice has been.                        *)
LEMMA TakeFirst ==
  ASSUME NodesRight, ParametersFirst, CurSlice = NoSlice,
         SkipNode \/ SliceNode \/ FragmentNode \/ OtherNode
  PROVE  ParametersFirst'
<1>1. Take
  BY DEF SkipNode, SliceNode, FragmentNode, OtherNode
<1>2. /\ task = "idle" /\ bufferlist # <<>> /\ bufferlist' = Tail(bufferlist)
      /\ fault = "none" /\ Node = bufferlist[1]
  BY <1>1, BlockTyped DEF Take, H264!GetNode, Node
<1>3. SliceQueued
  <2>1. ~ NotStarted
    BY <1>2 DEF NotStarted
  <2>2. ~ \E p, s : InFirstBlock(p, s)
    BY <1>2 DEF InFirstBlock, Searching, AtUnit, AtSlice
  <2> QED BY <2>1, <2>2 DEF ParametersFirst
<1>4. PICK i \in DOMAIN bufferlist : QueuedAt(i)
  BY <1>3 DEF SliceQueued
<1>5. /\ Beginning(bufferlist[i])
      /\ \A j \in 1 .. i - 1 : Parameter(bufferlist[j])
      /\ StreamSps \/ \E j \in 1 .. i - 1 : SpsNode(bufferlist[j])
      /\ i \in 1 .. Len(bufferlist)
  BY <1>4, BlockTyped DEF QueuedAt
<1>6. CASE i = 1
  <2>1. /\ Node.b0 = 0 \/ (Node.b0 = 1 /\ Node.b1 = 1)
        /\ NalType = H264!Type(Node.nal) /\ NalType < 6
    BY <1>2, <1>5, <1>6 DEF Beginning, NalType, H264!GetNalType
  <2>2. StreamSps
    BY <1>5, <1>6
  <2>3. SliceNode
    BY <2>1 DEF SkipNode, FragmentNode, OtherNode, KeptBack
  <2>4. PICK slice \in Slices :
          Packet(IF Node.b0 = 0 THEN "single" ELSE "S", NalType, slice,
                 pframe_count + 1)
    BY <2>2, <2>3 DEF SliceNode
  <2>5. CurSlice' = slice /\ fault' = fault /\ StreamSps' = StreamSps
    BY <2>2, <2>3, <2>4 DEF SliceNode, Packet
  <2>6. slice # NoSlice
    BY Constants DEF Slices, NoSlice
  <2> QED BY <1>2, <2>2, <2>5, <2>6 DEF ParametersFirst
<1>7. CASE i > 1
  <2>1. Parameter(bufferlist[1])
    BY <1>5, <1>7
  <2>2. Node.b0 > 1 /\ NalType = H264!Type(Node.nal) /\ NalType \in KeptBack
    BY <1>2, <2>1 DEF Parameter, NalType, H264!GetNalType
  <2>3. SkipNode
    BY <2>2 DEF SliceNode, FragmentNode, OtherNode
  <2>4. /\ StreamSps' = (StreamSps \/ NalType = 7)
        /\ UNCHANGED <<CurSlice, fault>>
    BY <2>3 DEF SkipNode
  <2>5. PICK k \in Nat : k = i - 1
    BY <1>5, <1>7
  <2>6. /\ Len(bufferlist) \in Nat /\ DOMAIN bufferlist' = 1 .. Len(bufferlist) - 1
        /\ \A j \in 1 .. Len(bufferlist) - 1 : bufferlist'[j] = bufferlist[j + 1]
    BY <1>2, BlockTyped
  <2>7. k \in DOMAIN bufferlist' /\ Beginning(bufferlist'[k])
    <3>1. k \in 1 .. Len(bufferlist) - 1 /\ k + 1 = i
      BY <1>5, <1>7, <2>5, <2>6
    <3> QED BY <1>5, <2>6, <3>1
  <2>8. \A j \in 1 .. k - 1 : /\ j + 1 \in 1 .. i - 1
                              /\ j \in 1 .. Len(bufferlist) - 1
    BY <1>5, <2>5, <2>6
  <2>9. \A j \in 1 .. k - 1 : Parameter(bufferlist'[j])
    BY <1>5, <2>6, <2>8
  <2>10. StreamSps' \/ \E j \in 1 .. k - 1 : SpsNode(bufferlist'[j])
    <3>1. CASE StreamSps
      BY <2>4, <3>1
    <3>2. CASE \E j \in 1 .. i - 1 : SpsNode(bufferlist[j])
      <4>1. PICK j \in 1 .. i - 1 : SpsNode(bufferlist[j])
        BY <3>2
      <4>2. CASE j = 1
        BY <1>2, <2>2, <2>4, <4>1, <4>2 DEF SpsNode
      <4>3. CASE j # 1
        <5>1. PICK l \in Nat : l = j - 1
          BY <4>3
        <5>2. l \in 1 .. k - 1 /\ l + 1 = j /\ l \in 1 .. Len(bufferlist) - 1
          BY <1>5, <2>5, <2>6, <4>3, <5>1
        <5> QED BY <2>6, <4>1, <5>2
      <4> QED BY <4>2, <4>3
    <3> QED BY <1>5, <3>1, <3>2
  <2>11. SliceQueued'
    BY <2>7, <2>9, <2>10 DEF SliceQueued, QueuedAt
  <2> QED BY <1>2, <2>4, <2>11 DEF ParametersFirst
<1> QED BY <1>5, <1>6, <1>7

LEMMA NextFirst ==
  ASSUME NodesRight, PacketsTyped, FilesBegin, ParametersFirst, [Next]_vars
  PROVE  ParametersFirst'
<1>1. CASE ReadBlock
  BY <1>1, ReadFirst
<1>2. CASE CutBlock
  BY <1>2, CutFirst
<1>3. CASE /\ CurSlice = NoSlice
           /\ SkipNode \/ SliceNode \/ FragmentNode \/ OtherNode
  BY <1>3, TakeFirst
<1>4. CASE /\ CurSlice # NoSlice
           /\ SkipNode \/ SliceNode \/ FragmentNode \/ OtherNode
  <2>1. StreamSps
    BY <1>4 DEF ParametersFirst
  <2>2. SUFFICES fault' # "null" /\ StreamSps' /\ CurSlice' # NoSlice
    BY DEF ParametersFirst
  <2>3. CASE SkipNode
    BY <1>4, <2>1, <2>3 DEF SkipNode, ParametersFirst
  <2>4. CASE SliceNode
    <3>1. PICK slice \in Slices :
            Packet(IF Node.b0 = 0 THEN "single" ELSE "S", NalType, slice,
                   pframe_count + 1)
      BY <2>1, <2>4 DEF SliceNode
    <3>2. slice # NoSlice
      BY Constants DEF Slices, NoSlice
    <3> QED BY <2>1, <2>4, <3>1, <3>2 DEF SliceNode, Packet, ParametersFirst
  <2>5. CASE FragmentNode
    BY <1>4, <2>1, <2>5 DEF FragmentNode, Packet, ParametersFirst
  <2>6. CASE OtherNode
    BY <1>4, <2>1, <2>6 DEF OtherNode, Packet
  <2> QED BY <1>4, <2>3, <2>4, <2>5, <2>6
<1>5. CASE UNCHANGED vars
  BY <1>5 DEF vars, nodes, ParametersFirst, NotStarted, SliceQueued, QueuedAt,
       InFirstBlock, AllParameters, Searching, AtUnit, AtSlice, SpsQueued,
       H264!Byte
<1> QED BY <1>1, <1>2, <1>3, <1>4, <1>5 DEF Next

(* A file whose first block holds parameter sets and SEI, an SPS among     *)
(* them, and behind these the start of a slice: whatever blocks follow,    *)
(* wherever they are cut and however long a NAL unit gets, TCPForH264      *)
(* always has the SPS and the slice header that it uses.                   *)
THEOREM FilesWithParametersPlay ==
  ASSUME \A b \in FirstBlocks : BeginsWithParameters(b)
  PROVE  Spec => []NoNullPointer
<1>1. FilesBegin
  BY DEF FilesBegin
<1>2. Init => ParametersFirst
  BY InitFirst
<1>3. PacketsTyped /\ NodesRight /\ ParametersFirst /\ [Next]_vars
        => ParametersFirst'
  BY <1>1, NextFirst
<1>4. Init => PacketsTyped
  BY InitTyped
<1>5. PacketsTyped /\ NodesRight /\ [Next]_vars => PacketsTyped'
  BY NextTyped
<1>6. ParametersFirst => NoNullPointer
  BY DEF ParametersFirst, NoNullPointer
<1> QED BY <1>2, <1>3, <1>4, <1>5, <1>6, NodesTyped, PTL DEF Spec
=============================================================================
