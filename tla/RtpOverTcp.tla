----------------------------- MODULE RtpOverTcp -----------------------------
(***************************************************************************)
(* RtpOverTcp::TCPForH264 turns the nodes of a stream into RTP packets,    *)
(* one each call: parameter sets and SEI are kept back, a SINGLE node is   *)
(* sent as it is, FU-A nodes get their FU indicator and header. From call  *)
(* to call the stream remembers whether its parameters are known           *)
(* (StreamSps), the current slice (CurSlice), the NAL type of the current  *)
(* FU-A run, and two frame counters, from which the timestamps come.       *)
(*                                                                         *)
(* Timestamps are counted in half frames: what the code multiplies with    *)
(* 90000 * num_units_in_tick / time_scale.                                 *)
(***************************************************************************)
EXTENDS Integers, Sequences

CONSTANTS
  FirstBlocks,   \* the blocks the file may begin with
  Blocks, Limit, MarkMod, LongNals, MaxBlocks,
  Lsbs,          \* the values of pic_order_cnt_lsb
  SqsMod         \* sqsnumber is counted modulo this, 2^16 in the code

VARIABLES
  StreamSps,     \* a sequence parameter set has been parsed
  CurSlice,      \* the slice header that was parsed last
  CurNalType,    \* the NAL type of the current FU-A run
  frame_count, pframe_count,
  sqsnumber,
  sent,          \* history: the packet that was made last
  fault,         \* "none", "null" (a null pointer was used) or "overrun"
                 \* (a header was written past the end of its node)
  \* the stream's nodes, see H264MediaStream
  task, block, blockno, pos, sta, NalFlag, from, end, dpage, IsFU_A,
  nal_type, DevCount, bufferlist, last

nodes == <<task, block, blockno, pos, sta, NalFlag, from, end, dpage, IsFU_A,
           nal_type, DevCount, bufferlist, last>>
vars == <<StreamSps, CurSlice, CurNalType, frame_count, pframe_count,
          sqsnumber, sent, fault, nodes>>

H264 == INSTANCE H264MediaStream

ASSUME RtpOverTcpAssumption ==
  /\ FirstBlocks \subseteq Blocks
  /\ Lsbs \subseteq Nat
  /\ SqsMod \in Nat \ {0, 1}
  /\ H264!H264Assumption

RTP_HEADSIZE == 16

(* key: the slice type is I or SI.                                         *)
NoSlice == [key |-> FALSE, lsb |-> -1]
Slices == [key : BOOLEAN, lsb : Lsbs]

(* A packet is a whole NAL unit, a fragment of one with the S bit, with    *)
(* neither bit, or with the E bit, or a node that is none of these.        *)
Kinds == {"single", "S", "mid", "E", "junk"}
NoPacket == [kind |-> "none", type |-> 0, seq |-> 0, timestamp |-> 0,
             key |-> FALSE]

Init ==
  /\ StreamSps = FALSE
  /\ CurSlice = NoSlice
  /\ CurNalType = 0
  /\ frame_count = 0 /\ pframe_count = 0
  /\ sqsnumber = 0
  /\ sent = NoPacket
  /\ fault = "none"
  /\ H264!Init

-----------------------------------------------------------------------------
(* Reading and cutting.                                                    *)

(* SETUP cuts the first block of the file; later a block is read when no   *)
(* node is left, and it is whichever the shared FILE* gives.               *)
ReadBlock ==
  /\ fault = "none" /\ bufferlist = <<>>
  /\ \E b \in IF blockno = 0 THEN FirstBlocks ELSE Blocks : H264!DevNode(b)
  /\ UNCHANGED <<StreamSps, CurSlice, CurNalType, frame_count, pframe_count,
                 sqsnumber, sent, fault>>

CutBlock ==
  /\ fault = "none" /\ H264!Cut
  /\ UNCHANGED <<StreamSps, CurSlice, CurNalType, frame_count, pframe_count,
                 sqsnumber, sent, fault>>

-----------------------------------------------------------------------------
(* TCPForH264.                                                             *)

Node == Head(bufferlist)
NalType == H264!GetNalType(Node)
Take == fault = "none" /\ H264!GetNode

(* SEI and PPS are not sent, and neither is SPS.                           *)
KeptBack == {6, 7, 8}

(* A plausible slip: the SPS is kept back without being parsed.            *)
SkipNodeUnparsed ==
  /\ Take /\ NalType \in KeptBack
  /\ UNCHANGED <<StreamSps, CurSlice, CurNalType, frame_count, pframe_count,
                 sqsnumber, sent, fault>>

(* The first SPS is parsed. (One that a block's end has cut is parsed from *)
(* its node's reserved bytes; what that gives depends on them.)            *)
SkipNode ==
  /\ Take /\ NalType \in KeptBack
  /\ StreamSps' = (StreamSps \/ NalType = 7)
  /\ UNCHANGED <<CurSlice, CurNalType, frame_count, pframe_count, sqsnumber,
                 sent, fault>>

(* A plausible slip: every slice refreshes the counter.                    *)
StampRefreshes(slice, count, pcount) ==
  [timestamp |-> IF slice.key THEN 2 * count ELSE 2 * count + slice.lsb,
   frame_count |-> pcount]

(* A plausible slip: frame_count is refreshed in half frames.              *)
StampHalfFrames(slice, count, pcount) ==
  [timestamp |-> IF slice.key THEN 2 * count ELSE 2 * count + slice.lsb,
   frame_count |-> IF slice.key THEN 2 * pcount ELSE count]

(* The timestamp of a packet of a slice, and what it leaves of             *)
(* frame_count: a key frame refreshes the counter after its timestamp.     *)
Stamp(slice, count, pcount) ==
  [timestamp |-> IF slice.key THEN 2 * count ELSE 2 * count + slice.lsb,
   frame_count |-> IF slice.key THEN pcount ELSE count]

(* The RTP header of a packet is written: a number and a timestamp.        *)
Packet(kind, type, slice, pcount) ==
  LET stamp == Stamp(slice, frame_count, pcount)
  IN  /\ sent' = [kind |-> kind, type |-> type, seq |-> sqsnumber,
                  timestamp |-> stamp.timestamp, key |-> slice.key]
      /\ frame_count' = stamp.frame_count
      /\ sqsnumber' = (sqsnumber + 1) % SqsMod
      /\ CurSlice' = slice
      /\ pframe_count' = pcount

NullPointer ==
  /\ fault' = "null"
  /\ UNCHANGED <<CurSlice, frame_count, pframe_count, sqsnumber, sent>>

(* A plausible slip: the type of the first fragment is not kept.           *)
SliceNodeForgetsType ==
  /\ Take /\ NalType \notin KeptBack
  /\ Node.b0 = 0 \/ (Node.b0 = 1 /\ Node.b1 = 1)
  /\ IF StreamSps
     THEN /\ \E slice \in Slices :
             Packet(IF Node.b0 = 0 THEN "single" ELSE "S", NalType, slice,
                    pframe_count + 1)
          /\ UNCHANGED fault
     ELSE NullPointer
  /\ UNCHANGED <<StreamSps, CurNalType>>

(* A SINGLE node, or the first of an FU-A run: it holds the slice header,  *)
(* which ParseSlice reads with the stream's parameters.                    *)
SliceNode ==
  /\ Take /\ NalType \notin KeptBack
  /\ Node.b0 = 0 \/ (Node.b0 = 1 /\ Node.b1 = 1)
  /\ IF StreamSps
     THEN /\ \E slice \in Slices :
             Packet(IF Node.b0 = 0 THEN "single" ELSE "S", NalType, slice,
                    pframe_count + 1)
          /\ UNCHANGED fault
     ELSE NullPointer
  /\ CurNalType' = IF Node.b0 = 1 THEN NalType ELSE CurNalType
  /\ UNCHANGED StreamSps

(* A later node of an FU-A run is sent under the type and slice of its     *)
(* first; mark 0 gets the E bit.                                           *)
FragmentNode ==
  /\ Take
  /\ Node.b0 = 1 /\ Node.b1 # 1
  /\ IF CurSlice # NoSlice
     THEN /\ Packet(IF Node.b1 = 0 THEN "E" ELSE "mid", CurNalType, CurSlice,
                    pframe_count)
          /\ UNCHANGED fault
     ELSE NullPointer
  /\ UNCHANGED <<StreamSps, CurNalType>>

(* Any other node has no room for the header: it is written over the       *)
(* node's data and, when the node is shorter, over what lies behind it.    *)
OtherNode ==
  /\ Take /\ NalType \notin KeptBack
  /\ Node.b0 > 1
  /\ IF CurSlice # NoSlice
     THEN /\ Packet("junk", NalType, CurSlice, pframe_count)
          /\ fault' \in IF Node.stop - Node.start < RTP_HEADSIZE
                        THEN {"none", "overrun"} ELSE {"none"}
     ELSE NullPointer
  /\ UNCHANGED <<StreamSps, CurNalType>>

Next ==
  \/ ReadBlock \/ CutBlock
  \/ SkipNode \/ SliceNode \/ FragmentNode \/ OtherNode

Spec == Init /\ [][Next]_vars

-----------------------------------------------------------------------------
(* Properties.                                                             *)

(* The state has its type.                                                 *)
TypeOK ==
  /\ StreamSps \in BOOLEAN
  /\ CurSlice \in Slices \cup {NoSlice}
  /\ CurNalType \in 0 .. 31
  /\ frame_count \in Nat /\ pframe_count \in Nat
  /\ frame_count <= pframe_count
  /\ sqsnumber \in 0 .. SqsMod - 1
  /\ sent \in {NoPacket} \cup [kind : Kinds, type : 0 .. 31,
                               seq : 0 .. SqsMod - 1, timestamp : Nat,
                               key : BOOLEAN]
  /\ fault \in {"none", "null", "overrun"}
  /\ H264!TypeOK

(* A packet was made in this step, and it goes on with the last one.       *)
Made == sent' # sent
Continued == Made /\ sent'.kind \in {"mid", "E"}

(* While a block's end cuts slices only (no SPS, PPS or SEI), wherever it  *)
(* cuts them and the start codes, the packets are FU-A runs and whole      *)
(* units: a fragment with neither bit or the E bit follows only one with   *)
(* the S bit or neither, and nothing else does.                            *)
PacketGrammar ==
  [][Made => (Continued <=> sent.kind \in {"S", "mid"})]_vars

(* All fragments of a NAL unit carry its type.                             *)
NalTypeKept == [][Continued => sent'.type = sent.type]_vars

(* The fragments of one NAL unit have one timestamp, but for the first     *)
(* fragment of a key frame.                                                *)
TimestampKept ==
  [][Continued /\ ~ (sent.kind = "S" /\ sent.key) =>
       sent'.timestamp = sent.timestamp]_vars

(* The places of the NAL headers DevNode sees in a block, offsets as in    *)
(* the code: a start code in front, and not in the last four bytes.        *)
Headers(b) ==
  {p \in 3 .. Len(b) - 1 :
     /\ b[p - 2] = 0 /\ b[p - 1] = 0 /\ b[p] = 1
     /\ p <= Len(b) - 2 \/ (p > 3 /\ b[p - 3] = 0)}

(* The first slice of a block is at s, only parameter sets and SEI stand   *)
(* in front of it, and one of them is the SPS at p.                        *)
Introduces(b, p, s) ==
  /\ p \in Headers(b) /\ s \in Headers(b) /\ p < s
  /\ H264!Type(b[p + 1]) = 7 /\ H264!Type(b[s + 1]) < 6
  /\ \A q \in Headers(b) : q < s => H264!Type(b[q + 1]) \in KeptBack

(* A file that begins with its parameters: its first block holds them and  *)
(* the start of a slice.                                                   *)
BeginsWithParameters(b) ==
  \E p \in Headers(b) : \E s \in Headers(b) : Introduces(b, p, s)

(* A stream whose file begins with its parameters never uses a null        *)
(* pointer, however the blocks are cut.                                    *)
NoNullPointer == fault # "null"

-----------------------------------------------------------------------------
(* What the documentation says and the code does not do.                   *)

(* "Within one key frame frame_count is fixed, and it is refreshed only at *)
(* a key frame" (RtpOverTcp.cpp:126): one key frame, one timestamp.        *)
KeyFrameOneTimestamp ==
  [][Continued => sent'.timestamp = sent.timestamp]_vars

(* "SPS, PPS and SEI are not part of the transfer"                         *)
(* (h264MediaStream.cpp:352): no packet goes on with a NAL unit of these   *)
(* types.                                                                  *)
ParameterSetsNotSent ==
  [][Made /\ H264!Continues(last') =>
       ~ (last.b0 = 1 /\ last.b1 = 1 /\ H264!Type(last.nal) \in {6, 7, 8})]_vars
=============================================================================
