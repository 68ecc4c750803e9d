-------------------------- MODULE H264MediaStream ---------------------------
(***************************************************************************)
(* How h264MediaStream cuts the blocks of a file into nodes, the raw       *)
(* material of the RTP packets. DevNode looks for start codes in a block   *)
(* and hands the NAL unit in front of each to DevLargeNode, which makes it *)
(* one SINGLE node or a run of FU-A nodes numbered by DevCount. A NAL unit *)
(* that the block's end cuts off is carried over: DevCount stays above 0   *)
(* until a later block brings the next start code.                         *)
(*                                                                         *)
(* Both functions are modelled step by step, one action for each turn of   *)
(* their loops. Offsets are the code's, from 0.                            *)
(***************************************************************************)
EXTENDS Integers, Sequences

CONSTANTS
  Blocks,       \* the blocks a stream may read, in any order
  Limit,        \* NETMTU - RTP_HEADSIZE - 2, 1462 in the code
  MarkMod,      \* the marks of the nodes are bytes: 256
  LongNals,     \* blocks may come of which a NAL unit makes MarkMod nodes
  MaxBlocks     \* bound: the blocks a stream reads

ASSUME H264Assumption ==
  /\ \A b \in Blocks : b \in Seq(Nat) /\ Len(b) >= 4
  /\ Limit \in Nat /\ Limit >= 2
  /\ MarkMod \in Nat /\ MarkMod >= 2
  /\ LongNals \in BOOLEAN
  /\ MaxBlocks \in Nat

VARIABLES
  task,         \* "idle", "scan" (in DevNode's loop), "large" (in
                \* DevLargeNode's loop)
  block,        \* the bytes of the block, and which block of the stream it is
  blockno,
  pos, sta, NalFlag,                \* DevNode's
  from, end, dpage, IsFU_A,         \* DevLargeNode's pos, sta, dpage, IsFU_A
  nal_type,                         \* and nal_type
  DevCount,     \* nodes of the NAL unit that is being cut, 0 for none
  bufferlist,   \* the nodes
  last          \* history: the node that was taken last

scan == <<pos, sta, NalFlag>>
large == <<from, end, dpage, IsFU_A, nal_type>>
vars == <<task, block, blockno, scan, large, DevCount, bufferlist, last>>

Byte(p) == block[p + 1]
Type(b) == b % 32

(* A node: its bytes 0 and 1, the byte it takes its NAL type from (byte 2  *)
(* of an FU-A node, the NAL header of the others), and the bytes           *)
(* start .. stop - 1 of the block that are its payload.                    *)
Node(b0, b1, nal, start, stop) ==
  [b0 |-> b0, b1 |-> b1, nal |-> nal, start |-> start, stop |-> stop,
   blockno |-> blockno]

NoNode == [b0 |-> 0, b1 |-> 0, nal |-> 0, start |-> 0, stop |-> 0,
           blockno |-> 0]

Init ==
  /\ task = "idle"
  /\ block = <<>> /\ blockno = 0
  /\ pos = 0 /\ sta = 0 /\ NalFlag = FALSE
  /\ from = 0 /\ end = 0 /\ dpage = 0 /\ IsFU_A = FALSE /\ nal_type = 0
  /\ DevCount = 0
  /\ bufferlist = <<>>
  /\ last = NoNode

-----------------------------------------------------------------------------
(* DevNode. The locals a finished call leaves behind are never read; they  *)
(* are reset to keep the state small.                                      *)

(* At most so many nodes are cut from n bytes of one NAL unit.             *)
MostNodes(n) == n \div Limit + 1

DevNode(b) ==
  /\ task = "idle" /\ blockno < MaxBlocks
  /\ LongNals \/ DevCount + MostNodes(Len(b)) < MarkMod
  /\ task' = "scan"
  /\ block' = b /\ blockno' = blockno + 1
  /\ pos' = 0 /\ sta' = 0 /\ NalFlag' = FALSE
  /\ UNCHANGED <<large, DevCount, bufferlist, last>>

(* The start code at an offset is 3 or 4 bytes long, or there is none.     *)
StartCode(p) ==
  IF Byte(p) = 0 /\ Byte(p + 1) = 0
  THEN IF Byte(p + 2) = 1 THEN 3
       ELSE IF Byte(p + 2) = 0 /\ Byte(p + 3) = 1 THEN 4 ELSE 0
  ELSE 0

(* A plausible slip: the loop goes on while three bytes are left.          *)
ScanningToEnd == task = "scan" /\ sta < Len(block) - 3

(* The loop ends four bytes before the block does, so a start code in the  *)
(* last four bytes is not seen.                                            *)
Scanning == task = "scan" /\ sta < Len(block) - 4

(* DevLargeNode is entered for the bytes p .. p + n - 1.                   *)
Call(p, n, d) ==
  /\ task' = "large"
  /\ from' = p /\ end' = p + n /\ dpage' = d /\ IsFU_A' = (d > 0)
  /\ nal_type' = Byte(p)

Advance ==
  /\ Scanning /\ StartCode(sta) = 0
  /\ sta' = sta + 1
  /\ UNCHANGED <<task, block, blockno, pos, NalFlag, large, DevCount,
                 bufferlist, last>>

(* A plausible slip: DevCount is not looked at.                            *)
FirstStartCodeDropsCarried ==
  /\ Scanning /\ StartCode(sta) # 0 /\ ~ NalFlag
  /\ NalFlag' = TRUE
  /\ pos' = pos + sta + StartCode(sta)
  /\ sta' = sta + StartCode(sta)
  /\ DevCount' = 0
  /\ UNCHANGED <<task, large, block, blockno, bufferlist, last>>

(* The first start code of a block ends the NAL unit that was carried      *)
(* over, if there is one; its last byte is left out.                       *)
FirstStartCode ==
  /\ Scanning /\ StartCode(sta) # 0 /\ ~ NalFlag
  /\ NalFlag' = TRUE
  /\ IF DevCount > 0 THEN Call(0, IF sta = 0 THEN 0 ELSE sta - 1, 2)
     ELSE UNCHANGED <<task, large>>
  /\ pos' = pos + sta + StartCode(sta)
  /\ sta' = sta + StartCode(sta)
  /\ UNCHANGED <<block, blockno, DevCount, bufferlist, last>>

(* What DevNode does after each later start code: the next NAL unit starts *)
(* behind it, and its first byte is not looked at.                         *)
NextNal ==
  /\ pos' = sta + StartCode(sta)
  /\ sta' = sta + StartCode(sta) + 1

(* A later start code ends a NAL unit of type 6 and above, which becomes a *)
(* node without room for an RTP header.                                    *)
RawNode ==
  /\ Scanning /\ StartCode(sta) # 0 /\ NalFlag
  /\ Type(Byte(pos)) >= 6
  /\ bufferlist' = Append(bufferlist,
       Node(Byte(pos), IF sta > pos + 1 THEN Byte(pos + 1) ELSE 0, Byte(pos),
            pos, sta))
  /\ NextNal
  /\ UNCHANGED <<task, block, blockno, NalFlag, large, DevCount, last>>

(* ... or any other NAL unit.                                              *)
NextStartCode ==
  /\ Scanning /\ StartCode(sta) # 0 /\ NalFlag
  /\ Type(Byte(pos)) < 6
  /\ Call(pos, sta - pos, 0)
  /\ NextNal
  /\ UNCHANGED <<block, blockno, NalFlag, DevCount, bufferlist, last>>

(* A plausible slip: the rest ends where the search ended.                 *)
LeftoverToSta ==
  /\ task = "scan" /\ ~ (sta < Len(block) - 4)
  /\ Call(pos, sta - pos, 1)
  /\ UNCHANGED <<block, blockno, scan, DevCount, bufferlist, last>>

(* The rest of the block is carried over.                                  *)
Leftover ==
  /\ task = "scan" /\ ~ (sta < Len(block) - 4)
  /\ Call(pos, Len(block) - pos, 1)
  /\ UNCHANGED <<block, blockno, scan, DevCount, bufferlist, last>>

-----------------------------------------------------------------------------
(* DevLargeNode.                                                           *)

(* It returns to DevNode, or with the leftover from DevNode.               *)
Return ==
  /\ task' = IF dpage = 1 THEN "idle" ELSE "scan"
  /\ from' = 0 /\ end' = 0 /\ dpage' = 0 /\ IsFU_A' = FALSE /\ nal_type' = 0

(* A plausible slip: one byte too far.                                     *)
NextFragmentSkips(p) == p + Limit + 1

(* Where the next fragment starts.                                         *)
NextFragment(p) == p + Limit

(* One fragment: the byte at its start is skipped, in every fragment.      *)
Fragment ==
  /\ task = "large" /\ end - from > Limit
  /\ IsFU_A' = TRUE
  /\ DevCount' = DevCount + 1
  /\ bufferlist' = Append(bufferlist,
       Node(1, (DevCount + 1) % MarkMod, nal_type, from + 1, from + Limit))
  /\ from' = NextFragment(from)
  /\ UNCHANGED <<task, block, blockno, scan, end, dpage, nal_type, last>>

(* A plausible slip: DevCount is not reset behind the last node.           *)
LastFragmentCountsOn ==
  /\ task = "large" /\ end - from <= Limit /\ IsFU_A
  /\ LET count == IF dpage = 1 THEN DevCount + 1 ELSE 0
     IN  /\ DevCount' = DevCount + 1
         /\ bufferlist' = Append(bufferlist,
              Node(1, count % MarkMod, nal_type,
                   IF dpage = 1 /\ count = 1 THEN from + 1 ELSE from, end))
  /\ Return
  /\ UNCHANGED <<block, blockno, scan, last>>

(* The last node of an FU-A run has mark 0; that of a leftover goes on     *)
(* counting, and skips the NAL header when it is the first one.            *)
LastFragment ==
  /\ task = "large" /\ end - from <= Limit /\ IsFU_A
  /\ LET count == IF dpage = 1 THEN DevCount + 1 ELSE 0
     IN  /\ DevCount' = count
         /\ bufferlist' = Append(bufferlist,
              Node(1, count % MarkMod, nal_type,
                   IF dpage = 1 /\ count = 1 THEN from + 1 ELSE from, end))
  /\ Return
  /\ UNCHANGED <<block, blockno, scan, last>>

Single ==
  /\ task = "large" /\ end - from <= Limit /\ ~ IsFU_A
  /\ bufferlist' = Append(bufferlist,
       Node(DevCount % MarkMod, 0, Byte(from), from, end))
  /\ DevCount' = 0
  /\ Return
  /\ UNCHANGED <<block, blockno, scan, last>>

-----------------------------------------------------------------------------
Cut ==
  \/ Advance \/ FirstStartCode \/ RawNode \/ NextStartCode \/ Leftover
  \/ Fragment \/ LastFragment \/ Single

(* A node is taken only between blocks.                                    *)
GetNode ==
  /\ task = "idle" /\ bufferlist # <<>>
  /\ last' = Head(bufferlist)
  /\ bufferlist' = Tail(bufferlist)
  /\ UNCHANGED <<task, block, blockno, scan, large, DevCount>>

(* A block is read when no node is left.                                   *)
Next ==
  \/ bufferlist = <<>> /\ \E b \in Blocks : DevNode(b)
  \/ Cut
  \/ GetNode

Spec == Init /\ [][Next]_vars

(* The NAL type of a node, 0 for what follows the first node of a run.     *)
GetNalType(n) == IF n.b0 = 1 /\ n.b1 # 1 THEN 0 ELSE Type(n.nal)

-----------------------------------------------------------------------------
(* Properties.                                                             *)

Nodes == [b0 : Nat, b1 : Nat, nal : Nat, start : Nat, stop : Nat,
          blockno : Nat]

(* The state has its type, and both loops stay inside the block.           *)
TypeOK ==
  /\ task \in {"idle", "scan", "large"}
  /\ block \in Seq(Nat) /\ blockno \in Nat
  /\ pos \in 0 .. Len(block) /\ sta \in 0 .. Len(block) /\ NalFlag \in BOOLEAN
  /\ from \in 0 .. Len(block) /\ end \in 0 .. Len(block)
  /\ from <= end
  /\ dpage \in 0 .. 2 /\ IsFU_A \in BOOLEAN /\ nal_type \in Nat
  /\ DevCount \in Nat
  /\ bufferlist \in Seq(Nodes)
  /\ last \in Nodes

(* An FU-A node that another one of the same NAL unit must follow, and one *)
(* that must follow another: by the marks, 1 is the first, 0 the last.     *)
Opens(n) == n.b0 = 1 /\ n.b1 # 0
Continues(n) == n.b0 = 1 /\ n.b1 # 1

(* The nodes of the stream that have not been overtaken: the last taken,   *)
(* and those in the queue.                                                 *)
Cutting == <<last>> \o bufferlist

(* Through any blocks, start codes cut by block ends, and NAL units        *)
(* carried over many blocks (but none of MarkMod nodes, see LongNals): an  *)
(* FU-A run that is begun is continued until its last node, and only then  *)
(* something else begins. DevCount tells whether a run is open.            *)
NodeGrammar ==
  /\ \A i \in 1 .. Len(Cutting) - 1 :
       Opens(Cutting[i]) <=> Continues(Cutting[i + 1])
  /\ task # "large" => (Opens(Cutting[Len(Cutting)]) <=> DevCount > 0)

(* Between two nodes of one block nothing is lost but the start code and   *)
(* NAL header, and at most one byte of the data; nothing is sent twice.    *)
PayloadContiguous ==
  \A i \in 1 .. Len(Cutting) - 1 :
    LET a == Cutting[i]
        b == Cutting[i + 1]
    IN  a.blockno = b.blockno /\ a # NoNode =>
          b.start - a.stop \in IF Continues(b) THEN 0 .. 1 ELSE 3 .. 6

(* When a block has been cut, its last byte is in a node, and the NAL unit *)
(* it belongs to is still open, however the block ends.                    *)
BlockUsedUp ==
  task = "idle" /\ blockno > 0 =>
    /\ DevCount > 0
    /\ Cutting[Len(Cutting)].stop = Len(block)
=============================================================================
