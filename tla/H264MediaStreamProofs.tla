----------------------- MODULE H264MediaStreamProofs ------------------------
(* How blocks are cut into nodes, for all blocks and every Limit: both     *)
(* loops stay inside the block and use it up, and as long as the marks do  *)
(* not wrap, the nodes of each NAL unit form a run that later stages can   *)
(* rely on, however block ends and start codes fall.                       *)
EXTENDS H264MediaStream, TLAPS

(* The newest node.                                                        *)
Latest == Cutting[Len(Cutting)]

(* What DevNode's and DevLargeNode's loops keep between their turns.       *)
ScanShape ==
  task # "idle" =>
    /\ Len(block) >= 4 /\ blockno > 0
    /\ pos < Len(block)
    /\ NalFlag => pos <= sta
    /\ ~ NalFlag => pos = 0

LargeShape ==
  /\ task # "large" => from = 0 /\ end = 0
  /\ task = "large" =>
       /\ dpage = 0 => NalFlag /\ (IsFU_A <=> DevCount > 0) /\ from < Len(block)
       /\ dpage = 1 => IsFU_A /\ end = Len(block)
       /\ dpage = 2 => NalFlag /\ IsFU_A /\ DevCount > 0

(* A NAL unit that was carried over has ended when DevNode is behind the   *)
(* block's first start code.                                               *)
CountShape == task = "scan" /\ NalFlag => DevCount = 0

Shape == TypeOK /\ ScanShape /\ LargeShape /\ CountShape /\ BlockUsedUp

-----------------------------------------------------------------------------
(* The nodes as a sequence.                                                *)

LEMMA CuttingAppend ==
  ASSUME NEW l \in Nodes, NEW q \in Seq(Nodes), NEW n \in Nodes
  PROVE  /\ <<l>> \o Append(q, n) = Append(<<l>> \o q, n)
         /\ <<l>> \o q \in Seq(Nodes)
         /\ <<l>> \o q # <<>>
OBVIOUS

LEMMA CuttingTail ==
  ASSUME NEW l \in Nodes, NEW q \in Seq(Nodes), q # <<>>
  PROVE  /\ Head(q) \in Nodes /\ Tail(q) \in Seq(Nodes)
         /\ <<Head(q)>> \o Tail(q) = Tail(<<l>> \o q)
OBVIOUS

LEMMA LatestAppend ==
  ASSUME NEW l \in Nodes, NEW q \in Seq(Nodes), NEW n \in Nodes
  PROVE  LET s == <<l>> \o Append(q, n) IN s[Len(s)] = n
OBVIOUS

LEMMA LatestTail ==
  ASSUME NEW l \in Nodes, NEW q \in Seq(Nodes), q # <<>>
  PROVE  LET s == <<l>> \o q
             t == <<Head(q)>> \o Tail(q)
         IN  t[Len(t)] = s[Len(s)]
OBVIOUS

-----------------------------------------------------------------------------
(* Type correctness.                                                       *)

LEMMA StartCodeLength ==
  ASSUME NEW p
  PROVE  StartCode(p) \in {0, 3, 4}
BY DEF StartCode

LEMMA ByteType ==
  ASSUME TypeOK, NEW p \in Nat, p < Len(block)
  PROVE  Byte(p) \in Nat
BY DEF TypeOK, Byte

LEMMA NodeType ==
  ASSUME TypeOK, NEW b0 \in Nat, NEW b1 \in Nat, NEW nal \in Nat,
         NEW start \in Nat, NEW stop \in Nat
  PROVE  Node(b0, b1, nal, start, stop) \in Nodes
BY DEF TypeOK, Node, Nodes

LEMMA MarkType ==
  ASSUME NEW n \in Nat
  PROVE  n % MarkMod \in Nat
BY H264Assumption

LEMMA InitShape == Init => Shape
<1> SUFFICES ASSUME Init PROVE Shape
  OBVIOUS
<1>1. NoNode \in Nodes
  BY DEF NoNode, Nodes
<1>2. block \in Seq(Nat) /\ bufferlist \in Seq(Nodes) /\ last \in Nodes
  BY <1>1 DEF Init
<1>3. NalFlag \in BOOLEAN /\ IsFU_A \in BOOLEAN
  BY DEF Init
<1>4. TypeOK
  BY <1>2, <1>3 DEF Init, TypeOK
<1> QED BY <1>4 DEF Init, Shape, ScanShape, LargeShape, CountShape, BlockUsedUp

LEMMA DevNodeShape ==
  ASSUME Shape, NEW b \in Blocks, DevNode(b)
  PROVE  Shape'
<1>1. b \in Seq(Nat) /\ Len(b) >= 4
  BY H264Assumption
<1>2. /\ task' = "scan" /\ block' = b /\ blockno' = blockno + 1
      /\ pos' = 0 /\ sta' = 0 /\ NalFlag' = FALSE
      /\ task # "large"
      /\ UNCHANGED <<from, end, dpage, IsFU_A, nal_type, DevCount, bufferlist,
                     last>>
  BY DEF DevNode, large
<1>3. NalFlag' \in BOOLEAN /\ IsFU_A' \in BOOLEAN
  BY <1>2 DEF Shape, TypeOK
<1>4. TypeOK'
  BY <1>1, <1>2, <1>3 DEF Shape, TypeOK, LargeShape
<1> QED
  BY <1>1, <1>2, <1>4
     DEF Shape, TypeOK, ScanShape, LargeShape, CountShape, BlockUsedUp

LEMMA AdvanceShape == Shape /\ Advance => Shape'
<1> SUFFICES ASSUME Shape, Advance PROVE Shape'
  OBVIOUS
<1>1. /\ task = "scan" /\ sta < Len(block) - 4 /\ sta' = sta + 1
      /\ UNCHANGED <<task, block, blockno, pos, NalFlag, from, end, dpage,
                     IsFU_A, nal_type, DevCount, bufferlist, last>>
  BY DEF Advance, Scanning, large
<1>2. NalFlag' \in BOOLEAN /\ IsFU_A' \in BOOLEAN
  BY <1>1 DEF Shape, TypeOK
<1>3. TypeOK'
  BY <1>1, <1>2 DEF Shape, TypeOK
<1> QED
  BY <1>1, <1>3
     DEF Shape, TypeOK, ScanShape, LargeShape, CountShape, BlockUsedUp

(* Where the search is when it meets a start code, and what DevNode puts   *)
(* into DevLargeNode's hands.                                              *)
LEMMA AtStartCode ==
  ASSUME Shape, Scanning, StartCode(sta) # 0
  PROVE  /\ task = "scan" /\ sta \in Nat /\ Len(block) \in Nat
         /\ StartCode(sta) \in 3 .. 4
         /\ sta + StartCode(sta) < Len(block)
         /\ pos \in Nat /\ pos < Len(block) /\ Byte(pos) \in Nat
<1>1. task = "scan" /\ sta \in Nat /\ Len(block) \in Nat /\ sta < Len(block) - 4
  BY DEF Scanning, Shape, TypeOK
<1>2. StartCode(sta) \in 3 .. 4
  BY StartCodeLength
<1>3. pos \in Nat /\ pos < Len(block)
  BY <1>1 DEF Shape, TypeOK, ScanShape
<1> QED BY <1>1, <1>2, <1>3, ByteType DEF Shape

LEMMA CallFlag ==
  ASSUME NEW p, NEW n, NEW d \in 0 .. 2, Call(p, n, d)
  PROVE  IsFU_A' \in BOOLEAN /\ (IsFU_A' <=> d > 0)
<1>1. IsFU_A' = (d > 0)
  BY DEF Call
<1>2. IsFU_A' \in BOOLEAN
  BY <1>1
<1>3. IsFU_A' <=> d > 0
  BY <1>1, Zenon
<1> QED BY <1>2, <1>3

LEMMA FirstStartCodeShape == Shape /\ FirstStartCode => Shape'
<1> SUFFICES ASSUME Shape, FirstStartCode PROVE Shape'
  OBVIOUS
<1> DEFINE n == StartCode(sta)
<1>1. /\ task = "scan" /\ sta \in Nat /\ Len(block) \in Nat
      /\ n \in 3 .. 4 /\ sta + n < Len(block)
  BY AtStartCode DEF FirstStartCode
<1>2. pos = 0 /\ Len(block) >= 4 /\ blockno > 0
  BY <1>1 DEF FirstStartCode, Shape, ScanShape
<1> HIDE DEF n
<1>3. /\ NalFlag' = TRUE /\ pos' = sta + n /\ sta' = sta + n
      /\ UNCHANGED <<block, blockno, DevCount, bufferlist, last>>
  BY <1>1, <1>2 DEF FirstStartCode, n
<1>4. CASE DevCount > 0
  <2>1. /\ task' = "large" /\ from' = 0 /\ dpage' = 2
        /\ end' = (IF sta = 0 THEN 0 ELSE sta - 1)
        /\ nal_type' = Byte(0)
    BY <1>1, <1>4 DEF FirstStartCode, Call
  <2>2. Byte(0) \in Nat /\ end' \in 0 .. Len(block)
    BY <1>1, <1>2, <2>1, ByteType DEF Shape
  <2>3. NalFlag' /\ NalFlag' \in BOOLEAN /\ IsFU_A' \in BOOLEAN /\ IsFU_A'
    BY <1>1, <1>3, <1>4, CallFlag DEF FirstStartCode
  <2>4. TypeOK'
    BY <1>1, <1>3, <2>1, <2>2, <2>3 DEF Shape, TypeOK
  <2>5. LargeShape'
    BY <1>3, <1>4, <2>1, <2>3 DEF LargeShape
  <2> QED
    BY <1>1, <1>2, <1>3, <2>1, <2>4, <2>5
       DEF Shape, ScanShape, CountShape, BlockUsedUp
<1>5. CASE ~ (DevCount > 0)
  <2>1. UNCHANGED <<task, from, end, dpage, IsFU_A, nal_type>> /\ DevCount = 0
    BY <1>5 DEF FirstStartCode, large, Shape, TypeOK
  <2>2. NalFlag' \in BOOLEAN /\ IsFU_A' \in BOOLEAN
    BY <1>3, <2>1 DEF Shape, TypeOK
  <2>3. TypeOK'
    BY <1>1, <1>3, <2>1, <2>2 DEF Shape, TypeOK
  <2> QED
    BY <1>1, <1>2, <1>3, <2>1, <2>3
       DEF Shape, ScanShape, LargeShape, CountShape, BlockUsedUp
<1> QED BY <1>4, <1>5

LEMMA RawNodeType ==
  ASSUME Shape, RawNode
  PROVE  Node(Byte(pos), IF sta > pos + 1 THEN Byte(pos + 1) ELSE 0, Byte(pos),
              pos, sta) \in Nodes
<1>1. /\ sta \in Nat /\ sta < Len(block) /\ Len(block) \in Nat
      /\ pos \in Nat /\ Byte(pos) \in Nat
  BY AtStartCode DEF RawNode
<1>2. (IF sta > pos + 1 THEN Byte(pos + 1) ELSE 0) \in Nat
  BY <1>1, ByteType DEF Shape
<1> QED BY <1>1, <1>2, NodeType DEF Shape

LEMMA NextNalShape ==
  ASSUME Shape, Scanning, StartCode(sta) # 0, NalFlag, NextNal
  PROVE  /\ pos' \in 0 .. Len(block) /\ sta' \in 0 .. Len(block)
         /\ pos' < Len(block) /\ pos' <= sta'
BY AtStartCode DEF NextNal

LEMMA RawNodeShape == Shape /\ RawNode => Shape'
<1> SUFFICES ASSUME Shape, RawNode PROVE Shape'
  OBVIOUS
<1>1. /\ pos' \in 0 .. Len(block) /\ sta' \in 0 .. Len(block)
      /\ pos' < Len(block) /\ pos' <= sta'
  BY NextNalShape DEF RawNode
<1>2. /\ task = "scan" /\ NalFlag
      /\ UNCHANGED <<task, block, blockno, NalFlag, from, end, dpage, IsFU_A,
                     nal_type, DevCount, last>>
  BY DEF RawNode, Scanning, large
<1>3. bufferlist' \in Seq(Nodes)
  BY RawNodeType DEF RawNode, Shape, TypeOK
<1>4. NalFlag' \in BOOLEAN /\ IsFU_A' \in BOOLEAN
  BY <1>2 DEF Shape, TypeOK
<1>5. TypeOK'
  BY <1>1, <1>2, <1>3, <1>4 DEF Shape, TypeOK
<1> QED
  BY <1>1, <1>2, <1>5
     DEF Shape, ScanShape, LargeShape, CountShape, BlockUsedUp

LEMMA NextStartCodeShape == Shape /\ NextStartCode => Shape'
<1> SUFFICES ASSUME Shape, NextStartCode PROVE Shape'
  OBVIOUS
<1>1. /\ pos' \in 0 .. Len(block) /\ sta' \in 0 .. Len(block)
      /\ pos' < Len(block) /\ pos' <= sta'
  BY NextNalShape DEF NextStartCode
<1>2. /\ task = "scan" /\ NalFlag /\ task' = "large"
      /\ from' = pos /\ end' = pos + (sta - pos) /\ dpage' = 0
      /\ nal_type' = Byte(pos)
      /\ UNCHANGED <<block, blockno, NalFlag, DevCount, bufferlist, last>>
  BY DEF NextStartCode, Scanning, Call
<1>3. /\ pos \in 0 .. Len(block) /\ sta \in 0 .. Len(block) /\ pos <= sta
      /\ pos < Len(block) /\ Byte(pos) \in Nat /\ DevCount = 0
  BY <1>2, ByteType DEF Shape, TypeOK, ScanShape, CountShape
<1>4. NalFlag' /\ NalFlag' \in BOOLEAN
  BY <1>2 DEF Shape, TypeOK
<1>5. IsFU_A' \in BOOLEAN /\ ~ IsFU_A'
  BY CallFlag DEF NextStartCode
<1>6. TypeOK'
  BY <1>1, <1>2, <1>3, <1>4, <1>5 DEF Shape, TypeOK
<1>7. LargeShape'
  BY <1>2, <1>3, <1>4, <1>5 DEF LargeShape
<1> QED
  BY <1>1, <1>2, <1>3, <1>6, <1>7
     DEF Shape, ScanShape, CountShape, BlockUsedUp

LEMMA LeftoverShape == Shape /\ Leftover => Shape'
<1> SUFFICES ASSUME Shape, Leftover PROVE Shape'
  OBVIOUS
<1>1. /\ task = "scan" /\ task' = "large"
      /\ from' = pos /\ end' = pos + (Len(block) - pos) /\ dpage' = 1
      /\ nal_type' = Byte(pos)
      /\ UNCHANGED <<block, blockno, pos, sta, NalFlag, DevCount, bufferlist,
                     last>>
  BY DEF Leftover, Call, scan
<1>2. /\ pos \in 0 .. Len(block) /\ Len(block) \in Nat
      /\ pos < Len(block) /\ Byte(pos) \in Nat
  BY <1>1, ByteType DEF Shape, TypeOK, ScanShape
<1>3. end' = Len(block)
  BY <1>1, <1>2
<1>4. NalFlag' \in BOOLEAN
  BY <1>1 DEF Shape, TypeOK
<1>5. IsFU_A' \in BOOLEAN /\ IsFU_A'
  BY CallFlag DEF Leftover
<1>6. TypeOK'
  BY <1>1, <1>2, <1>3, <1>4, <1>5 DEF Shape, TypeOK
<1>7. LargeShape'
  BY <1>1, <1>3, <1>5 DEF LargeShape
<1> QED
  BY <1>1, <1>2, <1>3, <1>6, <1>7
     DEF Shape, ScanShape, CountShape, BlockUsedUp

(* The two ends of DevLargeNode and its loop.                              *)
LEMMA LargeNodeType ==
  ASSUME Shape, NEW n \in Nat, NEW start \in Nat, NEW stop \in Nat
  PROVE  Node(1, n % MarkMod, nal_type, start, stop) \in Nodes
BY MarkType, NodeType DEF Shape, TypeOK

LEMMA FragmentShape == Shape /\ Fragment => Shape'
<1> SUFFICES ASSUME Shape, Fragment PROVE Shape'
  OBVIOUS
<1>1. /\ task = "large" /\ end - from > Limit
      /\ from' = from + Limit /\ DevCount' = DevCount + 1
      /\ IsFU_A' = TRUE
      /\ UNCHANGED <<task, block, blockno, pos, sta, NalFlag, end, dpage,
                     nal_type, last>>
  BY DEF Fragment, NextFragment, scan
<1>2. /\ from \in 0 .. Len(block) /\ end \in 0 .. Len(block)
      /\ Len(block) \in Nat /\ DevCount \in Nat /\ Limit \in Nat
  BY H264Assumption DEF Shape, TypeOK
<1>3. bufferlist' \in Seq(Nodes)
  BY <1>1, <1>2, LargeNodeType DEF Fragment, Shape, TypeOK
<1>4. from' \in 0 .. Len(block) /\ from' <= end /\ from' < Len(block)
  BY <1>1, <1>2
<1>5. IsFU_A' /\ IsFU_A' \in BOOLEAN /\ NalFlag' \in BOOLEAN
  BY <1>1 DEF Shape, TypeOK
<1>6. TypeOK'
  BY <1>1, <1>2, <1>3, <1>4, <1>5 DEF Shape, TypeOK
<1>7. LargeShape'
  BY <1>1, <1>2, <1>4, <1>5 DEF Shape, LargeShape
<1> QED
  BY <1>1, <1>6, <1>7 DEF Shape, ScanShape, CountShape, BlockUsedUp

LEMMA ReturnShape ==
  ASSUME Shape, task = "large", Return,
         UNCHANGED <<block, blockno, pos, sta, NalFlag, last>>,
         DevCount' \in Nat, bufferlist' \in Seq(Nodes),
         dpage # 1 => DevCount' = 0,
         dpage = 1 => DevCount' > 0 /\ Latest'.stop = Len(block)
  PROVE  Shape'
<1>1. /\ task' = (IF dpage = 1 THEN "idle" ELSE "scan")
      /\ from' = 0 /\ end' = 0 /\ dpage' = 0 /\ IsFU_A' = FALSE
      /\ nal_type' = 0
  BY DEF Return
<1>2. IsFU_A' \in BOOLEAN /\ NalFlag' \in BOOLEAN
  BY <1>1 DEF Shape, TypeOK
<1>3. TypeOK'
  BY <1>1, <1>2 DEF Shape, TypeOK
<1>4. ScanShape' /\ LargeShape' /\ CountShape'
  BY <1>1 DEF Shape, ScanShape, LargeShape, CountShape
<1>5. BlockUsedUp'
  BY <1>1 DEF BlockUsedUp, Latest
<1> QED BY <1>3, <1>4, <1>5 DEF Shape

LEMMA LatestIs ==
  ASSUME TypeOK, NEW n \in Nodes, UNCHANGED last,
         bufferlist' = Append(bufferlist, n)
  PROVE  Latest' = n
BY LatestAppend DEF TypeOK, Latest, Cutting

LEMMA LastFragmentShape == Shape /\ LastFragment => Shape'
<1> SUFFICES ASSUME Shape, LastFragment PROVE Shape'
  OBVIOUS
<1> DEFINE count == IF dpage = 1 THEN DevCount + 1 ELSE 0
           start == IF dpage = 1 /\ count = 1 THEN from + 1 ELSE from
           node == Node(1, count % MarkMod, nal_type, start, end)
<1>1. /\ task = "large" /\ Return /\ DevCount' = count
      /\ bufferlist' = Append(bufferlist, node)
      /\ UNCHANGED <<block, blockno, pos, sta, NalFlag, last>>
  BY DEF LastFragment, scan
<1>2. count \in Nat /\ start \in Nat /\ end \in Nat
  BY DEF Shape, TypeOK
<1>3. node \in Nodes /\ node.stop = end
  BY <1>2, LargeNodeType DEF Node
<1>4. bufferlist' \in Seq(Nodes) /\ Latest' = node
  BY <1>1, <1>3, LatestIs DEF Shape, TypeOK
<1>5. dpage = 1 => end = Len(block)
  BY <1>1 DEF Shape, LargeShape
<1>6. dpage # 1 => count = 0
  OBVIOUS
<1>7. dpage = 1 => count > 0
  BY DEF Shape, TypeOK
<1> HIDE DEF count, start, node
<1> QED BY <1>1, <1>2, <1>3, <1>4, <1>5, <1>6, <1>7, ReturnShape

LEMMA SingleCall ==
  ASSUME Shape, Single
  PROVE  task = "large" /\ dpage = 0 /\ DevCount = 0 /\ from < Len(block)
<1>1. task = "large" /\ ~ IsFU_A
  BY DEF Single
<1>2. dpage \in 0 .. 2 /\ DevCount \in Nat
  BY DEF Shape, TypeOK
<1> QED BY <1>1, <1>2 DEF Shape, LargeShape

LEMMA SingleShape == Shape /\ Single => Shape'
<1> SUFFICES ASSUME Shape, Single PROVE Shape'
  OBVIOUS
<1> DEFINE node == Node(DevCount % MarkMod, 0, Byte(from), from, end)
<1>1. task = "large" /\ dpage = 0 /\ DevCount = 0 /\ from < Len(block)
  BY SingleCall
<1>2. /\ Return /\ DevCount' = 0 /\ bufferlist' = Append(bufferlist, node)
      /\ UNCHANGED <<block, blockno, pos, sta, NalFlag, last>>
  BY DEF Single, scan
<1>3. from \in Nat /\ end \in Nat /\ Byte(from) \in Nat
  BY <1>1, ByteType DEF Shape, TypeOK
<1>4. node \in Nodes
  BY <1>1, <1>3, MarkType, NodeType DEF Shape
<1>5. bufferlist' \in Seq(Nodes)
  BY <1>2, <1>4 DEF Shape, TypeOK
<1> QED BY <1>1, <1>2, <1>5, ReturnShape

LEMMA GetNodeShape == Shape /\ GetNode => Shape'
<1> SUFFICES ASSUME Shape, GetNode PROVE Shape'
  OBVIOUS
<1>1. /\ task = "idle" /\ bufferlist # <<>>
      /\ last' = Head(bufferlist) /\ bufferlist' = Tail(bufferlist)
      /\ UNCHANGED <<task, block, blockno, pos, sta, NalFlag, from, end, dpage,
                     IsFU_A, nal_type, DevCount>>
  BY DEF GetNode, scan, large
<1>2. last' \in Nodes /\ bufferlist' \in Seq(Nodes)
  BY <1>1, CuttingTail DEF Shape, TypeOK
<1>3. Latest' = Latest
  BY <1>1, LatestTail DEF Shape, TypeOK, Latest, Cutting
<1>4. NalFlag' \in BOOLEAN /\ IsFU_A' \in BOOLEAN
  BY <1>1 DEF Shape, TypeOK
<1>5. TypeOK'
  BY <1>1, <1>2, <1>4 DEF Shape, TypeOK
<1>6. BlockUsedUp'
  BY <1>1, <1>3 DEF Shape, BlockUsedUp, Latest
<1>7. ScanShape' /\ LargeShape' /\ CountShape'
  BY <1>1 DEF Shape, ScanShape, LargeShape, CountShape
<1> QED BY <1>5, <1>6, <1>7 DEF Shape

LEMMA NextShape == Shape /\ [Next]_vars => Shape'
<1> SUFFICES ASSUME Shape, [Next]_vars PROVE Shape'
  OBVIOUS
<1>1. ASSUME NEW b \in Blocks, DevNode(b) PROVE Shape'
  BY <1>1, DevNodeShape
<1>2. CASE Cut
  BY <1>2, AdvanceShape, FirstStartCodeShape, RawNodeShape,
     NextStartCodeShape, LeftoverShape, FragmentShape, LastFragmentShape,
     SingleShape DEF Cut
<1>3. CASE GetNode
  BY <1>3, GetNodeShape
<1>4. CASE UNCHANGED vars
  BY <1>4 DEF vars, scan, large, Shape, TypeOK, ScanShape, LargeShape,
              CountShape, BlockUsedUp, Cutting
<1> QED BY <1>1, <1>2, <1>3, <1>4 DEF Next

(* For all blocks, and marks that may wrap: DevNode's and DevLargeNode's   *)
(* loops stay inside the block (the code has no check), and every block is *)
(* used up to its last byte, with the NAL unit of that byte left open.     *)
THEOREM LoopsStayInBlock == Spec => [](TypeOK /\ BlockUsedUp)
<1>1. Shape => TypeOK /\ BlockUsedUp
  BY DEF Shape
<1> QED BY <1>1, InitShape, NextShape, PTL DEF Spec

-----------------------------------------------------------------------------
(* The runs of nodes. Two nodes may follow each other in this way:         *)
Fits(a, b) ==
  /\ Opens(a) <=> Continues(b)
  /\ a.blockno = b.blockno /\ a # NoNode =>
       b.start - a.stop \in IF Continues(b) THEN 0 .. 1 ELSE 3 .. 6

Chain(s) == \A i \in 1 .. Len(s) - 1 : Fits(s[i], s[i + 1])

(* The nodes that can still be cut from the bytes at hand do not carry     *)
(* DevCount to MarkMod; those of a NAL unit that starts in the block start *)
(* from 0.                                                                 *)
MarksSuffice ==
  /\ task # "idle" => MostNodes(Len(block)) < MarkMod
  /\ task = "scan" => DevCount + MostNodes(Len(block)) < MarkMod
  /\ task = "large" => DevCount + MostNodes(end - from) < MarkMod

(* Where the next node of the block would start, seen from the newest one. *)
Where ==
  /\ Latest.blockno <= blockno
  /\ task = "scan" /\ ~ NalFlag => Latest.blockno < blockno
  /\ task = "scan" /\ NalFlag /\ Latest.blockno = blockno =>
       pos - Latest.stop \in 3 .. 5
  /\ task = "large" /\ dpage # 1 => pos - end \in 3 .. 5
  /\ task = "large" /\ Latest.blockno = blockno =>
       IF DevCount > 0 THEN from = Latest.stop
       ELSE from - Latest.stop \in 3 .. 5

Grammar ==
  /\ Chain(Cutting)
  /\ Opens(Latest) <=> DevCount > 0
  /\ MarksSuffice
  /\ Where

LEMMA MostNodesType ==
  ASSUME NEW n \in Nat
  PROVE  MostNodes(n) \in Nat /\ MostNodes(n) >= 1
BY H264Assumption DEF MostNodes

LEMMA MostNodesGrow ==
  ASSUME NEW n \in Nat, NEW m \in Nat, n <= m
  PROVE  MostNodes(n) <= MostNodes(m)
<1>1. Limit \in Nat \ {0}
  BY H264Assumption
<1>2. n \div Limit <= m \div Limit /\ n \div Limit \in Nat /\ m \div Limit \in Nat
  BY <1>1
<1> QED BY <1>2 DEF MostNodes

(* A fragment takes one node off what is left.                             *)
LEMMA MostNodesOfRest ==
  ASSUME NEW n \in Nat, n > Limit
  PROVE  n - Limit \in Nat /\ MostNodes(n - Limit) = MostNodes(n) - 1
<1>1. Limit \in Nat \ {0}
  BY H264Assumption
<1>2. (n - Limit) \div Limit = n \div Limit - 1 /\ n \div Limit \in Nat
  BY <1>1
<1> QED BY <1>1, <1>2 DEF MostNodes

LEMMA ChainAppend ==
  ASSUME NEW s \in Seq(Nodes), s # <<>>, Chain(s), NEW n \in Nodes,
         Fits(s[Len(s)], n)
  PROVE  Chain(Append(s, n))
BY DEF Chain

LEMMA ChainTail ==
  ASSUME NEW s \in Seq(Nodes), s # <<>>, Chain(s)
  PROVE  Chain(Tail(s))
BY DEF Chain

(* A node that fits the newest one goes behind it.                         *)
LEMMA NewNode ==
  ASSUME TypeOK, Chain(Cutting), NEW n \in Nodes, Fits(Latest, n),
         UNCHANGED last, bufferlist' = Append(bufferlist, n)
  PROVE  Chain(Cutting') /\ Latest' = n
<1>1. /\ last \in Nodes /\ bufferlist \in Seq(Nodes)
      /\ Cutting' = <<last>> \o Append(bufferlist, n)
  BY DEF TypeOK, Cutting
<1>2. /\ Cutting' = Append(Cutting, n)
      /\ Cutting \in Seq(Nodes) /\ Cutting # <<>>
  BY <1>1, CuttingAppend DEF Cutting
<1>3. Chain(Cutting')
  BY <1>2, ChainAppend DEF Latest
<1> QED BY <1>3, LatestIs

LEMMA Mark ==
  ASSUME NEW n \in Nat, n < MarkMod
  PROVE  n % MarkMod = n
BY H264Assumption

LEMMA LatestType ==
  ASSUME TypeOK
  PROVE  /\ Latest \in Nodes /\ Latest.stop \in Nat /\ Latest.blockno \in Nat
         /\ Latest.b0 \in Nat /\ Latest.b1 \in Nat
<1>1. Cutting \in Seq(Nodes) /\ Cutting # <<>>
  BY CuttingAppend DEF TypeOK, Cutting
<1>2. Latest \in Nodes
  BY <1>1 DEF Latest
<1> QED BY <1>2 DEF Nodes

LEMMA NoNewNode ==
  ASSUME UNCHANGED <<last, bufferlist>>
  PROVE  Latest' = Latest /\ Cutting' = Cutting
BY DEF Latest, Cutting

LEMMA InitGrammar == Init => Grammar
<1> SUFFICES ASSUME Init PROVE Grammar
  OBVIOUS
<1>1. Cutting = <<NoNode>> /\ Latest = NoNode
  BY DEF Init, Cutting, Latest
<1>2. Chain(Cutting)
  BY <1>1 DEF Chain
<1>3. ~ Opens(Latest) /\ Latest.blockno = 0
  BY <1>1 DEF Opens, NoNode
<1> QED BY <1>2, <1>3 DEF Init, Grammar, MarksSuffice, Where

LEMMA DevNodeGrammar ==
  ASSUME LongNals = FALSE, Shape, Grammar, NEW b \in Blocks, DevNode(b)
  PROVE  Grammar'
<1>1. /\ task' = "scan" /\ block' = b /\ blockno' = blockno + 1
      /\ NalFlag' = FALSE /\ DevCount + MostNodes(Len(b)) < MarkMod
      /\ UNCHANGED <<DevCount, bufferlist, last>>
  BY DEF DevNode
<1>2. Latest' = Latest /\ Cutting' = Cutting
  BY <1>1, NoNewNode
<1>3. /\ DevCount \in Nat /\ blockno \in Nat
      /\ MostNodes(Len(b)) \in Nat /\ MarkMod \in Nat
  BY H264Assumption, MostNodesType DEF Shape, TypeOK
<1>4. Latest.blockno \in Nat
  BY LatestType DEF Shape
<1>5. MarksSuffice'
  BY <1>1, <1>3 DEF MarksSuffice
<1>6. Where'
  BY <1>1, <1>2, <1>3, <1>4 DEF Grammar, Where
<1> QED BY <1>1, <1>2, <1>5, <1>6 DEF Grammar

LEMMA AdvanceGrammar == Shape /\ Grammar /\ Advance => Grammar'
<1> SUFFICES ASSUME Shape, Grammar, Advance PROVE Grammar'
  OBVIOUS
<1>1. /\ task = "scan"
      /\ UNCHANGED <<task, block, blockno, pos, NalFlag, DevCount, bufferlist,
                     last>>
  BY DEF Advance, Scanning
<1>2. Latest' = Latest /\ Cutting' = Cutting
  BY <1>1, NoNewNode
<1> QED BY <1>1, <1>2 DEF Grammar, MarksSuffice, Where

LEMMA FirstStartCodeGrammar == Shape /\ Grammar /\ FirstStartCode => Grammar'
<1> SUFFICES ASSUME Shape, Grammar, FirstStartCode PROVE Grammar'
  OBVIOUS
<1> DEFINE n == StartCode(sta)
<1>1. /\ task = "scan" /\ sta \in Nat /\ Len(block) \in Nat
      /\ n \in 3 .. 4 /\ sta + n < Len(block)
  BY AtStartCode DEF FirstStartCode
<1>2. /\ pos = 0 /\ ~ NalFlag
      /\ NalFlag' = TRUE /\ pos' = pos + sta + n
      /\ UNCHANGED <<block, blockno, DevCount, bufferlist, last>>
  BY <1>1 DEF FirstStartCode, Shape, ScanShape
<1>3. Latest' = Latest /\ Cutting' = Cutting
  BY <1>2, NoNewNode
<1>4. Latest.blockno < blockno /\ Latest.blockno \in Nat /\ blockno \in Nat
  BY <1>1, <1>2, LatestType DEF Grammar, Where, Shape, TypeOK
<1>5. /\ DevCount + MostNodes(Len(block)) < MarkMod
      /\ DevCount \in Nat /\ MarkMod \in Nat /\ MostNodes(Len(block)) \in Nat
  BY <1>1, H264Assumption, MostNodesType
     DEF Grammar, MarksSuffice, Shape, TypeOK
<1> HIDE DEF n
<1>6. CASE DevCount > 0
  <2>1. /\ task' = "large" /\ from' = 0 /\ dpage' = 2
        /\ end' = 0 + (IF sta = 0 THEN 0 ELSE sta - 1)
    BY <1>6 DEF FirstStartCode, Call
  <2>2. MarksSuffice'
    <3>1. end' - from' \in Nat /\ end' - from' <= Len(block)
      BY <1>1, <2>1
    <3>2. /\ MostNodes(end' - from') <= MostNodes(Len(block))
          /\ MostNodes(end' - from') \in Nat
      BY <1>1, <3>1, MostNodesGrow, MostNodesType
    <3> QED BY <1>2, <1>5, <2>1, <3>2 DEF MarksSuffice
  <2>3. pos' - end' \in 3 .. 5
    BY <1>1, <1>2, <2>1
  <2>4. Where'
    BY <1>2, <1>3, <1>4, <2>1, <2>3 DEF Where
  <2> QED BY <1>2, <1>3, <2>2, <2>4 DEF Grammar
<1>7. CASE ~ (DevCount > 0)
  <2>1. task' = task
    BY <1>7 DEF FirstStartCode
  <2>2. MarksSuffice'
    BY <1>1, <1>2, <2>1 DEF Grammar, MarksSuffice
  <2>3. Where'
    BY <1>1, <1>2, <1>3, <1>4, <2>1 DEF Where
  <2> QED BY <1>2, <1>3, <2>2, <2>3 DEF Grammar
<1> QED BY <1>6, <1>7

LEMMA RawNodeGrammar == Shape /\ Grammar /\ RawNode => Grammar'
<1> SUFFICES ASSUME Shape, Grammar, RawNode PROVE Grammar'
  OBVIOUS
<1> DEFINE n == StartCode(sta)
           node == Node(Byte(pos), IF sta > pos + 1 THEN Byte(pos + 1) ELSE 0,
                        Byte(pos), pos, sta)
<1>1. /\ task = "scan" /\ sta \in Nat /\ Len(block) \in Nat /\ n \in 3 .. 4
      /\ pos \in Nat /\ Byte(pos) \in Nat
  BY AtStartCode DEF RawNode
<1>2. /\ NalFlag /\ Byte(pos) % 32 >= 6 /\ pos' = sta + n
      /\ bufferlist' = Append(bufferlist, node)
      /\ UNCHANGED <<task, block, blockno, NalFlag, DevCount, last>>
  BY DEF RawNode, NextNal, Type
<1>3. DevCount = 0 /\ blockno > 0 /\ blockno \in Nat
  BY <1>1, <1>2 DEF Shape, TypeOK, CountShape, ScanShape
<1>4. node.b0 # 1 /\ node.start = pos /\ node.stop = sta
      /\ node.blockno = blockno
  BY <1>1, <1>2 DEF Node
<1>5. ~ Opens(node) /\ ~ Continues(node)
  BY <1>4 DEF Opens, Continues
<1>6. node \in Nodes
  BY RawNodeType
<1> HIDE DEF n, node
<1>7. ~ Opens(Latest)
  BY <1>3 DEF Grammar
<1>8. Latest.blockno = blockno => pos - Latest.stop \in 3 .. 5
  BY <1>1, <1>2 DEF Grammar, Where
<1>9. Fits(Latest, node)
  BY <1>1, <1>4, <1>5, <1>7, <1>8, LatestType DEF Fits, Shape
<1>10. Chain(Cutting') /\ Latest' = node
  BY <1>2, <1>6, <1>9, NewNode DEF Grammar, Shape
<1>11. MarksSuffice'
  BY <1>1, <1>2 DEF Grammar, MarksSuffice
<1>12. pos' - Latest'.stop \in 3 .. 5
  BY <1>1, <1>2, <1>4, <1>10
<1>13. Where'
  BY <1>1, <1>2, <1>3, <1>4, <1>10, <1>12 DEF Where
<1> QED BY <1>2, <1>3, <1>5, <1>10, <1>11, <1>13 DEF Grammar

LEMMA NextStartCodeGrammar == Shape /\ Grammar /\ NextStartCode => Grammar'
<1> SUFFICES ASSUME Shape, Grammar, NextStartCode PROVE Grammar'
  OBVIOUS
<1> DEFINE n == StartCode(sta)
<1>1. /\ task = "scan" /\ sta \in Nat /\ Len(block) \in Nat /\ n \in 3 .. 4
      /\ pos \in Nat /\ sta + n < Len(block)
  BY AtStartCode DEF NextStartCode
<1>2. /\ NalFlag /\ pos' = sta + n /\ task' = "large" /\ dpage' = 0
      /\ from' = pos /\ end' = pos + (sta - pos)
      /\ UNCHANGED <<block, blockno, NalFlag, DevCount, bufferlist, last>>
  BY DEF NextStartCode, NextNal, Call
<1>3. DevCount = 0 /\ pos <= sta
  BY <1>1, <1>2 DEF Shape, CountShape, ScanShape
<1>4. Latest' = Latest /\ Cutting' = Cutting
  BY <1>2, NoNewNode
<1> HIDE DEF n
<1>5. MarksSuffice'
  <2>1. end' - from' \in Nat /\ end' - from' <= Len(block)
    BY <1>1, <1>2, <1>3
  <2>2. /\ MostNodes(end' - from') <= MostNodes(Len(block))
        /\ MostNodes(end' - from') \in Nat /\ MostNodes(Len(block)) \in Nat
    BY <1>1, <2>1, MostNodesGrow, MostNodesType
  <2> QED BY <1>1, <1>2, <1>3, <2>2, H264Assumption DEF Grammar, MarksSuffice
<1>6. pos' - end' \in 3 .. 5
  BY <1>1, <1>2
<1>7. Latest.blockno = blockno => pos - Latest.stop \in 3 .. 5
  BY <1>1, <1>2 DEF Grammar, Where
<1>8. Where'
  BY <1>2, <1>3, <1>4, <1>6, <1>7 DEF Grammar, Where
<1> QED BY <1>2, <1>4, <1>5, <1>8 DEF Grammar

LEMMA LeftoverGrammar == Shape /\ Grammar /\ Leftover => Grammar'
<1> SUFFICES ASSUME Shape, Grammar, Leftover PROVE Grammar'
  OBVIOUS
<1>1. /\ task = "scan" /\ task' = "large" /\ dpage' = 1
      /\ from' = pos /\ end' = pos + (Len(block) - pos)
      /\ UNCHANGED <<block, blockno, pos, NalFlag, DevCount, bufferlist, last>>
  BY DEF Leftover, Call, scan
<1>2. /\ pos \in Nat /\ Len(block) \in Nat /\ pos < Len(block)
      /\ DevCount \in Nat /\ MarkMod \in Nat /\ blockno \in Nat
  BY <1>1, H264Assumption DEF Shape, TypeOK, ScanShape
<1>3. Latest' = Latest /\ Cutting' = Cutting
  BY <1>1, NoNewNode
<1>4. MarksSuffice'
  <2>1. end' - from' \in Nat /\ end' - from' <= Len(block)
    BY <1>1, <1>2
  <2>2. /\ MostNodes(end' - from') <= MostNodes(Len(block))
        /\ MostNodes(end' - from') \in Nat /\ MostNodes(Len(block)) \in Nat
    BY <1>2, <2>1, MostNodesGrow, MostNodesType
  <2> QED BY <1>1, <1>2, <2>2 DEF Grammar, MarksSuffice
<1>5. Latest.blockno = blockno =>
        NalFlag /\ DevCount = 0 /\ pos - Latest.stop \in 3 .. 5
  BY <1>1, <1>2 DEF Grammar, Where, Shape, CountShape
<1>6. Where'
  BY <1>1, <1>2, <1>3, <1>5 DEF Grammar, Where
<1> QED BY <1>1, <1>3, <1>4, <1>6 DEF Grammar

LEMMA FragmentGrammar == Shape /\ Grammar /\ Fragment => Grammar'
<1> SUFFICES ASSUME Shape, Grammar, Fragment PROVE Grammar'
  OBVIOUS
<1> DEFINE mark == (DevCount + 1) % MarkMod
           node == Node(1, mark, nal_type, from + 1, from + Limit)
<1>1. /\ task = "large" /\ end - from > Limit
      /\ from' = from + Limit /\ DevCount' = DevCount + 1
      /\ bufferlist' = Append(bufferlist, node)
      /\ UNCHANGED <<task, block, blockno, pos, NalFlag, end, dpage, last>>
  BY DEF Fragment, NextFragment, scan
<1>2. /\ from \in Nat /\ end \in Nat /\ Limit \in Nat /\ Limit >= 2
      /\ DevCount \in Nat /\ MarkMod \in Nat /\ blockno \in Nat
  BY H264Assumption DEF Shape, TypeOK
<1>3. /\ DevCount + MostNodes(end - from) < MarkMod
      /\ end - from \in Nat /\ MostNodes(end - from) \in Nat
      /\ MostNodes(end - from) >= 1
  BY <1>1, <1>2, MostNodesType DEF Grammar, MarksSuffice
<1>4. mark = DevCount + 1
  BY <1>1, <1>2, <1>3, Mark
<1>5. node \in Nodes
  <2>1. DevCount + 1 \in Nat /\ from + 1 \in Nat /\ from + Limit \in Nat
    BY <1>2
  <2> QED BY <2>1, LargeNodeType
<1>6. /\ node.b0 = 1 /\ node.b1 = DevCount + 1 /\ node.blockno = blockno
      /\ node.start = from + 1 /\ node.stop = from + Limit
  BY <1>4 DEF Node
<1>7. Opens(node) /\ (Continues(node) <=> DevCount > 0)
  BY <1>2, <1>6 DEF Opens, Continues
<1> HIDE DEF mark, node
<1>8. Latest.blockno = blockno =>
        IF DevCount > 0 THEN from = Latest.stop
        ELSE from - Latest.stop \in 3 .. 5
  BY <1>1 DEF Grammar, Where
<1>9. Fits(Latest, node)
  BY <1>2, <1>6, <1>7, <1>8, LatestType DEF Fits, Grammar, Shape
<1>10. Chain(Cutting') /\ Latest' = node
  BY <1>1, <1>5, <1>9, NewNode DEF Grammar, Shape
<1>11. MarksSuffice'
  <2>1. end' - from' = (end - from) - Limit
    BY <1>1, <1>2
  <2>2. MostNodes(end' - from') = MostNodes(end - from) - 1
    BY <1>1, <1>3, <2>1, MostNodesOfRest
  <2> QED BY <1>1, <1>2, <1>3, <2>2 DEF Grammar, MarksSuffice
<1>12. Where'
  BY <1>1, <1>2, <1>6, <1>10 DEF Grammar, Where
<1> QED BY <1>1, <1>2, <1>7, <1>10, <1>11, <1>12 DEF Grammar

(* What both ends of DevLargeNode leave for DevNode's loop, if they go     *)
(* back to it.                                                             *)
LEMMA ReturnGrammar ==
  ASSUME Shape, Grammar, task = "large", Return,
         UNCHANGED <<block, blockno, pos, sta, NalFlag, last>>,
         DevCount' \in Nat, dpage # 1 => DevCount' = 0,
         Latest'.blockno = blockno, Latest'.stop = end,
         Chain(Cutting'), Opens(Latest') <=> DevCount' > 0
  PROVE  Grammar'
<1>1. task' = (IF dpage = 1 THEN "idle" ELSE "scan")
  BY DEF Return
<1>2. Len(block) \in Nat /\ blockno \in Nat /\ dpage \in 0 .. 2
  BY DEF Shape, TypeOK
<1>3. dpage # 1 => NalFlag
  BY <1>2 DEF Shape, LargeShape
<1>4. MarksSuffice'
  <2>1. MostNodes(Len(block)) \in Nat /\ MarkMod \in Nat
    BY <1>2, H264Assumption, MostNodesType
  <2> QED BY <1>1, <1>2, <2>1 DEF Grammar, MarksSuffice
<1>5. Where'
  BY <1>1, <1>2, <1>3 DEF Grammar, Where
<1> QED BY <1>4, <1>5 DEF Grammar

LEMMA LastFragmentGrammar == Shape /\ Grammar /\ LastFragment => Grammar'
<1> SUFFICES ASSUME Shape, Grammar, LastFragment PROVE Grammar'
  OBVIOUS
<1> DEFINE count == IF dpage = 1 THEN DevCount + 1 ELSE 0
           start == IF dpage = 1 /\ count = 1 THEN from + 1 ELSE from
           node == Node(1, count % MarkMod, nal_type, start, end)
<1>1. /\ task = "large" /\ Return /\ DevCount' = count /\ IsFU_A
      /\ bufferlist' = Append(bufferlist, node)
      /\ UNCHANGED <<block, blockno, pos, sta, NalFlag, last>>
  BY DEF LastFragment, scan
<1>2. /\ from \in Nat /\ end \in Nat /\ from <= end /\ DevCount \in Nat
      /\ dpage \in 0 .. 2 /\ MarkMod \in Nat /\ MarkMod >= 2
      /\ blockno \in Nat
  BY H264Assumption DEF Shape, TypeOK
<1>3. dpage # 1 => count = 0 /\ DevCount > 0
  BY <1>1, <1>2 DEF Shape, LargeShape
<1>4. dpage = 1 => count = DevCount + 1
  OBVIOUS
<1>5. count \in Nat /\ count < MarkMod
  <2>1. end - from \in Nat
    BY <1>2
  <2>2. MostNodes(end - from) \in Nat /\ MostNodes(end - from) >= 1
    BY <2>1, MostNodesType
  <2> QED BY <1>1, <1>2, <2>2 DEF Grammar, MarksSuffice
<1>6. start \in Nat /\ (start = from \/ (DevCount = 0 /\ start = from + 1))
  BY <1>2
<1>7. node \in Nodes
  BY <1>2, <1>5, <1>6, LargeNodeType
<1>8. /\ node.b0 = 1 /\ node.b1 = count /\ node.blockno = blockno
      /\ node.start = start /\ node.stop = end
  BY <1>5, Mark DEF Node
<1> HIDE DEF count, start, node
<1>9. (Opens(node) <=> count > 0) /\ (Continues(node) <=> DevCount > 0)
  BY <1>2, <1>3, <1>4, <1>5, <1>8 DEF Opens, Continues
<1>10. Latest.blockno = blockno =>
         IF DevCount > 0 THEN from = Latest.stop
         ELSE from - Latest.stop \in 3 .. 5
  BY <1>1 DEF Grammar, Where
<1>11. Fits(Latest, node)
  BY <1>2, <1>6, <1>8, <1>9, <1>10, LatestType DEF Fits, Grammar, Shape
<1>12. Chain(Cutting') /\ Latest' = node
  BY <1>1, <1>7, <1>11, NewNode DEF Grammar, Shape
<1> QED BY <1>1, <1>3, <1>5, <1>8, <1>9, <1>12, ReturnGrammar

LEMMA SingleGrammar == Shape /\ Grammar /\ Single => Grammar'
<1> SUFFICES ASSUME Shape, Grammar, Single PROVE Grammar'
  OBVIOUS
<1> DEFINE node == Node(DevCount % MarkMod, 0, Byte(from), from, end)
<1>1. task = "large" /\ dpage = 0 /\ DevCount = 0 /\ from < Len(block)
  BY SingleCall
<1>2. /\ Return /\ DevCount' = 0 /\ bufferlist' = Append(bufferlist, node)
      /\ UNCHANGED <<block, blockno, pos, sta, NalFlag, last>>
  BY DEF Single, scan
<1>3. from \in Nat /\ end \in Nat /\ Byte(from) \in Nat /\ blockno \in Nat
  BY <1>1, ByteType DEF Shape, TypeOK
<1>4. node \in Nodes
  BY <1>1, <1>3, MarkType, NodeType DEF Shape
<1>5. DevCount % MarkMod = 0
  BY <1>1, Mark, H264Assumption
<1>6. /\ node.b0 = 0 /\ node.blockno = blockno
      /\ node.start = from /\ node.stop = end
  BY <1>5 DEF Node
<1>7. ~ Opens(node) /\ ~ Continues(node)
  BY <1>6 DEF Opens, Continues
<1> HIDE DEF node
<1>8. ~ Opens(Latest)
  BY <1>1 DEF Grammar
<1>9. Latest.blockno = blockno => from - Latest.stop \in 3 .. 5
  BY <1>1 DEF Grammar, Where
<1>10. Fits(Latest, node)
  BY <1>3, <1>6, <1>7, <1>8, <1>9, LatestType DEF Fits, Shape
<1>11. Chain(Cutting') /\ Latest' = node
  BY <1>2, <1>4, <1>10, NewNode DEF Grammar, Shape
<1> QED BY <1>1, <1>2, <1>6, <1>7, <1>11, ReturnGrammar

LEMMA GetNodeGrammar == Shape /\ Grammar /\ GetNode => Grammar'
<1> SUFFICES ASSUME Shape, Grammar, GetNode PROVE Grammar'
  OBVIOUS
<1>1. /\ task = "idle" /\ bufferlist # <<>>
      /\ last' = Head(bufferlist) /\ bufferlist' = Tail(bufferlist)
      /\ UNCHANGED <<task, blockno, DevCount>>
  BY DEF GetNode
<1>2. last \in Nodes /\ bufferlist \in Seq(Nodes)
  BY DEF Shape, TypeOK
<1>3. Cutting' = Tail(Cutting)
  BY <1>1, <1>2, CuttingTail DEF Cutting
<1>4. Latest' = Latest
  BY <1>1, <1>2, LatestTail DEF Latest, Cutting
<1>5. Chain(Cutting')
  BY <1>2, <1>3, CuttingAppend, ChainTail DEF Grammar, Cutting
<1> QED BY <1>1, <1>4, <1>5 DEF Grammar, MarksSuffice, Where

LEMMA NextGrammar ==
  ASSUME LongNals = FALSE
  PROVE  Shape /\ Grammar /\ [Next]_vars => Grammar'
<1> SUFFICES ASSUME Shape, Grammar, [Next]_vars PROVE Grammar'
  OBVIOUS
<1>1. ASSUME NEW b \in Blocks, DevNode(b) PROVE Grammar'
  BY <1>1, DevNodeGrammar
<1>2. CASE Cut
  BY <1>2, AdvanceGrammar, FirstStartCodeGrammar, RawNodeGrammar,
     NextStartCodeGrammar, LeftoverGrammar, FragmentGrammar,
     LastFragmentGrammar, SingleGrammar DEF Cut
<1>3. CASE GetNode
  BY <1>3, GetNodeGrammar
<1>4. CASE UNCHANGED vars
  <2>1. Latest' = Latest /\ Cutting' = Cutting
    BY <1>4, NoNewNode DEF vars
  <2> QED BY <1>4, <2>1 DEF vars, scan, large, Grammar, MarksSuffice, Where
<1> QED BY <1>1, <1>2, <1>3, <1>4 DEF Next

LEMMA GrammarOfChain == Grammar => NodeGrammar /\ PayloadContiguous
BY DEF Grammar, Chain, Fits, Latest, NodeGrammar, PayloadContiguous

(* As long as no NAL unit makes MarkMod nodes: through any blocks, an FU-A *)
(* run that is begun is continued to its last node before anything else    *)
(* begins, and between the nodes of a block only the start code, the NAL   *)
(* header and at most one byte are lost, and nothing is doubled.           *)
THEOREM RunsAreWhole ==
  ASSUME LongNals = FALSE
  PROVE  Spec => [](NodeGrammar /\ PayloadContiguous)
<1>1. Shape /\ Grammar /\ [Next]_vars => (Shape /\ Grammar)'
  BY NextShape, NextGrammar
<1>2. Init => Shape /\ Grammar
  BY InitShape, InitGrammar
<1> QED BY <1>1, <1>2, GrammarOfChain, PTL DEF Spec
=============================================================================
