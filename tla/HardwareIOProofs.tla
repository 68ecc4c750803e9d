-------------------------- MODULE HardwareIOProofs --------------------------
(* What a stream reads from the shared file, for every block size, file    *)
(* size and number of blocks: with any number of streams the first block   *)
(* comes first and no block leaves the grids of the file; a stream that     *)
(* has the file for itself gets every whole block in order.                *)
EXTENDS HardwareIO, TLAPS

LEMMA AfterReadInFile ==
  ASSUME NEW from \in 0 .. FileSize
  PROVE  AfterRead(from) \in 0 .. FileSize
BY HardwareIOAssumption DEF AfterRead, FullBlock

(* The relative seek only goes back, so that the FILE* stays in the file.  *)
LEMMA SeekInFile ==
  ASSUME NEW at \in 0 .. FileSize, NEW pos \in Nat \ {0}
  PROVE  /\ Seek(at, pos) \in 0 .. FileSize
         /\ Seek(at, pos) = IF at >= pos THEN at - pos ELSE at
BY HardwareIOAssumption DEF Seek, CurPos

LEMMA SeekStart ==
  ASSUME NEW at \in -1 .. FileSize
  PROVE  Seek(at, 0) = 0
BY DEF Seek, CurPos

-----------------------------------------------------------------------------
(* Any number of streams.                                                  *)

(* A stream that is set up has cut a block, so the file is open and the    *)
(* next seek is a relative one.                                            *)
Inv ==
  /\ TypeOK
  /\ FirstBlockFirst
  /\ \A s \in Streams : state[s] \in {"open", "end"} =>
                          position >= 0 /\ filepos[s] > 0

LEMMA InitInv == Init => Inv
BY HardwareIOAssumption DEF Init, Inv, TypeOK, FirstBlockFirst

LEMMA RefillFrom ==
  ASSUME Inv, NEW s \in Streams, Refill(s)
  PROVE  /\ Seek(position, filepos[s]) \in 0 .. FileSize
         /\ position' = AfterRead(Seek(position, filepos[s]))
         /\ position' \in 0 .. FileSize
         /\ state[s] \in {"open", "end"}
<1>1. /\ state[s] \in {"open", "end"}
      /\ position' = AfterRead(Seek(position, filepos[s]))
  BY DEF Refill
<1>2. position \in 0 .. FileSize /\ filepos[s] \in Nat /\ filepos[s] > 0
  BY <1>1, HardwareIOAssumption DEF Inv, TypeOK
<1>3. Seek(position, filepos[s]) \in 0 .. FileSize
  BY <1>2, SeekInFile
<1> QED BY <1>1, <1>3, AfterReadInFile

LEMMA SetupInv ==
  ASSUME Inv, NEW s \in Streams, Setup(s)
  PROVE  Inv'
<1>1. Seek(position, 0) = 0 /\ 0 \in 0 .. FileSize
  BY SeekStart, HardwareIOAssumption DEF Inv, TypeOK
<1>2. position' \in 0 .. FileSize
  BY <1>1, AfterReadInFile DEF Setup
<1>3. CASE FullBlock(0)
  <2>1. /\ cut' = [cut EXCEPT ![s] = <<0>>]
        /\ filepos' = [filepos EXCEPT ![s] = Block]
        /\ state' = [state EXCEPT ![s] = "open"]
    BY <1>1, <1>3 DEF Setup
  <2>2. <<0>> \in Seq(0 .. FileSize) /\ <<0>> # <<>> /\ <<0>>[1] = 0
    BY <1>1
  <2>3. TypeOK'
    BY <2>1, <2>2, <1>2, HardwareIOAssumption DEF Inv, TypeOK
  <2>4. FirstBlockFirst'
    BY <2>1, <2>2 DEF Inv, TypeOK, FirstBlockFirst
  <2>5. \A t \in Streams : state'[t] \in {"open", "end"} =>
                             position' >= 0 /\ filepos'[t] > 0
    BY <2>1, <1>2, HardwareIOAssumption DEF Inv, TypeOK
  <2> QED BY <2>3, <2>4, <2>5 DEF Inv
<1>4. CASE ~ FullBlock(0)
  <2>1. /\ cut' = [cut EXCEPT ![s] = <<>>]
        /\ filepos' = [filepos EXCEPT ![s] = 0]
        /\ state' = [t \in Streams |-> "crashed"]
    BY <1>1, <1>4 DEF Setup
  <2>2. TypeOK'
    BY <2>1, <1>2 DEF Inv, TypeOK
  <2> QED BY <2>1, <2>2 DEF Inv, FirstBlockFirst
<1> QED BY <1>3, <1>4

LEMMA RefillInv ==
  ASSUME Inv, NEW s \in Streams, Refill(s)
  PROVE  Inv'
<1> DEFINE from == Seek(position, filepos[s])
<1>1. from \in 0 .. FileSize /\ position' \in 0 .. FileSize
  BY RefillFrom
<1>2. state[s] \in {"open", "end"} /\ cut[s] \in Seq(0 .. FileSize)
  BY DEF Refill, Inv, TypeOK
<1>3. CASE FullBlock(from)
  <2>1. /\ cut' = [cut EXCEPT ![s] = Append(cut[s], from)]
        /\ filepos' = [filepos EXCEPT ![s] = filepos[s] + Block]
        /\ state' = [state EXCEPT ![s] = "open"]
    BY <1>3 DEF Refill
  <2>2. cut[s] # <<>> /\ cut[s][1] = 0
    BY <1>2 DEF Inv, FirstBlockFirst
  <2>3. /\ Append(cut[s], from) \in Seq(0 .. FileSize)
        /\ Append(cut[s], from) # <<>>
        /\ Append(cut[s], from)[1] = 0
    BY <1>1, <1>2, <2>2
  <2>4. TypeOK'
    BY <2>1, <2>3, <1>1, HardwareIOAssumption DEF Inv, TypeOK
  <2>5. FirstBlockFirst'
    BY <2>1, <2>3 DEF Inv, TypeOK, FirstBlockFirst
  <2>6. \A t \in Streams : state'[t] \in {"open", "end"} =>
                             position' >= 0 /\ filepos'[t] > 0
    BY <2>1, <1>1, <1>2, HardwareIOAssumption DEF Inv, TypeOK
  <2> QED BY <2>4, <2>5, <2>6 DEF Inv
<1>4. CASE ~ FullBlock(from)
  <2>1. state' = [state EXCEPT ![s] = "end"] /\ UNCHANGED <<cut, filepos>>
    BY <1>4 DEF Refill
  <2>2. TypeOK'
    BY <2>1, <1>1 DEF Inv, TypeOK
  <2>3. \A t \in Streams : state'[t] \in {"open", "end"} =>
                             state[t] \in {"open", "end"}
    BY <2>1, <1>2 DEF Inv, TypeOK
  <2> QED BY <2>1, <2>2, <2>3, <1>1 DEF Inv, FirstBlockFirst
<1> QED BY <1>3, <1>4

LEMMA NextInv == Inv /\ [Next]_vars => Inv'
<1> SUFFICES ASSUME Inv, [Next]_vars PROVE Inv'
  OBVIOUS
<1>1. ASSUME NEW s \in Streams, Setup(s) PROVE Inv'
  BY <1>1, SetupInv
<1>2. ASSUME NEW s \in Streams, SetupNoFile(s) PROVE Inv'
  BY <1>2 DEF SetupNoFile, Inv, TypeOK, FirstBlockFirst
<1>3. ASSUME NEW s \in Streams, Refill(s) PROVE Inv'
  BY <1>3, RefillInv
<1>4. ASSUME NEW s \in Streams, Drop(s) PROVE Inv'
  <2>1. TypeOK'
    BY <1>4 DEF Drop, Inv, TypeOK
  <2>2. \A t \in Streams : state'[t] \in {"open", "end"} =>
            t # s /\ state[t] = state'[t] /\ cut'[t] = cut[t]
                  /\ filepos'[t] = filepos[t]
    BY <1>4 DEF Drop, Inv, TypeOK
  <2>3. position' = position
    BY <1>4 DEF Drop
  <2> QED BY <2>1, <2>2, <2>3 DEF Inv, FirstBlockFirst
<1>5. CASE UNCHANGED vars
  BY <1>5 DEF vars, Inv, TypeOK, FirstBlockFirst
<1> QED BY <1>1, <1>2, <1>3, <1>4, <1>5 DEF Next

(* The FILE* never leaves the file, and every stream starts with the first *)
(* block, however many streams share the file.                             *)
THEOREM SharedFileSafety == Spec => [](TypeOK /\ FirstBlockFirst)
<1>1. Spec => []Inv
  BY InitInv, NextInv, PTL DEF Spec
<1>2. Inv => TypeOK /\ FirstBlockFirst
  BY DEF Inv
<1> QED BY <1>1, <1>2, PTL

-----------------------------------------------------------------------------
(* A stream that has the file for itself.                                  *)

(* Where the stream is: after one block the seek goes back to the start;   *)
(* from the second block on filepos is one block ahead of the FILE*, so    *)
(* that every further seek fails; at the end it is ahead of the file.      *)
StreamAt(s) ==
  LET n == Len(cut[s])
  IN  /\ state[s] \in {"none", "crashed"} => n = 0
      /\ state[s] = "open" =>
           \/ n = 1 /\ position = Block /\ filepos[s] = Block
           \/ n >= 2 /\ position = cut[s][n] + Block
                     /\ filepos[s] = position + Block
      /\ state[s] = "end" =>
           /\ n >= 2 /\ position = FileSize
           /\ filepos[s] = cut[s][n] + 2 * Block
           /\ filepos[s] > FileSize

BlocksInOrder(c) ==
  /\ Len(c) >= 2 => c[2] = 0
  /\ \A i \in 2 .. Len(c) - 1 : c[i + 1] = c[i] + Block

SoleInv == Inv /\ \A s \in Streams : StreamAt(s) /\ BlocksInOrder(cut[s])

LEMMA AppendInOrder ==
  ASSUME NEW c \in Seq(0 .. FileSize), NEW b \in 0 .. FileSize,
         BlocksInOrder(c), Len(c) >= 1,
         Len(c) = 1 => b = 0,
         Len(c) >= 2 => b = c[Len(c)] + Block
  PROVE  BlocksInOrder(Append(c, b))
<1> DEFINE d == Append(c, b)
<1>1. Len(d) = Len(c) + 1 /\ d[Len(c) + 1] = b /\ Len(c) \in Nat
  OBVIOUS
<1>2. \A i \in 1 .. Len(c) : d[i] = c[i]
  OBVIOUS
<1>3. d[2] = 0
  <2>1. CASE Len(c) = 1
    BY <2>1, <1>1
  <2>2. CASE Len(c) >= 2
    BY <2>2, <1>1, <1>2 DEF BlocksInOrder
  <2>3. Len(c) = 1 \/ Len(c) >= 2
    BY <1>1
  <2> QED BY <2>1, <2>2, <2>3
<1>4. ASSUME NEW i \in 2 .. Len(d) - 1 PROVE d[i + 1] = d[i] + Block
  <2>1. CASE i = Len(c)
    BY <2>1, <1>1, <1>2
  <2>2. CASE i < Len(c)
    <3>1. i \in 2 .. Len(c) - 1 /\ i \in 1 .. Len(c) /\ i + 1 \in 1 .. Len(c)
      BY <2>2, <1>1
    <3> QED BY <3>1, <1>2 DEF BlocksInOrder
  <2> QED BY <2>1, <2>2, <1>1
<1> QED BY <1>3, <1>4 DEF BlocksInOrder

LEMMA SoleSetup ==
  ASSUME SoleInv, Inv', NEW s \in Streams, \A t \in Streams : t = s, Setup(s)
  PROVE  StreamAt(s)' /\ BlocksInOrder(cut[s])'
<1>1. Seek(position, 0) = 0
  BY SeekStart DEF SoleInv, Inv, TypeOK
<1>2. CASE FullBlock(0)
  <2>1. /\ cut'[s] = <<0>> /\ filepos'[s] = Block /\ state'[s] = "open"
        /\ position' = Block
    BY <1>1, <1>2, HardwareIOAssumption
       DEF Setup, AfterRead, SoleInv, Inv, TypeOK
  <2>2. Len(<<0>>) = 1
    OBVIOUS
  <2> QED BY <2>1, <2>2 DEF StreamAt, BlocksInOrder
<1>3. CASE ~ FullBlock(0)
  <2>1. cut'[s] = <<>> /\ state'[s] = "crashed"
    BY <1>1, <1>3 DEF Setup, SoleInv, Inv, TypeOK
  <2> QED BY <2>1 DEF StreamAt, BlocksInOrder
<1> QED BY <1>2, <1>3

LEMMA SoleRefill ==
  ASSUME SoleInv, Inv', NEW s \in Streams, Refill(s)
  PROVE  StreamAt(s)' /\ BlocksInOrder(cut[s])'
<1> DEFINE from == Seek(position, filepos[s])
           n == Len(cut[s])
<1>1. /\ state[s] \in {"open", "end"} /\ cut[s] \in Seq(0 .. FileSize)
      /\ n \in Nat /\ StreamAt(s) /\ BlocksInOrder(cut[s])
  BY DEF Refill, SoleInv, Inv, TypeOK
<1>2. from \in 0 .. FileSize /\ position' = AfterRead(from)
  BY RefillFrom DEF SoleInv
<1>3. position \in 0 .. FileSize /\ filepos[s] \in Nat \ {0}
  BY <1>1, HardwareIOAssumption DEF SoleInv, Inv, TypeOK
<1>4. from = IF position >= filepos[s] THEN position - filepos[s] ELSE position
  BY <1>3, SeekInFile
<1>5. CASE FullBlock(from)
  <2>1. /\ cut'[s] = Append(cut[s], from)
        /\ filepos'[s] = filepos[s] + Block
        /\ state'[s] = "open"
        /\ position' = from + Block
    BY <1>2, <1>5 DEF Refill, AfterRead, SoleInv, Inv, TypeOK
  <2>2. state[s] = "open"
    <3> SUFFICES ASSUME state[s] = "end" PROVE FALSE
      BY <1>1
    <3>1. from = FileSize
      BY <1>1, <1>3, <1>4 DEF StreamAt
    <3> QED BY <3>1, <1>5, HardwareIOAssumption DEF FullBlock
  <2>3. /\ Len(Append(cut[s], from)) = n + 1
        /\ Append(cut[s], from)[n + 1] = from
    BY <1>1, <1>2
  <2>4. CASE n = 1
    <3>1. position = Block /\ filepos[s] = Block
      BY <2>2, <2>4, <1>1 DEF StreamAt
    <3>2. from = 0
      BY <3>1, <1>4, HardwareIOAssumption
    <3>3. BlocksInOrder(Append(cut[s], from))
      BY <2>4, <3>2, <1>1, <1>2, AppendInOrder
    <3> QED BY <2>1, <2>3, <2>4, <3>1, <3>2, <3>3, HardwareIOAssumption
            DEF StreamAt
  <2>5. CASE n >= 2
    <3>1. position = cut[s][n] + Block /\ filepos[s] = position + Block
      BY <2>2, <2>5, <1>1 DEF StreamAt
    <3>2. from = position
      BY <3>1, <1>3, <1>4, HardwareIOAssumption
    <3>3. BlocksInOrder(Append(cut[s], from))
      BY <2>5, <3>1, <3>2, <1>1, <1>2, AppendInOrder
    <3>4. filepos'[s] = position' + Block /\ n + 1 >= 2
      BY <2>1, <2>5, <3>1, <3>2, <1>1, <1>3, HardwareIOAssumption
    <3> QED BY <2>1, <2>3, <3>3, <3>4, <1>1 DEF StreamAt
  <2>6. n = 1 \/ n >= 2
    BY <2>2, <1>1 DEF StreamAt
  <2> QED BY <2>4, <2>5, <2>6
<1>6. CASE ~ FullBlock(from)
  <2>1. /\ cut'[s] = cut[s] /\ filepos'[s] = filepos[s]
        /\ state'[s] = "end" /\ position' = FileSize
    BY <1>2, <1>6 DEF Refill, AfterRead, SoleInv, Inv, TypeOK
  <2>2. n >= 2 /\ filepos[s] = cut[s][n] + 2 * Block /\ filepos[s] > FileSize
    <3>1. CASE state[s] = "end"
      BY <3>1, <1>1 DEF StreamAt
    <3>2. CASE state[s] = "open" /\ n = 1
      <4>1. position = Block /\ filepos[s] = Block
        BY <3>2, <1>1 DEF StreamAt
      <4>2. from = 0 /\ Block <= FileSize
        BY <4>1, <1>3, <1>4, HardwareIOAssumption
      <4> QED BY <4>2, <1>6, HardwareIOAssumption DEF FullBlock
    <3>3. CASE state[s] = "open" /\ n >= 2
      <4>1. position = cut[s][n] + Block /\ filepos[s] = position + Block
        BY <3>3, <1>1, HardwareIOAssumption DEF StreamAt
      <4>2. from = position /\ cut[s][n] \in 0 .. FileSize
        BY <4>1, <3>3, <1>1, <1>3, <1>4, HardwareIOAssumption
      <4> QED BY <4>1, <4>2, <3>3, <1>3, <1>6, HardwareIOAssumption
              DEF FullBlock
    <3> QED BY <3>1, <3>2, <3>3, <1>1 DEF StreamAt
  <2> QED BY <2>1, <2>2, <1>1 DEF StreamAt
<1> QED BY <1>5, <1>6

LEMMA SoleNext ==
  ASSUME \A s, t \in Streams : s = t
  PROVE  SoleInv /\ [Next]_vars => SoleInv'
<1> SUFFICES ASSUME SoleInv, [Next]_vars PROVE SoleInv'
  OBVIOUS
<1>1. Inv'
  BY NextInv DEF SoleInv
<1> SUFFICES ASSUME NEW s \in Streams
             PROVE  StreamAt(s)' /\ BlocksInOrder(cut[s])'
  BY <1>1 DEF SoleInv
<1>2. \A t \in Streams : t = s
  OBVIOUS
<1>3. CASE Setup(s)
  BY <1>1, <1>2, <1>3, SoleSetup
<1>4. CASE SetupNoFile(s)
  <2>1. position = -1 /\ state'[s] = "crashed" /\ cut' = cut
    BY <1>4 DEF SetupNoFile
  <2>2. state[s] \in {"none", "crashed"}
    BY <2>1 DEF SoleInv, Inv, TypeOK
  <2>3. Len(cut[s]) = 0
    BY <2>2 DEF SoleInv, StreamAt
  <2> QED BY <2>1, <2>3 DEF StreamAt, BlocksInOrder
<1>5. CASE Refill(s)
  BY <1>1, <1>5, SoleRefill
<1>6. CASE Drop(s)
  <2>1. state'[s] = "none" /\ cut'[s] = <<>>
    BY <1>6 DEF Drop, SoleInv, Inv, TypeOK
  <2> QED BY <2>1 DEF StreamAt, BlocksInOrder
<1>7. CASE UNCHANGED vars
  BY <1>7 DEF vars, SoleInv, StreamAt, BlocksInOrder
<1> QED BY <1>2, <1>3, <1>4, <1>5, <1>6, <1>7 DEF Next

(* A stream that has the file for itself reads the first block twice and   *)
(* then all the whole blocks of the file in order, without a gap, and      *)
(* meets the end only behind the last of them.                             *)
THEOREM SoleStreamReadsAll ==
  ASSUME \A s, t \in Streams : s = t
  PROVE  Spec => [](SoleStreamInOrder /\ SoleStreamComplete)
<1>1. Init => SoleInv
  <2> SUFFICES ASSUME Init PROVE SoleInv
    OBVIOUS
  <2> QED BY InitInv DEF Init, SoleInv, StreamAt, BlocksInOrder
<1>2. Spec => []SoleInv
  BY <1>1, SoleNext, PTL DEF Spec
<1>3. SoleInv => SoleStreamInOrder
  BY DEF SoleInv, BlocksInOrder, SoleStreamInOrder
<1>4. SoleInv => SoleStreamComplete
  BY DEF SoleInv, StreamAt, SoleStreamComplete
<1> QED BY <1>2, <1>3, <1>4, PTL

LEMMA EndStep ==
  ASSUME SoleInv, NEW s \in Streams, state[s] = "end", [Next]_vars,
         \A t \in Streams : t = s
  PROVE  state'[s] = "end" \/ cut'[s] \in {<<>>, <<0>>}
<1>1. CASE Setup(s)
  <2>1. Seek(position, 0) = 0
    BY SeekStart DEF SoleInv, Inv, TypeOK
  <2> QED BY <1>1, <2>1 DEF Setup, SoleInv, Inv, TypeOK
<1>2. CASE SetupNoFile(s)
  BY <1>2 DEF SetupNoFile, SoleInv, Inv
<1>3. CASE Refill(s)
  <2>1. position = FileSize /\ filepos[s] > FileSize /\ filepos[s] \in Nat \ {0}
    BY HardwareIOAssumption DEF SoleInv, StreamAt, Inv, TypeOK
  <2>2. Seek(position, filepos[s]) = FileSize
    BY <2>1, SeekInFile, HardwareIOAssumption
  <2>3. ~ FullBlock(Seek(position, filepos[s]))
    BY <2>2, HardwareIOAssumption DEF FullBlock
  <2> QED BY <1>3, <2>3 DEF Refill, SoleInv, Inv, TypeOK
<1>4. CASE Drop(s)
  BY <1>4 DEF Drop, SoleInv, Inv, TypeOK
<1>5. CASE UNCHANGED vars
  BY <1>5 DEF vars
<1> QED BY <1>1, <1>2, <1>3, <1>4, <1>5 DEF Next

(* Once it has met the end of the file, a stream that has the file for     *)
(* itself never gets another block, however often TCPForH264 tries.        *)
THEOREM SoleEndIsFinal ==
  ASSUME \A s, t \in Streams : s = t
  PROVE  Spec => EndIsFinal
<1>1. Init => SoleInv
  <2> SUFFICES ASSUME Init PROVE SoleInv
    OBVIOUS
  <2> QED BY InitInv DEF Init, SoleInv, StreamAt, BlocksInOrder
<1>2. Spec => []SoleInv
  BY <1>1, SoleNext, PTL DEF Spec
<1>3. SoleInv /\ [Next]_vars =>
        [\A s \in Streams : state[s] = "end" =>
           state'[s] = "end" \/ cut'[s] \in {<<>>, <<0>>}]_vars
  BY EndStep
<1> QED BY <1>2, <1>3, PTL DEF Spec, EndIsFinal
-----------------------------------------------------------------------------
(* A failed read, with any number of streams. Streams cut whole blocks, so *)
(* the FILE* stands a number of blocks behind the start of the file or in  *)
(* front of its end. A read that gets no block therefore leaves a stream   *)
(* with filepos behind the end of the file, and until another stream moves *)
(* the FILE* it will get none.                                             *)

Multiples == {k * Block : k \in Nat}

LEMMA MultiplesGrow ==
  ASSUME NEW m \in Multiples
  PROVE  m \in Nat /\ m + Block \in Multiples /\ (m = 0 \/ m >= Block)
<1>1. PICK k \in Nat : m = k * Block
  BY DEF Multiples
<1>2. Block \in Nat \ {0}
  BY HardwareIOAssumption
<1>3. m + Block = (k + 1) * Block /\ k + 1 \in Nat
  BY <1>1, <1>2
<1>4. k * Block \in Nat
  BY <1>1, <1>2
<1>5. k = 0 \/ k * Block >= Block
  <2>1. CASE k # 0
    <3>1. k - 1 \in Nat /\ (k - 1) * Block \in Nat
      BY <2>1, <1>2
    <3>2. k * Block = (k - 1) * Block + Block
      BY <1>2
    <3> QED BY <3>1, <3>2, <1>2
  <2> QED BY <2>1
<1>6. k = 0 => m = 0
  BY <1>1, <1>2
<1> QED BY <1>1, <1>3, <1>4, <1>5, <1>6 DEF Multiples

LEMMA MultiplesAdd ==
  ASSUME NEW m \in Multiples, NEW n \in Multiples
  PROVE  m + n \in Multiples /\ (m >= n => m - n \in Multiples)
<1>1. PICK j \in Nat, k \in Nat : m = j * Block /\ n = k * Block
  BY DEF Multiples
<1>2. Block \in Nat \ {0}
  BY HardwareIOAssumption
<1>3. m + n = (j + k) * Block /\ j + k \in Nat
  BY <1>1, <1>2
<1>4. ASSUME m >= n PROVE m - n \in Multiples
  <2>1. m - n = (j - k) * Block /\ j - k \in Int
    BY <1>1, <1>2
  <2>2. j - k >= 0
    <3> DEFINE d == k - j - 1
    <3> SUFFICES ASSUME j < k PROVE FALSE
      OBVIOUS
    <3>1. d \in Nat /\ k = j + 1 + d
      OBVIOUS
    <3> HIDE DEF d
    <3>2. k * Block = j * Block + Block + d * Block /\ d * Block \in Nat
      BY <3>1, <1>2
    <3>3. j * Block \in Nat
      BY <1>2
    <3> QED BY <3>2, <3>3, <1>1, <1>2, <1>4
  <2> QED BY <2>1, <2>2 DEF Multiples
<1> QED BY <1>3, <1>4 DEF Multiples

Aligned ==
  /\ position >= 0 => position \in Multiples \/ FileSize - position \in Multiples
  /\ \A s \in Streams : filepos[s] \in Multiples

LEMMA ZeroMultiple == 0 \in Multiples /\ Block \in Multiples
<1>1. 0 = 0 * Block /\ Block = 1 * Block
  BY HardwareIOAssumption
<1> QED BY <1>1 DEF Multiples

(* Where a read starts, and where it ends.                                 *)
LEMMA SeekAligned ==
  ASSUME Inv, Aligned, NEW s \in Streams, Refill(s)
  PROVE  LET from == Seek(position, filepos[s])
         IN  /\ from \in Multiples \/ FileSize - from \in Multiples
             /\ ~ FullBlock(from) => /\ from = position
                                     /\ position < filepos[s]
<1> DEFINE from == Seek(position, filepos[s])
<1>1. /\ position \in 0 .. FileSize /\ filepos[s] \in Nat \ {0}
      /\ filepos[s] \in Multiples
      /\ position \in Multiples \/ FileSize - position \in Multiples
  BY HardwareIOAssumption DEF Refill, Inv, TypeOK, Aligned
<1>2. from = IF position >= filepos[s] THEN position - filepos[s] ELSE position
  BY <1>1, SeekInFile
<1>3. CASE position >= filepos[s]
  <2>1. from = position - filepos[s] /\ filepos[s] >= Block
    BY <1>1, <1>2, <1>3, MultiplesGrow
  <2>2. FullBlock(from)
    BY <2>1, <1>1, HardwareIOAssumption DEF FullBlock
  <2>3. CASE position \in Multiples
    BY <2>1, <2>2, <2>3, <1>1, <1>3, MultiplesAdd
  <2>4. CASE FileSize - position \in Multiples
    <3>1. FileSize - from = (FileSize - position) + filepos[s]
      BY <2>1, <1>1, HardwareIOAssumption
    <3> QED BY <3>1, <2>2, <2>4, <1>1, MultiplesAdd
  <2> QED BY <2>3, <2>4, <1>1
<1>4. CASE ~ (position >= filepos[s])
  BY <1>1, <1>2, <1>4
<1> QED BY <1>3, <1>4

LEMMA ReadAligned ==
  ASSUME NEW from \in 0 .. FileSize,
         from \in Multiples \/ FileSize - from \in Multiples
  PROVE  AfterRead(from) \in Multiples \/ FileSize - AfterRead(from) \in Multiples
<1>1. FileSize \in Nat /\ Block \in Nat \ {0}
  BY HardwareIOAssumption
<1>2. CASE ~ FullBlock(from)
  BY <1>1, <1>2, ZeroMultiple DEF AfterRead
<1>3. CASE FullBlock(from) /\ from \in Multiples
  BY <1>3, MultiplesGrow DEF AfterRead
<1>4. CASE FullBlock(from) /\ FileSize - from \in Multiples
  <2>1. FileSize - from >= Block
    BY <1>1, <1>4 DEF FullBlock
  <2>2. (FileSize - from) - Block \in Multiples
    BY <2>1, <1>4, ZeroMultiple, MultiplesAdd
  <2>3. FileSize - (from + Block) = (FileSize - from) - Block
    BY <1>1
  <2> QED BY <2>2, <2>3, <1>4 DEF AfterRead
<1> QED BY <1>2, <1>3, <1>4

LEMMA AlignedNext == Inv /\ Aligned /\ [Next]_vars => Aligned'
<1> SUFFICES ASSUME Inv, Aligned, [Next]_vars PROVE Aligned'
  OBVIOUS
<1>0. filepos \in [Streams -> Nat]
  BY DEF Inv, TypeOK
<1>1. ASSUME NEW s \in Streams, Setup(s) PROVE Aligned'
  <2>1. Seek(position, 0) = 0 /\ 0 \in 0 .. FileSize
    BY SeekStart, HardwareIOAssumption DEF Inv, TypeOK
  <2>2. position' = AfterRead(0)
    BY <1>1, <2>1 DEF Setup
  <2>3. \/ filepos' = [filepos EXCEPT ![s] = Block]
        \/ filepos' = [filepos EXCEPT ![s] = 0]
    BY <1>1 DEF Setup
  <2> QED BY <1>0, <2>1, <2>2, <2>3, ZeroMultiple, ReadAligned DEF Aligned
<1>2. ASSUME NEW s \in Streams, Refill(s) PROVE Aligned'
  <2> DEFINE from == Seek(position, filepos[s])
  <2>1. from \in 0 .. FileSize /\ position' = AfterRead(from)
    BY <1>2, RefillFrom
  <2>2. from \in Multiples \/ FileSize - from \in Multiples
    BY <1>2, SeekAligned
  <2>3. filepos' \in {filepos, [filepos EXCEPT ![s] = filepos[s] + Block]}
    BY <1>2 DEF Refill
  <2>4. filepos[s] + Block \in Multiples
    BY MultiplesGrow DEF Aligned
  <2> HIDE DEF from
  <2>5. position' \in Multiples \/ FileSize - position' \in Multiples
    BY <2>1, <2>2, ReadAligned
  <2> QED BY <1>0, <2>3, <2>4, <2>5 DEF Aligned
<1>3. ASSUME NEW s \in Streams, Drop(s) PROVE Aligned'
  BY <1>0, <1>3, ZeroMultiple DEF Drop, Aligned
<1>4. ASSUME NEW s \in Streams, SetupNoFile(s) PROVE Aligned'
  BY <1>4 DEF SetupNoFile, Aligned
<1>5. CASE UNCHANGED vars
  BY <1>5 DEF vars, Aligned
<1> QED BY <1>1, <1>2, <1>3, <1>4, <1>5 DEF Next

LEMMA AlignedInit == Init => Aligned
BY ZeroMultiple DEF Init, Aligned

(* The stream stands behind the end of the file, like the FILE* itself.    *)
PastEnd(s) == position = FileSize /\ filepos[s] > FileSize

LEMMA FailedRead ==
  ASSUME Inv, Aligned, NEW s \in Streams, Refill(s), state'[s] = "end"
  PROVE  PastEnd(s)'
<1> DEFINE from == Seek(position, filepos[s])
<1>1. ~ FullBlock(from)
  BY DEF Refill, Inv, TypeOK
<1>2. from = position /\ position < filepos[s]
  BY <1>1, SeekAligned
<1>3. /\ position \in 0 .. FileSize /\ filepos[s] \in Multiples
      /\ position \in Multiples \/ FileSize - position \in Multiples
      /\ FileSize \in Nat /\ Block \in Nat \ {0} /\ filepos[s] \in Nat
  BY HardwareIOAssumption DEF Refill, Inv, TypeOK, Aligned
<1>4. position' = FileSize /\ filepos' = filepos
  BY <1>1, RefillFrom DEF Refill, AfterRead
<1>5. position + Block > FileSize
  BY <1>1, <1>2, <1>3 DEF FullBlock
<1>6. CASE position \in Multiples
  <2>1. filepos[s] - position \in Multiples
    BY <1>2, <1>3, <1>6, MultiplesAdd
  <2>2. filepos[s] - position >= Block
    BY <2>1, <1>2, <1>3, MultiplesGrow
  <2> QED BY <2>2, <1>3, <1>4, <1>5 DEF PastEnd
<1>7. CASE FileSize - position \in Multiples
  <2>1. FileSize - position = 0 \/ FileSize - position >= Block
    BY <1>7, MultiplesGrow
  <2>2. position = FileSize
    BY <2>1, <1>3, <1>5
  <2> QED BY <2>2, <1>2, <1>3, <1>4 DEF PastEnd
<1> QED BY <1>3, <1>6, <1>7

LEMMA FailsAgain ==
  ASSUME Inv, NEW s \in Streams, PastEnd(s), Refill(s)
  PROVE  state'[s] = "end" /\ PastEnd(s)'
<1>1. filepos[s] \in Nat \ {0} /\ FileSize \in Nat /\ Block \in Nat \ {0}
      /\ position \in 0 .. FileSize
  BY HardwareIOAssumption DEF PastEnd, Inv, TypeOK
<1>2. Seek(position, filepos[s]) = FileSize
  BY <1>1, SeekInFile DEF PastEnd
<1>3. ~ FullBlock(FileSize)
  BY <1>1 DEF FullBlock
<1> QED BY <1>2, <1>3 DEF Refill, AfterRead, PastEnd, Inv, TypeOK

-----------------------------------------------------------------------------
(* As long as no read has met the end of the file, the FILE* stands at the *)
(* start of a block, and so do all the blocks streams have cut.            *)

CrashedAll == (\E s \in Streams : state[s] = "crashed")
              => \A s \in Streams : state[s] = "crashed"

Grid ==
  /\ CrashedAll
  /\ (\A s \in Streams : state[s] \in {"none", "open"}) /\ position >= 0
     => position \in Multiples

CutWhole ==
  \A s \in Streams : \A i \in DOMAIN cut[s] : cut[s][i] \in Multiples

LEMMA GridInit == Init => Grid /\ CutWhole
BY ZeroMultiple DEF Init, Grid, CrashedAll, CutWhole

LEMMA CutWholeModulo ==
  ASSUME CutWhole
  PROVE  \A s \in Streams : \A i \in DOMAIN cut[s] : cut[s][i] % Block = 0
<1>1. ASSUME NEW m \in Multiples PROVE m % Block = 0
  <2>1. PICK k \in Nat : m = k * Block
    BY DEF Multiples
  <2>2. Block \in Nat \ {0}
    BY HardwareIOAssumption
  <2> QED BY <2>1, <2>2
<1> QED BY <1>1 DEF CutWhole

LEMMA SeekWhole ==
  ASSUME Inv, Aligned, NEW s \in Streams, Refill(s), position \in Multiples
  PROVE  Seek(position, filepos[s]) \in Multiples
<1>1. /\ position \in 0 .. FileSize /\ filepos[s] \in Nat \ {0}
      /\ filepos[s] \in Multiples
  BY HardwareIOAssumption DEF Refill, Inv, TypeOK, Aligned
<1>2. Seek(position, filepos[s])
        = IF position >= filepos[s] THEN position - filepos[s] ELSE position
  BY <1>1, SeekInFile
<1> QED BY <1>1, <1>2, MultiplesAdd

LEMMA SetupGrid ==
  ASSUME Inv, Grid, CutWhole, NEW s \in Streams, Setup(s)
  PROVE  Grid' /\ CutWhole'
<1>0. cut \in [Streams -> Seq(0 .. FileSize)] /\ DOMAIN state = Streams
  BY DEF Inv, TypeOK
<1>1. Seek(position, 0) = 0
  BY SeekStart DEF Inv, TypeOK
<1>2. CASE FullBlock(0)
  <2>1. /\ cut' = [cut EXCEPT ![s] = <<0>>]
        /\ state' = [state EXCEPT ![s] = "open"]
        /\ position' = 0 + Block
    BY <1>1, <1>2 DEF Setup, AfterRead
  <2>2. position' \in Multiples
    BY <2>1, ZeroMultiple, HardwareIOAssumption
  <2>3. \A t \in Streams : state[t] # "crashed"
    BY <1>2 DEF Setup, Grid, CrashedAll
  <2>4. CutWhole'
    BY <1>0, <2>1, ZeroMultiple DEF CutWhole
  <2> QED BY <1>0, <2>1, <2>2, <2>3, <2>4 DEF Grid, CrashedAll
<1>3. CASE ~ FullBlock(0)
  <2>1. /\ cut' = [cut EXCEPT ![s] = <<>>]
        /\ state' = [t \in Streams |-> "crashed"]
    BY <1>1, <1>3 DEF Setup
  <2> QED BY <1>0, <2>1 DEF Grid, CrashedAll, CutWhole
<1> QED BY <1>2, <1>3

LEMMA RefillGrid ==
  ASSUME Inv, Aligned, Grid, CutWhole, \A t \in Streams : state[t] # "end",
         NEW s \in Streams, Refill(s)
  PROVE  Grid' /\ CutWhole'
<1> DEFINE from == Seek(position, filepos[s])
<1>0. /\ cut \in [Streams -> Seq(0 .. FileSize)]
      /\ state \in [Streams -> {"none", "open", "end", "crashed"}]
  BY DEF Inv, TypeOK
<1>1. state[s] = "open" /\ \A t \in Streams : state[t] \in {"none", "open"}
  BY <1>0 DEF Refill, Grid, CrashedAll
<1>2. position \in 0 .. FileSize
  BY <1>1, HardwareIOAssumption DEF Refill, Inv, TypeOK
<1>3. position \in Multiples
  BY <1>1, <1>2 DEF Grid
<1>4. from \in Multiples
  BY <1>3, SeekWhole
<1>5. position' = AfterRead(from)
  BY RefillFrom
<1>6. CASE FullBlock(from)
  <2>1. /\ cut' = [cut EXCEPT ![s] = Append(cut[s], from)]
        /\ state' = [state EXCEPT ![s] = "open"]
    BY <1>6 DEF Refill
  <2>2. position' \in Multiples
    BY <1>4, <1>5, <1>6, MultiplesGrow DEF AfterRead
  <2>3. from \in 0 .. FileSize
    BY RefillFrom
  <2> HIDE DEF from
  <2>4. \A i \in DOMAIN Append(cut[s], from) :
          Append(cut[s], from)[i] \in Multiples
    <3>1. cut[s] \in Seq(0 .. FileSize)
      BY <1>0
    <3>2. \A i \in DOMAIN Append(cut[s], from) :
            \/ Append(cut[s], from)[i] = from
            \/ i \in DOMAIN cut[s] /\ Append(cut[s], from)[i] = cut[s][i]
      BY <2>3, <3>1
    <3> QED BY <1>4, <3>2 DEF CutWhole
  <2>5. CutWhole'
    BY <1>0, <2>1, <2>4 DEF CutWhole
  <2> QED BY <1>0, <1>1, <2>1, <2>2, <2>5 DEF Grid, CrashedAll
<1>7. CASE ~ FullBlock(from)
  <2>1. cut' = cut /\ state' = [state EXCEPT ![s] = "end"]
    BY <1>7 DEF Refill
  <2>2. CutWhole'
    BY <2>1 DEF CutWhole
  <2> QED BY <1>0, <1>1, <2>1, <2>2 DEF Grid, CrashedAll
<1> QED BY <1>6, <1>7

LEMMA GridNext ==
  ASSUME Inv, Aligned, Grid, CutWhole, \A t \in Streams : state[t] # "end",
         [Next]_vars
  PROVE  Grid' /\ CutWhole'
<1>0. /\ cut \in [Streams -> Seq(0 .. FileSize)]
      /\ state \in [Streams -> {"none", "open", "end", "crashed"}]
  BY DEF Inv, TypeOK
<1>1. ASSUME NEW s \in Streams, Setup(s) PROVE Grid' /\ CutWhole'
  BY <1>1, SetupGrid
<1>2. ASSUME NEW s \in Streams, Refill(s) PROVE Grid' /\ CutWhole'
  BY <1>2, RefillGrid
<1>3. ASSUME NEW s \in Streams, Drop(s) PROVE Grid' /\ CutWhole'
  <2>1. /\ state[s] = "open" /\ state' = [state EXCEPT ![s] = "none"]
        /\ cut' = [cut EXCEPT ![s] = <<>>] /\ position' = position
    BY <1>3 DEF Drop
  <2>2. CutWhole'
    BY <1>0, <2>1 DEF CutWhole
  <2>3. \A t \in Streams : state[t] \in {"none", "open"}
    BY <1>0, <2>1 DEF Grid, CrashedAll
  <2> QED BY <1>0, <2>1, <2>2, <2>3 DEF Grid, CrashedAll
<1>4. ASSUME NEW s \in Streams, SetupNoFile(s) PROVE Grid' /\ CutWhole'
  BY <1>4 DEF SetupNoFile, Grid, CrashedAll, CutWhole
<1>5. CASE UNCHANGED vars
  BY <1>5 DEF vars, Grid, CrashedAll, CutWhole
<1> QED BY <1>1, <1>2, <1>3, <1>4, <1>5 DEF Next
=============================================================================
