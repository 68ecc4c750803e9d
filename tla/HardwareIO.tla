----------------------------- MODULE HardwareIO -----------------------------
(***************************************************************************)
(* HardwareIO hands out the media file block by block. All streams share   *)
(* one FILE*, so they share its position; every stream keeps, in filepos,  *)
(* the number of bytes it has cut into nodes, and passes it to             *)
(* GetBufferFormFile, which seeks relatively to a _curpos nobody updates.  *)
(*                                                                         *)
(* What a stream really reads is recorded in cut, the file offsets of the  *)
(* blocks it has cut, in order.                                            *)
(***************************************************************************)
EXTENDS Integers, Sequences

CONSTANTS
  Streams,     \* the sessions' streams
  Block,       \* the block size, 10240 in the code
  FileSize,    \* the size of the media file
  MaxBlocks    \* bound: the blocks one stream cuts

ASSUME HardwareIOAssumption ==
  /\ Block \in Nat \ {0}
  /\ FileSize \in Nat
  /\ MaxBlocks \in Nat

(* "_curpos - pos" reaches fseek as a long of 32 bits: a stream that reads *)
(* 2^31 bytes would seek forward from then on. The model stops before it.  *)
ASSUME WidthAssumption == Block * MaxBlocks <= 2147483647

VARIABLES
  position,    \* the position of the shared FILE*, -1 before it is opened
  filepos,     \* MediaStream::filepos of every stream
  cut,         \* history: the offset of every block the stream has cut
  state        \* of every stream: "none", "open" (DevNode has cut the last
               \* block that was read), "end" (the last read got no block),
               \* or "crashed"

vars == <<position, filepos, cut, state>>

Init ==
  /\ position = -1
  /\ filepos = [s \in Streams |-> 0]
  /\ cut = [s \in Streams |-> <<>>]
  /\ state = [s \in Streams |-> "none"]

-----------------------------------------------------------------------------
(* FileNode::_curpos is set to 0 by MakeFileNode and never written again.  *)
CurPos == 0

(* A plausible slip: no seek for a caller who asks for the place the file  *)
(* was opened at.                                                          *)
SeekUnlessStart(at, pos) ==
  IF pos = CurPos
  THEN IF at = -1 THEN 0 ELSE at
  ELSE IF at + CurPos - pos >= 0 THEN at + CurPos - pos ELSE at

(* A plausible slip: a failed relative seek rewinds the file.              *)
SeekRewinds(at, pos) ==
  IF (CurPos > pos /\ CurPos - pos < pos) \/ CurPos < pos
  THEN IF at + CurPos - pos >= 0 THEN at + CurPos - pos ELSE 0
  ELSE pos

(* A plausible slip: the signs are swapped in the relative seek.           *)
SeekForward(at, pos) ==
  IF (CurPos > pos /\ CurPos - pos < pos) \/ CurPos < pos
  THEN at + pos - CurPos
  ELSE pos

(* Where the two fseek calls leave the FILE* when it is at "at" and the    *)
(* caller asks for "pos": a seek to before the start of the file fails and *)
(* leaves the position alone. (pos is unsigned and _curpos is 0, so that   *)
(* "_curpos - pos" reaches fseek as -pos.)                                 *)
Seek(at, pos) ==
  IF (CurPos > pos /\ CurPos - pos < pos) \/ CurPos < pos
  THEN IF at + CurPos - pos >= 0 THEN at + CurPos - pos ELSE at
  ELSE pos

(* fread got all it asked for and did not meet the end of the file.        *)
FullBlock(from) == from + Block <= FileSize

(* A plausible slip: a short read counts like a whole one.                 *)
AfterReadPastEnd(from) == from + Block

(* A plausible slip: the file is rewound at its end.                       *)
AfterReadRewinds(from) == IF FullBlock(from) THEN from + Block ELSE 0

(* Where fread leaves the FILE*.                                           *)
AfterRead(from) == IF FullBlock(from) THEN from + Block ELSE FileSize

-----------------------------------------------------------------------------
(* SETUP: the session gets a new stream; MakeFileNode opens the file when  *)
(* no stream has opened it, and the first block is read and cut. A file    *)
(* that cannot be opened leaves a null FileNode behind, and an empty       *)
(* buffer trips the assertion of FullBuffer in DevNode: both crash.        *)
Setup(s) ==
  LET from == Seek(position, 0)
  IN  /\ state[s] # "crashed"
      /\ IF FullBlock(from)
         THEN /\ cut' = [cut EXCEPT ![s] = <<from>>]
              /\ filepos' = [filepos EXCEPT ![s] = Block]
              /\ state' = [state EXCEPT ![s] = "open"]
         ELSE /\ cut' = [cut EXCEPT ![s] = <<>>]
              /\ filepos' = [filepos EXCEPT ![s] = 0]
              /\ state' = [t \in Streams |-> "crashed"]
      /\ position' = AfterRead(from)

SetupNoFile(s) ==
  /\ position = -1 /\ state[s] # "crashed"
  /\ state' = [t \in Streams |-> "crashed"]
  /\ UNCHANGED <<position, filepos, cut>>

(* A plausible slip: the bytes of the nodes are counted, of which a slice  *)
(* that is cut into fragments loses one.                                   *)
RefillCountsNodes(s) ==
  LET from == Seek(position, filepos[s])
  IN  /\ state[s] \in {"open", "end"}
      /\ Len(cut[s]) < MaxBlocks
      /\ IF FullBlock(from)
         THEN /\ cut' = [cut EXCEPT ![s] = Append(@, from)]
              /\ filepos' = [filepos EXCEPT ![s] = @ + Block - 1]
              /\ state' = [state EXCEPT ![s] = "open"]
         ELSE /\ state' = [state EXCEPT ![s] = "end"]
              /\ UNCHANGED <<cut, filepos>>
      /\ position' = AfterRead(from)

(* TCPForH264 finds the stream's node queue empty: a block is read at      *)
(* filepos and cut into nodes. Without a block nothing remembers that the  *)
(* file has ended, and the caller tries again.                             *)
Refill(s) ==
  LET from == Seek(position, filepos[s])
  IN  /\ state[s] \in {"open", "end"}
      /\ Len(cut[s]) < MaxBlocks
      /\ IF FullBlock(from)
         THEN /\ cut' = [cut EXCEPT ![s] = Append(@, from)]
              /\ filepos' = [filepos EXCEPT ![s] = @ + Block]
              /\ state' = [state EXCEPT ![s] = "open"]
         ELSE /\ state' = [state EXCEPT ![s] = "end"]
              /\ UNCHANGED <<cut, filepos>>
      /\ position' = AfterRead(from)

(* The session ends and its stream is destroyed; the file stays open.      *)
Drop(s) ==
  /\ state[s] \in {"open", "end"}
  /\ state' = [state EXCEPT ![s] = "none"]
  /\ cut' = [cut EXCEPT ![s] = <<>>]
  /\ filepos' = [filepos EXCEPT ![s] = 0]
  /\ UNCHANGED position

Next ==
  \E s \in Streams : Setup(s) \/ SetupNoFile(s) \/ Refill(s) \/ Drop(s)

Spec == Init /\ [][Next]_vars

-----------------------------------------------------------------------------
(* Properties.                                                             *)

(* The state has its type, and the FILE* never leaves the file.            *)
TypeOK ==
  /\ position \in -1 .. FileSize
  /\ filepos \in [Streams -> Nat]
  /\ cut \in [Streams -> Seq(0 .. FileSize)]
  /\ state \in [Streams -> {"none", "open", "end", "crashed"}]

(* Wherever the other streams have left the shared FILE*, a stream that    *)
(* is set up starts with the first block of the file: MakeFileNode reads   *)
(* it with an absolute seek, and only the later reads seek relatively.     *)
FirstBlockFirst ==
  \A s \in Streams : state[s] \in {"open", "end"} =>
                       cut[s] # <<>> /\ cut[s][1] = 0

(* A stream that has the file for itself reads the first block twice and   *)
(* then every block once, in order: the relative seek of the second read   *)
(* goes back to the start and every later one fails.                       *)
SoleStreamInOrder ==
  \A s \in Streams :
    /\ Len(cut[s]) >= 2 => cut[s][2] = 0
    /\ \A i \in 2 .. Len(cut[s]) - 1 : cut[s][i + 1] = cut[s][i] + Block

(* The stream meets the end of the file only when it has cut the last      *)
(* whole block: what it misses is shorter than a block.                    *)
SoleStreamComplete ==
  \A s \in Streams : state[s] = "end" =>
                       cut[s][Len(cut[s])] + 2 * Block > FileSize

(* For a stream that has the file for itself the end is final: however     *)
(* often it tries again, it gets no block until it is set up anew.         *)
EndIsFinal ==
  [][\A s \in Streams : state[s] = "end" =>
       state'[s] = "end" \/ cut'[s] \in {<<>>, <<0>>}]_vars
=============================================================================
