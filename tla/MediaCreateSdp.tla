--------------------------- MODULE MediaCreateSdp ---------------------------
(***************************************************************************)
(* The SDP of the media file, made once when the program starts: the       *)
(* constructor of the singleton MediaCreateSdp reads the head of the file, *)
(* cuts it into nodes as a stream does, and puts the parameter sets it     *)
(* finds into a template, which DESCRIBE sends later.                      *)
(*                                                                         *)
(* An SDP is the values of the template's placeholders, each <<>> as long  *)
(* as the placeholder itself stands there. A file name is a sequence of    *)
(* tokens, see RtspString.                                                 *)
(***************************************************************************)
EXTENDS Integers, Sequences, FiniteSets

CONSTANTS
  Files,        \* what the media file may hold
  WindowSize,   \* the bytes of it that are read, 4096 in the code
  Limit, MarkMod

VARIABLES
  phase,        \* "start", "cut", "nodes", "made"
  content,      \* what the file holds
  StreamSps,    \* the SPS that was parsed last
  SpsString, PpsString,
  SdpList,      \* entries [key, value]
  \* the stream the nodes are cut with, see H264MediaStream
  task, block, blockno, pos, sta, NalFlag, from, end, dpage, IsFU_A,
  nal_type, DevCount, bufferlist, last

nodes == <<task, block, blockno, pos, sta, NalFlag, from, end, dpage, IsFU_A,
           nal_type, DevCount, bufferlist, last>>
sdpvars == <<phase, content, StreamSps, SpsString, PpsString, SdpList, nodes>>

Window(f) == SubSeq(f, 1, IF Len(f) < WindowSize THEN Len(f) ELSE WindowSize)

H264 == INSTANCE H264MediaStream
        WITH Blocks <- {Window(f) : f \in Files \ {<<>>}}, LongNals <- TRUE,
             MaxBlocks <- 1

(* The one path _tmain asks for is "\test.h264"; entries are filed under   *)
(* the name alone.                                                         *)
KeyName == <<"test">>

Template ==
  [sessionforreplace |-> <<>>, loadtype |-> <<>>, bandwidth |-> <<>>,
   profile_idc |-> <<>>, tempforsps |-> <<>>, rectofvideo |-> <<>>,
   tmpforesid |-> <<>>, tmpforstid |-> <<>>]

Init ==
  /\ phase = "start"
  /\ content \in Files
  /\ StreamSps = <<>> /\ SpsString = <<>> /\ PpsString = <<>>
  /\ SdpList = {}
  /\ H264!Init

-----------------------------------------------------------------------------
(* The constructor.                                                        *)

(* The file cannot be opened, or is empty: there is no SDP.                *)
NoFile ==
  /\ phase = "start"
  /\ phase' = "made"
  /\ UNCHANGED <<content, StreamSps, SpsString, PpsString, SdpList, nodes>>

ReadWindow ==
  /\ phase = "start" /\ content # <<>>
  /\ phase' = "cut"
  /\ H264!DevNode(Window(content))
  /\ UNCHANGED <<content, StreamSps, SpsString, PpsString, SdpList>>

CutWindow ==
  /\ phase = "cut"
  /\ H264!Cut
  /\ phase' = IF task' = "idle" THEN "nodes" ELSE "cut"
  /\ UNCHANGED <<content, StreamSps, SpsString, PpsString, SdpList>>

(* All bytes of a node. One of type 6 and above has no room for headers in *)
(* front; the first of an FU-A run has 18 bytes, its marks and zeros.      *)
NodeBytes(n) ==
  LET payload == SubSeq(block, n.start + 1, n.stop)
  IN  IF n.b0 = 1 THEN <<1, n.b1, n.nal>> \o [i \in 1 .. 15 |-> 0] \o payload
      ELSE payload

(* A plausible slip: the third character takes nothing of the third byte.  *)
Base64EncodeDrops(in) ==
  LET Byte(i) == IF i <= Len(in) THEN in[i] ELSE 0
      Char(i, k) ==
        CASE k = 1 -> Byte(i) \div 4
          [] k = 2 -> 16 * (Byte(i) % 4) + (Byte(i + 1) \div 16)
          [] k = 3 -> IF i + 1 > Len(in) THEN 64 ELSE 4 * (Byte(i + 1) % 16)
          [] k = 4 -> IF i + 2 > Len(in) THEN 64 ELSE Byte(i + 2) % 64
  IN  [j \in 1 .. 4 * ((Len(in) + 2) \div 3) |->
         Char(3 * ((j - 1) \div 4) + 1, ((j - 1) % 4) + 1)]

(* The characters of the Base64 text by their number, 64 for "=".          *)
Base64Encode(in) ==
  LET Byte(i) == IF i <= Len(in) THEN in[i] ELSE 0
      Char(i, k) ==
        CASE k = 1 -> Byte(i) \div 4
          [] k = 2 -> 16 * (Byte(i) % 4) + (Byte(i + 1) \div 16)
          [] k = 3 -> IF i + 1 > Len(in) THEN 64
                      ELSE 4 * (Byte(i + 1) % 16) + (Byte(i + 2) \div 64)
          [] k = 4 -> IF i + 2 > Len(in) THEN 64 ELSE Byte(i + 2) % 64
  IN  [j \in 1 .. 4 * ((Len(in) + 2) \div 3) |->
         Char(3 * ((j - 1) \div 4) + 1, ((j - 1) % 4) + 1)]

(* H264CreateSdp takes the nodes one after the other; of several parameter *)
(* sets the last one wins. A start code is put in front of each.           *)
TakeNode ==
  /\ phase = "nodes" /\ H264!GetNode
  /\ LET n == Head(bufferlist)
         text == Base64Encode(<<0, 0, 1>> \o NodeBytes(n))
     IN  /\ StreamSps' = IF H264!GetNalType(n) = 7 THEN NodeBytes(n)
                         ELSE StreamSps
         /\ SpsString' = IF H264!GetNalType(n) = 7 THEN text ELSE SpsString
         /\ PpsString' = IF H264!GetNalType(n) = 8 THEN text ELSE PpsString
  /\ UNCHANGED <<phase, content, SdpList>>

(* The template with what was found, or as it is when there is an SPS or a *)
(* PPS missing: the constructor does not ask.                              *)
H264CreateSdp ==
  IF SpsString = <<>> \/ PpsString = <<>> THEN Template
  ELSE [Template EXCEPT !.tempforsps = <<SpsString, PpsString>>,
                        !.profile_idc = <<StreamSps>>,
                        !.rectofvideo = <<StreamSps>>]

(* The SDP is entered when it could be written to a file as well.          *)
Insert ==
  /\ phase = "nodes" /\ bufferlist = <<>>
  /\ phase' = "made"
  /\ SdpList' \in {{}, {[key |-> KeyName, value |-> H264CreateSdp]}}
  /\ UNCHANGED <<content, StreamSps, SpsString, PpsString, nodes>>

Next == NoFile \/ ReadWindow \/ CutWindow \/ TakeNode \/ Insert

(* A plausible slip: the first entry is taken for any name.                *)
GetSdpFirst(filename) == {e.value : e \in SdpList}

(* The SDP of a name: one or none.                                         *)
GetSdp(filename) == {e.value : e \in {d \in SdpList : d.key = filename}}

-----------------------------------------------------------------------------
(* What the SDP should hold.                                               *)

(* The NAL units of the window, by the places of their first and last byte *)
(* (Annex B of the standard: up to three zero bytes or a start code).      *)
NalUnits ==
  LET w == Window(content)
      Mark(p) == /\ p + 2 <= Len(w)
                 /\ w[p] = 0 /\ w[p + 1] = 0 /\ w[p + 2] \in {0, 1}
  IN  {n \in (4 .. Len(w)) \X (4 .. Len(w)) :
         /\ n[1] <= n[2] /\ Mark(n[1] - 3) /\ w[n[1] - 1] = 1
         /\ n[2] = Len(w) \/ Mark(n[2] + 1)
         /\ \A p \in n[1] .. n[2] : ~ Mark(p)}

ParameterSets(type) == {n \in NalUnits : content[n[1]] % 32 = type}

(* A unit that the window's last four bytes touch is not known to end.     *)
WholeParameterSets ==
  /\ ParameterSets(7) # {} /\ ParameterSets(8) # {}
  /\ \A n \in ParameterSets(7) \cup ParameterSets(8) :
       n[2] < Len(Window(content)) - 4

(* What a Base64 text stands for: six bits a character but "=", so that    *)
(* byte i has bits of the characters k and k + 1.                          *)
Base64Decode(text) ==
  LET chars == {k \in DOMAIN text : text[k] < 64}
      Byte(i, k) == CASE i % 3 = 1 -> 4 * text[k] + (text[k + 1] \div 16)
                      [] i % 3 = 2 -> 16 * (text[k] % 16) + (text[k + 1] \div 4)
                      [] i % 3 = 0 -> 64 * (text[k] % 4) + text[k + 1]
  IN  [i \in 1 .. (6 * Cardinality(chars)) \div 8 |->
         Byte(i, (8 * (i - 1)) \div 6 + 1)]

(* As the standard has it, but for zero bytes at the end of a unit: three  *)
(* zeros only stand in front of a start code's 1, no unit begins with one. *)
AnnexB(f) ==
  \A p \in 1 .. Len(f) - 3 :
    f[p] = 0 /\ f[p + 1] = 0 => /\ f[p + 2] = 0 => f[p + 3] = 1
                                /\ f[p + 2] = 1 => f[p + 3] # 0

(* However the window cuts the file: when it holds whole parameter sets,   *)
(* the SDP carries the last SPS and the last PPS, byte by byte (behind a   *)
(* start code), and its profile and size are of that SPS.                  *)
SdpOfTheFile ==
  WholeParameterSets =>
    \A e \in SdpList :
      LET Text(n) == <<0, 0, 1>> \o SubSeq(content, n[1], n[2])
          Newest(type) == CHOOSE n \in ParameterSets(type) :
                            \A m \in ParameterSets(type) : m[1] <= n[1]
          sps == Newest(7)
      IN  /\ e.value.tempforsps # <<>>
          /\ Base64Decode(e.value.tempforsps[1]) = Text(sps)
          /\ Base64Decode(e.value.tempforsps[2]) = Text(Newest(8))
          /\ e.value.profile_idc = <<SubSeq(content, sps[1], sps[2])>>
          /\ e.value.rectofvideo = e.value.profile_idc
=============================================================================
