----------------------------- MODULE RtspString -----------------------------
(***************************************************************************)
(* The text of one session's requests and replies: rtsp_string takes a     *)
(* request apart and writes the reply, MediaSession::SetDescribe completes *)
(* an SDP. Each session has one rtsp_string, whose deal_info keeps what    *)
(* the last request did not replace. The SDP is MediaCreateSdp's.          *)
(*                                                                         *)
(* A text is a sequence of tokens; those the code looks for are "rtsp:"    *)
(* with a space in front, "/", "SP" for a space, "CSeq:", "\r\n", the      *)
(* methods and "RTP/AVP/TCP".                                              *)
(***************************************************************************)
EXTENDS Integers, Sequences, FiniteSets

CONSTANTS
  Requests,   \* [text, method, path, cseq, spaced]: a text, what it says, and
              \* whether a space follows its "CSeq:"
  SessionId,
  Files, WindowSize, Limit, MarkMod

VARIABLES
  deal_info,  \* [type, addr, file_path, cseq]
  request,    \* history: the request that was answered last
  reply,      \* [status, cseq, base, sdp, content_count], or the echoed text
  \* see MediaCreateSdp
  phase, content, StreamSps, SpsString, PpsString, SdpList,
  task, block, blockno, pos, sta, NalFlag, from, end, dpage, IsFU_A,
  nal_type, DevCount, bufferlist, last

sdp == <<phase, content, StreamSps, SpsString, PpsString, SdpList,
         task, block, blockno, pos, sta, NalFlag, from, end, dpage, IsFU_A,
         nal_type, DevCount, bufferlist, last>>
vars == <<deal_info, request, reply, sdp>>

Sdp == INSTANCE MediaCreateSdp

(* Files hold bytes, and DevNode reads four of a window that is not empty; *)
(* see H264MediaStream.                                                    *)
ASSUME SdpAssumption ==
  /\ WindowSize \in Nat
  /\ Limit \in Nat /\ Limit >= 2
  /\ MarkMod \in Nat /\ MarkMod >= 2
  /\ \A f \in Files : f \in Seq(0 .. 255)
  /\ \A f \in Files \ {<<>>} : Len(Sdp!Window(f)) >= 4

Nothing == <<>>
NoRequest == [text |-> <<>>, method |-> "none", path |-> <<>>,
              cseq |-> <<>>, spaced |-> FALSE]

(* A status, a CSeq, Content-Base, and an SDP with its Content-Length. The *)
(* length is that of an SDP: content_count is the SDP it was taken of.     *)
Answer(status, cseq) ==
  [status |-> status, cseq |-> cseq, base |-> Nothing, sdp |-> Nothing,
   content_count |-> Nothing]
Echo(text) == [Answer("none", <<>>) EXCEPT !.base = text]

Init ==
  /\ deal_info = [type |-> "ERRORTYPE", addr |-> <<>>, file_path |-> <<>>,
                  cseq |-> <<>>]
  /\ request = NoRequest
  /\ reply = Answer("none", <<>>)
  /\ Sdp!Init

-----------------------------------------------------------------------------
(* The scanners. A place of 0 means that the scanner before has failed and *)
(* the rest of the text is not looked at.                                  *)

(* The first place from p on where a token stands, 0 for none.             *)
Find(text, token, p) ==
  LET at == {i \in p .. Len(text) : text[i] = token}
  IN  IF at = {} THEN 0 ELSE CHOOSE i \in at : \A j \in at : i <= j

(* The method before "rtsp:", the last if there are several. The letters   *)
(* of TEARDOWN and PAUSE are compared in the wrong places.                 *)
Known == {"OPTIONS", "DESCRIBE", "SETUP", "PLAY"}
RequestType(text) ==
  LET at == {i \in 1 .. Find(text, "rtsp:", 1) : text[i] \in Known}
  IN  IF at = {} THEN "ERRORTYPE"
      ELSE text[CHOOSE i \in at : \A j \in at : j <= i]

(* The address goes up to a "/" that no other follows.                     *)
get_addr(text, p) ==
  LET at == {i \in p .. Len(text) :
               text[i] = "/" /\ (i = Len(text) \/ text[i + 1] # "/")}
  IN  IF p = 0 \/ at = {} THEN 0 ELSE CHOOSE i \in at : \A j \in at : i <= j

(* The path goes up to a space.                                            *)
get_filepath(text, p) == IF p = 0 THEN 0 ELSE Find(text, "SP", p)

(* The places of a text's characters from p on, spaces passed over, up to  *)
(* the next line end behind the first of them: that one is taken whatever  *)
(* it is. None when no line end comes.                                     *)
CseqPlaces(text, p) ==
  LET chars == {i \in p .. Len(text) : text[i] # "SP"}
      ends == {i \in chars : text[i] = "\r\n" /\ \E j \in chars : j < i}
  IN  {i \in chars : /\ ends # {}
                     /\ \A e \in ends : i < e}

(* What stands at some places of a text, one behind the other.             *)
At(text, places) ==
  [n \in 1 .. Cardinality(places) |->
     text[CHOOSE i \in places : Cardinality({j \in places : j <= i}) = n]]

(* A plausible slip: the last CSeq is not cleared.                         *)
get_cseqAppends(text, p, old) ==
  LET found == Find(text, "CSeq:", p)
      places == CseqPlaces(text, IF found = 0 THEN p ELSE found + 1)
  IN  IF p = 0 \/ places = {} THEN old ELSE old \o At(text, places)

(* The CSeq: what stands behind "CSeq:", or at p when there is none from p *)
(* on.                                                                     *)
get_cseq(text, p, old) ==
  LET found == Find(text, "CSeq:", p)
      places == CseqPlaces(text, IF found = 0 THEN p ELSE found + 1)
  IN  IF p = 0 \/ places = {} THEN old ELSE At(text, places)

(* What deal_string makes of a text: fields that are not reached keep what *)
(* they had.                                                               *)
deal_string(text) ==
  LET type == RequestType(text)
      p == IF type = "ERRORTYPE" THEN 0 ELSE Find(text, "rtsp:", 1) + 3
      slash == get_addr(text, p)
      space == get_filepath(text, IF slash = 0 THEN 0 ELSE slash + 1)
  IN  [type |-> type,
       addr |-> IF slash = 0 THEN deal_info.addr
                ELSE SubSeq(text, p, slash - 1),
       file_path |-> IF space = 0 THEN deal_info.file_path
                     ELSE SubSeq(text, slash + 1, space - 1),
       cseq |-> get_cseq(text, IF space = 0 THEN 0 ELSE space + 1,
                         deal_info.cseq)]

-----------------------------------------------------------------------------
(* The replies.                                                            *)

(* The placeholders that depend on the session or have one value, and then *)
(* the length of what has come out.                                        *)
SetDescribe(v) ==
  LET full == [v EXCEPT !.sessionforreplace = <<SessionId>>,
                        !.loadtype = <<96>>, !.bandwidth = <<0>>,
                        !.tmpforesid = <<201>>, !.tmpforstid = <<1>>]
  IN  [sdp |-> full, content_count |-> full]

(* A plausible slip: the request keeps its type when there is no SDP.      *)
DescribeMissingKeepsType(info) ==
  /\ deal_info' = info
  /\ reply' = Answer("405", info.cseq)

(* DESCRIBE for a path that has no SDP. SetDescribe would throw on this    *)
(* text: the type tells DealRtsp not to call it.                           *)
DescribeMissing(info) ==
  /\ deal_info' = [info EXCEPT !.type = "ERRORTYPE"]
  /\ reply' = Answer("405", info.cseq)

DescribeFound(info, v) ==
  /\ deal_info' = info
  /\ reply' = [Answer("200", info.cseq) EXCEPT
                 !.base = info.addr \o <<"/">> \o info.file_path,
                 !.sdp = SetDescribe(v).sdp,
                 !.content_count = SetDescribe(v).content_count]

deal_describe(info) ==
  /\ info.type = "DESCRIBE"
  /\ LET found == Sdp!GetSdp(info.file_path)
     IN  \/ found = {} /\ DescribeMissing(info)
         \/ \E v \in found : DescribeFound(info, v)

(* OPTIONS, PLAY, and SETUP: the 405 that deal_setup writes for another    *)
(* transport than RTP/AVP/TCP is overwritten.                              *)
deal_others(info) ==
  /\ info.type \in {"OPTIONS", "SETUP", "PLAY"}
  /\ deal_info' = info
  /\ reply' = Answer("200", info.cseq)

(* Any other text is sent back.                                            *)
deal_error(info, text) ==
  /\ info.type = "ERRORTYPE"
  /\ deal_info' = info
  /\ reply' = Echo(text)

(* A request comes when the SDP has been made, before the server starts.   *)
deal_requset(r) ==
  /\ phase = "made"
  /\ LET info == deal_string(r.text)
     IN  deal_describe(info) \/ deal_others(info) \/ deal_error(info, r.text)
  /\ request' = r
  /\ UNCHANGED sdp

Next ==
  \/ Sdp!Next /\ UNCHANGED <<deal_info, request, reply>>
  \/ \E r \in Requests : deal_requset(r)

Spec == Init /\ [][Next]_vars

-----------------------------------------------------------------------------
(* Properties.                                                             *)

(* The state has its type, and DealRtsp completes an SDP exactly when the  *)
(* reply holds one.                                                        *)
TypeOK ==
  /\ deal_info.type \in Known \cup {"ERRORTYPE"}
  /\ request \in Requests \cup {NoRequest}
  /\ reply.status \in {"none", "200", "405"}
  /\ deal_info.type = "DESCRIBE" <=> reply.sdp # Nothing

Texts == [text : Seq(STRING), method : STRING, path : Seq(STRING),
          cseq : Seq(STRING), spaced : BOOLEAN]

(* A request as clients write it: METHOD rtsp://host/path RTSP/1.0, where  *)
(* the path may be missing, then any headers with one "CSeq:" among them,  *)
(* its number and a line end. The host holds no "/", the path no space and *)
(* no "/" in front.                                                        *)
Written(r) ==
  LET t == r.text
      n == Len(r.path)
      Has(p, words) == /\ p + Len(words) <= Len(t)
                       /\ \A i \in DOMAIN words : t[p + i] = words[i]
  IN  \E h \in 5 .. Len(t), c \in DOMAIN t :
        LET v == IF r.spaced THEN c + 1 ELSE c
        IN  /\ Has(0, <<r.method, "rtsp:", "/", "/">>)
            /\ \A i \in 5 .. h - 1 : t[i] # "/"
            /\ IF r.path = <<>>
               THEN Has(h - 1, <<"SP", "RTSP", "/", "1.0">>) /\ h + 3 < c
               ELSE /\ t[h] = "/" /\ Has(h, r.path) /\ t[h + n + 1] = "SP"
                    /\ r.path[1] # "/" /\ \A i \in 1 .. n : r.path[i] # "SP"
                    /\ h + n + 1 < c
            /\ \A i \in DOMAIN t : t[i] = "CSeq:" <=> i = c
            /\ r.spaced => Has(c, <<"SP">>)
            /\ r.cseq # <<>> /\ Has(v, r.cseq \o <<"\r\n">>)
            /\ \A i \in DOMAIN r.cseq : r.cseq[i] \notin {"SP", "\r\n"}

(* Whatever earlier requests have left in deal_info: a recognised request  *)
(* that names a path, or whose "CSeq:" a space follows, gets its own CSeq  *)
(* back.                                                                   *)
CseqEchoed ==
  /\ request.method \in Known
  /\ request.path # <<>> \/ request.spaced
  => reply.cseq = request.cseq

(* A DESCRIBE that names a path gets an SDP just when that is the name of  *)
(* the served file and there is one, never by what an earlier request has  *)
(* named; it comes with the right length and no placeholder of the session *)
(* left in it.                                                             *)
DescribeOwnPath ==
  request.method = "DESCRIBE" /\ request.path # <<>> =>
    /\ reply.status = "200" <=> request.path = Sdp!KeyName /\ SdpList # {}
    /\ reply.status = "200" =>
         /\ reply.content_count = reply.sdp
         /\ \A f \in {"sessionforreplace", "loadtype", "bandwidth",
                       "tmpforesid", "tmpforstid"} : reply.sdp[f] # <<>>

(* See MediaCreateSdp.                                                     *)
SdpOfTheFile == Sdp!SdpOfTheFile
=============================================================================
