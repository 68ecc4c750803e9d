---------------------------- MODULE RtspSession -----------------------------
(***************************************************************************)
(* The connections of the server, from the bytes a client sends to the RTP *)
(* packets it gets: MediaSession::Recv / DealRtsp parse requests out of    *)
(* the input and write replies, MediaSession::Send writes one RTP packet   *)
(* each time the connection's output has been drained. All callbacks run   *)
(* on libevent's single thread, one at a time.                             *)
(*                                                                         *)
(* A connection's output is all that keeps its stream going: libevent      *)
(* calls the write callback only after it has emptied the output, and only *)
(* the write callback (or a reply) fills it again.                         *)
(*                                                                         *)
(* A request is one unit of the input, or a head and a tail when TCP       *)
(* delivers it in two pieces; an interleaved RTCP packet is one unit. A    *)
(* node that DevNode has cut is "data" or "skip" (SPS, PPS, SEI: nothing   *)
(* is sent for it).                                                        *)
(***************************************************************************)
EXTENDS Integers, Sequences

CONSTANTS
  Conns,         \* connections, with their session and its stream
  None,          \* no connection
  Methods,       \* the requests clients send
  Polite,        \* clients wait for each reply and keep to the RTSP order
  Splits,        \* TCP may deliver a request in two pieces
  ZeroedHeap,    \* new memory never holds an old session's stype
  ChunkUnits,    \* the units that fit the 1480 bytes DealRtsp reads
  Cuts,          \* the node sequences DevNode may cut a block into
  SqsMod,        \* sqsnumber is counted modulo this, 2^16 in the code
  MaxRequests,   \* bound: requests of one connection
  MaxRtcp,       \* bound: RTCP packets of one connection
  Block, FileSize, MaxBlocks

AllMethods == {"OPTIONS", "DESCRIBE", "SETUP", "PLAY", "TEARDOWN"}

ASSUME RtspSessionAssumption ==
  /\ None \notin Conns
  /\ Methods \subseteq AllMethods
  /\ Polite \in BOOLEAN /\ Splits \in BOOLEAN /\ ZeroedHeap \in BOOLEAN
  /\ ChunkUnits \in Nat \ {0} /\ SqsMod \in Nat \ {0}
  /\ Cuts \subseteq Seq({"skip", "data"}) \ {<<>>}
  /\ MaxRequests \in Nat /\ MaxRtcp \in Nat
  /\ Block \in Nat \ {0} /\ FileSize \in Nat /\ MaxBlocks \in Nat

(* As in HardwareIO.                                                       *)
ASSUME SessionWidthAssumption == Block * MaxBlocks <= 2147483647

VARIABLES
  \* the process
  server,      \* "up", "assert" (an assertion failed) or "fault"
  fileok,      \* the media file could be opened
  busy,        \* the connection whose callback is in TCPForH264, or None
  task,        \* the PLAY request the callback answers, or Sending
  \* each MediaSession and its MediaStream
  conn,        \* "none" or "open"
  rtspinc,     \* units collected until a request is complete
  stype,       \* info.stype, the type of the last request
  stream,      \* streamobj: "none", "ready", or "play" (IsPlay is set)
  queue,       \* bufferlist
  sqsnumber,
  \* each bufferevent
  input,       \* what libevent has read and DealRtsp has not
  output,      \* what was written and libevent has not sent
  ev_write,    \* the write event is pending
  \* each client and the network
  wire,        \* units on the way to the server
  client,      \* [nreq, tail, nrtcp, reply, ok, seq, closed], see Client
  \* the media file, see HardwareIO
  position, filepos, cut, state

file == <<position, filepos, cut, state>>
session == <<conn, rtspinc, stype, stream, queue, sqsnumber>>
bufev == <<input, output, ev_write>>
vars == <<server, fileok, busy, task, session, bufev, wire, client, file>>

File == INSTANCE HardwareIO WITH Streams <- Conns

NoTask == 0
Sending == -1

(* A client: the requests it has sent, whether the tail of the last one is *)
(* still to come, the RTCP packets it has sent, the last request it got a  *)
(* reply to, the methods it got a good reply to, and the last sequence     *)
(* number it got since the reply to PLAY (-1 for none).                    *)
Client ==
  [nreq : 0 .. MaxRequests, tail : BOOLEAN, nrtcp : 0 .. MaxRtcp,
   reply : 0 .. MaxRequests, ok : SUBSET Methods, seq : -1 .. SqsMod - 1,
   closed : BOOLEAN]

NewClient == [nreq |-> 0, tail |-> FALSE, nrtcp |-> 0, reply |-> 0, ok |-> {},
              seq |-> -1, closed |-> FALSE]

Unit == [part : {"all", "head", "tail", "rtcp"}, id : 0 .. MaxRequests,
         method : Methods \cup {"none"}]

Reply(id, m, ok) == [kind |-> "reply", id |-> id, method |-> m, ok |-> ok]
Rtp(seq) == [kind |-> "rtp", seq |-> seq]
Replies == [kind : {"reply"}, id : 0 .. MaxRequests,
            method : Methods \cup {"none"}, ok : BOOLEAN]
Packets == [kind : {"rtp"}, seq : 0 .. SqsMod - 1]

Init ==
  /\ server = "up"
  /\ fileok \in BOOLEAN
  /\ busy = None
  /\ task = NoTask
  /\ conn = [c \in Conns |-> "none"]
  /\ rtspinc = [c \in Conns |-> <<>>]
  /\ stype = [c \in Conns |-> "UNSET"]
  /\ stream = [c \in Conns |-> "none"]
  /\ queue = [c \in Conns |-> <<>>]
  /\ sqsnumber = [c \in Conns |-> 0]
  /\ input = [c \in Conns |-> <<>>]
  /\ output = [c \in Conns |-> <<>>]
  /\ ev_write = [c \in Conns |-> FALSE]
  /\ wire = [c \in Conns |-> <<>>]
  /\ client = [c \in Conns |-> NewClient]
  /\ File!Init

Idle == server = "up" /\ busy = None

-----------------------------------------------------------------------------
(* The clients.                                                            *)

(* A polite client asks for the next thing when it has its answer.         *)
MaySend(c, m) ==
  LET k == client[c]
  IN  Polite => /\ k.reply = k.nreq
                /\ m = "SETUP" => "DESCRIBE" \in k.ok
                /\ m = "PLAY" => "SETUP" \in k.ok
                /\ m = "TEARDOWN" => "PLAY" \in k.ok

SendRequest(c, m) ==
  LET id == client[c].nreq + 1
  IN  /\ conn[c] = "open" /\ ~ client[c].closed
      /\ client[c].nreq < MaxRequests /\ ~ client[c].tail
      /\ MaySend(c, m)
      /\ \E split \in {FALSE, Splits} :
           /\ wire' = [wire EXCEPT ![c] = Append(@,
                         [part |-> IF split THEN "head" ELSE "all",
                          id |-> id, method |-> m])]
           /\ client' = [client EXCEPT ![c].nreq = id, ![c].tail = split]
      /\ UNCHANGED <<server, fileok, busy, task, session, bufev, file>>

SendTail(c) ==
  /\ conn[c] = "open" /\ ~ client[c].closed /\ client[c].tail
  /\ wire' = [wire EXCEPT ![c] = Append(@,
                [part |-> "tail", id |-> client[c].nreq, method |-> "none"])]
  /\ client' = [client EXCEPT ![c].tail = FALSE]
  /\ UNCHANGED <<server, fileok, busy, task, session, bufev, file>>

(* Receiver reports, once packets arrive.                                  *)
SendRtcp(c) ==
  /\ conn[c] = "open" /\ ~ client[c].closed /\ ~ client[c].tail
  /\ client[c].seq >= 0 /\ client[c].nrtcp < MaxRtcp
  /\ wire' = [wire EXCEPT ![c] = Append(@,
                [part |-> "rtcp", id |-> 0, method |-> "none"])]
  /\ client' = [client EXCEPT ![c].nrtcp = @ + 1]
  /\ UNCHANGED <<server, fileok, busy, task, session, bufev, file>>

Hangup(c) ==
  /\ conn[c] = "open" /\ ~ client[c].closed
  /\ client' = [client EXCEPT ![c].closed = TRUE]
  /\ UNCHANGED <<server, fileok, busy, task, session, bufev, wire, file>>

(* What a client learns from one unit of output.                           *)
Receive(k, u) ==
  IF u.kind = "rtp" THEN [k EXCEPT !.seq = u.seq]
  ELSE [k EXCEPT !.reply = u.id,
                 !.ok = IF u.ok /\ u.method # "none" THEN @ \cup {u.method}
                        ELSE @,
                 !.seq = IF u.method = "PLAY" THEN -1 ELSE @]

-----------------------------------------------------------------------------
(* Recv: DealRtsp on what the socket has brought.                          *)

(* How much of a chunk is appended: append stops at the first NUL, which   *)
(* is in the header of the first RTCP packet, and a chunk that starts with *)
(* '$' is dropped whole.                                                   *)
Appended(chunk) ==
  {n \in 0 .. Len(chunk) :
     /\ \A i \in 1 .. n : chunk[i].part # "rtcp"
     /\ n < Len(chunk) => chunk[n + 1].part = "rtcp"}

(* The text holds an empty line.                                           *)
Complete(text) == \E i \in DOMAIN text : text[i].part \in {"all", "tail"}

(* The first request line in a complete text, if there is one.             *)
FirstLine(text) ==
  {i \in DOMAIN text : /\ text[i].part \in {"all", "head"}
                       /\ \A j \in 1 .. i - 1 : text[j].part = "tail"}

Request(text) ==
  IF FirstLine(text) = {} THEN {[id |-> text[1].id, method |-> "none"]}
  ELSE {[id |-> text[i].id, method |-> text[i].method] : i \in FirstLine(text)}

(* deal_string: the letters of TEARDOWN are compared one place too far, so *)
(* it is not recognised, like a text without a request line.               *)
Type(m) == IF m \in {"TEARDOWN", "none"} THEN "ERRORTYPE" ELSE m

(* A plausible slip: the write event is not armed.                         *)
WriteUnarmed(c, u) ==
  /\ output' = [output EXCEPT ![c] = Append(@, u)]
  /\ UNCHANGED ev_write

(* bufferevent_write appends and arms the write event.                     *)
Write(c, u) ==
  /\ output' = [output EXCEPT ![c] = Append(@, u)]
  /\ ev_write' = [ev_write EXCEPT ![c] = TRUE]

(* OPTIONS gets its reply; DESCRIBE gets the SDP of the path it names, if  *)
(* there is one; anything else gets its own text back.                     *)
DealOther(c, r) ==
  /\ Type(r.method) \notin {"SETUP", "PLAY"}
  /\ \E found \in IF Type(r.method) = "DESCRIBE" /\ fileok THEN BOOLEAN
                  ELSE {Type(r.method) = "OPTIONS"} :
       /\ stype' = [stype EXCEPT ![c] = IF found THEN Type(r.method)
                                        ELSE "ERRORTYPE"]
       /\ Write(c, Reply(r.id, r.method, found))
  /\ UNCHANGED <<server, busy, task, stream, queue, sqsnumber, file>>

(* A new stream replaces the old one and cuts the first block. The reply   *)
(* is good whatever transport was asked for: the 405 that deal_setup       *)
(* writes for any but RTP/AVP/TCP is overwritten.                          *)
DealSetup(c, r) ==
  /\ Type(r.method) = "SETUP"
  /\ IF fileok THEN File!Setup(c) ELSE File!SetupNoFile(c)
  /\ stype' = [stype EXCEPT ![c] = "SETUP"]
  /\ IF state'[c] = "crashed"
     THEN /\ server' = "fault"
          /\ UNCHANGED <<stream, queue, sqsnumber, output, ev_write>>
     ELSE /\ stream' = [stream EXCEPT ![c] = "ready"]
          /\ \E nodes \in Cuts : queue' = [queue EXCEPT ![c] = nodes]
          /\ sqsnumber' = [sqsnumber EXCEPT ![c] = 0]
          /\ Write(c, Reply(r.id, r.method, TRUE))
          /\ UNCHANGED server
  /\ UNCHANGED <<busy, task>>

(* A plausible slip: the stream starts without the first call.             *)
DealPlayAtOnce(c, r) ==
  /\ Type(r.method) = "PLAY"
  /\ stype' = [stype EXCEPT ![c] = "PLAY"]
  /\ stream' = [stream EXCEPT ![c] = "play"]
  /\ UNCHANGED <<server, busy, task, queue, sqsnumber, output,
                 ev_write, file>>

(* PLAY calls TCPForH264, which asserts that there is a stream.            *)
DealPlay(c, r) ==
  /\ Type(r.method) = "PLAY"
  /\ stype' = [stype EXCEPT ![c] = "PLAY"]
  /\ IF stream[c] = "none"
     THEN server' = "assert" /\ UNCHANGED <<busy, task>>
     ELSE busy' = c /\ task' = r.id /\ UNCHANGED server
  /\ UNCHANGED <<stream, queue, sqsnumber, output, ev_write, file>>

(* A plausible slip: rtspinc is cleared only after a good request.         *)
DealRtspKeepsText(c, text) ==
  IF Complete(text)
  THEN /\ rtspinc' = [rtspinc EXCEPT ![c] = text]
       /\ \E r \in Request(text) :
            DealSetup(c, r) \/ DealPlay(c, r) \/ DealOther(c, r)
  ELSE /\ rtspinc' = [rtspinc EXCEPT ![c] = text]
       /\ UNCHANGED <<server, busy, task, stype, stream, queue, sqsnumber,
                      output, ev_write, file>>

(* One request is answered, and the rest of the text is thrown away.       *)
DealRtsp(c, text) ==
  IF Complete(text)
  THEN /\ rtspinc' = [rtspinc EXCEPT ![c] = <<>>]
       /\ \E r \in Request(text) :
            DealSetup(c, r) \/ DealPlay(c, r) \/ DealOther(c, r)
  ELSE /\ rtspinc' = [rtspinc EXCEPT ![c] = text]
       /\ UNCHANGED <<server, busy, task, stype, stream, queue, sqsnumber,
                      output, ev_write, file>>

(* libevent moves what has arrived to the input and calls Recv once, which *)
(* takes one chunk: the rest stays until more arrives.                     *)
Recv(c) ==
  /\ Idle /\ conn[c] = "open" /\ wire[c] # <<>>
  /\ \E m \in 1 .. Len(wire[c]) :
       LET in == input[c] \o SubSeq(wire[c], 1, m)
           n == IF Len(in) < ChunkUnits THEN Len(in) ELSE ChunkUnits
           chunk == SubSeq(in, 1, n)
       IN  /\ wire' = [wire EXCEPT ![c] = SubSeq(@, m + 1, Len(@))]
           /\ input' = [input EXCEPT ![c] = SubSeq(in, n + 1, Len(in))]
           /\ \E k \in Appended(chunk) :
                DealRtsp(c, rtspinc[c] \o SubSeq(chunk, 1, k))
  /\ UNCHANGED <<fileok, conn, client>>

-----------------------------------------------------------------------------
(* Send, and the loop around TCPForH264 that it shares with PLAY.          *)

(* A plausible slip: the write callback does not wait for the drain.       *)
SendBeforeDrain(c, drained) ==
  IF stype[c] = "PLAY"
  THEN IF stream[c] = "none"
       THEN server' = "fault" /\ UNCHANGED <<busy, task>>
       ELSE /\ IF stream[c] = "play" THEN busy' = c /\ task' = Sending
               ELSE UNCHANGED <<busy, task>>
            /\ UNCHANGED server
  ELSE UNCHANGED <<server, busy, task>>

(* The write callback streams only while the last request was PLAY.        *)
Send(c, drained) ==
  IF drained /\ stype[c] = "PLAY"
  THEN IF stream[c] = "none"
       THEN server' = "fault" /\ UNCHANGED <<busy, task>>
       ELSE /\ IF stream[c] = "play" THEN busy' = c /\ task' = Sending
               ELSE UNCHANGED <<busy, task>>
            /\ UNCHANGED server
  ELSE UNCHANGED <<server, busy, task>>

(* bufferevent_writecb: the socket takes what it can, here one unit; when  *)
(* nothing is left the write event is taken out and the callback runs.     *)
WriteReady(c) ==
  /\ Idle /\ conn[c] = "open" /\ ev_write[c]
  /\ LET rest == IF output[c] = <<>> THEN <<>> ELSE Tail(output[c])
     IN  /\ output' = [output EXCEPT ![c] = rest]
         /\ ev_write' = [ev_write EXCEPT ![c] = rest # <<>>]
         /\ Send(c, rest = <<>>)
  /\ client' = IF output[c] = <<>> THEN client
               ELSE [client EXCEPT ![c] = Receive(@, Head(output[c]))]
  /\ UNCHANGED <<fileok, session, input, wire, file>>

(* A plausible slip: the node that is not sent is not counted either, but  *)
(* a packet takes the number behind it.                                    *)
TakeSkipsNumber(c) ==
  sqsnumber' = [sqsnumber EXCEPT ![c] = (@ + IF task = Sending THEN 2 ELSE 1)
                                        % SqsMod]

(* Every packet that is made takes a sequence number.                      *)
Take(c) == sqsnumber' = [sqsnumber EXCEPT ![c] = (@ + 1) % SqsMod]

(* A plausible slip: the packet is made and never written.                 *)
FinishLosesPacket(c) ==
  IF task = Sending
  THEN UNCHANGED <<output, ev_write, stream>>
  ELSE /\ Write(c, Reply(task, "PLAY", TRUE))
       /\ stream' = [stream EXCEPT ![c] = "play"]

(* A plausible slip: PLAY writes the packet it has made, in front of its   *)
(* reply.                                                                  *)
FinishPlaySendsFirst(c) ==
  IF task = Sending
  THEN /\ Write(c, Rtp(sqsnumber[c]))
       /\ UNCHANGED stream
  ELSE /\ output' = [output EXCEPT ![c] =
                       @ \o <<Rtp(sqsnumber[c]), Reply(task, "PLAY", TRUE)>>]
       /\ ev_write' = [ev_write EXCEPT ![c] = TRUE]
       /\ stream' = [stream EXCEPT ![c] = "play"]

(* The callback ends: Send writes the packet; PLAY writes its reply, lets  *)
(* the stream run, and drops the packet.                                   *)
Finish(c) ==
  IF task = Sending
  THEN /\ Write(c, Rtp(sqsnumber[c]))
       /\ UNCHANGED stream
  ELSE /\ Write(c, Reply(task, "PLAY", TRUE))
       /\ stream' = [stream EXCEPT ![c] = "play"]

(* One TCPForH264 of the loop that waits for a buffer with something in.   *)
SkipNode(c) ==
  /\ queue[c] # <<>> /\ Head(queue[c]) = "skip"
  /\ queue' = [queue EXCEPT ![c] = Tail(@)]
  /\ UNCHANGED <<server, busy, task, stream, sqsnumber, output,
                 ev_write, file>>

SendNode(c) ==
  /\ queue[c] # <<>> /\ Head(queue[c]) = "data"
  /\ queue' = [queue EXCEPT ![c] = Tail(@)]
  /\ Take(c)
  /\ Finish(c)
  /\ busy' = None /\ task' = NoTask
  /\ UNCHANGED <<server, file>>

ReadBlock(c) ==
  /\ queue[c] = <<>>
  /\ File!Refill(c) /\ state'[c] = "open"
  /\ \E nodes \in Cuts : queue' = [queue EXCEPT ![c] = nodes]
  /\ UNCHANGED <<server, busy, task, stream, sqsnumber, output,
                 ev_write>>

(* "at the end": the header is written into an empty buffer, which may     *)
(* damage the heap, the number is taken, and the loop goes round again.    *)
ReadNothing(c) ==
  /\ queue[c] = <<>>
  /\ File!Refill(c) /\ state'[c] = "end"
  /\ server' \in {"up", "fault"}
  /\ Take(c)
  /\ UNCHANGED <<busy, task, stream, queue, output, ev_write>>

TCPForH264(c) ==
  /\ server = "up" /\ busy = c
  /\ SkipNode(c) \/ SendNode(c) \/ ReadBlock(c) \/ ReadNothing(c)
  /\ UNCHANGED <<fileok, conn, rtspinc, stype, input, wire, client>>

-----------------------------------------------------------------------------
(* The life of a connection (see MediaSessionList).                        *)

(* Enabling the bufferevent makes its write event pending, so the write    *)
(* callback runs once before anything was written. info is not             *)
(* initialised: memory of a deleted session may still say PLAY.            *)
Connect(c) ==
  /\ Idle /\ conn[c] = "none"
  /\ conn' = [conn EXCEPT ![c] = "open"]
  /\ \E t \in {"UNSET"} \cup (IF ZeroedHeap THEN {} ELSE {"PLAY"}) :
       stype' = [stype EXCEPT ![c] = t]
  /\ ev_write' = [ev_write EXCEPT ![c] = TRUE]
  /\ UNCHANGED <<server, fileok, busy, task, rtspinc, stream, queue,
                 sqsnumber, input, output, wire, client, file>>

(* A plausible slip: the stream outlives its session.                      *)
EndStreamLeaks(c) == UNCHANGED file

(* streamobj is destroyed with the session.                                *)
EndStream(c) == IF stream[c] = "none" THEN UNCHANGED file ELSE File!Drop(c)

(* The client has gone: everything of the connection goes.                 *)
Disconnect(c) ==
  /\ Idle /\ conn[c] = "open" /\ client[c].closed
  /\ conn' = [conn EXCEPT ![c] = "none"]
  /\ rtspinc' = [rtspinc EXCEPT ![c] = <<>>]
  /\ stype' = [stype EXCEPT ![c] = "UNSET"]
  /\ stream' = [stream EXCEPT ![c] = "none"]
  /\ queue' = [queue EXCEPT ![c] = <<>>]
  /\ sqsnumber' = [sqsnumber EXCEPT ![c] = 0]
  /\ input' = [input EXCEPT ![c] = <<>>]
  /\ output' = [output EXCEPT ![c] = <<>>]
  /\ ev_write' = [ev_write EXCEPT ![c] = FALSE]
  /\ wire' = [wire EXCEPT ![c] = <<>>]
  /\ client' = [client EXCEPT ![c] = NewClient]
  /\ EndStream(c)
  /\ UNCHANGED <<server, fileok, busy, task>>

-----------------------------------------------------------------------------
Next ==
  \E c \in Conns :
    \/ \E m \in Methods : SendRequest(c, m)
    \/ SendTail(c)
    \/ SendRtcp(c)
    \/ Hangup(c)
    \/ Connect(c)
    \/ Recv(c)
    \/ WriteReady(c)
    \/ TCPForH264(c)
    \/ Disconnect(c)

(* libevent serves every event that is ready in each round of its loop,    *)
(* however busy the others are, as long as the callbacks return; clients   *)
(* read what they get and finish the requests they have begun.             *)
Fairness ==
  \A c \in Conns :
    /\ SF_vars(Recv(c)) /\ SF_vars(WriteReady(c)) /\ SF_vars(Disconnect(c))
    /\ WF_vars(TCPForH264(c))
    /\ WF_vars(SendTail(c))

Spec == Init /\ [][Next]_vars
FairSpec == Spec /\ Fairness

-----------------------------------------------------------------------------
(* Properties.                                                             *)

(* The state has its type; a stream exists exactly while it has cut a      *)
(* block of the file.                                                      *)
TypeOK ==
  /\ server \in {"up", "assert", "fault"}
  /\ fileok \in BOOLEAN
  /\ busy \in Conns \cup {None}
  /\ task \in -1 .. MaxRequests
  /\ conn \in [Conns -> {"none", "open"}]
  /\ rtspinc \in [Conns -> Seq(Unit)]
  /\ stype \in [Conns -> {"UNSET", "OPTIONS", "DESCRIBE", "SETUP", "PLAY",
                          "ERRORTYPE"}]
  /\ stream \in [Conns -> {"none", "ready", "play"}]
  /\ queue \in [Conns -> Seq({"skip", "data"})]
  /\ sqsnumber \in [Conns -> 0 .. SqsMod - 1]
  /\ input \in [Conns -> Seq(Unit)]
  /\ output \in [Conns -> Seq(Replies \cup Packets)]
  /\ ev_write \in [Conns -> BOOLEAN]
  /\ wire \in [Conns -> Seq(Unit)]
  /\ client \in [Conns -> Client]
  /\ server = "up" => \A c \in Conns :
                        stream[c] # "none" <=> state[c] \in {"open", "end"}

(* The session's last request was PLAY and its stream runs.                *)
Streaming(c) == conn[c] = "open" /\ stype[c] = "PLAY" /\ stream[c] = "play"

(* Only an output that is not empty brings the next write callback: while  *)
(* a session streams and no callback is at work for it, there is something *)
(* in its output and the write event is pending. If it were not, nothing   *)
(* would ever send the next packet.                                        *)
SendChainAlive ==
  \A c \in Conns : Streaming(c) /\ server = "up" /\ busy # c =>
                     output[c] # <<>> /\ ev_write[c]

(* A slow client never makes the server pile up packets: at most one is    *)
(* in a connection's output, however requests and writes interleave.       *)
OnePacketInOutput ==
  \A c \in Conns : \A i, j \in DOMAIN output[c] :
    output[c][i].kind = "rtp" /\ output[c][j].kind = "rtp" => i = j

(* However requests are pipelined, cut or mixed with RTCP, replies come in *)
(* the order of the requests, and no request is answered twice. (A tail    *)
(* whose head was thrown away is echoed without being recognised: that may *)
(* follow the reply to its own request.)                                   *)
RepliesInOrder ==
  \A c \in Conns : \A i \in DOMAIN output[c] :
    output[c][i].kind = "reply" =>
      LET After(id) == IF output[c][i].method = "none"
                       THEN output[c][i].id >= id ELSE output[c][i].id > id
      IN  /\ After(client[c].reply)
          /\ \A j \in 1 .. i - 1 : output[c][j].kind = "reply" =>
                                   After(output[c][j].id)

(* Between two PLAY requests a client gets packets with consecutive        *)
(* numbers, whatever other requests stop or start the stream.              *)
PacketsConsecutive ==
  \A c \in Conns : \A i \in DOMAIN output[c] :
    /\ output[c][i].kind = "rtp"
    /\ client[c].seq # -1
    /\ \A j \in 1 .. i - 1 : output[c][j].kind # "rtp" =>
                             output[c][j].method # "PLAY"
    => output[c][i].seq = (client[c].seq + 1) % SqsMod

(* The unit is a good reply to a request of method m.                      *)
Grants(u, m) == u.kind = "reply" /\ u.method = m /\ u.ok

(* In whatever order requests come (PLAY before SETUP, SETUP or PLAY again *)
(* while the stream runs), a client gets packets only behind a good reply  *)
(* to PLAY, and none between a good reply to SETUP and the next one to     *)
(* PLAY: what a replaced stream has left in the output stands in front of  *)
(* the reply to the SETUP that replaced it.                                *)
NoPacketBeforePlay ==
  \A c \in Conns : \A i \in DOMAIN output[c] :
    output[c][i].kind = "rtp" =>
      /\ \/ "PLAY" \in client[c].ok
         \/ \E j \in 1 .. i - 1 : Grants(output[c][j], "PLAY")
      /\ \A j \in 1 .. i - 1 : Grants(output[c][j], "SETUP") =>
           \E k \in j + 1 .. i - 1 : Grants(output[c][k], "PLAY")
      /\ stream[c] = "ready" =>
           \E j \in i + 1 .. Len(output[c]) : Grants(output[c][j], "SETUP")

(* Somebody's stream has met the end of the file and the thread is caught  *)
(* in the loop around TCPForH264.                                          *)
AtTheEnd == \E c \in Conns : busy = c /\ state[c] = "end"

(* A stream that runs goes on until the end of the file or until a request *)
(* or the client stops it: the chain of write callbacks never breaks.      *)
PlaysToTheEnd ==
  \A c \in Conns : Streaming(c) ~> ~ Streaming(c) \/ AtTheEnd

(* A polite client that sends no RTCP gets an answer to every request.     *)
RequestsAnswered ==
  \A c \in Conns :
    conn[c] = "open" /\ client[c].reply < client[c].nreq
      ~> \/ client[c].reply = client[c].nreq
         \/ client[c].closed \/ AtTheEnd \/ server # "up"

-----------------------------------------------------------------------------
(* What the documentation says and the code does not do.                   *)

(* "When an RTSP request arrives, it is handled when its CR LF is seen"    *)
(* (README.md:13): when the server has taken in all that was sent, it has  *)
(* answered the last request.                                              *)
RequestHandled ==
  \A c \in Conns :
    /\ Idle /\ conn[c] = "open"
    /\ wire[c] = <<>> /\ input[c] = <<>> /\ ~ client[c].tail
    => \/ client[c].reply = client[c].nreq
       \/ \E i \in DOMAIN output[c] : /\ output[c][i].kind = "reply"
                                      /\ output[c][i].id = client[c].nreq
=============================================================================
