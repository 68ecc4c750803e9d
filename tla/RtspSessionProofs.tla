-------------------------- MODULE RtspSessionProofs -------------------------
(* The server's connections, for any number of them, clients of any kind   *)
(* and any file: the state keeps its type, the chain of write callbacks    *)
(* that drives a running stream is never broken and never doubled, the     *)
(* sessions use the shared file in no other way than HardwareIO allows,    *)
(* replies follow the requests, and polite clients are served.             *)
EXTENDS RtspSession, Functions, TLAPS

Outputs == Replies \cup Packets
States == {"none", "open", "end", "crashed"}

(* TypeOK in parts.                                                        *)
ServerTyped ==
  /\ server \in {"up", "assert", "fault"}
  /\ fileok \in BOOLEAN
  /\ busy \in Conns \cup {None}
  /\ task \in -1 .. MaxRequests

SessionTyped ==
  /\ conn \in [Conns -> {"none", "open"}]
  /\ rtspinc \in [Conns -> Seq(Unit)]
  /\ stype \in [Conns -> {"UNSET", "OPTIONS", "DESCRIBE", "SETUP", "PLAY",
                          "ERRORTYPE"}]
  /\ stream \in [Conns -> {"none", "ready", "play"}]
  /\ queue \in [Conns -> Seq({"skip", "data"})]
  /\ sqsnumber \in [Conns -> 0 .. SqsMod - 1]

BufferTyped ==
  /\ input \in [Conns -> Seq(Unit)]
  /\ output \in [Conns -> Seq(Outputs)]
  /\ ev_write \in [Conns -> BOOLEAN]

ClientTyped ==
  /\ wire \in [Conns -> Seq(Unit)]
  /\ client \in [Conns -> Client]

FileTyped == state \in [Conns -> States]

StreamsCut ==
  server = "up" =>
    \A c \in Conns : stream[c] # "none" <=> state[c] \in {"open", "end"}

(* The callback in TCPForH264 has a stream, and is Send or answers a PLAY. *)
Working ==
  server = "up" /\ busy # None =>
    /\ stream[busy] # "none"
    /\ task # Sending => "PLAY" \in Methods

Typed == ServerTyped /\ SessionTyped /\ BufferTyped /\ ClientTyped
         /\ FileTyped /\ StreamsCut /\ Working

LEMMA TypedTypeOK == Typed => TypeOK
BY DEF Typed, ServerTyped, SessionTyped, BufferTyped, ClientTyped, StreamsCut,
       Outputs, TypeOK

-----------------------------------------------------------------------------
(* What units and replies are made of.                                     *)

LEMMA ReplyMade ==
  ASSUME NEW id \in 0 .. MaxRequests, NEW m \in Methods \cup {"none"},
         NEW ok \in BOOLEAN
  PROVE  Reply(id, m, ok) \in Outputs /\ Reply(id, m, ok).kind = "reply"
BY DEF Reply, Replies, Outputs

LEMMA RtpMade ==
  ASSUME NEW n \in 0 .. SqsMod - 1
  PROVE  Rtp(n) \in Outputs
BY DEF Rtp, Packets, Outputs

LEMMA RequestMade ==
  ASSUME NEW text \in Seq(Unit), Complete(text), NEW r \in Request(text)
  PROVE  r.id \in 0 .. MaxRequests /\ r.method \in Methods \cup {"none"}
<1>1. 1 \in 1 .. Len(text)
  BY DEF Complete
<1>2. \A i \in 1 .. Len(text) : /\ text[i].id \in 0 .. MaxRequests
                                /\ text[i].method \in Methods \cup {"none"}
  <2>1. \A i \in 1 .. Len(text) : text[i] \in Unit
    OBVIOUS
  <2> QED BY <2>1 DEF Unit
<1>3. \A i \in FirstLine(text) : i \in 1 .. Len(text)
  BY DEF FirstLine
<1>4. CASE FirstLine(text) = {}
  <2>1. r = [id |-> text[1].id, method |-> "none"]
    BY <1>4 DEF Request
  <2> QED BY <2>1, <1>1, <1>2
<1>5. CASE FirstLine(text) # {}
  <2>1. PICK i \in FirstLine(text) :
               r = [id |-> text[i].id, method |-> text[i].method]
    BY <1>5 DEF Request
  <2> QED BY <2>1, <1>2, <1>3
<1> QED BY <1>4, <1>5

LEMMA Pieces ==
  ASSUME NEW s \in Seq(Unit), NEW t \in Seq(Unit), NEW m \in 0 .. Len(t)
  PROVE  /\ s \o SubSeq(t, 1, m) \in Seq(Unit)
         /\ SubSeq(t, m + 1, Len(t)) \in Seq(Unit)
         /\ SubSeq(t, 1, m) \in Seq(Unit)
OBVIOUS

(* Write fills the output and makes the write event pending.               *)
LEMMA WriteTyped ==
  ASSUME BufferTyped, NEW c \in Conns, NEW u \in Outputs, Write(c, u)
  PROVE  /\ output' \in [Conns -> Seq(Outputs)]
         /\ ev_write' \in [Conns -> BOOLEAN]
<1>1. output' \in [Conns -> Seq(Outputs)]
  BY DEF BufferTyped, Write
<1>2. ev_write' \in [Conns -> BOOLEAN]
  BY DEF BufferTyped, Write
<1> QED BY <1>1, <1>2

LEMMA InitTyped == Init => Typed
<1> SUFFICES ASSUME Init PROVE Typed
  OBVIOUS
<1>1. NewClient \in Client
  BY RtspSessionAssumption DEF NewClient, Client
<1>2. ServerTyped
  BY RtspSessionAssumption DEF Init, ServerTyped, NoTask
<1>3. SessionTyped
  BY RtspSessionAssumption DEF Init, SessionTyped
<1>4. input \in [Conns -> Seq(Unit)] /\ output \in [Conns -> Seq(Outputs)]
  BY DEF Init
<1>5. ev_write \in [Conns -> BOOLEAN]
  BY DEF Init
<1>6. ClientTyped
  BY <1>1 DEF Init, ClientTyped
<1>7. FileTyped /\ StreamsCut /\ Working
  BY DEF Init, File!Init, FileTyped, States, StreamsCut, Working
<1> QED BY <1>2, <1>3, <1>4, <1>5, <1>6, <1>7 DEF Typed, BufferTyped

-----------------------------------------------------------------------------
(* Type correctness: the clients.                                          *)

LEMMA ClientFields ==
  ASSUME Typed, NEW c \in Conns
  PROVE  /\ client[c] \in Client
         /\ client[c].nreq \in 0 .. MaxRequests
         /\ client[c].nrtcp \in 0 .. MaxRtcp
<1>1. client[c] \in Client
  BY DEF Typed, ClientTyped
<1> QED BY <1>1 DEF Client

(* A client that does something and changes nothing else but its wire.     *)
LEMMA ClientStep ==
  ASSUME Typed, NEW c \in Conns,
         NEW k \in Client, client' = [client EXCEPT ![c] = k],
         wire' \in [Conns -> Seq(Unit)],
         UNCHANGED <<server, fileok, busy, task, session, bufev, file>>
  PROVE  Typed'
<1>1. client' \in [Conns -> Client]
  BY DEF Typed, ClientTyped
<1> QED
  BY <1>1 DEF session, bufev, file, Typed, ServerTyped, SessionTyped,
              BufferTyped, ClientTyped, FileTyped, StreamsCut, Working

LEMMA SendRequestTyped ==
  ASSUME Typed, NEW c \in Conns, NEW m \in Methods, SendRequest(c, m)
  PROVE  Typed'
<1>1. client[c] \in Client /\ client[c].nreq + 1 \in 0 .. MaxRequests
  BY ClientFields, RtspSessionAssumption DEF SendRequest
<1>2. PICK split \in {FALSE, Splits} :
        /\ wire' = [wire EXCEPT ![c] = Append(@,
                      [part |-> IF split THEN "head" ELSE "all",
                       id |-> client[c].nreq + 1, method |-> m])]
        /\ client' = [client EXCEPT ![c].nreq = client[c].nreq + 1,
                                    ![c].tail = split]
  BY DEF SendRequest
<1>3. split \in BOOLEAN
  BY RtspSessionAssumption
<1>4. [part |-> IF split THEN "head" ELSE "all",
       id |-> client[c].nreq + 1, method |-> m] \in Unit
  BY <1>1 DEF Unit
<1>5. wire' \in [Conns -> Seq(Unit)]
  BY <1>2, <1>4 DEF Typed, ClientTyped
<1> DEFINE k == [client[c] EXCEPT !.nreq = client[c].nreq + 1, !.tail = split]
<1>6. k \in Client
  BY <1>1, <1>3 DEF Client
<1>7. client' = [client EXCEPT ![c] = k]
  BY <1>2
<1>8. UNCHANGED <<server, fileok, busy, task, session, bufev, file>>
  BY DEF SendRequest
<1> HIDE DEF k
<1> QED BY <1>5, <1>6, <1>7, <1>8, ClientStep

LEMMA SendTailTyped ==
  ASSUME Typed, NEW c \in Conns, SendTail(c)
  PROVE  Typed'
<1>1. client[c] \in Client /\ client[c].nreq \in 0 .. MaxRequests
  BY ClientFields
<1>2. [part |-> "tail", id |-> client[c].nreq, method |-> "none"] \in Unit
  BY <1>1 DEF Unit
<1>3. wire' \in [Conns -> Seq(Unit)]
  BY <1>2 DEF SendTail, Typed, ClientTyped
<1> DEFINE k == [client[c] EXCEPT !.tail = FALSE]
<1>4. k \in Client
  BY <1>1 DEF Client
<1>5. /\ client' = [client EXCEPT ![c] = k]
      /\ UNCHANGED <<server, fileok, busy, task, session, bufev, file>>
  BY DEF SendTail
<1> HIDE DEF k
<1> QED BY <1>3, <1>4, <1>5, ClientStep

LEMMA SendRtcpTyped ==
  ASSUME Typed, NEW c \in Conns, SendRtcp(c)
  PROVE  Typed'
<1>1. /\ client[c] \in Client /\ client[c].nrtcp + 1 \in 0 .. MaxRtcp
      /\ 0 \in 0 .. MaxRequests
  BY ClientFields, RtspSessionAssumption DEF SendRtcp
<1>2. [part |-> "rtcp", id |-> 0, method |-> "none"] \in Unit
  BY <1>1 DEF Unit
<1>3. wire' \in [Conns -> Seq(Unit)]
  BY <1>2 DEF SendRtcp, Typed, ClientTyped
<1> DEFINE k == [client[c] EXCEPT !.nrtcp = client[c].nrtcp + 1]
<1>4. k \in Client
  BY <1>1 DEF Client
<1>5. /\ client' = [client EXCEPT ![c] = k]
      /\ UNCHANGED <<server, fileok, busy, task, session, bufev, file>>
  BY DEF SendRtcp
<1> HIDE DEF k
<1> QED BY <1>3, <1>4, <1>5, ClientStep

LEMMA HangupTyped ==
  ASSUME Typed, NEW c \in Conns, Hangup(c)
  PROVE  Typed'
<1>1. client[c] \in Client
  BY ClientFields
<1> DEFINE k == [client[c] EXCEPT !.closed = TRUE]
<1>2. k \in Client
  BY <1>1 DEF Client
<1>3. /\ client' = [client EXCEPT ![c] = k] /\ wire' = wire
      /\ UNCHANGED <<server, fileok, busy, task, session, bufev, file>>
  BY DEF Hangup
<1>4. wire' \in [Conns -> Seq(Unit)]
  BY <1>3 DEF Typed, ClientTyped
<1> HIDE DEF k
<1> QED BY <1>2, <1>3, <1>4, ClientStep

-----------------------------------------------------------------------------
(* Type correctness: the server.                                           *)

LEMMA ReceiveTyped ==
  ASSUME NEW k \in Client, NEW u \in Outputs
  PROVE  Receive(k, u) \in Client
<1>1. CASE u \in Packets
  <2>1. u.kind = "rtp" /\ u.seq \in -1 .. SqsMod - 1
    BY <1>1, RtspSessionAssumption DEF Packets
  <2> QED BY <2>1 DEF Receive, Client
<1>2. CASE u \in Replies
  <2>1. /\ u.kind # "rtp" /\ u.id \in 0 .. MaxRequests
        /\ u.method \in Methods \cup {"none"} /\ -1 \in -1 .. SqsMod - 1
    BY <1>2, RtspSessionAssumption DEF Replies
  <2> DEFINE ok == IF u.ok /\ u.method # "none" THEN k.ok \cup {u.method}
                   ELSE k.ok
             seq == IF u.method = "PLAY" THEN -1 ELSE k.seq
  <2>2. ok \in SUBSET Methods /\ seq \in -1 .. SqsMod - 1
    BY <2>1 DEF Client
  <2>3. Receive(k, u) = [k EXCEPT !.reply = u.id, !.ok = ok, !.seq = seq]
    BY <2>1 DEF Receive
  <2> HIDE DEF ok, seq
  <2> QED BY <2>1, <2>2, <2>3 DEF Client
<1> QED BY <1>1, <1>2 DEF Outputs

LEMMA ConnectTyped ==
  ASSUME Typed, NEW c \in Conns, Connect(c)
  PROVE  Typed'
<1>1. PICK t \in {"UNSET", "PLAY"} : stype' = [stype EXCEPT ![c] = t]
  BY DEF Connect
<1>2. /\ conn' = [conn EXCEPT ![c] = "open"]
      /\ ev_write' = [ev_write EXCEPT ![c] = TRUE]
      /\ UNCHANGED <<server, fileok, busy, task, rtspinc, stream, queue,
                     sqsnumber, input, output, wire, client, state>>
  BY DEF Connect, file
<1>3. SessionTyped'
  BY <1>1, <1>2 DEF Typed, SessionTyped
<1>4. ev_write' \in [Conns -> BOOLEAN]
  BY <1>2 DEF Typed, BufferTyped
<1>5. BufferTyped'
  BY <1>2, <1>4 DEF Typed, BufferTyped
<1> QED BY <1>2, <1>3, <1>5
        DEF Typed, ServerTyped, ClientTyped, FileTyped, StreamsCut, Working,
            Connect, Idle

LEMMA DisconnectTyped ==
  ASSUME Typed, NEW c \in Conns, Disconnect(c)
  PROVE  Typed'
<1>1. NewClient \in Client
  BY RtspSessionAssumption DEF NewClient, Client
<1>2. SessionTyped'
  BY RtspSessionAssumption DEF Disconnect, Typed, SessionTyped
<1>3. input' \in [Conns -> Seq(Unit)] /\ output' \in [Conns -> Seq(Outputs)]
  BY DEF Disconnect, Typed, BufferTyped
<1>4. ev_write' \in [Conns -> BOOLEAN]
  BY DEF Disconnect, Typed, BufferTyped
<1>5. ClientTyped'
  BY <1>1 DEF Disconnect, Typed, ClientTyped
<1>6. stream' = [stream EXCEPT ![c] = "none"] /\ server = "up"
      /\ busy = None /\ UNCHANGED <<server, fileok, busy, task>>
  BY DEF Disconnect, Idle
<1>7. stream \in [Conns -> {"none", "ready", "play"}]
      /\ state \in [Conns -> States]
  BY DEF Typed, SessionTyped, FileTyped
<1>8. CASE stream[c] = "none"
  <2>1. state' = state
    BY <1>8 DEF Disconnect, EndStream, file
  <2>2. StreamsCut'
    BY <2>1, <1>6, <1>7, <1>8 DEF Typed, StreamsCut
  <2> QED BY <1>2, <1>3, <1>4, <1>5, <1>6, <1>7, <2>1, <2>2
          DEF Typed, ServerTyped, BufferTyped, FileTyped, Working
<1>9. CASE stream[c] # "none"
  <2>1. state' = [state EXCEPT ![c] = "none"]
    BY <1>9 DEF Disconnect, EndStream, File!Drop
  <2>2. StreamsCut' /\ FileTyped'
    BY <2>1, <1>6, <1>7, <1>9 DEF Typed, StreamsCut, FileTyped, States
  <2> QED BY <1>2, <1>3, <1>4, <1>5, <1>6, <2>2
          DEF Typed, ServerTyped, BufferTyped, Working
<1> QED BY <1>8, <1>9

(* Send changes nothing but what the thread is doing.                      *)
LEMMA SendTyped ==
  ASSUME ServerTyped, server = "up", NEW c \in Conns, NEW drained,
         Send(c, drained), UNCHANGED fileok
  PROVE  ServerTyped'
<1>1. /\ server' \in {"up", "fault"}
      /\ busy' \in {busy, c} /\ task' \in {task, Sending}
  BY DEF Send
<1> QED BY <1>1, RtspSessionAssumption DEF ServerTyped, Sending

LEMMA WriteReadyTyped ==
  ASSUME Typed, NEW c \in Conns, WriteReady(c)
  PROVE  Typed'
<1> DEFINE rest == IF output[c] = <<>> THEN <<>> ELSE Tail(output[c])
<1>1. output[c] \in Seq(Outputs)
  BY DEF Typed, BufferTyped
<1>2. rest \in Seq(Outputs)
  BY <1>1
<1>3. /\ server = "up" /\ busy = None /\ Send(c, rest = <<>>)
      /\ output' = [output EXCEPT ![c] = rest]
      /\ ev_write' = [ev_write EXCEPT ![c] = rest # <<>>]
      /\ UNCHANGED <<fileok, conn, rtspinc, stype, stream, queue, sqsnumber,
                     input, wire, state>>
  BY DEF WriteReady, Idle, session, file
<1> HIDE DEF rest
<1>4. ServerTyped'
  BY <1>3, SendTyped DEF Typed
<1>5. output' \in [Conns -> Seq(Outputs)] /\ input' \in [Conns -> Seq(Unit)]
  BY <1>2, <1>3 DEF Typed, BufferTyped
<1>6. ev_write' \in [Conns -> BOOLEAN]
  BY <1>3 DEF Typed, BufferTyped
<1>7. client' \in [Conns -> Client]
  <2>1. CASE output[c] = <<>>
    BY <2>1 DEF WriteReady, Typed, ClientTyped
  <2>2. CASE output[c] # <<>>
    <3>1. Head(output[c]) \in Outputs
      BY <1>1, <2>2
    <3>2. Receive(client[c], Head(output[c])) \in Client
      BY <3>1, ReceiveTyped, ClientFields
    <3>3. client' = [client EXCEPT ![c] = Receive(client[c], Head(output[c]))]
      BY <2>2 DEF WriteReady
    <3> QED BY <3>2, <3>3 DEF Typed, ClientTyped
  <2> QED BY <2>1, <2>2
<1>8. StreamsCut' /\ SessionTyped' /\ FileTyped'
  <2>1. server' = "up" => server = "up"
    BY <1>3
  <2> QED BY <1>3, <2>1 DEF Typed, StreamsCut, SessionTyped, FileTyped
<1>9. Working'
  <2>1. \/ busy' = None
        \/ busy' = c /\ task' = Sending /\ stream[c] = "play"
    BY <1>3 DEF Send
  <2> QED BY <1>3, <2>1 DEF Working
<1> QED BY <1>3, <1>4, <1>5, <1>6, <1>7, <1>8, <1>9
        DEF Typed, BufferTyped, ClientTyped

LEMMA RefillFile ==
  ASSUME FileTyped, NEW c \in Conns, File!Refill(c)
  PROVE  /\ state[c] \in {"open", "end"} /\ state'[c] \in {"open", "end"}
         /\ FileTyped'
         /\ \A d \in Conns \ {c} : state'[d] = state[d]
<1>1. /\ state[c] \in {"open", "end"}
      /\ \/ state' = [state EXCEPT ![c] = "open"]
         \/ state' = [state EXCEPT ![c] = "end"]
  BY DEF File!Refill
<1> QED BY <1>1 DEF FileTyped, States

LEMMA RefillStreamsCut ==
  ASSUME Typed, server = "up", UNCHANGED stream,
         NEW c \in Conns, File!Refill(c)
  PROVE  StreamsCut'
BY RefillFile DEF Typed, StreamsCut

LEMMA TakeTyped ==
  ASSUME SessionTyped, NEW c \in Conns, Take(c)
  PROVE  sqsnumber' \in [Conns -> 0 .. SqsMod - 1]
<1>1. sqsnumber[c] \in 0 .. SqsMod - 1
  BY DEF SessionTyped
<1>2. (sqsnumber[c] + 1) % SqsMod \in 0 .. SqsMod - 1
  BY <1>1, RtspSessionAssumption
<1> QED BY <1>2 DEF SessionTyped, Take

LEMMA CutsTyped ==
  ASSUME SessionTyped, NEW c \in Conns, NEW nodes \in Cuts
  PROVE  [queue EXCEPT ![c] = nodes] \in [Conns -> Seq({"skip", "data"})]
<1>1. nodes \in Seq({"skip", "data"})
  BY RtspSessionAssumption
<1> QED BY <1>1 DEF SessionTyped

LEMMA QueueTailTyped ==
  ASSUME SessionTyped, NEW c \in Conns, queue[c] # <<>>
  PROVE  [queue EXCEPT ![c] = Tail(@)] \in [Conns -> Seq({"skip", "data"})]
<1>1. queue[c] \in Seq({"skip", "data"})
  BY DEF SessionTyped
<1>2. Tail(queue[c]) \in Seq({"skip", "data"})
  BY <1>1
<1> QED BY <1>2 DEF SessionTyped

(* The unit that the end of the callback writes.                           *)
LEMMA FinishWrites ==
  ASSUME Typed, NEW c \in Conns, server = "up", busy = c, Finish(c)
  PROVE  \E u \in Outputs :
           /\ Write(c, u)
           /\ u = IF task = Sending THEN Rtp(sqsnumber[c])
                  ELSE Reply(task, "PLAY", TRUE)
           /\ stream' = IF task = Sending THEN stream
                        ELSE [stream EXCEPT ![c] = "play"]
<1>1. busy # None
  BY RtspSessionAssumption
<1>2. CASE task = Sending
  <2>1. Rtp(sqsnumber[c]) \in Outputs
    BY RtpMade DEF Typed, SessionTyped
  <2> QED BY <1>2, <2>1 DEF Finish
<1>3. CASE task # Sending
  <2>1. task \in 0 .. MaxRequests
    BY <1>3, RtspSessionAssumption DEF Typed, ServerTyped, Sending
  <2>2. "PLAY" \in Methods
    BY <1>1, <1>3 DEF Typed, Working
  <2>3. Reply(task, "PLAY", TRUE) \in Outputs
    BY <2>1, <2>2, ReplyMade
  <2> QED BY <1>3, <2>3 DEF Finish
<1> QED BY <1>2, <1>3

LEMMA SendNodeTyped ==
  ASSUME Typed, NEW c \in Conns, server = "up", busy = c, SendNode(c),
         UNCHANGED <<fileok, conn, rtspinc, stype, input, wire, client>>
  PROVE  Typed'
<1>1. queue' \in [Conns -> Seq({"skip", "data"})]
  BY QueueTailTyped DEF SendNode, Typed
<1>2. sqsnumber' \in [Conns -> 0 .. SqsMod - 1]
  BY TakeTyped DEF SendNode, Typed
<1>3. PICK u \in Outputs :
        /\ Write(c, u)
        /\ stream' = IF task = Sending THEN stream
                     ELSE [stream EXCEPT ![c] = "play"]
  BY FinishWrites DEF SendNode
<1>4. output' \in [Conns -> Seq(Outputs)] /\ ev_write' \in [Conns -> BOOLEAN]
  BY <1>3, WriteTyped DEF Typed
<1>5. busy' = None /\ task' = NoTask /\ UNCHANGED <<server, state>>
  BY DEF SendNode, file
<1>6. /\ stream \in [Conns -> {"none", "ready", "play"}]
      /\ stream[c] # "none"
  BY RtspSessionAssumption DEF Typed, SessionTyped, Working
<1>7. stream' \in [Conns -> {"none", "ready", "play"}]
  BY <1>3, <1>6
<1>8. \A d \in Conns : stream'[d] # "none" <=> stream[d] # "none"
  BY <1>3, <1>6
<1>9. ServerTyped' /\ Working'
  BY <1>5, RtspSessionAssumption DEF Typed, ServerTyped, Working, NoTask
<1>10. SessionTyped'
  BY <1>1, <1>2, <1>7 DEF Typed, SessionTyped
<1>11. StreamsCut' /\ FileTyped'
  BY <1>5, <1>8 DEF Typed, StreamsCut, FileTyped
<1> QED BY <1>4, <1>9, <1>10, <1>11 DEF Typed, BufferTyped, ClientTyped

LEMMA TCPForH264Typed ==
  ASSUME Typed, NEW c \in Conns, TCPForH264(c)
  PROVE  Typed'
<1>1. /\ server = "up" /\ busy = c
      /\ UNCHANGED <<fileok, conn, rtspinc, stype, input, wire, client>>
  BY DEF TCPForH264
<1>2. CASE SkipNode(c)
  <2>1. queue' \in [Conns -> Seq({"skip", "data"})]
    BY <1>2, QueueTailTyped DEF SkipNode, Typed
  <2>2. UNCHANGED <<server, busy, task, stream, sqsnumber, output, ev_write,
                    state>>
    BY <1>2 DEF SkipNode, file
  <2> QED BY <1>1, <2>1, <2>2
          DEF Typed, ServerTyped, SessionTyped, BufferTyped, ClientTyped,
              FileTyped, StreamsCut, Working
<1>3. CASE SendNode(c)
  BY <1>1, <1>3, SendNodeTyped
<1>4. CASE ReadBlock(c)
  <2>1. queue' \in [Conns -> Seq({"skip", "data"})]
    BY <1>4, CutsTyped DEF ReadBlock, Typed
  <2>2. /\ File!Refill(c)
        /\ UNCHANGED <<server, busy, task, stream, sqsnumber, output,
                       ev_write>>
    BY <1>4 DEF ReadBlock
  <2>3. FileTyped' /\ StreamsCut'
    BY <1>1, <2>2, RefillFile, RefillStreamsCut DEF Typed
  <2> QED BY <1>1, <2>1, <2>2, <2>3
          DEF Typed, ServerTyped, SessionTyped, BufferTyped, ClientTyped,
              Working
<1>5. CASE ReadNothing(c)
  <2>1. sqsnumber' \in [Conns -> 0 .. SqsMod - 1]
    BY <1>5, TakeTyped DEF ReadNothing, Typed
  <2>2. /\ File!Refill(c) /\ server' \in {"up", "fault"}
        /\ UNCHANGED <<busy, task, stream, queue, output, ev_write>>
    BY <1>5 DEF ReadNothing
  <2>3. FileTyped' /\ StreamsCut'
    BY <1>1, <2>2, RefillFile, RefillStreamsCut DEF Typed
  <2> QED BY <1>1, <2>1, <2>2, <2>3
          DEF Typed, ServerTyped, SessionTyped, BufferTyped, ClientTyped,
              Working
<1> QED BY <1>2, <1>3, <1>4, <1>5 DEF TCPForH264

-----------------------------------------------------------------------------
(* Type correctness: the requests.                                         *)

STypes == {"UNSET", "OPTIONS", "DESCRIBE", "SETUP", "PLAY", "ERRORTYPE"}

(* What the handling of a request may change.                              *)
Dealt ==
  /\ ServerTyped'
  /\ stype' \in [Conns -> STypes]
  /\ stream' \in [Conns -> {"none", "ready", "play"}]
  /\ queue' \in [Conns -> Seq({"skip", "data"})]
  /\ sqsnumber' \in [Conns -> 0 .. SqsMod - 1]
  /\ output' \in [Conns -> Seq(Outputs)]
  /\ ev_write' \in [Conns -> BOOLEAN]
  /\ FileTyped'
  /\ StreamsCut'
  /\ Working'

ARequest == [id : 0 .. MaxRequests, method : Methods \cup {"none"}]

LEMMA RequestIsTyped ==
  ASSUME NEW text \in Seq(Unit), Complete(text), NEW r \in Request(text)
  PROVE  r \in ARequest
<1>1. r.id \in 0 .. MaxRequests /\ r.method \in Methods \cup {"none"}
  BY RequestMade
<1>2. r = [id |-> r.id, method |-> r.method]
  BY DEF Request
<1> QED BY <1>1, <1>2 DEF ARequest

LEMMA DealOtherTyped ==
  ASSUME Typed, Idle, NEW c \in Conns, NEW r \in ARequest, DealOther(c, r),
         UNCHANGED fileok
  PROVE  Dealt
<1>1. r.id \in 0 .. MaxRequests /\ r.method \in Methods \cup {"none"}
  BY DEF ARequest
<1>2. Type(r.method) \in STypes
  BY <1>1, RtspSessionAssumption DEF Type, STypes, AllMethods
<1>3. PICK found \in BOOLEAN :
        /\ stype' = [stype EXCEPT ![c] = IF found THEN Type(r.method)
                                         ELSE "ERRORTYPE"]
        /\ Write(c, Reply(r.id, r.method, found))
  BY DEF DealOther
<1>4. stype' \in [Conns -> STypes]
  BY <1>2, <1>3 DEF Typed, SessionTyped, STypes
<1>5. Reply(r.id, r.method, found) \in Outputs
  BY <1>1, ReplyMade
<1>6. output' \in [Conns -> Seq(Outputs)] /\ ev_write' \in [Conns -> BOOLEAN]
  BY <1>3, <1>5, WriteTyped DEF Typed
<1>7. UNCHANGED <<server, busy, task, stream, queue, sqsnumber, state>>
  BY DEF DealOther, file
<1> QED BY <1>4, <1>6, <1>7
        DEF Dealt, Typed, ServerTyped, SessionTyped, FileTyped, StreamsCut,
            Working

LEMMA DealPlayTyped ==
  ASSUME Typed, Idle, NEW c \in Conns, NEW r \in ARequest, DealPlay(c, r),
         UNCHANGED fileok
  PROVE  Dealt
<1>1. r.id \in 0 .. MaxRequests /\ r.method \in Methods \cup {"none"}
  BY DEF ARequest
<1>2. r.method = "PLAY" /\ "PLAY" \in Methods
  BY <1>1 DEF DealPlay, Type
<1>3. /\ stype' = [stype EXCEPT ![c] = "PLAY"]
      /\ UNCHANGED <<stream, queue, sqsnumber, output, ev_write, state>>
  BY DEF DealPlay, file
<1>4. stype' \in [Conns -> STypes]
  BY <1>3 DEF Typed, SessionTyped, STypes
<1>5. server = "up" /\ busy = None
  BY DEF Idle
<1>6. ServerTyped' /\ Working'
  <2>1. CASE stream[c] = "none"
    BY <2>1 DEF DealPlay, Typed, ServerTyped, Working
  <2>2. CASE stream[c] # "none"
    BY <1>1, <1>2, <1>3, <1>5, <2>2, RtspSessionAssumption
       DEF DealPlay, Typed, ServerTyped, Working
  <2> QED BY <2>1, <2>2
<1>7. StreamsCut'
  BY <1>3, <1>5 DEF Typed, StreamsCut
<1> QED BY <1>3, <1>4, <1>6, <1>7
        DEF Dealt, Typed, SessionTyped, BufferTyped, FileTyped

LEMMA DealSetupTyped ==
  ASSUME Typed, Idle, NEW c \in Conns, NEW r \in ARequest, DealSetup(c, r),
         UNCHANGED fileok
  PROVE  Dealt
<1>1. /\ r.id \in 0 .. MaxRequests /\ r.method \in Methods \cup {"none"}
      /\ server = "up" /\ busy = None
  BY DEF ARequest, Idle
<1>2. stype' \in [Conns -> STypes]
  BY DEF DealSetup, Typed, SessionTyped, STypes
<1>3. \/ state' = [state EXCEPT ![c] = "open"]
      \/ state' = [t \in Conns |-> "crashed"]
  BY DEF DealSetup, File!Setup, File!SetupNoFile
<1>4. FileTyped' /\ state \in [Conns -> States]
  BY <1>3 DEF Typed, FileTyped, States
<1>5. UNCHANGED <<busy, task>>
  BY DEF DealSetup
<1>6. CASE state'[c] = "crashed"
  <2>1. /\ server' = "fault"
        /\ UNCHANGED <<stream, queue, sqsnumber, output, ev_write>>
    BY <1>6 DEF DealSetup
  <2> QED BY <1>2, <1>4, <1>5, <2>1
          DEF Dealt, Typed, ServerTyped, SessionTyped, BufferTyped, StreamsCut,
              Working
<1>7. CASE state'[c] # "crashed"
  <2>1. PICK nodes \in Cuts : queue' = [queue EXCEPT ![c] = nodes]
    BY <1>7 DEF DealSetup
  <2>2. /\ stream' = [stream EXCEPT ![c] = "ready"]
        /\ sqsnumber' = [sqsnumber EXCEPT ![c] = 0]
        /\ Write(c, Reply(r.id, r.method, TRUE))
        /\ server' = server
    BY <1>7 DEF DealSetup
  <2>3. queue' \in [Conns -> Seq({"skip", "data"})]
    BY <2>1, CutsTyped DEF Typed
  <2>4. sqsnumber' \in [Conns -> 0 .. SqsMod - 1]
    BY <2>2, RtspSessionAssumption DEF Typed, SessionTyped
  <2>5. Reply(r.id, r.method, TRUE) \in Outputs
    BY <1>1, ReplyMade
  <2>6. output' \in [Conns -> Seq(Outputs)] /\ ev_write' \in [Conns -> BOOLEAN]
    BY <2>2, <2>5, WriteTyped DEF Typed
  <2>7. stream' \in [Conns -> {"none", "ready", "play"}]
    BY <2>2 DEF Typed, SessionTyped
  <2>8. state' = [state EXCEPT ![c] = "open"]
    BY <1>3, <1>7
  <2>9. StreamsCut'
    BY <1>1, <1>4, <2>2, <2>7, <2>8 DEF Typed, StreamsCut, SessionTyped
  <2>10. ServerTyped' /\ Working'
    BY <1>1, <1>5, <2>2 DEF Typed, ServerTyped, Working
  <2> QED BY <1>2, <1>4, <2>3, <2>4, <2>6, <2>7, <2>9, <2>10 DEF Dealt
<1> QED BY <1>6, <1>7

(* The chunk, and the text that DealRtsp looks at.                         *)
LEMMA RecvText ==
  ASSUME Typed, NEW c \in Conns, Recv(c)
  PROVE  /\ wire' \in [Conns -> Seq(Unit)]
         /\ input' \in [Conns -> Seq(Unit)]
         /\ \E text \in Seq(Unit) : DealRtsp(c, text)
<1>1. PICK m \in 1 .. Len(wire[c]) :
        LET in == input[c] \o SubSeq(wire[c], 1, m)
            n == IF Len(in) < ChunkUnits THEN Len(in) ELSE ChunkUnits
            chunk == SubSeq(in, 1, n)
        IN  /\ wire' = [wire EXCEPT ![c] = SubSeq(@, m + 1, Len(@))]
            /\ input' = [input EXCEPT ![c] = SubSeq(in, n + 1, Len(in))]
            /\ \E k \in Appended(chunk) :
                 DealRtsp(c, rtspinc[c] \o SubSeq(chunk, 1, k))
  BY DEF Recv
<1> DEFINE in == input[c] \o SubSeq(wire[c], 1, m)
           n == IF Len(in) < ChunkUnits THEN Len(in) ELSE ChunkUnits
           chunk == SubSeq(in, 1, n)
<1>2. /\ wire[c] \in Seq(Unit) /\ input[c] \in Seq(Unit)
      /\ rtspinc[c] \in Seq(Unit)
  BY DEF Typed, SessionTyped, BufferTyped, ClientTyped
<1>3. in \in Seq(Unit) /\ SubSeq(wire[c], m + 1, Len(wire[c])) \in Seq(Unit)
  BY <1>2, Pieces
<1> HIDE DEF in
<1>4. n \in 0 .. Len(in)
  BY <1>3, RtspSessionAssumption
<1> HIDE DEF n
<1>5. chunk \in Seq(Unit) /\ SubSeq(in, n + 1, Len(in)) \in Seq(Unit)
  BY <1>3, <1>4, Pieces
<1>6. wire' = [wire EXCEPT ![c] = SubSeq(@, m + 1, Len(@))]
      /\ input' = [input EXCEPT ![c] = SubSeq(in, n + 1, Len(in))]
  BY <1>1 DEF in, n
<1> HIDE DEF chunk
<1>7. PICK k \in Appended(chunk) :
             DealRtsp(c, rtspinc[c] \o SubSeq(chunk, 1, k))
  BY <1>1 DEF in, n, chunk
<1>8. rtspinc[c] \o SubSeq(chunk, 1, k) \in Seq(Unit)
  BY <1>2, <1>5, Pieces DEF Appended
<1>9. wire' \in [Conns -> Seq(Unit)] /\ input' \in [Conns -> Seq(Unit)]
  BY <1>3, <1>5, <1>6 DEF Typed, ClientTyped, BufferTyped
<1> QED BY <1>7, <1>8, <1>9

LEMMA RecvTyped ==
  ASSUME Typed, NEW c \in Conns, Recv(c)
  PROVE  Typed'
<1>1. PICK text \in Seq(Unit) : DealRtsp(c, text)
  BY RecvText
<1>2. wire' \in [Conns -> Seq(Unit)] /\ input' \in [Conns -> Seq(Unit)]
  BY RecvText
<1>3. Idle /\ UNCHANGED <<fileok, conn, client>>
  BY DEF Recv
<1>4. CASE Complete(text)
  <2>1. PICK r \in Request(text) :
               DealSetup(c, r) \/ DealPlay(c, r) \/ DealOther(c, r)
    BY <1>1, <1>4 DEF DealRtsp
  <2>2. r \in ARequest
    BY <1>4, RequestIsTyped
  <2>3. Dealt
    BY <1>3, <2>1, <2>2, DealSetupTyped, DealPlayTyped, DealOtherTyped
  <2>4. rtspinc' = [rtspinc EXCEPT ![c] = <<>>]
    BY <1>1, <1>4 DEF DealRtsp
  <2>5. rtspinc' \in [Conns -> Seq(Unit)]
    BY <2>4 DEF Typed, SessionTyped
  <2> QED BY <1>2, <1>3, <2>3, <2>5
          DEF Dealt, STypes, Typed, SessionTyped, BufferTyped, ClientTyped
<1>5. CASE ~ Complete(text)
  <2>1. /\ rtspinc' = [rtspinc EXCEPT ![c] = text]
        /\ UNCHANGED <<server, busy, task, stype, stream, queue, sqsnumber,
                       output, ev_write, state>>
    BY <1>1, <1>5 DEF DealRtsp, file
  <2>2. rtspinc' \in [Conns -> Seq(Unit)]
    BY <2>1 DEF Typed, SessionTyped
  <2> QED BY <1>2, <1>3, <2>1, <2>2
          DEF Typed, ServerTyped, SessionTyped, BufferTyped, ClientTyped,
              FileTyped, StreamsCut, Working
<1> QED BY <1>4, <1>5

LEMMA NextTyped == Typed /\ [Next]_vars => Typed'
<1> SUFFICES ASSUME Typed, [Next]_vars PROVE Typed'
  OBVIOUS
<1>1. CASE UNCHANGED vars
  BY <1>1 DEF vars, session, bufev, file, Typed, ServerTyped, SessionTyped,
              BufferTyped, ClientTyped, FileTyped, StreamsCut, Working
<1>2. CASE Next
  BY <1>2, SendRequestTyped, SendTailTyped, SendRtcpTyped, HangupTyped,
     ConnectTyped, RecvTyped, WriteReadyTyped, TCPForH264Typed,
     DisconnectTyped DEF Next
<1> QED BY <1>1, <1>2

(* Whatever clients send and however it is cut, the state keeps its type,  *)
(* and a session has a stream object exactly while its stream has cut a    *)
(* block of the file.                                                      *)
THEOREM TypeCorrectness == Spec => []TypeOK
BY InitTyped, NextTyped, TypedTypeOK, PTL DEF Spec

-----------------------------------------------------------------------------
(* The chain of write callbacks. Send's callback writes into an output     *)
(* that libevent has just emptied, and nobody else writes packets.         *)

Once(s) == \A i, j \in DOMAIN s :
             s[i].kind = "rtp" /\ s[j].kind = "rtp" => i = j

Chain ==
  /\ \A c \in Conns : conn[c] = "none" => stream[c] = "none"
  /\ \A c \in Conns : busy = c /\ task = Sending => output[c] = <<>>
  /\ \A c \in Conns : Once(output[c])
  /\ SendChainAlive

LEMMA OnceAppend ==
  ASSUME NEW s \in Seq(Outputs), Once(s), NEW u \in Outputs,
         u.kind = "reply" \/ s = <<>>
  PROVE  Once(Append(s, u)) /\ Append(s, u) # <<>>
<1>1. Append(s, u) # <<>>
  OBVIOUS
<1>2. CASE s = <<>>
  BY <1>2 DEF Once
<1>3. CASE u.kind = "reply"
  <2> DEFINE t == Append(s, u)
  <2>1. /\ DOMAIN t = 1 .. Len(s) + 1 /\ DOMAIN s = 1 .. Len(s)
        /\ t[Len(s) + 1] = u
        /\ \A i \in 1 .. Len(s) : t[i] = s[i]
    OBVIOUS
  <2> HIDE DEF t
  <2>2. \A i \in DOMAIN t : t[i].kind = "rtp" =>
                             i \in DOMAIN s /\ s[i].kind = "rtp"
    BY <1>3, <2>1
  <2>3. Once(t)
    BY <2>2 DEF Once
  <2> QED BY <1>1, <2>3 DEF t
<1> QED BY <1>1, <1>2, <1>3

LEMMA OnceTail ==
  ASSUME NEW s \in Seq(Outputs), Once(s), s # <<>>
  PROVE  Once(Tail(s))
BY DEF Once

(* What Write does to the connection's output, and to no other one.        *)
LEMMA WriteChain ==
  ASSUME Typed, Chain, NEW c \in Conns, NEW u \in Outputs, Write(c, u),
         u.kind = "reply" \/ output[c] = <<>>
  PROVE  /\ output'[c] # <<>> /\ ev_write'[c]
         /\ \A d \in Conns : Once(output'[d])
         /\ \A d \in Conns \ {c} : /\ output'[d] = output[d]
                                   /\ ev_write'[d] <=> ev_write[d]
<1>1. output \in [Conns -> Seq(Outputs)]
  BY DEF Typed, BufferTyped
<1>2. ev_write \in [Conns -> BOOLEAN]
  BY DEF Typed, BufferTyped
<1>3. output' = [output EXCEPT ![c] = Append(output[c], u)]
  BY DEF Write
<1>4. ev_write' = [ev_write EXCEPT ![c] = TRUE]
  BY DEF Write
<1>5. Once(Append(output[c], u)) /\ Append(output[c], u) # <<>>
  BY <1>1, OnceAppend DEF Chain
<1>6. ev_write'[c] /\ \A d \in Conns \ {c} : ev_write'[d] <=> ev_write[d]
  BY <1>2, <1>4
<1> QED BY <1>1, <1>3, <1>5, <1>6 DEF Chain

LEMMA InitChain == Init => Chain
BY RtspSessionAssumption
   DEF Init, Chain, Once, SendChainAlive, Streaming, NoTask, Sending

LEMMA ClientChain ==
  ASSUME Chain, UNCHANGED <<server, busy, task, session, bufev>>
  PROVE  Chain'
BY DEF session, bufev, Chain, SendChainAlive, Streaming

LEMMA ConnectChain ==
  ASSUME Typed, Chain, NEW c \in Conns, Connect(c)
  PROVE  Chain'
<1>1. /\ conn[c] = "none" /\ conn' = [conn EXCEPT ![c] = "open"]
      /\ UNCHANGED <<server, busy, task, stream, output>>
  BY DEF Connect
<1>2. \A d \in Conns \ {c} : /\ stype'[d] = stype[d]
                             /\ ev_write'[d] <=> ev_write[d]
  <2>1. ev_write' = [ev_write EXCEPT ![c] = TRUE]
        /\ ev_write \in [Conns -> BOOLEAN]
    BY DEF Connect, Typed, BufferTyped
  <2>2. \A d \in Conns \ {c} : stype'[d] = stype[d]
    BY DEF Connect, Typed, SessionTyped
  <2> QED BY <2>1, <2>2
<1>3. \A d \in Conns : conn'[d] = "none" => conn[d] = "none"
  BY <1>1 DEF Typed, SessionTyped
<1>4. \A d \in Conns \ {c} : conn'[d] = conn[d]
  BY <1>1 DEF Typed, SessionTyped
<1>5. stream[c] # "play"
  BY <1>1 DEF Chain
<1>6. SendChainAlive'
  BY <1>1, <1>2, <1>4, <1>5 DEF Chain, SendChainAlive, Streaming
<1> QED BY <1>1, <1>3, <1>6 DEF Chain

LEMMA DisconnectChain ==
  ASSUME Typed, Chain, NEW c \in Conns, Disconnect(c)
  PROVE  Chain'
<1>1. /\ conn' = [conn EXCEPT ![c] = "none"]
      /\ stream' = [stream EXCEPT ![c] = "none"]
      /\ stype' = [stype EXCEPT ![c] = "UNSET"]
      /\ output' = [output EXCEPT ![c] = <<>>]
      /\ UNCHANGED <<server, busy, task>>
  BY DEF Disconnect
<1>2. \A d \in Conns \ {c} : ev_write'[d] <=> ev_write[d]
  <2>1. ev_write' = [ev_write EXCEPT ![c] = FALSE]
        /\ ev_write \in [Conns -> BOOLEAN]
    BY DEF Disconnect, Typed, BufferTyped
  <2> QED BY <2>1
<1>3. /\ conn'[c] = "none" /\ stream'[c] = "none" /\ output'[c] = <<>>
      /\ \A d \in Conns \ {c} :
           /\ conn'[d] = conn[d] /\ stream'[d] = stream[d]
           /\ stype'[d] = stype[d] /\ output'[d] = output[d]
  BY <1>1 DEF Typed, SessionTyped, BufferTyped
<1>4. \A d \in Conns : Once(output'[d])
  BY <1>3 DEF Chain, Once
<1>5. SendChainAlive'
  BY <1>1, <1>2, <1>3 DEF Chain, SendChainAlive, Streaming
<1> QED BY <1>1, <1>3, <1>4, <1>5 DEF Chain

LEMMA WriteReadyChain ==
  ASSUME Typed, Chain, NEW c \in Conns, WriteReady(c)
  PROVE  Chain'
<1> DEFINE rest == IF output[c] = <<>> THEN <<>> ELSE Tail(output[c])
<1>1. output \in [Conns -> Seq(Outputs)] /\ rest \in Seq(Outputs)
  BY DEF Typed, BufferTyped
<1>2. Once(rest)
  <2>1. output[c] \in Seq(Outputs) /\ Once(output[c])
    BY <1>1 DEF Chain
  <2>2. output[c] # <<>> => Once(Tail(output[c]))
    BY <2>1, OnceTail
  <2> QED BY <2>1, <2>2
<1>3. /\ server = "up" /\ busy = None /\ Send(c, rest = <<>>)
      /\ output' = [output EXCEPT ![c] = rest]
      /\ ev_write' = [ev_write EXCEPT ![c] = rest # <<>>]
      /\ UNCHANGED <<conn, stype, stream>>
  BY DEF WriteReady, Idle, session
<1> HIDE DEF rest
<1>4. /\ output'[c] = rest
      /\ \A d \in Conns \ {c} : output'[d] = output[d]
  BY <1>1, <1>3
<1>5. /\ rest # <<>> => ev_write'[c]
      /\ \A d \in Conns \ {c} : ev_write'[d] <=> ev_write[d]
  <2>1. ev_write' = [ev_write EXCEPT ![c] = rest # <<>>]
        /\ ev_write \in [Conns -> BOOLEAN]
    BY <1>3 DEF Typed, BufferTyped
  <2> QED BY <2>1
<1>6. \/ busy' = None /\ task' = task
      \/ busy' = c /\ task' = Sending /\ rest = <<>>
  BY <1>3 DEF Send
<1>7. Streaming(c) /\ rest = <<>> => busy' = c
  BY <1>3 DEF Send, Streaming
<1>8. server' = "up" => server = "up"
  BY <1>3
<1>9. None \notin Conns
  BY RtspSessionAssumption
<1>10. \A d \in Conns : Once(output'[d])
  BY <1>2, <1>4 DEF Chain
<1>11. \A d \in Conns : busy' = d /\ task' = Sending => output'[d] = <<>>
  BY <1>4, <1>6, <1>9
<1>12. SendChainAlive'
  BY <1>3, <1>4, <1>5, <1>7, <1>8, <1>9 DEF Chain, SendChainAlive, Streaming
<1> QED BY <1>3, <1>10, <1>11, <1>12 DEF Chain

LEMMA TCPForH264Chain ==
  ASSUME Typed, Chain, NEW c \in Conns, TCPForH264(c)
  PROVE  Chain'
<1>1. /\ server = "up" /\ busy = c /\ UNCHANGED <<conn, stype>>
      /\ None \notin Conns
  BY RtspSessionAssumption DEF TCPForH264
<1>2. CASE SkipNode(c) \/ ReadBlock(c) \/ ReadNothing(c)
  <2>1. UNCHANGED <<busy, task, stream, output, ev_write>>
    BY <1>2 DEF SkipNode, ReadBlock, ReadNothing
  <2> QED BY <1>1, <2>1 DEF Chain, SendChainAlive, Streaming
<1>3. CASE SendNode(c)
  <2>1. /\ Finish(c) /\ busy' = None /\ task' = NoTask /\ server' = server
    BY <1>3 DEF SendNode
  <2>2. PICK u \in Outputs :
          /\ Write(c, u)
          /\ u = IF task = Sending THEN Rtp(sqsnumber[c])
                 ELSE Reply(task, "PLAY", TRUE)
          /\ stream' = IF task = Sending THEN stream
                       ELSE [stream EXCEPT ![c] = "play"]
    BY <1>1, <2>1, FinishWrites
  <2>3. u.kind = "reply" \/ output[c] = <<>>
    BY <1>1, <2>2 DEF Chain, Reply
  <2>4. /\ output'[c] # <<>> /\ ev_write'[c]
        /\ \A d \in Conns : Once(output'[d])
        /\ \A d \in Conns \ {c} : /\ output'[d] = output[d]
                                  /\ ev_write'[d] <=> ev_write[d]
    BY <2>2, <2>3, WriteChain
  <2>5. \A d \in Conns \ {c} : stream'[d] = stream[d]
    BY <2>2 DEF Typed, SessionTyped
  <2>6. conn[c] # "none"
    BY <1>1 DEF Chain, Typed, Working
  <2>7. SendChainAlive'
    BY <1>1, <2>1, <2>4, <2>5 DEF Chain, SendChainAlive, Streaming
  <2> QED BY <1>1, <2>1, <2>4, <2>5, <2>6, <2>7 DEF Chain
<1> QED BY <1>2, <1>3 DEF TCPForH264

-----------------------------------------------------------------------------
(* A request ends in a reply, in the loop of PLAY, or in no server.        *)

LEMMA ReplyChain ==
  ASSUME Typed, Chain, Idle, NEW c \in Conns, NEW r \in ARequest,
         NEW ok \in BOOLEAN, Write(c, Reply(r.id, r.method, ok)),
         stype'[c] # "PLAY", conn[c] = "open",
         UNCHANGED <<server, busy, task, conn>>,
         \A d \in Conns \ {c} : stype'[d] = stype[d] /\ stream'[d] = stream[d]
  PROVE  Chain'
<1>1. r.id \in 0 .. MaxRequests /\ r.method \in Methods \cup {"none"}
  BY DEF ARequest
<1>2. /\ Reply(r.id, r.method, ok) \in Outputs
      /\ Reply(r.id, r.method, ok).kind = "reply"
  BY <1>1, ReplyMade
<1>3. /\ \A d \in Conns : Once(output'[d])
      /\ \A d \in Conns \ {c} : /\ output'[d] = output[d]
                                /\ ev_write'[d] <=> ev_write[d]
  BY <1>2, WriteChain
<1>4. SendChainAlive'
  BY <1>3 DEF Chain, SendChainAlive, Streaming
<1>5. busy = None /\ None \notin Conns
  BY RtspSessionAssumption DEF Idle
<1> QED BY <1>3, <1>4, <1>5 DEF Chain

LEMMA DealOtherChain ==
  ASSUME Typed, Chain, Idle, NEW c \in Conns, NEW r \in ARequest,
         DealOther(c, r), conn[c] = "open", UNCHANGED conn
  PROVE  Chain'
<1>1. PICK found \in BOOLEAN :
        /\ stype' = [stype EXCEPT ![c] = IF found THEN Type(r.method)
                                         ELSE "ERRORTYPE"]
        /\ Write(c, Reply(r.id, r.method, found))
  BY DEF DealOther
<1>2. Type(r.method) # "PLAY" /\ UNCHANGED <<server, busy, task, stream>>
  BY DEF DealOther
<1>3. /\ stype'[c] # "PLAY"
      /\ \A d \in Conns \ {c} : stype'[d] = stype[d]
  BY <1>1, <1>2 DEF Typed, SessionTyped
<1> QED BY <1>1, <1>2, <1>3, ReplyChain

LEMMA DealPlayChain ==
  ASSUME Typed, Chain, Idle, NEW c \in Conns, NEW r \in ARequest,
         DealPlay(c, r), UNCHANGED conn
  PROVE  Chain'
<1>1. /\ r.id \in Nat /\ busy = None /\ None \notin Conns /\ server = "up"
  BY RtspSessionAssumption DEF ARequest, Idle
<1>2. UNCHANGED <<stream, output, ev_write>>
  BY DEF DealPlay
<1>3. \A d \in Conns \ {c} : stype'[d] = stype[d]
  BY DEF DealPlay, Typed, SessionTyped
<1>4. \/ server' = "assert" /\ UNCHANGED <<busy, task>>
      \/ server' = server /\ busy' = c /\ task' # Sending
  BY <1>1 DEF DealPlay, Sending
<1>5. SendChainAlive'
  BY <1>1, <1>2, <1>3, <1>4 DEF Chain, SendChainAlive, Streaming
<1> QED BY <1>1, <1>2, <1>4, <1>5 DEF Chain

LEMMA DealSetupChain ==
  ASSUME Typed, Chain, Idle, NEW c \in Conns, NEW r \in ARequest,
         DealSetup(c, r), conn[c] = "open", UNCHANGED conn
  PROVE  Chain'
<1>1. /\ stype'[c] = "SETUP" /\ UNCHANGED <<busy, task>>
      /\ \A d \in Conns \ {c} : stype'[d] = stype[d]
  BY DEF DealSetup, Typed, SessionTyped
<1>2. CASE state'[c] = "crashed"
  <2>1. server' = "fault" /\ UNCHANGED <<stream, output>>
    BY <1>2 DEF DealSetup
  <2> QED BY <1>1, <2>1 DEF Chain, SendChainAlive
<1>3. CASE state'[c] # "crashed"
  <2>1. /\ stream' = [stream EXCEPT ![c] = "ready"] /\ server' = server
        /\ Write(c, Reply(r.id, r.method, TRUE))
    BY <1>3 DEF DealSetup
  <2>2. \A d \in Conns \ {c} : stream'[d] = stream[d]
    BY <2>1 DEF Typed, SessionTyped
  <2> QED BY <1>1, <2>1, <2>2, ReplyChain
<1> QED BY <1>2, <1>3

LEMMA RecvChain ==
  ASSUME Typed, Chain, NEW c \in Conns, Recv(c)
  PROVE  Chain'
<1>1. PICK text \in Seq(Unit) : DealRtsp(c, text)
  BY RecvText
<1>2. Idle /\ conn[c] = "open" /\ conn' = conn
  BY DEF Recv
<1>3. CASE Complete(text)
  <2>1. PICK r \in Request(text) :
               DealSetup(c, r) \/ DealPlay(c, r) \/ DealOther(c, r)
    BY <1>1, <1>3 DEF DealRtsp
  <2>2. r \in ARequest
    BY <1>3, RequestIsTyped
  <2> QED BY <1>2, <2>1, <2>2, DealSetupChain, DealPlayChain, DealOtherChain
<1>4. CASE ~ Complete(text)
  <2>1. UNCHANGED <<server, busy, task, stype, stream, output, ev_write>>
    BY <1>1, <1>4 DEF DealRtsp
  <2> QED BY <1>2, <2>1 DEF Chain, SendChainAlive, Streaming
<1> QED BY <1>3, <1>4

LEMMA NextChain == Typed /\ Chain /\ [Next]_vars => Chain'
<1> SUFFICES ASSUME Typed, Chain, [Next]_vars PROVE Chain'
  OBVIOUS
<1>1. CASE UNCHANGED vars
  BY <1>1, ClientChain DEF vars
<1>2. ASSUME NEW c \in Conns,
             \/ \E m \in Methods : SendRequest(c, m)
             \/ SendTail(c) \/ SendRtcp(c) \/ Hangup(c)
      PROVE  Chain'
  <2>1. UNCHANGED <<server, busy, task, session, bufev>>
    BY <1>2 DEF SendRequest, SendTail, SendRtcp, Hangup
  <2> QED BY <2>1, ClientChain
<1>3. ASSUME NEW c \in Conns,
             Connect(c) \/ Recv(c) \/ WriteReady(c) \/ TCPForH264(c)
               \/ Disconnect(c)
      PROVE  Chain'
  BY <1>3, ConnectChain, RecvChain, WriteReadyChain, TCPForH264Chain,
     DisconnectChain
<1> QED BY <1>1, <1>2, <1>3 DEF Next

(* However requests, RTCP packets and hang-ups of any number of clients    *)
(* interleave with the write callbacks, a running stream always has        *)
(* something in its output that will call it again, and never two packets. *)
THEOREM WriteChainHolds == Spec => [](SendChainAlive /\ OnePacketInOutput)
<1>1. Chain => SendChainAlive /\ OnePacketInOutput
  BY DEF Chain, Once, OnePacketInOutput
<1>2. Init => Typed /\ Chain
  BY InitTyped, InitChain
<1>3. Typed /\ Chain /\ [Next]_vars => (Typed /\ Chain)'
  BY NextTyped, NextChain
<1> QED BY <1>1, <1>2, <1>3, PTL DEF Spec

-----------------------------------------------------------------------------
(* The sessions and the shared file.                                       *)

LEMMA FileStep == [Next]_vars => [File!Next]_(File!vars)
<1> SUFFICES ASSUME [Next]_vars PROVE [File!Next]_(File!vars)
  OBVIOUS
<1>1. CASE UNCHANGED file
  BY <1>1 DEF file, File!vars
<1>2. ASSUME NEW c \in Conns, NEW r, DealSetup(c, r) PROVE File!Next
  BY <1>2 DEF DealSetup, File!Next
<1>3. ASSUME NEW c \in Conns, NEW r, DealPlay(c, r) \/ DealOther(c, r)
      PROVE  UNCHANGED file
  BY <1>3 DEF DealPlay, DealOther
<1>4. ASSUME NEW c \in Conns, Recv(c) PROVE File!Next \/ UNCHANGED file
  <2>1. PICK text : DealRtsp(c, text)
    BY <1>4 DEF Recv
  <2>2. CASE Complete(text)
    BY <2>1, <2>2, <1>2, <1>3 DEF DealRtsp
  <2>3. CASE ~ Complete(text)
    BY <2>1, <2>3 DEF DealRtsp
  <2> QED BY <2>2, <2>3
<1>5. ASSUME NEW c \in Conns, TCPForH264(c)
      PROVE  File!Next \/ UNCHANGED file
  BY <1>5 DEF TCPForH264, SkipNode, SendNode, ReadBlock, ReadNothing, File!Next
<1>6. ASSUME NEW c \in Conns, Disconnect(c)
      PROVE  File!Next \/ UNCHANGED file
  BY <1>6 DEF Disconnect, EndStream, File!Next
<1>7. ASSUME NEW c \in Conns,
             \/ \E m \in Methods : SendRequest(c, m)
             \/ SendTail(c) \/ SendRtcp(c) \/ Hangup(c)
             \/ Connect(c) \/ WriteReady(c)
      PROVE  UNCHANGED file
  BY <1>7 DEF SendRequest, SendTail, SendRtcp, Hangup, Connect, WriteReady
<1>8. CASE UNCHANGED vars
  BY <1>1, <1>8 DEF vars
<1> QED BY <1>1, <1>4, <1>5, <1>6, <1>7, <1>8 DEF Next

(* The sessions are streams in HardwareIO's sense: what is proved about    *)
(* the shared file there holds for the server as a whole.                  *)
THEOREM UsesHardwareIO == Spec => File!Spec
<1>1. Init => File!Init
  BY DEF Init
<1> QED BY <1>1, FileStep, PTL DEF Spec, File!Spec

SharedFile == INSTANCE HardwareIOProofs WITH Streams <- Conns

LEMMA SameFile ==
  /\ File!Init => SharedFile!Init
  /\ [File!Next]_(File!vars) => [SharedFile!Next]_(SharedFile!vars)
  /\ SharedFile!FirstBlockFirst => File!FirstBlockFirst
  /\ SharedFile!SoleStreamInOrder => File!SoleStreamInOrder
  /\ SharedFile!SoleStreamComplete => File!SoleStreamComplete
<1>1. File!Init => SharedFile!Init
  BY DEF File!Init, SharedFile!Init
<1>2. \A c \in Conns :
        /\ File!Setup(c) => SharedFile!Setup(c)
        /\ File!SetupNoFile(c) => SharedFile!SetupNoFile(c)
        /\ File!Refill(c) => SharedFile!Refill(c)
        /\ File!Drop(c) => SharedFile!Drop(c)
  BY Zenon
     DEF File!Setup, File!SetupNoFile, File!Refill, File!Drop, File!Seek,
         File!CurPos, File!FullBlock, File!AfterRead, SharedFile!Setup,
         SharedFile!SetupNoFile, SharedFile!Refill, SharedFile!Drop,
         SharedFile!Seek, SharedFile!CurPos, SharedFile!FullBlock,
         SharedFile!AfterRead
<1>3. File!Next => SharedFile!Next
  BY <1>2 DEF File!Next, SharedFile!Next
<1>4. UNCHANGED File!vars => UNCHANGED SharedFile!vars
  BY DEF File!vars, SharedFile!vars
<1>5. SharedFile!FirstBlockFirst => File!FirstBlockFirst
  BY DEF File!FirstBlockFirst, SharedFile!FirstBlockFirst
<1>6. SharedFile!SoleStreamInOrder => File!SoleStreamInOrder
  BY DEF File!SoleStreamInOrder, SharedFile!SoleStreamInOrder
<1>7. SharedFile!SoleStreamComplete => File!SoleStreamComplete
  BY DEF File!SoleStreamComplete, SharedFile!SoleStreamComplete
<1> QED BY <1>1, <1>3, <1>4, <1>5, <1>6, <1>7

(* Every stream of the server starts with the first block of the file, no  *)
(* matter which requests of which clients moved the shared FILE* before.   *)
THEOREM StreamsStartAtFirstBlock == Spec => []File!FirstBlockFirst
<1>1. SharedFile!HardwareIOAssumption /\ SharedFile!WidthAssumption
  BY RtspSessionAssumption, SessionWidthAssumption
     DEF SharedFile!HardwareIOAssumption, SharedFile!WidthAssumption
<1>2. SharedFile!Spec => [](SharedFile!TypeOK /\ SharedFile!FirstBlockFirst)
  BY <1>1, SharedFile!SharedFileSafety
<1>3. Init => SharedFile!Init
  BY SameFile DEF Init
<1>4. [Next]_vars => [SharedFile!Next]_(SharedFile!vars)
  BY FileStep, SameFile
<1> QED BY <1>2, <1>3, <1>4, SameFile, PTL DEF Spec, SharedFile!Spec

(* A client that has the server for itself is sent from every whole block  *)
(* of the file, in order, whatever it asks for while it plays.             *)
THEOREM SoleClientReadsAll ==
  ASSUME NEW c, Conns = {c}
  PROVE  Spec => [](File!SoleStreamInOrder /\ File!SoleStreamComplete)
<1>1. SharedFile!HardwareIOAssumption /\ SharedFile!WidthAssumption
  BY RtspSessionAssumption, SessionWidthAssumption
     DEF SharedFile!HardwareIOAssumption, SharedFile!WidthAssumption
<1>2. SharedFile!Spec =>
        [](SharedFile!SoleStreamInOrder /\ SharedFile!SoleStreamComplete)
  BY <1>1, SharedFile!SoleStreamReadsAll
<1>3. Init => SharedFile!Init
  BY SameFile DEF Init
<1>4. [Next]_vars => [SharedFile!Next]_(SharedFile!vars)
  BY FileStep, SameFile
<1> QED BY <1>2, <1>3, <1>4, SameFile, PTL DEF Spec, SharedFile!Spec
-----------------------------------------------------------------------------
(* The numbers of the packets. What a connection has in its output, the    *)
(* last number its client got and the number the stream goes on with fit.  *)

(* At most the first unit is a packet, and it is the client's next one.    *)
InOrder(s, k) ==
  /\ \A i \in DOMAIN s : s[i].kind = "rtp" => i = 1
  /\ \A i \in DOMAIN s : s[i].kind = "rtp" /\ k # -1 =>
                            s[i].seq = (k + 1) % SqsMod

PlayReplied(s) == \E i \in DOMAIN s : s[i].kind = "reply" /\ s[i].method = "PLAY"

(* The last number the client will have when it has read s up to its       *)
(* first reply.                                                            *)
LastNumber(s, k) == IF s # <<>> /\ s[1].kind = "rtp" THEN s[1].seq ELSE k

GoesOnWith(s, k, n) ==
  \/ PlayReplied(s)
  \/ LastNumber(s, k) = -1
  \/ n = (LastNumber(s, k) + 1) % SqsMod

LEMMA OutputKinds ==
  ASSUME NEW u \in Outputs
  PROVE  /\ u.kind = "rtp" \/ u.kind = "reply"
         /\ u.kind = "rtp" => u.seq \in 0 .. SqsMod - 1
BY DEF Outputs, Replies, Packets

LEMMA AppendReply ==
  ASSUME NEW s \in Seq(Outputs), NEW u \in Outputs, u.kind = "reply", NEW k,
         InOrder(s, k)
  PROVE  /\ InOrder(Append(s, u), k)
         /\ \A n : GoesOnWith(s, k, n) => GoesOnWith(Append(s, u), k, n)
         /\ u.method = "PLAY" => \A n : GoesOnWith(Append(s, u), k, n)
<1> DEFINE t == Append(s, u)
<1>1. /\ DOMAIN t = 1 .. Len(s) + 1 /\ DOMAIN s = 1 .. Len(s) /\ Len(s) \in Nat
      /\ t[Len(s) + 1] = u /\ t # <<>>
      /\ \A i \in 1 .. Len(s) : t[i] = s[i]
  OBVIOUS
<1>2. s = <<>> <=> Len(s) = 0
  OBVIOUS
<1> HIDE DEF t
<1>3. \A i \in DOMAIN t : t[i].kind = "rtp" => i \in DOMAIN s /\ t[i] = s[i]
  BY <1>1
<1>4. InOrder(t, k)
  BY <1>3 DEF InOrder
<1>5. LastNumber(t, k) = LastNumber(s, k)
  <2>1. CASE s = <<>>
    BY <2>1, <1>1, <1>2 DEF LastNumber
  <2>2. CASE s # <<>>
    BY <2>2, <1>1, <1>2 DEF LastNumber
  <2> QED BY <2>1, <2>2
<1>6. PlayReplied(s) => PlayReplied(t)
  BY <1>1 DEF PlayReplied
<1>7. u.method = "PLAY" => PlayReplied(t)
  BY <1>1 DEF PlayReplied
<1> QED BY <1>4, <1>5, <1>6, <1>7 DEF t, GoesOnWith

LEMMA AppendPacket ==
  ASSUME NEW k, NEW n \in 0 .. SqsMod - 1, GoesOnWith(<<>>, k, n)
  PROVE  /\ InOrder(Append(<<>>, Rtp(n)), k)
         /\ GoesOnWith(Append(<<>>, Rtp(n)), k, (n + 1) % SqsMod)
<1> DEFINE t == Append(<<>>, Rtp(n))
<1>1. DOMAIN t = {1} /\ t # <<>> /\ t[1] = Rtp(n)
  OBVIOUS
<1>2. k = -1 \/ n = (k + 1) % SqsMod
  BY DEF GoesOnWith, PlayReplied, LastNumber
<1>3. t[1].kind = "rtp" /\ t[1].seq = n
  BY <1>1 DEF Rtp
<1> HIDE DEF t
<1>4. InOrder(t, k)
  BY <1>1, <1>2, <1>3 DEF InOrder
<1>5. LastNumber(t, k) = n
  BY <1>1, <1>3 DEF LastNumber
<1> QED BY <1>4, <1>5 DEF t, GoesOnWith

LEMMA TakeFirst ==
  ASSUME NEW s \in Seq(Outputs), s # <<>>, NEW q \in Client,
         InOrder(s, q.seq)
  PROVE  LET k == Receive(q, Head(s)).seq
         IN  /\ InOrder(Tail(s), k)
             /\ \A n : GoesOnWith(s, q.seq, n) => GoesOnWith(Tail(s), k, n)
<1> DEFINE t == Tail(s)
           k == Receive(q, Head(s)).seq
<1>1. /\ DOMAIN s = 1 .. Len(s) /\ DOMAIN t = 1 .. Len(s) - 1
      /\ Len(s) \in Nat \ {0} /\ Head(s) = s[1] /\ s[1] \in Outputs
      /\ \A i \in DOMAIN t : t[i] = s[i + 1] /\ i + 1 \in DOMAIN s
  OBVIOUS
<1>2. t # <<>> => 1 \in DOMAIN t
  OBVIOUS
<1> HIDE DEF t
<1>3. \A i \in DOMAIN t : t[i].kind # "rtp"
  BY <1>1 DEF InOrder
<1>4. InOrder(t, k)
  BY <1>3 DEF InOrder
<1>5. LastNumber(t, k) = k
  BY <1>2, <1>3 DEF LastNumber
<1>6. CASE s[1].kind = "rtp"
  <2>1. k = s[1].seq
    BY <1>1, <1>6 DEF Receive, Client
  <2>2. LastNumber(s, q.seq) = s[1].seq
    BY <1>6 DEF LastNumber
  <2>3. PlayReplied(s) => PlayReplied(t)
    <3> SUFFICES ASSUME NEW i \in DOMAIN s, s[i].kind = "reply",
                        s[i].method = "PLAY"
                 PROVE  PlayReplied(t)
      BY DEF PlayReplied
    <3>1. i # 1
      BY <1>6
    <3>2. i - 1 \in DOMAIN t /\ t[i - 1] = s[i]
      BY <1>1, <3>1
    <3> QED BY <3>2 DEF PlayReplied
  <2> QED BY <1>4, <1>5, <2>1, <2>2, <2>3 DEF t, GoesOnWith
<1>7. CASE s[1].kind # "rtp"
  <2>1. k = IF s[1].method = "PLAY" THEN -1 ELSE q.seq
    BY <1>1, <1>7 DEF Receive, Client
  <2>2. LastNumber(s, q.seq) = q.seq
    BY <1>7 DEF LastNumber
  <2>3. CASE s[1].method = "PLAY"
    BY <1>4, <1>5, <2>1, <2>3 DEF t, GoesOnWith
  <2>4. CASE s[1].method # "PLAY"
    <3>1. PlayReplied(s) => PlayReplied(t)
      <4> SUFFICES ASSUME NEW i \in DOMAIN s, s[i].kind = "reply",
                          s[i].method = "PLAY"
                   PROVE  PlayReplied(t)
        BY DEF PlayReplied
      <4>1. i # 1
        BY <2>4
      <4>2. i - 1 \in DOMAIN t /\ t[i - 1] = s[i]
        BY <1>1, <4>1
      <4> QED BY <4>2 DEF PlayReplied
    <3> QED BY <1>4, <1>5, <2>1, <2>2, <2>4, <3>1 DEF t, GoesOnWith
  <2> QED BY <2>3, <2>4
<1> QED BY <1>6, <1>7
-----------------------------------------------------------------------------
(* A stream that has met the end of the file holds the thread: the loop    *)
(* around TCPForH264 takes number after number for packets nobody gets.    *)
(* The numbers of a stream that can still send are not touched.            *)

Stuck ==
  server = "up" => \A c \in Conns :
    state[c] = "end" => /\ busy = c /\ queue[c] = <<>>
                        /\ SharedFile!PastEnd(c)

Numbered(c) ==
  /\ InOrder(output[c], client[c].seq)
  /\ server = "up" /\ stream[c] = "play" /\ state[c] # "end" =>
       GoesOnWith(output[c], client[c].seq, sqsnumber[c])

Numbers ==
  /\ \A c \in Conns : busy = c /\ task = Sending => stream[c] = "play"
  /\ \A c \in Conns : Numbered(c)

FileFacts == SharedFile!Inv /\ SharedFile!Aligned

LEMMA FileAssumptions == SharedFile!HardwareIOAssumption /\ SharedFile!WidthAssumption
BY RtspSessionAssumption, SessionWidthAssumption
   DEF SharedFile!HardwareIOAssumption, SharedFile!WidthAssumption

LEMMA SameRefill ==
  ASSUME NEW c \in Conns, File!Refill(c)
  PROVE  SharedFile!Refill(c)
BY Zenon
   DEF File!Refill, File!Seek, File!CurPos, File!FullBlock, File!AfterRead,
       SharedFile!Refill, SharedFile!Seek, SharedFile!CurPos,
       SharedFile!FullBlock, SharedFile!AfterRead

LEMMA NextFile == FileFacts /\ [Next]_vars => FileFacts'
<1>1. [Next]_vars => [SharedFile!Next]_(SharedFile!vars)
  BY FileStep, SameFile
<1>2. SharedFile!Inv /\ [SharedFile!Next]_(SharedFile!vars) => SharedFile!Inv'
  BY FileAssumptions, SharedFile!NextInv
<1>3. SharedFile!Inv /\ SharedFile!Aligned
        /\ [SharedFile!Next]_(SharedFile!vars) => SharedFile!Aligned'
  BY FileAssumptions, SharedFile!AlignedNext
<1> QED BY <1>1, <1>2, <1>3 DEF FileFacts

(* A read that gets nothing leaves the stream at the end, and at the end   *)
(* no read gets anything.                                                  *)
LEMMA EndStays ==
  ASSUME Typed, FileFacts, Stuck, server = "up",
         NEW c \in Conns, File!Refill(c)
  PROVE  /\ state'[c] = "end" => SharedFile!PastEnd(c)'
         /\ state[c] = "end" => state'[c] = "end"
<1>1. SharedFile!Refill(c)
  BY SameRefill
<1>2. state'[c] = "end" => SharedFile!PastEnd(c)'
  BY <1>1, FileAssumptions, SharedFile!FailedRead DEF FileFacts
<1>3. SharedFile!PastEnd(c) => state'[c] = "end"
  BY <1>1, FileAssumptions, SharedFile!FailsAgain DEF FileFacts
<1> QED BY <1>2, <1>3 DEF Stuck

LEMMA NoEndWhenIdle ==
  ASSUME Stuck, Idle
  PROVE  \A c \in Conns : state[c] # "end"
BY RtspSessionAssumption DEF Stuck, Idle

LEMMA TCPForH264Stuck ==
  ASSUME Typed, FileFacts, Stuck, NEW c \in Conns, TCPForH264(c)
  PROVE  Stuck'
<1>1. /\ server = "up" /\ busy = c
      /\ \A d \in Conns \ {c} : state[d] # "end"
      /\ queue[c] # <<>> => state[c] # "end"
  BY DEF TCPForH264, Stuck
<1>2. CASE SkipNode(c) \/ SendNode(c)
  BY <1>1, <1>2 DEF SkipNode, SendNode, file, Stuck
<1>3. CASE ReadBlock(c) \/ ReadNothing(c)
  <2>1. /\ File!Refill(c) /\ queue[c] = <<>> /\ busy' = busy
        /\ state'[c] = "open" \/ queue' = queue
    BY <1>3 DEF ReadBlock, ReadNothing
  <2>2. \A d \in Conns \ {c} : state'[d] = state[d]
    BY <2>1, RefillFile DEF Typed
  <2>3. state'[c] = "end" => SharedFile!PastEnd(c)'
    BY <1>1, <2>1, EndStays
  <2> QED BY <1>1, <2>1, <2>2, <2>3 DEF Stuck
<1> QED BY <1>2, <1>3 DEF TCPForH264

LEMMA NextStuck == Typed /\ FileFacts /\ Stuck /\ [Next]_vars => Stuck'
<1> SUFFICES ASSUME Typed, FileFacts, Stuck, [Next]_vars PROVE Stuck'
  OBVIOUS
<1>1. CASE UNCHANGED vars
  BY <1>1 DEF vars, session, file, Stuck, SharedFile!PastEnd
<1>2. ASSUME NEW c \in Conns,
             \/ \E m \in Methods : SendRequest(c, m)
             \/ SendTail(c) \/ SendRtcp(c) \/ Hangup(c)
      PROVE  Stuck'
  <2>1. UNCHANGED <<server, busy, session, file>>
    BY <1>2 DEF SendRequest, SendTail, SendRtcp, Hangup
  <2> QED BY <2>1 DEF session, file, Stuck, SharedFile!PastEnd
<1>3. ASSUME NEW c \in Conns, Connect(c) \/ WriteReady(c) PROVE Stuck'
  <2>1. Idle /\ state' = state
    BY <1>3 DEF Connect, WriteReady, file
  <2> QED BY <2>1, NoEndWhenIdle DEF Stuck
<1>4. ASSUME NEW c \in Conns, Disconnect(c) PROVE Stuck'
  <2>1. Idle /\ (state' = state \/ state' = [state EXCEPT ![c] = "none"])
    BY <1>4 DEF Disconnect, EndStream, file, File!Drop
  <2> QED BY <2>1, NoEndWhenIdle DEF Stuck, Typed, FileTyped
<1>5. ASSUME NEW c \in Conns, Recv(c) PROVE Stuck'
  <2>1. PICK text : DealRtsp(c, text)
    BY <1>5 DEF Recv
  <2>2. Idle
    BY <1>5 DEF Recv
  <2>3. \/ state' = state
        \/ state' = [state EXCEPT ![c] = "open"]
        \/ state' = [t \in Conns |-> "crashed"]
    BY <2>1
       DEF DealRtsp, DealSetup, DealPlay, DealOther, file, File!Setup,
           File!SetupNoFile
  <2> QED BY <2>2, <2>3, NoEndWhenIdle DEF Stuck, Typed, FileTyped
<1>6. ASSUME NEW c \in Conns, TCPForH264(c) PROVE Stuck'
  BY <1>6, TCPForH264Stuck
<1> QED BY <1>1, <1>2, <1>3, <1>4, <1>5, <1>6 DEF Next

-----------------------------------------------------------------------------
(* The blocks that streams get: a stream at the end of the file keeps the  *)
(* thread, so the FILE* never leaves the starts of the blocks before.      *)

LEMMA EndHoldsFile ==
  ASSUME Typed, FileFacts, Stuck, [Next]_vars,
         NEW e \in Conns, state[e] = "end"
  PROVE  cut' = cut /\ state' = state
<1>1. CASE UNCHANGED vars
  BY <1>1 DEF vars, file
<1>2. ASSUME NEW c \in Conns,
             \/ \E m \in Methods : SendRequest(c, m)
             \/ SendTail(c) \/ SendRtcp(c) \/ Hangup(c)
             \/ Connect(c) \/ WriteReady(c)
      PROVE  cut' = cut /\ state' = state
  <2>1. UNCHANGED file
    BY <1>2 DEF SendRequest, SendTail, SendRtcp, Hangup, Connect, WriteReady
  <2> QED BY <2>1 DEF file
<1>3. ASSUME NEW c \in Conns, Recv(c) \/ Disconnect(c) PROVE FALSE
  <2>1. Idle
    BY <1>3 DEF Recv, Disconnect
  <2> QED BY <2>1, NoEndWhenIdle
<1>4. ASSUME NEW c \in Conns, TCPForH264(c)
      PROVE  cut' = cut /\ state' = state
  <2>1. server = "up" /\ c = e /\ queue[c] = <<>>
    BY <1>4 DEF TCPForH264, Stuck
  <2>2. File!Refill(c)
    BY <1>4, <2>1
       DEF TCPForH264, SkipNode, SendNode, ReadBlock, ReadNothing
  <2>3. SharedFile!PastEnd(c) /\ SharedFile!Refill(c)
    BY <2>1, <2>2, SameRefill DEF Stuck
  <2>4. SharedFile!Inv
    BY DEF FileFacts
  <2>5. state'[c] = "end"
    BY <2>1, <2>2, EndStays
  <2>6. state \in [Conns -> {"none", "open", "end", "crashed"}]
    BY <2>4 DEF SharedFile!Inv, SharedFile!TypeOK
  <2>7. ~ SharedFile!FullBlock(SharedFile!Seek(position, filepos[c]))
    BY <2>3, <2>5, <2>6 DEF SharedFile!Refill
  <2>8. cut' = cut /\ state' = [state EXCEPT ![c] = "end"]
    BY <2>3, <2>7 DEF SharedFile!Refill
  <2> QED BY <2>1, <2>6, <2>8
<1> QED BY <1>1, <1>2, <1>3, <1>4 DEF Next

FileGrid == SharedFile!Grid /\ SharedFile!CutWhole

LEMMA NextGrid ==
  ASSUME Typed, FileFacts, Stuck, FileGrid, [Next]_vars
  PROVE  FileGrid'
<1>1. CASE \A c \in Conns : state[c] # "end"
  <2>1. [SharedFile!Next]_(SharedFile!vars)
    BY FileStep, SameFile
  <2>2. SharedFile!Inv /\ SharedFile!Aligned
        /\ SharedFile!Grid /\ SharedFile!CutWhole
    BY DEF FileFacts, FileGrid
  <2>3. SharedFile!Grid' /\ SharedFile!CutWhole'
    BY <1>1, <2>1, <2>2, FileAssumptions, SharedFile!GridNext
  <2> QED BY <2>3 DEF FileGrid
<1>2. ASSUME NEW e \in Conns, state[e] = "end" PROVE FileGrid'
  <2>1. cut' = cut /\ state' = state
    BY <1>2, EndHoldsFile
  <2>2. SharedFile!CutWhole'
    BY <2>1 DEF FileGrid, SharedFile!CutWhole
  <2>3. SharedFile!Grid'
    BY <1>2, <2>1 DEF FileGrid, SharedFile!Grid, SharedFile!CrashedAll
  <2> QED BY <2>2, <2>3 DEF FileGrid
<1> QED BY <1>1, <1>2

-----------------------------------------------------------------------------
(* The steps of the connections.                                           *)

(* A step that leaves a connection's output alone and neither starts its   *)
(* stream nor takes a number.                                              *)
LEMMA NumberedSame ==
  ASSUME NEW d \in Conns, Numbered(d), output'[d] = output[d],
         client'[d].seq = client[d].seq,
         server' = "up" /\ stream'[d] = "play" /\ state'[d] # "end" =>
           /\ server = "up" /\ stream[d] = "play" /\ state[d] # "end"
           /\ sqsnumber'[d] = sqsnumber[d]
  PROVE  Numbered(d)'
BY DEF Numbered

(* What a reply does.                                                      *)
LEMMA NumberedReply ==
  ASSUME Typed, NEW c \in Conns, Numbered(c), NEW u \in Outputs,
         u.kind = "reply", Write(c, u), UNCHANGED client,
         server' = "up" /\ stream'[c] = "play" /\ state'[c] # "end" =>
           \/ u.method = "PLAY"
           \/ /\ server = "up" /\ stream[c] = "play" /\ state[c] # "end"
              /\ sqsnumber'[c] = sqsnumber[c]
  PROVE  Numbered(c)'
<1>1. output[c] \in Seq(Outputs) /\ output'[c] = Append(output[c], u)
  BY DEF Typed, BufferTyped, Write
<1>2. InOrder(output[c], client[c].seq)
  BY DEF Numbered
<1>3. /\ InOrder(Append(output[c], u), client[c].seq)
      /\ \A n : GoesOnWith(output[c], client[c].seq, n) =>
                  GoesOnWith(Append(output[c], u), client[c].seq, n)
      /\ u.method = "PLAY" =>
           \A n : GoesOnWith(Append(output[c], u), client[c].seq, n)
  BY <1>1, <1>2, AppendReply
<1> QED BY <1>1, <1>3 DEF Numbered

LEMMA TCPForH264Numbers ==
  ASSUME Typed, Chain, FileFacts, Stuck, Numbers,
         NEW c \in Conns, TCPForH264(c)
  PROVE  Numbers'
<1>1. /\ server = "up" /\ busy = c /\ UNCHANGED client /\ None \notin Conns
      /\ Numbered(c)
  BY RtspSessionAssumption DEF TCPForH264, Numbers
<1>2. CASE SkipNode(c)
  BY <1>2, NumberedSame, <1>1 DEF SkipNode, file, Numbers
<1>3. CASE ReadBlock(c) \/ ReadNothing(c)
  <2>1. /\ File!Refill(c) /\ UNCHANGED <<busy, task, stream, output>>
        /\ state'[c] # "end" => sqsnumber' = sqsnumber
    BY <1>3 DEF ReadBlock, ReadNothing
  <2>2. \A d \in Conns \ {c} : /\ state'[d] = state[d]
                                /\ sqsnumber'[d] = sqsnumber[d]
    BY <1>3, <2>1, RefillFile
       DEF Typed, SessionTyped, ReadBlock, ReadNothing, Take
  <2>3. state'[c] # "end" => state[c] # "end"
    BY <1>1, <2>1, EndStays
  <2>4. \A d \in Conns : Numbered(d)'
    BY <1>1, <2>1, <2>2, <2>3, NumberedSame DEF Numbers
  <2> QED BY <2>1, <2>4 DEF Numbers
<1>4. CASE SendNode(c)
  <2>1. /\ Finish(c) /\ busy' = None /\ server' = server /\ state' = state
        /\ sqsnumber' = [sqsnumber EXCEPT ![c] = (sqsnumber[c] + 1) % SqsMod]
    BY <1>4 DEF SendNode, file, Take
  <2>2. PICK u \in Outputs :
          /\ Write(c, u)
          /\ u = IF task = Sending THEN Rtp(sqsnumber[c])
                 ELSE Reply(task, "PLAY", TRUE)
          /\ stream' = IF task = Sending THEN stream
                       ELSE [stream EXCEPT ![c] = "play"]
    BY <1>1, <2>1, FinishWrites
  <2>3. \A d \in Conns \ {c} : /\ output'[d] = output[d]
                                /\ stream'[d] = stream[d]
                                /\ sqsnumber'[d] = sqsnumber[d]
    BY <2>1, <2>2 DEF Typed, SessionTyped, BufferTyped, Write
  <2>4. \A d \in Conns \ {c} : Numbered(d)'
    BY <1>1, <2>1, <2>3, NumberedSame DEF Numbers
  <2>5. CASE task = Sending
    <3>1. output[c] = <<>> /\ stream[c] = "play"
      BY <1>1, <2>5 DEF Chain, Numbers
    <3>2. state[c] # "end"
      BY <1>1, <1>4 DEF SendNode, Stuck
    <3>3. GoesOnWith(<<>>, client[c].seq, sqsnumber[c])
      BY <1>1, <3>1, <3>2 DEF Numbered
    <3>4. output'[c] = Append(<<>>, Rtp(sqsnumber[c]))
      BY <2>2, <2>5, <3>1 DEF Write, Typed, BufferTyped
    <3>5. /\ sqsnumber[c] \in 0 .. SqsMod - 1
          /\ sqsnumber'[c] = (sqsnumber[c] + 1) % SqsMod
      BY <2>1 DEF Typed, SessionTyped
    <3>6. Numbered(c)'
      BY <1>1, <3>3, <3>4, <3>5, AppendPacket DEF Numbered
    <3> QED BY <1>1, <2>1, <2>4, <3>6 DEF Numbers
  <2>6. CASE task # Sending
    <3>1. u.kind = "reply" /\ u.method = "PLAY"
      BY <2>2, <2>6 DEF Reply
    <3>2. Numbered(c)'
      BY <1>1, <2>2, <3>1, NumberedReply
    <3> QED BY <1>1, <2>1, <2>4, <3>2 DEF Numbers
  <2> QED BY <2>5, <2>6
<1> QED BY <1>2, <1>3, <1>4 DEF TCPForH264

LEMMA WriteReadyNumbers ==
  ASSUME Typed, Numbers, NEW c \in Conns, WriteReady(c)
  PROVE  Numbers'
<1> DEFINE rest == IF output[c] = <<>> THEN <<>> ELSE Tail(output[c])
           k == IF output[c] = <<>> THEN client[c].seq
                ELSE Receive(client[c], Head(output[c])).seq
<1>1. /\ server = "up" /\ busy = None /\ Send(c, rest = <<>>)
      /\ output' = [output EXCEPT ![c] = rest]
      /\ UNCHANGED <<stream, sqsnumber, state>>
  BY DEF WriteReady, Idle, session, file
<1>2. /\ output[c] \in Seq(Outputs) /\ client[c] \in Client
      /\ Numbered(c)
  BY DEF Typed, BufferTyped, ClientTyped, Numbers
<1>3. /\ output'[c] = rest
      /\ \A d \in Conns \ {c} : output'[d] = output[d]
  BY <1>1 DEF Typed, BufferTyped
<1>4. /\ client'[c].seq = k
      /\ \A d \in Conns \ {c} : client'[d] = client[d]
  BY DEF WriteReady, Typed, ClientTyped
<1>5. /\ InOrder(rest, k)
      /\ \A n : GoesOnWith(output[c], client[c].seq, n) => GoesOnWith(rest, k, n)
  <2>1. CASE output[c] = <<>>
    BY <1>2, <2>1 DEF Numbered
  <2>2. CASE output[c] # <<>>
    BY <1>2, <2>2, TakeFirst DEF Numbered
  <2> QED BY <2>1, <2>2
<1> HIDE DEF rest, k
<1>6. Numbered(c)'
  BY <1>1, <1>2, <1>3, <1>4, <1>5 DEF Numbered
<1>7. \A d \in Conns \ {c} : Numbered(d)'
  BY <1>1, <1>3, <1>4, NumberedSame DEF Numbers
<1>8. \/ busy' = None
      \/ busy' = c /\ stream[c] = "play"
  BY <1>1 DEF Send
<1> QED BY <1>1, <1>6, <1>7, <1>8, RtspSessionAssumption DEF Numbers

LEMMA DealRtspNumbers ==
  ASSUME Typed, Stuck, Numbers, Idle, NEW c \in Conns, NEW r \in ARequest,
         DealSetup(c, r) \/ DealPlay(c, r) \/ DealOther(c, r),
         UNCHANGED client
  PROVE  Numbers'
<1>1. /\ server = "up" /\ busy = None /\ None \notin Conns
      /\ \A d \in Conns : Numbered(d) /\ state[d] # "end"
      /\ r.id \in 0 .. MaxRequests /\ r.method \in Methods \cup {"none"}
  BY NoEndWhenIdle, RtspSessionAssumption DEF Idle, Numbers, ARequest
<1>2. CASE DealPlay(c, r)
  <2>1. UNCHANGED <<stream, output, sqsnumber, state>>
        /\ (busy' = None \/ task' # Sending)
    BY <1>1, <1>2, RtspSessionAssumption DEF DealPlay, file, Sending
  <2>2. \A d \in Conns : Numbered(d)'
    BY <1>1, <2>1, NumberedSame
  <2> QED BY <1>1, <2>1, <2>2 DEF Numbers
<1>3. CASE DealOther(c, r)
  <2>1. PICK found \in BOOLEAN : Write(c, Reply(r.id, r.method, found))
    BY <1>3 DEF DealOther
  <2>2. UNCHANGED <<server, busy, task, stream, sqsnumber, state>>
    BY <1>3 DEF DealOther, file
  <2>3. /\ Reply(r.id, r.method, found) \in Outputs
        /\ Reply(r.id, r.method, found).kind = "reply"
    BY <1>1, ReplyMade
  <2>4. Numbered(c)'
    BY <1>1, <2>1, <2>2, <2>3, NumberedReply
  <2>5. \A d \in Conns \ {c} : output'[d] = output[d]
    BY <2>1 DEF Write, Typed, BufferTyped
  <2>6. \A d \in Conns \ {c} : Numbered(d)'
    BY <1>1, <2>2, <2>5, NumberedSame
  <2> QED BY <1>1, <2>2, <2>4, <2>6 DEF Numbers
<1>4. CASE DealSetup(c, r) /\ state'[c] = "crashed"
  <2>1. server' = "fault" /\ UNCHANGED <<busy, task, stream, output>>
    BY <1>4 DEF DealSetup
  <2>2. \A d \in Conns : Numbered(d)'
    BY <1>1, <2>1, NumberedSame
  <2> QED BY <1>1, <2>1, <2>2 DEF Numbers
<1>5. CASE DealSetup(c, r) /\ state'[c] # "crashed"
  <2>1. /\ stream' = [stream EXCEPT ![c] = "ready"]
        /\ sqsnumber' = [sqsnumber EXCEPT ![c] = 0]
        /\ Write(c, Reply(r.id, r.method, TRUE))
        /\ UNCHANGED <<server, busy, task>>
    BY <1>5 DEF DealSetup
  <2>2. /\ stream'[c] = "ready"
        /\ \A d \in Conns \ {c} : /\ stream'[d] = stream[d]
                                   /\ sqsnumber'[d] = sqsnumber[d]
                                   /\ output'[d] = output[d]
    BY <2>1 DEF Typed, SessionTyped, BufferTyped, Write
  <2>3. /\ Reply(r.id, r.method, TRUE) \in Outputs
        /\ Reply(r.id, r.method, TRUE).kind = "reply"
    BY <1>1, ReplyMade
  <2>4. Numbered(c)'
    BY <1>1, <2>1, <2>2, <2>3, NumberedReply
  <2>5. \A d \in Conns \ {c} : Numbered(d)'
    BY <1>1, <2>1, <2>2, NumberedSame
  <2> QED BY <1>1, <2>1, <2>4, <2>5 DEF Numbers
<1> QED BY <1>2, <1>3, <1>4, <1>5
LEMMA ConnectNumbers ==
  ASSUME Typed, Chain, Numbers, NEW c \in Conns, Connect(c) \/ Disconnect(c)
  PROVE  Numbers'
<1>1. /\ busy = None /\ UNCHANGED <<server, busy, task>>
      /\ None \notin Conns
  BY RtspSessionAssumption DEF Connect, Disconnect, Idle
<1>2. CASE Connect(c)
  <2>1. UNCHANGED <<stream, output, sqsnumber, client, state>>
    BY <1>2 DEF Connect, file
  <2>2. \A d \in Conns : Numbered(d)'
    BY <1>1, <2>1, NumberedSame DEF Numbers
  <2> QED BY <1>1, <2>1, <2>2 DEF Numbers
<1>3. CASE Disconnect(c)
  <2>1. /\ stream'[c] = "none" /\ output'[c] = <<>>
        /\ \A d \in Conns \ {c} :
             /\ output'[d] = output[d] /\ stream'[d] = stream[d]
             /\ client'[d] = client[d] /\ sqsnumber'[d] = sqsnumber[d]
    BY <1>3
       DEF Disconnect, Typed, SessionTyped, BufferTyped, ClientTyped
  <2>2. \A d \in Conns \ {c} : state'[d] = state[d]
    BY <1>3 DEF Disconnect, EndStream, file, File!Drop, Typed, FileTyped
  <2>3. Numbered(c)'
    BY <2>1 DEF Numbered, InOrder
  <2>4. \A d \in Conns \ {c} : Numbered(d)'
    BY <1>1, <2>1, <2>2, NumberedSame DEF Numbers
  <2> QED BY <1>1, <2>3, <2>4 DEF Numbers
<1> QED BY <1>2, <1>3

LEMMA NextNumbers ==
  Typed /\ Chain /\ FileFacts /\ Stuck /\ Numbers /\ [Next]_vars => Numbers'
<1> SUFFICES ASSUME Typed, Chain, FileFacts, Stuck, Numbers, [Next]_vars
             PROVE  Numbers'
  OBVIOUS
<1>1. ASSUME UNCHANGED <<server, busy, task, session, bufev, file>>,
             \A d \in Conns : client'[d].seq = client[d].seq
      PROVE  Numbers'
  <2>1. UNCHANGED <<server, busy, task, stream, sqsnumber, output, state>>
    BY <1>1 DEF session, bufev, file
  <2>2. \A d \in Conns : Numbered(d)'
    BY <1>1, <2>1, NumberedSame DEF Numbers
  <2> QED BY <2>1, <2>2 DEF Numbers
<1>2. CASE UNCHANGED vars
  BY <1>1, <1>2 DEF vars
<1>3. ASSUME NEW c \in Conns,
             \/ \E m \in Methods : SendRequest(c, m)
             \/ SendTail(c) \/ SendRtcp(c) \/ Hangup(c)
      PROVE  Numbers'
  <2>1. client \in [Conns -> Client] /\ client[c] \in Client
    BY DEF Typed, ClientTyped
  <2>2. \A d \in Conns : client'[d].seq = client[d].seq
    <3>1. CASE \E m \in Methods : SendRequest(c, m)
      <4>1. PICK id, split : client' = [client EXCEPT
              ![c] = [client[c] EXCEPT !.nreq = id, !.tail = split]]
        <5>1. PICK m \in Methods : SendRequest(c, m)
          BY <3>1
        <5>2. PICK split \in {FALSE, Splits} :
                client' = [client EXCEPT ![c].nreq = client[c].nreq + 1,
                                         ![c].tail = split]
          BY <5>1 DEF SendRequest
        <5>3. client' = [client EXCEPT
                ![c] = [client[c] EXCEPT !.nreq = client[c].nreq + 1,
                                         !.tail = split]]
          BY <5>2
        <5> QED BY <5>3
      <4> QED BY <2>1, <4>1 DEF Client
    <3>2. CASE SendTail(c)
      <4>1. client' = [client EXCEPT ![c] = [client[c] EXCEPT !.tail = FALSE]]
        BY <3>2 DEF SendTail
      <4> QED BY <2>1, <4>1 DEF Client
    <3>3. CASE SendRtcp(c)
      <4>1. client' = [client EXCEPT
              ![c] = [client[c] EXCEPT !.nrtcp = client[c].nrtcp + 1]]
        BY <3>3 DEF SendRtcp
      <4> QED BY <2>1, <4>1 DEF Client
    <3>4. CASE Hangup(c)
      <4>1. client' = [client EXCEPT ![c] = [client[c] EXCEPT !.closed = TRUE]]
        BY <3>4 DEF Hangup
      <4> QED BY <2>1, <4>1 DEF Client
    <3> QED BY <1>3, <3>1, <3>2, <3>3, <3>4
  <2>3. UNCHANGED <<server, busy, task, session, bufev, file>>
    BY <1>3 DEF SendRequest, SendTail, SendRtcp, Hangup
  <2> QED BY <1>1, <2>2, <2>3
<1>4. ASSUME NEW c \in Conns, Recv(c) PROVE Numbers'
  <2>1. PICK text \in Seq(Unit) : DealRtsp(c, text)
    BY <1>4, RecvText
  <2>2. Idle /\ UNCHANGED client
    BY <1>4 DEF Recv
  <2>3. CASE Complete(text)
    <3>1. PICK r \in Request(text) :
                 DealSetup(c, r) \/ DealPlay(c, r) \/ DealOther(c, r)
      BY <2>1, <2>3 DEF DealRtsp
    <3>2. r \in ARequest
      BY <2>3, RequestIsTyped
    <3> QED BY <2>2, <3>1, <3>2, DealRtspNumbers
  <2>4. CASE ~ Complete(text)
    <3>1. UNCHANGED <<server, busy, task, stream, sqsnumber, output, state>>
      BY <2>1, <2>4 DEF DealRtsp, file
    <3>2. \A d \in Conns : Numbered(d)'
      BY <2>2, <3>1, NumberedSame DEF Numbers
    <3> QED BY <3>1, <3>2 DEF Numbers
  <2> QED BY <2>3, <2>4
<1>5. ASSUME NEW c \in Conns,
             \/ Connect(c) \/ Disconnect(c)
             \/ WriteReady(c) \/ TCPForH264(c)
      PROVE  Numbers'
  BY <1>5, ConnectNumbers, WriteReadyNumbers, TCPForH264Numbers
<1> QED BY <1>2, <1>3, <1>4, <1>5 DEF Next

LEMMA InitNumbers == Init => Typed /\ Chain /\ FileFacts /\ Stuck /\ Numbers
<1> SUFFICES ASSUME Init PROVE FileFacts /\ Stuck /\ Numbers
  BY InitTyped, InitChain
<1>1. FileFacts
  BY FileAssumptions, SameFile, SharedFile!InitInv, SharedFile!AlignedInit
     DEF Init, FileFacts
<1>2. Stuck
  BY DEF Init, File!Init, Stuck
<1>3. Numbers
  BY RtspSessionAssumption DEF Init, Numbers, Numbered, InOrder
<1> QED BY <1>1, <1>2, <1>3

(* However requests stop and start a stream, and whatever other streams    *)
(* read from the shared file: between two PLAY requests each client gets   *)
(* packets with consecutive numbers.                                       *)
THEOREM NumbersFollow == Spec => []PacketsConsecutive
<1>1. Init => Typed /\ Chain /\ FileFacts /\ Stuck /\ Numbers
  BY InitNumbers
<1>2. Typed /\ Chain /\ FileFacts /\ Stuck /\ Numbers /\ [Next]_vars
        => (Typed /\ Chain /\ FileFacts /\ Stuck /\ Numbers)'
  BY NextTyped, NextChain, NextFile, NextStuck, NextNumbers
<1>3. Numbers => PacketsConsecutive
  BY DEF Numbers, Numbered, InOrder, PacketsConsecutive
<1> QED BY <1>1, <1>2, <1>3, PTL DEF Spec

(* However many streams share the FILE*, whatever their clients ask for:   *)
(* every block a stream gets is one of the blocks that the file is made    *)
(* of, counted from its start.                                             *)
THEOREM BlocksAreWhole ==
  Spec => [](\A c \in Conns : \A i \in DOMAIN cut[c] : cut[c][i] % Block = 0)
<1> DEFINE Whole == \A c \in Conns : \A i \in DOMAIN cut[c] :
                      cut[c][i] % Block = 0
<1>1. Init => FileGrid
  <2> SUFFICES ASSUME Init PROVE FileGrid
    OBVIOUS
  <2>1. SharedFile!Init
    BY SameFile DEF Init
  <2>2. SharedFile!Grid /\ SharedFile!CutWhole
    BY <2>1, FileAssumptions, SharedFile!GridInit
  <2> QED BY <2>2 DEF FileGrid
<1>2. FileGrid => Whole
  <2> SUFFICES ASSUME FileGrid PROVE Whole
    OBVIOUS
  <2>1. SharedFile!CutWhole
    BY DEF FileGrid
  <2> QED BY <2>1, FileAssumptions, SharedFile!CutWholeModulo
<1>3. Typed /\ FileFacts /\ Stuck /\ FileGrid /\ [Next]_vars => FileGrid'
  BY NextGrid
<1>4. Spec => [](Typed /\ Chain /\ FileFacts /\ Stuck /\ Numbers)
  BY InitNumbers, NextTyped, NextChain, NextFile, NextStuck, NextNumbers, PTL
     DEF Spec
<1> HIDE DEF Whole
<1>5. Spec => []Whole
  BY <1>1, <1>2, <1>3, <1>4, PTL DEF Spec
<1> QED BY <1>5 DEF Whole

-----------------------------------------------------------------------------
(* No packet before PLAY. Send's callback finds an output that is empty,   *)
(* so the reply to the PLAY that started its stream has been received.     *)

Holds(s, m) == \E i \in DOMAIN s : Grants(s[i], m)
PacketFirst(s) == s # <<>> /\ s[1].kind = "rtp"

Started(c) ==
  /\ stream[c] = "play" => "PLAY" \in client[c].ok \/ Holds(output[c], "PLAY")
  /\ PacketFirst(output[c]) => "PLAY" \in client[c].ok
  /\ PacketFirst(output[c]) /\ stream[c] = "ready" => Holds(output[c], "SETUP")

LEMMA HoldsAppend ==
  ASSUME NEW s \in Seq(Outputs), NEW u \in Outputs, u.kind = "reply"
  PROVE  /\ \A m : Holds(s, m) => Holds(Append(s, u), m)
         /\ \A m : Grants(u, m) => Holds(Append(s, u), m)
         /\ PacketFirst(Append(s, u)) => PacketFirst(s)
<1> DEFINE t == Append(s, u)
<1>1. /\ DOMAIN t = 1 .. Len(s) + 1 /\ DOMAIN s = 1 .. Len(s) /\ Len(s) \in Nat
      /\ t[Len(s) + 1] = u
      /\ \A i \in 1 .. Len(s) : t[i] = s[i]
      /\ s = <<>> <=> Len(s) = 0
  OBVIOUS
<1> HIDE DEF t
<1>2. Len(s) + 1 \in DOMAIN t /\ DOMAIN s \subseteq DOMAIN t
  BY <1>1
<1>3. \A m : Holds(s, m) => Holds(t, m)
  BY <1>1, <1>2 DEF Holds
<1>4. \A m : Grants(u, m) => Holds(t, m)
  BY <1>1, <1>2 DEF Holds
<1>5. PacketFirst(t) => PacketFirst(s)
  <2>1. s = <<>> => t[1] = u
    BY <1>1
  <2>2. s # <<>> => t[1] = s[1]
    BY <1>1
  <2> QED BY <2>1, <2>2 DEF PacketFirst
<1> QED BY <1>3, <1>4, <1>5 DEF t

LEMMA HoldsTail ==
  ASSUME NEW s \in Seq(Outputs), s # <<>>, NEW q \in Client, NEW k,
         InOrder(s, k)
  PROVE  /\ "PLAY" \in q.ok \/ Holds(s, "PLAY") =>
              \/ "PLAY" \in Receive(q, Head(s)).ok
              \/ Holds(Tail(s), "PLAY")
         /\ ~ PacketFirst(Tail(s))
<1> DEFINE t == Tail(s)
<1>1. /\ DOMAIN s = 1 .. Len(s) /\ DOMAIN t = 1 .. Len(s) - 1
      /\ Len(s) \in Nat \ {0} /\ Head(s) = s[1] /\ s[1] \in Outputs
      /\ \A i \in DOMAIN t : t[i] = s[i + 1] /\ i + 1 \in DOMAIN s
      /\ t # <<>> => 1 \in DOMAIN t
  OBVIOUS
<1> HIDE DEF t
<1>2. ~ PacketFirst(t)
  BY <1>1 DEF InOrder, PacketFirst
<1>3. q.ok \subseteq Receive(q, Head(s)).ok
  BY <1>1 DEF Receive, Client
<1>4. ASSUME NEW i \in DOMAIN s, Grants(s[i], "PLAY")
      PROVE  "PLAY" \in Receive(q, Head(s)).ok \/ Holds(t, "PLAY")
  <2>1. CASE i = 1
    BY <1>1, <1>4, <2>1 DEF Grants, Receive, Client
  <2>2. CASE i # 1
    <3>1. i - 1 \in DOMAIN t /\ t[i - 1] = s[i]
      BY <1>1, <2>2
    <3> QED BY <1>4, <3>1 DEF Holds
  <2> QED BY <2>1, <2>2
<1> QED BY <1>2, <1>3, <1>4 DEF t, Holds

LEMMA StartedSame ==
  ASSUME NEW d \in Conns, Started(d), output'[d] = output[d],
         client[d].ok \subseteq client'[d].ok, stream'[d] = stream[d]
  PROVE  Started(d)'
BY DEF Started

LEMMA StartedReply ==
  ASSUME Typed, NEW c \in Conns, Started(c), NEW u \in Outputs,
         u.kind = "reply", Write(c, u), UNCHANGED client,
         stream'[c] = "play" => stream[c] = "play" \/ Grants(u, "PLAY"),
         stream'[c] = "ready" => stream[c] = "ready" \/ Grants(u, "SETUP")
  PROVE  Started(c)'
<1>1. output[c] \in Seq(Outputs) /\ output'[c] = Append(output[c], u)
  BY DEF Typed, BufferTyped, Write
<1>2. /\ \A m : Holds(output[c], m) => Holds(output'[c], m)
      /\ \A m : Grants(u, m) => Holds(output'[c], m)
      /\ PacketFirst(output'[c]) => PacketFirst(output[c])
  BY <1>1, HoldsAppend
<1> QED BY <1>2 DEF Started

LEMMA TCPForH264Started ==
  ASSUME Typed, Chain, Numbers, \A d \in Conns : Started(d),
         NEW c \in Conns, TCPForH264(c), NEW d \in Conns
  PROVE  Started(d)'
<1>1. server = "up" /\ busy = c /\ UNCHANGED client
  BY DEF TCPForH264
<1>2. CASE SkipNode(c) \/ ReadBlock(c) \/ ReadNothing(c)
  <2>1. UNCHANGED <<stream, output>>
    BY <1>2 DEF SkipNode, ReadBlock, ReadNothing
  <2> QED BY <1>1, <2>1, StartedSame
<1>3. CASE SendNode(c)
  <2>1. Finish(c)
    BY <1>3 DEF SendNode
  <2>2. PICK u \in Outputs :
          /\ Write(c, u)
          /\ u = IF task = Sending THEN Rtp(sqsnumber[c])
                 ELSE Reply(task, "PLAY", TRUE)
          /\ stream' = IF task = Sending THEN stream
                       ELSE [stream EXCEPT ![c] = "play"]
    BY <1>1, <2>1, FinishWrites
  <2>3. CASE d # c
    <3>1. output'[d] = output[d] /\ stream'[d] = stream[d]
      BY <2>2, <2>3 DEF Typed, SessionTyped, BufferTyped, Write
    <3> QED BY <1>1, <3>1, StartedSame
  <2>4. CASE d = c /\ task = Sending
    <3>1. output[c] = <<>> /\ stream[c] = "play"
      BY <1>1, <2>4 DEF Chain, Numbers
    <3>2. "PLAY" \in client[c].ok
      BY <3>1 DEF Started, Holds
    <3>3. stream'[c] = "play"
      BY <2>2, <2>4, <3>1
    <3> QED BY <1>1, <2>4, <3>2, <3>3 DEF Started
  <2>5. CASE d = c /\ task # Sending
    <3>1. u.kind = "reply" /\ Grants(u, "PLAY") /\ stream'[c] = "play"
      BY <2>2, <2>5 DEF Reply, Grants, Typed, SessionTyped
    <3> QED BY <1>1, <2>2, <2>5, <3>1, StartedReply
  <2> QED BY <2>3, <2>4, <2>5
<1> QED BY <1>2, <1>3 DEF TCPForH264

LEMMA WriteReadyStarted ==
  ASSUME Typed, Numbers, \A d \in Conns : Started(d),
         NEW c \in Conns, WriteReady(c), NEW d \in Conns
  PROVE  Started(d)'
<1> DEFINE rest == IF output[c] = <<>> THEN <<>> ELSE Tail(output[c])
<1>1. /\ output' = [output EXCEPT ![c] = rest] /\ UNCHANGED stream
      /\ client' = IF output[c] = <<>> THEN client
                   ELSE [client EXCEPT
                           ![c] = Receive(client[c], Head(output[c]))]
  BY DEF WriteReady, session
<1>2. /\ output[c] \in Seq(Outputs) /\ client[c] \in Client
      /\ output \in [Conns -> Seq(Outputs)] /\ client \in [Conns -> Client]
      /\ InOrder(output[c], client[c].seq)
  BY DEF Typed, BufferTyped, ClientTyped, Numbers, Numbered
<1>3. CASE d # c
  <2>1. output'[d] = output[d] /\ client'[d] = client[d]
    BY <1>1, <1>2, <1>3
  <2> QED BY <1>1, <2>1, StartedSame
<1>4. CASE d = c /\ output[c] = <<>>
  <2>1. output'[c] = output[c] /\ client' = client
    BY <1>1, <1>2, <1>4
  <2> QED BY <1>1, <1>4, <2>1, StartedSame
<1>5. CASE d = c /\ output[c] # <<>>
  <2>1. /\ output'[c] = Tail(output[c])
        /\ client'[c] = Receive(client[c], Head(output[c]))
    BY <1>1, <1>2, <1>5
  <2>2. /\ "PLAY" \in client[c].ok \/ Holds(output[c], "PLAY") =>
             "PLAY" \in client'[c].ok \/ Holds(output'[c], "PLAY")
        /\ ~ PacketFirst(output'[c])
    BY <1>2, <1>5, <2>1, HoldsTail
  <2> QED BY <1>1, <1>5, <2>2 DEF Started
<1> QED BY <1>3, <1>4, <1>5

LEMMA DealRtspStarted ==
  ASSUME Typed, \A d \in Conns : Started(d), NEW c \in Conns,
         NEW r \in ARequest,
         DealSetup(c, r) \/ DealPlay(c, r) \/ DealOther(c, r),
         UNCHANGED client, NEW d \in Conns
  PROVE  Started(d)'
<1>1. r.id \in 0 .. MaxRequests /\ r.method \in Methods \cup {"none"}
  BY DEF ARequest
<1>2. ASSUME UNCHANGED <<stream, output>> PROVE Started(d)'
  BY <1>2, StartedSame
<1>3. ASSUME NEW ok \in BOOLEAN, Write(c, Reply(r.id, r.method, ok)),
             \A e \in Conns \ {c} : stream'[e] = stream[e],
             \/ stream' = stream
             \/ stream'[c] = "ready" /\ r.method = "SETUP" /\ ok
      PROVE  Started(d)'
  <2> DEFINE u == Reply(r.id, r.method, ok)
  <2>1. /\ u \in Outputs /\ u.kind = "reply"
        /\ r.method = "SETUP" /\ ok => Grants(u, "SETUP")
    BY <1>1, ReplyMade DEF Reply, Grants
  <2>2. CASE d = c
    <3> HIDE DEF u
    <3> QED BY <1>3, <2>1, <2>2, StartedReply DEF u
  <2>3. CASE d # c
    <3>1. output'[d] = output[d]
      BY <1>3, <2>3 DEF Write, Typed, BufferTyped
    <3> QED BY <1>3, <2>3, <3>1, StartedSame
  <2> QED BY <2>2, <2>3
<1>4. CASE DealPlay(c, r)
  BY <1>2, <1>4 DEF DealPlay
<1>5. CASE DealOther(c, r)
  <2>1. PICK found \in BOOLEAN : Write(c, Reply(r.id, r.method, found))
    BY <1>5 DEF DealOther
  <2>2. stream' = stream
    BY <1>5 DEF DealOther
  <2> QED BY <1>3, <2>1, <2>2
<1>6. CASE DealSetup(c, r) /\ state'[c] = "crashed"
  BY <1>2, <1>6 DEF DealSetup
<1>7. CASE DealSetup(c, r) /\ state'[c] # "crashed"
  <2>1. /\ stream' = [stream EXCEPT ![c] = "ready"] /\ r.method = "SETUP"
        /\ Write(c, Reply(r.id, r.method, TRUE))
    BY <1>7 DEF DealSetup, Type
  <2>2. /\ stream'[c] = "ready"
        /\ \A e \in Conns \ {c} : stream'[e] = stream[e]
    BY <2>1 DEF Typed, SessionTyped
  <2> QED BY <1>3, <2>1, <2>2
<1> QED BY <1>4, <1>5, <1>6, <1>7

LEMMA ClientStarted ==
  ASSUME Typed, \A d \in Conns : Started(d), NEW c \in Conns,
         \/ \E m \in Methods : SendRequest(c, m)
         \/ SendTail(c) \/ SendRtcp(c) \/ Hangup(c),
         NEW d \in Conns
  PROVE  Started(d)'
<1>1. client \in [Conns -> Client] /\ client[c] \in Client
  BY DEF Typed, ClientTyped
<1>2. client'[d].ok = client[d].ok
  <2>1. CASE \E m \in Methods : SendRequest(c, m)
    <3>1. PICK split \in {FALSE, Splits} :
            client' = [client EXCEPT ![c].nreq = client[c].nreq + 1,
                                     ![c].tail = split]
      BY <2>1 DEF SendRequest
    <3>2. client' = [client EXCEPT
            ![c] = [client[c] EXCEPT !.nreq = client[c].nreq + 1,
                                     !.tail = split]]
      BY <3>1
    <3> QED BY <1>1, <3>2 DEF Client
  <2>2. CASE SendTail(c)
    <3>1. client' = [client EXCEPT ![c] = [client[c] EXCEPT !.tail = FALSE]]
      BY <2>2 DEF SendTail
    <3> QED BY <1>1, <3>1 DEF Client
  <2>3. CASE SendRtcp(c)
    <3>1. client' = [client EXCEPT
            ![c] = [client[c] EXCEPT !.nrtcp = client[c].nrtcp + 1]]
      BY <2>3 DEF SendRtcp
    <3> QED BY <1>1, <3>1 DEF Client
  <2>4. CASE Hangup(c)
    <3>1. client' = [client EXCEPT ![c] = [client[c] EXCEPT !.closed = TRUE]]
      BY <2>4 DEF Hangup
    <3> QED BY <1>1, <3>1 DEF Client
  <2> QED BY <2>1, <2>2, <2>3, <2>4
<1>3. UNCHANGED <<session, bufev>>
  BY DEF SendRequest, SendTail, SendRtcp, Hangup
<1> QED BY <1>2, <1>3, StartedSame DEF session, bufev

LEMMA ConnectStarted ==
  ASSUME Typed, \A d \in Conns : Started(d), NEW c \in Conns,
         Connect(c) \/ Disconnect(c), NEW d \in Conns
  PROVE  Started(d)'
<1>1. CASE Connect(c)
  BY <1>1, StartedSame DEF Connect
<1>2. CASE Disconnect(c) /\ d = c
  <2>1. stream'[c] = "none" /\ output'[c] = <<>>
    BY <1>2 DEF Disconnect, Typed, SessionTyped, BufferTyped
  <2> QED BY <1>2, <2>1 DEF Started, PacketFirst
<1>3. CASE Disconnect(c) /\ d # c
  <2>1. /\ output'[d] = output[d] /\ stream'[d] = stream[d]
        /\ client'[d] = client[d]
    BY <1>3 DEF Disconnect, Typed, SessionTyped, BufferTyped, ClientTyped
  <2> QED BY <2>1, StartedSame
<1> QED BY <1>1, <1>2, <1>3

LEMMA NextStarted ==
  Typed /\ Chain /\ Numbers /\ (\A d \in Conns : Started(d)) /\ [Next]_vars
    => (\A d \in Conns : Started(d))'
<1> SUFFICES ASSUME Typed, Chain, Numbers, \A d \in Conns : Started(d),
                    [Next]_vars, NEW d \in Conns
             PROVE  Started(d)'
  OBVIOUS
<1>1. CASE UNCHANGED vars
  BY <1>1, StartedSame DEF vars, session, bufev
<1>2. ASSUME NEW c \in Conns, Recv(c) PROVE Started(d)'
  <2>1. PICK text \in Seq(Unit) : DealRtsp(c, text)
    BY <1>2, RecvText
  <2>2. UNCHANGED client
    BY <1>2 DEF Recv
  <2>3. CASE Complete(text)
    <3>1. PICK r \in Request(text) :
                 DealSetup(c, r) \/ DealPlay(c, r) \/ DealOther(c, r)
      BY <2>1, <2>3 DEF DealRtsp
    <3>2. r \in ARequest
      BY <2>3, RequestIsTyped
    <3> QED BY <2>2, <3>1, <3>2, DealRtspStarted
  <2>4. CASE ~ Complete(text)
    BY <2>1, <2>2, <2>4, StartedSame DEF DealRtsp
  <2> QED BY <2>3, <2>4
<1>3. ASSUME NEW c \in Conns,
             \/ \E m \in Methods : SendRequest(c, m)
             \/ SendTail(c) \/ SendRtcp(c) \/ Hangup(c)
      PROVE  Started(d)'
  BY <1>3, ClientStarted
<1>4. ASSUME NEW c \in Conns,
             \/ Connect(c) \/ Disconnect(c)
             \/ WriteReady(c) \/ TCPForH264(c)
      PROVE  Started(d)'
  BY <1>4, ConnectStarted, WriteReadyStarted, TCPForH264Started
<1> QED BY <1>1, <1>2, <1>3, <1>4 DEF Next

LEMMA StartedOrdered ==
  ASSUME Typed, Numbers, \A d \in Conns : Started(d)
  PROVE  NoPacketBeforePlay
<1> SUFFICES ASSUME NEW c \in Conns, NEW i \in DOMAIN output[c],
                    output[c][i].kind = "rtp"
             PROVE
      /\ \/ "PLAY" \in client[c].ok
         \/ \E j \in 1 .. i - 1 : Grants(output[c][j], "PLAY")
      /\ \A j \in 1 .. i - 1 : Grants(output[c][j], "SETUP") =>
           \E k \in j + 1 .. i - 1 : Grants(output[c][k], "PLAY")
      /\ stream[c] = "ready" =>
           \E j \in i + 1 .. Len(output[c]) : Grants(output[c][j], "SETUP")
  BY DEF NoPacketBeforePlay
<1>1. output[c] \in Seq(Outputs) /\ InOrder(output[c], client[c].seq)
  BY DEF Typed, BufferTyped, Numbers, Numbered
<1>2. i = 1 /\ PacketFirst(output[c])
  BY <1>1 DEF InOrder, PacketFirst
<1>3. "PLAY" \in client[c].ok
  BY <1>2 DEF Started
<1>4. ASSUME stream[c] = "ready"
      PROVE  \E j \in i + 1 .. Len(output[c]) : Grants(output[c][j], "SETUP")
  <2>1. PICK j \in DOMAIN output[c] : Grants(output[c][j], "SETUP")
    BY <1>2, <1>4 DEF Started, Holds
  <2>2. j # 1
    BY <1>2, <2>1 DEF PacketFirst, Grants
  <2>3. j \in i + 1 .. Len(output[c])
    BY <1>1, <1>2, <2>2
  <2> QED BY <2>1, <2>3
<1> QED BY <1>2, <1>3, <1>4

(* In whatever order the requests of any number of clients come: none gets *)
(* a packet before the reply to a PLAY, nor between the replies to a SETUP *)
(* and the next PLAY.                                                      *)
THEOREM PacketsFollowPlay == Spec => []NoPacketBeforePlay
<1>1. Init => (\A d \in Conns : Started(d))
  BY DEF Init, Started, PacketFirst
<1>2. Typed /\ Numbers /\ (\A d \in Conns : Started(d)) => NoPacketBeforePlay
  BY StartedOrdered
<1>3. Spec => [](Typed /\ Chain /\ FileFacts /\ Stuck /\ Numbers)
  BY InitNumbers, NextTyped, NextChain, NextFile, NextStuck, NextNumbers, PTL
     DEF Spec
<1> QED BY <1>1, <1>2, <1>3, NextStarted, PTL DEF Spec

-----------------------------------------------------------------------------
(* Replies come in the order of the requests, for any number of clients of *)
(* any kind: what is on the way from a client is in the order it was sent, *)
(* through the wire, libevent's input and the text that DealRtsp collects, *)
(* whatever is thrown away between them; and nothing of it is older than   *)
(* what was answered.                                                      *)

(* The unit belongs to a later request than id, or is the tail of id's.    *)
AfterId(u, id) ==
  u.part # "rtcp" => IF u.part = "tail" THEN u.id >= id ELSE u.id > id

Later(u, v) == u.part # "rtcp" => AfterId(v, u.id)

Sorted(s) == \A i, j \in DOMAIN s : i < j => Later(s[i], s[j])
Precedes(s, t) == \A u \in Range(s), v \in Range(t) : Later(u, v)

(* a, b and w are one stream of units, of at most n requests, none before  *)
(* the ids that were answered.                                             *)
Queued(a, b, w, n, ids) ==
  /\ Sorted(a) /\ Sorted(b) /\ Sorted(w)
  /\ Precedes(a, b) /\ Precedes(a, w) /\ Precedes(b, w)
  /\ \A u \in Range(a) : u.part # "rtcp"
  /\ \A u \in Range(a) \cup Range(b) \cup Range(w) :
       u.id <= n /\ \A id \in ids : AfterId(u, id)
  /\ \A id \in ids : id <= n

-----------------------------------------------------------------------------
(* Sequences of units.                                                     *)

LEMMA RangeUnits ==
  ASSUME NEW s \in Seq(Unit)
  PROVE  \A u \in Range(s) : /\ u.id \in Nat
                             /\ u.part \in {"all", "head", "tail", "rtcp"}
<1> SUFFICES ASSUME NEW i \in DOMAIN s
             PROVE  /\ s[i].id \in Nat
                    /\ s[i].part \in {"all", "head", "tail", "rtcp"}
  BY DEF Range
<1>1. s[i] \in Unit
  OBVIOUS
<1> QED BY <1>1, RtspSessionAssumption DEF Unit

LEMMA RangePieces ==
  ASSUME NEW s \in Seq(Unit), NEW m \in Nat, NEW n \in 0 .. Len(s)
  PROVE  Range(SubSeq(s, m + 1, n)) \subseteq Range(s)
<1> DEFINE t == SubSeq(s, m + 1, n)
<1>1. \A i \in DOMAIN t : i + m \in DOMAIN s /\ t[i] = s[i + m]
  OBVIOUS
<1> HIDE DEF t
<1>2. Range(t) \subseteq Range(s)
  BY <1>1 DEF Range
<1> QED BY <1>2 DEF t

LEMMA RangeConcat ==
  ASSUME NEW s \in Seq(Unit), NEW t \in Seq(Unit)
  PROVE  Range(s \o t) \subseteq Range(s) \cup Range(t)
<1> DEFINE r == s \o t
<1>1. \A i \in DOMAIN r : \/ i \in DOMAIN s /\ r[i] = s[i]
                          \/ i - Len(s) \in DOMAIN t /\ r[i] = t[i - Len(s)]
  OBVIOUS
<1> HIDE DEF r
<1>2. Range(r) \subseteq Range(s) \cup Range(t)
  BY <1>1 DEF Range
<1> QED BY <1>2 DEF r

LEMMA RangeAppend ==
  ASSUME NEW s \in Seq(Unit), NEW u \in Unit
  PROVE  Range(Append(s, u)) = Range(s) \cup {u}
<1> DEFINE t == Append(s, u)
<1>1. /\ DOMAIN t = DOMAIN s \cup {Len(s) + 1} /\ t[Len(s) + 1] = u
      /\ \A i \in DOMAIN s : t[i] = s[i]
  OBVIOUS
<1> HIDE DEF t
<1>2. Range(t) = Range(s) \cup {u}
  BY <1>1 DEF Range
<1> QED BY <1>2 DEF t

LEMMA SortedPieces ==
  ASSUME NEW s \in Seq(Unit), Sorted(s), NEW m \in Nat, NEW n \in 0 .. Len(s)
  PROVE  Sorted(SubSeq(s, m + 1, n))
<1> DEFINE t == SubSeq(s, m + 1, n)
<1>1. \A i \in DOMAIN t : i \in Nat /\ i + m \in DOMAIN s /\ t[i] = s[i + m]
  OBVIOUS
<1> HIDE DEF t
<1>2. Sorted(t)
  BY <1>1 DEF Sorted
<1> QED BY <1>2 DEF t

LEMMA SplitPrecedes ==
  ASSUME NEW s \in Seq(Unit), Sorted(s),
         NEW m \in 0 .. Len(s), NEW k \in 0 .. m
  PROVE  Precedes(SubSeq(s, 1, k), SubSeq(s, m + 1, Len(s)))
<1> DEFINE t == SubSeq(s, 1, k)
           r == SubSeq(s, m + 1, Len(s))
<1>1. \A i \in DOMAIN t : i \in DOMAIN s /\ i \in Nat /\ i <= m /\ t[i] = s[i]
  OBVIOUS
<1>2. \A i \in DOMAIN r : i + m \in DOMAIN s /\ i + m > m /\ r[i] = s[i + m]
  OBVIOUS
<1> HIDE DEF t, r
<1>3. \A i \in DOMAIN t, j \in DOMAIN r : Later(t[i], r[j])
  BY <1>1, <1>2 DEF Sorted
<1>4. Precedes(t, r)
  BY <1>3 DEF Precedes, Range
<1> QED BY <1>4 DEF t, r

LEMMA SortedConcat ==
  ASSUME NEW s \in Seq(Unit), NEW t \in Seq(Unit),
         Sorted(s), Sorted(t), Precedes(s, t)
  PROVE  Sorted(s \o t)
<1> DEFINE r == s \o t
<1>1. \A i \in DOMAIN r :
        /\ i \in Nat
        /\ \/ i \in DOMAIN s /\ i <= Len(s) /\ r[i] = s[i]
           \/ /\ i - Len(s) \in DOMAIN t /\ i > Len(s)
              /\ r[i] = t[i - Len(s)]
  OBVIOUS
<1>2. Len(s) \in Nat
  OBVIOUS
<1> HIDE DEF r
<1>3. ASSUME NEW i \in DOMAIN r, NEW j \in DOMAIN r, i < j
      PROVE  Later(r[i], r[j])
  <2>1. CASE i <= Len(s) /\ j <= Len(s)
    <3>1. i \in DOMAIN s /\ j \in DOMAIN s /\ r[i] = s[i] /\ r[j] = s[j]
      BY <1>1, <1>2, <2>1
    <3> QED BY <3>1, <1>3 DEF Sorted
  <2>2. CASE i <= Len(s) /\ j > Len(s)
    <3>1. r[i] \in Range(s) /\ r[j] \in Range(t)
      BY <1>1, <1>2, <2>2 DEF Range
    <3> QED BY <3>1 DEF Precedes
  <2>3. CASE i > Len(s) /\ j > Len(s)
    <3>1. /\ i - Len(s) \in DOMAIN t /\ r[i] = t[i - Len(s)]
          /\ j - Len(s) \in DOMAIN t /\ r[j] = t[j - Len(s)]
          /\ i - Len(s) < j - Len(s)
      BY <1>1, <1>2, <1>3, <2>3
    <3> QED BY <3>1 DEF Sorted
  <2> QED BY <1>1, <1>2, <1>3, <2>1, <2>2, <2>3
<1>4. Sorted(r)
  BY <1>3 DEF Sorted
<1> QED BY <1>4 DEF r

LEMMA SortedAppend ==
  ASSUME NEW s \in Seq(Unit), Sorted(s), NEW u \in Unit,
         \A v \in Range(s) : Later(v, u)
  PROVE  Sorted(Append(s, u))
<1> DEFINE t == Append(s, u)
<1>1. /\ DOMAIN t = 1 .. Len(s) + 1 /\ DOMAIN s = 1 .. Len(s)
      /\ Len(s) \in Nat /\ t[Len(s) + 1] = u
      /\ \A i \in DOMAIN s : t[i] = s[i]
  OBVIOUS
<1> HIDE DEF t
<1>2. ASSUME NEW i \in DOMAIN t, NEW j \in DOMAIN t, i < j
      PROVE  Later(t[i], t[j])
  <2>1. i \in DOMAIN s /\ t[i] = s[i] /\ t[i] \in Range(s)
    BY <1>1, <1>2 DEF Range
  <2>2. j \in DOMAIN s \/ j = Len(s) + 1
    BY <1>1
  <2> QED BY <1>1, <1>2, <2>1, <2>2 DEF Sorted
<1>3. Sorted(t)
  BY <1>2 DEF Sorted
<1> QED BY <1>3 DEF t
-----------------------------------------------------------------------------
(* What a client sends comes last, what is received keeps its order.       *)

LEMMA Sent ==
  ASSUME NEW a \in Seq(Unit), NEW b \in Seq(Unit), NEW w \in Seq(Unit),
         NEW n \in Nat, NEW m \in Nat, NEW ids \in SUBSET Nat, n <= m,
         Queued(a, b, w, n, ids),
         NEW u \in Unit, u.id <= m, u.part # "rtcp" => u.id = m,
         u.part # "tail" /\ u.part # "rtcp" => m > n
  PROVE  Queued(a, b, Append(w, u), m, ids)
<1> DEFINE old == Range(a) \cup Range(b) \cup Range(w)
<1>1. /\ \A v \in old : v.id \in Nat /\ v.id <= n
      /\ \A id \in ids : id \in Nat /\ id <= n
      /\ u.id \in Nat
  <2>1. \A v \in old : v.id \in Nat
    BY RangeUnits
  <2>2. u.id \in Nat
    BY RtspSessionAssumption DEF Unit
  <2>3. (\A v \in old : v.id <= n) /\ (\A id \in ids : id <= n)
    BY DEF Queued
  <2> QED BY <2>1, <2>2, <2>3
<1>2. \A v \in old : Later(v, u)
  BY <1>1 DEF Later, AfterId
<1>3. \A id \in ids : AfterId(u, id)
  BY <1>1 DEF AfterId
<1>4. Range(Append(w, u)) = Range(w) \cup {u}
  BY RangeAppend
<1>5. Sorted(Append(w, u))
  BY <1>2, SortedAppend DEF Queued
<1>6. Precedes(a, Append(w, u)) /\ Precedes(b, Append(w, u))
  BY <1>2, <1>4 DEF Queued, Precedes
<1>7. \A v \in Range(a) \cup Range(b) \cup Range(Append(w, u)) :
        v.id <= m /\ \A id \in ids : AfterId(v, id)
  <2>1. \A v \in old : v.id <= m /\ \A id \in ids : AfterId(v, id)
    BY <1>1 DEF Queued
  <2> QED BY <2>1, <1>3, <1>4
<1>8. \A id \in ids : id <= m
  BY <1>1
<1> QED BY <1>5, <1>6, <1>7, <1>8 DEF Queued

(* What was answered grows by an id that everything queued comes after.    *)
LEMMA AnsweredMore ==
  ASSUME NEW a, NEW b, NEW w, NEW n, NEW ids, NEW more,
         Queued(a, b, w, n, ids),
         \A id \in more : \/ id \in ids
                         \/ /\ id <= n
                            /\ \A u \in Range(a) \cup Range(b) \cup Range(w) :
                                 AfterId(u, id)
  PROVE  Queued(a, b, w, n, more)
BY DEF Queued

(* Recv: some of the wire joins the input, a chunk of the input is taken   *)
(* out, and the front of the chunk joins the text.                         *)
LEMMA Received ==
  ASSUME NEW a \in Seq(Unit), NEW b \in Seq(Unit), NEW w \in Seq(Unit),
         NEW n \in Nat, NEW ids, Queued(a, b, w, n, ids),
         NEW m \in 0 .. Len(w),
         NEW in, in = b \o SubSeq(w, 1, m),
         NEW p \in 0 .. Len(in), NEW k \in 0 .. p,
         \A i \in 1 .. k : in[i].part # "rtcp"
  PROVE  LET text == a \o SubSeq(in, 1, k)
             b2 == SubSeq(in, p + 1, Len(in))
             w2 == SubSeq(w, m + 1, Len(w))
         IN  Queued(text, b2, w2, n, ids)
<1> DEFINE w1 == SubSeq(w, 1, m)
           w2 == SubSeq(w, m + 1, Len(w))
           t  == SubSeq(in, 1, k)
           b2 == SubSeq(in, p + 1, Len(in))
<1>1. /\ Sorted(a) /\ Sorted(b) /\ Sorted(w)
      /\ Precedes(a, b) /\ Precedes(a, w) /\ Precedes(b, w)
  BY DEF Queued
<1>2. /\ w1 \in Seq(Unit) /\ w2 \in Seq(Unit)
      /\ Range(w1) \subseteq Range(w) /\ Range(w2) \subseteq Range(w)
      /\ Sorted(w1) /\ Sorted(w2)
  <2>1. w1 \in Seq(Unit) /\ w2 \in Seq(Unit)
    BY Pieces
  <2>2. w1 = SubSeq(w, 0 + 1, m) /\ Len(w) \in 0 .. Len(w)
    OBVIOUS
  <2>3. Range(w1) \subseteq Range(w) /\ Sorted(w1)
    BY <1>1, <2>2, RangePieces, SortedPieces
  <2>4. Range(w2) \subseteq Range(w) /\ Sorted(w2)
    BY <1>1, <2>2, RangePieces, SortedPieces
  <2> QED BY <2>1, <2>3, <2>4
<1>3. Precedes(w1, w2)
  BY <1>1, SplitPrecedes
<1> HIDE DEF w1, w2
<1>4. /\ in \in Seq(Unit) /\ Sorted(in) /\ Range(in) \subseteq Range(b) \cup Range(w1)
  <2>1. in = b \o w1
    BY DEF w1
  <2>2. Precedes(b, w1)
    BY <1>1, <1>2 DEF Precedes
  <2>3. b \o w1 \in Seq(Unit)
    BY <1>2
  <2>4. Sorted(b \o w1)
    BY <1>1, <1>2, <2>2, SortedConcat
  <2>5. Range(b \o w1) \subseteq Range(b) \cup Range(w1)
    BY <1>2, RangeConcat
  <2> QED BY <2>1, <2>3, <2>4, <2>5
<1>5. Precedes(a, in) /\ Precedes(in, w2)
  BY <1>1, <1>2, <1>3, <1>4 DEF Precedes
<1>6. /\ t \in Seq(Unit) /\ b2 \in Seq(Unit)
      /\ Range(t) \subseteq Range(in) /\ Range(b2) \subseteq Range(in)
      /\ Sorted(t) /\ Sorted(b2)
  <2>1. t \in Seq(Unit) /\ b2 \in Seq(Unit)
    BY <1>4
  <2>2. t = SubSeq(in, 0 + 1, k) /\ k \in 0 .. Len(in) /\ p \in Nat
        /\ Len(in) \in 0 .. Len(in)
    BY <1>4
  <2>3. Range(t) \subseteq Range(in) /\ Sorted(t)
    BY <1>4, <2>2, RangePieces, SortedPieces
  <2>4. Range(b2) \subseteq Range(in) /\ Sorted(b2)
    BY <1>4, <2>2, RangePieces, SortedPieces
  <2> QED BY <2>1, <2>3, <2>4
<1>7. Precedes(t, b2)
  BY <1>4, SplitPrecedes
<1>8. \A u \in Range(t) : u.part # "rtcp"
  <2>1. k \in Nat /\ k <= Len(in)
    BY <1>4
  <2>2. \A i \in DOMAIN t : i \in 1 .. k /\ t[i] = in[i]
    BY <1>4, <2>1
  <2> HIDE DEF t
  <2> QED BY <2>2 DEF Range
<1> HIDE DEF t, b2
<1>9. Sorted(a \o t) /\ Range(a \o t) \subseteq Range(a) \cup Range(t)
  <2>1. Precedes(a, t)
    BY <1>5, <1>6 DEF Precedes
  <2> QED BY <1>1, <1>6, <2>1, SortedConcat, RangeConcat
<1> DEFINE text == a \o t
<1> HIDE DEF text
<1>10. /\ Precedes(text, b2) /\ Precedes(text, w2) /\ Precedes(b2, w2)
  <2>1. Range(text) \subseteq Range(a) \cup Range(t)
    BY <1>9 DEF text
  <2>2. Precedes(a, b2) /\ Precedes(a, w2) /\ Precedes(t, w2)
    BY <1>1, <1>2, <1>5, <1>6 DEF Precedes
  <2>3. Precedes(b2, w2)
    BY <1>5, <1>6 DEF Precedes
  <2>4. Precedes(text, b2)
    BY <1>7, <2>1, <2>2 DEF Precedes
  <2>5. Precedes(text, w2)
    BY <2>1, <2>2 DEF Precedes
  <2> QED BY <2>3, <2>4, <2>5
<1>11. \A u \in Range(text) : u.part # "rtcp"
  BY <1>8, <1>9 DEF text, Queued
<1>12. Range(text) \cup Range(b2) \cup Range(w2)
         \subseteq Range(a) \cup Range(b) \cup Range(w)
  BY <1>2, <1>4, <1>6, <1>9 DEF text
<1>13. Queued(text, b2, w2, n, ids)
  BY <1>2, <1>6, <1>9, <1>10, <1>11, <1>12 DEF text, Queued
<1> QED BY <1>13 DEF text, t, b2, w2

Among(s, units) == Range(s) \subseteq units

(* No unit comes from anywhere else.                                       *)
LEMMA ReceivedUnits ==
  ASSUME NEW a \in Seq(Unit), NEW b \in Seq(Unit), NEW w \in Seq(Unit),
         NEW m \in 0 .. Len(w),
         NEW in, in = b \o SubSeq(w, 1, m),
         NEW p \in 0 .. Len(in), NEW k \in 0 .. p,
         NEW all, all = Range(a) \cup Range(b) \cup Range(w)
  PROVE  /\ Among(a \o SubSeq(in, 1, k), all)
         /\ Among(SubSeq(in, p + 1, Len(in)), all)
         /\ Among(SubSeq(w, m + 1, Len(w)), all)
<1> DEFINE w1 == SubSeq(w, 1, m)
           w2 == SubSeq(w, m + 1, Len(w))
           t  == SubSeq(in, 1, k)
           b2 == SubSeq(in, p + 1, Len(in))
<1>1. w1 \in Seq(Unit) /\ w1 = SubSeq(w, 0 + 1, m)
      /\ Len(w) \in 0 .. Len(w) /\ m \in Nat
  BY Pieces
<1>2. Range(w1) \subseteq Range(w) /\ Range(w2) \subseteq Range(w)
  BY <1>1, RangePieces
<1> HIDE DEF w1, w2
<1>3. in \in Seq(Unit) /\ Range(in) \subseteq Range(b) \cup Range(w1)
  <2>1. w1 \in Seq(Unit)
    BY <1>1
  <2>2. in = b \o w1
    BY DEF w1
  <2>3. b \o w1 \in Seq(Unit)
    BY <2>1
  <2>4. Range(b \o w1) \subseteq Range(b) \cup Range(w1)
    BY <2>1, RangeConcat
  <2> QED BY <2>2, <2>3, <2>4
<1>4. t \in Seq(Unit) /\ t = SubSeq(in, 0 + 1, k)
      /\ k \in 0 .. Len(in) /\ Len(in) \in 0 .. Len(in) /\ p \in Nat
  BY <1>3
<1>5. Range(t) \subseteq Range(in) /\ Range(b2) \subseteq Range(in)
  BY <1>3, <1>4, RangePieces
<1> HIDE DEF t, b2
<1>6. Range(a \o t) \subseteq Range(a) \cup Range(t)
  <2>1. t \in Seq(Unit)
    BY <1>4
  <2> QED BY <2>1, RangeConcat
<1>7. /\ Range(a \o t) \subseteq all
      /\ Range(b2) \subseteq all /\ Range(w2) \subseteq all
  BY <1>2, <1>3, <1>5, <1>6
<1> QED BY <1>7 DEF t, b2, w2, Among

(* DealRtsp answers a unit of the text: everything that was answered is    *)
(* older, everything that is still queued is younger.                      *)
Follows(u, id) == IF u.method = "none" THEN u.id >= id ELSE u.id > id

LEMMA RequestTaken ==
  ASSUME NEW text \in Seq(Unit), Complete(text), NEW r \in Request(text),
         NEW b, NEW w, NEW n, NEW ids \in SUBSET Nat,
         Queued(text, b, w, n, ids)
  PROVE  /\ \A id \in ids : Follows(r, id)
         /\ Queued(<<>>, b, w, n, ids \cup {r.id})
<1>1. PICK x \in Range(text) :
        r.id = x.id /\ (x.part = "tail" => r.method = "none")
  <2>1. CASE FirstLine(text) = {}
    <3>1. text # <<>> /\ text[1] \in Range(text)
      <4>1. PICK i \in DOMAIN text : text[i].part \in {"all", "tail"}
        BY DEF Complete
      <4>2. 1 \in DOMAIN text
        BY <4>1
      <4> QED BY <4>2 DEF Range
    <3>2. r.id = text[1].id /\ r.method = "none"
      BY <2>1 DEF Request
    <3> QED BY <3>1, <3>2
  <2>2. CASE FirstLine(text) # {}
    <3>1. PICK i \in FirstLine(text) : r = [id |-> text[i].id,
                                            method |-> text[i].method]
      BY <2>2 DEF Request
    <3>2. text[i] \in Range(text) /\ text[i].part # "tail"
      BY DEF FirstLine, Range
    <3> QED BY <3>1, <3>2
  <2> QED BY <2>1, <2>2
<1>2. x.part # "rtcp" /\ x.id <= n
  BY DEF Queued
<1>3. \A id \in ids : Follows(r, id)
  <2>1. x.id \in Nat /\ \A id \in ids : id \in Nat /\ AfterId(x, id)
    BY RangeUnits DEF Queued
  <2> QED BY <1>1, <1>2, <2>1 DEF AfterId, Follows
<1>4. \A v \in Range(b) \cup Range(w) : AfterId(v, r.id)
  BY <1>1, <1>2 DEF Queued, Precedes, Later
<1>5. Range(<<>>) = {} /\ Sorted(<<>>)
  BY DEF Range, Sorted
<1>6. \A id \in ids \cup {r.id} : id <= n
  BY <1>1, <1>2 DEF Queued
<1>7. Precedes(<<>>, b) /\ Precedes(<<>>, w)
  BY <1>5 DEF Precedes
<1> QED BY <1>3, <1>4, <1>5, <1>6, <1>7 DEF Queued
-----------------------------------------------------------------------------
(* Replies in an output, and the ones a connection has got or will get.    *)

ReplyIds(s) == {s[i].id : i \in {j \in DOMAIN s : s[j].kind = "reply"}}

OrderedReplies(s, r) ==
  \A i \in DOMAIN s : s[i].kind = "reply" =>
    /\ Follows(s[i], r)
    /\ \A j \in 1 .. i - 1 : s[j].kind = "reply" => Follows(s[i], s[j].id)

LEMMA AppendUnit ==
  ASSUME NEW s \in Seq(Outputs), NEW u \in Outputs, NEW r,
         OrderedReplies(s, r),
         u.kind = "reply" =>
           Follows(u, r) /\ \A id \in ReplyIds(s) : Follows(u, id)
  PROVE  /\ OrderedReplies(Append(s, u), r)
         /\ ReplyIds(Append(s, u)) =
              ReplyIds(s) \cup (IF u.kind = "reply" THEN {u.id} ELSE {})
<1> DEFINE t == Append(s, u)
<1>1. /\ DOMAIN t = 1 .. Len(s) + 1 /\ DOMAIN s = 1 .. Len(s)
      /\ Len(s) \in Nat /\ t[Len(s) + 1] = u
      /\ \A i \in DOMAIN s : t[i] = s[i]
  OBVIOUS
<1> HIDE DEF t
<1>2. ReplyIds(t) = ReplyIds(s) \cup (IF u.kind = "reply" THEN {u.id} ELSE {})
  BY <1>1 DEF ReplyIds
<1>3. ASSUME NEW i \in DOMAIN t, t[i].kind = "reply"
      PROVE  /\ Follows(t[i], r)
             /\ \A j \in 1 .. i - 1 : t[j].kind = "reply" =>
                                      Follows(t[i], t[j].id)
  <2>1. CASE i \in DOMAIN s
    <3>1. /\ t[i] = s[i]
          /\ \A j \in 1 .. i - 1 : j \in DOMAIN s /\ t[j] = s[j]
      BY <1>1, <2>1
    <3> QED BY <3>1, <1>3, <2>1 DEF OrderedReplies
  <2>2. CASE i = Len(s) + 1
    <3>1. t[i] = u /\ \A j \in 1 .. i - 1 : j \in DOMAIN s /\ t[j] = s[j]
      BY <1>1, <2>2
    <3> QED BY <3>1, <1>3 DEF ReplyIds
  <2> QED BY <1>1, <2>1, <2>2
<1>4. OrderedReplies(t, r)
  BY <1>3 DEF OrderedReplies
<1> QED BY <1>2, <1>4 DEF t

LEMMA FirstReceived ==
  ASSUME NEW s \in Seq(Outputs), s # <<>>, NEW q \in Client,
         OrderedReplies(s, q.reply)
  PROVE  LET k == Receive(q, Head(s))
         IN  /\ k.nreq = q.nreq
             /\ OrderedReplies(Tail(s), k.reply)
             /\ {k.reply} \cup ReplyIds(Tail(s))
                  \subseteq {q.reply} \cup ReplyIds(s)
<1> DEFINE t == Tail(s)
           k == Receive(q, Head(s))
<1>1. /\ DOMAIN s = 1 .. Len(s) /\ DOMAIN t = 1 .. Len(s) - 1
      /\ Len(s) \in Nat \ {0} /\ Head(s) = s[1] /\ s[1] \in Outputs
      /\ \A i \in DOMAIN t : t[i] = s[i + 1] /\ i + 1 \in DOMAIN s
  OBVIOUS
<1> HIDE DEF t
<1>2. /\ k.nreq = q.nreq
      /\ k.reply = IF s[1].kind = "reply" THEN s[1].id ELSE q.reply
  <2>1. CASE s[1].kind = "rtp"
    BY <1>1, <2>1 DEF Receive, Client
  <2>2. CASE s[1].kind = "reply"
    BY <1>1, <2>2 DEF Receive, Client
  <2> QED BY <1>1, <2>1, <2>2, OutputKinds
<1> HIDE DEF k
<1>3. ReplyIds(t) \subseteq ReplyIds(s)
  BY <1>1 DEF ReplyIds
<1>4. k.reply \in {q.reply} \cup ReplyIds(s)
  BY <1>1, <1>2 DEF ReplyIds
<1>5. ASSUME NEW i \in DOMAIN t, t[i].kind = "reply"
      PROVE  /\ Follows(t[i], k.reply)
             /\ \A j \in 1 .. i - 1 : t[j].kind = "reply" =>
                                      Follows(t[i], t[j].id)
  <2>1. t[i] = s[i + 1] /\ i + 1 \in DOMAIN s /\ 1 \in 1 .. i /\ i \in Nat
    BY <1>1
  <2>2. /\ Follows(s[i + 1], q.reply)
        /\ \A j \in 1 .. i : s[j].kind = "reply" => Follows(s[i + 1], s[j].id)
    BY <1>5, <2>1 DEF OrderedReplies
  <2>3. \A j \in 1 .. i - 1 : t[j] = s[j + 1] /\ j + 1 \in 1 .. i
    BY <1>1, <2>1
  <2> QED BY <1>2, <2>1, <2>2, <2>3
<1>6. OrderedReplies(t, k.reply)
  BY <1>5 DEF OrderedReplies
<1> QED BY <1>2, <1>3, <1>4, <1>6 DEF t, k

Got(c) == {client[c].reply} \cup ReplyIds(output[c])
Playing(c) == busy = c /\ task # Sending
Answered(c) == Got(c) \cup (IF Playing(c) THEN {task} ELSE {})

InTurn(c) ==
  /\ Queued(rtspinc[c], input[c], wire[c], client[c].nreq, Answered(c))
  /\ OrderedReplies(output[c], client[c].reply)
  /\ Playing(c) => \A id \in Got(c) : task > id

Turns == \A c \in Conns : InTurn(c)

LEMMA AnsweredNat ==
  ASSUME Typed, NEW c \in Conns
  PROVE  /\ Answered(c) \in SUBSET Nat
         /\ client[c] \in Client /\ client[c].nreq \in Nat
         /\ rtspinc[c] \in Seq(Unit) /\ input[c] \in Seq(Unit)
         /\ wire[c] \in Seq(Unit) /\ output[c] \in Seq(Outputs)
<1>1. /\ client[c] \in Client /\ rtspinc[c] \in Seq(Unit)
      /\ input[c] \in Seq(Unit) /\ wire[c] \in Seq(Unit)
      /\ output[c] \in Seq(Outputs)
  BY DEF Typed, SessionTyped, BufferTyped, ClientTyped
<1>2. client[c].nreq \in Nat /\ client[c].reply \in Nat
  BY <1>1, RtspSessionAssumption DEF Client
<1>3. ReplyIds(output[c]) \subseteq Nat
  <2> SUFFICES ASSUME NEW i \in DOMAIN output[c], output[c][i].kind = "reply"
               PROVE  output[c][i].id \in Nat
    BY DEF ReplyIds
  <2>1. output[c][i] \in Outputs
    BY <1>1
  <2>2. output[c][i] \in Replies
    BY <2>1 DEF Outputs, Packets
  <2> QED BY <2>2, RtspSessionAssumption DEF Replies
<1>4. Playing(c) => task \in Nat
  BY RtspSessionAssumption DEF Playing, Typed, ServerTyped, Sending
<1> QED BY <1>1, <1>2, <1>3, <1>4 DEF Answered, Got

(* A step that leaves a connection alone.                                  *)
LEMMA InTurnSame ==
  ASSUME NEW d \in Conns, InTurn(d),
         rtspinc'[d] = rtspinc[d], input'[d] = input[d], wire'[d] = wire[d],
         output'[d] = output[d], client'[d].nreq = client[d].nreq,
         client'[d].reply = client[d].reply,
         Playing(d)' => Playing(d) /\ task' = task
  PROVE  InTurn(d)'
<1>1. Got(d)' = Got(d) /\ Answered(d)' \subseteq Answered(d)
  BY DEF Got, Answered
<1>2. Queued(rtspinc[d], input[d], wire[d], client[d].nreq, Answered(d)')
  BY <1>1, AnsweredMore DEF InTurn
<1> QED BY <1>1, <1>2 DEF InTurn
-----------------------------------------------------------------------------
(* The steps of clients.                                                   *)

LEMMA ClientSends ==
  ASSUME Typed, Turns, NEW c \in Conns, NEW u \in Unit,
         wire' = [wire EXCEPT ![c] = Append(wire[c], u)],
         UNCHANGED <<busy, task, rtspinc, input, output>>,
         \A d \in Conns : client'[d].reply = client[d].reply,
         \A d \in Conns \ {c} : client'[d].nreq = client[d].nreq,
         NEW m \in Nat, client'[c].nreq = m,
         client[c].nreq <= m, u.id <= m, u.part # "rtcp" => u.id = m,
         u.part # "tail" /\ u.part # "rtcp" => m > client[c].nreq
  PROVE  Turns'
<1>1. wire'[c] = Append(wire[c], u)
      /\ \A d \in Conns \ {c} : wire'[d] = wire[d]
  BY DEF Typed, ClientTyped
<1>2. \A d \in Conns \ {c} : InTurn(d)'
  BY <1>1, InTurnSame DEF Turns, Playing
<1>3. InTurn(c)'
  <2>1. InTurn(c)
    BY DEF Turns
  <2>2. Queued(rtspinc[c], input[c], Append(wire[c], u), m, Answered(c))
    BY <2>1, AnsweredNat, Sent DEF InTurn
  <2>3. Got(c)' = Got(c) /\ Answered(c)' = Answered(c)
        /\ (Playing(c)' <=> Playing(c))
    BY DEF Got, Answered, Playing
  <2> QED BY <1>1, <2>1, <2>2, <2>3 DEF InTurn
<1> QED BY <1>2, <1>3 DEF Turns

LEMMA ClientTurns ==
  ASSUME Typed, Turns, NEW c \in Conns,
         \/ \E m \in Methods : SendRequest(c, m)
         \/ SendTail(c) \/ SendRtcp(c) \/ Hangup(c)
  PROVE  Turns'
<1>1. /\ UNCHANGED <<busy, task, rtspinc, input, output>>
      /\ client \in [Conns -> Client] /\ client[c] \in Client
      /\ client[c].nreq \in 0 .. MaxRequests /\ client[c].nreq \in Nat
  <2>1. UNCHANGED <<busy, task, session, bufev>>
    BY DEF SendRequest, SendTail, SendRtcp, Hangup
  <2> QED BY <2>1, ClientFields, AnsweredNat
          DEF session, bufev, Typed, ClientTyped
<1>2. CASE \E m \in Methods : SendRequest(c, m)
  <2>1. PICK m \in Methods : SendRequest(c, m)
    BY <1>2
  <2> DEFINE id == client[c].nreq + 1
  <2>2. PICK split \in {FALSE, Splits} :
          /\ wire' = [wire EXCEPT ![c] = Append(@,
                        [part |-> IF split THEN "head" ELSE "all",
                         id |-> client[c].nreq + 1, method |-> m])]
          /\ client' = [client EXCEPT ![c].nreq = client[c].nreq + 1,
                                      ![c].tail = split]
    BY <2>1 DEF SendRequest
  <2>3. client' = [client EXCEPT
          ![c] = [client[c] EXCEPT !.nreq = id, !.tail = split]]
    BY <2>2
  <2>4. id \in 0 .. MaxRequests /\ id \in Nat /\ id > client[c].nreq
    BY <1>1, <2>1, RtspSessionAssumption DEF SendRequest
  <2> DEFINE u == [part |-> IF split THEN "head" ELSE "all",
                   id |-> id, method |-> m]
  <2>5. u \in Unit /\ u.id = id
    BY <2>4 DEF Unit
  <2>6. wire' = [wire EXCEPT ![c] = Append(wire[c], u)]
    BY <2>2
  <2> HIDE DEF id
  <2>7. /\ \A d \in Conns : client'[d].reply = client[d].reply
        /\ \A d \in Conns \ {c} : client'[d].nreq = client[d].nreq
        /\ client'[c].nreq = id
    BY <1>1, <2>3 DEF Client
  <2> HIDE DEF u
  <2>8. /\ client[c].nreq <= id /\ u.id <= id
        /\ u.part # "rtcp" => u.id = id
        /\ u.part # "tail" /\ u.part # "rtcp" => id > client[c].nreq
    BY <1>1, <2>4, <2>5
  <2> QED BY <1>1, <2>4, <2>5, <2>6, <2>7, <2>8, ClientSends
<1>3. CASE SendTail(c)
  <2> DEFINE u == [part |-> "tail", id |-> client[c].nreq, method |-> "none"]
  <2>1. /\ wire' = [wire EXCEPT ![c] = Append(wire[c], u)]
        /\ client' = [client EXCEPT ![c] = [client[c] EXCEPT !.tail = FALSE]]
    BY <1>3 DEF SendTail
  <2>2. u \in Unit /\ u.id = client[c].nreq /\ u.part = "tail"
    BY <1>1 DEF Unit
  <2> DEFINE m == client[c].nreq
  <2>3. /\ \A d \in Conns : client'[d].reply = client[d].reply
        /\ \A d \in Conns : client'[d].nreq = client[d].nreq
    BY <1>1, <2>1 DEF Client
  <2> HIDE DEF u
  <2>4. /\ client[c].nreq <= m /\ u.id <= m
        /\ u.part # "rtcp" => u.id = m
        /\ u.part # "tail" /\ u.part # "rtcp" => m > client[c].nreq
        /\ \A d \in Conns \ {c} : client'[d].nreq = client[d].nreq
        /\ client'[c].nreq = m /\ m \in Nat
    BY <1>1, <2>2, <2>3
  <2> HIDE DEF m
  <2> QED BY <1>1, <2>1, <2>2, <2>3, <2>4, ClientSends
<1>4. CASE SendRtcp(c)
  <2> DEFINE u == [part |-> "rtcp", id |-> 0, method |-> "none"]
  <2>1. /\ wire' = [wire EXCEPT ![c] = Append(wire[c], u)]
        /\ client' = [client EXCEPT
                        ![c] = [client[c] EXCEPT !.nrtcp = client[c].nrtcp + 1]]
    BY <1>4 DEF SendRtcp
  <2>2. u \in Unit /\ u.id = 0 /\ u.part = "rtcp"
    BY RtspSessionAssumption DEF Unit
  <2> DEFINE m == client[c].nreq
  <2>3. /\ \A d \in Conns : client'[d].reply = client[d].reply
        /\ \A d \in Conns : client'[d].nreq = client[d].nreq
    BY <1>1, <2>1 DEF Client
  <2> HIDE DEF u
  <2>4. /\ client[c].nreq <= m /\ u.id <= m
        /\ u.part # "rtcp" => u.id = m
        /\ u.part # "tail" /\ u.part # "rtcp" => m > client[c].nreq
        /\ \A d \in Conns \ {c} : client'[d].nreq = client[d].nreq
        /\ client'[c].nreq = m /\ m \in Nat
    BY <1>1, <2>2, <2>3
  <2> HIDE DEF m
  <2> QED BY <1>1, <2>1, <2>2, <2>3, <2>4, ClientSends
<1>5. CASE Hangup(c)
  <2>1. /\ client' = [client EXCEPT ![c] = [client[c] EXCEPT !.closed = TRUE]]
        /\ wire' = wire
    BY <1>5 DEF Hangup
  <2>2. /\ \A d \in Conns : client'[d].reply = client[d].reply
        /\ \A d \in Conns : client'[d].nreq = client[d].nreq
    BY <1>1, <2>1 DEF Client
  <2> QED BY <1>1, <2>1, <2>2, InTurnSame DEF Turns, Playing
<1> QED BY <1>2, <1>3, <1>4, <1>5

-----------------------------------------------------------------------------
(* The steps of the server.                                                *)

LEMMA RecvQueued ==
  ASSUME Typed, Turns, NEW c \in Conns, Recv(c)
  PROVE  /\ \E text \in Seq(Unit) :
              /\ DealRtsp(c, text)
              /\ Queued(text, input'[c], wire'[c], client[c].nreq, Answered(c))
              /\ Range(text) \cup Range(input'[c]) \cup Range(wire'[c])
                   \subseteq Range(rtspinc[c]) \cup Range(input[c])
                               \cup Range(wire[c])
         /\ \A d \in Conns \ {c} : input'[d] = input[d] /\ wire'[d] = wire[d]
<1>1. PICK m \in 1 .. Len(wire[c]) :
        LET in == input[c] \o SubSeq(wire[c], 1, m)
            n == IF Len(in) < ChunkUnits THEN Len(in) ELSE ChunkUnits
            chunk == SubSeq(in, 1, n)
        IN  /\ wire' = [wire EXCEPT ![c] = SubSeq(@, m + 1, Len(@))]
            /\ input' = [input EXCEPT ![c] = SubSeq(in, n + 1, Len(in))]
            /\ \E k \in Appended(chunk) :
                 DealRtsp(c, rtspinc[c] \o SubSeq(chunk, 1, k))
  BY DEF Recv
<1> DEFINE in == input[c] \o SubSeq(wire[c], 1, m)
           n == IF Len(in) < ChunkUnits THEN Len(in) ELSE ChunkUnits
           chunk == SubSeq(in, 1, n)
<1>2. /\ wire[c] \in Seq(Unit) /\ input[c] \in Seq(Unit)
      /\ rtspinc[c] \in Seq(Unit) /\ client[c].nreq \in Nat
  BY AnsweredNat
<1>3. in \in Seq(Unit) /\ in = input[c] \o SubSeq(wire[c], 1, m)
      /\ m \in 0 .. Len(wire[c])
  BY <1>2, Pieces
<1> HIDE DEF in
<1>4. n \in 0 .. Len(in)
  BY <1>3, RtspSessionAssumption
<1> HIDE DEF n
<1>5. /\ wire' = [wire EXCEPT ![c] = SubSeq(wire[c], m + 1, Len(wire[c]))]
      /\ input' = [input EXCEPT ![c] = SubSeq(in, n + 1, Len(in))]
  BY <1>1 DEF in, n
<1> HIDE DEF chunk
<1>6. PICK k \in Appended(chunk) :
             DealRtsp(c, rtspinc[c] \o SubSeq(chunk, 1, k))
  BY <1>1 DEF in, n, chunk
<1>7. /\ k \in 0 .. n /\ SubSeq(chunk, 1, k) = SubSeq(in, 1, k)
      /\ \A i \in 1 .. k : in[i].part # "rtcp"
  <2>1. /\ chunk \in Seq(Unit) /\ Len(chunk) = n
        /\ \A i \in 1 .. n : chunk[i] = in[i]
    BY <1>3, <1>4 DEF chunk
  <2>2. k \in 0 .. n /\ \A i \in 1 .. k : chunk[i].part # "rtcp"
    BY <2>1 DEF Appended
  <2>3. SubSeq(chunk, 1, k) = SubSeq(in, 1, k)
    BY <1>3, <1>4, <2>1, <2>2
  <2> QED BY <2>1, <2>2, <2>3
<1> DEFINE text == rtspinc[c] \o SubSeq(in, 1, k)
<1>8. text \in Seq(Unit)
  BY <1>2, <1>3, <1>4, <1>7, Pieces
<1> DEFINE b2 == SubSeq(in, n + 1, Len(in))
           w2 == SubSeq(wire[c], m + 1, Len(wire[c]))
<1>9. /\ Queued(text, b2, w2, client[c].nreq, Answered(c))
      /\ Range(text) \cup Range(b2) \cup Range(w2)
           \subseteq Range(rtspinc[c]) \cup Range(input[c]) \cup Range(wire[c])
  <2>1. Queued(rtspinc[c], input[c], wire[c], client[c].nreq, Answered(c))
    BY DEF Turns, InTurn
  <2> DEFINE a == rtspinc[c]
             b == input[c]
             w == wire[c]
             nreq == client[c].nreq
             ids == Answered(c)
  <2>2. /\ a \in Seq(Unit) /\ b \in Seq(Unit) /\ w \in Seq(Unit)
        /\ nreq \in Nat /\ Queued(a, b, w, nreq, ids)
        /\ m \in 0 .. Len(w) /\ in = b \o SubSeq(w, 1, m)
        /\ n \in 0 .. Len(in) /\ k \in 0 .. n
        /\ \A i \in 1 .. k : in[i].part # "rtcp"
    BY <1>2, <1>3, <1>4, <1>7, <2>1
  <2>3. Queued(a \o SubSeq(in, 1, k), SubSeq(in, n + 1, Len(in)),
               SubSeq(w, m + 1, Len(w)), nreq, ids)
    <3> HIDE DEF a, b, w, nreq, ids
    <3> QED BY <2>2, Received
  <2> DEFINE all == Range(a) \cup Range(b) \cup Range(w)
  <2>4. /\ Among(a \o SubSeq(in, 1, k), all)
        /\ Among(SubSeq(in, n + 1, Len(in)), all)
        /\ Among(SubSeq(w, m + 1, Len(w)), all)
    <3>1. /\ a \in Seq(Unit) /\ b \in Seq(Unit) /\ w \in Seq(Unit)
          /\ m \in 0 .. Len(w) /\ in = b \o SubSeq(w, 1, m)
          /\ n \in 0 .. Len(in) /\ k \in 0 .. n
          /\ all = Range(a) \cup Range(b) \cup Range(w)
      BY <2>2
    <3> HIDE DEF a, b, w, all
    <3> QED BY <3>1, ReceivedUnits
  <2> QED BY <2>3, <2>4 DEF Among
<1>10. DealRtsp(c, text)
  BY <1>6, <1>7
<1> HIDE DEF text
<1>11. /\ input'[c] = SubSeq(in, n + 1, Len(in))
       /\ wire'[c] = SubSeq(wire[c], m + 1, Len(wire[c]))
       /\ \A d \in Conns \ {c} : input'[d] = input[d] /\ wire'[d] = wire[d]
  BY <1>5 DEF Typed, ClientTyped, BufferTyped
<1> QED BY <1>8, <1>9, <1>10, <1>11

(* The connection that wrote a reply in its turn.                          *)
LEMMA TurnReply ==
  ASSUME Typed, NEW c \in Conns, OrderedReplies(output[c], client[c].reply),
         NEW u \in Outputs, u.kind = "reply",
         \A id \in Got(c) : Follows(u, id), Write(c, u), UNCHANGED client,
         ~ Playing(c)',
         NEW ids, ids = Got(c) \cup {u.id},
         Queued(rtspinc'[c], input'[c], wire'[c], client[c].nreq, ids)
  PROVE  InTurn(c)'
<1>1. output[c] \in Seq(Outputs) /\ output'[c] = Append(output[c], u)
  BY DEF Typed, BufferTyped, Write
<1>2. /\ OrderedReplies(output'[c], client[c].reply)
      /\ ReplyIds(output'[c]) = ReplyIds(output[c]) \cup {u.id}
  BY <1>1, AppendUnit DEF Got
<1>3. Got(c)' = ids /\ Answered(c)' = ids
  BY <1>2 DEF Got, Answered
<1> QED BY <1>2, <1>3 DEF InTurn
LEMMA DealTurns ==
  ASSUME Typed, Turns, Idle, NEW c \in Conns, NEW r \in ARequest,
         DealSetup(c, r) \/ DealPlay(c, r) \/ DealOther(c, r),
         UNCHANGED client, rtspinc'[c] = <<>>,
         \A id \in Answered(c) : Follows(r, id),
         Queued(<<>>, input'[c], wire'[c], client[c].nreq,
                Answered(c) \cup {r.id})
  PROVE  /\ InTurn(c)'
         /\ \A d \in Conns \ {c} : output'[d] = output[d] /\ ~ Playing(d)'
<1>1. /\ busy = None /\ None \notin Conns /\ r.id \in Nat
      /\ \A d \in Conns : ~ Playing(d)
      /\ Answered(c) = Got(c) /\ InTurn(c)
      /\ r.id \in 0 .. MaxRequests /\ r.method \in Methods \cup {"none"}
      /\ output[c] \in Seq(Outputs)
  BY RtspSessionAssumption, AnsweredNat
     DEF Idle, Playing, Answered, Turns, ARequest
<1>2. ASSUME NEW ok \in BOOLEAN, Write(c, Reply(r.id, r.method, ok)),
             busy' = busy
      PROVE  /\ InTurn(c)'
             /\ \A d \in Conns \ {c} : output'[d] = output[d] /\ ~ Playing(d)'
  <2> DEFINE u == Reply(r.id, r.method, ok)
  <2>1. u \in Outputs /\ u.kind = "reply" /\ u.id = r.id /\ u.method = r.method
    BY <1>1, ReplyMade DEF Reply
  <2>2. \A id \in Got(c) : Follows(u, id)
    BY <1>1, <2>1 DEF Follows
  <2>3. Queued(rtspinc'[c], input'[c], wire'[c], client[c].nreq,
               Got(c) \cup {u.id})
    BY <1>1, <2>1
  <2>4. ~ Playing(c)' /\ \A d \in Conns : ~ Playing(d)'
    BY <1>1, <1>2 DEF Playing
  <2>5. Write(c, u)
    BY <1>2
  <2> HIDE DEF u
  <2>6. InTurn(c)'
    BY <1>1, <2>1, <2>2, <2>3, <2>4, <2>5, TurnReply DEF InTurn
  <2>7. \A d \in Conns \ {c} : output'[d] = output[d]
    BY <2>5 DEF Write, Typed, BufferTyped
  <2> QED BY <2>4, <2>6, <2>7
<1>3. ASSUME output' = output, ~ Playing(c)',
             \A d \in Conns \ {c} : ~ Playing(d)'
      PROVE  InTurn(c)'
  <2>1. Got(c)' = Got(c) /\ Answered(c)' = Got(c)
    BY <1>3 DEF Got, Answered
  <2>2. Queued(<<>>, input'[c], wire'[c], client[c].nreq, Got(c))
    BY <1>1, AnsweredMore DEF Queued
  <2> QED BY <1>1, <1>3, <2>1, <2>2 DEF InTurn
<1>4. CASE DealOther(c, r)
  <2>1. PICK found \in BOOLEAN : Write(c, Reply(r.id, r.method, found))
    BY <1>4 DEF DealOther
  <2> QED BY <1>2, <1>4, <2>1 DEF DealOther
<1>5. CASE DealSetup(c, r) /\ state'[c] # "crashed"
  BY <1>2, <1>5 DEF DealSetup
<1>6. CASE DealSetup(c, r) /\ state'[c] = "crashed"
  <2>1. output' = output /\ busy' = busy
    BY <1>6 DEF DealSetup
  <2>2. \A d \in Conns : ~ Playing(d)'
    BY <1>1, <2>1 DEF Playing
  <2> QED BY <1>3, <2>1, <2>2
<1>7. CASE DealPlay(c, r) /\ stream[c] = "none"
  <2>1. output' = output /\ busy' = busy
    BY <1>7 DEF DealPlay
  <2>2. \A d \in Conns : ~ Playing(d)'
    BY <1>1, <2>1 DEF Playing
  <2> QED BY <1>3, <2>1, <2>2
<1>8. CASE DealPlay(c, r) /\ stream[c] # "none"
  <2>1. output' = output /\ busy' = c /\ task' = r.id /\ r.method = "PLAY"
    BY <1>8 DEF DealPlay, Type
  <2>2. Got(c)' = Got(c) /\ Answered(c)' \subseteq Answered(c) \cup {r.id}
    BY <1>1, <2>1 DEF Got, Answered
  <2>3. \A id \in Got(c) : r.id > id
    BY <1>1, <2>1 DEF Follows
  <2>4. Queued(<<>>, input'[c], wire'[c], client[c].nreq, Answered(c)')
    BY <2>2 DEF Queued
  <2>5. \A d \in Conns \ {c} : ~ Playing(d)'
    BY <2>1 DEF Playing
  <2> QED BY <1>1, <2>1, <2>2, <2>3, <2>4, <2>5 DEF InTurn
<1> QED BY <1>4, <1>5, <1>6, <1>7, <1>8

LEMMA RecvTurns ==
  ASSUME Typed, Turns, NEW c \in Conns, Recv(c)
  PROVE  Turns'
<1>1. PICK text \in Seq(Unit) :
        /\ DealRtsp(c, text)
        /\ Queued(text, input'[c], wire'[c], client[c].nreq, Answered(c))
  BY RecvQueued
<1>2. /\ Idle /\ UNCHANGED client
      /\ \A d \in Conns \ {c} : input'[d] = input[d] /\ wire'[d] = wire[d]
  BY RecvQueued DEF Recv
<1>3. \A d \in Conns \ {c} : rtspinc'[d] = rtspinc[d]
  BY <1>1 DEF DealRtsp, Typed, SessionTyped
<1>4. CASE Complete(text)
  <2>1. PICK r \in Request(text) :
               DealSetup(c, r) \/ DealPlay(c, r) \/ DealOther(c, r)
    BY <1>1, <1>4 DEF DealRtsp
  <2>2. r \in ARequest
    BY <1>4, RequestIsTyped
  <2>3. rtspinc'[c] = <<>>
    BY <1>1, <1>4 DEF DealRtsp, Typed, SessionTyped
  <2>4. /\ \A id \in Answered(c) : Follows(r, id)
        /\ Queued(<<>>, input'[c], wire'[c], client[c].nreq,
                  Answered(c) \cup {r.id})
    BY <1>1, <1>4, AnsweredNat, RequestTaken
  <2>5. /\ InTurn(c)'
        /\ \A d \in Conns \ {c} : output'[d] = output[d] /\ ~ Playing(d)'
    BY <1>2, <2>1, <2>2, <2>3, <2>4, DealTurns
  <2>6. \A d \in Conns \ {c} : InTurn(d)'
    BY <1>2, <1>3, <2>5, InTurnSame DEF Turns
  <2> QED BY <2>5, <2>6 DEF Turns
<1>5. CASE ~ Complete(text)
  <2>1. /\ rtspinc'[c] = text /\ UNCHANGED <<busy, task, output>>
    BY <1>1, <1>5 DEF DealRtsp, Typed, SessionTyped
  <2>2. \A d \in Conns \ {c} : InTurn(d)'
    BY <1>2, <1>3, <2>1, InTurnSame DEF Turns, Playing
  <2>3. /\ Got(c)' = Got(c) /\ Answered(c)' = Answered(c)
        /\ Playing(c)' <=> Playing(c)
    BY <1>2, <2>1 DEF Got, Answered, Playing
  <2>4. InTurn(c)'
    BY <1>1, <1>2, <2>1, <2>3 DEF Turns, InTurn
  <2> QED BY <2>2, <2>4 DEF Turns
<1> QED BY <1>4, <1>5

LEMMA WriteReadyTurns ==
  ASSUME Typed, Turns, NEW c \in Conns, WriteReady(c)
  PROVE  Turns'
<1> DEFINE rest == IF output[c] = <<>> THEN <<>> ELSE Tail(output[c])
           k == IF output[c] = <<>> THEN client[c]
                ELSE Receive(client[c], Head(output[c]))
<1>1. /\ busy = None /\ None \notin Conns /\ Send(c, rest = <<>>)
      /\ output' = [output EXCEPT ![c] = rest]
      /\ UNCHANGED <<rtspinc, input, wire>>
  BY RtspSessionAssumption DEF WriteReady, Idle, session
<1>2. /\ output[c] \in Seq(Outputs) /\ client[c] \in Client /\ InTurn(c)
  BY AnsweredNat DEF Turns
<1>3. /\ output'[c] = rest /\ client'[c] = k
      /\ \A d \in Conns \ {c} : output'[d] = output[d] /\ client'[d] = client[d]
  BY <1>1 DEF WriteReady, Typed, BufferTyped, ClientTyped
<1>4. /\ k.nreq = client[c].nreq /\ OrderedReplies(rest, k.reply)
      /\ {k.reply} \cup ReplyIds(rest) \subseteq Got(c)
  <2>1. CASE output[c] = <<>>
    BY <1>2, <2>1 DEF InTurn, Got
  <2>2. CASE output[c] # <<>>
    BY <1>2, <2>2, FirstReceived DEF InTurn, Got
  <2> QED BY <2>1, <2>2
<1> HIDE DEF rest, k
<1>5. \A d \in Conns : ~ Playing(d)'
  BY <1>1 DEF Send, Playing
<1>6. InTurn(c)'
  <2>1. Answered(c)' \subseteq Answered(c)
    BY <1>3, <1>4, <1>5 DEF Answered, Got
  <2>2. Queued(rtspinc[c], input[c], wire[c], client[c].nreq, Answered(c)')
    BY <1>2, <2>1 DEF InTurn, Queued
  <2> QED BY <1>1, <1>3, <1>4, <1>5, <2>2 DEF InTurn
<1>7. \A d \in Conns \ {c} : InTurn(d)'
  BY <1>1, <1>3, <1>5, InTurnSame DEF Turns
<1> QED BY <1>6, <1>7 DEF Turns

LEMMA TCPForH264Turns ==
  ASSUME Typed, Turns, NEW c \in Conns, TCPForH264(c)
  PROVE  Turns'
<1>1. /\ server = "up" /\ busy = c /\ None \notin Conns
      /\ UNCHANGED <<rtspinc, input, wire, client>>
  BY RtspSessionAssumption DEF TCPForH264
<1>2. CASE SkipNode(c) \/ ReadBlock(c) \/ ReadNothing(c)
  <2>1. UNCHANGED <<busy, task, output>>
    BY <1>2 DEF SkipNode, ReadBlock, ReadNothing
  <2> QED BY <1>1, <2>1, InTurnSame DEF Turns, Playing
<1>3. CASE SendNode(c)
  <2>1. Finish(c) /\ busy' = None
    BY <1>3 DEF SendNode
  <2>2. PICK u \in Outputs :
          /\ Write(c, u)
          /\ u = IF task = Sending THEN Rtp(sqsnumber[c])
                 ELSE Reply(task, "PLAY", TRUE)
    BY <1>1, <2>1, FinishWrites
  <2>3. \A d \in Conns : ~ Playing(d)'
    BY <1>1, <2>1 DEF Playing
  <2>4. /\ output[c] \in Seq(Outputs) /\ output'[c] = Append(output[c], u)
        /\ \A d \in Conns \ {c} : output'[d] = output[d]
    BY <2>2 DEF Write, Typed, BufferTyped
  <2>5. \A d \in Conns \ {c} : InTurn(d)'
    BY <1>1, <2>3, <2>4, InTurnSame DEF Turns
  <2>6. InTurn(c)
    BY DEF Turns
  <2>7. CASE task = Sending
    <3>1. u.kind = "rtp"
      BY <2>2, <2>7 DEF Rtp
    <3>2. /\ OrderedReplies(output'[c], client[c].reply)
          /\ ReplyIds(output'[c]) = ReplyIds(output[c])
      BY <2>4, <2>6, <3>1, AppendUnit DEF InTurn
    <3>3. Answered(c)' = Answered(c)
      BY <1>1, <2>3, <2>7, <3>2 DEF Answered, Got, Playing
    <3>4. InTurn(c)'
      BY <1>1, <2>3, <2>6, <3>2, <3>3 DEF InTurn
    <3> QED BY <2>5, <3>4 DEF Turns
  <2>8. CASE task # Sending
    <3>1. u.kind = "reply" /\ u.id = task /\ u.method = "PLAY"
      BY <2>2, <2>8 DEF Reply
    <3>2. /\ Playing(c) /\ \A id \in Got(c) : task > id
      BY <1>1, <2>6, <2>8 DEF Playing, InTurn
    <3>3. \A id \in Got(c) : Follows(u, id)
      BY <3>1, <3>2 DEF Follows
    <3>4. Answered(c) = Got(c) \cup {u.id}
      BY <3>1, <3>2 DEF Answered
    <3>5. Queued(rtspinc'[c], input'[c], wire'[c], client[c].nreq, Answered(c))
      BY <1>1, <2>6 DEF InTurn
    <3>6. InTurn(c)'
      BY <1>1, <2>2, <2>3, <2>6, <3>1, <3>3, <3>4, <3>5, TurnReply DEF InTurn
    <3> QED BY <2>5, <3>6 DEF Turns
  <2> QED BY <2>7, <2>8
<1> QED BY <1>2, <1>3 DEF TCPForH264

LEMMA ConnectTurns ==
  ASSUME Typed, Turns, NEW c \in Conns, Connect(c) \/ Disconnect(c)
  PROVE  Turns'
<1>1. busy = None /\ None \notin Conns /\ UNCHANGED <<busy, task>>
  BY RtspSessionAssumption DEF Connect, Disconnect, Idle
<1>2. CASE Connect(c)
  <2>1. UNCHANGED <<rtspinc, input, wire, output, client>>
    BY <1>2 DEF Connect
  <2> QED BY <1>1, <2>1, InTurnSame DEF Turns, Playing
<1>3. CASE Disconnect(c)
  <2>1. /\ rtspinc'[c] = <<>> /\ input'[c] = <<>> /\ wire'[c] = <<>>
        /\ output'[c] = <<>> /\ client'[c] = NewClient
        /\ \A d \in Conns \ {c} :
             /\ rtspinc'[d] = rtspinc[d] /\ input'[d] = input[d]
             /\ wire'[d] = wire[d] /\ output'[d] = output[d]
             /\ client'[d] = client[d]
    BY <1>3 DEF Disconnect, Typed, SessionTyped, BufferTyped, ClientTyped
  <2>2. \A d \in Conns : ~ Playing(d)'
    BY <1>1 DEF Playing
  <2>3. \A d \in Conns \ {c} : InTurn(d)'
    BY <2>1, <2>2, InTurnSame DEF Turns
  <2>4. Answered(c)' = {0} /\ client'[c].nreq = 0 /\ client'[c].reply = 0
    BY <2>1, <2>2 DEF Answered, Got, ReplyIds, NewClient
  <2>5. InTurn(c)'
    BY <2>1, <2>2, <2>4
       DEF InTurn, Queued, Sorted, Precedes, Range, OrderedReplies
  <2> QED BY <2>3, <2>5 DEF Turns
<1> QED BY <1>2, <1>3

LEMMA NextTurns == Typed /\ Turns /\ [Next]_vars => Turns'
<1> SUFFICES ASSUME Typed, Turns, [Next]_vars PROVE Turns'
  OBVIOUS
<1>1. CASE UNCHANGED vars
  BY <1>1, InTurnSame DEF vars, session, bufev, Turns, Playing
<1>2. ASSUME NEW c \in Conns,
             \/ \E m \in Methods : SendRequest(c, m)
             \/ SendTail(c) \/ SendRtcp(c) \/ Hangup(c)
      PROVE  Turns'
  BY <1>2, ClientTurns
<1>3. ASSUME NEW c \in Conns,
             Connect(c) \/ Recv(c) \/ WriteReady(c) \/ TCPForH264(c)
               \/ Disconnect(c)
      PROVE  Turns'
  BY <1>3, ConnectTurns, RecvTurns, WriteReadyTurns, TCPForH264Turns
<1> QED BY <1>1, <1>2, <1>3 DEF Next

LEMMA InitTurns == Init => Typed /\ Turns
<1> SUFFICES ASSUME Init, NEW c \in Conns PROVE InTurn(c)
  BY InitTyped DEF Turns
<1>1. /\ rtspinc[c] = <<>> /\ input[c] = <<>> /\ wire[c] = <<>>
      /\ output[c] = <<>> /\ client[c] = NewClient /\ ~ Playing(c)
  BY RtspSessionAssumption DEF Init, Playing
<1>2. Answered(c) = {0} /\ client[c].nreq = 0 /\ client[c].reply = 0
  BY <1>1 DEF Answered, Got, ReplyIds, NewClient
<1> QED BY <1>1, <1>2
        DEF InTurn, Queued, Sorted, Precedes, Range, OrderedReplies

(* However requests are pipelined, cut in pieces, mixed with RTCP packets  *)
(* and partly thrown away: each client gets its replies in the order of    *)
(* its requests, and none twice.                                           *)
THEOREM RepliesFollow == Spec => []RepliesInOrder
<1>1. Init => Typed /\ Turns
  BY InitTurns
<1>2. Typed /\ Turns /\ [Next]_vars => (Typed /\ Turns)'
  BY NextTyped, NextTurns
<1>3. Turns => RepliesInOrder
  BY DEF Turns, InTurn, OrderedReplies, Follows, RepliesInOrder
<1> QED BY <1>1, <1>2, <1>3, PTL DEF Spec

-----------------------------------------------------------------------------
(* Clients that keep to the order DESCRIBE, SETUP, PLAY and wait for the   *)
(* replies: for any number of them, a file of one block at least, and any  *)
(* ways TCP cuts their requests, the server fails in two ways only. A      *)
(* stream meets the end of the file, or a new session's memory says PLAY.  *)

(* The units of a connection that DealRtsp has not answered.               *)
Waiting(c) == Range(rtspinc[c]) \cup Range(input[c]) \cup Range(wire[c])

GoodReplies(s) ==
  {s[i].method : i \in {j \in DOMAIN s : s[j].kind = "reply" /\ s[j].ok}}

(* The methods a connection has got or will get a good reply to.           *)
Good(c) == client[c].ok \cup GoodReplies(output[c])

(* What a request needs is there before it is sent, and stays.             *)
Backed(c) ==
  /\ \A u \in Waiting(c) : /\ u.method = "PLAY" => stream[c] # "none"
                           /\ u.method = "SETUP" => fileok
  /\ "SETUP" \in Good(c) => stream[c] # "none"
  /\ "DESCRIBE" \in Good(c) => fileok

StaleMemory(c) == stype[c] = "PLAY" /\ stream[c] = "none"

Known ==
  /\ server # "assert"
  /\ \/ server = "up"
     \/ \E c \in Conns : state[c] = "end" \/ StaleMemory(c)

PoliteInv == Known /\ \A c \in Conns : Backed(c)

LEMMA GoodAppend ==
  ASSUME NEW s \in Seq(Outputs), NEW u \in Outputs
  PROVE  GoodReplies(Append(s, u)) \subseteq
           GoodReplies(s) \cup (IF u.kind = "reply" /\ u.ok THEN {u.method}
                                ELSE {})
<1> DEFINE t == Append(s, u)
<1>1. \A i \in DOMAIN t : \/ i \in DOMAIN s /\ t[i] = s[i]
                          \/ t[i] = u
  OBVIOUS
<1> HIDE DEF t
<1>2. GoodReplies(t) \subseteq
        GoodReplies(s) \cup (IF u.kind = "reply" /\ u.ok THEN {u.method}
                             ELSE {})
  BY <1>1 DEF GoodReplies
<1> QED BY <1>2 DEF t

LEMMA GoodReceived ==
  ASSUME NEW s \in Seq(Outputs), s # <<>>, NEW q \in Client
  PROVE  Receive(q, Head(s)).ok \cup GoodReplies(Tail(s))
           \subseteq q.ok \cup GoodReplies(s)
<1> DEFINE t == Tail(s)
           k == Receive(q, Head(s))
<1>1. /\ 1 \in DOMAIN s /\ Head(s) = s[1] /\ s[1] \in Outputs
      /\ \A i \in DOMAIN t : t[i] = s[i + 1] /\ i + 1 \in DOMAIN s
  OBVIOUS
<1> HIDE DEF t
<1>2. GoodReplies(t) \subseteq GoodReplies(s)
  BY <1>1 DEF GoodReplies
<1>3. k.ok \subseteq q.ok \cup GoodReplies(s)
  <2>1. CASE s[1].kind = "rtp"
    BY <1>1, <2>1 DEF Receive, Client
  <2>2. CASE s[1].kind = "reply"
    <3>1. k.ok = IF s[1].ok /\ s[1].method # "none" THEN q.ok \cup {s[1].method}
                 ELSE q.ok
      BY <1>1, <2>2 DEF Receive, Client
    <3>2. s[1].ok => s[1].method \in GoodReplies(s)
      BY <1>1, <2>2 DEF GoodReplies
    <3> QED BY <3>1, <3>2
  <2> QED BY <1>1, <2>1, <2>2, OutputKinds
<1> QED BY <1>2, <1>3 DEF t, k

(* A step after which a connection has no more requests and replies than   *)
(* before, and its stream if it had one.                                   *)
LEMMA BackedSame ==
  ASSUME NEW d \in Conns, Backed(d), fileok' = fileok,
         Waiting(d)' \subseteq Waiting(d), Good(d)' \subseteq Good(d),
         stream[d] # "none" => stream'[d] # "none"
  PROVE  Backed(d)'
BY DEF Backed

LEMMA RequestBacked ==
  ASSUME NEW text \in Seq(Unit), NEW r \in Request(text), r.method # "none"
  PROVE  \E u \in Range(text) : u.method = r.method
<1>1. PICK i \in FirstLine(text) : r = [id |-> text[i].id,
                                       method |-> text[i].method]
  BY DEF Request
<1>2. text[i] \in Range(text)
  BY DEF FirstLine, Range
<1> QED BY <1>1, <1>2

-----------------------------------------------------------------------------
(* The clients.                                                            *)

LEMMA ClientPolite ==
  ASSUME Polite, Typed, PoliteInv, NEW c \in Conns,
         \/ \E m \in Methods : SendRequest(c, m)
         \/ SendTail(c) \/ SendRtcp(c) \/ Hangup(c)
  PROVE  PoliteInv'
<1>1. /\ UNCHANGED <<server, fileok, stype, stream, rtspinc, input, output,
                     state>>
      /\ client \in [Conns -> Client] /\ client[c] \in Client
      /\ wire \in [Conns -> Seq(Unit)]
  <2>1. UNCHANGED <<server, fileok, session, bufev, file>>
    BY DEF SendRequest, SendTail, SendRtcp, Hangup
  <2> QED BY <2>1 DEF session, bufev, file, Typed, ClientTyped
<1>2. Known'
  BY <1>1 DEF PoliteInv, Known, StaleMemory
<1>3. ASSUME NEW u, wire' = [wire EXCEPT ![c] = Append(wire[c], u)],
             u \in Unit,
             \A d \in Conns : client'[d].ok = client[d].ok,
             u.method = "PLAY" => stream[c] # "none",
             u.method = "SETUP" => fileok
      PROVE  PoliteInv'
  <2>1. Range(wire'[c]) = Range(wire[c]) \cup {u}
    BY <1>1, <1>3, RangeAppend
  <2>2. \A d \in Conns \ {c} : wire'[d] = wire[d]
    BY <1>1, <1>3
  <2>3. \A d \in Conns : Good(d)' = Good(d)
    BY <1>1, <1>3 DEF Good
  <2>4. \A d \in Conns \ {c} : Waiting(d)' = Waiting(d)
    BY <1>1, <2>2 DEF Waiting
  <2>5. Waiting(c)' = Waiting(c) \cup {u}
    BY <1>1, <2>1 DEF Waiting
  <2>6. Backed(c)'
    BY <1>1, <1>3, <2>3, <2>5 DEF PoliteInv, Backed
  <2>7. \A d \in Conns \ {c} : Backed(d)'
    BY <1>1, <2>3, <2>4, BackedSame DEF PoliteInv
  <2> QED BY <1>2, <2>6, <2>7 DEF PoliteInv
<1>4. CASE \E m \in Methods : SendRequest(c, m)
  <2>1. PICK m \in Methods : SendRequest(c, m)
    BY <1>4
  <2>2. PICK split \in {FALSE, Splits} :
          /\ wire' = [wire EXCEPT ![c] = Append(@,
                        [part |-> IF split THEN "head" ELSE "all",
                         id |-> client[c].nreq + 1, method |-> m])]
          /\ client' = [client EXCEPT ![c].nreq = client[c].nreq + 1,
                                      ![c].tail = split]
    BY <2>1 DEF SendRequest
  <2> DEFINE u == [part |-> IF split THEN "head" ELSE "all",
                   id |-> client[c].nreq + 1, method |-> m]
  <2>3. client' = [client EXCEPT ![c] =
          [client[c] EXCEPT !.nreq = client[c].nreq + 1, !.tail = split]]
    BY <2>2
  <2>4. client[c].nreq + 1 \in 0 .. MaxRequests
    BY <2>1, ClientFields, RtspSessionAssumption DEF SendRequest
  <2>5. u \in Unit /\ u.method = m
    BY <2>4 DEF Unit
  <2>6. \A d \in Conns : client'[d].ok = client[d].ok
    BY <1>1, <2>3 DEF Client
  <2>7. wire' = [wire EXCEPT ![c] = Append(wire[c], u)]
    BY <2>2
  <2>8. /\ m = "SETUP" => "DESCRIBE" \in client[c].ok
        /\ m = "PLAY" => "SETUP" \in client[c].ok
    BY <2>1 DEF SendRequest, MaySend
  <2>9. /\ m = "PLAY" => stream[c] # "none"
        /\ m = "SETUP" => fileok
    BY <2>8 DEF PoliteInv, Backed, Good
  <2> HIDE DEF u
  <2> QED BY <1>3, <2>5, <2>6, <2>7, <2>9
<1>5. CASE SendTail(c)
  <2> DEFINE u == [part |-> "tail", id |-> client[c].nreq, method |-> "none"]
  <2>1. /\ wire' = [wire EXCEPT ![c] = Append(wire[c], u)]
        /\ client' = [client EXCEPT ![c] = [client[c] EXCEPT !.tail = FALSE]]
    BY <1>5 DEF SendTail
  <2>2. u \in Unit /\ u.method = "none"
    BY ClientFields DEF Unit
  <2>3. \A d \in Conns : client'[d].ok = client[d].ok
    BY <1>1, <2>1 DEF Client
  <2> HIDE DEF u
  <2> QED BY <1>3, <2>1, <2>2, <2>3
<1>6. CASE SendRtcp(c)
  <2> DEFINE u == [part |-> "rtcp", id |-> 0, method |-> "none"]
  <2>1. /\ wire' = [wire EXCEPT ![c] = Append(wire[c], u)]
        /\ client' = [client EXCEPT
                        ![c] = [client[c] EXCEPT !.nrtcp = client[c].nrtcp + 1]]
    BY <1>6 DEF SendRtcp
  <2>2. u \in Unit /\ u.method = "none"
    BY RtspSessionAssumption DEF Unit
  <2>3. \A d \in Conns : client'[d].ok = client[d].ok
    BY <1>1, <2>1 DEF Client
  <2> HIDE DEF u
  <2> QED BY <1>3, <2>1, <2>2, <2>3
<1>7. CASE Hangup(c)
  <2>1. /\ client' = [client EXCEPT ![c] = [client[c] EXCEPT !.closed = TRUE]]
        /\ wire' = wire
    BY <1>7 DEF Hangup
  <2>2. \A d \in Conns : client'[d].ok = client[d].ok
    BY <1>1, <2>1 DEF Client
  <2>3. \A d \in Conns : Waiting(d)' = Waiting(d) /\ Good(d)' = Good(d)
    BY <1>1, <2>1, <2>2 DEF Waiting, Good
  <2>4. \A d \in Conns : Backed(d)'
    BY <1>1, <2>3, BackedSame DEF PoliteInv
  <2> QED BY <1>2, <2>4 DEF PoliteInv
<1> QED BY <1>4, <1>5, <1>6, <1>7

-----------------------------------------------------------------------------
(* The server.                                                             *)

(* A reply to r joins the output.                                          *)
LEMMA GoodWrite ==
  ASSUME Typed, NEW c \in Conns, NEW r \in ARequest, NEW ok \in BOOLEAN,
         Write(c, Reply(r.id, r.method, ok)), UNCHANGED client
  PROVE  /\ Good(c)' \subseteq Good(c) \cup (IF ok THEN {r.method} ELSE {})
         /\ \A d \in Conns \ {c} : output'[d] = output[d]
<1> DEFINE u == Reply(r.id, r.method, ok)
<1>1. u \in Outputs /\ u.method = r.method /\ u.ok = ok
  BY ReplyMade DEF ARequest, Reply
<1>2. /\ output[c] \in Seq(Outputs) /\ output'[c] = Append(output[c], u)
      /\ \A d \in Conns \ {c} : output'[d] = output[d]
  BY DEF Write, Typed, BufferTyped
<1> HIDE DEF u
<1>3. GoodReplies(output'[c]) \subseteq
        GoodReplies(output[c]) \cup (IF u.kind = "reply" /\ u.ok
                                    THEN {u.method} ELSE {})
  BY <1>1, <1>2, GoodAppend
<1> QED BY <1>1, <1>2, <1>3 DEF Good

(* The first block of a file that has one is always found.                 *)
LEMMA SetupFinds ==
  ASSUME Typed, Block <= FileSize, NEW c \in Conns, File!Setup(c)
  PROVE  state'[c] = "open"
<1>1. File!FullBlock(File!Seek(position, 0))
  BY RtspSessionAssumption DEF File!FullBlock, File!Seek, File!CurPos
<1> QED BY <1>1 DEF File!Setup, Typed, FileTyped

LEMMA DealPolite ==
  ASSUME Block <= FileSize, Typed, Idle, NEW c \in Conns, Backed(c),
         NEW r \in ARequest,
         r.method = "PLAY" => stream[c] # "none",
         r.method = "SETUP" => fileok,
         DealSetup(c, r) \/ DealPlay(c, r) \/ DealOther(c, r),
         UNCHANGED <<client, fileok>>
  PROVE  /\ server' = "up"
         /\ stream[c] # "none" => stream'[c] # "none"
         /\ "SETUP" \in Good(c)' => stream'[c] # "none"
         /\ "DESCRIBE" \in Good(c)' => fileok
         /\ \A d \in Conns \ {c} : /\ output'[d] = output[d]
                                   /\ stream'[d] = stream[d]
<1>1. server = "up" /\ stream \in [Conns -> {"none", "ready", "play"}]
  BY DEF Idle, Typed, SessionTyped
<1>2. CASE DealOther(c, r)
  <2>1. PICK found \in BOOLEAN :
          /\ Write(c, Reply(r.id, r.method, found))
          /\ found => \/ r.method = "OPTIONS"
                      \/ r.method = "DESCRIBE" /\ fileok
    BY <1>2 DEF DealOther, Type
  <2>2. /\ Good(c)' \subseteq Good(c) \cup (IF found THEN {r.method} ELSE {})
        /\ \A d \in Conns \ {c} : output'[d] = output[d]
    BY <2>1, GoodWrite
  <2>3. UNCHANGED <<server, stream>>
    BY <1>2 DEF DealOther
  <2> QED BY <1>1, <2>1, <2>2, <2>3 DEF Backed
<1>3. CASE DealSetup(c, r)
  <2>1. r.method = "SETUP" /\ fileok
    BY <1>3 DEF DealSetup, Type
  <2>2. state'[c] = "open"
    BY <1>3, <2>1, SetupFinds DEF DealSetup
  <2>3. /\ stream' = [stream EXCEPT ![c] = "ready"] /\ server' = server
        /\ Write(c, Reply(r.id, r.method, TRUE))
    BY <1>3, <2>2 DEF DealSetup
  <2>4. /\ Good(c)' \subseteq Good(c) \cup {"SETUP"}
        /\ \A d \in Conns \ {c} : output'[d] = output[d]
    BY <2>1, <2>3, GoodWrite
  <2> QED BY <1>1, <2>1, <2>3, <2>4 DEF Backed
<1>4. CASE DealPlay(c, r)
  <2>1. stream[c] # "none"
    BY <1>4 DEF DealPlay, Type
  <2>2. UNCHANGED <<server, stream, output>>
    BY <1>4, <2>1 DEF DealPlay
  <2>3. Good(c)' = Good(c)
    BY <2>2 DEF Good
  <2> QED BY <1>1, <2>1, <2>2, <2>3 DEF Backed
<1> QED BY <1>2, <1>3, <1>4

LEMMA RecvPolite ==
  ASSUME Block <= FileSize, Typed, Turns, PoliteInv, NEW c \in Conns, Recv(c)
  PROVE  PoliteInv'
<1>1. PICK text \in Seq(Unit) :
        /\ DealRtsp(c, text)
        /\ Range(text) \cup Range(input'[c]) \cup Range(wire'[c])
             \subseteq Waiting(c)
  BY RecvQueued DEF Waiting
<1>2. /\ Idle /\ UNCHANGED <<client, fileok>>
      /\ \A d \in Conns \ {c} : input'[d] = input[d] /\ wire'[d] = wire[d]
      /\ Backed(c)
  BY RecvQueued DEF Recv, PoliteInv
<1>3. \A d \in Conns \ {c} : rtspinc'[d] = rtspinc[d]
  BY <1>1 DEF DealRtsp, Typed, SessionTyped
<1>4. \A d \in Conns \ {c} : Waiting(d)' = Waiting(d)
  BY <1>2, <1>3 DEF Waiting
<1>5. Waiting(c)' \subseteq Waiting(c)
  <2>1. rtspinc'[c] \in {text, <<>>}
    BY <1>1 DEF DealRtsp, Typed, SessionTyped
  <2>2. Range(<<>>) = {}
    BY DEF Range
  <2> QED BY <1>1, <2>1, <2>2 DEF Waiting
<1>6. ASSUME server' = "up",
             stream[c] # "none" => stream'[c] # "none",
             "SETUP" \in Good(c)' => stream'[c] # "none",
             "DESCRIBE" \in Good(c)' => fileok,
             \A d \in Conns \ {c} : /\ output'[d] = output[d]
                                   /\ stream'[d] = stream[d]
      PROVE  PoliteInv'
  <2>1. Backed(c)'
    BY <1>2, <1>5, <1>6 DEF Backed
  <2>2. \A d \in Conns \ {c} : Good(d)' = Good(d)
    BY <1>2, <1>6 DEF Good
  <2>3. \A d \in Conns \ {c} : Backed(d)'
    BY <1>2, <1>4, <1>6, <2>2, BackedSame DEF PoliteInv
  <2> QED BY <1>6, <2>1, <2>3 DEF PoliteInv, Known
<1>7. CASE Complete(text)
  <2>1. PICK r \in Request(text) :
               DealSetup(c, r) \/ DealPlay(c, r) \/ DealOther(c, r)
    BY <1>1, <1>7 DEF DealRtsp
  <2>2. r \in ARequest
    BY <1>7, RequestIsTyped
  <2>3. r.method # "none" => \E u \in Waiting(c) : u.method = r.method
    BY <1>1, RequestBacked
  <2>4. /\ r.method = "PLAY" => stream[c] # "none"
        /\ r.method = "SETUP" => fileok
    BY <1>2, <2>3 DEF Backed
  <2> QED BY <1>2, <1>6, <2>1, <2>2, <2>4, DealPolite
<1>8. CASE ~ Complete(text)
  <2>1. UNCHANGED <<server, stream, output>>
    BY <1>1, <1>8 DEF DealRtsp
  <2>2. Good(c)' = Good(c)
    BY <1>2, <2>1 DEF Good
  <2> QED BY <1>2, <1>6, <2>1, <2>2 DEF Backed, Idle
<1> QED BY <1>7, <1>8

LEMMA WriteReadyPolite ==
  ASSUME Typed, PoliteInv, NEW c \in Conns, WriteReady(c)
  PROVE  PoliteInv'
<1> DEFINE rest == IF output[c] = <<>> THEN <<>> ELSE Tail(output[c])
           k == IF output[c] = <<>> THEN client[c]
                ELSE Receive(client[c], Head(output[c]))
<1>1. /\ output[c] \in Seq(Outputs) /\ client[c] \in Client
      /\ UNCHANGED <<fileok, stype, stream, state, rtspinc, input, wire>>
      /\ server = "up"
  BY DEF WriteReady, Idle, session, file, Typed, BufferTyped, ClientTyped
<1>2. /\ output'[c] = rest /\ client'[c] = k
      /\ \A d \in Conns \ {c} : output'[d] = output[d] /\ client'[d] = client[d]
  BY DEF WriteReady, Typed, BufferTyped, ClientTyped
<1>3. k.ok \cup GoodReplies(rest) \subseteq Good(c)
  BY <1>1, GoodReceived DEF Good
<1>4. \A d \in Conns : Good(d)' \subseteq Good(d) /\ Waiting(d)' = Waiting(d)
  BY <1>1, <1>2, <1>3 DEF Good, Waiting
<1>5. server' = "up" \/ (server' = "fault" /\ StaleMemory(c))
  BY <1>1 DEF WriteReady, Send, StaleMemory
<1> HIDE DEF rest, k
<1>6. Known'
  BY <1>1, <1>5 DEF Known, StaleMemory
<1>7. \A d \in Conns : Backed(d)'
  BY <1>1, <1>4, BackedSame DEF PoliteInv
<1> QED BY <1>6, <1>7 DEF PoliteInv

LEMMA TCPForH264Polite ==
  ASSUME Typed, PoliteInv, NEW c \in Conns, TCPForH264(c)
  PROVE  PoliteInv'
<1>1. /\ server = "up" /\ busy = c
      /\ UNCHANGED <<fileok, rtspinc, input, wire, client>>
      /\ stream \in [Conns -> {"none", "ready", "play"}]
  BY DEF TCPForH264, Typed, SessionTyped
<1>2. \A d \in Conns : Waiting(d)' = Waiting(d)
  BY <1>1 DEF Waiting
<1>3. CASE SkipNode(c) \/ ReadBlock(c) \/ ReadNothing(c)
  <2>1. /\ UNCHANGED <<stream, output>>
        /\ server' = "up" \/ (server' = "fault" /\ state'[c] = "end")
    BY <1>1, <1>3 DEF SkipNode, ReadBlock, ReadNothing
  <2>2. \A d \in Conns : Good(d)' = Good(d)
    BY <1>1, <2>1 DEF Good
  <2>3. \A d \in Conns : Backed(d)'
    BY <1>1, <1>2, <2>1, <2>2, BackedSame DEF PoliteInv
  <2> QED BY <2>1, <2>3 DEF PoliteInv, Known
<1>4. CASE SendNode(c)
  <2>1. Finish(c) /\ server' = "up"
    BY <1>1, <1>4 DEF SendNode
  <2>2. PICK u \in Outputs :
          /\ Write(c, u)
          /\ u = IF task = Sending THEN Rtp(sqsnumber[c])
                 ELSE Reply(task, "PLAY", TRUE)
          /\ stream' = IF task = Sending THEN stream
                       ELSE [stream EXCEPT ![c] = "play"]
    BY <1>1, <2>1, FinishWrites
  <2>3. /\ output[c] \in Seq(Outputs) /\ output'[c] = Append(output[c], u)
        /\ \A d \in Conns \ {c} : output'[d] = output[d]
    BY <2>2 DEF Write, Typed, BufferTyped
  <2>4. u.kind = "reply" => u.method = "PLAY"
    BY <2>2 DEF Rtp, Reply
  <2>5. Good(c)' \subseteq Good(c) \cup {"PLAY"}
    <3>1. GoodReplies(output'[c]) \subseteq
            GoodReplies(output[c]) \cup (IF u.kind = "reply" /\ u.ok
                                        THEN {u.method} ELSE {})
      BY <2>3, GoodAppend
    <3> QED BY <1>1, <2>4, <3>1 DEF Good
  <2>6. \A d \in Conns : stream[d] # "none" => stream'[d] # "none"
    BY <1>1, <2>2
  <2>7. Backed(c)'
    BY <1>1, <1>2, <2>5, <2>6 DEF PoliteInv, Backed
  <2>8. \A d \in Conns \ {c} : Backed(d)'
    <3>1. \A d \in Conns \ {c} : Good(d)' = Good(d)
      BY <1>1, <2>3 DEF Good
    <3> QED BY <1>1, <1>2, <2>6, <3>1, BackedSame DEF PoliteInv
  <2> QED BY <2>1, <2>7, <2>8 DEF PoliteInv, Known
<1> QED BY <1>3, <1>4 DEF TCPForH264

LEMMA ConnectPolite ==
  ASSUME Typed, PoliteInv, NEW c \in Conns, Connect(c) \/ Disconnect(c)
  PROVE  PoliteInv'
<1>1. server' = "up" /\ fileok' = fileok
  BY DEF Connect, Disconnect, Idle
<1>2. CASE Connect(c)
  <2>1. UNCHANGED <<stream, rtspinc, input, output, wire, client>>
    BY <1>2 DEF Connect
  <2>2. \A d \in Conns : Good(d)' = Good(d) /\ Waiting(d)' = Waiting(d)
    BY <2>1 DEF Good, Waiting
  <2> QED BY <1>1, <2>1, <2>2, BackedSame DEF PoliteInv, Known
<1>3. CASE Disconnect(c)
  <2>1. /\ rtspinc'[c] = <<>> /\ input'[c] = <<>> /\ wire'[c] = <<>>
        /\ output'[c] = <<>> /\ client'[c] = NewClient
        /\ \A d \in Conns \ {c} :
             /\ rtspinc'[d] = rtspinc[d] /\ input'[d] = input[d]
             /\ wire'[d] = wire[d] /\ output'[d] = output[d]
             /\ client'[d] = client[d] /\ stream'[d] = stream[d]
    BY <1>3 DEF Disconnect, Typed, SessionTyped, BufferTyped, ClientTyped
  <2>2. Waiting(c)' = {} /\ Good(c)' = {}
    BY <2>1 DEF Waiting, Good, GoodReplies, Range, NewClient
  <2>3. \A d \in Conns \ {c} : Good(d)' = Good(d) /\ Waiting(d)' = Waiting(d)
    BY <2>1 DEF Good, Waiting
  <2>4. \A d \in Conns \ {c} : Backed(d)'
    BY <1>1, <2>1, <2>3, BackedSame DEF PoliteInv
  <2>5. Backed(c)'
    BY <2>2 DEF Backed
  <2> QED BY <1>1, <2>4, <2>5 DEF PoliteInv, Known
<1> QED BY <1>2, <1>3

LEMMA NextPolite ==
  ASSUME Polite, Block <= FileSize
  PROVE  Typed /\ Turns /\ PoliteInv /\ [Next]_vars => PoliteInv'
<1> SUFFICES ASSUME Typed, Turns, PoliteInv, [Next]_vars PROVE PoliteInv'
  OBVIOUS
<1>1. CASE UNCHANGED vars
  <2>1. UNCHANGED <<server, fileok, stype, stream, state, rtspinc, input,
                    output, wire, client>>
    BY <1>1 DEF vars, session, bufev, file
  <2>2. \A d \in Conns : Good(d)' = Good(d) /\ Waiting(d)' = Waiting(d)
    BY <2>1 DEF Good, Waiting
  <2> QED BY <2>1, <2>2, BackedSame DEF PoliteInv, Known, StaleMemory
<1>2. ASSUME NEW c \in Conns,
             \/ \E m \in Methods : SendRequest(c, m)
             \/ SendTail(c) \/ SendRtcp(c) \/ Hangup(c)
      PROVE  PoliteInv'
  BY <1>2, ClientPolite
<1>3. ASSUME NEW c \in Conns,
             Connect(c) \/ Recv(c) \/ WriteReady(c) \/ TCPForH264(c)
               \/ Disconnect(c)
      PROVE  PoliteInv'
  BY <1>3, ConnectPolite, RecvPolite, WriteReadyPolite, TCPForH264Polite
<1> QED BY <1>1, <1>2, <1>3 DEF Next

-----------------------------------------------------------------------------
(* However many clients keep to the protocol, in whatever pieces their     *)
(* requests arrive: the server stays up until a stream has met the end of  *)
(* the file or a new session's memory still says PLAY. No assertion fails. *)
THEOREM PoliteClientsAreServed ==
  ASSUME Polite, Block <= FileSize
  PROVE  Spec => []Known
<1>1. Init => Typed /\ Turns /\ PoliteInv
  <2> SUFFICES ASSUME Init PROVE PoliteInv
    BY InitTurns
  <2>1. \A c \in Conns : Waiting(c) = {} /\ Good(c) = {}
    <3> SUFFICES ASSUME NEW c \in Conns PROVE Waiting(c) = {} /\ Good(c) = {}
      OBVIOUS
    <3>1. /\ rtspinc[c] = <<>> /\ input[c] = <<>> /\ wire[c] = <<>>
          /\ output[c] = <<>> /\ client[c].ok = {}
      BY DEF Init, NewClient
    <3> QED BY <3>1 DEF Waiting, Good, GoodReplies, Range
  <2> QED BY <2>1 DEF Init, PoliteInv, Known, Backed
<1>2. Typed /\ Turns /\ PoliteInv /\ [Next]_vars => (Typed /\ Turns /\ PoliteInv)'
  BY NextTyped, NextTurns, NextPolite
<1>3. PoliteInv => Known
  BY DEF PoliteInv
<1> QED BY <1>1, <1>2, <1>3, PTL DEF Spec
=============================================================================
