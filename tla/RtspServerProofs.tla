-------------------------- MODULE RtspServerProofs --------------------------
(* The composition keeps what its parts promise: every behaviour of the    *)
(* server is one of MediaSessionList and one of RtspSession, so what is    *)
(* proved about either holds for the server as a whole, for any number of  *)
(* connections, addresses and requests. With a strict counter the two      *)
(* together give every stream a session of its own.                        *)
EXTENDS RtspServer, TLAPS

LEMMA ListStep == [Next]_vars => [List!Next]_(List!vars)
<1> SUFFICES ASSUME [Next]_vars PROVE [List!Next]_(List!vars)
  OBVIOUS
<1>1. CASE Start \/ Stop
  BY <1>1 DEF Start, Stop, List!Next
<1>2. ASSUME NEW c \in Conns, Connect(c) \/ ConnectNoBuffer(c) \/ Disconnect(c)
      PROVE  List!Next
  BY <1>2 DEF Connect, ConnectNoBuffer, Disconnect, List!Next
<1>3. ASSUME NEW c \in Conns, Callback(c) \/ ClientStep(c)
      PROVE  UNCHANGED List!vars
  BY <1>3 DEF Callback, ClientStep, list, List!vars
<1>4. CASE UNCHANGED vars
  BY <1>4 DEF vars, list, List!vars
<1> QED BY <1>1, <1>2, <1>3, <1>4 DEF Next

LEMMA SameConns == UNCHANGED socket => UNCHANGED conn
BY DEF conn

LEMMA RtspStep == [Next]_vars => [Rtsp!Next]_(Rtsp!vars)
<1> SUFFICES ASSUME [Next]_vars PROVE [Rtsp!Next]_(Rtsp!vars)
  OBVIOUS
<1>1. ASSUME UNCHANGED rtsp, UNCHANGED conn PROVE UNCHANGED Rtsp!vars
  BY <1>1 DEF rtsp, Rtsp!vars, Rtsp!session, Rtsp!bufev, Rtsp!file
<1>2. CASE Start \/ Stop
  <2>1. UNCHANGED socket
    BY <1>2 DEF Start, Stop, List!NetPrepare, List!StartServer,
                List!Signal_Cb, List!LoopExit
  <2> QED BY <1>1, <1>2, <2>1, SameConns DEF Start, Stop
<1>3. ASSUME NEW c \in Conns, Connect(c) \/ Disconnect(c) \/ Callback(c)
      PROVE  Rtsp!Next
  BY <1>3 DEF Connect, Disconnect, Callback, Rtsp!Next
<1>4. ASSUME NEW c \in Conns, ClientStep(c) PROVE Rtsp!Next
  BY <1>4 DEF ClientStep, Rtsp!Next
<1>5. ASSUME NEW c \in Conns, ConnectNoBuffer(c) PROVE UNCHANGED Rtsp!vars
  <2>1. UNCHANGED conn
    BY <1>5 DEF ConnectNoBuffer, List!ListenCbNoBuffer, conn
  <2> QED BY <1>1, <1>5, <2>1 DEF ConnectNoBuffer
<1>6. CASE UNCHANGED vars
  BY <1>1, <1>6, SameConns DEF vars, list
<1> QED BY <1>2, <1>3, <1>4, <1>5, <1>6 DEF Next

(* The server implements the session list and the sessions at once: the    *)
(* joint steps never let one part go where it could not go alone.          *)
THEOREM Composition == Spec => List!Spec /\ Rtsp!Spec
<1>1. Init => List!Init /\ Rtsp!Init
  BY DEF Init
<1> QED BY <1>1, ListStep, RtspStep, PTL DEF Spec, List!Spec, Rtsp!Spec

-----------------------------------------------------------------------------
(* A stream, and a callback at work, belong to an open connection.         *)
Attached ==
  /\ stream \in [Conns -> {"none", "ready", "play"}]
  /\ \A c \in Conns : stream[c] # "none" \/ busy = c => socket[c] = "open"

LEMMA InitAttached == Init => Attached
BY ServerAssumption DEF Rtsp!RtspSessionAssumption, Init, Rtsp!Init, Attached

LEMMA ConnOpen == \A c \in Conns : conn[c] = "open" <=> socket[c] = "open"
BY DEF conn

(* DealRtsp changes only the stream of its connection, and only its own    *)
(* callback can be at work afterwards.                                     *)
LEMMA RecvAttached ==
  ASSUME Attached, UNCHANGED list, NEW c \in Conns, Rtsp!Recv(c)
  PROVE  Attached'
<1>1. socket[c] = "open"
  BY ConnOpen DEF Rtsp!Recv
<1>2. /\ stream' = stream \/ stream' = [stream EXCEPT ![c] = "ready"]
      /\ busy' = busy \/ busy' = c
  <2>1. PICK text : Rtsp!DealRtsp(c, text)
    BY DEF Rtsp!Recv
  <2>2. CASE ~ Rtsp!Complete(text)
    BY <2>1, <2>2 DEF Rtsp!DealRtsp
  <2>3. ASSUME NEW r, Rtsp!DealSetup(c, r)
        PROVE  stream' \in {stream, [stream EXCEPT ![c] = "ready"]}
               /\ busy' = busy
    BY <2>3 DEF Rtsp!DealSetup
  <2>4. ASSUME NEW r, Rtsp!DealPlay(c, r) \/ Rtsp!DealOther(c, r)
        PROVE  stream' = stream /\ busy' \in {busy, c}
    BY <2>4 DEF Rtsp!DealPlay, Rtsp!DealOther
  <2> QED BY <2>1, <2>2, <2>3, <2>4 DEF Rtsp!DealRtsp
<1> QED BY <1>1, <1>2 DEF Attached, list

LEMMA WriteReadyAttached ==
  ASSUME Attached, UNCHANGED list, NEW c \in Conns, Rtsp!WriteReady(c)
  PROVE  Attached'
<1>1. socket[c] = "open"
  BY ConnOpen DEF Rtsp!WriteReady
<1>2. stream' = stream /\ busy' \in {busy, c}
  BY DEF Rtsp!WriteReady, Rtsp!Send, Rtsp!session
<1> QED BY <1>1, <1>2 DEF Attached, list

LEMMA TCPForH264Attached ==
  ASSUME Attached, UNCHANGED list, NEW c \in Conns, Rtsp!TCPForH264(c)
  PROVE  Attached'
<1>1. busy = c /\ socket[c] = "open"
  BY DEF Rtsp!TCPForH264, Attached
<1>2. /\ stream' \in {stream, [stream EXCEPT ![c] = "play"]}
      /\ busy' \in {busy, None}
  BY DEF Rtsp!TCPForH264, Rtsp!SkipNode, Rtsp!SendNode, Rtsp!ReadBlock,
         Rtsp!ReadNothing, Rtsp!Finish
<1> QED BY <1>1, <1>2, ServerAssumption
        DEF Rtsp!RtspSessionAssumption, Attached, list

LEMMA NextAttached == Attached /\ [Next]_vars => Attached'
<1> SUFFICES ASSUME Attached, [Next]_vars PROVE Attached'
  OBVIOUS
<1>1. ASSUME NEW c \in Conns, Connect(c) PROVE Attached'
  BY <1>1 DEF Connect, List!Listen_Cb, Rtsp!Connect, Attached
<1>2. ASSUME NEW c \in Conns, Disconnect(c) PROVE Attached'
  <2>1. /\ socket' = [socket EXCEPT ![c] = "none"]
        /\ stream' = [stream EXCEPT ![c] = "none"]
        /\ busy = None /\ busy' = None
    BY <1>2 DEF Disconnect, List!Event_Cb, Rtsp!Disconnect, Rtsp!Idle
  <2> QED BY <2>1, ServerAssumption DEF Rtsp!RtspSessionAssumption, Attached
<1>3. ASSUME NEW c \in Conns, Callback(c) PROVE Attached'
  BY <1>3, RecvAttached, WriteReadyAttached, TCPForH264Attached DEF Callback
<1>4. ASSUME NEW c \in Conns, ConnectNoBuffer(c) PROVE Attached'
  BY <1>4 DEF ConnectNoBuffer, List!ListenCbNoBuffer, rtsp, Attached
<1>5. ASSUME UNCHANGED <<socket, stream, busy>> PROVE Attached'
  BY <1>5 DEF Attached
<1>6. ASSUME NEW c \in Conns, ClientStep(c) PROVE Attached'
  BY <1>5, <1>6 DEF ClientStep, list, Rtsp!SendRequest, Rtsp!SendTail,
     Rtsp!SendRtcp, Rtsp!Hangup, Rtsp!session
<1>7. CASE Start \/ Stop
  BY <1>5, <1>7 DEF Start, Stop, rtsp, List!NetPrepare, List!StartServer,
     List!Signal_Cb, List!LoopExit
<1>8. CASE UNCHANGED vars
  BY <1>5, <1>8 DEF vars, list, rtsp
<1> QED BY <1>1, <1>2, <1>3, <1>4, <1>6, <1>7, <1>8 DEF Next

-----------------------------------------------------------------------------
(* What MediaSessionListProofs proves of the list.                         *)
Sessions == INSTANCE MediaSessionListProofs WITH server <- loop, conn <- socket

LEMMA SameList ==
  /\ List!Init => Sessions!Init
  /\ [List!Next]_(List!vars) => [Sessions!Next]_(Sessions!vars)
<1>1. List!Init => Sessions!Init
  BY DEF List!Init, Sessions!Init, List!Ids, Sessions!Ids
<1>2. \A c \in Conns :
        /\ List!ListenCbNoBuffer(c) => Sessions!ListenCbNoBuffer(c)
        /\ List!Listen_Cb(c) => Sessions!Listen_Cb(c)
        /\ List!Event_Cb(c) => Sessions!Event_Cb(c)
  BY Zenon
     DEF List!ListenCbNoBuffer, List!Listen_Cb, List!Event_Cb,
         List!Dispatching, List!GenSessionID, List!SessionInsert, List!Ids,
         List!GetSessionID, List!SessionDel, Sessions!ListenCbNoBuffer,
         Sessions!Listen_Cb, Sessions!Event_Cb, Sessions!Dispatching,
         Sessions!GenSessionID, Sessions!SessionInsert, Sessions!Ids,
         Sessions!GetSessionID, Sessions!SessionDel
<1>3. List!Next => Sessions!Next
  BY <1>2 DEF List!Next, Sessions!Next, List!NetPrepare, List!StartServer,
     List!Signal_Cb, List!LoopExit, List!Dispatching, Sessions!NetPrepare,
     Sessions!StartServer, Sessions!Signal_Cb, Sessions!LoopExit,
     Sessions!Dispatching
<1>4. UNCHANGED List!vars => UNCHANGED Sessions!vars
  BY DEF List!vars, Sessions!vars
<1> QED BY <1>1, <1>3, <1>4

LEMMA OwnSessions ==
  Attached /\ Sessions!NoDanglingSession /\ Sessions!SessionFound
    => StreamsHaveSessions
<1> SUFFICES ASSUME Attached, Sessions!NoDanglingSession,
                    Sessions!SessionFound,
                    NEW c \in Conns, stream[c] # "none" \/ busy = c
             PROVE  /\ arg[c] \in heap
                    /\ SessionList[sessionid[arg[c]]] = arg[c]
                    /\ \A d \in Conns \ {c} : stream[d] # "none" =>
                         sessionid[arg[d]] # sessionid[arg[c]]
  BY DEF StreamsHaveSessions
<1>1. c \in Sessions!Open
  BY DEF Attached, Sessions!Open
<1>2. ASSUME NEW d \in Conns \ {c}, stream[d] # "none"
      PROVE  sessionid[arg[d]] # sessionid[arg[c]]
  <2>1. d \in Sessions!Open
    BY <1>2 DEF Attached, Sessions!Open
  <2>2. arg[d] # arg[c]
    BY <1>1, <1>2, <2>1 DEF Sessions!NoDanglingSession
  <2> QED BY <1>1, <2>1, <2>2 DEF Sessions!SessionFound
<1> QED BY <1>1, <1>2 DEF Sessions!NoDanglingSession, Sessions!SessionFound

(* However connections come and go and whatever their clients ask for, a   *)
(* stream sends under a session that is allocated, listed and its own.     *)
THEOREM StreamsOwnSessions ==
  ASSUME StrictClock
  PROVE  Spec => []StreamsHaveSessions
<1>1. Sessions!ConstantsAssumption
  BY ServerAssumption DEF List!ConstantsAssumption, Sessions!ConstantsAssumption
<1>2. Sessions!Spec => [](/\ Sessions!TypeOK /\ Sessions!NoDanglingSession
                          /\ Sessions!SessionFound /\ Sessions!ListConsistent
                          /\ Sessions!NoSessionLeak /\ Sessions!NeverCrashed)
  BY <1>1, Sessions!Safety, PTL
<1>3. Init => Sessions!Init
  BY SameList DEF Init
<1>4. [Next]_vars => [Sessions!Next]_(Sessions!vars)
  BY ListStep, SameList
<1> QED BY <1>2, <1>3, <1>4, InitAttached, NextAttached, OwnSessions, PTL
        DEF Spec, Sessions!Spec

-----------------------------------------------------------------------------
Streams == INSTANCE RtspSessionProofs

LEMMA SameInit == Rtsp!Init => Streams!Init
BY DEF Rtsp!Init, Streams!Init, Rtsp!File!Init, Streams!File!Init,
       Rtsp!NoTask, Streams!NoTask, Rtsp!NewClient, Streams!NewClient

(* The module that proves about RtspSession has definitions of its own for *)
(* the same actions.                                                       *)
LEMMA SameVars ==
  UNCHANGED Rtsp!vars => UNCHANGED Streams!vars
BY DEF Rtsp!vars, Streams!vars, Rtsp!session, Streams!session, Rtsp!bufev,
       Streams!bufev, Rtsp!file, Streams!file

LEMMA SameClients ==
  ASSUME NEW c \in Conns
  PROVE  /\ \A m \in Methods : Rtsp!SendRequest(c, m) => Streams!SendRequest(c, m)
         /\ Rtsp!SendTail(c) => Streams!SendTail(c)
         /\ Rtsp!SendRtcp(c) => Streams!SendRtcp(c)
         /\ Rtsp!Hangup(c) => Streams!Hangup(c)
BY Zenon
   DEF Rtsp!SendRequest, Streams!SendRequest, Rtsp!MaySend, Streams!MaySend,
       Rtsp!SendTail, Streams!SendTail, Rtsp!SendRtcp, Streams!SendRtcp,
       Rtsp!Hangup, Streams!Hangup, Rtsp!session, Streams!session, Rtsp!bufev,
       Streams!bufev, Rtsp!file, Streams!file

LEMMA SameLife ==
  ASSUME NEW c \in Conns
  PROVE  /\ Rtsp!Connect(c) => Streams!Connect(c)
         /\ Rtsp!Disconnect(c) => Streams!Disconnect(c)
BY Zenon
   DEF Rtsp!Connect, Streams!Connect, Rtsp!Disconnect, Streams!Disconnect,
       Rtsp!Idle, Streams!Idle, Rtsp!NewClient, Streams!NewClient,
       Rtsp!EndStream, Streams!EndStream, Rtsp!File!Drop, Streams!File!Drop,
       Rtsp!session, Streams!session, Rtsp!bufev, Streams!bufev, Rtsp!file,
       Streams!file

LEMMA SameWrites ==
  ASSUME NEW c \in Conns
  PROVE  Rtsp!WriteReady(c) => Streams!WriteReady(c)
BY Zenon
   DEF Rtsp!WriteReady, Streams!WriteReady, Rtsp!Idle, Streams!Idle,
       Rtsp!Send, Streams!Send, Rtsp!Sending, Streams!Sending, Rtsp!Receive,
       Streams!Receive, Rtsp!session, Streams!session, Rtsp!file, Streams!file

LEMMA SameLoop ==
  ASSUME NEW c \in Conns
  PROVE  Rtsp!TCPForH264(c) => Streams!TCPForH264(c)
BY Zenon
   DEF Rtsp!TCPForH264, Streams!TCPForH264, Rtsp!SkipNode, Streams!SkipNode,
       Rtsp!SendNode, Streams!SendNode, Rtsp!ReadBlock, Streams!ReadBlock,
       Rtsp!ReadNothing, Streams!ReadNothing, Rtsp!Take, Streams!Take,
       Rtsp!Finish, Streams!Finish, Rtsp!Write, Streams!Write, Rtsp!Reply,
       Streams!Reply, Rtsp!Rtp, Streams!Rtp, Rtsp!NoTask, Streams!NoTask,
       Rtsp!Sending, Streams!Sending, Rtsp!file, Streams!file,
       Rtsp!File!Refill, Streams!File!Refill, Rtsp!File!Seek,
       Streams!File!Seek, Rtsp!File!CurPos, Streams!File!CurPos,
       Rtsp!File!FullBlock, Streams!File!FullBlock, Rtsp!File!AfterRead,
       Streams!File!AfterRead

LEMMA SameDeal ==
  ASSUME NEW c \in Conns, NEW r
  PROVE  /\ Rtsp!DealSetup(c, r) => Streams!DealSetup(c, r)
         /\ Rtsp!DealPlay(c, r) => Streams!DealPlay(c, r)
         /\ Rtsp!DealOther(c, r) => Streams!DealOther(c, r)
BY Zenon
   DEF Rtsp!DealSetup, Streams!DealSetup, Rtsp!DealPlay, Streams!DealPlay,
       Rtsp!DealOther, Streams!DealOther, Rtsp!Type, Streams!Type, Rtsp!Write,
       Streams!Write, Rtsp!Reply, Streams!Reply, Rtsp!file, Streams!file,
       Rtsp!File!Setup, Streams!File!Setup, Rtsp!File!SetupNoFile,
       Streams!File!SetupNoFile, Rtsp!File!Seek, Streams!File!Seek,
       Rtsp!File!CurPos, Streams!File!CurPos, Rtsp!File!FullBlock,
       Streams!File!FullBlock, Rtsp!File!AfterRead, Streams!File!AfterRead

LEMMA SameText ==
  ASSUME NEW text
  PROVE  /\ Rtsp!Complete(text) <=> Streams!Complete(text)
         /\ Rtsp!Request(text) = Streams!Request(text)
         /\ Rtsp!Appended(text) = Streams!Appended(text)
BY DEF Rtsp!Complete, Streams!Complete, Rtsp!Request, Streams!Request,
       Rtsp!FirstLine, Streams!FirstLine, Rtsp!Appended, Streams!Appended

LEMMA SameDealRtsp ==
  ASSUME NEW c \in Conns, NEW text
  PROVE  Rtsp!DealRtsp(c, text) => Streams!DealRtsp(c, text)
BY SameText, SameDeal DEF Rtsp!DealRtsp, Streams!DealRtsp, Rtsp!file, Streams!file

LEMMA SameRecv ==
  ASSUME NEW c \in Conns
  PROVE  Rtsp!Recv(c) => Streams!Recv(c)
<1> SUFFICES ASSUME Rtsp!Recv(c) PROVE Streams!Recv(c)
  OBVIOUS
<1> DEFINE in(m) == input[c] \o SubSeq(wire[c], 1, m)
           n(m) == IF Len(in(m)) < ChunkUnits THEN Len(in(m)) ELSE ChunkUnits
           chunk(m) == SubSeq(in(m), 1, n(m))
<1>1. PICK m \in 1 .. Len(wire[c]) :
        /\ wire' = [wire EXCEPT ![c] = SubSeq(@, m + 1, Len(@))]
        /\ input' = [input EXCEPT ![c] = SubSeq(in(m), n(m) + 1, Len(in(m)))]
        /\ \E k \in Rtsp!Appended(chunk(m)) :
             Rtsp!DealRtsp(c, rtspinc[c] \o SubSeq(chunk(m), 1, k))
  BY Zenon DEF Rtsp!Recv
<1>2. \E k \in Streams!Appended(chunk(m)) :
        Streams!DealRtsp(c, rtspinc[c] \o SubSeq(chunk(m), 1, k))
  <2> HIDE DEF chunk
  <2> QED BY Zenon, <1>1, SameText, SameDealRtsp
<1>3. Streams!Idle /\ conn[c] = "open" /\ wire[c] # <<>>
      /\ UNCHANGED <<fileok, conn, client>>
  BY DEF Rtsp!Recv, Rtsp!Idle, Streams!Idle
<1> QED BY Zenon, <1>1, <1>2, <1>3 DEF Streams!Recv

LEMMA SameRtsp == [Rtsp!Next]_(Rtsp!vars) => [Streams!Next]_(Streams!vars)
<1>1. Rtsp!Next => Streams!Next
  BY SameClients, SameLife, SameWrites, SameLoop, SameRecv
     DEF Rtsp!Next, Streams!Next
<1> QED BY <1>1, SameVars

-----------------------------------------------------------------------------
(* The shared file.                                                        *)

LEMMA ServerStreams ==
  /\ Streams!RtspSessionAssumption /\ Streams!SessionWidthAssumption
  /\ Spec => Streams!Spec
<1>1. Streams!RtspSessionAssumption /\ Streams!SessionWidthAssumption
  BY ServerAssumption
     DEF Rtsp!RtspSessionAssumption, Streams!RtspSessionAssumption,
         Rtsp!SessionWidthAssumption, Streams!SessionWidthAssumption,
         Rtsp!AllMethods, Streams!AllMethods
<1>2. Init => Streams!Init
  BY SameInit DEF Init
<1>3. [Next]_vars => [Streams!Next]_(Streams!vars)
  BY RtspStep, SameRtsp
<1> QED BY <1>1, <1>2, <1>3, PTL DEF Spec, Streams!Spec

(* Each stream of the server starts with the first block of the file and   *)
(* is only given blocks of the file, for any number of connections and in  *)
(* whatever order their clients make them read.                            *)
THEOREM StreamsGetBlocksOfTheFile == Spec => []BlocksOfTheFile
<1>1. Streams!Spec => []Streams!File!FirstBlockFirst
  BY ServerStreams, Streams!StreamsStartAtFirstBlock
<1> DEFINE Whole == \A c \in Conns : \A i \in DOMAIN cut[c] :
                      cut[c][i] % Block = 0
<1>2. Streams!Spec => []Whole
  BY ServerStreams, Streams!BlocksAreWhole
<1>3. Streams!File!FirstBlockFirst /\ Whole => BlocksOfTheFile
  BY DEF Streams!File!FirstBlockFirst, BlocksOfTheFile
<1> HIDE DEF Whole
<1> QED BY <1>1, <1>2, <1>3, ServerStreams, PTL

-----------------------------------------------------------------------------
(* What a new session's memory says was left there by one that played.     *)
Stale(c) == stype[c] = "PLAY" /\ stream[c] = "none"

Remembered ==
  server # "assert" =>
    \A c \in Conns : Stale(c) => socket[c] = "open" /\ left[arg[c]] = "PLAY"

Tables ==
  /\ stype \in [Conns -> Streams!STypes]
  /\ stream \in [Conns -> {"none", "ready", "play"}]

LEMMA TypedTables == Streams!TypeOK => Tables
BY DEF Streams!TypeOK, Streams!STypes, Tables

(* DealRtsp lets a session play only if it has a stream, or it asserts.    *)
LEMMA RecvStale ==
  ASSUME NEW c \in Conns, Rtsp!Recv(c), server' # "assert",
         Tables
  PROVE  /\ server = "up"
         /\ \A d \in Conns : Stale(d)' => Stale(d)
<1>1. PICK text : Rtsp!DealRtsp(c, text)
  BY DEF Rtsp!Recv
<1>2. CASE ~ Rtsp!Complete(text)
  BY <1>1, <1>2 DEF Rtsp!DealRtsp, Rtsp!Recv, Rtsp!Idle, Stale
<1>3. ASSUME NEW r, Rtsp!DealSetup(c, r)
      PROVE  \A d \in Conns : Stale(d)' => Stale(d)
  BY <1>3 DEF Rtsp!DealSetup, Stale, Tables
<1>4. ASSUME NEW r, Rtsp!DealPlay(c, r)
      PROVE  \A d \in Conns : Stale(d)' => Stale(d)
  BY <1>4 DEF Rtsp!DealPlay, Stale, Tables
<1>5. ASSUME NEW r, Rtsp!DealOther(c, r)
      PROVE  \A d \in Conns : Stale(d)' => Stale(d)
  BY <1>5 DEF Rtsp!DealOther, Rtsp!Type, Stale, Tables
<1> QED BY <1>1, <1>2, <1>3, <1>4, <1>5
        DEF Rtsp!DealRtsp, Rtsp!Recv, Rtsp!Idle

(* What the list promises; left holds a type for every address.            *)
ListSound == Sessions!TypeOK /\ Sessions!NoDanglingSession

LeftTyped == left \in [Objs -> Streams!STypes]

LEMMA NextLeft == ListSound /\ Tables /\ LeftTyped /\ [Next]_vars => LeftTyped'
<1> SUFFICES ASSUME Tables, LeftTyped, [Next]_vars PROVE LeftTyped'
  OBVIOUS
<1>1. ASSUME NEW c \in Conns, Disconnect(c) PROVE LeftTyped'
  BY <1>1 DEF Disconnect, LeftTyped, Tables
<1>2. ASSUME UNCHANGED left PROVE LeftTyped'
  BY <1>2 DEF LeftTyped
<1> QED BY <1>1, <1>2 DEF Next, Start, Stop, Connect, ConnectNoBuffer,
        Callback, ClientStep, vars

LEMMA NextRemembered ==
  /\ ListSound /\ Tables /\ LeftTyped /\ Remembered /\ [Next]_vars
  /\ server' # "assert"
  => Remembered'
<1> SUFFICES ASSUME ListSound, Tables, LeftTyped, Remembered, [Next]_vars,
                    server' # "assert", NEW d \in Conns, Stale(d)'
             PROVE  socket'[d] = "open" /\ left'[arg'[d]] = "PLAY"
  BY DEF Remembered
<1> DEFINE Goal == socket'[d] = "open" /\ left'[arg'[d]] = "PLAY"
<1>1. Stale(d) /\ server # "assert" => socket[d] = "open" /\ left[arg[d]] = "PLAY"
  BY DEF Remembered
<1>2. ASSUME UNCHANGED <<socket, arg, left>>, Stale(d), server # "assert"
      PROVE  Goal
  BY <1>1, <1>2
<1>3. ASSUME NEW c \in Conns, Connect(c) PROVE Goal
  <2>1. /\ stype'[c] = "PLAY" => left[arg'[c]] = "PLAY"
        /\ left' = left /\ stream' = stream /\ server = "up"
        /\ \E t : stype' = [stype EXCEPT ![c] = t]
        /\ socket' = [socket EXCEPT ![c] = "open"]
        /\ \E o : arg' = [arg EXCEPT ![c] = o]
    BY <1>3 DEF Connect, Rtsp!Connect, Rtsp!Idle, List!Listen_Cb
  <2>2. CASE d = c
    BY <2>1, <2>2 DEF Stale, ListSound, Sessions!TypeOK
  <2>3. CASE d # c
    BY <1>1, <2>1, <2>3 DEF Stale, ListSound, Sessions!TypeOK, Tables
  <2> QED BY <2>2, <2>3
<1>4. ASSUME NEW c \in Conns, Disconnect(c) PROVE Goal
  <2>1. /\ left' = [left EXCEPT ![arg[c]] = stype[c]] /\ server = "up"
        /\ stype' = [stype EXCEPT ![c] = "UNSET"]
        /\ stream' = [stream EXCEPT ![c] = "none"]
        /\ socket[c] = "open" /\ socket' = [socket EXCEPT ![c] = "none"]
        /\ arg' = [arg EXCEPT ![c] = NULL]
    BY <1>4 DEF Disconnect, Rtsp!Disconnect, Rtsp!Idle, List!Event_Cb
  <2>2. d # c /\ Stale(d)
    BY <2>1 DEF Stale, Tables
  <2>3. socket[d] = "open" /\ left[arg[d]] = "PLAY"
    BY <1>1, <2>1, <2>2
  <2>4. arg[d] # arg[c] /\ arg[d] \in Objs
    BY <2>1, <2>2, <2>3
       DEF ListSound, Sessions!NoDanglingSession, Sessions!TypeOK, Sessions!Open
  <2> QED BY <2>1, <2>2, <2>3, <2>4 DEF ListSound, Sessions!TypeOK, LeftTyped
<1>5. ASSUME NEW c \in Conns, Callback(c) PROVE Goal
  <2>1. UNCHANGED <<socket, arg, left>>
    BY <1>5 DEF Callback, list
  <2>2. CASE Rtsp!Recv(c)
    BY <1>2, <2>1, <2>2, RecvStale
  <2>3. CASE Rtsp!WriteReady(c)
    BY <1>2, <2>1, <2>3 DEF Rtsp!WriteReady, Rtsp!Idle, Rtsp!session, Stale
  <2>4. CASE Rtsp!TCPForH264(c)
    <3>1. /\ stype' = stype /\ server = "up"
          /\ stream' \in {stream, [stream EXCEPT ![c] = "play"]}
      BY <2>4 DEF Rtsp!TCPForH264, Rtsp!SkipNode, Rtsp!SendNode,
         Rtsp!ReadBlock, Rtsp!ReadNothing, Rtsp!Finish
    <3> QED BY <1>2, <2>1, <3>1 DEF Stale, Tables
  <2> QED BY <1>5, <2>2, <2>3, <2>4 DEF Callback
<1>6. ASSUME NEW c \in Conns, ConnectNoBuffer(c) PROVE Goal
  <2>1. /\ UNCHANGED <<stype, stream, left, arg>> /\ server = "up"
        /\ socket[c] = "none" /\ socket' = [socket EXCEPT ![c] = "orphan"]
    BY <1>6 DEF ConnectNoBuffer, rtsp, List!ListenCbNoBuffer, Rtsp!Idle
  <2> QED BY <1>1, <2>1 DEF Stale, ListSound, Sessions!TypeOK
<1>7. ASSUME NEW c \in Conns, ClientStep(c) PROVE Goal
  BY <1>2, <1>7 DEF ClientStep, list, Stale, Rtsp!SendRequest, Rtsp!SendTail,
     Rtsp!SendRtcp, Rtsp!Hangup, Rtsp!session
<1>8. CASE Start \/ Stop
  BY <1>2, <1>8 DEF Start, Stop, rtsp, Stale, List!NetPrepare,
     List!StartServer, List!Signal_Cb, List!LoopExit
<1>9. CASE UNCHANGED vars
  BY <1>2, <1>9 DEF vars, list, rtsp, Stale
<1> QED BY <1>3, <1>4, <1>5, <1>6, <1>7, <1>8, <1>9 DEF Next

LEMMA OnlyKnown ==
  Streams!Known /\ Remembered /\ Sessions!NeverCrashed => OnlyKnownCrashes
BY DEF Streams!Known, Streams!StaleMemory, Remembered, Stale,
   Sessions!NeverCrashed, OnlyKnownCrashes

(* However many clients keep to the protocol, come and go: the server goes *)
(* down only when a stream has met the end of the file, or when a session  *)
(* was made in the memory of one that was deleted while it played.         *)
THEOREM PoliteServerStaysUp ==
  ASSUME StrictClock, Polite, Block <= FileSize
  PROVE  Spec => []OnlyKnownCrashes
<1>1. Sessions!ConstantsAssumption
  BY ServerAssumption DEF List!ConstantsAssumption, Sessions!ConstantsAssumption
<1>2. Sessions!Spec => [](ListSound /\ Sessions!NeverCrashed)
  BY <1>1, Sessions!Safety, PTL DEF ListSound
<1>3. Streams!RtspSessionAssumption /\ Streams!SessionWidthAssumption
  BY ServerStreams
<1>4. Streams!Spec => []Streams!Known
  BY <1>3, Streams!PoliteClientsAreServed
<1>5. Streams!Spec => []Tables
  BY <1>3, Streams!TypeCorrectness, TypedTables, PTL
<1>6. Init => /\ Sessions!Init /\ Streams!Init /\ LeftTyped /\ Remembered
  BY SameList, SameInit
     DEF Init, Rtsp!Init, LeftTyped, Remembered, Stale, Streams!STypes
<1>7. [Next]_vars => /\ [Sessions!Next]_(Sessions!vars)
                     /\ [Streams!Next]_(Streams!vars)
  BY ListStep, SameList, RtspStep, SameRtsp
<1>8. Streams!Known' => server' # "assert"
  BY DEF Streams!Known
<1>9. /\ LeftTyped /\ Remembered /\ [Next]_vars
      /\ ListSound /\ Tables /\ Streams!Known'
      => (LeftTyped /\ Remembered)'
  BY <1>8, NextLeft, NextRemembered
<1>10. Spec => Sessions!Spec /\ Streams!Spec
  BY <1>6, <1>7, PTL DEF Spec, Sessions!Spec, Streams!Spec
<1>11. Spec => [](LeftTyped /\ Remembered)
  BY <1>2, <1>4, <1>5, <1>6, <1>9, <1>10, PTL DEF Spec
<1> QED BY <1>2, <1>4, <1>10, <1>11, OnlyKnown, PTL
=============================================================================
