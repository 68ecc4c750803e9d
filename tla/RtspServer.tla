----------------------------- MODULE RtspServer -----------------------------
(***************************************************************************)
(* The whole server: Network's loop runs one callback at a time, the       *)
(* listener's and the connections'. Listen_Cb makes a session and starts   *)
(* its bufferevent, Event_Cb ends both, and the callbacks in between use   *)
(* the session they were given as their argument.                          *)
(*                                                                         *)
(* A step of the list's Listen_Cb or Event_Cb is a step of RtspSession's   *)
(* Connect or Disconnect, and what RtspSession calls a session is the      *)
(* object arg leads to. left joins them further: a new session's info is   *)
(* not initialised, and may be what the last session at its address left.  *)
(***************************************************************************)
EXTENDS Integers, Sequences

CONSTANTS
  \* of MediaSessionList
  Conns, Objs, NULL, MaxCounter, StrictClock,
  \* of RtspSession
  None, Methods, Polite, Splits, ZeroedHeap, ChunkUnits, Cuts, SqsMod,
  MaxRequests, MaxRtcp, Block, FileSize, MaxBlocks

VARIABLES
  \* of MediaSessionList: loop is its server, socket its conn
  loop, listener, counter, socket, arg, heap, sessionid, SessionList,
  left,        \* info.stype of the last session at every address
  \* of RtspSession
  server, fileok, busy, task, rtspinc, stype, stream, queue, sqsnumber,
  input, output, ev_write, wire, client, position, filepos, cut, state

list == <<loop, listener, counter, socket, arg, heap, sessionid, SessionList>>
rtsp == <<server, fileok, busy, task, rtspinc, stype, stream, queue, sqsnumber,
          input, output, ev_write, wire, client, position, filepos, cut, state>>
vars == <<list, left, rtsp>>

(* A socket that got no bufferevent is no connection.                      *)
conn == [c \in Conns |-> IF socket[c] = "open" THEN "open" ELSE "none"]

List == INSTANCE MediaSessionList WITH server <- loop, conn <- socket
Rtsp == INSTANCE RtspSession

(* The constants are those of the parts.                                   *)
ASSUME ServerAssumption ==
  /\ List!ConstantsAssumption
  /\ Rtsp!RtspSessionAssumption /\ Rtsp!SessionWidthAssumption

Init ==
  /\ List!Init
  /\ left = [o \in Objs |-> "UNSET"]
  /\ Rtsp!Init

-----------------------------------------------------------------------------
(* The callbacks: the loop runs and no other callback is at work.          *)

(* The memory of a session that was deleted while it played may be the new *)
(* session's, and makes it one that plays.                                 *)
Connect(c) ==
  /\ List!Listen_Cb(c)
  /\ Rtsp!Connect(c)
  /\ stype'[c] = "PLAY" => left[arg'[c]] = "PLAY"
  /\ UNCHANGED left

ConnectNoBuffer(c) ==
  /\ Rtsp!Idle /\ List!ListenCbNoBuffer(c)
  /\ UNCHANGED <<left, rtsp>>

Disconnect(c) ==
  /\ List!Event_Cb(c)
  /\ left' = [left EXCEPT ![arg[c]] = stype[c]]
  /\ Rtsp!Disconnect(c)

Callback(c) ==
  /\ List!Dispatching
  /\ UNCHANGED <<list, left>>
  /\ Rtsp!Recv(c) \/ Rtsp!WriteReady(c) \/ Rtsp!TCPForH264(c)

(* When the process has ended, the connections have ended with it.         *)
ClientStep(c) ==
  /\ server = "up" /\ List!Dispatching
  /\ UNCHANGED <<list, left>>
  /\ \/ \E m \in Methods : Rtsp!SendRequest(c, m)
     \/ Rtsp!SendTail(c)
     \/ Rtsp!SendRtcp(c)
     \/ Rtsp!Hangup(c)

-----------------------------------------------------------------------------
(* _tmain and the signal's callback.                                       *)

Start ==
  /\ Rtsp!Idle
  /\ List!NetPrepare \/ List!StartServer \/ List!Signal_Cb
  /\ UNCHANGED <<left, rtsp>>

Stop ==
  /\ Rtsp!Idle
  /\ List!LoopExit
  /\ UNCHANGED <<left, rtsp>>

Next ==
  \/ Start
  \/ Stop
  \/ \E c \in Conns : \/ Connect(c)
                      \/ ConnectNoBuffer(c)
                      \/ Disconnect(c)
                      \/ Callback(c)
                      \/ ClientStep(c)

(* libevent looks at its timers, the end of the loop among them, in every  *)
(* round, whatever else is ready; a callback that has begun runs on.       *)
Fairness ==
  /\ SF_vars(Stop)
  /\ \A c \in Conns : WF_vars(List!Dispatching /\ UNCHANGED <<list, left>>
                                /\ Rtsp!TCPForH264(c))

Spec == Init /\ [][Next]_vars
FairSpec == Spec /\ Fairness

-----------------------------------------------------------------------------
(* Properties.                                                             *)

(* The connections, the list and the heap keep together: a stream, and a   *)
(* callback at work, belong to a session that is allocated and listed      *)
(* under its own id, and no other connection's stream has that session or  *)
(* that id.                                                                *)
StreamsHaveSessions ==
  \A c \in Conns : stream[c] # "none" \/ busy = c =>
    /\ arg[c] \in heap
    /\ SessionList[sessionid[arg[c]]] = arg[c]
    /\ \A d \in Conns \ {c} : stream[d] # "none" =>
                              sessionid[arg[d]] # sessionid[arg[c]]

(* However the streams move the shared FILE* between each other's reads, a *)
(* stream starts with the first block of the file, which is read with an   *)
(* absolute seek, and gets nothing but whole blocks, counted from the      *)
(* start: the relative seeks mix up the streams' places only by blocks,    *)
(* and a read that stops inside one, at the end of the file, is the last   *)
(* of the whole server, as its stream never leaves the thread again.       *)
BlocksOfTheFile ==
  \A c \in Conns :
    /\ state[c] \in {"open", "end"} => cut[c] # <<>> /\ cut[c][1] = 0
    /\ \A i \in DOMAIN cut[c] : cut[c][i] % Block = 0

(* Clients that keep to the protocol bring the server down only by         *)
(* reaching the end of the file, or when a new session starts in the       *)
(* memory of one that was deleted while it played.                         *)
OnlyKnownCrashes ==
  \/ server = "up" /\ loop # "crashed"
  \/ \E c \in Conns : state[c] = "end"
  \/ \E c \in Conns : /\ stype[c] = "PLAY" /\ stream[c] = "none"
                      /\ left[arg[c]] = "PLAY"

(* SIGINT ends the program, however busy the connections are, unless a     *)
(* stream has met the end of the file or the process has died.             *)
InterruptStops ==
  loop = "exiting" ~> loop = "stopped" \/ Rtsp!AtTheEnd \/ server # "up"
=============================================================================
