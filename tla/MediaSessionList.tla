-------------------------- MODULE MediaSessionList --------------------------
(***************************************************************************)
(* The life of a connection's MediaSession object: Network (network.cpp)   *)
(* allocates it when a connection arrives, enters it in the singleton      *)
(* MediaSessionList under a session id read from the performance counter,  *)
(* and hands its address to libevent as the callback argument of the       *)
(* connection; when the connection ends, the object is found again through *)
(* its id, deleted, and taken out of the map.                              *)
(*                                                                         *)
(* The callback argument is a plain pointer and the map is searched by id, *)
(* so the two can disagree: heap tells which objects exist, arg which one  *)
(* each connection uses, SessionList which one an id leads to.             *)
(***************************************************************************)
EXTENDS Integers

CONSTANTS
  Conns,        \* sockets
  Objs,         \* heap addresses a MediaSession can be allocated at
  NULL,         \* the null pointer
  MaxCounter,   \* bound: the last value of the performance counter
  StrictClock   \* two reads of the counter never return the same value

ASSUME ConstantsAssumption ==
  /\ NULL \notin Objs
  /\ MaxCounter \in Nat
  /\ StrictClock \in BOOLEAN

Ids == 1 .. MaxCounter

VARIABLES
  server,       \* where _tmain is: "init", "prepared", "running",
                \* "exiting" (the loop still runs callbacks), "stopped",
                \* or "crashed"
  listener,     \* NetPrepare bound the listening socket
  counter,      \* the last value of the performance counter that was read
  conn,         \* every socket: "none", "open", or "orphan" (accepted, but
                \* without a bufferevent: nobody reads or closes it)
  arg,          \* the callback argument of every connection
  heap,         \* the objects that are allocated
  sessionid,    \* info.sessionid of every object (of a freed one, what the
                \* last owner left there)
  SessionList   \* the map from id to object, NULL for a missing key

vars == <<server, listener, counter, conn, arg, heap, sessionid, SessionList>>

Open == {c \in Conns : conn[c] = "open"}

Init ==
  /\ server = "init"
  /\ listener = FALSE
  /\ counter = 0
  /\ conn = [c \in Conns |-> "none"]
  /\ arg = [c \in Conns |-> NULL]
  /\ heap = {}
  /\ sessionid = [o \in Objs |-> 0]
  /\ SessionList = [id \in Ids |-> NULL]

-----------------------------------------------------------------------------
(* Start and stop of the server.                                           *)

(* _tmain ignores the result: the server starts without a listener too.    *)
NetPrepare ==
  /\ server = "init"
  /\ server' = "prepared"
  /\ listener' \in BOOLEAN
  /\ UNCHANGED <<counter, conn, arg, heap, sessionid, SessionList>>

(* event_base_dispatch runs; when the signal event cannot be made,         *)
(* StartServer returns at once and _tmain ends.                            *)
StartServer ==
  /\ server = "prepared"
  /\ server' \in {"running", "stopped"}
  /\ UNCHANGED <<listener, counter, conn, arg, heap, sessionid, SessionList>>

Dispatching == server \in {"running", "exiting"}

(* SIGINT only schedules the end of the loop, two seconds later.           *)
Signal_Cb ==
  /\ Dispatching
  /\ server' = "exiting"
  /\ UNCHANGED <<listener, counter, conn, arg, heap, sessionid, SessionList>>

(* A plausible slip: the loop waits until the connections have ended.      *)
LoopExitWaits ==
  /\ server = "exiting" /\ Open = {}
  /\ server' = "stopped"
  /\ UNCHANGED <<listener, counter, conn, arg, heap, sessionid, SessionList>>

(* The loop ends between two callbacks, whoever is still connected.        *)
LoopExit ==
  /\ server = "exiting"
  /\ server' = "stopped"
  /\ UNCHANGED <<listener, counter, conn, arg, heap, sessionid, SessionList>>

-----------------------------------------------------------------------------
(* The session list.                                                       *)

(* A plausible slip: the counter may be read again before it moves.        *)
GenSessionIDStale(v) == v >= counter

(* QueryPerformanceCounter never runs back; whether it can stand still     *)
(* between two reads is the platform's business, not the code's.           *)
GenSessionID(v) == IF StrictClock THEN v > counter ELSE v >= counter

(* A plausible slip: the session gets its id, the map does not get it.     *)
SessionInsertNoId(o, id) ==
  /\ sessionid' = [sessionid EXCEPT ![o] = id]
  /\ UNCHANGED SessionList

(* map::insert keeps the entry of a key it already has; the result is      *)
(* ignored (the retry loop is commented out).                              *)
SessionInsert(o, id) ==
  /\ sessionid' = [sessionid EXCEPT ![o] = id]
  /\ SessionList' = [SessionList EXCEPT ![id] = IF @ = NULL THEN o ELSE @]

(* A plausible slip: the entry stays in the map.                           *)
SessionDelKeepsEntry(id) ==
  LET o == SessionList[id]
  IN  IF o = NULL
      THEN server' = "crashed" /\ UNCHANGED <<heap, SessionList>>
      ELSE heap' = heap \ {o} /\ UNCHANGED <<server, SessionList>>

(* SessionGet and SessionDel: an unknown id makes operator[] enter a null  *)
(* pointer, whose IsFullInit is then read. Every session in the list was   *)
(* made by the constructor that sets IsFullInit, so SessionGet's branch    *)
(* for a half-made one is never taken.                                     *)
SessionDel(id) ==
  LET o == SessionList[id]
  IN  IF o = NULL
      THEN server' = "crashed" /\ UNCHANGED <<heap, SessionList>>
      ELSE /\ heap' = heap \ {o}
           /\ SessionList' = [SessionList EXCEPT ![id] = NULL]
           /\ UNCHANGED server

-----------------------------------------------------------------------------
(* The callbacks of the listener and of a connection.                      *)

(* bufferevent_socket_new fails: Listen_Cb returns and leaves the socket.  *)
ListenCbNoBuffer(c) ==
  /\ Dispatching /\ listener
  /\ conn[c] = "none"
  /\ conn' = [conn EXCEPT ![c] = "orphan"]
  /\ UNCHANGED <<server, listener, counter, arg, heap, sessionid, SessionList>>

(* A plausible slip: the session of the last connection is given again.    *)
Listen_CbReuses(c) ==
  /\ Dispatching /\ listener
  /\ conn[c] = "none"
  /\ \E o \in Objs, id \in Ids :
       /\ GenSessionID(id)
       /\ counter' = id
       /\ SessionInsert(o, id)
       /\ heap' = heap \cup {o}
       /\ arg' = [arg EXCEPT ![c] = o]
  /\ conn' = [conn EXCEPT ![c] = "open"]
  /\ UNCHANGED <<server, listener>>

(* A plausible slip: the callbacks are set without the session.            *)
Listen_CbNoArg(c) ==
  /\ Dispatching /\ listener
  /\ conn[c] = "none"
  /\ \E o \in Objs \ heap, id \in Ids :
       /\ GenSessionID(id)
       /\ counter' = id
       /\ SessionInsert(o, id)
       /\ heap' = heap \cup {o}
  /\ conn' = [conn EXCEPT ![c] = "open"]
  /\ UNCHANGED <<server, listener, arg>>

(* A new session is allocated, entered in the list, and given to libevent  *)
(* as the argument of the connection's callbacks.                          *)
Listen_Cb(c) ==
  /\ Dispatching /\ listener
  /\ conn[c] = "none"
  /\ \E o \in Objs \ heap, id \in Ids :
       /\ GenSessionID(id)
       /\ counter' = id
       /\ SessionInsert(o, id)
       /\ heap' = heap \cup {o}
       /\ arg' = [arg EXCEPT ![c] = o]
  /\ conn' = [conn EXCEPT ![c] = "open"]
  /\ UNCHANGED <<server, listener>>

(* GetSessionID of a deleted session reads freed memory: any id.           *)
GetSessionID(o) == IF o \in heap THEN {sessionid[o]} ELSE Ids

(* A plausible slip: the socket is closed and its session is left behind.  *)
Event_CbLeavesSession(c) ==
  /\ Dispatching
  /\ conn[c] = "open"
  /\ conn' = [conn EXCEPT ![c] = "none"]
  /\ arg' = [arg EXCEPT ![c] = NULL]
  /\ UNCHANGED <<server, listener, counter, heap, sessionid, SessionList>>

(* EOF or an error on the connection: the bufferevent is freed, which      *)
(* closes the socket, and the session is deleted through its id.           *)
Event_Cb(c) ==
  /\ Dispatching
  /\ conn[c] = "open"
  /\ conn' = [conn EXCEPT ![c] = "none"]
  /\ arg' = [arg EXCEPT ![c] = NULL]
  /\ \E id \in GetSessionID(arg[c]) : SessionDel(id)
  /\ UNCHANGED <<listener, counter, sessionid>>

-----------------------------------------------------------------------------
Next ==
  \/ NetPrepare
  \/ StartServer
  \/ Signal_Cb
  \/ LoopExit
  \/ \E c \in Conns : \/ ListenCbNoBuffer(c)
                      \/ Listen_Cb(c)
                      \/ Event_Cb(c)

Spec == Init /\ [][Next]_vars

-----------------------------------------------------------------------------
(* Properties.                                                             *)

(* The state has its type, and the callbacks of exactly the open           *)
(* connections have a session as their argument.                           *)
TypeOK ==
  /\ server \in {"init", "prepared", "running", "exiting", "stopped",
                 "crashed"}
  /\ listener \in BOOLEAN
  /\ counter \in 0 .. MaxCounter
  /\ conn \in [Conns -> {"none", "open", "orphan"}]
  /\ arg \in [Conns -> Objs \cup {NULL}]
  /\ heap \subseteq Objs
  /\ sessionid \in [Objs -> 0 .. MaxCounter]
  /\ SessionList \in [Ids -> Objs \cup {NULL}]
  /\ \A c \in Conns : c \in Open <=> arg[c] \in Objs

(* Recv and Send use their callback argument without asking the list: the  *)
(* session of an open connection is allocated, and no other connection     *)
(* has it.                                                                 *)
NoDanglingSession ==
  /\ \A c \in Open : arg[c] \in heap
  /\ \A c, d \in Open : arg[c] = arg[d] => c = d

(* Event_Cb finds the session through its id: the id of an open            *)
(* connection's session leads to that session.                             *)
SessionFound ==
  \A c \in Open : /\ sessionid[arg[c]] \in Ids
                  /\ SessionList[sessionid[arg[c]]] = arg[c]

(* Even when the counter gives an id twice, so that an end may delete      *)
(* another connection's session and later ends read freed memory: the      *)
(* list never leads to a deleted session, and an entry is filed under the  *)
(* id its session has.                                                     *)
ListConsistent ==
  \A id \in Ids : SessionList[id] # NULL =>
                    /\ SessionList[id] \in heap
                    /\ sessionid[SessionList[id]] = id

(* No session outlives its connection.                                     *)
NoSessionLeak == \A o \in heap : \E c \in Open : arg[c] = o

(* No callback crashes the server: Event_Cb never meets an unknown id.     *)
NeverCrashed == server # "crashed"

(* The session id a connection is served under, 0 for none.                *)
ServedId == [c \in Conns |-> IF conn[c] = "open" /\ arg[c] \in heap
                             THEN sessionid[arg[c]] ELSE 0]

Service == INSTANCE SessionService WITH None <- 0, session <- ServedId

(* The list and the callbacks implement the abstract service: a connection *)
(* gets an id nobody else has, and only its own end takes it away.         *)
ServiceSpec == Service!Spec
=============================================================================
