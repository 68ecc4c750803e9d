----------------------- MODULE MediaSessionListProofs -----------------------
(* When the performance counter never returns the same value twice, every  *)
(* safety property of MediaSessionList holds, for any number of sockets,   *)
(* heap addresses and counter values, and the list implements              *)
(* SessionService. The one strengthening needed is that the ids in use are *)
(* not ahead of the counter: it is what makes a new id a missing key.      *)
EXTENDS MediaSessionList, TLAPS

IdsBehindCounter == \A o \in heap : sessionid[o] <= counter

Inv ==
  /\ TypeOK
  /\ NoDanglingSession
  /\ SessionFound
  /\ ListConsistent
  /\ NoSessionLeak
  /\ NeverCrashed
  /\ IdsBehindCounter

(* The two helpers the list is built from, under the invariant: a fresh id *)
(* is a missing key, and deleting an open connection's session by its id   *)
(* deletes that session.                                                   *)
LEMMA FreshKey ==
  ASSUME Inv, StrictClock, NEW id \in Ids, GenSessionID(id)
  PROVE  SessionList[id] = NULL /\ \A o \in heap : sessionid[o] # id
<1>1. counter \in Nat /\ id \in Nat /\ counter < id
  BY DEF Inv, TypeOK, GenSessionID, Ids
<1>2. \A o \in heap : sessionid[o] # id
  BY <1>1 DEF Inv, TypeOK, IdsBehindCounter
<1>3. SessionList[id] = NULL
  BY <1>2 DEF Inv, ListConsistent
<1> QED BY <1>2, <1>3

LEMMA OwnKey ==
  ASSUME Inv, NEW c \in Open
  PROVE  /\ arg[c] \in heap
         /\ sessionid[arg[c]] \in Ids
         /\ SessionList[sessionid[arg[c]]] = arg[c]
         /\ GetSessionID(arg[c]) = {sessionid[arg[c]]}
         /\ arg[c] # NULL
<1>1. arg[c] \in heap /\ arg[c] # NULL
  BY ConstantsAssumption DEF Inv, TypeOK, NoDanglingSession
<1> QED BY <1>1 DEF Inv, SessionFound, GetSessionID

LEMMA InitInv == Init => Inv
<1> SUFFICES ASSUME Init PROVE Inv
  OBVIOUS
<1>1. Open = {}
  BY DEF Init, Open
<1>2. TypeOK
  <2>1. 0 \in 0 .. MaxCounter
    BY ConstantsAssumption
  <2>2. \A c \in Conns : arg[c] \notin Objs
    BY ConstantsAssumption DEF Init
  <2> QED BY <2>1, <2>2, <1>1 DEF Init, TypeOK
<1> QED BY <1>1, <1>2 DEF Init, Inv, NoDanglingSession, SessionFound,
           ListConsistent, NoSessionLeak, NeverCrashed, IdsBehindCounter

(* What a step that leaves every session alone has to keep.                *)
LEMMA SessionsUntouched ==
  ASSUME Inv, TypeOK', NeverCrashed',
         Open' = Open,
         UNCHANGED <<counter, arg, heap, sessionid, SessionList>>
  PROVE  Inv'
BY DEF Inv, NoDanglingSession, SessionFound, ListConsistent, NoSessionLeak,
       IdsBehindCounter

LEMMA Listen_CbInv ==
  ASSUME Inv, StrictClock, NEW c \in Conns, Listen_Cb(c)
  PROVE  Inv'
<1> PICK o \in Objs \ heap, id \in Ids :
      /\ GenSessionID(id)
      /\ counter' = id
      /\ SessionInsert(o, id)
      /\ heap' = heap \cup {o}
      /\ arg' = [arg EXCEPT ![c] = o]
  BY DEF Listen_Cb
<1>1. SessionList[id] = NULL /\ \A p \in heap : sessionid[p] # id
  BY FreshKey
<1>2. /\ sessionid' = [sessionid EXCEPT ![o] = id]
      /\ SessionList' = [SessionList EXCEPT ![id] = o]
  BY <1>1 DEF SessionInsert, Inv, TypeOK
<1>3. conn' = [conn EXCEPT ![c] = "open"] /\ c \notin Open /\ c \in Conns
  BY DEF Listen_Cb, Open
<1>4. Open' = Open \cup {c}
  BY <1>3 DEF Open, Inv, TypeOK
<1>5. id \in 0 .. MaxCounter
  BY ConstantsAssumption DEF Ids
<1>6. TypeOK'
  BY <1>2, <1>3, <1>4, <1>5 DEF Inv, TypeOK, Listen_Cb, Dispatching
<1>7. \A d \in Open : d # c /\ arg'[d] = arg[d] /\ arg[d] \in heap /\ arg[d] # o
  BY <1>3 DEF Inv, TypeOK, NoDanglingSession, Open
<1>8. arg'[c] = o /\ sessionid'[o] = id /\ SessionList'[id] = o
  BY <1>2, <1>3 DEF Inv, TypeOK
<1>9. \A p \in heap : sessionid'[p] = sessionid[p]
  BY <1>2 DEF Inv, TypeOK
<1>10. NoDanglingSession'
  BY <1>4, <1>7, <1>8 DEF Inv, NoDanglingSession
<1>11. SessionFound'
  <2> SUFFICES ASSUME NEW d \in Open'
               PROVE  /\ sessionid'[arg'[d]] \in Ids
                      /\ SessionList'[sessionid'[arg'[d]]] = arg'[d]
    BY DEF SessionFound
  <2>1. CASE d = c
    BY <2>1, <1>8
  <2>2. CASE d \in Open
    <3>1. sessionid'[arg'[d]] = sessionid[arg[d]] /\ sessionid[arg[d]] # id
      BY <2>2, <1>1, <1>7, <1>9
    <3>2. sessionid[arg[d]] \in Ids /\ SessionList[sessionid[arg[d]]] = arg[d]
      BY <2>2 DEF Inv, SessionFound
    <3> QED BY <3>1, <3>2, <2>2, <1>2, <1>7 DEF Inv, TypeOK
  <2> QED BY <2>1, <2>2, <1>4
<1>12. ListConsistent'
  <2> SUFFICES ASSUME NEW k \in Ids, SessionList'[k] # NULL
               PROVE  /\ SessionList'[k] \in heap'
                      /\ sessionid'[SessionList'[k]] = k
    BY DEF ListConsistent
  <2>1. CASE k = id
    BY <2>1, <1>8
  <2>2. CASE k # id
    <3>1. SessionList'[k] = SessionList[k]
      BY <2>2, <1>2 DEF Inv, TypeOK
    <3>2. SessionList[k] \in heap /\ sessionid[SessionList[k]] = k
      BY <3>1 DEF Inv, ListConsistent
    <3> QED BY <3>1, <3>2, <1>9
  <2> QED BY <2>1, <2>2
<1>13. NoSessionLeak'
  BY <1>4, <1>7, <1>8 DEF Inv, NoSessionLeak
<1>14. NeverCrashed'
  BY DEF Inv, NeverCrashed, Listen_Cb
<1>15. IdsBehindCounter'
  <2>1. counter \in Int /\ id \in Int /\ counter <= id
    BY DEF Inv, TypeOK, GenSessionID, Ids
  <2>2. \A p \in heap : sessionid[p] \in Int /\ sessionid[p] <= counter
    BY DEF Inv, TypeOK, IdsBehindCounter
  <2>3. \A p \in heap : sessionid'[p] <= id
    BY <2>1, <2>2, <1>9
  <2> QED BY <2>1, <2>3, <1>8 DEF IdsBehindCounter
<1> QED BY <1>6, <1>10, <1>11, <1>12, <1>13, <1>14, <1>15 DEF Inv

LEMMA Event_CbInv ==
  ASSUME Inv, NEW c \in Conns, Event_Cb(c)
  PROVE  Inv'
<1> DEFINE o == arg[c]
           k == sessionid[o]
<1>1. c \in Open
  BY DEF Event_Cb, Open
<1>2. o \in heap /\ k \in Ids /\ SessionList[k] = o /\ o # NULL
  BY <1>1, OwnKey
<1>3. /\ heap' = heap \ {o}
      /\ SessionList' = [SessionList EXCEPT ![k] = NULL]
      /\ server' = server
  BY <1>1, <1>2, OwnKey DEF Event_Cb, SessionDel
<1>4. /\ conn' = [conn EXCEPT ![c] = "none"]
      /\ arg' = [arg EXCEPT ![c] = NULL]
      /\ UNCHANGED <<listener, counter, sessionid>>
  BY DEF Event_Cb
<1>5. Open' = Open \ {c}
  BY <1>4 DEF Open, Inv, TypeOK
<1>6. TypeOK'
  BY <1>3, <1>4, <1>5, ConstantsAssumption DEF Inv, TypeOK
<1>7. \A d \in Open' : d \in Open /\ arg'[d] = arg[d] /\ arg[d] # o
  BY <1>1, <1>4, <1>5 DEF Inv, TypeOK, NoDanglingSession, Open
<1>8. NoDanglingSession'
  BY <1>3, <1>7 DEF Inv, NoDanglingSession
<1>9. SessionFound'
  <2> SUFFICES ASSUME NEW d \in Open'
               PROVE  /\ sessionid[arg[d]] \in Ids
                      /\ SessionList'[sessionid[arg[d]]] = arg[d]
    BY <1>4, <1>7 DEF SessionFound
  <2>1. sessionid[arg[d]] \in Ids /\ SessionList[sessionid[arg[d]]] = arg[d]
    BY <1>7 DEF Inv, SessionFound
  <2>2. sessionid[arg[d]] # k
    BY <2>1, <1>2, <1>7
  <2> QED BY <2>1, <2>2, <1>3 DEF Inv, TypeOK
<1>10. ListConsistent'
  <2> SUFFICES ASSUME NEW i \in Ids, SessionList'[i] # NULL
               PROVE  /\ SessionList'[i] \in heap'
                      /\ sessionid[SessionList'[i]] = i
    BY <1>4 DEF ListConsistent
  <2>1. i # k /\ SessionList'[i] = SessionList[i]
    BY <1>3 DEF Inv, TypeOK
  <2>2. SessionList[i] \in heap /\ sessionid[SessionList[i]] = i
    BY <2>1 DEF Inv, ListConsistent
  <2> QED BY <2>1, <2>2, <1>3
<1>11. NoSessionLeak'
  <2> SUFFICES ASSUME NEW p \in heap' PROVE \E d \in Open' : arg'[d] = p
    BY DEF NoSessionLeak
  <2>1. p \in heap /\ p # o
    BY <1>3
  <2>2. PICK d \in Open : arg[d] = p
    BY <2>1 DEF Inv, NoSessionLeak
  <2> QED BY <2>1, <2>2, <1>5, <1>7
<1>12. NeverCrashed'
  BY <1>3 DEF Inv, NeverCrashed
<1>13. IdsBehindCounter'
  BY <1>3, <1>4 DEF Inv, IdsBehindCounter
<1> QED BY <1>6, <1>8, <1>9, <1>10, <1>11, <1>12, <1>13 DEF Inv

LEMMA NextInv == StrictClock /\ Inv /\ [Next]_vars => Inv'
<1> SUFFICES ASSUME StrictClock, Inv, [Next]_vars PROVE Inv'
  OBVIOUS
<1>1. CASE NetPrepare
  <2>1. TypeOK' /\ NeverCrashed' /\ Open' = Open
    BY <1>1 DEF NetPrepare, Inv, TypeOK, NeverCrashed, Open
  <2> QED BY <2>1, <1>1, SessionsUntouched DEF NetPrepare
<1>2. CASE StartServer
  <2>1. TypeOK' /\ NeverCrashed' /\ Open' = Open
    BY <1>2 DEF StartServer, Inv, TypeOK, NeverCrashed, Open
  <2> QED BY <2>1, <1>2, SessionsUntouched DEF StartServer
<1>3. CASE Signal_Cb
  <2>1. TypeOK' /\ NeverCrashed' /\ Open' = Open
    BY <1>3 DEF Signal_Cb, Inv, TypeOK, NeverCrashed, Open
  <2> QED BY <2>1, <1>3, SessionsUntouched DEF Signal_Cb
<1>4. CASE LoopExit
  <2>1. TypeOK' /\ NeverCrashed' /\ Open' = Open
    BY <1>4 DEF LoopExit, Inv, TypeOK, NeverCrashed, Open
  <2> QED BY <2>1, <1>4, SessionsUntouched DEF LoopExit
<1>5. ASSUME NEW c \in Conns, ListenCbNoBuffer(c) PROVE Inv'
  <2>1. Open' = Open
    BY <1>5 DEF ListenCbNoBuffer, Inv, TypeOK, Open
  <2>2. TypeOK' /\ NeverCrashed'
    BY <2>1, <1>5 DEF ListenCbNoBuffer, Inv, TypeOK, NeverCrashed
  <2> QED BY <2>1, <2>2, <1>5, SessionsUntouched DEF ListenCbNoBuffer
<1>6. ASSUME NEW c \in Conns, Listen_Cb(c) PROVE Inv'
  BY <1>6, Listen_CbInv
<1>7. ASSUME NEW c \in Conns, Event_Cb(c) PROVE Inv'
  BY <1>7, Event_CbInv
<1>8. CASE UNCHANGED vars
  <2>1. TypeOK' /\ NeverCrashed' /\ Open' = Open
    BY <1>8 DEF vars, Inv, TypeOK, NeverCrashed, Open
  <2> QED BY <2>1, <1>8, SessionsUntouched DEF vars
<1> QED BY <1>1, <1>2, <1>3, <1>4, <1>5, <1>6, <1>7, <1>8 DEF Next

(* With a strict counter the sessions of the open connections are          *)
(* allocated, distinct and found under their id, no session leaks, and no  *)
(* callback crashes the server.                                            *)
THEOREM Safety ==
  ASSUME StrictClock
  PROVE  Spec => [](/\ TypeOK /\ NoDanglingSession /\ SessionFound
                    /\ ListConsistent /\ NoSessionLeak /\ NeverCrashed)
<1>1. Spec => []Inv
  BY InitInv, NextInv, PTL DEF Spec
<1>2. Inv => /\ TypeOK /\ NoDanglingSession /\ SessionFound
             /\ ListConsistent /\ NoSessionLeak /\ NeverCrashed
  BY DEF Inv
<1> QED BY <1>1, <1>2, PTL

-----------------------------------------------------------------------------
(* The list's own consistency needs no assumption about the counter.       *)
ListInv ==
  /\ TypeOK
  /\ ListConsistent
  /\ \A o \in heap : sessionid[o] \in Ids

LEMMA ListInvUntouched ==
  ASSUME ListInv, TypeOK', UNCHANGED <<heap, sessionid, SessionList>>
  PROVE  ListInv'
BY DEF ListInv, ListConsistent

LEMMA Listen_CbList ==
  ASSUME ListInv, NEW c \in Conns, Listen_Cb(c)
  PROVE  ListInv'
<1> PICK o \in Objs \ heap, id \in Ids :
      /\ counter' = id
      /\ SessionInsert(o, id)
      /\ heap' = heap \cup {o}
      /\ arg' = [arg EXCEPT ![c] = o]
  BY DEF Listen_Cb
<1> DEFINE entry == IF SessionList[id] = NULL THEN o ELSE SessionList[id]
<1>1. /\ sessionid' = [sessionid EXCEPT ![o] = id]
      /\ SessionList' = [SessionList EXCEPT ![id] = entry]
      /\ conn' = [conn EXCEPT ![c] = "open"]
      /\ UNCHANGED <<server, listener>>
  BY DEF SessionInsert, Listen_Cb
<1>2. Open' = Open \cup {c}
  BY <1>1 DEF Open, ListInv, TypeOK
<1>3. id \in 0 .. MaxCounter
  BY ConstantsAssumption DEF Ids
<1>4. TypeOK'
  BY <1>1, <1>2, <1>3 DEF ListInv, TypeOK
<1>5. \A p \in heap : sessionid'[p] = sessionid[p]
  BY <1>1 DEF ListInv, TypeOK
<1>6. ASSUME NEW k \in Ids, SessionList'[k] # NULL
      PROVE  /\ SessionList'[k] \in heap'
             /\ sessionid'[SessionList'[k]] = k
  <2>1. CASE SessionList[k] # NULL
    <3>1. SessionList'[k] = SessionList[k]
      BY <2>1, <1>1 DEF ListInv, TypeOK
    <3>2. SessionList[k] \in heap /\ sessionid[SessionList[k]] = k
      BY <2>1 DEF ListInv, ListConsistent
    <3> QED BY <3>1, <3>2, <1>5
  <2>2. CASE SessionList[k] = NULL
    <3>1. k = id
      BY <1>6, <2>2, <1>1 DEF ListInv, TypeOK
    <3>2. SessionList'[k] = o /\ sessionid'[o] = id
      BY <3>1, <2>2, <1>1 DEF ListInv, TypeOK
    <3> QED BY <3>1, <3>2
  <2> QED BY <2>1, <2>2
<1>7. \A p \in heap' : sessionid'[p] \in Ids
  BY <1>1, <1>5 DEF ListInv, TypeOK
<1> QED BY <1>4, <1>6, <1>7 DEF ListInv, ListConsistent

LEMMA Event_CbList ==
  ASSUME ListInv, NEW c \in Conns, Event_Cb(c)
  PROVE  ListInv'
<1>1. PICK k \in GetSessionID(arg[c]) : SessionDel(k)
  BY DEF Event_Cb
<1>2. /\ conn' = [conn EXCEPT ![c] = "none"]
      /\ arg' = [arg EXCEPT ![c] = NULL]
      /\ UNCHANGED <<listener, counter, sessionid>>
  BY DEF Event_Cb
<1>3. Open' = Open \ {c}
  BY <1>2 DEF Open, ListInv, TypeOK
<1>4. CASE SessionList[k] = NULL
  <2>1. server' = "crashed" /\ UNCHANGED <<heap, SessionList>>
    BY <1>1, <1>4 DEF SessionDel
  <2>2. TypeOK'
    BY <2>1, <1>2, <1>3, ConstantsAssumption DEF ListInv, TypeOK
  <2> QED BY <2>1, <2>2, <1>2, ListInvUntouched
<1>5. CASE SessionList[k] # NULL
  <2>1. /\ heap' = heap \ {SessionList[k]}
        /\ SessionList' = [SessionList EXCEPT ![k] = NULL]
        /\ server' = server
    BY <1>1, <1>5 DEF SessionDel
  <2>2. TypeOK'
    BY <2>1, <1>2, <1>3, ConstantsAssumption DEF ListInv, TypeOK
  <2>3. ASSUME NEW i \in Ids, SessionList'[i] # NULL
        PROVE  /\ SessionList'[i] \in heap'
               /\ sessionid'[SessionList'[i]] = i
    <3>1. i # k /\ SessionList'[i] = SessionList[i]
      BY <2>1, <2>3 DEF ListInv, TypeOK
    <3>2. SessionList[i] \in heap /\ sessionid[SessionList[i]] = i
      BY <3>1, <2>3 DEF ListInv, ListConsistent
    <3>3. k \in Ids
      BY DEF ListInv, GetSessionID
    <3>4. sessionid[SessionList[k]] = k
      BY <3>3, <1>5 DEF ListInv, ListConsistent
    <3> QED BY <3>1, <3>2, <3>4, <2>1, <1>2
  <2>4. \A p \in heap' : sessionid'[p] \in Ids
    BY <2>1, <1>2 DEF ListInv
  <2> QED BY <2>2, <2>3, <2>4 DEF ListInv, ListConsistent
<1> QED BY <1>4, <1>5

LEMMA NextList == ListInv /\ [Next]_vars => ListInv'
<1> SUFFICES ASSUME ListInv, [Next]_vars PROVE ListInv'
  OBVIOUS
<1>1. CASE NetPrepare
  <2>1. TypeOK'
    BY <1>1 DEF NetPrepare, ListInv, TypeOK, Open
  <2> QED BY <2>1, <1>1, ListInvUntouched DEF NetPrepare
<1>2. CASE StartServer
  <2>1. TypeOK'
    BY <1>2 DEF StartServer, ListInv, TypeOK, Open
  <2> QED BY <2>1, <1>2, ListInvUntouched DEF StartServer
<1>3. CASE Signal_Cb
  <2>1. TypeOK'
    BY <1>3 DEF Signal_Cb, ListInv, TypeOK, Open
  <2> QED BY <2>1, <1>3, ListInvUntouched DEF Signal_Cb
<1>4. CASE LoopExit
  <2>1. TypeOK'
    BY <1>4 DEF LoopExit, ListInv, TypeOK, Open
  <2> QED BY <2>1, <1>4, ListInvUntouched DEF LoopExit
<1>5. ASSUME NEW c \in Conns, ListenCbNoBuffer(c) PROVE ListInv'
  <2>1. Open' = Open
    BY <1>5 DEF ListenCbNoBuffer, ListInv, TypeOK, Open
  <2>2. TypeOK'
    BY <2>1, <1>5 DEF ListenCbNoBuffer, ListInv, TypeOK
  <2> QED BY <2>2, <1>5, ListInvUntouched DEF ListenCbNoBuffer
<1>6. ASSUME NEW c \in Conns, Listen_Cb(c) PROVE ListInv'
  BY <1>6, Listen_CbList
<1>7. ASSUME NEW c \in Conns, Event_Cb(c) PROVE ListInv'
  BY <1>7, Event_CbList
<1>8. CASE UNCHANGED vars
  BY <1>8 DEF vars, ListInv, TypeOK, ListConsistent, Open
<1> QED BY <1>1, <1>2, <1>3, <1>4, <1>5, <1>6, <1>7, <1>8 DEF Next

(* Even when ids collide the list never leads to a deleted session: what   *)
(* dangles then is a callback argument, not an entry of the list.          *)
THEOREM ListAlwaysConsistent == Spec => []ListConsistent
<1>1. Init => ListInv
  BY InitInv DEF Inv, Init, ListInv
<1>2. Spec => []ListInv
  BY <1>1, NextList, PTL DEF Spec
<1>3. ListInv => ListConsistent
  BY DEF ListInv
<1> QED BY <1>2, <1>3, PTL

-----------------------------------------------------------------------------
(* Implementation of SessionService.                                       *)

LEMMA ServiceInit == Init => Service!Init
<1> SUFFICES ASSUME Init PROVE ServedId = [c \in Conns |-> 0]
  BY DEF Service!Init
<1> QED BY DEF Init, ServedId

LEMMA ServedUntouched ==
  ASSUME Inv, Open' = Open, UNCHANGED <<arg, heap, sessionid>>
  PROVE  ServedId' = ServedId
<1> USE DEF Inv, TypeOK
<1>1. \A c \in Conns : c \in Open <=> conn[c] = "open"
  BY DEF Open
<1>2. \A c \in Conns : c \in Open' <=> conn'[c] = "open"
  BY DEF Open
<1> QED BY <1>1, <1>2 DEF ServedId

(* Under the invariant every open connection is served under its           *)
(* session's id, and the others under none.                                *)
LEMMA ServedIs ==
  ASSUME Inv, NEW c \in Conns
  PROVE  /\ c \in Open => ServedId[c] = sessionid[arg[c]] /\ ServedId[c] \in Ids
         /\ c \notin Open => ServedId[c] = 0
BY OwnKey DEF ServedId, Open

LEMMA Listen_CbOpens ==
  ASSUME Inv, Inv', StrictClock, NEW c \in Conns, Listen_Cb(c)
  PROVE  Service!Open(c)
<1> PICK o \in Objs \ heap, id \in Ids :
      /\ GenSessionID(id)
      /\ counter' = id
      /\ SessionInsert(o, id)
      /\ heap' = heap \cup {o}
      /\ arg' = [arg EXCEPT ![c] = o]
  BY DEF Listen_Cb
<1>1. \A p \in heap : sessionid[p] # id
  BY FreshKey
<1>2. /\ sessionid' = [sessionid EXCEPT ![o] = id]
      /\ conn' = [conn EXCEPT ![c] = "open"]
      /\ c \notin Open
  BY DEF SessionInsert, Listen_Cb, Open
<1>3. Open' = Open \cup {c}
  BY <1>2 DEF Open, Inv, TypeOK
<1>4. ServedId[c] = 0
  BY <1>2, ServedIs
<1>5. id # 0
  BY DEF Ids
<1>6. \A d \in Conns : ServedId[d] # id
  BY <1>1, <1>5, ServedIs, OwnKey
<1>7. ServedId'[c] = id
  BY <1>2 DEF ServedId, Inv, TypeOK
<1>8. ASSUME NEW d \in Conns, d # c PROVE ServedId'[d] = ServedId[d]
  <2>1. CASE d \in Open
    <3>1. arg'[d] = arg[d] /\ arg[d] \in heap /\ arg[d] # o /\ conn'[d] = conn[d]
      BY <1>2, <1>8, <2>1, OwnKey DEF Inv, TypeOK
    <3> QED BY <3>1, <2>1, <1>2 DEF ServedId, Inv, TypeOK
  <2>2. CASE d \notin Open
    BY <2>2, <1>2, <1>8 DEF ServedId, Open, Inv, TypeOK
  <2> QED BY <2>1, <2>2
<1>9. ServedId' = [ServedId EXCEPT ![c] = id]
  <2>1. /\ ServedId = [d \in Conns |-> ServedId[d]]
        /\ ServedId' = [d \in Conns |-> ServedId'[d]]
    BY DEF ServedId
  <2> QED BY <2>1, <1>7, <1>8
<1> QED BY <1>4, <1>6, <1>9 DEF Service!Open

LEMMA Event_CbCloses ==
  ASSUME Inv, Inv', NEW c \in Conns, Event_Cb(c)
  PROVE  Service!Close(c)
<1> DEFINE o == arg[c]
<1>1. c \in Open /\ Open \subseteq Conns
  BY DEF Event_Cb, Open
<1>2. heap' = heap \ {o}
  BY <1>1, OwnKey DEF Event_Cb, SessionDel
<1>3. /\ conn' = [conn EXCEPT ![c] = "none"]
      /\ arg' = [arg EXCEPT ![c] = NULL]
      /\ UNCHANGED sessionid
  BY DEF Event_Cb
<1>4. ServedId[c] # 0
  BY <1>1, ServedIs DEF Ids
<1>5. ServedId'[c] = 0
  BY <1>3 DEF ServedId, Inv, TypeOK
<1>6. ASSUME NEW d \in Conns, d # c PROVE ServedId'[d] = ServedId[d]
  <2>1. CASE d \in Open
    <3>1. arg'[d] = arg[d] /\ arg[d] \in heap' /\ conn'[d] = conn[d]
      BY <1>1, <1>2, <1>3, <1>6, <2>1, OwnKey
         DEF Inv, TypeOK, NoDanglingSession
    <3>2. arg[d] \in heap
      BY <2>1, OwnKey
    <3> QED BY <3>1, <3>2, <1>3 DEF ServedId
  <2>2. CASE d \notin Open
    BY <2>2, <1>3, <1>6 DEF ServedId, Open, Inv, TypeOK
  <2> QED BY <2>1, <2>2
<1>7. ServedId' = [ServedId EXCEPT ![c] = 0]
  BY <1>5, <1>6 DEF ServedId
<1> QED BY <1>4, <1>7 DEF Service!Close

LEMMA ServiceStep ==
  StrictClock /\ Inv /\ Inv' /\ [Next]_vars => [Service!Next]_ServedId
<1> SUFFICES ASSUME StrictClock, Inv, Inv', [Next]_vars
             PROVE  Service!Next \/ ServedId' = ServedId
  OBVIOUS
<1>1. CASE NetPrepare \/ StartServer \/ Signal_Cb \/ LoopExit
  BY <1>1, ServedUntouched DEF NetPrepare, StartServer, Signal_Cb, LoopExit,
     Open
<1>2. ASSUME NEW c \in Conns, ListenCbNoBuffer(c) PROVE ServedId' = ServedId
  <2>1. Open' = Open
    BY <1>2 DEF ListenCbNoBuffer, Inv, TypeOK, Open
  <2> QED BY <2>1, <1>2, ServedUntouched DEF ListenCbNoBuffer
<1>3. ASSUME NEW c \in Conns, Listen_Cb(c) PROVE Service!Next
  BY <1>3, Listen_CbOpens DEF Service!Next
<1>4. ASSUME NEW c \in Conns, Event_Cb(c) PROVE Service!Next
  BY <1>4, Event_CbCloses DEF Service!Next
<1>5. CASE UNCHANGED vars
  BY <1>5, ServedUntouched DEF vars, Open
<1> QED BY <1>1, <1>2, <1>3, <1>4, <1>5 DEF Next

(* With a strict counter the listener and the list implement the abstract  *)
(* service: ids are never shared, and a step ends one session at most,     *)
(* that of the connection that closed.                                     *)
THEOREM Refinement == ASSUME StrictClock PROVE Spec => ServiceSpec
<1>1. Spec => []Inv
  BY InitInv, NextInv, PTL DEF Spec
<1>2. Spec => [][Service!Next]_ServedId
  BY <1>1, ServiceStep, PTL DEF Spec
<1> QED BY <1>2, ServiceInit, PTL DEF Spec, ServiceSpec, Service!Spec
=============================================================================
