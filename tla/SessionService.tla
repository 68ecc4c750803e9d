--------------------------- MODULE SessionService ---------------------------
(***************************************************************************)
(* What the listener and the session list promise together, with no        *)
(* objects, pointers or map: every served connection has one session id of *)
(* its own, and only the end of a connection ends its session.             *)
(***************************************************************************)
CONSTANTS Conns,     \* the sockets the listener may hand over
          Ids,       \* the session ids
          None       \* the id of a connection that is not served

VARIABLES session    \* the session id of every connection

TypeInvariant == session \in [Conns -> Ids \cup {None}]

Init == session = [c \in Conns |-> None]

(* A connection is served from now on, under an id nobody else has.        *)
Open(c) ==
  /\ session[c] = None
  /\ \E id \in Ids : /\ \A d \in Conns : session[d] # id
                     /\ session' = [session EXCEPT ![c] = id]

(* A served connection ends; no other connection notices.                  *)
Close(c) ==
  /\ session[c] # None
  /\ session' = [session EXCEPT ![c] = None]

Next == \E c \in Conns : Open(c) \/ Close(c)

Spec == Init /\ [][Next]_session
=============================================================================
