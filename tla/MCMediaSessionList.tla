------------------------- MODULE MCMediaSessionList -------------------------
(* Small instances of MediaSessionList: three sockets and three addresses  *)
(* make reuse of a freed address by another connection possible.           *)
EXTENDS MediaSessionList
=============================================================================
