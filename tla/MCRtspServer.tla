---------------------------- MODULE MCRtspServer ----------------------------
(* A small instance of RtspServer: two sockets and as many addresses, so   *)
(* that a connection gets the memory of one that has ended.                *)
EXTENDS RtspServer

OneCut == {<<"skip", "data">>}
StreamMethods == {"DESCRIBE", "SETUP", "PLAY"}
=============================================================================
