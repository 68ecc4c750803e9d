--------------------------- MODULE MCRtspSession ----------------------------
(* Small instances of RtspSession. A block is cut into one or two nodes:   *)
(* every call of TCPForH264 meets a node to send, a node to skip and an    *)
(* empty queue.                                                            *)
EXTENDS RtspSession

TwoCuts == {<<"data">>, <<"skip", "data">>}
ThreeCuts == {<<"data">>, <<"skip">>, <<"data", "skip">>}

(* What each kind of client asks for.                                      *)
PlayerMethods == {"OPTIONS", "DESCRIBE", "SETUP", "PLAY"}
=============================================================================
