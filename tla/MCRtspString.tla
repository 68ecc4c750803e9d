---------------------------- MODULE MCRtspString ----------------------------
(* A small instance of RtspString: files that hold their parameter sets in *)
(* every way the window of WindowSize bytes can meet them, and requests in *)
(* the forms that clients write.                                           *)
EXTENDS RtspString

SPS == 103
PPS == 104
SEI == 6
IDR == 101
Sc3 == <<0, 0, 1>>
Sc4 == <<0, 0, 0, 1>>

(* A parameter set of any length mod 3, with bytes that set every bit.     *)
Set(type, n) == <<type>> \o [i \in 1 .. n |-> 255 - 37 * i]
Unit(type) == <<type>> \o [i \in 1 .. 3 |-> 194]

FilesOfTwo == {sc \o Set(SPS, n) \o sc \o Set(PPS, m) \o sc \o Unit(IDR) :
                 sc \in {Sc3, Sc4}, n \in 1 .. 3, m \in 1 .. 2}

(* The window ends everywhere in such a file, with a second SPS first.     *)
Whole == Sc4 \o Unit(SEI) \o Sc3 \o Set(SPS, 2) \o Sc4 \o Set(SPS, 4)
         \o Sc3 \o Set(PPS, 2) \o Sc4 \o Unit(IDR) \o Unit(IDR)
CutFiles == {SubSeq(Whole, 1, n) : n \in 10 .. Len(Whole)}

MCFiles == {<<>>, Sc4 \o Unit(IDR)} \cup FilesOfTwo \cup CutFiles

(* METHOD rtsp://host/path RTSP/1.0, a line end, CSeq: n and two of them.  *)
(* Clients ask for OPTIONS without a path, or for "*", before they know    *)
(* of any, and for DESCRIBE with a slash behind the name or another name.  *)
Request(method, path, cseq, spaced) ==
  [method |-> method, path |-> path, cseq |-> cseq, spaced |-> spaced,
   text |-> <<method>>
            \o (IF method = "OPTIONS*" THEN <<"SP", "*">>
                ELSE <<"rtsp:", "/", "/", "host">>
                     \o (IF path = <<>> THEN <<>> ELSE <<"/">> \o path))
            \o <<"SP", "RTSP", "/", "1.0", "\r\n", "CSeq:">>
            \o (IF spaced THEN <<"SP">> ELSE <<>>) \o cseq
            \o <<"\r\n", "\r\n">>]

Paths == {<<>>, <<"test">>, <<"test", "/">>, <<"other">>}

MCRequests ==
  {Request(m, p, <<c>>, s) : m \in {"OPTIONS", "DESCRIBE"}, p \in Paths,
                             c \in {"1", "2"}, s \in BOOLEAN}
  \cup {Request("SETUP", <<"test", "/", "trackID=1">>, <<"2">>, TRUE),
        Request("PLAY", <<"test">>, <<"1">>, FALSE),
        Request("TEARDOWN", <<"test">>, <<"2">>, TRUE),
        Request("OPTIONS*", <<>>, <<"1">>, TRUE)}

ASSUME FilesAssumption == \A f \in Files : Sdp!AnnexB(f)

ASSUME RequestsAssumption ==
  \A r \in Requests : r \in Texts /\ (r.method \in Known => Written(r))
=============================================================================
