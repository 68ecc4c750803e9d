---------------------------- MODULE MCRtpOverTcp ----------------------------
(* Small instances of RtpOverTcp: the blocks are windows of a stream of    *)
(* NAL units, at every offset; the file begins with SPS and PPS.           *)
EXTENDS RtpOverTcp, FiniteSets

SPS == 103
PPS == 104
SEI == 6
AUD == 9
IDR == 101
SLICE == 65
DATA == 194   \* a byte of data, which read as a NAL header would be type 2

Data(n) == [i \in 1 .. n |-> DATA]
Sc3 == <<0, 0, 1>>
Sc4 == <<0, 0, 0, 1>>

Stream ==
  Sc4 \o <<SPS, DATA>> \o Sc3 \o <<PPS, DATA>> \o Sc3 \o <<IDR>> \o Data(22)
  \o Sc3 \o <<SLICE>> \o Sc4 \o <<SEI, DATA>> \o Sc3 \o <<SLICE>> \o Data(6)
  \o Sc4 \o <<AUD, DATA>> \o Sc3 \o <<SLICE>> \o Data(13)

WindowLength == 18
Window(i) == SubSeq(Stream, i, i + WindowLength - 1)
Offsets == 1 .. Len(Stream) - WindowLength + 1
Windows == {Window(i) : i \in Offsets}
FirstWindow == {Window(1)}

(* The windows whose end cuts no NAL unit but a slice.                     *)
SliceAtEnd(w) ==
  \A p \in Headers(w) :
    (\A q \in Headers(w) : q <= p) => w[p + 1] % 32 < 6

SliceWindows == {w \in Windows : SliceAtEnd(w)}

ASSUME FileAssumption == \A b \in FirstBlocks : BeginsWithParameters(b)
=============================================================================
