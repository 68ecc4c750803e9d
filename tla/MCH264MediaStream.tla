------------------------- MODULE MCH264MediaStream --------------------------
(* Small instances of H264MediaStream: the blocks are windows, at every    *)
(* offset, of a stream of NAL units of all the kinds the code tells apart, *)
(* so that start codes and NAL units are cut in every possible place.      *)
EXTENDS H264MediaStream, TLC

SPS == 103
PPS == 104
SEI == 6
IDR == 101
SLICE == 65
DATA == 194   \* a byte of data, which read as a NAL header would be type 2

Data(n) == [i \in 1 .. n |-> DATA]
Sc3 == <<0, 0, 1>>
Sc4 == <<0, 0, 0, 1>>

Stream ==
  Sc4 \o <<SPS, DATA>> \o Sc4 \o <<PPS, DATA>> \o Sc4 \o <<IDR>> \o Data(22)
  \o Sc3 \o <<SLICE>> \o Sc4 \o <<SEI, DATA>> \o Sc3 \o <<SLICE>> \o Data(6)
  \o Sc4 \o <<SLICE>> \o Data(13)

WindowLength == 18
Windows == {SubSeq(Stream, i, i + WindowLength - 1) :
              i \in 1 .. Len(Stream) - WindowLength + 1}
=============================================================================
