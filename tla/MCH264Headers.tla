--------------------------- MODULE MCH264Headers ----------------------------
(* Small instances of H264Headers: sequence parameter sets and slices of   *)
(* all shapes, written by an encoder that follows the tables of H264Syntax *)
(* and puts in the emulation prevention bytes of 7.4.1.                    *)
EXTENDS H264Headers, H264Syntax, SequencesExt

BitsU(n, v) ==
  [k \in 1 .. n |-> IF n - k > 30 THEN 0 ELSE (v \div 2 ^ (n - k)) % 2]
BitsUE(v) ==
  LET l == CHOOSE l \in 1 .. 12 : 2 ^ (l - 1) <= v + 1 /\ v + 1 < 2 ^ l
  IN  BitsU(2 * l - 1, v + 1)

(* The encoder's choice where a table leaves the value open.               *)
Choice(k) == k % 11
BitsOf(c, k) ==
  IF c.code = "u" THEN BitsU(c.bits, IF c.value = Free THEN 2 ^ (c.bits - 1)
                                     ELSE c.value)
  ELSE BitsUE(IF c.value = Free THEN Choice(k) ELSE c.value)
Encoded(codes) == [k \in DOMAIN codes |-> BitsOf(codes[k], k)]
At(codes) ==
  LET at[k \in 1 .. Len(codes) + 1] ==
        IF k = 1 THEN 0 ELSE at[k - 1] + Len(BitsOf(codes[k - 1], k - 1))
  IN  [k \in 1 .. Len(codes) + 1 |-> at[k]]

(* rbsp_trailing_bits, and the bits as bytes.                              *)
Bytes(codes) ==
  LET bits == Append(FlattenSeq(Encoded(codes)), 1)
      padded == bits \o [k \in 1 .. (8 - Len(bits)) % 8 |-> 0]
  IN  [i \in 1 .. Len(padded) \div 8 |->
         FoldLeft(LAMBDA n, b : 2 * n + b, 0, SubSeq(padded, 8 * i - 7, 8 * i))]

(* 03 goes in front of a byte up to 3 behind two zeros.                    *)
Prevent(bytes) ==
  FoldLeft(LAMBDA out, b :
             LET n == Len(out)
             IN  IF /\ n >= 2 /\ b <= 3
                    /\ out[n] = 0 /\ out[n - 1] = 0
                 THEN out \o <<3, b>> ELSE Append(out, b),
           <<>>, bytes)

(* Where each of the bytes has got to.                                     *)
Place(bytes) ==
  [k \in DOMAIN bytes |-> Len(Prevent(SubSeq(bytes, 1, k)))]

SpsUnit(p) ==
  [type |-> 7, bytes |-> <<103>> \o Prevent(Bytes(SpsData(p))),
   says |-> IF p.sps_id < 32 THEN SpsSays(p)
            ELSE [profile_idc |-> p.profile_idc]]

(* A slice of type t with its frame number and order count, of a field     *)
(* when the stream may have some.                                          *)
Slice(t, n, lsb) == [i_slice_type |-> t, i_frame_num |-> n,
                     field_pic |-> n % 2, i_pic_order_cnt_lsb |-> lsb]
SliceUnit(p, type, h) ==
  [type |-> type,
   bytes |-> <<type>> \o Prevent(Bytes(SliceHeader(p, h, type))),
   says |-> SliceSays(p, h)]

PpsUnit == [type |-> 8, bytes |-> <<104, 206>>, says |-> <<>>]

Base ==
  [profile_idc |-> 66, sps_id |-> 0, chroma_format_idc |-> 1,
   separate_colour_plane_flag |-> 0, log2_max_frame_num |-> 0,
   poc_type |-> 0, log2_max_poc_lsb |-> 2,
   delta_pic_order_always_zero_flag |-> 0, cycle |-> 0, mb_width |-> 21,
   mb_height |-> 17, frame_mbs_only_flag |-> 1, crop |-> 0, vui |-> 1,
   aspect |-> 0, sar |-> 1, overscan |-> 0, video_signal |-> 0, colour |-> 0,
   chroma_loc |-> 0, timing |-> 1, num_units_in_tick |-> 1,
   time_scale |-> 50, nal_hrd |-> 0, nal_cpb_cnt |-> 0, vcl_hrd |-> 0,
   vcl_cpb_cnt |-> 0, bitstream_restriction_flag |-> 0,
   num_reorder_frames |-> 0]

Shapes ==
  {Base,
   [Base EXCEPT !.profile_idc = 100, !.sps_id = 3, !.frame_mbs_only_flag = 0,
                !.crop = 1],
   [Base EXCEPT !.profile_idc = 244, !.chroma_format_idc = 3, !.poc_type = 2,
                !.log2_max_frame_num = 12],
   [Base EXCEPT !.poc_type = 1, !.cycle = 3, !.aspect = 1, !.sar = 255,
                !.num_units_in_tick = 1001, !.time_scale = 60000],
   [Base EXCEPT !.poc_type = 1, !.delta_pic_order_always_zero_flag = 1,
                !.cycle = 1, !.log2_max_poc_lsb = 0, !.aspect = 1,
                !.overscan = 1, !.video_signal = 1, !.frame_mbs_only_flag = 0],
   [Base EXCEPT !.log2_max_poc_lsb = 12, !.log2_max_frame_num = 5,
                !.video_signal = 1, !.colour = 1, !.chroma_loc = 1,
                !.nal_hrd = 1, !.nal_cpb_cnt = 1,
                !.bitstream_restriction_flag = 1, !.num_reorder_frames = 2],
   [Base EXCEPT !.vcl_hrd = 1, !.bitstream_restriction_flag = 1,
                !.num_reorder_frames = 16, !.sps_id = 31],
   [Base EXCEPT !.nal_hrd = 1, !.vcl_hrd = 1, !.vcl_cpb_cnt = 2,
                !.bitstream_restriction_flag = 1, !.profile_idc = 77],
   [Base EXCEPT !.nal_hrd = 1, !.nal_cpb_cnt = 1],
   [Base EXCEPT !.log2_max_frame_num = 12, !.log2_max_poc_lsb = 12],
   [Base EXCEPT !.vcl_hrd = 1, !.vcl_cpb_cnt = 1, !.timing = 0],
   [Base EXCEPT !.vui = 0, !.mb_width = 119, !.mb_height = 67],
   [Base EXCEPT !.time_scale = 0],
   [Base EXCEPT !.sps_id = 32]}

(* A stream: its SPS, an I slice of an IDR picture, and slices with large  *)
(* numbers, or numbers whose bytes are zeros; and an SPS behind another.   *)
MCSlices(p) ==
  <<<<5, Slice(7, 0, 0)>>, <<1, Slice(0, 0, 3)>>,
    <<1, Slice(5, 2 ^ (p.log2_max_frame_num + 4) - 1,
               2 ^ (p.log2_max_poc_lsb + 4) - 2)>>>>
StreamOf(p) ==
  LET slice(k) == SliceUnit(p, MCSlices(p)[k][1], MCSlices(p)[k][2])
  IN  <<SpsUnit(p), PpsUnit, slice(1), slice(2), SpsUnit(p), slice(3)>>

(* Codes no encoder writes, with 31 or 32 zeros, whose value as an int is  *)
(* negative: -2, the least one, -1. One of them stands in the place of a   *)
(* field, in an SPS that is otherwise as the standard has it and has       *)
(* slices behind it; what is kept of the other fields is as always. The    *)
(* place is where the SPS changes with the field.                          *)
LongCode(z, v) == <<U(z, 0), U(1, 1), U(z - 31, 1), U(31, v)>>
LongCodes == {LongCode(31, MaxInt), LongCode(31, 1), LongCode(32, MaxInt)}
LongFields == {"sps_id", "log2_max_frame_num", "log2_max_poc_lsb", "cycle",
               "mb_width", "nal_cpb_cnt", "num_reorder_frames"}
LongSps(field, code) ==
  LET none == IF field = "nal_cpb_cnt" THEN -1 ELSE 0
      p == [Base EXCEPT !.poc_type = IF field = "cycle" THEN 1 ELSE 0,
                        !.nal_hrd = 1, !.bitstream_restriction_flag = 1,
                        ![field] = none]
      codes == SpsData(p)
      other == SpsData([p EXCEPT ![field] = none + 1])
      k == Min({i \in DOMAIN codes : codes[i] # other[i]})
  IN  [type |-> 7,
       bytes |-> <<103>> \o Prevent(Bytes(SubSeq(codes, 1, k - 1) \o code
                                   \o SubSeq(codes, k + 1, Len(codes)))),
       says |-> [f \in DOMAIN SpsSays(p) \ {field} |-> SpsSays(p)[f]]]
Ones(type) == [type |-> type, bytes |-> <<type>> \o [k \in 1 .. 6 |-> 255],
               says |-> <<>>]
LongStreams ==
  {<<LongSps(field, code), Ones(5), Ones(1)>> :
     field \in LongFields, code \in LongCodes}

MCStreams ==
  {StreamOf(p) : p \in Shapes} \cup LongStreams
  \cup {<<SpsUnit(p), SpsUnit(q)>> : p \in Shapes, q \in {Base}}
  \cup {<<SpsUnit([Base EXCEPT !.log2_max_frame_num = 14,
                               !.log2_max_poc_lsb = 13])>>}
MCGarbage == {0, 255}

(* The units are of the syntax the theorems assume, but for the SPS with   *)
(* the id 32 and those with long codes.                                    *)
Follows(unit, codes, Is(_, _, _, _)) ==
  LET rbsp == Bytes(codes) IN Is(unit, rbsp, Place(rbsp), At(codes))
ASSUME SyntaxFollowed ==
  \A p \in Shapes : p.sps_id < 32 =>
    /\ Follows(SpsUnit(p), SpsData(p),
               LAMBDA unit, rbsp, place, at : IsSps(unit, p, rbsp, place, at))
    /\ \A k \in 1 .. 3 :
         LET type == MCSlices(p)[k][1]
             h == MCSlices(p)[k][2]
         IN  Follows(SliceUnit(p, type, h), SliceHeader(p, h, type),
                     LAMBDA unit, rbsp, place, at :
                       IsSlice(unit, p, h, rbsp, place, at))
=============================================================================
