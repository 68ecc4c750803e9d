----------------------------- MODULE H264Syntax -----------------------------
(***************************************************************************)
(* What H264Headers reads, as H.264 defines it: the tables of a sequence   *)
(* parameter set (7.3.2.1.1), its VUI and HRD parameters (E.1.1, E.1.2)    *)
(* and of the head of a slice (7.3.3), the codes their elements are        *)
(* written in (7.2, 9.1), and the emulation prevention bytes (7.4.1).      *)
(* A table is the sequence of codes that stand one behind the other when   *)
(* the elements have the values of p. But for the order of the bits in a   *)
(* byte (Bits) nothing here is taken from the code.                        *)
(***************************************************************************)
EXTENDS VlcBits

(* A code with the value it stands for, or whatever the encoder chose.     *)
Free == -1
U(n, v) == [code |-> "u", bits |-> n, value |-> v]
UE(v) == [code |-> "ue", bits |-> 0, value |-> v]
SE == [code |-> "se", bits |-> 0, value |-> Free]

If(condition, codes) == IF condition THEN codes ELSE <<>>

-----------------------------------------------------------------------------
(* Codes in bits: the code stands behind bit i and ends with bit j.        *)
(* Numbers are those below 2^31.                                           *)

Binary(b, i, n, v) ==
  /\ v \in Nat /\ IF n < 31 THEN v < 2 ^ n ELSE v \div 2 ^ 30 <= 1
  /\ \A k \in 1 .. n : b[i + k] = IF n - k > 30 THEN 0
                                  ELSE (v \div 2 ^ (n - k)) % 2

Stands(b, i, j, c) ==
  IF c.code = "u"
  THEN j = i + c.bits /\ (c.value # Free => Binary(b, i, c.bits, c.value))
  ELSE \E z \in 0 .. 30 :
         /\ j = i + 2 * z + 1
         /\ b[i + z + 1] = 1 /\ \A k \in 1 .. z : b[i + k] = 0
         /\ c.value # Free => Binary(b, i + z + 1, z, c.value + 1 - 2 ^ z)

(* The codes stand one behind the other, the k-th behind bit at[k].        *)
Written(b, at, codes) ==
  /\ at \in Seq(0 .. Len(b)) /\ Len(at) = Len(codes) + 1
  /\ \A k \in DOMAIN codes : Stands(b, at[k], at[k + 1], codes[k])

(* bytes is rbsp with its emulation prevention bytes, which are the 03s    *)
(* behind two zeros. place[k] is where byte k has got to.                  *)
Prevented(rbsp, place, bytes) ==
  /\ rbsp \in Seq(0 .. 255)
  /\ place \in [1 .. Len(rbsp) -> 1 .. Len(bytes)]
  /\ \A k \in DOMAIN place : bytes[place[k]] = rbsp[k]
  /\ \A j, k \in DOMAIN place : j < k => place[j] < place[k]
  /\ \A i \in DOMAIN bytes :
       i \in {place[k] : k \in DOMAIN place}
         <=> ~ (i > 2 /\ bytes[i - 2] = 0 /\ bytes[i - 1] = 0 /\ bytes[i] = 3)
  /\ Len(bytes) \in {place[k] : k \in DOMAIN place}

-----------------------------------------------------------------------------
(* Sequence parameter sets, without scaling matrices. The profiles 44, 83  *)
(* and 86 also have the fields of the high profiles, and are not among     *)
(* these: the code does not know that.                                     *)

Flag == 0 .. 1
HighProfiles == {100, 110, 118, 122, 128, 134, 135, 138, 139, 244}

SpsParameters ==
  [profile_idc : {66, 77, 88} \cup HighProfiles, sps_id : 0 .. 31,
   chroma_format_idc : 0 .. 3, separate_colour_plane_flag : Flag,
   log2_max_frame_num : Nat, poc_type : 0 .. 2, log2_max_poc_lsb : Nat,
   delta_pic_order_always_zero_flag : Flag, cycle : 0 .. 255,
   mb_width : 0 .. 1054, mb_height : 0 .. 1054, frame_mbs_only_flag : Flag, crop : Flag,
   vui : Flag, aspect : Flag, sar : 0 .. 255, overscan : Flag,
   video_signal : Flag, colour : Flag, chroma_loc : Flag, timing : Flag,
   num_units_in_tick : Nat, time_scale : Nat, nal_hrd : Flag,
   nal_cpb_cnt : 0 .. 31, vcl_hrd : Flag, vcl_cpb_cnt : 0 .. 31,
   bitstream_restriction_flag : Flag, num_reorder_frames : 0 .. 16]

HighData(p) ==
  <<UE(p.chroma_format_idc)>>
  \o If(p.chroma_format_idc = 3, <<U(1, p.separate_colour_plane_flag)>>)
  \o <<UE(Free), UE(Free), U(1, Free), U(1, 0)>>

PocData(p) ==
  If(p.poc_type = 0, <<UE(p.log2_max_poc_lsb)>>)
  \o If(p.poc_type = 1,
        <<U(1, p.delta_pic_order_always_zero_flag), SE, SE, UE(p.cycle)>>
        \o [k \in 1 .. p.cycle |-> SE])

(* cpb_cnt_minus1 is n.                                                    *)
HrdData(n) ==
  <<UE(n), U(4, Free), U(4, Free)>>
  \o [k \in 1 .. 3 * (n + 1) |-> <<UE(Free), UE(Free), U(1, Free)>>
                                   [((k - 1) % 3) + 1]]
  \o <<U(5, Free), U(5, Free), U(5, Free), U(5, Free)>>

AspectData(p) ==
  <<U(8, p.sar)>> \o If(p.sar = 255, <<U(16, Free), U(16, Free)>>)

VideoData(p) ==
  <<U(3, Free), U(1, Free), U(1, p.colour)>>
  \o If(p.colour = 1, <<U(8, Free), U(8, Free), U(8, Free)>>)

VuiData(p) ==
  <<U(1, p.aspect)>> \o If(p.aspect = 1, AspectData(p))
  \o <<U(1, p.overscan)>> \o If(p.overscan = 1, <<U(1, Free)>>)
  \o <<U(1, p.video_signal)>> \o If(p.video_signal = 1, VideoData(p))
  \o <<U(1, p.chroma_loc)>> \o If(p.chroma_loc = 1, <<UE(Free), UE(Free)>>)
  \o <<U(1, p.timing)>>
  \o If(p.timing = 1, <<U(32, p.num_units_in_tick), U(32, p.time_scale),
                        U(1, Free)>>)
  \o <<U(1, p.nal_hrd)>> \o If(p.nal_hrd = 1, HrdData(p.nal_cpb_cnt))
  \o <<U(1, p.vcl_hrd)>> \o If(p.vcl_hrd = 1, HrdData(p.vcl_cpb_cnt))
  \o If(p.nal_hrd = 1 \/ p.vcl_hrd = 1, <<U(1, Free)>>)
  \o <<U(1, Free), U(1, p.bitstream_restriction_flag)>>
  \o If(p.bitstream_restriction_flag = 1,
        <<U(1, Free), UE(Free), UE(Free), UE(Free), UE(Free),
          UE(p.num_reorder_frames), UE(Free)>>)

SpsData(p) ==
  <<U(8, p.profile_idc), U(16, Free), UE(p.sps_id)>>
  \o If(p.profile_idc \in HighProfiles, HighData(p))
  \o <<UE(p.log2_max_frame_num), UE(p.poc_type)>> \o PocData(p)
  \o <<UE(Free), U(1, Free), UE(p.mb_width), UE(p.mb_height),
       U(1, p.frame_mbs_only_flag)>>
  \o If(p.frame_mbs_only_flag = 0, <<U(1, Free)>>)
  \o <<U(1, Free), U(1, p.crop)>>
  \o If(p.crop = 1, <<UE(Free), UE(Free), UE(Free), UE(Free)>>)
  \o <<U(1, p.vui)>> \o If(p.vui = 1, VuiData(p))

(* What is to be kept of it: sizes in pixels, and 12 for a width that no   *)
(* file should have.                                                       *)
SpsFieldsOf(p) ==
  {"profile_idc", "log2_max_frame_num", "poc_type", "mb_width", "mb_height",
   "frame_mbs_only_flag"}
  \cup {f \in {"log2_max_poc_lsb"} : p.poc_type = 0}
  \cup {f \in {"delta_pic_order_always_zero_flag"} : p.poc_type = 1}
  \cup {f \in {"bitstream_restriction_flag"} : p.vui = 1}
  \cup {f \in {"num_units_in_tick", "time_scale"} : p.vui = 1 /\ p.timing = 1}
  \cup {f \in {"num_reorder_frames"} :
           p.vui = 1 /\ p.bitstream_restriction_flag = 1}

SpsSays(p) ==
  [f \in SpsFieldsOf(p) |->
     IF f \in {"log2_max_frame_num", "log2_max_poc_lsb"} /\ p[f] > 12 THEN 12
     ELSE IF f \in {"mb_width", "mb_height"} THEN 16 * (p[f] + 1)
     ELSE p[f]]

(* The unit is a sequence parameter set that says p.                       *)
IsSps(unit, p, rbsp, place, at) ==
  /\ unit.type = 7 /\ p \in SpsParameters /\ unit.says = SpsSays(p)
  /\ Prevented(rbsp, place, Tail(unit.bytes))
  /\ Written(Bits(rbsp), at, SpsData(p)) /\ at[1] = 0

-----------------------------------------------------------------------------
(* The head of a slice, up to the picture order count.                     *)

SliceParameters ==
  [i_slice_type : Nat, i_frame_num : Nat, field_pic : Flag,
   i_pic_order_cnt_lsb : Nat]

SliceHeader(p, h, type) ==
  <<UE(Free), UE(h.i_slice_type), UE(Free)>>
  \o If(p.separate_colour_plane_flag = 1, <<U(2, Free)>>)
  \o <<U(p.log2_max_frame_num + 4, h.i_frame_num)>>
  \o If(p.frame_mbs_only_flag = 0,
        <<U(1, h.field_pic)>> \o If(h.field_pic = 1, <<U(1, Free)>>))
  \o If(type = 5, <<UE(Free)>>)
  \o If(p.poc_type = 0, <<U(p.log2_max_poc_lsb + 4, h.i_pic_order_cnt_lsb)>>)
  \o If(p.poc_type = 1 /\ p.delta_pic_order_always_zero_flag = 0, <<SE>>)

SliceSays(p, h) ==
  [i_slice_type |-> h.i_slice_type, i_frame_num |-> h.i_frame_num,
   i_pic_order_cnt_lsb |-> IF p.poc_type = 0 THEN h.i_pic_order_cnt_lsb ELSE 0]

(* The unit is a slice of a stream with the SPS p, whose colour planes are *)
(* not separate; its head lies in the first 64 bytes.                      *)
IsSlice(unit, p, h, rbsp, place, at) ==
  /\ unit.type \in {1, 2, 5} /\ h \in SliceParameters
  /\ p.log2_max_frame_num <= 12
  /\ p.poc_type = 0 => p.log2_max_poc_lsb <= 12
  /\ p.separate_colour_plane_flag = 0
  /\ unit.says = SliceSays(p, h)
  /\ Prevented(rbsp, place, Tail(unit.bytes))
  /\ Written(Bits(rbsp), at, SliceHeader(p, h, unit.type)) /\ at[1] = 0
  /\ \A k \in DOMAIN place : 8 * (k - 1) < at[Len(at)] => place[k] <= 64

Sps(unit, p) == \E rbsp, place, at : IsSps(unit, p, rbsp, place, at)
SliceOf(unit, p) == \E h, rbsp, place, at : IsSlice(unit, p, h, rbsp, place, at)

(* All slices belong to the first SPS of the stream.                       *)
Conforms(stream) ==
  \A k \in DOMAIN stream :
    /\ stream[k].type = 7 => \E p : Sps(stream[k], p)
    /\ stream[k].type = 7 /\ (\A i \in 1 .. k - 1 : stream[i].type # 7) =>
         \E p : /\ Sps(stream[k], p)
                /\ \A i \in DOMAIN stream :
                     stream[i].type < 6 => SliceOf(stream[i], p)
=============================================================================
