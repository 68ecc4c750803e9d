---------------------------- MODULE H264Headers -----------------------------
(***************************************************************************)
(* ParseSqs and ParseSlice of h264MediaStream: what a stream learns from   *)
(* its sequence parameter set and from the head of each slice. Neither     *)
(* function keeps to a layout in advance: which syntax element comes next  *)
(* depends on the values of those before it, so one wrong step shifts all  *)
(* that follows. A parser is the list of elements it still has to read     *)
(* (todo); reading one may put others in front of the list (Follow).       *)
(*                                                                         *)
(* Memory that new gives is not initialised: a field nobody has read is    *)
(* Unset, and using it is a fault, as is dividing by a time_scale of 0.    *)
(* (time_scale is unsigned and never -1; ParseSlice comes only when it has *)
(* been read, and then the fields ParseSlice uses have been, too.)         *)
(***************************************************************************)
EXTENDS VlcBits

CONSTANTS
  Streams,   \* sequences of NAL units [type, bytes, says]: says is what the
             \* unit's header says, by field
  Garbage    \* the bytes that may lie behind a unit in memory

(* Streams with a slice in front of the first SPS are left to RtpOverTcp,  *)
(* where they end the process.                                             *)
UnitTyped(unit) == /\ unit.type \in Nat
                   /\ unit.bytes \in Seq(0 .. 255) /\ unit.bytes # <<>>
ASSUME HeadersAssumption ==
  /\ Garbage \subseteq 0 .. 255
  /\ \A stream \in Streams :
       /\ stream \in Seq({stream[k] : k \in DOMAIN stream})
       /\ \A k \in DOMAIN stream :
            /\ UnitTyped(stream[k])
            /\ stream[k].type < 6 => \E i \in 1 .. k - 1 : stream[i].type = 7

VARIABLES
  units,     \* the units of the stream that are still to come
  reparse,   \* MediaCreateSdp parses every SPS it finds, TCPForH264 the first
  task,      \* "idle", "sps" or "slice"
  s, todo,
  StreamSps, CurSlice,
  own,       \* history: the bits that are the unit's, before the garbage
  says,      \* history: what the SPS and the slice parsed last say
  fault

parser == <<task, s, todo, own>>
vars == <<units, reparse, parser, StreamSps, CurSlice, says, fault>>

SpsFields ==
  {"profile_idc", "log2_max_frame_num", "poc_type", "log2_max_poc_lsb",
   "delta_pic_order_always_zero_flag", "mb_width", "mb_height",
   "frame_mbs_only_flag", "num_units_in_tick", "time_scale",
   "bitstream_restriction_flag", "num_reorder_frames"}
SliceFields == {"i_slice_type", "i_frame_num", "i_pic_order_cnt_lsb"}

Unset == -1
Null == <<>>   \* StreamSps and CurSlice before new
Fresh(object, fields) == IF object = Null THEN [f \in fields |-> Unset]
                         ELSE object

Init ==
  /\ units \in Streams /\ reparse \in BOOLEAN
  /\ task = "idle"
  /\ s = bs_init(<<>>) /\ todo = <<>> /\ own = 0
  /\ StreamSps = Null /\ CurSlice = Null
  /\ says = [sps |-> <<>>, slice |-> <<>>]
  /\ fault = "none"

-----------------------------------------------------------------------------
(* The syntax. The name of an element whose value is not used is "x".       *)

u(n, name) == [name |-> name, code |-> "u", bits |-> n]
ue(name) == [name |-> name, code |-> "ue", bits |-> 0]
se == [name |-> "x", code |-> "se", bits |-> 0]

When(condition, elements) == IF condition THEN elements ELSE <<>>

Read(e) ==
  CASE e.code = "u" -> bs_read(s, e.bits)
    [] e.code = "ue" -> bs_read_ue(s)
    [] e.code = "se" -> bs_read_se(s)

(* Scaling matrices are not read.                                          *)
HighProfile ==
  <<ue("chroma_format_idc"), ue("x"), ue("x"), u(1, "transform_bypass"),
    u(1, "x")>>

SpsHead ==
  <<u(8, "profile_idc"), u(16, "x"), ue("sps_id"), ue("log2_max_frame_num"),
    ue("poc_type"), ue("x"), u(1, "x"), ue("mb_width"), ue("mb_height"),
    u(1, "frame_mbs_only_flag"), u(1, "x"), u(1, "crop"), u(1, "vui")>>

Vui ==
  <<u(1, "aspect"), u(1, "overscan"), u(1, "video_signal"),
    u(1, "chroma_loc"), u(1, "timing"), u(1, "nal_hrd"), u(1, "x"),
    u(1, "bitstream_restriction_flag")>>

Hrd(count) == <<ue(count)>>

(* A plausible slip: one entry too many.                                   *)
CpbLong(n) ==
  <<u(4, "x"), u(4, "x")>>
  \o When(Plus1(n) > 0, [i \in 1 .. 3 * Plus1(n + 1) |->
                           IF i % 3 = 0 THEN u(1, "x") ELSE ue("x")])
  \o <<u(5, "x"), u(5, "x"), u(5, "x"), u(5, "x")>>

(* What follows cpb_cnt_minus1. cpb_count and i_cycle are ints, too: one   *)
(* that is negative has no entries.                                        *)
Cpb(n) ==
  <<u(4, "x"), u(4, "x")>>
  \o When(Plus1(n) > 0, [i \in 1 .. 3 * Plus1(n) |->
                           IF i % 3 = 0 THEN u(1, "x") ELSE ue("x")])
  \o <<u(5, "x"), u(5, "x"), u(5, "x"), u(5, "x")>>

SliceHead(type) ==
  <<ue("x"), ue("i_slice_type"), ue("x"),
    u(StreamSps["log2_max_frame_num"] + 4, "i_frame_num")>>
  \o When(StreamSps["frame_mbs_only_flag"] = 0, <<u(1, "field_pic")>>)
  \o When(type = 5, <<ue("x")>>)
  \o When(StreamSps["poc_type"] = 0,
          <<u(StreamSps["log2_max_poc_lsb"] + 4, "i_pic_order_cnt_lsb")>>)
  \o When(/\ StreamSps["poc_type"] = 1
          /\ StreamSps["delta_pic_order_always_zero_flag"] = 0, <<se>>)

(* What an element's value makes the parser read next.                     *)
Follow(name, v) ==
  CASE name = "sps_id" -> When(StreamSps["profile_idc"] >= 100, HighProfile)
    [] name = "chroma_format_idc" -> When(v = 3, <<u(1, "x")>>)
    [] name = "poc_type" ->
         When(v = 0, <<ue("log2_max_poc_lsb")>>)
         \o When(v = 1, <<u(1, "delta_pic_order_always_zero_flag"), se, se,
                          ue("cycle")>>)
    [] name = "cycle" ->
         When(v > 0, [i \in 1 .. IF v > 256 THEN 256 ELSE v |-> se])
    [] name = "frame_mbs_only_flag" -> When(v = 0, <<u(1, "x")>>)
    [] name = "crop" -> When(v = 1, <<ue("x"), ue("x"), ue("x"), ue("x")>>)
    [] name = "vui" -> When(v = 1, Vui)
    [] name = "aspect" -> When(v = 1, <<u(8, "sar")>>)
    [] name = "sar" -> When(v = 255, <<u(16, "x"), u(16, "x")>>)
    [] name = "overscan" -> When(v = 1, <<u(1, "x")>>)
    [] name = "video_signal" -> When(v = 1, <<u(3, "x"), u(1, "x"),
                                              u(1, "colour")>>)
    [] name = "colour" -> When(v = 1, <<u(8, "x"), u(8, "x"), u(8, "x")>>)
    [] name = "chroma_loc" -> When(v = 1, <<ue("x"), ue("x")>>)
    [] name = "timing" -> When(v = 1, <<u(32, "num_units_in_tick"),
                                        u(32, "time_scale"), u(1, "x")>>)
    [] name = "nal_hrd" ->
         IF v = 1 THEN Hrd("nal_cpb_cnt") \o <<u(1, "vcl_hrd"), u(1, "x")>>
         ELSE <<u(1, "vcl_hrd_alone")>>
    [] name = "vcl_hrd" -> When(v = 1, Hrd("vcl_cpb_cnt"))
    [] name = "vcl_hrd_alone" ->
         When(v = 1, Hrd("vcl_cpb_cnt") \o <<u(1, "x")>>)
    [] name \in {"nal_cpb_cnt", "vcl_cpb_cnt"} -> Cpb(v)
    [] name = "bitstream_restriction_flag" ->
         When(v = 1, <<u(1, "x"), ue("x"), ue("x"), ue("x"), ue("x"),
                       ue("num_reorder_frames"), ue("x")>>)
    [] name = "field_pic" -> When(v = 1, <<u(1, "x")>>)
    [] OTHER -> <<>>

(* A plausible slip: the bound on the widths is left out, and the sizes    *)
(* are not scaled.                                                         *)
StoreUnclamped(name, v) == v

(* 16 * (v + 1) as an int.                                                 *)
Pixels(v) ==
  LET low == (1 + (v % 2 ^ 28)) % 2 ^ 28
  IN  16 * (IF low < 2 ^ 27 THEN low ELSE low - 2 ^ 28)

(* What is kept of a value. Only what is above a bound is cut.             *)
Store(name, v) ==
  CASE name \in {"log2_max_frame_num", "log2_max_poc_lsb"} ->
         IF v > 12 THEN 12 ELSE v
    [] name \in {"mb_width", "mb_height"} -> Pixels(v)
    [] OTHER -> v

-----------------------------------------------------------------------------
(* The two functions, and their callers.                                   *)

(* A plausible slip: the emulation prevention bytes are left in.           *)
UnescapeNothing(bytes, behind) == bytes

(* 00 00 03 becomes 00 00, where at least so many bytes follow the 03. Two *)
(* such places never overlap.                                              *)
Unescape(bytes, behind) ==
  LET Escape(k) == /\ k > 2 /\ k + behind <= Len(bytes)
                   /\ bytes[k - 2] = 0 /\ bytes[k - 1] = 0 /\ bytes[k] = 3
      p_nal[k \in 0 .. Len(bytes)] ==
        IF k = 0 THEN <<>>
        ELSE IF Escape(k) THEN p_nal[k - 1] ELSE Append(p_nal[k - 1], bytes[k])
  IN  p_nal[Len(bytes)]

Unit == Head(units)
Ready == fault = "none" /\ task = "idle" /\ units # <<>>

(* ParseSqs copies the unit without its first byte and its emulation       *)
(* prevention bytes into memory as long as the unit, and reads up to the   *)
(* end of that memory.                                                     *)
ParseSqs ==
  /\ Ready /\ Unit.type = 7 /\ (reparse \/ StreamSps = Null)
  /\ LET nal == Unescape(Tail(Unit.bytes), 1)
     IN  /\ \E g \in Garbage :
              s' = bs_init(nal \o [i \in 1 .. Len(Unit.bytes) - Len(nal) |-> g])
         /\ own' = 8 * Len(nal)
  /\ task' = "sps" /\ todo' = SpsHead
  /\ StreamSps' = Fresh(StreamSps, SpsFields)
  /\ says' = [says EXCEPT !.sps = Unit.says]
  /\ units' = Tail(units)
  /\ UNCHANGED <<reparse, CurSlice, fault>>

(* Only the first SPS of a stream that is played is parsed.                *)
KnownSps ==
  /\ Ready /\ Unit.type = 7 /\ ~ reparse /\ StreamSps # Null
  /\ units' = Tail(units)
  /\ UNCHANGED <<reparse, parser, StreamSps, CurSlice, says, fault>>

(* Other units, and slices when only the parameters are wanted.            *)
SkipUnit ==
  /\ Ready /\ Unit.type # 7 /\ (reparse \/ Unit.type >= 6)
  /\ units' = Tail(units)
  /\ UNCHANGED <<reparse, parser, StreamSps, CurSlice, says, fault>>

(* ParseSlice looks at no more than 64 bytes. Of a SINGLE node it is given *)
(* 17 bytes too many, of an FU-A node always 64.                           *)
ParseSlice ==
  /\ Ready /\ Unit.type < 6 /\ ~ reparse
  /\ \E g \in Garbage, behind \in {17, 64} :
       LET seen == Tail(Unit.bytes) \o [i \in 1 .. behind |-> g]
           window == SubSeq(seen, 1, IF Len(seen) < 64 THEN Len(seen) ELSE 64)
       IN  s' = bs_init(Unescape(window, 0))
  /\ own' = 8 * Len(Unescape(Tail(Unit.bytes), 0))
  /\ task' = "slice" /\ todo' = SliceHead(Unit.type)
  /\ CurSlice' = [Fresh(CurSlice, SliceFields) EXCEPT !["i_pic_order_cnt_lsb"]
                                                      = 0]
  /\ says' = [says EXCEPT !.slice = Unit.says]
  /\ units' = Tail(units)
  /\ UNCHANGED <<reparse, StreamSps, fault>>

(* A plausible slip: ids end at 30.                                        *)
GivesUpEarly(name, v) ==
  \/ name = "sps_id" /\ v >= 31
  \/ name = "num_reorder_frames" /\ v \notin 0 .. 16

(* A value that makes ParseSqs give up; its callers do not ask. The id is  *)
(* an int, so a negative one passes; num_reorder_frames is unsigned.       *)
GivesUp(name, v) ==
  \/ name = "sps_id" /\ v >= 32
  \/ name = "num_reorder_frames" /\ v \notin 0 .. 16

(* One syntax element is read.                                             *)
ReadElement ==
  /\ task # "idle" /\ todo # <<>>
  /\ LET e == Head(todo)
         r == Read(e)
         up == GivesUp(e.name, r.value)
         Kept(object) == IF e.name \in DOMAIN object /\ ~ up
                         THEN [object EXCEPT ![e.name] = Store(e.name, r.value)]
                         ELSE object
     IN  /\ s' = r.s
         /\ todo' = IF up THEN <<>>
                    ELSE Follow(e.name, r.value) \o Tail(todo)
         /\ StreamSps' = IF task = "sps" THEN Kept(StreamSps) ELSE StreamSps
         /\ CurSlice' = IF task = "slice" THEN Kept(CurSlice) ELSE CurSlice
  /\ UNCHANGED <<units, reparse, task, own, says, fault>>

(* The function returns. TCPForH264 divides by time_scale at once, behind  *)
(* an SPS for the rate and behind a slice for the timestamp.               *)
Return ==
  /\ task # "idle" /\ todo = <<>>
  /\ task' = "idle"
  /\ fault' = IF reparse THEN "none"
              ELSE CASE StreamSps["time_scale"] = Unset -> "unset"
                     [] StreamSps["time_scale"] = 0 -> "zero"
                     [] OTHER -> "none"
  /\ UNCHANGED <<units, reparse, s, todo, own, StreamSps, CurSlice, says>>

Next ==
  \/ ParseSqs \/ KnownSps \/ SkipUnit \/ ParseSlice
  \/ ReadElement \/ Return

Spec == Init /\ [][Next]_vars

-----------------------------------------------------------------------------
(* Properties.                                                             *)

(* The state has its type, and the reader stays inside its data. Whatever  *)
(* the file says, the widths ParseSlice adds 4 to are no larger than those *)
(* of the standard, so that no more bits are asked for than i_mask of      *)
(* bs_read has; a code with 31 or 32 zeros can make them negative.         *)
TypeOK ==
  /\ reparse \in BOOLEAN
  /\ task \in {"idle", "sps", "slice"}
  /\ task = "idle" /\ fault = "none" => todo = <<>>
  /\ s.pos \in 0 .. Len(s.bits)
  /\ StreamSps = Null \/ (/\ DOMAIN StreamSps = SpsFields
                          /\ StreamSps["log2_max_frame_num"] \in MinInt .. 12
                          /\ StreamSps["log2_max_poc_lsb"] \in MinInt .. 12)
  /\ CurSlice = Null \/ DOMAIN CurSlice = SliceFields
  /\ fault \in {"none", "unset", "zero"}

(* Through every combination of optional parts, Exp-Golomb codes that      *)
(* cross byte borders and emulation prevention bytes inside a field, a     *)
(* parsed SPS leaves what it says in StreamSps, whatever an earlier one    *)
(* left there.                                                             *)
SpsRecovered ==
  task # "sps" => \A f \in DOMAIN says.sps : StreamSps[f] = says.sps[f]

(* A slice of a stream whose SPS was parsed gets its type, frame number    *)
(* and order count, whatever lies behind it in memory.                     *)
SliceRecovered ==
  task = "idle" /\ fault = "none" =>
    \A f \in DOMAIN says.slice : CurSlice[f] = says.slice[f]

(* No bit behind the end of a unit is ever taken for a part of its header. *)
NoGarbageRead == s.pos <= own

(* A field that nobody has read is used, or a time_scale of 0, only in a   *)
(* stream whose SPS has no timing information, or a time_scale of 0.       *)
UnreadFieldsUnused ==
  /\ "time_scale" \in DOMAIN says.sps
  /\ says.sps["time_scale"] > 0
  => fault = "none"
=============================================================================
