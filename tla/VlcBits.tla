------------------------------ MODULE VlcBits -------------------------------
(***************************************************************************)
(* The bit reader bs_t of vlc_bits.h. Its byte pointer p and the i_left    *)
(* bits it has left in that byte are one number, the place bs_pos computes *)
(* from them: the bits that have been read. Behind the last bit every read *)
(* gives zeros.                                                            *)
(***************************************************************************)
EXTENDS Integers, Sequences

Bits(bytes) ==
  [k \in 1 .. 8 * Len(bytes) |->
     (bytes[((k - 1) \div 8) + 1] \div 2 ^ (7 - ((k - 1) % 8))) % 2]

bs_init(bytes) == [bits |-> Bits(bytes), pos |-> 0]

bs_eof(s) == s.pos >= Len(s.bits)

(* Where the reader is after n more bits, but for the end of the data.     *)
Ahead(s, n) ==
  IF bs_eof(s) THEN s
  ELSE [s EXCEPT !.pos = IF @ + n < Len(s.bits) THEN @ + n ELSE Len(s.bits)]

(* The next n bits as a number, the first one highest.                     *)
Value(s, n) ==
  LET v[i \in 0 .. n] ==
        IF i = 0 THEN 0
        ELSE 2 * v[i - 1] + (IF s.pos + i <= Len(s.bits)
                             THEN s.bits[s.pos + i] ELSE 0)
  IN  v[n]

(* bs_read and bs_read1. bs_skip, which does not look at the end of the    *)
(* data, moves the reader in the same way up to there. A width that is not *)
(* positive reads nothing.                                                 *)
bs_read(s, n) == IF n > 0 THEN [value |-> Value(s, n), s |-> Ahead(s, n)]
                 ELSE [value |-> 0, s |-> s]

-----------------------------------------------------------------------------
(* The Exp-Golomb codes are of type int, which has 32 bits and wraps.      *)
MaxInt == 2147483647
MinInt == -MaxInt - 1

Plus1(v) == IF v = MaxInt THEN MinInt ELSE v + 1

(* 32 bits as an int: the first one is its sign.                           *)
Signed(s) ==
  IF Value(s, 1) = 1 THEN MinInt + Value(Ahead(s, 1), 31)
  ELSE Value(Ahead(s, 1), 31)

(* The zeros bs_read_ue counts: up to the next one, the last bit of the    *)
(* data, or 32.                                                            *)
Zeros(s) ==
  LET Stops(i) == \/ i = 32 \/ s.pos + i + 1 >= Len(s.bits)
                  \/ s.bits[s.pos + i + 1] = 1
  IN  CHOOSE i \in 0 .. 32 : Stops(i) /\ \A j \in 0 .. i - 1 : ~ Stops(j)

(* (1 << i) - 1 and the next i bits. With 31 zeros the sum wraps; with 32  *)
(* the processor shifts by 0, and the int is what the 32 bits are.         *)
Golomb(s, i) ==
  CASE i < 31 -> 2 ^ i - 1 + Value(s, i)
    [] i = 31 -> IF Value(s, 31) = 0 THEN MaxInt
                 ELSE MinInt + (Value(s, 31) - 1)
    [] i = 32 -> Signed(s)

(* A plausible slip: the bit that ends the zeros is read again.            *)
bs_read_ueRereads(s) ==
  LET i == Zeros(s)
      suffix == Ahead(s, i)
  IN  [value |-> Golomb(suffix, i), s |-> Ahead(suffix, i)]

bs_read_ue(s) ==
  LET i == Zeros(s)
      suffix == Ahead(s, i + 1)
  IN  [value |-> Golomb(suffix, i), s |-> Ahead(suffix, i)]

bs_read_se(s) ==
  LET ue == bs_read_ue(s)
  IN  [ue EXCEPT !.value = IF @ % 2 = 1 THEN Plus1(@) \div 2
                           ELSE - (@ \div 2)]
=============================================================================
