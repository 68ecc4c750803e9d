------------------------- MODULE H264HeadersProofs --------------------------
(* The types of H264Headers for any stream, and for every stream whose     *)
(* headers H264Syntax describes: that ParseSqs and ParseSlice recover what *)
(* they say, read nothing behind them, and use nothing they did not read.  *)
(*                                                                         *)
(* The code decides element by element what comes next; the standard has a *)
(* table. So elements and codes are seen as edges between places in the    *)
(* bits: an edge of Marks is a code that stands there, an edge of Branches *)
(* is an element of the code with the whole table that hangs on its value. *)
(* That todo is a path over Branches from the place of the reader to the   *)
(* end of what was written (a Chain) is the heart of the invariant.        *)
EXTENDS H264Headers, H264Syntax, WellFoundedInduction, TLAPS

(* A set of numbers has a least one.                                       *)
LEMMA Least ==
  ASSUME NEW T \in SUBSET Nat, T # {}
  PROVE  \E x \in T : \A y \in T : x <= y
<1>1. T \subseteq Nat
  OBVIOUS
<1>2. PICK x \in T : \A y \in T : ~ (<<y, x>> \in OpToRel(<, Nat))
  BY <1>1, NatLessThanWellFounded, WFMin
<1>3. \A y \in T : ~ (y < x)
  BY <1>1, <1>2 DEF OpToRel
<1> QED
  BY <1>1, <1>3

(* Sequences: items, repetitions and prefixes keep the type.               *)
LEMMA ItemIs ==
  ASSUME NEW S, NEW q \in Seq(S), NEW i \in 1 .. Len(q)
  PROVE  q[i] \in S
OBVIOUS

LEMMA RepeatTyped ==
  ASSUME NEW S, NEW n \in Int, NEW x \in S
  PROVE  [i \in 1 .. n |-> x] \in Seq(S)
<1>1. CASE n \in Nat
  BY <1>1
<1>2. CASE n \notin Nat
  <2>1. 1 .. n = 1 .. 0
    BY <1>2
  <2>2. [i \in 1 .. 0 |-> x] \in Seq(S)
    OBVIOUS
  <2> QED BY <2>1, <2>2
<1> QED BY <1>1, <1>2

LEMMA PrefixIs ==
  ASSUME NEW S, NEW q \in Seq(S), NEW n \in 0 .. Len(q)
  PROVE  /\ SubSeq(q, 1, n) \in Seq(S) /\ Len(SubSeq(q, 1, n)) = n
         /\ \A i \in 1 .. n : SubSeq(q, 1, n)[i] = q[i]
<1>1. n \in Nat /\ \A i \in 1 .. n : q[i] \in S
  OBVIOUS
<1>2. SubSeq(q, 1, n) = [i \in 1 .. n |-> q[i]]
  <2>1. SubSeq(q, 1, n) = [i \in 1 .. (1 + n) - 1 |-> q[(1 + i) - 1]]
    OBVIOUS
  <2>2. (1 + n) - 1 = n /\ \A i \in 1 .. n : (1 + i) - 1 = i
    BY <1>1
  <2> QED BY <2>1, <2>2
<1> QED BY <1>1, <1>2

-----------------------------------------------------------------------------
(* The bit reader.                                                         *)
Reader == {r \in [bits : Seq({0, 1}), pos : Nat] : r.pos <= Len(r.bits)}

NextBit(r, i) == IF r.pos + i <= Len(r.bits) THEN r.bits[r.pos + i] ELSE 0

(* Behind the last bit the reader sees zeros.                              *)
LEMMA NextBitIs ==
  ASSUME NEW r \in Reader, NEW i \in Nat \ {0}
  PROVE  NextBit(r, i) \in {0, 1}
<1>1. r.bits \in Seq({0, 1}) /\ r.pos \in Nat
  BY DEF Reader
<1> QED BY <1>1 DEF NextBit

(* A number that is doubled and given a bit at each step.                  *)
LEMMA Doubling ==
  ASSUME NEW r \in Reader, NEW n \in Nat
  PROVE  \E f \in [0 .. n -> Nat] :
           f[0] = 0 /\ \A i \in 1 .. n : f[i] = 2 * f[i - 1] + NextBit(r, i)
<1> DEFINE Upto(m) == \E f \in [0 .. m -> Nat] :
             f[0] = 0 /\ \A i \in 1 .. m : f[i] = 2 * f[i - 1] + NextBit(r, i)
           missing == {m \in Nat : ~ Upto(m)}
<1>1. SUFFICES ASSUME missing # {} PROVE FALSE
  OBVIOUS
<1>2. PICK m \in missing : \A k \in missing : m <= k
  <2>1. missing \in SUBSET Nat
    OBVIOUS
  <2> HIDE DEF missing
  <2> QED BY <1>1, <2>1, Least
<1>3. m \in Nat /\ ~ Upto(m)
  OBVIOUS
<1>4. m # 0
  <2>1. Upto(0)
    <3> DEFINE f == [i \in 0 .. 0 |-> 0]
    <3>1. f \in [0 .. 0 -> Nat] /\ f[0] = 0 /\ 1 .. 0 = {}
      OBVIOUS
    <3> QED BY <3>1
  <2> QED BY <1>3, <2>1
<1>5. Upto(m - 1)
  <2> HIDE DEF Upto
  <2>1. m - 1 \in Nat /\ ~ (m <= m - 1)
    BY <1>3, <1>4
  <2>2. m - 1 \notin missing
    BY <1>2, <2>1
  <2> QED BY <2>1, <2>2
<1>6. PICK f \in [0 .. m - 1 -> Nat] :
        f[0] = 0 /\ \A i \in 1 .. m - 1 : f[i] = 2 * f[i - 1] + NextBit(r, i)
  BY <1>5
<1> DEFINE last == 2 * f[m - 1] + NextBit(r, m)
           g == [i \in 0 .. m |-> IF i = m THEN last ELSE f[i]]
<1>7. m - 1 \in 0 .. m - 1 /\ 0 \in 0 .. m - 1 /\ f[m - 1] \in Nat
  BY <1>3, <1>4
<1>8. last \in Nat
  <2>1. NextBit(r, m) \in {0, 1}
    BY <1>3, <1>4, NextBitIs
  <2> QED BY <1>7, <2>1
<1>9. g \in [0 .. m -> Nat]
  <2>1. \A i \in 0 .. m : i = m \/ i \in 0 .. m - 1
    BY <1>3, <1>4
  <2> HIDE DEF last
  <2> QED BY <1>8, <2>1
<1>10. g[0] = 0 /\ g[m] = last /\ \A i \in 0 .. m - 1 : g[i] = f[i]
  <2> HIDE DEF last
  <2> QED BY <1>3, <1>4, <1>6
<1>11. ASSUME NEW i \in 1 .. m PROVE g[i] = 2 * g[i - 1] + NextBit(r, i)
  <2> HIDE DEF g
  <2>1. CASE i = m
    BY <1>3, <1>4, <1>7, <1>10, <2>1
  <2>2. CASE i # m
    <3>1. i \in 1 .. m - 1 /\ i - 1 \in 0 .. m - 1 /\ i \in 0 .. m - 1
      BY <1>3, <2>2
    <3> QED BY <1>6, <1>10, <3>1
  <2> QED BY <2>1, <2>2
<1> HIDE DEF g, last
<1>12. Upto(m)
  BY <1>9, <1>10, <1>11
<1> QED BY <1>3, <1>12

(* What Value computes, bit by bit.                                        *)
LEMMA ValueIs ==
  ASSUME NEW r \in Reader, NEW n \in Nat
  PROVE  \E f \in [0 .. n -> Nat] :
           /\ f[0] = 0 /\ \A i \in 1 .. n : f[i] = 2 * f[i - 1] + NextBit(r, i)
           /\ Value(r, n) = f[n]
<1> DEFINE Step(v, i) == IF i = 0 THEN 0
                         ELSE 2 * v[i - 1] + (IF r.pos + i <= Len(r.bits)
                                              THEN r.bits[r.pos + i] ELSE 0)
           v == CHOOSE v : v = [i \in 0 .. n |-> Step(v, i)]
<1>1. PICK f \in [0 .. n -> Nat] :
        f[0] = 0 /\ \A i \in 1 .. n : f[i] = 2 * f[i - 1] + NextBit(r, i)
  BY Doubling
<1>2. f = [i \in 0 .. n |-> Step(f, i)]
  <2>1. ASSUME NEW i \in 0 .. n PROVE f[i] = Step(f, i)
    <3>1. i = 0 \/ i \in 1 .. n
      OBVIOUS
    <3> QED BY <1>1, <3>1 DEF NextBit
  <2> HIDE DEF Step
  <2> QED BY <2>1
<1>3. v = [i \in 0 .. n |-> Step(v, i)]
  <2> HIDE DEF Step
  <2> QED BY <1>2
<1>4. /\ v[0] = 0 /\ \A i \in 1 .. n : v[i] = 2 * v[i - 1] + NextBit(r, i)
  <2>1. \A i \in 0 .. n : v[i] = Step(v, i)
    <3> HIDE DEF Step, v
    <3> QED BY <1>3
  <2>2. 0 \in 0 .. n /\ \A i \in 1 .. n : i \in 0 .. n /\ i # 0
    OBVIOUS
  <2> HIDE DEF v
  <2> QED BY <2>1, <2>2 DEF NextBit
<1>5. Value(r, n) = v[n]
  BY DEF Value
<1>6. \A i \in 0 .. n : v[i] = f[i]
  <2> HIDE DEF v
  <2> DEFINE wrong == {i \in 0 .. n : v[i] # f[i]}
  <2>1. SUFFICES ASSUME wrong # {} PROVE FALSE
    OBVIOUS
  <2>2. PICK i \in wrong : \A k \in wrong : i <= k
    <3>1. wrong \in SUBSET Nat
      OBVIOUS
    <3> HIDE DEF wrong
    <3> QED BY <2>1, <3>1, Least
  <2>3. i \in 1 .. n
    BY <1>1, <1>4
  <2>4. i - 1 \in 0 .. n /\ i - 1 \notin wrong
    BY <2>2, <2>3
  <2>5. v[i - 1] = f[i - 1]
    BY <2>4
  <2> QED BY <1>1, <1>4, <2>3, <2>5
<1>7. Value(r, n) = f[n]
  <2> HIDE DEF v
  <2> QED BY <1>5, <1>6
<1> QED BY <1>1, <1>7

LEMMA Powers ==
  ASSUME NEW i \in 0 .. 32
  PROVE  /\ 2 ^ i \in Nat \ {0} /\ 2 ^ (i + 1) = 2 * 2 ^ i
         /\ i <= 30 => 2 ^ i <= 2 ^ 30
<1>1. CASE i = 0 BY <1>1
<1>2. CASE i = 1 BY <1>2
<1>3. CASE i = 2 BY <1>3
<1>4. CASE i = 3 BY <1>4
<1>5. CASE i = 4 BY <1>5
<1>6. CASE i = 5 BY <1>6
<1>7. CASE i = 6 BY <1>7
<1>8. CASE i = 7 BY <1>8
<1>9. CASE i = 8 BY <1>9
<1>10. CASE i = 9 BY <1>10
<1>11. CASE i = 10 BY <1>11
<1>12. CASE i = 11 BY <1>12
<1>13. CASE i = 12 BY <1>13
<1>14. CASE i = 13 BY <1>14
<1>15. CASE i = 14 BY <1>15
<1>16. CASE i = 15 BY <1>16
<1>17. CASE i = 16 BY <1>17
<1>18. CASE i = 17 BY <1>18
<1>19. CASE i = 18 BY <1>19
<1>20. CASE i = 19 BY <1>20
<1>21. CASE i = 20 BY <1>21
<1>22. CASE i = 21 BY <1>22
<1>23. CASE i = 22 BY <1>23
<1>24. CASE i = 23 BY <1>24
<1>25. CASE i = 24 BY <1>25
<1>26. CASE i = 25 BY <1>26
<1>27. CASE i = 26 BY <1>27
<1>28. CASE i = 27 BY <1>28
<1>29. CASE i = 28 BY <1>29
<1>30. CASE i = 29 BY <1>30
<1>31. CASE i = 30 BY <1>31
<1>32. CASE i = 31 BY <1>32
<1>33. CASE i = 32 BY <1>33
<1>34. i <= 7 \/ i \in 8 .. 15 \/ i \in 16 .. 23 \/ i \in 24 .. 32
  OBVIOUS
<1>35. CASE i <= 7
  BY <1>35, <1>1, <1>2, <1>3, <1>4, <1>5, <1>6, <1>7, <1>8
<1>36. CASE i \in 8 .. 15
  BY <1>36, <1>9, <1>10, <1>11, <1>12, <1>13, <1>14, <1>15, <1>16
<1>37. CASE i \in 16 .. 23
  BY <1>37, <1>17, <1>18, <1>19, <1>20, <1>21, <1>22, <1>23, <1>24
<1>38. CASE i \in 24 .. 32
  BY <1>38, <1>25, <1>26, <1>27, <1>28, <1>29, <1>30, <1>31, <1>32, <1>33
<1> QED BY <1>34, <1>35, <1>36, <1>37, <1>38

(* Whatever the data, Value is a number of n bits and Ahead stays inside   *)
(* them.                                                                   *)
LEMMA ValueNat ==
  ASSUME NEW r \in Reader, NEW n \in Nat
  PROVE  Value(r, n) \in Nat
<1>1. PICK f \in [0 .. n -> Nat] : Value(r, n) = f[n]
  BY ValueIs
<1> QED BY <1>1

LEMMA ValueBelow ==
  ASSUME NEW r \in Reader, NEW n \in 0 .. 31
  PROVE  Value(r, n) \in 0 .. 2 ^ n - 1
<1>1. PICK f \in [0 .. n -> Nat] :
        /\ f[0] = 0 /\ \A i \in 1 .. n : f[i] = 2 * f[i - 1] + NextBit(r, i)
        /\ Value(r, n) = f[n]
  <2>1. n \in Nat
    OBVIOUS
  <2> QED BY <2>1, ValueIs
<1> DEFINE wrong == {i \in 0 .. n : ~ (f[i] < 2 ^ i)}
<1>2. wrong = {}
  <2>1. SUFFICES ASSUME wrong # {} PROVE FALSE
    OBVIOUS
  <2>2. PICK i \in wrong : \A k \in wrong : i <= k
    <3>1. wrong \in SUBSET Nat
      OBVIOUS
    <3> HIDE DEF wrong
    <3> QED BY <2>1, <3>1, Least
  <2>3. i \in 0 .. n /\ ~ (f[i] < 2 ^ i)
    OBVIOUS
  <2>4. i # 0
    <3>1. f[0] < 2 ^ 0
      <4>1. 2 ^ 0 = 1
        OBVIOUS
      <4> QED BY <1>1, <4>1
    <3> QED BY <2>3, <3>1
  <2>5. i - 1 \in 0 .. n /\ i \in 1 .. n /\ ~ (i <= i - 1)
    BY <2>3, <2>4
  <2>6. f[i - 1] < 2 ^ (i - 1)
    <3>1. i - 1 \notin wrong
      BY <2>2, <2>5
    <3> QED BY <2>5, <3>1
  <2>7. 2 ^ (i - 1) \in Nat \ {0} /\ 2 ^ i = 2 * 2 ^ (i - 1)
    <3>1. i - 1 \in 0 .. 32 /\ (i - 1) + 1 = i
      BY <2>5
    <3> QED BY <3>1, Powers
  <2>8. f[i] = 2 * f[i - 1] + NextBit(r, i) /\ NextBit(r, i) \in {0, 1}
    <3>1. i \in Nat \ {0}
      BY <2>5
    <3> QED BY <1>1, <2>5, <3>1, NextBitIs
  <2> HIDE DEF wrong
  <2> DEFINE w == 2 ^ (i - 1)
             w2 == 2 ^ i
  <2>9. w \in Nat /\ w2 = 2 * w /\ f[i - 1] < w /\ f[i - 1] \in Nat
        /\ ~ (f[i] < w2)
    BY <2>3, <2>5, <2>6, <2>7
  <2> HIDE DEF w, w2
  <2> QED BY <2>8, <2>9
<1>3. f[n] < 2 ^ n /\ f[n] \in Nat
  <2>1. n \in 0 .. n /\ n \notin wrong
    BY <1>2
  <2> QED BY <2>1
<1>4. 2 ^ n \in Nat
  <2>1. n \in 0 .. 32
    OBVIOUS
  <2> QED BY <2>1, Powers
<1> DEFINE w == 2 ^ n
<1>5. f[n] \in Nat /\ f[n] < w /\ w \in Nat
  BY <1>3, <1>4
<1> HIDE DEF w
<1>6. f[n] \in 0 .. w - 1
  BY <1>5
<1> QED BY <1>1, <1>6 DEF w

LEMMA AheadReader ==
  ASSUME NEW r \in Reader, NEW n \in Nat
  PROVE  /\ Ahead(r, n) \in Reader /\ Ahead(r, n).bits = r.bits
         /\ r.pos + n <= Len(r.bits) => Ahead(r, n).pos = r.pos + n
<1>1. /\ r \in [bits : Seq({0, 1}), pos : Nat] /\ r.pos <= Len(r.bits)
      /\ Len(r.bits) \in Nat /\ r.pos \in Nat
  BY DEF Reader
<1>2. CASE bs_eof(r)
  <2>1. Ahead(r, n) = r /\ r.pos >= Len(r.bits)
    BY <1>2 DEF Ahead, bs_eof
  <2> QED BY <1>1, <2>1
<1>3. CASE ~ bs_eof(r)
  <2> DEFINE p == IF r.pos + n < Len(r.bits) THEN r.pos + n ELSE Len(r.bits)
  <2>1. Ahead(r, n) = [r EXCEPT !.pos = p]
    BY <1>3 DEF Ahead
  <2>2. p \in Nat /\ p <= Len(r.bits)
        /\ (r.pos + n <= Len(r.bits) => p = r.pos + n)
    BY <1>1
  <2> HIDE DEF p
  <2>3. [r EXCEPT !.pos = p] \in Reader
    BY <1>1, <2>2 DEF Reader
  <2> QED BY <1>1, <2>1, <2>2, <2>3
<1> QED BY <1>2, <1>3

(* The count of zeros that bs_read_ue takes exists.                        *)
LEMMA ZerosIs ==
  ASSUME NEW r \in Reader
  PROVE  LET Stops(i) == \/ i = 32 \/ r.pos + i + 1 >= Len(r.bits)
                         \/ r.bits[r.pos + i + 1] = 1
         IN  /\ Zeros(r) \in 0 .. 32 /\ Stops(Zeros(r))
             /\ \A j \in 0 .. Zeros(r) - 1 : ~ Stops(j)
<1> DEFINE Stops(i) == \/ i = 32 \/ r.pos + i + 1 >= Len(r.bits)
                       \/ r.bits[r.pos + i + 1] = 1
           places == {i \in 0 .. 32 : Stops(i)}
<1>1. places \in SUBSET Nat /\ places # {}
  <2>1. Stops(32)
    OBVIOUS
  <2> HIDE DEF Stops
  <2>2. 32 \in places /\ places \subseteq Nat
    BY <2>1
  <2> QED BY <2>2
<1>2. PICK i \in places : \A k \in places : i <= k
  <2> HIDE DEF places
  <2> QED BY <1>1, Least
<1>3. i \in 0 .. 32 /\ Stops(i) /\ \A j \in 0 .. i - 1 : ~ Stops(j)
  <2>1. i \in 0 .. 32 /\ Stops(i)
    OBVIOUS
  <2>2. ASSUME NEW j \in 0 .. i - 1 PROVE ~ Stops(j)
    <3>1. j \in 0 .. 32 /\ ~ (i <= j)
      BY <2>1
    <3>2. j \notin places
      BY <1>2, <3>1
    <3> HIDE DEF Stops
    <3> QED BY <3>1, <3>2
  <2> QED BY <2>1, <2>2
<1>4. Zeros(r) = CHOOSE k \in 0 .. 32 : Stops(k) /\ \A j \in 0 .. k - 1 : ~ Stops(j)
  BY DEF Zeros
<1> HIDE DEF Stops
<1>5. /\ Zeros(r) \in 0 .. 32 /\ Stops(Zeros(r))
      /\ \A j \in 0 .. Zeros(r) - 1 : ~ Stops(j)
  BY <1>3, <1>4
<1> QED BY <1>5 DEF Stops

(* The code of bs_read_ue, in parts.                                       *)
LEMMA UeParts ==
  ASSUME NEW r \in Reader
  PROVE  LET z == Zeros(r)
             suffix == Ahead(r, z + 1)
         IN  /\ z \in 0 .. 32 /\ suffix \in Reader /\ suffix.bits = r.bits
             /\ bs_read_ue(r) = [value |-> Golomb(suffix, z),
                                 s |-> Ahead(suffix, z)]
<1> DEFINE z == Zeros(r)
           suffix == Ahead(r, z + 1)
<1>1. z \in 0 .. 32
  BY ZerosIs
<1>2. suffix \in Reader /\ suffix.bits = r.bits
  <2> HIDE DEF z
  <2>1. z + 1 \in Nat
    BY <1>1
  <2> QED BY <2>1, AheadReader
<1>3. bs_read_ue(r) = [value |-> Golomb(suffix, z), s |-> Ahead(suffix, z)]
  BY DEF bs_read_ue
<1> QED BY <1>1, <1>2, <1>3

(* The limits of an int.                                                   *)
LEMMA IntLimits ==
  MaxInt \in Nat /\ MaxInt > 1000 /\ MinInt = -MaxInt - 1
BY DEF MaxInt, MinInt

(* Whatever the data and however many zeros, the code is an int.           *)
LEMMA GolombTyped ==
  ASSUME NEW r \in Reader, NEW z \in 0 .. 32
  PROVE  Golomb(r, z) \in MinInt .. MaxInt
<1>1. Value(r, 31) \in 0 .. MaxInt /\ Value(Ahead(r, 1), 31) \in 0 .. MaxInt
  <2>1. Ahead(r, 1) \in Reader
    BY AheadReader
  <2>2. 2 ^ 31 - 1 = MaxInt
    BY SMT DEF MaxInt
  <2>3. 31 \in 0 .. 31
    OBVIOUS
  <2>4. Value(r, 31) \in 0 .. 2 ^ 31 - 1
    BY <2>3, ValueBelow
  <2>5. Value(Ahead(r, 1), 31) \in 0 .. 2 ^ 31 - 1
    BY <2>1, <2>3, ValueBelow
  <2> QED BY <2>2, <2>4, <2>5
<1>2. CASE z < 31
  <2>1. Golomb(r, z) = 2 ^ z - 1 + Value(r, z)
    BY <1>2 DEF Golomb
  <2>2. Value(r, z) \in 0 .. 2 ^ z - 1
    <3>1. z \in 0 .. 31
      BY <1>2
    <3> QED BY <3>1, ValueBelow
  <2>3. 2 ^ z \in Nat \ {0} /\ 2 ^ z <= 2 ^ 30
    <3>1. z <= 30
      BY <1>2
    <3> QED BY <3>1, Powers
  <2> DEFINE w == 2 ^ z
             x == Value(r, z)
  <2>4. /\ Golomb(r, z) = w - 1 + x /\ x \in 0 .. w - 1
        /\ w \in Nat \ {0} /\ w <= 2 ^ 30
    BY <2>1, <2>2, <2>3
  <2> HIDE DEF w, x
  <2>5. 2 ^ 30 + 2 ^ 30 - 1 = MaxInt
    BY SMT DEF MaxInt
  <2>6. 2 ^ 30 \in Nat
    BY Powers
  <2> DEFINE y == 2 ^ 30
  <2>7. y + y - 1 = MaxInt /\ y \in Nat /\ w <= y
    BY <2>4, <2>5, <2>6
  <2> HIDE DEF y
  <2> QED BY <2>4, <2>7, IntLimits
<1>3. CASE z = 31
  <2> DEFINE x == Value(r, 31)
  <2>1. Golomb(r, z) = IF x = 0 THEN MaxInt ELSE MinInt + (x - 1)
    BY <1>3 DEF Golomb
  <2>2. x \in 0 .. MaxInt
    BY <1>1
  <2> HIDE DEF x
  <2> QED BY <2>1, <2>2, IntLimits
<1>4. CASE z = 32
  <2> DEFINE x == Value(Ahead(r, 1), 31)
  <2>1. Golomb(r, z) = IF Value(r, 1) = 1 THEN MinInt + x ELSE x
    BY <1>4 DEF Golomb, Signed
  <2>2. x \in 0 .. MaxInt
    BY <1>1
  <2> HIDE DEF x
  <2> QED BY <2>1, <2>2, IntLimits
<1> QED BY <1>2, <1>3, <1>4

(* The Exp-Golomb readers give ints and leave the data alone.              *)
LEMMA UeTyped ==
  ASSUME NEW r \in Reader
  PROVE  /\ bs_read_ue(r).value \in MinInt .. MaxInt
         /\ bs_read_ue(r).s \in Reader
         /\ bs_read_ue(r).s.bits = r.bits
<1> DEFINE z == Zeros(r)
           suffix == Ahead(r, z + 1)
<1>1. /\ z \in 0 .. 32 /\ suffix \in Reader /\ suffix.bits = r.bits
      /\ bs_read_ue(r) = [value |-> Golomb(suffix, z), s |-> Ahead(suffix, z)]
  BY UeParts
<1> HIDE DEF z, suffix
<1>2. Golomb(suffix, z) \in MinInt .. MaxInt
  BY <1>1, GolombTyped
<1>3. Ahead(suffix, z) \in Reader /\ Ahead(suffix, z).bits = suffix.bits
  <2>1. z \in Nat
    BY <1>1
  <2> QED BY <1>1, <2>1, AheadReader
<1> QED BY <1>1, <1>2, <1>3

LEMMA SeTyped ==
  ASSUME NEW r \in Reader
  PROVE  bs_read_se(r).s = bs_read_ue(r).s
<1> DEFINE code == bs_read_ue(r)
<1>1. code = [value |-> code.value, s |-> code.s]
  <2> DEFINE z == Zeros(r)
             suffix == Ahead(r, z + 1)
  <2>1. code = [value |-> Golomb(suffix, z), s |-> Ahead(suffix, z)]
    BY UeParts
  <2> HIDE DEF z, suffix, code
  <2> QED BY <2>1
<1>2. bs_read_se(r) = [code EXCEPT !.value = IF @ % 2 = 1 THEN Plus1(@) \div 2
                                             ELSE - (@ \div 2)]
  BY DEF bs_read_se
<1> HIDE DEF code
<1> QED BY <1>1, <1>2 DEF code

(* bs_init makes a reader of any bytes.                                    *)
LEMMA BitsTyped ==
  ASSUME NEW bytes \in Seq(0 .. 255)
  PROVE  Bits(bytes) \in Seq({0, 1}) /\ Len(Bits(bytes)) = 8 * Len(bytes)
<1> DEFINE n == 8 * Len(bytes)
           byte(k) == bytes[((k - 1) \div 8) + 1]
           scale(k) == 2 ^ (7 - ((k - 1) % 8))
<1>1. n \in Nat /\ Len(bytes) \in Nat
  OBVIOUS
<1>2. Bits(bytes) = [k \in 1 .. n |-> (byte(k) \div scale(k)) % 2]
  BY DEF Bits
<1>3. ASSUME NEW k \in 1 .. n PROVE (byte(k) \div scale(k)) % 2 \in {0, 1}
  <2>1. (k - 1) \div 8 \in 0 .. Len(bytes) - 1 /\ 7 - ((k - 1) % 8) \in 0 .. 32
    BY <1>1
  <2>2. byte(k) \in Nat
    <3>1. ((k - 1) \div 8) + 1 \in 1 .. Len(bytes)
      BY <2>1
    <3>2. byte(k) \in 0 .. 255
      BY <3>1, ItemIs
    <3> HIDE DEF byte
    <3>3. \A x \in 0 .. 255 : x \in Nat
      OBVIOUS
    <3> QED BY <3>2, <3>3
  <2>3. scale(k) \in Nat \ {0}
    BY <2>1, Powers
  <2> HIDE DEF byte, scale
  <2>4. byte(k) \div scale(k) \in Nat
    BY <2>2, <2>3
  <2> QED BY <2>4
<1> HIDE DEF n, byte, scale
<1>4. Bits(bytes) \in [1 .. n -> {0, 1}]
  BY <1>2, <1>3
<1> QED BY <1>1, <1>4 DEF n

LEMMA InitReader ==
  ASSUME NEW bytes \in Seq(0 .. 255)
  PROVE  /\ bs_init(bytes) \in Reader /\ bs_init(bytes).pos = 0
         /\ bs_init(bytes).bits = Bits(bytes)
BY BitsTyped DEF bs_init, Reader

-----------------------------------------------------------------------------
(* Taking out the emulation prevention bytes.                              *)
Escaped(bytes, behind, k) ==
  /\ k > 2 /\ k + behind <= Len(bytes)
  /\ bytes[k - 2] = 0 /\ bytes[k - 1] = 0 /\ bytes[k] = 3

Scanned(bytes, behind, n, f) ==
  /\ f \in [0 .. n -> Seq(0 .. 255)] /\ f[0] = <<>>
  /\ \A k \in 1 .. n :
       f[k] = IF Escaped(bytes, behind, k) THEN f[k - 1]
              ELSE Append(f[k - 1], bytes[k])

(* The function inside Unescape exists, and its values are bytes.          *)
LEMMA Scanning ==
  ASSUME NEW bytes \in Seq(0 .. 255), NEW behind
  PROVE  \E f : Scanned(bytes, behind, Len(bytes), f)
<1> DEFINE N == Len(bytes)
           Upto(m) == \E f : Scanned(bytes, behind, m, f)
           missing == {m \in 0 .. N : ~ Upto(m)}
<1>1. SUFFICES ASSUME missing # {} PROVE FALSE
  <2>1. N \in 0 .. N
    OBVIOUS
  <2> HIDE DEF Upto
  <2>2. missing = {} => Upto(N)
    BY <2>1
  <2> QED BY <2>2 DEF Upto
<1>2. PICK m \in missing : \A k \in missing : m <= k
  <2> HIDE DEF Upto
  <2>1. missing \in SUBSET Nat
    OBVIOUS
  <2> HIDE DEF missing
  <2> QED BY <1>1, <2>1, Least
<1>3. m \in 0 .. N /\ ~ Upto(m)
  OBVIOUS
<1>4. m # 0
  <2>1. Upto(0)
    <3> DEFINE f == [i \in 0 .. 0 |-> <<>>]
    <3>1. f \in [0 .. 0 -> Seq(0 .. 255)] /\ f[0] = <<>> /\ 1 .. 0 = {}
      OBVIOUS
    <3> QED BY <3>1 DEF Scanned
  <2> QED BY <1>3, <2>1
<1>5. Upto(m - 1)
  <2> HIDE DEF Upto
  <2>1. m - 1 \in 0 .. N /\ ~ (m <= m - 1)
    BY <1>3, <1>4
  <2>2. m - 1 \notin missing
    BY <1>2, <2>1
  <2> QED BY <2>1, <2>2
<1>6. PICK f : Scanned(bytes, behind, m - 1, f)
  BY <1>5
<1> DEFINE last == IF Escaped(bytes, behind, m) THEN f[m - 1]
                   ELSE Append(f[m - 1], bytes[m])
           g == [i \in 0 .. m |-> IF i = m THEN last ELSE f[i]]
<1>7. /\ m - 1 \in 0 .. m - 1 /\ 0 \in 0 .. m - 1 /\ m \in Nat
      /\ f \in [0 .. m - 1 -> Seq(0 .. 255)] /\ f[m - 1] \in Seq(0 .. 255)
      /\ bytes[m] \in 0 .. 255
  <2>1. m \in 1 .. Len(bytes)
    BY <1>3, <1>4
  <2>2. m - 1 \in 0 .. m - 1 /\ 0 \in 0 .. m - 1 /\ m \in Nat
    BY <2>1
  <2>3. f \in [0 .. m - 1 -> Seq(0 .. 255)]
    BY <1>6 DEF Scanned
  <2>4. bytes[m] \in 0 .. 255
    BY <2>1, ItemIs
  <2>5. f[m - 1] \in Seq(0 .. 255)
    BY <2>2, <2>3
  <2> QED BY <2>2, <2>3, <2>4, <2>5
<1>8. last \in Seq(0 .. 255)
  BY <1>7
<1>9. g \in [0 .. m -> Seq(0 .. 255)]
  <2>1. \A i \in 0 .. m : i = m \/ i \in 0 .. m - 1
    BY <1>7
  <2> HIDE DEF last
  <2> QED BY <1>7, <1>8, <2>1
<1>10. g[0] = <<>> /\ g[m] = last /\ \A i \in 0 .. m - 1 : g[i] = f[i]
  <2>1. /\ f[0] = <<>> /\ 0 \in 0 .. m - 1 /\ m \in 0 .. m
        /\ \A i \in 0 .. m - 1 : i \in 0 .. m /\ i # m
    BY <1>6, <1>7 DEF Scanned
  <2> HIDE DEF last
  <2> QED BY <2>1
<1>11. ASSUME NEW i \in 1 .. m
       PROVE  g[i] = IF Escaped(bytes, behind, i) THEN g[i - 1]
                     ELSE Append(g[i - 1], bytes[i])
  <2> HIDE DEF g
  <2>1. CASE i = m
    BY <1>7, <1>10, <2>1
  <2>2. CASE i # m
    <3>1. i \in 1 .. m - 1 /\ i - 1 \in 0 .. m - 1 /\ i \in 0 .. m - 1
      BY <1>7, <2>2
    <3>2. f[i] = IF Escaped(bytes, behind, i) THEN f[i - 1]
                 ELSE Append(f[i - 1], bytes[i])
      BY <1>6, <3>1 DEF Scanned
    <3> QED BY <1>10, <3>1, <3>2
  <2> QED BY <2>1, <2>2
<1> HIDE DEF g, last
<1>12. Upto(m)
  BY <1>9, <1>10, <1>11 DEF Scanned
<1> QED BY <1>3, <1>12

LEMMA UnescapeIs ==
  ASSUME NEW bytes \in Seq(0 .. 255), NEW behind
  PROVE  \E f : /\ Scanned(bytes, behind, Len(bytes), f)
                /\ Unescape(bytes, behind) = f[Len(bytes)]
<1> DEFINE N == Len(bytes)
           Step(v, k) == IF k = 0 THEN <<>>
                         ELSE IF Escaped(bytes, behind, k) THEN v[k - 1]
                              ELSE Append(v[k - 1], bytes[k])
           v == CHOOSE v : v = [k \in 0 .. N |-> Step(v, k)]
<1>1. PICK f : Scanned(bytes, behind, N, f)
  BY Scanning
<1>2. N \in Nat /\ f \in [0 .. N -> Seq(0 .. 255)] /\ f[0] = <<>>
  BY <1>1 DEF Scanned
<1>3. f = [k \in 0 .. N |-> Step(f, k)]
  <2>1. ASSUME NEW k \in 0 .. N PROVE f[k] = Step(f, k)
    <3>1. k = 0 \/ k \in 1 .. N
      BY <1>2
    <3> QED BY <1>1, <3>1 DEF Scanned
  <2> HIDE DEF Step, N
  <2> QED BY <1>2, <2>1
<1>4. v = [k \in 0 .. N |-> Step(v, k)]
  <2> HIDE DEF Step, N
  <2> QED BY <1>3
<1>5. \A k \in 0 .. N : v[k] = Step(v, k)
  <2> HIDE DEF Step, v, N
  <2> QED BY <1>4
<1>6. Unescape(bytes, behind) = v[N]
  BY DEF Unescape, Escaped
<1>7. \A k \in 0 .. N : v[k] = f[k]
  <2> DEFINE wrong == {k \in 0 .. N : v[k] # f[k]}
  <2> HIDE DEF v, N
  <2>1. SUFFICES ASSUME wrong # {} PROVE FALSE
    OBVIOUS
  <2>2. PICK k \in wrong : \A j \in wrong : k <= j
    <3>1. wrong \in SUBSET Nat
      BY <1>2
    <3> HIDE DEF wrong
    <3> QED BY <2>1, <3>1, Least
  <2>3. k \in 0 .. N /\ v[k] # f[k]
    OBVIOUS
  <2>4. v[k] = Step(v, k) /\ f[k] = Step(f, k)
    <3> HIDE DEF Step
    <3>1. \A j \in 0 .. N : f[j] = Step(f, j)
      BY <1>3
    <3> QED BY <1>5, <2>3, <3>1
  <2>5. k # 0
    BY <2>3, <2>4
  <2>6. k - 1 \in 0 .. N /\ k - 1 \notin wrong
    BY <1>2, <2>2, <2>3, <2>5
  <2>7. v[k - 1] = f[k - 1]
    BY <2>6
  <2> QED BY <2>3, <2>4, <2>5, <2>7
<1>8. Unescape(bytes, behind) = f[N]
  <2> HIDE DEF v
  <2>1. N \in 0 .. N
    BY <1>2
  <2> QED BY <1>6, <1>7, <2>1
<1> QED BY <1>1, <1>8

LEMMA UnescapeTyped ==
  ASSUME NEW bytes \in Seq(0 .. 255), NEW behind
  PROVE  Unescape(bytes, behind) \in Seq(0 .. 255)
<1>1. PICK f : /\ Scanned(bytes, behind, Len(bytes), f)
               /\ Unescape(bytes, behind) = f[Len(bytes)]
  BY UnescapeIs
<1>2. Len(bytes) \in 0 .. Len(bytes)
  OBVIOUS
<1> QED BY <1>1, <1>2 DEF Scanned
-----------------------------------------------------------------------------
(* Types.                                                                  *)
Names ==
  {"x", "transform_bypass"} \cup SpsFields \cup SliceFields
  \cup {"sps_id", "chroma_format_idc", "cycle", "crop", "vui", "aspect", "sar",
        "overscan", "video_signal", "colour", "chroma_loc", "timing",
        "nal_hrd", "vcl_hrd", "vcl_hrd_alone", "nal_cpb_cnt", "vcl_cpb_cnt",
        "field_pic"}

Elements ==
  {e \in [name : Names, code : {"u", "ue", "se"}, bits : Int] :
     e.code = "se" => e.name = "x"}

AllUnits == UNION {{st[k] : k \in DOMAIN st} : st \in Streams}

(* A slice only comes behind an SPS.                                       *)
UnitsOK ==
  /\ units \in Seq(AllUnits)
  /\ \A k \in DOMAIN units :
       units[k].type < 6 => \/ StreamSps # Null
                            \/ \E i \in 1 .. k - 1 : units[i].type = 7

TypeInv ==
  /\ TypeOK
  /\ UnitsOK
  /\ s \in Reader
  /\ todo \in Seq(Elements)
  /\ task = "idle" => todo = <<>>
  /\ task # "idle" => StreamSps # Null
  /\ task = "slice" => CurSlice # Null

(* The units of a stream.                                                  *)
LEMMA SubSeqType ==
  ASSUME NEW S, NEW T, S \subseteq T, NEW q \in Seq(S)
  PROVE  q \in Seq(T)
OBVIOUS

LEMMA UnitIs ==
  ASSUME NEW unit \in AllUnits
  PROVE  /\ unit.type \in Nat /\ unit.bytes \in Seq(0 .. 255)
         /\ unit.bytes # <<>>
<1>1. PICK st \in Streams : \E k \in DOMAIN st : unit = st[k]
  BY DEF AllUnits
<1>2. \A k \in DOMAIN st : UnitTyped(st[k])
  BY HeadersAssumption
<1> QED BY <1>1, <1>2 DEF UnitTyped

(* Every element that is ever put on todo has one of the Names.            *)
LEMMA Codes ==
  /\ \A n \in Int, name \in Names : u(n, name) \in Elements
  /\ \A name \in Names : ue(name) \in Elements
  /\ se \in Elements
BY DEF Elements, u, ue, se, Names

(* The parts that SpsHead, SliceHead and Follow are made of.               *)
LEMMA WhenTyped ==
  ASSUME NEW condition, NEW q \in Seq(Elements)
  PROVE  When(condition, q) \in Seq(Elements)
BY DEF When

LEMMA CpbTyped ==
  ASSUME NEW n \in Int
  PROVE  Cpb(n) \in Seq(Elements)
<1> DEFINE head == <<u(4, "x"), u(4, "x")>>
           N == 3 * Plus1(n)
           entries == [i \in 1 .. N |-> IF i % 3 = 0 THEN u(1, "x")
                                        ELSE ue("x")]
           middle == When(Plus1(n) > 0, entries)
           end == <<u(5, "x"), u(5, "x"), u(5, "x"), u(5, "x")>>
<1>1. /\ u(4, "x") \in Elements /\ u(5, "x") \in Elements
      /\ u(1, "x") \in Elements /\ ue("x") \in Elements
  BY Codes DEF Names, SpsFields, SliceFields
<1>2. Plus1(n) \in Int
  BY IntLimits DEF Plus1
<1>3. middle \in Seq(Elements)
  <2>1. CASE Plus1(n) > 0
    <3>1. N \in Nat
      BY <1>2, <2>1
    <3> HIDE DEF N
    <3>2. entries \in Seq(Elements)
      BY <1>1, <3>1
    <3> HIDE DEF entries
    <3> QED BY <2>1, <3>2 DEF When
  <2>2. CASE ~ (Plus1(n) > 0)
    <3>1. middle = <<>> /\ <<>> \in Seq(Elements)
      BY <2>2 DEF When
    <3> HIDE DEF middle
    <3> QED BY <3>1
  <2> QED BY <2>1, <2>2
<1>4. head \in Seq(Elements) /\ end \in Seq(Elements)
  BY <1>1
<1>5. Cpb(n) = head \o middle \o end
  BY DEF Cpb
<1> HIDE DEF head, middle, end
<1>6. head \o middle \o end \in Seq(Elements)
  BY <1>3, <1>4
<1> QED BY <1>5, <1>6

(* What is read next is made of elements, whatever a value was.            *)
LEMMA FollowTyped ==
  ASSUME NEW name \in Names, NEW v, name = "x" \/ v \in Int
  PROVE  Follow(name, v) \in Seq(Elements)
<1>1. /\ u(1, "x") \in Elements /\ u(3, "x") \in Elements
      /\ u(8, "x") \in Elements /\ u(16, "x") \in Elements
      /\ ue("x") \in Elements /\ se \in Elements
  BY Codes DEF Names, SpsFields, SliceFields
<1>2. <<>> \in Seq(Elements)
  OBVIOUS
<1>3. CASE name = "x"
  BY <1>2, <1>3 DEF Follow
<1>4. CASE name = "sps_id"
  <2>1. HighProfile \in Seq(Elements)
    BY <1>1, Codes DEF HighProfile, Names, SpsFields, SliceFields
  <2> QED BY <1>4, <2>1, WhenTyped DEF Follow
<1>5. CASE name = "chroma_format_idc"
  <2>1. <<u(1, "x")>> \in Seq(Elements)
    BY <1>1
  <2> QED BY <1>5, <2>1, WhenTyped DEF Follow
<1>6. CASE name = "poc_type"
  <2> DEFINE a == <<ue("log2_max_poc_lsb")>>
             b == <<u(1, "delta_pic_order_always_zero_flag"), se, se,
                    ue("cycle")>>
  <2>1. a \in Seq(Elements) /\ b \in Seq(Elements)
    BY <1>1, Codes DEF Names, SpsFields, SliceFields
  <2>2. Follow(name, v) = When(v = 0, a) \o When(v = 1, b)
    BY <1>6 DEF Follow
  <2> HIDE DEF a, b
  <2>3. When(v = 0, a) \in Seq(Elements) /\ When(v = 1, b) \in Seq(Elements)
    BY <2>1, WhenTyped
  <2> QED BY <2>2, <2>3
<1>7. CASE name = "cycle"
  <2> DEFINE N == IF v > 256 THEN 256 ELSE v
  <2>1. Follow(name, v) = When(v > 0, [i \in 1 .. N |-> se])
    BY <1>7 DEF Follow
  <2>2. N \in Int
    BY <1>7
  <2> HIDE DEF N
  <2>3. [i \in 1 .. N |-> se] \in Seq(Elements)
    BY <1>1, <2>2, RepeatTyped
  <2> QED BY <2>1, <2>3, WhenTyped
<1>8. CASE name = "frame_mbs_only_flag"
  <2>1. <<u(1, "x")>> \in Seq(Elements)
    BY <1>1
  <2> QED BY <1>8, <2>1, WhenTyped DEF Follow
<1>9. CASE name = "crop"
  <2>1. <<ue("x"), ue("x"), ue("x"), ue("x")>> \in Seq(Elements)
    BY <1>1
  <2> QED BY <1>9, <2>1, WhenTyped DEF Follow
<1>10. CASE name = "vui"
  <2>1. Vui \in Seq(Elements)
    BY <1>1, Codes DEF Vui, Names, SpsFields, SliceFields
  <2> QED BY <1>10, <2>1, WhenTyped DEF Follow
<1>11. CASE name = "aspect"
  <2>1. <<u(8, "sar")>> \in Seq(Elements)
    BY Codes DEF Names, SpsFields, SliceFields
  <2> QED BY <1>11, <2>1, WhenTyped DEF Follow
<1>12. CASE name = "sar"
  <2>1. <<u(16, "x"), u(16, "x")>> \in Seq(Elements)
    BY <1>1
  <2> QED BY <1>12, <2>1, WhenTyped DEF Follow
<1>13. CASE name = "overscan"
  <2>1. <<u(1, "x")>> \in Seq(Elements)
    BY <1>1
  <2> QED BY <1>13, <2>1, WhenTyped DEF Follow
<1>14. CASE name = "video_signal"
  <2>1. <<u(3, "x"), u(1, "x"), u(1, "colour")>> \in Seq(Elements)
    BY <1>1, Codes DEF Names, SpsFields, SliceFields
  <2> QED BY <1>14, <2>1, WhenTyped DEF Follow
<1>15. CASE name = "colour"
  <2>1. <<u(8, "x"), u(8, "x"), u(8, "x")>> \in Seq(Elements)
    BY <1>1
  <2> QED BY <1>15, <2>1, WhenTyped DEF Follow
<1>16. CASE name = "chroma_loc"
  <2>1. <<ue("x"), ue("x")>> \in Seq(Elements)
    BY <1>1
  <2> QED BY <1>16, <2>1, WhenTyped DEF Follow
<1>17. CASE name = "timing"
  <2>1. <<u(32, "num_units_in_tick"), u(32, "time_scale"), u(1, "x")>>
          \in Seq(Elements)
    BY <1>1, Codes DEF Names, SpsFields, SliceFields
  <2> QED BY <1>17, <2>1, WhenTyped DEF Follow
<1>18. CASE name = "nal_hrd"
  <2>1. /\ Hrd("nal_cpb_cnt") \in Seq(Elements)
        /\ <<u(1, "vcl_hrd"), u(1, "x")>> \in Seq(Elements)
        /\ <<u(1, "vcl_hrd_alone")>> \in Seq(Elements)
    BY <1>1, Codes DEF Hrd, Names, SpsFields, SliceFields
  <2>2. Hrd("nal_cpb_cnt") \o <<u(1, "vcl_hrd"), u(1, "x")>> \in Seq(Elements)
    BY <2>1
  <2>3. Follow(name, v)
          = IF v = 1 THEN Hrd("nal_cpb_cnt") \o <<u(1, "vcl_hrd"), u(1, "x")>>
            ELSE <<u(1, "vcl_hrd_alone")>>
    BY <1>18 DEF Follow
  <2> QED BY <2>1, <2>2, <2>3
<1>19. CASE name = "vcl_hrd"
  <2>1. Hrd("vcl_cpb_cnt") \in Seq(Elements)
    BY Codes DEF Hrd, Names, SpsFields, SliceFields
  <2> QED BY <1>19, <2>1, WhenTyped DEF Follow
<1>20. CASE name = "vcl_hrd_alone"
  <2>1. Hrd("vcl_cpb_cnt") \in Seq(Elements) /\ <<u(1, "x")>> \in Seq(Elements)
    BY <1>1, Codes DEF Hrd, Names, SpsFields, SliceFields
  <2>2. Hrd("vcl_cpb_cnt") \o <<u(1, "x")>> \in Seq(Elements)
    BY <2>1
  <2> QED BY <1>20, <2>2, WhenTyped DEF Follow
<1>21. CASE name \in {"nal_cpb_cnt", "vcl_cpb_cnt"}
  BY <1>21, CpbTyped DEF Follow
<1>22. CASE name = "bitstream_restriction_flag"
  <2> DEFINE q == <<u(1, "x"), ue("x"), ue("x"), ue("x"), ue("x"),
                    ue("num_reorder_frames"), ue("x")>>
  <2>1. q \in Seq(Elements)
    BY <1>1, Codes DEF Names, SpsFields, SliceFields
  <2> QED BY <1>22, <2>1, WhenTyped DEF Follow
<1>23. CASE name = "field_pic"
  <2>1. <<u(1, "x")>> \in Seq(Elements)
    BY <1>1
  <2> QED BY <1>23, <2>1, WhenTyped DEF Follow
<1>24. CASE name \notin
         {"sps_id", "chroma_format_idc", "poc_type", "cycle",
          "frame_mbs_only_flag", "crop", "vui", "aspect", "sar", "overscan",
          "video_signal", "colour", "chroma_loc", "timing", "nal_hrd",
          "vcl_hrd", "vcl_hrd_alone", "nal_cpb_cnt", "vcl_cpb_cnt",
          "bitstream_restriction_flag", "field_pic"}
  <2>1. Follow(name, v) = <<>>
    BY <1>24 DEF Follow
  <2> QED BY <1>2, <2>1
<1> QED BY <1>4, <1>5, <1>6, <1>7, <1>8, <1>9, <1>10, <1>11, <1>12, <1>13,
           <1>14, <1>15, <1>16, <1>17, <1>18, <1>19, <1>20, <1>21, <1>22,
           <1>23, <1>24

LEMMA SpsHeadTyped == SpsHead \in Seq(Elements)
<1>1. u(1, "x") \in Elements /\ u(16, "x") \in Elements /\ ue("x") \in Elements
  BY Codes DEF Names, SpsFields, SliceFields
<1> QED BY <1>1, Codes DEF SpsHead, Names, SpsFields, SliceFields

LEMMA SliceHeadTyped ==
  ASSUME NEW type,
         StreamSps["log2_max_frame_num"] \in MinInt .. 12,
         StreamSps["log2_max_poc_lsb"] \in MinInt .. 12
  PROVE  SliceHead(type) \in Seq(Elements)
<1> DEFINE w == StreamSps["log2_max_frame_num"] + 4
           l == StreamSps["log2_max_poc_lsb"] + 4
           a == <<ue("x"), ue("i_slice_type"), ue("x"), u(w, "i_frame_num")>>
           b == When(StreamSps["frame_mbs_only_flag"] = 0,
                     <<u(1, "field_pic")>>)
           c == When(type = 5, <<ue("x")>>)
           d == When(StreamSps["poc_type"] = 0,
                     <<u(l, "i_pic_order_cnt_lsb")>>)
           f == When(/\ StreamSps["poc_type"] = 1
                     /\ StreamSps["delta_pic_order_always_zero_flag"] = 0,
                     <<se>>)
<1>1. w \in Int /\ l \in Int
  BY IntLimits
<1>2. SliceHead(type) = a \o b \o c \o d \o f
  BY DEF SliceHead
<1> HIDE DEF w, l
<1>3. /\ a \in Seq(Elements) /\ <<u(1, "field_pic")>> \in Seq(Elements)
      /\ <<ue("x")>> \in Seq(Elements)
      /\ <<u(l, "i_pic_order_cnt_lsb")>> \in Seq(Elements)
      /\ <<se>> \in Seq(Elements)
  <2>1. u(1, "field_pic") \in Elements /\ ue("x") \in Elements /\ se \in Elements
    BY Codes DEF Names, SpsFields, SliceFields
  <2> QED BY <1>1, <2>1, Codes DEF Names, SpsFields, SliceFields
<1>4. /\ b \in Seq(Elements) /\ c \in Seq(Elements) /\ d \in Seq(Elements)
      /\ f \in Seq(Elements)
  BY <1>3, WhenTyped
<1> HIDE DEF a, b, c, d, f
<1> QED BY <1>2, <1>3, <1>4

(* An object that exists is not the null pointer.                          *)
LEMMA NotNull ==
  ASSUME NEW object, DOMAIN object \in {SpsFields, SliceFields}
  PROVE  object # Null
<1>1. DOMAIN object # {}
  BY DEF SpsFields, SliceFields
<1>2. DOMAIN << >> = {}
  OBVIOUS
<1> QED BY <1>1, <1>2 DEF Null

(* Each of the three readers moves a reader over the same bits.            *)
LEMMA ReadTyped ==
  ASSUME NEW e \in Elements, s \in Reader
  PROVE  /\ Read(e).s \in Reader /\ Read(e).s.bits = s.bits
         /\ e.name = "x" \/ (Read(e).value \in Int /\ Read(e).value >= MinInt)
<1>1. e.code \in {"u", "ue", "se"} /\ e.bits \in Int
      /\ (e.code = "se" => e.name = "x")
  BY DEF Elements
<1>2. CASE e.code = "u" /\ e.bits > 0
  <2>1. Read(e) = bs_read(s, e.bits)
    BY <1>2 DEF Read
  <2>2. Read(e).value = Value(s, e.bits) /\ Read(e).s = Ahead(s, e.bits)
    BY <1>2, <2>1 DEF bs_read
  <2>3. e.bits \in Nat
    BY <1>1, <1>2
  <2>4. Value(s, e.bits) \in Nat
    BY <2>3, ValueNat
  <2>5. Value(s, e.bits) >= MinInt
    BY <2>4, IntLimits
  <2>6. Ahead(s, e.bits) \in Reader /\ Ahead(s, e.bits).bits = s.bits
    BY <2>3, AheadReader
  <2> QED BY <2>2, <2>4, <2>5, <2>6
<1>3. CASE e.code = "u" /\ ~ (e.bits > 0)
  <2>1. Read(e) = bs_read(s, e.bits)
    BY <1>3 DEF Read
  <2>2. Read(e).value = 0 /\ Read(e).s = s
    BY <1>3, <2>1 DEF bs_read
  <2>3. 0 \in Int /\ 0 >= MinInt
    BY IntLimits
  <2> QED BY <2>2, <2>3
<1>4. CASE e.code = "ue"
  <2>1. Read(e) = bs_read_ue(s)
    BY <1>4 DEF Read
  <2>2. bs_read_ue(s).value \in MinInt .. MaxInt
    BY UeTyped
  <2>3. bs_read_ue(s).value \in Int /\ bs_read_ue(s).value >= MinInt
    BY <2>2, IntLimits
  <2> QED BY <2>1, <2>3, UeTyped
<1>5. CASE e.code = "se"
  <2>1. Read(e) = bs_read_se(s)
    BY <1>5 DEF Read
  <2> QED BY <1>1, <1>5, <2>1, SeTyped, UeTyped
<1> QED BY <1>1, <1>2, <1>3, <1>4, <1>5

(* The clamp keeps both widths from being larger than those of the         *)
(* standard.                                                               *)
LEMMA StoreTyped ==
  ASSUME NEW v \in Int, v >= MinInt,
         NEW name \in {"log2_max_frame_num", "log2_max_poc_lsb"}
  PROVE  Store(name, v) \in MinInt .. 12
<1>1. Store(name, v) = IF v > 12 THEN 12 ELSE v
  BY DEF Store
<1> QED BY <1>1, IntLimits

(* Taking the first unit away leaves no slice without an SPS in front.     *)
LEMMA TailUnits ==
  ASSUME UnitsOK, units # <<>>, units' = Tail(units),
         StreamSps' # Null \/ (StreamSps' = StreamSps /\ Unit.type # 7)
  PROVE  UnitsOK'
<1>1. units \in Seq(AllUnits) /\ Tail(units) \in Seq(AllUnits)
      /\ Len(Tail(units)) = Len(units) - 1 /\ Len(units) \in Nat \ {0}
      /\ \A k \in 1 .. Len(units) - 1 : Tail(units)[k] = units[k + 1]
  BY DEF UnitsOK
<1>2. AllUnits' = AllUnits
  BY DEF AllUnits
<1>3. ASSUME NEW k \in DOMAIN units', units'[k].type < 6
      PROVE  \/ StreamSps' # Null
             \/ \E i \in 1 .. k - 1 : units'[i].type = 7
  <2>1. CASE StreamSps' # Null
    BY <2>1
  <2>2. CASE StreamSps' = Null
    <3>1. StreamSps = Null /\ Unit.type # 7
      BY <2>2
    <3>2. k \in 1 .. Len(units) - 1 /\ units'[k] = units[k + 1]
      BY <1>1
    <3>3. k + 1 \in DOMAIN units
      BY <1>1, <3>2
    <3>4. PICK i \in 1 .. (k + 1) - 1 : units[i].type = 7
      BY <1>3, <3>1, <3>2, <3>3 DEF UnitsOK
    <3>5. i # 1
      BY <1>1, <3>1, <3>4 DEF Unit
    <3>6. i - 1 \in 1 .. k - 1 /\ i - 1 \in 1 .. Len(units) - 1
      BY <3>2, <3>4, <3>5
    <3>7. units'[i - 1].type = 7
      <4>1. Tail(units)[i - 1] = units[(i - 1) + 1] /\ (i - 1) + 1 = i
        BY <1>1, <3>6
      <4> QED BY <3>4, <4>1
    <3> QED BY <3>6, <3>7
  <2> QED BY <2>1, <2>2
<1> QED BY <1>1, <1>2, <1>3 DEF UnitsOK

(* The type invariant: the first state, and each action.                   *)
LEMMA TypeInit == Init => TypeInv
<1> SUFFICES ASSUME Init PROVE TypeInv
  OBVIOUS
<1> USE DEF Init
<1>1. s \in Reader /\ s.pos = 0
  <2>1. <<>> \in Seq(0 .. 255)
    OBVIOUS
  <2> QED BY <2>1, InitReader
<1>2. UnitsOK
  <2>1. units \in Streams
    OBVIOUS
  <2>2. {units[k] : k \in DOMAIN units} \subseteq AllUnits
    BY <2>1 DEF AllUnits
  <2>3. /\ units \in Seq({units[k] : k \in DOMAIN units})
        /\ \A k \in DOMAIN units : units[k].type < 6 =>
             \E i \in 1 .. k - 1 : units[i].type = 7
    BY <2>1, HeadersAssumption
  <2> HIDE DEF Init
  <2>4. units \in Seq(AllUnits)
    BY <2>2, <2>3, SubSeqType
  <2> QED BY <2>3, <2>4 DEF UnitsOK
<1>3. TypeOK
  <2>1. s.pos \in 0 .. Len(s.bits)
    BY <1>1 DEF Reader
  <2> QED BY <2>1 DEF TypeOK
<1> QED BY <1>1, <1>2, <1>3 DEF TypeInv

LEMMA PositionTyped ==
  ASSUME NEW r \in Reader
  PROVE  r.pos \in 0 .. Len(r.bits)
BY DEF Reader

LEMMA TypeParseSqs ==
  ASSUME TypeInv, ParseSqs
  PROVE  TypeInv'
<1> USE DEF ParseSqs
<1>1. units # <<>> /\ fault = "none" /\ task = "idle"
  BY DEF Ready
<1>2. Unit \in AllUnits /\ Unit.bytes \in Seq(0 .. 255) /\ Unit.bytes # <<>>
  <2>1. units \in Seq(AllUnits)
    BY DEF TypeInv, UnitsOK
  <2>2. Unit \in AllUnits
    BY <1>1, <2>1 DEF Unit
  <2> QED BY <2>2, UnitIs
<1> DEFINE nal == Unescape(Tail(Unit.bytes), 1)
           N == Len(Unit.bytes) - Len(nal)
<1>3. nal \in Seq(0 .. 255)
  <2>1. Tail(Unit.bytes) \in Seq(0 .. 255)
    BY <1>2
  <2> QED BY <2>1, UnescapeTyped
<1>4. N \in Int
  BY <1>2, <1>3
<1>5. PICK g \in Garbage : s' = bs_init(nal \o [i \in 1 .. N |-> g])
  OBVIOUS
<1>6. g \in 0 .. 255
  BY HeadersAssumption
<1> HIDE DEF nal, N
<1>7. [i \in 1 .. N |-> g] \in Seq(0 .. 255)
  BY <1>4, <1>6, RepeatTyped
<1>8. s' \in Reader
  <2>1. nal \o [i \in 1 .. N |-> g] \in Seq(0 .. 255)
    BY <1>3, <1>7
  <2> QED BY <1>5, <2>1, InitReader
<1>9. (s.pos \in 0 .. Len(s.bits))'
  BY <1>8, PositionTyped
<1>10. /\ DOMAIN StreamSps' = SpsFields
       /\ StreamSps'["log2_max_frame_num"] \in MinInt .. 12
       /\ StreamSps'["log2_max_poc_lsb"] \in MinInt .. 12
  <2>1. StreamSps' = Fresh(StreamSps, SpsFields)
    OBVIOUS
  <2>2. \/ StreamSps = Null
        \/ /\ DOMAIN StreamSps = SpsFields
           /\ StreamSps["log2_max_frame_num"] \in MinInt .. 12
           /\ StreamSps["log2_max_poc_lsb"] \in MinInt .. 12
    BY DEF TypeInv, TypeOK
  <2>3. "log2_max_frame_num" \in SpsFields /\ "log2_max_poc_lsb" \in SpsFields
    BY DEF SpsFields
  <2> HIDE DEF ParseSqs
  <2>4. CASE StreamSps = Null
    <3>1. -1 \in MinInt .. 12
      BY IntLimits
    <3> QED BY <2>1, <2>3, <2>4, <3>1 DEF Fresh, Unset
  <2>5. CASE StreamSps # Null
    BY <2>1, <2>2, <2>5 DEF Fresh
  <2> QED BY <2>4, <2>5
<1>11. StreamSps' # Null
  BY <1>10, NotNull
<1>12. UnitsOK'
  BY <1>1, <1>11, TailUnits DEF TypeInv
<1>13. todo' \in Seq(Elements')
  BY SpsHeadTyped DEF Elements
<1>14. task' = "sps" /\ fault' = fault /\ reparse' = reparse /\ CurSlice' = CurSlice
  OBVIOUS
<1> HIDE DEF ParseSqs
<1>15. TypeOK'
  BY <1>9, <1>10, <1>14 DEF TypeInv, TypeOK
<1> QED BY <1>8, <1>11, <1>12, <1>13, <1>14, <1>15 DEF TypeInv, Reader

LEMMA TypeSkip ==
  ASSUME TypeInv, KnownSps \/ SkipUnit
  PROVE  TypeInv'
<1>1. /\ UNCHANGED <<reparse, parser, StreamSps, CurSlice, says, fault>>
      /\ units' = Tail(units) /\ units # <<>>
      /\ StreamSps # Null \/ Unit.type # 7
  BY DEF KnownSps, SkipUnit, Ready
<1>2. UnitsOK'
  BY <1>1, TailUnits DEF TypeInv
<1> QED BY <1>1, <1>2 DEF TypeInv, TypeOK, parser, Reader, Elements

LEMMA TypeParseSlice ==
  ASSUME TypeInv, ParseSlice
  PROVE  TypeInv'
<1> USE DEF ParseSlice
<1>1. units # <<>> /\ fault = "none" /\ task = "idle" /\ Unit.type < 6
  BY DEF Ready
<1>2. /\ Unit \in AllUnits /\ Unit.bytes \in Seq(0 .. 255) /\ Unit.bytes # <<>>
      /\ Unit.type \in Nat
  <2>1. units \in Seq(AllUnits)
    BY DEF TypeInv, UnitsOK
  <2>2. Unit \in AllUnits
    BY <1>1, <2>1 DEF Unit
  <2> QED BY <2>2, UnitIs
<1>3. StreamSps # Null
  <2>1. 1 \in DOMAIN units /\ units[1] = Unit
    BY <1>1 DEF TypeInv, UnitsOK, Unit
  <2>2. \/ StreamSps # Null
        \/ \E i \in 1 .. 1 - 1 : units[i].type = 7
    BY <1>1, <2>1 DEF TypeInv, UnitsOK
  <2> QED BY <2>2
<1>4. PICK g \in Garbage, behind \in {17, 64} :
        LET seen == Tail(Unit.bytes) \o [i \in 1 .. behind |-> g]
            window == SubSeq(seen, 1, IF Len(seen) < 64 THEN Len(seen) ELSE 64)
        IN  s' = bs_init(Unescape(window, 0))
  OBVIOUS
<1> DEFINE seen == Tail(Unit.bytes) \o [i \in 1 .. behind |-> g]
           last == IF Len(seen) < 64 THEN Len(seen) ELSE 64
           window == SubSeq(seen, 1, last)
<1>5. s' = bs_init(Unescape(window, 0))
  BY <1>4
<1>6. seen \in Seq(0 .. 255)
  <2>1. Tail(Unit.bytes) \in Seq(0 .. 255) /\ g \in 0 .. 255 /\ behind \in Int
    BY <1>2, HeadersAssumption
  <2>2. [i \in 1 .. behind |-> g] \in Seq(0 .. 255)
    <3> HIDE DEF ParseSlice
    <3> QED BY <2>1, RepeatTyped
  <2> QED BY <2>1, <2>2
<1> HIDE DEF seen
<1>7. window \in Seq(0 .. 255)
  <2>1. last \in 0 .. Len(seen)
    BY <1>6
  <2> HIDE DEF last
  <2> QED BY <1>6, <2>1, PrefixIs
<1> HIDE DEF window
<1>8. s' \in Reader
  BY <1>5, <1>7, UnescapeTyped, InitReader
<1>9. (s.pos \in 0 .. Len(s.bits))'
  BY <1>8, PositionTyped
<1>10. DOMAIN CurSlice' = SliceFields
  <2>1. CurSlice' = [Fresh(CurSlice, SliceFields)
                       EXCEPT !["i_pic_order_cnt_lsb"] = 0]
    OBVIOUS
  <2>2. CurSlice = Null \/ DOMAIN CurSlice = SliceFields
    BY DEF TypeInv, TypeOK
  <2> HIDE DEF ParseSlice
  <2>3. DOMAIN Fresh(CurSlice, SliceFields) = SliceFields
    BY <2>2 DEF Fresh
  <2> QED BY <2>1, <2>3
<1>11. CurSlice' # Null
  BY <1>10, NotNull
<1>12. StreamSps' # Null /\ StreamSps' = StreamSps
  BY <1>3
<1>13. UnitsOK'
  BY <1>1, <1>12, TailUnits DEF TypeInv
<1>14. /\ StreamSps["log2_max_frame_num"] \in MinInt .. 12
       /\ StreamSps["log2_max_poc_lsb"] \in MinInt .. 12
  BY <1>3 DEF TypeInv, TypeOK
<1>15. todo' \in Seq(Elements')
  <2>1. SliceHead(Unit.type) \in Seq(Elements)
    BY <1>14, SliceHeadTyped
  <2> QED BY <2>1 DEF Elements
<1>16. task' = "slice" /\ fault' = fault /\ reparse' = reparse
  OBVIOUS
<1> HIDE DEF ParseSlice
<1>17. TypeOK'
  BY <1>9, <1>10, <1>12, <1>16 DEF TypeInv, TypeOK
<1> QED BY <1>8, <1>11, <1>12, <1>13, <1>15, <1>16, <1>17 DEF TypeInv, Reader

LEMMA TypeReadElement ==
  ASSUME TypeInv, ReadElement
  PROVE  TypeInv'
<1> DEFINE e == Head(todo)
           r == Read(e)
           up == GivesUp(e.name, r.value)
           Kept(object) == IF e.name \in DOMAIN object /\ ~ up
                         THEN [object EXCEPT ![e.name] = Store(e.name, r.value)]
                         ELSE object
<1>1. /\ task # "idle" /\ todo # <<>> /\ todo \in Seq(Elements)
      /\ StreamSps # Null /\ (task = "slice" => CurSlice # Null)
      /\ s \in Reader /\ UnitsOK
      /\ DOMAIN StreamSps = SpsFields
      /\ StreamSps["log2_max_frame_num"] \in MinInt .. 12
      /\ StreamSps["log2_max_poc_lsb"] \in MinInt .. 12
      /\ CurSlice = Null \/ DOMAIN CurSlice = SliceFields
      /\ reparse \in BOOLEAN /\ task \in {"idle", "sps", "slice"}
      /\ fault \in {"none", "unset", "zero"}
  BY DEF TypeInv, TypeOK, ReadElement
<1>2. /\ s' = r.s
      /\ todo' = IF up THEN <<>> ELSE Follow(e.name, r.value) \o Tail(todo)
      /\ StreamSps' = IF task = "sps" THEN Kept(StreamSps) ELSE StreamSps
      /\ CurSlice' = IF task = "slice" THEN Kept(CurSlice) ELSE CurSlice
      /\ UNCHANGED <<units, reparse, task, own, says, fault>>
  BY DEF ReadElement
<1>3. e \in Elements /\ Tail(todo) \in Seq(Elements)
  BY <1>1
<1> HIDE DEF e
<1>4. /\ r.s \in Reader /\ r.s.bits = s.bits
      /\ e.name = "x" \/ (r.value \in Int /\ r.value >= MinInt)
  BY <1>1, <1>3, ReadTyped
<1>5. e.name \in Names
  BY <1>3 DEF Elements
<1> HIDE DEF r, up
<1>6. todo' \in Seq(Elements')
  <2>1. Follow(e.name, r.value) \in Seq(Elements)
    BY <1>4, <1>5, FollowTyped
  <2>2. Follow(e.name, r.value) \o Tail(todo) \in Seq(Elements)
    BY <1>3, <2>1
  <2> QED BY <1>2, <2>2 DEF Elements
<1>7. s' \in Reader
  BY <1>2, <1>4
<1>8. (s.pos \in 0 .. Len(s.bits))'
  BY <1>7, PositionTyped
<1>9. /\ DOMAIN StreamSps' = SpsFields
      /\ StreamSps'["log2_max_frame_num"] \in MinInt .. 12
      /\ StreamSps'["log2_max_poc_lsb"] \in MinInt .. 12
  <2>1. DOMAIN StreamSps' = SpsFields
    BY <1>1, <1>2
  <2>2. ASSUME NEW f \in {"log2_max_frame_num", "log2_max_poc_lsb"}
        PROVE  StreamSps'[f] \in MinInt .. 12
    <3>1. f \in SpsFields /\ "x" # f
      BY DEF SpsFields
    <3>2. CASE e.name = f /\ ~ up /\ task = "sps"
      <4>1. r.value \in Int /\ r.value >= MinInt
        BY <1>4, <3>1, <3>2
      <4>2. Store(f, r.value) \in MinInt .. 12
        BY <4>1, StoreTyped
      <4>3. StreamSps' = [StreamSps EXCEPT ![f] = Store(f, r.value)]
        BY <1>1, <1>2, <3>1, <3>2
      <4> QED BY <1>1, <3>1, <4>2, <4>3
    <3>3. CASE ~ (e.name = f /\ ~ up /\ task = "sps")
      <4>1. StreamSps'[f] = StreamSps[f]
        BY <1>1, <1>2, <3>1, <3>3
      <4> QED BY <1>1, <4>1
    <3> QED BY <3>2, <3>3
  <2> QED BY <2>1, <2>2
<1>10. CurSlice' = Null \/ DOMAIN CurSlice' = SliceFields
  BY <1>1, <1>2
<1>11. task = "slice" => CurSlice' # Null
  <2>1. task = "slice" => DOMAIN CurSlice' = SliceFields
    BY <1>1, <1>2
  <2> QED BY <2>1, NotNull
<1>12. StreamSps' # Null
  BY <1>9, NotNull
<1>13. UnitsOK'
  BY <1>1, <1>2, <1>12 DEF UnitsOK, AllUnits
<1>14. TypeOK'
  BY <1>1, <1>2, <1>8, <1>9, <1>10 DEF TypeOK
<1> QED BY <1>1, <1>2, <1>6, <1>7, <1>11, <1>12, <1>13, <1>14
        DEF TypeInv, Reader

LEMMA TypeReturn ==
  ASSUME TypeInv, Return
  PROVE  TypeInv'
<1>1. /\ task # "idle" /\ todo = <<>> /\ task' = "idle"
      /\ fault' \in {"none", "unset", "zero"}
      /\ UNCHANGED <<units, reparse, s, todo, own, StreamSps, CurSlice, says>>
  BY DEF Return
<1> QED BY <1>1 DEF TypeInv, TypeOK, UnitsOK, AllUnits, Reader, Elements

LEMMA TypeNext == TypeInv /\ [Next]_vars => TypeInv'
<1> SUFFICES ASSUME TypeInv, [Next]_vars PROVE TypeInv'
  OBVIOUS
<1>1. CASE UNCHANGED vars
  BY <1>1 DEF vars, parser, TypeInv, TypeOK, UnitsOK, AllUnits, Reader, Elements
<1> QED BY <1>1, TypeParseSqs, TypeSkip, TypeParseSlice, TypeReadElement,
           TypeReturn DEF Next

(* Whatever the units hold, valid or not, the reader stays inside its      *)
(* data, todo is empty when no function runs, and the widths ParseSlice    *)
(* adds 4 to are ints no larger than those of the standard. (A code with   *)
(* 31 or 32 zeros can make them negative.)                                 *)
THEOREM Types == Spec => []TypeOK
<1>1. TypeInv => TypeOK
  BY DEF TypeInv
<1> QED BY <1>1, TypeInit, TypeNext, PTL DEF Spec

-----------------------------------------------------------------------------
(* Reading what is written.                                                *)

(* The bits of v above the lowest m.                                       *)
Above(v, m) == IF m > 30 THEN 0 ELSE v \div 2 ^ m

(* Binary numbers from their highest bit: what Value computes is what      *)
(* Binary says stands there.                                               *)
LEMMA Halves ==
  ASSUME NEW v \in Nat, NEW w \in Nat \ {0}
  PROVE  v \div w = 2 * (v \div (2 * w)) + ((v \div w) % 2)
<1> DEFINE q == v \div w
<1>1. q \in Nat
  OBVIOUS
<1>2. v \div (2 * w) = q \div 2
  OBVIOUS
<1> HIDE DEF q
<1>3. q = 2 * (q \div 2) + (q % 2)
  BY <1>1
<1> QED BY <1>2, <1>3 DEF q

LEMMA AboveIs ==
  ASSUME NEW v \in Nat, NEW m \in Nat, m >= 30 => Above(v, 30) <= 1
  PROVE  /\ Above(v, m) \in Nat
         /\ Above(v, m) = 2 * Above(v, m + 1) + (Above(v, m) % 2)
<1>1. CASE m < 30
  <2>1. 2 ^ m \in Nat \ {0} /\ 2 ^ (m + 1) = 2 * 2 ^ m
    <3>1. m \in 0 .. 32
      BY <1>1
    <3> QED BY <3>1, Powers
  <2>2. Above(v, m) = v \div 2 ^ m /\ Above(v, m + 1) = v \div 2 ^ (m + 1)
    BY <1>1 DEF Above
  <2> DEFINE w == 2 ^ m
             w2 == 2 ^ (m + 1)
  <2>3. w \in Nat \ {0} /\ w2 = 2 * w /\ Above(v, m) = v \div w
        /\ Above(v, m + 1) = v \div w2
    BY <2>1, <2>2
  <2> HIDE DEF w, w2
  <2>4. v \div w \in Nat
    BY <2>3
  <2>5. v \div w = 2 * (v \div (2 * w)) + ((v \div w) % 2)
    BY <2>3, Halves
  <2> QED BY <2>3, <2>4, <2>5
<1>2. CASE m = 30
  <2>1. 2 ^ 30 \in Nat \ {0}
    BY Powers
  <2> DEFINE w == 2 ^ 30
  <2>2. Above(v, 30) = v \div w /\ Above(v, 30 + 1) = 0
    BY DEF Above
  <2>3. w \in Nat \ {0}
    BY <2>1
  <2> HIDE DEF w
  <2>4. Above(v, 30) \in Nat
    BY <2>2, <2>3
  <2>5. Above(v, 30) \in {0, 1}
    BY <1>2, <2>4
  <2> QED BY <1>2, <2>2, <2>5
<1>3. CASE m > 30
  BY <1>3 DEF Above
<1> QED BY <1>1, <1>2, <1>3

LEMMA BinaryIs ==
  ASSUME NEW r \in Reader, NEW n \in Nat, NEW v,
         Binary(r.bits, r.pos, n, v), r.pos + n <= Len(r.bits)
  PROVE  Value(r, n) = v
<1>1. v \in Nat /\ (IF n < 31 THEN v < 2 ^ n ELSE v \div 2 ^ 30 <= 1)
  BY DEF Binary
<1>2. \A k \in 1 .. n : r.bits[r.pos + k] = Above(v, n - k) % 2
  <2>1. ASSUME NEW k \in 1 .. n PROVE r.bits[r.pos + k] = Above(v, n - k) % 2
    <3>1. r.bits[r.pos + k] = IF n - k > 30 THEN 0 ELSE (v \div 2 ^ (n - k)) % 2
      BY DEF Binary
    <3>2. 0 % 2 = 0
      OBVIOUS
    <3> QED BY <3>1, <3>2 DEF Above
  <2> QED BY <2>1
<1>3. \A k \in 1 .. n : NextBit(r, k) = Above(v, n - k) % 2
  <2>1. r.pos \in Nat /\ Len(r.bits) \in Nat
    BY DEF Reader
  <2>2. \A k \in 1 .. n : r.pos + k <= Len(r.bits)
    BY <2>1
  <2> QED BY <1>2, <2>2 DEF NextBit
<1>4. PICK f \in [0 .. n -> Nat] :
        /\ f[0] = 0 /\ \A i \in 1 .. n : f[i] = 2 * f[i - 1] + NextBit(r, i)
        /\ Value(r, n) = f[n]
  BY ValueIs
<1>5. n > 30 => Above(v, 30) <= 1
  BY <1>1 DEF Above
<1>6. Above(v, n) = 0
  <2>1. CASE n > 30
    BY <2>1 DEF Above
  <2>2. CASE n <= 30
    <3>1. n \in 0 .. 32 /\ 2 ^ n \in Nat \ {0} /\ v < 2 ^ n
      BY <1>1, <2>2, Powers
    <3>2. Above(v, n) = v \div 2 ^ n
      BY <2>2 DEF Above
    <3> DEFINE w == 2 ^ n
    <3>3. w \in Nat \ {0} /\ v < w /\ Above(v, n) = v \div w
      BY <3>1, <3>2
    <3> HIDE DEF w
    <3>4. v \div w = 0
      BY <1>1, <3>3
    <3> QED BY <3>3, <3>4
  <2> QED BY <2>1, <2>2
<1>7. \A i \in 0 .. n : f[i] = Above(v, n - i)
  <2> DEFINE wrong == {i \in 0 .. n : f[i] # Above(v, n - i)}
  <2>1. SUFFICES ASSUME wrong # {} PROVE FALSE
    OBVIOUS
  <2>2. PICK i \in wrong : \A k \in wrong : i <= k
    <3>1. wrong \in SUBSET Nat
      OBVIOUS
    <3> HIDE DEF wrong
    <3> QED BY <2>1, <3>1, Least
  <2>3. i \in 0 .. n /\ f[i] # Above(v, n - i)
    OBVIOUS
  <2>4. i # 0
    BY <1>4, <1>6, <2>3
  <2>5. i - 1 \in 0 .. n /\ i \in 1 .. n /\ ~ (i <= i - 1)
    BY <2>3, <2>4
  <2>6. i - 1 \notin wrong
    BY <2>2, <2>5
  <2>7. f[i - 1] = Above(v, n - (i - 1))
    BY <2>5, <2>6
  <2> HIDE DEF wrong
  <2>8. f[i] = 2 * Above(v, n - (i - 1)) + (Above(v, n - i) % 2)
    BY <1>3, <1>4, <2>5, <2>7
  <2>9. n - i \in Nat /\ n - (i - 1) = (n - i) + 1
    BY <2>5
  <2>10. (n - i) >= 30 => Above(v, 30) <= 1
    BY <1>5, <2>5
  <2>11. Above(v, n - i) = 2 * Above(v, (n - i) + 1) + (Above(v, n - i) % 2)
    BY <1>1, <2>9, <2>10, AboveIs
  <2> QED BY <2>3, <2>8, <2>9, <2>11
<1>8. f[n] = Above(v, 0)
  <2>1. n \in 0 .. n /\ n - n = 0
    OBVIOUS
  <2> QED BY <1>7, <2>1
<1>9. Above(v, 0) = v
  <2>1. 2 ^ 0 = 1
    OBVIOUS
  <2>2. v \div 1 = v
    BY <1>1
  <2> QED BY <2>1, <2>2 DEF Above
<1> QED BY <1>4, <1>8, <1>9

(* An Exp-Golomb code with z zeros.                                        *)
LEMMA UeIs ==
  ASSUME NEW r \in Reader, NEW z \in 0 .. 30,
         r.pos + 2 * z + 1 <= Len(r.bits),
         r.bits[r.pos + z + 1] = 1,
         \A k \in 1 .. z : r.bits[r.pos + k] = 0
  PROVE  /\ bs_read_ue(r).s.pos = r.pos + 2 * z + 1
         /\ \A v \in Int : Binary(r.bits, r.pos + z + 1, z, v + 1 - 2 ^ z) =>
              bs_read_ue(r).value = v
<1>1. r.pos \in Nat /\ Len(r.bits) \in Nat
  BY DEF Reader
<1> DEFINE Stops(i) == \/ i = 32 \/ r.pos + i + 1 >= Len(r.bits)
                       \/ r.bits[r.pos + i + 1] = 1
<1>2. Stops(z)
  OBVIOUS
<1>3. ASSUME NEW j \in 0 .. z - 1 PROVE ~ Stops(j)
  <2>1. j # 32 /\ ~ (r.pos + j + 1 >= Len(r.bits))
    <3> DEFINE a == r.pos
               l == Len(r.bits)
    <3>1. a \in Nat /\ l \in Nat /\ a + 2 * z + 1 <= l
      BY <1>1
    <3> HIDE DEF a, l
    <3>2. j # 32 /\ ~ (a + j + 1 >= l)
      BY <3>1
    <3> QED BY <3>2 DEF a, l
  <2>2. j + 1 \in 1 .. z /\ r.pos + j + 1 = r.pos + (j + 1)
    <3> DEFINE a == r.pos
    <3>1. a \in Nat /\ z \in 0 .. 30 /\ j \in 0 .. z - 1
      BY <1>1
    <3> HIDE DEF a
    <3>2. j + 1 \in 1 .. z
      BY <3>1
    <3>3. a + j + 1 = a + (j + 1)
      BY <3>1
    <3> QED BY <3>2, <3>3 DEF a
  <2>3. r.bits[r.pos + (j + 1)] = 0
    BY <2>2
  <2> QED BY <2>1, <2>2, <2>3
<1>4. /\ Zeros(r) \in 0 .. 32 /\ Stops(Zeros(r))
      /\ \A j \in 0 .. Zeros(r) - 1 : ~ Stops(j)
  BY ZerosIs
<1>5. Zeros(r) = z
  <2> DEFINE y == Zeros(r)
  <2>1. y \in 0 .. 32 /\ Stops(y) /\ \A j \in 0 .. y - 1 : ~ Stops(j)
    BY <1>4
  <2> HIDE DEF Stops, y
  <2>2. ~ (y < z)
    <3>1. y < z => y \in 0 .. z - 1
      <4>1. y \in Nat
        BY <2>1
      <4> QED BY <4>1
    <3> QED BY <1>3, <2>1, <3>1
  <2>3. ~ (z < y)
    <3>1. z < y => z \in 0 .. y - 1
      <4>1. y \in Nat
        BY <2>1
      <4> QED BY <4>1
    <3> QED BY <1>2, <2>1, <3>1
  <2>4. y = z
    BY <2>1, <2>2, <2>3
  <2> QED BY <2>4 DEF y
<1> DEFINE suffix == Ahead(r, z + 1)
<1>6. /\ bs_read_ue(r).value = 2 ^ z - 1 + Value(suffix, z)
      /\ bs_read_ue(r).s = Ahead(suffix, z)
  <2>1. bs_read_ue(r) = [value |-> Golomb(suffix, z), s |-> Ahead(suffix, z)]
    BY <1>5, UeParts
  <2> HIDE DEF suffix
  <2>2. Golomb(suffix, z) = 2 ^ z - 1 + Value(suffix, z)
    <3>1. z < 31
      <4>1. \A y \in 0 .. 30 : y < 31
        OBVIOUS
      <4> QED BY <4>1
    <3> QED BY <3>1 DEF Golomb
  <2> QED BY <2>1, <2>2
<1>7. z + 1 \in Nat /\ z \in Nat /\ r.pos + (z + 1) <= Len(r.bits)
  BY <1>1
<1>8. suffix \in Reader /\ suffix.bits = r.bits /\ suffix.pos = r.pos + (z + 1)
  BY <1>7, AheadReader
<1> HIDE DEF suffix, Stops
<1>9. suffix.pos + z <= Len(suffix.bits)
  BY <1>1, <1>8
<1>10. Ahead(suffix, z).pos = suffix.pos + z
  BY <1>7, <1>8, <1>9, AheadReader
<1>11. bs_read_ue(r).s.pos = r.pos + 2 * z + 1
  BY <1>1, <1>6, <1>8, <1>10
<1>12. ASSUME NEW v \in Int,
              Binary(r.bits, r.pos + z + 1, z, v + 1 - 2 ^ z)
       PROVE  bs_read_ue(r).value = v
  <2> DEFINE w == 2 ^ z
  <2>1. w \in Nat
    <3>1. z \in 0 .. 32
      OBVIOUS
    <3> QED BY <3>1, Powers
  <2>2. r.pos + z + 1 = suffix.pos
    BY <1>1, <1>8
  <2>3. Binary(suffix.bits, suffix.pos, z, v + 1 - w)
    BY <1>8, <1>12, <2>2
  <2>4. bs_read_ue(r).value = w - 1 + Value(suffix, z)
    BY <1>6
  <2> HIDE DEF w
  <2>5. Value(suffix, z) = v + 1 - w
    BY <1>7, <1>8, <1>9, <2>3, BinaryIs
  <2>6. w - 1 + (v + 1 - w) = v
    BY <2>1
  <2> QED BY <2>4, <2>5, <2>6
<1> QED BY <1>11, <1>12

(* An element is read to the end of its code, with its value.              *)
LEMMA ReadIs ==
  ASSUME s \in Reader, NEW e \in Elements, e.bits \in Nat,
         NEW n \in Nat, n <= Len(s.bits), NEW v \in Int,
         Stands(s.bits, s.pos, n, [code |-> e.code, bits |-> e.bits, value |-> v])
  PROVE  /\ Read(e).s.pos = n
         /\ v # Free /\ e.code # "se" => Read(e).value = v
<1> DEFINE c == [code |-> e.code, bits |-> e.bits, value |-> v]
<1>1. e.code \in {"u", "ue", "se"} /\ e.bits \in Nat /\ s.pos \in Nat
  BY DEF Elements, Reader
<1>2. Stands(s.bits, s.pos, n, c) /\ c.code = e.code /\ c.bits = e.bits
      /\ c.value = v
  OBVIOUS
<1> HIDE DEF c
<1>3. CASE e.code = "u"
  <2>1. /\ n = s.pos + e.bits
        /\ v # Free => Binary(s.bits, s.pos, e.bits, v)
    BY <1>2, <1>3 DEF Stands
  <2>2. Read(e).value = Value(s, e.bits) /\ Read(e).s.pos = n
    <3>1. Read(e) = bs_read(s, e.bits)
      BY <1>3 DEF Read
    <3>2. CASE e.bits > 0
      <4>1. Read(e).value = Value(s, e.bits) /\ Read(e).s = Ahead(s, e.bits)
        BY <3>1, <3>2 DEF bs_read
      <4>2. Ahead(s, e.bits).pos = n
        BY <1>1, <2>1, AheadReader
      <4> QED BY <4>1, <4>2
    <3>3. CASE e.bits = 0
      <4>1. PICK f \in [0 .. 0 -> Nat] : f[0] = 0 /\ Value(s, 0) = f[0]
        BY ValueIs
      <4> QED BY <1>1, <2>1, <3>1, <3>3, <4>1 DEF bs_read
    <3> QED BY <1>1, <3>2, <3>3
  <2>3. v # Free => Value(s, e.bits) = v
    BY <1>1, <2>1, BinaryIs
  <2> QED BY <2>2, <2>3
<1>4. CASE e.code # "u"
  <2>1. PICK z \in 0 .. 30 :
          /\ n = s.pos + 2 * z + 1
          /\ s.bits[s.pos + z + 1] = 1 /\ \A k \in 1 .. z : s.bits[s.pos + k] = 0
          /\ v # Free => Binary(s.bits, s.pos + z + 1, z, v + 1 - 2 ^ z)
    BY <1>2, <1>4 DEF Stands
  <2>2. /\ bs_read_ue(s).s.pos = n
        /\ \A w \in Int : Binary(s.bits, s.pos + z + 1, z, w + 1 - 2 ^ z) =>
              bs_read_ue(s).value = w
    <3>1. s.pos + 2 * z + 1 <= Len(s.bits)
      BY <2>1
    <3> QED BY <2>1, <3>1, UeIs
  <2>3. CASE e.code = "ue"
    <3>1. Read(e) = bs_read_ue(s)
      BY <2>3 DEF Read
    <3> QED BY <2>1, <2>2, <3>1
  <2>4. CASE e.code = "se"
    <3>1. Read(e) = bs_read_se(s)
      BY <2>4 DEF Read
    <3> QED BY <2>2, <2>4, <3>1, SeTyped
  <2> QED BY <1>1, <1>4, <2>3, <2>4
<1> QED BY <1>3, <1>4

-----------------------------------------------------------------------------
(* Paths: the items of q take one from place i to place j, where R says    *)
(* which item leads from where to where.                                   *)
Along(R, q, at) ==
  /\ at \in Seq(Nat) /\ Len(at) = Len(q) + 1
  /\ \A k \in 1 .. Len(q) : <<q[k], at[k], at[k + 1]>> \in R

Path(R, q, i, j) ==
  \E at : Along(R, q, at) /\ at[1] = i /\ at[Len(q) + 1] = j

Upward(R) == \A e, i, j : <<e, i, j>> \in R => i <= j

(* Paths over no edge and over one, and where they may end.                *)
LEMMA PathNone ==
  ASSUME NEW R, NEW i \in Nat
  PROVE  /\ Path(R, <<>>, i, i)
         /\ \A j : Path(R, <<>>, i, j) => j = i
<1>1. Along(R, <<>>, <<i>>) /\ <<i>>[1] = i /\ Len(<<>>) + 1 = 1
  BY DEF Along
<1>2. Path(R, <<>>, i, i)
  BY <1>1 DEF Path
<1>3. \A j : Path(R, <<>>, i, j) => j = i
  BY DEF Path
<1> QED BY <1>2, <1>3

LEMMA PathOne ==
  ASSUME NEW R, NEW e, NEW i \in Nat, NEW j \in Nat, <<e, i, j>> \in R
  PROVE  Path(R, <<e>>, i, j)
<1>1. /\ Len(<<e>>) = 1 /\ <<i, j>> \in Seq(Nat) /\ Len(<<i, j>>) = 1 + 1
      /\ <<i, j>>[1] = i /\ <<i, j>>[1 + 1] = j /\ <<e>>[1] = e
  OBVIOUS
<1>2. Along(R, <<e>>, <<i, j>>)
  <2>1. ASSUME NEW k \in 1 .. 1
        PROVE  <<<<e>>[k], <<i, j>>[k], <<i, j>>[k + 1]>> \in R
    BY <1>1
  <2> QED BY <1>1, <2>1 DEF Along
<1> QED BY <1>1, <1>2 DEF Path

LEMMA PathEnds ==
  ASSUME NEW R, NEW S, NEW q \in Seq(S), NEW i, NEW j, Path(R, q, i, j)
  PROVE  i \in Nat /\ j \in Nat
<1>1. PICK at : Along(R, q, at) /\ at[1] = i /\ at[Len(q) + 1] = j
  BY DEF Path
<1>2. at \in Seq(Nat) /\ Len(at) = Len(q) + 1 /\ Len(q) \in Nat
  BY <1>1 DEF Along
<1>3. 1 \in 1 .. Len(at) /\ Len(q) + 1 \in 1 .. Len(at)
  BY <1>2
<1> QED BY <1>1, <1>2, <1>3, ItemIs

(* Paths are put together and taken apart as their sequences are.          *)
LEMMA PathCat ==
  ASSUME NEW R, NEW S, NEW q \in Seq(S), NEW r \in Seq(S),
         NEW i, NEW m, NEW j, Path(R, q, i, m), Path(R, r, m, j)
  PROVE  Path(R, q \o r, i, j)
<1>1. PICK a : Along(R, q, a) /\ a[1] = i /\ a[Len(q) + 1] = m
  BY DEF Path
<1>2. PICK b : Along(R, r, b) /\ b[1] = m /\ b[Len(r) + 1] = j
  BY DEF Path
<1> DEFINE n == Len(q)
           l == Len(r)
           at == [k \in 1 .. n + l + 1 |-> IF k <= n THEN a[k] ELSE b[k - n]]
<1>3. n \in Nat /\ l \in Nat /\ Len(q \o r) = n + l
  OBVIOUS
<1>4. /\ a \in Seq(Nat) /\ Len(a) = n + 1 /\ b \in Seq(Nat) /\ Len(b) = l + 1
      /\ \A k \in 1 .. n : <<q[k], a[k], a[k + 1]>> \in R
      /\ \A k \in 1 .. l : <<r[k], b[k], b[k + 1]>> \in R
  BY <1>1, <1>2 DEF Along
<1>5. /\ \A k \in 1 .. n : (q \o r)[k] = q[k]
      /\ \A k \in n + 1 .. n + l : (q \o r)[k] = r[k - n]
  BY <1>3
<1>6. a[n + 1] = m /\ b[1] = m
  BY <1>1, <1>2
<1> HIDE DEF n, l
<1>7. at \in Seq(Nat) /\ Len(at) = n + l + 1
  <2>1. ASSUME NEW k \in 1 .. n + l + 1
        PROVE  (IF k <= n THEN a[k] ELSE b[k - n]) \in Nat
    <3>1. CASE k <= n
      <4>1. k \in 1 .. Len(a)
        BY <1>3, <1>4, <3>1
      <4> QED BY <1>4, <3>1, <4>1, ItemIs
    <3>2. CASE ~ (k <= n)
      <4>1. k - n \in 1 .. Len(b)
        BY <1>3, <1>4, <3>2
      <4> QED BY <1>4, <3>2, <4>1, ItemIs
    <3> QED BY <3>1, <3>2
  <2>2. n + l + 1 \in Nat
    BY <1>3
  <2> QED BY <2>1, <2>2
<1>8. /\ \A k \in 1 .. n + 1 : at[k] = a[k]
      /\ \A k \in n + 1 .. n + l + 1 : at[k] = b[k - n]
  <2>1. ASSUME NEW k \in 1 .. n + 1 PROVE at[k] = a[k]
    <3>1. k \in 1 .. n + l + 1
      BY <1>3
    <3>2. at[k] = IF k <= n THEN a[k] ELSE b[k - n]
      BY <3>1
    <3> HIDE DEF at
    <3>3. CASE k <= n
      BY <3>2, <3>3
    <3>4. CASE ~ (k <= n)
      <4>1. k = n + 1 /\ k - n = 1
        BY <1>3, <3>4
      <4> QED BY <1>6, <3>2, <3>4, <4>1
    <3> QED BY <3>3, <3>4
  <2>2. ASSUME NEW k \in n + 1 .. n + l + 1 PROVE at[k] = b[k - n]
    <3>1. k \in 1 .. n + l + 1 /\ ~ (k <= n)
      BY <1>3
    <3> QED BY <3>1
  <2> QED BY <2>1, <2>2
<1> HIDE DEF at
<1>9. ASSUME NEW k \in 1 .. n + l
      PROVE  <<(q \o r)[k], at[k], at[k + 1]>> \in R
  <2>1. CASE k <= n
    <3>1. k \in 1 .. n /\ k \in 1 .. n + 1 /\ k + 1 \in 1 .. n + 1
      BY <1>3, <2>1
    <3>2. (q \o r)[k] = q[k] /\ at[k] = a[k] /\ at[k + 1] = a[k + 1]
      BY <1>5, <1>8, <3>1
    <3> QED BY <1>4, <3>1, <3>2
  <2>2. CASE ~ (k <= n)
    <3>1. /\ k - n \in 1 .. l /\ k \in n + 1 .. n + l
          /\ k \in n + 1 .. n + l + 1 /\ k + 1 \in n + 1 .. n + l + 1
          /\ (k + 1) - n = (k - n) + 1
      BY <1>3, <2>2
    <3>2. (q \o r)[k] = r[k - n]
      BY <1>5, <3>1
    <3>3. at[k] = b[k - n]
      BY <1>8, <3>1
    <3>4. at[k + 1] = b[(k + 1) - n]
      BY <1>8, <3>1
    <3> QED BY <1>4, <3>1, <3>2, <3>3, <3>4
  <2> QED BY <2>1, <2>2
<1>10. at[1] = i /\ at[n + l + 1] = j
  <2>1. 1 \in 1 .. n + 1 /\ n + l + 1 \in n + 1 .. n + l + 1
        /\ (n + l + 1) - n = l + 1
    BY <1>3
  <2> QED BY <1>1, <1>2, <1>8, <2>1 DEF n, l
<1>11. Along(R, q \o r, at)
  BY <1>3, <1>7, <1>9 DEF Along
<1> QED BY <1>3, <1>10, <1>11 DEF Path

LEMMA PathSplit ==
  ASSUME NEW R, NEW S, NEW q \in Seq(S), NEW r \in Seq(S), NEW i, NEW j,
         Path(R, q \o r, i, j)
  PROVE  \E m \in Nat : Path(R, q, i, m) /\ Path(R, r, m, j)
<1>1. PICK at : /\ Along(R, q \o r, at) /\ at[1] = i
                /\ at[Len(q \o r) + 1] = j
  BY DEF Path
<1> DEFINE n == Len(q)
           l == Len(r)
           a == [k \in 1 .. n + 1 |-> at[k]]
           b == [k \in 1 .. l + 1 |-> at[n + k]]
<1>2. n \in Nat /\ l \in Nat /\ Len(q \o r) = n + l
  OBVIOUS
<1>3. /\ at \in Seq(Nat) /\ Len(at) = n + l + 1
      /\ \A k \in 1 .. n + l : <<(q \o r)[k], at[k], at[k + 1]>> \in R
  BY <1>1, <1>2 DEF Along
<1>4. /\ \A k \in 1 .. n : (q \o r)[k] = q[k]
      /\ \A k \in 1 .. l : (q \o r)[n + k] = r[k]
  <2>1. \A k \in 1 .. n : (q \o r)[k] = q[k]
    BY <1>2
  <2>2. ASSUME NEW k \in 1 .. l PROVE (q \o r)[n + k] = r[k]
    <3>1. n + k \in Len(q) + 1 .. Len(q) + Len(r) /\ (n + k) - n = k
      BY <1>2
    <3> QED BY <1>2, <3>1
  <2> QED BY <2>1, <2>2
<1>5. at[n + l + 1] = j
  BY <1>1, <1>2
<1>6. n = Len(q) /\ l = Len(r)
  OBVIOUS
<1> HIDE DEF n, l
<1>7. \A k \in 1 .. n + l + 1 : at[k] \in Nat
  BY <1>3, ItemIs
<1>8. a \in Seq(Nat) /\ Len(a) = n + 1 /\ \A k \in 1 .. n + 1 : a[k] = at[k]
  <2>1. \A k \in 1 .. n + 1 : k \in 1 .. n + l + 1
    BY <1>2
  <2>2. n + 1 \in Nat
    BY <1>2
  <2> QED BY <1>7, <2>1, <2>2
<1>9. b \in Seq(Nat) /\ Len(b) = l + 1 /\ \A k \in 1 .. l + 1 : b[k] = at[n + k]
  <2>1. \A k \in 1 .. l + 1 : n + k \in 1 .. n + l + 1
    BY <1>2
  <2>2. l + 1 \in Nat
    BY <1>2
  <2> QED BY <1>7, <2>1, <2>2
<1> HIDE DEF a, b
<1>10. Path(R, q, i, at[n + 1])
  <2>1. ASSUME NEW k \in 1 .. n PROVE <<q[k], a[k], a[k + 1]>> \in R
    <3>1. k \in 1 .. n + l /\ k \in 1 .. n + 1 /\ k + 1 \in 1 .. n + 1
      BY <1>2
    <3>2. <<(q \o r)[k], at[k], at[k + 1]>> \in R
      BY <1>3, <3>1
    <3> QED BY <1>4, <1>8, <3>1, <3>2
  <2>2. a[1] = i /\ a[n + 1] = at[n + 1]
    <3>1. 1 \in 1 .. n + 1 /\ n + 1 \in 1 .. n + 1
      BY <1>2
    <3> QED BY <1>1, <1>8, <3>1
  <2>3. Along(R, q, a)
    BY <1>6, <1>8, <2>1 DEF Along
  <2> QED BY <1>6, <2>2, <2>3 DEF Path
<1>11. Path(R, r, at[n + 1], j)
  <2>1. ASSUME NEW k \in 1 .. l PROVE <<r[k], b[k], b[k + 1]>> \in R
    <3>1. /\ n + k \in 1 .. n + l /\ k \in 1 .. l + 1 /\ k + 1 \in 1 .. l + 1
          /\ (n + k) + 1 = n + (k + 1)
      BY <1>2
    <3>2. <<(q \o r)[n + k], at[n + k], at[n + (k + 1)]>> \in R
      BY <1>3, <3>1
    <3> QED BY <1>4, <1>9, <3>1, <3>2
  <2>2. b[1] = at[n + 1] /\ b[l + 1] = j
    <3>1. 1 \in 1 .. l + 1 /\ l + 1 \in 1 .. l + 1 /\ n + (l + 1) = n + l + 1
      BY <1>2
    <3> QED BY <1>5, <1>9, <3>1
  <2>3. Along(R, r, b)
    BY <1>6, <1>9, <2>1 DEF Along
  <2> QED BY <1>6, <2>2, <2>3 DEF Path
<1>12. at[n + 1] \in Nat
  <2>1. n + 1 \in 1 .. n + l + 1
    BY <1>2
  <2> QED BY <1>7, <2>1
<1> QED BY <1>10, <1>11, <1>12

LEMMA PathFirst ==
  ASSUME NEW R, NEW S, NEW q \in Seq(S), q # <<>>, NEW i, NEW j,
         Path(R, q, i, j)
  PROVE  \E m \in Nat : <<Head(q), i, m>> \in R /\ Path(R, Tail(q), m, j)
<1>1. q = <<Head(q)>> \o Tail(q) /\ Head(q) \in S /\ Tail(q) \in Seq(S)
  OBVIOUS
<1>2. <<Head(q)>> \in Seq(S)
  BY <1>1
<1>3. PICK m \in Nat : Path(R, <<Head(q)>>, i, m) /\ Path(R, Tail(q), m, j)
  BY <1>1, <1>2, PathSplit
<1>4. PICK at : Along(R, <<Head(q)>>, at) /\ at[1] = i /\ at[1 + 1] = m
  <2>1. Len(<<Head(q)>>) = 1
    OBVIOUS
  <2> QED BY <1>3, <2>1 DEF Path
<1>5. <<<<Head(q)>>[1], at[1], at[1 + 1]>> \in R
  <2>1. 1 \in 1 .. Len(<<Head(q)>>)
    OBVIOUS
  <2> QED BY <1>4, <2>1 DEF Along
<1>6. <<Head(q)>>[1] = Head(q)
  OBVIOUS
<1> QED BY <1>3, <1>4, <1>5, <1>6

LEMMA PathCons ==
  ASSUME NEW R, NEW S, NEW e \in S, NEW q \in Seq(S), NEW i \in Nat, NEW m,
         NEW j, <<e, i, m>> \in R, Path(R, q, m, j)
  PROVE  Path(R, <<e>> \o q, i, j)
<1>1. m \in Nat
  BY PathEnds
<1>2. Path(R, <<e>>, i, m) /\ <<e>> \in Seq(S)
  BY <1>1, PathOne
<1> QED BY <1>2, PathCat

(* Along an upward path no place lies behind the last.                     *)
LEMMA PathBounded ==
  ASSUME NEW R, Upward(R), NEW S, NEW q \in Seq(S), NEW at, Along(R, q, at)
  PROVE  \A k \in 1 .. Len(q) + 1 : at[k] <= at[Len(q) + 1]
<1> DEFINE n == Len(q)
           wrong == {d \in 0 .. n : ~ (at[n + 1 - d] <= at[n + 1])}
<1>1. /\ n \in Nat /\ at \in Seq(Nat) /\ Len(at) = n + 1
      /\ \A k \in 1 .. n : <<q[k], at[k], at[k + 1]>> \in R
  BY DEF Along
<1>2. \A k \in 1 .. n + 1 : at[k] \in Nat
  BY <1>1, ItemIs
<1>3. wrong = {}
  <2> HIDE DEF n
  <2>1. SUFFICES ASSUME wrong # {} PROVE FALSE
    OBVIOUS
  <2>2. PICK d \in wrong : \A k \in wrong : d <= k
    <3>1. wrong \in SUBSET Nat
      BY <1>1
    <3> HIDE DEF wrong
    <3> QED BY <2>1, <3>1, Least
  <2>3. d \in 0 .. n /\ ~ (at[n + 1 - d] <= at[n + 1])
    OBVIOUS
  <2>4. d # 0
    <3>1. n + 1 \in 1 .. n + 1 /\ n + 1 - 0 = n + 1
      BY <1>1
    <3>2. at[n + 1] \in Nat
      BY <1>2, <3>1
    <3>3. at[n + 1] <= at[n + 1]
      BY <3>2
    <3> QED BY <2>3, <3>1, <3>3
  <2>5. d - 1 \in 0 .. n /\ ~ (d <= d - 1)
    <3>1. d \in 0 .. n
      BY <2>3
    <3> HIDE DEF wrong
    <3> QED BY <1>1, <2>4, <3>1
  <2>6. d - 1 \notin wrong
    BY <2>2, <2>5
  <2>7. at[n + 1 - (d - 1)] <= at[n + 1]
    BY <2>5, <2>6
  <2> DEFINE k == n + 1 - d
  <2>8. /\ k \in 1 .. n /\ k + 1 = n + 1 - (d - 1) /\ k \in 1 .. n + 1
        /\ k + 1 \in 1 .. n + 1 /\ n + 1 \in 1 .. n + 1
    BY <1>1, <2>3, <2>4
  <2> HIDE DEF k
  <2>9. at[k] <= at[k + 1]
    BY <1>1, <2>8 DEF Upward
  <2>10. at[k] \in Nat /\ at[k + 1] \in Nat /\ at[n + 1] \in Nat
    BY <1>2, <2>8
  <2>11. at[k + 1] <= at[n + 1]
    BY <2>7, <2>8
  <2>12. at[k] <= at[n + 1]
    BY <2>9, <2>10, <2>11
  <2> QED BY <2>3, <2>12 DEF k
<1>4. ASSUME NEW k \in 1 .. n + 1 PROVE at[k] <= at[n + 1]
  <2> HIDE DEF n
  <2>1. n + 1 - k \in 0 .. n /\ n + 1 - (n + 1 - k) = k
    BY <1>1
  <2> QED BY <1>3, <2>1
<1> QED BY <1>4

(* An upward path does not end in front of its start.                      *)
LEMMA PathRises ==
  ASSUME NEW R, Upward(R), NEW S, NEW q \in Seq(S), NEW i, NEW j,
         Path(R, q, i, j)
  PROVE  i <= j
<1>1. PICK at : Along(R, q, at) /\ at[1] = i /\ at[Len(q) + 1] = j
  BY DEF Path
<1>2. 1 \in 1 .. Len(q) + 1
  OBVIOUS
<1> QED BY <1>1, <1>2, PathBounded

(* A path of which each step is one of R2 too.                             *)
LEMMA PathSame ==
  ASSUME NEW R, Upward(R), NEW R2, NEW S, NEW S2, NEW q \in Seq(S),
         NEW q2 \in Seq(S2), Len(q2) = Len(q), NEW i, NEW j, Path(R, q, i, j),
         \A k \in 1 .. Len(q), m, n \in Nat :
           n <= j /\ <<q[k], m, n>> \in R => <<q2[k], m, n>> \in R2
  PROVE  Path(R2, q2, i, j)
<1>1. PICK at : Along(R, q, at) /\ at[1] = i /\ at[Len(q) + 1] = j
  BY DEF Path
<1>2. \A k \in 1 .. Len(q) + 1 : at[k] <= j
  BY <1>1, PathBounded
<1>3. /\ at \in Seq(Nat) /\ Len(at) = Len(q) + 1
      /\ \A k \in 1 .. Len(q) : <<q[k], at[k], at[k + 1]>> \in R
  BY <1>1 DEF Along
<1>4. ASSUME NEW k \in 1 .. Len(q2) PROVE <<q2[k], at[k], at[k + 1]>> \in R2
  <2>1. /\ k \in 1 .. Len(q) /\ k + 1 \in 1 .. Len(q) + 1
        /\ k \in 1 .. Len(at) /\ k + 1 \in 1 .. Len(at)
    BY <1>3
  <2>2. at[k] \in Nat /\ at[k + 1] \in Nat
    BY <1>3, <2>1, ItemIs
  <2>3. at[k + 1] <= j /\ <<q[k], at[k], at[k + 1]>> \in R
    BY <1>2, <1>3, <2>1
  <2> QED BY <2>1, <2>2, <2>3
<1>5. Along(R2, q2, at)
  BY <1>3, <1>4 DEF Along
<1> QED BY <1>1, <1>5 DEF Path

-----------------------------------------------------------------------------
(* The tables as sequences of codes, and the part of a table that hangs on *)
(* one element.                                                            *)
CodeSet == [code : {"u", "ue", "se"}, bits : Nat, value : Int]

(* The tables are sequences of codes.                                      *)
LEMMA CodesTyped ==
  /\ \A n \in Nat, v \in Int : U(n, v) \in CodeSet
  /\ \A v \in Int : UE(v) \in CodeSet
  /\ SE \in CodeSet
  /\ Free \in Int
BY DEF CodeSet, U, UE, SE, Free

LEMMA IfTyped ==
  ASSUME NEW condition, NEW q \in Seq(CodeSet)
  PROVE  If(condition, q) \in Seq(CodeSet)
BY DEF If

LEMMA JoinTyped ==
  ASSUME NEW q \in Seq(CodeSet), NEW r \in Seq(CodeSet)
  PROVE  q \o r \in Seq(CodeSet)
OBVIOUS

SpsNames ==
  {"profile_idc", "sps_id", "chroma_format_idc", "separate_colour_plane_flag",
   "log2_max_frame_num", "poc_type", "log2_max_poc_lsb",
   "delta_pic_order_always_zero_flag", "cycle", "mb_width", "mb_height",
   "frame_mbs_only_flag", "crop", "vui", "aspect", "sar", "overscan",
   "video_signal", "colour", "chroma_loc", "timing", "num_units_in_tick",
   "time_scale", "nal_hrd", "nal_cpb_cnt", "vcl_hrd", "vcl_cpb_cnt",
   "bitstream_restriction_flag", "num_reorder_frames"}

(* The values that the standard allows.                                    *)
LEMMA Parameters ==
  ASSUME NEW p \in SpsParameters
  PROVE  /\ DOMAIN p = SpsNames
         /\ \A f \in SpsNames : p[f] \in Nat
         /\ \A f \in {"separate_colour_plane_flag",
                      "delta_pic_order_always_zero_flag",
                      "frame_mbs_only_flag", "crop", "vui", "aspect",
                      "overscan", "video_signal", "colour", "chroma_loc",
                      "timing", "nal_hrd", "vcl_hrd",
                      "bitstream_restriction_flag"} : p[f] \in {0, 1}
         /\ p.profile_idc \in {66, 77, 88} \cup HighProfiles
         /\ p.sps_id <= 31 /\ p.chroma_format_idc <= 3 /\ p.poc_type <= 2
         /\ p.cycle <= 255 /\ p.sar <= 255 /\ p.nal_cpb_cnt <= 31
         /\ p.vcl_cpb_cnt <= 31 /\ p.num_reorder_frames <= 16
         /\ p.mb_width <= 1054 /\ p.mb_height <= 1054
<1>1. DOMAIN p = SpsNames
  BY DEF SpsParameters, SpsNames
<1>2. /\ p.profile_idc \in {66, 77, 88} \cup HighProfiles
      /\ p.sps_id \in 0 .. 31 /\ p.chroma_format_idc \in 0 .. 3
      /\ p.poc_type \in 0 .. 2 /\ p.cycle \in 0 .. 255 /\ p.sar \in 0 .. 255
      /\ p.nal_cpb_cnt \in 0 .. 31 /\ p.vcl_cpb_cnt \in 0 .. 31
      /\ p.num_reorder_frames \in 0 .. 16
      /\ p.log2_max_frame_num \in Nat /\ p.log2_max_poc_lsb \in Nat
      /\ p.num_units_in_tick \in Nat /\ p.time_scale \in Nat
  BY DEF SpsParameters
<1>11. p.mb_width \in 0 .. 1054 /\ p.mb_height \in 0 .. 1054
  BY DEF SpsParameters
<1>3. /\ p.separate_colour_plane_flag \in Flag
      /\ p.delta_pic_order_always_zero_flag \in Flag
      /\ p.frame_mbs_only_flag \in Flag /\ p.crop \in Flag /\ p.vui \in Flag
      /\ p.aspect \in Flag /\ p.overscan \in Flag /\ p.video_signal \in Flag
      /\ p.colour \in Flag /\ p.chroma_loc \in Flag /\ p.timing \in Flag
      /\ p.nal_hrd \in Flag /\ p.vcl_hrd \in Flag
      /\ p.bitstream_restriction_flag \in Flag
  BY DEF SpsParameters
<1>4. Flag = {0, 1}
  BY DEF Flag
<1>5. \A n \in {66, 77, 88} \cup HighProfiles : n \in Nat
  BY DEF HighProfiles
<1>6. \A f \in {"separate_colour_plane_flag",
                "delta_pic_order_always_zero_flag",
                "frame_mbs_only_flag", "crop", "vui", "aspect",
                "overscan", "video_signal", "colour", "chroma_loc",
                "timing", "nal_hrd", "vcl_hrd",
                "bitstream_restriction_flag"} : p[f] \in {0, 1}
  BY <1>3, <1>4
<1>7. p.profile_idc \in Nat
  BY <1>2, <1>5
<1>8. /\ p.sps_id \in Nat /\ p.chroma_format_idc \in Nat /\ p.poc_type \in Nat
      /\ p.cycle \in Nat /\ p.sar \in Nat /\ p.nal_cpb_cnt \in Nat
      /\ p.vcl_cpb_cnt \in Nat /\ p.num_reorder_frames \in Nat
      /\ p.log2_max_frame_num \in Nat /\ p.log2_max_poc_lsb \in Nat
      /\ p.num_units_in_tick \in Nat /\ p.time_scale \in Nat
  BY <1>2
<1>12. p.mb_width \in Nat /\ p.mb_height \in Nat
  <2>1. \A n \in 0 .. 1054 : n \in Nat
    OBVIOUS
  <2> QED BY <1>11, <2>1, Zenon
<1>9. \A f \in SpsNames : p[f] \in Nat
  BY <1>6, <1>7, <1>8, <1>12 DEF SpsNames
<1>10. /\ p.sps_id <= 31 /\ p.chroma_format_idc <= 3 /\ p.poc_type <= 2
       /\ p.cycle <= 255 /\ p.sar <= 255 /\ p.nal_cpb_cnt <= 31
       /\ p.vcl_cpb_cnt <= 31 /\ p.num_reorder_frames <= 16
  BY <1>2
<1>13. p.mb_width <= 1054 /\ p.mb_height <= 1054
  <2>1. ASSUME NEW n \in 0 .. 1054 PROVE n <= 1054
    OBVIOUS
  <2>2. p.mb_width <= 1054
    BY <1>11, <2>1
  <2>3. p.mb_height <= 1054
    BY <1>11, <2>1
  <2> QED BY <2>2, <2>3
<1>14. p.profile_idc \in {66, 77, 88} \cup HighProfiles
  BY <1>2
<1> QED BY <1>1, <1>6, <1>9, <1>10, <1>13, <1>14

LEMMA SliceValues ==
  ASSUME NEW h \in SliceParameters
  PROVE  /\ DOMAIN h = SliceFields \cup {"field_pic"}
         /\ \A f \in SliceFields \cup {"field_pic"} : h[f] \in Nat
         /\ h.field_pic \in {0, 1}
<1>1. DOMAIN h = SliceFields \cup {"field_pic"}
  BY DEF SliceParameters, SliceFields
<1>2. /\ h.i_slice_type \in Nat /\ h.i_frame_num \in Nat /\ h.field_pic \in Flag
      /\ h.i_pic_order_cnt_lsb \in Nat
  BY DEF SliceParameters
<1>3. h.field_pic \in {0, 1}
  BY <1>2 DEF Flag
<1> QED BY <1>1, <1>2, <1>3 DEF SliceFields

HrdRest(n) ==
  <<U(4, Free), U(4, Free)>>
  \o [k \in 1 .. 3 * (n + 1) |-> <<UE(Free), UE(Free), U(1, Free)>>
                                   [((k - 1) % 3) + 1]]
  \o <<U(5, Free), U(5, Free), U(5, Free), U(5, Free)>>

Under(x, name) ==
  CASE name = "sps_id" -> If(x.profile_idc \in HighProfiles, HighData(x))
    [] name = "chroma_format_idc" ->
         If(x.chroma_format_idc = 3, <<U(1, x.separate_colour_plane_flag)>>)
    [] name = "poc_type" -> PocData(x)
    [] name = "cycle" -> [k \in 1 .. x.cycle |-> SE]
    [] name = "frame_mbs_only_flag" ->
         If(x.frame_mbs_only_flag = 0, <<U(1, Free)>>)
    [] name = "crop" ->
         If(x.crop = 1, <<UE(Free), UE(Free), UE(Free), UE(Free)>>)
    [] name = "vui" -> If(x.vui = 1, VuiData(x))
    [] name = "aspect" -> If(x.aspect = 1, AspectData(x))
    [] name = "sar" -> If(x.sar = 255, <<U(16, Free), U(16, Free)>>)
    [] name = "overscan" -> If(x.overscan = 1, <<U(1, Free)>>)
    [] name = "video_signal" -> If(x.video_signal = 1, VideoData(x))
    [] name = "colour" ->
         If(x.colour = 1, <<U(8, Free), U(8, Free), U(8, Free)>>)
    [] name = "chroma_loc" -> If(x.chroma_loc = 1, <<UE(Free), UE(Free)>>)
    [] name = "timing" ->
         If(x.timing = 1, <<U(32, x.num_units_in_tick), U(32, x.time_scale),
                            U(1, Free)>>)
    [] name = "nal_hrd" ->
         If(x.nal_hrd = 1, HrdData(x.nal_cpb_cnt))
         \o <<U(1, x.vcl_hrd)>> \o If(x.vcl_hrd = 1, HrdData(x.vcl_cpb_cnt))
         \o If(x.nal_hrd = 1 \/ x.vcl_hrd = 1, <<U(1, Free)>>)
    [] name = "vcl_hrd" -> If(x.vcl_hrd = 1, HrdData(x.vcl_cpb_cnt))
    [] name = "vcl_hrd_alone" ->
         If(x.vcl_hrd = 1, HrdData(x.vcl_cpb_cnt)) \o If(x.vcl_hrd = 1, <<U(1, Free)>>)
    [] name = "nal_cpb_cnt" -> HrdRest(x.nal_cpb_cnt)
    [] name = "vcl_cpb_cnt" -> HrdRest(x.vcl_cpb_cnt)
    [] name = "bitstream_restriction_flag" ->
         If(x.bitstream_restriction_flag = 1,
            <<U(1, Free), UE(Free), UE(Free), UE(Free), UE(Free),
              UE(x.num_reorder_frames), UE(Free)>>)
    [] name = "field_pic" -> If(x.field_pic = 1, <<U(1, Free)>>)
    [] OTHER -> <<>>

(* Tuples of codes that any table may have.                                *)
LEMMA PlainTyped ==
  /\ \A n \in Nat : U(n, Free) \in CodeSet
  /\ UE(Free) \in CodeSet
  /\ \A n \in Nat : <<U(n, Free)>> \in Seq(CodeSet)
  /\ \A n \in Nat : <<U(n, Free), U(n, Free)>> \in Seq(CodeSet)
  /\ \A n \in Nat : <<U(n, Free), U(n, Free), U(n, Free)>> \in Seq(CodeSet)
  /\ \A n \in Nat : <<U(n, Free), U(n, Free), U(n, Free), U(n, Free)>>
                      \in Seq(CodeSet)
  /\ <<UE(Free), UE(Free)>> \in Seq(CodeSet)
  /\ <<UE(Free), UE(Free), UE(Free), UE(Free)>> \in Seq(CodeSet)
  /\ <<>> \in Seq(CodeSet)
<1>1. /\ \A n \in Nat : U(n, Free) \in CodeSet
      /\ UE(Free) \in CodeSet
  BY CodesTyped
<1> QED BY <1>1

LEMMA HrdTyped ==
  ASSUME NEW n \in Nat
  PROVE  /\ HrdRest(n) \in Seq(CodeSet) /\ HrdData(n) \in Seq(CodeSet)
         /\ HrdData(n) = <<UE(n)>> \o HrdRest(n)
<1> DEFINE N == 3 * (n + 1)
           three == <<UE(Free), UE(Free), U(1, Free)>>
           middle == [k \in 1 .. N |-> three[((k - 1) % 3) + 1]]
           end == <<U(5, Free), U(5, Free), U(5, Free), U(5, Free)>>
           rest == <<U(4, Free), U(4, Free)>>
           head == <<UE(n), U(4, Free), U(4, Free)>>
<1>1. N \in Nat
  OBVIOUS
<1>2. U(1, Free) \in CodeSet /\ UE(Free) \in CodeSet /\ U(4, Free) \in CodeSet
  BY PlainTyped
<1>3. three[1] \in CodeSet /\ three[2] \in CodeSet /\ three[3] \in CodeSet
  BY <1>2
<1>4. middle \in Seq(CodeSet)
  <2>1. ASSUME NEW k \in 1 .. N PROVE three[((k - 1) % 3) + 1] \in CodeSet
    <3>1. (k - 1) % 3 \in {0, 1, 2}
      BY <1>1
    <3> HIDE DEF three
    <3> QED BY <1>3, <3>1
  <2> HIDE DEF N, three
  <2> QED BY <1>1, <2>1
<1>5. rest \in Seq(CodeSet) /\ end \in Seq(CodeSet)
  BY PlainTyped
<1>6. UE(n) \in CodeSet
  BY CodesTyped
<1>7. <<UE(n)>> \in Seq(CodeSet) /\ head = <<UE(n)>> \o rest
  BY <1>6
<1>8. HrdRest(n) = rest \o middle \o end /\ HrdData(n) = head \o middle \o end
  BY DEF HrdRest, HrdData
<1> HIDE DEF rest, middle, end, head
<1>9. rest \o middle \o end \in Seq(CodeSet)
  BY <1>4, <1>5
<1>10. (<<UE(n)>> \o rest) \o middle \o end = <<UE(n)>> \o (rest \o middle \o end)
  BY <1>4, <1>5, <1>7
<1>11. <<UE(n)>> \o (rest \o middle \o end) \in Seq(CodeSet)
  BY <1>7, <1>9
<1> QED BY <1>7, <1>8, <1>9, <1>10, <1>11

(* Each table on its own.                                                  *)
LEMMA TablesTyped ==
  ASSUME NEW p \in SpsParameters
  PROVE  /\ HighData(p) \in Seq(CodeSet) /\ PocData(p) \in Seq(CodeSet)
         /\ [k \in 1 .. p.cycle |-> SE] \in Seq(CodeSet)
         /\ HrdData(p.nal_cpb_cnt) \in Seq(CodeSet)
         /\ HrdData(p.vcl_cpb_cnt) \in Seq(CodeSet)
         /\ AspectData(p) \in Seq(CodeSet) /\ VideoData(p) \in Seq(CodeSet)
         /\ \A f \in SpsNames, n \in Nat :
              <<U(n, p[f])>> \in Seq(CodeSet) /\ <<UE(p[f])>> \in Seq(CodeSet)
         /\ <<U(32, p.num_units_in_tick), U(32, p.time_scale), U(1, Free)>>
              \in Seq(CodeSet)
         /\ <<U(1, Free), UE(Free), UE(Free), UE(Free), UE(Free),
              UE(p.num_reorder_frames), UE(Free)>> \in Seq(CodeSet)
<1>1. \A f \in SpsNames : p[f] \in Nat
  BY Parameters
<1>2. \A f \in SpsNames, n \in Nat :
        U(n, p[f]) \in CodeSet /\ UE(p[f]) \in CodeSet
  BY <1>1, CodesTyped
<1>3. SE \in CodeSet /\ UE(Free) \in CodeSet /\ U(1, Free) \in CodeSet
  BY CodesTyped
<1>4. \A f \in SpsNames, n \in Nat :
        <<U(n, p[f])>> \in Seq(CodeSet) /\ <<UE(p[f])>> \in Seq(CodeSet)
  BY <1>2
<1>5. U(1, 0) \in CodeSet /\ U(3, Free) \in CodeSet
  BY CodesTyped
<1>6. [k \in 1 .. p.cycle |-> SE] \in Seq(CodeSet)
  <2>1. p.cycle \in Int
    BY <1>1 DEF SpsNames
  <2> QED BY <1>3, <2>1, RepeatTyped
<1>7. HighData(p) \in Seq(CodeSet)
  <2>1. /\ <<UE(p.chroma_format_idc)>> \in Seq(CodeSet)
        /\ <<U(1, p.separate_colour_plane_flag)>> \in Seq(CodeSet)
    BY <1>4 DEF SpsNames
  <2>2. <<UE(Free), UE(Free), U(1, Free), U(1, 0)>> \in Seq(CodeSet)
    BY <1>3, <1>5
  <2>3. If(p.chroma_format_idc = 3, <<U(1, p.separate_colour_plane_flag)>>)
          \in Seq(CodeSet)
    BY <2>1, IfTyped
  <2> QED BY <2>1, <2>2, <2>3, JoinTyped DEF HighData
<1>8. PocData(p) \in Seq(CodeSet)
  <2>1. <<UE(p.log2_max_poc_lsb)>> \in Seq(CodeSet)
    BY <1>4 DEF SpsNames
  <2>2. U(1, p.delta_pic_order_always_zero_flag) \in CodeSet
        /\ UE(p.cycle) \in CodeSet
    BY <1>2 DEF SpsNames
  <2>3. <<U(1, p.delta_pic_order_always_zero_flag), SE, SE, UE(p.cycle)>>
          \in Seq(CodeSet)
    BY <1>3, <2>2
  <2>4. /\ If(p.poc_type = 0, <<UE(p.log2_max_poc_lsb)>>) \in Seq(CodeSet)
        /\ If(p.poc_type = 1,
              <<U(1, p.delta_pic_order_always_zero_flag), SE, SE, UE(p.cycle)>>
              \o [k \in 1 .. p.cycle |-> SE]) \in Seq(CodeSet)
    BY <1>6, <2>1, <2>3, IfTyped, JoinTyped
  <2> QED BY <2>4, JoinTyped DEF PocData
<1>9. /\ HrdData(p.nal_cpb_cnt) \in Seq(CodeSet)
      /\ HrdData(p.vcl_cpb_cnt) \in Seq(CodeSet)
  BY <1>1, HrdTyped DEF SpsNames
<1>10. AspectData(p) \in Seq(CodeSet)
  <2>1. <<U(8, p.sar)>> \in Seq(CodeSet)
    BY <1>4 DEF SpsNames
  <2>2. If(p.sar = 255, <<U(16, Free), U(16, Free)>>) \in Seq(CodeSet)
    BY PlainTyped, IfTyped
  <2> QED BY <2>1, <2>2, JoinTyped DEF AspectData
<1>11. VideoData(p) \in Seq(CodeSet)
  <2>1. U(1, p.colour) \in CodeSet
    BY <1>2 DEF SpsNames
  <2>2. <<U(3, Free), U(1, Free), U(1, p.colour)>> \in Seq(CodeSet)
    BY <1>3, <1>5, <2>1
  <2>3. If(p.colour = 1, <<U(8, Free), U(8, Free), U(8, Free)>>)
          \in Seq(CodeSet)
    BY PlainTyped, IfTyped
  <2> QED BY <2>2, <2>3, JoinTyped DEF VideoData
<1>12. <<U(32, p.num_units_in_tick), U(32, p.time_scale), U(1, Free)>>
         \in Seq(CodeSet)
  <2>1. U(32, p.num_units_in_tick) \in CodeSet /\ U(32, p.time_scale) \in CodeSet
    BY <1>2 DEF SpsNames
  <2> QED BY <1>3, <2>1
<1>13. <<U(1, Free), UE(Free), UE(Free), UE(Free), UE(Free),
         UE(p.num_reorder_frames), UE(Free)>> \in Seq(CodeSet)
  <2>1. UE(p.num_reorder_frames) \in CodeSet
    BY <1>2 DEF SpsNames
  <2> QED BY <1>3, <2>1
<1> QED BY <1>4, <1>6, <1>7, <1>8, <1>9, <1>10, <1>11, <1>12, <1>13

LEMMA VuiTyped ==
  ASSUME NEW p \in SpsParameters
  PROVE  VuiData(p) \in Seq(CodeSet)
<1> DEFINE a == <<U(1, p.aspect)>>
           b == If(p.aspect = 1, AspectData(p))
           c == <<U(1, p.overscan)>>
           d == If(p.overscan = 1, <<U(1, Free)>>)
           e == <<U(1, p.video_signal)>>
           f == If(p.video_signal = 1, VideoData(p))
           g == <<U(1, p.chroma_loc)>>
           h == If(p.chroma_loc = 1, <<UE(Free), UE(Free)>>)
           i == <<U(1, p.timing)>>
           j == If(p.timing = 1, <<U(32, p.num_units_in_tick),
                                   U(32, p.time_scale), U(1, Free)>>)
           k == <<U(1, p.nal_hrd)>>
           l == If(p.nal_hrd = 1, HrdData(p.nal_cpb_cnt))
           m == <<U(1, p.vcl_hrd)>>
           n == If(p.vcl_hrd = 1, HrdData(p.vcl_cpb_cnt))
           o == If(p.nal_hrd = 1 \/ p.vcl_hrd = 1, <<U(1, Free)>>)
           q == <<U(1, Free), U(1, p.bitstream_restriction_flag)>>
           r == If(p.bitstream_restriction_flag = 1,
                   <<U(1, Free), UE(Free), UE(Free), UE(Free), UE(Free),
                     UE(p.num_reorder_frames), UE(Free)>>)
<1>1. /\ a \in Seq(CodeSet) /\ c \in Seq(CodeSet) /\ e \in Seq(CodeSet)
      /\ g \in Seq(CodeSet) /\ i \in Seq(CodeSet) /\ k \in Seq(CodeSet)
      /\ m \in Seq(CodeSet)
  BY TablesTyped DEF SpsNames
<1>2. b \in Seq(CodeSet) /\ f \in Seq(CodeSet)
  BY TablesTyped, IfTyped
<1>3. d \in Seq(CodeSet) /\ h \in Seq(CodeSet) /\ o \in Seq(CodeSet)
  BY PlainTyped, IfTyped
<1>4. j \in Seq(CodeSet) /\ r \in Seq(CodeSet)
  BY TablesTyped, IfTyped
<1>5. l \in Seq(CodeSet) /\ n \in Seq(CodeSet)
  BY TablesTyped, IfTyped
<1>6. q \in Seq(CodeSet)
  <2>1. p.bitstream_restriction_flag \in Int
    BY Parameters DEF SpsNames
  <2>2. U(1, Free) \in CodeSet /\ U(1, p.bitstream_restriction_flag) \in CodeSet
    BY <2>1, CodesTyped
  <2> QED BY <2>2
<1>7. VuiData(p) = a \o b \o c \o d \o e \o f \o g \o h \o i \o j \o k \o l \o m
                   \o n \o o \o q \o r
  BY DEF VuiData
<1> HIDE DEF a, b, c, d, e, f, g, h, i, j, k, l, m, n, o, q, r
<1>8. a \o b \o c \o d \o e \o f \o g \o h \in Seq(CodeSet)
  BY <1>1, <1>2, <1>3, JoinTyped
<1>9. (a \o b \o c \o d \o e \o f \o g \o h) \o i \o j \o k \o l \in Seq(CodeSet)
  BY <1>1, <1>4, <1>5, <1>8, JoinTyped
<1>10. (a \o b \o c \o d \o e \o f \o g \o h \o i \o j \o k \o l) \o m \o n \o o
         \o q \o r \in Seq(CodeSet)
  BY <1>1, <1>3, <1>4, <1>5, <1>6, <1>9, JoinTyped
<1> QED BY <1>7, <1>10

(* What hangs on an element is a sequence of codes.                        *)
LEMMA UnderTyped ==
  ASSUME NEW p \in SpsParameters, NEW name, name # "field_pic"
  PROVE  Under(p, name) \in Seq(CodeSet)
<1> USE PlainTyped, TablesTyped, IfTyped
<1>1. CASE name = "sps_id"
  BY <1>1 DEF Under
<1>2. CASE name = "chroma_format_idc"
  <2>1. <<U(1, p.separate_colour_plane_flag)>> \in Seq(CodeSet)
    BY DEF SpsNames
  <2> QED BY <1>2, <2>1 DEF Under
<1>3. CASE name = "poc_type"
  BY <1>3 DEF Under
<1>4. CASE name = "cycle"
  BY <1>4 DEF Under
<1>5. CASE name = "frame_mbs_only_flag"
  BY <1>5 DEF Under
<1>6. CASE name = "crop"
  BY <1>6 DEF Under
<1>7. CASE name = "vui"
  BY <1>7, VuiTyped DEF Under
<1>8. CASE name = "aspect"
  BY <1>8 DEF Under
<1>9. CASE name = "sar"
  BY <1>9 DEF Under
<1>10. CASE name = "overscan"
  BY <1>10 DEF Under
<1>11. CASE name = "video_signal"
  BY <1>11 DEF Under
<1>12. CASE name = "colour"
  BY <1>12 DEF Under
<1>13. CASE name = "chroma_loc"
  BY <1>13 DEF Under
<1>14. CASE name = "timing"
  BY <1>14 DEF Under
<1> DEFINE nal == If(p.nal_hrd = 1, HrdData(p.nal_cpb_cnt))
           flag == <<U(1, p.vcl_hrd)>>
           vcl == If(p.vcl_hrd = 1, HrdData(p.vcl_cpb_cnt))
           delay == If(p.nal_hrd = 1 \/ p.vcl_hrd = 1, <<U(1, Free)>>)
           alone == If(p.vcl_hrd = 1, <<U(1, Free)>>)
<1>15. /\ nal \in Seq(CodeSet) /\ vcl \in Seq(CodeSet)
       /\ delay \in Seq(CodeSet) /\ alone \in Seq(CodeSet)
       /\ flag \in Seq(CodeSet)
  <2>1. flag \in Seq(CodeSet)
    BY DEF SpsNames
  <2> QED BY <2>1
<1>16. CASE name = "nal_hrd"
  <2>1. Under(p, name) = nal \o flag \o vcl \o delay
    BY <1>16 DEF Under
  <2> HIDE DEF nal, flag, vcl, delay
  <2> QED BY <1>15, <2>1, JoinTyped
<1>17. CASE name = "vcl_hrd"
  BY <1>17 DEF Under
<1>18. CASE name = "vcl_hrd_alone"
  <2>1. Under(p, name) = vcl \o alone
    BY <1>18 DEF Under
  <2> HIDE DEF vcl, alone
  <2> QED BY <1>15, <2>1, JoinTyped
<1>19. CASE name \in {"nal_cpb_cnt", "vcl_cpb_cnt"}
  <2>1. p.nal_cpb_cnt \in Nat /\ p.vcl_cpb_cnt \in Nat
    BY Parameters DEF SpsNames
  <2> QED BY <1>19, <2>1, HrdTyped DEF Under
<1>20. CASE name = "bitstream_restriction_flag"
  BY <1>20 DEF Under
<1>21. CASE name \notin
         {"sps_id", "chroma_format_idc", "poc_type", "cycle",
          "frame_mbs_only_flag", "crop", "vui", "aspect", "sar", "overscan",
          "video_signal", "colour", "chroma_loc", "timing", "nal_hrd",
          "vcl_hrd", "vcl_hrd_alone", "nal_cpb_cnt", "vcl_cpb_cnt",
          "bitstream_restriction_flag", "field_pic"}
  <2>1. Under(p, name) = <<>>
    BY <1>21 DEF Under
  <2> QED BY <2>1
<1> QED BY <1>1, <1>2, <1>3, <1>4, <1>5, <1>6, <1>7, <1>8, <1>9, <1>10, <1>11,
           <1>12, <1>13, <1>14, <1>16, <1>17, <1>18, <1>19, <1>20, <1>21

(* What no table hangs anything on.                                        *)
Leaves ==
  {"x", "transform_bypass", "profile_idc", "separate_colour_plane_flag",
   "log2_max_frame_num", "log2_max_poc_lsb",
   "delta_pic_order_always_zero_flag", "mb_width", "mb_height",
   "num_units_in_tick", "time_scale", "num_reorder_frames",
   "i_slice_type", "i_frame_num", "i_pic_order_cnt_lsb"}

(* Neither the standard nor the code lets anything follow a leaf.          *)
LEMMA LeavesBare ==
  ASSUME NEW x, NEW name \in Leaves
  PROVE  Under(x, name) = <<>> /\ \A v : Follow(name, v) = <<>>
<1>1. name \notin
         {"sps_id", "chroma_format_idc", "poc_type", "cycle",
          "frame_mbs_only_flag", "crop", "vui", "aspect", "sar", "overscan",
          "video_signal", "colour", "chroma_loc", "timing", "nal_hrd",
          "vcl_hrd", "vcl_hrd_alone", "nal_cpb_cnt", "vcl_cpb_cnt",
          "bitstream_restriction_flag", "field_pic"}
  BY DEF Leaves
<1>2. Under(x, name) = <<>>
  BY <1>1 DEF Under
<1>3. \A v : Follow(name, v) = <<>>
  BY <1>1 DEF Follow
<1> QED BY <1>2, <1>3

-----------------------------------------------------------------------------
(* Marks: where codes stand. Branches: where elements stand with all that  *)
(* hangs on them, when the header x has been written.                      *)
Marks(b) ==
  {t \in CodeSet \X Nat \X Nat : Stands(b, t[2], t[3], t[1])}

Val(x, name) ==
  IF name \in {"x", "transform_bypass"} THEN Free
  ELSE IF name = "vcl_hrd_alone" THEN x["vcl_hrd"] ELSE x[name]

Known(x, name) ==
  \/ name \in {"x", "transform_bypass"}
  \/ name \in DOMAIN x
  \/ name = "vcl_hrd_alone" /\ "vcl_hrd" \in DOMAIN x

CodeOf(x, e) == [code |-> e.code, bits |-> e.bits, value |-> Val(x, e.name)]

Branches(b, x) ==
  {t \in Elements \X Nat \X Nat :
     /\ Known(x, t[1].name)
     /\ \E m \in Nat : /\ <<CodeOf(x, t[1]), t[2], m>> \in Marks(b)
                       /\ Path(Marks(b), Under(x, t[1].name), m, t[3])}

Chain(b, x, q, i, j) == Path(Branches(b, x), q, i, j)

Headers == SpsParameters \cup SliceParameters

(* An element of a header has a value and a table under it.                *)
LEMMA KnownTyped ==
  ASSUME NEW x \in Headers, NEW name, Known(x, name)
  PROVE  Val(x, name) \in Int /\ Under(x, name) \in Seq(CodeSet)
<1>1. CASE x \in SpsParameters
  <2>1. DOMAIN x = SpsNames /\ \A f \in SpsNames : x[f] \in Nat
    BY <1>1, Parameters
  <2>2. "vcl_hrd" \in SpsNames /\ "field_pic" \notin SpsNames
    BY DEF SpsNames
  <2>3. Val(x, name) \in Int
    BY <2>1, <2>2 DEF Val, Known, Free
  <2>4. name # "field_pic"
    BY <2>1, <2>2 DEF Known
  <2> QED BY <1>1, <2>3, <2>4, UnderTyped
<1>2. CASE x \in SliceParameters
  <2>1. /\ DOMAIN x = SliceFields \cup {"field_pic"}
        /\ \A f \in SliceFields \cup {"field_pic"} : x[f] \in Nat
    BY <1>2, SliceValues
  <2>2. "vcl_hrd" \notin SliceFields \cup {"field_pic"}
    BY DEF SliceFields
  <2>3. name \in {"x", "transform_bypass"} \cup SliceFields \cup {"field_pic"}
    BY <2>1, <2>2 DEF Known
  <2>4. name # "vcl_hrd_alone"
    BY <2>3 DEF SliceFields
  <2>5. Val(x, name) \in Int
    BY <2>1, <2>3, <2>4 DEF Val, Free
  <2>6. CASE name = "field_pic"
    <3>1. Under(x, name) = If(x.field_pic = 1, <<U(1, Free)>>)
      BY <2>6 DEF Under
    <3>2. <<U(1, Free)>> \in Seq(CodeSet)
      BY PlainTyped
    <3>3. If(x.field_pic = 1, <<U(1, Free)>>) \in Seq(CodeSet)
      BY <3>2, IfTyped
    <3> QED BY <2>5, <3>1, <3>3
  <2>7. CASE name # "field_pic"
    <3>1. name \in Leaves
      BY <2>3, <2>7 DEF Leaves, SliceFields
    <3> QED BY <2>5, <3>1, LeavesBare, PlainTyped
  <2> QED BY <2>6, <2>7
<1> QED BY <1>1, <1>2 DEF Headers

(* Membership of Marks and Branches, spelled out.                          *)
LEMMA MarkIs ==
  ASSUME NEW b, NEW c, NEW i, NEW j
  PROVE  <<c, i, j>> \in Marks(b)
           <=> c \in CodeSet /\ i \in Nat /\ j \in Nat /\ Stands(b, i, j, c)
BY DEF Marks

LEMMA MarksUpward ==
  ASSUME NEW b
  PROVE  Upward(Marks(b))
<1> SUFFICES ASSUME NEW c, NEW i, NEW j, <<c, i, j>> \in Marks(b)
             PROVE  i <= j
  BY DEF Upward
<1>1. c \in CodeSet /\ i \in Nat /\ j \in Nat /\ Stands(b, i, j, c)
  BY MarkIs
<1>2. c.bits \in Nat
  BY <1>1 DEF CodeSet
<1>3. CASE c.code = "u"
  BY <1>1, <1>2, <1>3 DEF Stands
<1>4. CASE c.code # "u"
  <2>1. PICK z \in 0 .. 30 : j = i + 2 * z + 1
    BY <1>1, <1>4 DEF Stands
  <2> QED BY <1>1, <2>1
<1> QED BY <1>3, <1>4

LEMMA BranchIs ==
  ASSUME NEW b, NEW x, NEW e, NEW i, NEW j
  PROVE  <<e, i, j>> \in Branches(b, x)
           <=> /\ e \in Elements /\ i \in Nat /\ j \in Nat /\ Known(x, e.name)
               /\ \E m \in Nat : /\ <<CodeOf(x, e), i, m>> \in Marks(b)
                                 /\ Path(Marks(b), Under(x, e.name), m, j)
<1> DEFINE t == <<e, i, j>>
           Good(y) ==
             /\ Known(x, y[1].name)
             /\ \E m \in Nat : /\ <<CodeOf(x, y[1]), y[2], m>> \in Marks(b)
                               /\ Path(Marks(b), Under(x, y[1].name), m, y[3])
<1>1. t[1] = e /\ t[2] = i /\ t[3] = j
  OBVIOUS
<1>2. t \in Elements \X Nat \X Nat <=> e \in Elements /\ i \in Nat /\ j \in Nat
  OBVIOUS
<1>3. t \in Branches(b, x) <=> t \in Elements \X Nat \X Nat /\ Good(t)
  <2> HIDE DEF t
  <2> QED BY DEF Branches
<1>4. Good(t) <=> /\ Known(x, e.name)
                  /\ \E m \in Nat : /\ <<CodeOf(x, e), i, m>> \in Marks(b)
                                    /\ Path(Marks(b), Under(x, e.name), m, j)
  <2> HIDE DEF t
  <2> QED BY <1>1
<1> HIDE DEF Good
<1> QED BY <1>2, <1>3, <1>4

(* No element ends in front of where it starts.                            *)
LEMMA BranchesUpward ==
  ASSUME NEW b, NEW x \in Headers
  PROVE  Upward(Branches(b, x))
<1> SUFFICES ASSUME NEW e, NEW i, NEW j, <<e, i, j>> \in Branches(b, x)
             PROVE  i <= j
  BY DEF Upward
<1>1. /\ i \in Nat /\ j \in Nat /\ Known(x, e.name)
      /\ \E m \in Nat : /\ <<CodeOf(x, e), i, m>> \in Marks(b)
                        /\ Path(Marks(b), Under(x, e.name), m, j)
  BY BranchIs
<1>2. PICK m \in Nat : /\ <<CodeOf(x, e), i, m>> \in Marks(b)
                       /\ Path(Marks(b), Under(x, e.name), m, j)
  BY <1>1
<1>3. i <= m
  BY <1>2, MarksUpward DEF Upward
<1>4. m <= j
  <2>1. Under(x, e.name) \in Seq(CodeSet)
    BY <1>1, KnownTyped
  <2> QED BY <1>2, <2>1, MarksUpward, PathRises
<1> QED BY <1>1, <1>2, <1>3, <1>4

(* The code c of the tables is that of the element e.                      *)
Matches(x, c, e) ==
  /\ e \in Elements /\ Known(x, e.name)
  /\ c.code = e.code /\ c.bits = e.bits /\ Val(x, e.name) \in {c.value, Free}

(* A code with its table is a branch, a bare code a leaf.                  *)
LEMMA Branch ==
  ASSUME NEW b, NEW x \in Headers, NEW c, NEW e, Matches(x, c, e),
         NEW i, NEW m, NEW j, <<c, i, m>> \in Marks(b),
         Path(Marks(b), Under(x, e.name), m, j)
  PROVE  <<e, i, j>> \in Branches(b, x)
<1>1. c \in CodeSet /\ i \in Nat /\ m \in Nat /\ Stands(b, i, m, c)
  BY MarkIs
<1>2. Val(x, e.name) \in Int /\ Under(x, e.name) \in Seq(CodeSet)
  BY KnownTyped DEF Matches
<1>3. j \in Nat
  BY <1>2, PathEnds
<1> DEFINE d == CodeOf(x, e)
<1>4. d.code = c.code /\ d.bits = c.bits /\ d.value \in {c.value, Free}
  BY DEF CodeOf, Matches
<1>5. d \in CodeSet
  BY <1>1, <1>2 DEF CodeSet, CodeOf, Matches
<1> HIDE DEF d
<1>6. Stands(b, i, m, d)
  <2>1. d.value # Free => d.value = c.value
    BY <1>4
  <2>2. CASE c.code = "u"
    BY <1>1, <1>4, <2>1, <2>2 DEF Stands
  <2>3. CASE c.code # "u"
    <3>1. PICK z \in 0 .. 30 :
            /\ m = i + 2 * z + 1
            /\ b[i + z + 1] = 1 /\ \A k \in 1 .. z : b[i + k] = 0
            /\ c.value # Free => Binary(b, i + z + 1, z, c.value + 1 - 2 ^ z)
      BY <1>1, <2>3 DEF Stands
    <3>2. d.value # Free => Binary(b, i + z + 1, z, d.value + 1 - 2 ^ z)
      <4>1. CASE d.value = Free
        BY <4>1
      <4>2. CASE d.value # Free
        <5>1. d.value = c.value /\ c.value # Free
          BY <2>1, <4>2
        <5> QED BY <3>1, <5>1
      <4> QED BY <4>1, <4>2
    <3>3. d.code # "u"
      BY <1>4, <2>3
    <3> QED BY <3>1, <3>2, <3>3 DEF Stands
  <2> QED BY <2>2, <2>3
<1>7. <<d, i, m>> \in Marks(b)
  BY <1>1, <1>5, <1>6, MarkIs
<1> QED BY <1>1, <1>3, <1>7, BranchIs DEF Matches, d

LEMMA Leaf ==
  ASSUME NEW b, NEW x \in Headers, NEW c, NEW e, Matches(x, c, e),
         e.name \in Leaves, NEW i, NEW j, <<c, i, j>> \in Marks(b)
  PROVE  <<e, i, j>> \in Branches(b, x)
<1>1. j \in Nat
  BY MarkIs
<1>2. Path(Marks(b), Under(x, e.name), j, j)
  BY <1>1, LeavesBare, PathNone
<1> QED BY <1>2, Branch

(* A table on which nothing hangs is read element by element.              *)
LEMMA LeafChain ==
  ASSUME NEW b, NEW x \in Headers, NEW q \in Seq(CodeSet),
         NEW els \in Seq(Elements), Len(els) = Len(q),
         \A k \in 1 .. Len(q) : Matches(x, q[k], els[k]) /\ els[k].name \in Leaves,
         NEW i, NEW j, Path(Marks(b), q, i, j)
  PROVE  Chain(b, x, els, i, j)
<1>1. \A k \in 1 .. Len(q), m, n \in Nat :
        n <= j /\ <<q[k], m, n>> \in Marks(b) => <<els[k], m, n>> \in Branches(b, x)
  BY Leaf
<1> QED BY <1>1, MarksUpward, PathSame DEF Chain

(* A path of one edge is that edge.                                        *)
LEMMA PathOneIs ==
  ASSUME NEW R, NEW e, NEW i, NEW j, Path(R, <<e>>, i, j)
  PROVE  <<e, i, j>> \in R
<1>1. <<e>> \in Seq({e}) /\ <<e>> # <<>> /\ Head(<<e>>) = e /\ Tail(<<e>>) = <<>>
  OBVIOUS
<1>2. PICK m \in Nat : <<e, i, m>> \in R /\ Path(R, <<>>, m, j)
  BY <1>1, PathFirst
<1> QED BY <1>2, PathNone

(* One element with what hangs on it.                                      *)
LEMMA OneChain ==
  ASSUME NEW b, NEW x \in Headers, NEW c, NEW e, Matches(x, c, e),
         NEW i, NEW m, NEW j, Path(Marks(b), <<c>>, i, m),
         Path(Marks(b), Under(x, e.name), m, j)
  PROVE  Chain(b, x, <<e>>, i, j)
<1>1. <<c, i, m>> \in Marks(b)
  BY PathOneIs
<1>2. <<e, i, j>> \in Branches(b, x)
  BY <1>1, Branch
<1> QED BY <1>2, BranchIs, PathOne DEF Chain

(* An optional part: the code reads it when the standard writes it.        *)
LEMMA WhenChain ==
  ASSUME NEW b, NEW x \in Headers, NEW condition, NEW condition2,
         condition <=> condition2, NEW q \in Seq(CodeSet), NEW els,
         NEW i, NEW j, Path(Marks(b), If(condition, q), i, j),
         condition /\ Path(Marks(b), q, i, j) => Chain(b, x, els, i, j)
  PROVE  Chain(b, x, When(condition2, els), i, j)
<1>1. CASE condition
  BY <1>1 DEF If, When
<1>2. CASE ~ condition
  <2>1. If(condition, q) = <<>> /\ When(condition2, els) = <<>>
    BY <1>2 DEF If, When
  <2>2. i \in Nat
    BY IfTyped, PathEnds
  <2>3. j = i
    BY <2>1, <2>2, PathNone
  <2> QED BY <2>1, <2>2, <2>3, PathNone DEF Chain
<1> QED BY <1>1, <1>2

(* Chains are put together as their elements are.                          *)
LEMMA ChainCat ==
  ASSUME NEW b, NEW x, NEW q \in Seq(Elements), NEW r \in Seq(Elements),
         NEW i, NEW m, NEW j, Chain(b, x, q, i, m), Chain(b, x, r, m, j)
  PROVE  Chain(b, x, q \o r, i, j)
BY PathCat DEF Chain

(* Sequences with the same items are the same; tuples as joins.            *)
LEMMA SameSeq ==
  ASSUME NEW S, NEW q \in Seq(S), NEW r \in Seq(S), Len(q) = Len(r),
         \A k \in 1 .. Len(q) : q[k] = r[k]
  PROVE  q = r
OBVIOUS

LEMMA Tuple2 ==
  ASSUME NEW S, NEW a \in S, NEW b \in S
  PROVE  <<a>> \o <<b>> = <<a, b>>
<1> DEFINE q == <<a>> \o <<b>>
           r == <<a, b>>
<1>1. q \in Seq(S) /\ r \in Seq(S) /\ Len(q) = 2 /\ Len(r) = 2
  OBVIOUS
<1>2. q[1] = r[1] /\ q[2] = r[2]
  OBVIOUS
<1> HIDE DEF q, r
<1>3. q = r
  BY <1>1, <1>2, SameSeq
<1> QED BY <1>3 DEF q, r

LEMMA Tuple3 ==
  ASSUME NEW S, NEW a \in S, NEW b \in S, NEW c \in S
  PROVE  <<a, b>> \o <<c>> = <<a, b, c>>
<1> DEFINE q == <<a, b>> \o <<c>>
           r == <<a, b, c>>
<1>1. q \in Seq(S) /\ r \in Seq(S) /\ Len(q) = 3 /\ Len(r) = 3
  OBVIOUS
<1>2. q[1] = r[1] /\ q[2] = r[2] /\ q[3] = r[3]
  OBVIOUS
<1> HIDE DEF q, r
<1>3. q = r
  BY <1>1, <1>2, SameSeq
<1> QED BY <1>3 DEF q, r

LEMMA Tuple4 ==
  ASSUME NEW S, NEW a \in S, NEW b \in S, NEW c \in S, NEW d \in S
  PROVE  <<a, b, c>> \o <<d>> = <<a, b, c, d>>
<1> DEFINE q == <<a, b, c>> \o <<d>>
           r == <<a, b, c, d>>
<1>1. q \in Seq(S) /\ r \in Seq(S) /\ Len(q) = 4 /\ Len(r) = 4
  OBVIOUS
<1>2. q[1] = r[1] /\ q[2] = r[2] /\ q[3] = r[3] /\ q[4] = r[4]
  OBVIOUS
<1> HIDE DEF q, r
<1>3. q = r
  BY <1>1, <1>2, SameSeq
<1> QED BY <1>3 DEF q, r

(* Elements whose value is not used match any code of their kind.          *)
LEMMA FreeMatches ==
  ASSUME NEW x \in Headers
  PROVE  /\ \A n \in Nat : \A v : Matches(x, U(n, v), u(n, "x"))
         /\ \A v : Matches(x, UE(v), ue("x"))
         /\ Matches(x, SE, se)
         /\ \A v : Matches(x, U(1, v), u(1, "transform_bypass"))
<1>1. /\ \A n \in Nat : u(n, "x") \in Elements
      /\ ue("x") \in Elements /\ se \in Elements
      /\ u(1, "transform_bypass") \in Elements
  BY Codes DEF Names
<1>2. /\ Known(x, "x") /\ Known(x, "transform_bypass")
      /\ Val(x, "x") = Free /\ Val(x, "transform_bypass") = Free
  BY DEF Known, Val
<1> QED BY <1>1, <1>2 DEF Matches, U, UE, SE, u, ue, se

(* Elements named after a parameter match the code that carries it.        *)
LEMMA NamedMatches ==
  ASSUME NEW p \in SpsParameters,
         NEW f \in SpsNames \ {"separate_colour_plane_flag"}
  PROVE  /\ Known(p, f) /\ Val(p, f) = p[f]
         /\ \A n \in Nat : Matches(p, U(n, p[f]), u(n, f))
         /\ Matches(p, UE(p[f]), ue(f))
<1>1. f \in Names
  BY DEF SpsNames, Names, SpsFields
<1>2. /\ \A n \in Nat : u(n, f) \in Elements
      /\ ue(f) \in Elements
  BY <1>1, Codes
<1>3. Known(p, f)
  BY Parameters DEF Known
<1>4. Val(p, f) = p[f]
  <2>1. f \notin {"x", "transform_bypass"} /\ f # "vcl_hrd_alone"
    BY DEF SpsNames
  <2> QED BY <2>1 DEF Val
<1> QED BY <1>2, <1>3, <1>4 DEF Matches, U, UE, u, ue

(* The fields of the high profiles, the order count types, the offsets of  *)
(* a cycle and the entries of an HRD table, each as the code reads it.     *)
LEMMA HighChain ==
  ASSUME NEW b, NEW p \in SpsParameters, NEW i, NEW j,
         Path(Marks(b), HighData(p), i, j)
  PROVE  Chain(b, p, HighProfile, i, j)
<1> DEFINE c == UE(p.chroma_format_idc)
           q == If(p.chroma_format_idc = 3, <<U(1, p.separate_colour_plane_flag)>>)
           r == <<UE(Free), UE(Free), U(1, Free), U(1, 0)>>
           e == ue("chroma_format_idc")
           els == <<ue("x"), ue("x"), u(1, "transform_bypass"), u(1, "x")>>
<1>1. p \in Headers
  BY DEF Headers
<1>2. <<c>> \in Seq(CodeSet) /\ q \in Seq(CodeSet) /\ r \in Seq(CodeSet)
  <2>1. <<c>> \in Seq(CodeSet) /\ <<U(1, p.separate_colour_plane_flag)>> \in Seq(CodeSet)
    BY TablesTyped DEF SpsNames
  <2>2. UE(Free) \in CodeSet /\ U(1, Free) \in CodeSet /\ U(1, 0) \in CodeSet
    BY CodesTyped
  <2>3. q \in Seq(CodeSet)
    BY <2>1, IfTyped
  <2>4. r \in Seq(CodeSet)
    BY <2>2
  <2> QED BY <2>1, <2>3, <2>4
<1>3. HighData(p) = <<c>> \o q \o r /\ HighProfile = <<e>> \o els
  BY DEF HighData, HighProfile
<1>4. e \in Elements /\ els \in Seq(Elements)
  <2>1. /\ e \in Elements /\ ue("x") \in Elements
        /\ u(1, "transform_bypass") \in Elements /\ u(1, "x") \in Elements
    BY Codes DEF Names
  <2> QED BY <2>1
<1>5. Matches(p, c, e) /\ Under(p, e.name) = q
  <2>1. Matches(p, c, e)
    BY NamedMatches DEF SpsNames
  <2>2. e.name = "chroma_format_idc"
    BY DEF ue
  <2> HIDE DEF e
  <2> QED BY <2>1, <2>2 DEF Under
<1>6. /\ Len(els) = 4 /\ Len(r) = 4
      /\ \A k \in 1 .. 4 : Matches(p, r[k], els[k]) /\ els[k].name \in Leaves
  <2>1. /\ Matches(p, UE(Free), ue("x"))
        /\ Matches(p, U(1, Free), u(1, "transform_bypass"))
        /\ Matches(p, U(1, 0), u(1, "x"))
    BY <1>1, FreeMatches
  <2>2. /\ ue("x").name \in Leaves /\ u(1, "transform_bypass").name \in Leaves
        /\ u(1, "x").name \in Leaves
    BY DEF ue, u, Leaves
  <2> QED BY <2>1, <2>2
<1> HIDE DEF c, q, r, e, els
<1>7. PICK n \in Nat : /\ Path(Marks(b), <<c>> \o q, i, n)
                       /\ Path(Marks(b), r, n, j)
  <2>1. <<c>> \o q \in Seq(CodeSet)
    BY <1>2, JoinTyped
  <2> QED BY <1>2, <1>3, <2>1, PathSplit
<1>8. PICK m \in Nat : Path(Marks(b), <<c>>, i, m) /\ Path(Marks(b), q, m, n)
  BY <1>2, <1>7, PathSplit
<1>9. Chain(b, p, <<e>>, i, n)
  BY <1>1, <1>5, <1>8, OneChain
<1>10. Chain(b, p, els, n, j)
  BY <1>1, <1>2, <1>4, <1>6, <1>7, LeafChain
<1>11. <<e>> \in Seq(Elements)
  BY <1>4
<1> QED BY <1>3, <1>4, <1>9, <1>10, <1>11, ChainCat

LEMMA PocChain ==
  ASSUME NEW b, NEW p \in SpsParameters, NEW i, NEW j,
         Path(Marks(b), PocData(p), i, j)
  PROVE  Chain(b, p, Follow("poc_type", p.poc_type), i, j)
<1> DEFINE l == <<UE(p.log2_max_poc_lsb)>>
           c == UE(p.cycle)
           three == <<U(1, p.delta_pic_order_always_zero_flag), SE, SE>>
           all == [k \in 1 .. p.cycle |-> SE]
           t == (three \o <<c>>) \o all
           el == <<ue("log2_max_poc_lsb")>>
           e == ue("cycle")
           ethree == <<u(1, "delta_pic_order_always_zero_flag"), se, se>>
           et == ethree \o <<e>>
<1>1. p \in Headers
  BY DEF Headers
<1>2. /\ l \in Seq(CodeSet) /\ <<c>> \in Seq(CodeSet) /\ all \in Seq(CodeSet)
      /\ three \in Seq(CodeSet)
  <2>1. /\ l \in Seq(CodeSet) /\ <<c>> \in Seq(CodeSet) /\ all \in Seq(CodeSet)
    BY TablesTyped DEF SpsNames
  <2>2. p.delta_pic_order_always_zero_flag \in Int
    BY Parameters DEF SpsNames
  <2>3. U(1, p.delta_pic_order_always_zero_flag) \in CodeSet /\ SE \in CodeSet
    BY <2>2, CodesTyped
  <2> QED BY <2>1, <2>3
<1>3. /\ el \in Seq(Elements) /\ e \in Elements /\ ethree \in Seq(Elements)
  <2>1. /\ ue("log2_max_poc_lsb") \in Elements /\ e \in Elements
        /\ u(1, "delta_pic_order_always_zero_flag") \in Elements
        /\ se \in Elements
    BY Codes DEF Names, SpsFields
  <2> QED BY <2>1
<1>4. /\ PocData(p) = If(p.poc_type = 0, l) \o If(p.poc_type = 1, t)
      /\ Follow("poc_type", p.poc_type)
           = When(p.poc_type = 0, el) \o When(p.poc_type = 1, et)
  <2>1. three \o <<c>> = <<U(1, p.delta_pic_order_always_zero_flag), SE, SE, c>>
    <3> DEFINE f == U(1, p.delta_pic_order_always_zero_flag)
    <3> DEFINE T == {f, SE, c}
    <3>1. f \in T /\ SE \in T /\ c \in T
      OBVIOUS
    <3>2. three = <<f, SE, SE>>
      OBVIOUS
    <3> HIDE DEF f, c, three, T
    <3>3. <<f, SE, SE>> \o <<c>> = <<f, SE, SE, c>>
      BY <3>1, Tuple4
    <3>4. three \o <<c>> = <<f, SE, SE, c>>
      BY <3>2, <3>3
    <3> QED BY <3>4 DEF f
  <2>2. et = <<u(1, "delta_pic_order_always_zero_flag"), se, se, e>>
    <3> DEFINE f == u(1, "delta_pic_order_always_zero_flag")
    <3> DEFINE T == {f, se, e}
    <3>1. f \in T /\ se \in T /\ e \in T
      OBVIOUS
    <3>2. et = <<f, se, se>> \o <<e>>
      OBVIOUS
    <3> HIDE DEF f, e, et, T
    <3>3. <<f, se, se>> \o <<e>> = <<f, se, se, e>>
      BY <3>1, Tuple4
    <3>4. et = <<f, se, se, e>>
      BY <3>2, <3>3
    <3> QED BY <3>4 DEF f
  <2> HIDE DEF et
  <2>3. Follow("poc_type", p.poc_type)
           = When(p.poc_type = 0, el) \o When(p.poc_type = 1, et)
    BY <2>2 DEF Follow
  <2> QED BY <2>1, <2>3 DEF PocData
<1>5. Matches(p, c, e) /\ Under(p, e.name) = all
  <2>1. Matches(p, c, e)
    BY NamedMatches DEF SpsNames
  <2>2. e.name = "cycle"
    BY DEF ue
  <2> HIDE DEF e
  <2> QED BY <2>1, <2>2 DEF Under
<1>6. /\ Len(el) = 1 /\ Len(l) = 1
      /\ \A k \in 1 .. 1 : Matches(p, l[k], el[k]) /\ el[k].name \in Leaves
  <2>1. Matches(p, UE(p.log2_max_poc_lsb), ue("log2_max_poc_lsb"))
    BY NamedMatches DEF SpsNames
  <2>2. ue("log2_max_poc_lsb").name \in Leaves
    BY DEF ue, Leaves
  <2> QED BY <2>1, <2>2
<1>7. /\ Len(ethree) = 3 /\ Len(three) = 3
      /\ \A k \in 1 .. 3 : Matches(p, three[k], ethree[k]) /\ ethree[k].name \in Leaves
  <2>1. /\ Matches(p, U(1, p.delta_pic_order_always_zero_flag),
                      u(1, "delta_pic_order_always_zero_flag"))
    BY NamedMatches DEF SpsNames
  <2>2. Matches(p, SE, se)
    BY <1>1, FreeMatches
  <2>3. /\ u(1, "delta_pic_order_always_zero_flag").name \in Leaves
        /\ se.name \in Leaves
    BY DEF u, se, Leaves
  <2> QED BY <2>1, <2>2, <2>3
<1> HIDE DEF l, c, three, all, el, e, ethree
<1>8. t \in Seq(CodeSet) /\ three \o <<c>> \in Seq(CodeSet)
  BY <1>2, JoinTyped
<1>9. <<e>> \in Seq(Elements) /\ et \in Seq(Elements)
  BY <1>3
<1>10. /\ If(p.poc_type = 0, l) \in Seq(CodeSet)
       /\ If(p.poc_type = 1, t) \in Seq(CodeSet)
       /\ When(p.poc_type = 0, el) \in Seq(Elements)
       /\ When(p.poc_type = 1, et) \in Seq(Elements)
  BY <1>2, <1>3, <1>8, <1>9, IfTyped, WhenTyped
<1>11. PICK m \in Nat : /\ Path(Marks(b), If(p.poc_type = 0, l), i, m)
                        /\ Path(Marks(b), If(p.poc_type = 1, t), m, j)
  BY <1>4, <1>10, PathSplit
<1>12. Chain(b, p, When(p.poc_type = 0, el), i, m)
  <2>1. Path(Marks(b), l, i, m) => Chain(b, p, el, i, m)
    BY <1>1, <1>2, <1>3, <1>6, LeafChain
  <2> QED BY <1>1, <1>2, <1>11, <2>1, WhenChain
<1>13. Path(Marks(b), t, m, j) => Chain(b, p, et, m, j)
  <2>1. SUFFICES ASSUME Path(Marks(b), t, m, j) PROVE Chain(b, p, et, m, j)
    OBVIOUS
  <2>2. PICK n \in Nat : /\ Path(Marks(b), three \o <<c>>, m, n)
                         /\ Path(Marks(b), all, n, j)
    BY <1>2, <1>8, <2>1, PathSplit
  <2>3. PICK k \in Nat : /\ Path(Marks(b), three, m, k)
                         /\ Path(Marks(b), <<c>>, k, n)
    BY <1>2, <2>2, PathSplit
  <2>4. Chain(b, p, ethree, m, k)
    BY <1>1, <1>2, <1>3, <1>7, <2>3, LeafChain
  <2>5. Chain(b, p, <<e>>, k, j)
    BY <1>1, <1>5, <2>2, <2>3, OneChain
  <2> QED BY <1>3, <1>9, <2>4, <2>5, ChainCat
<1>14. Chain(b, p, When(p.poc_type = 1, et), m, j)
  BY <1>1, <1>8, <1>11, <1>13, WhenChain
<1> QED BY <1>4, <1>10, <1>12, <1>14, ChainCat

LEMMA CycleChain ==
  ASSUME NEW b, NEW p \in SpsParameters, NEW i, NEW j,
         Path(Marks(b), [k \in 1 .. p.cycle |-> SE], i, j)
  PROVE  Chain(b, p, Follow("cycle", p.cycle), i, j)
<1> DEFINE n == p.cycle
           q == [k \in 1 .. n |-> SE]
           els == [k \in 1 .. n |-> se]
<1>1. p \in Headers
  BY DEF Headers
<1>2. n \in Nat /\ n <= 255
  BY Parameters DEF SpsNames
<1>3. Follow("cycle", n) = els
  <2> HIDE DEF n
  <2>1. Follow("cycle", n)
          = When(n > 0, [k \in 1 .. IF n > 256 THEN 256 ELSE n |-> se])
    BY DEF Follow
  <2>2. (IF n > 256 THEN 256 ELSE n) = n
    BY <1>2
  <2>3. Follow("cycle", n) = IF n > 0 THEN els ELSE <<>>
    BY <2>1, <2>2 DEF When
  <2>4. n = 0 => els = <<>>
    OBVIOUS
  <2> HIDE DEF els
  <2> QED BY <1>2, <2>3, <2>4
<1>4. SE \in CodeSet /\ se \in Elements /\ Matches(p, SE, se) /\ se.name \in Leaves
  <2>1. se.name \in Leaves
    BY DEF se, Leaves
  <2> QED BY <1>1, <2>1, CodesTyped, Codes, FreeMatches
<1> HIDE DEF n
<1>5. /\ q \in Seq(CodeSet) /\ els \in Seq(Elements) /\ Len(q) = n /\ Len(els) = n
      /\ \A k \in 1 .. n : q[k] = SE /\ els[k] = se
  BY <1>2, <1>4
<1>6. Path(Marks(b), q, i, j)
  BY DEF n
<1> HIDE DEF q, els
<1>7. Chain(b, p, els, i, j)
  <2>1. \A k \in 1 .. Len(q) : Matches(p, q[k], els[k]) /\ els[k].name \in Leaves
    BY <1>4, <1>5
  <2>2. Len(els) = Len(q)
    BY <1>5
  <2> QED BY <1>1, <1>5, <1>6, <2>1, <2>2, LeafChain
<1> QED BY <1>3, <1>7 DEF n

LEMMA CpbChain ==
  ASSUME NEW b, NEW p \in SpsParameters, NEW n \in 0 .. 31, NEW i, NEW j,
         Path(Marks(b), HrdRest(n), i, j)
  PROVE  Chain(b, p, Cpb(n), i, j)
<1> DEFINE N == 3 * (n + 1)
           three == <<UE(Free), UE(Free), U(1, Free)>>
           q == <<U(4, Free), U(4, Free)>>
           r == [k \in 1 .. N |-> three[((k - 1) % 3) + 1]]
           t == <<U(5, Free), U(5, Free), U(5, Free), U(5, Free)>>
           eq == <<u(4, "x"), u(4, "x")>>
           er == [k \in 1 .. N |-> IF k % 3 = 0 THEN u(1, "x") ELSE ue("x")]
           et == <<u(5, "x"), u(5, "x"), u(5, "x"), u(5, "x")>>
<1>1. p \in Headers
  BY DEF Headers
<1>2. /\ Matches(p, U(4, Free), u(4, "x")) /\ Matches(p, U(5, Free), u(5, "x"))
      /\ Matches(p, U(1, Free), u(1, "x")) /\ Matches(p, UE(Free), ue("x"))
  BY <1>1, FreeMatches
<1>3. /\ u(4, "x").name \in Leaves /\ u(5, "x").name \in Leaves
      /\ u(1, "x").name \in Leaves /\ ue("x").name \in Leaves
  BY DEF u, ue, Leaves
<1>4. /\ u(4, "x") \in Elements /\ u(5, "x") \in Elements
      /\ u(1, "x") \in Elements /\ ue("x") \in Elements
  BY Codes DEF Names
<1>5. /\ U(4, Free) \in CodeSet /\ U(5, Free) \in CodeSet
      /\ U(1, Free) \in CodeSet /\ UE(Free) \in CodeSet
  BY CodesTyped
<1>6. N \in Nat
  OBVIOUS
<1>7. HrdRest(n) = q \o r \o t /\ Cpb(n) = eq \o er \o et
  <2>1. Plus1(n) = n + 1 /\ n + 1 > 0
    BY IntLimits DEF Plus1
  <2>2. When(Plus1(n) > 0, [k \in 1 .. 3 * Plus1(n) |->
                              IF k % 3 = 0 THEN u(1, "x") ELSE ue("x")]) = er
    BY <2>1 DEF When
  <2>3. Cpb(n) = eq \o When(Plus1(n) > 0, [k \in 1 .. 3 * Plus1(n) |->
                     IF k % 3 = 0 THEN u(1, "x") ELSE ue("x")]) \o et
    BY DEF Cpb
  <2>4. HrdRest(n) = q \o r \o t
    BY DEF HrdRest
  <2> HIDE DEF q, r, t, eq, er, et, N
  <2> QED BY <2>2, <2>3, <2>4
<1>8. /\ q \in Seq(CodeSet) /\ eq \in Seq(Elements) /\ Len(q) = 2 /\ Len(eq) = 2
      /\ \A k \in 1 .. 2 : Matches(p, q[k], eq[k]) /\ eq[k].name \in Leaves
  <2> HIDE DEF N
  <2> QED BY <1>2, <1>3, <1>4, <1>5
<1>9. /\ t \in Seq(CodeSet) /\ et \in Seq(Elements) /\ Len(t) = 4 /\ Len(et) = 4
      /\ \A k \in 1 .. 4 : Matches(p, t[k], et[k]) /\ et[k].name \in Leaves
  <2> HIDE DEF N
  <2> QED BY <1>2, <1>3, <1>4, <1>5
<1>10. ASSUME NEW k \in 1 .. N
       PROVE  LET c == three[((k - 1) % 3) + 1]
                  e == IF k % 3 = 0 THEN u(1, "x") ELSE ue("x")
              IN  /\ c \in CodeSet /\ e \in Elements
                  /\ Matches(p, c, e) /\ e.name \in Leaves
  <2>1. /\ three[1] = UE(Free) /\ three[2] = UE(Free) /\ three[3] = U(1, Free)
    OBVIOUS
  <2>2. \/ k % 3 = 0 /\ ((k - 1) % 3) + 1 = 3
        \/ k % 3 # 0 /\ ((k - 1) % 3) + 1 \in {1, 2}
    BY <1>6
  <2> HIDE DEF three, N
  <2> QED BY <1>2, <1>3, <1>4, <1>5, <2>1, <2>2
<1> HIDE DEF N, three
<1>11. /\ r \in Seq(CodeSet) /\ er \in Seq(Elements) /\ Len(r) = N /\ Len(er) = N
       /\ \A k \in 1 .. N : Matches(p, r[k], er[k]) /\ er[k].name \in Leaves
  <2> DEFINE C(k) == three[((k - 1) % 3) + 1]
             E(k) == IF k % 3 = 0 THEN u(1, "x") ELSE ue("x")
  <2>1. \A k \in 1 .. N : /\ C(k) \in CodeSet /\ E(k) \in Elements
                          /\ Matches(p, C(k), E(k)) /\ E(k).name \in Leaves
    BY <1>10
  <2>2. r = [k \in 1 .. N |-> C(k)] /\ er = [k \in 1 .. N |-> E(k)]
    OBVIOUS
  <2> HIDE DEF C, E, r, er
  <2>3. r \in Seq(CodeSet) /\ er \in Seq(Elements) /\ Len(r) = N /\ Len(er) = N
    BY <1>6, <2>1, <2>2
  <2>4. \A k \in 1 .. N : r[k] = C(k) /\ er[k] = E(k)
    BY <2>2
  <2> QED BY <2>1, <2>3, <2>4
<1> HIDE DEF q, r, t, eq, er, et
<1>12. PICK m \in Nat : Path(Marks(b), q \o r, i, m) /\ Path(Marks(b), t, m, j)
  <2>1. q \o r \in Seq(CodeSet)
    BY <1>8, <1>11, JoinTyped
  <2> QED BY <1>7, <1>9, <2>1, PathSplit
<1>13. PICK l \in Nat : Path(Marks(b), q, i, l) /\ Path(Marks(b), r, l, m)
  BY <1>8, <1>11, <1>12, PathSplit
<1>14. Chain(b, p, eq, i, l)
  BY <1>1, <1>8, <1>13, LeafChain
<1>15. Chain(b, p, er, l, m)
  BY <1>1, <1>11, <1>13, LeafChain
<1>16. Chain(b, p, et, m, j)
  BY <1>1, <1>9, <1>12, LeafChain
<1>17. eq \o er \in Seq(Elements)
  BY <1>8, <1>11
<1>18. Chain(b, p, eq \o er, i, m)
  BY <1>8, <1>11, <1>14, <1>15, ChainCat
<1> QED BY <1>7, <1>9, <1>16, <1>17, <1>18, ChainCat

(* Joining three sequences.                                                *)
LEMMA Assoc ==
  ASSUME NEW S, NEW q \in Seq(S), NEW r \in Seq(S), NEW t \in Seq(S)
  PROVE  (q \o r) \o t = q \o (r \o t)
OBVIOUS

(* A flag at the end of a table, with what hangs on it.                    *)
LEMMA FlagSplit ==
  ASSUME NEW b, NEW p \in SpsParameters,
         NEW f \in SpsNames \ {"separate_colour_plane_flag"},
         NEW q \in Seq(CodeSet), NEW r \in Seq(CodeSet), r = Under(p, f),
         NEW i, NEW j, Path(Marks(b), q \o <<U(1, p[f])>> \o r, i, j)
  PROVE  \E m \in Nat : /\ Path(Marks(b), q, i, m)
                        /\ Chain(b, p, <<u(1, f)>>, m, j)
<1> DEFINE c == U(1, p[f])
<1>1. p \in Headers
  BY DEF Headers
<1>2. <<c>> \in Seq(CodeSet)
  BY TablesTyped
<1>3. Matches(p, c, u(1, f)) /\ u(1, f).name = f
  BY NamedMatches DEF u
<1> HIDE DEF c
<1>4. q \o <<c>> \in Seq(CodeSet)
  BY <1>2, JoinTyped
<1>5. PICK n \in Nat : /\ Path(Marks(b), q \o <<c>>, i, n)
                       /\ Path(Marks(b), r, n, j)
  BY <1>4, PathSplit DEF c
<1>6. PICK m \in Nat : /\ Path(Marks(b), q, i, m)
                       /\ Path(Marks(b), <<c>>, m, n)
  BY <1>2, <1>5, PathSplit
<1>7. Chain(b, p, <<u(1, f)>>, m, j)
  BY <1>1, <1>3, <1>5, <1>6, OneChain
<1> QED BY <1>6, <1>7

(* cpb_cnt_minus1 and what follows it.                                     *)
LEMMA HrdChain ==
  ASSUME NEW b, NEW p \in SpsParameters, NEW f \in {"nal_cpb_cnt", "vcl_cpb_cnt"},
         NEW i, NEW j, Path(Marks(b), HrdData(p[f]), i, j)
  PROVE  Chain(b, p, Hrd(f), i, j)
<1>1. p \in Headers
  BY DEF Headers
<1>2. f \in SpsNames \ {"separate_colour_plane_flag"} /\ p[f] \in Nat
  BY Parameters DEF SpsNames
<1>3. /\ HrdRest(p[f]) \in Seq(CodeSet)
      /\ HrdData(p[f]) = <<UE(p[f])>> \o HrdRest(p[f])
  BY <1>2, HrdTyped
<1>4. Under(p, f) = HrdRest(p[f])
  BY DEF Under
<1>5. Matches(p, UE(p[f]), ue(f)) /\ ue(f).name = f /\ <<UE(p[f])>> \in Seq(CodeSet)
  BY <1>2, NamedMatches, TablesTyped DEF ue
<1>6. PICK m \in Nat : /\ Path(Marks(b), <<UE(p[f])>>, i, m)
                       /\ Path(Marks(b), HrdRest(p[f]), m, j)
  BY <1>3, <1>5, PathSplit
<1>7. Chain(b, p, <<ue(f)>>, i, j)
  BY <1>1, <1>4, <1>5, <1>6, OneChain
<1> QED BY <1>7 DEF Hrd

(* The code asks for the flag behind the HRD tables in three places, the   *)
(* standard in one.                                                        *)
LEMMA HrdFlags ==
  ASSUME NEW b, NEW p \in SpsParameters
  PROVE  /\ \A i, j : Path(Marks(b), Under(p, "vcl_hrd"), i, j) =>
              Chain(b, p, Follow("vcl_hrd", p.vcl_hrd), i, j)
         /\ \A i, j : Path(Marks(b), Under(p, "vcl_hrd_alone"), i, j) =>
              Chain(b, p, Follow("vcl_hrd_alone", p.vcl_hrd), i, j)
         /\ \A i, j : Path(Marks(b), Under(p, "nal_hrd"), i, j) =>
              Chain(b, p, Follow("nal_hrd", p.nal_hrd), i, j)
<1> DEFINE nal == If(p.nal_hrd = 1, HrdData(p.nal_cpb_cnt))
           flag == <<U(1, p.vcl_hrd)>>
           vcl == If(p.vcl_hrd = 1, HrdData(p.vcl_cpb_cnt))
           delay == If(p.nal_hrd = 1 \/ p.vcl_hrd = 1, <<U(1, Free)>>)
           alone == If(p.vcl_hrd = 1, <<U(1, Free)>>)
           x == <<u(1, "x")>>
<1>1. p \in Headers
  BY DEF Headers
<1>2. /\ <<U(1, Free)>> \in Seq(CodeSet) /\ flag \in Seq(CodeSet)
      /\ nal \in Seq(CodeSet) /\ vcl \in Seq(CodeSet) /\ delay \in Seq(CodeSet)
      /\ alone \in Seq(CodeSet) /\ HrdData(p.vcl_cpb_cnt) \in Seq(CodeSet)
      /\ HrdData(p.nal_cpb_cnt) \in Seq(CodeSet)
  <2>1. <<U(1, Free)>> \in Seq(CodeSet) /\ flag \in Seq(CodeSet)
    BY PlainTyped, TablesTyped DEF SpsNames
  <2>2. /\ nal \in Seq(CodeSet) /\ vcl \in Seq(CodeSet)
        /\ HrdData(p.vcl_cpb_cnt) \in Seq(CodeSet)
        /\ HrdData(p.nal_cpb_cnt) \in Seq(CodeSet)
    BY TablesTyped, IfTyped
  <2>3. delay \in Seq(CodeSet) /\ alone \in Seq(CodeSet)
    BY <2>1, IfTyped
  <2> QED BY <2>1, <2>2, <2>3
<1>3. /\ Under(p, "vcl_hrd") = vcl /\ Under(p, "vcl_hrd_alone") = vcl \o alone
      /\ Under(p, "nal_hrd") = nal \o flag \o vcl \o delay
  BY DEF Under
<1>4. /\ Follow("vcl_hrd", p.vcl_hrd) = When(p.vcl_hrd = 1, Hrd("vcl_cpb_cnt"))
      /\ Follow("vcl_hrd_alone", p.vcl_hrd)
           = When(p.vcl_hrd = 1, Hrd("vcl_cpb_cnt") \o x)
      /\ Follow("nal_hrd", p.nal_hrd)
           = IF p.nal_hrd = 1
             THEN Hrd("nal_cpb_cnt") \o <<u(1, "vcl_hrd"), u(1, "x")>>
             ELSE <<u(1, "vcl_hrd_alone")>>
  BY DEF Follow
<1>5. /\ Hrd("vcl_cpb_cnt") \in Seq(Elements) /\ Hrd("nal_cpb_cnt") \in Seq(Elements)
      /\ x \in Seq(Elements) /\ <<u(1, "vcl_hrd")>> \in Seq(Elements)
      /\ <<u(1, "vcl_hrd_alone")>> \in Seq(Elements)
      /\ u(1, "vcl_hrd_alone") \in Elements
  <2>1. /\ u(1, "x") \in Elements /\ u(1, "vcl_hrd") \in Elements
        /\ u(1, "vcl_hrd_alone") \in Elements /\ ue("nal_cpb_cnt") \in Elements
        /\ ue("vcl_cpb_cnt") \in Elements
    BY Codes DEF Names
  <2> QED BY <2>1 DEF Hrd
<1>6. /\ p.vcl_hrd = p["vcl_hrd"] /\ p.vcl_cpb_cnt = p["vcl_cpb_cnt"]
      /\ p.nal_cpb_cnt = p["nal_cpb_cnt"]
  OBVIOUS
<1>7. \A i, j : Path(Marks(b), <<U(1, Free)>>, i, j) => Chain(b, p, x, i, j)
  <2>1. Matches(p, U(1, Free), u(1, "x")) /\ u(1, "x").name \in Leaves
    BY <1>1, FreeMatches DEF u, Leaves
  <2>2. SUFFICES ASSUME NEW i, NEW j, Path(Marks(b), <<U(1, Free)>>, i, j)
                 PROVE  Chain(b, p, x, i, j)
    OBVIOUS
  <2>3. <<U(1, Free), i, j>> \in Marks(b)
    BY <2>2, PathOneIs
  <2>4. <<u(1, "x"), i, j>> \in Branches(b, p)
    BY <1>1, <2>1, <2>3, Leaf
  <2> QED BY <2>4, BranchIs, PathOne DEF Chain
<1>8. \A i, j : Path(Marks(b), HrdData(p.vcl_cpb_cnt), i, j) =>
        Chain(b, p, Hrd("vcl_cpb_cnt"), i, j)
  BY <1>6, HrdChain
<1>9. \A i, j : Path(Marks(b), HrdData(p.nal_cpb_cnt), i, j) =>
        Chain(b, p, Hrd("nal_cpb_cnt"), i, j)
  BY <1>6, HrdChain
<1> HIDE DEF x, flag
<1>10. ASSUME NEW i, NEW j, Path(Marks(b), vcl, i, j)
       PROVE  Chain(b, p, When(p.vcl_hrd = 1, Hrd("vcl_cpb_cnt")), i, j)
  BY <1>1, <1>2, <1>8, <1>10, WhenChain
<1>11. ASSUME NEW i, NEW j, Path(Marks(b), vcl \o alone, i, j)
       PROVE  Chain(b, p, Follow("vcl_hrd_alone", p.vcl_hrd), i, j)
  <2>1. PICK m \in Nat : /\ Path(Marks(b), vcl, i, m) /\ Path(Marks(b), alone, m, j)
    BY <1>2, <1>11, PathSplit
  <2>2. CASE p.vcl_hrd = 1
    <3>1. /\ vcl = HrdData(p.vcl_cpb_cnt) /\ alone = <<U(1, Free)>>
          /\ Follow("vcl_hrd_alone", p.vcl_hrd) = Hrd("vcl_cpb_cnt") \o x
      BY <1>4, <2>2 DEF If, When
    <3>2. Chain(b, p, Hrd("vcl_cpb_cnt"), i, m) /\ Chain(b, p, x, m, j)
      BY <1>7, <1>8, <2>1, <3>1
    <3> QED BY <1>5, <3>1, <3>2, ChainCat
  <2>3. CASE p.vcl_hrd # 1
    <3>1. /\ vcl = <<>> /\ alone = <<>>
          /\ Follow("vcl_hrd_alone", p.vcl_hrd) = <<>>
      BY <1>4, <2>3 DEF If, When
    <3>2. i \in Nat
      BY <1>2, <2>1, PathEnds
    <3>3. Path(Marks(b), <<>>, i, m) /\ Path(Marks(b), <<>>, m, j)
      BY <2>1, <3>1
    <3> HIDE DEF vcl, alone
    <3>4. m = i
      BY <3>2, <3>3, PathNone
    <3>5. j = m
      BY <3>3, PathNone
    <3>6. Path(Branches(b, p), <<>>, i, i)
      BY <3>2, PathNone
    <3> QED BY <3>1, <3>4, <3>5, <3>6 DEF Chain
  <2> QED BY <2>2, <2>3
<1>12. ASSUME NEW i, NEW j, Path(Marks(b), nal \o flag \o vcl \o delay, i, j)
       PROVE  Chain(b, p, Follow("nal_hrd", p.nal_hrd), i, j)
  <2>1. CASE p.nal_hrd = 1
    <3>1. nal \o flag \in Seq(CodeSet) /\ nal \o flag \o vcl \in Seq(CodeSet)
      BY <1>2, JoinTyped
    <3>2. PICK m \in Nat : /\ Path(Marks(b), nal \o flag \o vcl, i, m)
                           /\ Path(Marks(b), delay, m, j)
      BY <1>2, <1>12, <3>1, PathSplit
    <3>3. vcl = Under(p, "vcl_hrd")
      BY <1>3
    <3>4. "vcl_hrd" \in SpsNames \ {"separate_colour_plane_flag"}
      BY DEF SpsNames
    <3>5. PICK n \in Nat : /\ Path(Marks(b), nal, i, n)
                           /\ Chain(b, p, <<u(1, "vcl_hrd")>>, n, m)
      BY <1>2, <1>6, <3>2, <3>3, <3>4, FlagSplit DEF flag
    <3>6. nal = HrdData(p.nal_cpb_cnt) /\ delay = <<U(1, Free)>>
      BY <2>1 DEF If
    <3>7. Chain(b, p, Hrd("nal_cpb_cnt"), i, n) /\ Chain(b, p, x, m, j)
      BY <1>7, <1>9, <3>2, <3>5, <3>6
    <3>8. Chain(b, p, <<u(1, "vcl_hrd")>> \o x, n, j)
      BY <1>5, <3>5, <3>7, ChainCat
    <3>9. <<u(1, "vcl_hrd")>> \o x \in Seq(Elements)
      BY <1>5
    <3>10. Chain(b, p, Hrd("nal_cpb_cnt") \o (<<u(1, "vcl_hrd")>> \o x), i, j)
      BY <1>5, <3>7, <3>8, <3>9, ChainCat
    <3>11. <<u(1, "vcl_hrd")>> \o x = <<u(1, "vcl_hrd"), u(1, "x")>>
      <4>1. u(1, "vcl_hrd") \in Elements /\ u(1, "x") \in Elements
        BY Codes DEF Names
      <4>2. <<u(1, "vcl_hrd")>> \o <<u(1, "x")>> = <<u(1, "vcl_hrd"), u(1, "x")>>
        BY <4>1, Tuple2
      <4> QED BY <4>2 DEF x
    <3> QED BY <1>4, <2>1, <3>10, <3>11
  <2>2. CASE p.nal_hrd # 1
    <3>1. nal = <<>> /\ delay = alone
      BY <2>2 DEF If
    <3>2. nal \o flag \o vcl \o delay = flag \o (vcl \o alone)
      <4>1. nal \o flag = flag
        BY <1>2, <3>1
      <4> HIDE DEF nal, vcl, delay, alone
      <4> QED BY <1>2, <3>1, <4>1, Assoc
    <3>3. vcl \o alone \in Seq(CodeSet)
      BY <1>2, JoinTyped
    <3>4. PICK m \in Nat : /\ Path(Marks(b), flag, i, m)
                           /\ Path(Marks(b), vcl \o alone, m, j)
      BY <1>2, <1>12, <3>2, <3>3, PathSplit
    <3> DEFINE e == u(1, "vcl_hrd_alone")
    <3>5. Matches(p, U(1, p.vcl_hrd), e) /\ e.name = "vcl_hrd_alone"
      <4>1. DOMAIN p = SpsNames /\ "vcl_hrd" \in SpsNames
        BY Parameters DEF SpsNames
      <4>2. Known(p, "vcl_hrd_alone") /\ Val(p, "vcl_hrd_alone") = p.vcl_hrd
        BY <4>1 DEF Known, Val
      <4> QED BY <1>5, <4>2 DEF Matches, U, u
    <3> HIDE DEF e
    <3>6. Chain(b, p, <<e>>, i, j)
      <4>1. Path(Marks(b), <<U(1, p.vcl_hrd)>>, i, m)
        BY <3>4 DEF flag
      <4>2. Path(Marks(b), Under(p, e.name), m, j)
        BY <1>3, <3>4, <3>5
      <4> QED BY <1>1, <3>5, <4>1, <4>2, OneChain
    <3> QED BY <1>4, <2>2, <3>6 DEF e
  <2> QED BY <2>1, <2>2
<1> HIDE DEF nal, vcl, delay, alone
<1> QED BY <1>3, <1>4, <1>10, <1>11, <1>12

(* The VUI parameters as the code reads them.                              *)
LEMMA VuiChain ==
  ASSUME NEW b, NEW p \in SpsParameters, NEW i, NEW j,
         Path(Marks(b), VuiData(p), i, j)
  PROVE  Chain(b, p, Vui, i, j)
<1> DEFINE a0 == If(p.aspect = 1, AspectData(p))
           o0 == If(p.overscan = 1, <<U(1, Free)>>)
           v0 == If(p.video_signal = 1, VideoData(p))
           c0 == If(p.chroma_loc = 1, <<UE(Free), UE(Free)>>)
           t0 == If(p.timing = 1, <<U(32, p.num_units_in_tick),
                                    U(32, p.time_scale), U(1, Free)>>)
           n0 == If(p.nal_hrd = 1, HrdData(p.nal_cpb_cnt))
           n1 == <<U(1, p.vcl_hrd)>>
           n2 == If(p.vcl_hrd = 1, HrdData(p.vcl_cpb_cnt))
           n3 == If(p.nal_hrd = 1 \/ p.vcl_hrd = 1, <<U(1, Free)>>)
           r0 == If(p.bitstream_restriction_flag = 1,
                    <<U(1, Free), UE(Free), UE(Free), UE(Free), UE(Free),
                      UE(p.num_reorder_frames), UE(Free)>>)
           af == <<U(1, p.aspect)>>
           of == <<U(1, p.overscan)>>
           vf == <<U(1, p.video_signal)>>
           cf == <<U(1, p.chroma_loc)>>
           tf == <<U(1, p.timing)>>
           nf == <<U(1, p.nal_hrd)>>
           xf == <<U(1, Free)>>
           rf == <<U(1, p.bitstream_restriction_flag)>>
<1>1. /\ af \in Seq(CodeSet) /\ of \in Seq(CodeSet) /\ vf \in Seq(CodeSet)
      /\ cf \in Seq(CodeSet) /\ tf \in Seq(CodeSet) /\ nf \in Seq(CodeSet)
      /\ rf \in Seq(CodeSet) /\ n1 \in Seq(CodeSet) /\ xf \in Seq(CodeSet)
  BY TablesTyped, PlainTyped DEF SpsNames
<1>2. /\ "aspect" \in SpsNames \ {"separate_colour_plane_flag"}
      /\ "overscan" \in SpsNames \ {"separate_colour_plane_flag"}
      /\ "video_signal" \in SpsNames \ {"separate_colour_plane_flag"}
      /\ "chroma_loc" \in SpsNames \ {"separate_colour_plane_flag"}
      /\ "timing" \in SpsNames \ {"separate_colour_plane_flag"}
      /\ "nal_hrd" \in SpsNames \ {"separate_colour_plane_flag"}
      /\ "bitstream_restriction_flag" \in SpsNames \ {"separate_colour_plane_flag"}
  BY DEF SpsNames
<1>3. /\ a0 = Under(p, "aspect") /\ o0 = Under(p, "overscan")
      /\ v0 = Under(p, "video_signal") /\ c0 = Under(p, "chroma_loc")
      /\ t0 = Under(p, "timing")
      /\ ((n0 \o n1) \o n2) \o n3 = Under(p, "nal_hrd")
      /\ r0 = Under(p, "bitstream_restriction_flag")
  BY DEF Under
<1>4. /\ a0 \in Seq(CodeSet) /\ o0 \in Seq(CodeSet) /\ v0 \in Seq(CodeSet)
      /\ c0 \in Seq(CodeSet) /\ t0 \in Seq(CodeSet) /\ r0 \in Seq(CodeSet)
  BY <1>3, UnderTyped
<1>5. n0 \in Seq(CodeSet) /\ n2 \in Seq(CodeSet) /\ n3 \in Seq(CodeSet)
  BY TablesTyped, PlainTyped, IfTyped
<1>6. <<U(1, Free), U(1, p.bitstream_restriction_flag)>> = xf \o rf
  OBVIOUS
<1>7. VuiData(p) = af \o a0 \o of \o o0 \o vf \o v0 \o cf \o c0 \o tf \o t0
                   \o nf \o n0 \o n1 \o n2 \o n3 \o (xf \o rf) \o r0
  BY <1>6 DEF VuiData
<1>8. /\ p.aspect = p["aspect"] /\ p.overscan = p["overscan"]
      /\ p.video_signal = p["video_signal"] /\ p.chroma_loc = p["chroma_loc"]
      /\ p.timing = p["timing"] /\ p.nal_hrd = p["nal_hrd"]
      /\ p.bitstream_restriction_flag = p["bitstream_restriction_flag"]
  OBVIOUS
<1>9. \A m, n : Path(Marks(b), xf, m, n) => Chain(b, p, <<u(1, "x")>>, m, n)
  <2>1. p \in Headers
    BY DEF Headers
  <2>2. Matches(p, U(1, Free), u(1, "x")) /\ u(1, "x").name \in Leaves
    BY <2>1, FreeMatches DEF u, Leaves
  <2>3. SUFFICES ASSUME NEW m, NEW n, Path(Marks(b), <<U(1, Free)>>, m, n)
                 PROVE  Chain(b, p, <<u(1, "x")>>, m, n)
    OBVIOUS
  <2>4. <<U(1, Free), m, n>> \in Marks(b)
    BY <2>3, PathOneIs
  <2>5. <<u(1, "x"), m, n>> \in Branches(b, p)
    BY <2>1, <2>2, <2>4, Leaf
  <2> QED BY <2>5, BranchIs, PathOne DEF Chain
<1> DEFINE s1 == af \o a0
           s2 == s1 \o of \o o0
           s3 == s2 \o vf \o v0
           s4 == s3 \o cf \o c0
           s5 == s4 \o tf \o t0
           nr == ((n0 \o n1) \o n2) \o n3
           s6 == s5 \o nf \o nr
           s7 == s6 \o xf
<1> HIDE DEF a0, o0, v0, c0, t0, n0, n1, n2, n3, r0
<1>10. /\ s1 \in Seq(CodeSet) /\ s2 \in Seq(CodeSet) /\ s3 \in Seq(CodeSet)
       /\ s4 \in Seq(CodeSet) /\ s5 \in Seq(CodeSet) /\ nr \in Seq(CodeSet)
       /\ s6 \in Seq(CodeSet) /\ s7 \in Seq(CodeSet)
  <2> HIDE DEF af, of, vf, cf, tf, nf, xf, rf
  <2>1. s1 \in Seq(CodeSet)
    BY <1>1, <1>4, JoinTyped
  <2> HIDE DEF s1
  <2>2. s2 \in Seq(CodeSet)
    BY <1>1, <1>4, <2>1, JoinTyped
  <2> HIDE DEF s2
  <2>3. s3 \in Seq(CodeSet)
    BY <1>1, <1>4, <2>2, JoinTyped
  <2> HIDE DEF s3
  <2>4. s4 \in Seq(CodeSet)
    BY <1>1, <1>4, <2>3, JoinTyped
  <2> HIDE DEF s4
  <2>5. s5 \in Seq(CodeSet)
    BY <1>1, <1>4, <2>4, JoinTyped
  <2> HIDE DEF s5
  <2>6. nr \in Seq(CodeSet)
    BY <1>1, <1>5, JoinTyped
  <2> HIDE DEF nr
  <2>7. s6 \in Seq(CodeSet)
    BY <1>1, <2>5, <2>6, JoinTyped
  <2> HIDE DEF s6
  <2>8. s7 \in Seq(CodeSet)
    BY <1>1, <2>7, JoinTyped
  <2> QED BY <2>1, <2>2, <2>3, <2>4, <2>5, <2>6, <2>7, <2>8
<1>11. VuiData(p) = s7 \o rf \o r0
  <2>1. VuiData(p) = ((((((s5 \o nf) \o n0) \o n1) \o n2) \o n3) \o (xf \o rf)) \o r0
    BY <1>7
  <2> DEFINE t == s5 \o nf
  <2>2. t \in Seq(CodeSet)
    BY <1>1, <1>10, JoinTyped
  <2> HIDE DEF s5, af, of, vf, cf, tf, nf, xf, rf
  <2> HIDE DEF t
  <2>3. (((t \o n0) \o n1) \o n2) \o n3 = t \o nr
    <3> HIDE DEF n1
    <3>1. (t \o n0) \o n1 = t \o (n0 \o n1)
      <4>1. n0 \in Seq(CodeSet) /\ n1 \in Seq(CodeSet)
        BY <1>1, <1>5
      <4> QED BY <2>2, <4>1, Assoc
    <3> DEFINE n01 == n0 \o n1
    <3>2. n01 \in Seq(CodeSet)
      BY <1>1, <1>5, JoinTyped
    <3>3. (t \o n0) \o n1 = t \o n01
      BY <3>1
    <3>4. nr = (n01 \o n2) \o n3
      BY DEF nr
    <3> HIDE DEF n01, nr
    <3>5. (t \o n01) \o n2 = t \o (n01 \o n2)
      BY <1>5, <2>2, <3>2, Assoc
    <3> DEFINE n02 == n01 \o n2
    <3>6. n02 \in Seq(CodeSet)
      BY <1>5, <3>2, JoinTyped
    <3>7. (t \o n01) \o n2 = t \o n02 /\ nr = n02 \o n3
      BY <3>4, <3>5
    <3> HIDE DEF n02
    <3>8. (t \o n02) \o n3 = t \o (n02 \o n3)
      BY <1>5, <2>2, <3>6, Assoc
    <3> QED BY <3>3, <3>7, <3>8
  <2>4. t \o nr = s6
    BY DEF t
  <2>5. s6 \o (xf \o rf) = s7 \o rf
    <3>1. s7 = s6 \o xf
      OBVIOUS
    <3> HIDE DEF s6, s7
    <3>2. s6 \in Seq(CodeSet) /\ xf \in Seq(CodeSet) /\ rf \in Seq(CodeSet)
      BY <1>1, <1>10
    <3>3. (s6 \o xf) \o rf = s6 \o (xf \o rf)
      BY <3>2, Assoc
    <3> QED BY <3>1, <3>3
  <2>6. VuiData(p) = (((((t \o n0) \o n1) \o n2) \o n3) \o (xf \o rf)) \o r0
    BY <2>1 DEF t
  <2> HIDE DEF s6, s7, nr, n1
  <2>7. VuiData(p) = ((t \o nr) \o (xf \o rf)) \o r0
    BY <2>3, <2>6
  <2>8. VuiData(p) = (s6 \o (xf \o rf)) \o r0
    BY <2>4, <2>7
  <2> QED BY <2>5, <2>8
<1> HIDE DEF nr, s1, s2, s3, s4, s5, s6, s7
<1>12. PICK z7 \in Nat :
         /\ Path(Marks(b), s7, i, z7)
         /\ Chain(b, p, <<u(1, "bitstream_restriction_flag")>>, z7, j)
  <2>1. Path(Marks(b), s7 \o <<U(1, p["bitstream_restriction_flag"])>> \o r0, i, j)
    BY <1>8, <1>11
  <2> QED BY <1>2, <1>3, <1>4, <1>10, <2>1, FlagSplit
<1>13. PICK z6 \in Nat : Path(Marks(b), s6, i, z6) /\ Path(Marks(b), xf, z6, z7)
  BY <1>1, <1>10, <1>12, PathSplit DEF s7
<1>14. Chain(b, p, <<u(1, "x")>>, z6, z7)
  BY <1>9, <1>13
<1>15. PICK z5 \in Nat : /\ Path(Marks(b), s5, i, z5)
                         /\ Chain(b, p, <<u(1, "nal_hrd")>>, z5, z6)
  <2>1. nr = Under(p, "nal_hrd")
    BY <1>3 DEF nr
  <2>2. Path(Marks(b), s5 \o <<U(1, p["nal_hrd"])>> \o nr, i, z6)
    BY <1>8, <1>13 DEF s6
  <2> QED BY <1>2, <1>10, <2>1, <2>2, FlagSplit
<1>16. PICK z4 \in Nat : /\ Path(Marks(b), s4, i, z4)
                         /\ Chain(b, p, <<u(1, "timing")>>, z4, z5)
  <2>1. Path(Marks(b), s4 \o <<U(1, p["timing"])>> \o t0, i, z5)
    BY <1>8, <1>15 DEF s5
  <2> QED BY <1>2, <1>3, <1>4, <1>10, <2>1, FlagSplit
<1>17. PICK z3 \in Nat : /\ Path(Marks(b), s3, i, z3)
                         /\ Chain(b, p, <<u(1, "chroma_loc")>>, z3, z4)
  <2>1. Path(Marks(b), s3 \o <<U(1, p["chroma_loc"])>> \o c0, i, z4)
    BY <1>8, <1>16 DEF s4
  <2> QED BY <1>2, <1>3, <1>4, <1>10, <2>1, FlagSplit
<1>18. PICK z2 \in Nat : /\ Path(Marks(b), s2, i, z2)
                         /\ Chain(b, p, <<u(1, "video_signal")>>, z2, z3)
  <2>1. Path(Marks(b), s2 \o <<U(1, p["video_signal"])>> \o v0, i, z3)
    BY <1>8, <1>17 DEF s3
  <2> QED BY <1>2, <1>3, <1>4, <1>10, <2>1, FlagSplit
<1>19. PICK z1 \in Nat : /\ Path(Marks(b), s1, i, z1)
                         /\ Chain(b, p, <<u(1, "overscan")>>, z1, z2)
  <2>1. Path(Marks(b), s1 \o <<U(1, p["overscan"])>> \o o0, i, z2)
    BY <1>8, <1>18 DEF s2
  <2> QED BY <1>2, <1>3, <1>4, <1>10, <2>1, FlagSplit
<1>20. Chain(b, p, <<u(1, "aspect")>>, i, z1)
  <2>1. PICK z0 \in Nat : Path(Marks(b), af, i, z0) /\ Path(Marks(b), a0, z0, z1)
    BY <1>1, <1>4, <1>19, PathSplit DEF s1
  <2>2. Matches(p, U(1, p["aspect"]), u(1, "aspect")) /\ u(1, "aspect").name = "aspect"
    BY <1>2, NamedMatches DEF u
  <2>3. p \in Headers
    BY DEF Headers
  <2> QED BY <1>3, <1>8, <2>1, <2>2, <2>3, OneChain
<1> DEFINE e1 == u(1, "aspect")
           e2 == u(1, "overscan")
           e3 == u(1, "video_signal")
           e4 == u(1, "chroma_loc")
           e5 == u(1, "timing")
           e6 == u(1, "nal_hrd")
           e7 == u(1, "x")
           e8 == u(1, "bitstream_restriction_flag")
<1>21. /\ <<e1>> \in Seq(Elements) /\ <<e2>> \in Seq(Elements)
       /\ <<e3>> \in Seq(Elements) /\ <<e4>> \in Seq(Elements)
       /\ <<e5>> \in Seq(Elements) /\ <<e6>> \in Seq(Elements)
       /\ <<e7>> \in Seq(Elements) /\ <<e8>> \in Seq(Elements)
  <2>1. /\ e1 \in Elements /\ e2 \in Elements /\ e3 \in Elements
        /\ e4 \in Elements /\ e5 \in Elements /\ e6 \in Elements
        /\ e7 \in Elements /\ e8 \in Elements
    BY Codes DEF Names, SpsFields
  <2> HIDE DEF e1, e2, e3, e4, e5, e6, e7, e8
  <2> QED BY <2>1
<1>22. Vui = <<e1>> \o <<e2>> \o <<e3>> \o <<e4>> \o <<e5>> \o <<e6>> \o <<e7>> \o <<e8>>
  BY DEF Vui
<1> HIDE DEF e1, e2, e3, e4, e5, e6, e7, e8
<1> DEFINE h2 == <<e1>> \o <<e2>>
           h3 == h2 \o <<e3>>
           h4 == h3 \o <<e4>>
           h5 == h4 \o <<e5>>
           h6 == h5 \o <<e6>>
           h7 == h6 \o <<e7>>
<1>23. /\ Chain(b, p, <<e1>>, i, z1) /\ Chain(b, p, <<e2>>, z1, z2)
       /\ Chain(b, p, <<e3>>, z2, z3) /\ Chain(b, p, <<e4>>, z3, z4)
       /\ Chain(b, p, <<e5>>, z4, z5) /\ Chain(b, p, <<e6>>, z5, z6)
       /\ Chain(b, p, <<e7>>, z6, z7) /\ Chain(b, p, <<e8>>, z7, j)
  BY <1>12, <1>14, <1>15, <1>16, <1>17, <1>18, <1>19, <1>20
     DEF e1, e2, e3, e4, e5, e6, e7, e8
<1>24. h2 \in Seq(Elements)
  BY <1>21
<1>25. Chain(b, p, h2, i, z2)
  BY <1>21, <1>23, ChainCat
<1> HIDE DEF h2
<1>26. h3 \in Seq(Elements)
  BY <1>21, <1>24
<1>27. Chain(b, p, h3, i, z3)
  BY <1>21, <1>23, <1>24, <1>25, ChainCat
<1> HIDE DEF h3
<1>28. h4 \in Seq(Elements)
  BY <1>21, <1>26
<1>29. Chain(b, p, h4, i, z4)
  BY <1>21, <1>23, <1>26, <1>27, ChainCat
<1> HIDE DEF h4
<1>30. h5 \in Seq(Elements)
  BY <1>21, <1>28
<1>31. Chain(b, p, h5, i, z5)
  BY <1>21, <1>23, <1>28, <1>29, ChainCat
<1> HIDE DEF h5
<1>32. h6 \in Seq(Elements)
  BY <1>21, <1>30
<1>33. Chain(b, p, h6, i, z6)
  BY <1>21, <1>23, <1>30, <1>31, ChainCat
<1> HIDE DEF h6
<1>34. h7 \in Seq(Elements)
  BY <1>21, <1>32
<1>35. Chain(b, p, h7, i, z7)
  BY <1>21, <1>23, <1>32, <1>33, ChainCat
<1> HIDE DEF h7
<1>36. Chain(b, p, h7 \o <<e8>>, i, j)
  BY <1>21, <1>23, <1>34, <1>35, ChainCat
<1> QED BY <1>22, <1>36 DEF h2, h3, h4, h5, h6, h7

(* Tables on which nothing hangs.                                          *)
Fits(x, q, els) ==
  /\ q \in Seq(CodeSet) /\ els \in Seq(Elements) /\ Len(els) = Len(q)
  /\ \A k \in 1 .. Len(q) : Matches(x, q[k], els[k]) /\ els[k].name \in Leaves

(* An optional table on which nothing hangs.                               *)
LEMMA FitsChain ==
  ASSUME NEW b, NEW x \in Headers, NEW q, NEW els, Fits(x, q, els),
         NEW condition, NEW condition2, condition <=> condition2,
         NEW i, NEW j, Path(Marks(b), If(condition, q), i, j)
  PROVE  Chain(b, x, When(condition2, els), i, j)
<1>1. q \in Seq(CodeSet)
  BY DEF Fits
<1>2. Path(Marks(b), q, i, j) => Chain(b, x, els, i, j)
  BY LeafChain DEF Fits
<1> QED BY <1>1, <1>2, WhenChain

(* The tables without a name, and those whose fields are kept.             *)
LEMMA FreeFits ==
  ASSUME NEW x \in Headers
  PROVE  /\ \A v : U(1, v) \in CodeSet => Fits(x, <<U(1, v)>>, <<u(1, "x")>>)
         /\ Fits(x, <<UE(Free), UE(Free)>>, <<ue("x"), ue("x")>>)
         /\ Fits(x, <<UE(Free), UE(Free), UE(Free), UE(Free)>>,
                    <<ue("x"), ue("x"), ue("x"), ue("x")>>)
         /\ Fits(x, <<U(16, Free), U(16, Free)>>, <<u(16, "x"), u(16, "x")>>)
         /\ Fits(x, <<U(8, Free), U(8, Free), U(8, Free)>>,
                    <<u(8, "x"), u(8, "x"), u(8, "x")>>)
<1>1. /\ \A n \in Nat : \A v : Matches(x, U(n, v), u(n, "x"))
      /\ \A v : Matches(x, UE(v), ue("x"))
  BY FreeMatches
<1>2. /\ \A n \in Nat : u(n, "x").name \in Leaves /\ u(n, "x") \in Elements
      /\ ue("x").name \in Leaves /\ ue("x") \in Elements
  BY Codes DEF u, ue, Leaves, Names
<1>3. /\ U(16, Free) \in CodeSet /\ U(8, Free) \in CodeSet /\ UE(Free) \in CodeSet
  BY PlainTyped
<1>4. /\ Fits(x, <<UE(Free), UE(Free)>>, <<ue("x"), ue("x")>>)
      /\ Fits(x, <<UE(Free), UE(Free), UE(Free), UE(Free)>>,
                 <<ue("x"), ue("x"), ue("x"), ue("x")>>)
  BY <1>1, <1>2, <1>3 DEF Fits
<1>5. /\ Fits(x, <<U(16, Free), U(16, Free)>>, <<u(16, "x"), u(16, "x")>>)
      /\ Fits(x, <<U(8, Free), U(8, Free), U(8, Free)>>,
                 <<u(8, "x"), u(8, "x"), u(8, "x")>>)
  BY <1>1, <1>2, <1>3 DEF Fits
<1>6. \A v : U(1, v) \in CodeSet => Fits(x, <<U(1, v)>>, <<u(1, "x")>>)
  BY <1>1, <1>2 DEF Fits
<1> QED BY <1>4, <1>5, <1>6

LEMMA NamedFits ==
  ASSUME NEW p \in SpsParameters
  PROVE  /\ Fits(p, <<U(32, p.num_units_in_tick), U(32, p.time_scale),
                      U(1, Free)>>,
                    <<u(32, "num_units_in_tick"), u(32, "time_scale"),
                      u(1, "x")>>)
         /\ Fits(p, <<U(1, Free), UE(Free), UE(Free), UE(Free), UE(Free),
                      UE(p.num_reorder_frames), UE(Free)>>,
                    <<u(1, "x"), ue("x"), ue("x"), ue("x"), ue("x"),
                      ue("num_reorder_frames"), ue("x")>>)
<1>1. p \in Headers
  BY DEF Headers
<1>2. /\ \A n \in Nat : \A v : Matches(p, U(n, v), u(n, "x"))
      /\ \A v : Matches(p, UE(v), ue("x"))
  BY <1>1, FreeMatches
<1>3. /\ Matches(p, U(32, p.num_units_in_tick), u(32, "num_units_in_tick"))
      /\ Matches(p, U(32, p.time_scale), u(32, "time_scale"))
      /\ Matches(p, UE(p.num_reorder_frames), ue("num_reorder_frames"))
  BY NamedMatches DEF SpsNames
<1>4. /\ u(1, "x").name \in Leaves /\ u(1, "x") \in Elements
      /\ ue("x").name \in Leaves /\ ue("x") \in Elements
      /\ u(32, "num_units_in_tick").name \in Leaves
      /\ u(32, "num_units_in_tick") \in Elements
      /\ u(32, "time_scale").name \in Leaves
      /\ u(32, "time_scale") \in Elements
      /\ ue("num_reorder_frames").name \in Leaves
      /\ ue("num_reorder_frames") \in Elements
  BY Codes DEF u, ue, Leaves, Names, SpsFields
<1>5. /\ <<U(32, p.num_units_in_tick), U(32, p.time_scale), U(1, Free)>>
           \in Seq(CodeSet)
      /\ <<U(1, Free), UE(Free), UE(Free), UE(Free), UE(Free),
           UE(p.num_reorder_frames), UE(Free)>> \in Seq(CodeSet)
  BY TablesTyped
<1> HIDE DEF Elements, Leaves
<1>6. Fits(p, <<U(32, p.num_units_in_tick), U(32, p.time_scale), U(1, Free)>>,
              <<u(32, "num_units_in_tick"), u(32, "time_scale"), u(1, "x")>>)
  BY <1>2, <1>3, <1>4, <1>5 DEF Fits
<1>7. Fits(p, <<U(1, Free), UE(Free), UE(Free), UE(Free), UE(Free),
                UE(p.num_reorder_frames), UE(Free)>>,
              <<u(1, "x"), ue("x"), ue("x"), ue("x"), ue("x"),
                ue("num_reorder_frames"), ue("x")>>)
  BY <1>2, <1>3, <1>4, <1>5 DEF Fits
<1> QED BY <1>6, <1>7

(* The aspect ratio and the video signal type, with what hangs on them.    *)
LEMMA AspectChain ==
  ASSUME NEW b, NEW p \in SpsParameters, NEW i, NEW j,
         Path(Marks(b), AspectData(p), i, j)
  PROVE  Chain(b, p, <<u(8, "sar")>>, i, j)
<1> DEFINE q == <<U(8, p.sar)>>
           r == If(p.sar = 255, <<U(16, Free), U(16, Free)>>)
<1>1. p \in Headers
  BY DEF Headers
<1>2. q \in Seq(CodeSet) /\ r \in Seq(CodeSet)
  BY TablesTyped, PlainTyped, IfTyped DEF SpsNames
<1>3. AspectData(p) = q \o r /\ r = Under(p, "sar")
  BY DEF AspectData, Under
<1>4. Matches(p, U(8, p.sar), u(8, "sar")) /\ u(8, "sar").name = "sar"
  BY NamedMatches DEF SpsNames, u
<1> HIDE DEF r
<1>5. PICK m \in Nat : Path(Marks(b), q, i, m) /\ Path(Marks(b), r, m, j)
  BY <1>2, <1>3, PathSplit
<1> QED BY <1>1, <1>3, <1>4, <1>5, OneChain

LEMMA VideoChain ==
  ASSUME NEW b, NEW p \in SpsParameters, NEW i, NEW j,
         Path(Marks(b), VideoData(p), i, j)
  PROVE  Chain(b, p, <<u(3, "x"), u(1, "x"), u(1, "colour")>>, i, j)
<1> DEFINE two == <<U(3, Free), U(1, Free)>>
           c == U(1, p.colour)
           r == If(p.colour = 1, <<U(8, Free), U(8, Free), U(8, Free)>>)
           etwo == <<u(3, "x"), u(1, "x")>>
           e == u(1, "colour")
<1>1. p \in Headers
  BY DEF Headers
<1>2. /\ u(3, "x") \in Elements /\ u(1, "x") \in Elements /\ e \in Elements
      /\ u(3, "x").name \in Leaves /\ u(1, "x").name \in Leaves
      /\ e.name = "colour"
  BY Codes DEF Names, Leaves, u
<1>3. U(3, Free) \in CodeSet /\ U(1, Free) \in CodeSet /\ c \in CodeSet
  <2>1. p.colour \in Int
    BY Parameters DEF SpsNames
  <2> QED BY <2>1, CodesTyped
<1>4. two \o <<c>> = <<U(3, Free), U(1, Free), U(1, p.colour)>>
  BY <1>3, Tuple3
<1>5. etwo \o <<e>> = <<u(3, "x"), u(1, "x"), u(1, "colour")>>
  BY <1>2, Tuple3
<1>6. Matches(p, U(3, Free), u(3, "x")) /\ Matches(p, U(1, Free), u(1, "x"))
  BY <1>1, FreeMatches
<1>7. two \in Seq(CodeSet) /\ etwo \in Seq(Elements) /\ Len(two) = 2 /\ Len(etwo) = 2
      /\ \A k \in 1 .. 2 : Matches(p, two[k], etwo[k]) /\ etwo[k].name \in Leaves
  BY <1>2, <1>3, <1>6
<1>8. <<c>> \in Seq(CodeSet) /\ <<e>> \in Seq(Elements)
  BY <1>2, <1>3
<1>9. r \in Seq(CodeSet) /\ r = Under(p, "colour")
  BY PlainTyped, IfTyped DEF Under
<1>10. VideoData(p) = (two \o <<c>>) \o r
  BY <1>4 DEF VideoData
<1>11. Matches(p, c, e)
  BY NamedMatches DEF SpsNames
<1> HIDE DEF two, c, r, etwo, e
<1>12. two \o <<c>> \in Seq(CodeSet)
  BY <1>7, <1>8, JoinTyped
<1>13. PICK n \in Nat : /\ Path(Marks(b), two \o <<c>>, i, n)
                        /\ Path(Marks(b), r, n, j)
  BY <1>9, <1>10, <1>12, PathSplit
<1>14. PICK m \in Nat : /\ Path(Marks(b), two, i, m)
                        /\ Path(Marks(b), <<c>>, m, n)
  BY <1>7, <1>8, <1>13, PathSplit
<1>15. Chain(b, p, etwo, i, m)
  BY <1>1, <1>7, <1>14, LeafChain
<1>16. Chain(b, p, <<e>>, m, j)
  BY <1>1, <1>2, <1>9, <1>11, <1>13, <1>14, OneChain
<1>17. Chain(b, p, etwo \o <<e>>, i, j)
  BY <1>7, <1>8, <1>15, <1>16, ChainCat
<1> QED BY <1>5, <1>17

(* What an element's value makes the parser read next is what hangs on it. *)
LEMMA SpsFollows ==
  ASSUME NEW b, NEW p \in SpsParameters, NEW name, Known(p, name),
         name = "sps_id" => StreamSps["profile_idc"] = p.profile_idc,
         NEW v, Val(p, name) # Free => v = Val(p, name),
         NEW i, NEW j, Path(Marks(b), Under(p, name), i, j)
  PROVE  Chain(b, p, Follow(name, v), i, j)
<1>1. p \in Headers
  BY DEF Headers
<1>2. ASSUME NEW f \in SpsNames, name = f PROVE v = p[f]
  <2>1. p[f] \in Nat
    BY Parameters
  <2>2. Val(p, f) = p[f]
    BY DEF SpsNames, Val
  <2>3. p[f] # Free
    BY <2>1 DEF Free
  <2> QED BY <1>2, <2>2, <2>3
<1>3. CASE name \in Leaves
  <2>1. Under(p, name) = <<>> /\ Follow(name, v) = <<>>
    BY <1>3, LeavesBare
  <2>2. i \in Nat /\ j = i
    <3>1. Path(Marks(b), <<>>, i, j) /\ <<>> \in Seq(CodeSet)
      BY <2>1
    <3>2. i \in Nat
      BY <3>1, PathEnds
    <3> QED BY <3>1, <3>2, PathNone
  <2> QED BY <2>1, <2>2, PathNone DEF Chain
<1>4. CASE name = "sps_id"
  <2>1. Under(p, name) = If(p.profile_idc \in HighProfiles, HighData(p))
    BY <1>4 DEF Under
  <2>2. Follow(name, v) = When(StreamSps["profile_idc"] >= 100, HighProfile)
    BY <1>4 DEF Follow
  <2>3. p.profile_idc \in HighProfiles <=> StreamSps["profile_idc"] >= 100
    <3>1. p.profile_idc \in {66, 77, 88} \cup HighProfiles
      BY Parameters
    <3>2. \A n \in HighProfiles : n >= 100
      BY DEF HighProfiles
    <3>3. \A n \in {66, 77, 88} : ~ (n >= 100)
      OBVIOUS
    <3> QED BY <1>4, <3>1, <3>2, <3>3
  <2>4. HighData(p) \in Seq(CodeSet)
    BY TablesTyped
  <2>5. Path(Marks(b), If(p.profile_idc \in HighProfiles, HighData(p)), i, j)
    BY <2>1
  <2>6. Path(Marks(b), HighData(p), i, j) => Chain(b, p, HighProfile, i, j)
    BY HighChain
  <2>7. Chain(b, p, When(StreamSps["profile_idc"] >= 100, HighProfile), i, j)
    BY <1>1, <2>3, <2>4, <2>5, <2>6, WhenChain
  <2> QED BY <2>2, <2>7
<1>5. CASE name = "chroma_format_idc"
  <2>1. v = p.chroma_format_idc
    BY <1>2, <1>5 DEF SpsNames
  <2>2. Under(p, name) = If(p.chroma_format_idc = 3,
                            <<U(1, p.separate_colour_plane_flag)>>)
    BY <1>5 DEF Under
  <2>3. Follow(name, v) = When(v = 3, <<u(1, "x")>>)
    BY <1>5 DEF Follow
  <2>4. U(1, p.separate_colour_plane_flag) \in CodeSet
    BY Parameters, CodesTyped DEF SpsNames
  <2>5. Fits(p, <<U(1, p.separate_colour_plane_flag)>>, <<u(1, "x")>>)
    BY <1>1, <2>4, FreeFits
  <2>6. Chain(b, p, When(v = 3, <<u(1, "x")>>), i, j)
    <3>1. p.chroma_format_idc = 3 <=> v = 3
      BY <2>1
    <3>2. Path(Marks(b), If(p.chroma_format_idc = 3, <<U(1, p.separate_colour_plane_flag)>>), i, j)
      BY <2>1, <2>2
    <3> QED BY <1>1, <3>1, <3>2, <2>5, FitsChain
  <2> QED BY <2>3, <2>6
<1>6. CASE name = "poc_type"
  <2>1. v = p.poc_type /\ Under(p, name) = PocData(p)
    BY <1>2, <1>6 DEF SpsNames, Under
  <2> QED BY <1>6, <2>1, PocChain
<1>7. CASE name = "cycle"
  <2>1. v = p.cycle /\ Under(p, name) = [k \in 1 .. p.cycle |-> SE]
    BY <1>2, <1>7 DEF SpsNames, Under
  <2> QED BY <1>7, <2>1, CycleChain
<1>8. CASE name = "frame_mbs_only_flag"
  <2>1. v = p.frame_mbs_only_flag
    BY <1>2, <1>8 DEF SpsNames
  <2>2. Under(p, name) = If(p.frame_mbs_only_flag = 0, <<U(1, Free)>>)
    BY <1>8 DEF Under
  <2>3. Follow(name, v) = When(v = 0, <<u(1, "x")>>)
    BY <1>8 DEF Follow
  <2>4. Fits(p, <<U(1, Free)>>, <<u(1, "x")>>)
    BY <1>1, FreeFits, PlainTyped
  <2>5. Chain(b, p, When(v = 0, <<u(1, "x")>>), i, j)
    <3>1. p.frame_mbs_only_flag = 0 <=> v = 0
      BY <2>1
    <3>2. Path(Marks(b), If(p.frame_mbs_only_flag = 0, <<U(1, Free)>>), i, j)
      BY <2>1, <2>2
    <3> QED BY <1>1, <3>1, <3>2, <2>4, FitsChain
  <2> QED BY <2>3, <2>5
<1>9. CASE name = "crop"
  <2> DEFINE q == <<UE(Free), UE(Free), UE(Free), UE(Free)>>
             els == <<ue("x"), ue("x"), ue("x"), ue("x")>>
  <2>1. v = p.crop /\ Under(p, name) = If(p.crop = 1, q)
    BY <1>2, <1>9 DEF SpsNames, Under
  <2>2. Follow(name, v) = When(v = 1, els)
    BY <1>9 DEF Follow
  <2>3. Fits(p, q, els)
    BY <1>1, FreeFits
  <2> HIDE DEF q, els
  <2>4. Chain(b, p, When(v = 1, els), i, j)
    <3>1. p.crop = 1 <=> v = 1
      BY <2>1
    <3>2. Path(Marks(b), If(p.crop = 1, q), i, j)
      BY <2>1
    <3> QED BY <1>1, <3>1, <3>2, <2>3, FitsChain
  <2> QED BY <2>2, <2>4
<1>10. CASE name = "vui"
  <2>1. v = p.vui /\ Under(p, name) = If(p.vui = 1, VuiData(p))
    BY <1>2, <1>10 DEF SpsNames, Under
  <2>2. Follow(name, v) = When(v = 1, Vui)
    BY <1>10 DEF Follow
  <2>3. Path(Marks(b), VuiData(p), i, j) => Chain(b, p, Vui, i, j)
    BY VuiChain
  <2>4. Chain(b, p, When(v = 1, Vui), i, j)
    <3>1. p.vui = 1 <=> v = 1
      BY <2>1
    <3>2. Path(Marks(b), If(p.vui = 1, VuiData(p)), i, j)
      BY <2>1
    <3> QED BY <1>1, <3>1, <3>2, <2>3, VuiTyped, WhenChain
  <2> QED BY <2>2, <2>4
<1>11. CASE name = "aspect"
  <2>1. v = p.aspect /\ Under(p, name) = If(p.aspect = 1, AspectData(p))
    BY <1>2, <1>11 DEF SpsNames, Under
  <2>2. Follow(name, v) = When(v = 1, <<u(8, "sar")>>)
    BY <1>11 DEF Follow
  <2>3. Path(Marks(b), AspectData(p), i, j) => Chain(b, p, <<u(8, "sar")>>, i, j)
    BY AspectChain
  <2>4. AspectData(p) \in Seq(CodeSet)
    BY TablesTyped
  <2>5. Chain(b, p, When(v = 1, <<u(8, "sar")>>), i, j)
    <3>1. p.aspect = 1 <=> v = 1
      BY <2>1
    <3>2. Path(Marks(b), If(p.aspect = 1, AspectData(p)), i, j)
      BY <2>1
    <3> QED BY <1>1, <3>1, <3>2, <2>3, <2>4, WhenChain
  <2> QED BY <2>2, <2>5
<1>12. CASE name = "sar"
  <2> DEFINE q == <<U(16, Free), U(16, Free)>>
             els == <<u(16, "x"), u(16, "x")>>
  <2>1. v = p.sar /\ Under(p, name) = If(p.sar = 255, q)
    BY <1>2, <1>12 DEF SpsNames, Under
  <2>2. Follow(name, v) = When(v = 255, els)
    BY <1>12 DEF Follow
  <2>3. Fits(p, q, els)
    BY <1>1, FreeFits
  <2> HIDE DEF q, els
  <2>4. Chain(b, p, When(v = 255, els), i, j)
    <3>1. p.sar = 255 <=> v = 255
      BY <2>1
    <3>2. Path(Marks(b), If(p.sar = 255, q), i, j)
      BY <2>1
    <3> QED BY <1>1, <3>1, <3>2, <2>3, FitsChain
  <2> QED BY <2>2, <2>4
<1>13. CASE name = "overscan"
  <2> DEFINE q == <<U(1, Free)>>
             els == <<u(1, "x")>>
  <2>1. v = p.overscan /\ Under(p, name) = If(p.overscan = 1, q)
    BY <1>2, <1>13 DEF SpsNames, Under
  <2>2. Follow(name, v) = When(v = 1, els)
    BY <1>13 DEF Follow
  <2>3. Fits(p, q, els)
    BY <1>1, FreeFits, PlainTyped
  <2> HIDE DEF q, els
  <2>4. Chain(b, p, When(v = 1, els), i, j)
    <3>1. p.overscan = 1 <=> v = 1
      BY <2>1
    <3>2. Path(Marks(b), If(p.overscan = 1, q), i, j)
      BY <2>1
    <3> QED BY <1>1, <3>1, <3>2, <2>3, FitsChain
  <2> QED BY <2>2, <2>4
<1>14. CASE name = "video_signal"
  <2> DEFINE els == <<u(3, "x"), u(1, "x"), u(1, "colour")>>
  <2>1. v = p.video_signal /\ Under(p, name) = If(p.video_signal = 1, VideoData(p))
    BY <1>2, <1>14 DEF SpsNames, Under
  <2>2. Follow(name, v) = When(v = 1, els)
    BY <1>14 DEF Follow
  <2>3. Path(Marks(b), VideoData(p), i, j) => Chain(b, p, els, i, j)
    BY VideoChain
  <2> HIDE DEF els
  <2>4. VideoData(p) \in Seq(CodeSet)
    BY TablesTyped
  <2>5. Chain(b, p, When(v = 1, els), i, j)
    <3>1. p.video_signal = 1 <=> v = 1
      BY <2>1
    <3>2. Path(Marks(b), If(p.video_signal = 1, VideoData(p)), i, j)
      BY <2>1
    <3> QED BY <1>1, <3>1, <3>2, <2>3, <2>4, WhenChain
  <2> QED BY <2>2, <2>5
<1>15. CASE name = "colour"
  <2> DEFINE q == <<U(8, Free), U(8, Free), U(8, Free)>>
             els == <<u(8, "x"), u(8, "x"), u(8, "x")>>
  <2>1. v = p.colour /\ Under(p, name) = If(p.colour = 1, q)
    BY <1>2, <1>15 DEF SpsNames, Under
  <2>2. Follow(name, v) = When(v = 1, els)
    BY <1>15 DEF Follow
  <2>3. Fits(p, q, els)
    BY <1>1, FreeFits
  <2> HIDE DEF q, els
  <2>4. Chain(b, p, When(v = 1, els), i, j)
    <3>1. p.colour = 1 <=> v = 1
      BY <2>1
    <3>2. Path(Marks(b), If(p.colour = 1, q), i, j)
      BY <2>1
    <3> QED BY <1>1, <3>1, <3>2, <2>3, FitsChain
  <2> QED BY <2>2, <2>4
<1>16. CASE name = "chroma_loc"
  <2> DEFINE q == <<UE(Free), UE(Free)>>
             els == <<ue("x"), ue("x")>>
  <2>1. v = p.chroma_loc /\ Under(p, name) = If(p.chroma_loc = 1, q)
    BY <1>2, <1>16 DEF SpsNames, Under
  <2>2. Follow(name, v) = When(v = 1, els)
    BY <1>16 DEF Follow
  <2>3. Fits(p, q, els)
    BY <1>1, FreeFits
  <2> HIDE DEF q, els
  <2>4. Chain(b, p, When(v = 1, els), i, j)
    <3>1. p.chroma_loc = 1 <=> v = 1
      BY <2>1
    <3>2. Path(Marks(b), If(p.chroma_loc = 1, q), i, j)
      BY <2>1
    <3> QED BY <1>1, <3>1, <3>2, <2>3, FitsChain
  <2> QED BY <2>2, <2>4
<1>17. CASE name = "timing"
  <2> DEFINE q == <<U(32, p.num_units_in_tick), U(32, p.time_scale), U(1, Free)>>
             els == <<u(32, "num_units_in_tick"), u(32, "time_scale"), u(1, "x")>>
  <2>1. v = p.timing /\ Under(p, name) = If(p.timing = 1, q)
    BY <1>2, <1>17 DEF SpsNames, Under
  <2>2. Follow(name, v) = When(v = 1, els)
    BY <1>17 DEF Follow
  <2>3. Fits(p, q, els)
    BY NamedFits
  <2> HIDE DEF q, els
  <2>4. Chain(b, p, When(v = 1, els), i, j)
    <3>1. p.timing = 1 <=> v = 1
      BY <2>1
    <3>2. Path(Marks(b), If(p.timing = 1, q), i, j)
      BY <2>1
    <3> QED BY <1>1, <3>1, <3>2, <2>3, FitsChain
  <2> QED BY <2>2, <2>4
<1>18. CASE name = "nal_hrd"
  <2>1. v = p.nal_hrd
    BY <1>2, <1>18 DEF SpsNames
  <2> QED BY <1>18, <2>1, HrdFlags
<1>19. CASE name \in {"vcl_hrd", "vcl_hrd_alone"}
  <2>1. p["vcl_hrd"] \in Nat
    BY Parameters DEF SpsNames
  <2>2. Val(p, name) = p["vcl_hrd"] /\ p["vcl_hrd"] # Free
    BY <1>19, <2>1 DEF Val, Free
  <2>3. v = p.vcl_hrd
    BY <2>2
  <2> QED BY <1>19, <2>3, HrdFlags
<1>20. CASE name \in {"nal_cpb_cnt", "vcl_cpb_cnt"}
  <2>1. v = p[name]
    BY <1>2, <1>20 DEF SpsNames
  <2>2. p[name] \in 0 .. 31
    <3>1. p["nal_cpb_cnt"] \in 0 .. 31 /\ p["vcl_cpb_cnt"] \in 0 .. 31
      BY Parameters DEF SpsNames
    <3> QED BY <1>20, <3>1
  <2>3. Under(p, name) = HrdRest(p[name])
    BY <1>20 DEF Under
  <2>4. Follow(name, v) = Cpb(v)
    BY <1>20 DEF Follow
  <2> QED BY <2>1, <2>2, <2>3, <2>4, CpbChain
<1>21. CASE name = "bitstream_restriction_flag"
  <2> DEFINE q == <<U(1, Free), UE(Free), UE(Free), UE(Free), UE(Free),
                    UE(p.num_reorder_frames), UE(Free)>>
             els == <<u(1, "x"), ue("x"), ue("x"), ue("x"), ue("x"),
                      ue("num_reorder_frames"), ue("x")>>
  <2>1. /\ v = p.bitstream_restriction_flag
        /\ Under(p, name) = If(p.bitstream_restriction_flag = 1, q)
    BY <1>2, <1>21 DEF SpsNames, Under
  <2>2. Follow(name, v) = When(v = 1, els)
    BY <1>21 DEF Follow
  <2>3. Fits(p, q, els)
    BY NamedFits
  <2> HIDE DEF q, els
  <2>4. Chain(b, p, When(v = 1, els), i, j)
    <3>1. p.bitstream_restriction_flag = 1 <=> v = 1
      BY <2>1
    <3>2. Path(Marks(b), If(p.bitstream_restriction_flag = 1, q), i, j)
      BY <2>1
    <3> QED BY <1>1, <3>1, <3>2, <2>3, FitsChain
  <2> QED BY <2>2, <2>4
<1>22. name \in Leaves \cup
         {"sps_id", "chroma_format_idc", "poc_type", "cycle",
          "frame_mbs_only_flag", "crop", "vui", "aspect", "sar", "overscan",
          "video_signal", "colour", "chroma_loc", "timing", "nal_hrd",
          "vcl_hrd", "vcl_hrd_alone", "nal_cpb_cnt", "vcl_cpb_cnt",
          "bitstream_restriction_flag"}
  <2>1. DOMAIN p = SpsNames
    BY Parameters
  <2> QED BY <2>1 DEF Known, Leaves, SpsNames
<1> QED BY <1>3, <1>4, <1>5, <1>6, <1>7, <1>8, <1>9, <1>10, <1>11, <1>12,
           <1>13, <1>14, <1>15, <1>16, <1>17, <1>18, <1>19, <1>20, <1>21,
           <1>22

(* The same for the head of a slice, where only field_pic has a follower.  *)
LEMMA SliceFollows ==
  ASSUME NEW b, NEW h \in SliceParameters, NEW name, Known(h, name),
         NEW v, Val(h, name) # Free => v = Val(h, name),
         NEW i, NEW j, Path(Marks(b), Under(h, name), i, j)
  PROVE  Chain(b, h, Follow(name, v), i, j)
<1>1. h \in Headers
  BY DEF Headers
<1>2. CASE name \in Leaves
  <2>1. Under(h, name) = <<>> /\ Follow(name, v) = <<>>
    BY <1>2, LeavesBare
  <2>2. i \in Nat /\ j = i
    <3>1. Path(Marks(b), <<>>, i, j) /\ <<>> \in Seq(CodeSet)
      BY <2>1
    <3>2. i \in Nat
      BY <3>1, PathEnds
    <3> QED BY <3>1, <3>2, PathNone
  <2> QED BY <2>1, <2>2, PathNone DEF Chain
<1>3. CASE name = "field_pic"
  <2>1. h.field_pic \in Nat
    BY SliceValues
  <2>2. Val(h, name) = h.field_pic /\ h.field_pic # Free
    BY <1>3, <2>1 DEF Val, Free
  <2>3. v = h.field_pic
    BY <2>2
  <2> DEFINE q == <<U(1, Free)>>
             els == <<u(1, "x")>>
  <2>4. Under(h, name) = If(h.field_pic = 1, q) /\ Follow(name, v) = When(v = 1, els)
    BY <1>3 DEF Under, Follow
  <2>5. Fits(h, q, els)
    BY <1>1, FreeFits, PlainTyped
  <2> HIDE DEF q, els
  <2>6. Chain(b, h, When(v = 1, els), i, j)
    <3>1. h.field_pic = 1 <=> v = 1
      BY <2>3
    <3>2. Path(Marks(b), If(h.field_pic = 1, q), i, j)
      BY <2>4
    <3> QED BY <1>1, <3>1, <3>2, <2>5, FitsChain
  <2> QED BY <2>4, <2>6
<1>4. name \in Leaves \cup {"field_pic"}
  <2>1. DOMAIN h = SliceFields \cup {"field_pic"}
    BY SliceValues
  <2> QED BY <2>1 DEF Known, Leaves, SliceFields
<1> QED BY <1>2, <1>3, <1>4

(* Elements on which nothing hangs, one on which r does, and r.            *)
LEMMA GroupChain ==
  ASSUME NEW b, NEW x \in Headers, NEW q \in Seq(CodeSet),
         NEW lead, NEW els, Fits(x, lead, els),
         NEW c \in CodeSet, NEW e, Matches(x, c, e),
         NEW r \in Seq(CodeSet), Under(x, e.name) = r,
         NEW i, NEW j, Path(Marks(b), (q \o (lead \o <<c>>)) \o r, i, j)
  PROVE  \E m \in Nat : /\ Path(Marks(b), q, i, m)
                        /\ Chain(b, x, els \o <<e>>, m, j)
<1>1. lead \in Seq(CodeSet) /\ els \in Seq(Elements) /\ <<c>> \in Seq(CodeSet)
  BY DEF Fits
<1>2. e \in Elements
  BY DEF Matches
<1>3. <<e>> \in Seq(Elements)
  BY <1>2
<1> DEFINE t == lead \o <<c>>
           w == q \o t
<1>4. t \in Seq(CodeSet)
  BY <1>1, JoinTyped
<1> HIDE DEF t
<1>5. w \in Seq(CodeSet)
  BY <1>4, JoinTyped
<1>6. Path(Marks(b), w \o r, i, j)
  BY DEF t
<1> HIDE DEF w
<1>7. PICK n \in Nat : Path(Marks(b), w, i, n) /\ Path(Marks(b), r, n, j)
  BY <1>5, <1>6, PathSplit
<1>8. Path(Marks(b), q \o t, i, n)
  BY <1>7 DEF w
<1>9. PICK m \in Nat : Path(Marks(b), q, i, m) /\ Path(Marks(b), t, m, n)
  BY <1>4, <1>8, PathSplit
<1>10. PICK k \in Nat : Path(Marks(b), lead, m, k) /\ Path(Marks(b), <<c>>, k, n)
  BY <1>1, <1>9, PathSplit DEF t
<1>11. Chain(b, x, els, m, k)
  BY <1>10, LeafChain DEF Fits
<1>12. Chain(b, x, <<e>>, k, j)
  BY <1>7, <1>10, OneChain
<1>13. Chain(b, x, els \o <<e>>, m, j)
  BY <1>1, <1>3, <1>11, <1>12, ChainCat
<1> QED BY <1>9, <1>13

(* One more tuple as a join.                                               *)
LEMMA Tuple5 ==
  ASSUME NEW S, NEW a \in S, NEW b \in S, NEW c \in S, NEW d \in S, NEW e \in S
  PROVE  <<a, b, c, d>> \o <<e>> = <<a, b, c, d, e>>
<1> DEFINE q == <<a, b, c, d>> \o <<e>>
           r == <<a, b, c, d, e>>
<1>1. q \in Seq(S) /\ r \in Seq(S) /\ Len(q) = 5 /\ Len(r) = 5
  OBVIOUS
<1>2. q[1] = r[1] /\ q[2] = r[2] /\ q[3] = r[3] /\ q[4] = r[4] /\ q[5] = r[5]
  OBVIOUS
<1> HIDE DEF q, r
<1>3. q = r
  BY <1>1, <1>2, SameSeq
<1> QED BY <1>3 DEF q, r

(* The codes of an SPS, and those of its elements nothing hangs on.        *)
LEMMA HeadCodes ==
  ASSUME NEW p \in SpsParameters
  PROVE  /\ U(16, Free) \in CodeSet /\ U(1, Free) \in CodeSet /\ UE(Free) \in CodeSet
         /\ U(8, p.profile_idc) \in CodeSet /\ UE(p.log2_max_frame_num) \in CodeSet
         /\ UE(p.mb_width) \in CodeSet /\ UE(p.mb_height) \in CodeSet
         /\ UE(p.sps_id) \in CodeSet /\ UE(p.poc_type) \in CodeSet
         /\ U(1, p.frame_mbs_only_flag) \in CodeSet
         /\ U(1, p.crop) \in CodeSet /\ U(1, p.vui) \in CodeSet
<1>1. /\ p.profile_idc \in Int /\ p.log2_max_frame_num \in Int
      /\ p.mb_width \in Int /\ p.mb_height \in Int
      /\ p.sps_id \in Int /\ p.poc_type \in Int
      /\ p.frame_mbs_only_flag \in Int /\ p.crop \in Int /\ p.vui \in Int
  BY Parameters DEF SpsNames
<1> QED BY <1>1, CodesTyped

LEMMA HeadFits ==
  ASSUME NEW p \in SpsParameters
  PROVE  /\ Fits(p, <<U(8, p.profile_idc), U(16, Free)>>,
                    <<u(8, "profile_idc"), u(16, "x")>>)
         /\ Fits(p, <<UE(p.log2_max_frame_num)>>, <<ue("log2_max_frame_num")>>)
         /\ Fits(p, <<UE(Free), U(1, Free), UE(p.mb_width), UE(p.mb_height)>>,
                    <<ue("x"), u(1, "x"), ue("mb_width"), ue("mb_height")>>)
         /\ Fits(p, <<U(1, Free)>>, <<u(1, "x")>>)
         /\ Fits(p, <<>>, <<>>)
<1>1. p \in Headers
  BY DEF Headers
<1>2. /\ Matches(p, U(16, Free), u(16, "x")) /\ Matches(p, U(1, Free), u(1, "x"))
      /\ Matches(p, UE(Free), ue("x"))
  BY <1>1, FreeMatches
<1>3. /\ Matches(p, U(8, p.profile_idc), u(8, "profile_idc"))
      /\ Matches(p, UE(p.log2_max_frame_num), ue("log2_max_frame_num"))
      /\ Matches(p, UE(p.mb_width), ue("mb_width"))
      /\ Matches(p, UE(p.mb_height), ue("mb_height"))
  BY NamedMatches DEF SpsNames
<1>4. /\ u(16, "x").name \in Leaves /\ u(1, "x").name \in Leaves
      /\ ue("x").name \in Leaves /\ u(8, "profile_idc").name \in Leaves
      /\ ue("log2_max_frame_num").name \in Leaves
      /\ ue("mb_width").name \in Leaves /\ ue("mb_height").name \in Leaves
  BY DEF u, ue, Leaves
<1>5. /\ u(16, "x") \in Elements /\ u(1, "x") \in Elements
      /\ ue("x") \in Elements /\ u(8, "profile_idc") \in Elements
      /\ ue("log2_max_frame_num") \in Elements
      /\ ue("mb_width") \in Elements /\ ue("mb_height") \in Elements
  BY Codes DEF Names, SpsFields
<1>6. /\ U(16, Free) \in CodeSet /\ U(1, Free) \in CodeSet /\ UE(Free) \in CodeSet
      /\ U(8, p.profile_idc) \in CodeSet /\ UE(p.log2_max_frame_num) \in CodeSet
      /\ UE(p.mb_width) \in CodeSet /\ UE(p.mb_height) \in CodeSet
  BY HeadCodes
<1>7. /\ Fits(p, <<U(8, p.profile_idc), U(16, Free)>>,
                 <<u(8, "profile_idc"), u(16, "x")>>)
      /\ Fits(p, <<UE(p.log2_max_frame_num)>>, <<ue("log2_max_frame_num")>>)
  BY <1>2, <1>3, <1>4, <1>5, <1>6 DEF Fits
<1>8. /\ Fits(p, <<UE(Free), U(1, Free), UE(p.mb_width), UE(p.mb_height)>>,
                 <<ue("x"), u(1, "x"), ue("mb_width"), ue("mb_height")>>)
  BY <1>2, <1>3, <1>4, <1>5, <1>6 DEF Fits
<1>9. /\ Fits(p, <<U(1, Free)>>, <<u(1, "x")>>)
      /\ Fits(p, <<>>, <<>>)
  BY <1>2, <1>3, <1>4, <1>5, <1>6 DEF Fits
<1> QED BY <1>7, <1>8, <1>9

(* The whole of a sequence parameter set.                                  *)
LEMMA SpsHeadChain ==
  ASSUME NEW b, NEW p \in SpsParameters, NEW i, NEW j,
         Path(Marks(b), SpsData(p), i, j)
  PROVE  SpsData(p) \in Seq(CodeSet) /\ Chain(b, p, SpsHead, i, j)
<1> DEFINE la == <<U(8, p.profile_idc), U(16, Free)>>
           lb == <<UE(p.log2_max_frame_num)>>
           lc == <<UE(Free), U(1, Free), UE(p.mb_width), UE(p.mb_height)>>
           ld == <<U(1, Free)>>
           a == UE(p.sps_id)
           bb == UE(p.poc_type)
           c == U(1, p.frame_mbs_only_flag)
           d == U(1, p.crop)
           e == U(1, p.vui)
           ra == If(p.profile_idc \in HighProfiles, HighData(p))
           rb == PocData(p)
           rc == If(p.frame_mbs_only_flag = 0, <<U(1, Free)>>)
           rd == If(p.crop = 1, <<UE(Free), UE(Free), UE(Free), UE(Free)>>)
           re == If(p.vui = 1, VuiData(p))
           ela == <<u(8, "profile_idc"), u(16, "x")>>
           elb == <<ue("log2_max_frame_num")>>
           elc == <<ue("x"), u(1, "x"), ue("mb_width"), ue("mb_height")>>
           eld == <<u(1, "x")>>
           ea == ue("sps_id")
           eb == ue("poc_type")
           ec == u(1, "frame_mbs_only_flag")
           ed == u(1, "crop")
           ee == u(1, "vui")
           none == <<>>
<1>1. p \in Headers
  BY DEF Headers
<1>2. /\ Fits(p, la, ela) /\ Fits(p, lb, elb) /\ Fits(p, lc, elc)
      /\ Fits(p, ld, eld) /\ Fits(p, none, none)
  BY HeadFits
<1>3. /\ Matches(p, a, ea) /\ Matches(p, bb, eb) /\ Matches(p, c, ec)
      /\ Matches(p, d, ed) /\ Matches(p, e, ee)
  BY NamedMatches DEF SpsNames
<1>4. /\ Under(p, ea.name) = ra /\ Under(p, eb.name) = rb
      /\ Under(p, ec.name) = rc /\ Under(p, ed.name) = rd
      /\ Under(p, ee.name) = re
  <2>1. /\ ea.name = "sps_id" /\ eb.name = "poc_type"
        /\ ec.name = "frame_mbs_only_flag" /\ ed.name = "crop"
        /\ ee.name = "vui"
    BY DEF u, ue
  <2>2. /\ Under(p, "sps_id") = ra /\ Under(p, "poc_type") = rb
        /\ Under(p, "frame_mbs_only_flag") = rc /\ Under(p, "crop") = rd
        /\ Under(p, "vui") = re
    BY DEF Under
  <2> QED BY <2>1, <2>2
<1>5. /\ ra \in Seq(CodeSet) /\ rb \in Seq(CodeSet) /\ rc \in Seq(CodeSet)
      /\ rd \in Seq(CodeSet) /\ re \in Seq(CodeSet)
  BY TablesTyped, VuiTyped, PlainTyped, IfTyped
<1>6. /\ a \in CodeSet /\ bb \in CodeSet /\ c \in CodeSet /\ d \in CodeSet
      /\ e \in CodeSet
  BY HeadCodes
<1> DEFINE ga == la \o <<a>>
           gb == lb \o <<bb>>
           gc == lc \o <<c>>
           gd == ld \o <<d>>
           ge == none \o <<e>>
           ka == ela \o <<ea>>
           kb == elb \o <<eb>>
           kc == elc \o <<ec>>
           kd == eld \o <<ed>>
           ke == none \o <<ee>>
<1>7. SpsData(p) = ga \o ra \o gb \o rb \o gc \o rc \o gd \o rd \o ge \o re
  <2>1. ga = <<U(8, p.profile_idc), U(16, Free), UE(p.sps_id)>>
    BY HeadCodes, Tuple3
  <2>2. gb = <<UE(p.log2_max_frame_num), UE(p.poc_type)>>
    BY HeadCodes, Tuple2
  <2>3. gc = <<UE(Free), U(1, Free), UE(p.mb_width), UE(p.mb_height),
               U(1, p.frame_mbs_only_flag)>>
    BY HeadCodes, Tuple5
  <2>4. gd = <<U(1, Free), U(1, p.crop)>>
    BY HeadCodes, Tuple2
  <2>5. ge = <<U(1, p.vui)>>
    <3>1. <<e>> \in Seq(CodeSet)
      BY <1>6
    <3> HIDE DEF e
    <3>2. none \o <<e>> = <<e>>
      BY <3>1
    <3> QED BY <3>2 DEF e
  <2> HIDE DEF ga, gb, gc, gd, ge
  <2> QED BY <2>1, <2>2, <2>3, <2>4, <2>5 DEF SpsData
<1>8. SpsHead = ka \o kb \o kc \o kd \o ke
  BY DEF SpsHead
<1>9. /\ ga \in Seq(CodeSet) /\ gb \in Seq(CodeSet) /\ gc \in Seq(CodeSet)
      /\ gd \in Seq(CodeSet) /\ ge \in Seq(CodeSet)
  <2>1. /\ la \in Seq(CodeSet) /\ lb \in Seq(CodeSet) /\ lc \in Seq(CodeSet)
        /\ ld \in Seq(CodeSet) /\ none \in Seq(CodeSet)
    BY <1>2 DEF Fits
  <2> HIDE DEF la, lb, lc, ld, none, a, bb, c, d, e
  <2>2. /\ <<a>> \in Seq(CodeSet) /\ <<bb>> \in Seq(CodeSet) /\ <<c>> \in Seq(CodeSet)
        /\ <<d>> \in Seq(CodeSet) /\ <<e>> \in Seq(CodeSet)
    BY <1>6
  <2> QED BY <2>1, <2>2, JoinTyped
<1>10. /\ ka \in Seq(Elements) /\ kb \in Seq(Elements) /\ kc \in Seq(Elements)
       /\ kd \in Seq(Elements) /\ ke \in Seq(Elements)
  <2>1. /\ ela \in Seq(Elements) /\ elb \in Seq(Elements) /\ elc \in Seq(Elements)
        /\ eld \in Seq(Elements) /\ none \in Seq(Elements)
    BY <1>2 DEF Fits
  <2>2. ea \in Elements /\ eb \in Elements /\ ec \in Elements /\ ed \in Elements
        /\ ee \in Elements
    BY <1>3 DEF Matches
  <2> HIDE DEF ela, elb, elc, eld, none, ea, eb, ec, ed, ee
  <2> QED BY <2>1, <2>2
<1> HIDE DEF la, lb, lc, ld, none, a, bb, c, d, e, ra, rb, rc, rd, re,
             ela, elb, elc, eld, ea, eb, ec, ed, ee
<1> DEFINE s1 == ga \o ra
           s2 == (s1 \o gb) \o rb
           s3 == (s2 \o gc) \o rc
           s4 == (s3 \o gd) \o rd
<1> HIDE DEF ga, gb, gc, gd, ge
<1>11. /\ s1 \in Seq(CodeSet) /\ s2 \in Seq(CodeSet) /\ s3 \in Seq(CodeSet)
       /\ s4 \in Seq(CodeSet)
  <2>1. s1 \in Seq(CodeSet)
    BY <1>5, <1>9, JoinTyped
  <2> HIDE DEF s1
  <2>2. s2 \in Seq(CodeSet)
    BY <1>5, <1>9, <2>1, JoinTyped
  <2> HIDE DEF s2
  <2>3. s3 \in Seq(CodeSet)
    BY <1>5, <1>9, <2>2, JoinTyped
  <2> HIDE DEF s3
  <2>4. s4 \in Seq(CodeSet)
    BY <1>5, <1>9, <2>3, JoinTyped
  <2> QED BY <2>1, <2>2, <2>3, <2>4
<1>12. SpsData(p) = (s4 \o ge) \o re
  BY <1>7
<1>13. SpsData(p) \in Seq(CodeSet)
  <2> HIDE DEF s4
  <2> QED BY <1>5, <1>9, <1>11, <1>12, JoinTyped
<1>14. Path(Marks(b), (s4 \o ge) \o re, i, j)
  BY <1>12
<1> HIDE DEF s4
<1>15. PICK z4 \in Nat : Path(Marks(b), s4, i, z4) /\ Chain(b, p, ke, z4, j)
  <2>1. Path(Marks(b), (s4 \o (none \o <<e>>)) \o re, i, j)
    BY <1>14 DEF ge
  <2> QED BY <1>1, <1>2, <1>3, <1>4, <1>5, <1>6, <1>11, <2>1, GroupChain
<1> HIDE DEF s3
<1>16. PICK z3 \in Nat : Path(Marks(b), s3, i, z3) /\ Chain(b, p, kd, z3, z4)
  <2>1. Path(Marks(b), (s3 \o (ld \o <<d>>)) \o rd, i, z4)
    BY <1>15 DEF s4, gd
  <2> QED BY <1>1, <1>2, <1>3, <1>4, <1>5, <1>6, <1>11, <2>1, GroupChain
<1> HIDE DEF s2
<1>17. PICK z2 \in Nat : Path(Marks(b), s2, i, z2) /\ Chain(b, p, kc, z2, z3)
  <2>1. Path(Marks(b), (s2 \o (lc \o <<c>>)) \o rc, i, z3)
    BY <1>16 DEF s3, gc
  <2> QED BY <1>1, <1>2, <1>3, <1>4, <1>5, <1>6, <1>11, <2>1, GroupChain
<1> HIDE DEF s1
<1>18. PICK z1 \in Nat : Path(Marks(b), s1, i, z1) /\ Chain(b, p, kb, z1, z2)
  <2>1. Path(Marks(b), (s1 \o (lb \o <<bb>>)) \o rb, i, z2)
    BY <1>17 DEF s2, gb
  <2> QED BY <1>1, <1>2, <1>3, <1>4, <1>5, <1>6, <1>11, <2>1, GroupChain
<1>19. Chain(b, p, ka, i, z1)
  <2>1. PICK n \in Nat : Path(Marks(b), ga, i, n) /\ Path(Marks(b), ra, n, z1)
    BY <1>5, <1>9, <1>18, PathSplit DEF s1
  <2>2. la \in Seq(CodeSet) /\ <<a>> \in Seq(CodeSet)
    BY <1>2, <1>6 DEF Fits
  <2>3. PICK m \in Nat : Path(Marks(b), la, i, m) /\ Path(Marks(b), <<a>>, m, n)
    BY <2>1, <2>2, PathSplit DEF ga
  <2>4. Chain(b, p, ela, i, m)
    BY <1>1, <1>2, <2>3, LeafChain DEF Fits
  <2>5. Chain(b, p, <<ea>>, m, z1)
    BY <1>1, <1>3, <1>4, <2>1, <2>3, OneChain
  <2>6. ela \in Seq(Elements) /\ <<ea>> \in Seq(Elements)
    BY <1>2, <1>3 DEF Fits, Matches
  <2> QED BY <2>4, <2>5, <2>6, ChainCat
<1> HIDE DEF ka, kb, kc, kd, ke
<1> DEFINE h2 == ka \o kb
           h3 == h2 \o kc
           h4 == h3 \o kd
<1>20. h2 \in Seq(Elements)
  BY <1>10
<1>21. Chain(b, p, h2, i, z2)
  BY <1>10, <1>18, <1>19, ChainCat
<1> HIDE DEF h2
<1>22. h3 \in Seq(Elements)
  BY <1>10, <1>20
<1>23. Chain(b, p, h3, i, z3)
  BY <1>10, <1>17, <1>20, <1>21, ChainCat
<1> HIDE DEF h3
<1>24. h4 \in Seq(Elements)
  BY <1>10, <1>22
<1>25. Chain(b, p, h4, i, z4)
  BY <1>10, <1>16, <1>22, <1>23, ChainCat
<1> HIDE DEF h4
<1>26. Chain(b, p, h4 \o ke, i, j)
  BY <1>10, <1>15, <1>24, <1>25, ChainCat
<1> QED BY <1>8, <1>13, <1>26 DEF h2, h3, h4

(* The head of a slice, when its SPS was read.                             *)
SpsKept(p) ==
  /\ StreamSps["log2_max_frame_num"] = p.log2_max_frame_num
  /\ StreamSps["frame_mbs_only_flag"] = p.frame_mbs_only_flag
  /\ StreamSps["poc_type"] = p.poc_type
  /\ p.poc_type = 0 => StreamSps["log2_max_poc_lsb"] = p.log2_max_poc_lsb
  /\ p.poc_type = 1 => StreamSps["delta_pic_order_always_zero_flag"]
                         = p.delta_pic_order_always_zero_flag

(* The codes of a slice head.                                              *)
LEMMA SliceCodes ==
  ASSUME NEW p \in SpsParameters, NEW h \in SliceParameters
  PROVE  /\ UE(Free) \in CodeSet /\ UE(h.i_slice_type) \in CodeSet
         /\ U(p.log2_max_frame_num + 4, h.i_frame_num) \in CodeSet
         /\ U(p.log2_max_poc_lsb + 4, h.i_pic_order_cnt_lsb) \in CodeSet
         /\ U(1, h.field_pic) \in CodeSet
<1> DEFINE w == p.log2_max_frame_num + 4
           l == p.log2_max_poc_lsb + 4
<1>1. w \in Nat /\ l \in Nat
  <2>1. p.log2_max_frame_num \in Nat /\ p.log2_max_poc_lsb \in Nat
    BY Parameters DEF SpsNames
  <2> QED BY <2>1
<1>2. /\ h.i_slice_type \in Int /\ h.i_frame_num \in Int
      /\ h.i_pic_order_cnt_lsb \in Int /\ h.field_pic \in Int
  BY SliceValues DEF SliceFields
<1> HIDE DEF w, l
<1>3. /\ UE(Free) \in CodeSet /\ UE(h.i_slice_type) \in CodeSet
      /\ U(w, h.i_frame_num) \in CodeSet
      /\ U(l, h.i_pic_order_cnt_lsb) \in CodeSet
      /\ U(1, h.field_pic) \in CodeSet
  BY <1>1, <1>2, CodesTyped
<1> QED BY <1>3 DEF w, l

LEMMA SliceFits ==
  ASSUME NEW p \in SpsParameters, NEW h \in SliceParameters
  PROVE  /\ Fits(h, <<UE(Free), UE(h.i_slice_type), UE(Free),
                      U(p.log2_max_frame_num + 4, h.i_frame_num)>>,
                    <<ue("x"), ue("i_slice_type"), ue("x"),
                      u(p.log2_max_frame_num + 4, "i_frame_num")>>)
         /\ Fits(h, <<UE(Free)>>, <<ue("x")>>)
         /\ Fits(h, <<U(p.log2_max_poc_lsb + 4, h.i_pic_order_cnt_lsb)>>,
                    <<u(p.log2_max_poc_lsb + 4, "i_pic_order_cnt_lsb")>>)
         /\ Fits(h, <<SE>>, <<se>>)
<1> DEFINE w == p.log2_max_frame_num + 4
           l == p.log2_max_poc_lsb + 4
<1>1. h \in Headers
  BY DEF Headers
<1>2. w \in Nat /\ l \in Nat
  <2>1. p.log2_max_frame_num \in Nat /\ p.log2_max_poc_lsb \in Nat
    BY Parameters DEF SpsNames
  <2> QED BY <2>1
<1> HIDE DEF w, l
<1>3. /\ DOMAIN h = SliceFields \cup {"field_pic"}
      /\ \A f \in SliceFields : h[f] \in Nat
  BY SliceValues
<1>5. /\ UE(Free) \in CodeSet /\ UE(h.i_slice_type) \in CodeSet
      /\ U(w, h.i_frame_num) \in CodeSet
      /\ U(l, h.i_pic_order_cnt_lsb) \in CodeSet /\ SE \in CodeSet
  BY SliceCodes, CodesTyped DEF w, l
<1>6. /\ ue("x") \in Elements /\ ue("i_slice_type") \in Elements
      /\ u(w, "i_frame_num") \in Elements
      /\ u(l, "i_pic_order_cnt_lsb") \in Elements /\ se \in Elements
  <2>1. "i_slice_type" \in Names /\ "i_frame_num" \in Names
        /\ "i_pic_order_cnt_lsb" \in Names /\ "x" \in Names
    BY DEF Names, SliceFields
  <2> QED BY <1>2, <2>1, Codes
<1>7. /\ ue("x").name = "x" /\ ue("i_slice_type").name = "i_slice_type"
      /\ u(w, "i_frame_num").name = "i_frame_num"
      /\ u(l, "i_pic_order_cnt_lsb").name = "i_pic_order_cnt_lsb"
      /\ se.name = "x"
  BY DEF u, ue, se
<1>8. /\ ue("x").name \in Leaves /\ ue("i_slice_type").name \in Leaves
      /\ u(w, "i_frame_num").name \in Leaves
      /\ u(l, "i_pic_order_cnt_lsb").name \in Leaves
      /\ se.name \in Leaves
  BY <1>7 DEF Leaves
<1>9. /\ Matches(h, UE(Free), ue("x")) /\ Matches(h, SE, se)
  BY <1>1, FreeMatches
<1>10. ASSUME NEW f \in SliceFields
       PROVE  Known(h, f) /\ Val(h, f) = h[f]
  BY <1>3 DEF SliceFields, Known, Val
<1>11. /\ Matches(h, UE(h.i_slice_type), ue("i_slice_type"))
       /\ Matches(h, U(w, h.i_frame_num), u(w, "i_frame_num"))
       /\ Matches(h, U(l, h.i_pic_order_cnt_lsb), u(l, "i_pic_order_cnt_lsb"))
  <2>1. /\ Known(h, "i_slice_type") /\ Val(h, "i_slice_type") = h.i_slice_type
        /\ Known(h, "i_frame_num") /\ Val(h, "i_frame_num") = h.i_frame_num
        /\ Known(h, "i_pic_order_cnt_lsb")
        /\ Val(h, "i_pic_order_cnt_lsb") = h.i_pic_order_cnt_lsb
    BY <1>10 DEF SliceFields
  <2> QED BY <1>6, <2>1 DEF Matches, U, UE, u, ue
<1>12. Fits(h, <<UE(Free), UE(h.i_slice_type), UE(Free), U(w, h.i_frame_num)>>,
               <<ue("x"), ue("i_slice_type"), ue("x"), u(w, "i_frame_num")>>)
  BY <1>5, <1>6, <1>8, <1>9, <1>11 DEF Fits
<1>13. /\ Fits(h, <<UE(Free)>>, <<ue("x")>>) /\ Fits(h, <<SE>>, <<se>>)
       /\ Fits(h, <<U(l, h.i_pic_order_cnt_lsb)>>, <<u(l, "i_pic_order_cnt_lsb")>>)
  BY <1>5, <1>6, <1>8, <1>9, <1>11 DEF Fits
<1> QED BY <1>12, <1>13 DEF w, l

(* field_pic with the flag behind it.                                      *)
LEMMA FieldChain ==
  ASSUME NEW b, NEW h \in SliceParameters, NEW i, NEW j,
         Path(Marks(b), <<U(1, h.field_pic)>> \o If(h.field_pic = 1, <<U(1, Free)>>),
              i, j)
  PROVE  Chain(b, h, <<u(1, "field_pic")>>, i, j)
<1> DEFINE c == U(1, h.field_pic)
           r == If(h.field_pic = 1, <<U(1, Free)>>)
           e == u(1, "field_pic")
<1>1. h \in Headers
  BY DEF Headers
<1>2. DOMAIN h = SliceFields \cup {"field_pic"} /\ h.field_pic \in Int
  BY SliceValues
<1>3. <<c>> \in Seq(CodeSet) /\ r \in Seq(CodeSet)
  <2>1. c \in CodeSet
    BY <1>2, CodesTyped
  <2>2. r \in Seq(CodeSet)
    BY PlainTyped, IfTyped
  <2> HIDE DEF c, r
  <2>3. <<c>> \in Seq(CodeSet)
    BY <2>1
  <2> QED BY <2>2, <2>3
<1>4. Matches(h, c, e) /\ Under(h, e.name) = r
  <2>1. e.name = "field_pic" /\ e \in Elements
    BY Codes DEF u, Names
  <2>2. Known(h, "field_pic") /\ Val(h, "field_pic") = h.field_pic
    BY <1>2 DEF Known, Val
  <2>3. c.code = e.code /\ c.bits = e.bits /\ c.value = h.field_pic
    BY DEF U, u
  <2>4. Under(h, "field_pic") = r
    BY DEF Under
  <2> HIDE DEF c, e, r
  <2> QED BY <2>1, <2>2, <2>3, <2>4 DEF Matches
<1> HIDE DEF c, r, e
<1>5. PICK m \in Nat : Path(Marks(b), <<c>>, i, m) /\ Path(Marks(b), r, m, j)
  <2>1. Path(Marks(b), <<c>> \o r, i, j)
    BY DEF c, r
  <2> QED BY <1>3, <2>1, PathSplit
<1>6. Chain(b, h, <<e>>, i, j)
  BY <1>1, <1>4, <1>5, OneChain
<1> QED BY <1>6 DEF e

(* The whole head of a slice, with widths taken from StreamSps.            *)
LEMMA SliceHeadChain ==
  ASSUME NEW b, NEW p \in SpsParameters, NEW h \in SliceParameters,
         p.separate_colour_plane_flag = 0, SpsKept(p),
         NEW type, NEW i, NEW j, Path(Marks(b), SliceHeader(p, h, type), i, j)
  PROVE  /\ SliceHeader(p, h, type) \in Seq(CodeSet)
         /\ Chain(b, h, SliceHead(type), i, j)
<1> DEFINE w == p.log2_max_frame_num + 4
           l == p.log2_max_poc_lsb + 4
           zero == p.poc_type = 1 /\ p.delta_pic_order_always_zero_flag = 0
           q == <<UE(Free), UE(h.i_slice_type), UE(Free), U(w, h.i_frame_num)>>
           f == <<U(1, h.field_pic)>> \o If(h.field_pic = 1, <<U(1, Free)>>)
           r == <<UE(Free)>>
           t == <<U(l, h.i_pic_order_cnt_lsb)>>
           d == <<SE>>
           cf == If(p.frame_mbs_only_flag = 0, f)
           cr == If(type = 5, r)
           ct == If(p.poc_type = 0, t)
           cd == If(zero, d)
           eq == <<ue("x"), ue("i_slice_type"), ue("x"), u(w, "i_frame_num")>>
           ef == <<u(1, "field_pic")>>
           er == <<ue("x")>>
           et == <<u(l, "i_pic_order_cnt_lsb")>>
           ed == <<se>>
           kf == When(StreamSps["frame_mbs_only_flag"] = 0, ef)
           kr == When(type = 5, er)
           kt == When(StreamSps["poc_type"] = 0, et)
           kd == When(/\ StreamSps["poc_type"] = 1
                      /\ StreamSps["delta_pic_order_always_zero_flag"] = 0, ed)
<1>1. h \in Headers
  BY DEF Headers
<1>2. /\ Fits(h, q, eq) /\ Fits(h, r, er) /\ Fits(h, t, et) /\ Fits(h, d, ed)
  BY SliceFits
<1>3. /\ StreamSps["log2_max_frame_num"] + 4 = w
      /\ StreamSps["frame_mbs_only_flag"] = 0 <=> p.frame_mbs_only_flag = 0
      /\ StreamSps["poc_type"] = 0 <=> p.poc_type = 0
      /\ p.poc_type = 0 => StreamSps["log2_max_poc_lsb"] + 4 = l
      /\ (/\ StreamSps["poc_type"] = 1
          /\ StreamSps["delta_pic_order_always_zero_flag"] = 0) <=> zero
  BY DEF SpsKept
<1>4. SliceHead(type) = (((eq \o kf) \o kr) \o kt) \o kd
  <2>1. kt = When(StreamSps["poc_type"] = 0,
                  <<u(StreamSps["log2_max_poc_lsb"] + 4, "i_pic_order_cnt_lsb")>>)
    <3> HIDE DEF l
    <3>1. CASE p.poc_type = 0
      BY <1>3, <3>1
    <3>2. CASE p.poc_type # 0
      BY <1>3, <3>2 DEF When
    <3> QED BY <3>1, <3>2
  <2> HIDE DEF kt, kf, kr, kd, w
  <2> QED BY <1>3, <2>1 DEF SliceHead, kf, kr, kd
<1>5. /\ f \in Seq(CodeSet) /\ q \in Seq(CodeSet) /\ r \in Seq(CodeSet)
      /\ t \in Seq(CodeSet) /\ d \in Seq(CodeSet)
  <2>1. <<U(1, h.field_pic)>> \in Seq(CodeSet)
    <3>1. h.field_pic \in Int
      BY SliceValues
    <3>2. U(1, h.field_pic) \in CodeSet
      BY <3>1, CodesTyped
    <3> QED BY <3>2
  <2>2. If(h.field_pic = 1, <<U(1, Free)>>) \in Seq(CodeSet)
    BY PlainTyped, IfTyped
  <2>3. f \in Seq(CodeSet)
    BY <2>1, <2>2, JoinTyped
  <2> QED BY <1>2, <2>3 DEF Fits
<1>6. /\ eq \in Seq(Elements) /\ er \in Seq(Elements) /\ et \in Seq(Elements)
      /\ ed \in Seq(Elements) /\ ef \in Seq(Elements)
  <2>1. u(1, "field_pic") \in Elements
    BY Codes DEF Names
  <2>2. ef \in Seq(Elements)
    BY <2>1
  <2> QED BY <1>2, <2>2 DEF Fits
<1>7. SliceHeader(p, h, type) = (((q \o cf) \o cr) \o ct) \o cd
  <2> DEFINE three == <<UE(Free), UE(h.i_slice_type), UE(Free)>>
             last == <<U(w, h.i_frame_num)>>
             sep == If(p.separate_colour_plane_flag = 1, <<U(2, Free)>>)
  <2>1. sep = <<>>
    BY DEF If
  <2>2. three \o last = q
    <3>1. /\ UE(Free) \in CodeSet /\ UE(h.i_slice_type) \in CodeSet
          /\ U(w, h.i_frame_num) \in CodeSet
      BY SliceCodes
    <3> QED BY <3>1, Tuple4
  <2>3. three \o sep = three
    <3>1. three \in Seq(CodeSet)
      BY SliceCodes
    <3> HIDE DEF three
    <3> QED BY <2>1, <3>1
  <2>4. SliceHeader(p, h, type) = (three \o sep) \o last \o cf \o cr \o ct \o cd
    BY DEF SliceHeader
  <2> HIDE DEF three, sep, last, q, cf, cr, ct, cd
  <2> QED BY <2>2, <2>3, <2>4
<1> HIDE DEF q, f, r, t, d, eq, ef, er, et, ed
<1>8. /\ cf \in Seq(CodeSet) /\ cr \in Seq(CodeSet) /\ ct \in Seq(CodeSet)
      /\ cd \in Seq(CodeSet)
  BY <1>5, IfTyped
<1>9. /\ kf \in Seq(Elements) /\ kr \in Seq(Elements) /\ kt \in Seq(Elements)
      /\ kd \in Seq(Elements)
  BY <1>6, WhenTyped
<1> DEFINE s2 == q \o cf
           s3 == s2 \o cr
           s4 == s3 \o ct
<1> HIDE DEF cf, cr, ct, cd, kf, kr, kt, kd, zero
<1>10. s2 \in Seq(CodeSet)
  BY <1>5, <1>8, JoinTyped
<1>11. s3 \in Seq(CodeSet)
  <2> HIDE DEF s2
  <2> QED BY <1>8, <1>10, JoinTyped
<1>12. s4 \in Seq(CodeSet)
  <2> HIDE DEF s3
  <2> QED BY <1>8, <1>11, JoinTyped
<1>13. SliceHeader(p, h, type) = s4 \o cd
  BY <1>7
<1> HIDE DEF s4
<1>14. SliceHeader(p, h, type) \in Seq(CodeSet)
  BY <1>8, <1>12, <1>13, JoinTyped
<1>15. PICK z4 \in Nat : Path(Marks(b), s4, i, z4) /\ Path(Marks(b), cd, z4, j)
  BY <1>8, <1>12, <1>13, PathSplit
<1> HIDE DEF s3
<1>16. PICK z3 \in Nat : Path(Marks(b), s3, i, z3) /\ Path(Marks(b), ct, z3, z4)
  BY <1>8, <1>11, <1>15, PathSplit DEF s4
<1> HIDE DEF s2
<1>17. PICK z2 \in Nat : Path(Marks(b), s2, i, z2) /\ Path(Marks(b), cr, z2, z3)
  BY <1>8, <1>10, <1>16, PathSplit DEF s3
<1>18. PICK z1 \in Nat : Path(Marks(b), q, i, z1) /\ Path(Marks(b), cf, z1, z2)
  BY <1>5, <1>8, <1>17, PathSplit DEF s2
<1>19. Chain(b, h, eq, i, z1)
  BY <1>1, <1>2, <1>18, LeafChain DEF Fits
<1>20. Chain(b, h, kf, z1, z2)
  <2>1. Path(Marks(b), f, z1, z2) => Chain(b, h, ef, z1, z2)
    BY FieldChain DEF f, ef
  <2>2. Path(Marks(b), If(p.frame_mbs_only_flag = 0, f), z1, z2)
    BY <1>18 DEF cf
  <2>3. p.frame_mbs_only_flag = 0 <=> StreamSps["frame_mbs_only_flag"] = 0
    BY <1>3
  <2>4. Chain(b, h, When(StreamSps["frame_mbs_only_flag"] = 0, ef), z1, z2)
    BY <1>1, <1>5, <2>1, <2>2, <2>3, WhenChain
  <2> QED BY <2>4 DEF kf
<1>21. Chain(b, h, kr, z2, z3)
  <2>1. Path(Marks(b), If(type = 5, r), z2, z3)
    BY <1>17 DEF cr
  <2>2. Chain(b, h, When(type = 5, er), z2, z3)
    BY <1>1, <1>2, <2>1, FitsChain
  <2> QED BY <2>2 DEF kr
<1>22. Chain(b, h, kt, z3, z4)
  <2>1. Path(Marks(b), If(p.poc_type = 0, t), z3, z4)
    BY <1>16 DEF ct
  <2>2. p.poc_type = 0 <=> StreamSps["poc_type"] = 0
    BY <1>3
  <2>3. Chain(b, h, When(StreamSps["poc_type"] = 0, et), z3, z4)
    BY <1>1, <1>2, <2>1, <2>2, FitsChain
  <2> QED BY <2>3 DEF kt
<1>23. Chain(b, h, kd, z4, j)
  <2> DEFINE sets == /\ StreamSps["poc_type"] = 1
                     /\ StreamSps["delta_pic_order_always_zero_flag"] = 0
  <2>1. Path(Marks(b), If(zero, d), z4, j)
    BY <1>15 DEF cd
  <2>2. zero <=> sets
    BY <1>3
  <2>3. kd = When(sets, ed)
    BY DEF kd
  <2> HIDE DEF sets
  <2>4. Chain(b, h, When(sets, ed), z4, j)
    BY <1>1, <1>2, <2>1, <2>2, FitsChain
  <2> QED BY <2>3, <2>4
<1> DEFINE h2 == eq \o kf
           h3 == h2 \o kr
           h4 == h3 \o kt
<1>24. h2 \in Seq(Elements)
  BY <1>6, <1>9
<1>25. Chain(b, h, h2, i, z2)
  BY <1>6, <1>9, <1>19, <1>20, ChainCat
<1> HIDE DEF h2
<1>26. h3 \in Seq(Elements)
  BY <1>9, <1>24
<1>27. Chain(b, h, h3, i, z3)
  BY <1>9, <1>21, <1>24, <1>25, ChainCat
<1> HIDE DEF h3
<1>28. h4 \in Seq(Elements)
  BY <1>9, <1>26
<1>29. Chain(b, h, h4, i, z4)
  BY <1>9, <1>22, <1>26, <1>27, ChainCat
<1> HIDE DEF h4
<1>30. Chain(b, h, h4 \o kd, i, j)
  BY <1>9, <1>23, <1>28, <1>29, ChainCat
<1> QED BY <1>4, <1>14, <1>30 DEF h2, h3, h4

-----------------------------------------------------------------------------
(* From the bits the encoder wrote to those the reader has.                *)
LEMMA SpsTyped ==
  ASSUME NEW p \in SpsParameters
  PROVE  SpsData(p) \in Seq(CodeSet)
<1> DEFINE a == <<U(8, p.profile_idc), U(16, Free), UE(p.sps_id)>>
           b == If(p.profile_idc \in HighProfiles, HighData(p))
           c == <<UE(p.log2_max_frame_num), UE(p.poc_type)>>
           d == PocData(p)
           e == <<UE(Free), U(1, Free), UE(p.mb_width), UE(p.mb_height),
                  U(1, p.frame_mbs_only_flag)>>
           f == If(p.frame_mbs_only_flag = 0, <<U(1, Free)>>)
           g == <<U(1, Free), U(1, p.crop)>>
           h == If(p.crop = 1, <<UE(Free), UE(Free), UE(Free), UE(Free)>>)
           i == <<U(1, p.vui)>>
           j == If(p.vui = 1, VuiData(p))
<1>1. /\ b \in Seq(CodeSet) /\ d \in Seq(CodeSet) /\ f \in Seq(CodeSet)
      /\ h \in Seq(CodeSet) /\ j \in Seq(CodeSet)
  BY TablesTyped, VuiTyped, PlainTyped, IfTyped
<1>2. /\ a \in Seq(CodeSet) /\ c \in Seq(CodeSet)
  BY HeadCodes
<1>3. /\ e \in Seq(CodeSet) /\ g \in Seq(CodeSet)
  BY HeadCodes
<1>4. i \in Seq(CodeSet)
  BY HeadCodes
<1>5. SpsData(p) = a \o b \o c \o d \o e \o f \o g \o h \o i \o j
  BY DEF SpsData
<1> HIDE DEF a, b, c, d, e, f, g, h, i, j
<1>6. a \o b \o c \o d \o e \in Seq(CodeSet)
  BY <1>1, <1>2, <1>3, JoinTyped
<1>7. (a \o b \o c \o d \o e) \o f \o g \o h \o i \o j \in Seq(CodeSet)
  BY <1>1, <1>3, <1>4, <1>6, JoinTyped
<1> QED BY <1>5, <1>7

LEMMA SliceTyped ==
  ASSUME NEW p \in SpsParameters, NEW h \in SliceParameters, NEW type
  PROVE  SliceHeader(p, h, type) \in Seq(CodeSet)
<1> DEFINE f == <<U(1, h.field_pic)>> \o If(h.field_pic = 1, <<U(1, Free)>>)
           t == <<U(p.log2_max_poc_lsb + 4, h.i_pic_order_cnt_lsb)>>
           n == <<U(p.log2_max_frame_num + 4, h.i_frame_num)>>
           a == <<UE(Free), UE(h.i_slice_type), UE(Free)>>
           b == If(p.separate_colour_plane_flag = 1, <<U(2, Free)>>)
           cf == If(p.frame_mbs_only_flag = 0, f)
           cr == If(type = 5, <<UE(Free)>>)
           ct == If(p.poc_type = 0, t)
           cd == If(p.poc_type = 1 /\ p.delta_pic_order_always_zero_flag = 0,
                    <<SE>>)
<1>1. a \in Seq(CodeSet) /\ n \in Seq(CodeSet) /\ t \in Seq(CodeSet)
  BY SliceCodes
<1>2. f \in Seq(CodeSet)
  <2>1. <<U(1, h.field_pic)>> \in Seq(CodeSet)
    BY SliceCodes
  <2>2. If(h.field_pic = 1, <<U(1, Free)>>) \in Seq(CodeSet)
    BY PlainTyped, IfTyped
  <2> QED BY <2>1, <2>2, JoinTyped
<1>3. <<UE(Free)>> \in Seq(CodeSet) /\ <<SE>> \in Seq(CodeSet)
  BY CodesTyped
<1> HIDE DEF f, t, n, a
<1>4. /\ b \in Seq(CodeSet) /\ cf \in Seq(CodeSet) /\ cr \in Seq(CodeSet)
      /\ ct \in Seq(CodeSet) /\ cd \in Seq(CodeSet)
  BY <1>1, <1>2, <1>3, PlainTyped, IfTyped
<1>5. SliceHeader(p, h, type) = a \o b \o n \o cf \o cr \o ct \o cd
  BY DEF SliceHeader, a, n, f, t
<1> HIDE DEF b, cf, cr, ct, cd
<1> QED BY <1>1, <1>4, <1>5, JoinTyped

(* What stands in front of bit l depends on those bits only.               *)
LEMMA BinarySame ==
  ASSUME NEW b, NEW b2, NEW l \in Nat, \A k \in 1 .. l : b2[k] = b[k],
         NEW i \in Nat, NEW n \in Nat, i + n <= l, NEW v, Binary(b, i, n, v)
  PROVE  Binary(b2, i, n, v)
<1>1. \A k \in 1 .. n : b2[i + k] = b[i + k]
  OBVIOUS
<1> QED BY <1>1 DEF Binary

(* So a code stands where it stood, if the bits in front of l agree.       *)
LEMMA StandsSame ==
  ASSUME NEW b, NEW b2, NEW l \in Nat, \A k \in 1 .. l : b2[k] = b[k],
         NEW i \in Nat, NEW j \in Nat, j <= l, NEW c \in CodeSet,
         Stands(b, i, j, c)
  PROVE  Stands(b2, i, j, c)
<1>1. c.bits \in Nat
  BY DEF CodeSet
<1>2. CASE c.code = "u"
  <2>1. j = i + c.bits /\ (c.value # Free => Binary(b, i, c.bits, c.value))
    BY <1>2 DEF Stands
  <2>2. c.value # Free => Binary(b2, i, c.bits, c.value)
    BY <1>1, <2>1, BinarySame
  <2> QED BY <1>2, <2>1, <2>2 DEF Stands
<1>3. CASE c.code # "u"
  <2>1. PICK z \in 0 .. 30 :
          /\ j = i + 2 * z + 1
          /\ b[i + z + 1] = 1 /\ \A k \in 1 .. z : b[i + k] = 0
          /\ c.value # Free => Binary(b, i + z + 1, z, c.value + 1 - 2 ^ z)
    BY <1>3 DEF Stands
  <2>2. b2[i + z + 1] = 1
    <3>1. i + z + 1 \in 1 .. l
      BY <2>1
    <3> QED BY <2>1, <3>1
  <2>3. \A k \in 1 .. z : b2[i + k] = 0
    <3>1. \A k \in 1 .. z : i + k \in 1 .. l
      BY <2>1
    <3> QED BY <2>1, <3>1
  <2>4. c.value # Free => Binary(b2, i + z + 1, z, c.value + 1 - 2 ^ z)
    <3>1. i + z + 1 \in Nat /\ z \in Nat /\ (i + z + 1) + z <= l
      BY <2>1
    <3> QED BY <2>1, <3>1, BinarySame
  <2> QED BY <1>3, <2>1, <2>2, <2>3, <2>4 DEF Stands
<1> QED BY <1>2, <1>3

(* What the encoder wrote stands in any bits that begin in the same way.   *)
LEMMA WrittenPath ==
  ASSUME NEW b \in Seq({0, 1}), NEW b2, NEW l \in Nat,
         \A k \in 1 .. l : b2[k] = b[k],
         NEW codes \in Seq(CodeSet), NEW at, Written(b, at, codes), at[1] = 0,
         at[Len(at)] <= l
  PROVE  /\ Path(Marks(b2), codes, 0, at[Len(at)])
         /\ at[Len(at)] \in 0 .. Len(b)
<1>1. /\ at \in Seq(0 .. Len(b)) /\ Len(at) = Len(codes) + 1
      /\ \A k \in DOMAIN codes : Stands(b, at[k], at[k + 1], codes[k])
  BY DEF Written
<1> DEFINE j == at[Len(at)]
<1>2. at \in Seq(Nat)
  <2>1. 0 .. Len(b) \subseteq Nat
    OBVIOUS
  <2> QED BY <1>1, <2>1, SubSeqType
<1>3. Len(codes) \in Nat /\ \A k \in 1 .. Len(codes) + 1 : at[k] \in 0 .. Len(b)
  BY <1>1
<1>4. j \in 0 .. Len(b)
  <2>1. Len(codes) + 1 \in 1 .. Len(codes) + 1
    BY <1>3
  <2> QED BY <1>1, <1>3, <2>1
<1>5. Along(Marks(b), codes, at)
  <2>1. ASSUME NEW k \in 1 .. Len(codes)
        PROVE  <<codes[k], at[k], at[k + 1]>> \in Marks(b)
    <3>1. Stands(b, at[k], at[k + 1], codes[k])
      <4>1. k \in DOMAIN codes
        OBVIOUS
      <4>2. \A n \in DOMAIN codes : Stands(b, at[n], at[n + 1], codes[n])
        BY <1>1
      <4> QED BY <4>1, <4>2
    <3>2. codes[k] \in CodeSet
      OBVIOUS
    <3>3. at[k] \in Nat /\ at[k + 1] \in Nat
      <4>1. k \in 1 .. Len(codes) + 1 /\ k + 1 \in 1 .. Len(codes) + 1
        OBVIOUS
      <4>2. at[k] \in 0 .. Len(b) /\ at[k + 1] \in 0 .. Len(b)
        BY <1>3, <4>1
      <4> QED BY <4>2
    <3> QED BY <3>1, <3>2, <3>3, MarkIs
  <2> QED BY <1>1, <1>2, <2>1 DEF Along
<1>6. Path(Marks(b), codes, 0, j)
  BY <1>1, <1>5 DEF Path
<1>7. \A k \in 1 .. Len(codes), m, n \in Nat :
        n <= j /\ <<codes[k], m, n>> \in Marks(b) => <<codes[k], m, n>> \in Marks(b2)
  <2> SUFFICES ASSUME NEW k \in 1 .. Len(codes), NEW m \in Nat, NEW n \in Nat,
                      n <= j, <<codes[k], m, n>> \in Marks(b)
               PROVE  <<codes[k], m, n>> \in Marks(b2)
    OBVIOUS
  <2>1. codes[k] \in CodeSet /\ Stands(b, m, n, codes[k])
    BY MarkIs
  <2>2. n <= l
    BY <1>4
  <2>3. Stands(b2, m, n, codes[k])
    <3> HIDE DEF j
    <3> QED BY <2>1, <2>2, StandsSame
  <2> QED BY <2>1, <2>3, MarkIs
<1> HIDE DEF j
<1>8. Path(Marks(b2), codes, 0, j)
  BY <1>6, <1>7, MarksUpward, PathSame
<1> QED BY <1>4, <1>8 DEF j

(* Bytes that are the same have the same bits.                             *)
LEMMA BitsSame ==
  ASSUME NEW bytes \in Seq(0 .. 255), NEW bytes2 \in Seq(0 .. 255),
         NEW n \in Nat, n <= Len(bytes), n <= Len(bytes2),
         \A k \in 1 .. n : bytes2[k] = bytes[k]
  PROVE  \A k \in 1 .. 8 * n : Bits(bytes2)[k] = Bits(bytes)[k]
<1> SUFFICES ASSUME NEW k \in 1 .. 8 * n
             PROVE  Bits(bytes2)[k] = Bits(bytes)[k]
  OBVIOUS
<1> DEFINE d == ((k - 1) \div 8) + 1
           scale == 2 ^ (7 - ((k - 1) % 8))
<1>1. d \in 1 .. n
  OBVIOUS
<1>2. k \in 1 .. 8 * Len(bytes) /\ k \in 1 .. 8 * Len(bytes2)
  OBVIOUS
<1>3. Bits(bytes)[k] = (bytes[d] \div scale) % 2
  BY <1>2 DEF Bits
<1>4. Bits(bytes2)[k] = (bytes2[d] \div scale) % 2
  BY <1>2 DEF Bits
<1> HIDE DEF d, scale
<1>5. bytes2[d] = bytes[d]
  BY <1>1
<1> QED BY <1>3, <1>4, <1>5

-----------------------------------------------------------------------------
(* The bytes the reader is given are those the encoder protected.          *)
Prevents(bytes, k) ==
  k > 2 /\ bytes[k - 2] = 0 /\ bytes[k - 1] = 0 /\ bytes[k] = 3

(* After m bytes of the unit q has the bytes of rbsp that lie there.       *)
Reached(rbsp, place, m, q) ==
  /\ q \in Seq(0 .. 255) /\ Len(q) <= Len(rbsp)
  /\ \A k \in 1 .. Len(q) : q[k] = rbsp[k]
  /\ \A k \in 1 .. Len(rbsp) : place[k] <= m <=> k <= Len(q)

(* One more byte of the unit: a prevention byte is left out, another       *)
(* taken.                                                                  *)
LEMMA ReachedNext ==
  ASSUME NEW rbsp, NEW place, NEW body \in Seq(0 .. 255),
         Prevented(rbsp, place, body),
         NEW m \in 1 .. Len(body), NEW q, Reached(rbsp, place, m - 1, q),
         NEW r, r = IF Prevents(body, m) THEN q ELSE Append(q, body[m])
  PROVE  Reached(rbsp, place, m, r)
<1>1. /\ rbsp \in Seq(0 .. 255) /\ Len(rbsp) \in Nat
      /\ DOMAIN place = 1 .. Len(rbsp)
      /\ \A k \in 1 .. Len(rbsp) : place[k] \in 1 .. Len(body)
      /\ \A k \in 1 .. Len(rbsp) : body[place[k]] = rbsp[k]
      /\ \A j, k \in 1 .. Len(rbsp) : j < k => place[j] < place[k]
  BY DEF Prevented
<1>2. m \in {place[k] : k \in DOMAIN place} <=> ~ Prevents(body, m)
  BY DEF Prevented, Prevents
<1>3. /\ q \in Seq(0 .. 255) /\ Len(q) <= Len(rbsp) /\ Len(q) \in Nat
      /\ \A k \in 1 .. Len(q) : q[k] = rbsp[k]
      /\ \A k \in 1 .. Len(rbsp) : place[k] <= m - 1 <=> k <= Len(q)
  BY DEF Reached
<1>4. CASE Prevents(body, m)
  <2>1. r = q
    BY <1>4
  <2>2. \A k \in 1 .. Len(rbsp) : place[k] # m
    BY <1>1, <1>2, <1>4
  <2>3. \A k \in 1 .. Len(rbsp) : place[k] <= m <=> place[k] <= m - 1
    BY <1>1, <2>2
  <2> QED BY <1>3, <2>1, <2>3 DEF Reached
<1>5. CASE ~ Prevents(body, m)
  <2>1. PICK n \in 1 .. Len(rbsp) : place[n] = m
    BY <1>1, <1>2, <1>5
  <2>2. n = Len(q) + 1
    <3>1. ~ (n <= Len(q))
      BY <1>3, <2>1
    <3>2. ~ (Len(q) + 1 < n)
      <4>1. SUFFICES ASSUME Len(q) + 1 < n PROVE FALSE
        OBVIOUS
      <4>2. Len(q) + 1 \in 1 .. Len(rbsp)
        BY <1>3, <4>1
      <4>3. place[Len(q) + 1] < place[n]
        BY <1>1, <4>1, <4>2
      <4>4. place[Len(q) + 1] <= m - 1
        BY <1>1, <2>1, <4>2, <4>3
      <4> QED BY <1>3, <4>2, <4>4
    <3> QED BY <1>3, <3>1, <3>2
  <2>3. r = Append(q, body[m]) /\ body[m] = rbsp[n] /\ body[m] \in 0 .. 255
    BY <1>1, <1>5, <2>1, ItemIs
  <2>4. /\ r \in Seq(0 .. 255) /\ Len(r) = Len(q) + 1
        /\ \A k \in 1 .. Len(q) : r[k] = q[k]
        /\ r[Len(q) + 1] = rbsp[n]
    BY <1>3, <2>3
  <2>5. \A k \in 1 .. Len(r) : r[k] = rbsp[k]
    <3>1. \A k \in 1 .. Len(r) : k \in 1 .. Len(q) \/ k = Len(q) + 1
      BY <1>3, <2>4
    <3> QED BY <1>3, <2>2, <2>4, <3>1
  <2>6. ASSUME NEW k \in 1 .. Len(rbsp)
        PROVE  place[k] <= m <=> k <= Len(r)
    <3>1. place[k] \in Nat /\ (k < n => place[k] < m) /\ (n < k => m < place[k])
      BY <1>1, <2>1
    <3>2. k <= Len(r) <=> ~ (n < k)
      BY <1>3, <2>2, <2>4
    <3>3. ~ (k < n) /\ ~ (n < k) => place[k] = m
      <4>1. ~ (k < n) /\ ~ (n < k) => k = n
        OBVIOUS
      <4> QED BY <2>1, <4>1
    <3> QED BY <3>1, <3>2, <3>3
  <2>7. Len(r) <= Len(rbsp)
    BY <2>2, <2>4
  <2> QED BY <2>4, <2>5, <2>6, <2>7 DEF Reached
<1> QED BY <1>4, <1>5

(* Up to w the bytes are those of the unit; behind it they may be others.  *)
LEMMA ScanReaches ==
  ASSUME NEW rbsp, NEW place, NEW body \in Seq(0 .. 255),
         Prevented(rbsp, place, body), NEW bytes \in Seq(0 .. 255),
         NEW behind, NEW f, Scanned(bytes, behind, Len(bytes), f),
         NEW w \in Nat, w <= Len(bytes), w <= Len(body),
         \A k \in 1 .. w : bytes[k] = body[k],
         \A k \in 1 .. w : Escaped(bytes, behind, k) <=> Prevents(body, k)
  PROVE  Reached(rbsp, place, w, f[w])
<1> DEFINE wrong == {m \in 0 .. w : ~ Reached(rbsp, place, m, f[m])}
<1>1. SUFFICES ASSUME wrong # {} PROVE FALSE
  <2>1. w \in 0 .. w
    OBVIOUS
  <2> QED BY <2>1
<1>2. PICK m \in wrong : \A k \in wrong : m <= k
  <2>1. wrong \in SUBSET Nat
    OBVIOUS
  <2> HIDE DEF wrong
  <2> QED BY <1>1, <2>1, Least
<1>3. m \in 0 .. w /\ ~ Reached(rbsp, place, m, f[m])
  OBVIOUS
<1>4. m # 0
  <2>1. f[0] = <<>>
    BY DEF Scanned
  <2>2. /\ rbsp \in Seq(0 .. 255) /\ Len(rbsp) \in Nat
        /\ \A k \in 1 .. Len(rbsp) : place[k] \in 1 .. Len(body)
    BY DEF Prevented
  <2>3. Reached(rbsp, place, 0, <<>>)
    BY <2>2 DEF Reached
  <2> QED BY <1>3, <2>1, <2>3
<1>5. m - 1 \in 0 .. w /\ ~ (m <= m - 1)
  BY <1>3, <1>4
<1>6. m - 1 \notin wrong
  <2> HIDE DEF wrong
  <2> QED BY <1>2, <1>5
<1>7. Reached(rbsp, place, m - 1, f[m - 1])
  BY <1>5, <1>6
<1>8. f[m] = IF Prevents(body, m) THEN f[m - 1] ELSE Append(f[m - 1], body[m])
  <2>1. m \in 1 .. w /\ m \in 1 .. Len(bytes)
    BY <1>3, <1>4
  <2>2. f[m] = IF Escaped(bytes, behind, m) THEN f[m - 1]
               ELSE Append(f[m - 1], bytes[m])
    BY <2>1 DEF Scanned
  <2> QED BY <2>1, <2>2
<1>9. m \in 1 .. Len(body)
  BY <1>3, <1>4
<1>10. Reached(rbsp, place, m, f[m])
  <2> HIDE DEF wrong
  <2> QED BY <1>7, <1>8, <1>9, ReachedNext
<1> QED BY <1>3, <1>10

(* What has been taken over stays in front.                                *)
LEMMA ScanKeeps ==
  ASSUME NEW bytes \in Seq(0 .. 255), NEW behind, NEW f,
         Scanned(bytes, behind, Len(bytes), f), NEW w \in 0 .. Len(bytes)
  PROVE  LET r == f[Len(bytes)]
         IN  /\ Len(f[w]) <= Len(r)
             /\ \A k \in 1 .. Len(f[w]) : r[k] = f[w][k]
<1> DEFINE n == Len(bytes)
           q == f[w]
           Kept(m) == /\ Len(q) <= Len(f[m])
                      /\ \A k \in 1 .. Len(q) : f[m][k] = q[k]
           wrong == {m \in w .. n : ~ Kept(m)}
<1>1. /\ n \in Nat /\ f \in [0 .. n -> Seq(0 .. 255)]
      /\ \A k \in 1 .. n :
           f[k] = IF Escaped(bytes, behind, k) THEN f[k - 1]
                  ELSE Append(f[k - 1], bytes[k])
  BY DEF Scanned
<1>2. SUFFICES ASSUME wrong # {} PROVE FALSE
  <2>1. n \in w .. n
    BY <1>1
  <2> HIDE DEF Kept
  <2>2. wrong = {} => Kept(n)
    BY <2>1
  <2> QED BY <2>2 DEF Kept
<1>3. PICK m \in wrong : \A k \in wrong : m <= k
  <2>1. wrong \in SUBSET Nat
    <3> HIDE DEF Kept
    <3> QED BY <1>1
  <2> HIDE DEF wrong
  <2> QED BY <1>2, <2>1, Least
<1> HIDE DEF n
<1>4. m \in w .. n /\ ~ Kept(m)
  OBVIOUS
<1>5. q \in Seq(0 .. 255)
  BY <1>1 DEF n
<1>6. m # w
  <2>1. Kept(w)
    BY <1>5
  <2> QED BY <1>4, <2>1
<1>7. m - 1 \in w .. n /\ ~ (m <= m - 1) /\ m \in 1 .. n /\ m - 1 \in 0 .. n
  BY <1>1, <1>4, <1>6
<1>8. Kept(m - 1)
  <2> HIDE DEF Kept
  <2>1. m - 1 \notin wrong
    <3> HIDE DEF wrong
    <3> QED BY <1>3, <1>7
  <2> QED BY <1>7, <2>1
<1>9. f[m - 1] \in Seq(0 .. 255) /\ bytes[m] \in 0 .. 255
  <2>1. f[m - 1] \in Seq(0 .. 255)
    BY <1>1, <1>7
  <2>2. m \in 1 .. Len(bytes)
    BY <1>7 DEF n
  <2> QED BY <2>1, <2>2, ItemIs
<1>10. CASE f[m] = f[m - 1]
  BY <1>4, <1>8, <1>10
<1>11. CASE f[m] = Append(f[m - 1], bytes[m])
  <2> DEFINE t == f[m - 1]
             x == bytes[m]
  <2>1. /\ t \in Seq(0 .. 255) /\ x \in 0 .. 255 /\ f[m] = Append(t, x)
        /\ Len(q) <= Len(t) /\ \A k \in 1 .. Len(q) : t[k] = q[k]
        /\ Len(q) \in Nat
    BY <1>5, <1>8, <1>9, <1>11
  <2> HIDE DEF t, x, q
  <2>2. Len(Append(t, x)) = Len(t) + 1 /\ \A k \in 1 .. Len(t) : Append(t, x)[k] = t[k]
    BY <2>1
  <2>3. Kept(m)
    BY <2>1, <2>2
  <2> QED BY <1>4, <2>3
<1>12. f[m] = f[m - 1] \/ f[m] = Append(f[m - 1], bytes[m])
  BY <1>1, <1>7
<1> QED BY <1>10, <1>11, <1>12

(* All bytes up to w have been taken over, in a window as in the whole.    *)
LEMMA UnescapeReaches ==
  ASSUME NEW rbsp, NEW place, NEW body \in Seq(0 .. 255),
         Prevented(rbsp, place, body), NEW bytes \in Seq(0 .. 255),
         NEW behind \in 0 .. 1, NEW w \in Nat, w <= Len(bytes), w <= Len(body),
         \A k \in 1 .. w : bytes[k] = body[k],
         behind = 1 => w = Len(bytes) /\ w = Len(body)
  PROVE  LET r == Unescape(bytes, behind)
         IN  \E q : /\ Reached(rbsp, place, w, q)
                    /\ Len(q) <= Len(r) /\ \A k \in 1 .. Len(q) : r[k] = q[k]
                    /\ w = Len(bytes) => r = q
<1>1. PICK f : /\ Scanned(bytes, behind, Len(bytes), f)
               /\ Unescape(bytes, behind) = f[Len(bytes)]
  BY UnescapeIs
<1>2. ASSUME NEW k \in 1 .. w
      PROVE  Escaped(bytes, behind, k) <=> Prevents(body, k)
  <2>1. bytes[k] = body[k]
    OBVIOUS
  <2>2. k > 2 => bytes[k - 1] = body[k - 1] /\ bytes[k - 2] = body[k - 2]
    <3>1. k > 2 => k - 1 \in 1 .. w /\ k - 2 \in 1 .. w
      OBVIOUS
    <3> QED BY <3>1
  <2>3. Prevents(body, k) => k + behind <= Len(bytes)
    <3>1. CASE behind = 0
      BY <3>1
    <3>2. CASE behind = 1
      <4>1. w = Len(bytes) /\ w = Len(body)
        BY <3>2
      <4>2. Len(body) \in 1 .. Len(body) => ~ Prevents(body, Len(body))
        <5> DEFINE taken == {place[i] : i \in DOMAIN place}
        <5>1. Len(body) \in taken
          BY DEF Prevented
        <5>2. \A i \in DOMAIN body : i \in taken <=> ~ Prevents(body, i)
          BY DEF Prevented, Prevents
        <5> HIDE DEF taken
        <5>3. DOMAIN body = 1 .. Len(body)
          OBVIOUS
        <5> QED BY <5>1, <5>2, <5>3
      <4>3. Prevents(body, k) => k # w
        BY <4>1, <4>2
      <4> QED BY <3>2, <4>1, <4>3
    <3> QED BY <3>1, <3>2
  <2> QED BY <2>1, <2>2, <2>3 DEF Escaped, Prevents
<1>3. Reached(rbsp, place, w, f[w])
  BY <1>1, <1>2, ScanReaches
<1>4. w \in 0 .. Len(bytes)
  OBVIOUS
<1>5. /\ Len(f[w]) <= Len(f[Len(bytes)])
      /\ \A k \in 1 .. Len(f[w]) : f[Len(bytes)][k] = f[w][k]
  BY <1>1, <1>4, ScanKeeps
<1> QED BY <1>1, <1>3, <1>5

(* The whole unit.                                                         *)
LEMMA UnescapeAll ==
  ASSUME NEW rbsp, NEW place, NEW body \in Seq(0 .. 255),
         Prevented(rbsp, place, body), NEW behind \in 0 .. 1
  PROVE  Unescape(body, behind) = rbsp
<1> DEFINE n == Len(body)
           r == Unescape(body, behind)
<1>1. n \in Nat /\ n <= Len(body)
  OBVIOUS
<1>2. PICK q : Reached(rbsp, place, n, q) /\ (n = Len(body) => r = q)
  BY <1>1, UnescapeReaches
<1>3. Reached(rbsp, place, n, r)
  BY <1>2
<1> HIDE DEF r
<1>4. /\ rbsp \in Seq(0 .. 255) /\ Len(rbsp) \in Nat
      /\ \A k \in 1 .. Len(rbsp) : place[k] \in 1 .. n
  BY DEF Prevented
<1>5. /\ r \in Seq(0 .. 255) /\ Len(r) \in Nat /\ Len(r) <= Len(rbsp)
      /\ \A k \in 1 .. Len(r) : r[k] = rbsp[k]
      /\ \A k \in 1 .. Len(rbsp) : place[k] <= n <=> k <= Len(r)
  BY <1>3 DEF Reached
<1>6. Len(r) = Len(rbsp)
  <2>1. \A k \in 1 .. Len(rbsp) : k <= Len(r)
    BY <1>1, <1>4, <1>5
  <2>2. Len(rbsp) # 0 => Len(rbsp) \in 1 .. Len(rbsp)
    BY <1>4
  <2>3. Len(rbsp) # 0 => Len(rbsp) <= Len(r)
    BY <2>1, <2>2
  <2> QED BY <1>4, <1>5, <2>3
<1>7. r = rbsp
  BY <1>4, <1>5, <1>6, SameSeq
<1> QED BY <1>7 DEF r

-----------------------------------------------------------------------------
(* Reading one element.                                                    *)
LEMMA ElementRead ==
  ASSUME s \in Reader, NEW x \in Headers, todo \in Seq(Elements), todo # <<>>,
         NEW j, j <= Len(s.bits), Chain(s.bits, x, todo, s.pos, j)
  PROVE  LET e == Head(todo)
             r == Read(e)
         IN  /\ Known(x, e.name)
             /\ Val(x, e.name) # Free => r.value = Val(x, e.name)
             /\ \E m \in Nat :
                  /\ Path(Marks(s.bits), Under(x, e.name), r.s.pos, m)
                  /\ Chain(s.bits, x, Tail(todo), m, j)
<1> DEFINE e == Head(todo)
<1>1. e \in Elements /\ Tail(todo) \in Seq(Elements)
  OBVIOUS
<1>2. PICK m \in Nat : /\ <<e, s.pos, m>> \in Branches(s.bits, x)
                       /\ Path(Branches(s.bits, x), Tail(todo), m, j)
  BY PathFirst DEF Chain
<1> HIDE DEF e
<1>3. Known(x, e.name)
  BY <1>2, BranchIs
<1>4. PICK n \in Nat : /\ <<CodeOf(x, e), s.pos, n>> \in Marks(s.bits)
                       /\ Path(Marks(s.bits), Under(x, e.name), n, m)
  BY <1>2, BranchIs
<1>5. /\ Val(x, e.name) \in Int /\ Under(x, e.name) \in Seq(CodeSet)
      /\ e.bits \in Nat
  <2>1. CodeOf(x, e) \in CodeSet
    BY <1>4, MarkIs
  <2> QED BY <1>3, <2>1, KnownTyped DEF CodeOf, CodeSet
<1>6. n <= m
  <2>1. Upward(Marks(s.bits))
    BY MarksUpward
  <2> QED BY <1>4, <1>5, <2>1, PathRises
<1>7. m <= j
  <2>1. Upward(Branches(s.bits, x))
    BY BranchesUpward
  <2> QED BY <1>1, <1>2, <2>1, PathRises
<1>8. n <= Len(s.bits)
  <2>1. j \in Nat
    BY <1>1, <1>2, PathEnds
  <2>2. Len(s.bits) \in Nat
    BY DEF Reader
  <2> QED BY <1>6, <1>7, <2>1, <2>2
<1>9. Stands(s.bits, s.pos, n, CodeOf(x, e))
  BY <1>4, MarkIs
<1>10. /\ Read(e).s.pos = n
       /\ Val(x, e.name) # Free /\ e.code # "se" => Read(e).value = Val(x, e.name)
  BY <1>1, <1>5, <1>8, <1>9, ReadIs DEF CodeOf, e
<1>11. e.code = "se" => Val(x, e.name) = Free
  BY <1>1 DEF Elements, Val, e
<1>12. Chain(s.bits, x, Tail(todo), m, j)
  BY <1>2 DEF Chain
<1> QED BY <1>3, <1>4, <1>10, <1>11, <1>12 DEF e

(* No name is common to the elements of an SPS and of a slice.             *)
LEMMA NamesKnown ==
  /\ \A p \in SpsParameters : \A name : Known(p, name) =>
       name \in {"x", "transform_bypass", "vcl_hrd_alone"} \cup SpsNames
  /\ \A h \in SliceParameters : \A name : Known(h, name) =>
       name \in {"x", "transform_bypass", "field_pic"} \cup SliceFields
<1>1. ASSUME NEW p \in SpsParameters, NEW name, Known(p, name)
      PROVE  name \in {"x", "transform_bypass", "vcl_hrd_alone"} \cup SpsNames
  <2>1. DOMAIN p = SpsNames
    BY Parameters
  <2> QED BY <1>1, <2>1 DEF Known
<1>2. ASSUME NEW h \in SliceParameters, NEW name, Known(h, name)
      PROVE  name \in {"x", "transform_bypass", "field_pic"} \cup SliceFields
  <2>1. DOMAIN h = SliceFields \cup {"field_pic"}
    BY SliceValues
  <2>2. "vcl_hrd" \notin DOMAIN h
    BY <2>1 DEF SliceFields
  <2> QED BY <1>2, <2>1, <2>2 DEF Known
<1> QED BY <1>1, <1>2

(* Of an SPS: the value is that of the parameter, the function does not    *)
(* give up, and what is to be read next lies ahead.                        *)
LEMMA SpsStep ==
  ASSUME s \in Reader, NEW p \in SpsParameters, todo \in Seq(Elements),
         todo # <<>>, NEW j, j <= Len(s.bits),
         Chain(s.bits, p, todo, s.pos, j),
         Head(todo).name = "sps_id" => StreamSps["profile_idc"] = p.profile_idc
  PROVE  LET e == Head(todo)
             r == Read(e)
         IN  /\ Known(p, e.name)
             /\ Val(p, e.name) # Free => r.value = Val(p, e.name)
             /\ ~ GivesUp(e.name, r.value)
             /\ Chain(s.bits, p, Follow(e.name, r.value) \o Tail(todo),
                      r.s.pos, j)
<1> DEFINE e == Head(todo)
           r == Read(e)
           v == r.value
<1>1. p \in Headers
  BY DEF Headers
<1>2. /\ Known(p, e.name)
      /\ Val(p, e.name) # Free => v = Val(p, e.name)
      /\ \E m \in Nat :
           /\ Path(Marks(s.bits), Under(p, e.name), r.s.pos, m)
           /\ Chain(s.bits, p, Tail(todo), m, j)
  BY <1>1, ElementRead
<1>3. PICK m \in Nat : /\ Path(Marks(s.bits), Under(p, e.name), r.s.pos, m)
                       /\ Chain(s.bits, p, Tail(todo), m, j)
  BY <1>2
<1>4. e \in Elements /\ Tail(todo) \in Seq(Elements)
  OBVIOUS
<1>5. e.name \in Names /\ (e.name = "x" \/ v \in Int)
  <2>1. e.name = "x" \/ r.value \in Int
    BY <1>4, ReadTyped
  <2> QED BY <1>4, <2>1 DEF Elements
<1>6. ~ GivesUp(e.name, v)
  <2>1. /\ p.sps_id \in Nat /\ p.num_reorder_frames \in Nat
        /\ p.sps_id <= 31 /\ p.num_reorder_frames <= 16
    BY Parameters DEF SpsNames
  <2> HIDE DEF e, v
  <2>2. CASE e.name = "sps_id"
    <3>1. Val(p, e.name) = p.sps_id
      BY <2>2 DEF Val
    <3>2. v = p.sps_id
      BY <1>2, <2>1, <3>1 DEF Free
    <3> QED BY <2>1, <2>2, <3>2 DEF GivesUp
  <2>3. CASE e.name = "num_reorder_frames"
    <3>1. Val(p, e.name) = p.num_reorder_frames
      BY <2>3 DEF Val
    <3>2. v = p.num_reorder_frames
      BY <1>2, <2>1, <3>1 DEF Free
    <3>3. \A n \in Nat : n <= 16 => n \in 0 .. 16
      OBVIOUS
    <3>4. v \in 0 .. 16
      BY <2>1, <3>2, <3>3, Zenon
    <3> QED BY <2>3, <3>4 DEF GivesUp
  <2>4. CASE e.name \notin {"sps_id", "num_reorder_frames"}
    BY <2>4 DEF GivesUp
  <2> QED BY <2>2, <2>3, <2>4
<1>7. e.name = "sps_id" => StreamSps["profile_idc"] = p.profile_idc
  OBVIOUS
<1> HIDE DEF e, v, r
<1>8. Chain(s.bits, p, Follow(e.name, v), r.s.pos, m)
  BY <1>2, <1>3, <1>7, SpsFollows
<1>9. Follow(e.name, v) \in Seq(Elements)
  BY <1>5, FollowTyped
<1>10. Chain(s.bits, p, Follow(e.name, v) \o Tail(todo), r.s.pos, j)
  BY <1>3, <1>4, <1>8, <1>9, ChainCat
<1> QED BY <1>2, <1>6, <1>10 DEF e, v, r

(* The same of a slice.                                                    *)
LEMMA SliceStep ==
  ASSUME s \in Reader, NEW h \in SliceParameters, todo \in Seq(Elements),
         todo # <<>>, NEW j, j <= Len(s.bits),
         Chain(s.bits, h, todo, s.pos, j)
  PROVE  LET e == Head(todo)
             r == Read(e)
         IN  /\ Known(h, e.name)
             /\ Val(h, e.name) # Free => r.value = Val(h, e.name)
             /\ ~ GivesUp(e.name, r.value)
             /\ Chain(s.bits, h, Follow(e.name, r.value) \o Tail(todo),
                      r.s.pos, j)
<1> DEFINE e == Head(todo)
           r == Read(e)
           v == r.value
<1>1. h \in Headers
  BY DEF Headers
<1>2. /\ Known(h, e.name)
      /\ Val(h, e.name) # Free => v = Val(h, e.name)
      /\ \E m \in Nat :
           /\ Path(Marks(s.bits), Under(h, e.name), r.s.pos, m)
           /\ Chain(s.bits, h, Tail(todo), m, j)
  BY <1>1, ElementRead
<1>3. PICK m \in Nat : /\ Path(Marks(s.bits), Under(h, e.name), r.s.pos, m)
                       /\ Chain(s.bits, h, Tail(todo), m, j)
  BY <1>2
<1>4. e \in Elements /\ Tail(todo) \in Seq(Elements)
  OBVIOUS
<1>5. e.name \in Names /\ (e.name = "x" \/ v \in Int)
  <2>1. e.name = "x" \/ r.value \in Int
    BY <1>4, ReadTyped
  <2> QED BY <1>4, <2>1 DEF Elements
<1> HIDE DEF e, v, r
<1>6. ~ GivesUp(e.name, v)
  <2>1. e.name \in {"x", "transform_bypass", "field_pic"} \cup SliceFields
    BY <1>2, NamesKnown
  <2> QED BY <2>1 DEF GivesUp, SliceFields
<1>8. Chain(s.bits, h, Follow(e.name, v), r.s.pos, m)
  BY <1>2, <1>3, SliceFollows
<1>9. Follow(e.name, v) \in Seq(Elements)
  BY <1>5, FollowTyped
<1>10. Chain(s.bits, h, Follow(e.name, v) \o Tail(todo), r.s.pos, j)
  BY <1>3, <1>4, <1>8, <1>9, ChainCat
<1> QED BY <1>2, <1>6, <1>10 DEF e, v, r

-----------------------------------------------------------------------------
(* The fields an element may still bring, itself or by what it makes the   *)
(* parser read next.                                                       *)
Brings(name) ==
  {name} \cup
  CASE name = "poc_type" ->
         {"log2_max_poc_lsb", "delta_pic_order_always_zero_flag"}
    [] name = "vui" ->
         {"bitstream_restriction_flag", "num_units_in_tick", "time_scale",
          "num_reorder_frames"}
    [] name = "timing" -> {"num_units_in_tick", "time_scale"}
    [] name = "bitstream_restriction_flag" -> {"num_reorder_frames"}
    [] OTHER -> {}

Comes(els, f) == \E k \in DOMAIN els : f \in Brings(els[k].name)

(* Only four elements bring fields other than themselves.                  *)
LEMMA Bringers ==
  \A name : \A f \in Brings(name) :
    f # name => name \in {"poc_type", "vui", "timing", "bitstream_restriction_flag"}
BY DEF Brings

(* A size that the standard allows does not wrap.                          *)
LEMMA PixelsAre ==
  ASSUME NEW v \in 0 .. 1054
  PROVE  Pixels(v) = 16 * (v + 1)
<1> DEFINE c == 2 ^ 28
           h == 2 ^ 27
<1>1. c \in Nat /\ h \in Nat /\ h > 2000 /\ c > h
  OBVIOUS
<1>2. Pixels(v) = LET low == (1 + (v % c)) % c
                  IN  16 * (IF low < h THEN low ELSE low - c)
  BY DEF Pixels
<1> HIDE DEF c, h
<1>3. v % c = v
  BY <1>1
<1>4. (1 + v) % c = 1 + v
  BY <1>1
<1> QED BY <1>1, <1>2, <1>3, <1>4

(* What is kept of a field is what the SPS says of it.                     *)
LEMMA SpsKeeps ==
  ASSUME NEW p \in SpsParameters, NEW f \in SpsFieldsOf(p)
  PROVE  /\ f \in SpsFields /\ f \in DOMAIN SpsSays(p)
         /\ Val(p, f) = p[f] /\ p[f] \in Nat /\ Val(p, f) # Free
         /\ Store(f, p[f]) = SpsSays(p)[f]
<1>1. f \in SpsFields /\ f \in SpsNames
  BY DEF SpsFieldsOf, SpsFields, SpsNames
<1>2. p[f] \in Nat
  BY <1>1, Parameters
<1>3. Val(p, f) = p[f]
  BY <1>1 DEF Val, SpsFields
<1>4. Store(f, p[f]) = SpsSays(p)[f]
  <2>1. SpsSays(p)[f]
          = IF f \in {"log2_max_frame_num", "log2_max_poc_lsb"} /\ p[f] > 12 THEN 12
            ELSE IF f \in {"mb_width", "mb_height"} THEN 16 * (p[f] + 1)
            ELSE p[f]
    BY DEF SpsSays
  <2>2. CASE f \in {"log2_max_frame_num", "log2_max_poc_lsb"}
    BY <2>1, <2>2 DEF Store
  <2>3. CASE f \in {"mb_width", "mb_height"}
    <3>1. p[f] \in 0 .. 1054
      BY <1>2, <2>3, Parameters
    <3>2. Store(f, p[f]) = Pixels(p[f])
      BY <2>3 DEF Store
    <3> QED BY <2>1, <2>3, <3>1, <3>2, PixelsAre
  <2>4. CASE f \notin {"log2_max_frame_num", "log2_max_poc_lsb", "mb_width", "mb_height"}
    BY <2>1, <2>4 DEF Store
  <2> QED BY <2>2, <2>3, <2>4
<1> QED BY <1>1, <1>2, <1>3, <1>4 DEF SpsSays, Free

(* Every field of an SPS is to come when ParseSqs starts.                  *)
LEMMA HeadBrings ==
  ASSUME NEW p \in SpsParameters, NEW f \in SpsFieldsOf(p)
  PROVE  Comes(SpsHead, f)
<1>1. /\ DOMAIN SpsHead = 1 .. 13
      /\ SpsHead[1].name = "profile_idc" /\ SpsHead[4].name = "log2_max_frame_num"
      /\ SpsHead[5].name = "poc_type" /\ SpsHead[8].name = "mb_width"
      /\ SpsHead[9].name = "mb_height"
      /\ SpsHead[10].name = "frame_mbs_only_flag" /\ SpsHead[13].name = "vui"
  BY DEF SpsHead, u, ue
<1>2. \/ f \in Brings("profile_idc") \/ f \in Brings("log2_max_frame_num")
      \/ f \in Brings("poc_type") \/ f \in Brings("mb_width")
      \/ f \in Brings("mb_height") \/ f \in Brings("frame_mbs_only_flag")
      \/ f \in Brings("vui")
  BY DEF SpsFieldsOf, Brings
<1>3. /\ 1 \in 1 .. 13 /\ 4 \in 1 .. 13 /\ 5 \in 1 .. 13 /\ 8 \in 1 .. 13
      /\ 9 \in 1 .. 13 /\ 10 \in 1 .. 13 /\ 13 \in 1 .. 13
  OBVIOUS
<1> QED BY <1>1, <1>2, <1>3 DEF Comes

(* A field that an element promised is among what is read next.            *)
LEMMA FollowBrings ==
  ASSUME NEW p \in SpsParameters, NEW name, Known(p, name),
         NEW v, Val(p, name) # Free => v = Val(p, name),
         NEW f \in SpsFieldsOf(p), f \in Brings(name), f # name
  PROVE  Comes(Follow(name, v), f)
<1>1. name \in {"poc_type", "vui", "timing", "bitstream_restriction_flag"}
  BY Bringers
<1>2. v = p[name] /\ p[name] \in Nat
  <2>1. Val(p, name) = p[name]
    BY <1>1 DEF Val
  <2>2. p[name] \in Nat
    BY <1>1, Parameters DEF SpsNames
  <2> QED BY <2>1, <2>2 DEF Free
<1>3. CASE name = "poc_type"
  <2>1. \/ f = "log2_max_poc_lsb" /\ p.poc_type = 0
        \/ f = "delta_pic_order_always_zero_flag" /\ p.poc_type = 1
    BY <1>3 DEF Brings, SpsFieldsOf
  <2> DEFINE a == <<ue("log2_max_poc_lsb")>>
             b == <<u(1, "delta_pic_order_always_zero_flag"), se, se,
                    ue("cycle")>>
  <2>2. Follow(name, v) = When(v = 0, a) \o When(v = 1, b)
    BY <1>3 DEF Follow
  <2>3. /\ a \in Seq(Elements) /\ b \in Seq(Elements)
    BY Codes DEF Names, SpsFields, SliceFields
  <2>4. /\ DOMAIN a = 1 .. 1 /\ a[1].name = "log2_max_poc_lsb"
        /\ DOMAIN b = 1 .. 4 /\ b[1].name = "delta_pic_order_always_zero_flag"
    BY DEF u, ue
  <2> HIDE DEF a, b
  <2>5. <<>> \o b = b /\ a \o <<>> = a
    BY <2>3
  <2>6. CASE f = "log2_max_poc_lsb" /\ p.poc_type = 0
    <3>1. v = 0
      BY <1>2, <1>3, <2>6
    <3>2. When(v = 0, a) = a /\ When(v = 1, b) = <<>>
      BY <3>1 DEF When
    <3>3. Follow(name, v) = a
      BY <2>2, <2>5, <3>2
    <3>4. 1 \in DOMAIN a /\ f \in Brings(a[1].name)
      BY <2>4, <2>6 DEF Brings
    <3> QED BY <3>3, <3>4 DEF Comes
  <2>7. CASE f = "delta_pic_order_always_zero_flag" /\ p.poc_type = 1
    <3>1. v = 1
      BY <1>2, <1>3, <2>7
    <3>2. When(v = 1, b) = b /\ When(v = 0, a) = <<>>
      BY <3>1 DEF When
    <3>3. Follow(name, v) = b
      BY <2>2, <2>5, <3>2
    <3>4. 1 \in DOMAIN b /\ f \in Brings(b[1].name)
      BY <2>4, <2>7 DEF Brings
    <3> QED BY <3>3, <3>4 DEF Comes
  <2> QED BY <2>1, <2>6, <2>7
<1>4. CASE name = "vui"
  <2>1. /\ p.vui = 1
        /\ f \in {"bitstream_restriction_flag", "num_units_in_tick",
                  "time_scale", "num_reorder_frames"}
    BY <1>4 DEF Brings, SpsFieldsOf
  <2>2. Follow(name, v) = Vui
    BY <1>2, <1>4, <2>1 DEF Follow, When
  <2>3. /\ DOMAIN Vui = 1 .. 8 /\ Vui[5].name = "timing"
        /\ Vui[8].name = "bitstream_restriction_flag"
    BY DEF Vui, u
  <2>4. f \in Brings("timing") \/ f \in Brings("bitstream_restriction_flag")
    BY <2>1 DEF Brings
  <2>5. 5 \in 1 .. 8 /\ 8 \in 1 .. 8
    OBVIOUS
  <2> QED BY <2>2, <2>3, <2>4, <2>5 DEF Comes
<1>5. CASE name = "timing"
  <2> DEFINE q == <<u(32, "num_units_in_tick"), u(32, "time_scale"), u(1, "x")>>
  <2>1. p.timing = 1 /\ f \in {"num_units_in_tick", "time_scale"}
    BY <1>5 DEF Brings, SpsFieldsOf
  <2>2. Follow(name, v) = q
    BY <1>2, <1>5, <2>1 DEF Follow, When
  <2>3. /\ DOMAIN q = 1 .. 3 /\ q[1].name = "num_units_in_tick"
        /\ q[2].name = "time_scale" /\ 1 \in 1 .. 3 /\ 2 \in 1 .. 3
    BY DEF u
  <2> HIDE DEF q
  <2> QED BY <2>1, <2>2, <2>3 DEF Comes, Brings
<1>6. CASE name = "bitstream_restriction_flag"
  <2> DEFINE q == <<u(1, "x"), ue("x"), ue("x"), ue("x"), ue("x"),
                    ue("num_reorder_frames"), ue("x")>>
  <2>1. p.bitstream_restriction_flag = 1 /\ f = "num_reorder_frames"
    BY <1>6 DEF Brings, SpsFieldsOf
  <2>2. Follow(name, v) = q
    BY <1>2, <1>6, <2>1 DEF Follow, When
  <2>3. /\ DOMAIN q = 1 .. 7 /\ q[6].name = "num_reorder_frames"
        /\ 6 \in 1 .. 7
    BY DEF u, ue
  <2> HIDE DEF q
  <2> QED BY <2>1, <2>2, <2>3 DEF Comes, Brings
<1> QED BY <1>1, <1>3, <1>4, <1>5, <1>6

(* What comes is read, or comes later.                                     *)
LEMMA ComesNext ==
  ASSUME NEW els \in Seq(Elements), els # <<>>, NEW f, Comes(els, f),
         NEW q \in Seq(Elements)
  PROVE  \/ f \in Brings(Head(els).name) /\ (Comes(q, f) => Comes(q \o Tail(els), f))
         \/ Comes(q \o Tail(els), f)
<1> DEFINE r == Tail(els)
           t == q \o r
<1>1. /\ r \in Seq(Elements) /\ Len(els) \in Nat \ {0} /\ Len(r) = Len(els) - 1
      /\ \A k \in 1 .. Len(r) : r[k] = els[k + 1]
      /\ Head(els) = els[1] /\ DOMAIN els = 1 .. Len(els)
  OBVIOUS
<1> HIDE DEF r
<1>2. /\ DOMAIN t = 1 .. Len(q) + Len(r) /\ DOMAIN q = 1 .. Len(q)
      /\ Len(q) \in Nat /\ Len(r) \in Nat
      /\ \A k \in 1 .. Len(q) : t[k] = q[k]
      /\ \A k \in 1 .. Len(r) : t[Len(q) + k] = r[k]
  <2>1. r \in Seq(Elements) /\ Len(q) \in Nat /\ Len(r) \in Nat
    BY <1>1
  <2>2. DOMAIN t = 1 .. Len(q) + Len(r) /\ DOMAIN q = 1 .. Len(q)
    BY <2>1
  <2>3. \A k \in 1 .. Len(q) : t[k] = q[k]
    BY <2>1
  <2>4. \A k \in 1 .. Len(r) : t[Len(q) + k] = r[k]
    BY <2>1
  <2> QED BY <2>1, <2>2, <2>3, <2>4
<1> HIDE DEF t
<1>3. Comes(q, f) => Comes(t, f)
  <2>1. \A k \in DOMAIN q : k \in DOMAIN t /\ t[k] = q[k]
    BY <1>2
  <2> QED BY <2>1 DEF Comes
<1>4. PICK k \in DOMAIN els : f \in Brings(els[k].name)
  BY DEF Comes
<1>5. CASE k = 1
  BY <1>1, <1>3, <1>4, <1>5 DEF t, r
<1>6. CASE k # 1
  <2>1. k - 1 \in 1 .. Len(r) /\ (k - 1) + 1 = k
    BY <1>1, <1>6
  <2>2. Len(q) + (k - 1) \in DOMAIN t /\ t[Len(q) + (k - 1)] = els[k]
    BY <1>1, <1>2, <2>1
  <2>3. Comes(t, f)
    BY <1>4, <2>2 DEF Comes
  <2> QED BY <2>3 DEF t, r
<1> QED BY <1>5, <1>6

-----------------------------------------------------------------------------
(* Where a parser starts, all that the encoder wrote lies ahead of it, and *)
(* inside the unit.                                                        *)
LEMMA WrittenEnds ==
  ASSUME NEW b \in Seq({0, 1}), NEW codes \in Seq(CodeSet), NEW at,
         Written(b, at, codes)
  PROVE  at[Len(at)] \in 0 .. Len(b)
<1>1. at \in Seq(0 .. Len(b)) /\ Len(at) = Len(codes) + 1 /\ Len(codes) \in Nat
  BY DEF Written
<1>2. Len(at) \in 1 .. Len(at)
  BY <1>1
<1> QED BY <1>1, <1>2, ItemIs

(* ParseSqs, with any bytes in the memory behind the unit.                 *)
LEMMA SpsStart ==
  ASSUME NEW unit, unit.bytes \in Seq(0 .. 255), unit.bytes # <<>>,
         NEW p, NEW rbsp, NEW place, NEW at, IsSps(unit, p, rbsp, place, at),
         NEW fill \in Seq(0 .. 255)
  PROVE  LET nal == Unescape(Tail(unit.bytes), 1)
             b == Bits(nal \o fill)
         IN  \E j \in Nat : /\ j <= 8 * Len(nal) /\ j <= Len(b)
                            /\ Chain(b, p, SpsHead, 0, j)
<1> DEFINE body == Tail(unit.bytes)
           nal == Unescape(body, 1)
           all == nal \o fill
           j == at[Len(at)]
<1>1. /\ p \in SpsParameters /\ Prevented(rbsp, place, body)
      /\ Written(Bits(rbsp), at, SpsData(p)) /\ at[1] = 0
  BY DEF IsSps
<1>2. body \in Seq(0 .. 255)
  OBVIOUS
<1> HIDE DEF body
<1>3. nal = rbsp /\ rbsp \in Seq(0 .. 255)
  <2>1. rbsp \in Seq(0 .. 255)
    BY <1>1 DEF Prevented
  <2>2. 1 \in 0 .. 1
    OBVIOUS
  <2> QED BY <1>1, <1>2, <2>1, <2>2, UnescapeAll
<1> HIDE DEF nal
<1>4. /\ all \in Seq(0 .. 255) /\ Len(rbsp) \in Nat /\ Len(rbsp) <= Len(all)
      /\ \A k \in 1 .. Len(rbsp) : all[k] = rbsp[k]
  BY <1>3
<1> HIDE DEF all
<1>5. /\ Bits(rbsp) \in Seq({0, 1}) /\ Len(Bits(rbsp)) = 8 * Len(rbsp)
      /\ Len(Bits(all)) = 8 * Len(all)
  BY <1>3, <1>4, BitsTyped
<1>6. \A k \in 1 .. 8 * Len(rbsp) : Bits(all)[k] = Bits(rbsp)[k]
  <2>1. Len(rbsp) <= Len(rbsp)
    BY <1>4
  <2> QED BY <1>3, <1>4, <2>1, BitsSame
<1>7. SpsData(p) \in Seq(CodeSet)
  BY <1>1, SpsTyped
<1>8. j \in 0 .. Len(Bits(rbsp))
  BY <1>1, <1>5, <1>7, WrittenEnds
<1> HIDE DEF j
<1>9. 8 * Len(rbsp) \in Nat /\ j <= 8 * Len(rbsp) /\ j \in Nat
      /\ j <= 8 * Len(all) /\ Len(all) \in Nat
  BY <1>4, <1>5, <1>8
<1>10. Path(Marks(Bits(all)), SpsData(p), 0, j)
  BY <1>1, <1>5, <1>6, <1>7, <1>9, WrittenPath DEF j
<1>11. Chain(Bits(all), p, SpsHead, 0, j)
  BY <1>1, <1>10, SpsHeadChain
<1>12. j <= 8 * Len(nal) /\ j <= Len(Bits(all))
  BY <1>3, <1>5, <1>9
<1> QED BY <1>9, <1>11, <1>12 DEF all, nal, body

(* ParseSlice, with any bytes behind the unit and no more than 64 seen.    *)
LEMMA SliceStart ==
  ASSUME NEW unit, unit.bytes \in Seq(0 .. 255), unit.bytes # <<>>,
         NEW p \in SpsParameters, NEW h, NEW rbsp, NEW place, NEW at,
         IsSlice(unit, p, h, rbsp, place, at), SpsKept(p),
         NEW fill \in Seq(0 .. 255)
  PROVE  LET body == Tail(unit.bytes)
             seen == body \o fill
             window == SubSeq(seen, 1, IF Len(seen) < 64 THEN Len(seen) ELSE 64)
             b == Bits(Unescape(window, 0))
         IN  \E j \in Nat : /\ j <= 8 * Len(Unescape(body, 0)) /\ j <= Len(b)
                            /\ Chain(b, h, SliceHead(unit.type), 0, j)
<1> DEFINE body == Tail(unit.bytes)
           seen == body \o fill
           last == IF Len(seen) < 64 THEN Len(seen) ELSE 64
           window == SubSeq(seen, 1, last)
           r == Unescape(window, 0)
           w == IF Len(body) < 64 THEN Len(body) ELSE 64
           j == at[Len(at)]
           codes == SliceHeader(p, h, unit.type)
<1>1. /\ h \in SliceParameters /\ p.separate_colour_plane_flag = 0
      /\ Prevented(rbsp, place, body)
      /\ Written(Bits(rbsp), at, codes) /\ at[1] = 0
      /\ \A k \in DOMAIN place : 8 * (k - 1) < j => place[k] <= 64
  BY DEF IsSlice
<1>2. body \in Seq(0 .. 255) /\ Len(body) \in Nat
  OBVIOUS
<1> HIDE DEF body
<1>3. /\ rbsp \in Seq(0 .. 255) /\ Len(rbsp) \in Nat
      /\ DOMAIN place = 1 .. Len(rbsp)
      /\ \A k \in 1 .. Len(rbsp) : place[k] \in 1 .. Len(body)
  BY <1>1 DEF Prevented
<1>4. 0 \in 0 .. 1
  OBVIOUS
<1>5. Unescape(body, 0) = rbsp
  BY <1>1, <1>2, <1>4, UnescapeAll
<1>6. /\ seen \in Seq(0 .. 255) /\ Len(seen) \in Nat /\ Len(body) <= Len(seen)
      /\ \A k \in 1 .. Len(body) : seen[k] = body[k]
  BY <1>2
<1> HIDE DEF seen
<1>7. last \in 0 .. Len(seen) /\ w \in Nat /\ w <= last /\ w <= Len(body)
  BY <1>2, <1>6
<1>8. \A m \in 1 .. Len(body) : m <= 64 => m <= w
  BY <1>2
<1> HIDE DEF last, w
<1>9. /\ window \in Seq(0 .. 255) /\ Len(window) = last
      /\ \A k \in 1 .. last : window[k] = seen[k]
  BY <1>6, <1>7, PrefixIs
<1> HIDE DEF window
<1>10. w <= Len(window) /\ \A k \in 1 .. w : window[k] = body[k]
  <2>1. \A k \in 1 .. w : k \in 1 .. last /\ k \in 1 .. Len(body)
    BY <1>2, <1>6, <1>7
  <2> QED BY <1>6, <1>7, <1>9, <2>1
<1>11. PICK q : /\ Reached(rbsp, place, w, q)
                /\ Len(q) <= Len(r) /\ \A k \in 1 .. Len(q) : r[k] = q[k]
  <2>1. 0 = 1 => w = Len(window) /\ w = Len(body)
    OBVIOUS
  <2>2. \E q : /\ Reached(rbsp, place, w, q)
               /\ Len(q) <= Len(r) /\ \A k \in 1 .. Len(q) : r[k] = q[k]
               /\ w = Len(window) => r = q
    <3>1. /\ Prevented(rbsp, place, body) /\ body \in Seq(0 .. 255)
          /\ window \in Seq(0 .. 255) /\ w \in Nat
      BY <1>1, <1>2, <1>7, <1>9
    <3>2. w <= Len(window) /\ w <= Len(body)
      BY <1>7, <1>10
    <3>3. \A k \in 1 .. w : window[k] = body[k]
      BY <1>10
    <3> QED BY ONLY <1>4, <2>1, <3>1, <3>2, <3>3, UnescapeReaches
  <2> QED BY <2>2
<1>12. r \in Seq(0 .. 255)
  BY <1>9, UnescapeTyped
<1> HIDE DEF r
<1>13. /\ q \in Seq(0 .. 255) /\ Len(q) \in Nat /\ Len(q) <= Len(rbsp)
       /\ \A k \in 1 .. Len(q) : q[k] = rbsp[k]
       /\ \A k \in 1 .. Len(rbsp) : place[k] <= w => k <= Len(q)
  BY <1>11 DEF Reached
<1>14. /\ Bits(rbsp) \in Seq({0, 1}) /\ Len(Bits(rbsp)) = 8 * Len(rbsp)
       /\ Len(Bits(r)) = 8 * Len(r) /\ Len(r) \in Nat
  BY <1>3, <1>12, BitsTyped
<1>15. codes \in Seq(CodeSet)
  BY <1>1, SliceTyped
<1> HIDE DEF codes
<1>16. j \in 0 .. 8 * Len(rbsp)
  BY <1>1, <1>14, <1>15, WrittenEnds
<1> HIDE DEF j
<1>17. j <= 8 * Len(q)
  <2> DEFINE k == Len(q) + 1
  <2>1. SUFFICES ASSUME 8 * Len(q) < j PROVE FALSE
    BY <1>13, <1>16
  <2>2. k \in 1 .. Len(rbsp) /\ 8 * (k - 1) < j /\ ~ (k <= Len(q))
    BY <1>3, <1>13, <1>16, <2>1
  <2> HIDE DEF k
  <2>3. place[k] <= 64 /\ place[k] \in 1 .. Len(body)
    BY <1>1, <1>3, <2>2
  <2>4. place[k] <= w
    BY <1>8, <2>3
  <2> QED BY <1>13, <2>2, <2>4
<1>18. \A k \in 1 .. 8 * Len(q) : Bits(r)[k] = Bits(rbsp)[k]
  <2>1. \A k \in 1 .. Len(q) : r[k] = rbsp[k]
    BY <1>11, <1>13
  <2> QED BY <1>3, <1>11, <1>12, <1>13, <2>1, BitsSame
<1>19. Path(Marks(Bits(r)), codes, 0, j)
  <2>1. 8 * Len(q) \in Nat
    BY <1>13
  <2> QED BY <1>1, <1>14, <1>15, <1>17, <1>18, <2>1, WrittenPath DEF j
<1>20. Chain(Bits(r), h, SliceHead(unit.type), 0, j)
  BY <1>1, <1>19, SliceHeadChain DEF codes
<1>21. j \in Nat /\ j <= 8 * Len(Unescape(body, 0)) /\ j <= Len(Bits(r))
  <2>1. j \in Nat /\ j <= 8 * Len(rbsp)
    BY <1>3, <1>16
  <2>2. j <= 8 * Len(r)
    BY <1>11, <1>13, <1>14, <1>17, <2>1
  <2> QED BY <1>5, <1>14, <2>1, <2>2
<1> QED BY <1>20, <1>21 DEF r, window, last, seen, body

-----------------------------------------------------------------------------
(* The inductive invariant.                                                *)

(* The rest of the stream conforms, and its slices belong to the SPS that  *)
(* was parsed.                                                             *)
UnitsConform ==
  /\ \A k \in DOMAIN units : units[k].type = 7 => \E p : Sps(units[k], p)
  /\ ~ reparse /\ StreamSps = Null => Conforms(units)
  /\ ~ reparse /\ StreamSps # Null =>
       \E p \in SpsParameters :
         /\ says.sps = SpsSays(p)
         /\ \A i \in DOMAIN units : units[i].type < 6 => SliceOf(units[i], p)

(* What is still to be read lies ahead of the reader, and every field has  *)
(* been read or is among it.                                               *)
SpsWaits ==
  task = "sps" =>
    \E p \in SpsParameters, j \in Nat :
      /\ says.sps = SpsSays(p)
      /\ j <= own /\ j <= Len(s.bits) /\ Chain(s.bits, p, todo, s.pos, j)
      /\ todo = SpsHead \/ StreamSps["profile_idc"] = p.profile_idc
      /\ \A f \in SpsFieldsOf(p) :
           StreamSps[f] = SpsSays(p)[f] \/ Comes(todo, f)

SliceWaits ==
  task = "slice" =>
    \E h \in SliceParameters, j \in Nat :
      /\ DOMAIN says.slice = SliceFields
      /\ j <= own /\ j <= Len(s.bits) /\ Chain(s.bits, h, todo, s.pos, j)
      /\ \A f \in SliceFields :
           CurSlice[f] = says.slice[f] \/ Comes(todo, f)
      /\ \A k \in DOMAIN todo :
           todo[k].name \in SliceFields =>
             says.slice[todo[k].name] = h[todo[k].name]

SliceRead ==
  task # "slice" => \A f \in DOMAIN says.slice : CurSlice[f] = says.slice[f]

HeaderInv ==
  /\ TypeInv
  /\ DOMAIN says = {"sps", "slice"} /\ own \in Nat /\ NoGarbageRead
  /\ UnitsConform /\ SpsWaits /\ SliceWaits
  /\ SpsRecovered /\ SliceRead /\ UnreadFieldsUnused

(* The invariant holds before the first unit.                              *)
LEMMA HeaderInit == Init /\ Conforms(units) => HeaderInv
<1> SUFFICES ASSUME Init, Conforms(units) PROVE HeaderInv
  OBVIOUS
<1>1. TypeInv
  BY TypeInit
<1>2. s.pos = 0 /\ own = 0
  BY DEF Init, bs_init
<1>3. says.sps = <<>> /\ says.slice = <<>> /\ DOMAIN says = {"sps", "slice"}
  BY DEF Init
<1>4. DOMAIN << >> = {}
  OBVIOUS
<1>5. task = "idle" /\ StreamSps = Null
  BY DEF Init
<1>6. UnitsConform
  BY <1>5 DEF UnitsConform, Conforms
<1>7. SpsWaits /\ SliceWaits
  BY <1>5 DEF SpsWaits, SliceWaits
<1>8. SpsRecovered /\ SliceRead /\ UnreadFieldsUnused
  BY <1>3, <1>4 DEF SpsRecovered, SliceRead, UnreadFieldsUnused
<1> QED BY <1>1, <1>2, <1>3, <1>6, <1>7, <1>8 DEF HeaderInv, NoGarbageRead

(* The units behind the first.                                             *)
LEMMA TailIs ==
  ASSUME TypeInv, units # <<>>, NEW k \in DOMAIN Tail(units)
  PROVE  /\ k \in Nat /\ k + 1 \in DOMAIN units
         /\ Tail(units)[k] = units[k + 1]
<1>1. units \in Seq(AllUnits)
  BY DEF TypeInv, UnitsOK
<1> QED BY <1>1

(* A conforming stream without its first unit, which is not an SPS.        *)
LEMMA TailConforms ==
  ASSUME TypeInv, units # <<>>, Unit.type # 7, Conforms(units)
  PROVE  Conforms(Tail(units))
<1> DEFINE rest == Tail(units)
<1>1. /\ units[1] = Unit /\ DOMAIN units = 1 .. Len(units) /\ Len(units) \in Nat
  BY DEF TypeInv, UnitsOK, Unit
<1>2. \A k \in DOMAIN rest : /\ k \in Nat /\ k + 1 \in DOMAIN units
                             /\ rest[k] = units[k + 1]
  BY TailIs
<1> HIDE DEF rest
<1>3. ASSUME NEW k \in DOMAIN rest, rest[k].type = 7
      PROVE  \E p : Sps(rest[k], p)
  BY <1>2, <1>3 DEF Conforms
<1>4. ASSUME NEW k \in DOMAIN rest, rest[k].type = 7,
             \A i \in 1 .. k - 1 : rest[i].type # 7
      PROVE  \E p : /\ Sps(rest[k], p)
                    /\ \A i \in DOMAIN rest :
                         rest[i].type < 6 => SliceOf(rest[i], p)
  <2>1. k \in Nat /\ k + 1 \in DOMAIN units /\ rest[k] = units[k + 1]
    BY <1>2
  <2>2. ASSUME NEW i \in 1 .. (k + 1) - 1
        PROVE  units[i].type # 7
    <3>1. CASE i = 1
      BY <1>1, <3>1
    <3>2. CASE i # 1
      <4>1. i - 1 \in 1 .. k - 1 /\ (i - 1) + 1 = i
        BY <2>1, <3>2
      <4>2. DOMAIN rest = 1 .. Len(rest) /\ Len(rest) \in Nat
        BY <1>1 DEF rest, TypeInv, UnitsOK
      <4>3. i - 1 \in DOMAIN rest
        BY <2>1, <4>1, <4>2
      <4> QED BY <1>2, <1>4, <4>1, <4>3
    <3> QED BY <3>1, <3>2
  <2>3. PICK p : /\ Sps(units[k + 1], p)
                 /\ \A i \in DOMAIN units :
                      units[i].type < 6 => SliceOf(units[i], p)
    BY <1>4, <2>1, <2>2 DEF Conforms
  <2>4. \A i \in DOMAIN rest : rest[i].type < 6 => SliceOf(rest[i], p)
    BY <1>2, <2>3
  <2> QED BY <2>1, <2>3, <2>4
<1>5. Conforms(rest)
  BY <1>3, <1>4 DEF Conforms
<1> QED BY <1>5 DEF rest

(* Only the list of the units changes.                                     *)
LEMMA HeaderSkip ==
  ASSUME HeaderInv, KnownSps \/ SkipUnit
  PROVE  HeaderInv'
<1>1. /\ UNCHANGED <<reparse, parser, StreamSps, CurSlice, says, fault>>
      /\ units' = Tail(units) /\ units # <<>>
      /\ (StreamSps # Null /\ ~ reparse) \/ Unit.type # 7
  BY DEF KnownSps, SkipUnit, Ready
<1>2. TypeInv /\ TypeInv'
  BY TypeSkip DEF HeaderInv
<1>3. \A k \in DOMAIN units' : k + 1 \in DOMAIN units /\ units'[k] = units[k + 1]
  BY <1>1, <1>2, TailIs
<1>4. UnitsConform'
  <2>1. UnitsConform
    BY DEF HeaderInv
  <2>2. \A k \in DOMAIN units' : units'[k].type = 7 => \E p : Sps(units'[k], p)
    BY <1>3, <2>1 DEF UnitsConform
  <2>3. ~ reparse /\ StreamSps = Null => Conforms(units')
    BY <1>1, <1>2, <2>1, TailConforms DEF UnitsConform
  <2>4. ASSUME ~ reparse, StreamSps # Null
        PROVE  \E p \in SpsParameters :
                 /\ says.sps = SpsSays(p)
                 /\ \A i \in DOMAIN units' :
                      units'[i].type < 6 => SliceOf(units'[i], p)
    BY <1>3, <2>1, <2>4 DEF UnitsConform
  <2>5. reparse' = reparse /\ StreamSps' = StreamSps /\ says' = says
    BY <1>1
  <2> QED BY <2>2, <2>3, <2>4, <2>5 DEF UnitsConform
<1>5. /\ (DOMAIN says = {"sps", "slice"} /\ own \in Nat /\ NoGarbageRead)'
      /\ (SpsRecovered /\ SliceRead /\ UnreadFieldsUnused)'
  BY <1>1 DEF HeaderInv, NoGarbageRead, SpsRecovered, SliceRead,
              UnreadFieldsUnused, parser
<1>6. (SpsWaits /\ SliceWaits)'
  BY <1>1 DEF HeaderInv, SpsWaits, SliceWaits, parser
<1> QED BY <1>2, <1>4, <1>5, <1>6 DEF HeaderInv

(* The unit at hand.                                                       *)
LEMMA FirstUnit ==
  ASSUME TypeInv, units # <<>>
  PROVE  /\ 1 \in DOMAIN units /\ units[1] = Unit
         /\ Unit.bytes \in Seq(0 .. 255) /\ Unit.bytes # <<>>
<1>1. units \in Seq(AllUnits)
  BY DEF TypeInv, UnitsOK
<1>2. 1 \in DOMAIN units /\ units[1] = Unit /\ Unit \in AllUnits
  BY <1>1 DEF Unit
<1> QED BY <1>2, UnitIs

(* An SPS is begun: all it says is still to come.                          *)
LEMMA HeaderParseSqs ==
  ASSUME HeaderInv, ParseSqs
  PROVE  HeaderInv'
<1> DEFINE nal == Unescape(Tail(Unit.bytes), 1)
           N == Len(Unit.bytes) - Len(nal)
<1>1. /\ units # <<>> /\ fault = "none" /\ task = "idle" /\ Unit.type = 7
      /\ reparse \/ StreamSps = Null
      /\ \E g \in Garbage : s' = bs_init(nal \o [i \in 1 .. N |-> g])
      /\ own' = 8 * Len(nal) /\ task' = "sps" /\ todo' = SpsHead
      /\ says' = [says EXCEPT !.sps = Unit.says] /\ units' = Tail(units)
      /\ UNCHANGED <<reparse, CurSlice, fault>>
  BY DEF ParseSqs, Ready
<1>2. TypeInv /\ TypeInv' /\ DOMAIN says = {"sps", "slice"} /\ UnitsConform
  BY TypeParseSqs DEF HeaderInv
<1>3. /\ 1 \in DOMAIN units /\ units[1] = Unit
      /\ Unit.bytes \in Seq(0 .. 255) /\ Unit.bytes # <<>>
  BY <1>1, <1>2, FirstUnit
<1>4. /\ DOMAIN says' = {"sps", "slice"}
      /\ says'.sps = Unit.says /\ says'.slice = says.slice
  BY <1>1, <1>2
<1>5. PICK fill \in Seq(0 .. 255) : s' = bs_init(nal \o fill)
  <2>1. PICK g \in Garbage : s' = bs_init(nal \o [i \in 1 .. N |-> g])
    BY <1>1
  <2>2. N \in Int
    <3>1. Tail(Unit.bytes) \in Seq(0 .. 255)
      BY <1>3
    <3>2. nal \in Seq(0 .. 255)
      BY <3>1, UnescapeTyped
    <3> QED BY <1>3, <3>2
  <2>3. g \in 0 .. 255
    BY HeadersAssumption
  <2> HIDE DEF N
  <2>4. [i \in 1 .. N |-> g] \in Seq(0 .. 255)
    BY <2>2, <2>3, RepeatTyped
  <2> QED BY <2>1, <2>4
<1> HIDE DEF N
<1>6. nal \in Seq(0 .. 255) /\ nal \o fill \in Seq(0 .. 255)
  <2>1. Tail(Unit.bytes) \in Seq(0 .. 255)
    BY <1>3
  <2>2. nal \in Seq(0 .. 255)
    BY <2>1, UnescapeTyped
  <2> QED BY <1>5, <2>2
<1>7. s'.pos = 0 /\ s'.bits = Bits(nal \o fill)
  BY <1>5, <1>6, InitReader
<1>8. own' \in Nat /\ NoGarbageRead'
  BY <1>1, <1>6, <1>7 DEF NoGarbageRead
<1>9. \A k \in DOMAIN units' : k + 1 \in DOMAIN units /\ units'[k] = units[k + 1]
  BY <1>1, <1>2, TailIs
<1>10. ASSUME NEW p, Sps(Unit, p)
       PROVE  p \in SpsParameters /\ says'.sps = SpsSays(p)
  BY <1>4, <1>10 DEF Sps, IsSps
<1>11. StreamSps' # Null
  BY <1>1, <1>2 DEF TypeInv
<1>12. UnitsConform'
  <2>1. \A k \in DOMAIN units' : units'[k].type = 7 => \E p : Sps(units'[k], p)
    BY <1>2, <1>9 DEF UnitsConform
  <2>2. ASSUME ~ reparse
        PROVE  \E p \in SpsParameters :
                 /\ says'.sps = SpsSays(p)
                 /\ \A i \in DOMAIN units' :
                      units'[i].type < 6 => SliceOf(units'[i], p)
    <3>1. Conforms(units)
      BY <1>1, <1>2, <2>2 DEF UnitsConform
    <3>2. \A i \in 1 .. 1 - 1 : units[i].type # 7
      OBVIOUS
    <3>3. PICK p : /\ Sps(Unit, p)
                   /\ \A i \in DOMAIN units :
                        units[i].type < 6 => SliceOf(units[i], p)
      BY <1>1, <1>3, <3>1, <3>2 DEF Conforms
    <3> QED BY <1>9, <1>10, <3>3
  <2> QED BY <1>1, <1>11, <2>1, <2>2 DEF UnitsConform
<1>13. SpsWaits'
  <2>1. PICK p : Sps(Unit, p)
    BY <1>1, <1>2, <1>3 DEF UnitsConform
  <2>2. PICK rbsp, place, at : IsSps(Unit, p, rbsp, place, at)
    BY <2>1 DEF Sps
  <2>3. PICK j \in Nat : /\ j <= 8 * Len(nal) /\ j <= Len(Bits(nal \o fill))
                         /\ Chain(Bits(nal \o fill), p, SpsHead, 0, j)
    BY <1>3, <1>5, <2>2, SpsStart
  <2>4. p \in SpsParameters /\ says'.sps = SpsSays(p)
    BY <1>10, <2>1
  <2>5. \A f \in SpsFieldsOf(p) : Comes(SpsHead, f)
    BY <2>4, HeadBrings
  <2>6. /\ j <= own' /\ j <= Len(s'.bits)
        /\ Chain(s'.bits, p, todo', s'.pos, j)
    BY <1>1, <1>7, <2>3
  <2> HIDE DEF nal
  <2> QED BY <1>1, <2>4, <2>5, <2>6 DEF SpsWaits
<1>14. SliceWaits' /\ SpsRecovered'
  BY <1>1 DEF SliceWaits, SpsRecovered
<1>15. SliceRead'
  <2>1. \A f \in DOMAIN says.slice : CurSlice[f] = says.slice[f]
    BY <1>1 DEF HeaderInv, SliceRead
  <2>2. says'.slice = says.slice /\ CurSlice' = CurSlice
    BY <1>1, <1>4
  <2> QED BY <2>1, <2>2 DEF SliceRead
<1>16. UnreadFieldsUnused'
  BY <1>1 DEF UnreadFieldsUnused
<1> QED BY <1>2, <1>4, <1>8, <1>12, <1>13, <1>14, <1>15, <1>16 DEF HeaderInv

(* The SPS was read before its first slice, so the widths are known.       *)
LEMMA SpsIsKept ==
  ASSUME NEW p \in SpsParameters, says.sps = SpsSays(p),
         \A f \in DOMAIN says.sps : StreamSps[f] = says.sps[f],
         p.log2_max_frame_num <= 12,
         p.poc_type = 0 => p.log2_max_poc_lsb <= 12
  PROVE  SpsKept(p)
<1>1. ASSUME NEW f \in SpsFieldsOf(p)
      PROVE  StreamSps[f] = SpsSays(p)[f]
  BY DEF SpsSays
<1>2. ASSUME NEW f \in {"log2_max_frame_num", "log2_max_poc_lsb", "poc_type",
                        "delta_pic_order_always_zero_flag",
                        "frame_mbs_only_flag"},
             f \in SpsFieldsOf(p),
             f \in {"log2_max_frame_num", "log2_max_poc_lsb"} => p[f] <= 12
      PROVE  StreamSps[f] = p[f]
  <2>1. p[f] \in Nat
    BY <1>2, SpsKeeps
  <2>2. SpsSays(p)[f] = p[f]
    BY <1>2, <2>1 DEF SpsSays
  <2> QED BY <1>1, <1>2, <2>2
<1>3. /\ "log2_max_frame_num" \in SpsFieldsOf(p)
      /\ "poc_type" \in SpsFieldsOf(p) /\ "frame_mbs_only_flag" \in SpsFieldsOf(p)
      /\ p.poc_type = 0 => "log2_max_poc_lsb" \in SpsFieldsOf(p)
      /\ p.poc_type = 1 => "delta_pic_order_always_zero_flag" \in SpsFieldsOf(p)
  BY DEF SpsFieldsOf
<1>4. StreamSps["log2_max_frame_num"] = p.log2_max_frame_num
  BY <1>2, <1>3
<1>5. StreamSps["poc_type"] = p.poc_type
  BY <1>2, <1>3
<1>6. StreamSps["frame_mbs_only_flag"] = p.frame_mbs_only_flag
  BY <1>2, <1>3
<1>7. p.poc_type = 0 => StreamSps["log2_max_poc_lsb"] = p.log2_max_poc_lsb
  BY <1>2, <1>3
<1>8. p.poc_type = 1 => StreamSps["delta_pic_order_always_zero_flag"]
                          = p.delta_pic_order_always_zero_flag
  BY <1>2, <1>3
<1> QED BY <1>4, <1>5, <1>6, <1>7, <1>8 DEF SpsKept

-----------------------------------------------------------------------------
(* The fields of a slice: each is read once, and none hangs on another.    *)
LEMMA ComesCat ==
  ASSUME NEW q \in Seq(Elements), NEW r \in Seq(Elements), NEW f,
         Comes(q, f) \/ Comes(r, f)
  PROVE  Comes(q \o r, f)
<1> DEFINE t == q \o r
<1>1. Len(q) \in Nat /\ Len(r) \in Nat /\ DOMAIN q = 1 .. Len(q) /\ DOMAIN r = 1 .. Len(r)
  OBVIOUS
<1>2. DOMAIN t = 1 .. Len(q) + Len(r)
  OBVIOUS
<1>3. \A k \in 1 .. Len(q) : t[k] = q[k]
  OBVIOUS
<1>4. \A k \in 1 .. Len(r) : t[Len(q) + k] = r[k]
  OBVIOUS
<1> HIDE DEF t
<1>5. ASSUME Comes(q, f) PROVE Comes(t, f)
  <2>1. PICK k \in DOMAIN q : f \in Brings(q[k].name)
    BY <1>5 DEF Comes
  <2>2. k \in DOMAIN t /\ t[k] = q[k]
    BY <1>1, <1>2, <1>3
  <2> QED BY <2>1, <2>2 DEF Comes
<1>6. ASSUME Comes(r, f) PROVE Comes(t, f)
  <2>1. PICK k \in DOMAIN r : f \in Brings(r[k].name)
    BY <1>6 DEF Comes
  <2>2. Len(q) + k \in DOMAIN t /\ t[Len(q) + k] = r[k]
    BY <1>1, <1>2, <1>4
  <2> QED BY <2>1, <2>2 DEF Comes
<1> QED BY <1>5, <1>6 DEF t

AllNamed(els, T) == \A k \in DOMAIN els : els[k].name \in T

(* Names of joined sequences.                                              *)
LEMMA NamedCat ==
  ASSUME NEW q \in Seq(Elements), NEW r \in Seq(Elements), NEW T,
         AllNamed(q, T), AllNamed(r, T)
  PROVE  AllNamed(q \o r, T)
<1> DEFINE t == q \o r
<1>1. Len(q) \in Nat /\ Len(r) \in Nat /\ DOMAIN q = 1 .. Len(q) /\ DOMAIN r = 1 .. Len(r)
  OBVIOUS
<1>2. DOMAIN t = 1 .. Len(q) + Len(r)
  OBVIOUS
<1>3. \A k \in 1 .. Len(q) : t[k] = q[k]
  OBVIOUS
<1>4. \A k \in 1 .. Len(r) : t[Len(q) + k] = r[k]
  OBVIOUS
<1> HIDE DEF t
<1>5. ASSUME NEW k \in DOMAIN t
      PROVE  t[k].name \in T
  <2>1. CASE k <= Len(q)
    <3>1. k \in 1 .. Len(q)
      BY <1>1, <1>2, <2>1
    <3> QED BY <1>1, <1>3, <3>1 DEF AllNamed
  <2>2. CASE ~ (k <= Len(q))
    <3>1. k - Len(q) \in 1 .. Len(r) /\ Len(q) + (k - Len(q)) = k
      BY <1>1, <1>2, <2>2
    <3> QED BY <1>1, <1>4, <3>1 DEF AllNamed
  <2> QED BY <2>1, <2>2
<1> QED BY <1>5 DEF AllNamed, t

SliceNames ==
  {"x", "field_pic", "i_slice_type", "i_frame_num"}
  \cup {f \in {"i_pic_order_cnt_lsb"} : StreamSps["poc_type"] = 0}

(* The fields that are to come when ParseSlice starts.                     *)
LEMMA SliceHeadNames ==
  ASSUME NEW type, StreamSps["log2_max_frame_num"] \in MinInt .. 12,
         StreamSps["log2_max_poc_lsb"] \in MinInt .. 12
  PROVE  /\ Comes(SliceHead(type), "i_slice_type")
         /\ Comes(SliceHead(type), "i_frame_num")
         /\ StreamSps["poc_type"] = 0 => Comes(SliceHead(type), "i_pic_order_cnt_lsb")
         /\ AllNamed(SliceHead(type), SliceNames)
<1> DEFINE w == StreamSps["log2_max_frame_num"] + 4
           l == StreamSps["log2_max_poc_lsb"] + 4
           a == <<ue("x"), ue("i_slice_type"), ue("x"), u(w, "i_frame_num")>>
           b == When(StreamSps["frame_mbs_only_flag"] = 0,
                     <<u(1, "field_pic")>>)
           c == When(type = 5, <<ue("x")>>)
           d == When(StreamSps["poc_type"] = 0,
                     <<u(l, "i_pic_order_cnt_lsb")>>)
           f == When(/\ StreamSps["poc_type"] = 1
                     /\ StreamSps["delta_pic_order_always_zero_flag"] = 0,
                     <<se>>)
<1>1. w \in Int /\ l \in Int
  BY IntLimits
<1>2. SliceHead(type) = (((a \o b) \o c) \o d) \o f
  BY DEF SliceHead
<1> HIDE DEF w, l
<1>3. /\ a \in Seq(Elements) /\ <<u(1, "field_pic")>> \in Seq(Elements)
      /\ <<ue("x")>> \in Seq(Elements)
      /\ <<u(l, "i_pic_order_cnt_lsb")>> \in Seq(Elements)
      /\ <<se>> \in Seq(Elements)
  <2>1. u(1, "field_pic") \in Elements /\ ue("x") \in Elements /\ se \in Elements
    BY Codes DEF Names, SpsFields, SliceFields
  <2> QED BY <1>1, <2>1, Codes DEF Names, SpsFields, SliceFields
<1>4. /\ b \in Seq(Elements) /\ c \in Seq(Elements) /\ d \in Seq(Elements)
      /\ f \in Seq(Elements)
  BY <1>3, WhenTyped
<1>5. /\ a \o b \in Seq(Elements) /\ (a \o b) \o c \in Seq(Elements)
      /\ ((a \o b) \o c) \o d \in Seq(Elements)
  <2> HIDE DEF a, b, c, d, f
  <2> QED BY <1>3, <1>4
<1>6. Comes(a, "i_slice_type") /\ Comes(a, "i_frame_num")
  <2>1. /\ 2 \in DOMAIN a /\ 4 \in DOMAIN a
        /\ a[2].name = "i_slice_type" /\ a[4].name = "i_frame_num"
    BY DEF u, ue
  <2> HIDE DEF a
  <2> QED BY <2>1 DEF Comes, Brings
<1>7. StreamSps["poc_type"] = 0 => Comes(d, "i_pic_order_cnt_lsb")
  <2> DEFINE q == <<u(l, "i_pic_order_cnt_lsb")>>
  <2>1. 1 \in DOMAIN q /\ q[1].name = "i_pic_order_cnt_lsb"
    BY DEF u
  <2>2. StreamSps["poc_type"] = 0 => d = q
    BY DEF When
  <2> HIDE DEF q, d
  <2> QED BY <2>1, <2>2 DEF Comes, Brings
<1>8. AllNamed(a, SliceNames)
  BY DEF AllNamed, SliceNames, u, ue
<1>9. AllNamed(b, SliceNames) /\ AllNamed(c, SliceNames) /\ AllNamed(f, SliceNames)
  BY DEF AllNamed, SliceNames, When, u, ue, se
<1>10. AllNamed(d, SliceNames)
  <2>1. CASE StreamSps["poc_type"] = 0
    BY <2>1 DEF AllNamed, SliceNames, When, u
  <2>2. CASE StreamSps["poc_type"] # 0
    BY <2>2 DEF AllNamed, When
  <2> QED BY <2>1, <2>2
<1> HIDE DEF a, b, c, d, f
<1>11. AllNamed((((a \o b) \o c) \o d) \o f, SliceNames)
  <2>1. AllNamed(a \o b, SliceNames)
    BY <1>3, <1>4, <1>8, <1>9, NamedCat
  <2>2. AllNamed((a \o b) \o c, SliceNames)
    BY <1>4, <1>5, <1>9, <2>1, NamedCat
  <2>3. AllNamed(((a \o b) \o c) \o d, SliceNames)
    BY <1>4, <1>5, <1>10, <2>2, NamedCat
  <2> QED BY <1>4, <1>5, <1>9, <2>3, NamedCat
<1>12. ASSUME NEW name, Comes(a, name)
       PROVE  Comes((((a \o b) \o c) \o d) \o f, name)
  <2>1. Comes(a \o b, name)
    BY <1>3, <1>4, <1>12, ComesCat
  <2>2. Comes((a \o b) \o c, name)
    BY <1>4, <1>5, <2>1, ComesCat
  <2>3. Comes(((a \o b) \o c) \o d, name)
    BY <1>4, <1>5, <2>2, ComesCat
  <2> QED BY <1>4, <1>5, <2>3, ComesCat
<1>13. ASSUME NEW name, Comes(d, name)
       PROVE  Comes((((a \o b) \o c) \o d) \o f, name)
  <2>1. Comes(((a \o b) \o c) \o d, name)
    BY <1>4, <1>5, <1>13, ComesCat
  <2> QED BY <1>4, <1>5, <2>1, ComesCat
<1> QED BY <1>2, <1>6, <1>7, <1>11, <1>12, <1>13

(* A slice is begun: its SPS has been read, so the widths are right.       *)
LEMMA HeaderParseSlice ==
  ASSUME HeaderInv, ParseSlice
  PROVE  HeaderInv'
<1> DEFINE body == Tail(Unit.bytes)
<1>1. /\ units # <<>> /\ fault = "none" /\ task = "idle" /\ Unit.type < 6
      /\ ~ reparse
      /\ \E g \in Garbage, behind \in {17, 64} :
           LET seen == body \o [i \in 1 .. behind |-> g]
               window == SubSeq(seen, 1, IF Len(seen) < 64 THEN Len(seen) ELSE 64)
           IN  s' = bs_init(Unescape(window, 0))
      /\ own' = 8 * Len(Unescape(body, 0))
      /\ task' = "slice" /\ todo' = SliceHead(Unit.type)
      /\ CurSlice' = [Fresh(CurSlice, SliceFields)
                        EXCEPT !["i_pic_order_cnt_lsb"] = 0]
      /\ says' = [says EXCEPT !.slice = Unit.says] /\ units' = Tail(units)
      /\ UNCHANGED <<reparse, StreamSps, fault>>
  BY DEF ParseSlice, Ready
<1>2. TypeInv /\ TypeInv' /\ DOMAIN says = {"sps", "slice"} /\ UnitsConform
  BY TypeParseSlice DEF HeaderInv
<1>3. /\ 1 \in DOMAIN units /\ units[1] = Unit
      /\ Unit.bytes \in Seq(0 .. 255) /\ Unit.bytes # <<>>
  BY <1>1, <1>2, FirstUnit
<1>4. /\ DOMAIN says' = {"sps", "slice"}
      /\ says'.slice = Unit.says /\ says'.sps = says.sps
  BY <1>1, <1>2
<1>5. body \in Seq(0 .. 255)
  BY <1>3
<1>6. PICK fill \in Seq(0 .. 255) :
        LET seen == body \o fill
            window == SubSeq(seen, 1, IF Len(seen) < 64 THEN Len(seen) ELSE 64)
        IN  s' = bs_init(Unescape(window, 0))
  <2>1. PICK g \in Garbage, behind \in {17, 64} :
          LET seen == body \o [i \in 1 .. behind |-> g]
              window == SubSeq(seen, 1, IF Len(seen) < 64 THEN Len(seen) ELSE 64)
          IN  s' = bs_init(Unescape(window, 0))
    BY <1>1
  <2>2. g \in 0 .. 255 /\ behind \in Int
    BY HeadersAssumption
  <2>3. [i \in 1 .. behind |-> g] \in Seq(0 .. 255)
    BY <2>2, RepeatTyped
  <2> QED BY <2>1, <2>3
<1> DEFINE seen == body \o fill
           last == IF Len(seen) < 64 THEN Len(seen) ELSE 64
           window == SubSeq(seen, 1, last)
           r == Unescape(window, 0)
<1>7. s' = bs_init(r) /\ r \in Seq(0 .. 255)
  <2>1. seen \in Seq(0 .. 255)
    BY <1>5, <1>6
  <2> HIDE DEF seen
  <2>2. last \in 0 .. Len(seen)
    BY <2>1
  <2> HIDE DEF last
  <2>3. window \in Seq(0 .. 255)
    BY <2>1, <2>2, PrefixIs
  <2>4. s' = bs_init(r)
    BY <1>6 DEF seen, last
  <2> HIDE DEF window
  <2> QED BY <2>3, <2>4, UnescapeTyped
<1>8. s'.pos = 0 /\ s'.bits = Bits(r)
  BY <1>7, InitReader
<1>9. own' \in Nat /\ NoGarbageRead'
  <2>1. Unescape(body, 0) \in Seq(0 .. 255)
    BY <1>5, UnescapeTyped
  <2>2. own' \in Nat
    BY <1>1, <2>1
  <2> QED BY <1>8, <2>2 DEF NoGarbageRead
<1>10. \A k \in DOMAIN units' : k + 1 \in DOMAIN units /\ units'[k] = units[k + 1]
  BY <1>1, <1>2, TailIs
<1>11. StreamSps # Null /\ StreamSps' = StreamSps
  BY <1>1, <1>2 DEF TypeInv
<1>12. PICK p \in SpsParameters :
         /\ says.sps = SpsSays(p)
         /\ \A i \in DOMAIN units : units[i].type < 6 => SliceOf(units[i], p)
  BY <1>1, <1>2, <1>11 DEF UnitsConform
<1>13. UnitsConform'
  <2>1. \A k \in DOMAIN units' : units'[k].type = 7 => \E q : Sps(units'[k], q)
    BY <1>2, <1>10 DEF UnitsConform
  <2>2. \A i \in DOMAIN units' : units'[i].type < 6 => SliceOf(units'[i], p)
    BY <1>10, <1>12
  <2> QED BY <1>4, <1>11, <1>12, <2>1, <2>2 DEF UnitsConform
<1>14. PICK h, rbsp, place, at : IsSlice(Unit, p, h, rbsp, place, at)
  <2>1. SliceOf(Unit, p)
    BY <1>1, <1>3, <1>12
  <2> QED BY <2>1 DEF SliceOf
<1>15. /\ h \in SliceParameters /\ says'.slice = SliceSays(p, h)
       /\ p.log2_max_frame_num <= 12
       /\ p.poc_type = 0 => p.log2_max_poc_lsb <= 12
  BY <1>4, <1>14 DEF IsSlice
<1>16. SpsKept(p)
  <2>1. \A f \in DOMAIN says.sps : StreamSps[f] = says.sps[f]
    BY <1>1 DEF HeaderInv, SpsRecovered
  <2> QED BY <1>12, <1>15, <2>1, SpsIsKept
<1>17. PICK j \in Nat : /\ j <= 8 * Len(Unescape(body, 0)) /\ j <= Len(Bits(r))
                        /\ Chain(Bits(r), h, SliceHead(Unit.type), 0, j)
  BY <1>3, <1>6, <1>14, <1>16, SliceStart
<1> HIDE DEF r
<1>18. /\ j <= own' /\ j <= Len(s'.bits)
       /\ Chain(s'.bits, h, todo', s'.pos, j)
  BY <1>1, <1>8, <1>17
<1>19. /\ StreamSps["log2_max_frame_num"] \in MinInt .. 12
       /\ StreamSps["log2_max_poc_lsb"] \in MinInt .. 12
       /\ CurSlice = Null \/ DOMAIN CurSlice = SliceFields
  BY <1>2, <1>11 DEF TypeInv, TypeOK
<1>20. /\ DOMAIN says'.slice = SliceFields
       /\ says'.slice["i_slice_type"] = h["i_slice_type"]
       /\ says'.slice["i_frame_num"] = h["i_frame_num"]
       /\ p.poc_type = 0 =>
            says'.slice["i_pic_order_cnt_lsb"] = h["i_pic_order_cnt_lsb"]
       /\ p.poc_type # 0 => says'.slice["i_pic_order_cnt_lsb"] = 0
  BY <1>15 DEF SliceSays, SliceFields
<1>21. CurSlice'["i_pic_order_cnt_lsb"] = 0
  <2>1. "i_pic_order_cnt_lsb" \in DOMAIN Fresh(CurSlice, SliceFields)
    BY <1>19 DEF Fresh, SliceFields
  <2> QED BY <1>1, <2>1
<1>22. StreamSps["poc_type"] = p.poc_type
  BY <1>16 DEF SpsKept
<1>23. /\ Comes(todo', "i_slice_type") /\ Comes(todo', "i_frame_num")
       /\ p.poc_type = 0 => Comes(todo', "i_pic_order_cnt_lsb")
       /\ AllNamed(todo', SliceNames)
  BY <1>1, <1>19, <1>22, SliceHeadNames
<1>24. \A f \in SliceFields : CurSlice'[f] = says'.slice[f] \/ Comes(todo', f)
  BY <1>20, <1>21, <1>23 DEF SliceFields
<1>25. ASSUME NEW k \in DOMAIN todo', todo'[k].name \in SliceFields
       PROVE  says'.slice[todo'[k].name] = h[todo'[k].name]
  <2>1. todo'[k].name \in SliceNames
    BY <1>23 DEF AllNamed
  <2>2. \/ todo'[k].name = "i_slice_type" \/ todo'[k].name = "i_frame_num"
        \/ todo'[k].name = "i_pic_order_cnt_lsb" /\ p.poc_type = 0
    BY <1>22, <1>25, <2>1 DEF SliceNames, SliceFields
  <2> QED BY <1>20, <2>2
<1>26. SliceWaits'
  BY <1>15, <1>18, <1>20, <1>24, <1>25 DEF SliceWaits
<1>27. SpsWaits' /\ SliceRead'
  BY <1>1 DEF SpsWaits, SliceRead
<1>28. SpsRecovered' /\ UnreadFieldsUnused'
  BY <1>1, <1>4 DEF HeaderInv, SpsRecovered, UnreadFieldsUnused
<1> QED BY <1>2, <1>4, <1>9, <1>13, <1>26, <1>27, <1>28 DEF HeaderInv

-----------------------------------------------------------------------------
(* An element is read.                                                     *)

(* The list todo, taken apart.                                             *)
LEMMA JoinElements ==
  ASSUME NEW q \in Seq(Elements), NEW r \in Seq(Elements)
  PROVE  q \o r \in Seq(Elements)
OBVIOUS

LEMMA HeadIs ==
  ASSUME todo \in Seq(Elements), todo # <<>>
  PROVE  /\ 1 \in DOMAIN todo /\ todo[1] = Head(todo) /\ Head(todo) \in Elements
         /\ Tail(todo) \in Seq(Elements)
         /\ \A k \in DOMAIN Tail(todo) : k + 1 \in DOMAIN todo
                                         /\ Tail(todo)[k] = todo[k + 1]
<1>1. Len(todo) \in Nat \ {0} /\ DOMAIN todo = 1 .. Len(todo)
  OBVIOUS
<1>2. 1 \in DOMAIN todo /\ todo[1] = Head(todo) /\ Head(todo) \in Elements
  BY <1>1
<1>3. Tail(todo) \in Seq(Elements) /\ DOMAIN Tail(todo) = 1 .. Len(todo) - 1
  BY <1>1
<1>4. \A k \in 1 .. Len(todo) - 1 : Tail(todo)[k] = todo[k + 1]
  BY <1>1
<1> QED BY <1>1, <1>2, <1>3, <1>4

(* The reader stays in front of what is still to be read.                  *)
LEMMA ChainAhead ==
  ASSUME NEW b, NEW x \in Headers, NEW q \in Seq(Elements), NEW i, NEW j,
         Chain(b, x, q, i, j)
  PROVE  i \in Nat /\ j \in Nat /\ i <= j
<1>1. Upward(Branches(b, x))
  BY BranchesUpward
<1> QED BY <1>1, PathEnds, PathRises DEF Chain

(* Nothing that is kept follows another element of a slice.                *)
LEMMA SliceFollowNames ==
  ASSUME NEW h \in SliceParameters, NEW name, Known(h, name), NEW v
  PROVE  AllNamed(Follow(name, v), {"x"})
<1>1. name \in {"x", "transform_bypass", "field_pic"} \cup SliceFields
  BY NamesKnown
<1>2. CASE name = "field_pic"
  <2>1. Follow(name, v) = When(v = 1, <<u(1, "x")>>)
    BY <1>2 DEF Follow
  <2> QED BY <2>1 DEF AllNamed, When, u
<1>3. CASE name # "field_pic"
  <2>1. name \in Leaves
    BY <1>1, <1>3 DEF Leaves, SliceFields
  <2>2. Follow(name, v) = <<>>
    BY <2>1, LeavesBare
  <2> QED BY <2>2 DEF AllNamed
<1> QED BY <1>2, <1>3

(* The parts of ReadElement that are the same for both parsers.            *)
LEMMA ReadingIs ==
  ASSUME HeaderInv, ReadElement
  PROVE  LET e == Head(todo)
             r == Read(e)
         IN  /\ task \in {"sps", "slice"} /\ todo # <<>> /\ todo \in Seq(Elements)
             /\ s \in Reader /\ DOMAIN StreamSps = SpsFields
             /\ task = "slice" => DOMAIN CurSlice = SliceFields
             /\ e.name \in Names /\ (e.name = "x" \/ r.value \in Int)
             /\ s' = r.s /\ r.s.bits = s.bits
             /\ ~ GivesUp(e.name, r.value) =>
                  /\ todo' = Follow(e.name, r.value) \o Tail(todo)
                  /\ StreamSps' =
                       IF task = "sps" /\ e.name \in DOMAIN StreamSps
                       THEN [StreamSps EXCEPT ![e.name] = Store(e.name, r.value)]
                       ELSE StreamSps
                  /\ CurSlice' =
                       IF task = "slice" /\ e.name \in DOMAIN CurSlice
                       THEN [CurSlice EXCEPT ![e.name] = Store(e.name, r.value)]
                       ELSE CurSlice
             /\ StreamSps' = StreamSps \/ task = "sps"
             /\ CurSlice' = CurSlice \/ task = "slice"
             /\ StreamSps # Null /\ StreamSps' # Null
             /\ UNCHANGED <<units, reparse, task, own, says, fault>>
<1> DEFINE e == Head(todo)
           r == Read(e)
<1>1. TypeInv /\ TypeInv'
  BY TypeReadElement DEF HeaderInv
<1>2. /\ task # "idle" /\ todo # <<>>
      /\ s' = r.s
      /\ ~ GivesUp(e.name, r.value) =>
           /\ todo' = Follow(e.name, r.value) \o Tail(todo)
           /\ StreamSps' =
                IF task = "sps" /\ e.name \in DOMAIN StreamSps
                THEN [StreamSps EXCEPT ![e.name] = Store(e.name, r.value)]
                ELSE StreamSps
           /\ CurSlice' =
                IF task = "slice" /\ e.name \in DOMAIN CurSlice
                THEN [CurSlice EXCEPT ![e.name] = Store(e.name, r.value)]
                ELSE CurSlice
      /\ StreamSps' = StreamSps \/ task = "sps"
      /\ CurSlice' = CurSlice \/ task = "slice"
      /\ UNCHANGED <<units, reparse, task, own, says, fault>>
  BY DEF ReadElement
<1>3. /\ task \in {"sps", "slice"} /\ todo \in Seq(Elements) /\ s \in Reader
      /\ StreamSps # Null /\ StreamSps' # Null /\ DOMAIN StreamSps = SpsFields
      /\ task = "slice" => DOMAIN CurSlice = SliceFields
  BY <1>1, <1>2 DEF TypeInv, TypeOK
<1>4. e \in Elements
  BY <1>2, <1>3
<1>5. r.s.bits = s.bits /\ (e.name = "x" \/ r.value \in Int)
  BY <1>3, <1>4, ReadTyped
<1>6. e.name \in Names
  BY <1>4 DEF Elements
<1> HIDE DEF e, r
<1> QED BY <1>2, <1>3, <1>5, <1>6 DEF e, r

(* An element of an SPS.                                                   *)
LEMMA SpsElement ==
  ASSUME HeaderInv, ReadElement, task = "sps"
  PROVE  SpsWaits' /\ NoGarbageRead'
<1> DEFINE e == Head(todo)
           r == Read(e)
           v == r.value
           next == Follow(e.name, v)
<1>1. /\ todo # <<>> /\ todo \in Seq(Elements) /\ s \in Reader
      /\ DOMAIN StreamSps = SpsFields
      /\ e.name \in Names /\ (e.name = "x" \/ v \in Int)
      /\ s' = r.s /\ r.s.bits = s.bits
      /\ UNCHANGED <<task, own, says>>
  BY ReadingIs
<1>2. ~ GivesUp(e.name, v) =>
        /\ todo' = next \o Tail(todo)
        /\ StreamSps' = IF e.name \in DOMAIN StreamSps
                        THEN [StreamSps EXCEPT ![e.name] = Store(e.name, v)]
                        ELSE StreamSps
  BY ReadingIs
<1>3. PICK p \in SpsParameters, j \in Nat :
        /\ says.sps = SpsSays(p)
        /\ j <= own /\ j <= Len(s.bits) /\ Chain(s.bits, p, todo, s.pos, j)
        /\ todo = SpsHead \/ StreamSps["profile_idc"] = p.profile_idc
        /\ \A f \in SpsFieldsOf(p) :
             StreamSps[f] = SpsSays(p)[f] \/ Comes(todo, f)
  BY DEF HeaderInv, SpsWaits
<1>4. todo = SpsHead => e.name = "profile_idc"
  BY DEF SpsHead, u
<1>5. e.name = "sps_id" => StreamSps["profile_idc"] = p.profile_idc
  <2> HIDE DEF e
  <2> QED BY <1>3, <1>4
<1>6. /\ Known(p, e.name)
      /\ Val(p, e.name) # Free => v = Val(p, e.name)
      /\ ~ GivesUp(e.name, v)
      /\ Chain(s.bits, p, next \o Tail(todo), r.s.pos, j)
  BY <1>1, <1>3, <1>5, SpsStep
<1>7. Tail(todo) \in Seq(Elements)
  BY <1>1, HeadIs
<1> HIDE DEF e, r, v
<1>8. next \in Seq(Elements)
  BY <1>1, FollowTyped
<1> HIDE DEF next
<1>9. todo' = next \o Tail(todo) /\ todo' \in Seq(Elements)
  <2>1. todo' = next \o Tail(todo)
    BY <1>2, <1>6
  <2>2. next \o Tail(todo) \in Seq(Elements)
    <3>1. Tail(todo) \in Seq(Elements)
      BY <1>7
    <3> QED BY <1>8, <3>1, JoinElements
  <2> QED BY <2>1, <2>2
<1>10. StreamSps' = IF e.name \in SpsFields
                    THEN [StreamSps EXCEPT ![e.name] = Store(e.name, v)]
                    ELSE StreamSps
  BY <1>1, <1>2, <1>6
<1>11. ASSUME NEW f \in SpsFieldsOf(p), e.name = f
       PROVE  StreamSps'[f] = SpsSays(p)[f]
  <2>1. /\ f \in SpsFields /\ Val(p, f) = p[f] /\ Val(p, f) # Free
        /\ Store(f, p[f]) = SpsSays(p)[f]
    BY SpsKeeps
  <2>2. v = p[f]
    BY <1>6, <1>11, <2>1
  <2>3. StreamSps'[f] = Store(f, v)
    BY <1>1, <1>10, <1>11, <2>1
  <2> QED BY <2>1, <2>2, <2>3
<1>12. ASSUME NEW f \in SpsFields, e.name # f
       PROVE  StreamSps'[f] = StreamSps[f]
  BY <1>1, <1>10, <1>12
<1>13. ASSUME NEW f \in SpsFieldsOf(p)
       PROVE  StreamSps'[f] = SpsSays(p)[f] \/ Comes(todo', f)
  <2>1. CASE e.name = f
    BY <1>11, <2>1
  <2>2. CASE e.name # f /\ StreamSps[f] = SpsSays(p)[f]
    <3>1. f \in SpsFields
      BY SpsKeeps
    <3> QED BY <1>12, <2>2, <3>1
  <2>3. CASE e.name # f /\ Comes(todo, f)
    <3>1. \/ f \in Brings(e.name) /\ (Comes(next, f) => Comes(next \o Tail(todo), f))
          \/ Comes(next \o Tail(todo), f)
      BY <1>1, <1>8, <2>3, ComesNext DEF e
    <3>2. f \in Brings(e.name) => Comes(next, f)
      BY <1>6, <2>3, FollowBrings DEF next
    <3> QED BY <1>9, <3>1, <3>2
  <2> QED BY <1>3, <2>1, <2>2, <2>3
<1>14. StreamSps'["profile_idc"] = p.profile_idc
  <2>1. "profile_idc" \in SpsFieldsOf(p) /\ "profile_idc" \in SpsFields
    BY DEF SpsFieldsOf, SpsFields
  <2>2. SpsSays(p)["profile_idc"] = p.profile_idc
    BY <2>1 DEF SpsSays
  <2>3. CASE e.name = "profile_idc"
    BY <1>11, <2>1, <2>2, <2>3
  <2>4. CASE e.name # "profile_idc"
    BY <1>3, <1>4, <1>12, <2>1, <2>4
  <2> QED BY <2>3, <2>4
<1>15. /\ j <= own' /\ j <= Len(s'.bits) /\ Chain(s'.bits, p, todo', s'.pos, j)
       /\ says'.sps = SpsSays(p)
  BY <1>1, <1>3, <1>6, <1>9
<1>16. SpsWaits'
  BY <1>13, <1>14, <1>15 DEF SpsWaits
<1>17. NoGarbageRead'
  <2>1. p \in Headers
    BY DEF Headers
  <2>2. s'.pos \in Nat /\ j \in Nat /\ s'.pos <= j
    BY <1>9, <1>15, <2>1, ChainAhead
  <2>3. own' \in Nat
    BY <1>1 DEF HeaderInv
  <2> QED BY <1>15, <2>2, <2>3 DEF NoGarbageRead
<1> QED BY <1>16, <1>17

(* An element of a slice.                                                  *)
LEMMA SliceElement ==
  ASSUME HeaderInv, ReadElement, task = "slice"
  PROVE  SliceWaits' /\ NoGarbageRead'
<1> DEFINE e == Head(todo)
           r == Read(e)
           v == r.value
           next == Follow(e.name, v)
<1>1. /\ todo # <<>> /\ todo \in Seq(Elements) /\ s \in Reader
      /\ DOMAIN CurSlice = SliceFields
      /\ e.name \in Names /\ (e.name = "x" \/ v \in Int)
      /\ s' = r.s /\ r.s.bits = s.bits
      /\ UNCHANGED <<task, own, says>>
  BY ReadingIs
<1>2. ~ GivesUp(e.name, v) =>
        /\ todo' = next \o Tail(todo)
        /\ CurSlice' = IF e.name \in DOMAIN CurSlice
                       THEN [CurSlice EXCEPT ![e.name] = Store(e.name, v)]
                       ELSE CurSlice
  BY ReadingIs
<1>3. PICK h \in SliceParameters, j \in Nat :
        /\ DOMAIN says.slice = SliceFields
        /\ j <= own /\ j <= Len(s.bits) /\ Chain(s.bits, h, todo, s.pos, j)
        /\ \A f \in SliceFields :
             CurSlice[f] = says.slice[f] \/ Comes(todo, f)
        /\ \A k \in DOMAIN todo :
             todo[k].name \in SliceFields =>
               says.slice[todo[k].name] = h[todo[k].name]
  BY DEF HeaderInv, SliceWaits
<1>4. /\ Known(h, e.name)
      /\ Val(h, e.name) # Free => v = Val(h, e.name)
      /\ ~ GivesUp(e.name, v)
      /\ Chain(s.bits, h, next \o Tail(todo), r.s.pos, j)
  BY <1>1, <1>3, SliceStep
<1>5. /\ Tail(todo) \in Seq(Elements) /\ 1 \in DOMAIN todo /\ todo[1] = e
      /\ \A k \in DOMAIN Tail(todo) : k + 1 \in DOMAIN todo
                                      /\ Tail(todo)[k] = todo[k + 1]
  BY <1>1, HeadIs
<1> HIDE DEF e, r, v
<1>6. next \in Seq(Elements)
  BY <1>1, FollowTyped
<1> HIDE DEF next
<1>7. todo' = next \o Tail(todo) /\ todo' \in Seq(Elements)
  <2>1. todo' = next \o Tail(todo)
    BY <1>2, <1>4
  <2>2. next \o Tail(todo) \in Seq(Elements)
    <3>1. Tail(todo) \in Seq(Elements)
      BY <1>5
    <3> QED BY <1>6, <3>1, JoinElements
  <2> QED BY <2>1, <2>2
<1>8. CurSlice' = IF e.name \in SliceFields
                  THEN [CurSlice EXCEPT ![e.name] = Store(e.name, v)]
                  ELSE CurSlice
  BY <1>1, <1>2, <1>4
<1>9. ASSUME NEW f \in SliceFields, e.name = f
      PROVE  CurSlice'[f] = says.slice[f]
  <2>1. h[f] \in Nat /\ Val(h, f) = h[f]
    <3>1. h[f] \in Nat
      BY SliceValues
    <3>2. Val(h, f) = h[f]
      BY DEF Val, SliceFields
    <3> QED BY <3>1, <3>2
  <2>2. v = h[f]
    BY <1>4, <1>9, <2>1 DEF Free
  <2>3. says.slice[f] = h[f]
    BY <1>3, <1>5, <1>9
  <2>4. Store(f, v) = v
    BY DEF Store, SliceFields
  <2>5. CurSlice'[f] = Store(f, v)
    BY <1>1, <1>8, <1>9
  <2> QED BY <2>2, <2>3, <2>4, <2>5
<1>10. ASSUME NEW f \in SliceFields
       PROVE  CurSlice'[f] = says.slice[f] \/ Comes(todo', f)
  <2>1. CASE e.name = f
    BY <1>9, <2>1
  <2>2. CASE e.name # f /\ CurSlice[f] = says.slice[f]
    <3>1. CurSlice'[f] = CurSlice[f]
      BY <1>1, <1>8, <2>2
    <3> QED BY <2>2, <3>1
  <2>3. CASE e.name # f /\ Comes(todo, f)
    <3>1. \/ f \in Brings(e.name)
          \/ Comes(next \o Tail(todo), f)
      BY <1>1, <1>6, <2>3, ComesNext DEF e
    <3>2. f \notin Brings(e.name)
      <4>1. e.name \in {"x", "transform_bypass", "field_pic"} \cup SliceFields
        BY <1>4, NamesKnown
      <4>2. e.name \notin {"poc_type", "vui", "timing", "bitstream_restriction_flag"}
        BY <4>1 DEF SliceFields
      <4> QED BY <2>3, <4>2, Bringers
    <3> QED BY <1>7, <3>1, <3>2
  <2> QED BY <1>3, <2>1, <2>2, <2>3
<1>11. AllNamed(todo', {name \in Names : name \in SliceFields =>
                                           says.slice[name] = h[name]})
  <2> DEFINE T == {name \in Names : name \in SliceFields =>
                                      says.slice[name] = h[name]}
  <2>1. AllNamed(next, {"x"})
    BY <1>4, SliceFollowNames DEF next
  <2>2. "x" \in T
    BY DEF Names, SliceFields
  <2>3. ASSUME NEW k \in DOMAIN Tail(todo)
        PROVE  Tail(todo)[k].name \in T
    <3>1. k + 1 \in DOMAIN todo /\ Tail(todo)[k] = todo[k + 1]
      BY <1>5
    <3>2. todo[k + 1].name \in Names
      <4>1. todo[k + 1] \in Elements
        BY <1>1, <3>1
      <4> QED BY <4>1 DEF Elements
    <3> QED BY <1>3, <3>1, <3>2
  <2> HIDE DEF T
  <2>4. AllNamed(next, T) /\ AllNamed(Tail(todo), T)
    BY <2>1, <2>2, <2>3 DEF AllNamed
  <2>5. AllNamed(todo', T)
    BY <1>5, <1>6, <1>7, <2>4, NamedCat
  <2> QED BY <2>5 DEF T
<1>12. /\ j <= own' /\ j <= Len(s'.bits) /\ Chain(s'.bits, h, todo', s'.pos, j)
       /\ says' = says
  BY <1>1, <1>3, <1>4, <1>7
<1>13. \A k \in DOMAIN todo' :
         todo'[k].name \in SliceFields =>
           says.slice[todo'[k].name] = h[todo'[k].name]
  BY <1>11 DEF AllNamed
<1>14. SliceWaits'
  BY <1>3, <1>10, <1>12, <1>13 DEF SliceWaits
<1>15. NoGarbageRead'
  <2>1. h \in Headers
    BY DEF Headers
  <2>2. s'.pos \in Nat /\ j \in Nat /\ s'.pos <= j
    BY <1>7, <1>12, <2>1, ChainAhead
  <2>3. own' \in Nat
    BY <1>1 DEF HeaderInv
  <2> QED BY <1>12, <2>2, <2>3 DEF NoGarbageRead
<1> QED BY <1>14, <1>15

(* Either kind of element disturbs only its own half of the invariant.     *)
LEMMA HeaderReadElement ==
  ASSUME HeaderInv, ReadElement
  PROVE  HeaderInv'
<1>1. TypeInv'
  BY TypeReadElement DEF HeaderInv
<1>2. /\ task \in {"sps", "slice"}
      /\ StreamSps' = StreamSps \/ task = "sps"
      /\ CurSlice' = CurSlice \/ task = "slice"
      /\ StreamSps # Null /\ StreamSps' # Null
      /\ UNCHANGED <<units, reparse, task, own, says, fault>>
  BY ReadingIs
<1>3. UnitsConform'
  <2>1. UnitsConform
    BY DEF HeaderInv
  <2> QED BY <1>2, <2>1 DEF UnitsConform
<1>4. /\ (DOMAIN says = {"sps", "slice"} /\ own \in Nat)'
      /\ (SpsRecovered /\ SliceRead /\ UnreadFieldsUnused)'
  BY <1>2 DEF HeaderInv, SpsRecovered, SliceRead, UnreadFieldsUnused
<1>5. CASE task = "sps"
  <2>1. SliceWaits'
    BY <1>2, <1>5 DEF SliceWaits
  <2> QED BY <1>1, <1>3, <1>4, <1>5, <2>1, SpsElement DEF HeaderInv
<1>6. CASE task = "slice"
  <2>1. SpsWaits'
    BY <1>2, <1>6 DEF SpsWaits
  <2> QED BY <1>1, <1>3, <1>4, <1>6, <2>1, SliceElement DEF HeaderInv
<1> QED BY <1>2, <1>5, <1>6

-----------------------------------------------------------------------------
(* The function returns: nothing is left to come.                          *)
LEMMA HeaderReturn ==
  ASSUME HeaderInv, Return
  PROVE  HeaderInv'
<1>1. /\ task # "idle" /\ todo = <<>> /\ task' = "idle"
      /\ fault' = IF reparse THEN "none"
                  ELSE CASE StreamSps["time_scale"] = Unset -> "unset"
                         [] StreamSps["time_scale"] = 0 -> "zero"
                         [] OTHER -> "none"
      /\ UNCHANGED <<units, reparse, s, todo, own, StreamSps, CurSlice, says>>
  BY DEF Return
<1>2. TypeInv'
  BY TypeReturn DEF HeaderInv
<1>3. UnitsConform'
  <2>1. UnitsConform
    BY DEF HeaderInv
  <2> QED BY <1>1, <2>1 DEF UnitsConform
<1>4. \A f : ~ Comes(todo, f)
  BY <1>1 DEF Comes
<1>5. \A f \in DOMAIN says.sps : StreamSps[f] = says.sps[f]
  <2>1. CASE task = "sps"
    <3>1. PICK p \in SpsParameters :
            /\ says.sps = SpsSays(p)
            /\ \A f \in SpsFieldsOf(p) :
                 StreamSps[f] = SpsSays(p)[f] \/ Comes(todo, f)
      BY <2>1 DEF HeaderInv, SpsWaits
    <3> QED BY <1>4, <3>1 DEF SpsSays
  <2>2. CASE task # "sps"
    BY <2>2 DEF HeaderInv, SpsRecovered
  <2> QED BY <2>1, <2>2
<1>6. \A f \in DOMAIN says.slice : CurSlice[f] = says.slice[f]
  <2>1. CASE task = "slice"
    BY <1>4, <2>1 DEF HeaderInv, SliceWaits
  <2>2. CASE task # "slice"
    BY <2>2 DEF HeaderInv, SliceRead
  <2> QED BY <2>1, <2>2
<1>7. SpsRecovered' /\ SliceRead'
  BY <1>1, <1>5, <1>6 DEF SpsRecovered, SliceRead
<1>8. UnreadFieldsUnused'
  <2>1. SUFFICES ASSUME "time_scale" \in DOMAIN says.sps,
                        says.sps["time_scale"] > 0
                 PROVE  fault' = "none"
    BY <1>1 DEF UnreadFieldsUnused
  <2>2. StreamSps["time_scale"] > 0
    BY <1>5, <2>1
  <2>3. ~ (0 > 0) /\ ~ (Unset > 0)
    BY DEF Unset
  <2> QED BY <1>1, <2>2, <2>3
<1>9. SpsWaits' /\ SliceWaits'
  BY <1>1 DEF SpsWaits, SliceWaits
<1>10. (DOMAIN says = {"sps", "slice"} /\ own \in Nat /\ NoGarbageRead)'
  BY <1>1 DEF HeaderInv, NoGarbageRead
<1> QED BY <1>2, <1>3, <1>7, <1>8, <1>9, <1>10 DEF HeaderInv

(* Every step preserves the invariant.                                     *)
LEMMA HeaderNext == HeaderInv /\ [Next]_vars => HeaderInv'
<1> SUFFICES ASSUME HeaderInv, [Next]_vars PROVE HeaderInv'
  OBVIOUS
<1>1. CASE UNCHANGED vars
  <2>1. /\ UNCHANGED <<units, reparse, task, s, todo, own, StreamSps, CurSlice>>
        /\ UNCHANGED <<says, fault>>
    BY <1>1 DEF vars, parser
  <2>2. TypeInv'
    BY <1>1, TypeNext DEF HeaderInv
  <2>3. UnitsConform'
    BY <2>1 DEF HeaderInv, UnitsConform
  <2>4. SpsWaits' /\ SliceWaits'
    BY <2>1 DEF HeaderInv, SpsWaits, SliceWaits
  <2>5. /\ (DOMAIN says = {"sps", "slice"} /\ own \in Nat /\ NoGarbageRead)'
        /\ (SpsRecovered /\ SliceRead /\ UnreadFieldsUnused)'
    BY <2>1 DEF HeaderInv, NoGarbageRead, SpsRecovered, SliceRead,
                UnreadFieldsUnused
  <2> QED BY <2>2, <2>3, <2>4, <2>5 DEF HeaderInv
<1> QED BY <1>1, HeaderParseSqs, HeaderSkip, HeaderParseSlice,
           HeaderReadElement, HeaderReturn DEF Next

(* So it holds of every behaviour that starts with a conforming stream.    *)
LEMMA HeaderAlways == Spec /\ Conforms(units) => []HeaderInv
BY HeaderInit, HeaderNext, PTL DEF Spec

(* ParseSqs leaves in StreamSps what the SPS says: for every value of its  *)
(* parameters and every presence of its optional parts, wherever the codes *)
(* cross byte borders and whatever bytes were prevented, in a stream of    *)
(* any length, and whatever another SPS left in the fields before.         *)
THEOREM SpsIsRecovered == Spec /\ Conforms(units) => []SpsRecovered
<1>1. HeaderInv => SpsRecovered
  BY DEF HeaderInv
<1> QED BY <1>1, HeaderAlways, PTL

(* So does ParseSlice leave type, frame number and order count of a slice  *)
(* in CurSlice, though it takes the widths of two of them from StreamSps,  *)
(* looks at no more than 64 bytes and is given bytes that are not the      *)
(* slice's.                                                                *)
THEOREM SliceIsRecovered == Spec /\ Conforms(units) => []SliceRecovered
<1>1. HeaderInv => SliceRecovered
  BY DEF HeaderInv, SliceRead, SliceRecovered
<1> QED BY <1>1, HeaderAlways, PTL

(* In the middle of a header, too, neither of them has gone past the last  *)
(* bit of the unit, into the bytes that lie behind it.                     *)
THEOREM GarbageIsNotRead == Spec /\ Conforms(units) => []NoGarbageRead
<1>1. HeaderInv => NoGarbageRead
  BY DEF HeaderInv
<1> QED BY <1>1, HeaderAlways, PTL

(* A stream whose SPS has timing information and a time_scale other than 0 *)
(* never makes TCPForH264 divide by a field that no one has set, or by 0.  *)
THEOREM TimeScaleIsSet == Spec /\ Conforms(units) => []UnreadFieldsUnused
<1>1. HeaderInv => UnreadFieldsUnused
  BY DEF HeaderInv
<1> QED BY <1>1, HeaderAlways, PTL
=============================================================================
