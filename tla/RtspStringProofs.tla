-------------------------- MODULE RtspStringProofs --------------------------
(* What a client is told about its own request, for any requests written   *)
(* as clients write them, one behind the other in any order; and what the  *)
(* SDP it gets says of the file, however the window cuts that.             *)
EXTENDS RtspString, TLAPS, FiniteSetTheorems, WellFoundedInduction

-----------------------------------------------------------------------------
(* The first and the last of some places.                                  *)

LEMMA Least ==
  ASSUME NEW T \in SUBSET Nat, T # {}
  PROVE  \E x \in T : \A y \in T : x <= y
<1>1. T \subseteq Nat
  OBVIOUS
<1>2. PICK x \in T : \A y \in T : ~ (<<y, x>> \in OpToRel(<, Nat))
  BY <1>1, NatLessThanWellFounded, WFMin
<1>3. \A y \in T : ~ (y < x)
  BY <1>1, <1>2 DEF OpToRel
<1> QED
  BY <1>1, <1>3

LEMMA Greatest ==
  ASSUME NEW n \in Nat, NEW T \in SUBSET (0 .. n), T # {}
  PROVE  \E x \in T : \A y \in T : y <= x
<1> DEFINE U == {n - x : x \in T}
<1>1. \A x \in T : n - x \in Nat
  OBVIOUS
<1>2. U \in SUBSET Nat /\ U # {}
  BY <1>1
<1>3. PICK u \in U : \A v \in U : u <= v
  <2> HIDE DEF U
  <2> QED
    BY <1>2, Least
<1>4. PICK x \in T : u = n - x
  BY <1>3
<1>5. \A y \in T : n - x <= n - y
  BY <1>3, <1>4
<1>6. \A y \in T : y <= x
  BY <1>5
<1> QED
  BY <1>4, <1>6

(* A scanner that looks for the first of some places finds it.             *)
LEMMA FirstPlace ==
  ASSUME NEW at \in SUBSET Nat, NEW i \in at, \A j \in at : i <= j
  PROVE  (CHOOSE k \in at : \A j \in at : k <= j) = i
<1> DEFINE First(k) == \A j \in at : k <= j
<1>1. \A k \in at : First(k) => k = i
  OBVIOUS
<1>2. First(i)
  OBVIOUS
<1> HIDE DEF First
<1>3. (CHOOSE k \in at : First(k)) = i
  BY <1>1, <1>2
<1> QED
  BY <1>3 DEF First

(* Find stops at the first token, and fails when there is none.            *)
LEMMA FindFirst ==
  ASSUME NEW t \in Seq(STRING), NEW token, NEW p \in Nat, p >= 1,
         NEW i \in p .. Len(t), t[i] = token,
         \A j \in p .. i - 1 : t[j] # token
  PROVE  Find(t, token, p) = i
<1> DEFINE at == {j \in p .. Len(t) : t[j] = token}
<1>1. at \in SUBSET Nat /\ i \in at /\ at # {}
  OBVIOUS
<1>2. \A j \in at : i <= j
  OBVIOUS
<1>3. (CHOOSE k \in at : \A j \in at : k <= j) = i
  <2> HIDE DEF at
  <2> QED
    BY <1>1, <1>2, FirstPlace
<1> QED
  BY <1>1, <1>3 DEF Find

LEMMA FindNone ==
  ASSUME NEW t \in Seq(STRING), NEW token, NEW p \in Nat, p >= 1,
         \A j \in p .. Len(t) : t[j] # token
  PROVE  Find(t, token, p) = 0
BY DEF Find

LEMMA FindPlace ==
  ASSUME NEW t \in Seq(STRING), NEW token, NEW p \in Nat, p >= 1
  PROVE  \/ /\ Find(t, token, p) = 0
            /\ \A j \in p .. Len(t) : t[j] # token
         \/ /\ Find(t, token, p) \in p .. Len(t)
            /\ t[Find(t, token, p)] = token
            /\ \A j \in p .. Find(t, token, p) - 1 : t[j] # token
<1> DEFINE at == {j \in p .. Len(t) : t[j] = token}
<1>1. CASE at = {}
  BY <1>1 DEF Find
<1>2. CASE at # {}
  <2>1. at \in SUBSET Nat
    OBVIOUS
  <2>2. PICK i \in at : \A j \in at : i <= j
    <3> HIDE DEF at
    <3> QED
      BY <1>2, <2>1, Least
  <2>3. Find(t, token, p) = i
    BY <2>2, FindFirst
  <2> QED
    BY <2>2, <2>3
<1> QED
  BY <1>1, <1>2

-----------------------------------------------------------------------------
(* The CSeq.                                                               *)

LEMMA CseqBehind ==
  ASSUME NEW t \in Seq(STRING), NEW q \in Nat, NEW a \in Nat, NEW b \in Nat,
         q >= 1, q <= a, a <= b, b < Len(t),
         \A i \in q .. a - 1 : t[i] = "SP",
         \A i \in a .. b : t[i] \notin {"SP", "\r\n"},
         t[b + 1] = "\r\n"
  PROVE  CseqPlaces(t, q) = a .. b
<1> DEFINE chars == {i \in q .. Len(t) : t[i] # "SP"}
           ends == {i \in chars : t[i] = "\r\n" /\ \E j \in chars : j < i}
<1>1. a \in chars /\ b + 1 \in chars
  OBVIOUS
<1>2. b + 1 \in ends
  BY <1>1
<1>3. \A i \in chars : i >= a
  OBVIOUS
<1>4. \A e \in ends : e >= b + 1
  BY <1>3
<1>5. \A i \in a .. b : i \in chars /\ \A e \in ends : i < e
  BY <1>4
<1>6. \A i \in chars : (\A e \in ends : i < e) => i \in a .. b
  BY <1>2, <1>3
<1>7. ends # {}
  BY <1>2
<1>8. CseqPlaces(t, q) = {i \in chars : ends # {} /\ \A e \in ends : i < e}
  BY DEF CseqPlaces
<1>9. chars \in SUBSET Nat
  OBVIOUS
<1> HIDE DEF ends, chars
<1> QED
  BY <1>5, <1>6, <1>7, <1>8, <1>9

LEMMA AtInterval ==
  ASSUME NEW t, NEW v \in Nat, NEW n \in Nat
  PROVE  At(t, v + 1 .. v + n) = [m \in 1 .. n |-> t[v + m]]
<1> DEFINE places == v + 1 .. v + n
<1>1. Cardinality(places) = n
  BY FS_Interval
<1>2. ASSUME NEW i \in places
      PROVE  Cardinality({j \in places : j <= i}) = i - v
  <2>1. {j \in places : j <= i} = v + 1 .. i
    OBVIOUS
  <2>2. v + 1 \in Int /\ i \in Int /\ v + 1 <= i /\ i - (v + 1) + 1 = i - v
    OBVIOUS
  <2>3. Cardinality(v + 1 .. i) = i - (v + 1) + 1
    <3> DEFINE low == v + 1
    <3> HIDE DEF low
    <3>1. low \in Int /\ i \in Int /\ low <= i
      BY <2>2 DEF low
    <3>2. Cardinality(low .. i) = i - low + 1
      BY <3>1, FS_Interval
    <3> QED
      BY <3>2 DEF low
  <2> QED
    BY <2>1, <2>2, <2>3
<1>3. ASSUME NEW m \in 1 .. n
      PROVE  (CHOOSE i \in places : Cardinality({j \in places : j <= i}) = m)
               = v + m
  <2>1. v + m \in places /\ v + m - v = m
    OBVIOUS
  <2>2. Cardinality({j \in places : j <= v + m}) = m
    BY <1>2, <2>1
  <2>3. \A i \in places :
          Cardinality({j \in places : j <= i}) = m => i = v + m
    BY <1>2
  <2> DEFINE c(i) == Cardinality({j \in places : j <= i})
  <2>4. v + m \in places /\ c(v + m) = m
    BY <2>1, <2>2
  <2>5. \A i \in places : c(i) = m => i = v + m
    BY <2>3
  <2> HIDE DEF c
  <2>6. (CHOOSE i \in places : c(i) = m) = v + m
    BY <2>4, <2>5
  <2> QED
    BY <2>6 DEF c
<1>4. At(t, places) =
        [m \in 1 .. n |->
           t[CHOOSE i \in places : Cardinality({j \in places : j <= i}) = m]]
  BY <1>1 DEF At
<1> QED
  BY <1>3, <1>4

-----------------------------------------------------------------------------
(* The other parts of a request.                                           *)

LEMMA TypeFound ==
  ASSUME NEW t \in Seq(STRING)
  PROVE  RequestType(t) \in Known \cup {"ERRORTYPE"}
<1> DEFINE p == Find(t, "rtsp:", 1)
           at == {i \in 1 .. p : t[i] \in Known}
<1>1. p \in Nat
  BY FindPlace
<1>2. CASE at = {}
  BY <1>2 DEF RequestType
<1>3. CASE at # {}
  <2>1. at \in SUBSET (0 .. p)
    BY <1>1
  <2>2. \E i \in at : \A j \in at : j <= i
    <3> HIDE DEF at, p
    <3> QED
      BY <1>1, <1>3, <2>1, Greatest
  <2>3. (CHOOSE i \in at : \A j \in at : j <= i) \in at
    BY <2>2
  <2> QED
    BY <1>3, <2>3 DEF RequestType
<1> QED
  BY <1>2, <1>3

LEMMA TypeWritten ==
  ASSUME NEW t \in Seq(STRING), Len(t) >= 2, t[1] \in Known, t[2] = "rtsp:"
  PROVE  /\ Find(t, "rtsp:", 1) = 2
         /\ RequestType(t) = t[1]
<1>1. t[1] # "rtsp:"
  BY DEF Known
<1>2. Find(t, "rtsp:", 1) = 2
  BY <1>1, FindFirst
<1> DEFINE at == {i \in 1 .. 2 : t[i] \in Known}
<1>3. at = {1}
  BY DEF Known
<1>4. (CHOOSE i \in at : \A j \in at : j <= i) = 1
  <2> HIDE DEF at
  <2> QED
    BY <1>3
<1>5. RequestType(t) =
        IF at = {} THEN "ERRORTYPE"
        ELSE t[CHOOSE i \in at : \A j \in at : j <= i]
  BY <1>2 DEF RequestType
<1> HIDE DEF at
<1> QED
  BY <1>2, <1>3, <1>4, <1>5

LEMMA AddrWritten ==
  ASSUME NEW t \in Seq(STRING), NEW p \in Nat, p >= 1, NEW h \in p .. Len(t),
         t[h] = "/", h < Len(t), t[h + 1] # "/",
         \A i \in p .. h - 1 : t[i] # "/"
  PROVE  get_addr(t, p) = h
<1> DEFINE at == {i \in p .. Len(t) :
                    t[i] = "/" /\ (i = Len(t) \/ t[i + 1] # "/")}
<1>1. at \in SUBSET Nat /\ h \in at /\ at # {}
  OBVIOUS
<1>2. \A j \in at : h <= j
  OBVIOUS
<1>3. (CHOOSE k \in at : \A j \in at : k <= j) = h
  <2> HIDE DEF at
  <2> QED
    BY <1>1, <1>2, FirstPlace
<1> QED
  BY <1>1, <1>3 DEF get_addr

(* The only "CSeq:" is at c; the number stands behind v, where a space may *)
(* be between them.                                                        *)
CseqAt(t, cseq, c, v) ==
  /\ cseq # <<>> /\ c \in DOMAIN t /\ v \in {c, c + 1}
  /\ \A i \in DOMAIN t : t[i] = "CSeq:" <=> i = c
  /\ v = c + 1 => t[c + 1] = "SP"
  /\ v + Len(cseq) + 1 <= Len(t)
  /\ \A i \in DOMAIN cseq : /\ t[v + i] = cseq[i]
                            /\ cseq[i] \notin {"SP", "\r\n"}
  /\ t[v + Len(cseq) + 1] = "\r\n"

(* It is read from whatever place in front of it the search begins, or     *)
(* from behind the space.                                                  *)
LEMMA CseqRead ==
  ASSUME NEW t \in Seq(STRING), NEW cseq \in Seq(STRING), NEW c, NEW v,
         NEW p \in Nat, NEW old, CseqAt(t, cseq, c, v), p >= 1,
         p <= c \/ (p = c + 2 /\ v = c + 1)
  PROVE  get_cseq(t, p, old) = cseq
<1> DEFINE n == Len(cseq)
           found == Find(t, "CSeq:", p)
           q == IF found = 0 THEN p ELSE found + 1
<1>1. n \in Nat /\ n >= 1 /\ DOMAIN cseq = 1 .. n
  BY DEF CseqAt
<1>2. v \in Nat /\ c \in Nat /\ c >= 1 /\ c <= v
  BY DEF CseqAt
<1>3. q \in Nat /\ q >= 1 /\ q <= v + 1 /\ \A i \in q .. v : t[i] = "SP"
  <2>1. CASE p <= c
    <3>1. /\ c \in p .. Len(t) /\ t[c] = "CSeq:"
          /\ \A j \in p .. c - 1 : t[j] # "CSeq:"
      BY <2>1 DEF CseqAt
    <3>2. found = c
      BY <3>1, FindFirst
    <3>3. q = c + 1
      BY <1>2, <3>2
    <3>4. v = c \/ (v = c + 1 /\ t[c + 1] = "SP")
      BY DEF CseqAt
    <3> HIDE DEF q
    <3> QED
      BY <1>2, <3>3, <3>4
  <2>2. CASE p = c + 2 /\ v = c + 1
    <3>1. \A j \in p .. Len(t) : t[j] # "CSeq:"
      BY <2>2 DEF CseqAt
    <3>2. found = 0
      BY <3>1, FindNone
    <3> QED
      BY <1>2, <2>2, <3>2 DEF CseqAt
  <2> QED
    BY <2>1, <2>2
<1>4. \A i \in v + 1 .. v + n : t[i] = cseq[i - v] /\ i - v \in 1 .. n
  <2> SUFFICES ASSUME NEW i \in v + 1 .. v + n
               PROVE  t[i] = cseq[i - v] /\ i - v \in 1 .. n
    OBVIOUS
  <2>1. i - v \in 1 .. n /\ v + (i - v) = i
    BY <1>1, <1>2
  <2> QED
    BY <1>1, <2>1 DEF CseqAt
<1>5. \A i \in v + 1 .. v + n : t[i] \notin {"SP", "\r\n"}
  BY <1>1, <1>4 DEF CseqAt
<1>6. CseqPlaces(t, q) = v + 1 .. v + n
  <2>1. v + n + 1 <= Len(t) /\ t[v + n + 1] = "\r\n"
    BY <1>1, <1>2 DEF CseqAt
  <2> HIDE DEF q, n
  <2> DEFINE a == v + 1
             b == v + n
  <2>2. /\ q \in Nat /\ a \in Nat /\ b \in Nat
        /\ q >= 1 /\ q <= a /\ a <= b /\ b < Len(t)
        /\ \A i \in q .. a - 1 : t[i] = "SP"
        /\ \A i \in a .. b : t[i] \notin {"SP", "\r\n"}
        /\ t[b + 1] = "\r\n"
    BY <1>1, <1>2, <1>3, <1>5, <2>1
  <2> HIDE DEF a, b
  <2>3. CseqPlaces(t, q) = a .. b
    BY <2>2, CseqBehind
  <2> QED
    BY <2>3 DEF a, b
<1>7. At(t, v + 1 .. v + n) = [m \in 1 .. n |-> t[v + m]]
  <2> HIDE DEF n
  <2> QED
    BY <1>1, <1>2, AtInterval
<1>8. [m \in 1 .. n |-> t[v + m]] = cseq
  BY <1>1 DEF CseqAt
<1>9. v + 1 .. v + n # {} /\ p # 0
  <2> HIDE DEF n
  <2>1. v + 1 \in v + 1 .. v + n
    BY <1>1, <1>2
  <2> QED
    BY <2>1
<1> HIDE DEF q, n
<1>10. get_cseq(t, p, old) = At(t, CseqPlaces(t, q))
  BY <1>6, <1>9 DEF get_cseq, q
<1> QED
  BY <1>6, <1>7, <1>8, <1>10

(* So it is in a request as clients write it.                              *)
LEMMA CseqHas ==
  ASSUME NEW t \in Seq(STRING), NEW cseq \in Seq(STRING), NEW spaced \in BOOLEAN,
         NEW c \in DOMAIN t, cseq # <<>>,
         \A i \in DOMAIN t : t[i] = "CSeq:" <=> i = c,
         spaced => t[c + 1] = "SP",
         \A i \in DOMAIN cseq : cseq[i] \notin {"SP", "\r\n"},
         (IF spaced THEN c + 1 ELSE c) + Len(cseq \o <<"\r\n">>) <= Len(t),
         \A i \in DOMAIN (cseq \o <<"\r\n">>) :
           t[(IF spaced THEN c + 1 ELSE c) + i] = (cseq \o <<"\r\n">>)[i]
  PROVE  CseqAt(t, cseq, c, IF spaced THEN c + 1 ELSE c)
<1> DEFINE v == IF spaced THEN c + 1 ELSE c
           e == Len(cseq) + 1
           text == cseq \o <<"\r\n">>
<1>1. Len(text) = e /\ DOMAIN text = 1 .. e /\ e \in 1 .. e
  OBVIOUS
<1>2. (\A i \in DOMAIN cseq : text[i] = cseq[i]) /\ text[e] = "\r\n"
  OBVIOUS
<1>3. DOMAIN cseq \subseteq 1 .. e
  OBVIOUS
<1>4. v \in Nat /\ v \in {c, c + 1} /\ (v = c + 1 => t[c + 1] = "SP")
  OBVIOUS
<1>5. v + e <= Len(t) /\ \A i \in 1 .. e : t[v + i] = text[i]
  BY <1>1
<1>6. \A i \in DOMAIN cseq : t[v + i] = cseq[i]
  BY <1>2, <1>3, <1>5
<1>7. t[v + e] = "\r\n"
  BY <1>1, <1>2, <1>5
<1>8. v + e = v + Len(cseq) + 1
  <2> HIDE DEF v
  <2>1. v \in Nat /\ Len(cseq) \in Nat
    BY <1>4
  <2> QED
    BY <2>1
<1> HIDE DEF text, v, e
<1>9. CseqAt(t, cseq, c, v)
  BY <1>4, <1>5, <1>6, <1>7, <1>8 DEF CseqAt
<1> QED
  BY <1>9 DEF v

(* What deal_string makes of a text in which all parts are found.          *)
LEMMA Understood ==
  ASSUME NEW t \in Seq(STRING), Len(t) >= 2, t[1] \in Known, t[2] = "rtsp:",
         NEW slash \in Nat, slash # 0, get_addr(t, 5) = slash,
         NEW space \in Nat, space # 0, Find(t, "SP", slash + 1) = space
  PROVE  deal_string(t) =
           [type |-> t[1], addr |-> SubSeq(t, 5, slash - 1),
            file_path |-> SubSeq(t, slash + 1, space - 1),
            cseq |-> get_cseq(t, space + 1, deal_info.cseq)]
<1>1. RequestType(t) = t[1] /\ Find(t, "rtsp:", 1) = 2
  BY TypeWritten
<1>2. t[1] # "ERRORTYPE"
  BY DEF Known
<1> DEFINE type == RequestType(t)
           p == IF type = "ERRORTYPE" THEN 0 ELSE Find(t, "rtsp:", 1) + 3
           atSlash == get_addr(t, p)
           atSpace == get_filepath(t, IF atSlash = 0 THEN 0 ELSE atSlash + 1)
<1>3. p = 5
  BY <1>1, <1>2
<1>4. atSlash = slash
  BY <1>3
<1>5. atSpace = space
  BY <1>4 DEF get_filepath
<1>6. deal_string(t) =
        [type |-> type,
         addr |-> IF atSlash = 0 THEN deal_info.addr
                  ELSE SubSeq(t, p, atSlash - 1),
         file_path |-> IF atSpace = 0 THEN deal_info.file_path
                       ELSE SubSeq(t, atSlash + 1, atSpace - 1),
         cseq |-> get_cseq(t, IF atSpace = 0 THEN 0 ELSE atSpace + 1,
                           deal_info.cseq)]
  BY DEF deal_string
<1>7. type = t[1]
  BY <1>1
<1> HIDE DEF type, p, atSlash, atSpace
<1> QED
  BY <1>3, <1>4, <1>5, <1>6, <1>7

(* A request with a path is understood whatever deal_info holds.           *)
LEMMA PathUnderstood ==
  ASSUME NEW r \in Texts, r.method \in Known, Written(r), r.path # <<>>
  PROVE  /\ deal_string(r.text).type = r.method
         /\ deal_string(r.text).file_path = r.path
         /\ deal_string(r.text).cseq = r.cseq
<1> DEFINE t == r.text
           n == Len(r.path)
           Has(k, words) == /\ k + Len(words) <= Len(t)
                            /\ \A i \in DOMAIN words : t[k + i] = words[i]
<1>1. PICK h \in 5 .. Len(t), c \in DOMAIN t :
        LET v == IF r.spaced THEN c + 1 ELSE c
        IN  /\ Has(0, <<r.method, "rtsp:", "/", "/">>)
            /\ \A i \in 5 .. h - 1 : t[i] # "/"
            /\ t[h] = "/" /\ Has(h, r.path) /\ t[h + n + 1] = "SP"
            /\ r.path[1] # "/" /\ \A i \in 1 .. n : r.path[i] # "SP"
            /\ h + n + 1 < c
            /\ \A i \in DOMAIN t : t[i] = "CSeq:" <=> i = c
            /\ r.spaced => Has(c, <<"SP">>)
            /\ r.cseq # <<>> /\ Has(v, r.cseq \o <<"\r\n">>)
            /\ \A i \in DOMAIN r.cseq : r.cseq[i] \notin {"SP", "\r\n"}
  BY DEF Written
<1> DEFINE v == IF r.spaced THEN c + 1 ELSE c
           a == h + 1
           b == h + n + 1
<1>2. /\ t \in Seq(STRING) /\ r.path \in Seq(STRING) /\ r.cseq \in Seq(STRING)
      /\ r.spaced \in BOOLEAN /\ n \in Nat /\ n >= 1 /\ DOMAIN r.path = 1 .. n
  BY DEF Texts
<1>3. Len(t) >= 2 /\ t[1] = r.method /\ t[2] = "rtsp:"
  <2>1. Len(<<r.method, "rtsp:", "/", "/">>) = 4
    OBVIOUS
  <2> QED
    BY <1>1, <1>2, <2>1
<1>4. h + n <= Len(t) /\ \A i \in 1 .. n : t[h + i] = r.path[i]
  <2>1. Has(h, r.path)
    BY <1>1
  <2> QED
    BY <1>2, <2>1
<1>5. /\ r.path[1] # "/" /\ t[h] = "/" /\ t[h + n + 1] = "SP"
      /\ \A i \in 1 .. n : r.path[i] # "SP"
  BY <1>1
<1>6. h + n + 1 < c /\ c <= Len(t) /\ h \in Nat /\ h >= 5 /\ c \in Nat
  <2>1. Len(t) \in Nat /\ DOMAIN t = 1 .. Len(t)
    BY <1>2
  <2>2. h + n + 1 < c
    BY <1>1
  <2>3. h \in 5 .. Len(t) /\ c \in 1 .. Len(t)
    BY <2>1
  <2> HIDE DEF t, n, Has
  <2> QED
    BY <2>1, <2>2, <2>3
<1>7. get_addr(t, 5) = h
  <2>1. t[h + 1] = r.path[1] /\ h < Len(t)
    BY <1>2, <1>4, <1>6
  <2>2. h \in 5 .. Len(t) /\ \A i \in 5 .. h - 1 : t[i] # "/"
    BY <1>1
  <2> HIDE DEF t
  <2> QED
    BY <1>2, <1>5, <2>1, <2>2, AddrWritten
<1>8. Find(t, "SP", a) = b
  <2>1. \A i \in h + 1 .. h + n : t[i] # "SP"
    <3> SUFFICES ASSUME NEW i \in h + 1 .. h + n
                 PROVE  t[i] # "SP"
      OBVIOUS
    <3>1. i - h \in 1 .. n /\ h + (i - h) = i
      BY <1>2
    <3> QED
      BY <1>2, <1>4, <1>5, <3>1
  <2>2. /\ a \in Nat /\ a >= 1 /\ b \in a .. Len(t) /\ t[b] = "SP"
        /\ \A i \in a .. b - 1 : t[i] # "SP"
    BY <1>2, <1>5, <1>6, <2>1
  <2> HIDE DEF a, b, t
  <2> QED
    BY <1>2, <2>2, FindFirst
<1>9. get_cseq(t, b + 1, deal_info.cseq) = r.cseq
  <2>1. CseqAt(t, r.cseq, c, v)
    <3>1. /\ r.cseq # <<>> /\ \A i \in DOMAIN t : t[i] = "CSeq:" <=> i = c
          /\ r.spaced => Has(c, <<"SP">>)
          /\ Has(v, r.cseq \o <<"\r\n">>)
          /\ \A i \in DOMAIN r.cseq : r.cseq[i] \notin {"SP", "\r\n"}
      BY <1>1
    <3>2. r.spaced => t[c + 1] = "SP"
      BY <3>1
    <3> HIDE DEF t
    <3> QED
      BY <1>2, <3>1, <3>2, CseqHas
  <2> DEFINE e == b + 1
  <2>2. e \in Nat /\ e >= 1 /\ e <= c
    BY <1>2, <1>6
  <2> HIDE DEF v, e, t
  <2>3. get_cseq(t, e, deal_info.cseq) = r.cseq
    BY <1>2, <2>1, <2>2, CseqRead
  <2> QED
    BY <2>3 DEF e
<1>10. SubSeq(t, a, b - 1) = r.path
  <2>1. SubSeq(t, h + 1, h + n) = r.path
    BY <1>2, <1>4, <1>6
  <2>2. b - 1 = h + n
    BY <1>2, <1>6
  <2> QED
    BY <2>1, <2>2
<1>11. b \in Nat /\ b # 0 /\ h # 0
  BY <1>2, <1>6
<1> HIDE DEF t, b
<1>12. deal_string(t) =
         [type |-> t[1], addr |-> SubSeq(t, 5, h - 1),
          file_path |-> SubSeq(t, a, b - 1),
          cseq |-> get_cseq(t, b + 1, deal_info.cseq)]
  BY <1>2, <1>3, <1>6, <1>7, <1>8, <1>11, Understood
<1> QED
  BY <1>3, <1>9, <1>10, <1>12 DEF t

(* Without a path, the CSeq is found when a space follows "CSeq:".         *)
LEMMA SpacedUnderstood ==
  ASSUME NEW r \in Texts, r.method \in Known, Written(r), r.path = <<>>,
         r.spaced
  PROVE  /\ deal_string(r.text).type = r.method
         /\ deal_string(r.text).cseq = r.cseq
<1> DEFINE t == r.text
           Has(k, words) == /\ k + Len(words) <= Len(t)
                            /\ \A i \in DOMAIN words : t[k + i] = words[i]
<1>1. PICK h \in 5 .. Len(t), c \in DOMAIN t :
        /\ Has(0, <<r.method, "rtsp:", "/", "/">>)
        /\ \A i \in 5 .. h - 1 : t[i] # "/"
        /\ Has(h - 1, <<"SP", "RTSP", "/", "1.0">>) /\ h + 3 < c
        /\ \A i \in DOMAIN t : t[i] = "CSeq:" <=> i = c
        /\ Has(c, <<"SP">>)
        /\ r.cseq # <<>> /\ Has(c + 1, r.cseq \o <<"\r\n">>)
        /\ \A i \in DOMAIN r.cseq : r.cseq[i] \notin {"SP", "\r\n"}
  BY DEF Written
<1>2. /\ t \in Seq(STRING) /\ r.cseq \in Seq(STRING) /\ r.spaced \in BOOLEAN
  BY DEF Texts
<1>3. Len(t) >= 2 /\ t[1] = r.method /\ t[2] = "rtsp:"
  <2>1. Len(<<r.method, "rtsp:", "/", "/">>) = 4
    OBVIOUS
  <2> QED
    BY <1>1, <1>2, <2>1
<1>4. /\ h \in Nat /\ h >= 5 /\ c \in Nat /\ c <= Len(t) /\ h + 3 < c
      /\ Len(t) \in Nat
  <2>1. Len(t) \in Nat /\ DOMAIN t = 1 .. Len(t)
    BY <1>2
  <2>2. h + 3 < c
    BY <1>1
  <2>3. h \in 5 .. Len(t) /\ c \in 1 .. Len(t)
    BY <2>1
  <2> HIDE DEF t, Has
  <2> QED
    BY <2>1, <2>2, <2>3
<1>5. /\ t[h] = "SP" /\ t[h + 1] = "RTSP" /\ t[h + 2] = "/"
      /\ t[h + 3] = "1.0"
  <2>1. \A i \in 1 .. 4 : t[h - 1 + i] = <<"SP", "RTSP", "/", "1.0">>[i]
    BY <1>1
  <2>2. h - 1 + 1 = h /\ h - 1 + 2 = h + 1 /\ h - 1 + 3 = h + 2
        /\ h - 1 + 4 = h + 3
    BY <1>4
  <2>3. t[h - 1 + 1] = "SP"
    BY <2>1
  <2>4. t[h - 1 + 2] = "RTSP"
    BY <2>1
  <2>5. t[h - 1 + 3] = "/"
    BY <2>1
  <2>6. t[h - 1 + 4] = "1.0"
    BY <2>1
  <2> QED
    BY <2>2, <2>3, <2>4, <2>5, <2>6
<1> DEFINE a == h + 2
           b == Find(t, "SP", a + 1)
<1>6. get_addr(t, 5) = a
  <2>1. /\ a \in 5 .. Len(t) /\ t[a] = "/" /\ a < Len(t) /\ t[a + 1] # "/"
        /\ \A i \in 5 .. a - 1 : t[i] # "/"
    <3>1. \A i \in 5 .. h - 1 : t[i] # "/"
      BY <1>1
    <3>2. a + 1 = h + 3 /\ \A i \in 5 .. a - 1 : i \in 5 .. h - 1 \/ i = h \/ i = h + 1
      BY <1>4
    <3> QED
      BY <1>4, <1>5, <3>1, <3>2
  <2> HIDE DEF a, t
  <2> QED
    BY <1>2, <2>1, AddrWritten
<1>7. t[c] = "CSeq:" /\ t[c + 1] = "SP" /\ c + 1 <= Len(t)
  <2>1. Has(c, <<"SP">>)
    BY <1>1
  <2> QED
    BY <1>1, <2>1
<1>8. b \in Nat /\ b # 0 /\ (b + 1 <= c \/ b + 1 = c + 2)
  <2>1. a \in Nat /\ a + 1 \in Nat /\ a + 1 >= 1 /\ a + 1 <= c
    BY <1>4
  <2> HIDE DEF a, t
  <2>2. \/ b = 0 /\ \A j \in a + 1 .. Len(t) : t[j] # "SP"
        \/ /\ b \in a + 1 .. Len(t) /\ t[b] = "SP"
           /\ \A j \in a + 1 .. b - 1 : t[j] # "SP"
    BY <1>2, <2>1, FindPlace
  <2>3. c + 1 \in a + 1 .. Len(t)
    BY <1>4, <1>7, <2>1
  <2>4. b \in a + 1 .. Len(t) /\ t[b] = "SP" /\ ~ (c + 1 \in a + 1 .. b - 1)
    BY <1>7, <2>2, <2>3
  <2>5. b # c
    BY <1>7, <2>4
  <2>6. /\ b \in Int /\ a + 1 <= b /\ b <= Len(t)
        /\ ~ (a + 1 <= c + 1 /\ c + 1 <= b - 1)
    BY <1>4, <2>1, <2>4
  <2> HIDE DEF b
  <2> QED
    <3>1. b \in Nat /\ b # 0
      BY <2>1, <2>6
    <3>2. b <= c + 1
      BY <1>4, <2>1, <2>6
    <3>3. b + 1 <= c \/ b + 1 = c + 2
      BY <1>4, <2>5, <3>1, <3>2
    <3> QED
      BY <3>1, <3>3
<1>9. get_cseq(t, b + 1, deal_info.cseq) = r.cseq
  <2> DEFINE v == c + 1
             e == b + 1
  <2>1. CseqAt(t, r.cseq, c, v)
    <3>1. /\ r.cseq # <<>> /\ \A i \in DOMAIN t : t[i] = "CSeq:" <=> i = c
          /\ Has(v, r.cseq \o <<"\r\n">>)
          /\ \A i \in DOMAIN r.cseq : r.cseq[i] \notin {"SP", "\r\n"}
      BY <1>1
    <3> HIDE DEF t
    <3> QED
      BY <1>2, <1>7, <3>1, CseqHas
  <2> HIDE DEF b, t
  <2>2. e \in Nat /\ e >= 1 /\ (e <= c \/ (e = c + 2 /\ v = c + 1))
    BY <1>8
  <2> HIDE DEF v, e
  <2>3. get_cseq(t, e, deal_info.cseq) = r.cseq
    <3>1. e <= c \/ (e = c + 2 /\ v = c + 1)
      BY <2>2
    <3> QED
      BY <1>2, <2>1, <2>2, <3>1, CseqRead
  <2> QED
    BY <2>3 DEF e
<1>10. a \in Nat /\ a # 0
  BY <1>4
<1> HIDE DEF t, a
<1>11. deal_string(t) =
         [type |-> t[1], addr |-> SubSeq(t, 5, a - 1),
          file_path |-> SubSeq(t, a + 1, b - 1),
          cseq |-> get_cseq(t, b + 1, deal_info.cseq)]
  <2>1. Find(t, "SP", a + 1) = b
    OBVIOUS
  <2> HIDE DEF b
  <2> QED
    BY <1>2, <1>3, <1>6, <1>8, <1>10, <2>1, Understood
<1> QED
  BY <1>3, <1>9, <1>11 DEF t

-----------------------------------------------------------------------------
(* The state.                                                              *)

(* The entries are filed under the one name, and hold the placeholders of  *)
(* the template.                                                           *)
SdpSound ==
  \A e \in SdpList : /\ e.key = Sdp!KeyName
                     /\ DOMAIN e.value = DOMAIN Sdp!Template

(* A request is answered when the SDP has been made.                       *)
MadeFirst == request.method \in Known => phase = "made"

SessionInv == TypeOK /\ SdpSound /\ MadeFirst

LEMMA FoundSdp ==
  ASSUME SdpSound, NEW name
  PROVE  /\ Sdp!GetSdp(name) # {} <=> name = Sdp!KeyName /\ SdpList # {}
         /\ \A v \in Sdp!GetSdp(name) : DOMAIN v = DOMAIN Sdp!Template
BY DEF SdpSound, Sdp!GetSdp

(* What SetDescribe makes of it is an SDP without the placeholders of the  *)
(* session.                                                                *)
LEMMA DescribeFills ==
  ASSUME NEW v, DOMAIN v = DOMAIN Sdp!Template
  PROVE  LET d == SetDescribe(v)
         IN  /\ d.sdp # Nothing /\ d.content_count = d.sdp
             /\ \A f \in {"sessionforreplace", "loadtype", "bandwidth",
                           "tmpforesid", "tmpforstid"} : d.sdp[f] # <<>>
<1> DEFINE full == [v EXCEPT !.sessionforreplace = <<SessionId>>,
                             !.loadtype = <<96>>, !.bandwidth = <<0>>,
                             !.tmpforesid = <<201>>, !.tmpforstid = <<1>>]
<1>1. {"sessionforreplace", "loadtype", "bandwidth", "tmpforesid",
       "tmpforstid"} \subseteq DOMAIN v
  BY DEF Sdp!Template
<1>2. DOMAIN full = DOMAIN v
  OBVIOUS
<1>3. /\ full["sessionforreplace"] # <<>> /\ full["loadtype"] # <<>>
      /\ full["bandwidth"] # <<>> /\ full["tmpforesid"] # <<>>
      /\ full["tmpforstid"] # <<>>
  BY <1>1
<1>4. DOMAIN full # {}
  BY <1>1, <1>2
<1>5. SetDescribe(v) = [sdp |-> full, content_count |-> full]
  BY DEF SetDescribe
<1> HIDE DEF full
<1>6. full # <<>>
  <2>1. DOMAIN <<>> = {}
    OBVIOUS
  <2> QED
    BY <1>4, <2>1
<1> QED
  BY <1>3, <1>5, <1>6 DEF Nothing

(* The SDP's entries stay what they are once it is made.                   *)
LEMMA SdpStep ==
  ASSUME SdpSound, Sdp!Next
  PROVE  SdpSound' /\ phase # "made"
<1>1. CASE Sdp!NoFile \/ Sdp!ReadWindow \/ Sdp!CutWindow \/ Sdp!TakeNode
  <2>1. SdpList' = SdpList /\ phase # "made"
    BY <1>1 DEF Sdp!NoFile, Sdp!ReadWindow, Sdp!CutWindow, Sdp!TakeNode
  <2> QED
    BY <2>1 DEF SdpSound
<1>2. CASE Sdp!Insert
  <2>1. DOMAIN Sdp!H264CreateSdp = DOMAIN Sdp!Template
    BY DEF Sdp!H264CreateSdp
  <2> QED
    BY <1>2, <2>1 DEF Sdp!Insert, SdpSound
<1> QED
  BY <1>1, <1>2 DEF Sdp!Next

(* The parts of an answer.                                                 *)
LEMMA Answered ==
  ASSUME NEW r, deal_requset(r)
  PROVE  /\ phase = "made" /\ request' = r /\ UNCHANGED sdp
         /\ LET info == deal_string(r.text)
            IN  \/ /\ info.type = "DESCRIBE" /\ Sdp!GetSdp(info.file_path) = {}
                   /\ DescribeMissing(info)
                \/ /\ info.type = "DESCRIBE"
                   /\ \E v \in Sdp!GetSdp(info.file_path) : DescribeFound(info, v)
                \/ deal_others(info)
                \/ deal_error(info, r.text)
BY DEF deal_requset, deal_describe

LEMMA SessionInit ==
  ASSUME Init
  PROVE  SessionInv
BY DEF Init, SessionInv, TypeOK, SdpSound, MadeFirst, Sdp!Init, NoRequest, Known,
       Answer, Nothing

LEMMA RequestTyped ==
  ASSUME SessionInv, NEW r \in Requests, r.text \in Seq(STRING), deal_requset(r)
  PROVE  TypeOK'
<1> DEFINE info == deal_string(r.text)
<1>1. info.type \in Known \cup {"ERRORTYPE"}
  BY TypeFound DEF deal_string
<1>2. request' \in Requests \cup {NoRequest}
  BY Answered
<1> HIDE DEF info
<1>3. CASE DescribeMissing(info)
  BY <1>2, <1>3 DEF DescribeMissing, TypeOK, Answer, Nothing
<1>4. CASE info.type = "DESCRIBE"
           /\ \E v \in Sdp!GetSdp(info.file_path) : DescribeFound(info, v)
  <2>1. PICK v \in Sdp!GetSdp(info.file_path) : DescribeFound(info, v)
    BY <1>4
  <2>2. SetDescribe(v).sdp # Nothing
    BY FoundSdp, DescribeFills DEF SessionInv
  <2> QED
    BY <1>2, <1>4, <2>1, <2>2 DEF DescribeFound, TypeOK, Answer, Known
<1>5. CASE deal_others(info)
  BY <1>1, <1>2, <1>5 DEF deal_others, TypeOK, Answer, Nothing
<1>6. CASE deal_error(info, r.text)
  BY <1>1, <1>2, <1>6 DEF deal_error, TypeOK, Answer, Echo, Nothing
<1> QED
  BY <1>3, <1>4, <1>5, <1>6, Answered DEF info

LEMMA SessionStep ==
  ASSUME \A r \in Requests : r.text \in Seq(STRING), SessionInv, [Next]_vars
  PROVE  SessionInv'
<1>1. CASE Sdp!Next /\ UNCHANGED <<deal_info, request, reply>>
  <2>1. TypeOK'
    BY <1>1 DEF SessionInv, TypeOK
  <2>2. SdpSound' /\ phase # "made"
    BY <1>1, SdpStep DEF SessionInv
  <2>3. MadeFirst'
    BY <1>1, <2>2 DEF SessionInv, MadeFirst
  <2> QED
    BY <2>1, <2>2, <2>3 DEF SessionInv
<1>2. ASSUME NEW r \in Requests, deal_requset(r)
      PROVE  SessionInv'
  <2>1. TypeOK'
    BY <1>2, RequestTyped
  <2>2. SdpSound' /\ MadeFirst'
    BY <1>2, Answered DEF SessionInv, SdpSound, MadeFirst, sdp
  <2> QED
    BY <2>1, <2>2 DEF SessionInv
<1>3. CASE UNCHANGED vars
  BY <1>3 DEF SessionInv, TypeOK, SdpSound, MadeFirst, vars, sdp
<1> QED
  BY <1>1, <1>2, <1>3 DEF Next

(* Whatever texts clients send: DealRtsp completes an SDP, or sends what   *)
(* it holds, exactly when the reply holds one.                             *)
THEOREM TypeCorrect ==
  ASSUME \A r \in Requests : r.text \in Seq(STRING)
  PROVE  Spec => []TypeOK
<1>1. Init => SessionInv
  BY SessionInit
<1>2. SessionInv /\ [Next]_vars => SessionInv'
  BY SessionStep
<1>3. SessionInv => TypeOK
  BY DEF SessionInv
<1> QED
  BY <1>1, <1>2, <1>3, PTL DEF Spec

-----------------------------------------------------------------------------
(* The answers to requests that are written as clients write them.         *)

Clients == \A r \in Requests : r \in Texts /\ (r.method \in Known => Written(r))

LEMMA CseqStep ==
  ASSUME Clients, CseqEchoed, [Next]_vars
  PROVE  CseqEchoed'
<1>1. CASE UNCHANGED <<deal_info, request, reply>>
  BY <1>1 DEF CseqEchoed
<1>2. ASSUME NEW r \in Requests, deal_requset(r)
      PROVE  CseqEchoed'
  <2> DEFINE info == deal_string(r.text)
  <2> SUFFICES ASSUME r.method \in Known, r.path # <<>> \/ r.spaced
               PROVE  reply'.cseq = r.cseq
    BY <1>2, Answered DEF CseqEchoed
  <2>1. r \in Texts /\ Written(r)
    BY DEF Clients
  <2>2. info.type = r.method /\ info.cseq = r.cseq
    BY <2>1, PathUnderstood, SpacedUnderstood
  <2>3. info.type # "ERRORTYPE"
    BY <2>2 DEF Known
  <2> HIDE DEF info
  <2>4. reply'.cseq = info.cseq
    <3>1. CASE DescribeMissing(info)
      BY <3>1 DEF DescribeMissing, Answer
    <3>2. ASSUME NEW v, DescribeFound(info, v)
          PROVE  reply'.cseq = info.cseq
      BY <3>2 DEF DescribeFound, Answer
    <3>3. CASE deal_others(info)
      BY <3>3 DEF deal_others, Answer
    <3> QED
      BY <1>2, <2>3, <3>1, <3>2, <3>3, Answered DEF deal_error, info
  <2> QED
    BY <2>2, <2>4
<1> QED
  BY <1>1, <1>2 DEF Next, vars

(* Whatever requests come in whatever order: one that names a path, or     *)
(* whose "CSeq:" a space follows, gets its own CSeq back.                  *)
THEOREM CseqComesBack ==
  ASSUME Clients
  PROVE  Spec => []CseqEchoed
<1>1. Init => CseqEchoed
  BY DEF Init, CseqEchoed, NoRequest, Known
<1>2. CseqEchoed /\ [Next]_vars => CseqEchoed'
  BY CseqStep
<1> QED
  BY <1>1, <1>2, PTL DEF Spec

LEMMA DescribeStep ==
  ASSUME Clients, SessionInv, DescribeOwnPath, [Next]_vars
  PROVE  DescribeOwnPath'
<1>1. CASE Sdp!Next /\ UNCHANGED <<deal_info, request, reply>>
  <2>1. phase # "made"
    BY <1>1, SdpStep DEF SessionInv
  <2>2. request'.method # "DESCRIBE"
    BY <1>1, <2>1 DEF SessionInv, MadeFirst, Known
  <2> QED
    BY <2>2 DEF DescribeOwnPath
<1>2. ASSUME NEW r \in Requests, deal_requset(r)
      PROVE  DescribeOwnPath'
  <2> DEFINE info == deal_string(r.text)
  <2>1. request' = r /\ SdpList' = SdpList
    BY <1>2, Answered DEF sdp
  <2>2. CASE r.method = "DESCRIBE" /\ r.path # <<>>
    <3>1. r \in Texts /\ Written(r) /\ r.method \in Known
      BY <2>2 DEF Clients, Known
    <3>2. info.type = "DESCRIBE" /\ info.file_path = r.path
      BY <2>2, <3>1, PathUnderstood
    <3> HIDE DEF info
    <3>3. \/ Sdp!GetSdp(r.path) = {} /\ DescribeMissing(info)
          \/ \E v \in Sdp!GetSdp(r.path) : DescribeFound(info, v)
      BY <1>2, <3>2, Answered DEF deal_others, deal_error, info
    <3>4. CASE Sdp!GetSdp(r.path) = {} /\ DescribeMissing(info)
      <4>1. reply'.status = "405"
        BY <3>4 DEF DescribeMissing, Answer
      <4>2. ~ (r.path = Sdp!KeyName /\ SdpList # {})
        BY <3>4, FoundSdp DEF SessionInv
      <4> QED
        BY <2>1, <4>1, <4>2 DEF DescribeOwnPath
    <3>5. ASSUME NEW v \in Sdp!GetSdp(r.path), DescribeFound(info, v)
          PROVE  DescribeOwnPath'
      <4>1. /\ reply'.status = "200" /\ reply'.sdp = SetDescribe(v).sdp
            /\ reply'.content_count = SetDescribe(v).content_count
        BY <3>5 DEF DescribeFound, Answer
      <4>2. r.path = Sdp!KeyName /\ SdpList # {}
        BY <3>5, FoundSdp DEF SessionInv
      <4>3. DOMAIN v = DOMAIN Sdp!Template
        BY <3>5, FoundSdp DEF SessionInv
      <4>4. /\ reply'.content_count = reply'.sdp
            /\ \A f \in {"sessionforreplace", "loadtype", "bandwidth",
                          "tmpforesid", "tmpforstid"} : reply'.sdp[f] # <<>>
        BY <4>1, <4>3, DescribeFills
      <4> QED
        BY <2>1, <4>1, <4>2, <4>4 DEF DescribeOwnPath, Sdp!KeyName
    <3> QED
      BY <3>3, <3>4, <3>5
  <2>3. CASE ~ (r.method = "DESCRIBE" /\ r.path # <<>>)
    BY <2>1, <2>3 DEF DescribeOwnPath
  <2> QED
    BY <2>2, <2>3
<1>3. CASE UNCHANGED vars
  BY <1>3 DEF DescribeOwnPath, vars, sdp, Sdp!KeyName
<1> QED
  BY <1>1, <1>2, <1>3 DEF Next

(* However the window cuts the file and whatever was asked before: a       *)
(* DESCRIBE that names a path gets an SDP just when that is the name of    *)
(* the served file and there is one, with its length and completed.        *)
THEOREM DescribeAnswersItsPath ==
  ASSUME Clients
  PROVE  Spec => []DescribeOwnPath
<1>1. Init => SessionInv /\ DescribeOwnPath
  BY SessionInit DEF Init, DescribeOwnPath, NoRequest
<1>2. \A r \in Requests : r.text \in Seq(STRING)
  BY DEF Clients, Texts
<1>3. SessionInv /\ DescribeOwnPath /\ [Next]_vars
        => (SessionInv /\ DescribeOwnPath)'
  BY <1>2, SessionStep, DescribeStep
<1> QED
  BY <1>1, <1>3, PTL DEF Spec

-----------------------------------------------------------------------------
(* Base64: decoding gives back what was encoded.                           *)

Bytes == Seq(0 .. 255)
ByteOf(in, i) == IF i <= Len(in) THEN in[i] ELSE 0

(* A place of the text by its group of four and its place in the group.    *)
LEMMA Group ==
  ASSUME NEW g \in Nat, NEW k \in 1 .. 4
  PROVE  /\ (4 * g + k - 1) \div 4 = g
         /\ ((4 * g + k - 1) % 4) + 1 = k
OBVIOUS

LEMMA GroupOf ==
  ASSUME NEW n \in Nat, NEW j \in 1 .. 4 * n
  PROVE  \E g \in 0 .. n - 1, k \in 1 .. 4 : j = 4 * g + k
<1> DEFINE g == (j - 1) \div 4
           k == ((j - 1) % 4) + 1
<1>1. j - 1 = 4 * g + (k - 1) /\ g \in Int /\ k \in 1 .. 4
  OBVIOUS
<1>2. g \in 0 .. n - 1 /\ j = 4 * g + k
  OBVIOUS
<1> QED
  BY <1>1, <1>2

(* The characters of a group.                                              *)
LEMMA Encoded ==
  ASSUME NEW in \in Bytes, NEW n \in Nat, n = (Len(in) + 2) \div 3
  PROVE  LET text == Sdp!Base64Encode(in)
             B(i) == ByteOf(in, i)
         IN  /\ DOMAIN text = 1 .. 4 * n
             /\ \A g \in 0 .. n - 1 :
                  /\ text[4 * g + 1] = B(3 * g + 1) \div 4
                  /\ text[4 * g + 2] = 16 * (B(3 * g + 1) % 4)
                                         + (B(3 * g + 2) \div 16)
                  /\ text[4 * g + 3] =
                       IF 3 * g + 2 > Len(in) THEN 64
                       ELSE 4 * (B(3 * g + 2) % 16) + (B(3 * g + 3) \div 64)
                  /\ text[4 * g + 4] =
                       IF 3 * g + 3 > Len(in) THEN 64 ELSE B(3 * g + 3) % 64
<1> DEFINE text == Sdp!Base64Encode(in)
           B(i) == ByteOf(in, i)
           Char(i, k) ==
             CASE k = 1 -> B(i) \div 4
               [] k = 2 -> 16 * (B(i) % 4) + (B(i + 1) \div 16)
               [] k = 3 -> IF i + 1 > Len(in) THEN 64
                           ELSE 4 * (B(i + 1) % 16) + (B(i + 2) \div 64)
               [] k = 4 -> IF i + 2 > Len(in) THEN 64 ELSE B(i + 2) % 64
<1>1. text = [j \in 1 .. 4 * n |->
                Char(3 * ((j - 1) \div 4) + 1, ((j - 1) % 4) + 1)]
  BY DEF Sdp!Base64Encode, ByteOf
<1>2. ASSUME NEW g \in 0 .. n - 1, NEW k \in 1 .. 4
      PROVE  text[4 * g + k] = Char(3 * g + 1, k)
  <2>1. 4 * g + k \in 1 .. 4 * n
    OBVIOUS
  <2>2. (4 * g + k - 1) \div 4 = g /\ ((4 * g + k - 1) % 4) + 1 = k
    BY Group
  <2> DEFINE j == 4 * g + k
  <2> HIDE DEF Char, text, j
  <2>3. text[j] = Char(3 * ((j - 1) \div 4) + 1, ((j - 1) % 4) + 1)
    BY <1>1, <2>1 DEF j
  <2> QED
    BY <2>2, <2>3 DEF j
<1>3. ASSUME NEW g \in 0 .. n - 1
      PROVE  /\ text[4 * g + 1] = Char(3 * g + 1, 1)
             /\ text[4 * g + 2] = Char(3 * g + 1, 2)
             /\ text[4 * g + 3] = Char(3 * g + 1, 3)
             /\ text[4 * g + 4] = Char(3 * g + 1, 4)
  BY <1>2
<1>4. \A g \in 0 .. n - 1 : 3 * g + 1 + 1 = 3 * g + 2 /\ 3 * g + 1 + 2 = 3 * g + 3
  OBVIOUS
<1>5. DOMAIN text = 1 .. 4 * n
  BY <1>1
<1> HIDE DEF text, B
<1> QED
  BY <1>3, <1>4, <1>5 DEF text, B

LEMMA Halves ==
  ASSUME NEW a \in 0 .. 255, NEW b \in 0 .. 255
  PROVE  /\ a \div 4 \in 0 .. 63
         /\ 16 * (a % 4) + (b \div 16) \in 0 .. 63
         /\ 4 * (a % 16) + (b \div 64) \in 0 .. 63
         /\ a % 64 \in 0 .. 63
         /\ 4 * (a \div 4) + ((16 * (a % 4) + (b \div 16)) \div 16) = a
         /\ (16 * (a % 4) + (b \div 16)) % 16 = b \div 16
         /\ 16 * (a \div 16) + ((4 * (a % 16) + (b \div 64)) \div 4) = a
         /\ (4 * (a % 16) + (b \div 64)) % 4 = b \div 64
         /\ 64 * (a \div 64) + (a % 64) = a
<1> DEFINE q == a \div 4
           r == a % 4
           h == a \div 16
           l == a % 16
           x == b \div 16
           y == b \div 64
<1>1. a = 4 * q + r /\ q \in 0 .. 63 /\ r \in 0 .. 3
  OBVIOUS
<1>2. a = 16 * h + l /\ h \in 0 .. 15 /\ l \in 0 .. 15
  OBVIOUS
<1>3. x \in 0 .. 15 /\ y \in 0 .. 3
  OBVIOUS
<1>4. a % 64 \in 0 .. 63 /\ 64 * (a \div 64) + (a % 64) = a
  OBVIOUS
<1> HIDE DEF q, r, h, l, x, y
<1>5. 16 * r + x \in 0 .. 63 /\ (16 * r + x) \div 16 = r /\ (16 * r + x) % 16 = x
  BY <1>1, <1>3
<1>6. 4 * l + y \in 0 .. 63 /\ (4 * l + y) \div 4 = l /\ (4 * l + y) % 4 = y
  BY <1>2, <1>3
<1>7. 4 * q + r = a /\ 16 * h + l = a
  BY <1>1, <1>2
<1> QED
  BY <1>1, <1>4, <1>5, <1>6, <1>7 DEF q, r, h, l, x, y

LEMMA ElementOf ==
  ASSUME NEW S, NEW s \in Seq(S), NEW i \in 1 .. Len(s)
  PROVE  s[i] \in S
OBVIOUS

LEMMA ByteOfRange ==
  ASSUME NEW in \in Bytes, NEW i \in Nat, i >= 1
  PROVE  ByteOf(in, i) \in 0 .. 255
<1>1. in \in Seq(0 .. 255) /\ Len(in) \in Nat
  BY DEF Bytes
<1>2. CASE i <= Len(in)
  <2>1. i \in 1 .. Len(in)
    BY <1>1, <1>2
  <2>2. in[i] \in 0 .. 255
    BY <1>1, <2>1, ElementOf
  <2> QED
    BY <1>2, <2>2 DEF ByteOf
<1>3. CASE ~ (i <= Len(in))
  BY <1>3 DEF ByteOf
<1> QED
  BY <1>2, <1>3

(* A group, its three bytes named.                                         *)
LEMMA Quad ==
  ASSUME NEW in \in Bytes, NEW n \in Nat, n = (Len(in) + 2) \div 3,
         NEW g \in 0 .. n - 1
  PROVE  \E a, b, c \in 0 .. 255 :
           LET text == Sdp!Base64Encode(in)
           IN  /\ a = in[3 * g + 1] /\ 3 * g + 1 <= Len(in)
               /\ 3 * g + 2 <= Len(in) => b = in[3 * g + 2]
               /\ 3 * g + 3 <= Len(in) => c = in[3 * g + 3]
               /\ text[4 * g + 1] = a \div 4
               /\ text[4 * g + 2] = 16 * (a % 4) + (b \div 16)
               /\ text[4 * g + 3] = IF 3 * g + 2 > Len(in) THEN 64
                                    ELSE 4 * (b % 16) + (c \div 64)
               /\ text[4 * g + 4] = IF 3 * g + 3 > Len(in) THEN 64 ELSE c % 64
<1> DEFINE a == ByteOf(in, 3 * g + 1)
           b == ByteOf(in, 3 * g + 2)
           c == ByteOf(in, 3 * g + 3)
           text == Sdp!Base64Encode(in)
<1>1. a \in 0 .. 255 /\ b \in 0 .. 255 /\ c \in 0 .. 255
  BY ByteOfRange
<1>2. Len(in) \in Nat /\ 3 * g + 1 <= Len(in)
  BY DEF Bytes
<1>3. /\ a = in[3 * g + 1]
      /\ 3 * g + 2 <= Len(in) => b = in[3 * g + 2]
      /\ 3 * g + 3 <= Len(in) => c = in[3 * g + 3]
  BY <1>2 DEF ByteOf
<1>4. /\ text[4 * g + 1] = a \div 4
      /\ text[4 * g + 2] = 16 * (a % 4) + (b \div 16)
      /\ text[4 * g + 3] = IF 3 * g + 2 > Len(in) THEN 64
                           ELSE 4 * (b % 16) + (c \div 64)
      /\ text[4 * g + 4] = IF 3 * g + 3 > Len(in) THEN 64 ELSE c % 64
  BY Encoded
<1> HIDE DEF a, b, c, text
<1> QED
  BY <1>1, <1>2, <1>3, <1>4 DEF text

(* Only the padding at the end is no character: what is left has as many   *)
(* whole bytes as were encoded.                                            *)
LEMMA Unpadded ==
  ASSUME NEW in \in Bytes
  PROVE  LET text == Sdp!Base64Encode(in)
         IN  (6 * Cardinality({j \in DOMAIN text : text[j] < 64})) \div 8
               = Len(in)
<1> DEFINE text == Sdp!Base64Encode(in)
           L == Len(in)
           n == (L + 2) \div 3
           K == (4 * L + 2) \div 3
<1>1. L \in Nat /\ n \in Nat /\ K \in Nat
  BY DEF Bytes
<1>2. DOMAIN text = 1 .. 4 * n
  BY <1>1, Encoded
<1>3. ASSUME NEW j \in 1 .. 4 * n
      PROVE  text[j] < 64 <=> j <= K
  <2>1. PICK g \in 0 .. n - 1, k \in 1 .. 4 : j = 4 * g + k
    BY <1>1, GroupOf
  <2>2. PICK a, b, c \in 0 .. 255 :
          /\ 3 * g + 1 <= L
          /\ text[4 * g + 1] = a \div 4
          /\ text[4 * g + 2] = 16 * (a % 4) + (b \div 16)
          /\ text[4 * g + 3] = IF 3 * g + 2 > L THEN 64
                               ELSE 4 * (b % 16) + (c \div 64)
          /\ text[4 * g + 4] = IF 3 * g + 3 > L THEN 64 ELSE c % 64
    BY <1>1, Quad
  <2>3. /\ a \div 4 \in 0 .. 63 /\ 16 * (a % 4) + (b \div 16) \in 0 .. 63
        /\ 4 * (b % 16) + (c \div 64) \in 0 .. 63 /\ c % 64 \in 0 .. 63
    <3> HIDE DEF text, K, L, n
    <3>1. a \div 4 \in 0 .. 63 /\ 16 * (a % 4) + (b \div 16) \in 0 .. 63
      BY Halves, Zenon
    <3>2. 4 * (b % 16) + (c \div 64) \in 0 .. 63 /\ c % 64 \in 0 .. 63
      BY Halves, Zenon
    <3> QED
      BY <3>1, <3>2
  <2>4. /\ text[4 * g + 1] < 64 /\ text[4 * g + 2] < 64
        /\ text[4 * g + 3] < 64 <=> 3 * g + 2 <= L
        /\ text[4 * g + 4] < 64 <=> 3 * g + 3 <= L
    <3> DEFINE p == a \div 4
               q == 16 * (a % 4) + (b \div 16)
               u == 4 * (b % 16) + (c \div 64)
               v == c % 64
    <3>1. /\ p \in 0 .. 63 /\ q \in 0 .. 63 /\ u \in 0 .. 63 /\ v \in 0 .. 63
          /\ text[4 * g + 1] = p /\ text[4 * g + 2] = q
          /\ text[4 * g + 3] = IF 3 * g + 2 > L THEN 64 ELSE u
          /\ text[4 * g + 4] = IF 3 * g + 3 > L THEN 64 ELSE v
      BY <2>2, <2>3
    <3>2. 3 * g + 2 \in Nat /\ 3 * g + 3 \in Nat /\ L \in Nat
      BY <1>1
    <3> HIDE DEF text, L, n, K, p, q, u, v
    <3> QED
      BY <3>1, <3>2
  <2>5. /\ 4 * g + 1 <= K /\ 4 * g + 2 <= K
        /\ 4 * g + 3 <= K <=> 3 * g + 2 <= L
        /\ 4 * g + 4 <= K <=> 3 * g + 3 <= L
    <3> HIDE DEF L
    <3> QED
      BY <1>1, <2>2
  <2> HIDE DEF text, K, L, n
  <2>6. j \in {4 * g + 1, 4 * g + 2, 4 * g + 3, 4 * g + 4}
    BY <2>1
  <2> QED
    BY <2>4, <2>5, <2>6
<1>4. K <= 4 * n
  BY <1>1
<1>5. {j \in DOMAIN text : text[j] < 64} = 1 .. K
  <2> HIDE DEF text, K, n
  <2> QED
    BY <1>1, <1>2, <1>3, <1>4
<1>6. Cardinality(1 .. K) = K
  <2> HIDE DEF K
  <2> QED
    BY <1>1, FS_Interval
<1>7. (6 * K) \div 8 = L
  <2> HIDE DEF L
  <2> QED
    BY <1>1
<1> QED
  BY <1>5, <1>6, <1>7

LEMMA DecodesBack ==
  ASSUME NEW in \in Bytes
  PROVE  Sdp!Base64Decode(Sdp!Base64Encode(in)) = in
<1> DEFINE text == Sdp!Base64Encode(in)
           L == Len(in)
           n == (L + 2) \div 3
           Byte(i, k) == CASE i % 3 = 1 -> 4 * text[k] + (text[k + 1] \div 16)
                           [] i % 3 = 2 -> 16 * (text[k] % 16)
                                           + (text[k + 1] \div 4)
                           [] i % 3 = 0 -> 64 * (text[k] % 4) + text[k + 1]
<1>1. L \in Nat /\ n \in Nat
  BY DEF Bytes
<1>2. Sdp!Base64Decode(text) =
        [i \in 1 .. L |-> Byte(i, (8 * (i - 1)) \div 6 + 1)]
  <2> DEFINE whole == (6 * Cardinality({k \in DOMAIN text : text[k] < 64}))
                        \div 8
  <2>1. whole = L
    BY Unpadded
  <2>3. \A S : Sdp!Cardinality(S) = Cardinality(S)
    BY DEF Sdp!Cardinality, Cardinality
  <2>2. Sdp!Base64Decode(text) =
          [i \in 1 .. whole |-> Byte(i, (8 * (i - 1)) \div 6 + 1)]
    BY <2>3 DEF Sdp!Base64Decode
  <2> HIDE DEF whole, L, Byte
  <2> QED
    BY <2>1, <2>2
<1>3. ASSUME NEW i \in 1 .. L
      PROVE  Byte(i, (8 * (i - 1)) \div 6 + 1) = in[i]
  <2> DEFINE g == (i - 1) \div 3
             k == (8 * (i - 1)) \div 6 + 1
  <2>1. /\ g \in 0 .. n - 1 /\ i \in {3 * g + 1, 3 * g + 2, 3 * g + 3}
        /\ k = 4 * g + (i - 3 * g)
    BY <1>1
  <2> HIDE DEF g, k
  <2>2. PICK a, b, c \in 0 .. 255 :
          /\ a = in[3 * g + 1]
          /\ 3 * g + 2 <= L => b = in[3 * g + 2]
          /\ 3 * g + 3 <= L => c = in[3 * g + 3]
          /\ text[4 * g + 1] = a \div 4
          /\ text[4 * g + 2] = 16 * (a % 4) + (b \div 16)
          /\ text[4 * g + 3] = IF 3 * g + 2 > L THEN 64
                               ELSE 4 * (b % 16) + (c \div 64)
          /\ text[4 * g + 4] = IF 3 * g + 3 > L THEN 64 ELSE c % 64
    BY <1>1, <2>1, Quad
  <2>3. /\ 4 * (a \div 4) + ((16 * (a % 4) + (b \div 16)) \div 16) = a
        /\ (16 * (a % 4) + (b \div 16)) % 16 = b \div 16
        /\ 16 * (b \div 16) + ((4 * (b % 16) + (c \div 64)) \div 4) = b
        /\ (4 * (b % 16) + (c \div 64)) % 4 = c \div 64
        /\ 64 * (c \div 64) + (c % 64) = c
    <3> HIDE DEF text, L, n, Byte
    <3>1. /\ 4 * (a \div 4) + ((16 * (a % 4) + (b \div 16)) \div 16) = a
          /\ (16 * (a % 4) + (b \div 16)) % 16 = b \div 16
      BY Halves, Zenon
    <3>2. /\ 16 * (b \div 16) + ((4 * (b % 16) + (c \div 64)) \div 4) = b
          /\ (4 * (b % 16) + (c \div 64)) % 4 = c \div 64
      BY Halves, Zenon
    <3>3. 64 * (c \div 64) + (c % 64) = c
      BY Halves, Zenon
    <3> QED
      BY <3>1, <3>2, <3>3
  <2>4. g \in Nat /\ L \in Nat /\ i <= L
    BY <1>1, <2>1
  <2> HIDE DEF text, L, n
  <2>5. CASE i = 3 * g + 1
    <3>1. i % 3 = 1 /\ k = 4 * g + 1 /\ k + 1 = 4 * g + 2
      BY <2>1, <2>4, <2>5
    <3>2. 4 * text[k] + (text[k + 1] \div 16) = in[i]
      BY <2>2, <2>3, <2>5, <3>1
    <3>3. Byte(i, k) = in[i]
      BY <3>1, <3>2
    <3> QED
      BY <3>3 DEF k
  <2>6. CASE i = 3 * g + 2
    <3>1. i % 3 = 2 /\ k = 4 * g + 2 /\ k + 1 = 4 * g + 3 /\ 3 * g + 2 <= L
      BY <2>1, <2>4, <2>6
    <3>2. text[k + 1] = 4 * (b % 16) + (c \div 64) /\ b = in[i]
      BY <2>2, <2>4, <2>6, <3>1
    <3>3. 16 * (text[k] % 16) + (text[k + 1] \div 4) = in[i]
      BY <2>2, <2>3, <3>1, <3>2
    <3>4. Byte(i, k) = in[i]
      BY <3>1, <3>3
    <3> QED
      BY <3>4 DEF k
  <2>7. CASE i = 3 * g + 3
    <3>1. /\ i % 3 = 0 /\ k = 4 * g + 3 /\ k + 1 = 4 * g + 4
          /\ 3 * g + 2 <= L /\ 3 * g + 3 <= L
      BY <2>1, <2>4, <2>7
    <3>2. /\ text[k] = 4 * (b % 16) + (c \div 64) /\ text[k + 1] = c % 64
          /\ c = in[i]
      BY <2>2, <2>4, <2>7, <3>1
    <3>3. 64 * (text[k] % 4) + text[k + 1] = in[i]
      BY <2>3, <3>2
    <3>4. Byte(i, k) = in[i]
      BY <3>1, <3>3
    <3> QED
      BY <3>4 DEF k
  <2> QED
    BY <2>1, <2>5, <2>6, <2>7
<1>4. in = [i \in 1 .. L |-> in[i]]
  BY DEF Bytes
<1> HIDE DEF text, L, Byte
<1> QED
  BY <1>2, <1>3, <1>4 DEF text

-----------------------------------------------------------------------------
(* The stream that cuts the window.                                        *)

Windows == {Sdp!Window(f) : f \in Files \ {<<>>}}
Cuts == INSTANCE H264MediaStreamProofs
        WITH Blocks <- Windows, LongNals <- TRUE, MaxBlocks <- 1

(* What the constructor has not begun is as it was.                        *)
NotBegun ==
  phase = "start" =>
    /\ bufferlist = <<>> /\ DevCount = 0
    /\ SpsString = <<>> /\ PpsString = <<>> /\ SdpList = {}

LEMMA NotBegunStep == NotBegun /\ [Next]_vars => NotBegun'
<1> SUFFICES ASSUME NotBegun, [Next]_vars
             PROVE  NotBegun'
  OBVIOUS
<1>1. CASE Sdp!Next
  <2>1. phase' # "start"
    BY <1>1 DEF Sdp!Next, Sdp!NoFile, Sdp!ReadWindow, Sdp!CutWindow,
                Sdp!TakeNode, Sdp!Insert
  <2> QED
    BY <2>1 DEF NotBegun
<1>2. CASE UNCHANGED sdp
  BY <1>2 DEF NotBegun, sdp
<1>3. Sdp!Next \/ UNCHANGED sdp
  BY Answered DEF Next, vars
<1> QED
  BY <1>1, <1>2, <1>3

(* The constructor uses the stream as H264MediaStream allows.              *)
LEMMA StreamStep ==
  ASSUME content \in Files, NotBegun, [Next]_vars
  PROVE  [Sdp!H264!Next]_(Sdp!H264!vars)
<1> DEFINE still == UNCHANGED Sdp!H264!vars
<1>1. CASE Sdp!ReadWindow
  <2>1. Sdp!Window(content) \in {Sdp!Window(f) : f \in Files \ {<<>>}}
    BY <1>1 DEF Sdp!ReadWindow
  <2>2. bufferlist = <<>> /\ Sdp!H264!DevNode(Sdp!Window(content))
    BY <1>1 DEF Sdp!ReadWindow, NotBegun
  <2> QED
    BY <2>1, <2>2 DEF Sdp!H264!Next
<1>2. CASE Sdp!CutWindow
  BY <1>2 DEF Sdp!CutWindow, Sdp!H264!Next
<1>3. CASE Sdp!TakeNode
  BY <1>3 DEF Sdp!TakeNode, Sdp!H264!Next
<1>4. CASE UNCHANGED Sdp!nodes
  BY <1>4 DEF Sdp!nodes, Sdp!H264!vars, Sdp!H264!scan, Sdp!H264!large
<1>5. Sdp!Next \/ UNCHANGED sdp
  BY Answered DEF Next, vars
<1>6. CASE Sdp!NoFile \/ Sdp!Insert
  BY <1>4, <1>6 DEF Sdp!NoFile, Sdp!Insert
<1>7. CASE UNCHANGED sdp
  BY <1>4, <1>7 DEF sdp, Sdp!nodes
<1> QED
  BY <1>1, <1>2, <1>3, <1>5, <1>6, <1>7 DEF Sdp!Next

LEMMA SameStream ==
  /\ Sdp!H264!Init => Cuts!Init
  /\ [Sdp!H264!Next]_(Sdp!H264!vars) => [Cuts!Next]_(Cuts!vars)
<1>1. Sdp!H264!Init => Cuts!Init
  BY DEF Sdp!H264!Init, Cuts!Init, Sdp!H264!NoNode, Cuts!NoNode
<1>2. \A b : Sdp!H264!DevNode(b) => Cuts!DevNode(b)
  BY Zenon DEF Sdp!H264!DevNode, Sdp!H264!large, Cuts!DevNode, Cuts!large
<1>3. Sdp!H264!Cut => Cuts!Cut
  <2>1. /\ Sdp!H264!Advance => Cuts!Advance
        /\ Sdp!H264!FirstStartCode => Cuts!FirstStartCode
        /\ Sdp!H264!RawNode => Cuts!RawNode
        /\ Sdp!H264!NextStartCode => Cuts!NextStartCode
        /\ Sdp!H264!Leftover => Cuts!Leftover
    BY Zenon
       DEF Sdp!H264!Advance, Sdp!H264!FirstStartCode, Sdp!H264!RawNode,
           Sdp!H264!NextStartCode, Sdp!H264!Leftover, Sdp!H264!Scanning,
           Sdp!H264!StartCode, Sdp!H264!Byte, Sdp!H264!Type, Sdp!H264!Call,
           Sdp!H264!NextNal, Sdp!H264!Node, Sdp!H264!scan, Sdp!H264!large,
           Cuts!Advance, Cuts!FirstStartCode, Cuts!RawNode,
           Cuts!NextStartCode, Cuts!Leftover, Cuts!Scanning, Cuts!StartCode,
           Cuts!Byte, Cuts!Type, Cuts!Call, Cuts!NextNal, Cuts!Node,
           Cuts!scan, Cuts!large
  <2>2. /\ Sdp!H264!Fragment => Cuts!Fragment
        /\ Sdp!H264!LastFragment => Cuts!LastFragment
        /\ Sdp!H264!Single => Cuts!Single
    BY Zenon
       DEF Sdp!H264!Fragment, Sdp!H264!LastFragment, Sdp!H264!Single,
           Sdp!H264!Return, Sdp!H264!NextFragment, Sdp!H264!Node,
           Sdp!H264!Byte, Sdp!H264!scan, Cuts!Fragment, Cuts!LastFragment,
           Cuts!Single, Cuts!Return, Cuts!NextFragment, Cuts!Node, Cuts!Byte,
           Cuts!scan
  <2> QED
    BY <2>1, <2>2 DEF Sdp!H264!Cut, Cuts!Cut
<1>4. Sdp!H264!GetNode => Cuts!GetNode
  BY Zenon DEF Sdp!H264!GetNode, Sdp!H264!scan, Sdp!H264!large, Cuts!GetNode,
               Cuts!scan, Cuts!large
<1>5. UNCHANGED Sdp!H264!vars => UNCHANGED Cuts!vars
  BY DEF Sdp!H264!vars, Sdp!H264!scan, Sdp!H264!large, Cuts!vars, Cuts!scan,
         Cuts!large
<1> QED
  BY <1>1, <1>2, <1>3, <1>4, <1>5 DEF Sdp!H264!Next, Cuts!Next, Windows

LEMMA BytesAreNumbers ==
  ASSUME NEW f \in Seq(0 .. 255)
  PROVE  f \in Seq(Nat)
<1>1. ASSUME NEW i \in 1 .. Len(f)
      PROVE  f[i] \in Nat
  <2>1. f[i] \in 0 .. 255
    BY ElementOf
  <2>2. \A x \in 0 .. 255 : x \in Nat
    OBVIOUS
  <2> QED
    BY <2>1, <2>2, Zenon
<1>2. Len(f) \in Nat /\ f = [i \in 1 .. Len(f) |-> f[i]]
  OBVIOUS
<1> QED
  BY <1>1, <1>2

LEMMA WindowsHold == Cuts!H264Assumption
<1>1. ASSUME NEW f \in Files \ {<<>>}
      PROVE  Sdp!Window(f) \in Seq(Nat) /\ Len(Sdp!Window(f)) >= 4
  <2>1. f \in Seq(0 .. 255) /\ Len(Sdp!Window(f)) >= 4
    BY SdpAssumption
  <2>2. f \in Seq(Nat)
    BY <2>1, BytesAreNumbers
  <2> QED
    BY <2>1, <2>2, SdpAssumption DEF Sdp!Window
<1> QED
  BY <1>1, SdpAssumption DEF Cuts!H264Assumption, Windows

(* The file stays what it is.                                              *)
LEMMA FileStays == [Next]_vars => content' = content
<1>1. [Next]_vars => Sdp!Next \/ UNCHANGED sdp
  BY Answered DEF Next, vars
<1> QED
  BY <1>1 DEF sdp, Sdp!Next, Sdp!NoFile, Sdp!ReadWindow, Sdp!CutWindow,
              Sdp!TakeNode, Sdp!Insert

(* What H264MediaStreamProofs shows of its loops.                          *)
CutShape == content \in Files /\ NotBegun /\ Cuts!Shape

LEMMA CutShapeInit == Init => CutShape
<1> SUFFICES ASSUME Init PROVE CutShape
  OBVIOUS
<1>1. Cuts!Init
  BY SameStream DEF Init, Sdp!Init
<1>2. Cuts!Shape
  BY <1>1, WindowsHold, Cuts!InitShape
<1> QED
  BY <1>2 DEF Init, Sdp!Init, Sdp!H264!Init, CutShape, NotBegun

LEMMA CutShapeStep == CutShape /\ [Next]_vars => CutShape'
<1> SUFFICES ASSUME CutShape, [Next]_vars PROVE CutShape'
  OBVIOUS
<1>1. [Cuts!Next]_(Cuts!vars)
  BY StreamStep, SameStream DEF CutShape
<1>2. Cuts!Shape'
  BY <1>1, WindowsHold, Cuts!NextShape DEF CutShape
<1>3. NotBegun'
  BY NotBegunStep DEF CutShape
<1>4. content' = content
  BY FileStays
<1> QED
  BY <1>2, <1>3, <1>4 DEF CutShape

(* The constructor uses the stream as H264MediaStream says, so that what   *)
(* is proved of its nodes holds of the window's.                           *)
THEOREM SdpUsesH264MediaStream == Spec => Sdp!H264!Spec
<1>1. Init => Sdp!H264!Init
  BY DEF Init, Sdp!Init
<1>2. CutShape /\ [Next]_vars => [Sdp!H264!Next]_(Sdp!H264!vars)
  BY StreamStep DEF CutShape
<1> QED
  BY <1>1, <1>2, CutShapeInit, CutShapeStep, PTL DEF Spec, Sdp!H264!Spec

-----------------------------------------------------------------------------
(* The NAL units of the window, by their places from 1.                    *)

W == Sdp!Window(content)

(* A start code, or the zeros in front of one.                             *)
Zeros(p) == /\ p + 2 <= Len(W)
            /\ W[p] = 0 /\ W[p + 1] = 0 /\ W[p + 2] \in {0, 1}

(* A NAL unit begins: it stands behind a start code.                       *)
Starts(p) == /\ p \in 4 .. Len(W)
             /\ W[p - 3] = 0 /\ W[p - 2] = 0 /\ W[p - 1] = 1

(* What the file is like, as far as it is seen.                            *)
Framed ==
  /\ W \in Seq(Nat)
  /\ \A p \in 1 .. Len(W) - 3 :
       W[p] = 0 /\ W[p + 1] = 0 => /\ W[p + 2] = 0 => W[p + 3] = 1
                                   /\ W[p + 2] = 1 => W[p + 3] # 0

LEMMA WindowPart ==
  ASSUME content \in Files
  PROVE  /\ content \in Seq(Nat) /\ W \in Seq(Nat)
         /\ Len(W) <= Len(content)
         /\ \A i \in 1 .. Len(W) : W[i] = content[i]
<1>1. content \in Seq(Nat)
  BY BytesAreNumbers, SdpAssumption
<1> QED
  BY <1>1, SdpAssumption DEF W, Sdp!Window

LEMMA FileFramed ==
  ASSUME content \in Files, Sdp!AnnexB(content)
  PROVE  Framed
<1>1. /\ W \in Seq(Nat) /\ Len(W) <= Len(content)
      /\ \A i \in 1 .. Len(W) : W[i] = content[i]
      /\ Len(W) \in Nat /\ Len(content) \in Nat
  BY WindowPart
<1>2. ASSUME NEW p \in 1 .. Len(W) - 3
      PROVE  W[p] = 0 /\ W[p + 1] = 0 => /\ W[p + 2] = 0 => W[p + 3] = 1
                                         /\ W[p + 2] = 1 => W[p + 3] # 0
  <2>1. /\ p \in 1 .. Len(content) - 3
        /\ p \in 1 .. Len(W) /\ p + 1 \in 1 .. Len(W)
        /\ p + 2 \in 1 .. Len(W) /\ p + 3 \in 1 .. Len(W)
    BY <1>1
  <2>2. /\ W[p] = content[p] /\ W[p + 1] = content[p + 1]
        /\ W[p + 2] = content[p + 2] /\ W[p + 3] = content[p + 3]
    BY <1>1, <2>1
  <2>3. content[p] = 0 /\ content[p + 1] = 0
          => /\ content[p + 2] = 0 => content[p + 3] = 1
             /\ content[p + 2] = 1 => content[p + 3] # 0
    BY <2>1 DEF Sdp!AnnexB
  <2> QED
    BY <2>2, <2>3
<1> QED
  BY <1>1, <1>2 DEF Framed

LEMMA UnitIs ==
  ASSUME NEW a, NEW b
  PROVE  <<a, b>> \in Sdp!NalUnits <=>
           /\ a \in 4 .. Len(W) /\ b \in 4 .. Len(W) /\ a <= b
           /\ Starts(a) /\ (b = Len(W) \/ Zeros(b + 1))
           /\ \A p \in a .. b : ~ Zeros(p)
<1> DEFINE Mark(p) == /\ p + 2 <= Len(W)
                      /\ W[p] = 0 /\ W[p + 1] = 0 /\ W[p + 2] \in {0, 1}
<1>1. Sdp!NalUnits = {n \in (4 .. Len(W)) \X (4 .. Len(W)) :
         /\ n[1] <= n[2] /\ Mark(n[1] - 3) /\ W[n[1] - 1] = 1
         /\ n[2] = Len(W) \/ Mark(n[2] + 1)
         /\ \A p \in n[1] .. n[2] : ~ Mark(p)}
  BY DEF Sdp!NalUnits, W
<1>2. ASSUME a \in 4 .. Len(W)
      PROVE  Mark(a - 3) /\ W[a - 1] = 1 <=> Starts(a)
  <2>1. a - 3 + 1 = a - 2 /\ a - 3 + 2 = a - 1 /\ a - 1 <= Len(W)
    BY <1>2
  <2> QED
    BY <1>2, <2>1 DEF Starts
<1>3. \A p : Mark(p) <=> Zeros(p)
  BY DEF Zeros
<1> HIDE DEF Mark
<1>4. <<a, b>> \in Sdp!NalUnits <=>
        /\ a \in 4 .. Len(W) /\ b \in 4 .. Len(W)
        /\ a <= b /\ Mark(a - 3) /\ W[a - 1] = 1
        /\ b = Len(W) \/ Mark(b + 1)
        /\ \A p \in a .. b : ~ Mark(p)
  BY <1>1
<1> QED
  BY <1>2, <1>3, <1>4

LEMMA UnitPair ==
  ASSUME NEW m \in Sdp!NalUnits
  PROVE  m = <<m[1], m[2]>> /\ m[1] \in 4 .. Len(W) /\ m[2] \in 4 .. Len(W)
BY DEF Sdp!NalUnits, W

(* No unit begins with a zero.                                             *)
LEMMA HeaderSeen ==
  ASSUME Framed, NEW p, Starts(p)
  PROVE  W[p] # 0 /\ ~ Zeros(p)
<1>1. p - 3 \in 1 .. Len(W) - 3 /\ p - 3 + 1 = p - 2 /\ p - 3 + 2 = p - 1
      /\ p - 3 + 3 = p
  BY DEF Starts, Framed
<1>2. W[p] # 0
  BY <1>1 DEF Framed, Starts
<1> QED
  BY <1>2 DEF Zeros

(* A unit's place tells its end.                                           *)
LEMMA OneEnd ==
  ASSUME NEW m \in Sdp!NalUnits, NEW n \in Sdp!NalUnits, m[1] = n[1]
  PROVE  m = n
<1> DEFINE a == m[1]
           b == m[2]
           c == n[2]
<1>1. <<a, b>> \in Sdp!NalUnits /\ <<a, c>> \in Sdp!NalUnits
  BY UnitPair
<1>2. /\ a \in Int /\ b \in 4 .. Len(W) /\ c \in 4 .. Len(W) /\ a <= b /\ a <= c
      /\ (b = Len(W) \/ Zeros(b + 1)) /\ (c = Len(W) \/ Zeros(c + 1))
      /\ (\A p \in a .. b : ~ Zeros(p)) /\ (\A p \in a .. c : ~ Zeros(p))
  BY <1>1, UnitIs
<1> HIDE DEF a, b, c
<1>3. ~ (b < c)
  BY <1>2
<1>4. ~ (c < b)
  BY <1>2
<1>5. b = c
  BY <1>2, <1>3, <1>4
<1> QED
  BY <1>5, UnitPair DEF b, c

(* What DevNode reads at sta is where a unit ends and the next one begins. *)
LEMMA Looks ==
  ASSUME Framed, block = W, sta \in Nat, sta < Len(W) - 4
  PROVE  /\ Sdp!H264!StartCode(sta) \in {0, 3, 4}
         /\ Sdp!H264!StartCode(sta) = 0 => ~ Zeros(sta + 1)
         /\ Sdp!H264!StartCode(sta) # 0 =>
              Zeros(sta + 1) /\ Starts(sta + Sdp!H264!StartCode(sta) + 1)
         /\ Sdp!H264!StartCode(sta) = 4 => W[sta + 3] = 0
<1> DEFINE a == sta + 1
<1>1. /\ a \in 1 .. Len(W) - 3 /\ sta = a - 1 /\ Len(W) \in Nat
      /\ a + 1 = sta + 2 /\ a + 2 = sta + 3 /\ a + 3 = sta + 4
      /\ sta + 1 + 1 = sta + 2 /\ sta + 2 + 1 = sta + 3 /\ sta + 3 + 1 = sta + 4
  BY DEF Framed
<1>2. W[a] = 0 /\ W[a + 1] = 0 => (W[a + 2] = 0 => W[a + 3] = 1)
  BY <1>1 DEF Framed
<1>3. Sdp!H264!StartCode(sta) =
        IF W[a] = 0 /\ W[a + 1] = 0
        THEN IF W[a + 2] = 1 THEN 3
             ELSE IF W[a + 2] = 0 /\ W[a + 3] = 1 THEN 4 ELSE 0
        ELSE 0
  BY <1>1 DEF Sdp!H264!StartCode, Sdp!H264!Byte
<1>4. /\ Sdp!H264!StartCode(sta) \in {0, 3, 4}
      /\ Sdp!H264!StartCode(sta) = 0 => ~ Zeros(a)
      /\ Sdp!H264!StartCode(sta) # 0 => Zeros(a)
      /\ Sdp!H264!StartCode(sta) = 4 => W[a + 2] = 0
  BY <1>1, <1>2, <1>3 DEF Zeros
<1>5. Sdp!H264!StartCode(sta) = 3 => Starts(sta + 3 + 1)
  <2>1. /\ sta + 3 + 1 \in 4 .. Len(W) /\ sta + 3 + 1 - 3 = a
        /\ sta + 3 + 1 - 2 = a + 1 /\ sta + 3 + 1 - 1 = a + 2
    BY <1>1
  <2> QED
    BY <1>3, <2>1 DEF Starts
<1>6. Sdp!H264!StartCode(sta) = 4 => Starts(sta + 4 + 1)
  <2>1. /\ sta + 4 + 1 \in 4 .. Len(W) /\ sta + 4 + 1 - 3 = a + 1
        /\ sta + 4 + 1 - 2 = a + 2 /\ sta + 4 + 1 - 1 = a + 3
    BY <1>1
  <2> QED
    BY <1>3, <2>1 DEF Starts
<1> QED
  BY <1>1, <1>4, <1>5, <1>6

(* No unit begins between the one DevNode is in and the next it finds.     *)
LEMMA NoStartBetween ==
  ASSUME Framed, NEW h \in Nat, Starts(h), NEW a \in Nat, NEW b \in Nat,
         NEW c \in {3, 4}, a <= b, h <= b + c, c = 4 => W[b + 3] = 0,
         Starts(a + 1) \/ a = 0, \A p \in a + 1 .. b : ~ Zeros(p)
  PROVE  h <= a + 1
<1>1. /\ h >= 4 /\ h <= Len(W) /\ Len(W) \in Nat
      /\ W[h - 3] = 0 /\ W[h - 2] = 0 /\ W[h - 1] = 1
  BY DEF Starts, Framed
<1>2. Zeros(h - 3)
  <2>1. h - 3 + 1 = h - 2 /\ h - 3 + 2 = h - 1 /\ h - 1 <= Len(W)
    BY <1>1
  <2> QED
    BY <1>1, <2>1 DEF Zeros
<1>3. SUFFICES ASSUME h > a + 1 PROVE FALSE
  BY <1>1
<1>4. h - 3 \notin a + 1 .. b
  BY <1>2
<1>5. h - 3 > b \/ h - 3 <= a
  BY <1>1, <1>4
<1>6. CASE h - 3 > b
  <2>1. c = 4 /\ h - 1 = b + 3
    BY <1>1, <1>6
  <2> QED
    BY <1>1, <2>1
<1>7. CASE h - 3 <= a /\ a # 0
  <2>1. h = a + 2 \/ h = a + 3
    BY <1>1, <1>3, <1>7
  <2>2. Starts(a + 1) /\ W[a + 1] # 0 /\ a + 1 - 1 = a
    BY <1>7, HeaderSeen
  <2>3. W[a] = 1
    BY <2>2 DEF Starts
  <2>4. h = a + 2 => h - 2 = a
    OBVIOUS
  <2>5. h = a + 3 => h - 2 = a + 1
    OBVIOUS
  <2> QED
    BY <1>1, <2>1, <2>2, <2>3, <2>4, <2>5
<1>8. CASE h - 3 <= a /\ a = 0
  BY <1>1, <1>8
<1> QED
  BY <1>5, <1>6, <1>7, <1>8

(* A unit ends in front of the next start code.                            *)
LEMMA UnitEnds ==
  ASSUME Framed, NEW a \in Nat, NEW b \in Nat, Starts(a + 1), a <= b,
         \A p \in a + 1 .. b : ~ Zeros(p), Zeros(b + 1)
  PROVE  a < b /\ <<a + 1, b>> \in Sdp!NalUnits
<1>1. a < b
  <2>1. ~ Zeros(a + 1)
    BY HeaderSeen
  <2>2. a # b
    BY <2>1
  <2> QED
    BY <2>2
<1>2. a + 1 \in 4 .. Len(W) /\ b \in 4 .. Len(W) /\ a + 1 <= b
  BY <1>1 DEF Starts, Zeros, Framed
<1> QED
  BY <1>1, <1>2, UnitIs

(* Every unit ends, at the latest with the window.                         *)
LEMMA UnitExists ==
  ASSUME Framed, NEW h \in Nat, Starts(h)
  PROVE  \E e \in 4 .. Len(W) : <<h, e>> \in Sdp!NalUnits
<1> DEFINE Stops(e) == e = Len(W) \/ Zeros(e + 1)
           ends == {e \in h .. Len(W) : Stops(e)}
<1>1. h \in 4 .. Len(W) /\ Len(W) \in Nat
  BY DEF Starts, Framed
<1>2. PICK e \in ends : \A f \in ends : e <= f
  <2>1. ends \subseteq Nat /\ Len(W) \in ends
    BY <1>1
  <2> HIDE DEF ends
  <2> QED
    BY <2>1, Least
<1>3. e \in 4 .. Len(W) /\ h <= e /\ Stops(e) /\ e \in Nat
  BY <1>1, <1>2
<1>4. ASSUME NEW p \in h .. e
      PROVE  ~ Zeros(p)
  <2>1. CASE p = h
    BY <2>1, HeaderSeen
  <2>2. CASE p # h
    <3>1. p - 1 \in h .. Len(W) /\ p - 1 < e /\ p - 1 + 1 = p
      BY <1>1, <1>3, <2>2
    <3>2. p - 1 \notin ends
      <4>1. \A f \in ends : ~ (f < e)
        BY <1>2, <1>3
      <4> HIDE DEF ends
      <4> QED
        BY <3>1, <4>1
    <3>3. ~ Stops(p - 1)
      BY <3>1, <3>2
    <3> QED
      BY <3>1, <3>3
  <2> QED
    BY <2>1, <2>2
<1> QED
  BY <1>1, <1>3, <1>4, UnitIs

-----------------------------------------------------------------------------
(* How the file's parameter sets come to be nodes, and nodes the SDP.      *)

Sets(t) == Sdp!ParameterSets(t)
Payload(m) == SubSeq(content, m[1], m[2])
Text(m) == <<0, 0, 1>> \o Payload(m)

(* Where DevNode has come to: it has passed over the unit behind the last  *)
(* start code up to sta, and handed on none but slices to DevLargeNode.    *)
Searched ==
  /\ block = W /\ task \in {"scan", "large"}
  /\ NalFlag => Starts(pos + 1)
  /\ ~ NalFlag => pos = 0 /\ (task = "scan" => DevCount = 0)
  /\ \A p \in pos + 1 .. sta : ~ Zeros(p)
  /\ task = "large" =>
       /\ dpage # 2 /\ nal_type % 32 \notin {7, 8}
       /\ ~ IsFU_A => block[from + 1] = nal_type

(* A parameter set has a node in the queue.                                *)
Queued(m, t) ==
  \E i \in 1 .. Len(bufferlist) :
    /\ bufferlist[i].nal % 32 = t
    /\ bufferlist[i].start + 1 = m[1] /\ bufferlist[i].stop = m[2]

(* The nodes of a type are parameter sets, one after the other.            *)
QueueOf(t) ==
  \A i \in 1 .. Len(bufferlist) : bufferlist[i].nal % 32 = t =>
    /\ bufferlist[i].b0 = bufferlist[i].nal
    /\ <<bufferlist[i].start + 1, bufferlist[i].stop>> \in Sets(t)
    /\ \A j \in 1 .. Len(bufferlist) :
         i < j /\ bufferlist[j].nal % 32 = t =>
           bufferlist[i].start < bufferlist[j].start

(* Each parameter set that DevNode has passed has its node.                *)
PassedOf(t) ==
  /\ \A i \in 1 .. Len(bufferlist) :
       bufferlist[i].nal % 32 = t => bufferlist[i].start < pos
  /\ \A m \in Sets(t) :
       m[1] <= pos \/ (task = "large" /\ dpage = 1) => Queued(m, t)

CutSets ==
  /\ Searched /\ SpsString = <<>> /\ PpsString = <<>>
  /\ \A t \in {7, 8} : QueueOf(t) /\ PassedOf(t)

(* What has been taken: nothing, with all parameter sets in the queue, or  *)
(* the sets up to one of them, whose text is kept.                         *)
LastTaken(k, t, text) ==
  /\ text = Sdp!Base64Encode(Text(k))
  /\ t = 7 => StreamSps = Payload(k)
  /\ \A m \in Sets(t) : m[1] <= k[1] \/ Queued(m, t)
  /\ \A i \in 1 .. Len(bufferlist) :
       bufferlist[i].nal % 32 = t => k[1] < bufferlist[i].start + 1

TakenOf(t, text) ==
  \/ text = <<>> /\ \A m \in Sets(t) : Queued(m, t)
  \/ \E k \in Sets(t) : LastTaken(k, t, text)

TakenSets ==
  /\ block = W /\ \A t \in {7, 8} : QueueOf(t)
  /\ TakenOf(7, SpsString) /\ TakenOf(8, PpsString)

Newest(k, t) == k \in Sets(t) /\ \A m \in Sets(t) : m[1] <= k[1]

MadeOf(v) ==
  \E s \in Sets(7), p \in Sets(8) :
    /\ Newest(s, 7) /\ Newest(p, 8)
    /\ v.tempforsps = <<Sdp!Base64Encode(Text(s)), Sdp!Base64Encode(Text(p))>>
    /\ v.profile_idc = <<Payload(s)>> /\ v.rectofvideo = <<Payload(s)>>

(* All of it, when the window holds whole parameter sets.                  *)
SetsInv ==
  Sdp!WholeParameterSets =>
    /\ phase = "cut" => CutSets
    /\ phase = "nodes" => TakenSets
    /\ phase # "made" => SdpList = {}
    /\ \A e \in SdpList : MadeOf(e.value)

(* What hangs on the file alone.                                           *)
LEMMA SameFile ==
  ASSUME content' = content
  PROVE  /\ W' = W
         /\ \A t : Sets(t)' = Sets(t)
         /\ \A m : Payload(m)' = Payload(m) /\ Text(m)' = Text(m)
         /\ Sdp!WholeParameterSets' = Sdp!WholeParameterSets
<1>1. W' = W /\ Sdp!Window(content)' = Sdp!Window(content)
  BY DEF W, Sdp!Window
<1>2. Sdp!NalUnits' = Sdp!NalUnits
  BY DEF Sdp!NalUnits, Sdp!Window
<1>3. \A t : Sdp!ParameterSets(t)' = Sdp!ParameterSets(t)
  BY <1>2 DEF Sdp!ParameterSets
<1> QED
  BY <1>1, <1>3 DEF Sets, Payload, Text, Sdp!WholeParameterSets

LEMMA SameZeros ==
  ASSUME content' = content
  PROVE  \A p : Zeros(p)' = Zeros(p) /\ Starts(p)' = Starts(p)
<1>1. W' = W
  BY SameFile
<1> QED
  BY <1>1 DEF Zeros, Starts

LEMMA CutTypes ==
  ASSUME CutShape, task # "idle"
  PROVE  /\ block \in Seq(Nat) /\ Len(block) \in Nat
         /\ pos \in Nat /\ pos < Len(block) /\ sta \in Nat
         /\ NalFlag \in BOOLEAN /\ NalFlag => pos <= sta
         /\ from \in Nat /\ end \in Nat /\ nal_type \in Nat /\ IsFU_A \in BOOLEAN
         /\ task = "large" => /\ dpage \in 0 .. 2
                              /\ dpage = 0 => from < Len(block) /\ NalFlag
         /\ bufferlist \in Seq(Cuts!Nodes) /\ Len(bufferlist) \in Nat
BY DEF CutShape, Cuts!Shape, Cuts!TypeOK, Cuts!ScanShape, Cuts!LargeShape

(* A whole parameter set, seen by its bytes.                               *)
LEMMA SetIs ==
  ASSUME content \in Files, NEW t, NEW m \in Sets(t)
  PROVE  /\ m = <<m[1], m[2]>> /\ m \in Sdp!NalUnits
         /\ m[1] \in 4 .. Len(W) /\ m[2] \in 4 .. Len(W) /\ m[1] <= m[2]
         /\ Starts(m[1]) /\ W[m[1]] % 32 = t /\ Len(W) \in Nat
         /\ Sdp!WholeParameterSets /\ t \in {7, 8} =>
              m[2] < Len(W) - 4 /\ Zeros(m[2] + 1)
<1>1. m \in Sdp!NalUnits /\ content[m[1]] % 32 = t
  BY DEF Sets, Sdp!ParameterSets
<1>2. m = <<m[1], m[2]>> /\ m[1] \in 4 .. Len(W) /\ m[2] \in 4 .. Len(W)
  BY <1>1, UnitPair
<1>3. <<m[1], m[2]>> \in Sdp!NalUnits
  BY <1>1, <1>2
<1>4. m[1] <= m[2] /\ Starts(m[1]) /\ (m[2] = Len(W) \/ Zeros(m[2] + 1))
  BY <1>3, UnitIs
<1>5. Len(W) \in Nat /\ W[m[1]] = content[m[1]]
  <2>1. W \in Seq(Nat) /\ \A i \in 1 .. Len(W) : W[i] = content[i]
    BY WindowPart
  <2>2. Len(W) \in Nat /\ m[1] \in 1 .. Len(W)
    BY <1>2, <2>1
  <2> QED
    BY <2>1, <2>2
<1>6. Sdp!WholeParameterSets /\ t \in {7, 8} => m[2] < Len(W) - 4
  BY DEF Sdp!WholeParameterSets, Sets, W
<1> QED
  BY <1>1, <1>2, <1>4, <1>5, <1>6

LEMMA SetAt ==
  ASSUME content \in Files, NEW a, NEW b, <<a, b>> \in Sdp!NalUnits
  PROVE  <<a, b>> \in Sets(W[a] % 32)
<1>1. /\ W \in Seq(Nat) /\ Len(W) \in Nat
      /\ \A i \in 1 .. Len(W) : W[i] = content[i]
  BY WindowPart
<1>2. a \in 4 .. Len(W)
  BY UnitIs
<1>3. W[a] = content[a]
  BY <1>1, <1>2
<1> QED
  BY <1>3 DEF Sets, Sdp!ParameterSets

(* A node that is not of a type changes nothing for that type.             *)
LEMMA KeepQueue ==
  ASSUME bufferlist \in Seq(Cuts!Nodes), content' = content,
         NEW t, QueueOf(t),
         \/ bufferlist' = bufferlist
         \/ \E n :
              n.nal % 32 # t /\ bufferlist' = Append(bufferlist, n)
  PROVE  /\ QueueOf(t)'
         /\ \A m : Queued(m, t) => Queued(m, t)'
         /\ \A i \in 1 .. Len(bufferlist') : bufferlist'[i].nal % 32 = t =>
              i \in 1 .. Len(bufferlist) /\ bufferlist'[i] = bufferlist[i]
<1>1. /\ Len(bufferlist) \in Nat /\ Len(bufferlist') \in Nat
      /\ Len(bufferlist) <= Len(bufferlist')
      /\ \A i \in 1 .. Len(bufferlist) : bufferlist'[i] = bufferlist[i]
      /\ \A i \in 1 .. Len(bufferlist') : bufferlist'[i].nal % 32 = t =>
           i \in 1 .. Len(bufferlist)
  <2>1. CASE bufferlist' = bufferlist
    BY <2>1
  <2>2. CASE \E n :
               n.nal % 32 # t /\ bufferlist' = Append(bufferlist, n)
    <3>1. PICK n :
            n.nal % 32 # t /\ bufferlist' = Append(bufferlist, n)
      BY <2>2
    <3>2. /\ Len(bufferlist') = Len(bufferlist) + 1
          /\ bufferlist'[Len(bufferlist) + 1] = n
          /\ \A i \in 1 .. Len(bufferlist) : bufferlist'[i] = bufferlist[i]
      BY <3>1
    <3> QED
      BY <3>1, <3>2
  <2> QED
    BY <2>1, <2>2
<1>2. Sets(t)' = Sets(t)
  BY SameFile
<1>3. QueueOf(t)'
  BY <1>1, <1>2 DEF QueueOf
<1>4. ASSUME NEW m, Queued(m, t)
      PROVE  Queued(m, t)'
  BY <1>1, <1>4 DEF Queued
<1> QED
  BY <1>1, <1>3, <1>4

-----------------------------------------------------------------------------
(* Each step of the cutting.                                               *)

CutStep ==
  /\ CutShape /\ Framed /\ Sdp!WholeParameterSets /\ CutSets
  /\ content' = content /\ UNCHANGED <<SpsString, PpsString>>

LEMMA CutFacts ==
  ASSUME CutStep
  PROVE  /\ block = W /\ W \in Seq(Nat) /\ Len(W) \in Nat
         /\ pos \in Nat /\ pos < Len(W) /\ sta \in Nat
         /\ NalFlag \in BOOLEAN /\ NalFlag => pos <= sta /\ Starts(pos + 1)
         /\ bufferlist \in Seq(Cuts!Nodes) /\ content \in Files
         /\ W' = W /\ \A p : Zeros(p)' = Zeros(p) /\ Starts(p)' = Starts(p)
         /\ \A t : Sets(t)' = Sets(t)
<1>1. CutShape /\ Searched /\ content' = content
  BY DEF CutStep, CutSets
<1>2. task # "idle" /\ block = W /\ (NalFlag => Starts(pos + 1))
  BY <1>1 DEF Searched
<1> QED
  BY <1>1, <1>2, CutTypes, SameFile, SameZeros DEF CutShape

(* Where no node of its type is made and no parameter set of it passed,    *)
(* all is as it was.                                                       *)
LEMMA NoSetMade ==
  ASSUME CutStep, NEW t \in {7, 8}, pos' \in Nat, pos <= pos',
         \/ bufferlist' = bufferlist
         \/ \E n : n.nal % 32 # t /\ bufferlist' = Append(bufferlist, n),
         \A m \in Sets(t) : m[1] <= pos' \/ (task' = "large" /\ dpage' = 1) =>
                              m[1] <= pos \/ (task = "large" /\ dpage = 1)
  PROVE  QueueOf(t)' /\ PassedOf(t)'
<1>1. /\ QueueOf(t) /\ PassedOf(t) /\ content' = content
      /\ bufferlist \in Seq(Cuts!Nodes) /\ pos \in Nat
      /\ Sets(t)' = Sets(t)
  BY CutFacts DEF CutStep, CutSets
<1>2. /\ QueueOf(t)'
      /\ \A m : Queued(m, t) => Queued(m, t)'
      /\ \A i \in 1 .. Len(bufferlist') : bufferlist'[i].nal % 32 = t =>
           i \in 1 .. Len(bufferlist) /\ bufferlist'[i] = bufferlist[i]
  BY <1>1, KeepQueue
<1>3. ASSUME NEW i \in 1 .. Len(bufferlist'), bufferlist'[i].nal % 32 = t
      PROVE  bufferlist'[i].start < pos'
  <2>1. /\ i \in 1 .. Len(bufferlist) /\ bufferlist'[i] = bufferlist[i]
        /\ bufferlist[i].nal % 32 = t
    BY <1>2, <1>3
  <2>2. bufferlist[i].start < pos
    BY <1>1, <2>1 DEF PassedOf
  <2>3. bufferlist[i].start \in Nat
    <3>1. bufferlist[i] \in Cuts!Nodes
      BY <1>1, <2>1, ElementOf
    <3> QED
      BY <3>1 DEF Cuts!Nodes
  <2> QED
    BY <1>1, <2>1, <2>2, <2>3
<1>4. ASSUME NEW m \in Sets(t),
             m[1] <= pos' \/ (task' = "large" /\ dpage' = 1)
      PROVE  Queued(m, t)'
  BY <1>1, <1>2, <1>4 DEF PassedOf
<1> QED
  BY <1>1, <1>2, <1>3, <1>4 DEF PassedOf

(* What a start code leaves behind it.                                     *)
LEMMA PassedUnit ==
  ASSUME CutStep, task = "scan", sta < Len(block) - 4,
         Sdp!H264!StartCode(sta) # 0, NEW t \in {7, 8}, NEW m \in Sets(t),
         m[1] <= sta + Sdp!H264!StartCode(sta), ~ (m[1] <= pos)
  PROVE  NalFlag /\ m[1] = pos + 1
<1> DEFINE c == Sdp!H264!StartCode(sta)
           h == m[1]
<1>1. /\ c \in {3, 4} /\ Zeros(sta + 1) /\ (c = 4 => W[sta + 3] = 0)
  BY CutFacts, Looks DEF CutStep
<1>2. /\ h \in Nat /\ Starts(h) /\ h >= 4
  BY CutFacts, SetIs
<1>3. /\ pos <= sta /\ (Starts(pos + 1) \/ pos = 0)
      /\ ~ NalFlag => pos = 0
      /\ \A p \in pos + 1 .. sta : ~ Zeros(p)
  <2>1. /\ ~ NalFlag => pos = 0
        /\ \A p \in pos + 1 .. sta : ~ Zeros(p)
    BY DEF CutStep, CutSets, Searched
  <2>2. /\ NalFlag => pos <= sta /\ Starts(pos + 1)
        /\ pos \in Nat /\ sta \in Nat
    BY CutFacts
  <2> QED
    BY <2>1, <2>2
<1>4. h <= sta + c /\ ~ (h <= pos)
  OBVIOUS
<1> HIDE DEF c, h
<1>5. h <= pos + 1
  BY <1>1, <1>2, <1>3, <1>4, CutFacts, NoStartBetween DEF CutStep
<1>6. h = pos + 1 /\ NalFlag
  BY <1>2, <1>3, <1>4, <1>5, CutFacts
<1> QED
  BY <1>6 DEF h

LEMMA AdvanceSets ==
  ASSUME CutStep, Sdp!H264!Advance
  PROVE  CutSets'
<1>1. /\ task = "scan" /\ sta < Len(block) - 4 /\ Sdp!H264!StartCode(sta) = 0
      /\ sta' = sta + 1 /\ task' = task /\ block' = block /\ pos' = pos
      /\ NalFlag' = NalFlag /\ DevCount' = DevCount
      /\ bufferlist' = bufferlist
  BY DEF Sdp!H264!Advance, Sdp!H264!Scanning
<1>2. ~ Zeros(sta + 1)
  BY <1>1, CutFacts, Looks DEF CutStep
<1>3. Searched'
  <2>1. \A p \in pos + 1 .. sta + 1 : ~ Zeros(p)
    BY <1>2, CutFacts DEF CutStep, CutSets, Searched
  <2> QED
    BY <1>1, <2>1, CutFacts DEF CutStep, CutSets, Searched
<1>4. \A t \in {7, 8} : QueueOf(t)' /\ PassedOf(t)'
  BY <1>1, CutFacts, NoSetMade
<1> QED
  BY <1>3, <1>4 DEF CutSets, CutStep

LEMMA FirstStartCodeSets ==
  ASSUME CutStep, Sdp!H264!FirstStartCode
  PROVE  CutSets'
<1> DEFINE c == Sdp!H264!StartCode(sta)
<1>1. /\ task = "scan" /\ sta < Len(block) - 4 /\ c # 0 /\ ~ NalFlag
      /\ pos = 0 /\ DevCount = 0
  BY DEF Sdp!H264!FirstStartCode, Sdp!H264!Scanning, CutStep, CutSets, Searched
<1>2. /\ NalFlag' /\ pos' = pos + sta + c /\ sta' = sta + c
      /\ task' = "scan" /\ block' = block /\ bufferlist' = bufferlist
  BY <1>1 DEF Sdp!H264!FirstStartCode
<1>3. /\ c \in {3, 4} /\ Starts(sta + c + 1)
  BY <1>1, CutFacts, Looks DEF CutStep
<1>4. \A t \in {7, 8} : \A m \in Sets(t) :
        m[1] <= sta + c => m[1] <= pos
  BY <1>1, PassedUnit
<1> HIDE DEF c
<1>5. pos' = sta' /\ pos' \in Nat /\ pos <= pos' /\ pos' = sta + c
  BY <1>1, <1>2, <1>3, CutFacts
<1>6. Searched'
  BY <1>2, <1>3, <1>5, CutFacts DEF Searched
<1>7. \A t \in {7, 8} : QueueOf(t)' /\ PassedOf(t)'
  BY <1>2, <1>4, <1>5, NoSetMade
<1> QED
  BY <1>6, <1>7 DEF CutSets, CutStep

(* Behind a later start code the next unit begins.                         *)
LEMMA NextNalSearched ==
  ASSUME CutStep, task = "scan", sta < Len(block) - 4,
         Sdp!H264!StartCode(sta) # 0, NalFlag, Sdp!H264!NextNal
  PROVE  /\ pos' = sta + Sdp!H264!StartCode(sta) /\ pos' \in Nat /\ pos <= pos'
         /\ Starts(pos' + 1) /\ \A p \in pos' + 1 .. sta' : ~ Zeros(p)
         /\ pos < sta /\ <<pos + 1, sta>> \in Sdp!NalUnits
<1> DEFINE c == Sdp!H264!StartCode(sta)
<1>1. c \in {3, 4} /\ Zeros(sta + 1) /\ Starts(sta + c + 1)
  BY CutFacts, Looks DEF CutStep
<1>2. pos' = sta + c /\ sta' = sta + c + 1
  BY DEF Sdp!H264!NextNal
<1> HIDE DEF c
<1>3. pos' \in Nat /\ pos <= pos' /\ sta' = pos' + 1 /\ Starts(pos' + 1)
  <2>1. sta \in Nat /\ pos \in Nat /\ pos <= sta
    BY CutFacts
  <2>2. pos' \in Nat /\ pos <= pos' /\ sta' = pos' + 1
    BY <1>1, <1>2, <2>1
  <2> QED
    BY <1>1, <1>2, <2>2
<1>4. ~ Zeros(pos' + 1)
  BY <1>3, HeaderSeen DEF CutStep
<1>5. \A p \in pos' + 1 .. sta' : ~ Zeros(p)
  BY <1>3, <1>4
<1>6. \A p \in pos + 1 .. sta : ~ Zeros(p)
  BY DEF CutStep, CutSets, Searched
<1>7. pos < sta /\ <<pos + 1, sta>> \in Sdp!NalUnits
  BY <1>1, <1>6, CutFacts, UnitEnds DEF CutStep
<1> QED
  BY <1>2, <1>3, <1>5, <1>7 DEF c

LEMMA RawNodeSets ==
  ASSUME CutStep, Sdp!H264!RawNode
  PROVE  CutSets'
<1> DEFINE c == Sdp!H264!StartCode(sta)
           n == Sdp!H264!Node(Sdp!H264!Byte(pos),
                  IF sta > pos + 1 THEN Sdp!H264!Byte(pos + 1) ELSE 0,
                  Sdp!H264!Byte(pos), pos, sta)
<1>1. /\ task = "scan" /\ sta < Len(block) - 4 /\ c # 0 /\ NalFlag
      /\ Sdp!H264!NextNal /\ bufferlist' = Append(bufferlist, n)
      /\ task' = task /\ block' = block /\ NalFlag' = NalFlag
  BY DEF Sdp!H264!RawNode, Sdp!H264!Scanning
<1>2. /\ pos' = sta + c /\ pos' \in Nat /\ pos <= pos'
      /\ Starts(pos' + 1) /\ \A p \in pos' + 1 .. sta' : ~ Zeros(p)
      /\ pos < sta /\ <<pos + 1, sta>> \in Sdp!NalUnits
  BY <1>1, NextNalSearched
<1>3. /\ n.b0 = W[pos + 1] /\ n.nal = W[pos + 1]
      /\ n.start = pos /\ n.stop = sta
  BY CutFacts DEF Sdp!H264!Node, Sdp!H264!Byte
<1>4. Searched'
  BY <1>1, <1>2, CutFacts DEF Searched, CutStep, CutSets
<1>5. <<pos + 1, sta>> \in Sets(n.nal % 32)
  BY <1>2, <1>3, CutFacts, SetAt
<1>6. ASSUME NEW t \in {7, 8}, NEW m \in Sets(t), m[1] <= pos',
             ~ (m[1] <= pos)
      PROVE  m[1] = pos + 1 /\ n.nal % 32 = t
  <2>1. m[1] = pos + 1
    BY <1>1, <1>2, <1>6, PassedUnit
  <2> QED
    BY <1>3, <2>1, CutFacts, SetIs
<1> HIDE DEF c, n
<1>7. ASSUME NEW t \in {7, 8}, n.nal % 32 # t
      PROVE  QueueOf(t)' /\ PassedOf(t)'
  BY <1>1, <1>2, <1>6, <1>7, NoSetMade
<1>8. ASSUME NEW t \in {7, 8}, n.nal % 32 = t
      PROVE  QueueOf(t)' /\ PassedOf(t)'
  <2> DEFINE z == Len(bufferlist)
  <2>1. /\ QueueOf(t) /\ PassedOf(t) /\ Sets(t)' = Sets(t)
        /\ z \in Nat /\ pos \in Nat /\ sta \in Nat
        /\ bufferlist \in Seq(Cuts!Nodes)
    BY CutFacts DEF CutStep, CutSets
  <2>2. /\ Len(bufferlist') = z + 1 /\ bufferlist'[z + 1] = n
        /\ \A i \in 1 .. z : bufferlist'[i] = bufferlist[i]
    BY <1>1, <2>1
  <2>3. \A i \in 1 .. z : bufferlist[i].start \in Nat
    <3>1. \A i \in 1 .. z : bufferlist[i] \in Cuts!Nodes
      BY <2>1, ElementOf
    <3> QED
      BY <3>1 DEF Cuts!Nodes
  <2> HIDE DEF z
  <2>4. \A i \in 1 .. z : bufferlist[i].nal % 32 = t =>
          /\ bufferlist[i].b0 = bufferlist[i].nal
          /\ <<bufferlist[i].start + 1, bufferlist[i].stop>> \in Sets(t)
          /\ bufferlist[i].start < pos
          /\ \A j \in 1 .. z : i < j /\ bufferlist[j].nal % 32 = t =>
               bufferlist[i].start < bufferlist[j].start
    BY <2>1 DEF QueueOf, PassedOf, z
  <2>5. QueueOf(t)'
    <3> SUFFICES ASSUME NEW i \in 1 .. z + 1, bufferlist'[i].nal % 32 = t
                 PROVE  /\ bufferlist'[i].b0 = bufferlist'[i].nal
                        /\ <<bufferlist'[i].start + 1, bufferlist'[i].stop>>
                             \in Sets(t)
                        /\ \A j \in 1 .. z + 1 :
                             i < j /\ bufferlist'[j].nal % 32 = t =>
                               bufferlist'[i].start < bufferlist'[j].start
      BY <2>1, <2>2 DEF QueueOf
    <3>1. CASE i = z + 1
      <4>1. bufferlist'[i] = n
        BY <2>2, <3>1
      <4>2. n.b0 = n.nal /\ <<n.start + 1, n.stop>> \in Sets(t)
        BY <1>3, <1>5, <1>8
      <4>3. \A j \in 1 .. z + 1 : ~ (i < j)
        BY <2>1, <3>1
      <4> QED
        BY <4>1, <4>2, <4>3
    <3>2. CASE i # z + 1
      <4>1. i \in 1 .. z /\ bufferlist'[i] = bufferlist[i]
        BY <2>1, <2>2, <3>2
      <4>2. ASSUME NEW j \in 1 .. z + 1, i < j, bufferlist'[j].nal % 32 = t
            PROVE  bufferlist[i].start < bufferlist'[j].start
        <5>1. CASE j = z + 1
          BY <1>3, <2>2, <2>4, <4>1, <5>1
        <5>2. CASE j # z + 1
          <6>1. j \in 1 .. z /\ bufferlist'[j] = bufferlist[j]
            BY <2>1, <2>2, <5>2
          <6> QED
            BY <2>4, <4>1, <4>2, <6>1
        <5> QED
          BY <5>1, <5>2
      <4> QED
        BY <2>4, <4>1, <4>2
    <3> QED
      BY <3>1, <3>2
  <2>6. ASSUME NEW i \in 1 .. z + 1, bufferlist'[i].nal % 32 = t
        PROVE  bufferlist'[i].start < pos'
    <3>1. CASE i = z + 1
      <4>1. bufferlist'[i].start = pos /\ pos < pos'
        <5>1. c \in {3, 4}
          BY <1>1, CutFacts, Looks DEF CutStep, c
        <5> QED
          BY <1>2, <1>3, <2>1, <2>2, <3>1, <5>1
      <4> QED
        BY <4>1
    <3>2. CASE i # z + 1
      <4>1. i \in 1 .. z /\ bufferlist'[i] = bufferlist[i]
        BY <2>1, <2>2, <3>2
      <4>2. bufferlist[i].start < pos /\ bufferlist[i].start \in Nat
        BY <2>3, <2>4, <2>6, <4>1
      <4> QED
        BY <1>2, <2>1, <4>1, <4>2
    <3> QED
      BY <3>1, <3>2
  <2>7. ASSUME NEW m \in Sets(t), m[1] <= pos'
        PROVE  Queued(m, t)'
    <3>1. CASE m[1] <= pos
      <4>1. Queued(m, t)
        BY <2>1, <3>1 DEF PassedOf
      <4>2. PICK i \in 1 .. z : /\ bufferlist[i].nal % 32 = t
                                /\ bufferlist[i].start + 1 = m[1]
                                /\ bufferlist[i].stop = m[2]
        BY <4>1 DEF Queued, z
      <4>3. i \in 1 .. z + 1 /\ bufferlist'[i] = bufferlist[i]
        BY <2>1, <2>2, <4>2
      <4> QED
        BY <2>2, <4>2, <4>3 DEF Queued
    <3>2. CASE ~ (m[1] <= pos)
      <4>1. m[1] = pos + 1
        BY <1>6, <2>7, <3>2
      <4>2. m \in Sdp!NalUnits
        BY CutFacts, SetIs
      <4>3. m = <<pos + 1, sta>>
        BY <1>2, <4>1, <4>2, OneEnd
      <4>4. z + 1 \in 1 .. z + 1
        BY <2>1
      <4> QED
        BY <1>3, <1>8, <2>2, <4>3, <4>4 DEF Queued
    <3> QED
      BY <3>1, <3>2
  <2>8. ~ (task' = "large")
    BY <1>1
  <2>9. PassedOf(t)'
    BY <2>1, <2>2, <2>6, <2>7, <2>8 DEF PassedOf
  <2> QED
    BY <2>5, <2>9
<1> QED
  BY <1>4, <1>7, <1>8 DEF CutSets, CutStep

LEMMA NextStartCodeSets ==
  ASSUME CutStep, Sdp!H264!NextStartCode
  PROVE  CutSets'
<1> DEFINE c == Sdp!H264!StartCode(sta)
<1>1. /\ task = "scan" /\ sta < Len(block) - 4 /\ c # 0 /\ NalFlag
      /\ Sdp!H264!NextNal /\ bufferlist' = bufferlist
      /\ task' = "large" /\ block' = block /\ NalFlag' = NalFlag
      /\ dpage' = 0 /\ from' = pos /\ nal_type' = Sdp!H264!Byte(pos)
      /\ Sdp!H264!Type(Sdp!H264!Byte(pos)) < 6
  BY DEF Sdp!H264!NextStartCode, Sdp!H264!Scanning, Sdp!H264!Call
<1>2. /\ pos' = sta + c /\ pos' \in Nat /\ pos <= pos'
      /\ Starts(pos' + 1) /\ \A p \in pos' + 1 .. sta' : ~ Zeros(p)
  BY <1>1, NextNalSearched
<1>3. nal_type' = W[pos + 1] /\ W[pos + 1] % 32 \notin {7, 8}
  BY <1>1, CutFacts DEF Sdp!H264!Byte, Sdp!H264!Type
<1>4. Searched'
  <2>1. block'[from' + 1] = nal_type'
    BY <1>1, <1>3, CutFacts
  <2> QED
    BY <1>1, <1>2, <1>3, <2>1, CutFacts DEF Searched
<1>5. ASSUME NEW t \in {7, 8}, NEW m \in Sets(t), m[1] <= pos'
      PROVE  m[1] <= pos
  <2>1. SUFFICES ASSUME ~ (m[1] <= pos) PROVE FALSE
    OBVIOUS
  <2>2. m[1] = pos + 1
    BY <1>1, <1>2, <1>5, <2>1, PassedUnit
  <2> QED
    BY <1>3, <2>2, CutFacts, SetIs
<1> HIDE DEF c
<1>6. \A t \in {7, 8} : QueueOf(t)' /\ PassedOf(t)'
  BY <1>1, <1>2, <1>5, NoSetMade
<1> QED
  BY <1>4, <1>6 DEF CutSets, CutStep

(* The window's end cuts no parameter set, so DevNode has seen them all.   *)
LEMMA AllPassed ==
  ASSUME CutStep, task = "scan", ~ (sta < Len(block) - 4), NEW t \in {7, 8},
         NEW m \in Sets(t)
  PROVE  m[1] <= pos
<1> DEFINE h == m[1]
           e == m[2]
<1>1. /\ h \in 4 .. Len(W) /\ e \in 4 .. Len(W) /\ h <= e
      /\ e < Len(W) - 4 /\ Zeros(e + 1)
  BY CutFacts, SetIs DEF CutStep
<1>2. \A p \in pos + 1 .. sta : ~ Zeros(p)
  BY DEF CutStep, CutSets, Searched
<1>3. /\ pos \in Nat /\ sta \in Nat /\ Len(W) \in Nat
      /\ ~ (sta < Len(W) - 4)
  BY CutFacts
<1> HIDE DEF h, e
<1>4. e + 1 \notin pos + 1 .. sta
  BY <1>1, <1>2
<1>5. h <= pos
  BY <1>1, <1>3, <1>4
<1> QED
  BY <1>5 DEF h

LEMMA LeftoverSets ==
  ASSUME CutStep, Sdp!H264!Leftover
  PROVE  CutSets'
<1>1. /\ task = "scan" /\ ~ (sta < Len(block) - 4) /\ bufferlist' = bufferlist
      /\ task' = "large" /\ block' = block
      /\ pos' = pos /\ sta' = sta /\ NalFlag' = NalFlag
      /\ dpage' = 1 /\ from' = pos /\ nal_type' = Sdp!H264!Byte(pos)
  BY DEF Sdp!H264!Leftover, Sdp!H264!Call, Sdp!H264!scan
<1>2. \A t \in {7, 8} : \A m \in Sets(t) : m[1] <= pos
  BY <1>1, AllPassed
<1>3. nal_type' = W[pos + 1] /\ W[pos + 1] % 32 \notin {7, 8}
  <2>1. nal_type' = W[pos + 1]
    BY <1>1, CutFacts DEF Sdp!H264!Byte
  <2>2. CASE NalFlag
    <3>1. pos + 1 \in Nat /\ Starts(pos + 1) /\ content \in Files
      BY <2>2, CutFacts
    <3>2. PICK e \in 4 .. Len(W) : <<pos + 1, e>> \in Sdp!NalUnits
      BY <3>1, UnitExists DEF CutStep
    <3>3. <<pos + 1, e>> \in Sets(W[pos + 1] % 32)
      BY <3>1, <3>2, SetAt
    <3>4. ASSUME W[pos + 1] % 32 \in {7, 8}
          PROVE  pos + 1 <= pos
      <4>1. \A m \in Sets(W[pos + 1] % 32) : m[1] <= pos
        BY <1>2, <3>4
      <4> QED
        BY <3>3, <4>1
    <3> QED
      BY <2>1, <3>4, CutFacts
  <2>3. CASE ~ NalFlag
    <3>1. PICK m : m \in Sets(7)
      BY DEF CutStep, Sdp!WholeParameterSets, Sets
    <3>2. m[1] <= pos
      BY <1>2, <3>1
    <3>3. pos = 0
      BY <2>3 DEF CutStep, CutSets, Searched
    <3> QED
      BY <3>1, <3>2, <3>3, CutFacts, SetIs
  <2> QED
    BY <2>2, <2>3, CutFacts
<1>4. Searched'
  <2>1. block'[from' + 1] = nal_type'
    BY <1>1, <1>3, CutFacts
  <2> QED
    BY <1>1, <1>3, <2>1, CutFacts DEF Searched, CutStep, CutSets
<1>5. \A t \in {7, 8} : QueueOf(t)' /\ PassedOf(t)'
  BY <1>1, <1>2, CutFacts, NoSetMade
<1> QED
  BY <1>4, <1>5 DEF CutSets, CutStep

LEMMA FragmentSets ==
  ASSUME CutStep, Sdp!H264!Fragment
  PROVE  CutSets'
<1>1. /\ task = "large" /\ task' = task /\ block' = block /\ IsFU_A'
      /\ pos' = pos /\ sta' = sta /\ NalFlag' = NalFlag
      /\ dpage' = dpage /\ nal_type' = nal_type
      /\ \E n : n.nal = nal_type /\ bufferlist' = Append(bufferlist, n)
  BY DEF Sdp!H264!Fragment, Sdp!H264!scan, Sdp!H264!Node
<1>2. nal_type % 32 \notin {7, 8}
  BY <1>1 DEF CutStep, CutSets, Searched
<1>3. Searched'
  BY <1>1, CutFacts DEF Searched, CutStep, CutSets
<1>4. \A t \in {7, 8} : QueueOf(t)' /\ PassedOf(t)'
  <2>1. PICK n : n.nal = nal_type /\ bufferlist' = Append(bufferlist, n)
    BY <1>1
  <2>2. \A t \in {7, 8} : n.nal % 32 # t
    BY <1>2, <2>1
  <2> QED
    BY <1>1, <2>1, <2>2, CutFacts, NoSetMade
<1> QED
  BY <1>3, <1>4 DEF CutSets, CutStep

(* DevLargeNode returns: to DevNode, or it was the leftover.               *)
LEMMA ReturnSets ==
  ASSUME CutStep, task = "large", Sdp!H264!Return,
         UNCHANGED <<block, pos, sta, NalFlag>>,
         NEW n, n.nal % 32 \notin {7, 8}, bufferlist' = Append(bufferlist, n)
  PROVE  /\ task' # "idle" => CutSets'
         /\ task' = "idle" => TakenSets'
<1>1. /\ dpage # 2 /\ SpsString' = <<>> /\ PpsString' = <<>>
      /\ \A t \in {7, 8} : QueueOf(t) /\ PassedOf(t)
  BY DEF CutStep, CutSets, Searched
<1>2. \A t \in {7, 8} : /\ QueueOf(t)'
                        /\ \A m : Queued(m, t) => Queued(m, t)'
  BY <1>1, CutFacts, KeepQueue DEF CutStep
<1>3. CASE dpage = 1
  <2>1. task' = "idle"
    BY <1>3 DEF Sdp!H264!Return
  <2>2. \A t \in {7, 8} : \A m \in Sets(t) : Queued(m, t)'
    BY <1>1, <1>2, <1>3 DEF PassedOf
  <2>3. TakenOf(7, SpsString)' /\ TakenOf(8, PpsString)'
    BY <1>1, <2>2, CutFacts DEF TakenOf
  <2> QED
    BY <1>2, <2>1, <2>3, CutFacts DEF TakenSets
<1>4. CASE dpage = 0
  <2>1. task' = "scan" /\ NalFlag
    BY <1>4, CutTypes DEF Sdp!H264!Return, CutStep
  <2>2. Searched'
    BY <2>1, CutFacts DEF Searched, CutStep, CutSets
  <2>3. \A t \in {7, 8} : QueueOf(t)' /\ PassedOf(t)'
    BY <1>1, <2>1, CutFacts, NoSetMade
  <2> QED
    BY <1>1, <2>1, <2>2, <2>3 DEF CutSets
<1> QED
  BY <1>1, <1>3, <1>4, CutTypes DEF CutStep

LEMMA CutWindowSets ==
  ASSUME CutStep, Sdp!H264!Cut
  PROVE  /\ task' # "idle" => CutSets'
         /\ task' = "idle" => TakenSets'
<1>1. CASE Sdp!H264!LastFragment
  <2>1. /\ task = "large" /\ Sdp!H264!Return
        /\ UNCHANGED <<block, pos, sta, NalFlag>>
        /\ \E n : n.nal = nal_type /\ bufferlist' = Append(bufferlist, n)
    BY <1>1 DEF Sdp!H264!LastFragment, Sdp!H264!scan, Sdp!H264!Node
  <2>2. nal_type % 32 \notin {7, 8}
    BY <2>1 DEF CutStep, CutSets, Searched
  <2>3. PICK n : n.nal = nal_type /\ bufferlist' = Append(bufferlist, n)
    BY <2>1
  <2>4. n.nal % 32 \notin {7, 8}
    BY <2>2, <2>3
  <2> QED
    BY <2>1, <2>3, <2>4, ReturnSets
<1>2. CASE Sdp!H264!Single
  <2>1. /\ task = "large" /\ Sdp!H264!Return /\ ~ IsFU_A
        /\ UNCHANGED <<block, pos, sta, NalFlag>>
        /\ \E n : /\ n.nal = Sdp!H264!Byte(from)
                  /\ bufferlist' = Append(bufferlist, n)
    BY <1>2 DEF Sdp!H264!Single, Sdp!H264!scan, Sdp!H264!Node
  <2>2. Sdp!H264!Byte(from) = nal_type /\ nal_type % 32 \notin {7, 8}
    BY <2>1 DEF CutStep, CutSets, Searched, Sdp!H264!Byte
  <2>3. PICK n : /\ n.nal = Sdp!H264!Byte(from)
                 /\ bufferlist' = Append(bufferlist, n)
    BY <2>1
  <2>4. n.nal % 32 \notin {7, 8}
    BY <2>2, <2>3
  <2> QED
    BY <2>1, <2>3, <2>4, ReturnSets
<1>3. CASE ~ (Sdp!H264!LastFragment \/ Sdp!H264!Single)
  <2>1. CutSets'
    BY <1>3, AdvanceSets, FirstStartCodeSets, RawNodeSets, NextStartCodeSets,
       LeftoverSets, FragmentSets DEF Sdp!H264!Cut
  <2> QED
    BY <2>1 DEF CutSets, Searched
<1> QED
  BY <1>1, <1>2, <1>3

-----------------------------------------------------------------------------
(* The nodes are taken.                                                    *)

LEMMA TailOf ==
  ASSUME NEW S, NEW s \in Seq(S), s # <<>>
  PROVE  /\ Len(s) \in Nat /\ Len(s) > 0 /\ Len(Tail(s)) = Len(s) - 1
         /\ Head(s) = s[1] /\ s[1] \in S
         /\ \A i \in 1 .. Len(s) - 1 : Tail(s)[i] = s[i + 1]
OBVIOUS

LEMMA SamePart ==
  ASSUME NEW s \in Seq(Nat), NEW r \in Seq(Nat), NEW a \in Nat, NEW b \in Nat,
         1 <= a, b <= Len(s), Len(s) <= Len(r),
         \A i \in 1 .. Len(s) : s[i] = r[i]
  PROVE  SubSeq(s, a, b) = SubSeq(r, a, b)
<1>1. /\ SubSeq(s, a, b) = [i \in 1 .. (1 + b - a) |-> s[i + a - 1]]
      /\ SubSeq(r, a, b) = [i \in 1 .. (1 + b - a) |-> r[i + a - 1]]
  BY DEF SubSeq
<1>2. \A i \in 1 .. (1 + b - a) : i + a - 1 \in 1 .. Len(s)
  OBVIOUS
<1> QED
  BY <1>1, <1>2

(* The payload of a parameter set's node is that part of the file.         *)
LEMMA SetBytes ==
  ASSUME content \in Files, block = W, NEW t \in {7, 8}, NEW n \in Cuts!Nodes,
         n.b0 = n.nal, n.nal % 32 = t, <<n.start + 1, n.stop>> \in Sets(t)
  PROVE  Sdp!NodeBytes(n) = Payload(<<n.start + 1, n.stop>>)
<1> DEFINE a == n.start + 1
           b == n.stop
<1>1. /\ a \in 4 .. Len(W) /\ b \in 4 .. Len(W) /\ a <= b
  BY SetIs
<1>2. /\ content \in Seq(Nat) /\ W \in Seq(Nat) /\ Len(W) <= Len(content)
      /\ \A i \in 1 .. Len(W) : W[i] = content[i]
      /\ Len(W) \in Nat /\ Len(content) \in Nat
  BY WindowPart
<1>3. n.b0 # 1
  OBVIOUS
<1>4. Sdp!NodeBytes(n) = SubSeq(W, a, b)
  BY <1>3 DEF Sdp!NodeBytes
<1>5. Payload(<<n.start + 1, n.stop>>) = SubSeq(content, a, b)
  BY DEF Payload
<1> HIDE DEF a, b
<1>6. SubSeq(W, a, b) = SubSeq(content, a, b)
  <2>1. a \in Nat /\ b \in Nat /\ 1 <= a /\ b <= Len(W)
    BY <1>1, <1>2
  <2> QED
    BY <1>2, <2>1, SamePart
<1> QED
  BY <1>4, <1>5, <1>6

(* A text and its parameter set after the node at the queue's head.        *)
LEMMA TakeOne ==
  ASSUME CutShape, content' = content, block = W, bufferlist # <<>>,
         bufferlist' = Tail(bufferlist), NEW t \in {7, 8}, QueueOf(t),
         NEW old, NEW new, TakenOf(t, old),
         LET n == Head(bufferlist)
         IN  /\ new = IF Sdp!H264!GetNalType(n) = t
                      THEN Sdp!Base64Encode(<<0, 0, 1>> \o Sdp!NodeBytes(n))
                      ELSE old
             /\ t = 7 => StreamSps' = IF Sdp!H264!GetNalType(n) = t
                                      THEN Sdp!NodeBytes(n) ELSE StreamSps
  PROVE  /\ QueueOf(t)'
         /\ \/ new = <<>> /\ \A m \in Sets(t) : Queued(m, t)'
            \/ \E k \in Sets(t) :
                 /\ new = Sdp!Base64Encode(Text(k))
                 /\ t = 7 => StreamSps' = Payload(k)
                 /\ \A m \in Sets(t) : m[1] <= k[1] \/ Queued(m, t)'
                 /\ \A i \in 1 .. Len(bufferlist') :
                      bufferlist'[i].nal % 32 = t =>
                        k[1] < bufferlist'[i].start + 1
<1> DEFINE n == bufferlist[1]
           z == Len(bufferlist)
<1>1. bufferlist \in Seq(Cuts!Nodes) /\ content \in Files
  BY DEF CutShape, Cuts!Shape, Cuts!TypeOK
<1>2. /\ z \in Nat /\ z > 0 /\ Len(bufferlist') = z - 1 /\ n \in Cuts!Nodes
      /\ Head(bufferlist) = n
      /\ \A i \in 1 .. z - 1 : bufferlist'[i] = bufferlist[i + 1]
  BY <1>1, TailOf
<1>3. Sets(t)' = Sets(t)
  BY SameFile
<1>4. \A i \in 1 .. z : bufferlist[i] \in Cuts!Nodes
  BY <1>1, ElementOf
<1>5. \A i \in 1 .. z : bufferlist[i].nal % 32 = t =>
        /\ bufferlist[i].b0 = bufferlist[i].nal
        /\ <<bufferlist[i].start + 1, bufferlist[i].stop>> \in Sets(t)
        /\ \A j \in 1 .. z : i < j /\ bufferlist[j].nal % 32 = t =>
             bufferlist[i].start < bufferlist[j].start
  BY DEF QueueOf
<1>6. Sdp!H264!GetNalType(n) = t <=> n.nal % 32 = t
  <2>1. n.nal % 32 = t => n.b0 = n.nal
    <3>1. 1 \in 1 .. z
      BY <1>2
    <3> QED
      BY <1>5, <3>1
  <2>2. n.nal \in Nat
    BY <1>2 DEF Cuts!Nodes
  <2>3. n.nal % 32 = t => n.b0 # 1
    BY <2>1, <2>2
  <2> QED
    BY <2>3 DEF Sdp!H264!GetNalType, Sdp!H264!Type
<1> HIDE DEF n, z
<1>7. QueueOf(t)'
  <2> SUFFICES ASSUME NEW i \in 1 .. z - 1, bufferlist'[i].nal % 32 = t
               PROVE  /\ bufferlist'[i].b0 = bufferlist'[i].nal
                      /\ <<bufferlist'[i].start + 1, bufferlist'[i].stop>>
                           \in Sets(t)
                      /\ \A j \in 1 .. z - 1 :
                           i < j /\ bufferlist'[j].nal % 32 = t =>
                             bufferlist'[i].start < bufferlist'[j].start
    BY <1>2, <1>3 DEF QueueOf
  <2>1. i + 1 \in 1 .. z /\ bufferlist'[i] = bufferlist[i + 1]
    BY <1>2
  <2>2. ASSUME NEW j \in 1 .. z - 1, i < j, bufferlist'[j].nal % 32 = t
        PROVE  bufferlist'[i].start < bufferlist'[j].start
    <3>1. /\ j + 1 \in 1 .. z /\ bufferlist'[j] = bufferlist[j + 1]
          /\ i + 1 < j + 1
      BY <1>2, <2>2
    <3> QED
      BY <1>5, <2>1, <2>2, <3>1
  <2> QED
    BY <1>5, <2>1, <2>2
<1>8. ASSUME NEW m \in Sets(t), Queued(m, t)
      PROVE  Queued(m, t)' \/ (n.nal % 32 = t /\ n.start + 1 = m[1])
  <2>1. PICK i \in 1 .. z : /\ bufferlist[i].nal % 32 = t
                            /\ bufferlist[i].start + 1 = m[1]
                            /\ bufferlist[i].stop = m[2]
    BY <1>8 DEF Queued, z
  <2>2. CASE i = 1
    BY <2>1, <2>2 DEF n
  <2>3. CASE i # 1
    <3>1. i - 1 \in 1 .. z - 1 /\ bufferlist'[i - 1] = bufferlist[i]
      <4>1. i - 1 \in 1 .. z - 1 /\ i - 1 + 1 = i
        BY <1>2, <2>3
      <4>2. bufferlist'[i - 1] = bufferlist[i - 1 + 1]
        BY <1>2, <4>1
      <4> QED
        BY <4>1, <4>2
    <3> QED
      BY <1>2, <2>1, <3>1 DEF Queued
  <2> QED
    BY <2>2, <2>3
<1>9. CASE n.nal % 32 # t
  <2>1. new = old /\ (t = 7 => StreamSps' = StreamSps)
    BY <1>2, <1>6, <1>9
  <2>2. \A m \in Sets(t) : Queued(m, t) => Queued(m, t)'
    BY <1>8, <1>9
  <2>3. CASE old = <<>> /\ \A m \in Sets(t) : Queued(m, t)
    BY <1>7, <2>1, <2>2, <2>3
  <2>4. CASE \E k \in Sets(t) : LastTaken(k, t, old)
    <3>1. PICK k \in Sets(t) : LastTaken(k, t, old)
      BY <2>4
    <3>2. /\ old = Sdp!Base64Encode(Text(k))
          /\ t = 7 => StreamSps = Payload(k)
          /\ \A m \in Sets(t) : m[1] <= k[1] \/ Queued(m, t)
          /\ \A i \in 1 .. z : bufferlist[i].nal % 32 = t =>
               k[1] < bufferlist[i].start + 1
      BY <3>1 DEF LastTaken, z
    <3>3. \A i \in 1 .. z - 1 : bufferlist'[i].nal % 32 = t =>
            k[1] < bufferlist'[i].start + 1
      <4> TAKE i \in 1 .. z - 1
      <4>1. i + 1 \in 1 .. z /\ bufferlist'[i] = bufferlist[i + 1]
        BY <1>2
      <4> QED
        BY <3>2, <4>1
    <3> QED
      BY <1>2, <1>7, <2>1, <2>2, <3>2, <3>3
  <2> QED
    BY <2>3, <2>4 DEF TakenOf
<1>10. CASE n.nal % 32 = t
  <2> DEFINE k == <<n.start + 1, n.stop>>
  <2>1. k \in Sets(t) /\ n.b0 = n.nal /\ n \in Cuts!Nodes
    <3>1. 1 \in 1 .. z
      BY <1>2
    <3> QED
      BY <1>2, <1>5, <1>10, <3>1 DEF n
  <2>2. Sdp!NodeBytes(n) = Payload(k)
    BY <1>1, <1>10, <2>1, SetBytes
  <2>3. /\ new = Sdp!Base64Encode(Text(k))
        /\ t = 7 => StreamSps' = Payload(k)
    BY <1>2, <1>6, <1>10, <2>2 DEF Text
  <2>4. k[1] = n.start + 1 /\ n.start \in Nat
    BY <2>1 DEF Cuts!Nodes
  <2>5. ASSUME NEW m \in Sets(t)
        PROVE  m[1] <= k[1] \/ Queued(m, t)'
    <3>1. m[1] \in Nat
      BY <1>1, SetIs
    <3>2. CASE Queued(m, t)
      BY <1>8, <2>4, <3>1, <3>2
    <3>3. CASE ~ Queued(m, t)
      <4>1. PICK j \in Sets(t) : LastTaken(j, t, old)
        BY <3>3 DEF TakenOf
      <4>2. m[1] <= j[1]
        BY <3>3, <4>1 DEF LastTaken
      <4>3. j[1] < n.start + 1
        <5>1. 1 \in 1 .. Len(bufferlist)
          BY <1>2 DEF z
        <5> QED
          BY <1>10, <4>1, <5>1 DEF LastTaken, n
      <4>4. j[1] \in Nat
        BY <1>1, SetIs
      <4> QED
        BY <2>4, <3>1, <4>2, <4>3, <4>4
    <3> QED
      BY <3>2, <3>3
  <2>6. ASSUME NEW i \in 1 .. z - 1, bufferlist'[i].nal % 32 = t
        PROVE  k[1] < bufferlist'[i].start + 1
    <3>1. /\ 1 \in 1 .. z /\ i + 1 \in 1 .. z /\ 1 < i + 1
          /\ bufferlist'[i] = bufferlist[i + 1]
      BY <1>2
    <3>2. bufferlist[1].start < bufferlist[i + 1].start
      BY <1>5, <1>10, <2>6, <3>1 DEF n
    <3>3. bufferlist[i + 1].start \in Nat
      BY <1>4, <3>1 DEF Cuts!Nodes
    <3>4. n.start < bufferlist'[i].start /\ bufferlist'[i].start \in Nat
      BY <3>1, <3>2, <3>3 DEF n
    <3>5. \A x, y \in Nat : x < y => x + 1 < y + 1
      OBVIOUS
    <3>6. n.start + 1 < bufferlist'[i].start + 1
      BY <2>4, <3>4, <3>5
    <3> QED
      BY <2>4, <3>6
  <2> HIDE DEF k
  <2> QED
    BY <1>2, <1>7, <2>1, <2>3, <2>5, <2>6
<1> QED
  BY <1>9, <1>10

LEMMA PartOf ==
  ASSUME NEW S, NEW s \in Seq(S), NEW a \in 1 .. Len(s) + 1,
         NEW b \in 0 .. Len(s)
  PROVE  SubSeq(s, a, b) \in Seq(S)
<1>1. SubSeq(s, a, b) = [i \in 1 .. (1 + b - a) |-> s[i + a - 1]]
  BY DEF SubSeq
<1>2. \A i \in 1 .. (1 + b - a) : i + a - 1 \in 1 .. Len(s)
  OBVIOUS
<1>3. \A i \in 1 .. (1 + b - a) : s[i + a - 1] \in S
  BY <1>2, ElementOf
<1> QED
  BY <1>1, <1>3

(* The text of a parameter set can be decoded, and is not nothing.         *)
LEMMA TextOfSet ==
  ASSUME content \in Files, NEW t, NEW k \in Sets(t)
  PROVE  /\ Text(k) \in Bytes /\ Sdp!Base64Encode(Text(k)) # <<>>
         /\ Sdp!Base64Decode(Sdp!Base64Encode(Text(k))) = Text(k)
<1> DEFINE n == (Len(Text(k)) + 2) \div 3
<1>1. /\ content \in Seq(0 .. 255) /\ Len(content) \in Nat
      /\ Len(W) <= Len(content) /\ Len(W) \in Nat
  BY SdpAssumption, WindowPart
<1>2. /\ k[1] \in 4 .. Len(W) /\ k[2] \in 4 .. Len(W) /\ k[1] <= k[2]
  BY SetIs
<1>3. Payload(k) \in Seq(0 .. 255)
  <2>1. /\ k[1] \in 1 .. Len(content) + 1 /\ k[2] \in 0 .. Len(content)
    BY <1>1, <1>2
  <2> QED
    BY <1>1, <2>1, PartOf DEF Payload
<1>4. /\ Text(k) \in Bytes /\ Len(Text(k)) \in Nat /\ Len(Text(k)) >= 3
  BY <1>3 DEF Text, Bytes
<1>5. n \in Nat /\ n >= 1
  BY <1>4
<1>6. DOMAIN Sdp!Base64Encode(Text(k)) = 1 .. 4 * n
  BY <1>4, <1>5, Encoded
<1>7. Sdp!Base64Encode(Text(k)) # <<>>
  <2>1. 1 \in 1 .. 4 * n
    BY <1>5
  <2>2. 1 \notin DOMAIN <<>>
    OBVIOUS
  <2> QED
    BY <1>6, <2>1, <2>2
<1> QED
  BY <1>4, <1>7, DecodesBack

(* The SDP is made when the queue is empty: it holds the last of each.     *)
LEMMA MadeSets ==
  ASSUME content \in Files, Sdp!WholeParameterSets, TakenSets,
         bufferlist = <<>>
  PROVE  MadeOf(Sdp!H264CreateSdp)
<1>1. ASSUME NEW t \in {7, 8}, NEW text, TakenOf(t, text)
      PROVE  \E k \in Sets(t) :
               /\ Newest(k, t) /\ text = Sdp!Base64Encode(Text(k))
               /\ t = 7 => StreamSps = Payload(k)
  <2>1. \A m : ~ Queued(m, t)
    BY DEF Queued
  <2>2. PICK m : m \in Sets(t)
    BY DEF Sdp!WholeParameterSets, Sets
  <2>3. PICK k \in Sets(t) : LastTaken(k, t, text)
    BY <1>1, <2>1, <2>2 DEF TakenOf
  <2> QED
    BY <2>1, <2>3 DEF LastTaken, Newest
<1>2. PICK s \in Sets(7) : /\ Newest(s, 7)
                           /\ SpsString = Sdp!Base64Encode(Text(s))
                           /\ StreamSps = Payload(s)
  BY <1>1 DEF TakenSets
<1>3. PICK p \in Sets(8) : /\ Newest(p, 8)
                           /\ PpsString = Sdp!Base64Encode(Text(p))
  BY <1>1 DEF TakenSets
<1>4. SpsString # <<>> /\ PpsString # <<>>
  BY <1>2, <1>3, TextOfSet
<1>5. /\ Sdp!H264CreateSdp.tempforsps = <<SpsString, PpsString>>
      /\ Sdp!H264CreateSdp.profile_idc = <<StreamSps>>
      /\ Sdp!H264CreateSdp.rectofvideo = <<StreamSps>>
  BY <1>4 DEF Sdp!H264CreateSdp, Sdp!Template
<1> QED
  BY <1>2, <1>3, <1>5 DEF MadeOf

LEMMA SetsStill ==
  ASSUME SetsInv, UNCHANGED sdp
  PROVE  SetsInv'
<1>1. /\ content' = content /\ bufferlist' = bufferlist /\ phase' = phase
      /\ StreamSps' = StreamSps /\ SpsString' = SpsString
      /\ PpsString' = PpsString /\ SdpList' = SdpList /\ task' = task
      /\ block' = block /\ pos' = pos /\ sta' = sta /\ NalFlag' = NalFlag
      /\ from' = from /\ dpage' = dpage /\ IsFU_A' = IsFU_A
      /\ nal_type' = nal_type /\ DevCount' = DevCount
  BY DEF sdp
<1>2. /\ W' = W /\ \A t : Sets(t)' = Sets(t)
      /\ \A m : Payload(m)' = Payload(m) /\ Text(m)' = Text(m)
      /\ Sdp!WholeParameterSets' = Sdp!WholeParameterSets
      /\ \A p : Zeros(p)' = Zeros(p) /\ Starts(p)' = Starts(p)
  BY <1>1, SameFile, SameZeros
<1>3. \A t, m : Queued(m, t)' = Queued(m, t)
  BY <1>1 DEF Queued
<1>4. /\ \A t : QueueOf(t)' = QueueOf(t)
      /\ \A t : PassedOf(t)' = PassedOf(t)
  BY <1>1, <1>2, <1>3 DEF QueueOf, PassedOf
<1>5. Searched' = Searched
  BY <1>1, <1>2 DEF Searched
<1>6. \A t, k, text : LastTaken(k, t, text)' = LastTaken(k, t, text)
  BY <1>1, <1>2, <1>3 DEF LastTaken
<1>7. \A t, text : TakenOf(t, text)' = TakenOf(t, text)
  BY <1>2, <1>3, <1>6 DEF TakenOf
<1>8. \A v : MadeOf(v)' = MadeOf(v)
  BY <1>2 DEF MadeOf, Newest
<1> QED
  BY <1>1, <1>2, <1>4, <1>5, <1>7, <1>8 DEF SetsInv, CutSets, TakenSets

LEMMA SetsInit == Init => SetsInv
BY DEF Init, Sdp!Init, SetsInv

AnnexBFiles == \A f \in Files : Sdp!AnnexB(f)

LEMMA SetsStep ==
  ASSUME AnnexBFiles, CutShape, SetsInv, [Next]_vars
  PROVE  SetsInv'
<1>1. content' = content /\ content \in Files
  BY FileStays DEF CutShape
<1>2. /\ W' = W /\ \A t : Sets(t)' = Sets(t)
      /\ \A m : Payload(m)' = Payload(m) /\ Text(m)' = Text(m)
      /\ Sdp!WholeParameterSets' = Sdp!WholeParameterSets
  BY <1>1, SameFile
<1>3. CASE UNCHANGED sdp
  BY <1>3, SetsStill
<1>4. ASSUME Sdp!WholeParameterSets, Sdp!Next
      PROVE  /\ phase' = "cut" => CutSets'
             /\ phase' = "nodes" => TakenSets'
             /\ phase' # "made" => SdpList' = {}
             /\ \A e \in SdpList' : MadeOf(e.value)'
  <2>1. /\ phase = "cut" => CutSets
        /\ phase = "nodes" => TakenSets
        /\ phase # "made" => SdpList = {}
    BY <1>4 DEF SetsInv
  <2>2. CASE Sdp!NoFile
    BY <2>1, <2>2 DEF Sdp!NoFile
  <2>3. CASE Sdp!ReadWindow
    <3>1. /\ phase = "start" /\ phase' = "cut" /\ SdpList' = {}
          /\ block' = W /\ task' = "scan" /\ pos' = 0 /\ sta' = 0
          /\ NalFlag' = FALSE /\ DevCount' = 0 /\ bufferlist' = <<>>
          /\ SpsString' = <<>> /\ PpsString' = <<>>
      BY <2>1, <2>3 DEF Sdp!ReadWindow, Sdp!H264!DevNode, W, CutShape, NotBegun
    <3>2. Searched'
      BY <1>2, <3>1 DEF Searched
    <3>3. ASSUME NEW t \in {7, 8}
          PROVE  QueueOf(t)' /\ PassedOf(t)'
      <4>1. \A m \in Sets(t) : m[1] \in 4 .. Len(W) /\ Len(W) \in Nat
        BY <1>1, SetIs
      <4>2. \A m \in Sets(t) : ~ (m[1] <= 0)
        BY <4>1
      <4> QED
        BY <1>2, <3>1, <4>2 DEF QueueOf, PassedOf
    <3> QED
      BY <3>1, <3>2, <3>3 DEF CutSets
  <2>4. CASE Sdp!CutWindow
    <3>1. /\ phase = "cut" /\ SdpList' = {} /\ Sdp!H264!Cut
          /\ phase' = IF task' = "idle" THEN "nodes" ELSE "cut"
          /\ UNCHANGED <<SpsString, PpsString>>
      BY <2>1, <2>4 DEF Sdp!CutWindow
    <3>2. Framed
      BY <1>1, FileFramed DEF AnnexBFiles
    <3>3. CutStep
      BY <1>1, <1>4, <2>1, <3>1, <3>2 DEF CutStep
    <3> QED
      BY <3>1, <3>3, CutWindowSets
  <2>5. CASE Sdp!TakeNode
    <3> DEFINE n == Head(bufferlist)
               text == Sdp!Base64Encode(<<0, 0, 1>> \o Sdp!NodeBytes(n))
    <3>1. /\ phase' = "nodes" /\ SdpList' = {} /\ TakenSets
          /\ bufferlist # <<>> /\ bufferlist' = Tail(bufferlist)
          /\ block' = block
          /\ StreamSps' = IF Sdp!H264!GetNalType(n) = 7 THEN Sdp!NodeBytes(n)
                          ELSE StreamSps
          /\ SpsString' = IF Sdp!H264!GetNalType(n) = 7 THEN text ELSE SpsString
          /\ PpsString' = IF Sdp!H264!GetNalType(n) = 8 THEN text ELSE PpsString
      BY <2>1, <2>5 DEF Sdp!TakeNode, Sdp!H264!GetNode
    <3> HIDE DEF n, text
    <3>2. block = W /\ QueueOf(7) /\ QueueOf(8)
          /\ TakenOf(7, SpsString) /\ TakenOf(8, PpsString)
      BY <3>1 DEF TakenSets
    <3>3. QueueOf(7)' /\ TakenOf(7, SpsString)'
      <4> DEFINE new == IF Sdp!H264!GetNalType(n) = 7 THEN text ELSE SpsString
      <4>1. /\ QueueOf(7)'
            /\ \/ new = <<>> /\ \A m \in Sets(7) : Queued(m, 7)'
               \/ \E k \in Sets(7) :
                    /\ new = Sdp!Base64Encode(Text(k))
                    /\ 7 = 7 => StreamSps' = Payload(k)
                    /\ \A m \in Sets(7) : m[1] <= k[1] \/ Queued(m, 7)'
                    /\ \A i \in 1 .. Len(bufferlist') :
                         bufferlist'[i].nal % 32 = 7 =>
                           k[1] < bufferlist'[i].start + 1
        BY <1>1, <3>1, <3>2, TakeOne DEF n, text
      <4>2. SpsString' = new
        BY <3>1
      <4> QED
        BY <1>2, <4>1, <4>2 DEF TakenOf, LastTaken
    <3>4. QueueOf(8)' /\ TakenOf(8, PpsString)'
      <4> DEFINE new == IF Sdp!H264!GetNalType(n) = 8 THEN text ELSE PpsString
      <4>1. /\ QueueOf(8)'
            /\ \/ new = <<>> /\ \A m \in Sets(8) : Queued(m, 8)'
               \/ \E k \in Sets(8) :
                    /\ new = Sdp!Base64Encode(Text(k))
                    /\ 8 = 7 => StreamSps' = Payload(k)
                    /\ \A m \in Sets(8) : m[1] <= k[1] \/ Queued(m, 8)'
                    /\ \A i \in 1 .. Len(bufferlist') :
                         bufferlist'[i].nal % 32 = 8 =>
                           k[1] < bufferlist'[i].start + 1
        BY <1>1, <3>1, <3>2, TakeOne DEF n, text
      <4>2. PpsString' = new
        BY <3>1
      <4> QED
        BY <1>2, <4>1, <4>2 DEF TakenOf, LastTaken
    <3> QED
      BY <1>2, <3>1, <3>2, <3>3, <3>4 DEF TakenSets
  <2>6. CASE Sdp!Insert
    <3>1. /\ phase = "nodes" /\ bufferlist = <<>> /\ phase' = "made"
          /\ \A e \in SdpList' : e.value = Sdp!H264CreateSdp
      BY <2>6 DEF Sdp!Insert
    <3>2. MadeOf(Sdp!H264CreateSdp)
      BY <1>1, <1>4, <2>1, <3>1, MadeSets
    <3>3. \A v : MadeOf(v)' = MadeOf(v)
      BY <1>2 DEF MadeOf, Newest
    <3>4. \A e \in SdpList' : MadeOf(e.value)'
      <4> TAKE e \in SdpList'
      <4>1. MadeOf(e.value)
        BY <3>1, <3>2
      <4> QED
        BY <3>3, <4>1
    <3> QED
      BY <3>1, <3>4
  <2> QED
    BY <1>4, <2>2, <2>3, <2>4, <2>5, <2>6 DEF Sdp!Next
<1>5. Sdp!Next \/ UNCHANGED sdp
  BY Answered DEF Next, vars
<1> QED
  BY <1>2, <1>3, <1>4, <1>5 DEF SetsInv

(* The newest parameter set is one.                                        *)
LEMMA OneNewest ==
  ASSUME content \in Files, NEW t, NEW k \in Sets(t), Newest(k, t)
  PROVE  k = CHOOSE n \in Sdp!ParameterSets(t) :
               \A m \in Sdp!ParameterSets(t) : m[1] <= n[1]
<1> DEFINE c == CHOOSE n \in Sdp!ParameterSets(t) :
                  \A m \in Sdp!ParameterSets(t) : m[1] <= n[1]
<1>1. c \in Sdp!ParameterSets(t) /\ \A m \in Sdp!ParameterSets(t) : m[1] <= c[1]
  BY DEF Newest, Sets
<1> HIDE DEF c
<1>2. c \in Sets(t) /\ k[1] <= c[1] /\ c[1] <= k[1]
  BY <1>1 DEF Newest, Sets
<1>3. /\ k[1] \in 4 .. Len(W) /\ c[1] \in 4 .. Len(W) /\ Len(W) \in Nat
      /\ k \in Sdp!NalUnits /\ c \in Sdp!NalUnits
  BY <1>2, SetIs
<1>4. k[1] = c[1]
  BY <1>2, <1>3
<1>5. k = c
  BY <1>3, <1>4, OneEnd
<1> QED
  BY <1>5 DEF c

LEMMA SetsShown ==
  ASSUME content \in Files, SetsInv
  PROVE  SdpOfTheFile
<1> SUFFICES ASSUME Sdp!WholeParameterSets
             PROVE  Sdp!SdpOfTheFile
  BY DEF SdpOfTheFile, Sdp!SdpOfTheFile
<1> DEFINE Last(type) == CHOOSE n \in Sdp!ParameterSets(type) :
                           \A m \in Sdp!ParameterSets(type) : m[1] <= n[1]
           sps == Last(7)
           pps == Last(8)
<1> SUFFICES ASSUME NEW e \in SdpList
             PROVE  /\ e.value.tempforsps # <<>>
                    /\ Sdp!Base64Decode(e.value.tempforsps[1]) = Text(sps)
                    /\ Sdp!Base64Decode(e.value.tempforsps[2]) = Text(pps)
                    /\ e.value.profile_idc = <<Payload(sps)>>
                    /\ e.value.rectofvideo = e.value.profile_idc
  BY DEF Sdp!SdpOfTheFile, Text, Payload
<1>1. MadeOf(e.value)
  BY DEF SetsInv
<1>2. PICK s \in Sets(7), p \in Sets(8) :
        /\ Newest(s, 7) /\ Newest(p, 8)
        /\ e.value.tempforsps = <<Sdp!Base64Encode(Text(s)),
                                  Sdp!Base64Encode(Text(p))>>
        /\ e.value.profile_idc = <<Payload(s)>>
        /\ e.value.rectofvideo = <<Payload(s)>>
  BY <1>1 DEF MadeOf
<1>3. s = sps /\ p = pps
  BY <1>2, OneNewest
<1>4. /\ Sdp!Base64Decode(e.value.tempforsps[1]) = Text(s)
      /\ Sdp!Base64Decode(e.value.tempforsps[2]) = Text(p)
  BY <1>2, TextOfSet
<1> HIDE DEF sps, pps
<1> QED
  BY <1>2, <1>3, <1>4

(* However the window cuts a file of Annex B that holds whole parameter    *)
(* sets, the SDP carries its last SPS and PPS, byte by byte.               *)
THEOREM SdpCarriesTheFile ==
  ASSUME \A f \in Files : Sdp!AnnexB(f)
  PROVE  Spec => []SdpOfTheFile
<1>1. AnnexBFiles
  BY DEF AnnexBFiles
<1>2. CutShape /\ SetsInv /\ [Next]_vars => CutShape' /\ SetsInv'
  BY <1>1, CutShapeStep, SetsStep
<1>3. CutShape /\ SetsInv => SdpOfTheFile
  BY SetsShown DEF CutShape
<1> QED
  BY <1>2, <1>3, CutShapeInit, SetsInit, PTL DEF Spec
=============================================================================
