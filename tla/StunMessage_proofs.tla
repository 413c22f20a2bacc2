-------------------------- MODULE StunMessage_proofs --------------------------
(***************************************************************************)
(* Proofs about the STUN codec: offsets of attributes, what the trailers   *)
(* cover, and what a receiver may rely on when one verifies.               *)
(***************************************************************************)
EXTENDS StunMessage, Queues_proofs

--------------------------------------------------------------------------------
(* Offsets: what attr_size adds up to.                                       *)

\* A set of places that is not empty has a last one.
LEMMA MaxIs ==
  ASSUME NEW n \in Nat, NEW I \in SUBSET (1 .. n), I # {}
  PROVE  Max(I) \in I /\ \A j \in I : Max(I) >= j
<1> DEFINE S == {n - i : i \in I}
<1>1. S \in SUBSET Nat /\ S # {}
  <2>1. \A i \in I : i \in 1 .. n
    OBVIOUS
  <2>2. \A i \in 1 .. n : n - i \in Nat
    OBVIOUS
  <2> QED
    BY <2>1, <2>2
<1>2. PICK d \in S : \A e \in S : d <= e
  <2> HIDE DEF S
  <2> QED
    BY <1>1, Smallest
<1>3. PICK i \in I : d = n - i
  BY <1>2
<1>4. ASSUME NEW j \in I PROVE i >= j
  <2>1. n - j \in S
    OBVIOUS
  <2>2. n - i <= n - j
    BY <1>2, <1>3, <2>1
  <2>3. i \in Int /\ j \in Int
    OBVIOUS
  <2> QED
    BY <2>2, <2>3
<1> QED
  BY <1>3, <1>4 DEF Max

\* The last place of an initial segment is its bound.
LEMMA MaxOfFront ==
  ASSUME NEW n \in Nat, NEW I \in SUBSET (1 .. n), n \in I
  PROVE  Max(I) = n
<1>1. Max(I) \in I /\ Max(I) >= n
  BY MaxIs
<1>2. Max(I) \in 1 .. n
  BY <1>1
<1> QED
  BY <1>1, <1>2

\* And a first one.
LEMMA MinIs ==
  ASSUME NEW n \in Nat, NEW I \in SUBSET (1 .. n), I # {}
  PROVE  Min(I) \in I /\ \A j \in I : Min(I) <= j
<1>1. I \in SUBSET Nat
  OBVIOUS
<1>2. PICK i \in I : \A j \in I : i <= j
  BY <1>1, Smallest
<1> QED
  BY <1>2 DEF Min

\* The function FoldLeft defines when it adds up the sizes of attributes.
Adding(s, n, f) ==
  f = [I \in SUBSET (1 .. n) |-> IF I = {} THEN 0 ELSE f[I \ {Max(I)}] + AttrSize(s[Max(I)].len)]

\* There is such a function for every number of attributes.
LEMMA AddingIs ==
  ASSUME NEW s
  PROVE  \A n \in Nat : \E f : Adding(s, n, f)
<1> DEFINE S == {n \in Nat : ~ \E f : Adding(s, n, f)}
<1> SUFFICES ASSUME S # {} PROVE FALSE
  OBVIOUS
<1>1. PICK n \in S : \A m \in S : n <= m
  <2>1. S \in SUBSET Nat
    OBVIOUS
  <2> HIDE DEF S
  <2> QED
    BY <2>1, Smallest
<1>2. n \in Nat /\ ~ \E f : Adding(s, n, f)
  BY <1>1
<1>3. CASE n = 0
  <2> DEFINE f == [I \in SUBSET (1 .. 0) |-> 0]
             step(I) == IF I = {} THEN 0 ELSE f[I \ {Max(I)}] + AttrSize(s[Max(I)].len)
  <2>1. ASSUME NEW I \in SUBSET (1 .. 0) PROVE I = {}
    OBVIOUS
  <2>2. \A I \in SUBSET (1 .. 0) : f[I] = step(I)
    BY <2>1
  <2>3. f = [I \in SUBSET (1 .. 0) |-> f[I]]
    OBVIOUS
  <2> HIDE DEF f
  <2>4. Adding(s, 0, f)
    BY <2>2, <2>3 DEF Adding
  <2> QED
    BY <1>2, <1>3, <2>4
<1>4. CASE n # 0
  <2> DEFINE p == n - 1
  <2>1. p \in Nat /\ p < n /\ n = p + 1
    BY <1>2, <1>4
  <2> HIDE DEF p
  <2>2. PICK g : Adding(s, p, g)
    <3> SUFFICES ASSUME p \in S PROVE FALSE
      BY <2>1
    <3>1. n <= p
      BY <1>1
    <3> QED
      BY <1>2, <2>1, <3>1
  <2> DEFINE z == AttrSize(s[n].len)
             f == [I \in SUBSET (1 .. n) |-> IF n \in I THEN g[I \ {n}] + z ELSE g[I]]
             step(I) == IF I = {} THEN 0 ELSE f[I \ {Max(I)}] + AttrSize(s[Max(I)].len)
  <2>3. ASSUME NEW I \in SUBSET (1 .. n), n \notin I
        PROVE  I \in SUBSET (1 .. p)
    <3>1. \A i \in I : i \in 1 .. n /\ i # n
      BY <2>3
    <3>2. \A i \in 1 .. n : i # n => i \in 1 .. p
      BY <2>1
    <3> QED
      BY <3>1, <3>2
  <2>4. \A I \in SUBSET (1 .. n) : f[I] = IF n \in I THEN g[I \ {n}] + z ELSE g[I]
    OBVIOUS
  <2>5. f = [I \in SUBSET (1 .. n) |-> f[I]]
    OBVIOUS
  <2> HIDE DEF f, z
  <2>6. ASSUME NEW I \in SUBSET (1 .. n), n \in I
        PROVE  f[I] = step(I)
    <3>1. Max(I) = n
      BY <1>2, <2>6, MaxOfFront
    <3>2. f[I] = g[I \ {n}] + z
      BY <2>4, <2>6
    <3>3. f[I \ {n}] = g[I \ {n}]
      BY <2>4
    <3> QED
      BY <2>6, <3>1, <3>2, <3>3 DEF z
  <2>7. ASSUME NEW I \in SUBSET (1 .. n), n \notin I
        PROVE  f[I] = step(I)
    <3>1. f[I] = g[I] /\ f[I \ {Max(I)}] = g[I \ {Max(I)}]
      BY <2>4, <2>7
    <3>2. g[I] = IF I = {} THEN 0 ELSE g[I \ {Max(I)}] + AttrSize(s[Max(I)].len)
      BY <2>2, <2>3, <2>7 DEF Adding
    <3> QED
      BY <3>1, <3>2
  <2>8. \A I \in SUBSET (1 .. n) : f[I] = step(I)
    BY <2>6, <2>7
  <2>9. Adding(s, n, f)
    BY <2>5, <2>8 DEF Adding
  <2> QED
    BY <1>2, <2>9
<1> QED
  BY <1>3, <1>4

\* What it gives for an initial segment.
LEMMA AddingStep ==
  ASSUME NEW s, NEW n \in Nat, NEW f, Adding(s, n, f)
  PROVE  /\ f[1 .. 0] = 0
         /\ \A k \in 1 .. n : f[1 .. k] = f[1 .. k - 1] + AttrSize(s[k].len)
<1>1. \A I \in SUBSET (1 .. n) :
        f[I] = IF I = {} THEN 0 ELSE f[I \ {Max(I)}] + AttrSize(s[Max(I)].len)
  BY DEF Adding
<1>2. 1 .. 0 = {}
  OBVIOUS
<1>3. ASSUME NEW k \in 1 .. n
      PROVE  f[1 .. k] = f[1 .. k - 1] + AttrSize(s[k].len)
  <2>1. k \in Nat /\ 1 .. k \in SUBSET (1 .. k) /\ k \in 1 .. k /\ 1 .. k \in SUBSET (1 .. n)
    OBVIOUS
  <2>2. Max(1 .. k) = k
    BY <2>1, MaxOfFront
  <2>3. (1 .. k) \ {k} = 1 .. k - 1
    OBVIOUS
  <2> QED
    BY <1>1, <2>1, <2>2, <2>3
<1> QED
  BY <1>1, <1>2, <1>3

\* The first k attributes of both are equally long.
SameLengths(s, t, k) == \A i \in 1 .. k : s[i].len = t[i].len

\* It depends on nothing but the lengths of the attributes so far.
LEMMA AddingAgrees ==
  ASSUME NEW s, NEW n \in Nat, NEW f, Adding(s, n, f),
         NEW t, NEW m \in Nat, NEW g, Adding(t, m, g),
         NEW k \in Nat, k <= n, k <= m, SameLengths(s, t, k)
  PROVE  f[1 .. k] = g[1 .. k]
<1> DEFINE S == {i \in 0 .. k : f[1 .. i] # g[1 .. i]}
<1>1. S = {}
  <2> SUFFICES ASSUME S # {} PROVE FALSE
    OBVIOUS
  <2>1. PICK i \in S : \A j \in S : i <= j
    <3>1. S \in SUBSET Nat
      OBVIOUS
    <3> HIDE DEF S
    <3> QED
      BY <3>1, Smallest
  <2>2. i \in 0 .. k /\ f[1 .. i] # g[1 .. i]
    BY <2>1
  <2>3. i # 0
    BY <2>2, AddingStep
  <2>4. i \in 1 .. k /\ i \in 1 .. n /\ i \in 1 .. m /\ i - 1 \in 0 .. k /\ i - 1 < i
    BY <2>2, <2>3
  <2>5. f[1 .. i] = f[1 .. i - 1] + AttrSize(s[i].len)
    BY <2>4, AddingStep
  <2>6. g[1 .. i] = g[1 .. i - 1] + AttrSize(t[i].len)
    BY <2>4, AddingStep
  <2>7. i - 1 \notin S
    BY <2>1, <2>4
  <2>8. f[1 .. i - 1] = g[1 .. i - 1]
    BY <2>4, <2>7
  <2> QED
    BY <2>2, <2>4, <2>5, <2>6, <2>8 DEF SameLengths
<1> QED
  BY <1>1

\* attr_size is at least a header.
LEMMA AttrSizeIs ==
  /\ \A len \in Nat : AttrSize(len) \in Nat /\ AttrSize(len) >= 4 + len
  /\ AttrSize(4) = 8 /\ AttrSize(20) = 24 /\ AttrSize(32) = 36
BY DEF AttrSize

\* It is a number of octets.
LEMMA AddingType ==
  ASSUME NEW s, NEW n \in Nat, NEW f, Adding(s, n, f), \A i \in 1 .. n : s[i].len \in Nat
  PROVE  \A k \in 0 .. n : f[1 .. k] \in Nat
<1> DEFINE S == {i \in 0 .. n : f[1 .. i] \notin Nat}
<1>1. S = {}
  <2> SUFFICES ASSUME S # {} PROVE FALSE
    OBVIOUS
  <2>1. PICK i \in S : \A j \in S : i <= j
    <3>1. S \in SUBSET Nat
      OBVIOUS
    <3> HIDE DEF S
    <3> QED
      BY <3>1, Smallest
  <2>2. i \in 0 .. n /\ f[1 .. i] \notin Nat
    BY <2>1
  <2>3. i # 0
    BY <2>2, AddingStep
  <2>4. i \in 1 .. n /\ i - 1 \in 0 .. n /\ i - 1 < i
    BY <2>2, <2>3
  <2>5. f[1 .. i] = f[1 .. i - 1] + AttrSize(s[i].len)
    BY <2>4, AddingStep
  <2>6. f[1 .. i - 1] \in Nat
    <3>1. i - 1 \notin S
      BY <2>1, <2>4
    <3> QED
      BY <2>4, <3>1
  <2>7. AttrSize(s[i].len) \in Nat
    BY <2>4, AttrSizeIs
  <2> QED
    BY <2>2, <2>5, <2>6, <2>7
<1> QED
  BY <1>1

\* The attributes of a datagram have lengths.
Measured(attrs) == \A i \in 1 .. Len(attrs) : attrs[i].len \in Nat

\* The first i - 1 attributes of a sequence take the octets this function gives.
LEMMA OffTotal ==
  ASSUME NEW T, NEW attrs \in Seq(T), NEW i \in 1 .. Len(attrs) + 1
  PROVE  \E f : Adding(SubSeq(attrs, 1, i - 1), i - 1, f) /\ OffOf(attrs, i) = 20 + f[1 .. i - 1]
<1> DEFINE s == SubSeq(attrs, 1, i - 1)
           f == CHOOSE g : Adding(s, i - 1, g)
<1>1. i - 1 \in Nat /\ DOMAIN s = 1 .. i - 1
  OBVIOUS
<1> HIDE DEF s
<1>2. Adding(s, i - 1, f)
  <2>1. \E g : Adding(s, i - 1, g)
    BY <1>1, AddingIs
  <2> QED
    BY <2>1
<1>3. FoldLeft(LAMBDA n, a : n + AttrSize(a.len), 0, s) = f[1 .. i - 1]
  BY <1>1 DEF FoldLeft, MapThenFoldSet, Adding
<1>4. OffOf(attrs, i) = 20 + f[1 .. i - 1]
  BY <1>3 DEF OffOf, HeaderLen, s
<1> QED
  BY <1>2, <1>4 DEF s

\* An attribute begins where the one before it ends, the first behind the header; and
\* nothing but the lengths in front of it says where.
LEMMA OffSame ==
  ASSUME NEW T, NEW a \in Seq(T), NEW b \in Seq(T), NEW i \in 1 .. Len(a) + 1,
         i <= Len(b) + 1, SameLengths(a, b, i - 1)
  PROVE  OffOf(a, i) = OffOf(b, i)
<1> DEFINE s == SubSeq(a, 1, i - 1)
           t == SubSeq(b, 1, i - 1)
<1>1. i \in 1 .. Len(b) + 1 /\ i - 1 \in Nat
  OBVIOUS
<1>2. PICK f : Adding(s, i - 1, f) /\ OffOf(a, i) = 20 + f[1 .. i - 1]
  BY OffTotal
<1>3. PICK g : Adding(t, i - 1, g) /\ OffOf(b, i) = 20 + g[1 .. i - 1]
  BY <1>1, OffTotal
<1>4. \A j \in 1 .. i - 1 : s[j] = a[j] /\ t[j] = b[j]
  BY <1>1
<1>5. \A j \in 1 .. i - 1 : s[j].len = t[j].len
  BY <1>4 DEF SameLengths
<1> HIDE DEF s, t
<1>6. i - 1 <= i - 1
  BY <1>1
<1>7. f[1 .. i - 1] = g[1 .. i - 1]
  <2>1. Adding(s, i - 1, f) /\ Adding(t, i - 1, g)
    BY <1>2, <1>3 DEF s, t
  <2> DEFINE k == i - 1
  <2>2. k \in Nat
    BY <1>1
  <2>3. k <= k
    BY <1>6
  <2>4. Adding(s, k, f)
    BY <2>1
  <2>5. Adding(t, k, g)
    BY <2>1
  <2>6. SameLengths(s, t, k)
    BY <1>5 DEF SameLengths
  <2> HIDE DEF k
  <2>7. f[1 .. k] = g[1 .. k]
    BY <2>2, <2>3, <2>4, <2>5, <2>6, AddingAgrees
  <2> QED
    BY <2>7 DEF k
<1> QED
  BY <1>2, <1>3, <1>7

LEMMA OffIs ==
  ASSUME NEW T, NEW attrs \in Seq(T), Measured(attrs)
  PROVE  /\ OffOf(attrs, 1) = 20
         /\ \A i \in 1 .. Len(attrs) + 1 : OffOf(attrs, i) \in Nat /\ OffOf(attrs, i) >= 20
         /\ \A i \in 1 .. Len(attrs) : OffOf(attrs, i + 1) = OffOf(attrs, i) + AttrSize(attrs[i].len)
<1>1. OffOf(attrs, 1) = 20
  <2>1. 1 \in 1 .. Len(attrs) + 1 /\ 1 - 1 = 0
    OBVIOUS
  <2>2. PICK f : Adding(SubSeq(attrs, 1, 0), 0, f) /\ OffOf(attrs, 1) = 20 + f[1 .. 0]
    BY <2>1, OffTotal
  <2>3. f[1 .. 0] = 0
    BY <2>2, AddingStep
  <2> QED
    BY <2>2, <2>3
<1>2. ASSUME NEW i \in 1 .. Len(attrs) + 1
      PROVE  OffOf(attrs, i) \in Nat /\ OffOf(attrs, i) >= 20
  <2> DEFINE s == SubSeq(attrs, 1, i - 1)
  <2>1. i - 1 \in Nat /\ i - 1 \in 0 .. i - 1
    OBVIOUS
  <2>2. \A j \in 1 .. i - 1 : s[j].len \in Nat
    BY DEF Measured
  <2>3. PICK f : Adding(s, i - 1, f) /\ OffOf(attrs, i) = 20 + f[1 .. i - 1]
    BY OffTotal
  <2> HIDE DEF s
  <2>4. f[1 .. i - 1] \in Nat
    BY <2>1, <2>2, <2>3, AddingType
  <2> QED
    BY <2>3, <2>4
<1>3. ASSUME NEW i \in 1 .. Len(attrs)
      PROVE  OffOf(attrs, i + 1) = OffOf(attrs, i) + AttrSize(attrs[i].len)
  <2> DEFINE s == SubSeq(attrs, 1, i - 1)
             t == SubSeq(attrs, 1, i)
             z == AttrSize(attrs[i].len)
  <2>1. /\ i \in Nat /\ i - 1 \in Nat /\ i \in 1 .. Len(attrs) + 1
        /\ i + 1 \in 1 .. Len(attrs) + 1 /\ (i + 1) - 1 = i /\ i \in 1 .. i
        /\ i - 1 <= i - 1 /\ i - 1 <= i /\ i - 1 \in 0 .. i - 1
    OBVIOUS
  <2>2. PICK f : Adding(s, i - 1, f) /\ OffOf(attrs, i) = 20 + f[1 .. i - 1]
    BY <2>1, OffTotal
  <2>3. PICK g : Adding(t, i, g) /\ OffOf(attrs, i + 1) = 20 + g[1 .. i]
    BY <2>1, OffTotal
  <2>4. \A j \in 1 .. i - 1 : s[j].len = t[j].len /\ s[j].len \in Nat
    BY DEF Measured
  <2>5. t[i] = attrs[i]
    OBVIOUS
  <2>6. z \in Nat
    BY AttrSizeIs DEF Measured
  <2> HIDE DEF s, t, z
  <2>7. g[1 .. i] = g[1 .. i - 1] + z
    BY <2>1, <2>3, <2>5, AddingStep DEF z
  <2>8. f[1 .. i - 1] = g[1 .. i - 1]
    <3> DEFINE k == i - 1
    <3>1. k \in Nat
      BY <2>1
    <3>2. i \in Nat
      BY <2>1
    <3>3. k <= k
      BY <2>1
    <3>4. k <= i
      BY <2>1
    <3>5. Adding(s, k, f)
      BY <2>2
    <3>6. Adding(t, i, g)
      BY <2>3
    <3>7. SameLengths(s, t, k)
      BY <2>4 DEF SameLengths
    <3> HIDE DEF k
    <3>8. f[1 .. k] = g[1 .. k]
      BY <3>1, <3>2, <3>3, <3>4, <3>5, <3>6, <3>7, AddingAgrees
    <3> QED
      BY <3>8 DEF k
  <2>9. f[1 .. i - 1] \in Nat
    BY <2>1, <2>2, <2>4, AddingType
  <2> QED
    BY <2>2, <2>3, <2>6, <2>7, <2>8, <2>9 DEF z
<1> QED
  BY <1>1, <1>2, <1>3

--------------------------------------------------------------------------------
(* Attributes and datagrams.                                                 *)

\* What a value may be: octets, an HMAC over attributes of octets, a CRC over those
\* and an HMAC.  (The provers do not know that these two strings are in STRING.)
Codes  == DOMAIN ValueLengths
Octets == [octets : STRING \cup {"zero", "other"}]
Macs   == [alg : Algorithms, key : Keys,
           over : [rec : Nat, attrs : Seq([code : Codes, len : Nat, val : Octets])]]
Crcs   == [rec : Nat, attrs : Seq([code : Codes, len : Nat, val : Octets \cup Macs])]

Attribute == [code : Codes, len : Nat, val : Octets \cup Macs \cup Crcs]

Datagram == {d \in [rec : Nat, attrs : Seq(Attribute), size : Nat] : d.size >= 20}

\* Octets are no tag, and an HMAC is no CRC.
LEMMA KindsDiffer ==
  /\ \A v \in Octets : \A alg, key, input : v # Hmac(alg, key, input)
  /\ \A v \in Octets : \A d, i : v # CrcInput(d, i)
  /\ \A alg, key, input, d, i : Hmac(alg, key, input) # CrcInput(d, i)
<1>1. \A v \in Octets : DOMAIN v = {"octets"}
  BY DEF Octets
<1>2. \A alg, key, input : DOMAIN Hmac(alg, key, input) = {"alg", "key", "over"}
  BY DEF Hmac
<1>3. \A d, i : DOMAIN CrcInput(d, i) = {"rec", "attrs"}
  BY DEF CrcInput
<1>4. "alg" # "octets" /\ "rec" # "octets" /\ "alg" # "rec" /\ "alg" # "attrs"
  OBVIOUS
<1> QED
  BY <1>1, <1>2, <1>3, <1>4, Zenon

\* The attributes of a datagram are measured.
LEMMA AllMeasured ==
  ASSUME NEW attrs \in Seq(Attribute)
  PROVE  Measured(attrs)
<1>1. \A i \in 1 .. Len(attrs) : attrs[i] \in Attribute
  OBVIOUS
<1> QED
  BY <1>1 DEF Measured, Attribute

\* What set_length makes of attributes.
LEMMA WithLengthIs ==
  ASSUME NEW attrs \in Seq(Attribute)
  PROVE  /\ WithLength(attrs) \in Datagram
         /\ WithLength(attrs).attrs = attrs
         /\ WithLength(attrs).size = EndOf(attrs)
         /\ WithLength(attrs).rec = EndOf(attrs) - 20
         /\ EndOf(attrs) \in Nat /\ EndOf(attrs) >= 20
<1>1. Len(attrs) + 1 \in 1 .. Len(attrs) + 1
  OBVIOUS
<1>2. EndOf(attrs) \in Nat /\ EndOf(attrs) >= 20
  BY <1>1, AllMeasured, OffIs DEF EndOf
<1>3. EndOf(attrs) - 20 \in Nat
  BY <1>2
<1> QED
  BY <1>2, <1>3 DEF WithLength, HeaderLen, Datagram

\* An attribute ends no later than one behind it begins.
LEMMA OffGrows ==
  ASSUME NEW attrs \in Seq(Attribute), NEW i \in 1 .. Len(attrs), NEW j \in i + 1 .. Len(attrs) + 1
  PROVE  OffOf(attrs, i) + AttrSize(attrs[i].len) <= OffOf(attrs, j)
<1> DEFINE l == Len(attrs)
           z(k) == AttrSize(attrs[k].len)
           o(k) == OffOf(attrs, k)
           Good(k) == o(i) + z(i) <= o(k)
           S == {k \in i + 1 .. l + 1 : ~Good(k)}
<1>1. /\ \A k \in 1 .. l + 1 : o(k) \in Nat
      /\ \A k \in 1 .. l : o(k + 1) = o(k) + z(k)
  BY AllMeasured, OffIs
<1>2. \A k \in 1 .. l : z(k) \in Nat
  BY AllMeasured, AttrSizeIs DEF Measured
<1>3. l \in Nat /\ i \in 1 .. l /\ j \in i + 1 .. l + 1
  OBVIOUS
<1> HIDE DEF l, z, o
<1>4. S = {}
  <2> SUFFICES ASSUME S # {} PROVE FALSE
    OBVIOUS
  <2>1. PICK k \in S : \A m \in S : k <= m
    <3>1. S \in SUBSET Nat
      BY <1>3
    <3> HIDE DEF S
    <3> QED
      BY <3>1, Smallest
  <2>2. k \in i + 1 .. l + 1 /\ ~Good(k)
    BY <2>1
  <2>3. k # i + 1
    BY <1>1, <1>2, <1>3, <2>2
  <2>4. k - 1 \in i + 1 .. l + 1 /\ k - 1 \in 1 .. l /\ k - 1 < k /\ (k - 1) + 1 = k
    BY <1>3, <2>2, <2>3
  <2>5. Good(k - 1)
    BY <2>1, <2>4
  <2>6. o(k) = o(k - 1) + z(k - 1)
    BY <1>1, <2>4
  <2>7. o(k - 1) \in Nat /\ z(k - 1) \in Nat
    <3>1. k - 1 \in 1 .. l + 1
      BY <1>3, <2>4
    <3>2. o(k - 1) \in Nat
      BY <1>1, <3>1
    <3>3. z(k - 1) \in Nat
      BY <1>2, <2>4
    <3> QED
      BY <3>2, <3>3
  <2>8. o(i) \in Nat /\ z(i) \in Nat
    <3>1. i \in 1 .. l + 1
      BY <1>3
    <3> QED
      BY <1>1, <1>2, <1>3, <3>1
  <2> QED
    BY <2>2, <2>5, <2>6, <2>7, <2>8
<1>5. Good(j)
  BY <1>3, <1>4
<1> QED
  BY <1>5 DEF o, z

\* Sequences made of others: what they hold, by place.
LEMMA AppendIs ==
  ASSUME NEW T, NEW q \in Seq(T), NEW a \in T
  PROVE  /\ Append(q, a) \in Seq(T) /\ Len(Append(q, a)) = Len(q) + 1
         /\ \A i \in 1 .. Len(q) : Append(q, a)[i] = q[i]
         /\ Append(q, a)[Len(q) + 1] = a
         /\ SubSeq(Append(q, a), 1, Len(q)) = q
<1>1. /\ Append(q, a) \in Seq(T) /\ Len(Append(q, a)) = Len(q) + 1
      /\ \A i \in 1 .. Len(q) : Append(q, a)[i] = q[i]
      /\ Append(q, a)[Len(q) + 1] = a
  OBVIOUS
<1>2. SubSeq(Append(q, a), 1, Len(q)) = q
  OBVIOUS
<1> QED
  BY <1>1, <1>2

\* A front of a sequence.
LEMMA FrontIs ==
  ASSUME NEW T, NEW s \in Seq(T), NEW k \in 0 .. Len(s)
  PROVE  /\ SubSeq(s, 1, k) \in Seq(T) /\ Len(SubSeq(s, 1, k)) = k
         /\ \A i \in 1 .. k : SubSeq(s, 1, k)[i] = s[i]
OBVIOUS

\* Sequences with the same entries are the same.
LEMMA SameEntries ==
  ASSUME NEW T, NEW s \in Seq(T), NEW t \in Seq(T), Len(s) = Len(t),
         \A i \in 1 .. Len(s) : s[i] = t[i]
  PROVE  s = t
OBVIOUS

\* Behind q stands one attribute more; filling in its value leaves everything in its place.
Sealed(q, code, len, v) ==
  LET d == WithLength(Append(q, [code |-> code, len |-> len, val |-> [octets |-> "zero"]]))
      e == WithLength(Append(q, [code |-> code, len |-> len, val |-> v]))
  IN  /\ Len(d.attrs) = Len(q) + 1
      /\ [d EXCEPT !.attrs[Len(q) + 1].val = v] = e
      /\ \A alg : MacInput(d, Len(q) + 1, alg) = MacInput(e, Len(q) + 1, alg)
      /\ CrcInput(d, Len(q) + 1) = CrcInput(e, Len(q) + 1)

\* That is so for every attribute.
LEMMA SealIs ==
  ASSUME NEW q \in Seq(Attribute), NEW code \in Codes, NEW len \in Nat, NEW v,
         [code |-> code, len |-> len, val |-> v] \in Attribute
  PROVE  Sealed(q, code, len, v)
<1> DEFINE n == Len(q) + 1
           blank == [code |-> code, len |-> len, val |-> [octets |-> "zero"]]
           full == [code |-> code, len |-> len, val |-> v]
           b == Append(q, blank)
           f == Append(q, full)
           d == WithLength(b)
           e == WithLength(f)
<1>1. blank \in Attribute /\ full \in Attribute /\ [blank EXCEPT !.val = v] = full
      /\ blank.len = full.len
  <2>1. [octets |-> "zero"] \in Octets
    BY DEF Octets
  <2>2. blank \in Attribute
    BY <2>1 DEF Attribute
  <2> QED
    BY <2>2
<1> HIDE DEF blank, full
<1>2. /\ b \in Seq(Attribute) /\ Len(b) = n /\ \A i \in 1 .. Len(q) : b[i] = q[i]
      /\ b[n] = blank /\ SubSeq(b, 1, Len(q)) = q
  BY <1>1, AppendIs
<1>3. /\ f \in Seq(Attribute) /\ Len(f) = n /\ \A i \in 1 .. Len(q) : f[i] = q[i]
      /\ f[n] = full /\ SubSeq(f, 1, Len(q)) = q
  BY <1>1, AppendIs
<1>4. n \in Nat /\ n - 1 = Len(q) /\ Len(q) \in Nat /\ \A i \in 1 .. n : i \in 1 .. Len(q) \/ i = n
  OBVIOUS
<1> HIDE DEF n, b, f
<1>5. [b EXCEPT ![n] = full] = f
  <2>1. [b EXCEPT ![n] = full] \in Seq(Attribute) /\ Len([b EXCEPT ![n] = full]) = n
    <3>1. n \in 1 .. Len(b) /\ b \in Seq(Attribute) /\ full \in Attribute
      BY <1>1, <1>2, <1>4
    <3>2. [b EXCEPT ![n] = full] \in Seq(Attribute) /\ Len([b EXCEPT ![n] = full]) = Len(b)
      BY <3>1
    <3> QED
      BY <1>2, <3>2
  <2>2. \A i \in 1 .. n : [b EXCEPT ![n] = full][i] = f[i]
    BY <1>2, <1>3, <1>4
  <2> QED
    BY <1>3, <2>1, <2>2, SameEntries
<1>6. OffOf(b, n) = OffOf(f, n) /\ EndOf(b) = EndOf(f)
  <2>1. \A i \in 1 .. n : b[i].len = f[i].len
    BY <1>1, <1>2, <1>3, <1>4
  <2>2. SameLengths(b, f, n - 1) /\ SameLengths(b, f, (n + 1) - 1)
    BY <1>4, <2>1 DEF SameLengths
  <2>3. /\ n \in 1 .. Len(b) + 1 /\ n <= Len(f) + 1
        /\ n + 1 \in 1 .. Len(b) + 1 /\ n + 1 <= Len(f) + 1
    BY <1>2, <1>3, <1>4 DEF n
  <2>4. OffOf(b, n) = OffOf(f, n)
    BY <1>2, <1>3, <2>2, <2>3, OffSame
  <2>5. OffOf(b, n + 1) = OffOf(f, n + 1)
    BY <1>2, <1>3, <2>2, <2>3, OffSame
  <2> QED
    BY <1>2, <1>3, <2>4, <2>5 DEF EndOf
<1>7. /\ d.attrs = b /\ d.size = EndOf(b) /\ d.rec = EndOf(b) - 20
      /\ e.attrs = f /\ e.size = EndOf(b) /\ e.rec = EndOf(b) - 20
  BY <1>6 DEF WithLength, HeaderLen
<1>8. [d EXCEPT !.attrs[n].val = v] = e
  <2>1. [b EXCEPT ![n].val = v] = f
    BY <1>1, <1>2, <1>5
  <2> QED
    BY <1>6, <2>1 DEF WithLength
<1>9. \A alg : MacInput(d, n, alg) = MacInput(e, n, alg)
  BY <1>2, <1>3, <1>4, <1>6, <1>7 DEF MacInput
<1>10. CrcInput(d, n) = CrcInput(e, n)
  BY <1>2, <1>3, <1>4, <1>7 DEF CrcInput
<1> QED
  BY <1>2, <1>7, <1>8, <1>9, <1>10 DEF Sealed, n, b, f, blank, full

--------------------------------------------------------------------------------
(* What build_response holds at each of its places.                          *)

\* The j-th attribute is a tag over those in front of it, or a CRC over them.
IsTag(d, j) ==
  \E alg \in Algorithms, key \in Keys :
    d.attrs[j] = [code |-> CodeOf[alg], len |-> MacLen[alg], val |-> Hmac(alg, key, MacInput(d, j, alg))]

IsPrint(d, j) == d.attrs[j] = [code |-> "fingerprint", len |-> 4, val |-> CrcInput(d, j)]

\* The first n attributes are the sender's; with a tag behind them; with a CRC behind that.
Own(d, n)       == \A j \in 1 .. n : d.attrs[j] \in Bodies
Protected(d, n) == Own(d, n) \/ (n # 0 /\ Own(d, n - 1) /\ IsTag(d, n))
Complete(d, n)  == Protected(d, n) \/ (n # 0 /\ Protected(d, n - 1) /\ IsPrint(d, n))

\* What build_response has put in so far: trailers only where its order allows them,
\* each over what stands in front of it.
OutInv ==
  /\ stage \in {"body", "integrity", "fingerprint", "built", "refused", "sent"}
  /\ out.attrs \in Seq(Attribute) /\ out = WithLength(out.attrs)
  /\ stage \in {"integrity", "fingerprint", "built", "sent"} => out.rec \in 0 .. MaxLength
  /\ stage \in {"body", "integrity"} => Own(out, Len(out.attrs))
  /\ stage = "fingerprint" => Protected(out, Len(out.attrs))
  /\ stage \in {"built", "sent"} => Complete(out, Len(out.attrs))

\* The i-th attribute of a datagram was sent, or holds octets nobody computed.
Sent(a, attrs) == \E j \in 1 .. Len(attrs) : a = attrs[j]
Traced(some, attrs) == \A i \in 1 .. Len(some) : some[i].val \in Octets \/ Sent(some[i], attrs)

\* The network computes no tag: it has those that were sent.
SeenInv ==
  /\ seen \in Datagram /\ changes \in 0 .. MaxChanges
  /\ stage # "sent" => seen.attrs = <<>>
  /\ Traced(seen.attrs, out.attrs)

CodecInv == OutInv /\ SeenInv

\* The sender's own attributes and the network's are attributes.
LEMMA GivenAttributes ==
  /\ Bodies \subseteq Attribute /\ \A a \in Bodies : a.val \in Octets /\ a.code # "fingerprint"
                                                   /\ a.code \notin MacCode /\ a.code # "foreign"
                                                   /\ a.len \in ValueLengths[a.code]
  /\ Stray \subseteq Attribute /\ \A a \in Stray : a.val \in Octets
  /\ \A a \in Bodies : a \in [code : Codes, len : Nat, val : Octets]
<1> DEFINE Body == [code : Codes \ (MacCode \cup {"fingerprint", "foreign"}), len : Nat,
                    val : [octets : STRING]]
           Known == [code : Codes, len : Nat, val : [octets : STRING]]
<1>1. [octets : STRING] \subseteq Octets
  BY DEF Octets
<1>2. /\ Bodies \subseteq Body /\ Stray \subseteq Known
      /\ \A a \in Bodies : a.len \in ValueLengths[a.code]
  BY CodecAssumption DEF Codes
<1> HIDE DEF Octets
<1>3. Body \subseteq Known /\ Known \subseteq [code : Codes, len : Nat, val : Octets]
  BY <1>1
<1>4. Known \subseteq Attribute
  BY <1>1 DEF Attribute
<1>5. \A a \in Body : a.code # "fingerprint" /\ a.code \notin MacCode /\ a.code # "foreign"
  OBVIOUS
<1>6. \A a \in Known : a.val \in Octets
  BY <1>1
<1> HIDE DEF Body, Known
<1> QED
  BY <1>2, <1>3, <1>4, <1>5, <1>6

\* The codes and lengths of the tags.
LEMMA TagIs ==
  ASSUME NEW alg \in Algorithms
  PROVE  /\ CodeOf[alg] \in Codes /\ CodeOf[alg] \in MacCode /\ MacLen[alg] \in Nat
         /\ CodeOf[alg] # "foreign" /\ CodeOf[alg] # "fingerprint"
         /\ MacLen[alg] \in ValueLengths[CodeOf[alg]]
         /\ MacLen[alg] % 4 = 0
BY DEF Algorithms, CodeOf, MacLen, MacCode, Codes, ValueLengths

\* A tag over attributes of the sender is an attribute; so is a CRC over them and a tag.
LEMMA TagType ==
  ASSUME NEW d, d.attrs \in Seq(Attribute), NEW n \in 1 .. Len(d.attrs) + 1, Own(d, n - 1),
         NEW alg \in Algorithms, NEW key \in Keys
  PROVE  [code |-> CodeOf[alg], len |-> MacLen[alg], val |-> Hmac(alg, key, MacInput(d, n, alg))]
           \in [code : Codes, len : Nat, val : Octets \cup Macs]
<1> DEFINE q == SubSeq(d.attrs, 1, n - 1)
           r == OffOf(d.attrs, n) + 4 + MacLen[alg] - HeaderLen
           Body == [code : Codes, len : Nat, val : Octets]
<1>1. r \in Nat
  <2>1. OffOf(d.attrs, n) \in Nat /\ OffOf(d.attrs, n) >= 20
    BY AllMeasured, OffIs
  <2>2. MacLen[alg] \in Nat
    BY TagIs
  <2> QED
    BY <2>1, <2>2 DEF HeaderLen
<1>2. q \in Seq(Body)
  <2>1. n - 1 \in 0 .. Len(d.attrs)
    OBVIOUS
  <2>2. q \in Seq(Attribute) /\ Len(q) = n - 1 /\ \A i \in 1 .. n - 1 : q[i] = d.attrs[i]
    BY <2>1, FrontIs
  <2>3. \A i \in 1 .. n - 1 : q[i] \in Body
    BY <2>2, GivenAttributes DEF Own
  <2> HIDE DEF q, Body
  <2> QED
    BY <2>2, <2>3
<1>3. MacInput(d, n, alg) = [rec |-> r, attrs |-> q]
  BY DEF MacInput
<1> HIDE DEF q, r
<1>4. Hmac(alg, key, MacInput(d, n, alg)) \in Macs
  BY <1>1, <1>2, <1>3 DEF Hmac, Macs
<1> QED
  BY <1>4, TagIs

\* What stands in front of a tag or behind it changes neither: they are over the
\* attributes in front of their own.
LEMMA TagStays ==
  ASSUME NEW q \in Seq(Attribute), NEW a \in Attribute, NEW d, NEW e,
         d.attrs = q, e.attrs = Append(q, a), NEW n \in 1 .. Len(q)
  PROVE  /\ e.attrs[n] = d.attrs[n]
         /\ \A alg : MacInput(e, n, alg) = MacInput(d, n, alg)
<1> DEFINE t == Append(q, a)
<1>1. t \in Seq(Attribute) /\ Len(t) = Len(q) + 1 /\ \A i \in 1 .. Len(q) : t[i] = q[i]
  BY AppendIs
<1> HIDE DEF t
<1>2. OffOf(q, n) = OffOf(t, n)
  <2>1. SameLengths(q, t, n - 1)
    BY <1>1 DEF SameLengths
  <2>2. n \in 1 .. Len(q) + 1 /\ n <= Len(t) + 1
    BY <1>1
  <2> QED
    BY <1>1, <2>1, <2>2, OffSame
<1>3. SubSeq(q, 1, n - 1) = SubSeq(t, 1, n - 1)
  <2>1. n - 1 \in 0 .. Len(q) /\ n - 1 \in 0 .. Len(t)
    BY <1>1
  <2>2. /\ SubSeq(q, 1, n - 1) \in Seq(Attribute) /\ Len(SubSeq(q, 1, n - 1)) = n - 1
        /\ \A i \in 1 .. n - 1 : SubSeq(q, 1, n - 1)[i] = q[i]
    BY <2>1, FrontIs
  <2>3. /\ SubSeq(t, 1, n - 1) \in Seq(Attribute) /\ Len(SubSeq(t, 1, n - 1)) = n - 1
        /\ \A i \in 1 .. n - 1 : SubSeq(t, 1, n - 1)[i] = t[i]
    BY <1>1, <2>1, FrontIs
  <2>4. \A i \in 1 .. n - 1 : SubSeq(q, 1, n - 1)[i] = SubSeq(t, 1, n - 1)[i]
    BY <1>1, <2>2, <2>3
  <2> QED
    BY <2>2, <2>3, <2>4, SameEntries
<1>4. d.attrs = q /\ e.attrs = t
  BY DEF t
<1> QED
  BY <1>1, <1>2, <1>3, <1>4 DEF MacInput

\* One more attribute in front of no trailer, and one behind what is protected.
LEMMA OneMore ==
  ASSUME NEW q \in Seq(Attribute), NEW a \in Attribute, NEW d, NEW e,
         d.attrs = q, e.attrs = Append(q, a)
  PROVE  /\ Own(d, Len(q)) => Own(e, Len(q))
         /\ Own(d, Len(q)) /\ a \in Bodies => Own(e, Len(q) + 1)
         /\ Protected(d, Len(q)) => Protected(e, Len(q))
<1>1. \A i \in 1 .. Len(q) : e.attrs[i] = d.attrs[i]
  BY TagStays
<1>2. e.attrs[Len(q) + 1] = a /\ Len(q) \in Nat
  BY AppendIs
<1>3. Own(d, Len(q)) => Own(e, Len(q))
  BY <1>1 DEF Own
<1>4. Own(d, Len(q)) /\ a \in Bodies => Own(e, Len(q) + 1)
  <2>1. \A i \in 1 .. Len(q) + 1 : i \in 1 .. Len(q) \/ i = Len(q) + 1
    BY <1>2
  <2> QED
    BY <1>1, <1>2, <2>1 DEF Own
<1>5. ASSUME Len(q) # 0, Own(d, Len(q) - 1), IsTag(d, Len(q))
      PROVE  Own(e, Len(q) - 1) /\ IsTag(e, Len(q))
  <2>1. Len(q) \in 1 .. Len(q) /\ \A i \in 1 .. Len(q) - 1 : i \in 1 .. Len(q)
    BY <1>2, <1>5
  <2>2. Own(e, Len(q) - 1)
    BY <1>1, <1>5, <2>1 DEF Own
  <2> DEFINE m == Len(q)
  <2>3. /\ e.attrs[m] = d.attrs[m]
        /\ \A alg : MacInput(e, m, alg) = MacInput(d, m, alg)
    <3>1. m \in 1 .. Len(q)
      BY <2>1
    <3> HIDE DEF m
    <3> QED
      BY <3>1, TagStays
  <2> QED
    BY <1>5, <2>2, <2>3 DEF IsTag
<1> QED
  BY <1>3, <1>4, <1>5 DEF Protected

\* The attributes of a protected message are attributes of octets and HMACs.
LEMMA PrintType ==
  ASSUME NEW d, d.attrs \in Seq(Attribute), NEW n \in 1 .. Len(d.attrs) + 1, Protected(d, n - 1),
         d.rec \in Nat
  PROVE  [code |-> "fingerprint", len |-> 4, val |-> CrcInput(d, n)] \in Attribute
<1> DEFINE q == SubSeq(d.attrs, 1, n - 1)
           Body == [code : Codes, len : Nat, val : Octets]
           More == [code : Codes, len : Nat, val : Octets \cup Macs]
<1>1. Body \subseteq More
  OBVIOUS
<1>2. \A j \in 1 .. n - 1 : d.attrs[j] \in More
  <2>1. CASE Own(d, n - 1)
    BY <1>1, <2>1, GivenAttributes DEF Own
  <2>2. CASE n - 1 # 0 /\ Own(d, n - 1 - 1) /\ IsTag(d, n - 1)
    <3> DEFINE m == n - 1
    <3>1. m \in 1 .. Len(d.attrs) + 1 /\ Own(d, m - 1) /\ IsTag(d, m)
      BY <2>2
    <3>2. \A j \in 1 .. m : j \in 1 .. m - 1 \/ j = m
      BY <3>1
    <3> HIDE DEF m
    <3>3. d.attrs[m] \in More
      BY <3>1, TagType DEF IsTag
    <3>4. \A j \in 1 .. m - 1 : d.attrs[j] \in More
      BY <1>1, <3>1, GivenAttributes DEF Own
    <3>5. \A j \in 1 .. m : d.attrs[j] \in More
      BY <3>2, <3>3, <3>4
    <3> QED
      BY <3>5 DEF m
  <2> QED
    BY <2>1, <2>2 DEF Protected
<1>3. q \in Seq(More)
  <2>1. n - 1 \in 0 .. Len(d.attrs)
    OBVIOUS
  <2>2. q \in Seq(Attribute) /\ Len(q) = n - 1 /\ \A i \in 1 .. n - 1 : q[i] = d.attrs[i]
    BY <2>1, FrontIs
  <2>3. \A i \in 1 .. n - 1 : q[i] \in More
    BY <1>2, <2>2
  <2> HIDE DEF q, More
  <2> QED
    BY <2>2, <2>3
<1>4. CrcInput(d, n) = [rec |-> d.rec, attrs |-> q]
  BY DEF CrcInput
<1> HIDE DEF q
<1>5. CrcInput(d, n) \in Crcs
  BY <1>3, <1>4 DEF Crcs
<1>6. "fingerprint" \in Codes
  BY DEF Codes, ValueLengths
<1> QED
  BY <1>5, <1>6 DEF Attribute

\* What set_length made of the attributes fits its field if it was checked.
LEMMA LengthFits ==
  ASSUME NEW q \in Seq(Attribute), SetLength(WithLength(q))
  PROVE  WithLength(q).rec \in 0 .. MaxLength
<1> DEFINE d == WithLength(q)
<1>1. d.size = EndOf(q) /\ d.rec = EndOf(q) - 20 /\ EndOf(q) \in Nat /\ EndOf(q) >= 20
  BY WithLengthIs
<1>2. d.size - 20 <= MaxLength
  BY DEF SetLength, HeaderLen
<1> HIDE DEF d
<1> QED
  BY <1>1, <1>2, CodecAssumption DEF d

\* integrity::compute and the length before it: one tag more, over all so far.
LEMMA TagAdded ==
  ASSUME OutInv, NEW alg \in Algorithms, NEW key \in Keys, stage = "integrity",
         NEW d, d = Tagged(WithTrailer(CodeOf[alg], MacLen[alg]), alg, key)
  PROVE  /\ d.attrs \in Seq(Attribute) /\ d = WithLength(d.attrs)
         /\ Protected(d, Len(d.attrs))
<1> DEFINE q == out.attrs
           n == Len(q) + 1
           code == CodeOf[alg]
           len == MacLen[alg]
           zero == [octets |-> "zero"]
           blank == [code |-> code, len |-> len, val |-> zero]
           b == WithLength(Append(q, blank))
           v == Hmac(alg, key, MacInput(b, n, alg))
           full == [code |-> code, len |-> len, val |-> v]
           e == WithLength(Append(q, full))
<1>1. q \in Seq(Attribute) /\ Own(out, Len(q)) /\ n \in Nat /\ n - 1 = Len(q) /\ n # 0
  BY DEF OutInv
<1>2. code \in Codes /\ len \in Nat
  BY TagIs
<1>3. blank \in Attribute
  BY <1>2 DEF Attribute, Octets
<1>4. b.attrs = Append(q, blank) /\ b = WithTrailer(code, len)
  BY DEF WithLength, WithTrailer
<1>5. Append(q, blank) \in Seq(Attribute) /\ Len(Append(q, blank)) = n
  BY <1>1, <1>3, AppendIs
<1>6. Own(b, n - 1)
  BY <1>1, <1>3, <1>4, OneMore
<1>7. full \in Attribute
  <2>1. n \in 1 .. n + 1
    BY <1>1
  <2>2. b.attrs \in Seq(Attribute) /\ n \in 1 .. Len(b.attrs) + 1
    BY <1>4, <1>5, <2>1
  <2> HIDE DEF b, n
  <2>3. full \in [code : Codes, len : Nat, val : Octets \cup Macs]
    BY <1>6, <2>2, TagType
  <2> HIDE DEF full
  <2> QED
    BY <2>3 DEF Attribute
<1> HIDE DEF v, code, len
<1>8. /\ Len(b.attrs) = n
      /\ [b EXCEPT !.attrs[n].val = v] = e
      /\ \A al : MacInput(b, n, al) = MacInput(e, n, al)
  <2>1. Sealed(q, code, len, v)
    BY <1>1, <1>2, <1>7, SealIs
  <2> QED
    BY <2>1 DEF Sealed
<1>9. d = e
  <2>1. d = [b EXCEPT !.attrs[n].val = Hmac(alg, key, MacInput(b, n, alg))]
    BY <1>4, <1>8 DEF Tagged, code, len
  <2> QED
    BY <1>8, <2>1 DEF v
<1>10. /\ Append(q, full) \in Seq(Attribute) /\ Len(Append(q, full)) = n
       /\ Append(q, full)[n] = full /\ e.attrs = Append(q, full)
  <2>1. e.attrs = Append(q, full)
    BY DEF WithLength
  <2> HIDE DEF full, e
  <2> QED
    BY <1>1, <1>7, <2>1, AppendIs
<1>11. Own(e, n - 1)
  <2> HIDE DEF full, e
  <2> QED
    BY <1>1, <1>7, <1>10, OneMore
<1>12. e.attrs[n] = [code |-> CodeOf[alg], len |-> MacLen[alg], val |-> Hmac(alg, key, MacInput(e, n, alg))]
  <2>1. v = Hmac(alg, key, MacInput(e, n, alg))
    BY <1>8 DEF v
  <2>2. e.attrs[n] = [code |-> code, len |-> len, val |-> v]
    BY <1>10
  <2> QED
    BY <2>1, <2>2 DEF code, len
<1> HIDE DEF e, n
<1>13. IsTag(e, n)
  BY <1>12 DEF IsTag
<1> QED
  BY <1>1, <1>9, <1>10, <1>11, <1>13 DEF Protected, e

\* fingerprint::compute and the length before it: a CRC over all so far.
LEMMA PrintAdded ==
  ASSUME OutInv, stage = "fingerprint", NEW d, d = Fingerprinted(WithTrailer("fingerprint", 4))
  PROVE  /\ d.attrs \in Seq(Attribute) /\ d = WithLength(d.attrs)
         /\ Complete(d, Len(d.attrs))
<1> DEFINE q == out.attrs
           n == Len(q) + 1
           code == "fingerprint"
           zero == [octets |-> "zero"]
           blank == [code |-> code, len |-> 4, val |-> zero]
           b == WithLength(Append(q, blank))
           v == CrcInput(b, n)
           full == [code |-> code, len |-> 4, val |-> v]
           e == WithLength(Append(q, full))
<1>1. q \in Seq(Attribute) /\ Protected(out, Len(q)) /\ n \in Nat /\ n - 1 = Len(q) /\ n # 0
  BY DEF OutInv
<1>2. code \in Codes
  BY DEF Codes, ValueLengths
<1>3. blank \in Attribute
  BY <1>2 DEF Attribute, Octets
<1>4. b.attrs = Append(q, blank) /\ b = WithTrailer(code, 4)
  BY DEF WithLength, WithTrailer
<1>5. Append(q, blank) \in Seq(Attribute) /\ Len(Append(q, blank)) = n
  BY <1>1, <1>3, AppendIs
<1>6. Protected(b, n - 1)
  BY <1>1, <1>3, <1>4, OneMore
<1>7. full \in Attribute
  <2>1. n \in 1 .. n + 1
    BY <1>1
  <2>2. b.attrs \in Seq(Attribute) /\ n \in 1 .. Len(b.attrs) + 1
    BY <1>4, <1>5, <2>1
  <2>3. b.rec \in Nat
    BY <1>5, WithLengthIs DEF Datagram
  <2> HIDE DEF b, n
  <2> QED
    BY <1>6, <2>2, <2>3, PrintType
<1> HIDE DEF v
<1>8. /\ Len(b.attrs) = n
      /\ [b EXCEPT !.attrs[n].val = v] = e
      /\ CrcInput(b, n) = CrcInput(e, n)
  <2>1. 4 \in Nat
    OBVIOUS
  <2>2. Sealed(q, code, 4, v)
    <3> HIDE DEF code, b, e, n
    <3> QED
      BY <1>1, <1>2, <1>7, <2>1, SealIs
  <2> QED
    BY <2>2 DEF Sealed
<1>9. d = e
  <2>1. d = [b EXCEPT !.attrs[n].val = CrcInput(b, n)]
    BY <1>4, <1>8 DEF Fingerprinted
  <2> QED
    BY <1>8, <2>1 DEF v
<1>10. /\ Append(q, full) \in Seq(Attribute) /\ Len(Append(q, full)) = n
       /\ Append(q, full)[n] = full /\ e.attrs = Append(q, full)
  <2>1. e.attrs = Append(q, full)
    BY DEF WithLength
  <2> HIDE DEF full, e
  <2> QED
    BY <1>1, <1>7, <2>1, AppendIs
<1>11. Protected(e, n - 1)
  <2> HIDE DEF full, e
  <2> QED
    BY <1>1, <1>7, <1>10, OneMore
<1>12. IsPrint(e, n)
  <2>1. v = CrcInput(e, n)
    BY <1>8 DEF v
  <2>2. e.attrs[n] = [code |-> "fingerprint", len |-> 4, val |-> v]
    BY <1>10
  <2> QED
    BY <2>1, <2>2 DEF IsPrint
<1> HIDE DEF e, n
<1> QED
  BY <1>1, <1>9, <1>10, <1>11, <1>12 DEF Complete, e

\* build_response starts with a header and nothing else.
LEMMA CodecInit == Init => CodecInv
<1> SUFFICES ASSUME Init PROVE CodecInv
  OBVIOUS
<1> DEFINE d == WithLength(<<>>)
<1>1. <<>> \in Seq(Attribute) /\ Len(<<>>) = 0
  OBVIOUS
<1>2. d \in Datagram /\ d.attrs = <<>>
  BY <1>1, WithLengthIs
<1> HIDE DEF d
<1>3. out = d /\ seen = d /\ stage = "body" /\ changes = 0 /\ d = WithLength(<<>>)
  BY DEF Init, d
<1>4. Own(out, Len(out.attrs)) /\ Traced(seen.attrs, out.attrs)
  BY <1>1, <1>2, <1>3 DEF Own, Traced
<1>5. 0 \in 0 .. MaxChanges
  BY CodecAssumption
<1>6. OutInv
  BY <1>1, <1>2, <1>3, <1>4 DEF OutInv
<1>7. SeenInv
  BY <1>2, <1>3, <1>4, <1>5 DEF SeenInv
<1> QED
  BY <1>6, <1>7 DEF CodecInv

\* What a step of build_response leaves, if it does not give up.
LEMMA Became ==
  ASSUME OutInv, NEW d, d.attrs \in Seq(Attribute), d = WithLength(d.attrs),
         NEW next \in {"integrity", "fingerprint", "built"}, Become(d, next)
  PROVE  \/ out' = d /\ stage' = next /\ d.rec \in 0 .. MaxLength
         \/ out' = out /\ stage' = "refused"
<1>1. SetLength(d) => d.rec \in 0 .. MaxLength
  BY LengthFits
<1> QED
  BY <1>1 DEF Become

\* Every step keeps what build_response has put in as it must be.
LEMMA OutNext == OutInv /\ [Next]_vars => OutInv'
<1> SUFFICES ASSUME OutInv, [Next]_vars PROVE OutInv'
  OBVIOUS
<1> DEFINE q == out.attrs
<1>1. q \in Seq(Attribute) /\ out = WithLength(q)
  BY DEF OutInv
<1>2. CASE UNCHANGED <<out, stage>>
  BY <1>2 DEF OutInv
<1>3. ASSUME NEW a \in Bodies, EmitAttribute(a)
      PROVE  OutInv'
  <2> DEFINE e == WithLength(Append(q, a))
  <2>1. a \in Attribute
    BY GivenAttributes
  <2>2. Append(q, a) \in Seq(Attribute) /\ Len(Append(q, a)) = Len(q) + 1 /\ e.attrs = Append(q, a)
    BY <1>1, <2>1, AppendIs DEF WithLength
  <2>3. out' = e /\ stage' = "body" /\ stage = "body"
    BY <1>3 DEF EmitAttribute
  <2>4. Own(out, Len(q))
    BY <2>3 DEF OutInv
  <2>5. e = WithLength(e.attrs)
    BY <2>2
  <2> HIDE DEF e
  <2>6. Own(e, Len(e.attrs))
    <3>1. Own(e, Len(q) + 1)
      BY <1>1, <2>1, <2>2, <2>4, OneMore
    <3> QED
      BY <2>2, <3>1
  <2>7. Own(out, Len(out.attrs))'
    BY <2>3, <2>6
  <2>8. (out.attrs \in Seq(Attribute) /\ out = WithLength(out.attrs))'
    BY <2>2, <2>3, <2>5
  <2> QED
    BY <2>3, <2>7, <2>8 DEF OutInv
<1>4. CASE BodyDone
  <2>1. stage = "body" /\ Become(out, "integrity") /\ Own(out, Len(q))
    BY <1>4 DEF BodyDone, OutInv
  <2>2. \/ out' = out /\ stage' = "integrity" /\ out.rec \in 0 .. MaxLength
        \/ out' = out /\ stage' = "refused"
    BY <1>1, <2>1, Became
  <2>3. (out.attrs \in Seq(Attribute) /\ out = WithLength(out.attrs))'
    BY <1>1, <2>2
  <2>4. Own(out, Len(out.attrs))'
    BY <2>1, <2>2
  <2> QED
    BY <2>2, <2>3, <2>4 DEF OutInv
<1>5. ASSUME NEW alg \in Algorithms, NEW key \in Keys, AddIntegrity(alg, key)
      PROVE  OutInv'
  <2> DEFINE d == Tagged(WithTrailer(CodeOf[alg], MacLen[alg]), alg, key)
  <2>1. stage = "integrity" /\ Become(d, "fingerprint")
    BY <1>5 DEF AddIntegrity
  <2> HIDE DEF d
  <2>2. d.attrs \in Seq(Attribute) /\ d = WithLength(d.attrs) /\ Protected(d, Len(d.attrs))
    BY <2>1, TagAdded DEF d
  <2>3. \/ out' = d /\ stage' = "fingerprint" /\ d.rec \in 0 .. MaxLength
        \/ out' = out /\ stage' = "refused"
    BY <2>1, <2>2, Became
  <2>4. CASE out' = d /\ stage' = "fingerprint" /\ d.rec \in 0 .. MaxLength
    <3>1. (out.attrs \in Seq(Attribute) /\ out = WithLength(out.attrs))'
      BY <2>2, <2>4
    <3>2. Protected(out, Len(out.attrs))'
      BY <2>2, <2>4
    <3> QED
      BY <2>4, <3>1, <3>2 DEF OutInv
  <2>5. CASE out' = out /\ stage' = "refused"
    <3>1. (out.attrs \in Seq(Attribute) /\ out = WithLength(out.attrs))'
      BY <1>1, <2>5
    <3> QED
      BY <2>5, <3>1 DEF OutInv
  <2> QED
    BY <2>3, <2>4, <2>5
<1>6. CASE AddFingerprint
  <2> DEFINE d == Fingerprinted(WithTrailer("fingerprint", 4))
  <2>1. stage = "fingerprint" /\ Become(d, "built")
    BY <1>6 DEF AddFingerprint
  <2> HIDE DEF d
  <2>2. d.attrs \in Seq(Attribute) /\ d = WithLength(d.attrs) /\ Complete(d, Len(d.attrs))
    BY <2>1, PrintAdded DEF d
  <2>3. \/ out' = d /\ stage' = "built" /\ d.rec \in 0 .. MaxLength
        \/ out' = out /\ stage' = "refused"
    BY <2>1, <2>2, Became
  <2>4. CASE out' = d /\ stage' = "built" /\ d.rec \in 0 .. MaxLength
    <3>1. (out.attrs \in Seq(Attribute) /\ out = WithLength(out.attrs))'
      BY <2>2, <2>4
    <3>2. Complete(out, Len(out.attrs))'
      BY <2>2, <2>4
    <3> QED
      BY <2>4, <3>1, <3>2 DEF OutInv
  <2>5. CASE out' = out /\ stage' = "refused"
    <3>1. (out.attrs \in Seq(Attribute) /\ out = WithLength(out.attrs))'
      BY <1>1, <2>5
    <3> QED
      BY <2>5, <3>1 DEF OutInv
  <2> QED
    BY <2>3, <2>4, <2>5
<1>7. ASSUME out' = out,
             \/ stage = "integrity" /\ stage' = "fingerprint"
             \/ stage = "fingerprint" /\ stage' = "built"
             \/ stage = "built" /\ stage' = "sent"
      PROVE  OutInv'
  <2>1. /\ Own(out, Len(q)) => Protected(out, Len(q))
        /\ Protected(out, Len(q)) => Complete(out, Len(q))
    BY DEF Protected, Complete
  <2>2. /\ stage' = "fingerprint" => Protected(out, Len(q))
        /\ stage' \in {"built", "sent"} => Complete(out, Len(q))
        /\ out.rec \in 0 .. MaxLength
    BY <1>7, <2>1 DEF OutInv
  <2>3. (out.attrs \in Seq(Attribute) /\ out = WithLength(out.attrs))'
    BY <1>1, <1>7
  <2>4. (stage = "fingerprint" => Protected(out, Len(out.attrs)))'
    BY <1>7, <2>2
  <2>5. (stage \in {"built", "sent"} => Complete(out, Len(out.attrs)))'
    BY <1>7, <2>2
  <2>6. stage' \in {"fingerprint", "built", "sent"}
    BY <1>7
  <2> QED
    BY <1>7, <2>2, <2>3, <2>4, <2>5, <2>6 DEF OutInv
<1>8. CASE NoIntegrity \/ NoFingerprint \/ Send
  BY <1>7, <1>8 DEF NoIntegrity, NoFingerprint, Send
<1>9. CASE Change
  BY <1>2, <1>9 DEF Change
<1>10. CASE UNCHANGED vars
  BY <1>2, <1>10 DEF vars
<1> QED
  BY <1>3, <1>4, <1>5, <1>6, <1>8, <1>9, <1>10 DEF Next

--------------------------------------------------------------------------------
(* What the network can do.                                                  *)

\* Two sequences put together, by their entries.
LEMMA JoinIs ==
  ASSUME NEW T, NEW a \in Seq(T), NEW b \in Seq(T)
  PROVE  /\ a \o b \in Seq(T)
         /\ \A i \in 1 .. Len(a \o b) :
              (\E j \in 1 .. Len(a) : (a \o b)[i] = a[j]) \/ (\E j \in 1 .. Len(b) : (a \o b)[i] = b[j])
<1>1. a \o b \in Seq(T) /\ Len(a \o b) = Len(a) + Len(b) /\ Len(a) \in Nat /\ Len(b) \in Nat
  OBVIOUS
<1>2. ASSUME NEW i \in 1 .. Len(a \o b)
      PROVE  (\E j \in 1 .. Len(a) : (a \o b)[i] = a[j]) \/ (\E j \in 1 .. Len(b) : (a \o b)[i] = b[j])
  <2>1. CASE i <= Len(a)
    <3>1. i \in 1 .. Len(a) /\ (a \o b)[i] = a[i]
      BY <1>1, <2>1
    <3> QED
      BY <3>1
  <2>2. CASE i > Len(a)
    <3>1. i - Len(a) \in 1 .. Len(b) /\ (a \o b)[i] = b[i - Len(a)]
      BY <1>1, <2>2
    <3> QED
      BY <3>1
  <2> QED
    BY <1>1, <2>1, <2>2
<1> QED
  BY <1>1, <1>2

\* All entries of some are those of others, or octets the network made up.
Among(some, all) ==
  \A i \in 1 .. Len(some) : some[i].val \in Octets \/ \E j \in 1 .. Len(all) : some[i] = all[j]

\* What holds of a sequence and of another holds of both put together.
LEMMA JoinAmong ==
  ASSUME NEW a \in Seq(Attribute), NEW b \in Seq(Attribute), NEW all, Among(a, all), Among(b, all)
  PROVE  a \o b \in Seq(Attribute) /\ Among(a \o b, all)
BY JoinIs DEF Among

\* A part of a sequence.
LEMMA PartAmong ==
  ASSUME NEW s \in Seq(Attribute), NEW m \in 1 .. Len(s) + 1, NEW n \in 0 .. Len(s)
  PROVE  SubSeq(s, m, n) \in Seq(Attribute) /\ Among(SubSeq(s, m, n), s)
<1> DEFINE t == SubSeq(s, m, n)
<1>1. t \in Seq(Attribute)
  OBVIOUS
<1>2. ASSUME NEW i \in 1 .. Len(t)
      PROVE  \E j \in 1 .. Len(s) : t[i] = s[j]
  <2>1. m + i - 1 \in 1 .. Len(s) /\ t[i] = s[m + i - 1]
    OBVIOUS
  <2> QED
    BY <2>1
<1> QED
  BY <1>1, <1>2 DEF Among

\* Other attributes are attributes, and no tag among them is new.
LEMMA RearrangedIs ==
  ASSUME NEW attrs \in Seq(Attribute), NEW more \in Rearranged(attrs)
  PROVE  more \in Seq(Attribute) /\ Among(more, attrs)
<1> DEFINE n == Len(attrs)
           made == [octets |-> "other"]
<1>1. n \in Nat /\ \A i \in 1 .. n : attrs[i] \in Attribute
  OBVIOUS
<1>2. made \in Octets
  BY DEF Octets
<1>3. ASSUME NEW i \in 1 .. n, more = RemoveAt(attrs, i)
      PROVE  more \in Seq(Attribute) /\ Among(more, attrs)
  <2>1. 1 \in 1 .. n + 1 /\ i - 1 \in 0 .. n /\ i + 1 \in 1 .. n + 1 /\ n \in 0 .. n
    BY <1>1
  <2> QED
    BY <1>3, <2>1, PartAmong, JoinAmong DEF RemoveAt
<1>4. ASSUME NEW i \in 1 .. n + 1, NEW a \in Stray, more = InsertAt(attrs, i, a)
      PROVE  more \in Seq(Attribute) /\ Among(more, attrs)
  <2>1. 1 \in 1 .. n + 1 /\ i - 1 \in 0 .. n /\ n \in 0 .. n
    BY <1>1
  <2>2. a \in Attribute /\ a.val \in Octets
    BY GivenAttributes
  <2>3. <<a>> \in Seq(Attribute) /\ Among(<<a>>, attrs)
    BY <2>2 DEF Among
  <2> DEFINE x == SubSeq(attrs, 1, i - 1)
             y == SubSeq(attrs, i, n)
  <2>4. x \in Seq(Attribute) /\ Among(x, attrs) /\ y \in Seq(Attribute) /\ Among(y, attrs)
    BY <2>1, PartAmong
  <2>5. more = x \o <<a>> \o y
    BY <1>4 DEF InsertAt
  <2> HIDE DEF x, y
  <2>6. x \o <<a>> \in Seq(Attribute) /\ Among(x \o <<a>>, attrs)
    BY <2>3, <2>4, JoinAmong
  <2> QED
    BY <2>4, <2>5, <2>6, JoinAmong
<1>5. ASSUME NEW i \in 1 .. n, more = [attrs EXCEPT ![i].val = made]
      PROVE  more \in Seq(Attribute) /\ Among(more, attrs)
  <2> DEFINE a == [attrs[i] EXCEPT !.val = made]
  <2>1. a \in Attribute /\ a.val = made
    BY <1>1, <1>2 DEF Attribute
  <2>2. more = [attrs EXCEPT ![i] = a]
    BY <1>5
  <2> HIDE DEF a
  <2>3. /\ more \in Seq(Attribute) /\ Len(more) = n
        /\ \A k \in 1 .. n : more[k] = IF k = i THEN a ELSE attrs[k]
    BY <2>1, <2>2
  <2> QED
    BY <1>2, <2>1, <2>3 DEF Among
<1>6. ASSUME NEW i \in 1 .. n - 1, more = [attrs EXCEPT ![i] = attrs[i + 1], ![i + 1] = attrs[i]]
      PROVE  more \in Seq(Attribute) /\ Among(more, attrs)
  <2>1. i \in 1 .. n /\ i + 1 \in 1 .. n /\ i + 1 # i
    BY <1>1
  <2>2. /\ more \in Seq(Attribute) /\ Len(more) = n
        /\ \A k \in 1 .. n : more[k] = IF k = i + 1 THEN attrs[i]
                                       ELSE IF k = i THEN attrs[i + 1] ELSE attrs[k]
    BY <1>1, <1>6, <2>1
  <2> QED
    BY <2>1, <2>2 DEF Among
<1>7. \/ \E i \in 1 .. n : more = RemoveAt(attrs, i)
      \/ \E i \in 1 .. n + 1, a \in Stray : more = InsertAt(attrs, i, a)
      \/ \E i \in 1 .. n : more = [attrs EXCEPT ![i].val = made]
      \/ \E i \in 1 .. n - 1 : more = [attrs EXCEPT ![i] = attrs[i + 1], ![i + 1] = attrs[i]]
  BY DEF Rearranged
<1> HIDE DEF n, made
<1> QED
  BY <1>3, <1>4, <1>5, <1>6, <1>7

\* The first octets of a datagram hold some of its attributes.
LEMMA CutToIs ==
  ASSUME NEW d \in Datagram, NEW s \in HeaderLen .. d.size - 1
  PROVE  CutTo(d, s) \in Datagram /\ Among(CutTo(d, s).attrs, d.attrs)
<1> DEFINE I == {i \in DOMAIN d.attrs : OffOf(d.attrs, i) + 4 <= s}
           k == Cardinality(I)
           t == SubSeq(d.attrs, 1, k)
<1>1. d.attrs \in Seq(Attribute) /\ d.size \in Nat /\ d.rec \in Nat
  BY DEF Datagram
<1>2. k \in 0 .. Len(d.attrs)
  <2>1. I \in SUBSET (1 .. Len(d.attrs)) /\ Len(d.attrs) \in Nat
    BY <1>1
  <2> HIDE DEF I
  <2> QED
    BY <2>1, RankInjection
<1> HIDE DEF k
<1>3. t \in Seq(Attribute) /\ Among(t, d.attrs)
  <2>1. 1 \in 1 .. Len(d.attrs) + 1
    BY <1>1
  <2> QED
    BY <1>1, <1>2, <2>1, PartAmong
<1>4. CutTo(d, s) = [d EXCEPT !.size = s, !.attrs = t]
  BY DEF CutTo, k
<1>5. s \in Nat /\ s >= 20
  BY <1>1 DEF HeaderLen
<1> HIDE DEF t
<1>6. [d EXCEPT !.size = s, !.attrs = t] \in Datagram
      /\ [d EXCEPT !.size = s, !.attrs = t].attrs = t
  BY <1>3, <1>5 DEF Datagram
<1> QED
  BY <1>3, <1>4, <1>6

\* A change makes a datagram of attributes that were there, or of octets.
LEMMA ChangeIs ==
  ASSUME Change, seen \in Datagram
  PROVE  seen' \in Datagram /\ Among(seen'.attrs, seen.attrs)
<1> DEFINE D == {WithLength(attrs) : attrs \in Rearranged(seen.attrs)}
                \cup {CutTo(seen, s) : s \in HeaderLen .. seen.size - 1}
                \cup {[seen EXCEPT !.size = @ + n] : n \in 1 .. 3}
<1>1. PICK d \in D : \/ seen' = d
                     \/ seen' = [d EXCEPT !.rec = seen.rec]
                     \/ seen' = [d EXCEPT !.rec = d.size - HeaderLen]
  BY DEF Change
<1>2. seen.attrs \in Seq(Attribute) /\ seen.rec \in Nat
  BY DEF Datagram
<1>3. d \in Datagram /\ Among(d.attrs, seen.attrs)
  <2>1. ASSUME NEW attrs \in Rearranged(seen.attrs), d = WithLength(attrs)
        PROVE  d \in Datagram /\ Among(d.attrs, seen.attrs)
    <3>1. attrs \in Seq(Attribute) /\ Among(attrs, seen.attrs)
      BY <1>2, RearrangedIs
    <3> QED
      BY <2>1, <3>1, WithLengthIs
  <2>2. ASSUME NEW s \in HeaderLen .. seen.size - 1, d = CutTo(seen, s)
        PROVE  d \in Datagram /\ Among(d.attrs, seen.attrs)
    BY <2>2, CutToIs
  <2>3. ASSUME NEW n \in 1 .. 3, d = [seen EXCEPT !.size = @ + n]
        PROVE  d \in Datagram /\ Among(d.attrs, seen.attrs)
    <3>1. d \in Datagram /\ d.attrs = seen.attrs
      BY <2>3 DEF Datagram
    <3> QED
      BY <3>1 DEF Among
  <2> QED
    BY <2>1, <2>2, <2>3
<1> HIDE DEF D
<1>4. d.size - HeaderLen \in Nat
  BY <1>3 DEF Datagram, HeaderLen
<1>5. ASSUME NEW r \in Nat, seen' = [d EXCEPT !.rec = r]
      PROVE  seen' \in Datagram /\ seen'.attrs = d.attrs
  BY <1>3, <1>5 DEF Datagram
<1> QED
  BY <1>1, <1>2, <1>3, <1>4, <1>5

\* What is there after some changes was sent, or holds octets.
LEMMA StaysTraced ==
  ASSUME NEW some, NEW all, NEW sent, Among(some, all), Traced(all, sent)
  PROVE  Traced(some, sent)
BY DEF Among, Traced, Sent

\* Every step keeps what the network has to what was sent and octets of its own.
LEMMA SeenNext == OutInv /\ SeenInv /\ [Next]_vars => SeenInv'
<1> SUFFICES ASSUME OutInv, SeenInv, [Next]_vars PROVE SeenInv'
  OBVIOUS
<1>1. CASE UNCHANGED <<seen, changes>> /\ stage # "sent" /\ stage' # "sent"
  <2>1. seen.attrs = <<>>
    BY <1>1 DEF SeenInv
  <2>2. Traced(seen.attrs, out.attrs)'
    BY <1>1, <2>1 DEF Traced
  <2> QED
    BY <1>1, <2>1, <2>2 DEF SeenInv
<1>2. CASE \/ \E a \in Bodies : EmitAttribute(a)
           \/ BodyDone
           \/ \E alg \in Algorithms, key \in Keys : AddIntegrity(alg, key)
           \/ NoIntegrity \/ AddFingerprint \/ NoFingerprint
  BY <1>1, <1>2 DEF EmitAttribute, BodyDone, AddIntegrity, NoIntegrity, AddFingerprint,
                    NoFingerprint, Become
<1>3. CASE Send
  <2>1. seen' = out /\ out' = out /\ changes' = changes /\ stage' = "sent"
    BY <1>3 DEF Send
  <2>2. out.attrs \in Seq(Attribute) /\ out = WithLength(out.attrs)
    BY DEF OutInv
  <2>3. seen' \in Datagram
    BY <2>1, <2>2, WithLengthIs
  <2>4. Traced(seen.attrs, out.attrs)'
    BY <2>1 DEF Traced, Sent
  <2> QED
    BY <2>1, <2>3, <2>4 DEF SeenInv
<1>4. CASE Change
  <2>1. seen \in Datagram /\ Traced(seen.attrs, out.attrs) /\ changes \in 0 .. MaxChanges
    BY DEF SeenInv
  <2>2. out' = out /\ stage' = "sent" /\ changes < MaxChanges /\ changes' = changes + 1
    BY <1>4 DEF Change
  <2>3. seen' \in Datagram /\ Among(seen'.attrs, seen.attrs)
    BY <1>4, <2>1, ChangeIs
  <2>4. Traced(seen'.attrs, out.attrs)
    BY <2>1, <2>3, StaysTraced
  <2>5. changes' \in 0 .. MaxChanges
    BY <2>1, <2>2, CodecAssumption
  <2> QED
    BY <2>2, <2>3, <2>4, <2>5 DEF SeenInv
<1>5. CASE UNCHANGED vars
  BY <1>5 DEF vars, SeenInv
<1> QED
  BY <1>2, <1>3, <1>4, <1>5 DEF Next

\* The codec keeps CodecInv: build_response puts trailers only where its order allows
\* and over what stands in front of them, and the network makes none.
LEMMA CodecKept == Spec => []CodecInv
<1>1. Init => CodecInv
  BY CodecInit
<1>2. CodecInv /\ [Next]_vars => CodecInv'
  BY OutNext, SeenNext DEF CodecInv
<1> QED
  BY <1>1, <1>2, PTL DEF Spec

\* What build_response returns has a length its field can hold, and the length is that of
\* the datagram; what the network makes of it stays a datagram.
THEOREM TypeCorrect == Spec => []TypeOK
<1>1. CodecInv => TypeOK
  <2> SUFFICES ASSUME CodecInv PROVE TypeOK
    OBVIOUS
  <2>1. seen \in Datagram /\ changes \in 0 .. MaxChanges
    BY DEF CodecInv, SeenInv
  <2>2. seen.attrs \in Seq(Attribute) /\ seen.rec \in Nat /\ seen.size \in Nat
    BY <2>1 DEF Datagram
  <2>3. \A i \in DOMAIN seen.attrs : seen.attrs[i] \in Attribute
    BY <2>2
  <2>4. \A a \in Range(seen.attrs) : a.code \in DOMAIN ValueLengths /\ a.len \in Nat
    BY <2>3 DEF Range, Attribute, Codes
  <2> QED
    BY <2>1, <2>2, <2>4 DEF TypeOK, CodecInv, OutInv
<1> QED
  BY <1>1, CodecKept, PTL

--------------------------------------------------------------------------------
(* Reading.                                                                  *)

\* A sequence that ends with its i-th attribute.
LEMMA LastOne ==
  ASSUME NEW attrs \in Seq(Attribute), NEW i \in 1 .. Len(attrs),
         OffOf(attrs, i) + AttrSize(attrs[i].len) = EndOf(attrs)
  PROVE  i = Len(attrs)
<1> SUFFICES ASSUME i # Len(attrs) PROVE FALSE
  OBVIOUS
<1> DEFINE l == Len(attrs)
           o(k) == OffOf(attrs, k)
           z(k) == AttrSize(attrs[k].len)
<1>1. l \in Nat /\ i \in 1 .. l /\ i # l
  OBVIOUS
<1>2. i + 1 \in 1 .. l /\ l \in 1 .. l /\ l + 1 \in (i + 1) + 1 .. l + 1
  BY <1>1
<1>3. o(i + 1) + z(i + 1) <= o(l + 1)
  BY <1>2, OffGrows
<1>4. /\ \A k \in 1 .. l + 1 : o(k) \in Nat
      /\ \A k \in 1 .. l : o(k + 1) = o(k) + z(k)
  BY AllMeasured, OffIs
<1>5. \A k \in 1 .. l : z(k) \in Nat /\ z(k) >= 4
  <2>1. \A k \in 1 .. l : attrs[k].len \in Nat
    BY AllMeasured DEF Measured
  <2>2. ASSUME NEW n \in Nat PROVE AttrSize(n) \in Nat /\ AttrSize(n) >= 4
    <3>1. AttrSize(n) \in Nat /\ AttrSize(n) >= 4 + n
      BY AttrSizeIs
    <3> QED
      BY <3>1
  <2> QED
    BY <2>1, <2>2
<1>6. o(i) + z(i) = o(l + 1)
  BY DEF EndOf
<1> HIDE DEF o, z, l
<1>7. o(i + 1) = o(l + 1)
  BY <1>1, <1>4, <1>6
<1>8. z(i + 1) >= 4 /\ z(i + 1) \in Nat
  BY <1>2, <1>5
<1>9. o(i + 1) \in Nat
  <2>1. i + 1 \in 1 .. l + 1
    BY <1>1
  <2> QED
    BY <1>4, <2>1
<1> QED
  BY <1>3, <1>7, <1>8, <1>9

\* The greatest and the least of some attributes are among them.
LEMMA LocatedIs ==
  ASSUME NEW d \in Datagram, NEW codes, Located(d, codes) # 0
  PROVE  /\ Located(d, codes) \in At(d, codes) /\ Located(d, codes) \in 1 .. Len(d.attrs)
<1>1. At(d, codes) # {} /\ Located(d, codes) = Max(At(d, codes))
  BY DEF Located
<1>2. At(d, codes) \in SUBSET (1 .. Len(d.attrs)) /\ Len(d.attrs) \in Nat
  BY DEF At, Datagram
<1>3. Max(At(d, codes)) \in At(d, codes)
  BY <1>1, <1>2, MaxIs
<1> QED
  BY <1>1, <1>2, <1>3

\* No attribute begins behind the end.
LEMMA OffWithin ==
  ASSUME NEW attrs \in Seq(Attribute), NEW i \in 1 .. Len(attrs)
  PROVE  OffOf(attrs, i) + AttrSize(attrs[i].len) <= EndOf(attrs)
         /\ OffOf(attrs, i + 1) <= EndOf(attrs)
<1>1. Len(attrs) + 1 \in i + 1 .. Len(attrs) + 1
  OBVIOUS
<1>2. OffOf(attrs, i) + AttrSize(attrs[i].len) <= EndOf(attrs)
  BY <1>1, OffGrows DEF EndOf
<1>3. OffOf(attrs, i + 1) = OffOf(attrs, i) + AttrSize(attrs[i].len)
  BY AllMeasured, OffIs
<1> QED
  BY <1>2, <1>3

\* A walk ends where parse says if there is one place only it could end at.
LEMMA WalkFinds ==
  ASSUME NEW d \in Datagram, EndOf(d.attrs) = d.size, d.rec + HeaderLen = d.size,
         NEW codes, \A i, j \in At(d, codes) : i = j
  PROVE  FirstOf(d, At(d, codes)) = Located(d, codes)
<1> DEFINE I == At(d, codes)
<1>1. I \in SUBSET (1 .. Len(d.attrs)) /\ Len(d.attrs) \in Nat /\ d.attrs \in Seq(Attribute)
  BY DEF At, Datagram
<1>2. CASE I = {}
  BY <1>2 DEF FirstOf, Located
<1>3. CASE I # {}
  <2>1. Min(I) \in I /\ Max(I) \in I
    BY <1>1, <1>3, MinIs, MaxIs
  <2>2. Min(I) = Max(I) /\ Min(I) \in 1 .. Len(d.attrs)
    BY <1>1, <2>1
  <2>3. OffOf(d.attrs, Min(I) + 1) <= d.size
    BY <1>1, <2>2, OffWithin
  <2>4. OffOf(d.attrs, Min(I) + 1) \in Nat /\ d.size \in Nat
    <3>1. Min(I) + 1 \in 1 .. Len(d.attrs) + 1
      BY <1>1, <2>2
    <3> QED
      BY <1>1, <3>1, AllMeasured, OffIs DEF Datagram
  <2>5. ~ (OffOf(d.attrs, Min(I) + 1) > d.size)
    BY <2>3, <2>4
  <2> QED
    BY <1>3, <2>2, <2>5 DEF FirstOf, Located
<1> QED
  BY <1>2, <1>3

\* parse takes one tag at most.
LEMMA OneTag ==
  ASSUME NEW d \in Datagram, Accepts(d)
  PROVE  \A i, j \in At(d, MacCode) : i = j
<1> DEFINE I == At(d, MacCode)
<1>1. I \in SUBSET (1 .. Len(d.attrs)) /\ Len(d.attrs) \in Nat
  BY DEF At, Datagram
<1>2. Cardinality(I) <= 1
  BY DEF Accepts
<1> HIDE DEF I
<1>3. IsFiniteSet(I) /\ Cardinality(I) \in Nat
  <2> DEFINE l == Len(d.attrs)
  <2>1. I \in SUBSET (1 .. l) /\ l \in Nat
    BY <1>1
  <2> HIDE DEF l
  <2>2. IsFiniteSet(I) /\ Cardinality(I) \in 0 .. l
    BY <2>1, RankInjection
  <2> QED
    BY <2>1, <2>2
<1>4. ASSUME NEW i \in I, NEW j \in I
      PROVE  i = j
  <2>1. Cardinality(I) # 0
    BY <1>3, FS_EmptySet
  <2>2. Cardinality(I) = 1
    BY <1>2, <1>3, <2>1
  <2>3. \E x : I = {x}
    BY <1>3, <2>2, FS_Singleton
  <2> QED
    BY <2>3
<1> QED
  BY <1>4 DEF I

\* And one fingerprint at most, the last attribute.
LEMMA OnePrint ==
  ASSUME NEW d \in Datagram, Accepts(d), NEW i \in At(d, {"fingerprint"})
  PROVE  i = Len(d.attrs) /\ i \in 1 .. Len(d.attrs) /\ d.attrs[i].len = 4
<1>1. d.attrs \in Seq(Attribute) /\ i \in 1 .. Len(d.attrs) /\ d.attrs[i].code = "fingerprint"
  BY DEF At, Datagram
<1>2. d.attrs[i].len = 4
  <2>1. i \in DOMAIN d.attrs
    BY <1>1
  <2>2. d.attrs[i].len \in ValueLengths[d.attrs[i].code]
    BY <2>1 DEF Accepts
  <2>3. d.attrs[i].len \in ValueLengths["fingerprint"]
    BY <1>1, <2>2
  <2>4. ValueLengths["fingerprint"] = {4}
    BY DEF ValueLengths
  <2> QED
    BY <2>3, <2>4
<1>3. OffOf(d.attrs, i) + 8 = EndOf(d.attrs)
  BY DEF Accepts
<1>4. OffOf(d.attrs, i) + AttrSize(d.attrs[i].len) = EndOf(d.attrs)
  BY <1>2, <1>3, AttrSizeIs
<1> QED
  BY <1>1, <1>2, <1>4, LastOne

\* The walks for trailers, meant for messages not yet parsed, end at the very attributes
\* parse reports: what is verified is what is used.
THEOREM WalksFindParsed == Spec => []WalksAgree
<1>1. CodecInv => WalksAgree
  <2> SUFFICES ASSUME CodecInv, Accepts(seen)
               PROVE  /\ FirstTag(seen) = Located(seen, MacCode)
                      /\ FirstFingerprint(seen) = Located(seen, {"fingerprint"})
    BY DEF WalksAgree
  <2>1. seen \in Datagram
    BY DEF CodecInv, SeenInv
  <2>2. EndOf(seen.attrs) = seen.size /\ seen.rec + HeaderLen = seen.size
    BY <2>1 DEF Accepts, Datagram, HeaderLen
  <2>3. FirstTag(seen) = Located(seen, MacCode)
    BY <2>1, <2>2, OneTag, WalkFinds DEF FirstTag
  <2>4. \A i, j \in At(seen, {"fingerprint"}) : i = j
    BY <2>1, OnePrint
  <2>5. {i \in At(seen, {"fingerprint"}) : seen.attrs[i].len = 4} = At(seen, {"fingerprint"})
    BY <2>1, OnePrint
  <2>6. FirstFingerprint(seen) = Located(seen, {"fingerprint"})
    BY <2>1, <2>2, <2>4, <2>5, WalkFinds DEF FirstFingerprint
  <2> QED
    BY <2>3, <2>6
<1> QED
  BY <1>1, CodecKept, PTL

--------------------------------------------------------------------------------
(* A whole message.                                                          *)

\* Each attribute is the sender's, the tag or the fingerprint; there is one place for a
\* tag, and the fingerprint's is the last.
Parts(d, k) ==
  \A j \in 1 .. Len(d.attrs) :
    \/ d.attrs[j] \in Bodies
    \/ j = k /\ IsTag(d, j)
    \/ j = Len(d.attrs) /\ IsPrint(d, j)

\* A message build_response completed is made of these parts.
LEMMA CompleteParts ==
  ASSUME NEW d, d.attrs \in Seq(Attribute), Complete(d, Len(d.attrs))
  PROVE  \E k \in Nat : Parts(d, k)
<1> DEFINE n == Len(d.attrs)
<1>1. n \in Nat
  OBVIOUS
<1> HIDE DEF n
<1>2. ASSUME NEW m \in Nat, m <= n, Protected(d, m)
      PROVE  \A j \in 1 .. m : d.attrs[j] \in Bodies \/ (j = m /\ IsTag(d, j))
  <2>1. CASE Own(d, m)
    BY <2>1 DEF Own
  <2>2. CASE m # 0 /\ Own(d, m - 1) /\ IsTag(d, m)
    <3>1. \A j \in 1 .. m : j \in 1 .. m - 1 \/ j = m
      BY <1>2
    <3> QED
      BY <2>2, <3>1 DEF Own
  <2> QED
    BY <1>2, <2>1, <2>2 DEF Protected
<1>3. CASE Protected(d, n)
  <2>1. n <= n
    BY <1>1
  <2>2. \A j \in 1 .. n : d.attrs[j] \in Bodies \/ (j = n /\ IsTag(d, j))
    BY <1>1, <1>2, <1>3, <2>1
  <2>3. Parts(d, n)
    BY <2>2 DEF Parts, n
  <2> QED
    BY <1>1, <2>3
<1>4. CASE n # 0 /\ Protected(d, n - 1) /\ IsPrint(d, n)
  <2>1. n - 1 \in Nat /\ n - 1 <= n /\ \A j \in 1 .. n : j \in 1 .. n - 1 \/ j = n
    BY <1>1, <1>4
  <2>2. \A j \in 1 .. n - 1 : d.attrs[j] \in Bodies \/ (j = n - 1 /\ IsTag(d, j))
    BY <1>2, <1>4, <2>1
  <2>3. \A j \in 1 .. n : \/ d.attrs[j] \in Bodies
                          \/ j = n - 1 /\ IsTag(d, j)
                          \/ j = n /\ IsPrint(d, j)
    BY <1>4, <2>1, <2>2
  <2>4. Parts(d, n - 1)
    BY <2>3 DEF Parts, n
  <2> QED
    BY <2>1, <2>4
<1> QED
  BY <1>3, <1>4 DEF Complete, n

\* What the tag of a message says of its algorithm.
LEMMA TagCode ==
  ASSUME NEW d, NEW j, IsTag(d, j)
  PROVE  /\ d.attrs[j].code \in MacCode /\ d.attrs[j].code # "foreign"
         /\ d.attrs[j].code # "fingerprint"
         /\ d.attrs[j].len \in ValueLengths[d.attrs[j].code]
         /\ \E alg \in Algorithms, key \in Keys :
              /\ d.attrs[j].code = CodeOf[alg] /\ d.attrs[j].len = MacLen[alg]
              /\ d.attrs[j].val = Hmac(alg, key, MacInput(d, j, alg))
<1>1. PICK alg \in Algorithms, key \in Keys :
        d.attrs[j] = [code |-> CodeOf[alg], len |-> MacLen[alg], val |-> Hmac(alg, key, MacInput(d, j, alg))]
  BY DEF IsTag
<1>2. /\ d.attrs[j].code = CodeOf[alg] /\ d.attrs[j].len = MacLen[alg]
      /\ d.attrs[j].val = Hmac(alg, key, MacInput(d, j, alg))
  BY <1>1
<1> QED
  BY <1>2, TagIs

\* The same of a fingerprint.
LEMMA PrintCode ==
  ASSUME NEW d, NEW j, IsPrint(d, j)
  PROVE  /\ d.attrs[j].code = "fingerprint" /\ d.attrs[j].len = 4
         /\ d.attrs[j].val = CrcInput(d, j) /\ d.attrs[j].code \notin MacCode
         /\ d.attrs[j].len \in ValueLengths[d.attrs[j].code]
<1>1. /\ d.attrs[j].code = "fingerprint" /\ d.attrs[j].len = 4
      /\ d.attrs[j].val = CrcInput(d, j)
  BY DEF IsPrint
<1>2. "fingerprint" \notin MacCode /\ ValueLengths["fingerprint"] = {4}
  BY DEF MacCode, ValueLengths
<1> QED
  BY <1>1, <1>2

\* The two algorithms have two codes.
LEMMA CodesDiffer ==
  \A a, b \in Algorithms : CodeOf[a] = CodeOf[b] => a = b
BY DEF Algorithms, CodeOf

\* In a message made of parts, what carries a tag's code is the tag, and what carries a
\* fingerprint's is that.
LEMMA PartCodes ==
  ASSUME NEW d, d.attrs \in Seq(Attribute), NEW k \in Nat, Parts(d, k)
  PROVE  /\ \A j \in At(d, MacCode) : j = k /\ IsTag(d, j) /\ j \in 1 .. Len(d.attrs)
         /\ \A j \in At(d, {"fingerprint"}) : j = Len(d.attrs) /\ IsPrint(d, j) /\ j \in 1 .. Len(d.attrs)
<1>1. \A j \in 1 .. Len(d.attrs) :
        \/ d.attrs[j].code \notin MacCode /\ d.attrs[j].code # "fingerprint"
        \/ j = k /\ IsTag(d, j) /\ d.attrs[j].code # "fingerprint"
        \/ j = Len(d.attrs) /\ IsPrint(d, j) /\ d.attrs[j].code \notin MacCode
  BY GivenAttributes, TagCode, PrintCode DEF Parts
<1>2. DOMAIN d.attrs = 1 .. Len(d.attrs)
  OBVIOUS
<1> QED
  BY <1>1, <1>2 DEF At

\* parse takes a message made of parts.
LEMMA PartsAccepted ==
  ASSUME NEW d, d.attrs \in Seq(Attribute), d = WithLength(d.attrs), NEW k \in Nat, Parts(d, k)
  PROVE  Accepts(d)
<1>1. /\ d \in Datagram /\ d.size = EndOf(d.attrs) /\ d.rec = EndOf(d.attrs) - 20
      /\ EndOf(d.attrs) \in Nat
  BY WithLengthIs
<1>2. d.size = HeaderLen + d.rec
  BY <1>1 DEF HeaderLen
<1>3. ASSUME NEW i \in DOMAIN d.attrs
      PROVE  d.attrs[i].code # "foreign" /\ d.attrs[i].len \in ValueLengths[d.attrs[i].code]
  <2>1. i \in 1 .. Len(d.attrs)
    OBVIOUS
  <2>2. "fingerprint" # "foreign"
    OBVIOUS
  <2> QED
    BY <2>1, <2>2, GivenAttributes, TagCode, PrintCode DEF Parts
<1>4. Cardinality(At(d, MacCode)) <= 1
  <2>1. At(d, MacCode) \in SUBSET {k}
    BY PartCodes
  <2>2. IsFiniteSet({k}) /\ Cardinality({k}) = 1
    BY FS_Singleton
  <2>3. Cardinality(At(d, MacCode)) <= Cardinality({k})
    BY <2>1, <2>2, FS_Subset
  <2> QED
    BY <2>2, <2>3
<1>5. ASSUME NEW i \in At(d, {"fingerprint"})
      PROVE  OffOf(d.attrs, i) + 8 = d.size
  <2>1. i = Len(d.attrs) /\ i \in 1 .. Len(d.attrs) /\ d.attrs[i].len = 4
    BY PartCodes, PrintCode
  <2>2. OffOf(d.attrs, i + 1) = OffOf(d.attrs, i) + AttrSize(d.attrs[i].len)
    BY <2>1, AllMeasured, OffIs
  <2>3. OffOf(d.attrs, i + 1) = OffOf(d.attrs, i) + 8
    BY <2>1, <2>2, AttrSizeIs
  <2>4. OffOf(d.attrs, i + 1) = EndOf(d.attrs)
    BY <2>1 DEF EndOf
  <2> QED
    BY <1>1, <2>3, <2>4
<1> QED
  BY <1>1, <1>2, <1>3, <1>4, <1>5 DEF Accepts

\* The tag of such a message verifies under its own key and no other.
LEMMA TagHolds ==
  ASSUME NEW d, d.attrs \in Seq(Attribute), d = WithLength(d.attrs),
         NEW i \in 1 .. Len(d.attrs), IsTag(d, i)
  PROVE  /\ AlgorithmOf(d, i) # {}
         /\ \A alg \in AlgorithmOf(d, i), key \in Keys :
              IntegrityHolds(d, i, alg, key) <=> key = d.attrs[i].val.key
<1>1. PICK al \in Algorithms, own \in Keys :
        /\ d.attrs[i].code = CodeOf[al] /\ d.attrs[i].len = MacLen[al]
        /\ d.attrs[i].val = Hmac(al, own, MacInput(d, i, al))
  BY TagCode
<1>2. al \in AlgorithmOf(d, i)
  BY <1>1, TagIs DEF AlgorithmOf
<1>3. ASSUME NEW alg \in AlgorithmOf(d, i), NEW key \in Keys
      PROVE  IntegrityHolds(d, i, alg, key) <=> key = d.attrs[i].val.key
  <2>1. alg = al
    <3>1. alg \in Algorithms /\ d.attrs[i].code = CodeOf[alg]
      BY DEF AlgorithmOf
    <3> QED
      BY <1>1, <3>1, CodesDiffer
  <2>2. d.size = EndOf(d.attrs) /\ d.rec = EndOf(d.attrs) - 20 /\ EndOf(d.attrs) \in Nat
    BY WithLengthIs
  <2>3. d.rec + HeaderLen = d.size
    BY <2>2 DEF HeaderLen
  <2>4. OffOf(d.attrs, i) + 4 + MacLen[alg] <= d.size
    <3> DEFINE z == AttrSize(d.attrs[i].len)
               o == OffOf(d.attrs, i)
    <3>1. o + z <= EndOf(d.attrs)
      BY OffWithin
    <3>2. MacLen[al] \in Nat
      BY TagIs
    <3>3. z \in Nat /\ z >= 4 + MacLen[al]
      BY <1>1, <3>2, AttrSizeIs
    <3>4. o \in Nat
      <4>1. i \in 1 .. Len(d.attrs) + 1
        OBVIOUS
      <4> QED
        BY <4>1, AllMeasured, OffIs
    <3> HIDE DEF z, o
    <3>5. o + 4 + MacLen[al] <= d.size
      BY <2>2, <3>1, <3>2, <3>3, <3>4
    <3> QED
      BY <2>1, <3>5 DEF o
  <2>5. d.attrs[i].val.key = own
    BY <1>1 DEF Hmac
  <2>6. Hmac(al, own, MacInput(d, i, al)) = Hmac(al, key, MacInput(d, i, al)) <=> own = key
    BY DEF Hmac
  <2>7. IntegrityHolds(d, i, alg, key) <=> d.attrs[i].val = Hmac(al, key, MacInput(d, i, al))
    BY <1>1, <2>1, <2>3, <2>4 DEF IntegrityHolds
  <2> QED
    BY <1>1, <2>5, <2>6, <2>7
<1> QED
  BY <1>2, <1>3

\* And its fingerprint verifies.
LEMMA PrintHolds ==
  ASSUME NEW d, d.attrs \in Seq(Attribute), d = WithLength(d.attrs),
         NEW i \in 1 .. Len(d.attrs), IsPrint(d, i)
  PROVE  FingerprintHolds(d, i)
<1>1. d.attrs[i].len = 4 /\ d.attrs[i].val = CrcInput(d, i)
  BY PrintCode
<1>2. OffOf(d.attrs, i) + AttrSize(d.attrs[i].len) <= EndOf(d.attrs)
  BY OffWithin
<1>3. OffOf(d.attrs, i) + 8 <= EndOf(d.attrs)
  BY <1>1, <1>2, AttrSizeIs
<1>4. d.size = EndOf(d.attrs) /\ d.rec = EndOf(d.attrs) - 20 /\ EndOf(d.attrs) \in Nat
  BY WithLengthIs
<1>5. d.rec + HeaderLen = d.size
  BY <1>4 DEF HeaderLen
<1> QED
  BY <1>1, <1>3, <1>4, <1>5 DEF FingerprintHolds

\* parse takes whatever build_response made of attributes it knows, and finds its trailers
\* sound: the integrity under the key it was built with and no other, although the length
\* in the header has grown since by the fingerprint.
THEOREM BuiltReadable == Spec => []BuiltIsRead
<1>1. CodecInv => BuiltIsRead
  <2> SUFFICES ASSUME CodecInv, stage = "built"
               PROVE  /\ Accepts(out)
                      /\ \A i \in At(out, MacCode) : AlgorithmOf(out, i) # {}
                      /\ \A i \in At(out, MacCode) : \A alg \in AlgorithmOf(out, i), key \in Keys :
                           IntegrityHolds(out, i, alg, key) <=> key = out.attrs[i].val.key
                      /\ \A i \in At(out, {"fingerprint"}) : FingerprintHolds(out, i)
    BY DEF BuiltIsRead
  <2>1. /\ out.attrs \in Seq(Attribute) /\ out = WithLength(out.attrs)
        /\ Complete(out, Len(out.attrs))
    BY DEF CodecInv, OutInv
  <2>2. PICK k \in Nat : Parts(out, k)
    BY <2>1, CompleteParts
  <2>3. Accepts(out)
    BY <2>1, <2>2, PartsAccepted
  <2>4. ASSUME NEW i \in At(out, MacCode)
        PROVE  /\ AlgorithmOf(out, i) # {}
               /\ \A alg \in AlgorithmOf(out, i), key \in Keys :
                    IntegrityHolds(out, i, alg, key) <=> key = out.attrs[i].val.key
    <3>1. IsTag(out, i) /\ i \in 1 .. Len(out.attrs)
      BY <2>1, <2>2, PartCodes
    <3> QED
      BY <2>1, <3>1, TagHolds
  <2>5. ASSUME NEW i \in At(out, {"fingerprint"})
        PROVE  FingerprintHolds(out, i)
    <3>1. IsPrint(out, i) /\ i \in 1 .. Len(out.attrs)
      BY <2>1, <2>2, PartCodes
    <3> QED
      BY <2>1, <3>1, PrintHolds
  <2> QED
    BY <2>3, <2>4, <2>5
<1> QED
  BY <1>1, CodecKept, PTL

--------------------------------------------------------------------------------
(* A message that was changed on its way.                                    *)

\* Two fronts that are the same end at the same place.
LEMMA SameFront ==
  ASSUME NEW s \in Seq(Attribute), NEW t \in Seq(Attribute),
         NEW i \in 1 .. Len(s), NEW j \in 1 .. Len(t),
         SubSeq(s, 1, i - 1) = SubSeq(t, 1, j - 1), s[i] = t[j]
  PROVE  i = j /\ SubSeq(s, 1, i) = SubSeq(t, 1, i)
<1>1. i - 1 \in 0 .. Len(s) /\ j - 1 \in 0 .. Len(t) /\ i \in 0 .. Len(s) /\ i \in Nat /\ j \in Nat
  OBVIOUS
<1>2. /\ Len(SubSeq(s, 1, i - 1)) = i - 1 /\ Len(SubSeq(t, 1, j - 1)) = j - 1
      /\ \A m \in 1 .. i - 1 : SubSeq(s, 1, i - 1)[m] = s[m]
      /\ \A m \in 1 .. j - 1 : SubSeq(t, 1, j - 1)[m] = t[m]
  BY <1>1, FrontIs
<1>3. i = j
  <2>1. i - 1 = j - 1
    BY <1>2
  <2> QED
    BY <1>1, <2>1
<1>4. i \in 0 .. Len(t)
  BY <1>3
<1>5. /\ SubSeq(s, 1, i) \in Seq(Attribute) /\ Len(SubSeq(s, 1, i)) = i
      /\ SubSeq(t, 1, i) \in Seq(Attribute) /\ Len(SubSeq(t, 1, i)) = i
      /\ \A m \in 1 .. i : SubSeq(s, 1, i)[m] = s[m]
      /\ \A m \in 1 .. i : SubSeq(t, 1, i)[m] = t[m]
  BY <1>1, <1>4, FrontIs
<1>6. \A m \in 1 .. i - 1 : s[m] = t[m]
  BY <1>2, <1>3
<1>7. \A m \in 1 .. i : m \in 1 .. i - 1 \/ m = i
  BY <1>1
<1>8. \A m \in 1 .. i : s[m] = t[m]
  BY <1>3, <1>6, <1>7
<1>9. \A m \in 1 .. i : SubSeq(s, 1, i)[m] = SubSeq(t, 1, i)[m]
  BY <1>5, <1>8
<1>10. SubSeq(s, 1, i) = SubSeq(t, 1, i)
  BY <1>5, <1>9, SameEntries
<1> QED
  BY <1>3, <1>10

\* A sequence up to its end is all of it.
LEMMA AllOfIt ==
  ASSUME NEW s \in Seq(Attribute)
  PROVE  SubSeq(s, 1, Len(s)) = s
OBVIOUS

\* A value the network did not make up, of a message that was sent.
LEMMA FoundSent ==
  ASSUME CodecInv, NEW i \in 1 .. Len(seen.attrs), seen.attrs[i].val \notin Octets
  PROVE  /\ \E j \in 1 .. Len(out.attrs) : seen.attrs[i] = out.attrs[j]
         /\ \E k \in Nat : Parts(out, k)
         /\ out.attrs \in Seq(Attribute) /\ out = WithLength(out.attrs)
<1>1. Traced(seen.attrs, out.attrs)
  BY DEF CodecInv, SeenInv
<1>2. \E j \in 1 .. Len(out.attrs) : seen.attrs[i] = out.attrs[j]
  BY <1>1 DEF Traced, Sent
<1>3. stage = "sent"
  <2>1. seen.attrs # <<>>
    OBVIOUS
  <2> QED
    BY <2>1 DEF CodecInv, SeenInv
<1>4. out.attrs \in Seq(Attribute) /\ out = WithLength(out.attrs) /\ Complete(out, Len(out.attrs))
  BY <1>3 DEF CodecInv, OutInv
<1> QED
  BY <1>2, <1>4, CompleteParts

\* A datagram is its three parts.
LEMMA Rebuilt ==
  ASSUME NEW d \in Datagram, d.size = HeaderLen + d.rec, EndOf(d.attrs) = d.size
  PROVE  d = WithLength(d.attrs)
<1>1. d = [rec |-> d.rec, attrs |-> d.attrs, size |-> d.size]
  BY DEF Datagram
<1>2. d.rec = EndOf(d.attrs) - HeaderLen
  BY DEF Datagram, HeaderLen
<1>3. WithLength(d.attrs) = [rec |-> d.rec, attrs |-> d.attrs, size |-> d.size]
  BY <1>2 DEF WithLength
<1> QED
  BY <1>1, <1>3

\* In a message parse takes, all that stands in front of a tag that verifies was put there
\* by the sender, and nothing stands behind one that is_last, whatever the network put
\* in, took out, moved or cut off.
THEOREM SignedWasSent == Spec => []SignedIsSent
<1>1. CodecInv => SignedIsSent
  <2> DEFINE i == Located(seen, MacCode)
  <2> SUFFICES ASSUME CodecInv, Accepts(seen), i # 0, NEW alg \in AlgorithmOf(seen, i),
                      NEW key \in Keys, IntegrityHolds(seen, i, alg, key)
               PROVE  /\ SubSeq(seen.attrs, 1, i) = SubSeq(out.attrs, 1, i)
                      /\ IsLast(seen, i) => seen = WithLength(SubSeq(out.attrs, 1, i))
    BY DEF SignedIsSent
  <2>1. seen \in Datagram /\ seen.attrs \in Seq(Attribute)
    BY DEF CodecInv, SeenInv, Datagram
  <2>2. i \in 1 .. Len(seen.attrs)
    BY <2>1, LocatedIs
  <2> HIDE DEF i
  <2>3. seen.attrs[i].val = Hmac(alg, key, MacInput(seen, i, alg))
    BY DEF IntegrityHolds
  <2>4. seen.attrs[i].val \notin Octets
    BY <2>3, KindsDiffer
  <2>5. PICK j \in 1 .. Len(out.attrs) : seen.attrs[i] = out.attrs[j]
    BY <2>2, <2>4, FoundSent
  <2>6. PICK k \in Nat : Parts(out, k)
    BY <2>2, <2>4, FoundSent
  <2>7. out.attrs \in Seq(Attribute)
    BY <2>2, <2>4, FoundSent
  <2>8. IsTag(out, j)
    <3>1. out.attrs[j] \notin Bodies
      BY <2>4, <2>5, GivenAttributes
    <3>2. ~IsPrint(out, j)
      <4> SUFFICES ASSUME IsPrint(out, j) PROVE FALSE
        OBVIOUS
      <4>1. out.attrs[j].val = CrcInput(out, j)
        BY PrintCode
      <4> QED
        BY <2>3, <2>5, <4>1, KindsDiffer
    <3> QED
      BY <2>6, <3>1, <3>2 DEF Parts
  <2>9. PICK al \in Algorithms, own \in Keys : out.attrs[j].val = Hmac(al, own, MacInput(out, j, al))
    BY <2>8, TagCode
  <2>10. MacInput(seen, i, alg) = MacInput(out, j, al)
    <3>1. Hmac(alg, key, MacInput(seen, i, alg)) = Hmac(al, own, MacInput(out, j, al))
      BY <2>3, <2>5, <2>9
    <3> QED
      BY <3>1 DEF Hmac
  <2>11. SubSeq(seen.attrs, 1, i - 1) = SubSeq(out.attrs, 1, j - 1)
    BY <2>10 DEF MacInput
  <2>12. SubSeq(seen.attrs, 1, i) = SubSeq(out.attrs, 1, i)
    <3> DEFINE s == seen.attrs
               t == out.attrs
    <3>1. s \in Seq(Attribute) /\ t \in Seq(Attribute) /\ i \in 1 .. Len(s) /\ j \in 1 .. Len(t)
      BY <2>1, <2>2, <2>7
    <3>2. SubSeq(s, 1, i - 1) = SubSeq(t, 1, j - 1) /\ s[i] = t[j]
      BY <2>5, <2>11
    <3> HIDE DEF s, t
    <3>3. SubSeq(s, 1, i) = SubSeq(t, 1, i)
      BY <3>1, <3>2, SameFront
    <3> QED
      BY <3>3 DEF s, t
  <2>13. ASSUME IsLast(seen, i)
         PROVE  seen = WithLength(SubSeq(out.attrs, 1, i))
    <3>1. seen.size = HeaderLen + seen.rec /\ EndOf(seen.attrs) = seen.size
      BY DEF Accepts
    <3>2. OffOf(seen.attrs, i) + AttrSize(seen.attrs[i].len) = EndOf(seen.attrs)
      BY <2>13, <3>1 DEF IsLast
    <3>3. i = Len(seen.attrs)
      BY <2>1, <2>2, <3>2, LastOne
    <3>4. seen.attrs = SubSeq(out.attrs, 1, i)
      BY <2>1, <2>12, <3>3, AllOfIt
    <3>5. seen = WithLength(seen.attrs)
      BY <2>1, <3>1, Rebuilt
    <3> QED
      BY <3>4, <3>5
  <2> QED
    BY <2>12, <2>13
<1> QED
  BY <1>1, CodecKept, PTL

\* A message parse takes with a fingerprint that verifies is the one that was sent, to the
\* last attribute.
THEOREM FingerprintCovers == Spec => []FingerprintWhole
<1>1. CodecInv => FingerprintWhole
  <2> DEFINE i == Located(seen, {"fingerprint"})
  <2> SUFFICES ASSUME CodecInv, Accepts(seen), i # 0, FingerprintHolds(seen, i)
               PROVE  seen = out
    BY DEF FingerprintWhole
  <2>1. seen \in Datagram /\ seen.attrs \in Seq(Attribute) /\ seen.rec \in Nat
    BY DEF CodecInv, SeenInv, Datagram
  <2>2. i \in 1 .. Len(seen.attrs) /\ i = Len(seen.attrs)
    BY <2>1, LocatedIs, OnePrint
  <2> HIDE DEF i
  <2>3. seen.attrs[i].val = CrcInput(seen, i)
    BY DEF FingerprintHolds
  <2>4. seen.attrs[i].val \notin Octets
    BY <2>3, KindsDiffer
  <2>5. PICK j \in 1 .. Len(out.attrs) : seen.attrs[i] = out.attrs[j]
    BY <2>2, <2>4, FoundSent
  <2>6. PICK k \in Nat : Parts(out, k)
    BY <2>2, <2>4, FoundSent
  <2>7. out.attrs \in Seq(Attribute) /\ out = WithLength(out.attrs)
    BY <2>2, <2>4, FoundSent
  <2>8. IsPrint(out, j) /\ j = Len(out.attrs)
    <3>1. out.attrs[j] \notin Bodies
      BY <2>4, <2>5, GivenAttributes
    <3>2. ~IsTag(out, j)
      <4> SUFFICES ASSUME IsTag(out, j) PROVE FALSE
        OBVIOUS
      <4>1. PICK al \in Algorithms, own \in Keys :
              out.attrs[j].val = Hmac(al, own, MacInput(out, j, al))
        BY TagCode
      <4> QED
        BY <2>3, <2>5, <4>1, KindsDiffer
    <3> QED
      BY <2>6, <3>1, <3>2 DEF Parts
  <2>9. CrcInput(seen, i) = CrcInput(out, j)
    <3>1. out.attrs[j].val = CrcInput(out, j)
      BY <2>8, PrintCode
    <3> QED
      BY <2>3, <2>5, <3>1
  <2>10. seen.rec = out.rec /\ SubSeq(seen.attrs, 1, i - 1) = SubSeq(out.attrs, 1, j - 1)
    BY <2>9 DEF CrcInput
  <2>11. i = j /\ SubSeq(seen.attrs, 1, i) = SubSeq(out.attrs, 1, i)
    BY <2>1, <2>2, <2>5, <2>7, <2>10, SameFront
  <2>12. seen.attrs = out.attrs
    BY <2>1, <2>2, <2>7, <2>8, <2>11, AllOfIt
  <2>13. seen = WithLength(seen.attrs)
    <3>1. seen.size = HeaderLen + seen.rec /\ EndOf(seen.attrs) = seen.size
      BY DEF Accepts
    <3> QED
      BY <2>1, <3>1, Rebuilt
  <2> QED
    BY <2>7, <2>12, <2>13
<1> QED
  BY <1>1, CodecKept, PTL

================================================================================
