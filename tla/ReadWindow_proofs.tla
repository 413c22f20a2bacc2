--------------------------- MODULE ReadWindow_proofs ---------------------------
(***************************************************************************)
(* Theorems about ReadWindow, for every size of the window, every bound of *)
(* a read and of a decode pass, and every stream of packets.               *)
(***************************************************************************)
EXTENDS ReadWindow, Queues_proofs

--------------------------------------------------------------------------------
(* The stream.                                                              *)

\* The partial results of FlattenSeq, as a function of the sequences taken in.
Flat(seqs, n, f) ==
  f = [i \in 1 .. n |-> IF i = 1 THEN seqs[i] ELSE f[i - 1] \o seqs[i]]

\* There is such a function for every number of sequences.
LEMMA FlatIs ==
  ASSUME NEW seqs
  PROVE  \A n \in Nat : \E f : Flat(seqs, n, f)
<1> DEFINE S == {n \in Nat : ~ \E f : Flat(seqs, n, f)}
<1> SUFFICES ASSUME S # {} PROVE FALSE
  OBVIOUS
<1>1. PICK n \in S : \A m \in S : n <= m
  <2>1. S \in SUBSET Nat
    OBVIOUS
  <2> HIDE DEF S
  <2> QED
    BY <2>1, Smallest
<1>2. n \in Nat /\ ~ \E f : Flat(seqs, n, f)
  BY <1>1
<1>3. CASE n = 0
  <2> DEFINE f == [i \in 1 .. 0 |-> <<>>]
  <2>1. 1 .. 0 = {}
    OBVIOUS
  <2>2. f = [i \in 1 .. 0 |-> IF i = 1 THEN seqs[i] ELSE f[i - 1] \o seqs[i]]
    BY <2>1
  <2> HIDE DEF f
  <2>3. Flat(seqs, 0, f)
    BY <2>2 DEF Flat
  <2> QED
    BY <1>2, <1>3, <2>3
<1>4. CASE n # 0
  <2> DEFINE p == n - 1
  <2>1. p \in Nat /\ p < n /\ n = p + 1
    BY <1>2, <1>4
  <2> HIDE DEF p
  <2>2. PICK g : Flat(seqs, p, g)
    <3> SUFFICES ASSUME p \in S PROVE FALSE
      BY <2>1
    <3>1. n <= p
      BY <1>1
    <3> QED
      BY <1>2, <2>1, <3>1
  <2> DEFINE last == IF n = 1 THEN seqs[n] ELSE g[p] \o seqs[n]
             f == [i \in 1 .. n |-> IF i = n THEN last ELSE g[i]]
             step(i) == IF i = 1 THEN seqs[i] ELSE f[i - 1] \o seqs[i]
  <2>3. \A i \in 1 .. p : i \in 1 .. n /\ i # n /\ f[i] = g[i]
    BY <1>2, <2>1
  <2>4. f[n] = last
    BY <1>2, <1>4
  <2> HIDE DEF f
  <2>5. f[n] = step(n)
    <3>1. n # 1 => p \in 1 .. p /\ n - 1 = p
      BY <2>1, <1>2
    <3>2. n # 1 => f[n - 1] = g[p]
      BY <2>3, <3>1
    <3> QED
      BY <2>4, <3>2
  <2>6. ASSUME NEW i \in 1 .. p
        PROVE  f[i] = step(i)
    <3>1. f[i] = IF i = 1 THEN seqs[i] ELSE g[i - 1] \o seqs[i]
      BY <2>2, <2>3 DEF Flat
    <3>2. i # 1 => f[i - 1] = g[i - 1]
      BY <2>1, <2>3
    <3> QED
      BY <3>1, <3>2
  <2>7. \A i \in 1 .. n : f[i] = step(i)
    <3>1. \A i \in 1 .. n : i \in 1 .. p \/ i = n
      BY <2>1
    <3> QED
      BY <2>5, <2>6, <3>1
  <2>8. f = [i \in 1 .. n |-> f[i]]
    BY DEF f
  <2>9. Flat(seqs, n, f)
    BY <2>7, <2>8 DEF Flat
  <2> QED
    BY <1>2, <2>9
<1> QED
  BY <1>3, <1>4

\* What was taken in first does not depend on what comes behind it.
LEMMA FlatAgrees ==
  ASSUME NEW seqs, NEW n \in Nat, NEW f, Flat(seqs, n, f),
         NEW longer, NEW m \in Nat, NEW g, Flat(longer, m, g),
         n <= m, \A i \in 1 .. n : longer[i] = seqs[i]
  PROVE  \A i \in 1 .. n : g[i] = f[i]
<1> DEFINE S == {i \in 1 .. n : g[i] # f[i]}
<1> SUFFICES ASSUME S # {} PROVE FALSE
  OBVIOUS
<1>1. PICK i \in S : \A j \in S : i <= j
  <2>1. S \in SUBSET Nat
    OBVIOUS
  <2> HIDE DEF S
  <2> QED
    BY <2>1, Smallest
<1>2. i \in 1 .. n /\ i \in 1 .. m /\ g[i] # f[i]
  BY <1>1
<1>3. /\ f[i] = IF i = 1 THEN seqs[i] ELSE f[i - 1] \o seqs[i]
      /\ g[i] = IF i = 1 THEN longer[i] ELSE g[i - 1] \o longer[i]
  BY <1>2 DEF Flat
<1>4. i # 1 => g[i - 1] = f[i - 1]
  <2> SUFFICES ASSUME i # 1, g[i - 1] # f[i - 1] PROVE FALSE
    OBVIOUS
  <2>1. i - 1 \in 1 .. n
    BY <1>2
  <2>2. i - 1 \in S
    BY <2>1
  <2>3. i <= i - 1
    BY <1>1, <2>2
  <2> QED
    BY <1>2, <2>3
<1> QED
  BY <1>2, <1>3, <1>4

\* They are sequences of what is in the sequences.
LEMMA FlatType ==
  ASSUME NEW T, NEW n \in Nat, NEW seqs \in [1 .. n -> Seq(T)], NEW f, Flat(seqs, n, f)
  PROVE  \A i \in 1 .. n : f[i] \in Seq(T)
<1> DEFINE S == {i \in 1 .. n : f[i] \notin Seq(T)}
<1> SUFFICES ASSUME S # {} PROVE FALSE
  OBVIOUS
<1>1. PICK i \in S : \A j \in S : i <= j
  <2>1. S \in SUBSET Nat
    OBVIOUS
  <2> HIDE DEF S
  <2> QED
    BY <2>1, Smallest
<1>2. i \in 1 .. n /\ f[i] \notin Seq(T) /\ seqs[i] \in Seq(T)
  BY <1>1
<1>3. f[i] = IF i = 1 THEN seqs[i] ELSE f[i - 1] \o seqs[i]
  BY <1>2 DEF Flat
<1>4. i # 1 => f[i - 1] \in Seq(T)
  <2> SUFFICES ASSUME i # 1, f[i - 1] \notin Seq(T) PROVE FALSE
    OBVIOUS
  <2>1. i - 1 \in 1 .. n
    BY <1>2
  <2>2. i - 1 \in S
    BY <2>1
  <2>3. i <= i - 1
    BY <1>1, <2>2
  <2> QED
    BY <1>2, <2>3
<1> QED
  <2>1. CASE i = 1
    BY <1>2, <1>3, <2>1
  <2>2. CASE i # 1
    <3> DEFINE a == f[i - 1]
               b == seqs[i]
    <3>1. a \in Seq(T) /\ b \in Seq(T)
      BY <1>2, <1>4, <2>2
    <3>2. f[i] = a \o b
      BY <1>3, <2>2
    <3> HIDE DEF a, b
    <3>3. a \o b \in Seq(T)
      BY <3>1
    <3> QED
      BY <1>2, <3>2, <3>3
  <2> QED
    BY <2>1, <2>2

\* Where the entries of two sequences are when one is put behind the other.
Joins(ab, a, b) ==
  /\ Len(ab) = Len(a) + Len(b)
  /\ \A i \in 1 .. Len(a) : ab[i] = a[i]
  /\ \A i \in 1 .. Len(b) : ab[Len(a) + i] = b[i]

\* Concatenation puts them there.
LEMMA ConcatIs ==
  ASSUME NEW T, NEW a \in Seq(T), NEW b \in Seq(T)
  PROVE  a \o b \in Seq(T) /\ Joins(a \o b, a, b)
<1>1. a \o b \in Seq(T) /\ Len(a \o b) = Len(a) + Len(b)
  OBVIOUS
<1>2. ASSUME NEW i \in 1 .. Len(a) PROVE (a \o b)[i] = a[i]
  OBVIOUS
<1>3. ASSUME NEW i \in 1 .. Len(b) PROVE (a \o b)[Len(a) + i] = b[i]
  OBVIOUS
<1> QED
  BY <1>1, <1>2, <1>3 DEF Joins

\* A packet on the wire: the prefix that tells its length, and its payload (encode).
LEMMA EncodeIs ==
  ASSUME NEW p \in Payloads
  PROVE  /\ p \in Seq(Octets) /\ Len(p) \in 0 .. MaxPayload
         /\ Encode(p) \in Seq(Octets) /\ Len(Encode(p)) = 2 + Len(p)
         /\ Encode(p)[2] = Len(p)
         /\ \A i \in 1 .. Len(p) : Encode(p)[2 + i] = p[i]
<1>1. MaxPayload \in Nat
  BY WindowAssumption
<1>2. PICK n \in 0 .. MaxPayload : p \in [1 .. n -> Octets]
  BY DEF Payloads
<1>3. p \in Seq(Octets) /\ Len(p) = n
  BY <1>1, <1>2
<1> DEFINE head == <<0, Len(p)>>
<1>4. head \in Seq(Octets) /\ Len(head) = 2 /\ head[2] = Len(p)
  BY <1>1, <1>3 DEF Octets
<1>5. Encode(p) = head \o p
  BY DEF Encode
<1> HIDE DEF head
<1>6. /\ head \o p \in Seq(Octets) /\ Len(head \o p) = 2 + Len(p) /\ (head \o p)[2] = head[2]
      /\ \A i \in 1 .. Len(p) : (head \o p)[2 + i] = p[i]
  <2>1. p \in Seq(Octets)
    BY <1>3
  <2>2. head \in Seq(Octets)
    BY <1>4
  <2>3. head \o p \in Seq(Octets) /\ Joins(head \o p, head, p)
    BY <2>1, <2>2, ConcatIs
  <2> QED
    BY <1>4, <2>3 DEF Joins
<1>7. Len(p) \in 0 .. MaxPayload
  BY <1>3
<1> QED
  BY <1>3, <1>4, <1>5, <1>6, <1>7

\* The stream of some packets is that of all but the last, with the last behind it.
LEMMA WireIs ==
  ASSUME NEW ps \in Seq(Payloads)
  PROVE  /\ Wire(<<>>) = <<>> /\ Wire(ps) \in Seq(Octets)
         /\ \A p \in Payloads : Wire(Append(ps, p)) = Wire(ps) \o Encode(p)
<1> DEFINE n == Len(ps)
           seqs == [i \in DOMAIN ps |-> Encode(ps[i])]
           f == CHOOSE g : Flat(seqs, n, g)
<1>1. n \in Nat /\ DOMAIN ps = 1 .. n
  OBVIOUS
<1>2. seqs \in [1 .. n -> Seq(Octets)] /\ Len(seqs) = n
  <2>1. \A i \in 1 .. n : ps[i] \in Payloads
    BY <1>1
  <2>2. \A i \in 1 .. n : Encode(ps[i]) \in Seq(Octets)
    BY <2>1, EncodeIs
  <2>3. seqs \in [1 .. n -> Seq(Octets)]
    BY <1>1, <2>2
  <2> HIDE DEF seqs, n
  <2> QED
    BY <1>1, <2>3
<1>3. Wire(<<>>) = <<>>
  <2> DEFINE none == [i \in DOMAIN <<>> |-> Encode(<<>>[i])]
  <2>1. DOMAIN <<>> = {}
    OBVIOUS
  <2>2. none = <<>>
    BY <2>1
  <2>3. Wire(<<>>) = FlattenSeq(none)
    BY DEF Wire
  <2> QED
    BY <2>2, <2>3 DEF FlattenSeq
<1>4. Flat(seqs, n, f)
  <2>1. \E g : Flat(seqs, n, g)
    BY <1>1, FlatIs
  <2> QED
    BY <2>1
<1>5. Wire(ps) = IF n = 0 THEN <<>> ELSE f[n]
  <2>1. Wire(ps) = FlattenSeq(seqs)
    BY DEF Wire
  <2>2. CASE n = 0
    <3>1. ps = <<>>
      BY <2>2
    <3> QED
      BY <1>3, <2>2, <3>1
  <2>3. CASE n # 0
    <3>1. FlattenSeq(seqs) = (CHOOSE g : Flat(seqs, Len(seqs), g))[Len(seqs)]
      BY <1>2, <2>3 DEF FlattenSeq, Flat
    <3> QED
      BY <1>2, <2>1, <2>3, <3>1
  <2> QED
    BY <2>2, <2>3
<1> HIDE DEF f, seqs
<1>6. Wire(ps) \in Seq(Octets)
  <2>1. n # 0 => n \in 1 .. n
    BY <1>1
  <2>2. \A i \in 1 .. n : f[i] \in Seq(Octets)
    BY <1>1, <1>2, <1>4, FlatType
  <2>3. <<>> \in Seq(Octets)
    OBVIOUS
  <2> QED
    BY <1>5, <2>1, <2>2, <2>3
<1>7. ASSUME NEW p \in Payloads
      PROVE  Wire(Append(ps, p)) = Wire(ps) \o Encode(p)
  <2> DEFINE qs == Append(ps, p)
             more == [i \in DOMAIN qs |-> Encode(qs[i])]
             m == n + 1
             g == CHOOSE h : Flat(more, m, h)
  <2>1. /\ qs \in Seq(Payloads) /\ DOMAIN qs = 1 .. m /\ qs[m] = p /\ m \in Nat /\ m # 0
        /\ \A i \in 1 .. n : i \in 1 .. m /\ qs[i] = ps[i]
    BY <1>1
  <2>2. /\ more \in [1 .. m -> Seq(Octets)] /\ more[m] = Encode(p)
        /\ \A i \in 1 .. n : more[i] = seqs[i]
    <3>1. \A i \in 1 .. m : qs[i] \in Payloads
      BY <2>1
    <3>2. \A i \in 1 .. m : Encode(qs[i]) \in Seq(Octets)
      BY <3>1, EncodeIs
    <3> QED
      BY <1>1, <2>1, <3>2 DEF seqs
  <2>3. Len(more) = m
    <3> HIDE DEF more, m
    <3> QED
      BY <2>1, <2>2
  <2>4. Wire(qs) = g[m]
    <3>1. Wire(qs) = FlattenSeq(more)
      BY DEF Wire
    <3> HIDE DEF more, m
    <3>2. FlattenSeq(more) = (CHOOSE h : Flat(more, Len(more), h))[Len(more)]
      BY <2>1, <2>3 DEF FlattenSeq, Flat
    <3> QED
      BY <2>3, <3>1, <3>2
  <2> HIDE DEF qs, more, m
  <2>5. Flat(more, m, g)
    <3>1. \E h : Flat(more, m, h)
      BY <2>1, FlatIs
    <3> QED
      BY <3>1
  <2> HIDE DEF g
  <2>6. g[m] = IF m = 1 THEN more[m] ELSE g[m - 1] \o more[m]
    <3>1. m \in 1 .. m
      BY <2>1
    <3> QED
      BY <2>5, <3>1 DEF Flat
  <2>7. m - 1 = n /\ n <= m
    BY <1>1 DEF m
  <2>8. \A i \in 1 .. n : g[i] = f[i]
    <3>1. n \in Nat
      BY <1>1
    <3>2. m \in Nat
      BY <2>1
    <3>3. n <= m
      BY <2>7
    <3>4. \A i \in 1 .. n : more[i] = seqs[i]
      BY <2>2
    <3> HIDE DEF n
    <3> QED
      BY <1>4, <2>5, <3>1, <3>2, <3>3, <3>4, FlatAgrees
  <2>9. CASE n = 0
    <3>1. m = 1 /\ Wire(ps) = <<>>
      BY <1>5, <2>9 DEF m
    <3>2. <<>> \o Encode(p) = Encode(p)
      BY EncodeIs
    <3> QED
      BY <2>2, <2>4, <2>6, <3>1, <3>2 DEF qs
  <2>10. CASE n # 0
    <3>1. m # 1 /\ n \in 1 .. n
      BY <1>1, <2>10 DEF m
    <3>2. g[m - 1] = Wire(ps)
      BY <1>5, <2>7, <2>8, <2>10, <3>1
    <3> QED
      BY <2>2, <2>4, <2>6, <3>1, <3>2 DEF qs
  <2> QED
    BY <2>9, <2>10
<1> QED
  BY <1>3, <1>6, <1>7

--------------------------------------------------------------------------------
(* Sequences cut and put together.                                          *)

\* Sequences with the same entries are the same.
LEMMA SameEntries ==
  ASSUME NEW T, NEW s \in Seq(T), NEW t \in Seq(T), Len(s) = Len(t),
         \A i \in 1 .. Len(s) : s[i] = t[i]
  PROVE  s = t
OBVIOUS

\* The octets from one place to another, told by their places.
LEMMA SubSeqIs ==
  ASSUME NEW s, NEW a \in Int, NEW b \in Int, NEW x \in Nat, b - a + 1 = x
  PROVE  SubSeq(s, a, b) = [m \in 1 .. x |-> s[a + m - 1]]
OBVIOUS

\* A sequence is the function of its entries.
LEMMA EntriesOf ==
  ASSUME NEW T, NEW s \in Seq(T)
  PROVE  s = [m \in 1 .. Len(s) |-> s[m]]
<1>1. s \in [1 .. Len(s) -> T]
  OBVIOUS
<1> QED
  BY <1>1

\* One more behind the second of two sequences.
LEMMA AppendBehind ==
  ASSUME NEW T, NEW a \in Seq(T), NEW c \in Seq(T), NEW p \in T
  PROVE  a \o Append(c, p) = Append(a \o c, p) /\ a \o c \in Seq(T)
<1> DEFINE l == Append(c, p)
           ac == a \o c
           x == a \o l
           y == Append(ac, p)
<1>1. l \in Seq(T) /\ Len(l) = Len(c) + 1 /\ l[Len(c) + 1] = p /\ \A i \in 1 .. Len(c) : l[i] = c[i]
  OBVIOUS
<1>2. ac \in Seq(T) /\ Joins(ac, a, c)
  BY ConcatIs
<1> HIDE DEF ac, l
<1>3. x \in Seq(T) /\ Joins(x, a, l)
  BY <1>1, ConcatIs
<1>4. y \in Seq(T) /\ Len(y) = Len(ac) + 1 /\ y[Len(ac) + 1] = p /\ \A i \in 1 .. Len(ac) : y[i] = ac[i]
  BY <1>2
<1> HIDE DEF x, y
<1>5. Len(a) \in Nat /\ Len(c) \in Nat
  OBVIOUS
<1>6. Len(ac) = Len(a) + Len(c) /\ Len(x) = Len(a) + (Len(c) + 1) /\ Len(y) = Len(x)
  BY <1>1, <1>2, <1>3, <1>4, <1>5 DEF Joins
<1>7. ASSUME NEW i \in 1 .. Len(x) PROVE x[i] = y[i]
  <2>1. CASE i \in 1 .. Len(a)
    <3>1. i \in 1 .. Len(ac)
      BY <1>5, <1>6, <2>1
    <3> QED
      BY <1>2, <1>3, <1>4, <2>1, <3>1 DEF Joins
  <2>2. CASE i - Len(a) \in 1 .. Len(c)
    <3> DEFINE m == i - Len(a)
    <3>1. i \in 1 .. Len(ac) /\ m \in 1 .. Len(c) /\ m \in 1 .. Len(l) /\ i = Len(a) + m
      BY <1>1, <1>5, <1>6, <2>2
    <3> HIDE DEF m
    <3>2. x[i] = l[m] /\ ac[i] = c[m]
      BY <1>2, <1>3, <3>1 DEF Joins
    <3> QED
      BY <1>1, <1>4, <3>1, <3>2
  <2>3. CASE i = Len(a) + (Len(c) + 1)
    <3>1. Len(c) + 1 \in 1 .. Len(l) /\ i = Len(ac) + 1
      BY <1>1, <1>5, <1>6, <2>3
    <3>2. x[i] = l[Len(c) + 1]
      BY <1>3, <2>3, <3>1 DEF Joins
    <3> QED
      BY <1>1, <1>4, <3>1, <3>2
  <2>4. i \in 1 .. Len(a) \/ i - Len(a) \in 1 .. Len(c) \/ i = Len(a) + (Len(c) + 1)
    BY <1>5, <1>6
  <2> QED
    BY <2>1, <2>2, <2>3, <2>4
<1>8. x = y
  <2>1. x \in Seq(T) /\ y \in Seq(T) /\ Len(x) = Len(y)
    BY <1>3, <1>4, <1>6
  <2> QED
    BY <1>7, <2>1
<1> QED
  BY <1>2, <1>8 DEF x, y, l, ac

\* A sequence is its front with its last entry behind it.
LEMMA FrontAndLast ==
  ASSUME NEW T, NEW s \in Seq(T), s # <<>>
  PROVE  s = Append(SubSeq(s, 1, Len(s) - 1), s[Len(s)])
<1> DEFINE l == Len(s)
           c == SubSeq(s, 1, l - 1)
           t == Append(c, s[l])
<1>1. l \in Nat \ {0} /\ s[l] \in T
  OBVIOUS
<1>2. c \in Seq(T) /\ Len(c) = l - 1 /\ \A i \in 1 .. l - 1 : c[i] = s[i]
  <2>1. l - 1 \in Nat /\ 1 .. l - 1 \subseteq 1 .. l /\ DOMAIN s = 1 .. l
    BY <1>1
  <2>2. c = [i \in 1 .. l - 1 |-> s[1 + i - 1]]
    BY <2>1, SubSeqIs
  <2>3. \A i \in 1 .. l - 1 : s[1 + i - 1] = s[i] /\ s[i] \in T
    BY <2>1
  <2> HIDE DEF c
  <2>4. c \in [1 .. l - 1 -> T] /\ \A i \in 1 .. l - 1 : c[i] = s[i]
    BY <2>2, <2>3
  <2> DEFINE m == l - 1
  <2>5. m \in Nat /\ c \in [1 .. m -> T]
    BY <2>1, <2>4
  <2> HIDE DEF m
  <2>6. c \in Seq(T) /\ Len(c) = m
    BY <2>5
  <2> QED
    BY <2>4, <2>6 DEF m
<1> HIDE DEF c
<1>3. t \in Seq(T) /\ Len(t) = Len(c) + 1 /\ t[Len(c) + 1] = s[l] /\ \A i \in 1 .. Len(c) : t[i] = c[i]
  BY <1>1, <1>2
<1> HIDE DEF t
<1>4. Len(t) = l /\ t[l] = s[l]
  BY <1>1, <1>2, <1>3
<1>5. \A i \in 1 .. l : t[i] = s[i]
  BY <1>1, <1>2, <1>3, <1>4
<1> QED
  BY <1>3, <1>4, <1>5 DEF t, c

\* A sequence is its front with its tail behind it.
LEMMA CutIs ==
  ASSUME NEW T, NEW s \in Seq(T), NEW k \in 0 .. Len(s)
  PROVE  /\ SubSeq(s, 1, k) \in Seq(T) /\ Len(SubSeq(s, 1, k)) = k
         /\ SubSeq(s, k + 1, Len(s)) \in Seq(T) /\ Len(SubSeq(s, k + 1, Len(s))) = Len(s) - k
         /\ \A i \in 1 .. Len(s) - k : SubSeq(s, k + 1, Len(s))[i] = s[k + i]
         /\ SubSeq(s, 1, k) \o SubSeq(s, k + 1, Len(s)) = s
<1> DEFINE a == SubSeq(s, 1, k)
           b == SubSeq(s, k + 1, Len(s))
<1>1. a \in Seq(T) /\ Len(a) = k /\ \A i \in 1 .. k : a[i] = s[i]
  OBVIOUS
<1>2. b \in Seq(T) /\ Len(b) = Len(s) - k /\ \A i \in 1 .. Len(s) - k : b[i] = s[k + i]
  OBVIOUS
<1> HIDE DEF a, b
<1>3. /\ a \o b \in Seq(T) /\ Len(a \o b) = Len(s)
      /\ \A i \in 1 .. k : (a \o b)[i] = a[i]
      /\ \A i \in 1 .. Len(s) - k : (a \o b)[k + i] = b[i]
  <2>1. a \in Seq(T)
    BY <1>1
  <2>2. b \in Seq(T)
    BY <1>2
  <2>3. a \o b \in Seq(T) /\ Joins(a \o b, a, b)
    BY <2>1, <2>2, ConcatIs
  <2> QED
    BY <1>1, <1>2, <2>3 DEF Joins
<1>4. \A i \in 1 .. Len(s) : (a \o b)[i] = s[i]
  <2> SUFFICES ASSUME NEW i \in 1 .. Len(s) PROVE (a \o b)[i] = s[i]
    OBVIOUS
  <2>1. CASE i \in 1 .. k
    BY <1>1, <1>3, <2>1
  <2>2. CASE i \notin 1 .. k
    <3> DEFINE j == i - k
    <3>1. j \in 1 .. Len(s) - k /\ i = k + j
      BY <2>2
    <3> HIDE DEF j
    <3> QED
      BY <1>2, <1>3, <3>1
  <2> QED
    BY <2>1, <2>2
<1>5. a \o b = s
  <2>1. a \o b \in Seq(T)
    BY <1>3
  <2>2. Len(s) = Len(a \o b)
    BY <1>3
  <2>3. \A i \in 1 .. Len(s) : s[i] = (a \o b)[i]
    BY <1>4
  <2> DEFINE ab == a \o b
  <2> HIDE DEF ab
  <2>4. s = ab
    <3>1. ab \in Seq(T) /\ Len(s) = Len(ab) /\ \A i \in 1 .. Len(s) : s[i] = ab[i]
      BY <2>1, <2>2, <2>3 DEF ab
    <3> QED
      BY <3>1, SameEntries
  <2> QED
    BY <2>4 DEF ab
<1> QED
  BY <1>1, <1>2, <1>5 DEF a, b

\* Two ways to make the same sequence of two: the shorter front is the front of the
\* longer one.
Overlap(a, b, c, d) ==
  LET y == SubSeq(a, Len(c) + 1, Len(a)) IN a = c \o y /\ d = y \o b

\* It is.
LEMMA FrontOf ==
  ASSUME NEW T, NEW a \in Seq(T), NEW b \in Seq(T), NEW c \in Seq(T), NEW d \in Seq(T),
         a \o b = c \o d, Len(c) <= Len(a)
  PROVE  Overlap(a, b, c, d)
<1> DEFINE k == Len(c)
           x == SubSeq(a, 1, k)
           y == SubSeq(a, k + 1, Len(a))
<1>1. k \in 0 .. Len(a) /\ Len(a) \in Nat /\ Len(b) \in Nat /\ Len(d) \in Nat
  OBVIOUS
<1>2. /\ y \in Seq(T) /\ Len(y) = Len(a) - k /\ x \o y = a
      /\ \A i \in 1 .. Len(a) - k : y[i] = a[k + i]
  BY <1>1, CutIs
<1>3. x \in Seq(T) /\ Len(x) = k /\ \A i \in 1 .. k : x[i] = a[i]
  BY <1>1
<1>4. a \o b \in Seq(T) /\ Joins(a \o b, a, b)
  BY ConcatIs
<1>5. c \o d \in Seq(T) /\ Joins(c \o d, c, d)
  BY ConcatIs
<1>6. x = c
  <2>1. \A i \in 1 .. k : i \in 1 .. Len(a) /\ x[i] = c[i]
    BY <1>1, <1>3, <1>4, <1>5 DEF Joins
  <2>2. \A i \in 1 .. Len(x) : x[i] = c[i]
    BY <1>3, <2>1
  <2> HIDE DEF x
  <2>3. Len(x) = Len(c) /\ x \in Seq(T)
    BY <1>3
  <2> QED
    BY <2>2, <2>3, SameEntries
<1> HIDE DEF x, y
<1>7. Len(d) = Len(a) - k + Len(b)
  BY <1>1, <1>4, <1>5 DEF Joins
<1>8. y \o b \in Seq(T) /\ Joins(y \o b, y, b)
  BY <1>2, ConcatIs
<1> DEFINE yb == y \o b
<1> HIDE DEF k, yb
<1>9. ASSUME NEW i \in 1 .. Len(d)
      PROVE  d[i] = yb[i]
  <2>1. d[i] = (a \o b)[k + i]
    BY <1>5 DEF Joins, k
  <2>2. CASE i <= Len(y)
    <3>1. i \in 1 .. Len(y) /\ i \in 1 .. Len(a) - k /\ k + i \in 1 .. Len(a)
      BY <1>1, <1>2, <2>2
    <3> QED
      BY <1>2, <1>4, <1>8, <2>1, <3>1 DEF Joins, yb
  <2>3. CASE i > Len(y)
    <3> DEFINE j == i - Len(y)
    <3>1. j \in 1 .. Len(b) /\ i = Len(y) + j /\ k + i = Len(a) + j
      BY <1>1, <1>2, <1>7, <2>3
    <3> HIDE DEF j
    <3>2. (a \o b)[Len(a) + j] = b[j] /\ yb[Len(y) + j] = b[j]
      BY <1>4, <1>8, <3>1 DEF Joins, yb
    <3> QED
      BY <2>1, <3>1, <3>2
  <2>4. i <= Len(y) \/ i > Len(y)
    BY <1>1, <1>2
  <2> QED
    BY <2>2, <2>3, <2>4
<1>10. d = yb
  <2>1. yb \in Seq(T)
    BY <1>8 DEF yb
  <2>2. Len(d) = Len(yb)
    BY <1>2, <1>7, <1>8 DEF Joins, yb
  <2> QED
    BY <1>9, <2>1, <2>2, SameEntries
<1> QED
  BY <1>2, <1>6, <1>10 DEF y, k, yb, Overlap

\* Putting sequences behind each other in either order of the two steps.
Regroups(a, b, c) == (a \o b) \o c = a \o (b \o c)

\* Either way they are the same sequence.
LEMMA Associates ==
  ASSUME NEW T, NEW a \in Seq(T), NEW b \in Seq(T), NEW c \in Seq(T)
  PROVE  Regroups(a, b, c)
BY DEF Regroups

\* A sequence that is not empty is a first entry and the others.
HeadOf(s, x, t) == s = <<x>> \o t /\ Len(s) = 1 + Len(t)

\* It has such a first entry.
LEMMA HeadTail ==
  ASSUME NEW T, NEW s \in Seq(T), s # <<>>
  PROVE  \E x \in T, t \in Seq(T) : HeadOf(s, x, t)
<1> DEFINE a == SubSeq(s, 1, 1)
           b == SubSeq(s, 2, Len(s))
<1>1. Len(s) \in Nat /\ Len(s) # 0 /\ 1 \in 0 .. Len(s)
  OBVIOUS
<1>2. b \in Seq(T) /\ Len(b) = Len(s) - 1 /\ a \o b = s
  <2>1. /\ SubSeq(s, 1 + 1, Len(s)) \in Seq(T) /\ Len(SubSeq(s, 1 + 1, Len(s))) = Len(s) - 1
        /\ SubSeq(s, 1, 1) \o SubSeq(s, 1 + 1, Len(s)) = s
    BY <1>1, CutIs, Zenon
  <2>2. 1 + 1 = 2
    OBVIOUS
  <2> QED
    BY <2>1, <2>2
<1>3. a = <<s[1]>> /\ s[1] \in T
  <2>1. s[1] \in T
    BY <1>1
  <2>2. a \in Seq(T) /\ Len(a) = 1 /\ a[1] = s[1]
    BY <1>1
  <2>3. <<s[1]>> \in Seq(T) /\ Len(<<s[1]>>) = 1 /\ <<s[1]>>[1] = s[1]
    BY <2>1
  <2>4. \A i \in 1 .. 1 : i = 1
    OBVIOUS
  <2> DEFINE b1 == <<s[1]>>
  <2>5. b1 \in Seq(T) /\ Len(b1) = Len(a) /\ \A i \in 1 .. Len(a) : a[i] = b1[i]
    BY <2>2, <2>3, <2>4
  <2> HIDE DEF a, b1
  <2>6. a = b1
    BY <2>2, <2>5, SameEntries
  <2> QED
    BY <2>1, <2>6 DEF b1
<1>4. Len(s) = 1 + Len(b)
  BY <1>1, <1>2
<1> HIDE DEF a, b
<1>5. s = <<s[1]>> \o b
  BY <1>2, <1>3
<1>6. HeadOf(s, s[1], b)
  BY <1>4, <1>5 DEF HeadOf
<1> QED
  BY <1>2, <1>3, <1>6

\* The stream of some packets and of some more behind them.
LEMMA WireConcat ==
  ASSUME NEW a \in Seq(Payloads)
  PROVE  \A b \in Seq(Payloads) : Wire(a \o b) = Wire(a) \o Wire(b)
<1> DEFINE Good(b) == Wire(a \o b) = Wire(a) \o Wire(b)
           S == {n \in Nat : \E b \in Seq(Payloads) : Len(b) = n /\ ~Good(b)}
<1>1. S = {}
  <2> SUFFICES ASSUME S # {} PROVE FALSE
    OBVIOUS
  <2>1. PICK n \in S : \A m \in S : n <= m
    <3>1. S \in SUBSET Nat
      OBVIOUS
    <3> HIDE DEF S
    <3> QED
      BY <3>1, Smallest
  <2>2. PICK b \in Seq(Payloads) : Len(b) = n /\ ~Good(b)
    BY <2>1
  <2>3. Wire(a) \in Seq(Octets)
    BY WireIs
  <2>4. CASE b = <<>>
    <3>1. a \o b = a
      BY <2>4
    <3>2. Wire(a) \o <<>> = Wire(a)
      BY <2>3
    <3> QED
      BY <2>2, <2>4, <3>1, <3>2, WireIs
  <2>5. CASE b # <<>>
    <3> DEFINE c == SubSeq(b, 1, Len(b) - 1)
               p == b[Len(b)]
    <3>1. c \in Seq(Payloads) /\ p \in Payloads /\ Len(c) \in Nat /\ Len(c) < n
      BY <2>2, <2>5
    <3>2. b = Append(c, p)
      BY <2>5, FrontAndLast
    <3> HIDE DEF c, p
    <3>3. a \o b = Append(a \o c, p) /\ a \o c \in Seq(Payloads)
      <4>1. c \in Seq(Payloads) /\ p \in Payloads
        BY <3>1
      <4>2. a \o Append(c, p) = Append(a \o c, p) /\ a \o c \in Seq(Payloads)
        BY <4>1, AppendBehind
      <4> QED
        BY <3>2, <4>2
    <3>4. Good(c)
      <4> SUFFICES ASSUME Len(c) \in S PROVE FALSE
        BY <3>1
      <4>1. n <= Len(c)
        BY <2>1
      <4> QED
        BY <2>1, <3>1, <4>1
    <3>5. Wire(b) = Wire(c) \o Encode(p)
      BY <3>1, <3>2, WireIs
    <3>6. Wire(a \o b) = Wire(a \o c) \o Encode(p)
      <4> DEFINE ac == a \o c
      <4>1. ac \in Seq(Payloads)
        BY <3>3
      <4> HIDE DEF ac
      <4>2. Wire(Append(ac, p)) = Wire(ac) \o Encode(p)
        BY <3>1, <4>1, WireIs
      <4> QED
        BY <3>3, <4>2 DEF ac
    <3>7. Wire(c) \in Seq(Octets) /\ Encode(p) \in Seq(Octets)
      BY <3>1, WireIs, EncodeIs
    <3>8. (Wire(a) \o Wire(c)) \o Encode(p) = Wire(a) \o (Wire(c) \o Encode(p))
      <4> DEFINE x == Wire(a)
                 y == Wire(c)
                 z == Encode(p)
      <4>1. x \in Seq(Octets) /\ y \in Seq(Octets) /\ z \in Seq(Octets)
        BY <2>3, <3>7
      <4> HIDE DEF x, y, z
      <4>2. Regroups(x, y, z)
        BY <4>1, Associates
      <4> QED
        BY <4>2 DEF x, y, z, Regroups
    <3> QED
      BY <2>2, <3>4, <3>5, <3>6, <3>8
  <2> QED
    BY <2>4, <2>5
<1> SUFFICES ASSUME NEW b \in Seq(Payloads) PROVE Good(b)
  OBVIOUS
<1>2. Len(b) \in Nat
  OBVIOUS
<1> QED
  BY <1>1, <1>2

\* The stream of one packet, and of a packet with more behind it.
LEMMA WireFirst ==
  ASSUME NEW p \in Payloads, NEW qs \in Seq(Payloads)
  PROVE  Wire(<<p>>) = Encode(p) /\ Wire(<<p>> \o qs) = Encode(p) \o Wire(qs)
<1>1. <<>> \in Seq(Payloads) /\ <<p>> = Append(<<>>, p) /\ <<p>> \in Seq(Payloads)
  OBVIOUS
<1>2. Wire(<<p>>) = Wire(<<>>) \o Encode(p) /\ Wire(<<>>) = <<>>
  BY <1>1, WireIs
<1>3. <<>> \o Encode(p) = Encode(p)
  BY EncodeIs
<1>4. Wire(<<p>> \o qs) = Wire(<<p>>) \o Wire(qs)
  BY <1>1, WireConcat
<1> QED
  BY <1>2, <1>3, <1>4

--------------------------------------------------------------------------------
(* The decoder.                                                             *)

\* No complete packet begins with the i-th octet (the two early returns of
\* decode_with); and what it is if there is one.
Incomplete(w, i) == i + 1 > Len(w) \/ i + 1 + w[i + 1] > Len(w)
PacketAt(w, i)   == SubSeq(w, i + PrefixLen, i + 1 + w[i + 1])
After(w, i)      == i + PrefixLen + w[i + 1]

\* The packets from each place of a window on, from the k-th on.
Decoding(w, k, f) ==
  f = [i \in k .. Len(w) + 1 |->
        IF Incomplete(w, i) THEN <<>> ELSE <<PacketAt(w, i)>> \o f[After(w, i)]]

\* The next packet begins behind this one, and no further than the end of the window.
LEMMA AfterIs ==
  ASSUME NEW w \in Seq(Octets), NEW i \in 1 .. Len(w) + 1, ~Incomplete(w, i)
  PROVE  /\ After(w, i) \in i + 2 .. Len(w) + 1 /\ w[i + 1] \in 0 .. MaxPayload
         /\ PacketAt(w, i) \in Payloads
<1>1. MaxPayload \in Nat
  BY WindowAssumption
<1>2. ~ (i + 1 > Len(w)) /\ ~ (i + 1 + w[i + 1] > Len(w)) /\ Len(w) \in Nat
  BY DEF Incomplete
<1>3. i + 1 \in 1 .. Len(w)
  BY <1>2
<1> DEFINE n == w[i + 1]
<1>4. n \in Octets
  BY <1>3
<1>5. n \in 0 .. MaxPayload /\ n \in Nat
  BY <1>1, <1>4 DEF Octets
<1>6. ~ (i + 1 + n > Len(w))
  BY <1>2
<1> HIDE DEF n
<1>7. i + 2 + n \in i + 2 .. Len(w) + 1
  BY <1>2, <1>5, <1>6
<1>8. SubSeq(w, i + 2, i + 1 + n) \in [1 .. n -> Octets]
  <2> DEFINE v == SubSeq(w, i + 2, i + 1 + n)
  <2>1. i + 2 \in Int /\ i + 1 + n \in Int /\ (i + 1 + n) - (i + 2) + 1 = n
    BY <1>5
  <2>2. v = [j \in 1 .. n |-> w[i + 2 + j - 1]]
    BY <2>1, SubSeqIs
  <2>3. \A j \in 1 .. n : i + 2 + j - 1 \in 1 .. Len(w)
    BY <1>2, <1>5, <1>6
  <2>4. \A j \in 1 .. n : w[i + 2 + j - 1] \in Octets
    BY <2>3
  <2> QED
    BY <2>2, <2>4
<1>9. SubSeq(w, i + 2, i + 1 + n) \in Payloads
  BY <1>5, <1>8 DEF Payloads
<1> QED
  BY <1>5, <1>7, <1>9 DEF After, PacketAt, PrefixLen, n

\* An octet is a number up to the largest length.
LEMMA OctetIs ==
  ASSUME NEW x \in Octets
  PROVE  x \in Nat /\ x <= MaxPayload
BY WindowAssumption DEF Octets

\* Whether a packet is complete does not depend on where its window begins.
LEMMA SameEnd ==
  ASSUME NEW k \in Nat, NEW i \in Nat, NEW x \in Nat, NEW m \in Nat, NEW l \in Nat, l = m - k
  PROVE  (k + i + 1 > m \/ k + i + 1 + x > m) <=> (i + 1 > l \/ i + 1 + x > l)
OBVIOUS

\* There is such a function from every place on.
LEMMA DecodingIs ==
  ASSUME NEW w \in Seq(Octets)
  PROVE  \A n \in 0 .. Len(w) : \E f : Decoding(w, Len(w) + 1 - n, f)
<1> DEFINE S == {n \in 0 .. Len(w) : ~ \E f : Decoding(w, Len(w) + 1 - n, f)}
<1> SUFFICES ASSUME S # {} PROVE FALSE
  OBVIOUS
<1>1. PICK n \in S : \A m \in S : n <= m
  <2>1. S \in SUBSET Nat
    OBVIOUS
  <2> HIDE DEF S
  <2> QED
    BY <2>1, Smallest
<1>2. n \in 0 .. Len(w) /\ (~ \E f : Decoding(w, Len(w) + 1 - n, f)) /\ Len(w) \in Nat
  BY <1>1
<1> DEFINE L == Len(w) + 1
           k == L - n
<1>3. L \in Nat /\ k \in 1 .. L /\ L = Len(w) + 1
  BY <1>2
<1>4. CASE n = 0
  <2> DEFINE f == [i \in k .. L |-> <<>>]
  <2>1. \A i \in k .. L : i = L
    BY <1>2, <1>3, <1>4
  <2>2. \A i \in k .. L : Incomplete(w, i)
    BY <1>2, <2>1 DEF Incomplete
  <2>3. f = [i \in k .. L |-> IF Incomplete(w, i) THEN <<>> ELSE <<PacketAt(w, i)>> \o f[After(w, i)]]
    BY <2>2
  <2> HIDE DEF f
  <2>4. Decoding(w, k, f)
    BY <2>3 DEF Decoding
  <2> QED
    BY <1>2, <2>4
<1>5. CASE n # 0
  <2>1. n - 1 \in 0 .. Len(w) /\ n - 1 < n /\ L - (n - 1) = k + 1
    BY <1>2, <1>3, <1>5
  <2>2. PICK g : Decoding(w, k + 1, g)
    <3>1. n - 1 \notin S
      <4> SUFFICES ASSUME n - 1 \in S PROVE FALSE
        OBVIOUS
      <4>1. n <= n - 1
        BY <1>1
      <4> QED
        BY <1>2, <4>1
    <3>2. \E f : Decoding(w, L - (n - 1), f)
      BY <2>1, <3>1
    <3> QED
      BY <2>1, <3>2
  <2> HIDE DEF k
  <2> DEFINE first == IF Incomplete(w, k) THEN <<>> ELSE <<PacketAt(w, k)>> \o g[After(w, k)]
             f == [i \in k .. L |-> IF i = k THEN first ELSE g[i]]
             step(i) == IF Incomplete(w, i) THEN <<>> ELSE <<PacketAt(w, i)>> \o f[After(w, i)]
  <2> HIDE DEF L
  <2>3. \A i \in k + 1 .. L : i \in k .. L /\ i # k /\ f[i] = g[i]
    BY <1>3
  <2>4. k \in k .. L /\ f[k] = first
    BY <1>3
  <2> HIDE DEF f
  <2>5. \A i \in k .. L : ~Incomplete(w, i) => After(w, i) \in k + 1 .. L /\ f[After(w, i)] = g[After(w, i)]
    <3> SUFFICES ASSUME NEW i \in k .. L, ~Incomplete(w, i)
                 PROVE  After(w, i) \in k + 1 .. L /\ f[After(w, i)] = g[After(w, i)]
      OBVIOUS
    <3>1. i \in 1 .. Len(w) + 1
      BY <1>3
    <3>2. After(w, i) \in i + 2 .. Len(w) + 1
      BY <3>1, AfterIs
    <3>3. After(w, i) \in k + 1 .. L
      BY <1>3, <3>1, <3>2
    <3> QED
      BY <2>3, <3>3
  <2>6. f[k] = step(k)
    BY <2>4, <2>5
  <2>7. ASSUME NEW i \in k + 1 .. L
        PROVE  f[i] = step(i)
    <3>1. g[i] = IF Incomplete(w, i) THEN <<>> ELSE <<PacketAt(w, i)>> \o g[After(w, i)]
      BY <1>3, <2>2 DEF Decoding
    <3> QED
      BY <2>3, <2>5, <3>1
  <2>8. \A i \in k .. L : f[i] = step(i)
    <3>1. \A i \in k .. L : i = k \/ i \in k + 1 .. L
      BY <1>3
    <3> QED
      BY <2>6, <2>7, <3>1
  <2>9. f = [i \in k .. L |-> f[i]]
    BY DEF f
  <2>10. Decoding(w, k, f)
    BY <1>3, <2>8, <2>9 DEF Decoding
  <2> QED
    BY <1>2, <2>10 DEF k, L
<1> QED
  BY <1>4, <1>5

\* v is what is left of w behind the k-th octet.
Rest(v, w, k) == Len(v) = Len(w) - k /\ \A i \in 1 .. Len(v) : v[i] = w[k + i]

\* Two functions that agree from a place on.
Continues(f, g, k, n) == \A i \in 1 .. n : f[k + i] = g[i]

\* The packets from a place on do not depend on what stands in front of it.
LEMMA DecodingAgrees ==
  ASSUME NEW w \in Seq(Octets), NEW f, Decoding(w, 1, f),
         NEW k \in 0 .. Len(w), NEW v \in Seq(Octets), Rest(v, w, k),
         NEW g, Decoding(v, 1, g)
  PROVE  Continues(f, g, k, Len(v) + 1)
<1> DEFINE S == {n \in 0 .. Len(v) : f[k + (Len(v) + 1 - n)] # g[Len(v) + 1 - n]}
<1>1. /\ v \in Seq(Octets) /\ Len(v) = Len(w) - k /\ Len(v) \in Nat /\ Len(w) \in Nat
      /\ \A i \in 1 .. Len(v) : v[i] = w[k + i]
  <2>1. Len(w) \in Nat /\ Len(v) \in Nat
    OBVIOUS
  <2> QED
    BY <2>1 DEF Rest
<1>2. S = {}
  <2> SUFFICES ASSUME S # {} PROVE FALSE
    OBVIOUS
  <2>1. PICK n \in S : \A m \in S : n <= m
    <3>1. S \in SUBSET Nat
      OBVIOUS
    <3> HIDE DEF S
    <3> QED
      BY <3>1, Smallest
  <2> DEFINE i == Len(v) + 1 - n
  <2>2. n \in 0 .. Len(v) /\ f[k + i] # g[i]
    BY <2>1
  <2>3. i \in 1 .. Len(v) + 1 /\ k + i \in 1 .. Len(w) + 1
    BY <1>1, <2>2
  <2> HIDE DEF i
  <2>4. /\ f[k + i] = IF Incomplete(w, k + i) THEN <<>> ELSE <<PacketAt(w, k + i)>> \o f[After(w, k + i)]
        /\ g[i] = IF Incomplete(v, i) THEN <<>> ELSE <<PacketAt(v, i)>> \o g[After(v, i)]
    BY <2>3 DEF Decoding
  <2>5. Incomplete(w, k + i) <=> Incomplete(v, i)
    <3>1. CASE i + 1 > Len(v)
      BY <1>1, <2>3, <3>1 DEF Incomplete
    <3>2. CASE ~(i + 1 > Len(v))
      <4>1. i + 1 \in 1 .. Len(v) /\ k + (i + 1) = k + i + 1
        BY <1>1, <2>3, <3>2
      <4>2. v[i + 1] = w[k + i + 1] /\ v[i + 1] \in Octets
        <5>1. v[i + 1] \in Octets
          BY <4>1
        <5>2. v[i + 1] = w[k + (i + 1)]
          BY <1>1, <4>1
        <5> QED
          BY <4>1, <5>1, <5>2
      <4>3. v[i + 1] \in Nat
        BY <4>2, OctetIs
      <4> DEFINE x == v[i + 1]
      <4>4. x = w[k + i + 1] /\ x \in Nat
        BY <4>2, <4>3
      <4> HIDE DEF x
      <4>5. (k + i + 1 > Len(w) \/ k + i + 1 + x > Len(w)) <=> (i + 1 > Len(v) \/ i + 1 + x > Len(v))
        <5>1. k \in Nat /\ i \in Nat
          BY <1>1, <2>3
        <5>2. Len(w) \in Nat /\ Len(v) \in Nat /\ Len(v) = Len(w) - k
          BY <1>1
        <5> DEFINE m == Len(w)
                   l == Len(v)
        <5>3. m \in Nat /\ l \in Nat /\ l = m - k
          BY <5>2
        <5> HIDE DEF m, l
        <5>4. (k + i + 1 > m \/ k + i + 1 + x > m) <=> (i + 1 > l \/ i + 1 + x > l)
          BY <4>4, <5>1, <5>3, SameEnd
        <5> QED
          BY <5>4 DEF m, l
      <4> QED
        BY <4>4, <4>5 DEF Incomplete, x
    <3> QED
      BY <3>1, <3>2
  <2>6. CASE Incomplete(v, i)
    BY <2>2, <2>4, <2>5, <2>6
  <2>7. CASE ~Incomplete(v, i)
    <3>1. /\ After(v, i) \in i + 2 .. Len(v) + 1 /\ v[i + 1] \in 0 .. MaxPayload
      BY <1>1, <2>3, <2>7, AfterIs
    <3>2. i + 1 + v[i + 1] <= Len(v) /\ v[i + 1] = w[k + i + 1] /\ v[i + 1] \in Nat
      <4>1. ~(i + 1 > Len(v)) /\ ~(i + 1 + v[i + 1] > Len(v))
        BY <2>7 DEF Incomplete
      <4>2. i + 1 \in 1 .. Len(v) /\ k + (i + 1) = k + i + 1
        BY <1>1, <2>3, <4>1
      <4>3. v[i + 1] \in Nat
        <5>1. v[i + 1] \in Octets
          BY <3>1 DEF Octets
        <5> QED
          BY <5>1, OctetIs
      <4>4. v[i + 1] = w[k + i + 1]
        BY <1>1, <4>2
      <4>5. i + 1 + v[i + 1] <= Len(v)
        <5> DEFINE x == v[i + 1]
        <5>1. x \in Nat /\ ~(i + 1 + x > Len(v))
          BY <4>1, <4>3
        <5> HIDE DEF x
        <5>2. i + 1 + x <= Len(v)
          BY <1>1, <2>3, <5>1
        <5> QED
          BY <5>2 DEF x
      <4> QED
        BY <4>3, <4>4, <4>5
    <3> DEFINE x == v[i + 1]
               j == After(v, i)
    <3>3. x \in Nat /\ i + 1 + x <= Len(v) /\ w[k + i + 1] = x /\ j = i + 2 + x
      BY <3>2 DEF After, PrefixLen
    <3>4. After(w, k + i) = k + j /\ j \in i + 2 .. Len(v) + 1
      <4>1. After(w, k + i) = k + i + 2 + x
        BY <3>3 DEF After, PrefixLen
      <4> HIDE DEF x
      <4>2. k + i + 2 + x = k + j
        BY <2>3, <3>3
      <4> QED
        BY <3>1, <4>1, <4>2
    <3>5. PacketAt(w, k + i) = PacketAt(v, i)
      <4>1. PacketAt(v, i) = SubSeq(v, i + 2, i + 1 + x) /\ PacketAt(w, k + i) = SubSeq(w, k + i + 2, k + i + 1 + x)
        BY <3>3 DEF PacketAt, PrefixLen
      <4> HIDE DEF x, j
      <4>2. /\ SubSeq(v, i + 2, i + 1 + x) = [m \in 1 .. x |-> v[i + 2 + m - 1]]
            /\ SubSeq(w, k + i + 2, k + i + 1 + x) = [m \in 1 .. x |-> w[k + i + 2 + m - 1]]
        <5>1. /\ (i + 1 + x) - (i + 2) + 1 = x /\ (k + i + 1 + x) - (k + i + 2) + 1 = x
              /\ i + 2 \in Int /\ i + 1 + x \in Int /\ k + i + 2 \in Int /\ k + i + 1 + x \in Int
          BY <2>3, <3>3
        <5> DEFINE a == i + 2
                   b == i + 1 + x
                   c == k + i + 2
                   d == k + i + 1 + x
        <5>2. a \in Int /\ b \in Int /\ c \in Int /\ d \in Int /\ b - a + 1 = x /\ d - c + 1 = x /\ x \in Nat
          BY <3>3, <5>1
        <5> HIDE DEF a, b, c, d
        <5>3. SubSeq(v, a, b) = [m \in 1 .. x |-> v[a + m - 1]]
          BY <5>2, SubSeqIs
        <5>4. SubSeq(w, c, d) = [m \in 1 .. x |-> w[c + m - 1]]
          BY <5>2, SubSeqIs
        <5> QED
          BY <5>3, <5>4 DEF a, b, c, d
      <4>3. \A m \in 1 .. x : v[i + 2 + m - 1] = w[k + i + 2 + m - 1]
        <5> SUFFICES ASSUME NEW m \in 1 .. x PROVE v[i + 2 + m - 1] = w[k + i + 2 + m - 1]
          OBVIOUS
        <5>1. i + 2 + m - 1 \in 1 .. Len(v) /\ k + (i + 2 + m - 1) = k + i + 2 + m - 1
          BY <1>1, <2>3, <3>3
        <5> QED
          BY <1>1, <5>1
      <4> QED
        BY <4>1, <4>2, <4>3
    <3>6. f[k + j] = g[j]
      <4> DEFINE m == Len(v) + 1 - j
      <4>1. m \in 0 .. Len(v) /\ m < n /\ j = Len(v) + 1 - m
        <5>1. j \in i + 2 .. Len(v) + 1
          BY <3>4
        <5> HIDE DEF j
        <5>2. Len(v) \in Nat /\ n \in Nat /\ i = Len(v) + 1 - n /\ i \in Nat /\ i # 0
          <6>1. Len(v) \in Nat
            BY <1>1
          <6>2. n \in Nat
            BY <2>2
          <6>3. i \in Nat /\ i # 0
            BY <2>3
          <6> QED
            BY <6>1, <6>2, <6>3 DEF i
        <5> DEFINE l == Len(v)
        <5>3. /\ j \in i + 2 .. l + 1 /\ l \in Nat /\ n \in Nat /\ i = l + 1 - n /\ i \in Nat /\ i # 0
              /\ m = l + 1 - j
          BY <5>1, <5>2
        <5> HIDE DEF l, m
        <5>4. m \in 0 .. l /\ m < n /\ j = l + 1 - m
          BY <5>3
        <5> QED
          BY <5>4 DEF l
      <4> HIDE DEF m, j
      <4>2. m \notin S
        <5> SUFFICES ASSUME m \in S PROVE FALSE
          OBVIOUS
        <5>1. n <= m
          BY <2>1
        <5> QED
          BY <1>1, <2>2, <4>1, <5>1
      <4> QED
        BY <4>1, <4>2
    <3> QED
      BY <2>2, <2>4, <2>5, <2>7, <3>4, <3>5, <3>6
  <2> QED
    BY <2>6, <2>7
<1> SUFFICES ASSUME NEW i \in 1 .. Len(v) + 1 PROVE f[k + i] = g[i]
  BY DEF Continues
<1> DEFINE n == Len(v) + 1 - i
<1>3. n \in 0 .. Len(v) /\ Len(v) + 1 - n = i
  BY <1>1
<1> HIDE DEF n
<1> QED
  BY <1>2, <1>3

\* decode_with takes the packet at the front of the window, and then those of the
\* rest, as if that were the window.
LEMMA FramesInIs ==
  ASSUME NEW w \in Seq(Octets)
  PROVE  FramesIn(w) = IF Incomplete(w, 1) THEN <<>>
                       ELSE <<PacketAt(w, 1)>> \o FramesIn(SubSeq(w, 3 + w[2], Len(w)))
<1> DEFINE F(v) == CHOOSE f : Decoding(v, 1, f)
<1>1. \A v \in Seq(Octets) : Decoding(v, 1, F(v)) /\ FramesIn(v) = F(v)[1]
  <2> SUFFICES ASSUME NEW v \in Seq(Octets) PROVE Decoding(v, 1, F(v)) /\ FramesIn(v) = F(v)[1]
    OBVIOUS
  <2>1. Len(v) \in 0 .. Len(v) /\ Len(v) + 1 - Len(v) = 1
    OBVIOUS
  <2>2. \E f : Decoding(v, 1, f)
    BY <2>1, DecodingIs
  <2>3. Decoding(v, 1, F(v))
    BY <2>2
  <2>4. FramesIn(v) = F(v)[1]
    BY DEF FramesIn, Decoding, Incomplete, PacketAt, After
  <2> QED
    BY <2>3, <2>4
<1> HIDE DEF F
<1>2. 1 \in 1 .. Len(w) + 1
  OBVIOUS
<1>3. F(w)[1] = IF Incomplete(w, 1) THEN <<>> ELSE <<PacketAt(w, 1)>> \o F(w)[After(w, 1)]
  BY <1>1, <1>2 DEF Decoding
<1>4. CASE Incomplete(w, 1)
  BY <1>1, <1>3, <1>4
<1>5. CASE ~Incomplete(w, 1)
  <2> DEFINE k == 2 + w[2]
             v == SubSeq(w, k + 1, Len(w))
  <2>1. After(w, 1) \in 3 .. Len(w) + 1 /\ w[2] \in 0 .. MaxPayload
    <3>1. After(w, 1) \in 1 + 2 .. Len(w) + 1 /\ w[1 + 1] \in 0 .. MaxPayload
      BY <1>2, <1>5, AfterIs
    <3> QED
      BY <3>1
  <2>2. w[2] \in Nat
    BY <2>1, WindowAssumption
  <2>3. After(w, 1) = k + 1 /\ k \in 0 .. Len(w) /\ k + 1 = 3 + w[2]
    <3> DEFINE x == w[2]
    <3>1. After(w, 1) = 1 + 2 + x
      BY DEF After, PrefixLen
    <3>2. x \in Nat
      BY <2>2
    <3> HIDE DEF x
    <3>3. 1 + 2 + x = (2 + x) + 1 /\ 2 + x \in 0 .. Len(w) /\ (2 + x) + 1 = 3 + x
      BY <2>1, <3>1, <3>2
    <3> QED
      BY <3>1, <3>3 DEF x
  <2> HIDE DEF k
  <2>4. v \in Seq(Octets)
    BY <2>3, CutIs
  <2>5. Decoding(w, 1, F(w)) /\ Decoding(v, 1, F(v))
    BY <1>1, <2>4
  <2> HIDE DEF v
  <2>6. \A i \in 1 .. Len(v) + 1 : F(w)[k + i] = F(v)[i]
    <3>1. v \in Seq(Octets) /\ Len(v) = Len(w) - k /\ \A i \in 1 .. Len(w) - k : v[i] = w[k + i]
      BY <2>3, CutIs DEF v
    <3>2. k \in 0 .. Len(w)
      BY <2>3
    <3>6. Rest(v, w, k)
      BY <3>1 DEF Rest
    <3> DEFINE f == F(w)
               g == F(v)
    <3>3. Decoding(w, 1, f)
      BY <2>5
    <3>4. Decoding(v, 1, g)
      BY <2>5
    <3> HIDE DEF f, g
    <3>5. Continues(f, g, k, Len(v) + 1)
      BY <2>4, <3>2, <3>3, <3>4, <3>6, DecodingAgrees
    <3> QED
      BY <3>5 DEF f, g, Continues
  <2>7. 1 \in 1 .. Len(v) + 1
    BY <2>4
  <2>8. F(w)[k + 1] = F(v)[1]
    BY <2>6, <2>7
  <2> QED
    BY <1>1, <1>3, <1>5, <2>3, <2>4, <2>8 DEF v
<1> QED
  BY <1>4, <1>5

\* What decode_with takes out of a window are packets.
LEMMA FramesType == \A w \in Seq(Octets) : FramesIn(w) \in Seq(Payloads)
<1> DEFINE Good(w) == FramesIn(w) \in Seq(Payloads)
           S == {n \in Nat : \E w \in Seq(Octets) : Len(w) = n /\ ~Good(w)}
<1>1. S = {}
  <2> SUFFICES ASSUME S # {} PROVE FALSE
    OBVIOUS
  <2>1. PICK n \in S : \A m \in S : n <= m
    <3>1. S \in SUBSET Nat
      OBVIOUS
    <3> HIDE DEF S
    <3> QED
      BY <3>1, Smallest
  <2>2. PICK w \in Seq(Octets) : Len(w) = n /\ ~Good(w)
    BY <2>1
  <2>3. ~Incomplete(w, 1)
    <3> SUFFICES ASSUME Incomplete(w, 1) PROVE FALSE
      OBVIOUS
    <3>1. FramesIn(w) = <<>>
      BY FramesInIs
    <3> QED
      BY <2>2, <3>1
  <2> DEFINE v == SubSeq(w, 3 + w[2], Len(w))
             p == PacketAt(w, 1)
  <2>4. FramesIn(w) = <<p>> \o FramesIn(v)
    BY <2>3, FramesInIs
  <2>5. p \in Payloads /\ After(w, 1) \in 3 .. Len(w) + 1 /\ w[2] \in 0 .. MaxPayload
    <3>1. 1 \in 1 .. Len(w) + 1 /\ 1 + 2 = 3 /\ 1 + 1 = 2
      OBVIOUS
    <3>2. p \in Payloads /\ After(w, 1) \in 1 + 2 .. Len(w) + 1 /\ w[1 + 1] \in 0 .. MaxPayload
      BY <2>3, <3>1, AfterIs
    <3> QED
      BY <3>1, <3>2
  <2>6. v \in Seq(Octets) /\ Len(v) < n
    <3> DEFINE k == w[2]
    <3>1. k \in Nat
      BY <2>5, OctetIs DEF Octets
    <3>2. 2 + k \in 2 .. Len(w)
      <4>1. After(w, 1) = 1 + 2 + k
        BY DEF After, PrefixLen
      <4> HIDE DEF k
      <4> QED
        BY <2>5, <3>1, <4>1
    <3>3. v = SubSeq(w, (2 + k) + 1, Len(w))
      <4> HIDE DEF k
      <4>1. 3 + k = (2 + k) + 1
        BY <3>1
      <4> QED
        BY <4>1 DEF k
    <3> HIDE DEF k, v
    <3>4. 2 + k \in 0 .. Len(w)
      BY <3>1, <3>2
    <3>5. v \in Seq(Octets) /\ Len(v) = Len(w) - (2 + k)
      BY <3>3, <3>4, CutIs
    <3> QED
      BY <2>2, <3>1, <3>2, <3>5
  <2> HIDE DEF v, p
  <2>7. Good(v)
    <3> SUFFICES ASSUME ~Good(v) PROVE FALSE
      OBVIOUS
    <3>1. Len(v) \in S
      BY <2>6
    <3>2. n <= Len(v)
      BY <2>1, <3>1
    <3> QED
      BY <2>1, <2>6, <3>2
  <2>8. <<p>> \in Seq(Payloads)
    BY <2>5
  <2> QED
    BY <2>2, <2>4, <2>7, <2>8
<1> SUFFICES ASSUME NEW w \in Seq(Octets) PROVE Good(w)
  OBVIOUS
<1>2. Len(w) \in Nat
  OBVIOUS
<1> QED
  BY <1>1, <1>2

\* A window in front of a stream, decoded: a is what comes out, b what does not, and
\* t the octets of b that the window holds, not enough for its first packet.
Decoded(w, r, ps, a, b, t) ==
  /\ a \in Seq(Payloads) /\ b \in Seq(Payloads) /\ t \in Seq(Octets)
  /\ ps = a \o b /\ FramesIn(w) = a
  /\ w = Wire(a) \o t /\ t \o r = Wire(b)
  /\ b # <<>> => Len(t) < 2 + Len(b[1])

\* Behind the first packet of a stream, decoding goes on with the others.
LEMMA DecodedMore ==
  ASSUME NEW p \in Payloads, NEW qs \in Seq(Payloads), NEW w \in Seq(Octets), NEW y \in Seq(Octets),
         NEW r \in Seq(Octets), NEW a, NEW b, NEW t, Decoded(y, r, qs, a, b, t),
         w = Encode(p) \o y, FramesIn(w) = <<p>> \o FramesIn(y)
  PROVE  Decoded(w, r, <<p>> \o qs, <<p>> \o a, b, t)
<1>1. /\ a \in Seq(Payloads) /\ b \in Seq(Payloads) /\ t \in Seq(Octets) /\ qs = a \o b
      /\ FramesIn(y) = a /\ y = Wire(a) \o t /\ t \o r = Wire(b) /\ (b # <<>> => Len(t) < 2 + Len(b[1]))
  BY DEF Decoded
<1> DEFINE one == <<p>>
           e == Encode(p)
           wa == Wire(a)
<1>2. one \in Seq(Payloads)
  OBVIOUS
<1>3. e \in Seq(Octets) /\ wa \in Seq(Octets) /\ Wire(one \o a) = e \o wa
  BY <1>1, WireIs, EncodeIs, WireFirst
<1> HIDE DEF one, e, wa
<1>4. Regroups(one, a, b)
  BY <1>1, <1>2, Associates
<1>5. Regroups(e, wa, t)
  BY <1>1, <1>3, Associates
<1>6. one \o a \in Seq(Payloads)
  BY <1>1, <1>2
<1>7. w = Wire(one \o a) \o t
  BY <1>1, <1>3, <1>5 DEF Regroups, e, wa
<1>8. one \o qs = (one \o a) \o b
  BY <1>1, <1>4 DEF Regroups
<1>9. FramesIn(w) = one \o a
  BY <1>1 DEF one
<1> QED
  BY <1>1, <1>6, <1>7, <1>8, <1>9 DEF Decoded, one

\* However much of a stream the window holds, decode_with takes out the packets that
\* are complete, as they were sent, and leaves the octets of the next.
LEMMA DecodedIs ==
  \A ps \in Seq(Payloads), w \in Seq(Octets), r \in Seq(Octets) :
    w \o r = Wire(ps) => \E a, b, t : Decoded(w, r, ps, a, b, t)
<1> DEFINE Good(ps, w, r) == \E a, b, t : Decoded(w, r, ps, a, b, t)
           S == {n \in Nat : \E ps \in Seq(Payloads), w \in Seq(Octets), r \in Seq(Octets) :
                               Len(ps) = n /\ w \o r = Wire(ps) /\ ~Good(ps, w, r)}
<1>1. S = {}
  <2> SUFFICES ASSUME S # {} PROVE FALSE
    OBVIOUS
  <2>1. PICK n \in S : \A m \in S : n <= m
    <3>1. S \in SUBSET Nat
      OBVIOUS
    <3> HIDE DEF S
    <3> QED
      BY <3>1, Smallest
  <2>2. PICK ps \in Seq(Payloads), w \in Seq(Octets), r \in Seq(Octets) :
          Len(ps) = n /\ w \o r = Wire(ps) /\ ~Good(ps, w, r)
    BY <2>1
  <2>3. <<>> \in Seq(Payloads) /\ Wire(<<>>) = <<>> /\ <<>> \o w = w
    BY WireIs
  <2>4. w \o r \in Seq(Octets) /\ Joins(w \o r, w, r)
    BY ConcatIs
  <2>5. <<>> \o ps = ps /\ w = Wire(<<>>) \o w
    <3>1. <<>> \o ps = ps
      OBVIOUS
    <3>2. w = Wire(<<>>) \o w
      BY <2>3
    <3> QED
      BY <3>1, <3>2
  <2>6. CASE ps = <<>>
    <3>1. Len(w) = 0
      <4>1. Len(w \o r) = 0
        BY <2>2, <2>3, <2>6
      <4> QED
        BY <2>4, <4>1 DEF Joins
    <3>2. FramesIn(w) = <<>>
      <4>1. Incomplete(w, 1)
        BY <3>1 DEF Incomplete
      <4> QED
        BY <4>1, FramesInIs
    <3>3. Decoded(w, r, ps, <<>>, ps, w)
      BY <2>2, <2>3, <2>5, <2>6, <3>2 DEF Decoded
    <3> QED
      BY <2>2, <3>3
  <2>7. CASE ps # <<>>
    <3>1. PICK p \in Payloads, qs \in Seq(Payloads) : ps = <<p>> \o qs /\ Len(ps) = 1 + Len(qs)
      <4>1. PICK p \in Payloads, qs \in Seq(Payloads) : HeadOf(ps, p, qs)
        BY <2>7, HeadTail
      <4> QED
        BY <4>1 DEF HeadOf
    <3> DEFINE e == Encode(p)
               l == Len(p)
    <3>2. /\ e \in Seq(Octets) /\ Len(e) = 2 + l /\ e[2] = l /\ l \in Nat
          /\ p \in Seq(Octets) /\ \A i \in 1 .. l : e[2 + i] = p[i]
      <4>1. MaxPayload \in Nat
        BY WindowAssumption
      <4> QED
        BY <4>1, EncodeIs
    <3>3. w \o r = e \o Wire(qs) /\ Wire(qs) \in Seq(Octets)
      BY <2>2, <3>1, WireFirst, WireIs
    <3> HIDE DEF e, l
    <3>4. Joins(e \o Wire(qs), e, Wire(qs))
      BY <3>2, <3>3, ConcatIs
    <3>5. 2 <= Len(w) => w[2] = l
      <4> SUFFICES ASSUME 2 <= Len(w) PROVE w[2] = l
        OBVIOUS
      <4>1. 2 \in 1 .. Len(w) /\ 2 \in 1 .. Len(e)
        BY <3>2
      <4>2. (w \o r)[2] = w[2]
        BY <2>4, <4>1 DEF Joins
      <4>3. (e \o Wire(qs))[2] = e[2]
        BY <3>4, <4>1 DEF Joins
      <4> QED
        BY <3>2, <3>3, <4>2, <4>3
    <3>6. CASE Len(w) < 2 + l
      <4>1. Incomplete(w, 1)
        <5>1. Len(w) \in Nat
          OBVIOUS
        <5>2. CASE 2 > Len(w)
          BY <5>2 DEF Incomplete
        <5>3. CASE 2 <= Len(w)
          <6>1. w[1 + 1] = l
            BY <3>5, <5>3
          <6> DEFINE held == Len(w)
          <6>2. l \in Nat /\ held \in Nat /\ held < 2 + l
            BY <3>2, <3>6, <5>1
          <6> HIDE DEF held
          <6>3. 1 + 1 + l > held
            BY <6>2
          <6> QED
            BY <6>1, <6>3 DEF Incomplete, held
        <5> QED
          BY <5>1, <5>2, <5>3
      <4>2. FramesIn(w) = <<>>
        BY <4>1, FramesInIs
      <4>3. ps[1] = p
        BY <3>1
      <4>4. Decoded(w, r, ps, <<>>, ps, w)
        BY <2>2, <2>3, <2>5, <3>6, <4>2, <4>3 DEF Decoded, l
      <4> QED
        BY <2>2, <4>4
    <3>7. CASE Len(w) >= 2 + l
      <4> DEFINE y == SubSeq(w, Len(e) + 1, Len(w))
      <4>1. Len(e) <= Len(w) /\ Len(e) \in 0 .. Len(w)
        BY <3>2, <3>7
      <4>2. y \in Seq(Octets)
        BY <4>1, CutIs
      <4>3. w = e \o y /\ Wire(qs) = y \o r
        <5> DEFINE rest == Wire(qs)
        <5>1. rest \in Seq(Octets) /\ w \o r = e \o rest
          BY <3>3
        <5> HIDE DEF rest
        <5>2. e \in Seq(Octets) /\ Len(e) <= Len(w)
          BY <3>2, <4>1
        <5>3. Overlap(w, r, e, rest)
          BY <5>1, <5>2, FrontOf
        <5> QED
          BY <5>3 DEF Overlap, rest
      <4>4. w[2] = l /\ Len(w) \in Nat
        <5>1. Len(w) \in Nat /\ l \in Nat
          BY <3>2
        <5>2. 2 <= Len(w)
          BY <3>7, <5>1
        <5> QED
          BY <3>5, <5>1, <5>2
      <4>5. ~Incomplete(w, 1)
        <5> DEFINE held == Len(w)
        <5>1. l \in Nat /\ held \in Nat /\ held >= 2 + l /\ w[1 + 1] = l
          BY <3>2, <3>7, <4>4
        <5> HIDE DEF held
        <5>2. ~(1 + 1 > held) /\ ~(1 + 1 + l > held)
          BY <5>1
        <5> QED
          BY <5>1, <5>2 DEF Incomplete, held
      <4>6. PacketAt(w, 1) = p
        <5>1. PacketAt(w, 1) = SubSeq(w, 3, 2 + l)
          <6>1. 1 + 2 = 3 /\ 1 + 1 = 2 /\ 1 + 1 + l = 2 + l
            BY <3>2
          <6> QED
            BY <4>4, <6>1 DEF PacketAt, PrefixLen
        <5>2. SubSeq(w, 3, 2 + l) = [m \in 1 .. l |-> w[3 + m - 1]]
          BY <3>2, SubSeqIs
        <5>3. Joins(w, e, y)
          <6>1. Joins(e \o y, e, y)
            BY <3>2, <4>2, ConcatIs
          <6> HIDE DEF y
          <6> QED
            BY <4>3, <6>1
        <5>4. ASSUME NEW m \in 1 .. l
              PROVE  w[3 + m - 1] = p[m]
          <6>1. 3 + m - 1 = 2 + m /\ 2 + m \in 1 .. Len(e)
            BY <3>2
          <6>2. w[2 + m] = e[2 + m]
            BY <5>3, <6>1 DEF Joins
          <6> QED
            BY <3>2, <6>1, <6>2
        <5>5. p = [m \in 1 .. l |-> p[m]]
          <6>1. p \in Seq(Octets)
            BY <3>2
          <6>2. p = [m \in 1 .. Len(p) |-> p[m]]
            BY <6>1, EntriesOf
          <6> QED
            BY <6>2 DEF l
        <5> QED
          BY <5>1, <5>2, <5>4, <5>5
      <4>7. SubSeq(w, 3 + w[2], Len(w)) = y
        <5>1. 3 + l = Len(e) + 1
          BY <3>2
        <5> QED
          BY <4>4, <5>1
      <4>8. FramesIn(w) = <<p>> \o FramesIn(y)
        BY <4>5, <4>6, <4>7, FramesInIs
      <4> HIDE DEF y
      <4>9. Good(qs, y, r)
        <5> SUFFICES ASSUME ~Good(qs, y, r) PROVE FALSE
          OBVIOUS
        <5>1. Len(qs) \in Nat /\ Len(qs) < n
          BY <2>2, <3>1
        <5>2. Len(qs) \in S
          BY <4>2, <4>3, <5>1
        <5>3. n <= Len(qs)
          BY <2>1, <5>2
        <5> QED
          BY <2>1, <5>1, <5>3
      <4>10. PICK a, b, t : Decoded(y, r, qs, a, b, t)
        BY <4>9
      <4>11. w = Encode(p) \o y
        BY <4>3 DEF e
      <4>12. Decoded(w, r, <<p>> \o qs, <<p>> \o a, b, t)
        BY <4>2, <4>8, <4>10, <4>11, DecodedMore
      <4>13. Decoded(w, r, ps, <<p>> \o a, b, t)
        BY <3>1, <4>12
      <4> QED
        BY <2>2, <4>13
    <3>8. Len(w) \in Nat
      OBVIOUS
    <3> QED
      BY <3>2, <3>6, <3>7, <3>8
  <2> QED
    BY <2>6, <2>7
<1> SUFFICES ASSUME NEW ps \in Seq(Payloads), NEW w \in Seq(Octets), NEW r \in Seq(Octets), w \o r = Wire(ps)
             PROVE  Good(ps, w, r)
  OBVIOUS
<1>2. Len(ps) \in Nat
  OBVIOUS
<1> QED
  BY <1>1, <1>2

\* The stream of packets is at least as long as the first of them, and no longer if
\* that is the only one.
LEMMA WireLen ==
  ASSUME NEW b \in Seq(Payloads), b # <<>>
  PROVE  /\ b[1] \in Payloads /\ Len(b[1]) \in 0 .. MaxPayload /\ Len(Wire(b)) \in Nat
         /\ Len(Wire(b)) >= 2 + Len(b[1])
         /\ Len(b) = 1 => Len(Wire(b)) = 2 + Len(b[1])
<1>1. PICK p \in Payloads, qs \in Seq(Payloads) : HeadOf(b, p, qs)
  BY HeadTail
<1>2. b[1] = p /\ b = <<p>> \o qs /\ Len(b) = 1 + Len(qs)
  BY <1>1 DEF HeadOf
<1> DEFINE e == Encode(p)
           wq == Wire(qs)
<1>3. e \in Seq(Octets) /\ Len(e) = 2 + Len(p) /\ Len(p) \in 0 .. MaxPayload
  BY EncodeIs
<1>4. wq \in Seq(Octets) /\ Wire(b) = e \o wq
  BY <1>2, WireIs, WireFirst
<1>5. Len(b) = 1 => wq = <<>>
  <2>1. Len(b) = 1 => qs = <<>>
    BY <1>2
  <2> QED
    BY <2>1, WireIs
<1> HIDE DEF e, wq
<1>6. Len(e \o wq) = Len(e) + Len(wq) /\ Len(wq) \in Nat
  <2>1. e \in Seq(Octets) /\ wq \in Seq(Octets)
    BY <1>3, <1>4
  <2>2. Joins(e \o wq, e, wq)
    BY <2>1, ConcatIs
  <2> QED
    BY <2>1, <2>2 DEF Joins
<1>7. Len(p) \in Nat
  BY <1>3, WindowAssumption
<1>8. wq = <<>> => Len(wq) = 0
  OBVIOUS
<1> QED
  BY <1>2, <1>3, <1>4, <1>5, <1>6, <1>7, <1>8

--------------------------------------------------------------------------------
(* The steps.                                                               *)

\* What the peer has sent and has not been handed on; and that this is just what the
\* window and the socket hold.
Undelivered == SubSeq(sent, Len(delivered) + 1, Len(sent))
Behind      == sent = delivered \o Undelivered /\ window \o rx = Wire(Undelivered)

\* The window after a read of n octets, before decode.
Filled(n) == window \o SubSeq(rx, 1, Fitting(n, window))
Taken(n)  == FramesIn(Filled(n))
Handed(n) == IF Len(Taken(n)) <= DecodeBatch THEN Len(Taken(n)) ELSE DecodeBatch

\* What one read and one decode pass do, whatever the window holds.
LEMMA ReadIs ==
  ASSUME TypeOK, NEW n \in 1 .. Len(rx), DrainRead(n)
  PROVE  /\ Fitting(n, window) \in 0 .. n
         /\ Filled(n) \in Seq(Octets) /\ Len(Filled(n)) <= FrameCap
         /\ Len(Filled(n)) = Len(window) + Fitting(n, window)
         /\ Taken(n) \in Seq(Payloads) /\ Handed(n) \in 0 .. Len(Taken(n))
         /\ rx' = SubSeq(rx, n + 1, Len(rx)) /\ sent' = sent /\ lockstep' = lockstep
         /\ window' = IF Taken(n) = <<>> THEN Filled(n) ELSE <<>>
         /\ delivered' = delivered \o SubSeq(Taken(n), 1, Handed(n))
         /\ dropped' \subseteq dropped \cup {"overflow", "tail", "batch"}
         /\ dropped' = {} <=> /\ dropped = {} /\ Fitting(n, window) = n
                              /\ Len(Taken(n)) <= DecodeBatch
                              /\ Taken(n) # <<>> => Len(Filled(n)) <= Len(Wire(Taken(n)))
<1> DEFINE fit == Fitting(n, window)
           filled == Filled(n)
           packets == Taken(n)
           consumed == Len(Wire(packets))
           handed == SubSeq(packets, 1, Handed(n))
<1>1. FrameCap \in Nat /\ DecodeBatch \in Nat \ {0}
  BY WindowAssumption DEF FrameCap
<1>2. /\ rx \in Seq(Octets) /\ window \in Seq(Octets) /\ Len(window) \in Nat /\ Len(window) <= FrameCap
      /\ Len(rx) \in Nat
  BY DEF TypeOK
<1>3. fit \in 0 .. n
  BY <1>1, <1>2 DEF Fitting
<1>4. filled \in Seq(Octets) /\ Len(filled) = Len(window) + fit /\ Len(filled) <= FrameCap
  <2> DEFINE head == SubSeq(rx, 1, fit)
  <2>1. head \in Seq(Octets) /\ Len(head) = fit
    <3>1. fit \in 0 .. Len(rx)
      BY <1>2, <1>3
    <3> HIDE DEF fit
    <3> QED
      BY <1>2, <3>1, CutIs
  <2>2. Len(window) + fit <= FrameCap
    BY <1>1, <1>2 DEF Fitting
  <2>3. filled = window \o head
    BY DEF Filled
  <2> HIDE DEF head, filled, fit
  <2>4. window \o head \in Seq(Octets) /\ Len(window \o head) = Len(window) + Len(head)
    BY <1>2, <2>1
  <2> QED
    BY <2>1, <2>2, <2>3, <2>4
<1>5. packets \in Seq(Payloads)
  BY <1>4, FramesType DEF Taken
<1>6. Len(packets) \in Nat /\ Handed(n) \in 0 .. Len(packets) /\ Len(handed) = Handed(n)
  <2> HIDE DEF packets
  <2>1. Len(packets) \in Nat
    BY <1>5
  <2>2. Handed(n) \in 0 .. Len(packets)
    BY <1>1, <2>1 DEF Handed, packets
  <2> HIDE DEF handed
  <2>3. Len(handed) = Handed(n)
    BY <1>5, <2>2, CutIs DEF handed
  <2> QED
    BY <2>1, <2>2, <2>3
<1>7. consumed \in Nat /\ (consumed > 0 <=> packets # <<>>)
  <2> HIDE DEF packets
  <2>1. CASE packets = <<>>
    <3>1. Wire(packets) = <<>>
      BY <1>5, <2>1, WireIs
    <3> QED
      BY <2>1, <3>1
  <2>2. CASE packets # <<>>
    <3>1. /\ Len(packets[1]) \in 0 .. MaxPayload /\ consumed \in Nat /\ consumed >= 2 + Len(packets[1])
      BY <1>5, <2>2, WireLen
    <3>2. Len(packets[1]) \in Nat
      BY <3>1, WindowAssumption
    <3> QED
      BY <2>2, <3>1, <3>2
  <2> QED
    BY <2>1, <2>2
<1>8. /\ rx' = SubSeq(rx, n + 1, Len(rx)) /\ sent' = sent /\ lockstep' = lockstep
      /\ window' = Compacted(filled, consumed)
      /\ delivered' = delivered \o handed
      /\ dropped' = dropped
            \cup (IF fit < n THEN {"overflow"} ELSE {})
            \cup (IF Len(window') < Len(filled) - consumed THEN {"tail"} ELSE {})
            \cup (IF Len(handed) < Len(packets) THEN {"batch"} ELSE {})
  BY DEF DrainRead, Filled, Taken, Handed
<1> HIDE DEF fit, filled, packets, consumed, handed
<1>9. window' = IF packets = <<>> THEN filled ELSE <<>>
  BY <1>7, <1>8 DEF Compacted
<1>10. fit < n <=> fit # n
  BY <1>3
<1>11. Len(window') < Len(filled) - consumed <=> packets # <<>> /\ ~(Len(filled) <= consumed)
  <2>1. Len(filled) \in Nat
    BY <1>4
  <2>2. CASE packets = <<>>
    <3>1. consumed = 0 /\ window' = filled
      BY <1>7, <1>9, <2>2
    <3> QED
      BY <2>1, <2>2, <3>1
  <2>3. CASE packets # <<>>
    <3>1. window' = <<>> /\ Len(<<>>) = 0
      BY <1>9, <2>3
    <3>2. 0 < Len(filled) - consumed <=> ~(Len(filled) <= consumed)
      BY <1>7, <2>1
    <3> QED
      BY <2>3, <3>1, <3>2
  <2> QED
    BY <2>2, <2>3
<1>12. Len(handed) < Len(packets) <=> ~(Len(packets) <= DecodeBatch)
  <2>1. Len(handed) = IF Len(packets) <= DecodeBatch THEN Len(packets) ELSE DecodeBatch
    BY <1>6 DEF Handed, packets
  <2> QED
    BY <1>1, <1>6, <2>1
<1>13. dropped' = {} <=> /\ dropped = {} /\ fit = n /\ Len(packets) <= DecodeBatch
                         /\ packets # <<>> => Len(filled) <= consumed
  BY <1>8, <1>10, <1>11, <1>12
<1>14. dropped' \subseteq dropped \cup {"overflow", "tail", "batch"}
  BY <1>8
<1> QED
  BY <1>3, <1>4, <1>5, <1>6, <1>8, <1>9, <1>13, <1>14 DEF fit, filled, packets, consumed, handed

\* Every step keeps the types of the variables and the bound of the window.
LEMMA TypeStep == TypeOK /\ [Next]_vars => TypeOK'
<1> SUFFICES ASSUME TypeOK, [Next]_vars PROVE TypeOK'
  OBVIOUS
<1>1. ASSUME NEW p \in Payloads, PeerSends(p)
      PROVE  TypeOK'
  <2>1. /\ sent' = Append(sent, p) /\ rx' = rx \o Encode(p) /\ lockstep' \in BOOLEAN
        /\ UNCHANGED <<window, delivered, dropped>>
    BY <1>1 DEF PeerSends, TypeOK
  <2>2. sent' \in Seq(Payloads)
    BY <2>1 DEF TypeOK
  <2>3. rx' \in Seq(Octets)
    <3> DEFINE e == Encode(p)
    <3>1. e \in Seq(Octets) /\ rx \in Seq(Octets)
      BY EncodeIs DEF TypeOK
    <3>2. rx' = rx \o e
      BY <2>1
    <3> HIDE DEF e
    <3> QED
      BY <3>1, <3>2
  <2> QED
    BY <2>1, <2>2, <2>3 DEF TypeOK
<1>2. ASSUME NEW n \in 1 .. Len(rx), DrainRead(n)
      PROVE  TypeOK'
  <2>1. /\ Filled(n) \in Seq(Octets) /\ Len(Filled(n)) <= FrameCap
        /\ Taken(n) \in Seq(Payloads) /\ Handed(n) \in 0 .. Len(Taken(n))
        /\ rx' = SubSeq(rx, n + 1, Len(rx)) /\ sent' = sent /\ lockstep' = lockstep
        /\ window' = IF Taken(n) = <<>> THEN Filled(n) ELSE <<>>
        /\ delivered' = delivered \o SubSeq(Taken(n), 1, Handed(n))
        /\ dropped' \subseteq dropped \cup {"overflow", "tail", "batch"}
    BY <1>2, ReadIs
  <2>2. window' \in Seq(Octets) /\ Len(window') <= FrameCap
    <3>1. <<>> \in Seq(Octets) /\ Len(<<>>) = 0 /\ 0 <= FrameCap
      BY WindowAssumption DEF FrameCap
    <3> QED
      BY <2>1, <3>1
  <2>3. rx' \in Seq(Octets)
    <3>1. rx \in Seq(Octets) /\ n \in 0 .. Len(rx)
      BY DEF TypeOK
    <3> QED
      BY <2>1, <3>1, CutIs
  <2>4. delivered' \in Seq(Payloads)
    <3> DEFINE handed == SubSeq(Taken(n), 1, Handed(n))
    <3>1. handed \in Seq(Payloads)
      BY <2>1, CutIs
    <3>2. delivered' = delivered \o handed /\ delivered \in Seq(Payloads)
      BY <2>1 DEF TypeOK
    <3> HIDE DEF handed
    <3> QED
      BY <3>1, <3>2
  <2> QED
    BY <2>1, <2>2, <2>3, <2>4 DEF TypeOK
<1>3. CASE UNCHANGED vars
  BY <1>3 DEF vars, TypeOK
<1>4. \A n \in 1 .. (IF Len(rx) <= ReadLimit THEN Len(rx) ELSE ReadLimit) : n \in 1 .. Len(rx)
  BY WindowAssumption DEF TypeOK
<1> QED
  BY <1>1, <1>2, <1>3, <1>4 DEF Next

\* The read window never outgrows read_buf, and what is handed on are packets.
THEOREM TypeCorrect == Spec => []TypeOK
<1>1. Init => TypeOK
  <2> SUFFICES ASSUME Init PROVE TypeOK
    OBVIOUS
  <2>1. <<>> \in Seq(Payloads) /\ <<>> \in Seq(Octets) /\ Len(<<>>) = 0 /\ 0 <= FrameCap
    BY WindowAssumption DEF FrameCap
  <2> QED
    BY <2>1 DEF Init, TypeOK
<1> QED
  BY <1>1, TypeStep, PTL DEF Spec

\* A window that holds no complete packet has room for at least one octet more, if
\* FRAME_CAP has room for a prefix behind the largest payload: the window never
\* refuses every octet of a read (FRAME_CAP, decode, compact_read).
THEOREM NeverFull ==
  ASSUME Slack >= PrefixLen
  PROVE  Spec => []NeverWedged
<1>1. MaxPayload \in Nat /\ Slack \in Nat /\ FrameCap = MaxPayload + Slack /\ Slack >= 2
  BY WindowAssumption DEF FrameCap, PrefixLen
<1>2. Init => NeverWedged
  <2>1. Len(<<>>) = 0
    OBVIOUS
  <2> QED
    BY <1>1, <2>1 DEF Init, NeverWedged
<1>3. TypeOK /\ NeverWedged /\ [Next]_vars => NeverWedged'
  <2> SUFFICES ASSUME TypeOK, NeverWedged, [Next]_vars PROVE NeverWedged'
    OBVIOUS
  <2>1. ASSUME NEW n \in 1 .. Len(rx), DrainRead(n)
        PROVE  NeverWedged'
    <3> DEFINE w == Filled(n)
    <3>1. w \in Seq(Octets) /\ Taken(n) = FramesIn(w) /\ window' = IF Taken(n) = <<>> THEN w ELSE <<>>
      BY <2>1, ReadIs DEF Taken
    <3>2. CASE Taken(n) # <<>>
      <4>1. window' = <<>> /\ Len(<<>>) = 0
        BY <3>1, <3>2
      <4> QED
        BY <1>1, <4>1 DEF NeverWedged
    <3>3. CASE Taken(n) = <<>>
      <4> HIDE DEF w
      <4>1. Incomplete(w, 1)
        <5> SUFFICES ASSUME ~Incomplete(w, 1) PROVE FALSE
          OBVIOUS
        <5> DEFINE p == PacketAt(w, 1)
                   more == FramesIn(SubSeq(w, 3 + w[2], Len(w)))
        <5>1. FramesIn(w) = <<p>> \o more
          BY <3>1, FramesInIs
        <5>2. more \in Seq(Payloads)
          <6>1. 1 \in 1 .. Len(w) + 1 /\ 1 + 1 = 2 /\ Len(w) \in Nat
            BY <3>1
          <6>2. After(w, 1) \in 1 + 2 .. Len(w) + 1 /\ w[2] \in 0 .. MaxPayload
            BY <3>1, <6>1, AfterIs
          <6> DEFINE x == w[2]
          <6>3. x \in Nat /\ 1 + 2 + x \in 1 + 2 .. Len(w) + 1
            BY <1>1, <6>1, <6>2 DEF After, PrefixLen
          <6> HIDE DEF x
          <6>4. 2 + x \in 0 .. Len(w) /\ 3 + x = (2 + x) + 1
            BY <6>1, <6>3
          <6>5. SubSeq(w, (2 + x) + 1, Len(w)) \in Seq(Octets)
            BY <3>1, <6>4, CutIs
          <6> QED
            BY <6>4, <6>5, FramesType DEF x
        <5> HIDE DEF p, more
        <5>3. Len(<<p>> \o more) = 1 + Len(more) /\ Len(more) \in Nat
          BY <5>2
        <5>4. <<p>> \o more = <<>>
          BY <3>1, <3>3, <5>1
        <5> QED
          BY <5>3, <5>4
      <4>2. Len(w) \in Nat
        BY <3>1
      <4>3. CASE 1 + 1 > Len(w)
        BY <1>1, <3>1, <3>3, <4>2, <4>3 DEF NeverWedged
      <4>4. CASE ~(1 + 1 > Len(w))
        <5>1. 2 \in 1 .. Len(w) /\ 1 + 1 = 2
          BY <4>2, <4>4
        <5>2. w[2] \in Octets
          BY <3>1, <5>1
        <5>3. w[2] \in Nat /\ w[2] <= MaxPayload
          BY <5>2, OctetIs
        <5>4. 1 + 1 + w[2] > Len(w)
          BY <4>1, <4>4, <5>1 DEF Incomplete
        <5> DEFINE x == w[2]
        <5>5. x \in Nat /\ x <= MaxPayload /\ 1 + 1 + x > Len(w)
          BY <5>3, <5>4
        <5> HIDE DEF x
        <5>6. Len(w) < MaxPayload + Slack
          BY <1>1, <4>2, <5>5
        <5> QED
          BY <1>1, <3>1, <3>3, <5>6 DEF NeverWedged
      <4> QED
        BY <4>3, <4>4
    <3> QED
      BY <3>2, <3>3
  <2>2. ASSUME NEW p \in Payloads, PeerSends(p)
        PROVE  NeverWedged'
    <3>1. window' = window
      BY <2>2 DEF PeerSends
    <3> QED
      BY <3>1 DEF NeverWedged, FrameCap
  <2>3. CASE UNCHANGED vars
    BY <2>3 DEF vars, NeverWedged, FrameCap
  <2>4. \A n \in 1 .. (IF Len(rx) <= ReadLimit THEN Len(rx) ELSE ReadLimit) : n \in 1 .. Len(rx)
    BY WindowAssumption DEF TypeOK
  <2> QED
    BY <2>1, <2>2, <2>3, <2>4 DEF Next
<1> QED
  BY <1>2, <1>3, TypeCorrect, PTL DEF Spec

--------------------------------------------------------------------------------
(* The stream, and what became of it.                                       *)

\* What was sent behind what was handed on is what was not.
LEMMA UndeliveredIs ==
  ASSUME NEW S, NEW a \in Seq(S), NEW b \in Seq(S)
  PROVE  SubSeq(a \o b, Len(a) + 1, Len(a \o b)) = b /\ SubSeq(a \o b, 1, Len(a)) = a
<1> DEFINE ab == a \o b
           k == Len(a)
           y == SubSeq(ab, k + 1, Len(ab))
           x == SubSeq(ab, 1, k)
<1>1. ab \in Seq(S) /\ Joins(ab, a, b)
  BY ConcatIs
<1>2. Len(ab) = k + Len(b) /\ k \in Nat /\ Len(b) \in Nat
  BY <1>1 DEF Joins
<1>3. k \in 0 .. Len(ab) /\ Len(ab) - k = Len(b)
  BY <1>2
<1> HIDE DEF ab
<1>4. /\ y \in Seq(S) /\ Len(y) = Len(ab) - k
      /\ \A i \in 1 .. Len(ab) - k : y[i] = ab[k + i]
  BY <1>1, <1>3, CutIs
<1>5. y = b
  <2>1. \A i \in 1 .. Len(y) : y[i] = b[i]
    BY <1>1, <1>3, <1>4 DEF Joins
  <2>2. y \in Seq(S) /\ Len(y) = Len(b)
    BY <1>3, <1>4
  <2> HIDE DEF y
  <2> QED
    BY <2>1, <2>2, SameEntries
<1>6. x \in Seq(S) /\ Len(x) = k
  BY <1>1, <1>3, CutIs
<1>7. x = a
  <2>1. \A i \in 1 .. k : x[i] = ab[i]
    BY <1>1, <1>3
  <2>2. \A i \in 1 .. Len(x) : x[i] = a[i]
    BY <1>1, <1>6, <2>1 DEF Joins
  <2> HIDE DEF x
  <2> QED
    BY <1>6, <2>2, SameEntries
<1> QED
  BY <1>5, <1>7 DEF ab, x, y

\* The start of a connection: nothing sent, nothing held.
LEMMA BehindInit == Init => TypeOK /\ Behind /\ Undelivered = <<>>
<1> SUFFICES ASSUME Init PROVE TypeOK /\ Behind /\ Undelivered = <<>>
  OBVIOUS
<1>1. <<>> \in Seq(Payloads) /\ <<>> \in Seq(Octets) /\ Len(<<>>) = 0 /\ 0 <= FrameCap
  BY WindowAssumption DEF FrameCap
<1>2. TypeOK
  BY <1>1 DEF Init, TypeOK
<1>3. Undelivered = <<>>
  BY <1>1 DEF Init, Undelivered
<1>4. Wire(<<>>) = <<>> /\ <<>> \o <<>> = <<>>
  <2>1. Wire(<<>>) = <<>>
    BY <1>1, WireIs
  <2>2. <<>> \o <<>> = <<>>
    OBVIOUS
  <2> QED
    BY <2>1, <2>2
<1> QED
  BY <1>2, <1>3, <1>4 DEF Init, Behind

\* A packet sent is behind those that were not handed on yet.
LEMMA BehindSend ==
  ASSUME TypeOK, Behind, NEW p \in Payloads, PeerSends(p)
  PROVE  Behind' /\ Undelivered' = Append(Undelivered, p) /\ Undelivered \in Seq(Payloads)
<1> DEFINE u == Undelivered
           v == Append(u, p)
           e == Encode(p)
<1>1. /\ sent \in Seq(Payloads) /\ delivered \in Seq(Payloads)
      /\ rx \in Seq(Octets) /\ window \in Seq(Octets)
  BY DEF TypeOK
<1>2. /\ sent' = Append(sent, p) /\ rx' = rx \o e /\ window' = window /\ delivered' = delivered
  BY DEF PeerSends
<1>3. sent = delivered \o u /\ window \o rx = Wire(u)
  BY DEF Behind
<1>4. u \in Seq(Payloads)
  BY <1>1 DEF Undelivered
<1>5. Wire(v) = Wire(u) \o e /\ e \in Seq(Octets)
  BY <1>4, WireIs, EncodeIs
<1> HIDE DEF u, e
<1>6. sent' = delivered \o v /\ v \in Seq(Payloads)
  <2>1. v \in Seq(Payloads)
    BY <1>4
  <2>2. Append(delivered \o u, p) = delivered \o Append(u, p)
    <3> DEFINE d == delivered
    <3>1. d \in Seq(Payloads) /\ u \in Seq(Payloads)
      BY <1>1, <1>4
    <3> HIDE DEF d
    <3>2. d \o Append(u, p) = Append(d \o u, p)
      BY <3>1
    <3> QED
      BY <3>2 DEF d
  <2> QED
    BY <1>2, <1>3, <2>1, <2>2
<1> HIDE DEF v
<1>7. Undelivered' = v
  <2>1. SubSeq(delivered \o v, Len(delivered) + 1, Len(delivered \o v)) = v
    BY <1>1, <1>6, UndeliveredIs
  <2> QED
    BY <1>2, <1>6, <2>1 DEF Undelivered
<1>8. window' \o rx' = Wire(v)
  <2>1. Regroups(window, rx, e)
    BY <1>1, <1>5, Associates
  <2> QED
    BY <1>2, <1>3, <1>5, <2>1 DEF Regroups
<1>9. sent' = delivered' \o v
  BY <1>2, <1>6
<1> QED
  BY <1>4, <1>7, <1>8, <1>9 DEF Behind, u, v

\* A read that finds room for its octets: the window is then a front of the stream.
LEMMA ReadDecodes ==
  ASSUME TypeOK, Behind, NEW n \in 1 .. Len(rx), DrainRead(n), Fitting(n, window) = n
  PROVE  /\ Undelivered \in Seq(Payloads)
         /\ Len(Filled(n)) <= Len(Wire(Undelivered))
         /\ \E a, b, t : Decoded(Filled(n), rx', Undelivered, a, b, t)
<1> DEFINE head == SubSeq(rx, 1, n)
           tail == SubSeq(rx, n + 1, Len(rx))
           u == Undelivered
           w == Filled(n)
<1>1. /\ sent \in Seq(Payloads) /\ delivered \in Seq(Payloads)
      /\ rx \in Seq(Octets) /\ window \in Seq(Octets)
  BY DEF TypeOK
<1>2. n \in 0 .. Len(rx)
  OBVIOUS
<1>3. head \in Seq(Octets) /\ tail \in Seq(Octets) /\ head \o tail = rx
  BY <1>1, <1>2, CutIs
<1>4. w = window \o head /\ rx' = tail
  BY DEF Filled, DrainRead
<1>5. u \in Seq(Payloads)
  BY <1>1 DEF Undelivered
<1>6. window \o rx = Wire(u)
  BY DEF Behind
<1> HIDE DEF head, tail, u, w
<1>7. w \o rx' = Wire(u)
  <2>1. Regroups(window, head, tail)
    BY <1>1, <1>3, Associates
  <2> QED
    BY <1>3, <1>4, <1>6, <2>1 DEF Regroups
<1>8. w \in Seq(Octets) /\ rx' \in Seq(Octets)
  BY <1>1, <1>3, <1>4, ConcatIs
<1>9. \E a, b, t : Decoded(w, rx', u, a, b, t)
  BY <1>5, <1>7, <1>8, DecodedIs
<1>10. Len(w) <= Len(Wire(u))
  <2>1. Joins(w \o rx', w, rx')
    BY <1>8, ConcatIs
  <2>2. Len(Wire(u)) = Len(w) + Len(rx') /\ Len(w) \in Nat /\ Len(rx') \in Nat
    BY <1>7, <1>8, <2>1 DEF Joins
  <2> QED
    BY <2>2
<1> QED
  BY <1>5, <1>9, <1>10 DEF u, w

\* A read that loses nothing: what comes out is next in the stream, and what is still
\* held is the rest of it.
LEMMA BehindRead ==
  ASSUME TypeOK, Behind, NEW n \in 1 .. Len(rx), DrainRead(n), dropped' = {},
         NEW a, NEW b, NEW t, Decoded(Filled(n), rx', Undelivered, a, b, t)
  PROVE  Behind' /\ Undelivered' = b
<1> DEFINE u == Undelivered
           w == Filled(n)
<1>1. /\ a \in Seq(Payloads) /\ b \in Seq(Payloads) /\ t \in Seq(Octets) /\ u = a \o b
      /\ Taken(n) = a /\ w = Wire(a) \o t /\ t \o rx' = Wire(b)
  BY DEF Decoded, Taken
<1>2. /\ delivered \in Seq(Payloads) /\ sent = delivered \o u /\ sent' = sent
      /\ window \in Seq(Octets) /\ rx \in Seq(Octets)
  BY DEF TypeOK, Behind, DrainRead
<1>3. /\ Len(a) <= DecodeBatch /\ (a # <<>> => Len(w) <= Len(Wire(a)))
      /\ window' = IF a = <<>> THEN w ELSE <<>>
      /\ delivered' = delivered \o SubSeq(a, 1, Handed(n))
      /\ rx' = SubSeq(rx, n + 1, Len(rx)) /\ Handed(n) = Len(a)
  BY <1>1, ReadIs DEF Handed
<1> HIDE DEF u, w
<1>4. delivered' = delivered \o a
  <2>1. SubSeq(a, 1, Len(a)) = a
    BY <1>1
  <2> QED
    BY <1>3, <2>1
<1>5. sent' = delivered' \o b
  <2>1. Regroups(delivered, a, b)
    BY <1>1, <1>2, Associates
  <2> QED
    BY <1>1, <1>2, <1>4, <2>1 DEF Regroups
<1>6. delivered' \in Seq(Payloads)
  BY <1>1, <1>2, <1>4, ConcatIs
<1>7. Undelivered' = b
  <2> DEFINE d == delivered'
             s == sent'
  <2>1. d \in Seq(Payloads) /\ s = d \o b
    BY <1>5, <1>6
  <2> HIDE DEF d, s
  <2>2. SubSeq(d \o b, Len(d) + 1, Len(d \o b)) = b
    BY <1>1, <2>1, UndeliveredIs
  <2>3. SubSeq(s, Len(d) + 1, Len(s)) = b
    BY <2>1, <2>2
  <2> QED
    BY <2>3 DEF Undelivered, d, s
<1>8. window' \o rx' = Wire(b)
  <2>1. CASE a = <<>>
    <3>1. Wire(a) = <<>> /\ <<>> \o t = t
      BY <1>1, <2>1, WireIs
    <3> QED
      BY <1>1, <1>3, <2>1, <3>1
  <2>2. CASE a # <<>>
    <3> DEFINE wa == Wire(a)
    <3>1. wa \in Seq(Octets) /\ w = wa \o t /\ Len(w) <= Len(wa)
      BY <1>1, <1>3, <2>2, WireIs
    <3> HIDE DEF wa
    <3>2. Joins(wa \o t, wa, t)
      BY <1>1, <3>1, ConcatIs
    <3>3. Len(t) = 0
      <4>1. Len(w) = Len(wa) + Len(t) /\ Len(wa) \in Nat /\ Len(t) \in Nat
        BY <1>1, <3>1, <3>2 DEF Joins
      <4> QED
        BY <3>1, <4>1
    <3>4. t = <<>>
      BY <1>1, <3>3
    <3> QED
      BY <1>1, <1>3, <2>2, <3>4
  <2> QED
    BY <2>1, <2>2
<1> QED
  BY <1>5, <1>7, <1>8 DEF Behind

\* Until something is dropped, what the peer sent is what was handed on and, behind
\* it, what the window and the socket hold.
WindowInv == TypeOK /\ (dropped = {} => Behind)

\* Every step keeps it.
LEMMA WindowNext == WindowInv /\ [Next]_vars => WindowInv'
<1> SUFFICES ASSUME WindowInv, [Next]_vars PROVE WindowInv'
  OBVIOUS
<1>1. TypeOK /\ TypeOK'
  BY TypeStep DEF WindowInv
<1>2. ASSUME NEW p \in Payloads, PeerSends(p)
      PROVE  WindowInv'
  <2>1. dropped' = dropped
    BY <1>2 DEF PeerSends
  <2> QED
    BY <1>1, <1>2, <2>1, BehindSend DEF WindowInv
<1>3. ASSUME NEW n \in 1 .. Len(rx), DrainRead(n), dropped' = {}
      PROVE  Behind'
  <2>1. dropped = {} /\ Fitting(n, window) = n
    BY <1>1, <1>3, ReadIs
  <2>2. Behind
    BY <2>1 DEF WindowInv
  <2>3. PICK a, b, t : Decoded(Filled(n), rx', Undelivered, a, b, t)
    BY <1>1, <1>3, <2>1, <2>2, ReadDecodes
  <2> QED
    BY <1>1, <1>3, <2>2, <2>3, BehindRead
<1>4. CASE UNCHANGED vars
  BY <1>1, <1>4 DEF vars, WindowInv, Behind, Undelivered
<1>5. \A n \in 1 .. (IF Len(rx) <= ReadLimit THEN Len(rx) ELSE ReadLimit) : n \in 1 .. Len(rx)
  BY <1>1, WindowAssumption DEF TypeOK
<1> QED
  BY <1>1, <1>2, <1>3, <1>4, <1>5 DEF Next, WindowInv

\* Until something is dropped, however the stream is cut into reads, the packets come
\* out as they were sent (encode, drain_read, decode_with).
THEOREM StreamKept == Spec => []InStep
<1>1. Init => WindowInv
  BY BehindInit DEF WindowInv
<1>2. WindowInv => InStep
  <2> SUFFICES ASSUME WindowInv, dropped = {} PROVE InStep
    BY DEF InStep
  <2>1. Behind /\ sent \in Seq(Payloads) /\ delivered \in Seq(Payloads)
    BY DEF WindowInv, TypeOK
  <2>2. Undelivered \in Seq(Payloads)
    BY <2>1 DEF Undelivered
  <2>3. sent = delivered \o Undelivered
    BY <2>1 DEF Behind
  <2> DEFINE u == Undelivered
  <2>4. u \in Seq(Payloads) /\ sent = delivered \o u
    BY <2>2, <2>3
  <2> HIDE DEF u
  <2>5. SubSeq(delivered \o u, 1, Len(delivered)) = delivered
    BY <2>1, <2>4, UndeliveredIs
  <2> QED
    BY <2>1, <2>4, <2>5 DEF InStep, Behind, Undelivered
<1> QED
  BY <1>1, <1>2, WindowNext, PTL DEF Spec

\* A peer that waits until its packet was taken before it sends the next: there is
\* one packet at most on the way, and as long as there is, octets of it are to come.
LockstepInv ==
  lockstep => /\ dropped = {} /\ Len(Undelivered) <= 1
              /\ rx = <<>> => Undelivered = <<>>

\* Every step keeps it, if FRAME_CAP has room for a prefix and the largest payload.
LEMMA LockstepNext ==
  ASSUME Slack >= PrefixLen, WindowInv, LockstepInv, [Next]_vars
  PROVE  LockstepInv'
<1>1. TypeOK /\ TypeOK' /\ sent \in Seq(Payloads) /\ delivered \in Seq(Payloads) /\ rx \in Seq(Octets)
  BY TypeStep DEF WindowInv, TypeOK
<1>2. MaxPayload \in Nat /\ Slack \in Nat /\ FrameCap = MaxPayload + Slack /\ Slack >= 2
      /\ DecodeBatch \in Nat \ {0}
  BY WindowAssumption DEF FrameCap, PrefixLen
<1>3. ASSUME NEW p \in Payloads, PeerSends(p), lockstep'
      PROVE  /\ dropped' = {} /\ Len(Undelivered') <= 1
             /\ rx' = <<>> => Undelivered' = <<>>
  <2>1. lockstep /\ delivered = sent /\ dropped' = dropped /\ rx' = rx \o Encode(p)
    BY <1>1, <1>3 DEF PeerSends, TypeOK
  <2>2. dropped = {} /\ Behind
    BY <2>1 DEF LockstepInv, WindowInv
  <2>3. Undelivered' = Append(Undelivered, p) /\ Undelivered \in Seq(Payloads)
    BY <1>1, <1>3, <2>2, BehindSend
  <2>4. Undelivered = <<>>
    BY <1>1, <2>1 DEF Undelivered
  <2>5. Len(Undelivered') = 1
    <3>1. Len(Append(<<>>, p)) = 1
      OBVIOUS
    <3> QED
      BY <2>3, <2>4, <3>1
  <2>6. rx' # <<>>
    <3> DEFINE e == Encode(p)
    <3>1. e \in Seq(Octets) /\ Len(e) = 2 + Len(p) /\ Len(p) \in Nat
      BY <1>2, EncodeIs
    <3> HIDE DEF e
    <3>2. Joins(rx \o e, rx, e) /\ Len(rx) \in Nat
      BY <1>1, <3>1, ConcatIs
    <3>3. Len(rx \o e) # 0
      BY <3>1, <3>2 DEF Joins
    <3> QED
      BY <2>1, <3>3 DEF e
  <2> QED
    BY <2>1, <2>2, <2>5, <2>6
<1>4. ASSUME NEW n \in 1 .. Len(rx), DrainRead(n), lockstep'
      PROVE  /\ dropped' = {} /\ Len(Undelivered') <= 1
             /\ rx' = <<>> => Undelivered' = <<>>
  <2>1. lockstep /\ dropped = {} /\ Behind /\ Len(Undelivered) <= 1
    BY <1>4 DEF DrainRead, LockstepInv, WindowInv
  <2> DEFINE u == Undelivered
             w == Filled(n)
  <2>2. u \in Seq(Payloads) /\ Len(u) \in Nat
    BY <1>1 DEF Undelivered
  <2>3. Len(Wire(u)) \in Nat /\ Len(Wire(u)) <= FrameCap
    <3>1. CASE u = <<>>
      <4>1. Wire(<<>>) = <<>> /\ Len(<<>>) = 0
        BY <2>2, WireIs
      <4> QED
        BY <1>2, <3>1, <4>1
    <3>2. CASE u # <<>>
      <4> HIDE DEF u
      <4>1. Len(u) = 1
        <5>1. Len(u) # 0
          BY <2>2, <3>2
        <5>2. Len(u) <= 1
          BY <2>1 DEF u
        <5> DEFINE l == Len(u)
        <5>3. l \in Nat /\ l # 0 /\ l <= 1
          BY <2>2, <5>1, <5>2
        <5> HIDE DEF l
        <5>4. l = 1
          BY <5>3
        <5> QED
          BY <5>4 DEF l
      <4>2. Len(Wire(u)) = 2 + Len(u[1]) /\ Len(u[1]) \in 0 .. MaxPayload
        BY <2>2, <3>2, <4>1, WireLen
      <4> DEFINE x == Len(u[1])
      <4>3. x \in 0 .. MaxPayload /\ Len(Wire(u)) = 2 + x
        BY <4>2
      <4> HIDE DEF x
      <4> QED
        BY <1>2, <4>3
    <3> QED
      BY <3>1, <3>2
  <2>4. Fitting(n, window) = n
    <3>1. window \in Seq(Octets) /\ window \o rx = Wire(u)
      BY <1>1, <2>1 DEF TypeOK, Behind
    <3> HIDE DEF u
    <3>2. Joins(window \o rx, window, rx)
      BY <1>1, <3>1, ConcatIs
    <3>3. Len(window) + Len(rx) <= FrameCap /\ Len(window) \in Nat /\ Len(rx) \in Nat
      BY <1>1, <2>3, <3>1, <3>2 DEF Joins
    <3>4. n <= FrameCap - Len(window)
      BY <1>2, <3>3
    <3> QED
      BY <3>4 DEF Fitting
  <2>5. PICK a, b, t : Decoded(w, rx', u, a, b, t)
    BY <1>1, <1>4, <2>1, <2>4, ReadDecodes
  <2>6. /\ a \in Seq(Payloads) /\ b \in Seq(Payloads) /\ t \in Seq(Octets) /\ u = a \o b
        /\ Taken(n) = a /\ w = Wire(a) \o t /\ t \o rx' = Wire(b)
        /\ b # <<>> => Len(t) < 2 + Len(b[1])
    BY <2>5 DEF Decoded, Taken
  <2>7. rx' \in Seq(Octets)
    BY <1>1 DEF TypeOK
  <2> HIDE DEF u, w
  <2>8. Len(a) + Len(b) <= 1 /\ Len(a) \in Nat /\ Len(b) \in Nat
    <3>1. Joins(a \o b, a, b)
      BY <2>6, ConcatIs
    <3> QED
      BY <2>1, <2>6, <3>1 DEF Joins, u
  <2>9. a # <<>> => Len(w) <= Len(Wire(a))
    <3> SUFFICES ASSUME a # <<>> PROVE Len(w) <= Len(Wire(a))
      OBVIOUS
    <3>1. b = <<>>
      <4>1. Len(a) # 0
        BY <2>6
      <4>2. Len(b) = 0
        BY <2>8, <4>1
      <4> QED
        BY <2>6, <4>2
    <3>2. t \o rx' = <<>>
      BY <2>6, <3>1, WireIs
    <3>3. t = <<>>
      <4> DEFINE r == rx'
      <4>1. r \in Seq(Octets) /\ t \o r = <<>>
        BY <2>7, <3>2
      <4> HIDE DEF r
      <4>2. Joins(t \o r, t, r)
        BY <2>6, <4>1, ConcatIs
      <4>3. Len(t) = 0
        <5>1. Len(t \o r) = Len(t) + Len(r) /\ Len(t) \in Nat /\ Len(r) \in Nat
          BY <2>6, <4>1, <4>2 DEF Joins
        <5>2. Len(t \o r) = 0
          BY <4>1
        <5> QED
          BY <5>1, <5>2
      <4> QED
        BY <2>6, <4>3
    <3> DEFINE wa == Wire(a)
    <3>4. wa \in Seq(Octets) /\ w = wa \o <<>>
      BY <2>6, <3>3, WireIs
    <3> HIDE DEF wa
    <3>5. Len(w) = Len(wa) /\ Len(wa) \in Nat
      BY <3>4
    <3> QED
      BY <3>5 DEF wa
  <2>10. Len(a) <= DecodeBatch
    BY <1>2, <2>8
  <2>11. dropped' = {}
    BY <1>1, <1>4, <2>1, <2>4, <2>6, <2>9, <2>10, ReadIs DEF w
  <2>12. Undelivered' = b
    BY <1>1, <1>4, <2>1, <2>5, <2>11, BehindRead DEF u, w
  <2>13. rx' = <<>> => b = <<>>
    <3> SUFFICES ASSUME rx' = <<>>, b # <<>> PROVE FALSE
      OBVIOUS
    <3>1. t = Wire(b)
      <4>1. t \o <<>> = t
        BY <2>6
      <4> QED
        BY <2>6, <4>1
    <3>2. Len(b[1]) \in 0 .. MaxPayload /\ Len(Wire(b)) \in Nat /\ Len(Wire(b)) >= 2 + Len(b[1])
      BY <2>6, WireLen
    <3>3. Len(t) < 2 + Len(b[1])
      BY <2>6
    <3> QED
      BY <3>1, <3>2, <3>3
  <2> QED
    BY <2>8, <2>11, <2>12, <2>13
<1>5. CASE UNCHANGED vars
  BY <1>5 DEF vars, LockstepInv, Undelivered
<1>6. \A n \in 1 .. (IF Len(rx) <= ReadLimit THEN Len(rx) ELSE ReadLimit) : n \in 1 .. Len(rx)
  BY <1>1, WindowAssumption DEF TypeOK
<1> QED
  BY <1>3, <1>4, <1>5, <1>6 DEF Next, LockstepInv

\* A peer that waits for each packet to be taken loses none, of any legal length and
\* however it is segmented, if FRAME_CAP has room for a prefix behind the largest
\* payload (FRAME_CAP, drain_read, decode, compact_read).
THEOREM LockstepKept ==
  ASSUME Slack >= PrefixLen
  PROVE  Spec => []LockstepLosesNothing
<1>1. Init => WindowInv /\ LockstepInv
  <2>1. ASSUME Init PROVE LockstepInv
    <3>1. Undelivered = <<>> /\ Len(<<>>) = 0 /\ dropped = {}
      BY <2>1, BehindInit DEF Init
    <3> QED
      BY <3>1 DEF LockstepInv
  <2> QED
    BY <2>1, BehindInit DEF WindowInv
<1>2. WindowInv /\ LockstepInv => LockstepLosesNothing
  <2> SUFFICES ASSUME WindowInv, LockstepInv, lockstep PROVE LockstepLosesNothing
    BY DEF LockstepLosesNothing
  <2>1. dropped = {} /\ Len(Undelivered) <= 1 /\ (rx = <<>> => Undelivered = <<>>)
    BY DEF LockstepInv
  <2>2. sent = delivered \o Undelivered /\ sent \in Seq(Payloads) /\ delivered \in Seq(Payloads)
    BY <2>1 DEF WindowInv, Behind, TypeOK
  <2>3. Undelivered \in Seq(Payloads)
    BY <2>2 DEF Undelivered
  <2> DEFINE u == Undelivered
  <2>4. u \in Seq(Payloads) /\ Len(u) <= 1 /\ sent = delivered \o u /\ (rx = <<>> => u = <<>>)
    BY <2>1, <2>2, <2>3
  <2> HIDE DEF u
  <2>5. Len(sent) - 1 <= Len(delivered)
    <3>1. Joins(delivered \o u, delivered, u)
      BY <2>2, <2>4, ConcatIs
    <3> QED
      BY <2>2, <2>4, <3>1 DEF Joins
  <2>6. rx = <<>> => delivered = sent
    BY <2>2, <2>4
  <2> QED
    BY <2>1, <2>5, <2>6 DEF LockstepLosesNothing
<1>3. WindowInv /\ LockstepInv /\ [Next]_vars => LockstepInv'
  BY LockstepNext
<1> QED
  BY <1>1, <1>2, <1>3, WindowNext, PTL DEF Spec

===============================================================================
