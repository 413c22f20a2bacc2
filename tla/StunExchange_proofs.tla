-------------------------- MODULE StunExchange_proofs --------------------------
(***************************************************************************)
(* Theorems about StunExchange: what the two ends of an exchange           *)
(* understand of each other, for every request, socket and datagram.       *)
(***************************************************************************)
EXTENDS StunExchange, Queues_proofs, SequenceTheorems

--------------------------------------------------------------------------------
(* Octets.                                                                   *)

LEMMA OctetIs ==
  ASSUME NEW n
  PROVE  n \in Octet <=> n \in Nat /\ n < 256
BY DEF Octet

LEMMA WordIs ==
  ASSUME NEW n
  PROVE  n \in Word <=> n \in Nat /\ n < 65536
<1>1. U16Max \in Int
  BY DEF U16Max
<1>2. n \in Word <=> n \in Int /\ 0 <= n /\ n <= U16Max
  BY <1>1 DEF Word
<1> QED
  BY <1>2 DEF U16Max

\* What is put behind octets leaves them where they are.
LEMMA Behind ==
  ASSUME NEW S, NEW a \in Seq(S), NEW b \in Seq(S)
  PROVE  /\ a \o b \in Seq(S) /\ Len(a \o b) = Len(a) + Len(b)
         /\ \A i \in 1 .. Len(a) : (a \o b)[i] = a[i]
         /\ \A i \in 1 .. Len(b) : (a \o b)[Len(a) + i] = b[i]
OBVIOUS

LEMMA Listed ==
  ASSUME NEW S, NEW n \in Nat, NEW f \in [1 .. n -> S]
  PROVE  f \in Seq(S) /\ Len(f) = n
OBVIOUS

LEMMA Unlisted ==
  ASSUME NEW S, NEW n \in Nat, NEW q \in Seq(S), Len(q) = n
  PROVE  q \in [1 .. n -> S]
OBVIOUS

LEMMA PairIs ==
  ASSUME NEW S, NEW x \in S, NEW y \in S
  PROVE  <<x, y>> \in Seq(S) /\ Len(<<x, y>>) = 2 /\ <<x, y>>[1] = x /\ <<x, y>>[2] = y
OBVIOUS

\* XOR with one operand, applied again, gives the other one back: of two bits, and of
\* numbers of twice as many bits each time.
LEMMA Xor2Back ==
  ASSUME NEW a \in Nat, a < 4, NEW b \in Nat, b < 4
  PROVE  Xor2(a, b) \in Nat /\ Xor2(a, b) < 4 /\ Xor2(Xor2(a, b), b) = a
<1>1. a \in {0, 1, 2, 3} /\ b \in {0, 1, 2, 3}
  OBVIOUS
<1> QED
  BY <1>1 DEF Xor2, Halves, XorBits

LEMMA Xor4Back ==
  ASSUME NEW a \in Nat, a < 16, NEW b \in Nat, b < 16
  PROVE  /\ Xor4(a, b) \in Nat /\ Xor4(a, b) < 16
         /\ Xor4(Xor4(a, b), b) = a
<1> DEFINE h == Xor2(a \div 4, b \div 4)
           l == Xor2(a % 4, b % 4)
           x == Xor4(a, b)
<1>1. /\ a \div 4 \in Nat /\ a \div 4 < 4 /\ b \div 4 \in Nat /\ b \div 4 < 4
      /\ a % 4 \in Nat /\ a % 4 < 4 /\ b % 4 \in Nat /\ b % 4 < 4
      /\ a = 4 * (a \div 4) + (a % 4)
  OBVIOUS
<1>2. h \in Nat /\ h < 4 /\ Xor2(h, b \div 4) = a \div 4
  BY <1>1, Xor2Back
<1>3. l \in Nat /\ l < 4 /\ Xor2(l, b % 4) = a % 4
  BY <1>1, Xor2Back
<1>4. x = 4 * h + l
  BY DEF Xor4, Halves
<1> HIDE DEF h, l, x
<1>5. x \in Nat /\ x < 16 /\ x \div 4 = h /\ x % 4 = l
  BY <1>2, <1>3, <1>4
<1>6. Xor4(x, b) = 4 * Xor2(x \div 4, b \div 4) + Xor2(x % 4, b % 4)
  BY DEF Xor4, Halves
<1>7. Xor4(x, b) = 4 * (a \div 4) + (a % 4)
  BY <1>2, <1>3, <1>5, <1>6
<1> QED
  BY <1>1, <1>5, <1>7 DEF x

LEMMA Xor8Back ==
  ASSUME NEW a \in Nat, a < 256, NEW b \in Nat, b < 256
  PROVE  /\ Xor8(a, b) \in Nat /\ Xor8(a, b) < 256
         /\ Xor8(Xor8(a, b), b) = a
<1> DEFINE h == Xor4(a \div 16, b \div 16)
           l == Xor4(a % 16, b % 16)
           x == Xor8(a, b)
<1>1. /\ a \div 16 \in Nat /\ a \div 16 < 16 /\ b \div 16 \in Nat /\ b \div 16 < 16
      /\ a % 16 \in Nat /\ a % 16 < 16 /\ b % 16 \in Nat /\ b % 16 < 16
      /\ a = 16 * (a \div 16) + (a % 16)
  OBVIOUS
<1>2. h \in Nat /\ h < 16 /\ Xor4(h, b \div 16) = a \div 16
  BY <1>1, Xor4Back
<1>3. l \in Nat /\ l < 16 /\ Xor4(l, b % 16) = a % 16
  BY <1>1, Xor4Back
<1>4. x = 16 * h + l
  BY DEF Xor8, Halves
<1> HIDE DEF h, l, x
<1>5. x \in Nat /\ x < 256 /\ x \div 16 = h /\ x % 16 = l
  BY <1>2, <1>3, <1>4
<1>6. Xor8(x, b) = 16 * Xor4(x \div 16, b \div 16) + Xor4(x % 16, b % 16)
  BY DEF Xor8, Halves
<1>7. Xor8(x, b) = 16 * (a \div 16) + (a % 16)
  BY <1>2, <1>3, <1>5, <1>6
<1> QED
  BY <1>1, <1>5, <1>7 DEF x

LEMMA Xor16Back ==
  ASSUME NEW a \in Nat, a < 65536, NEW b \in Nat, b < 65536
  PROVE  /\ Xor16(a, b) \in Nat /\ Xor16(a, b) < 65536
         /\ Xor16(Xor16(a, b), b) = a
<1> DEFINE h == Xor8(a \div 256, b \div 256)
           l == Xor8(a % 256, b % 256)
           x == Xor16(a, b)
<1>1. /\ a \div 256 \in Nat /\ a \div 256 < 256 /\ b \div 256 \in Nat /\ b \div 256 < 256
      /\ a % 256 \in Nat /\ a % 256 < 256 /\ b % 256 \in Nat /\ b % 256 < 256
      /\ a = 256 * (a \div 256) + (a % 256)
  OBVIOUS
<1>2. h \in Nat /\ h < 256 /\ Xor8(h, b \div 256) = a \div 256
  BY <1>1, Xor8Back
<1>3. l \in Nat /\ l < 256 /\ Xor8(l, b % 256) = a % 256
  BY <1>1, Xor8Back
<1>4. x = 256 * h + l
  BY DEF Xor16, Halves
<1> HIDE DEF h, l, x
<1>5. x \in Nat /\ x < 65536 /\ x \div 256 = h /\ x % 256 = l
  BY <1>2, <1>3, <1>4
<1>6. Xor16(x, b) = 256 * Xor8(x \div 256, b \div 256) + Xor8(x % 256, b % 256)
  BY DEF Xor16, Halves
<1>7. Xor16(x, b) = 256 * (a \div 256) + (a % 256)
  BY <1>2, <1>3, <1>5, <1>6
<1> QED
  BY <1>1, <1>5, <1>7 DEF x

--------------------------------------------------------------------------------
(* Message types.                                                            *)

Methods == {Method(no) : no \in {n \in Nat : n < 4096}}

\* The names and the numbers of methods are tables of one another.
LEMMA MethodKept ==
  ASSUME NEW no \in Nat, no < 4096
  PROVE  MethodNo(Method(no)) = no
<1>1. CASE MethodName(no) = "Unknown"
  BY <1>1 DEF MethodNo, Method
<1>2. CASE MethodName(no) # "Unknown"
  <2>1. MethodBits[MethodName(no)] = no
    BY <1>2 DEF MethodName, MethodBits
  <2> QED
    BY <1>2, <2>1 DEF MethodNo, Method
<1> QED
  BY <1>1, <1>2

\* The two class bits of a type.
C0(bits) == (bits \div 16) % 2
C1(bits) == (bits \div 256) % 2

\* The four classes are the four values of the two class bits.
LEMMA ClassKept ==
  ASSUME NEW bits \in Nat
  PROVE  /\ ClassAt(bits) \in Classes
         /\ ClassBits[ClassAt(bits)] = 256 * C1(bits) + 16 * C0(bits)
<1> DEFINE n == 256 * C1(bits) + 16 * C0(bits)
<1>1. n \in {0, 16, 256, 272}
  <2>1. C0(bits) \in {0, 1} /\ C1(bits) \in {0, 1}
    BY DEF C0, C1
  <2> QED
    BY <2>1
<1> HIDE DEF n
<1>2. \E c \in Classes : ClassBits[c] = n
  <2>1. /\ ClassBits["Request"] = 0 /\ ClassBits["Indication"] = 16
        /\ ClassBits["Success"] = 256 /\ ClassBits["Error"] = 272
    BY DEF ClassBits
  <2>2. {"Request", "Indication", "Success", "Error"} \subseteq Classes
    BY DEF Classes, ClassBits
  <2> QED
    BY <1>1, <2>1, <2>2
<1>3. ClassAt(bits) = CHOOSE c \in Classes : ClassBits[c] = n
  BY DEF ClassAt, C0, C1, n
<1>4. ClassAt(bits) \in Classes /\ ClassBits[ClassAt(bits)] = n
  BY <1>2, <1>3
<1> QED
  BY <1>4 DEF n

LEMMA ClassesDiffer ==
  ASSUME NEW c \in Classes, NEW d \in Classes, ClassBits[c] = ClassBits[d]
  PROVE  c = d
BY DEF Classes, ClassBits

\* The groups of a method's bits as they stand in a type, and the number they are of.
Grouped(no) == (no % 16) + 32 * ((no \div 16) % 8) + 512 * ((no \div 128) % 32)
NumberIn(bits) == (bits % 16) + 16 * ((bits \div 32) % 8) + 128 * ((bits \div 512) % 32)

LEMMA GroupsKept ==
  ASSUME NEW bits \in Nat, bits < 16384
  PROVE  /\ NumberIn(bits) \in Nat /\ NumberIn(bits) < 4096
         /\ bits = Grouped(NumberIn(bits)) + (256 * C1(bits) + 16 * C0(bits))
<1> DEFINE x == bits % 16
           y == (bits \div 32) % 8
           z == (bits \div 512) % 32
           no == x + 16 * y + 128 * z
<1>1. x \in 0 .. 15 /\ y \in 0 .. 7 /\ z \in 0 .. 31
  OBVIOUS
<1>2. bits = x + 16 * C0(bits) + 32 * y + 256 * C1(bits) + 512 * z
  <2>1. bits = 16 * (bits \div 16) + x
    OBVIOUS
  <2>2. bits \div 16 = 2 * (bits \div 32) + C0(bits)
    BY DEF C0
  <2>3. bits \div 32 = 8 * (bits \div 256) + y
    OBVIOUS
  <2>4. bits \div 256 = 2 * (bits \div 512) + C1(bits)
    BY DEF C1
  <2>5. bits \div 512 = z
    <3> DEFINE q == bits \div 512
    <3>1. q \in 0 .. 31
      <4>1. q \in Int /\ 512 * q <= bits /\ bits < 512 * q + 512
        OBVIOUS
      <4> QED
        BY <4>1
    <3> HIDE DEF q
    <3>2. q % 32 = q
      BY <3>1
    <3> QED
      BY <3>2 DEF q
  <2>6. /\ bits \div 16 \in Int /\ bits \div 32 \in Int /\ bits \div 256 \in Int
        /\ C0(bits) \in Int /\ C1(bits) \in Int
    BY DEF C0, C1
  <2> HIDE DEF x, y, z
  <2> QED
    BY <1>1, <2>1, <2>2, <2>3, <2>4, <2>5, <2>6
<1>3. no \in Nat /\ no < 4096 /\ no % 16 = x /\ (no \div 16) % 8 = y /\ (no \div 128) % 32 = z
  <2> HIDE DEF x, y, z
  <2> QED
    BY <1>1
<1> HIDE DEF x, y, z
<1>4. NumberIn(bits) = no
  BY DEF NumberIn, x, y, z
<1>5. Grouped(no) = x + 32 * y + 512 * z
  BY <1>3 DEF Grouped
<1> HIDE DEF no
<1>6. bits = Grouped(no) + (256 * C1(bits) + 16 * C0(bits))
  <2>1. C0(bits) \in Int /\ C1(bits) \in Int
    BY DEF C0, C1
  <2> QED
    BY <1>1, <1>2, <1>5, <2>1
<1> QED
  BY <1>3, <1>4, <1>6

\* A type of this method and these class bits.
IsOf(bits, no, c0, c1) == bits = Grouped(no) + (256 * c1 + 16 * c0)

LEMMA GroupsRead ==
  ASSUME NEW no \in Nat, no < 4096, NEW c0 \in 0 .. 1, NEW c1 \in 0 .. 1,
         NEW bits, IsOf(bits, no, c0, c1)
  PROVE  /\ bits \in Nat /\ bits < 16384 /\ NumberIn(bits) = no
         /\ C1(bits) = c1 /\ C0(bits) = c0
<1> DEFINE x == no % 16
           y == (no \div 16) % 8
           z == (no \div 128) % 32
<1>1. x \in 0 .. 15 /\ y \in 0 .. 7 /\ z \in 0 .. 31
  OBVIOUS
<1>2. no = x + 16 * y + 128 * z
  <2>1. no = 16 * (no \div 16) + x
    OBVIOUS
  <2>2. no \div 16 = 8 * (no \div 128) + y
    OBVIOUS
  <2>3. no \div 128 = z
    OBVIOUS
  <2>4. no \div 16 \in Int /\ no \div 128 \in Int
    OBVIOUS
  <2> HIDE DEF x, y, z
  <2> QED
    BY <1>1, <2>1, <2>2, <2>3, <2>4
<1>3. bits = x + 32 * y + 512 * z + (256 * c1 + 16 * c0)
  BY DEF Grouped, IsOf
<1>4. /\ bits \in Nat /\ bits < 16384 /\ bits % 16 = x /\ (bits \div 32) % 8 = y
      /\ (bits \div 512) % 32 = z /\ C1(bits) = c1 /\ C0(bits) = c0
  <2> HIDE DEF x, y, z
  <2>1. bits = 16 * (c0 + 2 * (y + 8 * (c1 + 2 * z))) + x
    BY <1>1, <1>3
  <2>2. bits \in Nat /\ bits < 16384
    BY <1>1, <1>3
  <2>3. bits % 16 = x /\ C0(bits) = c0
    <3>1. y + 8 * (c1 + 2 * z) \in Nat
      BY <1>1
    <3> DEFINE b == y + 8 * (c1 + 2 * z)
               a == c0 + 2 * b
    <3>2. bits = 16 * a + x /\ a = c0 + 2 * b
      BY <2>1
    <3> HIDE DEF b
    <3>3. a \in Nat
      BY <3>1 DEF b
    <3> HIDE DEF a
    <3>4. bits % 16 = x /\ bits \div 16 = a
      BY <1>1, <3>2, <3>3
    <3>5. a % 2 = c0
      BY <3>1, <3>2 DEF b
    <3> QED
      BY <3>4, <3>5 DEF C0
  <2>4. (bits \div 32) % 8 = y
    <3> DEFINE d == c1 + 2 * z
               b == y + 8 * d
    <3>1. bits = 32 * b + (16 * c0 + x) /\ 16 * c0 + x \in 0 .. 31 /\ d \in Nat /\ b = y + 8 * d
      BY <1>1, <2>1
    <3> HIDE DEF d
    <3>2. b \in Nat
      BY <1>1, <3>1
    <3> HIDE DEF b
    <3>3. bits \div 32 = b
      <4> DEFINE r == 16 * c0 + x
      <4>1. bits = 32 * b + r /\ r \in 0 .. 31
        BY <3>1
      <4> HIDE DEF r
      <4> QED
        BY <3>2, <4>1
    <3>4. b % 8 = y
      BY <1>1, <3>1
    <3> QED
      BY <3>3, <3>4
  <2>5. C1(bits) = c1
    <3> DEFINE r == 32 * y + 16 * c0 + x
               d == c1 + 2 * z
    <3>1. bits = 256 * d + r /\ r \in 0 .. 255 /\ d \in Nat /\ d = c1 + 2 * z
      BY <1>1, <2>1
    <3> HIDE DEF r, d
    <3>2. bits \div 256 = d
      BY <3>1
    <3>3. d % 2 = c1
      BY <1>1, <3>1
    <3> QED
      BY <3>2, <3>3 DEF C1
  <2>6. (bits \div 512) % 32 = z
    <3> DEFINE r == 256 * c1 + 32 * y + 16 * c0 + x
    <3>1. bits = 512 * z + r /\ r \in 0 .. 511
      BY <1>1, <2>1
    <3> HIDE DEF r
    <3>2. bits \div 512 = z
      BY <1>1, <3>1
    <3> QED
      BY <1>1, <3>2
  <2> QED
    BY <2>2, <2>3, <2>4, <2>5, <2>6
<1>5. NumberIn(bits) = x + 16 * y + 128 * z
  <2> HIDE DEF x, y, z
  <2> QED
    BY <1>4 DEF NumberIn
<1> HIDE DEF x, y, z
<1>6. NumberIn(bits) = no
  BY <1>2, <1>5
<1>7. bits \in Nat
  BY <1>4
<1>8. bits < 16384
  BY <1>4
<1>9. C1(bits) = c1
  BY <1>4
<1>10. C0(bits) = c0
  BY <1>4
<1> QED
  BY <1>6, <1>7, <1>8, <1>9, <1>10

Types == [method : Methods, class : Classes]

\* A type that was read is written as the bits it was read from.
LEMMA TypeRead ==
  ASSUME NEW bits \in Word, NEW t \in TypesAt(bits)
  PROVE  t \in Types /\ TypeBits(t) = bits
<1>1. bits \in Nat /\ bits < 16384
  <2>1. bits \in Nat
    BY WordIs
  <2>2. ~ bits >= 16384
    BY DEF TypesAt
  <2> QED
    BY <2>1, <2>2
<1>2. t = [method |-> Method(NumberIn(bits)), class |-> ClassAt(bits)]
  BY <1>1 DEF TypesAt, NumberIn
<1>3. /\ NumberIn(bits) \in Nat /\ NumberIn(bits) < 4096
      /\ bits = Grouped(NumberIn(bits)) + (256 * C1(bits) + 16 * C0(bits))
  BY <1>1, GroupsKept
<1>4. /\ ClassAt(bits) \in Classes
      /\ ClassBits[ClassAt(bits)] = 256 * C1(bits) + 16 * C0(bits)
  BY <1>1, ClassKept
<1>5. MethodNo(Method(NumberIn(bits))) = NumberIn(bits)
  BY <1>3, MethodKept
<1>6. TypeBits(t) = Grouped(NumberIn(bits)) + ClassBits[ClassAt(bits)]
  BY <1>2, <1>5 DEF TypeBits, Grouped
<1>7. t \in Types
  BY <1>2, <1>3, <1>4 DEF Types, Methods
<1> QED
  BY <1>3, <1>4, <1>6, <1>7

\* A type that is written is read as it was.
LEMMA TypeWritten ==
  ASSUME NEW t \in Types
  PROVE  TypeBits(t) \in Nat /\ TypesAt(TypeBits(t)) = {t}
<1>1. PICK no \in Nat : no < 4096 /\ t.method = Method(no)
  <2>1. t.method \in Methods
    BY DEF Types
  <2> QED
    BY <2>1 DEF Methods
<1>2. MethodNo(t.method) = no
  BY <1>1, MethodKept
<1>3. t.class \in Classes /\ t = [method |-> Method(no), class |-> t.class]
  BY <1>1 DEF Types
<1>4. TypeBits(t) = Grouped(no) + ClassBits[t.class]
  BY <1>2 DEF TypeBits, Grouped
<1>5. PICK c0 \in 0 .. 1, c1 \in 0 .. 1 : ClassBits[t.class] = 256 * c1 + 16 * c0
  <2>1. ClassBits[t.class] \in {0, 16, 256, 272}
    BY <1>3 DEF Classes, ClassBits
  <2>2. 0 = 256 * 0 + 16 * 0 /\ 16 = 256 * 0 + 16 * 1 /\ 256 = 256 * 1 + 16 * 0 /\ 272 = 256 * 1 + 16 * 1
    OBVIOUS
  <2> QED
    BY <2>1, <2>2
<1> DEFINE bits == TypeBits(t)
<1>6. IsOf(bits, no, c0, c1)
  BY <1>4, <1>5 DEF IsOf
<1> HIDE DEF bits
<1>7. /\ bits \in Nat /\ bits < 16384 /\ NumberIn(bits) = no
      /\ C1(bits) = c1 /\ C0(bits) = c0
  <2>1. no \in Nat /\ no < 4096 /\ c0 \in 0 .. 1 /\ c1 \in 0 .. 1
    BY <1>1
  <2> QED
    BY <1>6, <2>1, GroupsRead
<1>8. ClassAt(bits) = t.class
  <2>1. ClassAt(bits) \in Classes /\ ClassBits[ClassAt(bits)] = 256 * c1 + 16 * c0
    <3>1. bits \in Nat
      BY <1>7
    <3> QED
      BY <1>7, <3>1, ClassKept
  <2> QED
    BY <1>3, <1>5, <2>1, ClassesDiffer
<1>9. TypesAt(bits) = {[method |-> Method(NumberIn(bits)), class |-> ClassAt(bits)]}
  BY <1>7 DEF TypesAt, NumberIn
<1> QED
  BY <1>3, <1>7, <1>8, <1>9 DEF bits

\* Only a request is replied to, and its replies are not requests.
LEMMA RepliesAre ==
  ASSUME NEW t \in Types, NEW reply \in SuccessTypes(t) \cup ErrorTypes(t)
  PROVE  /\ t.class = "Request" /\ reply \in Types /\ reply.method = t.method
         /\ reply.class \in {"Success", "Error"}
         /\ ~ CanReply420(reply) /\ SuccessTypes(reply) \cup ErrorTypes(reply) = {}
<1>1. t.class \in {"Request", "Indication", "Success", "Error"} /\ t.method \in Methods
  BY DEF Types, Classes, ClassBits
<1>2. t.class = "Request"
  BY <1>1 DEF SuccessTypes, ErrorTypes, ReplyTypes
<1>3. reply = [t EXCEPT !.class = "Success"] \/ reply = [t EXCEPT !.class = "Error"]
  BY DEF SuccessTypes, ErrorTypes, ReplyTypes
<1>4. {"Success", "Error"} \subseteq Classes
  BY DEF Classes, ClassBits
<1>5. reply \in Types /\ reply.method = t.method /\ reply.class \in {"Success", "Error"}
  BY <1>1, <1>3, <1>4 DEF Types
<1>6. SuccessTypes(reply) = {} /\ ErrorTypes(reply) = {} /\ ~ CanReply420(reply)
  BY <1>5 DEF SuccessTypes, ErrorTypes, ReplyTypes, CanReply420
<1> QED
  BY <1>2, <1>5, <1>6

--------------------------------------------------------------------------------
(* The registry.                                                             *)

\* Both tables, an entry at a time, in four parts.
Names1 == {"MappedAddress", "ChangeRequest", "Username", "MessageIntegrity", "ErrorCode",
            "UnknownAttributes", "ChannelNumber", "Lifetime", "XorPeerAddress", "Data", "Realm"}
Codes1 == {1, 3, 6, 8, 9, 10, 12, 13, 18, 19, 20}
Names2 == {"Nonce", "XorRelayedAddress", "RequestedAddressFamily", "EvenPort",
            "RequestedTransport", "DontFragment", "AccessToken", "MessageIntegritySha256",
            "PasswordAlgorithm", "UserHash", "XorMappedAddress"}
Codes2 == {21, 22, 23, 24, 25, 26, 27, 28, 29, 30, 32}
Names3 == {"ReservationToken", "IcePriority", "UseCandidate", "Padding", "ResponsePort",
            "ConnectionId", "AdditionalAddressFamily", "AddressErrorCode", "PasswordAlgorithms",
            "AlternateDomain", "Icmp"}
Codes3 == {34, 36, 37, 38, 39, 42, 32768, 32769, 32770, 32771, 32772}
Names4 == {"Software", "AlternateServer", "Fingerprint", "IceControlled", "IceControlling",
            "OtherAddress", "ThirdPartyAuthorization", "ExtendedCandidate",
            "ExtendedCandidateUfrag"}
Codes4 == {32802, 32803, 32808, 32809, 32810, 32812, 32814, 32824, 32825}

LEMMA Part1 ==
  /\ \A v \in Names1 : AsU16[v] \in Codes1 /\ FromWire(AsU16[v]) = v
  /\ \A c \in Codes1 : FromWire(c) \in Names1 /\ AsU16[FromWire(c)] = c
BY DEF Names1, Codes1, AsU16, FromWire

LEMMA Part2 ==
  /\ \A v \in Names2 : AsU16[v] \in Codes2 /\ FromWire(AsU16[v]) = v
  /\ \A c \in Codes2 : FromWire(c) \in Names2 /\ AsU16[FromWire(c)] = c
BY DEF Names2, Codes2, AsU16, FromWire

LEMMA Part3 ==
  /\ \A v \in Names3 : AsU16[v] \in Codes3 /\ FromWire(AsU16[v]) = v
  /\ \A c \in Codes3 : FromWire(c) \in Names3 /\ AsU16[FromWire(c)] = c
BY DEF Names3, Codes3, AsU16, FromWire

LEMMA Part4 ==
  /\ \A v \in Names4 : AsU16[v] \in Codes4 /\ FromWire(AsU16[v]) = v
  /\ \A c \in Codes4 : FromWire(c) \in Names4 /\ AsU16[FromWire(c)] = c
BY DEF Names4, Codes4, AsU16, FromWire

\* A code of none of the parts is not known.
LEMMA NoOtherCode ==
  ASSUME NEW c, c \notin Codes1 \cup Codes2 \cup Codes3 \cup Codes4
  PROVE  FromWire(c) = "Unknown"
BY DEF Codes1, Codes2, Codes3, Codes4, FromWire

\* The parts are the whole registry.
LEMMA AllNames == Registered = Names1 \cup Names2 \cup Names3 \cup Names4
BY DEF Names1, Names2, Names3, Names4, Registered, AsU16

\* The two tables of the registry are each the other's inverse.
LEMMA TablesAgree ==
  ASSUME NEW code, IsKnown(code)
  PROVE  FromWire(code) \in Registered /\ AsU16[FromWire(code)] = code
<1>1. code \in Codes1 \cup Codes2 \cup Codes3 \cup Codes4
  BY NoOtherCode, Zenon DEF IsKnown
<1> QED
  BY <1>1, Part1, Part2, Part3, Part4, AllNames, Zenon

LEMMA NamesAgree ==
  ASSUME NEW v \in Registered
  PROVE  FromWire(AsU16[v]) = v
BY Part1, Part2, Part3, Part4, AllNames, Zenon

\* Every registered attribute but ICMP has a shape of its own.
Single == {"UnknownAttributes", "MessageIntegritySha256", "ChannelNumber", "ResponsePort", "Data",
           "ConnectionId", "PasswordAlgorithms"}
Shaped == Texts \cup Opaque \cup Errors \cup FamilyOnly \cup Words \cup DOMAIN ArrayLen \cup Single

LEMMA ShapesCover ==
  ASSUME NEW v \in Registered
  PROVE  v # "Unknown" /\ (v = "Icmp" \/ v \in Addressed \/ v \in Shaped)
BY DEF Registered, AsU16, Addressed, Xored, Plain, Texts, Opaque, Errors, FamilyOnly, Words,
       ArrayLen, Single, Shaped

\* The shapes differ, so that each has its own branch.
LEMMA ShapesDiffer ==
  ASSUME NEW v
  PROVE  /\ v \in Texts =>
              v \notin Opaque \cup Errors \cup FamilyOnly \cup Words \cup DOMAIN ArrayLen \cup Single
         /\ v \in Opaque =>
              v \notin Texts \cup Errors \cup FamilyOnly \cup Words \cup DOMAIN ArrayLen \cup Single
         /\ v \in Errors =>
              v \notin Texts \cup Opaque \cup FamilyOnly \cup Words \cup DOMAIN ArrayLen \cup Single
         /\ v \in FamilyOnly =>
              v \notin Texts \cup Opaque \cup Errors \cup Words \cup DOMAIN ArrayLen \cup Single
         /\ v \in Words =>
              v \notin Texts \cup Opaque \cup Errors \cup FamilyOnly \cup DOMAIN ArrayLen \cup Single
         /\ v \in DOMAIN ArrayLen =>
              v \notin Texts \cup Opaque \cup Errors \cup FamilyOnly \cup Words \cup Single
         /\ v \in Single =>
              v \notin Texts \cup Opaque \cup Errors \cup FamilyOnly \cup Words \cup DOMAIN ArrayLen
BY DEF Texts, Opaque, Errors, FamilyOnly, Words, ArrayLen, Single

Sole(condition, val) == IF condition THEN {val} ELSE {}

LEMMA ValuesAre ==
  ASSUME NEW v, NEW buf
  PROVE  /\ v \in Texts => ValuesIn(v, buf) = Sole(IsUtf8(buf), buf)
         /\ v \in Opaque => ValuesIn(v, buf) = {buf}
         /\ v \in Errors => ValuesIn(v, buf) = ErrorIn(buf)
         /\ v \in FamilyOnly => ValuesIn(v, buf) = Sole(Len(buf) = 1 /\ buf \in {<<f>> : f \in Families}, buf)
         /\ v \in Words => ValuesIn(v, buf) = Sole(Len(buf) = 4, <<Be16(buf, 1), Be16(buf, 3)>>)
         /\ v \in DOMAIN ArrayLen => ValuesIn(v, buf) = Sole(Len(buf) = ArrayLen[v], buf)
<1>1. ASSUME v \in Texts PROVE ValuesIn(v, buf) = Sole(IsUtf8(buf), buf)
  <2>1. v \notin Opaque \cup Errors \cup FamilyOnly \cup Words \cup DOMAIN ArrayLen /\ v \notin Single
    BY <1>1, ShapesDiffer
  <2> QED
    BY <1>1, <2>1 DEF ValuesIn, Sole, Single
<1>2. ASSUME v \in Opaque PROVE ValuesIn(v, buf) = {buf}
  <2>1. v \notin Texts \cup Errors \cup FamilyOnly \cup Words \cup DOMAIN ArrayLen /\ v \notin Single
    BY <1>2, ShapesDiffer
  <2> QED
    BY <1>2, <2>1 DEF ValuesIn, Sole, Single
<1>3. ASSUME v \in Errors PROVE ValuesIn(v, buf) = ErrorIn(buf)
  <2>1. v \notin Texts \cup Opaque \cup FamilyOnly \cup Words \cup DOMAIN ArrayLen /\ v \notin Single
    BY <1>3, ShapesDiffer
  <2> QED
    BY <1>3, <2>1 DEF ValuesIn, Sole, Single
<1>4. ASSUME v \in FamilyOnly PROVE ValuesIn(v, buf) = Sole(Len(buf) = 1 /\ buf \in {<<f>> : f \in Families}, buf)
  <2>1. v \notin Texts \cup Opaque \cup Errors \cup Words \cup DOMAIN ArrayLen /\ v \notin Single
    BY <1>4, ShapesDiffer
  <2> QED
    BY <1>4, <2>1 DEF ValuesIn, Sole, Single
<1>5. ASSUME v \in Words PROVE ValuesIn(v, buf) = Sole(Len(buf) = 4, <<Be16(buf, 1), Be16(buf, 3)>>)
  <2>1. v \notin Texts \cup Opaque \cup Errors \cup FamilyOnly \cup DOMAIN ArrayLen /\ v \notin Single
    BY <1>5, ShapesDiffer
  <2> QED
    BY <1>5, <2>1 DEF ValuesIn, Sole, Single
<1>6. ASSUME v \in DOMAIN ArrayLen PROVE ValuesIn(v, buf) = Sole(Len(buf) = ArrayLen[v], buf)
  <2>1. v \notin Texts \cup Opaque \cup Errors \cup FamilyOnly \cup Words /\ v \notin Single
    BY <1>6, ShapesDiffer
  <2> QED
    BY <1>6, <2>1 DEF ValuesIn, Sole, Single
<1> QED
  BY <1>1, <1>2, <1>3, <1>4, <1>5, <1>6

LEMMA SingleValuesAre ==
  ASSUME NEW buf
  PROVE  /\ ValuesIn("UnknownAttributes", buf) = Sole(Len(buf) % 2 = 0, [i \in 1 .. Len(buf) \div 2 |-> Be16(buf, 2 * i - 1)])
         /\ ValuesIn("MessageIntegritySha256", buf) = Sole(Len(buf) \in ShaLengths, buf \o Zeros(ShaLen - Len(buf)))
         /\ ValuesIn("ChannelNumber", buf) = Sole(Len(buf) = 4 /\ Be16(buf, 1) \in Channels, <<Be16(buf, 1)>>)
         /\ ValuesIn("ResponsePort", buf) = Sole(Len(buf) = 2, <<Be16(buf, 1)>>)
         /\ ValuesIn("Data", buf) = Sole(Len(buf) <= DataMaxLen, buf)
         /\ ValuesIn("ConnectionId", buf) = Sole(Len(buf) \in ConnectionIdLengths, buf)
         /\ ValuesIn("PasswordAlgorithms", buf) = Sole(IsUtf8(buf) /\ Names(buf) # <<>>, Names(buf))
<1>1. ASSUME NEW v \in Single PROVE v \notin Texts \cup Opaque \cup Errors \cup FamilyOnly \cup Words \cup DOMAIN ArrayLen
  BY ShapesDiffer
<1>2. ValuesIn("UnknownAttributes", buf) = Sole(Len(buf) % 2 = 0, [i \in 1 .. Len(buf) \div 2 |-> Be16(buf, 2 * i - 1)])
  <2>1. "UnknownAttributes" \notin Texts \cup Opaque \cup Errors \cup FamilyOnly \cup Words \cup DOMAIN ArrayLen
    BY <1>1 DEF Single
  <2> QED
    BY <2>1 DEF ValuesIn, Sole
<1>3. ValuesIn("MessageIntegritySha256", buf) = Sole(Len(buf) \in ShaLengths, buf \o Zeros(ShaLen - Len(buf)))
  <2>1. "MessageIntegritySha256" \notin Texts \cup Opaque \cup Errors \cup FamilyOnly \cup Words \cup DOMAIN ArrayLen
    BY <1>1 DEF Single
  <2> QED
    BY <2>1 DEF ValuesIn, Sole
<1>4. ValuesIn("ChannelNumber", buf) = Sole(Len(buf) = 4 /\ Be16(buf, 1) \in Channels, <<Be16(buf, 1)>>)
  <2>1. "ChannelNumber" \notin Texts \cup Opaque \cup Errors \cup FamilyOnly \cup Words \cup DOMAIN ArrayLen
    BY <1>1 DEF Single
  <2> QED
    BY <2>1 DEF ValuesIn, Sole
<1>5. ValuesIn("ResponsePort", buf) = Sole(Len(buf) = 2, <<Be16(buf, 1)>>)
  <2>1. "ResponsePort" \notin Texts \cup Opaque \cup Errors \cup FamilyOnly \cup Words \cup DOMAIN ArrayLen
    BY <1>1 DEF Single
  <2> QED
    BY <2>1 DEF ValuesIn, Sole
<1>6. ValuesIn("Data", buf) = Sole(Len(buf) <= DataMaxLen, buf)
  <2>1. "Data" \notin Texts \cup Opaque \cup Errors \cup FamilyOnly \cup Words \cup DOMAIN ArrayLen
    BY <1>1 DEF Single
  <2> QED
    BY <2>1 DEF ValuesIn, Sole
<1>7. ValuesIn("ConnectionId", buf) = Sole(Len(buf) \in ConnectionIdLengths, buf)
  <2>1. "ConnectionId" \notin Texts \cup Opaque \cup Errors \cup FamilyOnly \cup Words \cup DOMAIN ArrayLen
    BY <1>1 DEF Single
  <2> QED
    BY <2>1 DEF ValuesIn, Sole
<1>8. ValuesIn("PasswordAlgorithms", buf) = Sole(IsUtf8(buf) /\ Names(buf) # <<>>, Names(buf))
  <2>1. "PasswordAlgorithms" \notin Texts \cup Opaque \cup Errors \cup FamilyOnly \cup Words \cup DOMAIN ArrayLen
    BY <1>1 DEF Single
  <2> QED
    BY <2>1 DEF ValuesIn, Sole
<1> QED
  BY <1>2, <1>3, <1>4, <1>5, <1>6, <1>7, <1>8

\* What octets are read as, and what they must be for it.
LEMMA ValueRead ==
  ASSUME NEW v, NEW buf, NEW x \in ValuesIn(v, buf)
  PROVE  /\ v \in Texts => IsUtf8(buf) /\ x = buf
         /\ v \in Opaque => x = buf
         /\ v \in FamilyOnly => Len(buf) = 1 /\ buf \in {<<f>> : f \in Families} /\ x = buf
         /\ v \in Words => Len(buf) = 4 /\ x = <<Be16(buf, 1), Be16(buf, 3)>>
         /\ v \in DOMAIN ArrayLen => Len(buf) = ArrayLen[v] /\ x = buf
         /\ v \in Errors => /\ Len(buf) >= 4 /\ InRange(ErrorNumber(buf[3], buf[4]))
                            /\ x = SubSeq(buf, 3, Len(buf))
<1>1. ASSUME v \in Texts PROVE IsUtf8(buf) /\ x = buf
  <2>1. ValuesIn(v, buf) = Sole(IsUtf8(buf), buf)
    BY <1>1, ValuesAre
  <2> QED
    BY <2>1 DEF Sole
<1>2. ASSUME v \in Opaque PROVE x = buf
  <2>1. ValuesIn(v, buf) = {buf}
    BY <1>2, ValuesAre
  <2> QED
    BY <2>1
<1>3. ASSUME v \in FamilyOnly PROVE Len(buf) = 1 /\ buf \in {<<f>> : f \in Families} /\ x = buf
  <2>1. ValuesIn(v, buf) = Sole(Len(buf) = 1 /\ buf \in {<<f>> : f \in Families}, buf)
    BY <1>3, ValuesAre
  <2> QED
    BY <2>1 DEF Sole
<1>4. ASSUME v \in Words PROVE Len(buf) = 4 /\ x = <<Be16(buf, 1), Be16(buf, 3)>>
  <2>1. ValuesIn(v, buf) = Sole(Len(buf) = 4, <<Be16(buf, 1), Be16(buf, 3)>>)
    BY <1>4, ValuesAre
  <2> QED
    BY <2>1 DEF Sole
<1>5. ASSUME v \in DOMAIN ArrayLen PROVE Len(buf) = ArrayLen[v] /\ x = buf
  <2>1. ValuesIn(v, buf) = Sole(Len(buf) = ArrayLen[v], buf)
    BY <1>5, ValuesAre
  <2> QED
    BY <2>1 DEF Sole
<1>6. ASSUME v \in Errors
      PROVE  Len(buf) >= 4 /\ InRange(ErrorNumber(buf[3], buf[4])) /\ x = SubSeq(buf, 3, Len(buf))
  <2>1. ValuesIn(v, buf) = ErrorIn(buf)
    BY <1>6, ValuesAre
  <2> QED
    BY <2>1 DEF ErrorIn
<1> QED
  BY <1>1, <1>2, <1>3, <1>4, <1>5, <1>6

LEMMA SingleRead ==
  ASSUME NEW v, NEW buf, NEW x \in ValuesIn(v, buf)
  PROVE  /\ v = "UnknownAttributes" =>
              Len(buf) % 2 = 0 /\ x = [i \in 1 .. Len(buf) \div 2 |-> Be16(buf, 2 * i - 1)]
         /\ v = "MessageIntegritySha256" =>
              Len(buf) \in ShaLengths /\ x = buf \o Zeros(ShaLen - Len(buf))
         /\ v = "ChannelNumber" =>
              Len(buf) = 4 /\ Be16(buf, 1) \in Channels /\ x = <<Be16(buf, 1)>>
         /\ v = "ResponsePort" =>
              Len(buf) = 2 /\ x = <<Be16(buf, 1)>>
         /\ v = "Data" =>
              Len(buf) <= DataMaxLen /\ x = buf
         /\ v = "ConnectionId" =>
              Len(buf) \in ConnectionIdLengths /\ x = buf
         /\ v = "PasswordAlgorithms" =>
              IsUtf8(buf) /\ Names(buf) # <<>> /\ x = Names(buf)
<1>1. ASSUME v = "UnknownAttributes" PROVE Len(buf) % 2 = 0 /\ x = [i \in 1 .. Len(buf) \div 2 |-> Be16(buf, 2 * i - 1)]
  <2>1. ValuesIn(v, buf) = Sole(Len(buf) % 2 = 0, [i \in 1 .. Len(buf) \div 2 |-> Be16(buf, 2 * i - 1)])
    BY <1>1, SingleValuesAre
  <2> QED
    BY <2>1 DEF Sole
<1>2. ASSUME v = "MessageIntegritySha256" PROVE Len(buf) \in ShaLengths /\ x = buf \o Zeros(ShaLen - Len(buf))
  <2>1. ValuesIn(v, buf) = Sole(Len(buf) \in ShaLengths, buf \o Zeros(ShaLen - Len(buf)))
    BY <1>2, SingleValuesAre
  <2> QED
    BY <2>1 DEF Sole
<1>3. ASSUME v = "ChannelNumber" PROVE Len(buf) = 4 /\ Be16(buf, 1) \in Channels /\ x = <<Be16(buf, 1)>>
  <2>1. ValuesIn(v, buf) = Sole(Len(buf) = 4 /\ Be16(buf, 1) \in Channels, <<Be16(buf, 1)>>)
    BY <1>3, SingleValuesAre
  <2> QED
    BY <2>1 DEF Sole
<1>4. ASSUME v = "ResponsePort" PROVE Len(buf) = 2 /\ x = <<Be16(buf, 1)>>
  <2>1. ValuesIn(v, buf) = Sole(Len(buf) = 2, <<Be16(buf, 1)>>)
    BY <1>4, SingleValuesAre
  <2> QED
    BY <2>1 DEF Sole
<1>5. ASSUME v = "Data" PROVE Len(buf) <= DataMaxLen /\ x = buf
  <2>1. ValuesIn(v, buf) = Sole(Len(buf) <= DataMaxLen, buf)
    BY <1>5, SingleValuesAre
  <2> QED
    BY <2>1 DEF Sole
<1>6. ASSUME v = "ConnectionId" PROVE Len(buf) \in ConnectionIdLengths /\ x = buf
  <2>1. ValuesIn(v, buf) = Sole(Len(buf) \in ConnectionIdLengths, buf)
    BY <1>6, SingleValuesAre
  <2> QED
    BY <2>1 DEF Sole
<1>7. ASSUME v = "PasswordAlgorithms" PROVE IsUtf8(buf) /\ Names(buf) # <<>> /\ x = Names(buf)
  <2>1. ValuesIn(v, buf) = Sole(IsUtf8(buf) /\ Names(buf) # <<>>, Names(buf))
    BY <1>7, SingleValuesAre
  <2> QED
    BY <2>1 DEF Sole
<1> QED
  BY <1>1, <1>2, <1>3, <1>4, <1>5, <1>6, <1>7

\* Octets are read in one way.
LEMMA OneValue ==
  ASSUME NEW v \in Shaped, NEW buf, NEW x \in ValuesIn(v, buf), NEW y \in ValuesIn(v, buf)
  PROVE  x = y
<1>1. CASE v \in Texts
  <2>1. ASSUME NEW z \in ValuesIn(v, buf) PROVE z = buf
    BY <1>1, ValueRead
  <2> QED
    BY <2>1, Zenon
<1>2. CASE v \in Opaque
  <2>1. ASSUME NEW z \in ValuesIn(v, buf) PROVE z = buf
    BY <1>2, ValueRead
  <2> QED
    BY <2>1, Zenon
<1>3. CASE v \in FamilyOnly
  <2>1. ASSUME NEW z \in ValuesIn(v, buf) PROVE z = buf
    BY <1>3, ValueRead
  <2> QED
    BY <2>1, Zenon
<1>4. CASE v \in Words
  <2>1. ASSUME NEW z \in ValuesIn(v, buf) PROVE z = <<Be16(buf, 1), Be16(buf, 3)>>
    BY <1>4, ValueRead
  <2> QED
    BY <2>1, Zenon
<1>5. CASE v \in DOMAIN ArrayLen
  <2>1. ASSUME NEW z \in ValuesIn(v, buf) PROVE z = buf
    BY <1>5, ValueRead
  <2> QED
    BY <2>1, Zenon
<1>6. CASE v \in Errors
  <2>1. ASSUME NEW z \in ValuesIn(v, buf) PROVE z = SubSeq(buf, 3, Len(buf))
    BY <1>6, ValueRead
  <2> QED
    BY <2>1, Zenon
<1>7. CASE v \in Single
  BY <1>7, SingleRead DEF Single
<1> QED
  BY <1>1, <1>2, <1>3, <1>4, <1>5, <1>6, <1>7 DEF Shaped

LEMMA OneAddress ==
  ASSUME NEW v, NEW buf, NEW txid,
         NEW x \in AddressesIn(v, buf, txid), NEW y \in AddressesIn(v, buf, txid)
  PROVE  x = y
<1>1. ASSUME NEW a \in ReadValue(buf), NEW b \in ReadValue(buf) PROVE a = b
  BY DEF ReadValue
<1>2. ASSUME NEW a \in ReadAlternate(buf), NEW b \in ReadAlternate(buf) PROVE a = b
  BY DEF ReadAlternate
<1>3. ASSUME NEW a \in ReadXor(buf, txid), NEW b \in ReadXor(buf, txid) PROVE a = b
  <2>1. PICK c \in ReadValue(buf), d \in ReadValue(buf) : a = Masked(c, txid) /\ b = Masked(d, txid)
    BY DEF ReadXor
  <2> QED
    BY <1>1, <2>1
<1>4. \/ AddressesIn(v, buf, txid) = ReadXor(buf, txid) \/ AddressesIn(v, buf, txid) = ReadValue(buf)
      \/ AddressesIn(v, buf, txid) = ReadAlternate(buf)
  BY DEF AddressesIn
<1> QED
  BY <1>1, <1>2, <1>3, <1>4

\* What is read of a datagram: of one code one variant, of its octets one value.
LEMMA ParsedIs ==
  ASSUME NEW w, NEW a \in Parsed(w)
  PROVE  \/ /\ FromWire(w.code) \in {"Unknown", "Icmp"} /\ a = Unrecognised(w.code, w.octets)
            /\ MayBeIgnored(w.code) \/ IsKnown(w.code)
         \/ /\ FromWire(w.code) \in Addressed
            /\ \E x \in AddressesIn(FromWire(w.code), w.octets, w.txid) :
                 a = Decoded(FromWire(w.code), AddressVal(x))
         \/ /\ FromWire(w.code) \in Shaped
            /\ \E x \in ValuesIn(FromWire(w.code), w.octets) : a = Decoded(FromWire(w.code), x)
<1> DEFINE v == FromWire(w.code)
<1>1. a \in ParseAttributeValue(v, w.code, w.octets, w.txid) /\ (IsKnown(w.code) \/ MayBeIgnored(w.code))
  BY DEF Parsed
<1>2. v = "Unknown" \/ v = "Icmp" \/ v \in Addressed \/ v \in Shaped
  BY TablesAgree, ShapesCover DEF IsKnown
<1> HIDE DEF v
<1>3. CASE v \in {"Unknown", "Icmp"}
  BY <1>1, <1>3 DEF ParseAttributeValue, v
<1>4. CASE v \in Addressed
  <2>1. v \notin {"Unknown", "Icmp"}
    BY <1>4 DEF Addressed, Xored, Plain
  <2> QED
    BY <1>1, <1>4, <2>1 DEF ParseAttributeValue, v
<1>5. CASE v \in Shaped
  <2>1. v \notin {"Unknown", "Icmp"} /\ v \notin Addressed
    BY <1>5 DEF Addressed, Xored, Plain, Texts, Opaque, Errors, FamilyOnly, Words, ArrayLen, Single, Shaped
  <2> QED
    BY <1>1, <1>5, <2>1 DEF ParseAttributeValue, v
<1> QED
  BY <1>2, <1>3, <1>4, <1>5

LEMMA ParsedOnce ==
  ASSUME NEW w, NEW a \in Parsed(w), NEW b \in Parsed(w)
  PROVE  a = b
<1> DEFINE v == FromWire(w.code)
<1>1. CASE v \in {"Unknown", "Icmp"}
  <2>1. v \notin Addressed /\ v \notin Shaped
    BY <1>1 DEF Addressed, Xored, Plain, Texts, Opaque, Errors, FamilyOnly, Words, ArrayLen, Single, Shaped
  <2>2. a = Unrecognised(w.code, w.octets) /\ b = Unrecognised(w.code, w.octets)
    BY <2>1, ParsedIs
  <2> QED
    BY <2>2
<1>2. CASE v \in Addressed
  <2>1. v \notin {"Unknown", "Icmp"} /\ v \notin Shaped
    BY <1>2 DEF Addressed, Xored, Plain, Texts, Opaque, Errors, FamilyOnly, Words, ArrayLen, Single, Shaped
  <2>2. PICK x \in AddressesIn(v, w.octets, w.txid), y \in AddressesIn(v, w.octets, w.txid) :
          a = Decoded(v, AddressVal(x)) /\ b = Decoded(v, AddressVal(y))
    BY <2>1, ParsedIs
  <2> QED
    BY <2>2, OneAddress
<1>3. CASE v \in Shaped
  <2>1. v \notin {"Unknown", "Icmp"} /\ v \notin Addressed
    BY <1>3 DEF Addressed, Xored, Plain, Texts, Opaque, Errors, FamilyOnly, Words, ArrayLen, Single, Shaped
  <2>2. PICK x \in ValuesIn(v, w.octets), y \in ValuesIn(v, w.octets) :
          a = Decoded(v, x) /\ b = Decoded(v, y)
    BY <2>1, ParsedIs
  <2> QED
    BY <1>3, <2>2, OneValue
<1> QED
  BY <1>1, <1>2, <1>3, ParsedIs

\* What is read of a datagram keeps its code.
LEMMA ParsedKind ==
  ASSUME NEW w, NEW a \in Parsed(w)
  PROVE  /\ CodeOfAttr(a) = w.code
         /\ a.variant = IF FromWire(w.code) = "Icmp" THEN "Unknown" ELSE FromWire(w.code)
<1> DEFINE v == FromWire(w.code)
<1>1. CASE v \in {"Unknown", "Icmp"}
  <2>1. v \notin Addressed /\ v \notin Shaped
    BY <1>1 DEF Addressed, Xored, Plain, Texts, Opaque, Errors, FamilyOnly, Words, ArrayLen, Single, Shaped
  <2>2. a = Unrecognised(w.code, w.octets)
    BY <2>1, ParsedIs
  <2> QED
    BY <1>1, <2>2 DEF Unrecognised, CodeOfAttr
<1>2. CASE v \in Addressed \cup Shaped
  <2>1. v \notin {"Unknown", "Icmp"}
    BY <1>2 DEF Addressed, Xored, Plain, Texts, Opaque, Errors, FamilyOnly, Words, ArrayLen, Single, Shaped
  <2>2. a.variant = v
    BY <2>1, ParsedIs DEF Decoded
  <2>3. AsU16[v] = w.code
    BY <2>1, TablesAgree DEF IsKnown
  <2> QED
    BY <2>1, <2>2, <2>3 DEF CodeOfAttr
<1> QED
  BY <1>1, <1>2, ParsedIs

\* The accessors ask for the codes of their variants.
LEMMA AccessorsAre ==
  ASSUME NEW v \in DOMAIN AccessorCode
  PROVE  /\ v \in Registered /\ v # "Icmp" /\ v # "Unknown"
         /\ AccessorCode[v] = AsU16[v] /\ FromWire(AsU16[v]) = v
<1>1. v \in Registered /\ v # "Icmp" /\ v # "Unknown" /\ AccessorCode[v] = AsU16[v]
  BY DEF AccessorCode, Registered, AsU16
<1> QED
  BY <1>1, NamesAgree

--------------------------------------------------------------------------------
(* What has been read, and who asked.                                        *)

\* The inductive invariant: what an end has read is what parse makes of the datagram
\* at hand, and nothing is read before there is one.
ReadInv ==
  /\ asked \subseteq Requests
  /\ got \subseteq Parsed(wire)
  /\ got # {} => phase \in {"decoded", "read"}

LEMMA ReadNext ==
  ASSUME ReadInv, [ExchangeNext]_exchangeVars
  PROVE  ReadInv'
<1>1. CASE Ask
  <2>1. phase = "idle" /\ asked' \subseteq Requests /\ UNCHANGED <<wire, got>>
    BY <1>1 DEF Ask
  <2>2. got = {}
    BY <2>1 DEF ReadInv
  <2> QED
    BY <2>1, <2>2 DEF ReadInv
<1>2. ASSUME NEW a, NEW say, NEW bits, Answer(a, say, bits)
      PROVE  ReadInv'
  <2>1. phase = "asked" /\ asked' = asked /\ got' = got
    BY <1>2 DEF Answer
  <2>2. got = {}
    BY <2>1 DEF ReadInv
  <2> QED
    BY <2>1, <2>2 DEF ReadInv
<1>3. CASE \E socket \in Sockets : AnswerAddress(socket)
  BY <1>2, <1>3 DEF AnswerAddress
<1>4. CASE \E n \in ErrorNumbers : AnswerError(n)
  BY <1>2, <1>4 DEF AnswerError
<1>5. CASE AnswerUnknown
  BY <1>2, <1>5 DEF AnswerUnknown
<1>6. CASE Receive
  <2>1. PICK w, read :
          /\ read = IF Panics(w) THEN {} ELSE Parsed(w)
          /\ wire' = w /\ got' = read /\ asked' = asked
          /\ phase' = IF Panics(w) THEN "panicked" ELSE IF read = {} THEN "refused" ELSE "decoded"
    BY <1>6 DEF Receive
  <2>2. got' \subseteq Parsed(wire')
    BY <2>1
  <2>3. got' # {} => phase' = "decoded"
    BY <2>1
  <2> QED
    BY <2>1, <2>2, <2>3 DEF ReadInv
<1>7. CASE \E txid \in Txids : Write(txid)
  BY <1>7 DEF Write, ReadInv
<1>8. CASE Read
  <2>1. wire' = wire /\ asked' = asked /\ got' = Parsed(wire) /\ (got' # {} => phase' = "read")
    BY <1>8 DEF Read
  <2>2. Parsed(wire') = Parsed(wire)
    BY <2>1
  <2> QED
    BY <2>1, <2>2 DEF ReadInv
<1>9. CASE UNCHANGED exchangeVars
  BY <1>9 DEF exchangeVars, ReadInv
<1> QED
  BY <1>1, <1>3, <1>4, <1>5, <1>6, <1>7, <1>8, <1>9 DEF ExchangeNext

LEMMA ReadHolds == ExchangeSpec => []ReadInv
<1>1. ExchangeInit => ReadInv
  BY DEF ExchangeInit, ReadInv
<1>2. ReadInv /\ [ExchangeNext]_exchangeVars => ReadInv'
  BY ReadNext
<1> QED
  BY <1>1, <1>2, PTL DEF ExchangeSpec

\* A message type survives being read and written, and the types of its replies are
\* no requests, keep its method and are not replied to (MessageType::from_bits, bits,
\* success_response_type, error_response_type).
THEOREM TypesAreKept == ExchangeSpec => []TypeKept
<1>1. ReadInv => TypeKept
  <2> SUFFICES ASSUME ReadInv, NEW r \in asked, NEW t \in TypesAt(r.bits)
               PROVE  /\ TypeBits(t) = r.bits
                      /\ \A reply \in SuccessTypes(t) \cup ErrorTypes(t) :
                           /\ t.class = "Request"
                           /\ TypesAt(TypeBits(reply)) = {reply} /\ reply.method = t.method
                           /\ ~ CanReply420(reply) /\ SuccessTypes(reply) \cup ErrorTypes(reply) = {}
    BY DEF TypeKept
  <2>1. r.bits \in Word
    BY ExchangeAssumption DEF ReadInv
  <2>2. t \in Types /\ TypeBits(t) = r.bits
    BY <2>1, TypeRead
  <2>3. ASSUME NEW reply \in SuccessTypes(t) \cup ErrorTypes(t)
        PROVE  /\ t.class = "Request"
               /\ TypesAt(TypeBits(reply)) = {reply} /\ reply.method = t.method
               /\ ~ CanReply420(reply) /\ SuccessTypes(reply) \cup ErrorTypes(reply) = {}
    <3>1. /\ t.class = "Request" /\ reply \in Types /\ reply.method = t.method
          /\ ~ CanReply420(reply) /\ SuccessTypes(reply) \cup ErrorTypes(reply) = {}
      BY <2>2, RepliesAre
    <3>2. TypesAt(TypeBits(reply)) = {reply}
      BY <3>1, TypeWritten
    <3> QED
      BY <3>1, <3>2
  <2> QED
    BY <2>2, <2>3
<1> QED
  BY <1>1, ReadHolds, PTL

\* An attribute is written under the code it was read by, and its accessor finds it
\* exactly when it came with the code of the registry (attr_from_wire, as_u16,
\* Message::find).
THEOREM KindsAreKept == ExchangeSpec => []KindKept
<1>1. ReadInv => KindKept
  <2> SUFFICES ASSUME ReadInv
               PROVE  /\ \A a \in got : Find(got, wire.code) = {a} /\ CodeOfAttr(a) = wire.code
                      /\ \A v \in DOMAIN AccessorCode :
                           Accessor(got, v) = {a \in got : wire.code = AsU16[v]}
    BY DEF KindKept
  <2>1. \A a \in got : CodeOfAttr(a) = wire.code
    BY ParsedKind DEF ReadInv
  <2>2. \A a, b \in got : a = b
    BY ParsedOnce DEF ReadInv
  <2>3. \A a \in got : Find(got, wire.code) = {a}
    BY <2>1, <2>2 DEF Find
  <2>4. ASSUME NEW v \in DOMAIN AccessorCode
        PROVE  Accessor(got, v) = {a \in got : wire.code = AsU16[v]}
    <3>1. ASSUME NEW a \in got
          PROVE  CodeOfAttr(a) = AccessorCode[v] /\ a.variant = v <=> wire.code = AsU16[v]
      <4>1. a.variant = IF FromWire(wire.code) = "Icmp" THEN "Unknown" ELSE FromWire(wire.code)
        BY ParsedKind DEF ReadInv
      <4> QED
        BY <2>1, <4>1, AccessorsAre
    <3> QED
      BY <3>1 DEF Accessor, Find
  <2> QED
    BY <2>1, <2>3, <2>4
<1> QED
  BY <1>1, ReadHolds, PTL

--------------------------------------------------------------------------------
(* Addresses.                                                                *)

Addresses ==
  {a \in [family: Families, port: Word, ip: [1 .. 16 -> Octet]] :
     \A i \in 1 .. 16 : i > AddressOctets(a.family) => a.ip[i] = 0}

LEMMA AddressHas ==
  ASSUME NEW a \in Addresses
  PROVE  /\ a = [family |-> a.family, port |-> a.port, ip |-> a.ip]
         /\ a.family \in Families /\ a.port \in Word
         /\ a.ip \in Seq(Octet) /\ Len(a.ip) = 16 /\ a.ip = [i \in 1 .. 16 |-> a.ip[i]]
         /\ AddressOctets(a.family) \in {4, 16}
         /\ \A i \in 1 .. 16 : i > AddressOctets(a.family) => a.ip[i] = 0
<1>1. /\ a = [family |-> a.family, port |-> a.port, ip |-> a.ip]
      /\ a.family \in Families /\ a.port \in Word /\ a.ip \in [1 .. 16 -> Octet]
      /\ \A i \in 1 .. 16 : i > AddressOctets(a.family) => a.ip[i] = 0
  BY DEF Addresses
<1>2. a.ip \in Seq(Octet) /\ Len(a.ip) = 16
  <2>1. 16 \in Nat /\ a.ip \in [1 .. 16 -> Octet]
    BY <1>1
  <2> QED
    BY <2>1, Listed, Zenon
<1>3. AddressOctets(a.family) \in {4, 16}
  BY DEF AddressOctets
<1> QED
  BY <1>1, <1>2, <1>3

LEMMA WordOctets ==
  ASSUME NEW n \in Word
  PROVE  /\ Octets16(n) \in Seq(Octet) /\ Len(Octets16(n)) = 2
         /\ Octets16(n)[1] = n \div 256 /\ Octets16(n)[2] = n % 256
         /\ 256 * (n \div 256) + (n % 256) = n
<1>1. n \in Nat /\ n < 65536
  BY WordIs
<1>2. /\ n \div 256 \in Nat /\ n \div 256 < 256 /\ n % 256 \in Nat /\ n % 256 < 256
      /\ 256 * (n \div 256) + (n % 256) = n
  BY <1>1
<1>3. n \div 256 \in Octet /\ n % 256 \in Octet
  BY <1>2, OctetIs
<1> QED
  BY <1>2, <1>3 DEF Octets16

LEMMA WordFrom ==
  ASSUME NEW s \in Seq(Octet), NEW i \in 1 .. Len(s), i + 1 <= Len(s)
  PROVE  Be16(s, i) \in Word /\ Octets16(Be16(s, i)) = <<s[i], s[i + 1]>>
<1>1. s[i] \in Octet /\ s[i + 1] \in Octet
  OBVIOUS
<1> DEFINE x == s[i]
           y == s[i + 1]
<1>2. x \in Nat /\ x < 256 /\ y \in Nat /\ y < 256
  BY <1>1, OctetIs
<1>3. Be16(s, i) = 256 * x + y
  BY DEF Be16
<1> HIDE DEF x, y
<1>4. 256 * x + y \in Nat /\ 256 * x + y < 65536 /\ (256 * x + y) \div 256 = x /\ (256 * x + y) % 256 = y
  BY <1>2
<1>5. Be16(s, i) \in Word
  BY <1>3, <1>4, WordIs
<1> QED
  BY <1>3, <1>4, <1>5 DEF Octets16, x, y

\* z is q with p behind it.
IsJoin(z, S, q, p) ==
  /\ z \in Seq(S) /\ Len(z) = Len(q) + Len(p)
  /\ \A i \in 1 .. Len(q) : z[i] = q[i]
  /\ \A i \in 1 .. Len(p) : z[Len(q) + i] = p[i]

LEMMA JoinIs ==
  ASSUME NEW S, NEW q \in Seq(S), NEW p \in Seq(S)
  PROVE  IsJoin(q \o p, S, q, p)
<1>1. /\ q \o p \in Seq(S) /\ Len(q \o p) = Len(q) + Len(p)
      /\ \A i \in 1 .. Len(q) : (q \o p)[i] = q[i]
      /\ \A i \in 1 .. Len(p) : (q \o p)[Len(q) + i] = p[i]
  BY Behind
<1> QED
  BY <1>1, Zenon DEF IsJoin

\* What is behind the first k elements.
LEMMA PartOf ==
  ASSUME NEW S, NEW z \in Seq(S), NEW k \in Nat, NEW l \in Nat, Len(z) = k + l,
         NEW m \in Nat, m = k + 1, NEW n \in Nat, n = k + l
  PROVE  /\ SubSeq(z, m, n) \in Seq(S) /\ Len(SubSeq(z, m, n)) = l
         /\ \A i \in 1 .. l : SubSeq(z, m, n)[i] = z[k + i]
<1> DEFINE s == SubSeq(z, m, n)
<1>1. ASSUME NEW i \in m .. n PROVE z[i] \in S
  <2>1. i \in 1 .. Len(z)
    OBVIOUS
  <2> QED
    BY <2>1, ElementOfSeq, Zenon
<1>2. m \in Int /\ n \in Int
  OBVIOUS
<1>3. s \in Seq(S)
  BY <1>1, <1>2, SubSeqProperties
<1>4. Len(s) = IF m <= n THEN n - m + 1 ELSE 0
  BY <1>1, <1>2, SubSeqProperties
<1>5. \A i \in 1 .. n - m + 1 : s[i] = z[m + i - 1]
  BY <1>1, <1>2, SubSeqProperties
<1> HIDE DEF s
<1>6. Len(s) = l
  BY <1>4
<1>7. ASSUME NEW i \in 1 .. l PROVE s[i] = z[k + i]
  <2>1. i \in 1 .. n - m + 1 /\ m + i - 1 = k + i
    OBVIOUS
  <2> QED
    BY <1>5, <2>1
<1> QED
  BY <1>3, <1>6, <1>7 DEF s

\* Two octets, two more, and what follows.
LEMMA TwoAndTwo ==
  ASSUME NEW S, NEW q \in Seq(S), Len(q) = 2, NEW p \in Seq(S), Len(p) = 2, NEW h,
         IsJoin(h, S, q, p)
  PROVE  h \in Seq(S) /\ Len(h) = 4 /\ h[1] = q[1] /\ h[2] = q[2] /\ h[3] = p[1] /\ h[4] = p[2]
BY DEF IsJoin

LEMMA FourAndRest ==
  ASSUME NEW S, NEW h \in Seq(S), Len(h) = 4, NEW s \in Seq(S), NEW buf, IsJoin(buf, S, h, s)
  PROVE  /\ buf \in Seq(S) /\ Len(buf) = 4 + Len(s)
         /\ \A i \in 1 .. 4 : buf[i] = h[i]
         /\ \A i \in 1 .. Len(s) : buf[4 + i] = s[i]
BY DEF IsJoin

LEMMA HeadAndRest ==
  ASSUME NEW S, NEW q \in Seq(S), Len(q) = 2, NEW p \in Seq(S), Len(p) = 2, NEW s \in Seq(S),
         NEW h, IsJoin(h, S, q, p), NEW buf, IsJoin(buf, S, h, s)
  PROVE  /\ buf \in Seq(S) /\ Len(buf) = 4 + Len(s)
         /\ buf[1] = q[1] /\ buf[2] = q[2] /\ buf[3] = p[1] /\ buf[4] = p[2]
         /\ \A i \in 1 .. Len(s) : buf[4 + i] = s[i]
<1>1. h \in Seq(S) /\ Len(h) = 4 /\ h[1] = q[1] /\ h[2] = q[2] /\ h[3] = p[1] /\ h[4] = p[2]
  BY TwoAndTwo
<1>2. /\ buf \in Seq(S) /\ Len(buf) = 4 + Len(s)
      /\ \A i \in 1 .. 4 : buf[i] = h[i]
      /\ \A i \in 1 .. Len(s) : buf[4 + i] = s[i]
  BY <1>1, FourAndRest
<1> QED
  BY <1>1, <1>2

\* Two octets, the port and the significant octets, as all the writers lay them out.
Layout(x, y, a) == <<x, y>> \o Octets16(a.port) \o Significant(a)

LEMMA LayoutIs ==
  ASSUME NEW a \in Addresses, NEW x \in Octet, NEW y \in Octet
  PROVE  /\ Layout(x, y, a) \in Seq(Octet) /\ Len(Layout(x, y, a)) = ValueLen(a.family)
         /\ Layout(x, y, a)[1] = x /\ Layout(x, y, a)[2] = y
         /\ AddressIn(Layout(x, y, a), a.family) = a
<1> DEFINE n == AddressOctets(a.family)
           s == Significant(a)
           p == Octets16(a.port)
           buf == Layout(x, y, a)
<1>1. /\ a = [family |-> a.family, port |-> a.port, ip |-> a.ip]
      /\ a.port \in Word /\ a.ip \in Seq(Octet) /\ Len(a.ip) = 16 /\ a.ip = [i \in 1 .. 16 |-> a.ip[i]]
      /\ n \in {4, 16} /\ \A i \in 1 .. 16 : i > n => a.ip[i] = 0
  BY AddressHas
<1>2. s \in Seq(Octet) /\ Len(s) = n /\ \A i \in 1 .. n : s[i] = a.ip[i]
  BY <1>1 DEF Significant
<1>3. /\ p \in Seq(Octet) /\ Len(p) = 2 /\ p[1] = a.port \div 256 /\ p[2] = a.port % 256
      /\ 256 * (a.port \div 256) + (a.port % 256) = a.port
  BY <1>1, WordOctets
<1>4. buf = <<x, y>> \o p \o s
  BY DEF Layout
<1> HIDE DEF n, s, p, buf
<1>5. /\ buf \in Seq(Octet) /\ Len(buf) = 4 + n
      /\ buf[1] = x /\ buf[2] = y /\ buf[3] = p[1] /\ buf[4] = p[2]
      /\ \A i \in 1 .. n : buf[4 + i] = s[i]
  <2> DEFINE q == <<x, y>>
  <2>1. q \in Seq(Octet) /\ Len(q) = 2 /\ q[1] = x /\ q[2] = y
    BY PairIs
  <2> DEFINE h == q \o p
  <2>2. buf = h \o s
    BY <1>4
  <2> HIDE DEF q
  <2>3. IsJoin(h, Octet, q, p)
    BY <1>3, <2>1, JoinIs, Zenon
  <2> HIDE DEF h
  <2>4. h \in Seq(Octet)
    BY <2>3 DEF IsJoin
  <2>5. IsJoin(buf, Octet, h, s)
    BY <1>2, <2>2, <2>4, JoinIs, Zenon
  <2>6. /\ buf \in Seq(Octet) /\ Len(buf) = 4 + Len(s)
        /\ buf[1] = q[1] /\ buf[2] = q[2] /\ buf[3] = p[1] /\ buf[4] = p[2]
        /\ \A i \in 1 .. Len(s) : buf[4 + i] = s[i]
    BY <1>2, <1>3, <2>1, <2>3, <2>5, HeadAndRest
  <2> QED
    BY <1>2, <2>1, <2>6
<1>6. Be16(buf, 3) = a.port
  BY <1>3, <1>5 DEF Be16
<1>7. SubSeq(buf, 5, 4 + n) \o Zeros(16 - n) = a.ip
  <2> DEFINE u == SubSeq(buf, 5, 4 + n)
             z == Zeros(16 - n)
  <2>1. u \in Seq(Octet) /\ Len(u) = n /\ \A i \in 1 .. n : u[i] = buf[4 + i]
    <3>1. ASSUME NEW k \in Nat, k = 4, NEW m \in Nat, m = 5, NEW e \in Nat, e = 4 + n
          PROVE  /\ SubSeq(buf, m, e) \in Seq(Octet) /\ Len(SubSeq(buf, m, e)) = n
                 /\ \A i \in 1 .. n : SubSeq(buf, m, e)[i] = buf[k + i]
      <4>1. n \in Nat /\ Len(buf) = k + n /\ m = k + 1 /\ e = k + n
        BY <1>1, <1>5, <3>1
      <4> QED
        BY <1>5, <4>1, PartOf
    <3>2. 4 \in Nat /\ 5 \in Nat /\ 4 + n \in Nat
      BY <1>1
    <3> QED
      BY <3>1, <3>2, Zenon
  <2>2. 0 \in Octet
    BY OctetIs
  <2>3. z \in Seq(Octet) /\ Len(z) = 16 - n /\ \A i \in 1 .. 16 - n : z[i] = 0
    BY <1>1, <2>2 DEF Zeros
  <2> HIDE DEF u, z
  <2> DEFINE w == u \o z
  <2>4. IsJoin(w, Octet, u, z)
    BY <2>1, <2>3, JoinIs, Zenon
  <2> HIDE DEF w
  <2>5. /\ w \in Seq(Octet) /\ Len(w) = n + (16 - n)
        /\ \A i \in 1 .. n : w[i] = u[i]
        /\ \A i \in 1 .. 16 - n : w[n + i] = z[i]
    BY <2>1, <2>3, <2>4 DEF IsJoin
  <2>6. Len(w) = 16
    BY <1>1, <2>5
  <2>7. ASSUME NEW i \in 1 .. 16 PROVE w[i] = a.ip[i]
    <3>1. CASE i <= n
      <4>1. i \in 1 .. n
        BY <1>1, <3>1
      <4> QED
        <5>1. w[i] = u[i] /\ u[i] = buf[4 + i]
          BY <2>1, <2>5, <4>1, Zenon
        <5>2. buf[4 + i] = s[i]
          BY <1>5, <4>1, Zenon
        <5>3. s[i] = a.ip[i]
          BY <1>2, <4>1
        <5> QED
          BY <5>1, <5>2, <5>3, Zenon
    <3>2. CASE i > n
      <4> DEFINE j == i - n
      <4>1. j \in 1 .. 16 - n /\ n + j = i
        BY <1>1, <3>2
      <4> HIDE DEF j
      <4>2. w[n + j] = z[j] /\ z[j] = 0
        BY <2>3, <2>5, <4>1
      <4>3. a.ip[i] = 0
        BY <1>1, <3>2
      <4> QED
        BY <4>1, <4>2, <4>3, Zenon
    <3> QED
      <4>1. i <= n \/ i > n
        BY <1>1
      <4> QED
        BY <3>1, <3>2, <4>1
  <2>8. w = a.ip
    <3>1. Len(w) = Len(a.ip) /\ \A i \in 1 .. Len(w) : w[i] = a.ip[i]
      BY <1>1, <2>6, <2>7
    <3> QED
      BY <1>1, <2>5, <3>1, SeqEqual
  <2> QED
    BY <2>8 DEF u, z, w
<1>8. AddressIn(buf, a.family) = a
  BY <1>1, <1>6, <1>7 DEF AddressIn, ValueLen, n
<1> QED
  BY <1>5, <1>8 DEF buf, ValueLen, n

\* What is in a value long enough is an address.
LEMMA AddressRead ==
  ASSUME NEW buf \in Seq(Octet), NEW f \in Families, Len(buf) >= ValueLen(f)
  PROVE  AddressIn(buf, f) \in Addresses
<1> DEFINE n == AddressOctets(f)
           u == SubSeq(buf, 5, ValueLen(f))
           z == Zeros(16 - n)
           ip == u \o z
<1>1. n \in {4, 16} /\ ValueLen(f) = 4 + n
  BY DEF AddressOctets, ValueLen
<1> HIDE DEF n
<1>2. u \in Seq(Octet) /\ Len(u) = n
  BY <1>1
<1>3. 0 \in Octet
  BY OctetIs
<1>4. z \in Seq(Octet) /\ Len(z) = 16 - n /\ \A i \in 1 .. 16 - n : z[i] = 0
  BY <1>1, <1>3 DEF Zeros
<1> HIDE DEF u, z
<1>5. IsJoin(ip, Octet, u, z)
  BY <1>2, <1>4, JoinIs, Zenon
<1> HIDE DEF ip
<1>6. ip \in Seq(Octet) /\ Len(ip) = 16 /\ \A i \in 1 .. 16 - n : ip[n + i] = z[i]
  BY <1>1, <1>2, <1>4, <1>5 DEF IsJoin
<1>7. ip \in [1 .. 16 -> Octet]
  BY <1>6, 16 \in Nat, Unlisted
<1>8. ASSUME NEW i \in 1 .. 16, i > n PROVE ip[i] = 0
  <2>1. i - n \in 1 .. 16 - n
    BY <1>1, <1>8
  <2>2. ip[n + (i - n)] = 0
    BY <1>4, <1>6, <2>1
  <2> QED
    BY <1>1, <2>2
<1>9. Be16(buf, 3) \in Word
  BY <1>1, WordFrom
<1>10. AddressIn(buf, f) = [family |-> f, port |-> Be16(buf, 3), ip |-> ip]
  BY DEF AddressIn, ip, u, z, n
<1> QED
  BY <1>7, <1>8, <1>9, <1>10 DEF Addresses, n

LEMMA AddressesRead ==
  ASSUME NEW buf \in Seq(Octet)
  PROVE  ReadValue(buf) \subseteq Addresses /\ ReadAlternate(buf) \subseteq Addresses
BY AddressRead DEF ReadValue, ReadAlternate

\* What a writer writes, its reader reads: the other family has another octet.
LEMMA AddressWritten ==
  ASSUME NEW a \in Addresses
  PROVE  /\ WriteValue(a) \in Seq(Octet) /\ WriteAlternate(a) \in Seq(Octet)
         /\ Len(WriteValue(a)) = ValueLen(a.family) /\ Len(WriteAlternate(a)) = ValueLen(a.family)
         /\ ReadValue(WriteValue(a)) = {a} /\ ReadAlternate(WriteAlternate(a)) = {a}
<1> DEFINE v == WriteValue(a)
           w == WriteAlternate(a)
           f == a.family
<1>1. f \in Families
  BY AddressHas
<1>2. f \in Octet /\ 0 \in Octet
  BY <1>1, OctetIs DEF Families
<1>3. v = Layout(0, f, a) /\ w = Layout(f, 0, a)
  BY DEF WriteValue, WriteAlternate, Layout
<1> HIDE DEF v, w
<1>4. /\ v \in Seq(Octet) /\ Len(v) = ValueLen(f) /\ v[1] = 0 /\ v[2] = f /\ AddressIn(v, f) = a
  BY <1>2, <1>3, LayoutIs
<1>5. /\ w \in Seq(Octet) /\ Len(w) = ValueLen(f) /\ w[1] = f /\ w[2] = 0 /\ AddressIn(w, f) = a
  BY <1>2, <1>3, LayoutIs
<1>6. ValueLen(f) \in Int
  BY DEF ValueLen, AddressOctets
<1>7. {g \in Families : Len(v) >= ValueLen(g) /\ v[1] = 0 /\ v[2] = g} = {f}
  BY <1>1, <1>4, <1>6
<1>8. {g \in Families : Len(w) >= ValueLen(g) /\ w[1] = g} = {f}
  BY <1>1, <1>5, <1>6
<1>9. ReadValue(v) = {a}
  BY <1>4, <1>7, Zenon DEF ReadValue
<1>10. ReadAlternate(w) = {a}
  BY <1>5, <1>8, Zenon DEF ReadAlternate
<1> QED
  BY <1>4, <1>5, <1>9, <1>10 DEF v, w

LEMMA LastSixteen ==
  ASSUME NEW S, NEW val \in Seq(S), Len(val) = 18
  PROVE  /\ SubSeq(val, 3, 18) \in Seq(S) /\ Len(SubSeq(val, 3, 18)) = 16
         /\ \A i \in 1 .. 16 : SubSeq(val, 3, 18)[i] = val[2 + i]
<1> DEFINE s == SubSeq(val, 3, 18)
<1>1. ASSUME NEW i \in 3 .. 18 PROVE val[i] \in S
  <2>1. i \in 1 .. Len(val)
    OBVIOUS
  <2> QED
    BY <2>1, ElementOfSeq, Zenon
<1>2. 3 \in Int /\ 18 \in Int
  OBVIOUS
<1>3. s \in Seq(S)
  BY <1>1, <1>2, SubSeqProperties
<1>4. Len(s) = IF 3 <= 18 THEN 18 - 3 + 1 ELSE 0
  BY <1>1, <1>2, SubSeqProperties
<1>5. \A i \in 1 .. 18 - 3 + 1 : s[i] = val[3 + i - 1]
  BY <1>1, <1>2, SubSeqProperties
<1> HIDE DEF s
<1>6. Len(s) = 16 /\ \A i \in 1 .. 16 : s[i] = val[2 + i]
  BY <1>4, <1>5
<1> QED
  BY <1>3, <1>6 DEF s

LEMMA AddressKept ==
  ASSUME NEW a \in Addresses
  PROVE  AddressFrom(AddressVal(a)) = a
<1> DEFINE q == <<a.family, a.port>>
           val == q \o a.ip
<1>1. /\ a = [family |-> a.family, port |-> a.port, ip |-> a.ip]
      /\ a.ip \in Seq(Octet) /\ Len(a.ip) = 16 /\ a.family \in Families /\ a.port \in Word
  BY AddressHas
<1>2. a.family \in Nat /\ a.port \in Nat
  BY <1>1, WordIs DEF Families
<1>3. q \in Seq(Nat) /\ Len(q) = 2 /\ q[1] = a.family /\ q[2] = a.port
  BY <1>2, PairIs
<1>4. a.ip \in Seq(Nat)
  BY <1>1, OctetIs
<1> HIDE DEF q
<1>5. IsJoin(val, Nat, q, a.ip)
  BY <1>3, <1>4, JoinIs, Zenon
<1> HIDE DEF val
<1>6. /\ val \in Seq(Nat) /\ Len(val) = 18 /\ val[1] = a.family /\ val[2] = a.port
      /\ \A i \in 1 .. 16 : val[2 + i] = a.ip[i]
  BY <1>1, <1>3, <1>4, <1>5 DEF IsJoin
<1>7. SubSeq(val, 3, 18) = a.ip
  <2> DEFINE ip == a.ip
  <2>1. ip \in Seq(Nat) /\ Len(ip) = 16
    BY <1>1, <1>4
  <2>2. \A i \in 1 .. 16 : val[2 + i] = ip[i]
    BY <1>6
  <2> HIDE DEF ip
  <2>3. /\ SubSeq(val, 3, 18) \in Seq(Nat) /\ Len(SubSeq(val, 3, 18)) = 16
        /\ \A i \in 1 .. 16 : SubSeq(val, 3, 18)[i] = val[2 + i]
    BY <1>6, LastSixteen
  <2>4. \A i \in 1 .. 16 : SubSeq(val, 3, 18)[i] = ip[i]
    BY <2>2, <2>3
  <2>5. SubSeq(val, 3, 18) = ip
    BY <2>1, <2>3, <2>4, SeqEqual
  <2> QED
    BY <2>5 DEF ip
<1>8. AddressVal(a) = val
  BY DEF AddressVal, val, q
<1> QED
  BY <1>1, <1>6, <1>7, <1>8 DEF AddressFrom

LEMMA KeyIs ==
  ASSUME NEW txid \in TransactionIds
  PROVE  Cookie \o txid \in Seq(Octet) /\ Len(Cookie \o txid) = 16
<1>1. txid \in Seq(Octet) /\ Len(txid) = 12
  BY 12 \in Nat, Listed DEF TransactionIds
<1>2. 33 \in Octet /\ 18 \in Octet /\ 164 \in Octet /\ 66 \in Octet
  BY OctetIs
<1>3. Cookie \in Seq(Octet) /\ Len(Cookie) = 4
  BY <1>2 DEF Cookie
<1>4. IsJoin(Cookie \o txid, Octet, Cookie, txid)
  BY <1>1, <1>3, JoinIs, Zenon
<1> QED
  BY <1>1, <1>3, <1>4 DEF IsJoin

\* To mask an address twice is to leave it as it is.
LEMMA MaskedBack ==
  ASSUME NEW a \in Addresses, NEW txid \in TransactionIds
  PROVE  /\ Masked(a, txid) \in Addresses /\ Masked(a, txid).family = a.family
         /\ Masked(Masked(a, txid), txid) = a
<1> DEFINE n == AddressOctets(a.family)
           key == Cookie \o txid
           high == Be16(Cookie, 1)
           Ip(b) == [i \in 1 .. 16 |-> IF i <= n THEN Xor8(b.ip[i], key[i]) ELSE b.ip[i]]
           m == Masked(a, txid)
           k == Masked(m, txid)
<1>1. /\ a = [family |-> a.family, port |-> a.port, ip |-> a.ip]
      /\ a.family \in Families /\ a.port \in Word /\ a.ip = [i \in 1 .. 16 |-> a.ip[i]]
      /\ n \in {4, 16} /\ \A i \in 1 .. 16 : i > n => a.ip[i] = 0
  BY AddressHas
<1>2. a.ip \in [1 .. 16 -> Octet]
  BY DEF Addresses
<1>3. \A i \in 1 .. 16 : key[i] \in Octet
  <2>1. key \in [1 .. 16 -> Octet]
    BY KeyIs, 16 \in Nat, Unlisted
  <2> QED
    BY <2>1, Zenon
<1>4. high \in Nat /\ high < 65536
  BY DEF Be16, Cookie
<1>5. a.port \in Nat /\ a.port < 65536
  BY <1>1, WordIs
<1>6. /\ Xor16(a.port, high) \in Nat /\ Xor16(a.port, high) < 65536
      /\ Xor16(Xor16(a.port, high), high) = a.port
  <2> DEFINE x == a.port
  <2>1. x \in Nat /\ x < 65536
    BY <1>5
  <2> HIDE DEF x, high
  <2>2. Xor16(x, high) \in Nat /\ Xor16(x, high) < 65536 /\ Xor16(Xor16(x, high), high) = x
    BY <1>4, <2>1, Xor16Back
  <2> QED
    BY <2>2 DEF x
<1>7. ASSUME NEW i \in 1 .. 16
      PROVE  Xor8(a.ip[i], key[i]) \in Octet /\ Xor8(Xor8(a.ip[i], key[i]), key[i]) = a.ip[i]
  <2> DEFINE x == a.ip[i]
             y == key[i]
  <2>1. x \in Octet /\ y \in Octet
    BY <1>2, <1>3
  <2> HIDE DEF x, y
  <2>2. x \in Nat /\ x < 256 /\ y \in Nat /\ y < 256
    BY <2>1, OctetIs
  <2>3. Xor8(x, y) \in Nat /\ Xor8(x, y) < 256 /\ Xor8(Xor8(x, y), y) = x
    BY <2>2, Xor8Back
  <2>4. Xor8(x, y) \in Octet
    BY <2>3, OctetIs
  <2> QED
    BY <2>3, <2>4 DEF x, y
<1> HIDE DEF key, high, n
<1>8. m = [family |-> a.family, port |-> Xor16(a.port, high), ip |-> Ip(a)]
  BY Zenon DEF Masked, key, high, n
<1>9. m.family = a.family /\ m.port = Xor16(a.port, high) /\ m.ip = Ip(a)
  BY <1>8
<1>10. Ip(a) \in [1 .. 16 -> Octet] /\ \A i \in 1 .. 16 : i > n => Ip(a)[i] = 0
  BY <1>1, <1>2, <1>7
<1>11. m \in Addresses
  <2>1. Xor16(a.port, high) \in Word
    BY <1>6, WordIs
  <2> QED
    BY <1>1, <1>8, <1>9, <1>10, <2>1 DEF Addresses, n
<1>12. k = [family |-> m.family, port |-> Xor16(m.port, high), ip |-> Ip(m)]
  BY <1>9, Zenon DEF Masked, key, high, n
<1>13. Ip(m) = a.ip
  BY <1>1, <1>7, <1>9
<1>14. k = a
  BY <1>1, <1>6, <1>9, <1>12, <1>13
<1> QED
  BY <1>9, <1>11, <1>14

LEMMA XoredKept ==
  ASSUME NEW txid \in TransactionIds
  PROVE  /\ \A a \in Addresses :
              /\ WriteXor(a, txid) \in Seq(Octet) /\ Len(WriteXor(a, txid)) = ValueLen(a.family)
              /\ ReadXor(WriteXor(a, txid), txid) = {a}
         /\ \A buf \in Seq(Octet) : ReadXor(buf, txid) \subseteq Addresses
<1>1. ASSUME NEW a \in Addresses
      PROVE  /\ WriteXor(a, txid) \in Seq(Octet) /\ Len(WriteXor(a, txid)) = ValueLen(a.family)
             /\ ReadXor(WriteXor(a, txid), txid) = {a}
  <2> DEFINE m == Masked(a, txid)
  <2>1. m \in Addresses /\ m.family = a.family /\ Masked(m, txid) = a
    BY MaskedBack
  <2> HIDE DEF m
  <2>2. WriteValue(m) \in Seq(Octet) /\ Len(WriteValue(m)) = ValueLen(m.family) /\ ReadValue(WriteValue(m)) = {m}
    BY <2>1, AddressWritten
  <2>3. WriteXor(a, txid) = WriteValue(m)
    BY DEF WriteXor, m
  <2>4. ReadXor(WriteValue(m), txid) = {a}
    BY <2>1, <2>2 DEF ReadXor
  <2> QED
    BY <2>1, <2>2, <2>3, <2>4
<1>2. ASSUME NEW buf \in Seq(Octet), NEW a \in ReadXor(buf, txid)
      PROVE  a \in Addresses
  <2>1. PICK b \in ReadValue(buf) : a = Masked(b, txid)
    BY DEF ReadXor
  <2>2. b \in Addresses
    BY <2>1, AddressesRead
  <2> QED
    BY <2>1, <2>2, MaskedBack
<1> QED
  BY <1>1, <1>2

\* An address of any attribute, written as that attribute, is read as it was.
LEMMA AddressRound ==
  ASSUME NEW v \in Addressed, NEW a \in Addresses, NEW txid \in TransactionIds
  PROVE  /\ OctetsOfAddress(v, a, txid) \in Seq(Octet) /\ Len(OctetsOfAddress(v, a, txid)) <= BufferLen
         /\ AddressesIn(v, OctetsOfAddress(v, a, txid), txid) = {a}
<1>1. ValueLen(a.family) <= BufferLen
  BY DEF ValueLen, AddressOctets, BufferLen
<1>2. CASE v \in Xored
  <2> DEFINE o == WriteXor(a, txid)
  <2>1. o \in Seq(Octet) /\ Len(o) = ValueLen(a.family) /\ ReadXor(o, txid) = {a}
    BY XoredKept
  <2> HIDE DEF o
  <2>2. OctetsOfAddress(v, a, txid) = o /\ AddressesIn(v, o, txid) = ReadXor(o, txid)
    BY <1>2 DEF OctetsOfAddress, AddressesIn, o, Xored, Plain
  <2> QED
    BY <1>1, <2>1, <2>2
<1>3. CASE v \in Plain
  <2> DEFINE o == WriteValue(a)
  <2>1. o \in Seq(Octet) /\ Len(o) = ValueLen(a.family) /\ ReadValue(o) = {a}
    BY AddressWritten
  <2> HIDE DEF o
  <2>2. OctetsOfAddress(v, a, txid) = o /\ AddressesIn(v, o, txid) = ReadValue(o)
    BY <1>3 DEF OctetsOfAddress, AddressesIn, o, Xored, Plain
  <2> QED
    BY <1>1, <2>1, <2>2
<1>4. CASE v \notin Xored /\ v \notin Plain
  <2> DEFINE o == WriteAlternate(a)
  <2>1. o \in Seq(Octet) /\ Len(o) = ValueLen(a.family) /\ ReadAlternate(o) = {a}
    BY AddressWritten
  <2> HIDE DEF o
  <2>2. OctetsOfAddress(v, a, txid) = o /\ AddressesIn(v, o, txid) = ReadAlternate(o)
    BY <1>4 DEF OctetsOfAddress, AddressesIn, o
  <2> QED
    BY <1>1, <2>1, <2>2
<1> QED
  BY <1>2, <1>3, <1>4

LEMMA AddressSound ==
  ASSUME NEW v, NEW buf \in Seq(Octet), NEW txid \in TransactionIds
  PROVE  AddressesIn(v, buf, txid) \subseteq Addresses
<1>1. ReadXor(buf, txid) \subseteq Addresses
  BY XoredKept
<1>2. ReadValue(buf) \subseteq Addresses /\ ReadAlternate(buf) \subseteq Addresses
  BY AddressesRead
<1>3. \/ AddressesIn(v, buf, txid) = ReadXor(buf, txid) \/ AddressesIn(v, buf, txid) = ReadValue(buf)
      \/ AddressesIn(v, buf, txid) = ReadAlternate(buf)
  BY DEF AddressesIn
<1> QED
  BY <1>1, <1>2, <1>3

--------------------------------------------------------------------------------
(* Lists of numbers.                                                         *)

LEMMA HalfIs ==
  ASSUME NEW i \in Nat, i > 0
  PROVE  /\ (2 * i + 1) \div 2 = i /\ (2 * i) \div 2 = i /\ (2 * i) % 2 = 0 /\ (2 * i - 1) % 2 = 1
OBVIOUS

\* The octets of a list of numbers are read as that list.
LEMMA WordsRound ==
  ASSUME NEW ns \in Seq(Word)
  PROVE  /\ AllOctets16(ns) \in Seq(Octet) /\ Len(AllOctets16(ns)) = 2 * Len(ns)
         /\ \A i \in 1 .. Len(ns) : Be16(AllOctets16(ns), 2 * i - 1) = ns[i]
<1> DEFINE n == Len(ns)
           buf == AllOctets16(ns)
<1>1. n \in Nat /\ 2 * n \in Nat
  OBVIOUS
<1>2. ASSUME NEW i \in 1 .. 2 * n
      PROVE  (i + 1) \div 2 \in 1 .. n /\ 2 - (i % 2) \in 1 .. 2
  BY <1>1
<1>3. ASSUME NEW j \in 1 .. n
      PROVE  /\ Octets16(ns[j])[1] \in Octet /\ Octets16(ns[j])[2] \in Octet
             /\ 256 * Octets16(ns[j])[1] + Octets16(ns[j])[2] = ns[j]
  <2> DEFINE x == ns[j]
             p == Octets16(x)
  <2>1. x \in Word
    BY <1>3
  <2> HIDE DEF x
  <2>2. /\ p \in Seq(Octet) /\ Len(p) = 2 /\ p[1] = x \div 256 /\ p[2] = x % 256
        /\ 256 * (x \div 256) + (x % 256) = x
    BY <2>1, WordOctets
  <2> HIDE DEF p
  <2>3. p[1] \in Octet /\ p[2] \in Octet
    <3>1. 1 \in 1 .. Len(p) /\ 2 \in 1 .. Len(p)
      BY <2>2
    <3> QED
      BY <2>2, <3>1, ElementOfSeq, Zenon
  <2>4. 256 * p[1] + p[2] = x
    BY <2>2, Zenon
  <2> QED
    BY <2>3, <2>4 DEF p, x
<1>4. ASSUME NEW i \in 1 .. 2 * n
      PROVE  Octets16(ns[(i + 1) \div 2])[2 - (i % 2)] \in Octet
  <2> DEFINE j == (i + 1) \div 2
             k == 2 - (i % 2)
  <2>1. j \in 1 .. n /\ (k = 1 \/ k = 2)
    BY <1>2
  <2> HIDE DEF j, k
  <2>2. Octets16(ns[j])[k] \in Octet
    BY <1>3, <2>1
  <2> QED
    BY <2>2 DEF j, k
<1>5. buf = [i \in 1 .. 2 * n |-> Octets16(ns[(i + 1) \div 2])[2 - (i % 2)]]
  BY DEF AllOctets16
<1> HIDE DEF n, buf
<1>6. buf \in [1 .. 2 * n -> Octet]
  BY <1>4, <1>5
<1>7. buf \in Seq(Octet) /\ Len(buf) = 2 * n
  BY <1>1, <1>6, Listed
<1>8. ASSUME NEW i \in 1 .. n
      PROVE  Be16(buf, 2 * i - 1) = ns[i]
  <2> DEFINE k == 2 * i - 1
             l == 2 * i
  <2>1. k \in 1 .. 2 * n /\ l \in 1 .. 2 * n /\ k + 1 = l
    BY <1>1
  <2>2. (k + 1) \div 2 = i /\ 2 - (k % 2) = 1 /\ (l + 1) \div 2 = i /\ 2 - (l % 2) = 2
    BY <1>1, HalfIs
  <2> HIDE DEF k, l
  <2>3. buf[k] = Octets16(ns[i])[1] /\ buf[l] = Octets16(ns[i])[2]
    BY <1>5, <2>1, <2>2
  <2>4. 256 * Octets16(ns[i])[1] + Octets16(ns[i])[2] = ns[i]
    BY <1>3
  <2>5. Be16(buf, k) = ns[i]
    BY <2>1, <2>3, <2>4, Zenon DEF Be16
  <2> QED
    BY <2>5 DEF k
<1> QED
  BY <1>7, <1>8 DEF n, buf

--------------------------------------------------------------------------------
(* What one end writes and the other reads.                                  *)

LEMMA EmitIs ==
  ASSUME NEW a, NEW bits, NEW txid, NEW to
  PROVE  /\ \A u \in Emit(a, bits, txid, to) :
              /\ u.code = CodeOfAttr(a) /\ u.octets = OctetsOf(a, txid) /\ u.txid = txid
              /\ u.bits = bits /\ u.to = to
              /\ u = [bits |-> bits, code |-> CodeOfAttr(a), octets |-> OctetsOf(a, txid),
                      txid |-> txid, to |-> to]
         /\ Emit(a, bits, txid, to) = {} <=>
              ~ (Writable(a) /\ Len(OctetsOf(a, txid)) <= BufferLen)
<1>1. ASSUME NEW u \in Emit(a, bits, txid, to)
      PROVE  u = [bits |-> bits, code |-> CodeOfAttr(a), octets |-> OctetsOf(a, txid),
                  txid |-> txid, to |-> to]
  BY DEF Emit, ToValue
<1>2. ASSUME NEW u \in Emit(a, bits, txid, to)
      PROVE  /\ u.code = CodeOfAttr(a) /\ u.octets = OctetsOf(a, txid) /\ u.txid = txid
             /\ u.bits = bits /\ u.to = to
  <2> DEFINE c == CodeOfAttr(a)
             o == OctetsOf(a, txid)
  <2>1. u = [bits |-> bits, code |-> c, octets |-> o, txid |-> txid, to |-> to]
    BY <1>1
  <2> HIDE DEF c, o
  <2>2. u.code = c /\ u.octets = o /\ u.txid = txid /\ u.bits = bits /\ u.to = to
    BY <2>1
  <2> QED
    BY <2>2 DEF c, o
<1>3. Emit(a, bits, txid, to) = {} <=> ~ (Writable(a) /\ Len(OctetsOf(a, txid)) <= BufferLen)
  BY DEF Emit, ToValue
<1> QED
  BY <1>1, <1>2, <1>3

\* A decoded address, written under a transaction, is read as it was.
LEMMA AddressSent ==
  ASSUME NEW v \in Addressed, NEW x \in Addresses, NEW txid \in TransactionIds, NEW bits, NEW to
  PROVE  /\ Emit(Decoded(v, AddressVal(x)), bits, txid, to) # {}
         /\ \A u \in Emit(Decoded(v, AddressVal(x)), bits, txid, to) :
              Parsed(u) = {Decoded(v, AddressVal(x))}
<1> DEFINE a == Decoded(v, AddressVal(x))
           o == OctetsOfAddress(v, x, txid)
<1>1. a.variant = v /\ a.val = AddressVal(x)
  BY DEF Decoded
<1>2. v \in Registered /\ v # "Unknown" /\ v # "Icmp"
  BY DEF Addressed, Xored, Plain, Registered, AsU16
<1>3. OctetsOf(a, txid) = o
  <2>1. v \notin Errors /\ v # "ChannelNumber" /\ v \notin Words \cup {"UnknownAttributes", "ResponsePort"}
        /\ v # "PasswordAlgorithms"
    BY DEF Addressed, Xored, Plain, Errors, Words
  <2>2. AddressFrom(a.val) = x
    BY <1>1, AddressKept
  <2> QED
    BY <1>1, <2>1, <2>2 DEF OctetsOf
<1>4. Writable(a)
  <2>1. v \notin Errors /\ v # "ChannelNumber" /\ v # "Data" /\ v # "ConnectionId"
    BY DEF Addressed, Xored, Plain, Errors
  <2> QED
    BY <1>1, <2>1 DEF Writable
<1>5. Len(o) <= BufferLen /\ AddressesIn(v, o, txid) = {x}
  BY AddressRound
<1>6. CodeOfAttr(a) = AsU16[v] /\ FromWire(AsU16[v]) = v
  BY <1>1, <1>2, NamesAgree DEF CodeOfAttr
<1> HIDE DEF a, o
<1>7. Emit(a, bits, txid, to) # {}
  BY <1>3, <1>4, <1>5, EmitIs
<1>8. ASSUME NEW u \in Emit(a, bits, txid, to)
      PROVE  Parsed(u) = {a}
  <2>1. u.code = AsU16[v] /\ u.octets = o /\ u.txid = txid
    BY <1>3, <1>6, EmitIs
  <2>2. FromWire(u.code) = v /\ IsKnown(u.code)
    BY <1>2, <1>6, <2>1 DEF IsKnown
  <2>3. ParseAttributeValue(v, u.code, o, txid) = {Decoded(v, AddressVal(y)) : y \in AddressesIn(v, o, txid)}
    BY <1>2 DEF ParseAttributeValue
  <2>4. ParseAttributeValue(v, u.code, o, txid) = {a}
    BY <1>5, <2>3 DEF a
  <2> QED
    BY <2>1, <2>2, <2>4 DEF Parsed
<1> QED
  BY <1>7, <1>8 DEF a

\* A value of a shape is read as it was if its octets are read as that value.
Returns(v, x, txid) == x \in ValuesIn(v, OctetsOf(Decoded(v, x), txid))

LEMMA ShapedSent ==
  ASSUME NEW v \in Shaped, NEW x, NEW txid, Returns(v, x, txid), NEW bits, NEW to,
         NEW u \in Emit(Decoded(v, x), bits, txid, to)
  PROVE  Parsed(u) = {Decoded(v, x)}
<1> DEFINE a == Decoded(v, x)
           o == OctetsOf(a, txid)
<1>1. a.variant = v /\ x \in ValuesIn(v, o)
  BY DEF Decoded, Returns
<1>2. v \in Registered /\ v # "Unknown" /\ v # "Icmp" /\ v \notin Addressed
  BY DEF Addressed, Xored, Plain, Texts, Opaque, Errors, FamilyOnly, Words, ArrayLen, Single, Shaped,
         Registered, AsU16
<1>3. CodeOfAttr(a) = AsU16[v] /\ FromWire(AsU16[v]) = v
  BY <1>1, <1>2, NamesAgree DEF CodeOfAttr
<1>4. u.code = AsU16[v] /\ u.octets = o /\ u.txid = txid
  BY <1>3, EmitIs
<1>5. FromWire(u.code) = v /\ IsKnown(u.code)
  BY <1>2, <1>3, <1>4 DEF IsKnown
<1> HIDE DEF o
<1>6. ParseAttributeValue(v, u.code, o, txid) = {Decoded(v, y) : y \in ValuesIn(v, o)}
  BY <1>2 DEF ParseAttributeValue
<1>7. ValuesIn(v, o) = {x}
  BY <1>1, OneValue
<1>8. ParseAttributeValue(v, u.code, o, txid) = {a}
  BY <1>6, <1>7
<1> HIDE DEF a
<1>9. Parsed(u) = {a}
  BY <1>4, <1>5, <1>8 DEF Parsed
<1> QED
  BY <1>9 DEF a

\* How the shapes are written, and which of them can be refused.
AsKept == Texts \cup Opaque \cup FamilyOnly \cup DOMAIN ArrayLen
          \cup {"Data", "ConnectionId", "MessageIntegritySha256"}
AsWords == Words \cup {"UnknownAttributes", "ResponsePort"}

LEMMA WritingIs ==
  ASSUME NEW v \in Shaped, NEW x, NEW txid
  PROVE  /\ v \in AsKept => OctetsOf(Decoded(v, x), txid) = x
         /\ v \in Errors => OctetsOf(Decoded(v, x), txid) = <<0, 0>> \o x
         /\ v = "ChannelNumber" => OctetsOf(Decoded(v, x), txid) = Octets16(x[1]) \o <<0, 0>>
         /\ v \in AsWords => OctetsOf(Decoded(v, x), txid) = AllOctets16(x)
         /\ v = "PasswordAlgorithms" => OctetsOf(Decoded(v, x), txid) = Joined(x)
<1> DEFINE a == Decoded(v, x)
<1>1. a.variant = v /\ a.val = x
  BY DEF Decoded
<1> HIDE DEF a
<1>2. v \notin Addressed
  BY DEF Addressed, Xored, Plain, Texts, Opaque, Errors, FamilyOnly, Words, ArrayLen, Single, Shaped
<1>3. ASSUME v \in AsKept PROVE OctetsOf(a, txid) = x
  <2>1. /\ v \notin Errors /\ v # "ChannelNumber" /\ v # "PasswordAlgorithms"
        /\ v \notin Words \cup {"UnknownAttributes", "ResponsePort"}
    BY <1>3 DEF AsKept, Texts, Opaque, Errors, FamilyOnly, Words, ArrayLen
  <2> QED
    BY <1>1, <1>2, <2>1 DEF OctetsOf
<1>4. ASSUME v \in Errors PROVE OctetsOf(a, txid) = <<0, 0>> \o x
  <2>1. v # "ChannelNumber" /\ v # "PasswordAlgorithms" /\ v \notin Words \cup {"UnknownAttributes", "ResponsePort"}
    BY <1>4 DEF Errors, Words
  <2> QED
    BY <1>1, <1>2, <1>4, <2>1 DEF OctetsOf
<1>5. ASSUME v = "ChannelNumber" PROVE OctetsOf(a, txid) = Octets16(x[1]) \o <<0, 0>>
  <2>1. v \notin Errors /\ v # "PasswordAlgorithms" /\ v \notin Words \cup {"UnknownAttributes", "ResponsePort"}
    BY <1>5 DEF Errors, Words
  <2> QED
    BY <1>1, <1>2, <1>5, <2>1 DEF OctetsOf
<1>6. ASSUME v \in AsWords PROVE OctetsOf(a, txid) = AllOctets16(x)
  <2>1. v \notin Errors /\ v # "PasswordAlgorithms" /\ v # "ChannelNumber"
    BY <1>6 DEF AsWords, Errors, Words
  <2> QED
    BY <1>1, <1>2, <1>6, <2>1 DEF OctetsOf, AsWords
<1>7. ASSUME v = "PasswordAlgorithms" PROVE OctetsOf(a, txid) = Joined(x)
  <2>1. v \notin Errors /\ v # "ChannelNumber" /\ v \notin Words \cup {"UnknownAttributes", "ResponsePort"}
    BY <1>7 DEF Errors, Words
  <2> QED
    BY <1>1, <1>2, <1>7, <2>1 DEF OctetsOf
<1> QED
  BY <1>3, <1>4, <1>5, <1>6, <1>7 DEF a

LEMMA RefusedIs ==
  ASSUME NEW v \in Shaped, NEW x
  PROVE  /\ v \notin Errors \cup {"ChannelNumber", "Data", "ConnectionId"} => Writable(Decoded(v, x))
         /\ v \in Errors =>
              (Writable(Decoded(v, x)) <=> InRange(ErrorNumber(x[1], x[2])) /\ Len(x) - 2 <= ReasonMaxLen)
         /\ v = "ChannelNumber" => (Writable(Decoded(v, x)) <=> x[1] \in Channels)
         /\ v = "Data" => (Writable(Decoded(v, x)) <=> Len(x) <= DataMaxLen)
         /\ v = "ConnectionId" => (Writable(Decoded(v, x)) <=> Len(x) \in ConnectionIdLengths)
<1> DEFINE a == Decoded(v, x)
<1>1. a.variant = v /\ a.val = x
  BY DEF Decoded
<1> HIDE DEF a
<1>2. v \notin Errors \cup {"ChannelNumber", "Data", "ConnectionId"} => Writable(a)
  BY <1>1 DEF Writable
<1>3. ASSUME v \in Errors
      PROVE  Writable(a) <=> InRange(ErrorNumber(x[1], x[2])) /\ Len(x) - 2 <= ReasonMaxLen
  <2>1. v # "ChannelNumber" /\ v # "Data" /\ v # "ConnectionId"
    BY <1>3 DEF Errors
  <2> QED
    BY <1>1, <1>3, <2>1 DEF Writable
<1>4. ASSUME v = "ChannelNumber" PROVE Writable(a) <=> x[1] \in Channels
  <2>1. v \notin Errors
    BY <1>4 DEF Errors
  <2> QED
    BY <1>1, <1>4, <2>1 DEF Writable
<1>5. ASSUME v = "Data" PROVE Writable(a) <=> Len(x) <= DataMaxLen
  <2>1. v \notin Errors
    BY <1>5 DEF Errors
  <2> QED
    BY <1>1, <1>5, <2>1 DEF Writable
<1>6. ASSUME v = "ConnectionId" PROVE Writable(a) <=> Len(x) \in ConnectionIdLengths
  <2>1. v \notin Errors
    BY <1>6 DEF Errors
  <2> QED
    BY <1>1, <1>6, <2>1 DEF Writable
<1> QED
  BY <1>2, <1>3, <1>4, <1>5, <1>6 DEF a

LEMMA ErrorReturns ==
  ASSUME NEW v \in Errors, NEW x \in Seq(Octet), Len(x) >= 2, InRange(ErrorNumber(x[1], x[2])), NEW txid
  PROVE  Returns(v, x, txid) /\ Len(OctetsOf(Decoded(v, x), txid)) = 2 + Len(x)
<1> DEFINE q == <<0, 0>>
           o == q \o x
<1>1. v \in Shaped
  BY DEF Shaped
<1>2. q \in Seq(Octet) /\ Len(q) = 2
  BY OctetIs
<1>3. OctetsOf(Decoded(v, x), txid) = o
  BY <1>1, WritingIs
<1> HIDE DEF q
<1>4. IsJoin(o, Octet, q, x)
  BY <1>2, JoinIs, Zenon
<1> HIDE DEF o
<1>5. o \in Seq(Octet) /\ Len(o) = 2 + Len(x) /\ \A i \in 1 .. Len(x) : o[2 + i] = x[i]
  BY <1>2, <1>4 DEF IsJoin
<1>6. o[3] = x[1] /\ o[4] = x[2]
  <2>1. 1 \in 1 .. Len(x) /\ 2 \in 1 .. Len(x)
    OBVIOUS
  <2>2. o[2 + 1] = x[1] /\ o[2 + 2] = x[2]
    BY <1>5, <2>1
  <2> QED
    BY <2>2
<1>7. SubSeq(o, 3, Len(o)) = x
  <2> DEFINE s == SubSeq(o, 3, Len(o))
             n == Len(o)
  <2>1. n \in Int /\ n = Len(x) + 2 /\ 3 <= n /\ 3 \in Int
    BY <1>5
  <2>2. \A i \in 3 .. n : o[i] \in Octet
    <3>1. ASSUME NEW i \in 3 .. n PROVE o[i] \in Octet
      <4>1. i \in 1 .. Len(o)
        BY <2>1
      <4> QED
        BY <1>5, <4>1, ElementOfSeq, Zenon
    <3> QED
      BY <3>1
  <2>3. s \in Seq(Octet)
    BY <2>1, <2>2, SubSeqProperties
  <2>4. Len(s) = IF 3 <= n THEN n - 3 + 1 ELSE 0
    BY <2>1, <2>2, SubSeqProperties
  <2>5. \A i \in 1 .. n - 3 + 1 : s[i] = o[3 + i - 1]
    BY <2>1, <2>2, SubSeqProperties
  <2> HIDE DEF s, n
  <2>6. Len(s) = Len(x) /\ \A i \in 1 .. Len(x) : s[i] = x[i]
    BY <1>5, <2>1, <2>4, <2>5
  <2>7. s = x
    BY <2>3, <2>6, SeqEqual
  <2> QED
    BY <2>7 DEF s
<1>8. ErrorIn(o) = {x}
  <2>1. InRange(ErrorNumber(o[3], o[4]))
    BY <1>6, Zenon
  <2>2. Len(o) >= 4
    BY <1>5
  <2> QED
    BY <1>7, <2>1, <2>2, Zenon DEF ErrorIn
<1>9. ValuesIn(v, o) = ErrorIn(o)
  BY ValuesAre
<1> QED
  BY <1>3, <1>5, <1>8, <1>9 DEF Returns

LEMMA UnknownReturns ==
  ASSUME NEW x \in Seq(Word), NEW txid
  PROVE  /\ Returns("UnknownAttributes", x, txid)
         /\ Len(OctetsOf(Decoded("UnknownAttributes", x), txid)) = 2 * Len(x)
<1> DEFINE v == "UnknownAttributes"
           o == AllOctets16(x)
           y == [i \in 1 .. Len(o) \div 2 |-> Be16(o, 2 * i - 1)]
<1>1. v \in Shaped /\ v \in AsWords
  BY DEF Shaped, Single, AsWords
<1>2. OctetsOf(Decoded(v, x), txid) = o
  BY <1>1, WritingIs
<1>3. Len(o) = 2 * Len(x) /\ \A i \in 1 .. Len(x) : Be16(o, 2 * i - 1) = x[i]
  BY WordsRound
<1> HIDE DEF o
<1>4. Len(o) % 2 = 0 /\ Len(o) \div 2 = Len(x)
  BY <1>3
<1>5. y = [i \in 1 .. Len(x) |-> x[i]]
  BY <1>3, <1>4
<1>6. y = x
  <2>1. x \in [1 .. Len(x) -> Word]
    BY Len(x) \in Nat, Unlisted
  <2>2. x = [i \in 1 .. Len(x) |-> x[i]]
    BY <2>1, Zenon
  <2> QED
    BY <1>5, <2>2, Zenon
<1>7. ValuesIn(v, o) = Sole(Len(o) % 2 = 0, y)
  BY SingleValuesAre
<1>8. x \in ValuesIn(v, o)
  BY <1>4, <1>6, <1>7 DEF Sole
<1> QED
  BY <1>2, <1>3, <1>8 DEF Returns

--------------------------------------------------------------------------------
(* The list of unknown attributes.                                           *)

LEMMA SmallerOf ==
  ASSUME NEW m \in Nat, NEW n \in Nat
  PROVE  Min({m, n}) \in Nat /\ Min({m, n}) <= m /\ Min({m, n}) <= n /\ (m <= n => Min({m, n}) = m)
         /\ (n <= m => Min({m, n}) = n)
<1>1. CASE m <= n
  <2>1. m \in {m, n} /\ \A y \in {m, n} : m <= y
    BY <1>1
  <2>2. \A z \in {m, n} : (\A y \in {m, n} : z <= y) => z = m
    BY <1>1
  <2>3. Min({m, n}) = m
    BY <2>1, <2>2 DEF Min
  <2> QED
    BY <1>1, <2>3
<1>2. CASE n <= m
  <2>1. n \in {m, n} /\ \A y \in {m, n} : n <= y
    BY <1>2
  <2>2. \A z \in {m, n} : (\A y \in {m, n} : z <= y) => z = n
    BY <1>2
  <2>3. Min({m, n}) = n
    BY <2>1, <2>2 DEF Min
  <2> QED
    BY <1>2, <2>3
<1> QED
  BY <1>1, <1>2

\* What is picked out of a list is what stands at the places picked.
LEMMA PickedAre ==
  ASSUME NEW S, NEW q \in Seq(S), NEW I \in SUBSET (DOMAIN q)
  PROVE  Range(Pick(q, I)) = {q[i] : i \in I}
<1> DEFINE p == Pick(q, I)
           n == Cardinality(I)
<1>1. PICK g \in [1 .. n -> I] :
         /\ \A j \in 1 .. n : p[j] = q[g[j]]
         /\ \A i \in I : \E j \in 1 .. n : g[j] = i
  BY PickOrder
<1>2. p \in Seq(S) /\ Len(p) = n
  BY PickType
<1>3. DOMAIN p = 1 .. n
  BY <1>2
<1> HIDE DEF p, n
<1>4. Range(p) \subseteq {q[i] : i \in I}
  BY <1>1, <1>3 DEF Range
<1>5. {q[i] : i \in I} \subseteq Range(p)
  BY <1>1, <1>3 DEF Range
<1> QED
  BY <1>4, <1>5 DEF p

\* The first entries of two lists in a row: entries of theirs, and all of the first
\* list if as many.
LEMMA FirstOfTwo ==
  ASSUME NEW S, NEW q \in Seq(S), NEW p \in Seq(S), NEW z, IsJoin(z, S, q, p),
         NEW n \in Nat, n <= Len(z)
  PROVE  /\ SubSeq(z, 1, n) \in Seq(S) /\ Len(SubSeq(z, 1, n)) = n
         /\ Range(SubSeq(z, 1, n)) \subseteq Range(q) \cup Range(p)
         /\ Len(q) <= n => Range(q) \subseteq Range(SubSeq(z, 1, n))
<1> DEFINE s == SubSeq(z, 1, n)
<1>1. /\ z \in Seq(S) /\ Len(z) = Len(q) + Len(p) /\ Len(q) \in Nat /\ Len(p) \in Nat
      /\ \A i \in 1 .. Len(q) : z[i] = q[i]
      /\ \A i \in 1 .. Len(p) : z[Len(q) + i] = p[i]
  BY DEF IsJoin
<1>2. s \in Seq(S) /\ Len(s) = n /\ \A i \in 1 .. n : s[i] = z[i]
  BY <1>1
<1>3. DOMAIN s = 1 .. n /\ DOMAIN q = 1 .. Len(q) /\ DOMAIN p = 1 .. Len(p)
  BY <1>2
<1> HIDE DEF s
<1>4. ASSUME NEW i \in 1 .. n PROVE s[i] \in Range(q) \cup Range(p)
  <2>1. CASE i <= Len(q)
    <3>1. i \in DOMAIN q /\ s[i] = q[i]
      BY <1>1, <1>2, <1>3, <2>1
    <3> QED
      BY <3>1 DEF Range
  <2>2. CASE i > Len(q)
    <3> DEFINE j == i - Len(q)
    <3>1. j \in 1 .. Len(p) /\ Len(q) + j = i
      BY <1>1, <2>2
    <3>2. s[i] = z[Len(q) + j]
      BY <1>2, <3>1
    <3>3. s[i] = p[j] /\ j \in DOMAIN p
      BY <1>1, <1>3, <3>1, <3>2
    <3> QED
      BY <3>3 DEF Range
  <2> QED
    BY <1>1, <2>1, <2>2
<1>5. Range(s) \subseteq Range(q) \cup Range(p)
  BY <1>3, <1>4 DEF Range
<1>6. ASSUME Len(q) <= n PROVE Range(q) \subseteq Range(s)
  <2>1. ASSUME NEW i \in DOMAIN q PROVE i \in DOMAIN s /\ q[i] = s[i]
    BY <1>1, <1>2, <1>3, <1>6
  <2> QED
    BY <2>1 DEF Range
<1> QED
  BY <1>2, <1>5, <1>6 DEF s

\* unknown_attribute_codes: only codes of the request the server does not read and
\* must not ignore, and all of them if the request has no more than fit.
LEMMA UnknownAre ==
  ASSUME NEW codes \in Seq(Word)
  PROVE  /\ UnknownCodes(codes) \in Seq(Word) /\ Len(UnknownCodes(codes)) <= MaxCodes
         /\ Range(UnknownCodes(codes)) \subseteq Range(codes) \ (NotComprehensionRequired \cup BindingKnown)
         /\ Len(codes) <= MaxCodes =>
              Range(UnknownCodes(codes)) = Range(codes) \ (NotComprehensionRequired \cup BindingKnown)
<1> DEFINE K == NotComprehensionRequired \cup BindingKnown
           F == {i \in DOMAIN codes : codes[i] \notin NotComprehensionRequired \cup BindingKnown}
           U == {i \in DOMAIN codes : ~ IsKnown(codes[i])}
           q == Pick(codes, F)
           p == Pick(codes, U)
           all == q \o p
           n == Min({MaxCodes, Len(all)})
           list == SubSeq(all, 1, n)
<1>1. UnknownCodes(codes) = list
  BY DEF UnknownCodes
<1>2. /\ q \in Seq(Word) /\ p \in Seq(Word)
      /\ Len(q) = Cardinality(F) /\ Cardinality(F) \in 0 .. Len(codes)
  <2>1. F \in SUBSET (DOMAIN codes) /\ U \in SUBSET (DOMAIN codes)
    OBVIOUS
  <2> HIDE DEF F, U
  <2> QED
    BY <2>1, PickType
<1>3. Range(q) = {codes[i] : i \in F} /\ Range(p) = {codes[i] : i \in U}
  <2>1. F \in SUBSET (DOMAIN codes) /\ U \in SUBSET (DOMAIN codes)
    OBVIOUS
  <2> HIDE DEF F, U
  <2> QED
    BY <2>1, PickedAre
<1>4. ASSUME NEW c, ~ IsKnown(c) PROVE c \notin K
  BY <1>4 DEF NotComprehensionRequired, BindingKnown, IsKnown, FromWire
<1>5. Range(q) = Range(codes) \ K
  BY <1>3 DEF Range
<1>6. Range(p) \subseteq Range(codes) \ K
  BY <1>3, <1>4 DEF Range
<1> HIDE DEF q, p, F, U, K
<1>7. IsJoin(all, Word, q, p)
  BY <1>2, JoinIs, Zenon
<1> HIDE DEF all
<1>8. Len(all) \in Nat /\ Len(all) = Len(q) + Len(p) /\ Len(q) \in Nat /\ Len(p) \in Nat
  BY <1>2, <1>7 DEF IsJoin
<1>9. MaxCodes \in Nat
  BY DEF MaxCodes
<1>10. n \in Nat /\ n <= Len(all) /\ n <= MaxCodes /\ (Len(q) <= MaxCodes => Len(q) <= n)
  BY <1>8, <1>9, SmallerOf
<1> HIDE DEF n
<1>11. /\ list \in Seq(Word) /\ Len(list) = n
       /\ Range(list) \subseteq Range(q) \cup Range(p)
       /\ Len(q) <= n => Range(q) \subseteq Range(list)
  BY <1>2, <1>7, <1>10, FirstOfTwo
<1> HIDE DEF list
<1>12. Range(list) \subseteq Range(codes) \ K
  BY <1>5, <1>6, <1>11
<1>13. ASSUME Len(codes) <= MaxCodes PROVE Range(list) = Range(codes) \ K
  <2>1. Len(q) <= n
    BY <1>2, <1>9, <1>10, <1>13
  <2> QED
    BY <1>5, <1>11, <1>12, <2>1
<1> QED
  BY <1>1, <1>10, <1>11, <1>12, <1>13 DEF K

--------------------------------------------------------------------------------
(* The addresses of sockets.                                                 *)

LEMMA SocketHas ==
  ASSUME NEW s \in SocketAddresses
  PROVE  /\ s = [family |-> s.family, port |-> s.port, ip |-> s.ip]
         /\ s.port \in Word /\ s.ip \in Seq(Octet)
         /\ (s.family = 1 /\ Len(s.ip) = 4) \/ (s.family = 2 /\ Len(s.ip) = 16)
<1>1. CASE s \in [family: {1}, port: Word, ip: [1 .. 4 -> Octet]]
  <2>1. s = [family |-> s.family, port |-> s.port, ip |-> s.ip] /\ s.port \in Word /\ s.family = 1
        /\ s.ip \in [1 .. 4 -> Octet]
    BY <1>1
  <2>2. s.ip \in Seq(Octet) /\ Len(s.ip) = 4
    <3> DEFINE f == s.ip
    <3>1. f \in [1 .. 4 -> Octet] /\ 4 \in Nat
      BY <2>1
    <3> HIDE DEF f
    <3>2. f \in Seq(Octet) /\ Len(f) = 4
      BY <3>1, Listed, Zenon
    <3> QED
      BY <3>2 DEF f
  <2> QED
    BY <2>1, <2>2
<1>2. CASE s \in [family: {2}, port: Word, ip: [1 .. 16 -> Octet]]
  <2>1. s = [family |-> s.family, port |-> s.port, ip |-> s.ip] /\ s.port \in Word /\ s.family = 2
        /\ s.ip \in [1 .. 16 -> Octet]
    BY <1>2
  <2>2. s.ip \in Seq(Octet) /\ Len(s.ip) = 16
    <3> DEFINE f == s.ip
    <3>1. f \in [1 .. 16 -> Octet] /\ 16 \in Nat
      BY <2>1
    <3> HIDE DEF f
    <3>2. f \in Seq(Octet) /\ Len(f) = 16
      BY <3>1, Listed, Zenon
    <3> QED
      BY <3>2 DEF f
  <2> QED
    BY <2>1, <2>2
<1> QED
  BY <1>1, <1>2 DEF SocketAddresses

LEMMA ZerosAre ==
  ASSUME NEW n \in Nat
  PROVE  Zeros(n) \in Seq(Octet) /\ Len(Zeros(n)) = n /\ \A i \in 1 .. n : Zeros(n)[i] = 0
<1>1. 0 \in Octet
  BY OctetIs
<1> QED
  BY <1>1 DEF Zeros

LEMMA NoZeros == Zeros(0) = <<>>
<1>1. Zeros(0) \in Seq(Octet) /\ Len(Zeros(0)) = 0
  BY 0 \in Nat, ZerosAre
<1> QED
  BY <1>1, EmptySeq

LEMMA FirstOf ==
  ASSUME NEW S, NEW z \in Seq(S), NEW n \in Nat, n <= Len(z)
  PROVE  /\ SubSeq(z, 1, n) \in Seq(S) /\ Len(SubSeq(z, 1, n)) = n
         /\ \A i \in 1 .. n : SubSeq(z, 1, n)[i] = z[i]
OBVIOUS

\* Putting sequences behind each other in either order of the two steps.
Regroups(a, b, c) == (a \o b) \o c = a \o (b \o c)

\* Either way they are the same sequence.
LEMMA Associates ==
  ASSUME NEW S, NEW a \in Seq(S), NEW b \in Seq(S), NEW c \in Seq(S)
  PROVE  Regroups(a, b, c)
BY DEF Regroups

\* What is behind the first octets, cut out by the places it has.
LEMMA TailOf ==
  ASSUME NEW S, NEW z \in Seq(S), NEW p \in Seq(S), NEW k \in Nat, NEW l \in Nat,
         Len(z) = k + l, Len(p) = l, \A i \in 1 .. l : z[k + i] = p[i],
         NEW m \in Nat, m = k + 1, NEW n \in Nat, n = k + l
  PROVE  SubSeq(z, m, n) = p
<1> DEFINE s == SubSeq(z, m, n)
<1>1. s \in Seq(S) /\ Len(s) = l /\ \A i \in 1 .. l : s[i] = z[k + i]
  BY PartOf
<1> HIDE DEF s
<1>2. Len(s) = Len(p) /\ \A i \in 1 .. Len(s) : s[i] = p[i]
  BY <1>1
<1>3. s = p
  BY <1>1, <1>2, SeqEqual
<1> QED
  BY <1>3 DEF s

\* The last four octets of sixteen.
LEMMA LastFour ==
  ASSUME NEW z \in Seq(Octet), Len(z) = 16, NEW p \in Seq(Octet), Len(p) = 4,
         \A i \in 1 .. 4 : z[12 + i] = p[i]
  PROVE  SubSeq(z, 13, 16) = p
<1>1. ASSUME NEW k \in Nat, k = 12, NEW l \in Nat, l = 4, NEW m \in Nat, m = 13,
             NEW n \in Nat, n = 16
      PROVE  SubSeq(z, m, n) = p
  <2>1. /\ Len(z) = k + l /\ Len(p) = l /\ \A i \in 1 .. l : z[k + i] = p[i]
        /\ m = k + 1 /\ n = k + l
    BY <1>1
  <2> QED
    BY <2>1, TailOf
<1>2. 12 \in Nat /\ 4 \in Nat /\ 13 \in Nat /\ 16 \in Nat
  OBVIOUS
<1> QED
  BY <1>1, <1>2, Zenon

\* parse_peer_addr finds the address drain_udp passed on.
LEMMA PeerKept ==
  ASSUME NEW s \in SocketAddresses
  PROVE  PeersIn(RawPeer(s)) = {s}
<1> DEFINE k == Len(s.ip)
           ip == s.ip
           p == Octets16(s.port)
           raw == ip \o p
<1>1. /\ s = [family |-> s.family, port |-> s.port, ip |-> ip]
      /\ s.port \in Word /\ ip \in Seq(Octet)
      /\ (s.family = 1 /\ k = 4) \/ (s.family = 2 /\ k = 16)
  BY SocketHas
<1>2. /\ p \in Seq(Octet) /\ Len(p) = 2 /\ p[1] = s.port \div 256 /\ p[2] = s.port % 256
      /\ 256 * (s.port \div 256) + (s.port % 256) = s.port
  BY <1>1, WordOctets
<1>3. RawPeer(s) = raw
  BY DEF RawPeer
<1>4. k = Len(ip)
  OBVIOUS
<1> HIDE DEF ip, p, k
<1>5. IsJoin(raw, Octet, ip, p)
  BY <1>1, <1>2, JoinIs, Zenon
<1> HIDE DEF raw
<1>6. /\ raw \in Seq(Octet) /\ Len(raw) = k + 2
      /\ \A i \in 1 .. k : raw[i] = ip[i]
      /\ \A i \in 1 .. 2 : raw[k + i] = p[i]
  BY <1>2, <1>4, <1>5 DEF IsJoin
<1>7. raw[k + 1] = p[1] /\ raw[k + 2] = p[2]
  BY <1>6
<1>8. Be16(raw, Len(raw) - 1) = s.port
  <2>1. Len(raw) - 1 = k + 1 /\ (k + 1) + 1 = k + 2
    BY <1>1, <1>6
  <2>2. Be16(raw, k + 1) = 256 * raw[k + 1] + raw[k + 2]
    BY <2>1 DEF Be16
  <2>3. Be16(raw, k + 1) = s.port
    <3>1. raw[k + 1] = s.port \div 256 /\ raw[k + 2] = s.port % 256
      BY <1>2, <1>7, Zenon
    <3>2. Be16(raw, k + 1) = 256 * (s.port \div 256) + (s.port % 256)
      BY <2>2, <3>1, Zenon
    <3> QED
      BY <1>2, <3>2, Zenon
  <2> QED
    BY <2>1, <2>3, Zenon
<1>9. SubSeq(raw, 1, Len(raw) - 2) = ip
  <2>1. Len(raw) - 2 = k
    BY <1>1, <1>6
  <2> DEFINE t == SubSeq(raw, 1, k)
  <2>2. t \in Seq(Octet) /\ Len(t) = k /\ \A i \in 1 .. k : t[i] = raw[i]
    <3>1. k \in Nat /\ k <= Len(raw)
      BY <1>1, <1>6
    <3> QED
      BY <1>6, <3>1, FirstOf
  <2> HIDE DEF t
  <2>3. Len(t) = Len(ip) /\ \A i \in 1 .. Len(t) : t[i] = ip[i]
    BY <1>4, <1>6, <2>2
  <2>4. t = ip
    BY <1>1, <2>2, <2>3, SeqEqual
  <2> QED
    BY <2>1, <2>4 DEF t
<1>10. PeersIn(raw) = {[family |-> s.family, port |-> s.port, ip |-> ip]}
  <2>1. Len(raw) \in {6, 18} /\ s.family = IF Len(raw) = 6 THEN 1 ELSE 2
    BY <1>1, <1>6
  <2> QED
    BY <1>8, <1>9, <2>1, Zenon DEF PeersIn
<1> QED
  BY <1>1, <1>3, <1>10, Zenon

\* Octets and the zeros behind them, sixteen in all, are what an address has.
LEMMA PaddedIs ==
  ASSUME NEW ip \in Seq(Octet), NEW f \in Families, NEW port \in Word,
         Len(ip) = AddressOctets(f), NEW full, IsJoin(full, Octet, ip, Zeros(16 - Len(ip)))
  PROVE  [family |-> f, port |-> port, ip |-> full] \in Addresses
<1> DEFINE n == AddressOctets(f)
           z == Zeros(16 - n)
<1>1. n \in {4, 16}
  BY DEF AddressOctets
<1> HIDE DEF n
<1>2. Len(z) = 16 - n /\ \A i \in 1 .. 16 - n : z[i] = 0
  <2>1. 16 - n \in Nat
    BY <1>1
  <2> QED
    BY <2>1, ZerosAre
<1>3. IsJoin(full, Octet, ip, z)
  BY Zenon DEF n
<1>4. Len(ip) = n
  BY DEF n
<1> HIDE DEF z
<1>5. /\ full \in Seq(Octet) /\ Len(full) = 16
      /\ \A i \in 1 .. 16 - n : full[n + i] = z[i]
  <2>1. /\ full \in Seq(Octet) /\ Len(full) = Len(ip) + Len(z)
        /\ \A i \in 1 .. Len(z) : full[Len(ip) + i] = z[i]
    BY <1>3, Zenon DEF IsJoin
  <2>2. /\ full \in Seq(Octet) /\ Len(full) = n + (16 - n)
        /\ \A i \in 1 .. 16 - n : full[n + i] = z[i]
    BY <1>2, <1>4, <2>1, Zenon
  <2>3. n + (16 - n) = 16
    BY <1>1
  <2> QED
    BY <2>2, <2>3, Zenon
<1>6. full \in [1 .. 16 -> Octet]
  BY <1>5, 16 \in Nat, Unlisted
<1>7. ASSUME NEW i \in 1 .. 16, i > n PROVE full[i] = 0
  <2>1. i - n \in 1 .. 16 - n /\ n + (i - n) = i
    BY <1>1, <1>7
  <2>2. full[n + (i - n)] = 0
    BY <1>2, <1>5, <2>1
  <2> QED
    BY <2>1, <2>2, Zenon
<1> QED
  BY <1>6, <1>7 DEF Addresses, n

LEMMA MappedIs ==
  ASSUME NEW s \in SocketAddresses
  PROVE  /\ MappedOf(IdentityOf(s)) \in Addresses
         /\ AddressVal(MappedOf(IdentityOf(s)))
              = <<s.family, s.port>> \o s.ip \o Zeros(16 - Len(s.ip))
<1> DEFINE ip == s.ip
           n == Len(ip)
<1>1. /\ s.port \in Word /\ ip \in Seq(Octet)
      /\ (s.family = 1 /\ n = 4) \/ (s.family = 2 /\ n = 16)
  BY SocketHas
<1>2. n = Len(ip)
  OBVIOUS
<1> HIDE DEF ip, n
<1> DEFINE z == Zeros(16 - n)
           low == z \o ip
           full == ip \o z
           q == <<s.family, s.port>>
           a == [family |-> s.family, port |-> s.port, ip |-> full]
<1>3. z \in Seq(Octet) /\ Len(z) = 16 - n /\ s.family \in Families /\ n = AddressOctets(s.family)
  <2>1. 16 - n \in Nat
    BY <1>1
  <2>2. s.family \in Families /\ n = AddressOctets(s.family)
    BY <1>1 DEF Families, AddressOctets
  <2> QED
    BY <2>1, <2>2, ZerosAre
<1>4. IsJoin(full, Octet, ip, z) /\ IsJoin(low, Octet, z, ip)
  BY <1>1, <1>3, JoinIs, Zenon
<1>5. a \in Addresses
  <2> HIDE DEF full
  <2>1. Len(ip) = AddressOctets(s.family) /\ IsJoin(full, Octet, ip, Zeros(16 - Len(ip)))
    BY <1>2, <1>3, <1>4, Zenon
  <2> QED
    BY <1>1, <1>3, <2>1, PaddedIs
<1>6. AddressVal(a) = q \o ip \o z
  <2>1. s.family \in Nat /\ s.port \in Nat
    BY <1>1, WordIs
  <2>2. q \in Seq(Nat)
    BY <2>1, PairIs
  <2>3. ip \in Seq(Nat) /\ z \in Seq(Nat)
    BY <1>1, <1>3, OctetIs
  <2> HIDE DEF q, z
  <2>4. (q \o ip) \o z = q \o (ip \o z)
    <3>1. Regroups(q, ip, z)
      BY <2>2, <2>3, Associates, Zenon
    <3> QED
      BY <3>1, Zenon DEF Regroups
  <2>5. AddressVal(a) = q \o (ip \o z)
    BY DEF AddressVal, q
  <2> QED
    BY <2>4, <2>5, Zenon
<1>7. IdentityOf(s) = [address |-> low, isIpv4 |-> s.family = 1, port |-> s.port]
  BY DEF IdentityOf, low, z, ip, n
<1> DEFINE id == IdentityOf(s)
<1>8. id.address = low /\ id.port = s.port /\ id.isIpv4 = (s.family = 1)
  <2> HIDE DEF low
  <2> QED
    BY <1>7
<1>9. CASE s.family = 1
  <2>1. n = 4 /\ 16 - n = 12
    BY <1>1, <1>9
  <2>2. SubSeq(low, 13, 16) = ip
    <3> HIDE DEF low, z
    <3>1. Len(z) = 12 /\ Len(ip) = 4
      BY <1>2, <1>3, <2>1, Zenon
    <3>2. /\ low \in Seq(Octet) /\ Len(low) = Len(z) + Len(ip)
          /\ \A i \in 1 .. Len(ip) : low[Len(z) + i] = ip[i]
      BY <1>4 DEF IsJoin
    <3>3. low \in Seq(Octet) /\ ip \in Seq(Octet)
      BY <1>1, <3>2, Zenon
    <3>4. Len(low) = 16 /\ \A i \in 1 .. 4 : low[12 + i] = ip[i]
      BY <3>1, <3>2
    <3> HIDE DEF ip
    <3> QED
      BY <3>1, <3>3, <3>4, LastFour, Zenon
  <2>3. z = Zeros(12)
    BY <2>1
  <2> HIDE DEF id, low, z
  <2>4. MappedOf(id) = [family |-> 1, port |-> s.port, ip |-> ip \o z]
    BY <1>8, <1>9, <2>2, <2>3 DEF MappedOf
  <2>5. MappedOf(id) = a
    BY <1>9, <2>4
  <2> QED
    BY <1>5, <1>6, <2>5, Zenon DEF id, q, ip, n, z
<1>10. CASE s.family = 2
  <2>1. n = 16 /\ 16 - n = 0
    BY <1>1, <1>10
  <2>2. z = <<>>
    BY <2>1, NoZeros
  <2>3. low = ip /\ full = ip
    <3> HIDE DEF z
    <3> QED
      BY <1>1, <2>2, ConcatEmptySeq
  <2> HIDE DEF id, low, full, z
  <2>4. MappedOf(id) = [family |-> 2, port |-> s.port, ip |-> low]
    <3>1. ~ id.isIpv4
      <4>1. ~ s.family = 1
        BY <1>10
      <4> QED
        BY <1>8, <4>1, Zenon
    <3> QED
      BY <1>8, <3>1, Zenon DEF MappedOf
  <2>5. MappedOf(id) = a
    BY <1>10, <2>3, <2>4
  <2> QED
    BY <1>5, <1>6, <2>5, Zenon DEF id, q, ip, n, z
<1> QED
  BY <1>1, <1>9, <1>10

--------------------------------------------------------------------------------
(* Answers.                                                                  *)

\* What the peer that asked r is to make of the attribute it read.
Understood(a) ==
  IF a.variant = "ErrorCode" THEN Decoded("ErrorCode", <<ErrorNumber(a.val[1], a.val[2])>>) ELSE a

\* a can be written in an answer to r, is then read as it was, and says `say`.
Sayable(r, a, say) ==
  /\ \A bits, to : /\ Emit(a, bits, r.txid, to) # {}
                   /\ \A u \in Emit(a, bits, r.txid, to) : Parsed(u) = {a}
  /\ say = Understood(a)
  /\ a.variant = "UnknownAttributes" => a.val = UnknownCodes(r.codes)

LEMMA RequestHas ==
  ASSUME NEW r \in Requests
  PROVE  /\ r.bits \in Word /\ r.codes \in Seq(Word) /\ r.peer \in SocketAddresses
         /\ r.txid \in TransactionIds
BY ExchangeAssumption

LEMMA AddressSayable ==
  ASSUME NEW r \in Requests, NEW s \in SocketAddresses
  PROVE  Sayable(r, Decoded("XorMappedAddress", AddressVal(MappedOf(IdentityOf(s)))),
                 Decoded("XorMappedAddress", <<s.family, s.port>> \o s.ip \o Zeros(16 - Len(s.ip))))
<1> DEFINE x == MappedOf(IdentityOf(s))
           v == "XorMappedAddress"
           a == Decoded(v, AddressVal(x))
<1>1. x \in Addresses /\ AddressVal(x) = <<s.family, s.port>> \o s.ip \o Zeros(16 - Len(s.ip))
  BY MappedIs
<1> HIDE DEF x
<1>2. a = Decoded(v, <<s.family, s.port>> \o s.ip \o Zeros(16 - Len(s.ip)))
  BY <1>1, Zenon
<1>3. a.variant = "XorMappedAddress"
  BY DEF Decoded
<1>4. "XorMappedAddress" \in Addressed /\ "XorMappedAddress" # "ErrorCode"
      /\ "XorMappedAddress" # "UnknownAttributes"
  BY DEF Addressed, Xored
<1>5. ASSUME NEW bits, NEW to
      PROVE  Emit(a, bits, r.txid, to) # {} /\ \A u \in Emit(a, bits, r.txid, to) : Parsed(u) = {a}
  <2>1. r.txid \in TransactionIds
    BY RequestHas
  <2> QED
    BY <1>1, <1>4, <2>1, AddressSent
<1> HIDE DEF a
<1>6. Sayable(r, a, a)
  BY <1>3, <1>4, <1>5 DEF Sayable, Understood
<1> QED
  BY <1>2, <1>6, Zenon DEF a, x

LEMMA ErrorSayable ==
  ASSUME NEW r \in Requests, NEW n \in ErrorNumbers
  PROVE  Sayable(r, ErrorCodeAttr(n), Decoded("ErrorCode", <<n>>))
<1> DEFINE hi == n \div 100
           lo == n % 100
           q == <<hi, lo>>
           x == q \o Reason
           a == Decoded("ErrorCode", x)
<1>1. hi \in Nat /\ hi < 256 /\ lo \in Nat /\ lo < 256 /\ 100 * hi + lo = n /\ n < 700
  BY DEF ErrorNumbers
<1>2. hi \in Octet /\ lo \in Octet
  BY <1>1, OctetIs
<1> HIDE DEF hi, lo
<1>3. q \in Seq(Octet) /\ Len(q) = 2 /\ q[1] = hi /\ q[2] = lo
  BY <1>2, PairIs
<1>4. Reason \in Seq(Octet) /\ Len(Reason) = 1
  <2>1. 82 \in Octet
    BY OctetIs
  <2> QED
    BY <2>1 DEF Reason
<1> HIDE DEF q
<1>5. IsJoin(x, Octet, q, Reason)
  BY <1>3, <1>4, JoinIs, Zenon
<1> HIDE DEF x
<1>6. x \in Seq(Octet) /\ Len(x) = 3 /\ x[1] = hi /\ x[2] = lo
  BY <1>3, <1>4, <1>5 DEF IsJoin
<1>7. ErrorNumber(x[1], x[2]) = n
  BY <1>1, <1>6 DEF ErrorNumber
<1>8. InRange(ErrorNumber(x[1], x[2]))
  BY <1>1, <1>7 DEF InRange
<1>9. "ErrorCode" \in Errors /\ "ErrorCode" \in Shaped
  BY DEF Errors, Shaped
<1>10. Returns("ErrorCode", x, r.txid) /\ Len(OctetsOf(a, r.txid)) = 5
  <2>1. Len(x) >= 2 /\ 2 + Len(x) = 5
    BY <1>6
  <2> QED
    BY <1>6, <1>8, <1>9, <2>1, ErrorReturns
<1>11. Writable(a)
  <2>1. Len(x) - 2 <= ReasonMaxLen
    BY <1>6 DEF ReasonMaxLen
  <2> QED
    BY <1>8, <1>9, <2>1, RefusedIs
<1>12. ASSUME NEW bits, NEW to
       PROVE  Emit(a, bits, r.txid, to) # {} /\ \A u \in Emit(a, bits, r.txid, to) : Parsed(u) = {a}
  <2>1. Len(OctetsOf(a, r.txid)) <= BufferLen
    <3>1. 5 <= BufferLen
      BY DEF BufferLen
    <3> QED
      BY <1>10, <3>1, Zenon
  <2>2. Emit(a, bits, r.txid, to) # {}
    BY <1>11, <2>1, EmitIs
  <2>3. \A u \in Emit(a, bits, r.txid, to) : Parsed(u) = {a}
    BY <1>9, <1>10, ShapedSent
  <2> QED
    BY <2>2, <2>3
<1>13. a.variant = "ErrorCode" /\ a.val = x
  BY DEF Decoded
<1>14. Understood(a) = Decoded("ErrorCode", <<n>>)
  BY <1>7, <1>13 DEF Understood
<1>15. a = ErrorCodeAttr(n)
  BY DEF ErrorCodeAttr, x, q, hi, lo
<1> HIDE DEF a
<1>16. Sayable(r, a, Decoded("ErrorCode", <<n>>))
  BY <1>12, <1>13, <1>14 DEF Sayable
<1> QED
  BY <1>15, <1>16, Zenon

LEMMA UnknownSayable ==
  ASSUME NEW r \in Requests
  PROVE  Sayable(r, Decoded("UnknownAttributes", UnknownCodes(r.codes)),
                 Decoded("UnknownAttributes", UnknownCodes(r.codes)))
<1> DEFINE x == UnknownCodes(r.codes)
           a == Decoded("UnknownAttributes", x)
<1>1. x \in Seq(Word) /\ Len(x) <= MaxCodes
  BY RequestHas, UnknownAre
<1> HIDE DEF x
<1>2. "UnknownAttributes" \in Shaped
  BY DEF Shaped, Single
<1>3. Returns("UnknownAttributes", x, r.txid) /\ Len(OctetsOf(a, r.txid)) = 2 * Len(x)
  BY <1>1, UnknownReturns
<1>4. Len(OctetsOf(a, r.txid)) <= BufferLen
  <2>1. Len(x) \in Nat
    BY <1>1
  <2> QED
    BY <1>1, <1>3, <2>1 DEF BufferLen, MaxCodes
<1>5. Writable(a)
  <2>1. "UnknownAttributes" \notin Errors \cup {"ChannelNumber", "Data", "ConnectionId"}
    BY DEF Errors
  <2> QED
    BY <1>2, <2>1, RefusedIs
<1>6. ASSUME NEW bits, NEW to
      PROVE  Emit(a, bits, r.txid, to) # {} /\ \A u \in Emit(a, bits, r.txid, to) : Parsed(u) = {a}
  <2>1. Emit(a, bits, r.txid, to) # {}
    BY <1>4, <1>5, EmitIs
  <2>2. \A u \in Emit(a, bits, r.txid, to) : Parsed(u) = {a}
    BY <1>2, <1>3, ShapedSent
  <2> QED
    BY <2>1, <2>2
<1>7. a.variant = "UnknownAttributes" /\ a.val = x
  BY DEF Decoded
<1> HIDE DEF a
<1>8. Sayable(r, a, a)
  BY <1>6, <1>7 DEF Sayable, Understood, x
<1> QED
  BY <1>8 DEF a, x

\* The two types of an answer are those of replies to a Binding request.
LEMMA AnswerTypes ==
  ASSUME NEW bits \in {BindingSuccess, BindingError}
  PROVE  TypesAt(bits) \subseteq SuccessTypes(BindingRequest) \cup ErrorTypes(BindingRequest)
<1>1. [name |-> "Binding", no |-> 0] = Method(1)
  BY DEF Method, MethodName
<1>2. 1 \in Nat /\ 1 < 4096
  OBVIOUS
<1>3. [name |-> "Binding", no |-> 0] \in Methods
  BY <1>1, <1>2 DEF Methods
<1>4. "Success" \in Classes /\ "Error" \in Classes
  BY DEF Classes, ClassBits
<1>5. Type("Binding", "Success") \in Types /\ Type("Binding", "Error") \in Types
  BY <1>3, <1>4 DEF Type, Types
<1>6. /\ TypesAt(BindingSuccess) = {Type("Binding", "Success")}
      /\ TypesAt(BindingError) = {Type("Binding", "Error")}
  BY <1>5, TypeWritten DEF BindingSuccess, BindingError
<1>7. BindingRequest.class = "Request"
  BY DEF BindingRequest, Type
<1>8. /\ [BindingRequest EXCEPT !.class = "Success"] = Type("Binding", "Success")
      /\ [BindingRequest EXCEPT !.class = "Error"] = Type("Binding", "Error")
  BY DEF BindingRequest, Type
<1>9. /\ SuccessTypes(BindingRequest) = {Type("Binding", "Success")}
      /\ ErrorTypes(BindingRequest) = {Type("Binding", "Error")}
  BY <1>7, <1>8 DEF SuccessTypes, ErrorTypes, ReplyTypes
<1> QED
  BY <1>6, <1>9

\* The datagram w, sent to the one that asked r, says `said` of what r is about.
Says(r, w, said) ==
  /\ w.to = {r.peer} /\ w.bits \in {BindingSuccess, BindingError}
  /\ \E a : /\ Parsed(w) = {a} /\ said = {Understood(a)}
            /\ a.variant = "UnknownAttributes" => a.val = UnknownCodes(r.codes)

\* The inductive invariant of answers: none fails to be written or to be read, and one
\* that is sent says what was meant, to the one that asked.
AnswerInv ==
  /\ got # {} => phase \in {"decoded", "read"}
  /\ asked # {} => phase \in {"asked", "ignored", "sent", "read"}
  /\ \A r \in asked : /\ asked = {r} /\ r \in Requests
                      /\ phase \in {"sent", "read"} => Says(r, wire, meant)
                      /\ phase = "read" => got = Parsed(wire)

LEMMA AnswerKeeps ==
  ASSUME AnswerInv, NEW a, NEW say, NEW bits \in {BindingSuccess, BindingError},
         Answer(a, say, bits), \A r \in asked : Sayable(r, a, say)
  PROVE  AnswerInv'
<1>1. phase = "asked" /\ asked' = asked /\ got' = got /\ meant' = {say}
  BY DEF Answer
<1>2. PICK r \in asked :
        LET out == Emit(a, bits, r.txid, PeersIn(RawPeer(r.peer))) IN
        /\ phase' = IF out = {} THEN "unwritable" ELSE "sent"
        /\ wire' \in IF out = {} THEN {wire} ELSE out
  BY DEF Answer
<1> DEFINE out == Emit(a, bits, r.txid, PeersIn(RawPeer(r.peer)))
<1>3. asked = {r} /\ r \in Requests /\ got = {}
  BY <1>1, <1>2 DEF AnswerInv
<1>4. PeersIn(RawPeer(r.peer)) = {r.peer}
  BY <1>3, RequestHas, PeerKept
<1>5. out # {} /\ \A u \in out : Parsed(u) = {a}
  BY <1>2 DEF Sayable
<1>6. say = Understood(a) /\ (a.variant = "UnknownAttributes" => a.val = UnknownCodes(r.codes))
  BY <1>2 DEF Sayable
<1>7. phase' = "sent" /\ wire' \in out
  BY <1>2, <1>5
<1>8. wire'.to = {r.peer} /\ wire'.bits = bits
  BY <1>4, <1>7, EmitIs
<1>9. Parsed(wire') = {a}
  BY <1>5, <1>7
<1>10. Says(r, wire', meant')
  BY <1>1, <1>6, <1>8, <1>9 DEF Says
<1> HIDE DEF out
<1> QED
  BY <1>1, <1>3, <1>7, <1>10 DEF AnswerInv

LEMMA AnswerNext ==
  ASSUME AnswerInv, [ExchangeNext]_exchangeVars
  PROVE  AnswerInv'
<1>1. CASE Ask
  <2>1. PICK r \in Requests : asked' = {r} /\ phase' \in {"asked", "ignored"}
    BY <1>1 DEF Ask
  <2>2. phase = "idle" /\ got' = got
    BY <1>1 DEF Ask
  <2>3. got = {}
    BY <2>2 DEF AnswerInv
  <2> QED
    BY <2>1, <2>2, <2>3 DEF AnswerInv
<1>2. ASSUME NEW socket \in Sockets, AnswerAddress(socket)
      PROVE  AnswerInv'
  <2>1. \A r \in asked :
          Sayable(r, Decoded("XorMappedAddress", AddressVal(MappedOf(IdentityOf(socket)))),
                  Decoded("XorMappedAddress",
                          <<socket.family, socket.port>> \o socket.ip \o Zeros(16 - Len(socket.ip))))
    BY ExchangeAssumption, AddressSayable DEF AnswerInv
  <2>2. BindingSuccess \in {BindingSuccess, BindingError}
    OBVIOUS
  <2> QED
    BY <1>2, <2>1, <2>2, AnswerKeeps DEF AnswerAddress
<1>3. ASSUME NEW n \in ErrorNumbers, AnswerError(n)
      PROVE  AnswerInv'
  <2>1. \A r \in asked : Sayable(r, ErrorCodeAttr(n), Decoded("ErrorCode", <<n>>))
    BY ErrorSayable DEF AnswerInv
  <2>2. BindingError \in {BindingSuccess, BindingError}
    OBVIOUS
  <2> QED
    BY <1>3, <2>1, <2>2, AnswerKeeps DEF AnswerError
<1>4. CASE AnswerUnknown
  <2>1. PICK r \in asked : Answer(Decoded("UnknownAttributes", UnknownCodes(r.codes)),
                                  Decoded("UnknownAttributes", UnknownCodes(r.codes)), BindingError)
    BY <1>4 DEF AnswerUnknown
  <2>2. asked = {r} /\ r \in Requests
    BY <2>1 DEF AnswerInv
  <2>3. \A s \in asked : Sayable(s, Decoded("UnknownAttributes", UnknownCodes(r.codes)),
                                 Decoded("UnknownAttributes", UnknownCodes(r.codes)))
    BY <2>2, UnknownSayable
  <2>4. BindingError \in {BindingSuccess, BindingError}
    OBVIOUS
  <2> QED
    BY <2>1, <2>3, <2>4, AnswerKeeps
<1>5. CASE Receive
  <2>1. phase = "idle" /\ asked' = asked /\ phase' \in {"panicked", "refused", "decoded"}
        /\ (got' # {} => phase' = "decoded")
    BY <1>5 DEF Receive
  <2>2. asked = {}
    BY <2>1 DEF AnswerInv
  <2> QED
    BY <2>1, <2>2 DEF AnswerInv
<1>6. CASE \E txid \in Txids : Write(txid)
  <2>1. phase = "decoded" /\ got' = {} /\ asked' = asked
    BY <1>6 DEF Write
  <2>2. asked = {}
    BY <2>1 DEF AnswerInv
  <2> QED
    BY <2>1, <2>2 DEF AnswerInv
<1>7. CASE Read
  <2>1. phase = "sent" /\ got' = Parsed(wire) /\ UNCHANGED <<asked, wire, meant>>
        /\ phase' = IF got' = {} THEN "unread" ELSE "read"
    BY <1>7 DEF Read
  <2>2. ASSUME NEW r \in asked
        PROVE  asked = {r} /\ r \in Requests /\ Says(r, wire, meant) /\ got' # {}
    BY <2>1, <2>2 DEF AnswerInv, Says
  <2>3. Parsed(wire') = Parsed(wire) /\ wire' = wire /\ meant' = meant
    BY <2>1
  <2>4. asked' # {} => phase' = "read"
    BY <2>1, <2>2
  <2>5. \A r \in asked : Says(r, wire', meant')
    BY <2>2, <2>3
  <2> QED
    BY <2>1, <2>2, <2>3, <2>4, <2>5 DEF AnswerInv
<1>8. CASE UNCHANGED exchangeVars
  <2>1. asked' = asked /\ phase' = phase /\ got' = got /\ wire' = wire /\ meant' = meant
    BY <1>8 DEF exchangeVars
  <2> QED
    BY <2>1 DEF AnswerInv
<1> QED
  BY <1>1, <1>2, <1>3, <1>4, <1>5, <1>6, <1>7, <1>8 DEF ExchangeNext

LEMMA AnswerHolds == ExchangeSpec => []AnswerInv
<1>1. ExchangeInit => AnswerInv
  BY DEF ExchangeInit, AnswerInv
<1>2. AnswerInv /\ [ExchangeNext]_exchangeVars => AnswerInv'
  BY AnswerNext
<1> QED
  BY <1>1, <1>2, PTL DEF ExchangeSpec

\* An answer always fits, goes to where the request came from, is a reply to it, and
\* is read as what the server meant (identity_of_socket, identity_attr,
\* error_code_attr, parse_peer_addr).
THEOREM AnswersAreUnderstood == ExchangeSpec => []AnswerIsUnderstood
<1>1. AnswerInv => AnswerIsUnderstood
  <2> SUFFICES ASSUME AnswerInv, NEW r \in asked
               PROVE  /\ phase \notin {"unwritable", "unread"}
                      /\ phase = "read" =>
                           /\ wire.to = {r.peer}
                           /\ TypesAt(wire.bits)
                                \subseteq SuccessTypes(BindingRequest) \cup ErrorTypes(BindingRequest)
                           /\ meant = {IF a.variant = "ErrorCode"
                                       THEN Decoded("ErrorCode", <<ErrorNumber(a.val[1], a.val[2])>>)
                                       ELSE a : a \in got}
    BY DEF AnswerIsUnderstood
  <2>1. phase \notin {"unwritable", "unread"}
    BY DEF AnswerInv
  <2>2. ASSUME phase = "read"
        PROVE  /\ wire.to = {r.peer}
               /\ TypesAt(wire.bits) \subseteq SuccessTypes(BindingRequest) \cup ErrorTypes(BindingRequest)
               /\ meant = {Understood(a) : a \in got}
    <3>1. Says(r, wire, meant) /\ got = Parsed(wire)
      BY <2>2 DEF AnswerInv
    <3>2. wire.to = {r.peer} /\ wire.bits \in {BindingSuccess, BindingError}
      BY <3>1 DEF Says
    <3>3. PICK a : got = {a} /\ meant = {Understood(a)}
      BY <3>1 DEF Says
    <3> QED
      BY <3>2, <3>3, AnswerTypes
  <2> QED
    BY <2>1, <2>2, Zenon DEF Understood
<1> QED
  BY <1>1, AnswerHolds, PTL

\* A 420 names attributes of the request the server neither reads nor may ignore, and
\* all of them if there are no more than fit (unknown_attribute_codes).
THEOREM UnknownsAreNamed == ExchangeSpec => []UnknownAreNamed
<1>1. AnswerInv => UnknownAreNamed
  <2> SUFFICES ASSUME AnswerInv, NEW r \in asked, NEW a \in got, a.variant = "UnknownAttributes"
               PROVE  LET unread == Range(r.codes) \ (NotComprehensionRequired \cup BindingKnown) IN
                      /\ Range(a.val) \subseteq unread
                      /\ Len(r.codes) <= MaxCodes => Range(a.val) = unread
    BY DEF UnknownAreNamed
  <2>1. phase = "read" /\ r \in Requests
    BY DEF AnswerInv
  <2>2. Says(r, wire, meant) /\ got = Parsed(wire)
    BY <2>1 DEF AnswerInv
  <2>3. a.val = UnknownCodes(r.codes)
    BY <2>2 DEF Says
  <2>4. r.codes \in Seq(Word)
    BY <2>1, RequestHas
  <2> QED
    BY <2>3, <2>4, UnknownAre, Zenon
<1> QED
  BY <1>1, AnswerHolds, PTL

--------------------------------------------------------------------------------
(* Names in a list, and what stands between commas.                          *)

\* A set of places that is not empty has a first and a last one.
LEMMA EndsAre ==
  ASSUME NEW n \in Nat, NEW I \in SUBSET (1 .. n), I # {}
  PROVE  /\ Min(I) \in I /\ \A j \in I : Min(I) <= j
         /\ Max(I) \in I /\ \A j \in I : Max(I) >= j
<1> DEFINE S == {n - i : i \in I}
<1>1. \A i \in I : i \in 1 .. n
  OBVIOUS
<1>2. S \in SUBSET Nat /\ S # {} /\ I \in SUBSET Nat
  <2>1. \A i \in 1 .. n : n - i \in Nat /\ i \in Nat
    OBVIOUS
  <2>2. I \in SUBSET Nat
    BY <1>1, <2>1
  <2>3. \A i \in I : n - i \in Nat
    BY <1>1, <2>1
  <2> QED
    BY <2>2, <2>3
<1>3. PICK d \in S : \A e \in S : d <= e
  <2> HIDE DEF S
  <2> QED
    BY <1>2, Smallest
<1>4. PICK i \in I : d = n - i
  BY <1>3
<1>5. ASSUME NEW j \in I PROVE i >= j
  <2>1. n - j \in S
    OBVIOUS
  <2>2. n - i <= n - j
    BY <1>3, <1>4, <2>1
  <2>3. i \in Int /\ j \in Int
    BY <1>1
  <2> QED
    BY <2>2, <2>3
<1>6. PICK k \in I : \A j \in I : k <= j
  BY <1>2, Smallest
<1>7. Min(I) \in I /\ \A j \in I : Min(I) <= j
  BY <1>6 DEF Min
<1>8. Max(I) \in I /\ \A j \in I : Max(I) >= j
  BY <1>5 DEF Max
<1> QED
  BY <1>7, <1>8

\* One octet of split, and one name of join.
Cut(parts, o) ==
  IF o = Comma THEN Append(parts, <<>>) ELSE [parts EXCEPT ![Len(parts)] = Append(@, o)]
Glue(s, p) == IF s = <<>> THEN p ELSE s \o <<Comma>> \o p
Step(by, x, y) == IF by = "split" THEN Cut(x, y) ELSE Glue(x, y)

\* The function a fold with either of them defines.
Folding(by, base, s, n, f) ==
  f = [I \in SUBSET (1 .. n) |-> IF I = {} THEN base ELSE Step(by, f[I \ {Max(I)}], s[Max(I)])]

LEMMA FoldingIs ==
  ASSUME NEW by, NEW base, NEW s
  PROVE  \A n \in Nat : \E f : Folding(by, base, s, n, f)
<1> DEFINE S == {n \in Nat : ~ \E f : Folding(by, base, s, n, f)}
<1> SUFFICES ASSUME S # {} PROVE FALSE
  OBVIOUS
<1>1. PICK n \in S : \A m \in S : n <= m
  <2>1. S \in SUBSET Nat
    OBVIOUS
  <2> HIDE DEF S
  <2> QED
    BY <2>1, Smallest
<1>2. n \in Nat /\ ~ \E f : Folding(by, base, s, n, f)
  BY <1>1
<1>3. CASE n = 0
  <2> DEFINE f == [I \in SUBSET (1 .. 0) |-> base]
             step(I) == IF I = {} THEN base ELSE Step(by, f[I \ {Max(I)}], s[Max(I)])
  <2>1. ASSUME NEW I \in SUBSET (1 .. 0) PROVE I = {}
    OBVIOUS
  <2>2. \A I \in SUBSET (1 .. 0) : f[I] = step(I)
    BY <2>1
  <2>3. f = [I \in SUBSET (1 .. 0) |-> f[I]]
    OBVIOUS
  <2> HIDE DEF f
  <2>4. Folding(by, base, s, 0, f)
    BY <2>2, <2>3 DEF Folding
  <2> QED
    BY <1>2, <1>3, <2>4
<1>4. CASE n # 0
  <2> DEFINE p == n - 1
  <2>1. p \in Nat /\ p < n /\ n = p + 1
    BY <1>2, <1>4
  <2> HIDE DEF p
  <2>2. PICK g : Folding(by, base, s, p, g)
    <3> SUFFICES ASSUME p \in S PROVE FALSE
      BY <2>1
    <3>1. n <= p
      BY <1>1
    <3> QED
      BY <1>2, <2>1, <3>1
  <2> DEFINE last(x) == Step(by, x, s[n])
             f == [I \in SUBSET (1 .. n) |-> IF n \in I THEN last(g[I \ {n}]) ELSE g[I]]
             step(I) == IF I = {} THEN base ELSE Step(by, f[I \ {Max(I)}], s[Max(I)])
  <2>3. ASSUME NEW I \in SUBSET (1 .. n), n \notin I
        PROVE  I \in SUBSET (1 .. p)
    <3>1. \A i \in I : i \in 1 .. n /\ i # n
      BY <2>3
    <3>2. \A i \in 1 .. n : i # n => i \in 1 .. p
      BY <2>1
    <3> QED
      BY <3>1, <3>2
  <2>4. \A I \in SUBSET (1 .. n) : f[I] = IF n \in I THEN last(g[I \ {n}]) ELSE g[I]
    OBVIOUS
  <2>5. f = [I \in SUBSET (1 .. n) |-> f[I]]
    OBVIOUS
  <2> HIDE DEF f
  <2>6. ASSUME NEW I \in SUBSET (1 .. n), n \in I
        PROVE  f[I] = step(I)
    <3>1. Max(I) = n
      <4>1. Max(I) \in I /\ Max(I) >= n
        BY <1>2, <2>6, EndsAre
      <4>2. Max(I) \in 1 .. n
        BY <4>1
      <4> QED
        BY <1>2, <4>1, <4>2
    <3>2. f[I] = last(g[I \ {n}])
      BY <2>4, <2>6
    <3>3. f[I \ {n}] = g[I \ {n}]
      BY <2>4
    <3> QED
      BY <2>6, <3>1, <3>2, <3>3
  <2>7. ASSUME NEW I \in SUBSET (1 .. n), n \notin I
        PROVE  f[I] = step(I)
    <3>1. f[I] = g[I] /\ f[I \ {Max(I)}] = g[I \ {Max(I)}]
      BY <2>4, <2>7
    <3>2. g[I] = IF I = {} THEN base ELSE Step(by, g[I \ {Max(I)}], s[Max(I)])
      BY <2>2, <2>3, <2>7 DEF Folding
    <3> QED
      BY <3>1, <3>2
  <2>8. \A I \in SUBSET (1 .. n) : f[I] = step(I)
    BY <2>6, <2>7
  <2>9. Folding(by, base, s, n, f)
    BY <2>5, <2>8 DEF Folding
  <2> QED
    BY <1>2, <2>9
<1> QED
  BY <1>3, <1>4

LEMMA FoldingNone ==
  ASSUME NEW by, NEW base, NEW s, NEW n \in Nat, NEW f, Folding(by, base, s, n, f)
  PROVE  f[1 .. 0] = base
<1>1. 1 .. 0 = {} /\ 1 .. 0 \in SUBSET (1 .. n)
  OBVIOUS
<1> QED
  BY <1>1 DEF Folding

LEMMA FoldingStep ==
  ASSUME NEW by, NEW base, NEW s, NEW n \in Nat, NEW f, Folding(by, base, s, n, f),
         NEW k \in Nat, k < n, NEW l \in Nat, l = k + 1
  PROVE  f[1 .. l] = Step(by, f[1 .. k], s[l])
<1>1. \A I \in SUBSET (1 .. n) :
        f[I] = IF I = {} THEN base ELSE Step(by, f[I \ {Max(I)}], s[Max(I)])
  BY DEF Folding
<1>2. 1 .. l \in SUBSET (1 .. l) /\ l \in 1 .. l /\ 1 .. l \in SUBSET (1 .. n)
  OBVIOUS
<1>3. Max(1 .. l) = l
  <2>1. 1 .. l # {}
    BY <1>2
  <2>2. Max(1 .. l) \in 1 .. l /\ Max(1 .. l) >= l
    BY <1>2, <2>1, EndsAre
  <2> QED
    BY <1>2, <2>2
<1>4. (1 .. l) \ {l} = 1 .. k
  OBVIOUS
<1> QED
  BY <1>1, <1>2, <1>3, <1>4

LEMMA FoldingAgrees ==
  ASSUME NEW by, NEW base, NEW k \in Nat,
         NEW s, NEW n \in Nat, NEW f, Folding(by, base, s, n, f), k <= n,
         NEW t, NEW m \in Nat, NEW g, Folding(by, base, t, m, g), k <= m,
         \A i \in 1 .. k : s[i] = t[i]
  PROVE  f[1 .. k] = g[1 .. k]
<1> DEFINE S == {i \in 0 .. k : f[1 .. i] # g[1 .. i]}
<1>1. f[1 .. 0] = base
  BY FoldingNone, Zenon
<1>2. g[1 .. 0] = base
  BY FoldingNone, Zenon
<1>3. ASSUME S # {} PROVE FALSE
  <2>1. PICK i \in S : \A j \in S : i <= j
    <3>1. S \in SUBSET Nat
      OBVIOUS
    <3> HIDE DEF S
    <3> QED
      BY <1>3, <3>1, Smallest
  <2>2. i \in 0 .. k /\ f[1 .. i] # g[1 .. i]
    BY <2>1
  <2>3. i # 0
    BY <1>1, <1>2, <2>2
  <2> DEFINE j == i - 1
  <2>4. i \in Nat /\ i \in 1 .. k /\ j \in 0 .. k /\ j \in Nat /\ j < n /\ j < m /\ i = j + 1 /\ j < i
    BY <2>2, <2>3
  <2>5. f[1 .. j] = g[1 .. j]
    <3> SUFFICES ASSUME j \in S PROVE FALSE
      BY <2>4
    <3>1. i <= j
      BY <2>1
    <3> QED
      BY <2>4, <3>1
  <2>6. s[i] = t[i]
    BY <2>4
  <2> HIDE DEF S, j
  <2>7. f[1 .. i] = Step(by, f[1 .. j], s[i])
    BY <2>4, FoldingStep
  <2>8. g[1 .. i] = Step(by, g[1 .. j], t[i])
    BY <2>4, FoldingStep
  <2> QED
    BY <2>2, <2>5, <2>6, <2>7, <2>8, Zenon
<1>4. k \in 0 .. k
  OBVIOUS
<1> QED
  BY <1>3, <1>4

\* What the folds of split and of join are.
LEMMA SplitFolds ==
  ASSUME NEW T, NEW s \in Seq(T)
  PROVE  \E f : Folding("split", <<<<>>>>, s, Len(s), f) /\ Split(s) = f[1 .. Len(s)]
<1> DEFINE Made(g) == g = [I \in SUBSET (DOMAIN s) |->
                             IF I = {} THEN <<<<>>>> ELSE Cut(g[I \ {Max(I)}], s[Max(I)])]
           f == CHOOSE g : Made(g)
<1>1. DOMAIN s = 1 .. Len(s) /\ Len(s) \in Nat
  OBVIOUS
<1>2. \A g : Made(g) <=> Folding("split", <<<<>>>>, s, Len(s), g)
  BY <1>1 DEF Folding, Step
<1>3. Made(f)
  BY <1>1, <1>2, FoldingIs
<1>4. Split(s) = f[DOMAIN s]
  BY DEF Split, FoldLeft, MapThenFoldSet, Cut
<1> QED
  BY <1>1, <1>2, <1>3, <1>4

LEMMA JoinedFolds ==
  ASSUME NEW T, NEW s \in Seq(T)
  PROVE  \E f : Folding("join", <<>>, s, Len(s), f) /\ Joined(s) = f[1 .. Len(s)]
<1> DEFINE Made(g) == g = [I \in SUBSET (DOMAIN s) |->
                             IF I = {} THEN <<>> ELSE Glue(g[I \ {Max(I)}], s[Max(I)])]
           f == CHOOSE g : Made(g)
<1>1. DOMAIN s = 1 .. Len(s) /\ Len(s) \in Nat
  OBVIOUS
<1>2. \A g : Made(g) <=> Folding("join", <<>>, s, Len(s), g)
  BY <1>1 DEF Folding, Step
<1>3. Made(f)
  BY <1>1, <1>2, FoldingIs
<1>4. Joined(s) = f[DOMAIN s]
  BY DEF Joined, FoldLeft, MapThenFoldSet, Glue
<1> QED
  BY <1>1, <1>2, <1>3, <1>4

LEMMA FoldingLast ==
  ASSUME NEW by, NEW base, NEW n \in Nat, NEW m \in Nat, m = n + 1,
         NEW s, NEW f, Folding(by, base, s, n, f),
         NEW t, NEW g, Folding(by, base, t, m, g), \A i \in 1 .. n : s[i] = t[i]
  PROVE  g[1 .. m] = Step(by, f[1 .. n], t[m])
<1>1. n <= n /\ n <= m /\ n < m
  OBVIOUS
<1>2. f[1 .. n] = g[1 .. n]
  BY <1>1, FoldingAgrees
<1>3. g[1 .. m] = Step(by, g[1 .. n], t[m])
  BY <1>1, FoldingStep
<1> QED
  BY <1>2, <1>3, Zenon

LEMMA SplitStep ==
  ASSUME NEW T, NEW s \in Seq(T), NEW o \in T
  PROVE  /\ Split(<<>>) = <<<<>>>>
         /\ Split(Append(s, o)) = Cut(Split(s), o)
<1> DEFINE t == Append(s, o)
           e == <<>>
           n == Len(s)
           m == n + 1
           none == <<<<>>>>
<1>1. e \in Seq(T) /\ Len(e) = 0 /\ 0 \in Nat
  OBVIOUS
<1>2. /\ t \in Seq(T) /\ Len(t) = m /\ n \in Nat /\ m \in Nat /\ m = n + 1 /\ t[m] = o
      /\ \A i \in 1 .. n : s[i] = t[i]
  OBVIOUS
<1> HIDE DEF t, e, n, m
<1>3. \A x \in Seq(T) : \E f : Folding("split", none, x, Len(x), f) /\ Split(x) = f[1 .. Len(x)]
  BY SplitFolds, Zenon DEF none
<1> HIDE DEF none
<1>4. Split(e) = none
  <2>1. PICK f : Folding("split", none, e, 0, f) /\ Split(e) = f[1 .. 0]
    BY <1>1, <1>3, Zenon
  <2>2. f[1 .. 0] = none
    BY <1>1, <2>1, FoldingNone, Zenon
  <2> QED
    BY <2>1, <2>2, Zenon
<1>5. Split(t) = Cut(Split(s), o)
  <2>1. PICK f : Folding("split", none, s, n, f) /\ Split(s) = f[1 .. n]
    BY <1>3, Zenon DEF n
  <2>2. PICK g : Folding("split", none, t, m, g) /\ Split(t) = g[1 .. m]
    BY <1>2, <1>3, Zenon
  <2>3. g[1 .. m] = Step("split", f[1 .. n], t[m])
    BY <1>2, <2>1, <2>2, FoldingLast
  <2>4. g[1 .. m] = Cut(f[1 .. n], o)
    BY <1>2, <2>3, Zenon DEF Step
  <2> QED
    BY <2>1, <2>2, <2>4, Zenon
<1> QED
  BY <1>4, <1>5 DEF e, t, none

LEMMA JoinedStep ==
  ASSUME NEW T, NEW s \in Seq(T), NEW o \in T
  PROVE  /\ Joined(<<>>) = <<>>
         /\ Joined(Append(s, o)) = Glue(Joined(s), o)
<1> DEFINE t == Append(s, o)
           e == <<>>
           n == Len(s)
           m == n + 1
           none == <<>>
<1>1. e \in Seq(T) /\ Len(e) = 0 /\ 0 \in Nat
  OBVIOUS
<1>2. /\ t \in Seq(T) /\ Len(t) = m /\ n \in Nat /\ m \in Nat /\ m = n + 1 /\ t[m] = o
      /\ \A i \in 1 .. n : s[i] = t[i]
  OBVIOUS
<1> HIDE DEF t, e, n, m
<1>3. \A x \in Seq(T) : \E f : Folding("join", none, x, Len(x), f) /\ Joined(x) = f[1 .. Len(x)]
  BY JoinedFolds, Zenon DEF none
<1> HIDE DEF none
<1>4. Joined(e) = none
  <2>1. PICK f : Folding("join", none, e, 0, f) /\ Joined(e) = f[1 .. 0]
    BY <1>1, <1>3, Zenon
  <2>2. f[1 .. 0] = none
    BY <1>1, <2>1, FoldingNone, Zenon
  <2> QED
    BY <2>1, <2>2, Zenon
<1>5. Joined(t) = Glue(Joined(s), o)
  <2>1. PICK f : Folding("join", none, s, n, f) /\ Joined(s) = f[1 .. n]
    BY <1>3, Zenon DEF n
  <2>2. PICK g : Folding("join", none, t, m, g) /\ Joined(t) = g[1 .. m]
    BY <1>2, <1>3, Zenon
  <2>3. g[1 .. m] = Step("join", f[1 .. n], t[m])
    BY <1>2, <2>1, <2>2, FoldingLast
  <2>4. g[1 .. m] = Glue(f[1 .. n], o)
    BY <1>2, <2>3, Zenon DEF Step
  <2> QED
    BY <2>1, <2>2, <2>4, Zenon
<1> QED
  BY <1>4, <1>5 DEF e, t, none

\* The octets of a text, and those of what stands between two commas.
Ascii  == {o \in Octet : o < 128}
Inside == Ascii \ {Comma}

LEMMA AsciiIs ==
  ASSUME NEW buf \in Seq(Octet)
  PROVE  IsUtf8(buf) <=> buf \in Seq(Ascii)
<1>1. ASSUME IsUtf8(buf) PROVE buf \in Seq(Ascii)
  <2>1. ASSUME NEW i \in 1 .. Len(buf) PROVE buf[i] \in Ascii
    <3>1. buf[i] \in Octet
      BY ElementOfSeq, Zenon
    <3>2. i \in DOMAIN buf
      OBVIOUS
    <3>3. buf[i] < 128
      BY <1>1, <3>2, Zenon DEF IsUtf8
    <3> QED
      BY <3>1, <3>3, Zenon DEF Ascii
  <2>2. buf \in [1 .. Len(buf) -> Ascii]
    <3>1. buf \in [1 .. Len(buf) -> Octet]
      OBVIOUS
    <3> QED
      BY <2>1, <3>1, Zenon
  <2> QED
    BY <2>2, Len(buf) \in Nat, Listed
<1>2. ASSUME buf \in Seq(Ascii) PROVE IsUtf8(buf)
  <2>1. ASSUME NEW i \in DOMAIN buf PROVE buf[i] < 128
    <3>1. i \in 1 .. Len(buf)
      BY <1>2
    <3>2. buf[i] \in Ascii
      BY <1>2, <3>1, ElementOfSeq, Zenon
    <3> QED
      BY <3>2, Zenon DEF Ascii
  <2> QED
    BY <2>1, Zenon DEF IsUtf8
<1> QED
  BY <1>1, <1>2

\* A sequence that is not empty is a shorter one with an element behind it.
LEMMA FrontAndLast ==
  ASSUME NEW T, NEW s \in Seq(T), Len(s) # 0
  PROVE  \E q \in Seq(T), o \in T : Len(s) = Len(q) + 1 /\ s = Append(q, o)
<1> DEFINE n == Len(s) - 1
           q == SubSeq(s, 1, n)
           o == s[n + 1]
<1>1. n \in Nat /\ Len(s) = n + 1
  OBVIOUS
<1>2. q \in Seq(T) /\ Len(q) = n /\ \A i \in 1 .. n : q[i] = s[i]
  BY <1>1
<1>3. o \in T
  BY <1>1
<1> HIDE DEF n, q, o
<1>4. s = Append(q, o)
  <2>1. Append(q, o) \in Seq(T) /\ Len(Append(q, o)) = Len(s)
    BY <1>1, <1>2, <1>3
  <2>2. \A i \in 1 .. Len(s) : s[i] = Append(q, o)[i]
    BY <1>1, <1>2, <1>3 DEF o
  <2> QED
    BY <2>1, <2>2, SeqEqual
<1> QED
  BY <1>1, <1>2, <1>3, <1>4

\* split cuts at commas only.
LEMMA CutIs ==
  ASSUME NEW parts \in Seq(Seq(Inside)), parts # <<>>, NEW o \in Ascii
  PROVE  Cut(parts, o) \in Seq(Seq(Inside)) /\ Cut(parts, o) # <<>>
<1>1. CASE o = Comma
  <2>1. <<>> \in Seq(Inside)
    OBVIOUS
  <2>2. Append(parts, <<>>) \in Seq(Seq(Inside)) /\ Append(parts, <<>>) # <<>>
    BY <2>1, AppendProperties
  <2> QED
    BY <1>1, <2>2 DEF Cut
<1>2. CASE o # Comma
  <2> DEFINE n == Len(parts)
             p == Append(parts[n], o)
  <2>1. n \in Nat /\ n >= 1 /\ n \in 1 .. n
    OBVIOUS
  <2>2. parts[n] \in Seq(Inside)
    BY <2>1, ElementOfSeq, Zenon
  <2>3. o \in Inside
    BY <1>2 DEF Inside
  <2>4. p \in Seq(Inside)
    BY <2>2, <2>3, AppendProperties
  <2>5. Cut(parts, o) = [parts EXCEPT ![n] = p]
    BY <1>2 DEF Cut
  <2> HIDE DEF n, p
  <2>6. parts \in [1 .. n -> Seq(Inside)]
    BY <2>1, Unlisted DEF n
  <2>7. [parts EXCEPT ![n] = p] \in [1 .. n -> Seq(Inside)]
    BY <2>4, <2>6, Zenon
  <2>8. [parts EXCEPT ![n] = p] \in Seq(Seq(Inside)) /\ Len([parts EXCEPT ![n] = p]) = n
    BY <2>1, <2>7, Listed
  <2>9. [parts EXCEPT ![n] = p] # <<>>
    BY <2>1, <2>8
  <2> QED
    BY <2>5, <2>8, <2>9, Zenon
<1> QED
  BY <1>1, <1>2

LEMMA SplitType ==
  ASSUME NEW s \in Seq(Ascii)
  PROVE  Split(s) \in Seq(Seq(Inside)) /\ Split(s) # <<>>
<1> DEFINE Good(q) == Split(q) \in Seq(Seq(Inside)) /\ Split(q) # <<>>
           S == {n \in Nat : \E q \in Seq(Ascii) : Len(q) = n /\ ~ Good(q)}
<1>1. ASSUME S # {} PROVE FALSE
  <2>1. PICK n \in S : \A m \in S : n <= m
    <3>1. S \in SUBSET Nat
      OBVIOUS
    <3> HIDE DEF S
    <3> QED
      BY <1>1, <3>1, Smallest
  <2>2. PICK q \in Seq(Ascii) : Len(q) = n /\ ~ Good(q)
    BY <2>1
  <2>3. n \in Nat
    BY <2>1
  <2>4. n # 0
    <3> SUFFICES ASSUME n = 0 PROVE FALSE
      OBVIOUS
    <3>1. q = <<>>
      BY <2>2, EmptySeq
    <3>2. Comma \in Octet /\ <<>> \in Seq(Octet)
      BY OctetIs DEF Comma
    <3>3. Split(q) = <<<<>>>>
      BY <3>1, <3>2, SplitStep, Zenon
    <3>4. <<<<>>>> \in Seq(Seq(Inside)) /\ <<<<>>>> # <<>>
      OBVIOUS
    <3> QED
      BY <2>2, <3>3, <3>4, Zenon
  <2> DEFINE m == n - 1
  <2>5. m \in Nat /\ n = m + 1 /\ m < n
    BY <2>3, <2>4
  <2> HIDE DEF m
  <2>6. PICK r \in Seq(Ascii), o \in Ascii : Len(r) = m /\ q = Append(r, o)
    <3>1. Len(q) # 0
      BY <2>2, <2>4
    <3> HIDE DEF S, Good
    <3>2. PICK r \in Seq(Ascii), o \in Ascii : Len(q) = Len(r) + 1 /\ q = Append(r, o)
      BY <3>1, FrontAndLast
    <3>3. Len(r) = m
      BY <2>2, <2>5, <3>2
    <3> QED
      BY <3>2, <3>3
  <2>7. Good(r)
    <3> SUFFICES ASSUME ~ Good(r) PROVE FALSE
      OBVIOUS
    <3>1. m \in S
      BY <2>5, <2>6
    <3>2. n <= m
      BY <2>1, <3>1
    <3> QED
      BY <2>3, <2>5, <3>2
  <2>8. Split(q) = Cut(Split(r), o)
    BY <2>6, SplitStep, Zenon
  <2>9. Good(q)
    BY <2>6, <2>7, <2>8, CutIs, Zenon
  <2> QED
    BY <2>2, <2>9
<1>2. Len(s) \in Nat
  OBVIOUS
<1> QED
  BY <1>1, <1>2

LEMMA LastReplaced ==
  ASSUME NEW T, NEW s \in Seq(T), NEW o \in T, NEW p \in T
  PROVE  [Append(s, o) EXCEPT ![Len(s) + 1] = p] = Append(s, p)
<1> DEFINE n == Len(s) + 1
           a == Append(s, o)
           b == Append(s, p)
           c == [a EXCEPT ![n] = p]
<1>1. n \in Nat /\ n = Len(s) + 1
  OBVIOUS
<1>2. a \in Seq(T) /\ Len(a) = n /\ \A i \in 1 .. Len(s) : a[i] = s[i]
  BY AppendProperties
<1>3. b \in Seq(T) /\ Len(b) = n /\ b[n] = p /\ \A i \in 1 .. Len(s) : b[i] = s[i]
  BY AppendProperties
<1> HIDE DEF n, a, b
<1>4. a \in [1 .. n -> T] /\ b \in [1 .. n -> T]
  BY <1>1, <1>2, <1>3, Unlisted
<1>5. ASSUME NEW i \in 1 .. n PROVE c[i] = b[i]
  <2>1. CASE i = n
    BY <1>3, <1>4, <2>1
  <2>2. CASE i # n
    <3>1. i \in 1 .. Len(s)
      BY <1>1, <2>2
    <3>2. a[i] = b[i]
      BY <1>2, <1>3, <3>1
    <3> QED
      BY <1>4, <2>2, <3>2
  <2> QED
    BY <2>1, <2>2
<1>6. c \in [1 .. n -> T]
  BY <1>4
<1> HIDE DEF c
<1>7. c = b
  <2>1. c = [i \in 1 .. n |-> c[i]] /\ b = [i \in 1 .. n |-> b[i]]
    BY <1>4, <1>6, Zenon
  <2> QED
    BY <1>5, <2>1, Zenon
<1> QED
  BY <1>7 DEF a, b, c, n

\* A name behind a comma, or at the front, is split off whole.
LEMMA SplitBehind ==
  ASSUME NEW s \in Seq(Ascii), NEW ps \in Seq(Seq(Inside)), Split(s) = Append(ps, <<>>),
         NEW p \in Seq(Inside)
  PROVE  s \o p \in Seq(Ascii) /\ Split(s \o p) = Append(ps, p)
<1> DEFINE Good(q) == s \o q \in Seq(Ascii) /\ Split(s \o q) = Append(ps, q)
           S == {n \in Nat : \E q \in Seq(Inside) : Len(q) = n /\ ~ Good(q)}
<1>1. ASSUME S # {} PROVE FALSE
  <2>1. PICK n \in S : \A m \in S : n <= m
    <3>1. S \in SUBSET Nat
      OBVIOUS
    <3> HIDE DEF S
    <3> QED
      BY <1>1, <3>1, Smallest
  <2>2. PICK q \in Seq(Inside) : Len(q) = n /\ ~ Good(q)
    BY <2>1
  <2>3. n \in Nat
    BY <2>1
  <2>4. n # 0
    <3> SUFFICES ASSUME n = 0 PROVE FALSE
      OBVIOUS
    <3>1. q = <<>>
      BY <2>2, EmptySeq
    <3>2. s \o q = s
      BY <3>1, ConcatEmptySeq
    <3> QED
      BY <2>2, <3>1, <3>2, Zenon
  <2> DEFINE m == n - 1
  <2>5. m \in Nat /\ n = m + 1 /\ m < n
    BY <2>3, <2>4
  <2> HIDE DEF m
  <2>6. PICK r \in Seq(Inside), o \in Inside : Len(r) = m /\ q = Append(r, o)
    <3>1. Len(q) # 0
      BY <2>2, <2>4
    <3> HIDE DEF S, Good
    <3>2. PICK r \in Seq(Inside), o \in Inside : Len(q) = Len(r) + 1 /\ q = Append(r, o)
      BY <3>1, FrontAndLast
    <3>3. Len(r) = m
      BY <2>2, <2>5, <3>2
    <3> QED
      BY <3>2, <3>3
  <2>7. Good(r)
    <3> SUFFICES ASSUME ~ Good(r) PROVE FALSE
      OBVIOUS
    <3>1. m \in S
      BY <2>5, <2>6
    <3>2. n <= m
      BY <2>1, <3>1
    <3> QED
      BY <2>3, <2>5, <3>2
  <2> HIDE DEF S
  <2> DEFINE t == s \o r
             ts == Append(ps, r)
             k == Len(ts)
  <2>8. t \in Seq(Ascii) /\ Split(t) = ts
    BY <2>7
  <2>9. s \o q = Append(t, o)
    <3>1. q = r \o <<o>>
      BY <2>6, AppendIsConcat
    <3>2. t \o <<o>> = s \o (r \o <<o>>)
      <4>1. <<o>> \in Seq(Ascii) /\ r \in Seq(Ascii)
        <5>1. o \in Ascii
          BY DEF Inside
        <5>2. Inside \subseteq Ascii
          BY DEF Inside
        <5> QED
          BY <5>1, <5>2
      <4>2. s \in Seq(Ascii)
        OBVIOUS
      <4> HIDE DEF Good
      <4>3. Regroups(s, r, <<o>>)
        BY <4>1, <4>2, Associates, Zenon
      <4> QED
        BY <4>3, Zenon DEF Regroups
    <3>3. Append(t, o) = t \o <<o>>
      <4>1. o \in Ascii
        BY DEF Inside
      <4> QED
        BY <2>8, <4>1, AppendIsConcat
    <3> QED
      BY <3>1, <3>2, <3>3, Zenon
  <2>10. Append(t, o) \in Seq(Ascii)
    BY <2>8 DEF Inside
  <2>11. Split(Append(t, o)) = Cut(ts, o)
    BY <2>8, SplitStep DEF Inside
  <2>12. k = Len(ps) + 1 /\ ts[k] = r
    BY <2>6
  <2>13. Cut(ts, o) = Append(ps, q)
    <3>1. o # Comma
      BY DEF Inside
    <3>2. Cut(ts, o) = [ts EXCEPT ![k] = Append(ts[k], o)]
      BY <3>1 DEF Cut
    <3>3. Append(ts[k], o) = q
      BY <2>6, <2>12, Zenon
    <3>4. [Append(ps, r) EXCEPT ![Len(ps) + 1] = q] = Append(ps, q)
      <4> DEFINE N == Seq(Inside)
      <4>1. ps \in Seq(N) /\ r \in N /\ q \in N
        OBVIOUS
      <4> HIDE DEF N
      <4> QED
        BY <4>1, LastReplaced
    <3> QED
      BY <2>12, <3>2, <3>3, <3>4, Zenon
  <2>14. Good(q)
    BY <2>9, <2>10, <2>11, <2>13, Zenon
  <2> QED
    BY <2>2, <2>14
<1>2. Len(p) \in Nat
  OBVIOUS
<1> QED
  BY <1>1, <1>2

\* What a comma-separated list of names is split into.
LEMMA JoinedKept ==
  ASSUME NEW x \in Seq(Seq(Inside) \ {<<>>}), x # <<>>
  PROVE  Joined(x) \in Seq(Ascii) /\ Joined(x) # <<>> /\ Split(Joined(x)) = x
<1> DEFINE Name == Seq(Inside) \ {<<>>}
           Good(q) == Joined(q) \in Seq(Ascii) /\ Joined(q) # <<>> /\ Split(Joined(q)) = q
           S == {n \in Nat : \E q \in Seq(Name) : Len(q) = n + 1 /\ ~ Good(q)}
<1>0. /\ Comma \in Octet /\ <<>> \in Seq(Ascii) /\ <<>> \in Seq(Seq(Inside)) /\ Comma \in Ascii
      /\ Inside \subseteq Ascii
  <2>1. Comma \in Octet
    BY OctetIs DEF Comma
  <2>2. Comma < 128
    BY DEF Comma
  <2> QED
    BY <2>1, <2>2 DEF Ascii, Inside
<1>1. ASSUME S # {} PROVE FALSE
  <2>1. PICK n \in S : \A m \in S : n <= m
    <3>1. S \in SUBSET Nat
      OBVIOUS
    <3> HIDE DEF S
    <3> QED
      BY <1>1, <3>1, Smallest
  <2>2. PICK q \in Seq(Name) : Len(q) = n + 1 /\ ~ Good(q)
    BY <2>1
  <2>3. n \in Nat
    BY <2>1
  <2>4. PICK r \in Seq(Name), p \in Name : Len(r) = n /\ q = Append(r, p)
    <3>1. Len(q) # 0
      BY <2>2, <2>3
    <3> HIDE DEF S, Good, Name
    <3>2. PICK r \in Seq(Name), p \in Name : Len(q) = Len(r) + 1 /\ q = Append(r, p)
      BY <3>1, FrontAndLast
    <3>3. Len(r) = n
      BY <2>2, <2>3, <3>2
    <3> QED
      BY <3>2, <3>3
  <2>5. Joined(q) = Glue(Joined(r), p)
    BY <2>4, JoinedStep, Zenon
  <2>6. p \in Seq(Inside) /\ p # <<>> /\ r \in Seq(Seq(Inside))
    BY <2>4
  <2>7. CASE n = 0
    <3>1. r = <<>>
      BY <2>4, <2>7, EmptySeq
    <3>2. Joined(r) = <<>>
      BY <3>1, JoinedStep, <2>4, Zenon
    <3>3. Joined(q) = p
      BY <2>5, <3>2, Zenon DEF Glue
    <3>4. Split(<<>>) = <<<<>>>>
      BY <1>0, SplitStep, Zenon
    <3>5. Append(<<>>, <<>>) = <<<<>>>>
      OBVIOUS
    <3>6. <<>> \o p \in Seq(Ascii) /\ Split(<<>> \o p) = Append(<<>>, p)
      BY <1>0, <2>6, <3>4, <3>5, SplitBehind, Zenon
    <3>7. <<>> \o p = p
      BY <2>6, ConcatEmptySeq
    <3>8. Good(q)
      BY <2>4, <2>6, <3>1, <3>3, <3>6, <3>7, Zenon
    <3> QED
      BY <2>2, <3>8
  <2>8. CASE n # 0
    <3> DEFINE m == n - 1
               j == Joined(r)
               c == Append(j, Comma)
    <3>1. m \in Nat /\ n = m + 1 /\ m < n
      BY <2>3, <2>8
    <3> HIDE DEF m
    <3>2. Good(r)
      <4> SUFFICES ASSUME ~ Good(r) PROVE FALSE
        OBVIOUS
      <4>1. m \in S
        BY <2>4, <3>1
      <4>2. n <= m
        BY <2>1, <4>1
      <4> QED
        BY <2>3, <3>1, <4>2
    <3> HIDE DEF S
    <3>3. j \in Seq(Ascii) /\ j # <<>> /\ Split(j) = r
      BY <3>2
    <3>4. Joined(q) = j \o <<Comma>> \o p
      BY <2>5, <3>3, Zenon DEF Glue
    <3>5. c = j \o <<Comma>> /\ c \in Seq(Ascii)
      BY <1>0, <3>3, AppendIsConcat
    <3>6. Split(c) = Append(r, <<>>)
      <4>1. Split(c) = Cut(r, Comma)
        BY <1>0, <3>3, SplitStep, Zenon
      <4> QED
        BY <4>1, Zenon DEF Cut
    <3> HIDE DEF j, c
    <3>7. c \o p \in Seq(Ascii) /\ Split(c \o p) = Append(r, p)
      BY <2>6, <3>5, <3>6, SplitBehind, Zenon
    <3>8. Joined(q) = c \o p
      BY <3>4, <3>5, Zenon
    <3>9. Joined(q) # <<>>
      <4>1. Split(<<>>) = <<<<>>>>
        BY <1>0, SplitStep, Zenon
      <4>2. Len(Append(r, p)) = n + 1 /\ Len(<<<<>>>>) = 1
        <5>1. Len(Append(r, p)) = Len(r) + 1
          BY <2>4, AppendProperties, Zenon
        <5>2. Len(<<<<>>>>) = 1
          OBVIOUS
        <5> QED
          BY <2>4, <5>1, <5>2, Zenon
      <4>3. Append(r, p) # <<<<>>>>
        <5>1. n + 1 # 1
          BY <2>3, <2>8
        <5> QED
          BY <4>2, <5>1, Zenon
      <4> QED
        BY <3>7, <3>8, <4>1, <4>3, Zenon
    <3>10. Good(q)
      BY <2>4, <3>7, <3>8, <3>9, Zenon
    <3> QED
      BY <2>2, <3>10
  <2> QED
    BY <2>7, <2>8
<1>2. Len(x) \in Nat /\ Len(x) # 0
  BY EmptySeq
<1>3. Len(x) - 1 \in Nat /\ Len(x) = (Len(x) - 1) + 1
  BY <1>2
<1> QED
  BY <1>1, <1>3

\* trim takes nothing away from what it has trimmed.
LEMMA TrimKept ==
  ASSUME NEW p \in Seq(Inside)
  PROVE  Trim(p) \in Seq(Inside) /\ Trim(Trim(p)) = Trim(p)
<1> DEFINE n == Len(p)
           full(q) == {i \in DOMAIN q : ~ IsSpace(q[i])}
           I == full(p)
           m == Min(I)
           k == Max(I)
           q == SubSeq(p, m, k)
<1>1. n \in Nat /\ I \in SUBSET (1 .. n)
  OBVIOUS
<1>2. CASE I = {}
  <2>1. Trim(p) = <<>>
    BY <1>2 DEF Trim
  <2>2. full(<<>>) = {}
    OBVIOUS
  <2>3. Trim(<<>>) = <<>>
    BY <2>2 DEF Trim
  <2> QED
    BY <2>1, <2>3
<1>3. CASE I # {}
  <2>1. m \in I /\ (\A j \in I : m <= j) /\ k \in I /\ \A j \in I : k >= j
    <3> HIDE DEF I, n
    <3> QED
      BY <1>1, <1>3, EndsAre
  <2>2. Trim(p) = q
    BY <1>3 DEF Trim
  <2>3. m \in 1 .. n /\ k \in 1 .. n /\ m <= k /\ ~ IsSpace(p[m]) /\ ~ IsSpace(p[k])
    <3>1. m \in 1 .. n /\ k \in 1 .. n
      BY <1>1, <2>1, Zenon
    <3>2. m <= k
      BY <2>1, Zenon
    <3>3. \A i \in I : ~ IsSpace(p[i])
      OBVIOUS
    <3> HIDE DEF I, m, k
    <3> QED
      BY <2>1, <3>1, <3>2, <3>3
  <2> HIDE DEF I, m, k
  <2> DEFINE l == k - m + 1
  <2>4. l \in Nat /\ l >= 1 /\ m \in Int /\ k \in Int /\ m + 1 - 1 = m /\ m + l - 1 = k
    BY <1>1, <2>3
  <2>5. \A i \in m .. k : p[i] \in Inside
    <3>1. ASSUME NEW i \in m .. k PROVE p[i] \in Inside
      <4>1. i \in 1 .. Len(p)
        BY <1>1, <2>3
      <4> QED
        BY <4>1, ElementOfSeq, Zenon
    <3> QED
      BY <3>1
  <2>6. q \in Seq(Inside)
    BY <2>4, <2>5, SubSeqProperties
  <2>7. Len(q) = IF m <= k THEN k - m + 1 ELSE 0
    BY <2>4, <2>5, SubSeqProperties
  <2>8. \A i \in 1 .. k - m + 1 : q[i] = p[m + i - 1]
    BY <2>4, <2>5, SubSeqProperties
  <2> HIDE DEF q, n
  <2>9. Len(q) = l /\ q[1] = p[m] /\ q[l] = p[k]
    <3>1. Len(q) = l
      BY <2>3, <2>7
    <3>2. 1 \in 1 .. l /\ l \in 1 .. l
      BY <2>4
    <3>3. q[1] = p[m + 1 - 1] /\ q[l] = p[m + l - 1]
      BY <2>8, <3>2
    <3> QED
      BY <2>4, <3>1, <3>3, Zenon
  <2> HIDE DEF l
  <2> DEFINE J == full(q)
  <2>10. J \in SUBSET (1 .. l) /\ 1 \in J /\ l \in J
    <3>1. DOMAIN q = 1 .. l /\ 1 \in 1 .. l /\ l \in 1 .. l
      BY <2>4, <2>6, <2>9
    <3> QED
      BY <2>3, <2>9, <3>1
  <2>11. Min(J) = 1 /\ Max(J) = l
    <3> HIDE DEF J
    <3>1. J # {}
      BY <2>10
    <3>2. Min(J) \in J /\ Min(J) <= 1 /\ Max(J) \in J /\ Max(J) >= l
      BY <2>4, <2>10, <3>1, EndsAre
    <3>3. Min(J) \in 1 .. l /\ Max(J) \in 1 .. l
      BY <2>10, <3>2, Zenon
    <3> QED
      BY <2>4, <3>2, <3>3
  <2>12. Trim(q) = SubSeq(q, 1, l)
    <3>1. J # {}
      BY <2>10
    <3> QED
      BY <2>11, <3>1, Zenon DEF Trim
  <2>13. SubSeq(q, 1, l) = q
    <3> DEFINE s == SubSeq(q, 1, l)
    <3>1. s \in Seq(Inside) /\ Len(s) = l /\ \A i \in 1 .. l : s[i] = q[i]
      BY <2>4, <2>6, <2>9, FirstOf
    <3> HIDE DEF s
    <3>2. s = q
      BY <2>6, <2>9, <3>1, SeqEqual
    <3> QED
      BY <3>2 DEF s
  <2> QED
    BY <2>2, <2>6, <2>12, <2>13, Zenon
<1> QED
  BY <1>2, <1>3

\* Who picks everything gets what there is.
LEMMA PickAll ==
  ASSUME NEW T, NEW x \in Seq(T)
  PROVE  Pick(x, DOMAIN x) = x
<1> DEFINE n == Len(x)
           I == 1 .. n
<1>1. n \in Nat /\ DOMAIN x = I /\ x = [i \in 1 .. n |-> x[i]]
  OBVIOUS
<1>2. Cardinality(I) = n
  BY <1>1, FS_Interval
<1>3. ASSUME NEW i \in I PROVE Rank(I, i) = i
  <2>1. {k \in I : k <= i} = 1 .. i
    BY <1>1
  <2>2. Cardinality(1 .. i) = i
    BY FS_Interval
  <2> QED
    BY <2>1, <2>2, Zenon DEF Rank
<1> HIDE DEF I
<1>4. ASSUME NEW j \in 1 .. n PROVE (CHOOSE i \in I : Rank(I, i) = j) = j
  <2>1. j \in I
    BY DEF I
  <2> QED
    BY <1>3, <2>1
<1> HIDE DEF n
<1>5. Pick(x, I) = [j \in 1 .. n |-> x[CHOOSE i \in I : Rank(I, i) = j]]
  BY <1>2, Zenon DEF Pick
<1>6. [j \in 1 .. n |-> x[CHOOSE i \in I : Rank(I, i) = j]] = [j \in 1 .. n |-> x[j]]
  <2>1. \A j \in 1 .. n : x[CHOOSE i \in I : Rank(I, i) = j] = x[j]
    BY <1>4
  <2> QED
    BY <2>1
<1> QED
  BY <1>1, <1>5, <1>6, Zenon

\* The names of a text: none is empty, and none is trimmed or cut again.
LEMMA NamesAre ==
  ASSUME NEW buf \in Seq(Ascii)
  PROVE  /\ Names(buf) \in Seq(Seq(Inside) \ {<<>>})
         /\ \A i \in 1 .. Len(Names(buf)) : Trim(Names(buf)[i]) = Names(buf)[i]
<1> DEFINE Parts == Split(buf)
           t == [i \in DOMAIN Parts |-> Trim(Parts[i])]
           I == {i \in DOMAIN t : t[i] # <<>>}
           x == Pick(t, I)
           n == Cardinality(I)
<1>1. Parts \in Seq(Seq(Inside))
  BY SplitType
<1>2. Names(buf) = x
  BY Zenon DEF Names
<1>3. ASSUME NEW i \in DOMAIN Parts PROVE Trim(Parts[i]) \in Seq(Inside) /\ Trim(Trim(Parts[i])) = Trim(Parts[i])
  <2>1. i \in 1 .. Len(Parts)
    BY <1>1
  <2>2. Parts[i] \in Seq(Inside)
    BY <1>1, <2>1, ElementOfSeq, Zenon
  <2> QED
    BY <2>2, TrimKept, Zenon
<1>4. DOMAIN Parts = 1 .. Len(Parts) /\ Len(Parts) \in Nat
  BY <1>1
<1> HIDE DEF Parts
<1>5. t \in [1 .. Len(Parts) -> Seq(Inside)]
  BY <1>3, <1>4
<1>6. t \in Seq(Seq(Inside)) /\ DOMAIN t = DOMAIN Parts
  BY <1>4, <1>5, Listed
<1>7. \A i \in I : t[i] \in Seq(Inside) \ {<<>>} /\ Trim(t[i]) = t[i]
  BY <1>3
<1>8. I \in SUBSET (DOMAIN t)
  OBVIOUS
<1> HIDE DEF t, I
<1>9. /\ x \in Seq(Seq(Inside)) /\ Len(x) = n /\ n \in Nat
      /\ \A j \in 1 .. n : \E i \in I : x[j] = t[i]
  <2>1. /\ x \in Seq(Seq(Inside)) /\ Len(x) = n
        /\ \A j \in 1 .. n : \E i \in I : x[j] = t[i]
    <3> DEFINE N == Seq(Inside)
    <3>1. t \in Seq(N)
      BY <1>6
    <3> HIDE DEF N
    <3>2. Pick(t, I) \in Seq(N) /\ Len(Pick(t, I)) = Cardinality(I)
      BY <1>8, <3>1, PickType
    <3>3. \A j \in 1 .. Cardinality(I) : \E i \in I : Pick(t, I)[j] = t[i]
      BY <1>8, <3>1, PickType
    <3> QED
      BY <3>2, <3>3, Zenon DEF N
  <2> HIDE DEF x, n
  <2> QED
    BY <2>1
<1> HIDE DEF x, n
<1>10. \A j \in 1 .. n : x[j] \in Seq(Inside) \ {<<>>} /\ Trim(x[j]) = x[j]
  BY <1>7, <1>9
<1>11. x \in [1 .. n -> Seq(Inside) \ {<<>>}]
  <2>1. x \in [1 .. n -> Seq(Inside)]
    BY <1>9, Unlisted
  <2> QED
    BY <1>10, <2>1
<1>12. x \in Seq(Seq(Inside) \ {<<>>})
  <2> DEFINE N == Seq(Inside) \ {<<>>}
  <2> HIDE DEF N
  <2>1. x \in [1 .. n -> N]
    BY <1>11 DEF N
  <2>2. x \in Seq(N)
    BY <1>9, <2>1, Listed
  <2> QED
    BY <2>2 DEF N
<1> QED
  BY <1>2, <1>9, <1>10, <1>12

\* Names that are joined come apart again as they were.
LEMMA NamesKept ==
  ASSUME NEW x \in Seq(Seq(Inside) \ {<<>>}), x # <<>>, \A i \in 1 .. Len(x) : Trim(x[i]) = x[i]
  PROVE  Joined(x) \in Seq(Ascii) /\ Names(Joined(x)) = x
<1> DEFINE o == Joined(x)
           t == [i \in DOMAIN x |-> Trim(x[i])]
<1>1. o \in Seq(Ascii) /\ Split(o) = x
  BY JoinedKept
<1> HIDE DEF o
<1>2. DOMAIN x = 1 .. Len(x) /\ x = [i \in DOMAIN x |-> x[i]]
  OBVIOUS
<1>3. t = x
  <2>1. \A i \in DOMAIN x : Trim(x[i]) = x[i]
    BY <1>2
  <2>2. t = [i \in DOMAIN x |-> x[i]]
    BY <2>1
  <2> QED
    BY <1>2, <2>2, Zenon
<1>4. \A i \in DOMAIN x : x[i] # <<>>
  <2>1. ASSUME NEW i \in DOMAIN x PROVE x[i] # <<>>
    <3> DEFINE N == Seq(Inside) \ {<<>>}
    <3>1. i \in 1 .. Len(x) /\ x \in Seq(N)
      BY <1>2
    <3> HIDE DEF N
    <3>2. x[i] \in N
      BY <3>1, ElementOfSeq, Zenon
    <3> QED
      BY <3>2 DEF N
  <2> QED
    BY <2>1
<1>5. {i \in DOMAIN x : x[i] # <<>>} = DOMAIN x
  BY <1>4
<1>6. Names(o) = Pick(t, {i \in DOMAIN t : t[i] # <<>>})
  BY <1>1, Zenon DEF Names
<1>7. Names(o) = Pick(x, DOMAIN x)
  BY <1>3, <1>5, <1>6, Zenon
<1>8. Pick(x, DOMAIN x) = x
  <2> DEFINE N == Seq(Inside) \ {<<>>}
  <2>1. x \in Seq(N)
    OBVIOUS
  <2> HIDE DEF N
  <2> QED
    BY <2>1, PickAll, Zenon
<1> QED
  BY <1>1, <1>7, <1>8 DEF o

--------------------------------------------------------------------------------
(* Values read and written anew.                                             *)

\* A value that was read can be written, or its reason is too long; and is read again.
Survives(v, x, txid) ==
  /\ Returns(v, x, txid) /\ Len(OctetsOf(Decoded(v, x), txid)) \in Nat
  /\ Writable(Decoded(v, x)) \/ (v \in Errors /\ Len(x) - 2 > ReasonMaxLen)

LEMMA KeptSurvives ==
  ASSUME NEW v \in AsKept, v # "MessageIntegritySha256", NEW buf \in Seq(Octet), NEW x \in ValuesIn(v, buf),
         NEW txid
  PROVE  Survives(v, x, txid)
<1>1. v \in Shaped
  BY DEF AsKept, Shaped, Single
<1>2. x = buf
  <2>1. v \in Texts \/ v \in Opaque \/ v \in FamilyOnly \/ v \in DOMAIN ArrayLen \/ v = "Data" \/ v = "ConnectionId"
    BY DEF AsKept
  <2>2. ASSUME v \in Texts \/ v \in Opaque \/ v \in FamilyOnly \/ v \in DOMAIN ArrayLen PROVE x = buf
    BY <2>2, ValueRead, Zenon
  <2>3. ASSUME v = "Data" \/ v = "ConnectionId" PROVE x = buf
    BY <2>3, SingleRead
  <2> QED
    BY <2>1, <2>2, <2>3
<1>3. OctetsOf(Decoded(v, x), txid) = x
  BY <1>1, WritingIs
<1>4. Returns(v, x, txid) /\ Len(OctetsOf(Decoded(v, x), txid)) \in Nat
  <2>1. Len(x) \in Nat
    BY <1>2
  <2> QED
    BY <1>2, <1>3, <2>1, Zenon DEF Returns
<1>5. v = "Data" => Writable(Decoded(v, x))
  <2>1. v = "Data" => Len(x) <= DataMaxLen
    BY SingleRead
  <2> QED
    BY <1>1, <2>1, RefusedIs
<1>6. v = "ConnectionId" => Writable(Decoded(v, x))
  <2>1. v = "ConnectionId" => Len(x) \in ConnectionIdLengths
    BY SingleRead
  <2> QED
    BY <1>1, <2>1, RefusedIs
<1>7. v # "Data" /\ v # "ConnectionId" => Writable(Decoded(v, x))
  <2>1. v \notin Errors /\ v # "ChannelNumber"
    BY DEF AsKept, Errors, Texts, Opaque, FamilyOnly, ArrayLen
  <2> QED
    BY <1>1, <2>1, RefusedIs
<1> QED
  BY <1>4, <1>5, <1>6, <1>7, Zenon DEF Survives

LEMMA ShaSurvives ==
  ASSUME NEW v, v = "MessageIntegritySha256", NEW buf \in Seq(Octet), NEW x \in ValuesIn(v, buf), NEW txid
  PROVE  Survives(v, x, txid)
<1> DEFINE z == Zeros(ShaLen - Len(buf))
           n == Len(buf)
<1>1. v \in Shaped /\ v \in AsKept /\ v \notin Errors \cup {"ChannelNumber", "Data", "ConnectionId"}
  BY DEF Shaped, Single, AsKept, Errors
<1>2. Len(buf) \in ShaLengths /\ x = buf \o z
  BY SingleRead
<1>3. n \in Nat /\ n <= 32 /\ ShaLen = 32
  <2>1. ShaLen = 32
    BY DEF ShaLen
  <2>2. n \in Int /\ 16 <= n /\ n <= ShaLen
    <3>1. n \in 16 .. ShaLen
      BY <1>2, Zenon DEF ShaLengths
    <3>2. ShaLen \in Int
      BY <2>1
    <3> HIDE DEF n
    <3> QED
      BY <3>1, <3>2
  <2> QED
    BY <2>1, <2>2
<1>4. z \in Seq(Octet) /\ Len(z) = 32 - n
  <2>1. ShaLen - Len(buf) \in Nat /\ ShaLen - Len(buf) = 32 - n
    BY <1>3
  <2> QED
    BY <2>1, ZerosAre
<1> HIDE DEF z
<1>5. IsJoin(x, Octet, buf, z)
  BY <1>2, <1>4, JoinIs, Zenon
<1>6. x \in Seq(Octet) /\ Len(x) = 32
  <2>1. x \in Seq(Octet) /\ Len(x) = n + Len(z)
    BY <1>5 DEF IsJoin
  <2> HIDE DEF n
  <2> QED
    BY <1>3, <1>4, <2>1
<1>7. 32 \in ShaLengths
  BY DEF ShaLengths, ShaLen
<1>8. ValuesIn(v, x) = Sole(Len(x) \in ShaLengths, x \o Zeros(ShaLen - Len(x)))
  BY SingleValuesAre
<1>9. x \o Zeros(ShaLen - Len(x)) = x
  <2>1. ShaLen - Len(x) = 0
    BY <1>3, <1>6
  <2>2. Zeros(ShaLen - Len(x)) = <<>>
    BY <2>1, NoZeros, Zenon
  <2> QED
    BY <1>6, <2>2, ConcatEmptySeq
<1>10. x \in ValuesIn(v, x)
  BY <1>6, <1>7, <1>8, <1>9, Zenon DEF Sole
<1>11. OctetsOf(Decoded(v, x), txid) = x
  BY <1>1, WritingIs
<1>12. Writable(Decoded(v, x))
  BY <1>1, RefusedIs
<1>13. Len(OctetsOf(Decoded(v, x), txid)) \in Nat
  <2>1. Len(x) \in Nat
    BY <1>6
  <2> QED
    BY <1>11, <2>1, Zenon
<1> QED
  BY <1>13, <1>10, <1>11, <1>12, Zenon DEF Survives, Returns

LEMMA ErrorSurvives ==
  ASSUME NEW v \in Errors, NEW buf \in Seq(Octet), NEW x \in ValuesIn(v, buf), NEW txid
  PROVE  Survives(v, x, txid)
<1> DEFINE n == Len(buf)
           s == SubSeq(buf, 3, n)
<1>1. n >= 4 /\ InRange(ErrorNumber(buf[3], buf[4])) /\ x = s /\ n \in Nat
  BY ValueRead
<1>2. \A i \in 3 .. n : buf[i] \in Octet
  <2>1. ASSUME NEW i \in 3 .. n PROVE buf[i] \in Octet
    <3>1. i \in 1 .. Len(buf)
      BY <1>1
    <3> QED
      BY <3>1, ElementOfSeq, Zenon
  <2> QED
    BY <2>1
<1>3. 3 \in Int /\ n \in Int
  BY <1>1
<1>4. s \in Seq(Octet)
  BY <1>2, <1>3, SubSeqProperties
<1>5. Len(s) = IF 3 <= n THEN n - 3 + 1 ELSE 0
  BY <1>2, <1>3, SubSeqProperties
<1>6. \A i \in 1 .. n - 3 + 1 : s[i] = buf[3 + i - 1]
  BY <1>2, <1>3, SubSeqProperties
<1> HIDE DEF s, n
<1>7. Len(s) >= 2 /\ s[1] = buf[3] /\ s[2] = buf[4]
  <2>1. Len(s) >= 2
    BY <1>1, <1>5
  <2>2. 1 \in 1 .. n - 3 + 1 /\ 2 \in 1 .. n - 3 + 1 /\ 3 + 1 - 1 = 3 /\ 3 + 2 - 1 = 4
    BY <1>1
  <2>3. s[1] = buf[3 + 1 - 1] /\ s[2] = buf[3 + 2 - 1]
    BY <1>6, <2>2
  <2> QED
    BY <2>1, <2>2, <2>3, Zenon
<1>8. x \in Seq(Octet) /\ Len(x) >= 2 /\ InRange(ErrorNumber(x[1], x[2]))
  BY <1>1, <1>4, <1>7, Zenon
<1>9. Returns(v, x, txid)
  BY <1>8, ErrorReturns
<1>10. Writable(Decoded(v, x)) \/ Len(x) - 2 > ReasonMaxLen
  <2>1. v \in Shaped
    BY DEF Shaped
  <2>2. Writable(Decoded(v, x)) <=> InRange(ErrorNumber(x[1], x[2])) /\ Len(x) - 2 <= ReasonMaxLen
    BY <2>1, RefusedIs
  <2>3. Len(x) - 2 <= ReasonMaxLen \/ Len(x) - 2 > ReasonMaxLen
    <3>1. Len(x) \in Int /\ ReasonMaxLen \in Int
      BY <1>8 DEF ReasonMaxLen
    <3> QED
      BY <3>1
  <2> QED
    BY <1>8, <2>2, <2>3, Zenon
<1>11. Len(OctetsOf(Decoded(v, x), txid)) \in Nat
  <2>1. Len(OctetsOf(Decoded(v, x), txid)) = 2 + Len(x)
    BY <1>8, ErrorReturns
  <2> QED
    BY <1>8, <2>1
<1> QED
  BY <1>11, <1>9, <1>10, Zenon DEF Survives

LEMMA UnknownSurvives ==
  ASSUME NEW v, v = "UnknownAttributes", NEW buf \in Seq(Octet), NEW x \in ValuesIn(v, buf), NEW txid
  PROVE  Survives(v, x, txid)
<1> DEFINE n == Len(buf) \div 2
<1>1. Len(buf) % 2 = 0 /\ x = [i \in 1 .. n |-> Be16(buf, 2 * i - 1)]
  BY SingleRead
<1>2. Len(buf) = 2 * n /\ n \in Nat
  BY <1>1
<1> HIDE DEF n
<1>3. ASSUME NEW i \in 1 .. n PROVE Be16(buf, 2 * i - 1) \in Word
  <2> DEFINE k == 2 * i - 1
  <2>1. k \in 1 .. Len(buf) /\ k + 1 <= Len(buf)
    BY <1>2
  <2> HIDE DEF k
  <2>2. Be16(buf, k) \in Word
    BY <2>1, WordFrom
  <2> QED
    BY <2>2 DEF k
<1>4. x \in [1 .. n -> Word]
  BY <1>1, <1>3
<1>5. x \in Seq(Word)
  BY <1>2, <1>4, Listed
<1>6. v \in Shaped /\ v \notin Errors \cup {"ChannelNumber", "Data", "ConnectionId"}
  BY DEF Shaped, Single, Errors
<1>7. Len(OctetsOf(Decoded(v, x), txid)) \in Nat
  <2>1. Len(OctetsOf(Decoded("UnknownAttributes", x), txid)) = 2 * Len(x)
    BY <1>5, UnknownReturns
  <2> QED
    BY <1>5, <2>1
<1> QED
  BY <1>7, <1>5, <1>6, UnknownReturns, RefusedIs DEF Survives

LEMMA WordsSurvive ==
  ASSUME NEW v \in Words, NEW buf \in Seq(Octet), NEW x \in ValuesIn(v, buf), NEW txid
  PROVE  Survives(v, x, txid)
<1> DEFINE h == Be16(buf, 1)
           l == Be16(buf, 3)
           o == AllOctets16(x)
<1>1. Len(buf) = 4 /\ x = <<h, l>>
  BY ValueRead
<1>2. h \in Word /\ l \in Word
  <2>1. 1 \in 1 .. Len(buf) /\ 1 + 1 <= Len(buf) /\ 3 \in 1 .. Len(buf) /\ 3 + 1 <= Len(buf)
    BY <1>1
  <2> QED
    BY <2>1, WordFrom
<1> HIDE DEF h, l
<1>3. x \in Seq(Word) /\ Len(x) = 2 /\ x[1] = h /\ x[2] = l
  BY <1>1, <1>2, PairIs
<1>4. Len(o) = 2 * Len(x) /\ \A i \in 1 .. Len(x) : Be16(o, 2 * i - 1) = x[i]
  BY <1>3, WordsRound
<1> HIDE DEF o
<1>5. Len(o) = 4 /\ Be16(o, 1) = h /\ Be16(o, 3) = l
  <2>1. 1 \in 1 .. Len(x) /\ 2 \in 1 .. Len(x) /\ 2 * 1 - 1 = 1 /\ 2 * 2 - 1 = 3 /\ 2 * 2 = 4
    BY <1>3
  <2>2. Be16(o, 2 * 1 - 1) = x[1] /\ Be16(o, 2 * 2 - 1) = x[2]
    BY <1>4, <2>1
  <2> QED
    BY <1>3, <1>4, <2>1, <2>2, Zenon
<1>6. ValuesIn(v, o) = Sole(Len(o) = 4, <<Be16(o, 1), Be16(o, 3)>>)
  BY ValuesAre
<1>7. x \in ValuesIn(v, o)
  BY <1>1, <1>5, <1>6, Zenon DEF Sole
<1>8. v \in Shaped /\ v \in AsWords /\ v \notin Errors \cup {"ChannelNumber", "Data", "ConnectionId"}
  BY DEF Shaped, AsWords, Errors, Words
<1>9. OctetsOf(Decoded(v, x), txid) = o
  BY <1>8, WritingIs DEF o
<1>10. Writable(Decoded(v, x))
  BY <1>8, RefusedIs
<1>11. Len(OctetsOf(Decoded(v, x), txid)) \in Nat
  <2>1. Len(o) \in Nat
    BY <1>5
  <2> QED
    BY <1>9, <2>1, Zenon
<1> QED
  BY <1>11, <1>7, <1>9, <1>10, Zenon DEF Survives, Returns

LEMMA PortSurvives ==
  ASSUME NEW v, v = "ResponsePort", NEW buf \in Seq(Octet), NEW x \in ValuesIn(v, buf), NEW txid
  PROVE  Survives(v, x, txid)
<1> DEFINE h == Be16(buf, 1)
           o == AllOctets16(x)
<1>1. Len(buf) = 2 /\ x = <<h>>
  BY SingleRead
<1>2. h \in Word
  <2>1. 1 \in 1 .. Len(buf) /\ 1 + 1 <= Len(buf)
    BY <1>1
  <2> QED
    BY <2>1, WordFrom
<1> HIDE DEF h
<1>3. x \in Seq(Word) /\ Len(x) = 1 /\ x[1] = h
  BY <1>1, <1>2
<1>4. Len(o) = 2 * Len(x) /\ \A i \in 1 .. Len(x) : Be16(o, 2 * i - 1) = x[i]
  BY <1>3, WordsRound
<1> HIDE DEF o
<1>5. Len(o) = 2 /\ Be16(o, 1) = h
  <2>1. 1 \in 1 .. Len(x) /\ 2 * 1 - 1 = 1 /\ 2 * 1 = 2
    BY <1>3
  <2>2. Be16(o, 2 * 1 - 1) = x[1]
    BY <1>4, <2>1
  <2> QED
    BY <1>3, <1>4, <2>1, <2>2, Zenon
<1>6. ValuesIn(v, o) = Sole(Len(o) = 2, <<Be16(o, 1)>>)
  BY SingleValuesAre
<1>7. x \in ValuesIn(v, o)
  BY <1>1, <1>5, <1>6, Zenon DEF Sole
<1>8. v \in Shaped /\ v \in AsWords /\ v \notin Errors \cup {"ChannelNumber", "Data", "ConnectionId"}
  BY DEF Shaped, AsWords, Errors, Single
<1>9. OctetsOf(Decoded(v, x), txid) = o
  BY <1>8, WritingIs DEF o
<1>10. Writable(Decoded(v, x))
  BY <1>8, RefusedIs
<1>11. Len(OctetsOf(Decoded(v, x), txid)) \in Nat
  <2>1. Len(o) \in Nat
    BY <1>5
  <2> QED
    BY <1>9, <2>1, Zenon
<1> QED
  BY <1>11, <1>7, <1>9, <1>10, Zenon DEF Survives, Returns

LEMMA ChannelSurvives ==
  ASSUME NEW v, v = "ChannelNumber", NEW buf \in Seq(Octet), NEW x \in ValuesIn(v, buf), NEW txid
  PROVE  Survives(v, x, txid)
<1> DEFINE c == Be16(buf, 1)
           p == Octets16(c)
           z == <<0, 0>>
           o == p \o z
<1>1. Len(buf) = 4 /\ c \in Channels /\ x = <<c>>
  BY SingleRead
<1>2. c \in Word
  <2>1. 1 \in 1 .. Len(buf) /\ 1 + 1 <= Len(buf)
    BY <1>1
  <2> QED
    BY <2>1, WordFrom
<1> HIDE DEF c
<1>3. x[1] = c
  BY <1>1
<1>4. /\ p \in Seq(Octet) /\ Len(p) = 2 /\ p[1] = c \div 256 /\ p[2] = c % 256
      /\ 256 * (c \div 256) + (c % 256) = c
  BY <1>2, WordOctets
<1>5. z \in Seq(Octet) /\ Len(z) = 2
  BY OctetIs
<1> HIDE DEF p, z
<1>6. IsJoin(o, Octet, p, z)
  BY <1>4, <1>5, JoinIs, Zenon
<1> HIDE DEF o
<1>7. Len(o) = 4 /\ o[1] = p[1] /\ o[2] = p[2]
  BY <1>4, <1>5, <1>6, TwoAndTwo
<1>8. Be16(o, 1) = c
  <2>1. Be16(o, 1) = 256 * o[1] + o[1 + 1]
    BY Zenon DEF Be16
  <2>2. o[1 + 1] = o[2]
    OBVIOUS
  <2> QED
    BY <1>4, <1>7, <2>1, <2>2, Zenon
<1>9. ValuesIn(v, o) = Sole(Len(o) = 4 /\ Be16(o, 1) \in Channels, <<Be16(o, 1)>>)
  BY SingleValuesAre
<1>10. x \in ValuesIn(v, o)
  BY <1>1, <1>7, <1>8, <1>9, Zenon DEF Sole
<1>11. v \in Shaped
  BY DEF Shaped, Single
<1>12. OctetsOf(Decoded(v, x), txid) = o
  BY <1>3, <1>11, WritingIs DEF o, p, z
<1>13. Writable(Decoded(v, x))
  BY <1>1, <1>3, <1>11, RefusedIs
<1>14. Len(OctetsOf(Decoded(v, x), txid)) \in Nat
  <2>1. Len(o) \in Nat
    BY <1>7
  <2> QED
    BY <1>12, <2>1, Zenon
<1> QED
  BY <1>14, <1>10, <1>12, <1>13, Zenon DEF Survives, Returns

LEMMA PasswordSurvives ==
  ASSUME NEW v, v = "PasswordAlgorithms", NEW buf \in Seq(Octet), NEW x \in ValuesIn(v, buf), NEW txid
  PROVE  Survives(v, x, txid)
<1> DEFINE o == Joined(x)
<1>1. IsUtf8(buf) /\ Names(buf) # <<>> /\ x = Names(buf)
  BY SingleRead
<1>2. buf \in Seq(Ascii)
  BY <1>1, AsciiIs
<1>3. x \in Seq(Seq(Inside) \ {<<>>}) /\ x # <<>> /\ \A i \in 1 .. Len(x) : Trim(x[i]) = x[i]
  BY <1>1, <1>2, NamesAre, Zenon
<1>4. o \in Seq(Ascii) /\ Names(o) = x
  BY <1>3, NamesKept
<1> HIDE DEF o
<1>5. o \in Seq(Octet)
  <2>1. Ascii \subseteq Octet
    BY DEF Ascii
  <2> QED
    BY <1>4, <2>1
<1>6. IsUtf8(o)
  BY <1>4, <1>5, AsciiIs
<1>7. ValuesIn(v, o) = Sole(IsUtf8(o) /\ Names(o) # <<>>, Names(o))
  BY SingleValuesAre
<1>8. x \in ValuesIn(v, o)
  BY <1>3, <1>4, <1>6, <1>7, Zenon DEF Sole
<1>9. v \in Shaped /\ v \notin Errors \cup {"ChannelNumber", "Data", "ConnectionId"}
  BY DEF Shaped, Single, Errors
<1>10. OctetsOf(Decoded(v, x), txid) = o
  BY <1>9, WritingIs DEF o
<1>11. Writable(Decoded(v, x))
  BY <1>9, RefusedIs
<1>12. Len(OctetsOf(Decoded(v, x), txid)) \in Nat
  <2>1. Len(o) \in Nat
    BY <1>5
  <2> QED
    BY <1>10, <2>1, Zenon
<1> QED
  BY <1>12, <1>8, <1>10, <1>11, Zenon DEF Survives, Returns

LEMMA ValueSurvives ==
  ASSUME NEW v \in Shaped, NEW buf \in Seq(Octet), NEW x \in ValuesIn(v, buf), NEW txid
  PROVE  Survives(v, x, txid)
<1>1. \/ v \in AsKept \/ v \in Errors \/ v \in Words \/ v = "UnknownAttributes" \/ v = "ResponsePort"
      \/ v = "ChannelNumber" \/ v = "PasswordAlgorithms"
  BY DEF Shaped, Single, AsKept
<1>2. CASE v \in AsKept
  BY <1>2, KeptSurvives, ShaSurvives
<1>3. CASE v \in Errors
  BY <1>3, ErrorSurvives
<1>4. CASE v \in Words
  BY <1>4, WordsSurvive
<1>5. CASE v = "UnknownAttributes"
  BY <1>5, UnknownSurvives
<1>6. CASE v = "ResponsePort"
  BY <1>6, PortSurvives
<1>7. CASE v = "ChannelNumber"
  BY <1>7, ChannelSurvives
<1>8. CASE v = "PasswordAlgorithms"
  BY <1>8, PasswordSurvives
<1> QED
  BY <1>1, <1>2, <1>3, <1>4, <1>5, <1>6, <1>7, <1>8

\* Only an address looks different under another transaction.
LEMMA SameOctets ==
  ASSUME NEW v \in Shaped, NEW x, NEW i, NEW j
  PROVE  OctetsOf(Decoded(v, x), i) = OctetsOf(Decoded(v, x), j)
<1>1. \/ v \in AsKept \/ v \in Errors \/ v \in AsWords \/ v = "ChannelNumber" \/ v = "PasswordAlgorithms"
  BY DEF Shaped, Single, AsKept, AsWords
<1>2. CASE v \in AsKept
  <2>1. \A txid : OctetsOf(Decoded(v, x), txid) = x
    BY <1>2, WritingIs
  <2> QED
    BY <2>1, Zenon
<1>3. CASE v \in Errors
  <2>1. \A txid : OctetsOf(Decoded(v, x), txid) = <<0, 0>> \o x
    BY <1>3, WritingIs
  <2> QED
    BY <2>1, Zenon
<1>4. CASE v \in AsWords
  <2>1. \A txid : OctetsOf(Decoded(v, x), txid) = AllOctets16(x)
    BY <1>4, WritingIs
  <2> QED
    BY <2>1, Zenon
<1>5. CASE v = "ChannelNumber"
  <2>1. \A txid : OctetsOf(Decoded(v, x), txid) = Octets16(x[1]) \o <<0, 0>>
    BY <1>5, WritingIs
  <2> QED
    BY <2>1, Zenon
<1>6. CASE v = "PasswordAlgorithms"
  <2>1. \A txid : OctetsOf(Decoded(v, x), txid) = Joined(x)
    BY <1>6, WritingIs
  <2> QED
    BY <2>1, Zenon
<1> QED
  BY <1>1, <1>2, <1>3, <1>4, <1>5, <1>6

\* What to_value refuses although it was read.
TooLong(a, txid) ==
  \/ Len(OctetsOf(a, txid)) > BufferLen
  \/ a.variant \in Errors /\ Len(a.val) - 2 > ReasonMaxLen

\* What was read of a datagram is read again of every datagram it is written to, and
\* there is one unless it is too long.
LEMMA ReadAgain ==
  ASSUME NEW w, w.octets \in Seq(Octet), w.txid \in TransactionIds, NEW a \in Parsed(w),
         NEW txid \in TransactionIds, NEW bits, NEW to
  PROVE  /\ \A u \in Emit(a, bits, txid, to) : Parsed(u) = {a}
         /\ Emit(a, bits, txid, to) = {} => \A id : TooLong(a, id)
<1> DEFINE v == FromWire(w.code)
           c == w.code
           buf == w.octets
<1>1. CASE v \in {"Unknown", "Icmp"} /\ a = Unrecognised(c, buf) /\ (MayBeIgnored(c) \/ IsKnown(c))
  <2>1. a.variant = "Unknown" /\ a.val = buf /\ a.code = c
    BY <1>1 DEF Unrecognised
  <2>2. CodeOfAttr(a) = c
    BY <2>1 DEF CodeOfAttr
  <2>3. Writable(a)
    BY <2>1 DEF Writable, Errors
  <2>4. \A id : OctetsOf(a, id) = buf
    BY <2>1 DEF OctetsOf, Addressed, Xored, Plain, Errors, Words
  <2> HIDE DEF c, buf, v
  <2>5. ASSUME NEW u \in Emit(a, bits, txid, to) PROVE Parsed(u) = {a}
    <3>1. u.code = c /\ u.octets = buf /\ u.txid = txid
      BY <2>2, <2>4, EmitIs
    <3>2. ParseAttributeValue(v, c, buf, txid) = {Unrecognised(c, buf)}
      <4>1. v \notin Addressed
        BY <1>1 DEF Addressed, Xored, Plain
      <4> QED
        BY <1>1, <4>1 DEF ParseAttributeValue
    <3>3. ParseAttributeValue(FromWire(u.code), u.code, u.octets, u.txid) = {a}
      BY <1>1, <3>1, <3>2, Zenon DEF v, c
    <3>4. IsKnown(u.code) \/ MayBeIgnored(u.code)
      BY <1>1, <3>1, Zenon
    <3> QED
      BY <3>3, <3>4, Zenon DEF Parsed
  <2>6. Len(buf) \in Nat /\ BufferLen \in Nat
    BY DEF buf, BufferLen
  <2>7. ASSUME Emit(a, bits, txid, to) = {} PROVE \A id : TooLong(a, id)
    <3>1. ~ (Len(buf) <= BufferLen)
      BY <2>3, <2>4, <2>7, EmitIs
    <3>2. Len(buf) > BufferLen
      BY <2>6, <3>1
    <3> QED
      BY <2>4, <3>2 DEF TooLong
  <2> QED
    BY <2>5, <2>7
<1>2. ASSUME v \in Addressed, NEW x \in AddressesIn(v, buf, w.txid), a = Decoded(v, AddressVal(x))
      PROVE  /\ \A u \in Emit(a, bits, txid, to) : Parsed(u) = {a}
             /\ Emit(a, bits, txid, to) # {}
  <2>1. x \in Addresses
    BY AddressSound
  <2> HIDE DEF v
  <2> QED
    BY <1>2, <2>1, AddressSent
<1>3. ASSUME v \in Shaped, NEW x \in ValuesIn(v, buf), a = Decoded(v, x)
      PROVE  /\ \A u \in Emit(a, bits, txid, to) : Parsed(u) = {a}
             /\ Emit(a, bits, txid, to) = {} => \A id : TooLong(a, id)
  <2> HIDE DEF v
  <2>1. Survives(v, x, txid)
    BY <1>3, ValueSurvives
  <2>2. Returns(v, x, txid) /\ Len(OctetsOf(a, txid)) \in Nat
        /\ (Writable(a) \/ (v \in Errors /\ Len(x) - 2 > ReasonMaxLen))
    BY <1>3, <2>1, Zenon DEF Survives
  <2>3. \A u \in Emit(a, bits, txid, to) : Parsed(u) = {a}
    BY <1>3, <2>2, ShapedSent
  <2>4. a.variant = v /\ a.val = x
    BY <1>3 DEF Decoded
  <2>5. \A id : OctetsOf(a, id) = OctetsOf(a, txid)
    BY <1>3, SameOctets
  <2>6. BufferLen \in Nat
    BY DEF BufferLen
  <2>7. ASSUME Emit(a, bits, txid, to) = {} PROVE \A id : TooLong(a, id)
    <3>1. ~ Writable(a) \/ ~ (Len(OctetsOf(a, txid)) <= BufferLen)
      BY <2>7, EmitIs
    <3>2. ~ Writable(a) \/ Len(OctetsOf(a, txid)) > BufferLen
      BY <2>2, <2>6, <3>1
    <3> QED
      BY <2>2, <2>4, <2>5, <3>2, Zenon DEF TooLong
  <2> QED
    BY <2>3, <2>7
<1> QED
  BY <1>1, <1>2, <1>3, ParsedIs

--------------------------------------------------------------------------------
(* Attributes that are passed on.                                            *)

\* The inductive invariant of attributes passed on: a datagram sent is parsed to what
\* was meant, and one that cannot be written is too long.
RelayInv ==
  asked = {} =>
    /\ phase # "unread"
    /\ phase = "decoded" =>
         got = Parsed(wire) /\ wire.octets \in Seq(Octet) /\ wire.txid \in TransactionIds
    /\ phase = "sent" => meant # {} /\ Parsed(wire) = meant
    /\ phase = "read" => got = meant
    /\ phase = "unwritable" => \A a \in meant : TooLong(a, wire.txid)

LEMMA RelayNext ==
  ASSUME RelayInv, [ExchangeNext]_exchangeVars
  PROVE  RelayInv'
<1>1. CASE Ask
  BY <1>1 DEF Ask, RelayInv
<1>2. ASSUME NEW a, NEW say, NEW bits, Answer(a, say, bits)
      PROVE  RelayInv'
  BY <1>2 DEF Answer, RelayInv
<1>3. CASE \E socket \in Sockets : AnswerAddress(socket)
  BY <1>2, <1>3 DEF AnswerAddress
<1>4. CASE \E n \in ErrorNumbers : AnswerError(n)
  BY <1>2, <1>4 DEF AnswerError
<1>5. CASE AnswerUnknown
  BY <1>2, <1>5 DEF AnswerUnknown
<1>6. CASE Receive
  <2>1. PICK d \in Datagrams, txid \in Txids :
          /\ wire' = [NoDatagram EXCEPT !.code = d[1], !.octets = d[2], !.txid = txid]
          /\ phase' \in {"panicked", "refused", "decoded"}
          /\ phase' = "decoded" => got' = Parsed(wire')
    BY <1>6 DEF Receive
  <2>2. d[2] \in Seq(Octet) /\ txid \in TransactionIds
    BY ExchangeAssumption
  <2>3. wire'.octets = d[2] /\ wire'.txid = txid
    <3> DEFINE o == d[2]
               c == d[1]
    <3> HIDE DEF o, c
    <3>1. PICK w : wire' = w
      OBVIOUS
    <3>2. w = [NoDatagram EXCEPT !.code = c, !.octets = o, !.txid = txid]
      BY <2>1, <3>1, Zenon DEF o, c
    <3>3. w.octets = o /\ w.txid = txid
      BY <3>2 DEF NoDatagram
    <3>4. wire'.octets = o /\ wire'.txid = txid
      BY <3>1, <3>3, Zenon
    <3> QED
      BY <3>4 DEF o
  <2> QED
    BY <2>1, <2>2, <2>3 DEF RelayInv
<1>7. ASSUME NEW txid \in Txids, Write(txid), asked' = {}
      PROVE  RelayInv'
  <2>1. phase = "decoded" /\ meant' = got /\ asked = {}
    BY <1>7 DEF Write
  <2>2. got = Parsed(wire) /\ wire.octets \in Seq(Octet) /\ wire.txid \in TransactionIds
    BY <2>1 DEF RelayInv
  <2>3. PICK a \in got :
          LET out == Emit(a, 0, txid, {}) IN
          /\ phase' = IF out = {} THEN "unwritable" ELSE "sent"
          /\ wire' \in IF out = {} THEN {wire} ELSE out
    BY <1>7 DEF Write
  <2> DEFINE out == Emit(a, 0, txid, {})
  <2>4. meant' = {a}
    BY <2>1, <2>2, <2>3, ParsedOnce
  <2>5. (\A u \in out : Parsed(u) = {a}) /\ (out = {} => \A id : TooLong(a, id))
    <3>1. txid \in TransactionIds /\ a \in Parsed(wire)
      BY <2>2, <2>3, ExchangeAssumption
    <3> QED
      BY <2>2, <3>1, ReadAgain
  <2> HIDE DEF out
  <2>6. CASE out = {}
    <3>1. phase' = "unwritable" /\ TooLong(a, wire'.txid)
      BY <2>3, <2>5, <2>6 DEF out
    <3> QED
      BY <2>4, <3>1 DEF RelayInv, TooLong
  <2>7. CASE out # {}
    <3>1. phase' = "sent" /\ wire' \in out
      BY <2>3, <2>7 DEF out
    <3>2. Parsed(wire') = {a}
      BY <2>5, <3>1
    <3> QED
      BY <2>4, <3>1, <3>2 DEF RelayInv
  <2> QED
    BY <2>6, <2>7
<1>8. CASE Read
  <2>1. /\ phase = "sent" /\ got' = Parsed(wire) /\ wire' = wire /\ meant' = meant /\ asked' = asked
        /\ phase' = IF got' = {} THEN "unread" ELSE "read"
    BY <1>8 DEF Read
  <2>2. ASSUME asked = {} PROVE phase' = "read" /\ got' = meant'
    BY <2>1, <2>2 DEF RelayInv
  <2> QED
    BY <2>1, <2>2 DEF RelayInv
<1>9. CASE UNCHANGED exchangeVars
  <2>1. asked' = asked /\ phase' = phase /\ got' = got /\ wire' = wire /\ meant' = meant
    BY <1>9 DEF exchangeVars
  <2> QED
    BY <2>1 DEF RelayInv
<1>10. asked' # {} => RelayInv'
  BY DEF RelayInv
<1> QED
  BY <1>1, <1>3, <1>4, <1>5, <1>6, <1>7, <1>8, <1>9, <1>10 DEF ExchangeNext

LEMMA RelayHolds == ExchangeSpec => []RelayInv
<1>1. ExchangeInit => RelayInv
  BY DEF ExchangeInit, RelayInv
<1>2. RelayInv /\ [ExchangeNext]_exchangeVars => RelayInv'
  BY RelayNext
<1> QED
  BY <1>1, <1>2, PTL DEF ExchangeSpec

\* What one end read, the other end reads the same when it is written anew, under any
\* transaction; only what is longer than a limit of to_value cannot be written
\* (parse_attribute_value, write_attribute_value, to_value).
THEOREM RelayKeepsValues == ExchangeSpec => []RelayedUnchanged
<1>1. RelayInv => RelayedUnchanged
  BY DEF RelayInv, RelayedUnchanged, TooLong
<1> QED
  BY <1>1, RelayHolds, PTL

================================================================================
