------------------------ MODULE TransactionCache_proofs ------------------------
(***************************************************************************)
(* Theorems about TransactionCache, for every set of transactions, every   *)
(* timeout and every size of the cache.                                    *)
(***************************************************************************)
EXTENDS TransactionCache, Queues_proofs

--------------------------------------------------------------------------------
(* The inductive invariant.                                                 *)

\* A cache has at most one entry per transaction, and no two of its live entries
\* expire together.
Sound(es) ==
  /\ es \in Seq(Entry) /\ Len(es) <= CacheCap
  /\ \A i, j \in DOMAIN es : es[i].key = es[j].key => i = j
  /\ \A i, j \in DOMAIN es : es[i].left = es[j].left /\ es[i].left > 0 => i = j

\* The cache es has d for the transaction k, for the time t at least, and every entry
\* that outlives it is of a transaction of ks.
Holds(es, k, d, t, ks) ==
  \E i \in DOMAIN es :
    /\ es[i].key = k /\ es[i].datagram = d /\ es[i].left >= t
    /\ \A j \in DOMAIN es : es[j].left > es[i].left => es[j].key \in ks

\* A transaction has one last answer; the others kept since are finitely many, and as
\* long as they do not fill the cache it has the answer.
Backed(k) ==
  /\ \A a, b \in answered[k] : a = b
  /\ \A a \in answered[k] :
       /\ IsFiniteSet(a.others) /\ k \notin a.others
       /\ Cardinality(a.others) < CacheCap
            => Holds(entries, k, a.datagram, Timeout - a.age, a.others)

CacheInv ==
  /\ TypeOK
  /\ Sound(entries)
  /\ \A k \in Keys : Backed(k)

--------------------------------------------------------------------------------
(* What the operations of the cache keep.                                   *)

\* What an entry of the cache is made of.
LEMMA EntryType ==
  ASSUME NEW es \in Seq(Entry), NEW i \in DOMAIN es
  PROVE  /\ es[i] \in Entry /\ es[i].key \in Keys /\ es[i].datagram \in Contents
         /\ es[i].left \in 0 .. Timeout
<1>1. es[i] \in Entry
  OBVIOUS
<1> DEFINE e == es[i]
<1> HIDE DEF e
<1>2. e \in Entry => e.key \in Keys /\ e.datagram \in Contents /\ e.left \in 0 .. Timeout
  BY DEF Entry
<1> QED
  BY <1>1, <1>2 DEF e

\* Time takes one from every entry that has some left, and nothing else.
LEMMA AgedEntry ==
  ASSUME NEW es \in Seq(Entry)
  PROVE  /\ Aged(es) \in Seq(Entry) /\ DOMAIN Aged(es) = DOMAIN es /\ Len(Aged(es)) = Len(es)
         /\ \A i \in DOMAIN es :
              /\ es[i] \in Entry
              /\ Aged(es)[i].key = es[i].key /\ Aged(es)[i].datagram = es[i].datagram
              /\ es[i].left > 0 => Aged(es)[i].left = es[i].left - 1
              /\ es[i].left = 0 => Aged(es)[i].left = 0
<1>1. Timeout \in Nat /\ Len(es) \in Nat
  BY CacheAssumption
<1>2. ASSUME NEW i \in DOMAIN es
      PROVE  /\ es[i] \in Entry /\ Aged(es)[i] \in Entry
             /\ Aged(es)[i].key = es[i].key /\ Aged(es)[i].datagram = es[i].datagram
             /\ es[i].left > 0 => Aged(es)[i].left = es[i].left - 1
             /\ es[i].left = 0 => Aged(es)[i].left = 0
  <2> DEFINE e == es[i]
             t == IF e.left > 0 THEN e.left - 1 ELSE 0
  <2>1. e \in Entry /\ e.left \in 0 .. Timeout
    BY EntryType
  <2>2. Aged(es)[i] = [e EXCEPT !.left = t]
    BY DEF Aged
  <2>3. t \in 0 .. Timeout
    BY <1>1, <2>1
  <2> HIDE DEF t, e
  <2>4. e \in Entry => /\ [e EXCEPT !.left = t] \in Entry /\ [e EXCEPT !.left = t].left = t
                       /\ [e EXCEPT !.left = t].key = e.key
                       /\ [e EXCEPT !.left = t].datagram = e.datagram
    BY <2>3 DEF Entry
  <2> QED
    BY <2>1, <2>2, <2>4 DEF t, e
<1>3. Aged(es) \in [1 .. Len(es) -> Entry]
  <2>1. DOMAIN es = 1 .. Len(es)
    OBVIOUS
  <2>2. Aged(es) = [i \in 1 .. Len(es) |-> Aged(es)[i]]
    BY <2>1 DEF Aged
  <2> HIDE DEF Aged
  <2> QED
    BY <1>2, <2>1, <2>2
<1> QED
  BY <1>1, <1>2, <1>3

\* Time keeps the entries of different transactions apart, and what is kept for longer
\* than it took.
LEMMA AgedKeeps ==
  ASSUME NEW es, Sound(es)
  PROVE  /\ Sound(Aged(es))
         /\ \A i \in DOMAIN Aged(es) : Aged(es)[i].left < Timeout
         /\ \A k, d, ks : \A t \in Nat \ {0} :
              Holds(es, k, d, t + 1, ks) => Holds(Aged(es), k, d, t, ks)
<1> DEFINE aged == Aged(es)
<1>1. es \in Seq(Entry) /\ Len(es) <= CacheCap
  BY DEF Sound
<1>2. /\ aged \in Seq(Entry) /\ DOMAIN aged = DOMAIN es /\ Len(aged) = Len(es)
      /\ \A i \in DOMAIN es :
           /\ es[i].left \in 0 .. Timeout
           /\ aged[i].key = es[i].key /\ aged[i].datagram = es[i].datagram
           /\ es[i].left > 0 => aged[i].left = es[i].left - 1
           /\ es[i].left = 0 => aged[i].left = 0
  BY <1>1, AgedEntry, EntryType
<1>3. Timeout \in Nat \ {0}
  BY CacheAssumption
<1> HIDE DEF aged
<1>4. \A i, j \in DOMAIN aged : aged[i].left = aged[j].left /\ aged[i].left > 0 => i = j
  BY <1>2, <1>3 DEF Sound
<1>5. \A i, j \in DOMAIN aged : aged[i].key = aged[j].key => i = j
  BY <1>2 DEF Sound
<1>6. \A i \in DOMAIN aged : aged[i].left < Timeout
  BY <1>2, <1>3
<1>7. ASSUME NEW k, NEW d, NEW ks, NEW t \in Nat \ {0}, Holds(es, k, d, t + 1, ks)
      PROVE  Holds(aged, k, d, t, ks)
  <2>1. PICK i \in DOMAIN es :
          /\ es[i].key = k /\ es[i].datagram = d /\ es[i].left >= t + 1
          /\ \A j \in DOMAIN es : es[j].left > es[i].left => es[j].key \in ks
    BY <1>7 DEF Holds
  <2>2. aged[i].left >= t /\ aged[i].left = es[i].left - 1
    BY <1>2, <2>1
  <2>3. \A j \in DOMAIN aged : aged[j].left > aged[i].left => es[j].left > es[i].left
    BY <1>2, <2>1, <2>2
  <2> QED
    BY <1>2, <2>1, <2>2, <2>3 DEF Holds
<1> QED
  BY <1>1, <1>2, <1>4, <1>5, <1>6, <1>7 DEF Sound, aged

\* Taking entries out of the cache keeps what holds of those that stay.
LEMMA PickKeeps ==
  ASSUME NEW es, Sound(es), NEW I \in SUBSET (DOMAIN es)
  PROVE  /\ Sound(Pick(es, I)) /\ Len(Pick(es, I)) = Cardinality(I)
         /\ \A j \in DOMAIN Pick(es, I) : \E i \in I : Pick(es, I)[j] = es[i]
         /\ \A i \in I : \E j \in DOMAIN Pick(es, I) : Pick(es, I)[j] = es[i]
<1> DEFINE some == Pick(es, I)
<1>1. es \in Seq(Entry) /\ Len(es) \in Nat /\ Len(es) <= CacheCap
  BY DEF Sound
<1>2. some \in Seq(Entry) /\ Len(some) = Cardinality(I) /\ Cardinality(I) \in 0 .. Len(es)
  BY <1>1, PickType
<1>3. PICK g \in [1 .. Cardinality(I) -> I] :
        /\ \A j \in 1 .. Cardinality(I) : some[j] = es[g[j]]
        /\ \A i \in I : \E j \in 1 .. Cardinality(I) : g[j] = i
        /\ \A j, k \in 1 .. Cardinality(I) : j < k => g[j] < g[k]
  BY <1>1, PickOrder
<1>4. DOMAIN some = 1 .. Cardinality(I)
  BY <1>2
<1> HIDE DEF some
<1>5. \A j \in DOMAIN some : g[j] \in DOMAIN es /\ g[j] \in Int
  BY <1>1, <1>3, <1>4
<1>6. \A j, k \in DOMAIN some : g[j] = g[k] => j = k
  <2> SUFFICES ASSUME NEW j \in DOMAIN some, NEW k \in DOMAIN some, g[j] = g[k], j # k
               PROVE  FALSE
    OBVIOUS
  <2>1. j < k \/ k < j
    BY <1>2, <1>4
  <2>2. g[j] < g[k] \/ g[k] < g[j]
    BY <1>3, <1>4, <2>1
  <2> QED
    BY <1>5, <2>2
<1>7. CacheCap \in Nat /\ Len(some) <= CacheCap
  BY <1>1, <1>2, CacheAssumption
<1>8. \A j, k \in DOMAIN some : some[j].key = some[k].key => j = k
  BY <1>3, <1>4, <1>5, <1>6 DEF Sound
<1>9. \A j, k \in DOMAIN some : some[j].left = some[k].left /\ some[j].left > 0 => j = k
  BY <1>3, <1>4, <1>5, <1>6 DEF Sound
<1>10. Sound(some)
  BY <1>2, <1>7, <1>8, <1>9 DEF Sound
<1> QED
  BY <1>2, <1>3, <1>4, <1>10 DEF some

\* Reaping takes out the entries whose time is over and no other (reap_expired).
LEMMA ReapedKeeps ==
  ASSUME NEW es, Sound(es)
  PROVE  /\ Sound(Reaped(es)) /\ Len(Reaped(es)) <= Len(es)
         /\ \A j \in DOMAIN Reaped(es) :
              Reaped(es)[j].left > 0 /\ \E i \in DOMAIN es : Reaped(es)[j] = es[i]
         /\ \A k, d, ks : \A t \in Nat \ {0} : Holds(es, k, d, t, ks) => Holds(Reaped(es), k, d, t, ks)
<1> DEFINE I == {i \in DOMAIN es : es[i].left > 0}
           live == Reaped(es)
<1>1. /\ Sound(live) /\ Len(live) = Cardinality(I)
      /\ \A j \in DOMAIN live : \E i \in I : live[j] = es[i]
      /\ \A i \in I : \E j \in DOMAIN live : live[j] = es[i]
  <2>1. I \in SUBSET (DOMAIN es)
    OBVIOUS
  <2>2. live = Pick(es, I)
    BY DEF Reaped
  <2> HIDE DEF I, live
  <2> QED
    BY <2>1, <2>2, PickKeeps
<1>2. es \in Seq(Entry)
  BY DEF Sound
<1>3. Len(live) <= Len(es)
  <2>1. I \in SUBSET (DOMAIN es)
    OBVIOUS
  <2>2. Cardinality(I) \in 0 .. Len(es)
    BY <1>2, <2>1, PickType
  <2> QED
    BY <1>1, <2>2
<1> HIDE DEF live
<1>4. ASSUME NEW k, NEW d, NEW ks, NEW t \in Nat \ {0}, Holds(es, k, d, t, ks)
      PROVE  Holds(live, k, d, t, ks)
  <2>1. PICK i \in DOMAIN es :
          /\ es[i].key = k /\ es[i].datagram = d /\ es[i].left >= t
          /\ \A j \in DOMAIN es : es[j].left > es[i].left => es[j].key \in ks
    BY <1>4 DEF Holds
  <2>2. es[i].left \in 0 .. Timeout
    BY <1>2, EntryType
  <2>3. i \in I
    BY <2>1, <2>2
  <2>4. PICK j \in DOMAIN live : live[j] = es[i]
    BY <1>1, <2>3
  <2> QED
    BY <1>1, <2>1, <2>4 DEF Holds
<1> QED
  BY <1>1, <1>3, <1>4 DEF live

\* A cache that is not empty has an entry that is evicted: none expires earlier.
LEMMA OldestIsFound ==
  ASSUME NEW es \in Seq(Entry), es # <<>>
  PROVE  /\ Oldest(es) \in DOMAIN es
         /\ \A j \in DOMAIN es : es[Oldest(es)].left <= es[j].left
<1> DEFINE First(i) == \A j \in DOMAIN es :
                         es[i].left < es[j].left \/ (es[i].left = es[j].left /\ i <= j)
           Lefts == {n \in Nat : \E i \in DOMAIN es : es[i].left = n}
<1>1. DOMAIN es = 1 .. Len(es) /\ Len(es) \in Nat \ {0}
  OBVIOUS
<1>2. \A i \in DOMAIN es : es[i].left \in Nat /\ i \in Nat
  BY EntryType, <1>1, CacheAssumption
<1>3. PICK n \in Lefts : \A m \in Lefts : n <= m
  <2>1. es[1].left \in Lefts
    BY <1>1, <1>2
  <2>2. Lefts \in SUBSET Nat
    OBVIOUS
  <2> HIDE DEF Lefts
  <2> QED
    BY <2>1, <2>2, Smallest
<1>4. \A j \in DOMAIN es : es[j].left \in Lefts
  BY <1>2
<1> DEFINE Firsts == {i \in DOMAIN es : es[i].left = n}
<1>5. PICK i \in Firsts : \A j \in Firsts : i <= j
  <2>1. Firsts # {}
    OBVIOUS
  <2>2. Firsts \in SUBSET Nat
    BY <1>2
  <2> HIDE DEF Firsts
  <2> QED
    BY <2>1, <2>2, Smallest
<1>6. First(i)
  <2> SUFFICES ASSUME NEW j \in DOMAIN es
               PROVE  es[i].left < es[j].left \/ (es[i].left = es[j].left /\ i <= j)
    OBVIOUS
  <2>1. es[i].left = n /\ n <= es[j].left /\ n \in Nat /\ es[j].left \in Nat
    BY <1>2, <1>3, <1>4
  <2>2. CASE es[j].left = n
    BY <1>5, <2>1, <2>2
  <2> QED
    BY <2>1, <2>2
<1>7. Oldest(es) = CHOOSE k \in DOMAIN es : First(k)
  BY DEF Oldest
<1> HIDE DEF First
<1>8. Oldest(es) \in DOMAIN es /\ First(Oldest(es))
  BY <1>6, <1>7
<1> QED
  BY <1>2, <1>8 DEF First

\* What the new entry of q takes the place of, when live is what time has left.
Room(live, q) ==
  IF Full(live) THEN Pick(live, DOMAIN live \ {Oldest(live)}) ELSE live

\* An entry that is evicted to make room has been outlived by as many other
\* transactions as the cache has places (reap_oldest).
LEMMA RoomKeeps ==
  ASSUME NEW live, Sound(live), NEW q, Places(live, q) = {},
         \A i \in DOMAIN live : live[i].left > 0
  PROVE  /\ Sound(Room(live, q)) /\ Len(Room(live, q)) < CacheCap
         /\ \A j \in DOMAIN Room(live, q) : \E i \in DOMAIN live : Room(live, q)[j] = live[i]
         /\ \A k, d, t, ks :
              /\ Holds(live, k, d, t, ks)
              /\ IsFiniteSet(ks) /\ Cardinality(ks \cup {q}) < CacheCap
              => Holds(Room(live, q), k, d, t, ks)
<1>1. live \in Seq(Entry) /\ Len(live) <= CacheCap /\ DOMAIN live = 1 .. Len(live)
  BY DEF Sound
<1>2. Len(live) \in Nat /\ CacheCap \in Nat \ {0}
  BY <1>1, CacheAssumption
<1>3. CASE ~ Full(live)
  <2>1. Room(live, q) = live /\ Len(live) < CacheCap
    BY <1>1, <1>2, <1>3 DEF Room, Full
  <2> QED
    BY <2>1
<1>4. CASE Full(live)
  <2> DEFINE o == Oldest(live)
             I == DOMAIN live \ {o}
             room == Room(live, q)
  <2>1. Len(live) = CacheCap /\ live # <<>>
    <3>1. Len(live) = CacheCap
      <4>1. Len(live) >= CacheCap
        BY <1>4 DEF Full
      <4>2. Len(live) <= CacheCap /\ Len(live) \in Nat /\ CacheCap \in Nat
        BY <1>1, <1>2
      <4> QED
        BY <4>1, <4>2
    <3>2. Len(<<>>) = 0
      OBVIOUS
    <3> QED
      BY <1>2, <3>1, <3>2
  <2>2. o \in DOMAIN live /\ \A j \in DOMAIN live : live[o].left <= live[j].left
    BY <1>1, <2>1, OldestIsFound
  <2>3. I \in SUBSET (DOMAIN live) /\ room = Pick(live, I)
    BY <1>4 DEF Room
  <2> HIDE DEF o, room
  <2>4. /\ Sound(room) /\ Len(room) = Cardinality(I)
        /\ \A j \in DOMAIN room : \E i \in I : room[j] = live[i]
        /\ \A i \in I : \E j \in DOMAIN room : room[j] = live[i]
    <3> HIDE DEF I
    <3> QED
      BY <2>3, PickKeeps
  <2>5. IsFiniteSet(I) /\ Cardinality(I) = CacheCap - 1
    <3>1. IsFiniteSet(DOMAIN live) /\ Cardinality(DOMAIN live) = CacheCap
      BY <1>1, <1>2, <2>1, FS_Interval
    <3> QED
      BY <2>2, <3>1, FS_RemoveElement
  <2>6. ASSUME NEW k, NEW d, NEW t, NEW ks, Holds(live, k, d, t, ks), IsFiniteSet(ks),
               Cardinality(ks \cup {q}) < CacheCap
        PROVE  Holds(room, k, d, t, ks)
    <3>1. PICK i \in DOMAIN live :
            /\ live[i].key = k /\ live[i].datagram = d /\ live[i].left >= t
            /\ \A j \in DOMAIN live : live[j].left > live[i].left => live[j].key \in ks
      BY <2>6 DEF Holds
    <3>2. i # o
      <4> SUFFICES ASSUME i = o PROVE FALSE
        OBVIOUS
      <4> DEFINE keyAt == [j \in I |-> live[j].key]
      <4>1. \A j \in I : live[j].left > live[o].left
        <5> SUFFICES ASSUME NEW j \in I PROVE live[j].left > live[o].left
          OBVIOUS
        <5>1. j \in DOMAIN live /\ j # o /\ live[o].left > 0
          BY <2>2
        <5>2. live[j].left # live[o].left
          BY <2>2, <5>1 DEF Sound
        <5>3. live[j].left \in Nat /\ live[o].left \in Nat
          BY <1>1, <1>2, <2>2, <5>1, EntryType, CacheAssumption
        <5> QED
          BY <2>2, <5>1, <5>2, <5>3
      <4>2. keyAt \in Injection(I, ks)
        BY <3>1, <4>1 DEF Injection, IsInjective, Sound
      <4>3. Cardinality(I) <= Cardinality(ks)
        <5> HIDE DEF keyAt
        <5> QED
          BY <2>6, <4>2, FS_Injection
      <4>4. CASE q \in ks
        <5>1. \A j \in I : live[j].key # q
          BY DEF Places
        <5>2. IsFiniteSet(ks \ {q}) /\ Cardinality(ks \ {q}) = Cardinality(ks) - 1
          BY <2>6, <4>4, FS_RemoveElement
        <5>3. keyAt \in Injection(I, ks \ {q})
          BY <3>1, <4>1, <5>1 DEF Injection, IsInjective, Sound
        <5>4. Cardinality(I) <= Cardinality(ks \ {q})
          <6> HIDE DEF keyAt
          <6> QED
            BY <5>2, <5>3, FS_Injection
        <5>5. Cardinality(ks \cup {q}) = Cardinality(ks) /\ Cardinality(ks) \in Nat
          <6>1. ks \cup {q} = ks
            BY <4>4
          <6> QED
            BY <2>6, <6>1, FS_CardinalityType
        <5> HIDE DEF keyAt, I
        <5> QED
          BY <1>2, <2>5, <2>6, <5>2, <5>4, <5>5
      <4>5. CASE q \notin ks
        <5>1. Cardinality(ks \cup {q}) = Cardinality(ks) + 1 /\ Cardinality(ks) \in Nat
          BY <2>6, <4>5, FS_AddElement, FS_CardinalityType
        <5> QED
          BY <1>2, <2>5, <2>6, <4>3, <5>1
      <4> QED
        BY <4>4, <4>5
    <3>3. PICK j \in DOMAIN room : room[j] = live[i]
      BY <2>4, <3>1, <3>2
    <3> QED
      BY <2>4, <3>1, <3>3 DEF Holds
  <2>7. Len(room) < CacheCap
    BY <1>2, <2>4, <2>5
  <2> QED
    BY <2>4, <2>6, <2>7 DEF room
<1> QED
  BY <1>3, <1>4

\* What is filed for a transaction is then kept for the whole timeout, in the place of
\* what was kept for it before, and takes at most one place from the others (insert).
LEMMA InsertedKeeps ==
  ASSUME NEW es, Sound(es), NEW q \in Keys, NEW d \in Contents
  PROVE  /\ Sound(Inserted(es, q, d))
         /\ \A ks : Holds(Inserted(es, q, d), q, d, Timeout, ks)
         /\ \A k \in Keys \ {q} : \A c, ks : \A t \in Nat \ {0} :
              /\ Holds(es, k, c, t + 1, ks)
              /\ IsFiniteSet(ks) /\ Cardinality(ks \cup {q}) < CacheCap
              => Holds(Inserted(es, q, d), k, c, t, ks \cup {q})
<1> DEFINE live  == Reaped(Aged(es))
           entry == [key |-> q, datagram |-> d, left |-> Timeout]
           new   == Inserted(es, q, d)
<1>1. CacheCap \in Nat \ {0} /\ Timeout \in Nat \ {0}
  BY CacheAssumption
<1>2. /\ Sound(Aged(es))
      /\ \A i \in DOMAIN Aged(es) : Aged(es)[i].left < Timeout
      /\ \A k, c, ks : \A t \in Nat \ {0} :
           Holds(es, k, c, t + 1, ks) => Holds(Aged(es), k, c, t, ks)
  BY AgedKeeps
<1>3. /\ Sound(live)
      /\ \A j \in DOMAIN live :
           live[j].left > 0 /\ \E i \in DOMAIN Aged(es) : live[j] = Aged(es)[i]
      /\ \A k, c, ks : \A t \in Nat \ {0} :
           Holds(Aged(es), k, c, t, ks) => Holds(live, k, c, t, ks)
  BY <1>2, ReapedKeeps
<1>4. /\ \A j \in DOMAIN live : live[j].left > 0 /\ live[j].left < Timeout
      /\ \A k, c, ks : \A t \in Nat \ {0} :
           Holds(es, k, c, t + 1, ks) => Holds(live, k, c, t, ks)
  BY <1>2, <1>3
<1>5. entry \in Entry /\ entry.key = q /\ entry.datagram = d /\ entry.left = Timeout
  BY <1>1 DEF Entry
<1>6. new = IF Places(live, q) # {}
            THEN [i \in DOMAIN live |-> IF i \in Places(live, q) THEN entry ELSE live[i]]
            ELSE Append(Room(live, q), entry)
  BY DEF Inserted, Room
<1> HIDE DEF live, entry, new
<1>7. live \in Seq(Entry) /\ Len(live) <= CacheCap
  BY <1>3 DEF Sound
<1>8. CASE Places(live, q) # {}
  <2>1. PICK p \in DOMAIN live : live[p].key = q
    BY <1>8 DEF Places
  <2>2. \A i \in DOMAIN live : live[i].key = q <=> i = p
    BY <1>3, <2>1 DEF Sound
  <2>3. Places(live, q) = {p}
    BY <2>1, <2>2 DEF Places
  <2>4. new = [i \in 1 .. Len(live) |-> IF i = p THEN entry ELSE live[i]]
    BY <1>6, <1>7, <1>8, <2>3
  <2>5. new \in Seq(Entry) /\ Len(new) = Len(live) /\ DOMAIN new = DOMAIN live
    <3>1. new \in [1 .. Len(live) -> Entry] /\ Len(live) \in Nat
      BY <1>5, <1>7, <2>4
    <3> QED
      BY <1>7, <3>1
  <2>6. \A i \in DOMAIN live : new[i] = IF i = p THEN entry ELSE live[i]
    BY <1>7, <2>4
  <2>7. \A i \in DOMAIN new : \/ i = p /\ new[i].key = q /\ new[i].datagram = d /\ new[i].left = Timeout
                              \/ i # p /\ new[i] = live[i] /\ new[i].key # q
    BY <1>5, <2>2, <2>5, <2>6
  <2>8. Sound(new)
    <3>1. \A i, j \in DOMAIN new : new[i].key = new[j].key => i = j
      BY <1>3, <2>5, <2>7 DEF Sound
    <3>2. \A i, j \in DOMAIN new : new[i].left = new[j].left /\ new[i].left > 0 => i = j
      BY <1>1, <1>3, <1>4, <2>5, <2>7 DEF Sound
    <3> QED
      BY <1>7, <2>5, <3>1, <3>2 DEF Sound
  <2>9. \A i \in DOMAIN new : new[i].left \in 0 .. Timeout
    BY <2>5, EntryType
  <2>10. \A ks : Holds(new, q, d, Timeout, ks)
    BY <1>1, <2>1, <2>5, <2>7, <2>9 DEF Holds
  <2>11. ASSUME NEW k \in Keys \ {q}, NEW c, NEW ks, NEW t, Holds(live, k, c, t, ks)
         PROVE  Holds(new, k, c, t, ks \cup {q})
    <3>1. PICK i \in DOMAIN live :
            /\ live[i].key = k /\ live[i].datagram = c /\ live[i].left >= t
            /\ \A j \in DOMAIN live : live[j].left > live[i].left => live[j].key \in ks
      BY <2>11 DEF Holds
    <3>2. i # p /\ new[i] = live[i]
      BY <2>1, <2>6, <3>1
    <3>3. \A j \in DOMAIN new : new[j].left > new[i].left => new[j].key \in ks \cup {q}
      BY <2>5, <2>7, <3>1, <3>2
    <3> QED
      BY <2>5, <3>1, <3>2, <3>3 DEF Holds
  <2> QED
    BY <1>4, <2>8, <2>10, <2>11 DEF new
<1>9. CASE Places(live, q) = {}
  <2> DEFINE room == Room(live, q)
  <2>1. /\ Sound(room) /\ Len(room) < CacheCap
        /\ \A j \in DOMAIN room : \E i \in DOMAIN live : room[j] = live[i]
        /\ \A k, c, t, ks :
             /\ Holds(live, k, c, t, ks)
             /\ IsFiniteSet(ks) /\ Cardinality(ks \cup {q}) < CacheCap
             => Holds(room, k, c, t, ks)
    BY <1>3, <1>9, RoomKeeps
  <2>2. new = Append(room, entry)
    BY <1>6, <1>9
  <2> HIDE DEF room
  <2>3. room \in Seq(Entry) /\ Len(room) \in Nat /\ DOMAIN room = 1 .. Len(room)
    BY <2>1 DEF Sound
  <2>4. /\ new \in Seq(Entry) /\ Len(new) = Len(room) + 1 /\ DOMAIN new = 1 .. Len(new)
        /\ \A i \in DOMAIN room : i \in DOMAIN new /\ new[i] = room[i]
        /\ new[Len(room) + 1] = entry
    BY <1>5, <2>2, <2>3
  <2>5. \A i \in DOMAIN new : \/ i = Len(new) /\ new[i].key = q /\ new[i].datagram = d
                                  /\ new[i].left = Timeout
                              \/ i \in DOMAIN room /\ new[i] = room[i] /\ new[i].key # q
                                  /\ new[i].left < Timeout
    <3>1. \A j \in DOMAIN room : room[j].key # q /\ room[j].left < Timeout
      BY <1>4, <1>9, <2>1 DEF Places
    <3>2. \A i \in DOMAIN new : i = Len(new) \/ i \in DOMAIN room
      BY <2>3, <2>4
    <3> QED
      BY <1>5, <2>4, <3>1, <3>2
  <2>6. Sound(new)
    <3>1. \A i, j \in DOMAIN new : new[i].key = new[j].key => i = j
      BY <2>1, <2>5 DEF Sound
    <3>2. \A i, j \in DOMAIN new : new[i].left = new[j].left /\ new[i].left > 0 => i = j
      BY <1>1, <2>1, <2>5 DEF Sound
    <3>3. Len(new) <= CacheCap
      BY <1>1, <2>1, <2>3, <2>4
    <3> QED
      BY <2>4, <3>1, <3>2, <3>3 DEF Sound
  <2>7. \A i \in DOMAIN new : new[i].left \in 0 .. Timeout
    BY <2>4, EntryType
  <2>8. \A ks : Holds(new, q, d, Timeout, ks)
    <3>1. Len(new) \in DOMAIN new
      BY <2>3, <2>4
    <3>2. new[Len(new)] = entry
      BY <2>3, <2>4
    <3> QED
      BY <1>1, <1>5, <2>7, <3>1, <3>2 DEF Holds
  <2>9. ASSUME NEW k, NEW c, NEW ks, NEW t, Holds(room, k, c, t, ks)
        PROVE  Holds(new, k, c, t, ks \cup {q})
    <3>1. PICK i \in DOMAIN room :
            /\ room[i].key = k /\ room[i].datagram = c /\ room[i].left >= t
            /\ \A j \in DOMAIN room : room[j].left > room[i].left => room[j].key \in ks
      BY <2>9 DEF Holds
    <3>2. i \in DOMAIN new /\ new[i] = room[i]
      BY <2>4, <3>1
    <3>3. \A j \in DOMAIN new : new[j].left > new[i].left => new[j].key \in ks \cup {q}
      BY <2>5, <3>1, <3>2
    <3> QED
      BY <3>1, <3>2, <3>3 DEF Holds
  <2> QED
    BY <1>4, <2>1, <2>6, <2>8, <2>9 DEF new
<1> QED
  BY <1>8, <1>9

--------------------------------------------------------------------------------
(* What the requests keep.                                                  *)

Answer == [datagram : Contents, age : 0 .. Timeout - 1, others : SUBSET Keys]

\* What es has for the transaction k is what it was answered with.
HeldIn(es, k) ==
  \A a \in answered[k] :
    Cardinality(a.others) < CacheCap => Holds(es, k, a.datagram, Timeout - a.age, a.others)

\* An answer that ages stays what it was, and the transactions kept meanwhile are added
\* to the others.
LEMMA LaterKeeps ==
  ASSUME CacheInv, NEW k \in Keys, NEW ks \in SUBSET Keys
  PROVE  /\ Later(k, ks) \subseteq Answer
         /\ \A b, c \in Later(k, ks) : b = c
         /\ \A b \in Later(k, ks) : \E a \in answered[k] :
              /\ b.datagram = a.datagram /\ b.age = a.age + 1 /\ b.age < Timeout
              /\ b.others = a.others \cup (ks \ {k})
<1> DEFINE add == ks \ {k}
           Aging(a) == [a EXCEPT !.age = @ + 1, !.others = @ \cup add]
<1>1. answered[k] \subseteq Answer /\ \A a, b \in answered[k] : a = b
  BY DEF CacheInv, TypeOK, Backed, Answer
<1>2. Later(k, ks) = {Aging(a) : a \in {b \in answered[k] : b.age + 1 < Timeout}}
  BY DEF Later
<1>3. add \in SUBSET Keys /\ Timeout \in Nat \ {0}
  BY CacheAssumption
<1> HIDE DEF add
<1>4. ASSUME NEW a \in Answer, a.age + 1 < Timeout
      PROVE  /\ Aging(a) \in Answer /\ Aging(a).datagram = a.datagram
             /\ Aging(a).age = a.age + 1 /\ Aging(a).others = a.others \cup add
  <2> DEFINE n == a.age + 1
             o == a.others \cup add
  <2>1. /\ a \in [datagram : Contents, age : 0 .. Timeout - 1, others : SUBSET Keys]
        /\ n \in 0 .. Timeout - 1 /\ o \in SUBSET Keys
    BY <1>3, <1>4 DEF Answer
  <2>2. Aging(a) = [a EXCEPT !.age = n, !.others = o]
    OBVIOUS
  <2> HIDE DEF n, o, Aging
  <2>3. Aging(a) \in Answer /\ Aging(a).datagram = a.datagram
        /\ Aging(a).age = n /\ Aging(a).others = o
    BY <2>1, <2>2 DEF Answer
  <2> QED
    BY <2>3 DEF n, o
<1> HIDE DEF Aging
<1>5. ASSUME NEW b \in Later(k, ks)
      PROVE  b \in Answer /\ \E a \in answered[k] :
              /\ b = Aging(a)
              /\ b.datagram = a.datagram /\ b.age = a.age + 1 /\ b.age < Timeout
              /\ b.others = a.others \cup (ks \ {k})
  <2>1. PICK a \in answered[k] : a.age + 1 < Timeout /\ b = Aging(a)
    BY <1>2
  <2> QED
    BY <1>1, <1>4, <2>1 DEF add
<1> QED
  BY <1>1, <1>5

\* Reaping takes nothing from what is held.
LEMMA ReapedHolds ==
  ASSUME CacheInv
  PROVE  /\ Sound(entries) /\ Sound(Reaped(entries))
         /\ \A k \in Keys : HeldIn(entries, k) /\ HeldIn(Reaped(entries), k)
<1>1. Sound(entries) /\ \A k \in Keys : HeldIn(entries, k)
  BY DEF CacheInv, Backed, HeldIn
<1>2. ASSUME NEW k \in Keys, NEW a \in answered[k]
      PROVE  Timeout - a.age \in Nat \ {0}
  <2>1. a \in Answer
    BY <1>2 DEF CacheInv, TypeOK, Answer
  <2>2. a.age \in 0 .. Timeout - 1
    BY <2>1 DEF Answer
  <2> QED
    BY <2>2, CacheAssumption
<1> QED
  BY <1>1, <1>2, ReapedKeeps DEF HeldIn

\* A transaction that is held is found, and answered with what is held for it.
LEMMA HeldIsFound ==
  ASSUME NEW es, Sound(es), NEW k, NEW d, NEW ks, NEW t \in Nat \ {0}, Holds(es, k, d, t, ks)
  PROVE  \E i \in DOMAIN es : Places(es, k) = {i} /\ es[i].datagram = d /\ es[i].left >= t
<1>1. PICK i \in DOMAIN es : es[i].key = k /\ es[i].datagram = d /\ es[i].left >= t
  BY DEF Holds
<1>2. Places(es, k) = {i}
  BY <1>1 DEF Places, Sound
<1> QED
  BY <1>1, <1>2

\* Within the timeout a transaction is answered with what it was answered before, until
\* the others fill the cache; what else it is answered with is the request's own.
LEMMA ReplyIsKept ==
  ASSUME CacheInv, NEW k \in Keys, NEW d \in Contents
  PROVE  /\ ReplyTo(k, d) \in Contents
         /\ \A a \in answered[k] :
              Cardinality(a.others) < CacheCap => ReplyTo(k, d) = a.datagram
<1> DEFINE live == Reaped(entries)
<1>1. Sound(live) /\ HeldIn(live, k)
  BY ReapedHolds
<1>2. ReplyTo(k, d) = IF Places(live, k) # {}
                      THEN live[CHOOSE i \in Places(live, k) : TRUE].datagram ELSE d
  BY DEF ReplyTo
<1> HIDE DEF live
<1>3. ReplyTo(k, d) \in Contents
  <2>1. CASE Places(live, k) # {}
    <3>1. (CHOOSE i \in Places(live, k) : TRUE) \in DOMAIN live
      BY <2>1 DEF Places
    <3>2. live \in Seq(Entry)
      BY <1>1 DEF Sound
    <3> QED
      BY <1>2, <2>1, <3>1, <3>2, EntryType
  <2> QED
    BY <1>2, <2>1
<1>4. ASSUME NEW a \in answered[k], Cardinality(a.others) < CacheCap
      PROVE  ReplyTo(k, d) = a.datagram
  <2>1. Timeout - a.age \in Nat \ {0}
    <3>1. a \in Answer
      BY <1>4 DEF CacheInv, TypeOK, Answer
    <3>2. a.age \in 0 .. Timeout - 1
      BY <3>1 DEF Answer
    <3> QED
      BY <3>2, CacheAssumption
  <2>2. Holds(live, k, a.datagram, Timeout - a.age, a.others)
    BY <1>1, <1>4 DEF HeldIn
  <2>3. PICK i \in DOMAIN live : Places(live, k) = {i} /\ live[i].datagram = a.datagram
    BY <1>1, <2>1, <2>2, HeldIsFound
  <2>4. (CHOOSE j \in Places(live, k) : TRUE) = i
    BY <2>3
  <2> QED
    BY <1>2, <2>3, <2>4
<1> QED
  BY <1>3, <1>4

\* What a transaction that is not the one filed was promised, it keeps.
LEMMA OthersKeep ==
  ASSUME CacheInv, NEW q \in Keys, NEW k \in Keys \ {q}, NEW d \in Contents, NEW es,
         Sound(es), HeldIn(es, k),
         entries' = Inserted(es, q, d), answered'[k] = Later(k, {q})
  PROVE  Backed(k)'
<1>1. Backed(k) /\ answered[k] \subseteq Answer
  BY DEF CacheInv, TypeOK, Answer
<1>2. /\ \A b, c \in answered'[k] : b = c
      /\ \A b \in answered'[k] : \E a \in answered[k] :
           /\ b.datagram = a.datagram /\ b.age = a.age + 1 /\ b.age < Timeout
           /\ b.others = a.others \cup ({q} \ {k})
  <2> DEFINE later == Later(k, {q})
  <2>1. {q} \in SUBSET Keys
    OBVIOUS
  <2>2. /\ \A b, c \in later : b = c
        /\ \A b \in later : \E a \in answered[k] :
             /\ b.datagram = a.datagram /\ b.age = a.age + 1 /\ b.age < Timeout
             /\ b.others = a.others \cup ({q} \ {k})
    BY <2>1, LaterKeeps
  <2>3. answered'[k] = later
    OBVIOUS
  <2> HIDE DEF later
  <2> QED
    BY <2>2, <2>3
<1>3. ASSUME NEW b \in answered'[k]
      PROVE  /\ IsFiniteSet(b.others) /\ k \notin b.others
             /\ Cardinality(b.others) < CacheCap
                  => Holds(entries', k, b.datagram, Timeout - b.age, b.others)
  <2>1. PICK a \in answered[k] :
          /\ b.datagram = a.datagram /\ b.age = a.age + 1 /\ b.age < Timeout
          /\ b.others = a.others \cup ({q} \ {k})
    BY <1>2
  <2>2. b.others = a.others \cup {q}
    BY <2>1
  <2>3. IsFiniteSet(a.others) /\ k \notin a.others
    BY <1>1 DEF Backed
  <2>4. IsFiniteSet(b.others) /\ k \notin b.others
    BY <2>2, <2>3, FS_AddElement
  <2>5. a.age \in 0 .. Timeout - 1 /\ Timeout \in Nat \ {0} /\ CacheCap \in Nat
    <3>1. a \in Answer
      BY <1>1
    <3> QED
      BY <3>1, CacheAssumption DEF Answer
  <2> DEFINE t == Timeout - b.age
  <2>6. t \in Nat \ {0} /\ Timeout - a.age = t + 1
    BY <2>1, <2>5
  <2>7. ASSUME Cardinality(b.others) < CacheCap
        PROVE  Holds(entries', k, b.datagram, t, b.others)
    <3>1. Cardinality(a.others) < CacheCap
      <4>1. Cardinality(a.others) <= Cardinality(b.others)
        BY <2>2, <2>4, FS_Subset
      <4>2. Cardinality(a.others) \in Nat /\ Cardinality(b.others) \in Nat
        BY <2>3, <2>4, FS_CardinalityType
      <4> QED
        BY <2>5, <2>7, <4>1, <4>2
    <3>2. Holds(es, k, a.datagram, t + 1, a.others)
      BY <2>6, <3>1 DEF HeldIn
    <3> HIDE DEF t
    <3> QED
      BY <2>1, <2>2, <2>3, <2>6, <2>7, <3>2, InsertedKeeps
  <2> QED
    BY <2>4, <2>7
<1> QED
  BY <1>2, <1>3 DEF Backed

\* A transaction that is filed again with what it was answered before is held for the
\* whole timeout from there on; one that is answered anew is held for it too.
LEMMA FiledKeeps ==
  ASSUME CacheInv, NEW q \in Keys, NEW d \in Contents, NEW es, Sound(es),
         \A k \in Keys : HeldIn(es, k),
         entries' = Inserted(es, q, d),
         \A k \in Keys \ {q} : answered'[k] = Later(k, {q}),
         \/ answered'[q] = {}
         \/ answered'[q] = {[datagram |-> d, age |-> 0, others |-> {}]}
         \/ /\ answered'[q] = Later(q, {q})
            /\ \A a \in answered[q] : Cardinality(a.others) < CacheCap => d = a.datagram
  PROVE  CacheInv'
<1>1. Sound(entries') /\ \A ks : Holds(entries', q, d, Timeout, ks)
  BY InsertedKeeps
<1>2. Timeout \in Nat \ {0} /\ CacheCap \in Nat \ {0}
  BY CacheAssumption
<1>3. Backed(q)' /\ answered'[q] \subseteq Answer
  <2>1. CASE answered'[q] = {}
    BY <2>1 DEF Backed
  <2>2. CASE answered'[q] = {[datagram |-> d, age |-> 0, others |-> {}]}
    <3>1. \A b \in answered'[q] : b.datagram = d /\ b.age = 0 /\ b.others = {}
      BY <2>2
    <3>2. Timeout - 0 = Timeout /\ 0 \in 0 .. Timeout - 1
      BY <1>2
    <3>3. answered'[q] \subseteq Answer
      BY <2>2, <3>2 DEF Answer
    <3>4. \A b \in answered'[q] : Holds(entries', q, b.datagram, Timeout - b.age, b.others)
      BY <1>1, <3>1, <3>2
    <3>5. \A b \in answered'[q] : IsFiniteSet(b.others) /\ q \notin b.others
      BY <3>1, FS_EmptySet
    <3>6. \A b, c \in answered'[q] : b = c
      BY <2>2
    <3> QED
      BY <3>3, <3>4, <3>5, <3>6 DEF Backed
  <2>3. CASE /\ answered'[q] = Later(q, {q})
             /\ \A a \in answered[q] : Cardinality(a.others) < CacheCap => d = a.datagram
    <3>1. /\ answered'[q] \subseteq Answer
          /\ \A b, c \in answered'[q] : b = c
          /\ \A b \in answered'[q] : \E a \in answered[q] :
               /\ b.datagram = a.datagram /\ b.age = a.age + 1 /\ b.age < Timeout
               /\ b.others = a.others \cup ({q} \ {q})
      <4> DEFINE later == Later(q, {q})
      <4>1. {q} \in SUBSET Keys
        OBVIOUS
      <4>2. /\ later \subseteq Answer
            /\ \A b, c \in later : b = c
            /\ \A b \in later : \E a \in answered[q] :
                 /\ b.datagram = a.datagram /\ b.age = a.age + 1 /\ b.age < Timeout
                 /\ b.others = a.others \cup ({q} \ {q})
        BY <4>1, LaterKeeps
      <4>3. answered'[q] = later
        BY <2>3
      <4> HIDE DEF later
      <4> QED
        BY <4>2, <4>3
    <3>2. ASSUME NEW b \in answered'[q]
          PROVE  /\ IsFiniteSet(b.others) /\ q \notin b.others
                 /\ Cardinality(b.others) < CacheCap
                      => Holds(entries', q, b.datagram, Timeout - b.age, b.others)
      <4>1. PICK a \in answered[q] : b.datagram = a.datagram /\ b.others = a.others
        <5>1. PICK a \in answered[q] :
                b.datagram = a.datagram /\ b.others = a.others \cup ({q} \ {q})
          BY <3>1
        <5>2. b.others = a.others
          BY <5>1
        <5> QED
          BY <5>1, <5>2
      <4>2. IsFiniteSet(b.others) /\ q \notin b.others
        BY <4>1 DEF CacheInv, Backed
      <4>3. b \in Answer
        BY <3>1
      <4>4. b.age \in 0 .. Timeout - 1
        BY <4>3 DEF Answer
      <4>5. ASSUME Cardinality(b.others) < CacheCap
            PROVE  Holds(entries', q, b.datagram, Timeout - b.age, b.others)
        <5>1. b.datagram = d
          BY <2>3, <4>1, <4>5
        <5>2. Holds(entries', q, b.datagram, Timeout, b.others)
          BY <1>1, <5>1
        <5>3. entries' \in Seq(Entry)
          BY <1>1 DEF Sound
        <5>4. \A i \in DOMAIN entries' :
                entries'[i].left >= Timeout => entries'[i].left >= Timeout - b.age
          BY <1>2, <4>4, <5>3, EntryType
        <5> QED
          BY <5>2, <5>4 DEF Holds
      <4> QED
        BY <4>2, <4>5
    <3> QED
      BY <3>1, <3>2 DEF Backed
  <2> QED
    BY <2>1, <2>2, <2>3
<1>4. ASSUME NEW k \in Keys \ {q}
      PROVE  Backed(k)' /\ answered'[k] \subseteq Answer
  BY <1>4, OthersKeep, LaterKeeps
<1>5. \A k \in Keys : Backed(k)' /\ answered'[k] \subseteq Answer
  BY <1>3, <1>4
<1>6. Sound(entries)'
  BY <1>1 DEF Sound
<1>7. TypeOK'
  BY <1>1, <1>5 DEF TypeOK, Sound, Answer
<1> QED
  BY <1>5, <1>6, <1>7 DEF CacheInv

\* Time passing, and a known request whose answer could not be sent, keep what is held.
LEMMA ElapseKeeps ==
  ASSUME CacheInv, Elapse
  PROVE  CacheInv'
<1>1. /\ Sound(Aged(entries))
      /\ \A k, d, ks : \A t \in Nat \ {0} :
           Holds(entries, k, d, t + 1, ks) => Holds(Aged(entries), k, d, t, ks)
  BY AgedKeeps DEF CacheInv
<1>2. entries' = Aged(entries) /\ \A k \in Keys : answered'[k] = Later(k, {})
  BY DEF Elapse
<1>3. ASSUME NEW k \in Keys
      PROVE  Backed(k)' /\ answered'[k] \subseteq Answer
  <2> DEFINE later == Later(k, {})
  <2>1. /\ later \subseteq Answer
        /\ \A b, c \in later : b = c
        /\ \A b \in later : \E a \in answered[k] :
             /\ b.datagram = a.datagram /\ b.age = a.age + 1 /\ b.age < Timeout
             /\ b.others = a.others \cup ({} \ {k})
    <3>1. {} \in SUBSET Keys
      OBVIOUS
    <3> QED
      BY <3>1, LaterKeeps
  <2>2. answered'[k] = later
    BY <1>2
  <2> HIDE DEF later
  <2>3. ASSUME NEW b \in later
        PROVE  /\ IsFiniteSet(b.others) /\ k \notin b.others
               /\ Cardinality(b.others) < CacheCap
                    => Holds(entries', k, b.datagram, Timeout - b.age, b.others)
    <3>1. PICK a \in answered[k] :
            /\ b.datagram = a.datagram /\ b.age = a.age + 1 /\ b.age < Timeout
            /\ b.others = a.others \cup ({} \ {k})
      BY <2>1
    <3>2. b.others = a.others
      BY <3>1
    <3>3. a.age \in 0 .. Timeout - 1 /\ Timeout \in Nat \ {0}
      <4>1. a \in Answer
        BY DEF CacheInv, TypeOK, Answer
      <4> QED
        BY <4>1, CacheAssumption DEF Answer
    <3>4. Timeout - b.age \in Nat \ {0} /\ Timeout - a.age = (Timeout - b.age) + 1
      BY <3>1, <3>3
    <3>5. /\ IsFiniteSet(a.others) /\ k \notin a.others
          /\ Cardinality(a.others) < CacheCap
               => Holds(entries, k, a.datagram, Timeout - a.age, a.others)
      BY DEF CacheInv, Backed
    <3> QED
      BY <1>1, <1>2, <3>1, <3>2, <3>4, <3>5
  <2> QED
    BY <2>1, <2>2, <2>3 DEF Backed
<1>4. Sound(entries)'
  BY <1>1, <1>2 DEF Sound
<1> QED
  BY <1>1, <1>2, <1>3, <1>4 DEF CacheInv, TypeOK, Sound, Answer

\* Reaping alone changes nothing of what was answered.
LEMMA UnsentKeeps ==
  ASSUME CacheInv, entries' = Reaped(entries), UNCHANGED answered
  PROVE  CacheInv'
<1>1. Sound(entries') /\ \A k \in Keys : HeldIn(entries', k)
  BY ReapedHolds
<1>2. \A k \in Keys : Backed(k)'
  BY <1>1 DEF CacheInv, Backed, HeldIn
<1>3. Sound(entries)'
  BY <1>1 DEF Sound
<1> QED
  BY <1>1, <1>2, <1>3 DEF CacheInv, TypeOK, Sound

\* Every request, and time passing, keep the cache in step with what was answered.
LEMMA CacheNext == CacheInv /\ [Next]_vars => CacheInv'
<1> SUFFICES ASSUME CacheInv, [Next]_vars PROVE CacheInv'
  OBVIOUS
<1>1. /\ Sound(entries) /\ Sound(Reaped(entries))
      /\ \A k \in Keys : HeldIn(entries, k) /\ HeldIn(Reaped(entries), k)
  BY ReapedHolds
<1>2. ASSUME NEW k \in Keys, NEW d \in Contents, NEW out \in BOOLEAN,
             entries' = Inserted(Reaped(entries), k, ReplyTo(k, d)),
             Record(k, ReplyTo(k, d), out)
      PROVE  CacheInv'
  <2> DEFINE reply == ReplyTo(k, d)
  <2>1. /\ reply \in Contents
        /\ \A a \in answered[k] : Cardinality(a.others) < CacheCap => reply = a.datagram
    BY ReplyIsKept
  <2> HIDE DEF reply
  <2>2. /\ \A q \in Keys \ {k} : answered'[q] = Later(q, {k})
        /\ answered'[k] = IF out THEN {[datagram |-> reply, age |-> 0, others |-> {}]}
                                 ELSE Later(k, {k})
    BY <1>2 DEF Record, reply
  <2>3. entries' = Inserted(Reaped(entries), k, reply)
    BY <1>2 DEF reply
  <2> QED
    BY <1>1, <2>1, <2>2, <2>3, FiledKeeps
<1>3. CASE Elapse
  BY <1>3, ElapseKeeps
<1>4. ASSUME NEW k \in UdpKeys, NEW d \in Contents, OnStunNoPath(k, d)
      PROVE  CacheInv'
  <2>1. /\ k \in Keys /\ entries' = Inserted(entries, k, d) /\ answered'[k] = {}
        /\ \A q \in Keys \ {k} : answered'[q] = Later(q, {k})
    BY <1>4 DEF OnStunNoPath, Keys
  <2> QED
    BY <1>1, <2>1, FiledKeeps
<1>5. ASSUME NEW k \in UdpKeys, NEW d \in Contents, OnStunKnown(k, d)
      PROVE  CacheInv'
  <2>1. k \in Keys
    BY DEF Keys
  <2>2. CASE /\ entries' = Inserted(Reaped(entries), k, ReplyTo(k, d))
             /\ Record(k, ReplyTo(k, d), TRUE)
    BY <1>2, <2>1, <2>2
  <2>3. CASE entries' = Reaped(entries) /\ UNCHANGED answered
    BY <2>3, UnsentKeeps
  <2> QED
    BY <1>5, <2>2, <2>3 DEF OnStunKnown
<1>6. ASSUME NEW k \in UdpKeys, NEW d \in Contents, OnStunNew(k, d)
      PROVE  CacheInv'
  <2>1. k \in Keys
    BY DEF Keys
  <2>2. PICK out \in BOOLEAN : Record(k, ReplyTo(k, d), out)
    BY <1>6 DEF OnStunNew
  <2> QED
    BY <1>2, <1>6, <2>1, <2>2 DEF OnStunNew
<1>7. ASSUME NEW k \in TcpKeys, NEW d \in Contents, OnTcpStun(k, d)
      PROVE  CacheInv'
  <2>1. k \in Keys
    BY DEF Keys
  <2>2. PICK out \in BOOLEAN : Record(k, ReplyTo(k, d), out)
    BY <1>7 DEF OnTcpStun
  <2> QED
    BY <1>2, <1>7, <2>1, <2>2 DEF OnTcpStun
<1>8. CASE UNCHANGED vars
  <2>1. UNCHANGED <<entries, answered>>
    BY <1>8 DEF vars
  <2> QED
    BY <2>1 DEF CacheInv, TypeOK, Sound, Backed
<1> QED
  BY <1>3, <1>4, <1>5, <1>6, <1>7, <1>8 DEF Next

\* An empty cache has answered nobody.
LEMMA CacheInit == Init => CacheInv
<1> SUFFICES ASSUME Init PROVE CacheInv
  OBVIOUS
<1>1. entries = <<>> /\ \A k \in Keys : answered[k] = {}
  BY DEF Init
<1>2. entries \in Seq(Entry) /\ Len(entries) = 0 /\ DOMAIN entries = {}
  BY <1>1
<1>3. CacheCap \in Nat
  BY CacheAssumption
<1>4. Len(entries) <= CacheCap
  BY <1>2, <1>3
<1> QED
  BY <1>1, <1>2, <1>4 DEF CacheInv, TypeOK, Sound, Backed

--------------------------------------------------------------------------------
(* The theorems.                                                            *)

\* The cache never grows beyond its cap, whatever is asked and whatever fails, and the
\* histories keep their types (TRANSACTION_CACHE_CAP).
THEOREM TypeCorrect == Spec => []TypeOK
<1>1. CacheInv => TypeOK
  BY DEF CacheInv
<1> QED
  BY <1>1, CacheInit, CacheNext, PTL DEF Spec

\* What a transaction was answered is remembered once, for the rest of the timeout, and
\* an eviction spares it as long as fewer than CacheCap others were kept since, for
\* every cap and every timeout.
THEOREM AnswerRemembered == Spec => []Remembered
<1>1. CacheInv => Remembered
  <2> SUFFICES ASSUME CacheInv, NEW k \in Keys, NEW a \in answered[k],
                      Cardinality(a.others) < CacheCap
               PROVE  \E i \in DOMAIN entries :
                        /\ Places(entries, k) = {i}
                        /\ entries[i].datagram = a.datagram /\ entries[i].left >= Timeout - a.age
    BY DEF Remembered
  <2>1. Sound(entries) /\ Holds(entries, k, a.datagram, Timeout - a.age, a.others)
    BY DEF CacheInv, Backed
  <2>2. Timeout - a.age \in Nat \ {0}
    <3>1. a \in Answer
      BY DEF CacheInv, TypeOK, Answer
    <3>2. a.age \in 0 .. Timeout - 1
      BY <3>1 DEF Answer
    <3> QED
      BY <3>2, CacheAssumption
  <2> DEFINE t == Timeout - a.age
  <2> HIDE DEF t
  <2>3. \E i \in DOMAIN entries :
          /\ Places(entries, k) = {i}
          /\ entries[i].datagram = a.datagram /\ entries[i].left >= t
    BY <2>1, <2>2, HeldIsFound DEF t
  <2> QED
    BY <2>3 DEF t
<1> QED
  BY <1>1, CacheInit, CacheNext, PTL DEF Spec

\* Within the timeout a retransmission is answered with the datagram that was sent
\* before, whatever it says itself, unless CacheCap others were kept in between
\* (on_stun and on_tcp_stun look the transaction up before they plan).
THEOREM RetransmissionsAgree == Spec => SameAnswer
<1> DEFINE Same == \A k \in Keys : \A a \in answered[k], b \in answered'[k] :
                     b.age = 0 /\ Cardinality(a.others) < CacheCap => b.datagram = a.datagram
<1>1. ASSUME CacheInv, [Next]_vars
      PROVE  Same
  <2> SUFFICES ASSUME NEW k \in Keys, NEW a \in answered[k], NEW b \in answered'[k],
                      b.age = 0, Cardinality(a.others) < CacheCap
               PROVE  b.datagram = a.datagram
    OBVIOUS
  <2>1. ASSUME NEW ks \in SUBSET Keys, b \in Later(k, ks)
        PROVE  FALSE
    <3>1. PICK c \in answered[k] : b.age = c.age + 1
      BY <1>1, <2>1, LaterKeeps
    <3>2. c \in Answer
      BY <1>1 DEF CacheInv, TypeOK, Answer
    <3>3. c.age \in 0 .. Timeout - 1
      BY <3>2 DEF Answer
    <3> QED
      BY <3>1, <3>3, CacheAssumption
  <2>2. CASE UNCHANGED answered
    BY <1>1, <2>2 DEF CacheInv, Backed
  <2>3. ASSUME NEW q \in Keys, NEW d \in Contents, NEW out \in BOOLEAN,
               Record(q, ReplyTo(q, d), out)
        PROVE  b.datagram = a.datagram
    <3>1. answered'[k] = IF k = q /\ out
                         THEN {[datagram |-> ReplyTo(q, d), age |-> 0, others |-> {}]}
                         ELSE Later(k, {q})
      BY <2>3 DEF Record
    <3>2. k = q /\ out
      <4>1. {q} \in SUBSET Keys
        OBVIOUS
      <4> QED
        BY <2>1, <3>1, <4>1
    <3>3. b.datagram = ReplyTo(k, d)
      BY <3>1, <3>2
    <3> QED
      BY <1>1, <3>3, ReplyIsKept
  <2>4. ASSUME NEW q \in UdpKeys, NEW d \in Contents, OnStunNoPath(q, d)
        PROVE  FALSE
    <3>1. answered'[k] = {} \/ answered'[k] = Later(k, {q})
      BY <2>4 DEF OnStunNoPath
    <3>2. {q} \in SUBSET Keys
      BY DEF Keys
    <3> QED
      BY <2>1, <3>1, <3>2
  <2>5. CASE Elapse
    <3>1. b \in Later(k, {})
      BY <2>5 DEF Elapse
    <3>2. {} \in SUBSET Keys
      OBVIOUS
    <3> QED
      BY <2>1, <3>1, <3>2
  <2>6. ASSUME NEW q \in UdpKeys, NEW d \in Contents, OnStunKnown(q, d) \/ OnStunNew(q, d)
        PROVE  b.datagram = a.datagram
    <3>1. q \in Keys
      BY DEF Keys
    <3>2. UNCHANGED answered \/ \E out \in BOOLEAN : Record(q, ReplyTo(q, d), out)
      BY <2>6 DEF OnStunKnown, OnStunNew
    <3> QED
      BY <2>2, <2>3, <3>1, <3>2
  <2>7. ASSUME NEW q \in TcpKeys, NEW d \in Contents, OnTcpStun(q, d)
        PROVE  b.datagram = a.datagram
    <3>1. q \in Keys
      BY DEF Keys
    <3>2. \E out \in BOOLEAN : Record(q, ReplyTo(q, d), out)
      BY <2>7 DEF OnTcpStun
    <3> QED
      BY <2>3, <3>1, <3>2
  <2> QED
    BY <1>1, <2>2, <2>4, <2>5, <2>6, <2>7 DEF Next, vars
<1>2. CacheInv /\ [Next]_vars => [Same]_vars
  BY <1>1
<1> QED
  BY <1>2, CacheInit, CacheNext, PTL DEF Spec, SameAnswer

===============================================================================
