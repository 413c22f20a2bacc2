------------------------- MODULE BindingAnswer_proofs -------------------------
(***************************************************************************)
(* Theorems about BindingAnswer, for every command line, every request and *)
(* every set of things that may fail.                                      *)
(***************************************************************************)
EXTENDS BindingAnswer, Queues_proofs

--------------------------------------------------------------------------------
(* Lists of addresses.                                                      *)

\* What a list names, and that it names nothing twice.
Named(list)   == {list[i] : i \in DOMAIN list}
NoTwice(list) == \A i, j \in DOMAIN list : list[i] = list[j] => i = j

\* A list that names nothing twice names as many addresses as it is long.
LEMMA NamedCount ==
  ASSUME NEW S, NEW list \in Seq(S), NoTwice(list)
  PROVE  Cardinality(Named(list)) = Len(list)
<1> DEFINE n == Len(list)
           T == Named(list)
           f == [i \in 1 .. n |-> list[i]]
<1>1. n \in Nat /\ DOMAIN list = 1 .. n
  OBVIOUS
<1>2. f \in [1 .. n -> T] /\ \A i \in 1 .. n : f[i] = list[i]
  BY <1>1 DEF Named
<1>3. \A t \in T : \E i \in 1 .. n : f[i] = t
  BY <1>1, <1>2 DEF Named
<1>4. \A i, j \in 1 .. n : f[i] = f[j] => i = j
  BY <1>1, <1>2 DEF NoTwice
<1> HIDE DEF f, T, n
<1>5. ExistsBijection(1 .. n, T)
  <2>1. f \in Bijection(1 .. n, T)
    BY <1>2, <1>3, <1>4 DEF Bijection, Injection, Surjection, IsInjective
  <2> QED
    BY <2>1 DEF ExistsBijection
<1>6. IsFiniteSet(1 .. n) /\ Cardinality(1 .. n) = n
  <2>1. 1 \in Int /\ n \in Int /\ n >= 0
    BY <1>1
  <2> QED
    BY <1>1, <2>1, FS_Interval
<1>7. Cardinality(T) = n
  BY <1>5, <1>6, FS_Bijection
<1> QED
  BY <1>7 DEF T, n

\* Adding an address: it is on the list then, with those that were there and no other,
\* and none of them twice (add_address).
LEMMA AddKeeps ==
  ASSUME NEW S, NEW list \in Seq(S), NoTwice(list), NEW id \in S
  PROVE  /\ AddAddress(list, id) \in Seq(S) /\ NoTwice(AddAddress(list, id))
         /\ Named(AddAddress(list, id)) = Named(list) \cup {id}
<1>1. CASE \E i \in DOMAIN list : list[i] = id
  <2>1. AddAddress(list, id) = list
    BY <1>1 DEF AddAddress
  <2>2. id \in Named(list)
    BY <1>1 DEF Named
  <2> QED
    BY <2>1, <2>2
<1>2. CASE ~ \E i \in DOMAIN list : list[i] = id
  <2> DEFINE long == Append(list, id)
             n == Len(list)
  <2>1. n \in Nat /\ DOMAIN list = 1 .. n
    OBVIOUS
  <2>2. /\ long \in Seq(S) /\ DOMAIN long = 1 .. n + 1 /\ long[n + 1] = id
        /\ \A i \in 1 .. n : long[i] = list[i]
    OBVIOUS
  <2>3. AddAddress(list, id) = long
    BY <1>2 DEF AddAddress
  <2> HIDE DEF long, n
  <2>4. \A i \in 1 .. n + 1 : i \in 1 .. n \/ i = n + 1
    BY <2>1
  <2>5. NoTwice(long)
    <3> SUFFICES ASSUME NEW i \in 1 .. n + 1, NEW j \in 1 .. n + 1, long[i] = long[j]
                 PROVE  i = j
      BY <2>2 DEF NoTwice
    <3>1. CASE i \in 1 .. n /\ j \in 1 .. n
      BY <2>1, <2>2, <3>1 DEF NoTwice
    <3>2. CASE i = n + 1 /\ j \in 1 .. n
      BY <1>2, <2>1, <2>2, <3>2
    <3>3. CASE j = n + 1 /\ i \in 1 .. n
      BY <1>2, <2>1, <2>2, <3>3
    <3> QED
      BY <2>4, <3>1, <3>2, <3>3
  <2>6. Named(long) = Named(list) \cup {id}
    <3>1. n + 1 \in DOMAIN long /\ \A i \in 1 .. n : i \in DOMAIN long
      BY <2>1, <2>2
    <3> QED
      BY <2>1, <2>2, <2>4, <3>1 DEF Named
  <2> QED
    BY <2>2, <2>3, <2>5, <2>6
<1> QED
  BY <1>1, <1>2

\* The lists listen_identities goes through, as a function of the listeners seen.
Through(listeners, n, f) ==
  f = [i \in 0 .. n |->
        IF i = 0 THEN <<>>
        ELSE IF Placeholder(listeners[i]) THEN f[i - 1]
        ELSE AddAddress(f[i - 1], listeners[i])]

\* There is such a function for every number of listeners.
LEMMA ThroughIs ==
  ASSUME NEW listeners
  PROVE  \A n \in Nat : \E f : Through(listeners, n, f)
<1> DEFINE S == {n \in Nat : ~ \E f : Through(listeners, n, f)}
<1> SUFFICES ASSUME S # {} PROVE FALSE
  OBVIOUS
<1>1. PICK n \in S : \A m \in S : n <= m
  <2>1. S \in SUBSET Nat
    OBVIOUS
  <2> HIDE DEF S
  <2> QED
    BY <2>1, Smallest
<1>2. n \in Nat /\ ~ \E f : Through(listeners, n, f)
  BY <1>1
<1>3. CASE n = 0
  <2> DEFINE f == [i \in 0 .. 0 |-> <<>>]
  <2>1. \A i \in 0 .. 0 : i = 0
    OBVIOUS
  <2>2. f = [i \in 0 .. 0 |->
        IF i = 0 THEN <<>>
        ELSE IF Placeholder(listeners[i]) THEN f[i - 1]
        ELSE AddAddress(f[i - 1], listeners[i])]
    BY <2>1
  <2> HIDE DEF f
  <2>3. Through(listeners, 0, f)
    BY <2>2 DEF Through
  <2> QED
    BY <1>2, <1>3, <2>3
<1>4. CASE n # 0
  <2> DEFINE p == n - 1
  <2>1. p \in Nat /\ p < n /\ n = p + 1
    BY <1>2, <1>4
  <2> HIDE DEF p
  <2>2. PICK g : Through(listeners, p, g)
    <3> SUFFICES ASSUME p \in S PROVE FALSE
      BY <2>1
    <3>1. n <= p
      BY <1>1
    <3> QED
      BY <1>2, <2>1, <3>1
  <2> DEFINE last == IF Placeholder(listeners[n]) THEN g[p] ELSE AddAddress(g[p], listeners[n])
             f == [i \in 0 .. n |-> IF i = n THEN last ELSE g[i]]
             step(i) == IF i = 0 THEN <<>>
                        ELSE IF Placeholder(listeners[i]) THEN f[i - 1]
                        ELSE AddAddress(f[i - 1], listeners[i])
  <2>3. \A i \in 0 .. p : i \in 0 .. n /\ i # n /\ f[i] = g[i]
    BY <1>2, <2>1
  <2>4. f[n] = last
    BY <1>2
  <2> HIDE DEF f
  <2>5. f[n] = step(n)
    <3>1. f[p] = g[p] /\ n - 1 = p
      BY <2>1, <2>3
    <3> QED
      BY <1>4, <2>4, <3>1
  <2>6. ASSUME NEW i \in 0 .. p
        PROVE  f[i] = step(i)
    <3>1. f[i] = IF i = 0 THEN <<>>
                 ELSE IF Placeholder(listeners[i]) THEN g[i - 1]
                 ELSE AddAddress(g[i - 1], listeners[i])
      BY <2>2, <2>3 DEF Through
    <3>2. i # 0 => f[i - 1] = g[i - 1]
      BY <2>1, <2>3
    <3> QED
      BY <3>1, <3>2
  <2>7. \A i \in 0 .. n : f[i] = step(i)
    <3>1. \A i \in 0 .. n : i \in 0 .. p \/ i = n
      BY <2>1
    <3> QED
      BY <2>5, <2>6, <3>1
  <2>8. f = [i \in 0 .. n |-> f[i]]
    BY DEF f
  <2>9. Through(listeners, n, f)
    BY <2>7, <2>8 DEF Through
  <2> QED
    BY <1>2, <2>9
<1> QED
  BY <1>3, <1>4

\* The list every handler starts with names the listeners that are no placeholders,
\* none of them twice (listen_identities).
LEMMA ListenIs ==
  ASSUME NEW S, NEW listeners \in Seq(S)
  PROVE  /\ ListenIdentities(listeners) \in Seq(S) /\ NoTwice(ListenIdentities(listeners))
         /\ Named(ListenIdentities(listeners))
              = {listeners[i] : i \in {k \in DOMAIN listeners : ~Placeholder(listeners[k])}}
<1> DEFINE n == Len(listeners)
           f == CHOOSE g : Through(listeners, n, g)
<1>1. n \in Nat /\ DOMAIN listeners = 1 .. n
  OBVIOUS
<1>2. Through(listeners, n, f)
  <2>1. \E g : Through(listeners, n, g)
    BY <1>1, ThroughIs
  <2> QED
    BY <2>1
<1>3. ListenIdentities(listeners) = f[n]
  BY DEF ListenIdentities, Through
<1> HIDE DEF f
<1> DEFINE Upto(m) == {listeners[i] : i \in {k \in 1 .. m : ~Placeholder(listeners[k])}}
           Good(m) == f[m] \in Seq(S) /\ NoTwice(f[m]) /\ Named(f[m]) = Upto(m)
           B == {m \in 0 .. n : ~Good(m)}
<1>4. B = {}
  <2> SUFFICES ASSUME B # {} PROVE FALSE
    OBVIOUS
  <2>1. PICK m \in B : \A k \in B : m <= k
    <3>1. B \in SUBSET Nat
      BY <1>1
    <3> HIDE DEF B
    <3> QED
      BY <3>1, Smallest
  <2>2. m \in 0 .. n /\ ~Good(m)
    BY <2>1
  <2>3. CASE m = 0
    <3>1. f[m] = <<>>
      BY <1>1, <1>2, <2>3 DEF Through
    <3>2. <<>> \in Seq(S) /\ DOMAIN <<>> = {}
      OBVIOUS
    <3>3. Named(<<>>) = {} /\ NoTwice(<<>>)
      BY <3>2 DEF Named, NoTwice
    <3>4. Upto(m) = {}
      <4>1. 1 .. 0 = {}
        OBVIOUS
      <4> QED
        BY <2>3, <4>1
    <3> QED
      BY <2>2, <3>1, <3>2, <3>3, <3>4
  <2>4. CASE m # 0
    <3> DEFINE p == m - 1
    <3>1. p \in 0 .. n /\ p < m /\ m = p + 1 /\ m \in 1 .. n
      BY <1>1, <2>2, <2>4
    <3> HIDE DEF p
    <3>2. Good(p)
      <4> SUFFICES ASSUME p \in B PROVE FALSE
        BY <3>1
      <4>1. m <= p
        BY <2>1
      <4> QED
        BY <1>1, <2>2, <3>1, <4>1
    <3>3. f[m] = IF Placeholder(listeners[m]) THEN f[p] ELSE AddAddress(f[p], listeners[m])
      <4>1. m - 1 = p
        BY <1>1, <3>1
      <4> QED
        BY <1>2, <2>2, <2>4, <4>1 DEF Through
    <3>4. listeners[m] \in S
      BY <3>1
    <3>5. \A k \in 1 .. m : k \in 1 .. p \/ k = m
      BY <1>1, <3>1
    <3>6. m \in 1 .. m /\ \A k \in 1 .. p : k \in 1 .. m
      BY <1>1, <3>1
    <3>7. CASE Placeholder(listeners[m])
      <4>1. Upto(m) = Upto(p)
        BY <3>5, <3>6, <3>7
      <4> QED
        BY <2>2, <3>2, <3>3, <3>7, <4>1
    <3>8. CASE ~Placeholder(listeners[m])
      <4>1. Upto(m) = Upto(p) \cup {listeners[m]}
        BY <3>5, <3>6, <3>8
      <4>2. f[m] = AddAddress(f[p], listeners[m])
        BY <3>3, <3>8
      <4>3. f[p] \in Seq(S) /\ NoTwice(f[p])
        BY <3>2
      <4>4. f[m] \in Seq(S) /\ NoTwice(f[m]) /\ Named(f[m]) = Named(f[p]) \cup {listeners[m]}
        <5> DEFINE old == f[p]
                   x == listeners[m]
        <5>1. old \in Seq(S) /\ NoTwice(old) /\ x \in S
          BY <3>4, <4>3
        <5> HIDE DEF old, x
        <5>2. /\ AddAddress(old, x) \in Seq(S) /\ NoTwice(AddAddress(old, x))
              /\ Named(AddAddress(old, x)) = Named(old) \cup {x}
          BY <5>1, AddKeeps
        <5> QED
          BY <4>2, <5>2 DEF old, x
      <4> QED
        BY <2>2, <3>2, <4>1, <4>4
    <3> QED
      BY <3>7, <3>8
  <2> QED
    BY <2>3, <2>4
<1>5. Good(n)
  <2>1. n \in 0 .. n
    BY <1>1
  <2> QED
    BY <1>4, <2>1
<1> QED
  BY <1>1, <1>3, <1>5

--------------------------------------------------------------------------------
(* The decision table.                                                      *)

\* What decide answers, case by case in the order of its checks.  A peer's PRIORITY
\* never gets as far as the check of its own: it is rejected with the first.
LEMMA DecideIs ==
  ASSUME NEW r, NEW default, NEW list
  PROVE  \/ /\ Rejecting(r) # {}
            /\ Decide(r, default, list) = Failure("420", Rejecting(r))
         \/ /\ Rejecting(r) = {} /\ WrongFamily(r, default)
            /\ Decide(r, default, list) = Failure("400", {})
         \/ /\ Rejecting(r) = {} /\ RoleConflict(r)
            /\ Decide(r, default, list) = Failure("487", {})
         \/ /\ Rejecting(r) = {} /\ r.change # {} /\ Resolved(r.change, default, list) = Nowhere
            /\ Decide(r, default, list) = Failure("420", {})
         \/ /\ Rejecting(r) = {} /\ (r.change # {} => Resolved(r.change, default, list) # Nowhere)
            /\ Decide(r, default, list)
                 = Success(IF r.change = {} THEN Nowhere ELSE Resolved(r.change, default, list), r)
<1> DEFINE c == Checks(r, default, list)
           failed == {i \in DOMAIN c : c[i].fails}
           good == Success(IF r.change = {} THEN Nowhere ELSE Resolved(r.change, default, list), r)
           k == CHOOSE i \in failed : \A j \in failed : i <= j
           c4 == "priority" \in r.attrs
           c5 == r.change # {} /\ Resolved(r.change, default, list) = Nowhere
<1>1. /\ DOMAIN c = 1 .. 5
      /\ c[1].fails = (Rejecting(r) # {}) /\ c[1].answer = Failure("420", Rejecting(r))
      /\ c[2].fails = WrongFamily(r, default) /\ c[2].answer = Failure("400", {})
      /\ c[3].fails = RoleConflict(r) /\ c[3].answer = Failure("487", {})
      /\ c[4].fails = c4 /\ c[5].fails = c5 /\ c[5].answer = Failure("420", {})
  BY DEF Checks, ErrorOf
<1>2. Decide(r, default, list) = IF failed # {} THEN c[k].answer ELSE good
  BY DEF Decide
<1>3. c4 => Rejecting(r) # {}
  BY DEF Rejecting, NotComprehensionRequired, BindingKnown
<1> HIDE DEF c, good, c4
<1>4. ASSUME failed # {}
      PROVE  k \in failed /\ \A j \in failed : k <= j
  <2>1. failed \in SUBSET Nat
    BY <1>1
  <2> HIDE DEF failed
  <2>2. \E i \in failed : \A j \in failed : i <= j
    BY <1>4, <2>1, Smallest
  <2> QED
    BY <2>2
<1> HIDE DEF k
<1>5. CASE failed # {}
  <2>1. k \in 1 .. 5 /\ c[k].fails /\ Decide(r, default, list) = c[k].answer
    BY <1>1, <1>2, <1>4, <1>5
  <2>2. k # 1 => Rejecting(r) = {}
    <3> SUFFICES ASSUME k # 1, Rejecting(r) # {} PROVE FALSE
      OBVIOUS
    <3>1. 1 \in failed
      <4>1. 1 \in DOMAIN c
        BY <1>1
      <4>2. c[1].fails
        BY <1>1
      <4> QED
        BY <4>1, <4>2
    <3>2. k <= 1
      BY <1>4, <1>5, <3>1
    <3> QED
      BY <2>1, <3>2
  <2>3. k # 4
    BY <1>1, <1>3, <2>1, <2>2
  <2>4. CASE k = 1
    BY <1>1, <2>1, <2>4
  <2>5. CASE k = 2
    BY <1>1, <2>1, <2>2, <2>5
  <2>6. CASE k = 3
    BY <1>1, <2>1, <2>2, <2>6
  <2>7. CASE k = 5
    BY <1>1, <2>1, <2>2, <2>7
  <2> QED
    BY <2>1, <2>3, <2>4, <2>5, <2>6, <2>7
<1>6. CASE failed = {}
  <2>1. 1 \in DOMAIN c /\ 5 \in DOMAIN c
    BY <1>1
  <2>2. Rejecting(r) = {} /\ ~c5
    BY <1>1, <1>6, <2>1
  <2> QED
    BY <1>2, <1>6, <2>2 DEF good
<1> QED
  BY <1>5, <1>6

\* What resolve finds is on the list and satisfies the flags; if it finds nothing,
\* nothing on the list does.
LEMMA ResolvedIs ==
  ASSUME NEW change, NEW default, NEW S, NEW list \in Seq(S), Nowhere \notin S
  PROVE  IF Resolved(change, default, list) = Nowhere
         THEN \A id \in Named(list) : ~Satisfies(change, id, default)
         ELSE Resolved(change, default, list) \in Named(list)
<1> DEFINE fit == {i \in DOMAIN list : Satisfies(change, list[i], default)}
<1>1. Resolved(change, default, list)
        = IF fit = {} THEN Nowhere ELSE list[CHOOSE i \in fit : \A j \in fit : i <= j]
  BY DEF Resolved
<1>2. CASE fit = {}
  BY <1>1, <1>2 DEF Named
<1>3. CASE fit # {}
  <2> DEFINE k == CHOOSE i \in fit : \A j \in fit : i <= j
  <2>1. k \in fit
    <3>1. fit \in SUBSET Nat
      OBVIOUS
    <3> HIDE DEF fit
    <3>2. \E i \in fit : \A j \in fit : i <= j
      BY <1>3, <3>1, Smallest
    <3> QED
      BY <3>2
  <2>2. Resolved(change, default, list) = list[k]
    BY <1>1, <1>3
  <2> HIDE DEF k
  <2>3. k \in DOMAIN list
    BY <2>1
  <2>4. list[k] \in S /\ list[k] \in Named(list)
    BY <2>3 DEF Named
  <2> QED
    BY <2>2, <2>4
<1> QED
  BY <1>2, <1>3

--------------------------------------------------------------------------------
(* The inductive invariant: what a handler's list is made of, and that what was *)
(* sent is what the handler would send now.                                  *)

\* The identities a socket of this run may get.
Identities == {Identity(cli.ips[i], p) : i \in DOMAIN cli.ips, p \in {cli.port} \cup Ephemeral}

WithIf(list, id) == IF id = Nowhere THEN list ELSE AddAddress(list, id)

Handler == [udp : Identities \cup {Nowhere}, tcp : Identities \cup {Nowhere}, addresses : Seq(Identities)]
Worker  == [udp : Identities \cup {Nowhere}, tcp : Identities \cup {Nowhere}, handler : Handler]
Answer  == [worker : Nat \ {0}, via : {"udp", "tcp"}, request : Requests, plan : Plans(Identities),
            mapped : Identities \cup {Nowhere}, from : Identities]

\* The n-th worker: its sockets are where its listener puts them, its handler knows
\* them, and its list is that of all listeners with these two.
WorkerOf(n, w) ==
  /\ {w.udp, w.tcp} \subseteq Landing(Listening(n)) \cup {Nowhere}
  /\ w.handler.udp \in {w.udp, Nowhere} /\ w.handler.tcp = w.tcp
  /\ w.handler.addresses
       = WithIf(WithIf(ListenIdentities(Listeners), w.handler.udp), w.handler.tcp)

\* An answer of a worker that runs is what its handler decides.
AnswerOf(x) ==
  /\ x.worker <= Len(workers)
  /\ LET h == workers[x.worker].handler IN
     /\ x.from \in {h.udp, h.tcp}
     /\ x.plan = Decide(x.request, x.from, h.addresses)
     /\ x.mapped = Mapped(x.plan, x.from)

AnswerInv ==
  /\ cli \in Configs /\ phase \in {"starting", "up", "exited"}
  /\ workers \in Seq(Worker) /\ Len(workers) <= cli.workers
  /\ phase = "up" => Len(workers) = cli.workers
  /\ \A n \in DOMAIN workers : WorkerOf(n, workers[n])
  /\ answers \in Seq(Answer)
  /\ phase # "exited" => \A i \in DOMAIN answers : AnswerOf(answers[i])

\* The listeners of a command line, and where their sockets land.
LEMMA ListenersAre ==
  ASSUME cli \in Configs
  PROVE  /\ cli.port \in Nat /\ cli.workers \in Nat \ {0} /\ Nowhere \notin Identities
         /\ Listeners \in Seq(Identities) /\ Len(Listeners) \in Nat \ {0}
         /\ \A i \in DOMAIN Listeners : Listeners[i].port = cli.port
         /\ \A n \in Nat \ {0} :
              /\ Listening(n) \in Identities /\ Landing(Listening(n)) \subseteq Identities
              /\ cli.port # 0 => Landing(Listening(n)) = {Listening(n)}
              /\ n <= Len(Listeners) => Listening(n) = Listeners[n]
<1> DEFINE ips == cli.ips
           len == Len(ips)
<1>1. /\ ips \in Seq(V6 \cup Wild \cup {ips[i] : i \in DOMAIN ips}) /\ ips # <<>>
      /\ cli.port \in Nat /\ cli.workers \in Nat \ {0}
      /\ \A i \in DOMAIN ips, p \in {cli.port} \cup Ephemeral : Nowhere # [ip |-> ips[i], port |-> p]
  BY AnswerAssumption
<1>2. Nowhere \notin Identities
  BY <1>1 DEF Identities, Identity
<1>3. len \in Nat \ {0} /\ DOMAIN ips = 1 .. len
  <2> HIDE DEF ips
  <2> QED
    BY <1>1
<1> HIDE DEF len
<1>4. Listeners = [i \in 1 .. len |-> Identity(ips[i], cli.port)]
  BY <1>3 DEF Listeners
<1>5. \A i \in 1 .. len : Identity(ips[i], cli.port) \in Identities
  <2> SUFFICES ASSUME NEW i \in 1 .. len PROVE Identity(ips[i], cli.port) \in Identities
    OBVIOUS
  <2>1. i \in DOMAIN ips /\ cli.port \in {cli.port} \cup Ephemeral
    BY <1>3
  <2> QED
    BY <2>1 DEF Identities
<1> HIDE DEF ips
<1>6. /\ Listeners \in Seq(Identities) /\ Len(Listeners) = len /\ DOMAIN Listeners = 1 .. len
      /\ \A i \in 1 .. len : Listeners[i] = Identity(ips[i], cli.port)
  <2>1. Listeners \in [1 .. len -> Identities]
    BY <1>4, <1>5
  <2> QED
    BY <1>3, <1>4, <2>1
<1>7. \A i \in 1 .. len : Listeners[i].ip = ips[i] /\ Listeners[i].port = cli.port
  BY <1>6 DEF Identity
<1>8. ASSUME NEW n \in Nat \ {0}
      PROVE  /\ Listening(n) \in Identities /\ Landing(Listening(n)) \subseteq Identities
             /\ cli.port # 0 => Landing(Listening(n)) = {Listening(n)}
             /\ n <= len => Listening(n) = Listeners[n]
  <2> DEFINE k == ((n - 1) % len) + 1
  <2>1. k \in 1 .. len
    <3>1. n - 1 \in Nat
      OBVIOUS
    <3>2. (n - 1) % len \in 0 .. len - 1
      BY <1>3, <3>1
    <3> QED
      BY <1>3, <3>2
  <2>2. n <= len => k = n
    <3> SUFFICES ASSUME n <= len PROVE k = n
      OBVIOUS
    <3>1. n - 1 \in 0 .. len - 1
      BY <1>3
    <3>2. (n - 1) % len = n - 1
      BY <1>3, <3>1
    <3> QED
      BY <3>2
  <2>3. Listening(n) = Listeners[k]
    BY <1>6 DEF Listening
  <2> HIDE DEF k
  <2>4. Listening(n) = Identity(ips[k], cli.port) /\ Listening(n).ip = ips[k] /\ Listening(n).port = cli.port
    BY <1>6, <1>7, <2>1, <2>3
  <2>5. Landing(Listening(n)) = {Identity(ips[k], p) : p \in IF cli.port = 0 THEN Ephemeral ELSE {cli.port}}
    BY <2>4 DEF Landing
  <2>6. Landing(Listening(n)) \subseteq Identities
    <3>1. k \in DOMAIN cli.ips /\ cli.ips[k] = ips[k]
      BY <1>3, <2>1 DEF ips
    <3> QED
      BY <2>5, <3>1 DEF Identities
  <2> QED
    BY <1>5, <2>1, <2>2, <2>3, <2>4, <2>5, <2>6
<1> QED
  BY <1>1, <1>2, <1>3, <1>6, <1>7, <1>8

\* The list of a handler: what all start with, and the identities it answers from.
LEMMA HandlerList ==
  ASSUME cli \in Configs,
         NEW udp \in Identities \cup {Nowhere}, NEW tcp \in Identities \cup {Nowhere}
  PROVE  LET list == WithIf(WithIf(ListenIdentities(Listeners), udp), tcp) IN
         /\ list \in Seq(Identities) /\ NoTwice(list)
         /\ Named(list) = Named(ListenIdentities(Listeners)) \cup ({udp, tcp} \ {Nowhere})
<1> DEFINE base == ListenIdentities(Listeners)
           one  == WithIf(base, udp)
           two  == WithIf(one, tcp)
<1>1. base \in Seq(Identities) /\ NoTwice(base)
  BY ListenersAre, ListenIs
<1> HIDE DEF base
<1>2. /\ one \in Seq(Identities) /\ NoTwice(one)
      /\ Named(one) = Named(base) \cup ({udp} \ {Nowhere})
  <2>1. CASE udp = Nowhere
    BY <1>1, <2>1 DEF WithIf
  <2>2. CASE udp # Nowhere
    <3>1. udp \in Identities /\ one = AddAddress(base, udp)
      BY <2>2 DEF WithIf
    <3>2. /\ AddAddress(base, udp) \in Seq(Identities) /\ NoTwice(AddAddress(base, udp))
          /\ Named(AddAddress(base, udp)) = Named(base) \cup {udp}
      BY <1>1, <3>1, AddKeeps
    <3> QED
      BY <2>2, <3>1, <3>2
  <2> QED
    BY <2>1, <2>2
<1> HIDE DEF one
<1>3. /\ two \in Seq(Identities) /\ NoTwice(two)
      /\ Named(two) = Named(one) \cup ({tcp} \ {Nowhere})
  <2>1. CASE tcp = Nowhere
    BY <1>2, <2>1 DEF WithIf
  <2>2. CASE tcp # Nowhere
    <3>1. tcp \in Identities /\ two = AddAddress(one, tcp)
      BY <2>2 DEF WithIf
    <3>2. /\ AddAddress(one, tcp) \in Seq(Identities) /\ NoTwice(AddAddress(one, tcp))
          /\ Named(AddAddress(one, tcp)) = Named(one) \cup {tcp}
      <4>1. one \in Seq(Identities)
        BY <1>2
      <4>2. NoTwice(one)
        BY <1>2
      <4>3. tcp \in Identities
        BY <3>1
      <4> QED
        BY <4>1, <4>2, <4>3, AddKeeps
    <3> QED
      BY <2>2, <3>1, <3>2
  <2> QED
    BY <2>1, <2>2
<1> HIDE DEF two
<1>4. two \in Seq(Identities) /\ NoTwice(two) /\ Named(two) = Named(base) \cup ({udp, tcp} \ {Nowhere})
  BY <1>2, <1>3
<1> QED
  BY <1>4 DEF two, one, base

\* What decide answers is a plan over the addresses of the list.
LEMMA DecideType ==
  ASSUME NEW r \in Requests, NEW default, NEW S, NEW list \in Seq(S), Nowhere \notin S
  PROVE  Decide(r, default, list) \in Plans(Named(list))
<1>1. r.attrs \subseteq Attributes
  BY AnswerAssumption
<1>2. Rejecting(r) \in SUBSET Attributes
  BY <1>1 DEF Rejecting
<1>3. \A code \in {"400", "420", "487"}, named \in SUBSET Attributes : Failure(code, named) \in Plans(Named(list))
  BY DEF Failure, Plans
<1>4. \A source \in Named(list) \cup {Nowhere} : Success(source, r) \in Plans(Named(list))
  BY DEF Success, Plans
<1>5. Resolved(r.change, default, list) \in Named(list) \cup {Nowhere}
  BY ResolvedIs
<1>6. \/ Decide(r, default, list) = Failure("420", Rejecting(r))
      \/ Decide(r, default, list) = Failure("400", {})
      \/ Decide(r, default, list) = Failure("487", {})
      \/ Decide(r, default, list) = Failure("420", {})
      \/ Decide(r, default, list)
           = Success(IF r.change = {} THEN Nowhere ELSE Resolved(r.change, default, list), r)
  BY DecideIs
<1>7. (IF r.change = {} THEN Nowhere ELSE Resolved(r.change, default, list)) \in Named(list) \cup {Nowhere}
  BY <1>5
<1> QED
  BY <1>2, <1>3, <1>4, <1>6, <1>7

\* What the run starts from does not change.
LEMMA SameRun ==
  ASSUME cli' = cli
  PROVE  /\ Identities' = Identities /\ Worker' = Worker /\ Answer' = Answer
         /\ \A n, w : WorkerOf(n, w)' <=> WorkerOf(n, w)
<1>1. Identities' = Identities /\ Listeners' = Listeners
  BY DEF Identities, Listeners
<1>2. \A n : Listening(n)' = Listening(n)
  BY <1>1 DEF Listening
<1> QED
  BY <1>1, <1>2 DEF Worker, Handler, Answer, WorkerOf

\* What a worker's handler sends is an answer.
LEMMA AnsweredIs ==
  ASSUME AnswerInv, NEW w \in DOMAIN workers, NEW via \in {"udp", "tcp"}, NEW r \in Requests,
         NEW id \in {workers[w].handler.udp, workers[w].handler.tcp} \ {Nowhere}
  PROVE  Answered(w, via, r, id) \in Answer /\ AnswerOf(Answered(w, via, r, id))
<1> DEFINE h    == workers[w].handler
           list == h.addresses
           plan == Decide(r, id, list)
           x    == Answered(w, via, r, id)
<1>1. /\ workers \in Seq(Worker) /\ w \in Nat \ {0} /\ w <= Len(workers) /\ workers[w] \in Worker
  BY DEF AnswerInv
<1>2. h \in Handler /\ list \in Seq(Identities) /\ id \in Identities
  BY <1>1 DEF Worker, Handler
<1>3. Nowhere \notin Identities
  BY ListenersAre DEF AnswerInv
<1>4. plan \in Plans(Named(list)) /\ Named(list) \subseteq Identities
  <2> HIDE DEF list
  <2>1. Named(list) \subseteq Identities
    BY <1>2 DEF Named
  <2> QED
    BY <1>2, <1>3, <2>1, DecideType
<1>5. plan \in Plans(Identities) /\ plan.source \in Identities \cup {Nowhere}
  <2> HIDE DEF plan
  <2> QED
    BY <1>4 DEF Plans
<1>6. Mapped(plan, id) \in Identities \cup {Nowhere}
  BY <1>2, <1>5 DEF Mapped
<1>7. x = [worker |-> w, via |-> via, request |-> r, plan |-> plan, mapped |-> Mapped(plan, id), from |-> id]
  BY DEF Answered
<1> HIDE DEF plan, x
<1>8. x \in Answer
  BY <1>1, <1>2, <1>5, <1>6, <1>7 DEF Answer
<1>9. /\ x.worker = w /\ x.request = r /\ x.from = id /\ x.plan = plan
      /\ x.mapped = Mapped(plan, id)
  BY <1>7
<1>10. AnswerOf(x)
  BY <1>1, <1>9 DEF AnswerOf, plan
<1> QED
  BY <1>8, <1>10 DEF x

\* The worker start_worker makes, whatever fails of it.
LEMMA StartedIs ==
  ASSUME AnswerInv, StartWorker
  PROVE  \E w \in Worker : /\ workers' = Append(workers, w) /\ WorkerOf(Len(workers) + 1, w)
<1> DEFINE n == Len(workers) + 1
           base == ListenIdentities(Listeners)
<1>1. n \in Nat \ {0} /\ cli \in Configs
  BY DEF AnswerInv
<1>2. PICK udp \in Landing(Listening(n)) \cup Failing("udp"),
           tcp \in Landing(Listening(n)) \cup Failing("tcp") :
      \E sender \in {udp} \cup (IF udp = Nowhere THEN {} ELSE Failing("sender")) :
       LET fresh == NewHandler(n)
           sends == IF sender = Nowhere THEN fresh ELSE SetUdp(fresh, sender)
       IN  workers' = Append(workers,
             [udp |-> udp, tcp |-> tcp,
              handler |-> IF tcp = Nowhere THEN sends ELSE SetTcpIdentity(sends, tcp)])
  BY DEF StartWorker
<1>3. PICK sender \in {udp} \cup (IF udp = Nowhere THEN {} ELSE Failing("sender")) :
       LET fresh == NewHandler(n)
           sends == IF sender = Nowhere THEN fresh ELSE SetUdp(fresh, sender)
       IN  workers' = Append(workers,
             [udp |-> udp, tcp |-> tcp,
              handler |-> IF tcp = Nowhere THEN sends ELSE SetTcpIdentity(sends, tcp)])
  BY <1>2
<1>4. Landing(Listening(n)) \subseteq Identities /\ Nowhere \notin Identities
  BY <1>1, ListenersAre
<1> HIDE DEF n
<1>5. /\ {udp, tcp} \subseteq Landing(Listening(n)) \cup {Nowhere}
      /\ udp \in Identities \cup {Nowhere} /\ tcp \in Identities \cup {Nowhere}
      /\ sender \in {udp, Nowhere} /\ sender \in Identities \cup {Nowhere}
  BY <1>2, <1>3, <1>4 DEF Failing
<1> DEFINE fresh == NewHandler(n)
           sends == IF sender = Nowhere THEN fresh ELSE SetUdp(fresh, sender)
           h == IF tcp = Nowhere THEN sends ELSE SetTcpIdentity(sends, tcp)
           w == [udp |-> udp, tcp |-> tcp, handler |-> h]
<1>6. fresh = [udp |-> Nowhere, tcp |-> Nowhere, addresses |-> base]
  BY DEF NewHandler
<1> HIDE DEF fresh, base
<1>7. sends = [udp |-> sender, tcp |-> Nowhere, addresses |-> WithIf(base, sender)]
  BY <1>6 DEF SetUdp, WithIf
<1> HIDE DEF sends
<1>8. h = [udp |-> sender, tcp |-> tcp, addresses |-> WithIf(WithIf(base, sender), tcp)]
  BY <1>7 DEF SetTcpIdentity, WithIf
<1>9. WithIf(WithIf(base, sender), tcp) \in Seq(Identities)
  <2>1. WithIf(WithIf(ListenIdentities(Listeners), sender), tcp) \in Seq(Identities)
    BY <1>1, <1>5, HandlerList
  <2> QED
    BY <2>1 DEF base
<1>10. workers' = Append(workers, w)
  BY <1>3 DEF h, sends, fresh
<1> DEFINE list == WithIf(WithIf(base, sender), tcp)
<1>11. h = [udp |-> sender, tcp |-> tcp, addresses |-> list] /\ list \in Seq(Identities)
  BY <1>8, <1>9
<1> HIDE DEF h, list
<1>12. h \in Handler
  BY <1>5, <1>11 DEF Handler
<1>13. w \in Worker
  BY <1>5, <1>12 DEF Worker
<1>14. WorkerOf(n, w)
  <2>1. w.udp = udp /\ w.tcp = tcp /\ w.handler = h
    OBVIOUS
  <2>2. w.handler.udp = sender /\ w.handler.tcp = tcp /\ w.handler.addresses = list
    BY <1>11, <2>1
  <2> HIDE DEF w
  <2> QED
    BY <1>5, <2>1, <2>2 DEF WorkerOf, list, base
<1> QED
  BY <1>10, <1>13, <1>14 DEF n

\* The start of the process.
LEMMA AnswerInit == Init => AnswerInv
<1> SUFFICES ASSUME Init PROVE AnswerInv
  OBVIOUS
<1>1. cli \in Configs /\ phase = "starting" /\ workers = <<>> /\ answers = <<>>
  BY DEF Init
<1>2. /\ <<>> \in Seq(Worker) /\ <<>> \in Seq(Answer) /\ Len(<<>>) = 0 /\ DOMAIN <<>> = {}
  OBVIOUS
<1>3. cli.workers \in Nat
  BY <1>1, ListenersAre
<1> QED
  BY <1>1, <1>2, <1>3 DEF AnswerInv

\* Every step keeps the invariant.
LEMMA AnswerNext == AnswerInv /\ [Next]_vars => AnswerInv'
<1> SUFFICES ASSUME AnswerInv, [Next]_vars PROVE AnswerInv'
  OBVIOUS
<1>1. cli \in Configs /\ cli.workers \in Nat \ {0}
  BY ListenersAre DEF AnswerInv
<1>2. CASE StartWorker
  <2>1. PICK w \in Worker : workers' = Append(workers, w) /\ WorkerOf(Len(workers) + 1, w)
    BY <1>2, StartedIs
  <2>2. /\ UNCHANGED <<cli, phase, answers>> /\ phase = "starting" /\ Len(workers) < cli.workers
        /\ workers \in Seq(Worker) /\ Len(workers) \in Nat
    BY <1>2 DEF StartWorker, AnswerInv
  <2>3. /\ workers' \in Seq(Worker) /\ Len(workers') = Len(workers) + 1
        /\ DOMAIN workers' = 1 .. Len(workers) + 1 /\ workers'[Len(workers) + 1] = w
        /\ \A n \in 1 .. Len(workers) : workers'[n] = workers[n]
    BY <2>1, <2>2
  <2>4. Identities' = Identities /\ Worker' = Worker /\ Answer' = Answer
        /\ \A n, v : WorkerOf(n, v)' <=> WorkerOf(n, v)
    BY <2>2, SameRun
  <2>5. ASSUME NEW n \in DOMAIN workers', NEW v, v = workers'[n]
        PROVE  WorkerOf(n, v)
    <3>1. CASE n = Len(workers) + 1
      BY <2>1, <2>3, <2>5, <3>1
    <3>2. CASE n # Len(workers) + 1
      <4>1. n \in 1 .. Len(workers) /\ n \in DOMAIN workers
        BY <2>2, <2>3, <3>2
      <4> QED
        BY <2>3, <2>5, <4>1 DEF AnswerInv
    <3> QED
      BY <3>1, <3>2
  <2>6. (\A n \in DOMAIN workers : WorkerOf(n, workers[n]))'
    <3> SUFFICES ASSUME NEW n \in DOMAIN workers', NEW v, v = workers'[n] PROVE WorkerOf(n, v)'
      BY DEF WorkerOf
    <3> QED
      BY <2>4, <2>5
  <2>7. ASSUME NEW i \in DOMAIN answers
        PROVE  AnswerOf(answers[i])'
    <3>1. AnswerOf(answers[i]) /\ answers[i].worker \in Nat \ {0}
      <4>1. AnswerOf(answers[i])
        BY <2>2 DEF AnswerInv
      <4>2. answers[i] \in Answer
        <5>1. answers \in Seq(Answer)
          BY DEF AnswerInv
        <5> QED
          BY <5>1
      <4>3. answers[i].worker \in Nat \ {0}
        BY <4>2 DEF Answer
      <4> QED
        BY <4>1, <4>3
    <3>2. /\ answers[i].worker <= Len(workers')
          /\ workers'[answers[i].worker] = workers[answers[i].worker]
      <4>1. answers[i].worker \in 1 .. Len(workers)
        BY <2>2, <3>1 DEF AnswerOf
      <4> QED
        BY <2>2, <2>3, <4>1
    <3>3. answers' = answers
      BY <2>2
    <3> QED
      BY <3>1, <3>2, <3>3 DEF AnswerOf
  <2>8. Len(workers') <= cli'.workers
    BY <1>1, <2>2, <2>3
  <2> QED
    BY <2>2, <2>3, <2>4, <2>6, <2>7, <2>8 DEF AnswerInv
<1>3. CASE StartFails
  <2>1. UNCHANGED <<cli, answers>> /\ phase' = "exited" /\ workers' = <<>>
    BY <1>3 DEF StartFails
  <2>2. <<>> \in Seq(Worker) /\ Len(<<>>) = 0 /\ DOMAIN <<>> = {}
    OBVIOUS
  <2> QED
    BY <1>1, <2>1, <2>2, SameRun DEF AnswerInv
<1>4. CASE AllStarted
  <2>1. UNCHANGED <<cli, workers, answers>> /\ phase' \in {"up", "exited"} /\ phase = "starting"
        /\ Len(workers) = cli.workers
    BY <1>4 DEF AllStarted
  <2>2. \A i \in DOMAIN answers : AnswerOf(answers[i])'
    BY <2>1 DEF AnswerInv, AnswerOf
  <2>3. \A n \in DOMAIN workers : WorkerOf(n, workers[n])'
    BY <2>1, SameRun DEF AnswerInv
  <2> QED
    BY <2>1, <2>2, <2>3, SameRun DEF AnswerInv
<1>5. ASSUME NEW w \in DOMAIN workers, NEW r \in Requests, OnStun(w, r) \/ OnTcpStun(w, r)
      PROVE  AnswerInv'
  <2>1. UNCHANGED <<cli, phase, workers>>
    BY <1>5 DEF OnStun, OnTcpStun
  <2>2. PICK x \in Answer : answers' = Append(answers, x) /\ AnswerOf(x)
    <3>1. CASE OnStun(w, r)
      <4> DEFINE id == workers[w].handler.udp
      <4>1. id # Nowhere /\ answers' = Append(answers, Answered(w, "udp", r, id))
        BY <3>1 DEF OnStun
      <4>2. Answered(w, "udp", r, id) \in Answer /\ AnswerOf(Answered(w, "udp", r, id))
        BY <4>1, AnsweredIs
      <4> QED
        BY <4>1, <4>2
    <3>2. CASE OnTcpStun(w, r)
      <4> DEFINE id == workers[w].handler.tcp
      <4>1. id # Nowhere /\ answers' = Append(answers, Answered(w, "tcp", r, id))
        BY <3>2 DEF OnTcpStun
      <4>2. Answered(w, "tcp", r, id) \in Answer /\ AnswerOf(Answered(w, "tcp", r, id))
        BY <4>1, AnsweredIs
      <4> QED
        BY <4>1, <4>2
    <3> QED
      BY <1>5, <3>1, <3>2
  <2>3. answers \in Seq(Answer) /\ Len(answers) \in Nat
    BY DEF AnswerInv
  <2>4. /\ answers' \in Seq(Answer) /\ DOMAIN answers' = 1 .. Len(answers) + 1
        /\ answers'[Len(answers) + 1] = x
        /\ \A i \in 1 .. Len(answers) : answers'[i] = answers[i]
    BY <2>2, <2>3
  <2>5. \A y : AnswerOf(y)' <=> AnswerOf(y)
    BY <2>1 DEF AnswerOf
  <2>6. ASSUME phase # "exited", NEW i \in DOMAIN answers', NEW y, y = answers'[i]
        PROVE  AnswerOf(y)
    <3>1. CASE i = Len(answers) + 1
      BY <2>2, <2>4, <2>6, <3>1
    <3>2. CASE i # Len(answers) + 1
      <4>1. i \in 1 .. Len(answers) /\ i \in DOMAIN answers
        BY <2>3, <2>4, <3>2
      <4> QED
        BY <2>4, <2>6, <4>1 DEF AnswerInv
    <3> QED
      BY <3>1, <3>2
  <2>7. (phase # "exited" => \A i \in DOMAIN answers : AnswerOf(answers[i]))'
    <3> SUFFICES ASSUME phase # "exited", NEW i \in DOMAIN answers', NEW y, y = answers'[i]
                 PROVE  AnswerOf(y)'
      BY <2>1 DEF AnswerOf
    <3> QED
      BY <2>5, <2>6
  <2>8. \A n \in DOMAIN workers : WorkerOf(n, workers[n])'
    BY <2>1, SameRun DEF AnswerInv
  <2> QED
    BY <2>1, <2>4, <2>7, <2>8, SameRun DEF AnswerInv
<1>6. CASE \E w \in DOMAIN workers : LeftUnread(w)
  <2>1. UNCHANGED <<cli, phase, workers, answers>>
    BY <1>6 DEF LeftUnread
  <2>2. \A n \in DOMAIN workers : WorkerOf(n, workers[n])'
    BY <2>1, SameRun DEF AnswerInv
  <2> QED
    BY <2>1, <2>2, SameRun DEF AnswerInv, AnswerOf
<1>7. CASE UNCHANGED vars
  <2>1. UNCHANGED <<cli, phase, workers, answers>>
    BY <1>7 DEF vars
  <2>2. \A n \in DOMAIN workers : WorkerOf(n, workers[n])'
    BY <2>1, SameRun DEF AnswerInv
  <2> QED
    BY <2>1, <2>2, SameRun DEF AnswerInv, AnswerOf
<1> QED
  BY <1>2, <1>3, <1>4, <1>5, <1>6, <1>7 DEF Next

\* What the theorems below rest on holds of every reachable state.
LEMMA AnswerHolds == Spec => []AnswerInv
BY AnswerInit, AnswerNext, PTL DEF Spec

--------------------------------------------------------------------------------
(* The theorems.                                                            *)

\* The handler of a worker that was started: what its list is and what it names.
LEMMA HandlerHas ==
  ASSUME AnswerInv, NEW w \in DOMAIN workers, NEW h, h = workers[w].handler
  PROVE  /\ w \in Nat \ {0} /\ workers[w] \in Worker /\ WorkerOf(w, workers[w])
         /\ h.udp \in Identities \cup {Nowhere} /\ h.tcp \in Identities \cup {Nowhere}
         /\ h.addresses = WithIf(WithIf(ListenIdentities(Listeners), h.udp), h.tcp)
         /\ h.addresses \in Seq(Identities) /\ NoTwice(h.addresses)
         /\ Named(h.addresses)
              = Named(ListenIdentities(Listeners)) \cup ({h.udp, h.tcp} \ {Nowhere})
<1>1. w \in Nat \ {0} /\ workers[w] \in Worker
  <2>1. workers \in Seq(Worker)
    BY DEF AnswerInv
  <2> QED
    BY <2>1
<1>2. WorkerOf(w, workers[w])
  BY DEF AnswerInv
<1>3. h.udp \in Identities \cup {Nowhere} /\ h.tcp \in Identities \cup {Nowhere}
  BY <1>1 DEF Worker, Handler
<1>4. h.addresses = WithIf(WithIf(ListenIdentities(Listeners), h.udp), h.tcp)
  BY <1>2 DEF WorkerOf
<1>5. cli \in Configs
  BY DEF AnswerInv
<1> QED
  BY <1>1, <1>2, <1>3, <1>4, <1>5, HandlerList

\* An answer that was given is that of a worker which is there.
LEMMA GivenIs ==
  ASSUME AnswerInv, NEW x \in Given
  PROVE  x \in Answer /\ phase # "exited" /\ x.worker \in DOMAIN workers /\ AnswerOf(x)
<1>1. phase # "exited"
  BY DEF Given
<1>2. PICK i \in DOMAIN answers : x = answers[i]
  BY <1>1 DEF Given
<1>3. x \in Answer
  <2>1. answers \in Seq(Answer)
    BY DEF AnswerInv
  <2> QED
    BY <1>2, <2>1
<1>4. AnswerOf(x)
  BY <1>1, <1>2 DEF AnswerInv
<1>5. x.worker \in DOMAIN workers
  <2>1. workers \in Seq(Worker)
    BY DEF AnswerInv
  <2>2. x.worker \in Nat \ {0} /\ x.worker <= Len(workers)
    BY <1>3, <1>4 DEF Answer, AnswerOf
  <2> QED
    BY <2>1, <2>2
<1> QED
  BY <1>1, <1>3, <1>4, <1>5

\* A handler knows the identities it answers with, its list names no address twice,
\* and what a plan answers from is on that list (set_addresses, set_udp,
\* set_tcp_identity, resolve).
THEOREM TypeCorrect == Spec => []TypeOK
<1>1. AnswerInv => TypeOK
  <2> SUFFICES ASSUME AnswerInv PROVE TypeOK
    OBVIOUS
  <2>1. cli \in Configs /\ phase \in {"starting", "up", "exited"} /\ Len(workers) <= cli.workers
    BY DEF AnswerInv
  <2>2. ASSUME NEW w \in DOMAIN workers
        PROVE  /\ Cardinality(Named(workers[w].handler.addresses)) = Len(workers[w].handler.addresses)
               /\ {workers[w].handler.udp, workers[w].handler.tcp}
                    \subseteq Named(workers[w].handler.addresses) \cup {Nowhere}
    <3> DEFINE h == workers[w].handler
               list == h.addresses
    <3>1. list \in Seq(Identities) /\ NoTwice(list)
      BY HandlerHas
    <3>2. {h.udp, h.tcp} \ {Nowhere} \subseteq Named(list)
      BY HandlerHas
    <3>3. Cardinality(Named(list)) = Len(list)
      <4> HIDE DEF list
      <4> QED
        BY <3>1, NamedCount
    <3> QED
      BY <3>2, <3>3
  <2>3. ASSUME phase # "exited", NEW i \in DOMAIN answers
        PROVE  answers[i].plan \in Plans(Named(workers[answers[i].worker].handler.addresses))
    <3> DEFINE x == answers[i]
               list == workers[x.worker].handler.addresses
    <3>1. x \in Given
      BY <2>3 DEF Given
    <3>2. x \in Answer /\ x.worker \in DOMAIN workers /\ AnswerOf(x)
      <4> HIDE DEF x
      <4> QED
        BY <3>1, GivenIs
    <3>3. list \in Seq(Identities) /\ Nowhere \notin Identities
      <4>1. list \in Seq(Identities)
        BY <3>2, HandlerHas
      <4>2. Nowhere \notin Identities
        BY <2>1, ListenersAre
      <4> QED
        BY <4>1, <4>2
    <3>4. x.request \in Requests /\ x.plan = Decide(x.request, x.from, list)
      BY <3>2 DEF Answer, AnswerOf
    <3> HIDE DEF x, list
    <3>5. Decide(x.request, x.from, list) \in Plans(Named(list))
      BY <3>3, <3>4, DecideType
    <3>6. x.plan \in Plans(Named(list))
      BY <3>4, <3>5
    <3> QED
      BY <3>6 DEF x, list
  <2> QED
    BY <2>1, <2>2, <2>3 DEF TypeOK, Named
<1> QED
  BY <1>1, AnswerHolds, PTL

\* When the port is given, the list of a handler that has a socket is that of all
\* listeners with the one of its worker, whichever of its sockets were bound.
LEMMA ListOfRunning ==
  ASSUME AnswerInv, cli.port # 0, NEW w \in DOMAIN workers, NEW h, h = workers[w].handler,
         NEW id \in {h.udp, h.tcp}, id # Nowhere
  PROVE  h.addresses = AddAddress(ListenIdentities(Listeners), id)
<1> DEFINE base == ListenIdentities(Listeners)
<1>1. cli \in Configs
  BY DEF AnswerInv
<1>2. w \in Nat \ {0} /\ WorkerOf(w, workers[w])
  BY HandlerHas
<1>3. Landing(Listening(w)) = {Listening(w)}
  BY <1>1, <1>2, ListenersAre
<1>4. h.udp \in {Listening(w), Nowhere} /\ h.tcp \in {Listening(w), Nowhere}
  BY <1>2, <1>3 DEF WorkerOf
<1>5. h.udp \in {id, Nowhere} /\ h.tcp \in {id, Nowhere}
  BY <1>4
<1>6. h.addresses = WithIf(WithIf(base, h.udp), h.tcp)
  BY HandlerHas
<1>7. base \in Seq(Identities)
  BY <1>1, ListenersAre, ListenIs
<1> HIDE DEF base
<1>8. \E i \in DOMAIN AddAddress(base, id) : AddAddress(base, id)[i] = id
  <2>1. CASE \E i \in DOMAIN base : base[i] = id
    BY <2>1 DEF AddAddress
  <2>2. CASE ~ \E i \in DOMAIN base : base[i] = id
    <3>1. AddAddress(base, id) = Append(base, id)
      BY <2>2 DEF AddAddress
    <3>2. Len(base) + 1 \in DOMAIN Append(base, id) /\ Append(base, id)[Len(base) + 1] = id
      BY <1>7
    <3> QED
      BY <3>1, <3>2
  <2> QED
    BY <2>1, <2>2
<1>9. AddAddress(AddAddress(base, id), id) = AddAddress(base, id)
  BY <1>8 DEF AddAddress
<1> QED
  BY <1>5, <1>6, <1>9 DEF WithIf, base

\* The same request is answered alike by every worker and over both transports, as
\* long as it is answered as the same address (start_worker, set_udp,
\* set_tcp_identity, resolve).
THEOREM SameEverywhere == Spec => []SameAnswerEverywhere
<1>1. AnswerInv => SameAnswerEverywhere
  <2> SUFFICES ASSUME AnswerInv, NEW x \in Given, NEW w \in DOMAIN workers, NEW via \in {"udp", "tcp"},
                      cli.port # 0, workers[w].handler[via] = x.from
               PROVE  Answered(w, via, x.request, x.from).plan = x.plan
    BY DEF SameAnswerEverywhere
  <2> DEFINE h == workers[w].handler
             own == workers[x.worker].handler
             list == AddAddress(ListenIdentities(Listeners), x.from)
  <2>1. x \in Answer /\ x.worker \in DOMAIN workers /\ AnswerOf(x)
    BY GivenIs
  <2>2. x.from \in Identities /\ Nowhere \notin Identities
    <3>1. cli \in Configs
      BY DEF AnswerInv
    <3> QED
      BY <2>1, <3>1, ListenersAre DEF Answer
  <2>3. x.from # Nowhere
    BY <2>2
  <2>4. x.from \in {own.udp, own.tcp} /\ x.plan = Decide(x.request, x.from, own.addresses)
    BY <2>1 DEF AnswerOf
  <2>5. x.from \in {h.udp, h.tcp}
    OBVIOUS
  <2>6. h.addresses = list
    BY <2>3, <2>5, ListOfRunning
  <2>7. own.addresses = list
    BY <2>1, <2>3, <2>4, ListOfRunning
  <2>8. Answered(w, via, x.request, x.from).plan = Decide(x.request, x.from, h.addresses)
    BY DEF Answered
  <2> QED
    BY <2>4, <2>6, <2>7, <2>8
<1> QED
  BY <1>1, AnswerHolds, PTL

\* A CHANGE-REQUEST that a configured address can satisfy is never refused: the list
\* of every handler names all listeners that are no placeholders (start_worker,
\* listen_identities, resolve).
THEOREM ConfiguredHonoured == Spec => []ConfiguredIsHonoured
<1>1. AnswerInv => ConfiguredIsHonoured
  <2> SUFFICES ASSUME AnswerInv, NEW x \in Given, x.plan.outcome = "420", x.plan.unknown = {},
                      NEW i \in DOMAIN Listeners, ~Placeholder(Listeners[i])
               PROVE  ~Satisfies(x.request.change, Listeners[i], x.from)
    BY DEF ConfiguredIsHonoured
  <2> DEFINE r == x.request
             list == workers[x.worker].handler.addresses
  <2>1. x \in Answer /\ x.worker \in DOMAIN workers /\ AnswerOf(x)
    BY GivenIs
  <2>2. Decide(r, x.from, list) = x.plan
    BY <2>1 DEF AnswerOf
  <2>3. cli \in Configs
    BY DEF AnswerInv
  <2>4. Listeners \in Seq(Identities) /\ Nowhere \notin Identities
    BY <2>3, ListenersAre
  <2>5. Listeners[i] \in Named(ListenIdentities(Listeners))
    <3>1. Named(ListenIdentities(Listeners))
            = {Listeners[k] : k \in {j \in DOMAIN Listeners : ~Placeholder(Listeners[j])}}
      BY <2>4, ListenIs
    <3> QED
      BY <3>1
  <2>6. list \in Seq(Identities) /\ Listeners[i] \in Named(list)
    BY <2>1, <2>5, HandlerHas
  <2> HIDE DEF r, list
  <2>7. Resolved(r.change, x.from, list) = Nowhere
    <3>1. \A named : /\ Failure("400", named).outcome = "400" /\ Failure("487", named).outcome = "487"
                     /\ Failure("420", named).unknown = named
      BY DEF Failure
    <3>2. \A source : Success(source, r).outcome = "success"
      BY DEF Success
    <3>3. \/ Rejecting(r) # {} /\ Decide(r, x.from, list) = Failure("420", Rejecting(r))
          \/ Decide(r, x.from, list) = Failure("400", {})
          \/ Decide(r, x.from, list) = Failure("487", {})
          \/ Resolved(r.change, x.from, list) = Nowhere
          \/ \E source : Decide(r, x.from, list) = Success(source, r)
      BY DecideIs
    <3> QED
      BY <2>2, <3>1, <3>2, <3>3
  <2>8. \A id \in Named(list) : ~Satisfies(r.change, id, x.from)
    BY <2>4, <2>6, <2>7, ResolvedIs
  <2> QED
    BY <2>6, <2>8 DEF r
<1> QED
  BY <1>1, AnswerHolds, PTL

\* The address that an answer reports is bound by some worker of a complete server,
\* and no wildcard unless the worker that answers is on a wildcard listener itself:
\* the list has no wildcards but the handler's own (send_plan, listen_identities).
THEOREM ReportedBound == Spec => []ReportedIsBound
<1>1. AnswerInv => ReportedIsBound
  <2> SUFFICES ASSUME AnswerInv, NEW x \in Given, x.mapped # Nowhere
               PROVE  /\ x.mapped.ip \in Wild => x.from.ip \in Wild
                      /\ Complete => \E w \in DOMAIN workers : x.mapped \in Bound(w)
    BY DEF ReportedIsBound
  <2> DEFINE h == workers[x.worker].handler
  <2>1. x \in Answer /\ x.worker \in DOMAIN workers /\ AnswerOf(x)
    BY GivenIs
  <2>2. /\ x.from \in {h.udp, h.tcp} /\ x.mapped = Mapped(x.plan, x.from)
        /\ x.plan = Decide(x.request, x.from, h.addresses) /\ x.request \in Requests
    BY <2>1 DEF AnswerOf, Answer
  <2>3. cli \in Configs
    BY DEF AnswerInv
  <2>4. /\ Listeners \in Seq(Identities) /\ Len(Listeners) \in Nat \ {0} /\ Nowhere \notin Identities
        /\ cli.workers \in Nat \ {0}
    BY <2>3, ListenersAre
  <2>5. \/ x.mapped \in {h.udp, h.tcp} \ {Nowhere}
        \/ \E i \in DOMAIN Listeners : ~Placeholder(Listeners[i]) /\ x.mapped = Listeners[i]
    <3>1. CASE x.mapped = x.from
      BY <2>2, <3>1
    <3>2. CASE x.mapped # x.from
      <4>1. x.mapped = x.plan.source
        BY <2>2, <3>2 DEF Mapped
      <4>2. x.plan \in Plans(Named(h.addresses))
        <5> DEFINE list == h.addresses
        <5>1. list \in Seq(Identities)
          BY <2>1, HandlerHas
        <5> HIDE DEF list
        <5>2. Decide(x.request, x.from, list) \in Plans(Named(list))
          BY <2>2, <2>4, <5>1, DecideType
        <5> QED
          BY <2>2, <5>2 DEF list
      <4>3. x.mapped \in Named(h.addresses)
        BY <4>1, <4>2 DEF Plans
      <4>4. Named(h.addresses) = Named(ListenIdentities(Listeners)) \cup ({h.udp, h.tcp} \ {Nowhere})
        BY <2>1, HandlerHas
      <4>5. Named(ListenIdentities(Listeners))
              = {Listeners[k] : k \in {j \in DOMAIN Listeners : ~Placeholder(Listeners[j])}}
        BY <2>4, ListenIs
      <4> QED
        BY <4>3, <4>4, <4>5
    <3> QED
      BY <3>1, <3>2
  <2>6. x.mapped.ip \in Wild => x.from.ip \in Wild
    <3>1. \A id \in {h.udp, h.tcp} \ {Nowhere} : id.ip = Listening(x.worker).ip
      <4>1. WorkerOf(x.worker, workers[x.worker])
        BY <2>1, HandlerHas
      <4>2. {h.udp, h.tcp} \subseteq Landing(Listening(x.worker)) \cup {Nowhere}
        BY <4>1 DEF WorkerOf
      <4>3. \A id \in Landing(Listening(x.worker)) : id.ip = Listening(x.worker).ip
        BY DEF Landing, Identity
      <4> QED
        BY <4>2, <4>3
    <3>2. x.from \in {h.udp, h.tcp} \ {Nowhere}
      BY <2>1, <2>2, <2>4 DEF Answer
    <3>3. \A id : id.ip \in Wild => Placeholder(id)
      BY DEF Placeholder
    <3>4. CASE x.mapped \in {h.udp, h.tcp} \ {Nowhere}
      BY <3>1, <3>2, <3>4
    <3>5. CASE \E i \in DOMAIN Listeners : ~Placeholder(Listeners[i]) /\ x.mapped = Listeners[i]
      BY <3>3, <3>5
    <3> QED
      BY <2>5, <3>4, <3>5
  <2>7. ASSUME Complete
        PROVE  \E w \in DOMAIN workers : x.mapped \in Bound(w)
    <3>1. ASSUME NEW w \in DOMAIN workers
          PROVE  {workers[w].handler.udp, workers[w].handler.tcp} = Bound(w)
      <4>1. WorkerOf(w, workers[w])
        BY HandlerHas
      <4>2. Nowhere \notin {workers[w].handler.udp, workers[w].handler.tcp}
        BY <2>7 DEF Complete
      <4> QED
        BY <4>1, <4>2 DEF WorkerOf, Bound
    <3>2. CASE x.mapped \in {h.udp, h.tcp} \ {Nowhere}
      BY <2>1, <3>1, <3>2
    <3>3. CASE \E i \in DOMAIN Listeners : ~Placeholder(Listeners[i]) /\ x.mapped = Listeners[i]
      <4>1. PICK i \in DOMAIN Listeners : ~Placeholder(Listeners[i]) /\ x.mapped = Listeners[i]
        BY <3>3
      <4>2. i \in Nat \ {0} /\ i <= Len(Listeners)
        BY <2>4
      <4>3. i \in DOMAIN workers
        <5>1. workers \in Seq(Worker) /\ Len(workers) = cli.workers
          BY <2>7 DEF AnswerInv, Complete
        <5>2. i <= Len(workers)
          BY <2>4, <2>7, <4>2, <5>1 DEF Complete
        <5> QED
          BY <4>2, <5>1, <5>2
      <4>4. cli.port # 0
        <5>1. Listeners[i].port = cli.port
          BY <2>3, ListenersAre
        <5> QED
          BY <4>1, <5>1 DEF Placeholder
      <4>5. Landing(Listening(i)) = {Listeners[i]}
        BY <2>3, <4>2, <4>4, ListenersAre
      <4>6. WorkerOf(i, workers[i])
        BY <4>3, HandlerHas
      <4>7. workers[i].handler.udp # Nowhere
        BY <2>7, <4>3 DEF Complete
      <4>8. workers[i].handler.udp = Listeners[i]
        BY <4>5, <4>6, <4>7 DEF WorkerOf
      <4> QED
        BY <3>1, <4>1, <4>3, <4>8
    <3> QED
      BY <2>5, <3>2, <3>3
  <2> QED
    BY <2>6, <2>7
<1> QED
  BY <1>1, AnswerHolds, PTL

\* The CHANGE-REQUEST is the only attribute a 420 does not name: the first check names
\* all others at once, and no later one answers 420 but that of the CHANGE-REQUEST
\* (unknown_attribute_codes, decide, with_change_action).
THEOREM ChangeAloneUnnamed == Spec => []OnlyChangeUnnamed
<1>1. ASSUME NEW r, NEW default, NEW list
      PROVE  LET plan == Decide(r, default, list) IN
             /\ plan.outcome = "420" => plan.unknown = Rejecting(r)
             /\ Rejecting(r) # {} => plan.outcome = "420"
             /\ Rejecting(r) = {} => plan.unknown = {}
             /\ Rejecting(r) = {} /\ r.change = {} => plan.outcome # "420"
  <2>1. \A code, named : Failure(code, named).outcome = code /\ Failure(code, named).unknown = named
    BY DEF Failure
  <2>2. \A source : Success(source, r).outcome = "success" /\ Success(source, r).unknown = {}
    BY DEF Success
  <2>3. \/ Rejecting(r) # {} /\ Decide(r, default, list) = Failure("420", Rejecting(r))
        \/ Rejecting(r) = {} /\ Decide(r, default, list) = Failure("400", {})
        \/ Rejecting(r) = {} /\ Decide(r, default, list) = Failure("487", {})
        \/ Rejecting(r) = {} /\ r.change # {} /\ Decide(r, default, list) = Failure("420", {})
        \/ Rejecting(r) = {} /\ \E source : Decide(r, default, list) = Success(source, r)
    BY DecideIs
  <2> DEFINE plan == Decide(r, default, list)
             named == Rejecting(r)
  <2> HIDE DEF plan, named
  <2>4. \/ named # {} /\ plan.outcome = "420" /\ plan.unknown = named
        \/ named = {} /\ plan.outcome # "420" /\ plan.unknown = {}
        \/ named = {} /\ r.change # {} /\ plan.outcome = "420" /\ plan.unknown = {}
    BY <2>1, <2>2, <2>3 DEF plan, named
  <2>5. /\ plan.outcome = "420" => plan.unknown = named
        /\ named # {} => plan.outcome = "420"
        /\ named = {} => plan.unknown = {}
        /\ named = {} /\ r.change = {} => plan.outcome # "420"
    BY <2>4
  <2> QED
    BY <2>5 DEF plan, named
<1>2. AnswerInv => OnlyChangeUnnamed
  <2> SUFFICES ASSUME AnswerInv, NEW x \in Given, x.plan.outcome = "420"
               PROVE  LET r        == x.request
                          list     == workers[x.worker].handler.addresses
                          Retried(attrs, change) ==
                            Decide([r EXCEPT !.attrs = attrs, !.change = change], x.from, list)
                          others   == r.attrs \ x.plan.unknown
                      IN  /\ Retried(others, {}).outcome # "420"
                          /\ Retried(others, r.change).unknown = {}
                          /\ x.plan.unknown = {} <=> Retried(r.attrs, {}).outcome # "420"
    BY DEF OnlyChangeUnnamed
  <2> DEFINE r       == x.request
             list    == workers[x.worker].handler.addresses
             others  == r.attrs \ x.plan.unknown
             Retry(attrs, change) == [r EXCEPT !.attrs = attrs, !.change = change]
             plain   == Retry(others, {})
             again   == Retry(others, r.change)
             without == Retry(r.attrs, {})
  <2>1. x \in Answer /\ AnswerOf(x)
    BY GivenIs
  <2>2. x.plan = Decide(r, x.from, list) /\ r \in Requests
    BY <2>1 DEF AnswerOf, Answer
  <2>3. x.plan.unknown = Rejecting(r)
    BY <1>1, <2>2
  <2>4. \A attrs, change : Retry(attrs, change).attrs = attrs /\ Retry(attrs, change).change = change
    <3>1. r \in [type: {"request", "indication"}, attrs: SUBSET Attributes,
                 change: SUBSET {"ip", "port"}, other: {"none"} \cup Families]
      BY <2>2, AnswerAssumption
    <3> HIDE DEF r
    <3> QED
      BY <3>1
  <2>5. /\ plain.attrs = others /\ plain.change = {} /\ again.attrs = others
        /\ without.attrs = r.attrs /\ without.change = {}
    BY <2>4
  <2> HIDE DEF r, list, others, plain, again, without
  <2>6. Rejecting(plain) = {} /\ Rejecting(again) = {} /\ Rejecting(without) = Rejecting(r)
    BY <2>3, <2>5 DEF Rejecting, others
  <2>7. /\ Decide(plain, x.from, list).outcome # "420" /\ Decide(again, x.from, list).unknown = {}
        /\ Rejecting(r) = {} <=> Decide(without, x.from, list).outcome # "420"
    BY <1>1, <2>5, <2>6
  <2> QED
    BY <2>3, <2>7 DEF r, list, others, plain, again, without
<1> QED
  BY <1>2, AnswerHolds, PTL

===============================================================================
