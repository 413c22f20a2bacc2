--------------------------- MODULE TransactionCache ---------------------------
(***************************************************************************)
(* The replay cache of the Binding handler (binding_chain.rs) and the two  *)
(* entry points that use it, on_stun for datagrams and on_tcp_stun for     *)
(* control connections: a request is answered with what its transaction    *)
(* was answered before, if that is still kept, and else with a new reply   *)
(* that is then kept.                                                      *)
(*                                                                         *)
(* A transaction key stands for peer, transaction id and connection.  The  *)
(* plan and its rendering are a pure function of the request, so a reply   *)
(* is told apart by the content of the request it answers.                 *)
(***************************************************************************)
EXTENDS Queues

CONSTANTS
  UdpKeys,    \* the transactions of datagram peers
  TcpKeys,    \* the transactions of control connections
  Contents,   \* what the requests of one transaction may say
  Timeout,    \* TRANSACTION_TIMEOUT
  CacheCap,   \* TRANSACTION_CACHE_CAP
  Faults      \* bound: what may go wrong: "send", "outbox", "clone"

ASSUME CacheAssumption ==
  /\ UdpKeys \cap TcpKeys = {}
  /\ Timeout \in Nat \ {0} /\ CacheCap \in Nat \ {0}
  /\ Faults \subseteq {"send", "outbox", "clone"}

Keys  == UdpKeys \cup TcpKeys
Entry == [key : Keys, datagram : Contents, left : 0 .. Timeout]

VARIABLES
  entries,   \* TransactionCache::entries, left being the time until its expiry
  answered   \* history: per key, the last datagram that went out for it, its age
             \* and the other keys kept since; {} before the first and after Timeout

vars == <<entries, answered>>

--------------------------------------------------------------------------------
(* The cache.                                                               *)

Reaped(es) == Pick(es, {i \in DOMAIN es : es[i].left > 0})

Aged(es) == [i \in DOMAIN es |-> [es[i] EXCEPT !.left = IF @ > 0 THEN @ - 1 ELSE 0]]

Places(es, k) == {i \in DOMAIN es : es[i].key = k}

SlipFirst(es) == 1

\* reap_oldest: the first of the entries that expire earliest.
Oldest(es) ==
  CHOOSE i \in DOMAIN es :
    \A j \in DOMAIN es : es[i].left < es[j].left \/ (es[i].left = es[j].left /\ i <= j)

SlipFullAtCap(es) == Len(es) > CacheCap

Full(es) == Len(es) >= CacheCap

\* insert.  The clock moves on in every call, so no two entries expire together.
Inserted(es, k, d) ==
  LET live  == Reaped(Aged(es))
      room  == IF Full(live) THEN Pick(live, DOMAIN live \ {Oldest(live)}) ELSE live
      entry == [key |-> k, datagram |-> d, left |-> Timeout]
  IN  IF Places(live, k) # {}
      THEN [i \in DOMAIN live |-> IF i \in Places(live, k) THEN entry ELSE live[i]]
      ELSE Append(room, entry)

--------------------------------------------------------------------------------
(* The requests.                                                            *)

\* The answer a of q when the clock has moved on and the keys ks were kept.
Later(q, ks) ==
  {[a EXCEPT !.age = @ + 1, !.others = @ \cup (ks \ {q})] :
     a \in {b \in answered[q] : b.age + 1 < Timeout}}

\* The history after the key k was filed with d, which went out or did not.
Record(k, d, out) ==
  answered' = [q \in Keys |-> IF q = k /\ out
                              THEN {[datagram |-> d, age |-> 0, others |-> {}]}
                              ELSE Later(q, {k})]

\* on_stun when the sender's socket cannot be cloned: nothing is looked up and
\* nothing goes out, but the reply is rendered and filed, over the one that was
\* kept: what its transaction was promised ends here.
OnStunNoPath(k, d) ==
  /\ "clone" \in Faults
  /\ entries' = Inserted(entries, k, d)
  /\ answered' = [q \in Keys |-> IF q = k THEN {} ELSE Later(q, {k})]

SlipNoLookup(k, d) == d

\* What a request of k that says d is answered with.
ReplyTo(k, d) ==
  IF Places(Reaped(entries), k) # {}
  THEN Reaped(entries)[CHOOSE i \in Places(Reaped(entries), k) : TRUE].datagram
  ELSE d

\* on_stun for a request in the cache, and for one that is not: deliver_reply keeps
\* what was sent and nothing else, filed keeps what was rendered.
OnStunKnown(k, d) ==
  /\ Places(Reaped(entries), k) # {}
  /\ \/ /\ entries' = Inserted(Reaped(entries), k, ReplyTo(k, d))
        /\ Record(k, ReplyTo(k, d), TRUE)
     \/ /\ "send" \in Faults
        /\ entries' = Reaped(entries)
        /\ UNCHANGED answered

OnStunNew(k, d) ==
  /\ Places(Reaped(entries), k) = {}
  /\ entries' = Inserted(Reaped(entries), k, ReplyTo(k, d))
  /\ \E out \in IF "send" \in Faults THEN BOOLEAN ELSE {TRUE} : Record(k, ReplyTo(k, d), out)

\* on_tcp_stun: the reply goes to the outbox, which drops it when it is full, and
\* is kept in either case.
OnTcpStun(k, d) ==
  /\ entries' = Inserted(Reaped(entries), k, ReplyTo(k, d))
  /\ \E out \in IF "outbox" \in Faults THEN BOOLEAN ELSE {TRUE} : Record(k, ReplyTo(k, d), out)

\* Time passes.
Elapse ==
  /\ entries' = Aged(entries)
  /\ answered' = [q \in Keys |-> Later(q, {})]

Init ==
  /\ entries = <<>>
  /\ answered = [k \in Keys |-> {}]

Next ==
  \/ Elapse
  \/ \E k \in UdpKeys, d \in Contents : OnStunNoPath(k, d) \/ OnStunKnown(k, d) \/ OnStunNew(k, d)
  \/ \E k \in TcpKeys, d \in Contents : OnTcpStun(k, d)

Spec == Init /\ [][Next]_vars

--------------------------------------------------------------------------------
(* Properties.                                                              *)

\* The cache stays within its cap.
TypeOK ==
  /\ entries \in Seq(Entry) /\ Len(entries) <= CacheCap
  /\ \A k \in Keys : answered[k] \subseteq
       [datagram : Contents, age : 0 .. Timeout - 1, others : SUBSET Keys]

\* The last answer a transaction got is remembered (unless a request of it found no
\* socket since), once, for the whole timeout, and
\* the eviction of a full cache spares it until CacheCap other transactions have
\* been kept since.
Remembered ==
  \A k \in Keys : \A a \in answered[k] :
    Cardinality(a.others) < CacheCap =>
      \E i \in DOMAIN entries :
        /\ Places(entries, k) = {i}
        /\ entries[i].datagram = a.datagram /\ entries[i].left >= Timeout - a.age

\* Within the timeout a transaction is answered with the datagram it got before,
\* whatever its retransmission says and whatever was answered in between.
SameAnswer ==
  [][\A k \in Keys : \A a \in answered[k], b \in answered'[k] :
       b.age = 0 /\ Cardinality(a.others) < CacheCap
         => b.datagram = a.datagram]_vars

================================================================================
