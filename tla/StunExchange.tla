----------------------------- MODULE StunExchange -----------------------------
(***************************************************************************)
(* What the two ends of a STUN exchange understand of each other.  A peer  *)
(* sends a Binding request, the server renders what it reports into one    *)
(* attribute, and the peer reads it; or an attribute of any kind is read,  *)
(* written anew under some transaction, and read by another end.           *)
(*                                                                         *)
(* A datagram here has one attribute; how several and the trailers are     *)
(* laid out is the subject of StunMessage, which answer is given that of   *)
(* BindingAnswer.                                                          *)
(***************************************************************************)
EXTENDS MessageType, AttributeValue

CONSTANTS
  Requests,    \* [bits, cookie, codes: of its attributes, peer: a socket's address, txid]
  Sockets,     \* the addresses of sockets: [family, port, ip: 4 or 16 octets]
  Datagrams,   \* <<code, octets>>: what an attribute may be
  Txids        \* transaction ids of twelve octets

SocketAddresses == [family: {1}, port: Word, ip: [1 .. 4 -> Octet]]
                   \cup [family: {2}, port: Word, ip: [1 .. 16 -> Octet]]
TransactionIds == [1 .. 12 -> Octet]

ASSUME ExchangeAssumption ==
  /\ Requests \subseteq [bits: Word, cookie: [1 .. 4 -> Octet], codes: Seq(Word),
                         peer: SocketAddresses, txid: TransactionIds]
  /\ Sockets \subseteq SocketAddresses
  /\ Datagrams \subseteq Word \X Seq(Octet)
  /\ Txids \subseteq TransactionIds

VARIABLES
  phase,   \* "idle"; "asked" or "ignored", of a request; "decoded", "refused" or "panicked",
           \* of an attribute; "sent" or "unwritable"; "read" or "unread"
  asked,   \* the request, if there is one
  wire,    \* the datagram: its attribute and, of an answer, its type and destination
  meant,   \* what the end that wrote it had to say, as a decoded attribute
  got      \* what the end that read it made of it

exchangeVars == <<phase, asked, wire, meant, got>>

--------------------------------------------------------------------------------
(* Reading and writing.                                                      *)

\* parse, of a datagram with one attribute: an unrecognised one is refused if it
\* has to be understood.
Parsed(w) ==
  {a \in ParseAttributeValue(FromWire(w.code), w.code, w.octets, w.txid) :
     IsKnown(w.code) \/ MayBeIgnored(w.code)}

\* The accessors of Message, which look an attribute up by the number of its code
\* and take it if it is of their variant.
AccessorCode ==
  [Fingerprint |-> 32808, Username |-> 6, Realm |-> 20, Nonce |-> 21, Software |-> 32802,
   XorMappedAddress |-> 32, XorRelayedAddress |-> 22, ErrorCode |-> 9, Lifetime |-> 13,
   Data |-> 19, ChannelNumber |-> 12, IcePriority |-> 36]

Find(attrs, code)    == {a \in attrs : CodeOfAttr(a) = code}
Accessor(attrs, v)   == {a \in Find(attrs, AccessorCode[v]) : a.variant = v}

\* build_response with one attribute.
Emit(a, bits, txid, to) ==
  {[bits |-> bits, code |-> CodeOfAttr(a), octets |-> v, txid |-> txid, to |-> to] :
     v \in ToValue(a, txid)}

--------------------------------------------------------------------------------
(* The server's side of an answer.                                           *)

NotComprehensionRequired == {1, 32768, 3, 9, 39}
BindingKnown == {32802, 32809, 32810, 32812}
MaxCodes == 64

SlipNamesAll(codes) == SubSeq(codes, 1, Min({MaxCodes, Len(codes)}))

\* unknown_attribute_codes: of the attributes, then once more of those that are not
\* registered; what exceeds the buffer is left out.
UnknownCodes(codes) ==
  LET foreign == {i \in DOMAIN codes : codes[i] \notin NotComprehensionRequired \cup BindingKnown}
      unknown == {i \in DOMAIN codes : ~ IsKnown(codes[i])}
      all     == Pick(codes, foreign) \o Pick(codes, unknown)
  IN  SubSeq(all, 1, Min({MaxCodes, Len(all)}))

\* The first check of decide: a request with such an attribute gets a 420.
Comprehended == \A r \in asked : UnknownCodes(r.codes) = <<>>

\* ErrorCode::number of the decisions.
ErrorNumbers == {300, 400, 401, 420, 438, 487, 500}
Reason == <<82>>     \* reason, a short text

\* error_code_attr.
ErrorCodeAttr(n) == Decoded("ErrorCode", <<n \div 100, n % 100>> \o Reason)

\* Header::parse, and on_stun: only a Binding request is answered.
TypesOf(r) == IF r.cookie # Cookie THEN {} ELSE TypesAt(r.bits)
BindingRequest == Type("Binding", "Request")
BindingSuccess == TypeBits(Type("Binding", "Success"))
BindingError   == TypeBits(Type("Binding", "Error"))

--------------------------------------------------------------------------------
NoDatagram == [bits |-> 0, code |-> 0, octets |-> <<>>, txid |-> <<>>, to |-> {}]

ExchangeInit ==
  /\ phase = "idle" /\ asked = {} /\ wire = NoDatagram
  /\ meant = {} /\ got = {}

\* A header arrives, with a peer's address as drain_udp passes it on.
Ask ==
  /\ phase = "idle"
  /\ \E r \in Requests :
       /\ asked' = {r}
       /\ phase' = IF TypesOf(r) = {BindingRequest} /\ PeersIn(RawPeer(r.peer)) # {}
                   THEN "asked" ELSE "ignored"
  /\ UNCHANGED <<wire, meant, got>>

\* send_plan: the attribute a of an answer that is to say what `say` is; render
\* failures drop the answer.
Answer(a, say, bits) ==
  /\ phase = "asked"
  /\ \E r \in asked :
       LET out == Emit(a, bits, r.txid, PeersIn(RawPeer(r.peer))) IN
       /\ phase' = IF out = {} THEN "unwritable" ELSE "sent"
       /\ wire' \in IF out = {} THEN {wire} ELSE out
  /\ meant' = {say}
  /\ UNCHANGED <<asked, got>>

\* XOR-MAPPED-ADDRESS: the identity of a socket of the server.
AnswerAddress(socket) ==
  /\ Comprehended
  /\ Answer(Decoded("XorMappedAddress", AddressVal(MappedOf(IdentityOf(socket)))),
            Decoded("XorMappedAddress",
                    <<socket.family, socket.port>> \o socket.ip \o Zeros(16 - Len(socket.ip))),
            BindingSuccess)

\* ERROR-CODE.
AnswerError(n) ==
  /\ n = 420 \/ Comprehended
  /\ Answer(ErrorCodeAttr(n), Decoded("ErrorCode", <<n>>), BindingError)

\* UNKNOWN-ATTRIBUTES.
AnswerUnknown ==
  \E r \in asked :
    LET list == Decoded("UnknownAttributes", UnknownCodes(r.codes)) IN
    list.val # <<>> /\ Answer(list, list, BindingError)

Panics(w) == FromWire(w.code) = "AlternateServer" /\ AlternatePanics(w.octets)

\* A datagram arrives and is parsed.
Receive ==
  /\ phase = "idle"
  /\ \E d \in Datagrams, txid \in Txids :
       LET w    == [NoDatagram EXCEPT !.code = d[1], !.octets = d[2], !.txid = txid]
           read == IF Panics(w) THEN {} ELSE Parsed(w)
       IN  /\ wire' = w /\ got' = read
           /\ phase' = IF Panics(w) THEN "panicked" ELSE IF read = {} THEN "refused" ELSE "decoded"
  /\ UNCHANGED <<asked, meant>>

\* What was read is written under some transaction.
Write(txid) ==
  /\ phase = "decoded" /\ meant' = got /\ got' = {}
  /\ \E a \in got :
       LET out == Emit(a, 0, txid, {}) IN
       /\ phase' = IF out = {} THEN "unwritable" ELSE "sent"
       /\ wire' \in IF out = {} THEN {wire} ELSE out
  /\ UNCHANGED asked

\* The other end reads it.
Read ==
  /\ phase = "sent" /\ got' = Parsed(wire)
  /\ phase' = IF got' = {} THEN "unread" ELSE "read"
  /\ UNCHANGED <<asked, wire, meant>>

ExchangeNext ==
  \/ Ask
  \/ \E socket \in Sockets : AnswerAddress(socket)
  \/ \E n \in ErrorNumbers : AnswerError(n)
  \/ AnswerUnknown
  \/ Receive
  \/ \E txid \in Txids : Write(txid)
  \/ Read

ExchangeSpec == ExchangeInit /\ [][ExchangeNext]_exchangeVars

--------------------------------------------------------------------------------
(* Properties.                                                               *)

\* A message type survives being read and written, whatever the method, and what
\* the replies to a request are typed as keeps its method, is no request and is
\* not replied to (from_bits, bits, success_response_type, error_response_type).
TypeKept ==
  \A r \in asked : \A t \in TypesAt(r.bits) :
    /\ TypeBits(t) = r.bits
    /\ \A reply \in SuccessTypes(t) \cup ErrorTypes(t) :
         /\ t.class = "Request"
         /\ TypesAt(TypeBits(reply)) = {reply} /\ reply.method = t.method
         /\ ~CanReply420(reply) /\ SuccessTypes(reply) \cup ErrorTypes(reply) = {}

\* Of an answer, the peer that asked reads a reply to its request, sent to where it
\* asked from, with the address, the error number or the codes the server meant
\* (identity_of_socket, identity_attr, error_code_attr, parse_peer_addr).
AnswerIsUnderstood ==
  \A r \in asked :
    /\ phase \notin {"unwritable", "unread"}
    /\ phase = "read" =>
         /\ wire.to = {r.peer}
         /\ TypesAt(wire.bits) \subseteq SuccessTypes(BindingRequest) \cup ErrorTypes(BindingRequest)
         /\ meant = {IF a.variant = "ErrorCode"
                     THEN Decoded("ErrorCode", <<ErrorNumber(a.val[1], a.val[2])>>)
                     ELSE a : a \in got}

\* A 420 names attributes of the request, none the server reads or may ignore, and
\* all the others if there are no more than fit (unknown_attribute_codes).
UnknownAreNamed ==
  \A r \in asked, a \in got :
    a.variant = "UnknownAttributes" =>
      LET unread == Range(r.codes) \ (NotComprehensionRequired \cup BindingKnown) IN
      /\ Range(a.val) \subseteq unread
      /\ Len(r.codes) <= MaxCodes => Range(a.val) = unread

\* An attribute keeps its code through the registry's tables: it is written under
\* the one it was read by, and the accessor of an attribute finds it exactly when
\* it came with the code of the registry (attr_from_wire, as_u16, Message::find).
KindKept ==
  asked = {} =>
    /\ \A a \in got : Find(got, wire.code) = {a} /\ CodeOfAttr(a) = wire.code
    /\ \A v \in DOMAIN AccessorCode : Accessor(got, v) = {a \in got : wire.code = AsU16[v]}

\* What one end read of a message the other end reads the same when it is written
\* anew, under any transaction; only a value longer than the buffer of to_value and
\* a reason longer than its limit cannot be written (to_value).
RelayedUnchanged ==
  asked = {} =>
    /\ phase # "unread" /\ (phase = "read" => got = meant)
    /\ phase = "unwritable" => \A a \in meant :
         \/ Len(OctetsOf(a, wire.txid)) > BufferLen
         \/ a.variant \in Errors /\ Len(a.val) - 2 > ReasonMaxLen

================================================================================
