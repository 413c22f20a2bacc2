-------------------------------- MODULE Address --------------------------------
(***************************************************************************)
(* Addresses as STUN attributes carry them (quickrelay-protocol,           *)
(* address.rs), and as the server hands them to the codec                  *)
(* (quickrelay-server, binding_chain.rs; quickrelay-transport, worker.rs). *)
(*                                                                         *)
(* Octets are numbers, a value is a sequence of them.  An address is its   *)
(* family octet, its port and sixteen octets, of which IPv4 uses the       *)
(* first four.  A reader returns a set: the address, or none.              *)
(***************************************************************************)
EXTENDS Integers, Sequences

\* u8 and u16.
U16Max == 65535
Octet  == 0 .. 255
Word   == 0 .. U16Max

\* u16::from_be_bytes of the i-th octet and the next, and to_be_bytes.
Be16(s, i) == 256 * s[i] + s[i + 1]
Octets16(n) == <<n \div 256, n % 256>>

\* The octets of a list of u16.
AllOctets16(ns) == [i \in 1 .. 2 * Len(ns) |-> Octets16(ns[(i + 1) \div 2])[2 - (i % 2)]]

\* The XOR of two bits, and of two numbers of two, four, eight and sixteen: half by half.
Halves(Op(_, _), n, a, b) == n * Op(a \div n, b \div n) + Op(a % n, b % n)

XorBits(a, b) == (a + b) % 2
Xor2(a, b)    == Halves(XorBits, 2, a, b)
Xor4(a, b)    == Halves(Xor2, 4, a, b)
Xor8(a, b)    == Halves(Xor4, 16, a, b)
Xor16(a, b)   == Halves(Xor8, 256, a, b)

Zeros(n) == [i \in 1 .. n |-> 0]

\* AddressFamily: IPv4 and IPv6.
Families == {1, 2}
AddressOctets(f) == IF f = 1 THEN 4 ELSE 16
ValueLen(f) == 4 + AddressOctets(f)

\* The address whose port and octets stand in a value of family f.
AddressIn(buf, f) ==
  [family |-> f, port |-> Be16(buf, 3),
   ip |-> SubSeq(buf, 5, ValueLen(f)) \o Zeros(16 - AddressOctets(f))]

Significant(a) == SubSeq(a.ip, 1, AddressOctets(a.family))

\* MappedAddress::read_value: octets behind the address are let pass.
ReadValue(buf) ==
  {AddressIn(buf, f) : f \in {g \in Families : Len(buf) >= ValueLen(g) /\ buf[1] = 0 /\ buf[2] = g}}

\* MappedAddress::write_value.
WriteValue(a) == <<0, a.family>> \o Octets16(a.port) \o Significant(a)

\* read_alternate_server and read_relayed_address: the family comes first.
ReadAlternate(buf) ==
  {AddressIn(buf, f) : f \in {g \in Families : Len(buf) >= ValueLen(g) /\ buf[1] = g}}

\* read_alternate_server looks at the first octet before it looks at the length.
AlternatePanics(buf) == Len(buf) = 0

SlipMappedLayout(a) == <<0, a.family>> \o Octets16(a.port) \o Significant(a)

\* write_alternate_server and write_relayed_address, into a buffer of zeros.
WriteAlternate(a) == <<a.family, 0>> \o Octets16(a.port) \o Significant(a)

Cookie == <<33, 18, 164, 66>>    \* MAGIC_COOKIE_OCTETS

\* The XOR of the three XOR-...-ADDRESS attributes: the port with the upper half of
\* the cookie, IPv4 with the cookie, IPv6 with the cookie and the transaction id.
Masked(a, txid) ==
  LET key == Cookie \o txid IN
  [family |-> a.family, port |-> Xor16(a.port, Be16(Cookie, 1)),
   ip |-> [i \in 1 .. 16 |-> IF i <= AddressOctets(a.family) THEN Xor8(a.ip[i], key[i]) ELSE a.ip[i]]]

ReadXor(buf, txid) == {Masked(a, txid) : a \in ReadValue(buf)}
WriteXor(a, txid)  == WriteValue(Masked(a, txid))

--------------------------------------------------------------------------------
(* A socket's address: its family, its port, and four or sixteen octets.     *)

\* identity_of_socket: an IPv4 address takes the last four of sixteen octets.
IdentityOf(socket) ==
  [address |-> Zeros(16 - Len(socket.ip)) \o socket.ip, isIpv4 |-> socket.family = 1,
   port |-> socket.port]

SlipFirstFour(id) ==
  [family |-> IF id.isIpv4 THEN 1 ELSE 2, port |-> id.port, ip |-> id.address]

\* identity_attr: an IPv4 address takes the first four of sixteen octets.
MappedOf(id) ==
  IF id.isIpv4 THEN [family |-> 1, port |-> id.port, ip |-> SubSeq(id.address, 13, 16) \o Zeros(12)]
               ELSE [family |-> 2, port |-> id.port, ip |-> id.address]

\* drain_udp: what on_stun is given of a peer's address.
RawPeer(socket) == socket.ip \o Octets16(socket.port)

\* parse_peer_addr: the length tells the family.
PeersIn(raw) ==
  IF Len(raw) \notin {6, 18} THEN {}
  ELSE {[family |-> IF Len(raw) = 6 THEN 1 ELSE 2, port |-> Be16(raw, Len(raw) - 1),
         ip |-> SubSeq(raw, 1, Len(raw) - 2)]}

================================================================================
