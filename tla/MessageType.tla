------------------------------ MODULE MessageType ------------------------------
(***************************************************************************)
(* The 16-bit message type of a STUN header (quickrelay-protocol,          *)
(* message_type.rs): twelve method bits with two class bits in between,    *)
(* and the types of the replies to a message.                              *)
(*                                                                         *)
(* A conversion that may fail returns a set: the value, or none.           *)
(***************************************************************************)
EXTENDS Integers

\* Class::bits: C1 is bit 8, C0 is bit 4.
ClassBits == [Request |-> 0, Indication |-> 16, Success |-> 256, Error |-> 272]

Classes == DOMAIN ClassBits

\* Class::from_bits, which looks at the two class bits alone.
ClassAt(bits) ==
  CHOOSE c \in Classes : ClassBits[c] = 256 * ((bits \div 256) % 2) + 16 * ((bits \div 16) % 2)

\* Method::bits of the registered methods.
MethodBits ==
  [Binding |-> 1, Allocate |-> 3, Refresh |-> 4, Send |-> 6, Data |-> 7, CreatePermission |-> 8,
   ChannelBind |-> 9, Connect |-> 10, ConnectionBind |-> 11, ConnectionAttempt |-> 12]

\* The names Method::from_bits knows.
MethodName(no) ==
  CASE no = 1 -> "Binding" [] no = 3 -> "Allocate" [] no = 4 -> "Refresh" [] no = 6 -> "Send"
    [] no = 7 -> "Data" [] no = 8 -> "CreatePermission" [] no = 9 -> "ChannelBind"
    [] no = 10 -> "Connect" [] no = 11 -> "ConnectionBind" [] no = 12 -> "ConnectionAttempt"
    [] OTHER -> "Unknown"

\* Method::from_bits: an unregistered number is kept as it is.
Method(no) == [name |-> MethodName(no), no |-> IF MethodName(no) = "Unknown" THEN no ELSE 0]

\* Method::bits.
MethodNo(m) == IF m.name = "Unknown" THEN m.no ELSE MethodBits[m.name]

SlipOneShift(t) ==
  LET m == MethodNo(t.method) IN (m % 16) + 32 * ((m \div 16) % 256) + ClassBits[t.class]

\* MessageType::bits: the method's groups of 4, 3 and 5 bits make room for C0 and C1.
TypeBits(t) ==
  LET m == MethodNo(t.method)
  IN  (m % 16) + 32 * ((m \div 16) % 8) + 512 * ((m \div 128) % 32) + ClassBits[t.class]

\* MessageType::from_bits: none if one of the two reserved bits is set.
TypesAt(bits) ==
  IF bits >= 16384 THEN {}
  ELSE {[method |-> Method((bits % 16) + 16 * ((bits \div 32) % 8) + 128 * ((bits \div 512) % 32)),
         class  |-> ClassAt(bits)]}

Type(method, class) == [method |-> [name |-> method, no |-> 0], class |-> class]

\* success_response_type, error_response_type and unknown_attribute_reply_type: a
\* response and an indication are never answered.
ReplyTypes(t, class) ==
  IF t.class \in {"Success", "Error", "Indication"} THEN {} ELSE {[t EXCEPT !.class = class]}

SuccessTypes(t) == ReplyTypes(t, "Success")
ErrorTypes(t)   == ReplyTypes(t, "Error")

\* can_reply_420.
CanReply420(t) == t.class = "Request"

================================================================================
