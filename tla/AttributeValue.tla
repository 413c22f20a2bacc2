---------------------------- MODULE AttributeValue ----------------------------
(***************************************************************************)
(* Attribute values (quickrelay-protocol, attribute.rs): octets to a       *)
(* decoded attribute and back, for every attribute of the registry.        *)
(*                                                                         *)
(* A decoded attribute is the variant of enum Attribute, the code an       *)
(* unrecognised one keeps (0 otherwise), and its value as a sequence: the  *)
(* octets of a string or of an array, the parts of a list; a u32 is its    *)
(* two halves.  A decoder returns a set: the attribute, or none.           *)
(***************************************************************************)
EXTENDS Address, Queues, SequencesExt, FiniteSetsExt

--------------------------------------------------------------------------------
(* The registry.                                                             *)

\* AttrCode::as_u16.
AsU16 ==
  [MappedAddress |-> 1, ChangeRequest |-> 3, Username |-> 6, MessageIntegrity |-> 8,
   ErrorCode |-> 9, UnknownAttributes |-> 10, ChannelNumber |-> 12, Lifetime |-> 13,
   XorPeerAddress |-> 18, Data |-> 19, Realm |-> 20, Nonce |-> 21, XorRelayedAddress |-> 22,
   RequestedAddressFamily |-> 23, EvenPort |-> 24, RequestedTransport |-> 25,
   DontFragment |-> 26, AccessToken |-> 27, MessageIntegritySha256 |-> 28,
   PasswordAlgorithm |-> 29, UserHash |-> 30, XorMappedAddress |-> 32,
   ReservationToken |-> 34, IcePriority |-> 36, UseCandidate |-> 37, Padding |-> 38,
   ResponsePort |-> 39, ConnectionId |-> 42, AdditionalAddressFamily |-> 32768,
   AddressErrorCode |-> 32769, PasswordAlgorithms |-> 32770, AlternateDomain |-> 32771,
   Icmp |-> 32772, Software |-> 32802, AlternateServer |-> 32803, Fingerprint |-> 32808,
   IceControlled |-> 32809, IceControlling |-> 32810, OtherAddress |-> 32812,
   ThirdPartyAuthorization |-> 32814, ExtendedCandidate |-> 32824,
   ExtendedCandidateUfrag |-> 32825]

\* AttrCode::all.
Registered == DOMAIN AsU16

\* AttrCode::attr_from_wire.
FromWire(code) ==
  CASE code = 1 -> "MappedAddress" [] code = 3 -> "ChangeRequest"
    [] code = 6 -> "Username" [] code = 8 -> "MessageIntegrity" [] code = 9 -> "ErrorCode"
    [] code = 10 -> "UnknownAttributes" [] code = 12 -> "ChannelNumber"
    [] code = 13 -> "Lifetime" [] code = 18 -> "XorPeerAddress" [] code = 19 -> "Data"
    [] code = 20 -> "Realm" [] code = 21 -> "Nonce" [] code = 22 -> "XorRelayedAddress"
    [] code = 23 -> "RequestedAddressFamily" [] code = 24 -> "EvenPort"
    [] code = 25 -> "RequestedTransport" [] code = 26 -> "DontFragment"
    [] code = 27 -> "AccessToken" [] code = 28 -> "MessageIntegritySha256"
    [] code = 29 -> "PasswordAlgorithm" [] code = 30 -> "UserHash"
    [] code = 32 -> "XorMappedAddress" [] code = 34 -> "ReservationToken"
    [] code = 36 -> "IcePriority" [] code = 37 -> "UseCandidate" [] code = 38 -> "Padding"
    [] code = 39 -> "ResponsePort" [] code = 42 -> "ConnectionId"
    [] code = 32768 -> "AdditionalAddressFamily" [] code = 32769 -> "AddressErrorCode"
    [] code = 32770 -> "PasswordAlgorithms" [] code = 32771 -> "AlternateDomain"
    [] code = 32772 -> "Icmp" [] code = 32802 -> "Software"
    [] code = 32803 -> "AlternateServer" [] code = 32808 -> "Fingerprint"
    [] code = 32809 -> "IceControlled" [] code = 32810 -> "IceControlling"
    [] code = 32812 -> "OtherAddress" [] code = 32814 -> "ThirdPartyAuthorization"
    [] code = 32824 -> "ExtendedCandidate" [] code = 32825 -> "ExtendedCandidateUfrag"
    [] OTHER -> "Unknown"

\* AttributeKind::from_code and is_known.
IsKnown(code) == FromWire(code) # "Unknown"

SlipIceSwapped(a) ==
  CASE a.variant = "Unknown" -> a.code
    [] a.variant = "IceControlled" -> AsU16["IceControlling"]
    [] a.variant = "IceControlling" -> AsU16["IceControlled"]
    [] OTHER -> AsU16[a.variant]

\* attribute_kind and as_u16 of a decoded attribute.  ICMP is decoded as an
\* unrecognised attribute and keeps its code that way.
CodeOfAttr(a) == IF a.variant = "Unknown" THEN a.code ELSE AsU16[a.variant]

\* is_comprehension_optional.
MayBeIgnored(code) == code >= 32768

Decoded(variant, val) == [variant |-> variant, code |-> 0, val |-> val]
Unrecognised(code, val) == [variant |-> "Unknown", code |-> code, val |-> val]

--------------------------------------------------------------------------------
(* The shapes of values.                                                     *)

Xored == {"XorMappedAddress", "XorRelayedAddress", "XorPeerAddress"}   \* needs_txid
Plain == {"MappedAddress", "OtherAddress"}
Addressed == Xored \cup Plain \cup {"AlternateServer"}
Texts == {"Username", "Realm", "Nonce", "Software", "RequestedTransport", "PasswordAlgorithm",
          "AlternateDomain", "ThirdPartyAuthorization", "ExtendedCandidate",
          "ExtendedCandidateUfrag"}
Opaque == {"ReservationToken", "EvenPort", "AccessToken", "Padding"}
Errors == {"ErrorCode", "AddressErrorCode"}
FamilyOnly == {"RequestedAddressFamily", "AdditionalAddressFamily"}
Words == {"ChangeRequest", "Fingerprint", "IcePriority", "Lifetime"}   \* a u32

\* The length of the arrays, and of the attributes that are only there or not.
ArrayLen == [MessageIntegrity |-> 20, UserHash |-> 32, IceControlled |-> 8, IceControlling |-> 8,
             DontFragment |-> 0, UseCandidate |-> 0]

DataMaxLen == 511
ReasonMaxLen == 1024
BufferLen == 2048                 \* of to_value
ShaLen == 32

ConnectionIdLengths == {1, 4, 8, 16}
ShaLengths == {n \in 16 .. ShaLen : n % 4 = 0}
FirstChannel == 16384             \* 0x4000
LastChannel  == 49151             \* 0xBFFF
Channels == FirstChannel .. LastChannel

\* String::from_utf8, for octets of which no two make up a longer character.
IsUtf8(s) == \A i \in DOMAIN s : s[i] < 128

\* ErrorCode::as_u16 and validate_range.  The number may go beyond 99.
ErrorNumber(class, number) == 100 * class + number
InRange(n) == n < 700

--------------------------------------------------------------------------------
(* PASSWORD-ALGORITHMS: names separated by commas.                           *)

Comma == 44
IsSpace(octet) == octet \in 9 .. 13 \cup {32}

\* split(',').
Split(s) ==
  FoldLeft(LAMBDA parts, o : IF o = Comma THEN Append(parts, <<>>)
                             ELSE [parts EXCEPT ![Len(parts)] = Append(@, o)], <<<<>>>>, s)

\* trim.
Trim(s) ==
  LET inner == {i \in DOMAIN s : ~IsSpace(s[i])} IN
  IF inner = {} THEN <<>> ELSE SubSeq(s, Min(inner), Max(inner))

\* The names that are left when the empty ones are dropped.
Names(s) ==
  LET parts   == Split(s)
      trimmed == [i \in DOMAIN parts |-> Trim(parts[i])]
  IN  Pick(trimmed, {i \in DOMAIN trimmed : trimmed[i] # <<>>})

\* join(",").
Joined(parts) == FoldLeft(LAMBDA s, p : IF s = <<>> THEN p ELSE s \o <<Comma>> \o p, <<>>, parts)

--------------------------------------------------------------------------------
(* parse_attribute_value.                                                    *)

AddressVal(a) == <<a.family, a.port>> \o a.ip
AddressFrom(val) == [family |-> val[1], port |-> val[2], ip |-> SubSeq(val, 3, 18)]

\* The readers of an address: in the clear, masked, or with the family in front.
AddressesIn(variant, buf, txid) ==
  CASE variant \in Xored -> ReadXor(buf, txid)
    [] variant \in Plain -> ReadValue(buf)
    [] OTHER -> ReadAlternate(buf)

\* ErrorCode::read_value: the class, the number and the reason; two octets in front
\* of them are let pass.
ErrorIn(buf) ==
  IF Len(buf) >= 4 /\ InRange(ErrorNumber(buf[3], buf[4])) THEN {SubSeq(buf, 3, Len(buf))} ELSE {}

\* The values of an attribute that is no address: none if its length or what it
\* holds is not allowed.
ValuesIn(variant, buf) ==
  LET n == Len(buf)
      Taken(condition, val) == IF condition THEN {val} ELSE {}
  IN
  CASE variant \in Texts -> Taken(IsUtf8(buf), buf)
    [] variant \in Opaque -> {buf}
    [] variant \in Errors -> ErrorIn(buf)
    [] variant \in FamilyOnly -> Taken(n = 1 /\ buf \in {<<f>> : f \in Families}, buf)
    [] variant \in Words -> IF n = 4 THEN {<<Be16(buf, 1), Be16(buf, 3)>>} ELSE {}
    [] variant \in DOMAIN ArrayLen -> Taken(n = ArrayLen[variant], buf)
    [] variant = "UnknownAttributes" ->
         IF n % 2 = 0 THEN {[i \in 1 .. n \div 2 |-> Be16(buf, 2 * i - 1)]} ELSE {}
    [] variant = "MessageIntegritySha256" ->
         IF n \in ShaLengths THEN {buf \o Zeros(ShaLen - n)} ELSE {}
    [] variant = "ChannelNumber" ->
         IF n # 4 THEN {} ELSE Taken(Be16(buf, 1) \in Channels, <<Be16(buf, 1)>>)
    [] variant = "ResponsePort" -> IF n = 2 THEN {<<Be16(buf, 1)>>} ELSE {}
    [] variant = "Data" -> Taken(n <= DataMaxLen, buf)
    [] variant = "ConnectionId" -> Taken(n \in ConnectionIdLengths, buf)
    [] variant = "PasswordAlgorithms" -> Taken(IsUtf8(buf) /\ Names(buf) # <<>>, Names(buf))

ParseAttributeValue(variant, code, buf, txid) ==
  CASE variant \in {"Unknown", "Icmp"} -> {Unrecognised(code, buf)}
    [] variant \in Addressed ->
         {Decoded(variant, AddressVal(a)) : a \in AddressesIn(variant, buf, txid)}
    [] OTHER -> {Decoded(variant, val) : val \in ValuesIn(variant, buf)}

--------------------------------------------------------------------------------
(* write_attribute_value and to_value.                                       *)

OctetsOfAddress(variant, a, txid) ==
  CASE variant \in Xored -> WriteXor(a, txid)
    [] variant \in Plain -> WriteValue(a)
    [] OTHER -> WriteAlternate(a)

\* What write_attribute_value refuses whatever the buffer.
Writable(a) ==
  CASE a.variant \in Errors -> InRange(ErrorNumber(a.val[1], a.val[2])) /\ Len(a.val) - 2 <= ReasonMaxLen
    [] a.variant = "ChannelNumber" -> a.val[1] \in Channels
    [] a.variant = "Data" -> Len(a.val) <= DataMaxLen
    [] a.variant = "ConnectionId" -> Len(a.val) \in ConnectionIdLengths
    [] OTHER -> TRUE

\* The octets of a decoded attribute: most are written as they are kept.
OctetsOf(a, txid) ==
  CASE a.variant \in Addressed -> OctetsOfAddress(a.variant, AddressFrom(a.val), txid)
    [] a.variant \in Errors -> <<0, 0>> \o a.val
    [] a.variant = "ChannelNumber" -> Octets16(a.val[1]) \o <<0, 0>>
    [] a.variant \in Words \cup {"UnknownAttributes", "ResponsePort"} ->
         AllOctets16(a.val)
    [] a.variant = "PasswordAlgorithms" -> Joined(a.val)
    [] OTHER -> a.val

\* to_value: none if it is refused or does not fit the buffer.
ToValue(a, txid) ==
  {v \in {OctetsOf(a, txid)} : Writable(a) /\ Len(v) <= BufferLen}

================================================================================
