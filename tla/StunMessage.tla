----------------------------- MODULE StunMessage -----------------------------
(***************************************************************************)
(* The STUN codec: build_response lays a datagram out, its trailers over   *)
(* what is there so far; parse reads one; integrity and fingerprint verify *)
(* what a trailer covers.  A sender builds, the network delivers as it     *)
(* pleases, a receiver reads.                                              *)
(*                                                                         *)
(* A datagram is its recorded length, its attributes and its size.  The    *)
(* size is kept apart because octets may be missing from the last          *)
(* attribute, or follow it.  An HMAC or a CRC is the record of what it was *)
(* computed from: equal only if computed from the same.                    *)
(***************************************************************************)
EXTENDS Integers, SequencesExt, FiniteSetsExt

CONSTANTS
  Bodies,     \* attributes a sender puts in front of the trailers
  Stray,      \* attributes the network may put in
  MaxBodies,  \* bound: attributes of a message without its trailers
  MaxLength,  \* the largest message-length, u16::MAX
  Keys,       \* keys of senders and receivers; the network has none
  MaxChanges  \* bound: changes the network makes to one datagram

HeaderLen == 20
Algorithms == {"sha1", "sha256"}
CodeOf  == [sha1 |-> "integrity", sha256 |-> "integrity256"]
MacLen  == [sha1 |-> 20, sha256 |-> 32]
MacCode == {"integrity", "integrity256"}

VARIABLES
  stage,    \* of build_response: "body", "integrity", "fingerprint", "built", "refused";
            \* then "sent"
  out,      \* the datagram being built
  seen,     \* the datagram as the receiver would get it now
  changes   \* how often the network has changed it

vars == <<stage, out, seen, changes>>

--------------------------------------------------------------------------------
(* The layout.                                                              *)

SlipUnpadded(len) == 4 + len

\* attr_size: a header of four octets, the value, padding to a multiple of four.
AttrSize(len) == 4 + len + ((4 - (len % 4)) % 4)

\* The offset of the i-th attribute.
OffOf(attrs, i) ==
  HeaderLen + FoldLeft(LAMBDA n, a : n + AttrSize(a.len), 0, SubSeq(attrs, 1, i - 1))

EndOf(attrs) == OffOf(attrs, Len(attrs) + 1)

\* A datagram of these attributes with the length that describes it.
WithLength(attrs) == [rec |-> EndOf(attrs) - HeaderLen, attrs |-> attrs, size |-> EndOf(attrs)]

SlipUnchecked(d) == TRUE

\* set_length writes the length back only if it fits the field.
SetLength(d) == d.size - HeaderLen <= MaxLength

--------------------------------------------------------------------------------
(* What the trailers cover.                                                 *)

SlipRecorded(d, i, alg) == [rec |-> d.rec, attrs |-> SubSeq(d.attrs, 1, i - 1)]

SlipOneShort(d, i, alg) ==
  [rec |-> OffOf(d.attrs, i) + 4 + MacLen[alg] - HeaderLen, attrs |-> SubSeq(d.attrs, 1, i - 2)]

\* mac_input: all in front of the i-th attribute, the length field as if the
\* message ended with it.
MacInput(d, i, alg) ==
  [rec |-> OffOf(d.attrs, i) + 4 + MacLen[alg] - HeaderLen, attrs |-> SubSeq(d.attrs, 1, i - 1)]

Hmac(alg, key, input) == [alg |-> alg, key |-> key, over |-> input]

SlipIntegrityOnly(d, i) ==
  [rec |-> d.rec, attrs |-> SelectSeq(SubSeq(d.attrs, 1, i - 1), LAMBDA a : a.code \notin MacCode)]

\* Fingerprint::over: all in front of the i-th attribute, the length as it is.
CrcInput(d, i) == [rec |-> d.rec, attrs |-> SubSeq(d.attrs, 1, i - 1)]

\* integrity::verify of the i-th attribute.  It compares as many octets as the
\* algorithm has from where the value begins, whatever length the attribute gives.
IntegrityHolds(d, i, alg, key) ==
  /\ OffOf(d.attrs, i) + 4 + MacLen[alg] <= d.size /\ d.rec + HeaderLen = d.size
  /\ d.attrs[i].val = Hmac(alg, key, MacInput(d, i, alg))

\* fingerprint::verify of the i-th attribute.
FingerprintHolds(d, i) ==
  /\ OffOf(d.attrs, i) + 8 <= d.size /\ d.rec + HeaderLen = d.size
  /\ d.attrs[i].val = CrcInput(d, i)

--------------------------------------------------------------------------------
(* Reading.                                                                 *)

At(d, codes) == {i \in DOMAIN d.attrs : d.attrs[i].code \in codes}

\* parse_attribute_value: the lengths it takes.  The text attributes take any.
ValueLengths ==
  [software |-> 0 .. MaxLength, priority |-> {4}, foreign |-> 0 .. MaxLength,
   optional |-> 0 .. MaxLength, integrity |-> {20},
   integrity256 |-> {n \in 16 .. 32 : n % 4 = 0}, fingerprint |-> {4}]

\* A sender writes attributes it knows, by their own lengths, and no trailer among
\* them.  What the network puts in holds octets of its own choice, never a tag.
ASSUME CodecAssumption ==
  /\ MaxLength \in Nat /\ MaxChanges \in Nat
  /\ Bodies \subseteq [code : DOMAIN ValueLengths \ (MacCode \cup {"fingerprint", "foreign"}),
                       len : Nat, val : [octets : STRING]]
  /\ \A a \in Bodies : a.len \in ValueLengths[a.code]
  /\ Stray \subseteq [code : DOMAIN ValueLengths, len : Nat, val : [octets : STRING]]

\* AttributeLocation::algorithm and is_last, of the i-th attribute.
AlgorithmOf(d, i) ==
  {alg \in Algorithms : d.attrs[i].code = CodeOf[alg] /\ d.attrs[i].len \in ValueLengths[CodeOf[alg]]}
IsLast(d, i) == OffOf(d.attrs, i) + AttrSize(d.attrs[i].len) = d.size

SlipManyTags(d) ==
  /\ d.size = HeaderLen + d.rec
  /\ EndOf(d.attrs) = d.size
  /\ \A i \in DOMAIN d.attrs :
       d.attrs[i].code # "foreign" /\ d.attrs[i].len \in ValueLengths[d.attrs[i].code]
  /\ \A i \in At(d, {"fingerprint"}) : OffOf(d.attrs, i) + 8 = d.size

\* parse: which datagrams it takes.  "foreign" stands for the codes it does not
\* know and has to, "optional" for those it may ignore.
Accepts(d) ==
  /\ d.size = HeaderLen + d.rec
  /\ EndOf(d.attrs) = d.size
  /\ \A i \in DOMAIN d.attrs :
       d.attrs[i].code # "foreign" /\ d.attrs[i].len \in ValueLengths[d.attrs[i].code]
  /\ Cardinality(At(d, MacCode)) <= 1
  /\ \A i \in At(d, {"fingerprint"}) : OffOf(d.attrs, i) + 8 = d.size

\* The trailer locations parse leaves in the Message, 0 for None: the one it meets,
\* as it refuses a second.
Located(d, codes) == IF At(d, codes) = {} THEN 0 ELSE Max(At(d, codes))

\* A walk by lengths alone: it meets the first attribute of I, or none at all.
FirstOf(d, I) ==
  IF d.rec + HeaderLen # d.size \/ I = {} \/ OffOf(d.attrs, Min(I) + 1) > d.size THEN 0 ELSE Min(I)

\* integrity::attribute_offset and fingerprint::attribute_offset.
FirstTag(d)         == FirstOf(d, At(d, MacCode))
FirstFingerprint(d) == FirstOf(d, {i \in At(d, {"fingerprint"}) : d.attrs[i].len = 4})

--------------------------------------------------------------------------------
(* build_response.  A step that fails ends it, with nothing sent.            *)

Init ==
  /\ stage = "body" /\ out = WithLength(<<>>)
  /\ seen = WithLength(<<>>) /\ changes = 0

\* The message becomes d, unless its length cannot be written.
Become(d, next) ==
  /\ IF SetLength(d) THEN out' = d /\ stage' = next
                    ELSE out' = out /\ stage' = "refused"
  /\ UNCHANGED <<seen, changes>>

\* emit_attribute for one entry of attrs; the length is only written after the last.
EmitAttribute(a) ==
  /\ stage = "body" /\ Len(out.attrs) < MaxBodies
  /\ out' = WithLength(Append(out.attrs, a))
  /\ UNCHANGED <<stage, seen, changes>>

BodyDone == stage = "body" /\ Become(out, "integrity")

\* A blank trailer for the length to count.
WithTrailer(code, len) ==
  WithLength(Append(out.attrs, [code |-> code, len |-> len, val |-> [octets |-> "zero"]]))

\* integrity::compute and fingerprint::compute, of the last attribute.
Tagged(d, alg, key) ==
  LET i == Len(d.attrs) IN [d EXCEPT !.attrs[i].val = Hmac(alg, key, MacInput(d, i, alg))]
Fingerprinted(d) ==
  LET i == Len(d.attrs) IN [d EXCEPT !.attrs[i].val = CrcInput(d, i)]

AddIntegrity(alg, key) ==
  /\ stage = "integrity"
  /\ Become(Tagged(WithTrailer(CodeOf[alg], MacLen[alg]), alg, key), "fingerprint")

NoIntegrity == stage = "integrity" /\ stage' = "fingerprint" /\ UNCHANGED <<out, seen, changes>>

AddFingerprint ==
  /\ stage = "fingerprint"
  /\ Become(Fingerprinted(WithTrailer("fingerprint", 4)), "built")

NoFingerprint == stage = "fingerprint" /\ stage' = "built" /\ UNCHANGED <<out, seen, changes>>

--------------------------------------------------------------------------------
(* The network, which holds no key.                                          *)

Send == stage = "built" /\ stage' = "sent" /\ seen' = out /\ UNCHANGED <<out, changes>>

\* Other attributes: one gone, one put in, one with another value, two exchanged.
Rearranged(attrs) ==
  LET n == Len(attrs) IN
  {RemoveAt(attrs, i) : i \in 1 .. n}
  \cup {InsertAt(attrs, i, a) : i \in 1 .. n + 1, a \in Stray}
  \cup {[attrs EXCEPT ![i].val = [octets |-> "other"]] : i \in 1 .. n}
  \cup {[attrs EXCEPT ![i] = attrs[i + 1], ![i + 1] = attrs[i]] : i \in 1 .. n - 1}

\* The first s octets: the attributes whose header is among them.
CutTo(d, s) ==
  [d EXCEPT !.size = s,
            !.attrs = SubSeq(@, 1, Cardinality({i \in DOMAIN @ : OffOf(@, i) + 4 <= s}))]

Change ==
  /\ stage = "sent" /\ changes < MaxChanges
  /\ \E d \in {WithLength(attrs) : attrs \in Rearranged(seen.attrs)}
             \cup {CutTo(seen, s) : s \in HeaderLen .. seen.size - 1}
             \cup {[seen EXCEPT !.size = @ + n] : n \in 1 .. 3} :
        \/ seen' = d
        \/ seen' = [d EXCEPT !.rec = seen.rec]
        \/ seen' = [d EXCEPT !.rec = d.size - HeaderLen]
  /\ changes' = changes + 1
  /\ UNCHANGED <<stage, out>>

Next ==
  \/ \E a \in Bodies : EmitAttribute(a)
  \/ BodyDone
  \/ \E alg \in Algorithms, key \in Keys : AddIntegrity(alg, key)
  \/ NoIntegrity \/ AddFingerprint \/ NoFingerprint
  \/ Send \/ Change

Spec == Init /\ [][Next]_vars

--------------------------------------------------------------------------------
(* Properties.                                                              *)

\* What build_response returns has a length its field can hold, and the length is
\* that of the datagram.
TypeOK ==
  /\ stage \in {"body", "integrity", "fingerprint", "built", "refused", "sent"}
  /\ out = WithLength(out.attrs)
  /\ stage \in {"integrity", "fingerprint", "built", "sent"} => out.rec \in 0 .. MaxLength
  /\ \A a \in Range(seen.attrs) : a.code \in DOMAIN ValueLengths /\ a.len \in Nat
  /\ seen.rec \in Nat /\ seen.size \in Nat /\ changes \in 0 .. MaxChanges

\* parse takes whatever build_response made of attributes it knows, and finds its
\* trailers sound: the integrity under the key it was built with and no other,
\* although the length in the header has grown since by the fingerprint.
BuiltIsRead ==
  stage = "built" =>
    /\ Accepts(out)
    /\ \A i \in At(out, MacCode) : AlgorithmOf(out, i) # {}
    /\ \A i \in At(out, MacCode) : \A alg \in AlgorithmOf(out, i), key \in Keys :
         IntegrityHolds(out, i, alg, key) <=> key = out.attrs[i].val.key
    /\ \A i \in At(out, {"fingerprint"}) : FingerprintHolds(out, i)

\* In a message parse takes, all that stands in front of a tag that verifies was
\* put there by the sender, and nothing stands behind one that is_last: the tag
\* parse reports, under the algorithm its location tells, is the one its order is
\* bound to (integrity_location, algorithm, verify).
SignedIsSent ==
  LET i == Located(seen, MacCode) IN
  Accepts(seen) /\ i # 0 =>
    \A alg \in AlgorithmOf(seen, i), key \in Keys :
      IntegrityHolds(seen, i, alg, key) =>
        /\ SubSeq(seen.attrs, 1, i) = SubSeq(out.attrs, 1, i)
        /\ IsLast(seen, i) => seen = WithLength(SubSeq(out.attrs, 1, i))

\* A message parse takes with a fingerprint that verifies is the one that was sent,
\* to the last attribute.
FingerprintWhole ==
  LET i == Located(seen, {"fingerprint"}) IN
  Accepts(seen) /\ i # 0 /\ FingerprintHolds(seen, i) => seen = out

\* The walks for trailers, meant for messages not yet parsed, end at the very
\* attributes parse reports: what is verified is what is used.
WalksAgree ==
  Accepts(seen) => /\ FirstTag(seen) = Located(seen, MacCode)
                   /\ FirstFingerprint(seen) = Located(seen, {"fingerprint"})

================================================================================
