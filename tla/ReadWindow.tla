------------------------------ MODULE ReadWindow ------------------------------
(***************************************************************************)
(* How the octets of one control connection become packets: the read       *)
(* window of a connection (connmgr.rs), the read that fills it and the     *)
(* decode pass that empties it (drain_read and decode in worker.rs), and   *)
(* the RFC 4571 framing they call (framing.rs).                            *)
(*                                                                         *)
(* An octet is a number up to MaxPayload; of the two octets of a length    *)
(* prefix the first is 0 and the second is the length, so that every value *)
(* of the prefix is a legal length, as it is in the code.                  *)
(***************************************************************************)
EXTENDS Integers, Sequences, SequencesExt

CONSTANTS
  MaxPayload,   \* MAX_FRAME_PAYLOAD, the largest length a prefix declares
  Slack,        \* what FRAME_CAP adds to it
  ReadLimit,    \* READ_WINDOW, the octets one read returns at most
  DecodeBatch,  \* DECODE_BATCH
  MaxFrames     \* bound: the packets the peer sends

ASSUME WindowAssumption ==
  /\ MaxPayload \in Nat /\ Slack \in Nat /\ MaxFrames \in Nat
  /\ ReadLimit \in Nat \ {0} /\ DecodeBatch \in Nat \ {0}

PrefixLen == 2
Octets    == 0 .. MaxPayload
Payloads  == UNION {[1 .. n -> Octets] : n \in 0 .. MaxPayload}

VARIABLES
  sent,       \* history: the payloads the peer has sent
  rx,         \* kernel: octets sent and not yet read
  window,     \* Conn::read_buf[..read_len]
  delivered,  \* the payloads handed to on_tcp_stun
  dropped,    \* history: how octets and packets were lost
  lockstep    \* history: each payload was sent when all before it had been delivered

vars == <<sent, rx, window, delivered, dropped, lockstep>>

--------------------------------------------------------------------------------

SlipCountsPrefix(p) == <<0, PrefixLen + Len(p)>> \o p

\* encode: the prefix and the payload.
Encode(p) == <<0, Len(p)>> \o p

Wire(ps) == FlattenSeq([i \in DOMAIN ps |-> Encode(ps[i])])

SlipNoSlack == MaxPayload

FrameCap == MaxPayload + Slack

\* decode_with: the complete packets at the front of w, one after the other.
FramesIn(w) ==
  LET from[i \in 1 .. Len(w) + 1] ==
        IF i + 1 > Len(w) \/ i + 1 + w[i + 1] > Len(w)
        THEN <<>>
        ELSE <<SubSeq(w, i + PrefixLen, i + 1 + w[i + 1])>> \o from[i + PrefixLen + w[i + 1]]
  IN  from[1]

\* The octets of a read that fit behind the window; the others are discarded.
Fitting(n, w) == IF n <= FrameCap - Len(w) THEN n ELSE FrameCap - Len(w)

SlipNeverReset(w, consumed) == w

\* set_readable and compact_read: a pass that consumed anything moves the tail to
\* the front and leaves a window of no octets; one that did not leaves all.
Compacted(w, consumed) == IF consumed > 0 THEN <<>> ELSE w

--------------------------------------------------------------------------------

Init ==
  /\ sent = <<>> /\ rx = <<>> /\ window = <<>> /\ delivered = <<>>
  /\ dropped = {} /\ lockstep = TRUE

PeerSends(p) ==
  /\ Len(sent) < MaxFrames
  /\ sent' = Append(sent, p)
  /\ rx' = rx \o Encode(p)
  /\ lockstep' = (lockstep /\ delivered = sent)
  /\ UNCHANGED <<window, delivered, dropped>>

\* drain_read and decode on a read of n octets: TCP segments them as it likes.
DrainRead(n) ==
  LET filled   == window \o SubSeq(rx, 1, Fitting(n, window))
      packets  == FramesIn(filled)
      consumed == Len(Wire(packets))
      handed   == SubSeq(packets, 1, IF Len(packets) <= DecodeBatch THEN Len(packets) ELSE DecodeBatch)
  IN
  /\ rx' = SubSeq(rx, n + 1, Len(rx))
  /\ window' = Compacted(filled, consumed)
  /\ delivered' = delivered \o handed
  /\ dropped' = dropped
       \cup (IF Fitting(n, window) < n THEN {"overflow"} ELSE {})
       \cup (IF Len(window') < Len(filled) - consumed THEN {"tail"} ELSE {})
       \cup (IF Len(handed) < Len(packets) THEN {"batch"} ELSE {})
  /\ UNCHANGED <<sent, lockstep>>

Next ==
  \/ \E p \in Payloads : PeerSends(p)
  \/ \E n \in 1 .. (IF Len(rx) <= ReadLimit THEN Len(rx) ELSE ReadLimit) : DrainRead(n)

Spec == Init /\ [][Next]_vars

--------------------------------------------------------------------------------
(* Properties.                                                              *)

\* The window never outgrows read_buf.
TypeOK ==
  /\ sent \in Seq(Payloads) /\ delivered \in Seq(Payloads)
  /\ rx \in Seq(Octets) /\ window \in Seq(Octets) /\ Len(window) <= FrameCap
  /\ dropped \subseteq {"overflow", "tail", "batch"} /\ lockstep \in BOOLEAN

\* The window is never full of a packet that is not complete: it always has room
\* for at least one octet more, or every later read would be refused in full.
NeverWedged == Len(window) < FrameCap

\* Until something is dropped, however the stream is cut into reads, the packets
\* come out as they were sent and the octets still held are the packets to come.
InStep ==
  dropped = {} =>
    /\ delivered = SubSeq(sent, 1, Len(delivered))
    /\ window \o rx = Wire(SubSeq(sent, Len(delivered) + 1, Len(sent)))

\* A peer that waits until its packet was taken before it sends the next loses
\* nothing: each of its packets, of any legal length, arrives and only arrives.
LockstepLosesNothing ==
  lockstep =>
    /\ dropped = {}
    /\ Len(sent) - 1 <= Len(delivered)
    /\ rx = <<>> => delivered = sent

\* Packets that were sent come out of decode, whatever else their reads held: a
\* partial tail stays at the front of the window until the rest of it is read.
NoPacketLost ==
  /\ delivered = SubSeq(sent, 1, Len(delivered))
  /\ rx = <<>> => delivered = sent

================================================================================
