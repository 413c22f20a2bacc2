------------------------------ MODULE ControlPath ------------------------------
(***************************************************************************)
(* One worker thread of QuickRelay (crates/quickrelay-transport,           *)
(* worker.rs), the table of TCP control connections it owns (connmgr.rs)   *)
(* and the handler it calls (crates/quickrelay-server, binding_chain.rs):  *)
(* accept, read, answer, queue the answer in the outbox, move it into the  *)
(* connection's write buffer, write it, and cut the connection.            *)
(*                                                                         *)
(* The worker is one thread; every step of it that ends in a system call   *)
(* is one action, and the peers, the network, the clock and the control    *)
(* thread act between any two of them.  The poller is edge-triggered       *)
(* (mio): a source is reported once after something happened on it, or     *)
(* after its registration was renewed, and not again until then.           *)
(*                                                                         *)
(* A frame is one unit of a connection's input: how octets become frames   *)
(* is module ReadWindow.  What a reply says, and that a retransmission     *)
(* gets the same one, is module TransactionCache.                          *)
(***************************************************************************)
EXTENDS Queues

CONSTANTS
  MaxConns,      \* the connection ids alloc hands out before it fails, max_conns() + 1
  MaxReq,        \* bound: the frames one peer sends on one connection
  MaxBacklog,    \* bound: handshakes the kernel holds for the listener
  MaxTicks,      \* WorkerConfig::max_ticks, 0 for None
  QueueCap,      \* REPLY_QUEUE_CAP
  AcceptBatch,   \* ACCEPT_BATCH
  ReadBatch,     \* the frames one read of READ_WINDOW octets returns
  DecodeBatch,   \* DECODE_BATCH
  Happens,       \* bound: which of the outside events an instance considers
  SendBuf,       \* the pieces the kernel's send buffer holds
  Pieces         \* the pieces of one framed reply that one write may split it into

ASSUME ConstantsAssumption ==
  /\ MaxConns \in Nat /\ MaxReq \in Nat /\ MaxBacklog \in Nat /\ MaxTicks \in Nat
  /\ QueueCap \in Nat \ {0} /\ AcceptBatch \in Nat \ {0} /\ ReadBatch \in Nat \ {0}
  /\ Happens \subseteq {"udp", "stop", "expiry", "end", "failure"}
  /\ DecodeBatch \in Nat \ {0} /\ SendBuf \in Nat \ {0} /\ Pieces \in Nat \ {0}

Id    == 0 .. MaxConns - 1
Frame == [no : 1 .. MaxReq, ask : BOOLEAN]   \* ask: a Binding request the handler answers
Reply == [id : Id, no : 1 .. MaxReq]
Piece == [no : 1 .. MaxReq, part : 1 .. Pieces]
Event == [id : Id, r : BOOLEAN, w : BOOLEAN, gone : BOOLEAN]
Misc  == {"udp", "wake", "listen"}           \* the fixed tokens

VARIABLES
  pc,        \* where the loop stands
  ticks,     \* WorkerStats::ticks, counted only when MaxTicks bounds it
  woken,     \* the wake token was among this tick's events
  due,       \* fixed tokens of this tick still to be handled
  hits,      \* connection events of this tick still to be looked at
  ready,     \* the ready list: connection events to be served, in order
  stop,      \* StopRequest::pending
  nextId,    \* ConnMgr::next_id
  table,     \* the ids whose slot in ConnMgr::conns is occupied
  halfOpen,  \* the connections that have not sent an octet yet
  late,      \* the connections whose reclaim deadline has passed
  wbuf,      \* Conn::write_buf[..write_len], as the pieces left to write
  arm,       \* Conn::pending_write, which is also the registered write interest
  known,     \* BindingHandler::conns
  outbox,    \* BindingHandler::outbox
  kept,      \* history: the replies the outbox has accepted
  backlog,   \* kernel: handshakes waiting for accept
  sock,      \* kernel: what the peer has done to the connection
  sent,      \* the number of frames the peer has sent
  rx,        \* kernel: frames that arrived and were not read
  wire,      \* every piece the worker has written on the connection
  taken,     \* how many of those the peer has received
  edge,      \* poller: connections with an event to report
  misc       \* poller: fixed tokens with an event to report

loopVars == <<pc, ticks, woken, due, hits, ready>>
connVars == <<nextId, table, halfOpen, late, wbuf, arm>>
handlerVars == <<known, outbox, kept>>
peerVars == <<backlog, sock, sent, rx, wire, taken>>
pollVars == <<edge, misc>>
vars == <<loopVars, stop, connVars, handlerVars, peerVars, pollVars>>

--------------------------------------------------------------------------------
(* Helpers.  An operator named Slip... is a mistake the one after it could make; *)
(* nothing uses it but the mutants PROJECT.json lists.                      *)

Least(a, b) == IF a <= b THEN a ELSE b

SlipUncapped(q, rs) == q \o rs

SlipOldestOut(q, rs) ==
  SubSeq(q \o rs, Len(q \o rs) - Least(Len(q \o rs), QueueCap) + 1, Len(q \o rs))

\* The queue with the replies rs put at its back, those past the cap dropped.
Enqueue(q, rs) == SubSeq(q \o rs, 1, Least(Len(q \o rs), QueueCap))

SlipAcceptOne == Least(backlog, 1)

\* The handshakes one call of accept_all takes off the listener.
Accepted == Least(backlog, AcceptBatch)

\* The frames one read of c returns.
ReadNow(c) == Least(ReadBatch, Len(rx[c]))

FrameOf(no) == [p \in 1 .. Pieces |-> [no |-> no, part |-> p]]

Room(c) == SendBuf - (Len(wire[c]) - taken[c])

\* What the poller finds on c: octets or an end of stream to read, room to write.
Readable(c) == rx[c] # <<>> \/ sock[c] \in {"fin", "rst"}
Writable(c) == Room(c) > 0 \/ sock[c] = "rst"

SlipResetOnly(c) == sock[c] = "rst"

\* An event of c with one of these flags cuts the connection.
Gone(c) == sock[c] \in {"fin", "rst"}

\* The event the poller makes of c, and the events and fixed tokens it has to
\* report: what was drained since the edge is not reported again.
EventOf(c) == [id |-> c, r |-> Readable(c), w |-> arm[c] /\ Writable(c), gone |-> Gone(c)]
ConnEvents == {h \in {EventOf(c) : c \in edge} : h.r \/ h.w \/ h.gone}
MiscEvents == IF backlog = 0 THEN misc \ {"listen"} ELSE misc

SlipWakeOnly == FALSE

StopRequested == stop

SlipHalfOpenOnly == late \cap halfOpen

\* The connections reclaim cuts.
Doomed == late

SlipAnyBuffer(c) == TRUE

\* The outbox only ever lends an empty write buffer.
CanWrite(c) == wbuf[c] = <<>>

SlipNoModify(c) == UNCHANGED edge

\* The registration of c is renewed after the step: an event is due if there is
\* anything to report now.
Renew(c) ==
  edge' = IF (Readable(c) \/ (arm[c] /\ Writable(c)))' THEN edge \cup {c} ELSE edge

EndTick ==
  /\ ticks' = IF MaxTicks = 0 THEN ticks ELSE ticks + 1
  /\ pc' = IF MaxTicks > 0 /\ ticks + 1 >= MaxTicks THEN "stopped" ELSE "top"

SlipForgetId(D) == known' = known \ D /\ UNCHANGED <<outbox, kept>>

\* The handler forgets the connections of D and every reply queued for them.
Forget(D) ==
  /\ known' = known \ D
  /\ outbox' = Pick(outbox, {i \in DOMAIN outbox : outbox[i].id \notin D})
  /\ kept' = {m \in kept : m.id \notin D}

\* The connections of D leave the table and are closed, and the handler is told.
Cut(D) ==
  /\ table' = table \ D
  /\ halfOpen' = halfOpen \ D
  /\ late' = late \ D
  /\ wbuf' = [c \in Id |-> IF c \in D THEN <<>> ELSE wbuf[c]]
  /\ arm' = [c \in Id |-> arm[c] /\ c \notin D]
  /\ Forget(D)
  /\ sock' = [c \in Id |-> IF c \in D THEN "closed" ELSE sock[c]]
  /\ rx' = [c \in Id |-> IF c \in D THEN <<>> ELSE rx[c]]
  /\ wire' = [c \in Id |-> IF c \in D THEN <<>> ELSE wire[c]]
  /\ taken' = [c \in Id |-> IF c \in D THEN 0 ELSE taken[c]]
  /\ edge' = edge \ D
  /\ UNCHANGED <<nextId, stop, backlog, sent, misc>>

--------------------------------------------------------------------------------
(* The head of the loop and the poll.                                       *)

Init ==
  /\ pc = "top" /\ ticks = 0 /\ woken = FALSE
  /\ due = {} /\ hits = {} /\ ready = <<>>
  /\ stop = FALSE
  /\ nextId = 0 /\ table = {} /\ halfOpen = {} /\ late = {}
  /\ wbuf = [c \in Id |-> <<>>] /\ arm = [c \in Id |-> FALSE]
  /\ known = {} /\ outbox = <<>> /\ kept = {}
  /\ backlog = 0
  /\ sock = [c \in Id |-> "none"] /\ sent = [c \in Id |-> 0]
  /\ rx = [c \in Id |-> <<>>] /\ wire = [c \in Id |-> <<>>] /\ taken = [c \in Id |-> 0]
  /\ edge = {} /\ misc = {}

StopAtTop ==
  /\ pc = "top" /\ StopRequested
  /\ pc' = "stopped"
  /\ UNCHANGED <<ticks, woken, due, hits, ready, stop, connVars, handlerVars, peerVars, pollVars>>

Reclaim ==
  /\ pc = "top" /\ ~StopRequested
  /\ Cut(Doomed)
  /\ pc' = "poll"
  /\ UNCHANGED <<ticks, woken, due, hits, ready>>

\* The poll returns an error: the loop ends.
PollFails ==
  /\ pc = "poll" /\ "failure" \in Happens
  /\ pc' = "stopped"
  /\ UNCHANGED <<ticks, woken, due, hits, ready, stop, connVars, handlerVars, peerVars, pollVars>>

\* The poll timed out, at the next expiry or the tick budget: nothing is drained.
PollEmpty ==
  /\ pc = "poll" /\ ConnEvents = {} /\ MiscEvents = {}
  /\ IF StopRequested THEN pc' = "stopped" /\ UNCHANGED ticks ELSE EndTick
  /\ edge' = {} /\ misc' = {}
  /\ UNCHANGED <<woken, due, hits, ready, stop, connVars, handlerVars, peerVars>>

\* Handling the wake token is only noting it.  Whoever posts it has raised the flag,
\* and the flag is read first, so no tick ever gets as far as acting on the note.
PollEvents ==
  /\ pc = "poll" /\ (ConnEvents # {} \/ MiscEvents # {})
  /\ pc' = IF StopRequested THEN "stopped" ELSE "events"
  /\ due' = MiscEvents \ {"wake"} /\ hits' = ConnEvents
  /\ woken' = ("wake" \in MiscEvents)
  /\ edge' = {} /\ misc' = {}
  /\ UNCHANGED <<ticks, ready, stop, connVars, handlerVars, peerVars>>

--------------------------------------------------------------------------------
(* The events of one tick.  The fixed tokens are handled on the spot, a      *)
(* connection's event is filed in the ready list or cuts the connection.     *)

\* drain_udp: the datagram path shares nothing with the connections.
EventUdp ==
  /\ pc = "events" /\ "udp" \in due
  /\ due' = due \ {"udp"}
  /\ UNCHANGED <<pc, ticks, woken, hits, ready, stop, connVars, handlerVars, peerVars, pollVars>>

\* drain_accepts.  An accept that fails part way loses the streams the same call
\* had taken; otherwise every stream gets an id while there are ids left, and
\* is kept unless the poller refuses it.
EventListen ==
  LET fresh == nextId .. Least(nextId + Accepted, MaxConns) - 1 IN
  /\ pc = "events" /\ "listen" \in due
  /\ due' = due \ {"listen"}
  /\ \/ /\ "failure" \in Happens
        /\ \E n \in 0 .. Accepted : backlog' = backlog - n
        /\ UNCHANGED <<nextId, table, halfOpen, known, sock>>
     \/ /\ backlog' = backlog - Accepted
        /\ nextId' = Least(nextId + Accepted, MaxConns)
        /\ \E live \in IF "failure" \in Happens THEN SUBSET fresh ELSE {fresh} :
             /\ table' = table \cup live
             /\ halfOpen' = halfOpen \cup live
             /\ known' = known \cup live
             /\ sock' = [c \in Id |-> IF c \in live THEN "open" ELSE sock[c]]
  /\ UNCHANGED <<pc, ticks, woken, hits, ready, stop, late, wbuf, arm, outbox, kept,
                 sent, rx, wire, taken, pollVars>>

EventConn(h) ==
  /\ pc = "events" /\ h \in hits /\ ~h.gone
  /\ hits' = hits \ {h}
  /\ ready' = Append(ready, h)
  /\ UNCHANGED <<pc, ticks, woken, due, stop, connVars, handlerVars, peerVars, pollVars>>

EventGone(h) ==
  /\ pc = "events" /\ h \in hits /\ h.gone
  /\ hits' = hits \ {h}
  /\ Cut({h.id} \cap table)
  /\ UNCHANGED <<pc, ticks, woken, due, ready>>

EventsDone ==
  /\ pc = "events" /\ due = {} /\ hits = {}
  /\ pc' = IF woken THEN "stopped" ELSE "ready"
  /\ UNCHANGED <<ticks, woken, due, hits, ready, stop, connVars, handlerVars, peerVars, pollVars>>

--------------------------------------------------------------------------------
(* The ready list: read first, then write, one connection after the other.  *)

AtReady == pc = "ready" /\ ready # <<>>
Here    == Head(ready).id

\* The connection was cut earlier in the tick, or both its edges are served.
SkipReady ==
  /\ AtReady
  /\ Here \notin table \/ (~Head(ready).r /\ ~Head(ready).w)
  /\ ready' = Tail(ready)
  /\ UNCHANGED <<pc, ticks, woken, due, hits, stop, connVars, handlerVars, peerVars, pollVars>>

\* drain_read, decode and on_tcp_stun: one read, the frames it returned, of which
\* the decoder hands over DecodeBatch at most, and the replies they call for.
\* A read that would block cannot happen: nothing else consumes what was reported.
ReadFrames(c) ==
  LET frames == SubSeq(rx[c], 1, Least(ReadNow(c), DecodeBatch))
      asks   == Pick(frames, {i \in DOMAIN frames : frames[i].ask /\ c \in known})
      owed   == [i \in DOMAIN asks |-> [id |-> c, no |-> asks[i].no]]
  IN
  /\ AtReady /\ c = Here /\ Head(ready).r
  /\ rx[c] # <<>>
  /\ rx' = [rx EXCEPT ![c] = SubSeq(@, ReadNow(c) + 1, Len(@))]
  /\ halfOpen' = halfOpen \ {c} /\ late' = late \ {c}
  /\ outbox' = Enqueue(outbox, owed)
  /\ kept' = kept \cup {outbox'[i] : i \in DOMAIN outbox'}
  /\ ready' = <<[id |-> c, r |-> FALSE, w |-> Head(ready).w, gone |-> FALSE]>> \o Tail(ready)
  /\ UNCHANGED <<pc, ticks, woken, due, hits, stop, nextId, table, wbuf, arm, known,
                 backlog, sock, sent, wire, taken, pollVars>>

\* drain_read on a stream that ended or was reset.
ReadEnds(c) ==
  /\ AtReady /\ c = Here /\ Head(ready).r
  /\ \/ rx[c] = <<>> /\ sock[c] = "fin"
     \/ sock[c] = "rst"
  /\ Cut({c})
  /\ ready' = Tail(ready)
  /\ UNCHANGED <<pc, ticks, woken, due, hits>>

\* drain_write: what is left of the frame goes out as far as the kernel takes it,
\* and the registration follows what remains.
WritePieces(c) ==
  /\ AtReady /\ c = Here /\ ~Head(ready).r /\ Head(ready).w
  /\ sock[c] # "rst" \/ wbuf[c] = <<>>
  /\ \E n \in (IF Room(c) = 0 \/ wbuf[c] = <<>> THEN {0} ELSE 1 .. Least(Room(c), Len(wbuf[c]))) :
       /\ wire' = [wire EXCEPT ![c] = @ \o SubSeq(wbuf[c], 1, n)]
       /\ wbuf' = [wbuf EXCEPT ![c] = SubSeq(@, n + 1, Len(@))]
       /\ late' = IF n > 0 /\ c \notin halfOpen THEN late \ {c} ELSE late
  /\ arm' = [arm EXCEPT ![c] = wbuf'[c] # <<>>]
  /\ ready' = Tail(ready)
  /\ UNCHANGED <<pc, ticks, woken, due, hits, stop, nextId, table, halfOpen, handlerVars,
                 backlog, sock, sent, rx, taken, misc>>
  /\ Renew(c)

WriteFails(c) ==
  /\ AtReady /\ c = Here /\ ~Head(ready).r /\ Head(ready).w
  /\ sock[c] = "rst" /\ wbuf[c] # <<>>
  /\ Cut({c})
  /\ ready' = Tail(ready)
  /\ UNCHANGED <<pc, ticks, woken, due, hits>>

ReadyDone ==
  /\ pc = "ready" /\ ready = <<>>
  /\ pc' = "replies"
  /\ UNCHANGED <<ticks, woken, due, hits, ready, stop, connVars, handlerVars, peerVars, pollVars>>

--------------------------------------------------------------------------------
(* drain_replies, one turn of its loop per action.  Its case for a reply whose *)
(* connection is gone is no action: HandlerTracksTable shows it never arises.  *)

AtReplies == pc = "replies" /\ outbox # <<>>

RepliesDone ==
  /\ pc = "replies" /\ outbox = <<>>
  /\ EndTick
  /\ UNCHANGED <<woken, due, hits, ready, stop, connVars, handlerVars, peerVars, pollVars>>

\* can_write and take_write: the reply moves into the empty write buffer.
TakeReply(c) ==
  /\ AtReplies /\ c = Head(outbox).id /\ CanWrite(c)
  /\ outbox' = Tail(outbox)
  /\ wbuf' = [wbuf EXCEPT ![c] = FrameOf(Head(outbox).no)]
  /\ arm' = [arm EXCEPT ![c] = TRUE]
  /\ UNCHANGED <<loopVars, stop, nextId, table, halfOpen, late, known, kept, peerVars, misc>>
  /\ Renew(c)

SlipNoBreak(c) ==
  /\ AtReplies /\ c = Head(outbox).id /\ ~CanWrite(c)
  /\ outbox' = Enqueue(Tail(outbox), <<Head(outbox)>>)
  /\ UNCHANGED <<loopVars, stop, connVars, known, kept, peerVars, pollVars>>

\* The buffer still holds the previous reply: this one goes to the back and the
\* rest of the outbox waits for the next tick that drains it.
RequeueReply(c) ==
  /\ AtReplies /\ c = Head(outbox).id /\ ~CanWrite(c)
  /\ outbox' = Enqueue(Tail(outbox), <<Head(outbox)>>)
  /\ EndTick
  /\ UNCHANGED <<woken, due, hits, ready, stop, connVars, known, kept, peerVars, pollVars>>

--------------------------------------------------------------------------------
(* The peers, the kernel, the clock and the control thread.                 *)

workerVars == <<loopVars, nextId, table, halfOpen, wbuf, arm, handlerVars>>

PeerConnects ==
  /\ backlog < MaxBacklog
  /\ backlog' = backlog + 1
  /\ misc' = misc \cup {"listen"}
  /\ UNCHANGED <<workerVars, stop, late, sock, sent, rx, wire, taken, edge>>

PeerSends(c) ==
  /\ sock[c] = "open" /\ sent[c] < MaxReq
  /\ sent' = [sent EXCEPT ![c] = @ + 1]
  /\ \E ask \in BOOLEAN : rx' = [rx EXCEPT ![c] = Append(@, [no |-> sent[c] + 1, ask |-> ask])]
  /\ edge' = edge \cup {c}
  /\ UNCHANGED <<workerVars, stop, late, backlog, sock, wire, taken, misc>>

PeerEnds(c) ==
  /\ "end" \in Happens /\ sock[c] \in {"open", "fin"}
  /\ \E how \in {"fin", "rst"} \ {sock[c]} : sock' = [sock EXCEPT ![c] = how]
  /\ edge' = edge \cup {c}
  /\ UNCHANGED <<workerVars, stop, late, backlog, sent, rx, wire, taken, misc>>

\* The peer takes a piece, which makes room: an edge if the worker waits for it.
PeerReceives(c) ==
  /\ sock[c] \in {"open", "fin"} /\ taken[c] < Len(wire[c])
  /\ taken' = [taken EXCEPT ![c] = @ + 1]
  /\ edge' = IF arm[c] THEN edge \cup {c} ELSE edge
  /\ UNCHANGED <<workerVars, stop, late, backlog, sock, sent, rx, wire, misc>>

\* A datagram arrives.
UdpArrives ==
  /\ "udp" \in Happens \ misc
  /\ misc' = misc \cup {"udp"}
  /\ UNCHANGED <<workerVars, stop, late, peerVars, edge>>

\* The idle or half-open deadline of c passes.
Expire(c) ==
  /\ "expiry" \in Happens /\ c \in table \ late
  /\ late' = late \cup {c}
  /\ UNCHANGED <<workerVars, stop, peerVars, pollVars>>

\* WorkerWake::wake raises the flag first; the wake it posts may be late or lost.
RequestStop ==
  /\ "stop" \in Happens /\ ~stop
  /\ stop' = TRUE
  /\ UNCHANGED <<workerVars, late, peerVars, pollVars>>

PostWake ==
  /\ stop /\ "wake" \notin misc
  /\ misc' = misc \cup {"wake"}
  /\ UNCHANGED <<workerVars, stop, late, peerVars, edge>>

--------------------------------------------------------------------------------

Tick ==
  \/ StopAtTop \/ Reclaim
  \/ PollFails \/ PollEmpty \/ PollEvents
  \/ EventUdp \/ EventListen \/ EventsDone
  \/ \E h \in hits : EventConn(h) \/ EventGone(h)
  \/ SkipReady \/ ReadyDone \/ RepliesDone
  \/ \E c \in table :
       \/ ReadFrames(c) \/ ReadEnds(c) \/ WritePieces(c) \/ WriteFails(c)
       \/ TakeReply(c) \/ RequeueReply(c)

Outside ==
  \/ PeerConnects \/ UdpArrives \/ RequestStop \/ PostWake
  \/ \E c \in Id : PeerSends(c) \/ PeerEnds(c) \/ PeerReceives(c) \/ Expire(c)

\* The loop returned: its worker does nothing more.
Returned == pc = "stopped" /\ UNCHANGED vars

Next == Tick \/ Outside \/ Returned

Spec == Init /\ [][Next]_vars

\* The worker is never parked for good: its poll has a deadline.  A peer that
\* keeps its end open keeps receiving.  Nothing is assumed of what peers send.
FairSpec ==
  /\ Spec
  /\ WF_vars(Tick)
  /\ \A c \in Id : WF_vars(PeerReceives(c))
--------------------------------------------------------------------------------
(* Properties.                                                              *)

\* Every variable keeps its type: the outbox never outgrows its cap, ids and
\* flags stay in range.
TypeOK ==
  /\ pc \in {"top", "poll", "events", "ready", "replies", "stopped"}
  /\ ticks \in Nat /\ woken \in BOOLEAN /\ stop \in BOOLEAN
  /\ due \subseteq Misc /\ hits \subseteq Event /\ ready \in Seq(Event)
  /\ nextId \in 0 .. MaxConns
  /\ table \subseteq Id /\ halfOpen \subseteq Id /\ late \subseteq Id
  /\ wbuf \in [Id -> Seq(Piece)] /\ arm \in [Id -> BOOLEAN]
  /\ known \subseteq Id /\ outbox \in Seq(Reply) /\ kept \subseteq Reply
  /\ Len(outbox) <= QueueCap
  /\ backlog \in 0 .. MaxBacklog
  /\ sock \in [Id -> {"none", "open", "fin", "rst", "closed"}]
  /\ sent \in [Id -> 0 .. MaxReq] /\ rx \in [Id -> Seq(Frame)]
  /\ wire \in [Id -> Seq(Piece)] /\ taken \in [Id -> Nat]
  /\ edge \subseteq Id /\ misc \subseteq Misc

\* The handler and the worker, which keep separate records of the connections,
\* agree on which are alive after every step, and no queued reply is for another
\* one: the "went away between the reply and now" case of drain_replies and the
\* "connection is gone" case of on_tcp_stun never happen.
HandlerTracksTable ==
  /\ known = table
  /\ \A i \in DOMAIN outbox : outbox[i].id \in table
  /\ \A c \in table : c < nextId /\ sock[c] \in {"open", "fin", "rst"}

\* Everything written on a connection or about to be.
Stream(c) == wire[c] \o wbuf[c]

\* However the kernel splits the writes and whatever is queued meanwhile, what a
\* connection carries is whole frames one after the other: take_write never
\* overwrites or interleaves a frame that drain_write has only partly written.
WholeFrames ==
  \A c \in table :
    /\ Len(Stream(c)) % Pieces = 0
    /\ \A i \in DOMAIN Stream(c) :
         /\ Stream(c)[i].part = ((i - 1) % Pieces) + 1
         /\ Stream(c)[i].part > 1 => Stream(c)[i].no = Stream(c)[i - 1].no

\* Each reply the outbox accepted is, as long as its connection lives, in exactly
\* one place: queued once, or once in what the connection carries, which carries
\* no other.  Putting a reply back (queue_reply) neither loses nor doubles it, at
\* the cap or below it.
RepliesKept ==
  /\ \A c \in table : \A i \in DOMAIN Stream(c) : [id |-> c, no |-> Stream(c)[i].no] \in kept
  /\ \A m \in kept :
    LET queued  == {i \in DOMAIN outbox : outbox[i] = m}
        carried == {i \in DOMAIN Stream(m.id) : Stream(m.id)[i] = [no |-> m.no, part |-> 1]}
    IN  Cardinality(queued) + Cardinality(carried) = 1

\* The connections whose event of this tick is still to be acted on.
Pending(c) ==
  \/ c \in edge
  \/ \E h \in hits : h.id = c /\ (h.w \/ h.gone)
  \/ \E i \in DOMAIN ready : ready[i].id = c /\ ready[i].w

\* No lost wake-up on the write side: the write interest is armed exactly while
\* there is something left to write, and if the kernel has room for it, the poller
\* or the current tick still has an event for that connection.
WriteNotForgotten ==
  \A c \in table :
    /\ arm[c] = (wbuf[c] # <<>>)
    /\ pc # "stopped" /\ wbuf[c] # <<>> /\ Room(c) > 0 => Pending(c)

\* No lost wake-up at the end of a stream: when the worker polls, a connection
\* whose peer closed or reset it has an event waiting.
EndNotForgotten ==
  pc = "poll" => \A c \in table : sock[c] \in {"fin", "rst"} => c \in edge

\* No lost wake-up at the listener: when the worker polls, a handshake that waits
\* to be accepted has an event waiting, for ACCEPT_BATCH is what a tick accepts
\* "before re-arming the listener".  accept_all renews nothing, so this is lost as
\* soon as more handshakes wait than one call takes.
BacklogNotForgotten == pc = "poll" /\ backlog > 0 => "listen" \in misc

\* No more handshakes wait than one batch leaves of a full backlog.
PastBatch == backlog <= MaxBacklog - AcceptBatch

\* What the listener can lose sight of as long as no accept fails: of the handshakes
\* that may wait, all but a batch.  Whatever connects before, between and after the
\* calls of accept_all, more than that always comes with an event.
OnlyPastBatchWaits ==
  "failure" \notin Happens /\ pc = "poll" /\ backlog > 0 /\ "listen" \notin misc => PastBatch

\* A connection past its deadline is cut, or has shown a sign of life, or the
\* worker is gone: no amount of other traffic keeps the reclaim from running.
LateIsCut == \A c \in Id : c \in late ~> (c \notin late \/ pc = "stopped")

\* A reply that reached the write buffer goes out as long as its peer receives.
BufferFlushes == \A c \in Id : wbuf[c] # <<>> ~> (wbuf[c] = <<>> \/ pc = "stopped")

\* A request that arrived is heard: its reply is taken on, if its connection and
\* the worker live on and the outbox has room for it.
RequestsHeard ==
  \A c \in Id, no \in 1 .. MaxReq :
    (\E i \in DOMAIN rx[c] : rx[c][i] = [no |-> no, ask |-> TRUE])
      ~> ([id |-> c, no |-> no] \in kept \/ c \notin table \/ pc = "stopped")

\* A reply in the outbox is written out, as long as every peer receives and reclaim
\* cuts no connection that still has something to write: neither the reply put back
\* at the end of the queue nor those behind it are left there when the worker goes
\* to sleep.  Such a cut does leave them there: it takes away the connection whose
\* writable edge the drain that stopped relied on, and the poll that follows drains
\* nothing unless something else happens.
Carried(m) == \E i \in DOMAIN Stream(m.id) : Stream(m.id)[i] = [no |-> m.no, part |-> Pieces]

CutsOnlyIdle == [](pc = "top" => \A c \in late : wbuf[c] = <<>>)

RepliesGoOut ==
  CutsOnlyIdle =>
    \A m \in Reply :
      (\E i \in DOMAIN outbox : outbox[i] = m)
        ~> (Carried(m) \/ m.id \notin table \/ pc = "stopped")

\* Every tick ends: the drain of the outbox, which puts replies back into what it
\* drains, does not go round for ever.
TicksEnd == pc = "replies" ~> pc # "replies"

--------------------------------------------------------------------------------
(* What the control path promises: ReplyService, a reply being given when its *)
(* last piece has been written.                                               *)

Given == {m \in kept : \E i \in DOMAIN wire[m.id] : wire[m.id][i] = [no |-> m.no, part |-> Pieces]}

Service == INSTANCE ReplyService WITH
             Ids <- Id, Requests <- 1 .. MaxReq,
             used <- 0 .. nextId - 1, open <- table, owed <- kept \ Given, given <- Given

\* Every step of the worker and of its surroundings is a step of the promised
\* service or invisible to it.
ServiceKept == Service!Spec

(* What the thread that joins the worker relies on: WorkerLife.               *)

Life == INSTANCE WorkerLife WITH stop <- stop, ended <- (pc = "stopped")

\* The loop ends once the stop flag is raised, even if no wake reaches the poll,
\* it does not resume, and nothing takes the flag back.
StopEnds == Life!Spec

================================================================================
