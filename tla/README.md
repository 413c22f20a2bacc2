# QuickRelay: TLA+ verification project

QuickRelay is a STUN server (TURN is designed, not yet written) in five Rust
crates under `src/crates`. This directory holds TLA+ models of its behaviour,
the TLC runs that check them, and TLAPS proofs. `PROJECT.json` says, definition
by definition, which lines of the source each one stands for.

## 1. Inventory

`W` is `quickrelay-transport/src/worker.rs`, `C` is `connmgr.rs`, `F` is
`framing.rs`, `H` is `quickrelay-server/src/binding_chain.rs`, `M` is `main.rs`.

| Component | State | Operations | What makes it correct |
|---|---|---|---|
| Worker event loop (`W`) | poller, UDP socket, listener, table, handler, stop flag | `run`: poll, `reclaim`, `drain_udp`, `drain_accepts`, `drain_read`/`decode`, `drain_write`, `drain_replies`, `drop` | a stop ends it; late connections are cut; every tick ends; no wake-up is lost; every reply goes out |
| Connection table and buffers (`C`) | id counter, slots, read window, write buffer, deadlines, interest | `alloc`, `insert`, `remove`, `take_write`, `advance_write`, `set_readable`, `compact_read`, `register_id`, `modify_id` | ids are never used twice; a frame in the buffer is never overwritten; write interest is armed exactly while there is something to write |
| RFC 4571 framing (`F`) | none | `encode`, `decode_with` | packets come out as they were sent, however TCP cuts the stream |
| Binding handler, control path (`H`) | set of live ids, outbox of at most `REPLY_QUEUE_CAP` | `note_connect`, `forget`, `on_tcp_stun`, `take_reply`, `queue_reply` | agrees with the table on who lives; an accepted reply is given once, to its own connection |
| Transaction cache (`H`) | entries with age | `lookup`, `insert`, `reap`, `reap_oldest` | a retransmission gets the datagram the peer already saw |
| Binding decision (`quickrelay-binding`) | none | `decide`, `ChangeRequest::resolve`, ICE checks, plans | the same request gets the same answer everywhere; a refusal can be acted on |
| Fact extraction, rendering (`H`) | none | `extract_*`, `unknown_attribute_codes`, `plan_attributes` | nothing the decision needs is lost |
| Startup (`M`) | workers started so far | `listen_identities`, `start_worker`, `main` | what a worker can open does not show in what it answers |
| Datagram path (`W`, `H`) | UDP socket, reply sender | `drain_udp`, `on_stun`, `reply_socket` | a request is read and answered |
| Shutdown (`M`) | latch, stdin thread, wake handles | `ShutdownLatch`, `install_stdin_listener`, joins | the process ends when told to |
| Message codec (`quickrelay-protocol`) | none | `parse`, `build_response`, attribute values | `parse` takes what `build_response` made; trailers cover what stands before them |
| Integrity, fingerprint (`quickrelay-protocol`) | none | HMAC, CRC over a patched length | what is verified is what is used; the server calls neither yet |
| TURN, authentication, REST, TLS, metrics | - | - | documents only |

How they interact. `main` starts workers one after the other and wakes them at
the end; each worker is one thread that owns its sockets, its table and its
handler, so the only memory shared between threads is the stop flag with its
waker. Inside a worker the loop calls the handler synchronously (`on_stun`,
`on_tcp_connect`, `on_tcp_stun`, `on_tcp_error`); the handler cannot write to a
connection, so replies go through the outbox (`ReplyQueue`), which the loop
empties into write buffers at the end of a tick. Peers, the kernel and the clock
act between any two system calls of the loop. The poller (mio) is edge-triggered:
a source is reported once after something happened on it or after its
registration was renewed.

What is hard here: work left over when a bound ends a batch (edges do not come
again); two records of the live connections, in the loop and in the handler; a
queue that is refilled by the code that empties it; partial writes; deadlines,
closes and stop requests that meet half-done work; retransmissions against a
bounded, ageing cache; sockets that fail to open one by one while earlier
workers already answer. The list, line by line, is `hazards` in `PROJECT.json`.

## 2. Modules

| Module | Models | State and actions |
|---|---|---|
| `ControlPath` | one worker, its table, its handler, its control connections | `pc` is the place in `run`; `table`, `wbuf`, `arm`, `halfOpen`, `late` are the fields of `Conn`; `known`, `outbox` those of the handler; `sock`, `rx`, `wire`, `edge`, `misc`, `backlog` the kernel's side. One action per part of the loop that ends in a system call, one per outside event |
| `ReplyService` | what the control path promises a peer | ids used, connections open, replies owed and given |
| `Queues` | `Pick`: `retain` on a queue | shared by `ControlPath` and `TransactionCache` |
| `MCControl` | `ControlPath` with bounds on its surroundings | `FewAtOnce` limits what peers send and ask in the fair run; `SlowSpec` has one peer that never reads, and fairness for all others |
| `ReadWindow` | octets to packets: read, window, `decode_with`, `compact_read` | `sent`, `rx`, `window`, `delivered`; `DrainRead` is `drain_read` with `decode` |
| `TransactionCache` | the cache and the paths of `on_stun` and `on_tcp_stun` through it | `entries` is the `Vec`; `answered` records what peers were sent |
| `WorkerLife` | what a worker promises the thread that starts and joins it | `stop`, `ended`; `ControlPath` implements it (`StopEnds`) |
| `ServerProcess` | `main` from the last `start_worker` to its return, the shutdown latch, the stdin thread, and per worker the loop with its datagram socket | `pc`, `next` are the place in `main`; `stopped`, `timer`, `stdin`, `input` latch, `--shutdown-after`, stdin thread and what it reads; `wpc`, `pending`, `left` those of a worker; `queue`, `edge` the kernel's side. `WakeWorker` and `JoinWorker` are one round of a loop of `main` each, `DrainOne` one round of `drain_udp` |
| `BindingAnswer`, `MCBinding` | startup, address lists, the decision table, and the sockets a request may reach | `StartWorker` is the whole of `start_worker`; `OnStun`/`OnTcpStun` the handlers |
| `StunMessage` | `build_response`, a network, `parse`, both trailers and the walks that find them | `stage` and `out` are the place in `build_response` and its buffer, one action per part that may fail; `seen` is the datagram on its way |
| `MessageType` | `message_type.rs`: classes, methods, the bits of a type, reply types | operators only |
| `Address` | `address.rs`: the three layouts of an address and the XOR; the server's and the transport's own forms of one | operators only |
| `AttributeValue` | `attribute.rs`: the registry with its two tables, every reader and writer of a value | operators only |
| `StunExchange` | a request and the server's answer as the peer reads it; an attribute that is read, written anew and read again | `phase` is how far an exchange is, `asked`, `wire`, `meant`, `got` the request, the datagram, what its writer had to say and what its reader made of it; one action per message an end sends or reads. What may arrive is in `Requests`, `Sockets`, `Datagrams`, `Txids` |
| `MCStun` | values for `StunMessage` and `StunExchange` | a behaviour is one of either; they share no state |
| `Queues_proofs` | lemmas about `Pick`, and `Smallest` for inductions | section 5 |
| `ControlPath_proofs` | theorems about the loop (types, table and handler, wake-ups, `WorkerLife`) and about what a peer receives (whole frames, replies in one place, refinement of `ReplyService`) | section 5 |
| `ServerProcess_proofs`, `TransactionCache_proofs`, `BindingAnswer_proofs`, `ReadWindow_proofs`, `StunMessage_proofs`, `StunExchange_proofs` | the theorems of these modules | section 5 |

Abstractions. In `ControlPath` a request is a number and a frame a unit of input
(octets are `ReadWindow`'s subject); a reply is written in `Pieces` parts, so
that partial writes happen. A deadline is a flag an environment step raises.
`ReadWindow` uses lengths up to 2 and a one-octet payload alphabet. In
`TransactionCache` time is a count of ticks left. In `BindingAnswer` a request is
its set of attributes, an address a model value with a family; codes a 420 lists
are a set (the code lists an unknown optional attribute twice, once from
`attributes` and once from `unknown`). In `StunMessage` a datagram is its recorded
length, its attributes (code, length, value) and its size, so that offsets,
padding and the 16-bit length are the code's while values are tokens; an HMAC or
a CRC is the record of what it was computed from. That stands for "no collision":
a CRC detects damage, not forgery, and nothing in the network's steps computes one.
`parse` takes a datagram or refuses it; which `ErrorKind` is left out, no caller
tells them apart.

In `ServerProcess` the datagrams of a socket are counted; what is answered to one
is `TransactionCache`'s and `BindingAnswer`'s subject. Control connections wake
the loop as "something else"; they are `ControlPath`'s. A read error other than
`WouldBlock`, which ends a drain the way an empty socket does, is left out. Poll
and drain of different workers interleave freely, as do the latch's flag and its
condition variable, whose waiter may also wake for no reason.

`MessageType`, `Address` and `AttributeValue` keep octets, because what is hard in
them is which octet means what; a message has one attribute there. Octets above
127 count as malformed UTF-8; the values of the run never hold a longer character
(`NoLongerCharacter`). In `BindingAnswer` CHANGE-REQUEST is the two flags that
`change_request.rs:54-58` takes from bits 0 and 1, and its codes are a set; the list of
at most 64 codes that a 420 really holds is in `StunExchange`. XOR is defined by halves,
from bits to nibbles, octets and words, which is what the operator of the code computes
on unsigned numbers of these widths.

`Slip...` operators are plausible mistakes in the definition that follows them;
each is listed in `PROJECT.json` with the property that it violates.

## 3. Runs

| Run | Instance | What it shows |
|---|---|---|
| `control_service` | 2 connections, 2 requests each, outbox 2, closes and failures | `TypeOK`, `HandlerTracksTable`, `WholeFrames`, `RepliesKept`, `WriteNotForgotten`, `EndNotForgotten`, and `ServiceKept`: refinement of `ReplyService` |
| `control_live` | fair; 2 connections, an outbox of 3, deadlines, datagrams, stops, a backlog of 3 with a batch of 2 | `StopEnds` (refinement of `WorkerLife`, with its fairness), `LateIsCut`, `BufferFlushes`, `TicksEnd`, `RepliesGoOut`, `OnlyPastBatchWaits` |
| `server_process` | fair; 2 workers, a batch of 2, a socket that holds 3; with and without stdin thread and timer, failing polls | `NoneLeftBehind`, `OnlyWhenAsked`, `OnlyPastBatchIsLeft`, `EndsWhenAsked` |
| `read_window` | up to 3 packets of 0 to 2 octets, every segmentation | `NeverWedged`, `InStep`, `LockstepLosesNothing` |
| `transaction_cache` | datagram and stream keys, a cache smaller than the keys, failing sends and clones, full outbox | `Remembered`, `SameAnswer` |
| `binding_answer` | 5 command lines, any socket or worker failing | `SameAnswerEverywhere`, `ConfiguredIsHonoured`, `ReportedIsBound`, `OnlyChangeUnnamed` |
| `stun_message` | up to 2 attributes and both trailers, a length field of at most 56, 2 changes on the way; and, one at a time, every message type, every attribute code with about 600 values each, requests with up to 70 attributes | `BuiltIsRead`, `SignedIsSent`, `FingerprintWhole`, `WalksAgree`; `TypeKept`, `AnswerIsUnderstood`, `UnknownAreNamed`, `KindKept`, `RelayedUnchanged` |
| `control_slow_peer` | violation | one peer that never reads, 3 requests of it: the reply of another stays in the outbox, even after the slow one is cut |
| `control_heard` | violation | what one read leaves behind is not read on the next tick |
| `control_backlog` | violation | 3 handshakes, a batch of 2: the third waits without an event |
| `read_window_tail` | violation | a packet split after a complete one is lost |
| `binding_unread` | violation | requests land in a socket nobody reads |

Why the bounds are enough. The loop treats connections independently except
through the outbox and the order of events, so two connections show every way
one can get into the way of another; two requests on each fill an outbox of two
beyond its cap and put back replies behind others; two pieces make every frame
writable in part. `control_live` has an outbox of three, so that `drain_replies` can stop
at a reply of connection 0 with one of connection 1 behind it. `FewAtOnce` keeps it small:
connection 1 sends one request, a stop or a datagram comes only while connection 0 has
sent no more than one, more than one handshake waits only before any request; it limits peers and threads outside and never
the worker, so no step that fairness asks for is cut off. Its backlog of three is beyond the
batch of two, as the code's 1024 is beyond 128. In `control_slow_peer` three requests are what it
takes to fill the socket, then the write buffer, and to have a third put back. Ids are not reused, so a bound on them stands for the exhausted
token space, which the model reaches. In `ReadWindow` three packets let a read
hold the end of one, a whole one and the start of a third; `READ_WINDOW`,
`DECODE_BATCH` and `FRAME_CAP` keep the order of their sizes to the largest
packet. In `TransactionCache` there are more keys than places. In
`BindingAnswer` a handler keeps nothing from one request to the next, so one
arrival at each point of the startup is enough. In `StunMessage` two attributes
give a first and a last one in front of a tag, `MaxLength` of 56 is passed by
some messages at each of the three places that write the length, and two changes
are enough to put a second trailer in and repair the length, or to move one.
In `ServerProcess` two workers have a first and a last one in every loop of `main`;
a socket of one datagram more than the batch is the smallest that a drain can
leave something in, and peers that go on sending fill it during a drain. In
`StunExchange` the lengths are those around every length a reader compares with,
the limits of 511, 1024 and 2048 octets are the code's, and lists of 64 and 70
codes reach and pass the buffer of 64.

`MaxTicks` is 0 everywhere, as in `main` (`WorkerConfig::max_ticks` is for
tests). `CHECK_DEADLOCK FALSE` stands in `read_window` (the peer has sent all it
sends) the binding runs (all requests arrived, or `main` has exited), `stun_message`
(the message was refused, or has arrived) and `server_process` (the process has ended).

Fairness. `WF_vars(Tick)`: the worker is a thread that is never parked for good,
because its poll has a deadline (`poll_timeout`). `WF_vars(PeerReceives(c))`: a
peer that keeps its end open keeps reading. `SlowSpec` of `MCControl` has it for all
peers but that of connection 0, which never reads, and lets the idle deadline of that
connection pass once its socket is full and its write buffer occupied, as the clock does.
Nothing is assumed of what peers send, of closes, of the clock or of stop
requests. In `ServerProcess` each thread of its own, `main`, the stdin thread and
every worker, is run by the operating system as long as it can go on (`WF_vars(Main)`,
`WF_vars(Stdin)`, `WF_vars(Work(k))`); a parked `main` goes on only when it is
notified or its deadline passes. Weak fairness is enough for a worker although
peers may send for ever: a drain ends with its batch. Nothing is assumed of who
holds the other end of stdin or of the clock.

## 4. Where the code and its comments disagree

The five violation runs, quoted with their lines under `findings`: replies held
back by a slow peer (`W:494`), input beyond one read (`W:409`), handshakes beyond one
batch (`W:380`), the lost tail of a packet (`C:142`), and the reply sender in the listener's `SO_REUSEPORT` group (`H:558`).

Met while modelling, not made a run:

- `drain_udp` (`W:339`) stops after `UDP_DRAIN_BATCH` "before re-arming" (`W:31`) and renews
  nothing either; `OnlyPastBatchIsLeft` says how much it may leave.
- A peer that does not read is not the only one that holds back replies of others. If
  `drain_replies` stops at a connection and `reclaim` cuts that connection before
  its writable edge, the edge is gone and nothing drains the outbox again until some
  other event, although every peer receives. `RepliesGoOut` has the antecedent `CutsOnlyIdle`
  (no connection is cut with its buffer occupied) for exactly that; without it, the bounds of
  `control_live` give a counterexample: 0.1 half written, 0.2 put back behind 1.1, the
  deadline of 0 passes within the tick, 1.1 stays.
- An accept that fails inside a batch drops the streams already accepted (`C:434`).
- Packets of one read beyond `DECODE_BATCH` are dropped (`W:451`), not "answered
  late by one tick" (`W:35-37`).
- `queue_reply` puts a reply at the back "in the order it was produced"
  (`H:822-826`), behind later ones.
- `filed` keeps a reply whose send failed (`H:712-716`), where `deliver_reply`
  says "nothing reached the peer, so nothing is kept" (`H:700`); a sender that
  cannot be cloned overwrites the entry a peer was answered from.
- An unknown attribute that must be understood makes `parse` fail, and the
  request is discarded, where `quickrelay-protocol/src/error.rs:42-45` asks for a
  420. A comprehension-optional one gets a 420 although `decision.rs` says codes
  in `0x8000-0xFFFF` may be ignored; so does `FINGERPRINT`.
- A reply to a satisfied CHANGE-REQUEST leaves from the socket the request came
  to, whatever the plan's `source` says; success responses report the server's
  own address.
- With the default `--listening-ip` the sockets' local address is 0.0.0.0, and
  `set_udp` (`H:598`) puts it back into the list, where success responses report
  it; `M:134-136` says a wildcard is not an address any reply leaves from.
  `ReportedIsBound` therefore does not say that a peer can reach what is reported: it allows a
  wildcard to whoever asked at one and to nobody else, and asks of a complete server
  that some worker is bound to what it reports, 0.0.0.0 included.
- A 420 for a CHANGE-REQUEST that no address satisfies names no attribute:
  `with_change_action` clears the list (`quickrelay-binding/src/response.rs:244`), and the
  reply carries no UNKNOWN-ATTRIBUTES. `H:297` says "a 420 must name the attributes it rejected",
  `response.rs:176-179` that "the code alone tells a peer nothing about which attribute to
  drop", and a test is called `an_unhonorably_requested_change_names_the_attribute`
  (`decision.rs:739`), which looks at the number 420 only. `OnlyChangeUnnamed` says that this is
  the one case: whatever else a 420 is about, it names.
- `parse` takes attributes behind MESSAGE-INTEGRITY, which no tag covers, where
  `attribute.rs:150-152` says a trailer "may not be followed by any non-trailer
  attribute"; `SignedIsSent` is therefore about what stands before the tag.
- A MESSAGE-INTEGRITY-SHA256 of 16 to 28 octets is taken by `parse` and by
  `AttributeLocation::algorithm`. `verify` does not look at that length and compares 32
  octets, those behind the attribute included: a tag truncated as RFC 8489 allows it is
  refused, while a whole one whose length alone was lowered on the way would still
  verify. The model has `verify` as it is; a change of an attribute's own length, after
  which its last octets are attributes of their own, is not among the network's steps.
- `build_response` given a trailer among `attrs` and a key as well makes a message
  `parse` refuses. `MAX_ATTRIBUTE_COUNT` (32767) cannot be reached in 65535 octets.
- With port 0, a worker's list has only its own two ports, so the addresses of
  the other workers do not count, and a port of the control listener is offered
  for datagrams.
- A worker whose poll fails ends and `main` does not learn of it (`W:539`). It goes on
  waiting, with the other workers or with none, until it is asked to stop; the joins
  then still find every thread.
- `read_to_string` on stdin waits for the end of input, not for "any line" (`M:65`): a
  line without an end of input stops nothing. `main` joins that thread after a timed
  shutdown as well (`M:319-320`), so that the process outlives `--shutdown-after` for as
  long as the input stays open. `EndsWhenAsked` says exactly that: the workers end,
  and the process ends unless it listens to an input that is still open.
- `ShutdownLatch::wait` adds the duration to the clock with `+`, which panics if
  the sum cannot be represented; `--shutdown-after` takes any `u64`.
- `read_alternate_server` looks at the first octet of its value before it looks at
  the length (`address.rs:168`), so an ALTERNATE-SERVER without a value is an index
  out of bounds, where `architecture.md:428` says the decoder does not panic.
  `StunExchange` has it as the outcome `panicked`.
- ERROR-CODE takes a number beyond 99 (class 4, number 200 is 600), and only the sum
  is checked. A MESSAGE-INTEGRITY-SHA256 shorter than 32 octets is kept filled up with
  zeros and written with 32. ICMP is registered but decoded as an unrecognised attribute.
- A reason of more than 1024 octets and a value of more than 2048 can be read and not
  be written: `RelayedUnchanged` allows for these two.
- `fixed_len` in the registry disagrees with the readers (8 octets for MAPPED-ADDRESS,
  which has 20 for IPv6; 511 for DATA, which may be shorter); `parse` does not use it.
- `unknown_attribute_codes` lists an unrecognised optional attribute twice and cuts
  the list at 64. `UnknownAreNamed` asks for every name of a request with at most
  64 attributes, and counts names, not occurrences.

## 5. Proofs

Each theorem holds for every value of the constants that satisfies the assumption
its module names; TLC evaluates the assumptions in every run of that module. They ask
for types and for what the code makes certain: bounds are naturals, batches and caps
are not 0, keys of datagrams and streams differ, the value `Nowhere` stands for is no
address a listener lands on (`AnswerAssumption`), the attributes given to
`build_response` have codes and lengths of the registry (`CodecAssumption`), and
requests, sockets, datagrams and transaction ids consist of octets and 16-bit numbers, an
address of 4 or 16 octets, a transaction id of 12 (`ExchangeAssumption`). TLC has checked
each inductive invariant as an invariant of the module's run; the state counts below are
those of these runs.

Worker loop and connection table (`ControlPath_proofs`, under `ConstantsAssumption`):

- `TypeCorrect`: `Spec => []TypeOK`.
- `HandlerTracks`: `Spec => []HandlerTracksTable`. The property is inductive
  together with `TypeOK`: `Cut` is the only way out of the table and always calls
  `forget`, `EventListen` the only way in and always calls `note_connect`
  (lemmas `CutTracks`, `SameTracks`, `TracksNext`).
- `WriteRemembered`: `Spec => []WriteNotForgotten`, and `EndRemembered`:
  `Spec => []EndNotForgotten`. Neither is inductive: an event is consumed from
  `edge` several steps before its connection is served, so a tick in progress
  owes something to connections the poller no longer knows about. `WakeInv` says
  what is owed at each place of the loop: which connections in `hits` and `ready`
  still carry a write or an end (`WriteDue`, `EndDue`, `EndPending`), and that
  buffers of connections no longer in the tick are empty, full or have an edge
  (`IdleBuffers`, `TickDone`). `PollReports` and `TailKeeps` show that the poll
  and the walk over the ready list hand this on; `WakeNext` has one case per
  action.
- `OnlyPastBatchIsUnheard`: `Spec => []OnlyPastBatchWaits`, for every backlog and batch: if no
  accept fails, handshakes that wait without an event at a worker that polls are at
  most `MaxBacklog - AcceptBatch`, what one batch leaves of a full backlog. By `BacklogInv`,
  which says the same of the place in the tick where the listener's event has been
  consumed (`Happens` without "failure"; 367 476 states with a backlog of 3 and a batch of 2).
  With the code's 1024 (`C:386`) and 128 (`W:34`) that is 896 handshakes; that none is
  left does not hold (`control_backlog`). An accept that fails may leave all of them.
- `LifeKept`: the worker's steps are steps of `WorkerLife` or leave its state alone,
  and so `StopEnds` holds but for its fairness.

What a peer receives (second part of `ControlPath_proofs`; `StreamInv`, 1 572 329 states):

- `FramesWhole`: `Spec => []WholeFrames`, `RepliesInOnePlace`: `Spec => []RepliesKept`,
  `ServiceImplemented`: `Spec => ServiceKept`, each step a step of `ReplyService` or a
  stutter. What a connection was sent, with what its buffer still holds, is one
  stream, and `StreamInv` says of it that it is frames laid end to end: the
  part at place `i` is part `(i - 1) % Pieces + 1` of a reply that no other frame of the
  stream repeats. To this it adds that a queued reply is accepted and not yet in a
  stream, and an accepted one of a live connection is queued or in its own.
  Without the second half a reply taken from the outbox and put back, or taken twice, could not
  be told from a new one. `TakeReply` and `RequeueReply`, which move a reply from one place to
  the other, are the cases that need it.

Shutdown (`ServerProcess_proofs`; 78 785 states): `TypeCorrect`; `NoneIsLeftBehind`, by
`JoinInv`: `main` joins in turn, so the workers before `next` have ended, and
`EndedStays`; `StoppedOnlyWhenAsked`, by `AskedInv`: `main` leaves the latch only when asked
to, and nobody takes the latch or the time back, which covers idle wake-ups;
`OnlyPastBatchStays`, by `DrainInv`: an account of the datagrams no event announces, in
which a drain in progress still has what its batch may read.

Transaction cache (`TransactionCache_proofs`; 75 889 states): `TypeCorrect`,
`AnswerRemembered` and the action property `RetransmissionsAgree`, all three from
`CacheInv`. It says that the cache has one entry per transaction and no two live
entries of one age (`Sound`), and that for each answer on record either as
many others as the cache has places were kept since, or the entry is there and whatever
outlives it is among those others (`Backed`). The second part is what makes the eviction of
the oldest harmless: a full cache that evicts the entry has `CacheCap` younger ones,
all among the others.

Binding answers (`BindingAnswer_proofs`; 164 577 states): `TypeCorrect`, `SameEverywhere`,
`ConfiguredHonoured`, `ReportedBound`, `ChangeAloneUnnamed`. `AnswerInv` ties every worker
to its place in the configuration (`WorkerOf`: sockets where its listener lands, its list
that of all listeners with its own two) and every answer to the handler that gave it
(`AnswerOf`). From there the theorems are about the decision table alone, for any
command line, any set of attributes and any fault at start.

Read window (`ReadWindow_proofs`): `TypeCorrect`; `StreamKept`, by `WindowInv`: until
something is dropped, the octets delivered, in the window and in the socket are those
sent (141 407 states); `NeverFull` and, with `LockstepInv`, `LockstepKept`, under the hypothesis
`Slack >= PrefixLen` (also on the 149 833 states of an instance with `Slack = 2` and `DecodeBatch = 1`). The code
has 64 octets of slack for a prefix of 2; without it a packet of the
largest length never fits, which is why the hypothesis stands in the theorems.

Codec and trailers (`StunMessage_proofs`; `CodecInv`, 893 787 states): `TypeCorrect`,
`BuiltReadable`, `SignedWasSent`, `FingerprintCovers`, `WalksFindParsed`. `OutInv` says which
trailers the buffer can hold at each stage of `build_response` and what each
was computed from; `SeenInv` that a value on its way was sent or is octets, that is, that no
step of the network computes a tag. Message lengths and offsets are sums over the
attributes; lemmas `OffSame` and `OffGrows` say when two messages agree up to an
attribute, which is what a tag over "the message so far" comes down to.

What two ends understand (`StunExchange_proofs`; `ReadInv`, `AnswerInv` and `RelayInv` on
the 996 496 states of `stun_message`). The theorems are about `ExchangeSpec`, for any set of
requests, sockets, datagrams and transaction ids:

- `TypesAreKept`: `TypeBits` and `TypesAt` undo each other on every 16-bit number that is a
  type. The lemmas cut a method number and a type into their groups of bits.
- `KindsAreKept`, by `ReadInv`: what an end has read is what `parse` makes of the datagram
  at hand. The two tables of the registry are inverse (`TablesAgree`, `NamesAgree`).
- `AnswersAreUnderstood` and `UnknownsAreNamed`, by `AnswerInv`: a datagram the server
  has sent goes to its peer and is read, in one way only, as what was meant (`Says`). That holds
  because `identity_of_socket` and `identity_attr` put an IPv4 address back where they
  took it from, the layout of an address is read as it was written (`LayoutIs`), masking
  twice with one key changes nothing, and a list of at most 64 codes fits the
  buffer, so that rendering never fails. The codes come from two walks over the request;
  what `Pick` takes out of it is exactly what is at the picked places (`PickAll`).
- `RelayKeepsValues`, by `RelayInv`: a datagram sent is parsed to the very attribute that was
  meant, and one that could not be written is too long. `ReadAgain` splits by the shape of a value
  (text, words, errors, addresses, lists of names, ...), with a lemma
  (`KeptSurvives`, `ErrorSurvives`, `PasswordSurvives`, ...) for each. Values do not keep their octets: reserved ones are zeroed, padding of names is
  trimmed, addresses are masked anew. What is kept is the reading, and for the lists of names
  this needs that `Joined` and `Split` are inverse on names without commas and that trimmed names
  stay as they are (`JoinedKept`, `TrimKept`).

`Queues_proofs` shows that `Pick` returns a sequence over the same elements: the
ranks of the kept places are a bijection with an initial segment of the naturals.

Induction. A theorem of the library that takes an operator as a parameter cannot
be instantiated here, so what `FramesIn`, `ListenIdentities`, `Split`, `Joined`, `FoldLeft`
and `FlattenSeq` compute is proved by the smallest counterexample: a nonempty set of
naturals has a least element (lemma `Smallest`), and a claim that fails
for a least `n` holds for `n - 1`.

Model-checked only: liveness, that is `LateIsCut`, `BufferFlushes`, `TicksEnd`,
`RepliesGoOut`, `EndsWhenAsked` and the fairness that is part of `StopEnds`. Fairness and
`ENABLED` are out of the prover's reach. Every other invariant and action property of a
passing run is the statement of a theorem. The violation runs are counterexamples
and need no proof.

## 6. Plan

What is left: shorter proofs, above all of `ReadWindow_proofs` and `StunExchange_proofs`,
whose lemmas about sequences could be shared in a module of their own with those of
`StunMessage_proofs`; and the accept batch: should the code renew the listener's registration, `control_backlog`
passes, and `BacklogNotForgotten` is what to prove in place of `OnlyPastBatchWaits`.

Not modelled: logging, statistics, argument parsing, error types, the arithmetic of
HMAC and CRC, key derivation, the Windows variants, the tables of the registry that
nothing reads (`fixed_len`, names), the redirect plan, which the server never makes,
and everything that exists in documents only.
