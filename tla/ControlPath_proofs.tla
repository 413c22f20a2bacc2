-------------------------- MODULE ControlPath_proofs --------------------------
(***************************************************************************)
(* Theorems about ControlPath, for every number of connections, requests   *)
(* and pieces and every size of its queues and batches: first about the    *)
(* loop, then about what a peer receives.                                  *)
(***************************************************************************)
EXTENDS ControlPath, Queues_proofs

USE ConstantsAssumption

\* A queue of replies stays one, within its cap, when replies are put at its back.
LEMMA EnqueueType ==
  ASSUME NEW q \in Seq(Reply), NEW rs \in Seq(Reply)
  PROVE  /\ Enqueue(q, rs) \in Seq(Reply)
         /\ Len(Enqueue(q, rs)) <= QueueCap
         /\ \A i \in DOMAIN Enqueue(q, rs) : Enqueue(q, rs)[i] = (q \o rs)[i] /\ i \in DOMAIN (q \o rs)
<1> DEFINE all == q \o rs
           n == Least(Len(all), QueueCap)
<1>1. all \in Seq(Reply) /\ Len(all) \in Nat
  OBVIOUS
<1>2. n \in 0 .. Len(all) /\ n <= QueueCap
  BY <1>1 DEF Least
<1>3. /\ SubSeq(all, 1, n) \in Seq(Reply) /\ Len(SubSeq(all, 1, n)) = n
      /\ \A i \in 1 .. n : SubSeq(all, 1, n)[i] = all[i]
  BY <1>1, <1>2
<1> QED
  BY <1>1, <1>2, <1>3 DEF Enqueue

\* Cutting connections keeps the type of every variable it changes.
LEMMA CutType ==
  ASSUME TypeOK, NEW D \in SUBSET Id, Cut(D)
  PROVE  /\ nextId' \in 0 .. MaxConns /\ stop' \in BOOLEAN
         /\ table' \subseteq Id /\ halfOpen' \subseteq Id /\ late' \subseteq Id
         /\ wbuf' \in [Id -> Seq(Piece)] /\ arm' \in [Id -> BOOLEAN]
         /\ known' \subseteq Id /\ outbox' \in Seq(Reply) /\ kept' \subseteq Reply
         /\ Len(outbox') <= QueueCap
         /\ backlog' \in 0 .. MaxBacklog
         /\ sock' \in [Id -> {"none", "open", "fin", "rst", "closed"}]
         /\ sent' \in [Id -> 0 .. MaxReq] /\ rx' \in [Id -> Seq(Frame)]
         /\ wire' \in [Id -> Seq(Piece)] /\ taken' \in [Id -> Nat]
         /\ edge' \subseteq Id /\ misc' \subseteq Misc
<1> DEFINE I == {i \in DOMAIN outbox : outbox[i].id \notin D}
<1>1. outbox' = Pick(outbox, I) /\ outbox \in Seq(Reply) /\ Len(outbox) <= QueueCap
  BY DEF TypeOK, Cut, Forget
<1>2. Pick(outbox, I) \in Seq(Reply) /\ Len(Pick(outbox, I)) \in 0 .. Len(outbox)
  <2>1. I \in SUBSET (DOMAIN outbox)
    OBVIOUS
  <2> QED
    BY <1>1, <2>1, PickType
<1>3. outbox' \in Seq(Reply) /\ Len(outbox') <= QueueCap
  BY <1>1, <1>2
<1>4. /\ table' \subseteq Id /\ halfOpen' \subseteq Id /\ late' \subseteq Id
      /\ known' \subseteq Id /\ kept' \subseteq Reply /\ edge' \subseteq Id
      /\ nextId' \in 0 .. MaxConns /\ stop' \in BOOLEAN /\ backlog' \in 0 .. MaxBacklog
      /\ sent' \in [Id -> 0 .. MaxReq] /\ misc' \subseteq Misc
  BY DEF TypeOK, Cut, Forget
<1>5. <<>> \in Seq(Piece) /\ <<>> \in Seq(Frame)
  OBVIOUS
<1>6. /\ wbuf' \in [Id -> Seq(Piece)] /\ rx' \in [Id -> Seq(Frame)]
      /\ wire' \in [Id -> Seq(Piece)]
  BY <1>5 DEF TypeOK, Cut
<1>7. /\ arm' \in [Id -> BOOLEAN] /\ taken' \in [Id -> Nat]
      /\ sock' \in [Id -> {"none", "open", "fin", "rst", "closed"}]
  BY DEF TypeOK, Cut
<1> QED
  BY <1>3, <1>4, <1>6, <1>7


\* The events and fixed tokens a poll reports are events and tokens.
LEMMA EventsType ==
  ASSUME TypeOK
  PROVE  ConnEvents \subseteq Event /\ MiscEvents \subseteq Misc
<1>1. ASSUME NEW c \in Id
      PROVE  EventOf(c) \in Event
  <2>1. Readable(c) \in BOOLEAN
    BY DEF Readable
  <2>2. (arm[c] /\ Writable(c)) \in BOOLEAN
    BY DEF Writable
  <2>3. Gone(c) \in BOOLEAN
    BY DEF Gone
  <2> QED
    BY <2>1, <2>2, <2>3 DEF EventOf, Event
<1>2. ConnEvents \subseteq Event
  BY <1>1 DEF TypeOK, ConnEvents
<1> QED
  BY <1>2 DEF TypeOK, MiscEvents

\* One read of a connection: what is left of its input, the replies it calls for.
LEMMA ReadType ==
  ASSUME TypeOK, NEW c \in Id, ReadFrames(c)
  PROVE  /\ rx' \in [Id -> Seq(Frame)]
         /\ outbox' \in Seq(Reply) /\ Len(outbox') <= QueueCap
         /\ \A i \in DOMAIN outbox' :
              (outbox'[i].id = c /\ c \in known) \/ \E j \in DOMAIN outbox : outbox'[i] = outbox[j]
<1> DEFINE frames == SubSeq(rx[c], 1, Least(ReadNow(c), DecodeBatch))
           I == {i \in DOMAIN frames : frames[i].ask /\ c \in known}
           asks == Pick(frames, I)
           owed == [i \in DOMAIN asks |-> [id |-> c, no |-> asks[i].no]]
<1>1. rx[c] \in Seq(Frame) /\ Len(rx[c]) \in Nat
  BY DEF TypeOK
<1>2. ReadNow(c) \in 0 .. Len(rx[c])
  BY <1>1 DEF ReadNow, Least
<1>3. SubSeq(rx[c], ReadNow(c) + 1, Len(rx[c])) \in Seq(Frame)
  BY <1>1, <1>2
<1>4. rx' \in [Id -> Seq(Frame)]
  BY <1>3 DEF TypeOK, ReadFrames
<1>5. Least(ReadNow(c), DecodeBatch) \in 0 .. Len(rx[c])
  BY <1>1, <1>2 DEF Least
<1>6. frames \in Seq(Frame)
  BY <1>1, <1>5
<1>7. /\ asks \in Seq(Frame) /\ DOMAIN asks = 1 .. Cardinality(I)
      /\ Cardinality(I) \in Nat
      /\ Cardinality(I) > 0 => c \in known
  <2> HIDE DEF frames
  <2>1. I \in SUBSET (DOMAIN frames) /\ (I # {} => c \in known)
    OBVIOUS
  <2> HIDE DEF I
  <2>2. /\ asks \in Seq(Frame) /\ Len(asks) = Cardinality(I) /\ Cardinality(I) \in 0 .. Len(frames)
        /\ \A j \in 1 .. Cardinality(I) : \E i \in I : asks[j] = frames[i]
    BY <1>6, <2>1, PickType
  <2>3. Len(frames) \in Nat
    BY <1>6
  <2>4. Cardinality(I) \in Nat
    BY <2>2, <2>3
  <2>5. DOMAIN asks = 1 .. Cardinality(I)
    BY <2>2
  <2>6. Cardinality(I) > 0 => \E i \in I : asks[1] = frames[i]
    BY <2>2, <2>4
  <2> QED
    BY <2>1, <2>2, <2>4, <2>5, <2>6
<1>8. owed \in Seq(Reply) /\ (\A i \in DOMAIN owed : owed[i].id = c /\ c \in known)
  <2> HIDE DEF asks, I
  <2>1. \A i \in DOMAIN asks : asks[i] \in Frame
    BY <1>7
  <2>2. \A i \in DOMAIN asks : [id |-> c, no |-> asks[i].no] \in Reply
    BY <2>1 DEF Frame, Reply
  <2>3. owed \in [1 .. Cardinality(I) -> Reply]
    BY <1>7, <2>2
  <2>4. owed \in Seq(Reply)
    <3> HIDE DEF owed
    <3>1. Cardinality(I) \in Nat
      BY <1>7
    <3> QED
      BY <2>3, <3>1
  <2>5. ASSUME NEW i \in DOMAIN owed
        PROVE  owed[i].id = c /\ c \in known
    <3>1. i \in DOMAIN asks
      OBVIOUS
    <3>2. owed[i] = [id |-> c, no |-> asks[i].no]
      BY <3>1
    <3>3. i \in 1 .. Cardinality(I)
      BY <1>7, <3>1
    <3>4. Cardinality(I) > 0
      BY <1>7, <3>3
    <3> QED
      BY <1>7, <3>2, <3>4
  <2> QED
    BY <2>4, <2>5
<1>9. outbox \in Seq(Reply) /\ outbox' = Enqueue(outbox, owed)
  BY DEF TypeOK, ReadFrames
<1>10. /\ outbox' \in Seq(Reply) /\ Len(outbox') <= QueueCap
       /\ \A i \in DOMAIN outbox' : i \in DOMAIN (outbox \o owed) /\ outbox'[i] = (outbox \o owed)[i]
  <2> HIDE DEF owed
  <2> QED
    BY <1>8, <1>9, EnqueueType
<1>11. ASSUME NEW i \in DOMAIN outbox'
       PROVE  (outbox'[i].id = c /\ c \in known) \/ \E j \in DOMAIN outbox : outbox'[i] = outbox[j]
  <2> HIDE DEF owed
  <2>1. i \in DOMAIN (outbox \o owed) /\ outbox'[i] = (outbox \o owed)[i]
    BY <1>10
  <2>2. \/ i \in DOMAIN outbox /\ (outbox \o owed)[i] = outbox[i]
        \/ i - Len(outbox) \in DOMAIN owed /\ (outbox \o owed)[i] = owed[i - Len(outbox)]
    BY <1>8, <1>9, <2>1
  <2> QED
    BY <1>8, <2>1, <2>2
<1> QED
  BY <1>4, <1>10, <1>11


\* Renewing a registration only ever adds the connection to those with an event.
LEMMA RenewType ==
  ASSUME NEW c \in Id, edge \subseteq Id, Renew(c)
  PROVE  edge' \subseteq Id /\ edge \subseteq edge'
BY DEF Renew

\* The state Worker::new leaves has the types.
LEMMA TypeInit == Init => TypeOK
<1> SUFFICES ASSUME Init PROVE TypeOK
  OBVIOUS
<1>1. <<>> \in Seq(Event) /\ <<>> \in Seq(Piece) /\ <<>> \in Seq(Frame)
      /\ <<>> \in Seq(Reply) /\ Len(<<>>) = 0
  OBVIOUS
<1>2. /\ wbuf \in [Id -> Seq(Piece)] /\ wire \in [Id -> Seq(Piece)] /\ rx \in [Id -> Seq(Frame)]
      /\ sent \in [Id -> 0 .. MaxReq] /\ taken \in [Id -> Nat] /\ arm \in [Id -> BOOLEAN]
      /\ sock \in [Id -> {"none", "open", "fin", "rst", "closed"}]
  BY <1>1 DEF Init
<1>3. /\ ready \in Seq(Event) /\ outbox \in Seq(Reply) /\ Len(outbox) <= QueueCap
      /\ nextId \in 0 .. MaxConns /\ backlog \in 0 .. MaxBacklog
  BY <1>1 DEF Init
<1> QED
  BY <1>2, <1>3 DEF Init, TypeOK

\* Every step keeps the type invariant.
LEMMA TypeNext == TypeOK /\ [Next]_vars => TypeOK'
<1> SUFFICES ASSUME TypeOK, [Next]_vars PROVE TypeOK'
  OBVIOUS
<1> USE DEF loopVars, connVars, handlerVars, peerVars, pollVars
<1>1. CASE StopAtTop
  BY <1>1 DEF TypeOK, StopAtTop
<1>2. CASE Reclaim
  <2>1. Doomed \in SUBSET Id
    BY DEF TypeOK, Doomed
  <2> QED
    BY <1>2, <2>1, CutType DEF TypeOK, Reclaim
<1>3. CASE PollFails
  BY <1>3 DEF TypeOK, PollFails
<1>4. CASE PollEmpty
  BY <1>4 DEF TypeOK, PollEmpty, EndTick
<1>5. CASE PollEvents
  BY <1>5, EventsType DEF TypeOK, PollEvents
<1>7. CASE EventUdp
  BY <1>7 DEF TypeOK, EventUdp
<1>8. CASE EventListen
  <2> DEFINE fresh == nextId .. Least(nextId + Accepted, MaxConns) - 1
  <2>1. Accepted \in 0 .. backlog
    BY DEF TypeOK, Accepted, Least
  <2>2. Least(nextId + Accepted, MaxConns) \in 0 .. MaxConns
    BY <2>1 DEF TypeOK, Least
  <2>3. fresh \subseteq Id
    <3>1. nextId \in Nat
      BY DEF TypeOK
    <3>2. \A n \in fresh : n \in Int /\ 0 <= n /\ n <= MaxConns - 1
      BY <2>2, <3>1
    <3> QED
      BY <3>2 DEF Id
  <2>4. backlog' \in 0 .. MaxBacklog
    BY <1>8, <2>1 DEF TypeOK, EventListen
  <2>5. nextId' \in 0 .. MaxConns
    BY <1>8, <2>2 DEF TypeOK, EventListen
  <2>6. /\ table' \subseteq Id /\ halfOpen' \subseteq Id /\ known' \subseteq Id
        /\ sock' \in [Id -> {"none", "open", "fin", "rst", "closed"}]
    <3>1. CASE UNCHANGED <<nextId, table, halfOpen, known, sock>>
      BY <1>8, <3>1 DEF TypeOK, EventListen
    <3>2. CASE \E live \in IF "failure" \in Happens THEN SUBSET fresh ELSE {fresh} :
                 /\ table' = table \cup live
                 /\ halfOpen' = halfOpen \cup live
                 /\ known' = known \cup live
                 /\ sock' = [c \in Id |-> IF c \in live THEN "open" ELSE sock[c]]
      <4>1. PICK live \in SUBSET fresh :
                 /\ table' = table \cup live
                 /\ halfOpen' = halfOpen \cup live
                 /\ known' = known \cup live
                 /\ sock' = [c \in Id |-> IF c \in live THEN "open" ELSE sock[c]]
        BY <3>2
      <4> QED
        BY <2>3, <4>1 DEF TypeOK
    <3> QED
      BY <1>8, <3>1, <3>2 DEF EventListen
  <2> QED
    BY <1>8, <2>4, <2>5, <2>6 DEF TypeOK, EventListen
<1>9. CASE EventsDone
  BY <1>9 DEF TypeOK, EventsDone
<1>10. ASSUME NEW h \in hits, EventConn(h)
       PROVE  TypeOK'
  BY <1>10 DEF TypeOK, EventConn
<1>11. ASSUME NEW h \in hits, EventGone(h)
       PROVE  TypeOK'
  BY <1>11, CutType DEF TypeOK, EventGone
<1>12. CASE SkipReady
  BY <1>12 DEF TypeOK, SkipReady, AtReady
<1>13. CASE ReadyDone
  BY <1>13 DEF TypeOK, ReadyDone
<1>14. CASE RepliesDone
  BY <1>14 DEF TypeOK, RepliesDone, EndTick
<1>15. ASSUME NEW c \in table, ReadFrames(c)
       PROVE  TypeOK'
  <2>1. c \in Id
    BY DEF TypeOK
  <2>2. /\ rx' \in [Id -> Seq(Frame)]
        /\ outbox' \in Seq(Reply) /\ Len(outbox') <= QueueCap
    BY <1>15, <2>1, ReadType
  <2>3. kept' \subseteq Reply
    <3>1. \A i \in DOMAIN outbox' : outbox'[i] \in Reply
      BY <2>2
    <3>2. kept' = kept \cup {outbox'[i] : i \in DOMAIN outbox'}
      BY <1>15 DEF ReadFrames
    <3> QED
      BY <3>1, <3>2 DEF TypeOK
  <2>4. ready' \in Seq(Event)
    <3>1. /\ ready \in Seq(Event) /\ ready # <<>>
          /\ ready' = <<[id |-> c, r |-> FALSE, w |-> Head(ready).w, gone |-> FALSE]>> \o Tail(ready)
      BY <1>15 DEF TypeOK, ReadFrames, AtReady
    <3>2. Head(ready) \in Event /\ Tail(ready) \in Seq(Event)
      BY <3>1
    <3>3. [id |-> c, r |-> FALSE, w |-> Head(ready).w, gone |-> FALSE] \in Event
      BY <2>1, <3>2 DEF Event
    <3> QED
      BY <3>1, <3>2, <3>3
  <2> QED
    BY <1>15, <2>2, <2>3, <2>4 DEF TypeOK, ReadFrames, AtReady
<1>16. ASSUME NEW c \in table, ReadEnds(c)
       PROVE  TypeOK'
  <2>1. {c} \in SUBSET Id
    BY DEF TypeOK
  <2>2. Cut({c}) /\ ready' \in Seq(Event)
    <3>1. ready \in Seq(Event) /\ ready # <<>> /\ ready' = Tail(ready) /\ Cut({c})
      BY <1>16 DEF TypeOK, ReadEnds, AtReady
    <3> QED
      BY <3>1
  <2>3. UNCHANGED <<pc, ticks, woken, due, hits>>
    BY <1>16 DEF ReadEnds
  <2> QED
    BY <2>1, <2>2, <2>3, CutType DEF TypeOK
<1>17. ASSUME NEW c \in table, WritePieces(c)
       PROVE  TypeOK'
  <2>1. c \in Id
    BY DEF TypeOK
  <2>2. /\ wire' \in [Id -> Seq(Piece)] /\ wbuf' \in [Id -> Seq(Piece)]
        /\ late' \subseteq Id
    <3>1. Room(c) \in Int /\ wbuf[c] \in Seq(Piece) /\ wire[c] \in Seq(Piece) /\ Len(wbuf[c]) \in Nat
      BY <2>1 DEF TypeOK, Room
    <3>2. PICK n \in (IF Room(c) = 0 \/ wbuf[c] = <<>> THEN {0} ELSE 1 .. Least(Room(c), Len(wbuf[c]))) :
             /\ wire' = [wire EXCEPT ![c] = @ \o SubSeq(wbuf[c], 1, n)]
             /\ wbuf' = [wbuf EXCEPT ![c] = SubSeq(@, n + 1, Len(@))]
             /\ late' = IF n > 0 /\ c \notin halfOpen THEN late \ {c} ELSE late
      BY <1>17 DEF WritePieces
    <3>3. n \in 0 .. Len(wbuf[c])
      BY <3>1, <3>2 DEF Least
    <3>4. SubSeq(wbuf[c], 1, n) \in Seq(Piece) /\ SubSeq(wbuf[c], n + 1, Len(wbuf[c])) \in Seq(Piece)
      BY <3>1, <3>3
    <3>5. wire[c] \o SubSeq(wbuf[c], 1, n) \in Seq(Piece)
      BY <3>1, <3>4
    <3> QED
      BY <3>2, <3>4, <3>5 DEF TypeOK
  <2>3. ready' \in Seq(Event) /\ arm' \in [Id -> BOOLEAN]
    BY <1>17 DEF TypeOK, WritePieces, AtReady
  <2>4. edge' \subseteq Id
    BY <1>17, <2>1, RenewType DEF TypeOK, WritePieces
  <2> QED
    BY <1>17, <2>2, <2>3, <2>4 DEF TypeOK, WritePieces, AtReady
<1>18. ASSUME NEW c \in table, WriteFails(c)
       PROVE  TypeOK'
  <2>1. {c} \in SUBSET Id
    BY DEF TypeOK
  <2>2. Cut({c}) /\ ready' \in Seq(Event)
    <3>1. ready \in Seq(Event) /\ ready # <<>> /\ ready' = Tail(ready) /\ Cut({c})
      BY <1>18 DEF TypeOK, WriteFails, AtReady
    <3> QED
      BY <3>1
  <2>3. UNCHANGED <<pc, ticks, woken, due, hits>>
    BY <1>18 DEF WriteFails
  <2> QED
    BY <2>1, <2>2, <2>3, CutType DEF TypeOK
<1>19. ASSUME NEW c \in table, TakeReply(c)
       PROVE  TypeOK'
  <2>1. c \in Id
    BY DEF TypeOK
  <2>2. outbox \in Seq(Reply) /\ outbox # <<>> /\ outbox' = Tail(outbox) /\ Len(outbox) <= QueueCap
    BY <1>19 DEF TypeOK, TakeReply, AtReplies
  <2>3. outbox' \in Seq(Reply) /\ Len(outbox') <= QueueCap /\ Head(outbox).no \in 1 .. MaxReq
    <3>1. Len(outbox) \in Nat \ {0} /\ Len(outbox') = Len(outbox) - 1 /\ outbox' \in Seq(Reply)
      BY <2>2
    <3>2. Head(outbox) \in Reply
      BY <2>2
    <3> QED
      BY <2>2, <3>1, <3>2 DEF Reply
  <2>4. FrameOf(Head(outbox).no) \in Seq(Piece)
    <3>1. \A p \in 1 .. Pieces : [no |-> Head(outbox).no, part |-> p] \in Piece
      BY <2>3 DEF Piece
    <3>2. FrameOf(Head(outbox).no) \in [1 .. Pieces -> Piece]
      BY <3>1 DEF FrameOf
    <3> QED
      BY <3>2
  <2>5. edge' \subseteq Id
    BY <1>19, <2>1, RenewType DEF TypeOK, TakeReply
  <2>6. wbuf' \in [Id -> Seq(Piece)] /\ arm' \in [Id -> BOOLEAN]
    BY <1>19, <2>4 DEF TypeOK, TakeReply
  <2> QED
    BY <1>19, <2>3, <2>5, <2>6 DEF TypeOK, TakeReply, AtReplies
<1>20. ASSUME NEW c \in table, RequeueReply(c)
       PROVE  TypeOK'
  <2>1. outbox \in Seq(Reply) /\ outbox # <<>> /\ outbox' = Enqueue(Tail(outbox), <<Head(outbox)>>)
    BY <1>20 DEF TypeOK, RequeueReply, AtReplies
  <2>2. Tail(outbox) \in Seq(Reply) /\ <<Head(outbox)>> \in Seq(Reply)
    BY <2>1
  <2>3. outbox' \in Seq(Reply) /\ Len(outbox') <= QueueCap
    BY <2>1, <2>2, EnqueueType
  <2>4. pc' \in {"top", "stopped"} /\ ticks' \in Nat
    BY <1>20 DEF TypeOK, RequeueReply, EndTick
  <2>5. UNCHANGED <<woken, due, hits, ready, stop, connVars, known, kept, peerVars, pollVars>>
    BY <1>20 DEF RequeueReply
  <2> QED
    BY <2>3, <2>4, <2>5 DEF TypeOK
<1> USE DEF workerVars
<1>21. CASE PeerConnects
  BY <1>21 DEF TypeOK, PeerConnects, Misc
<1>22. CASE UdpArrives
  BY <1>22 DEF TypeOK, UdpArrives, Misc
<1>23. CASE RequestStop
  BY <1>23 DEF TypeOK, RequestStop
<1>24. CASE PostWake
  BY <1>24 DEF TypeOK, PostWake, Misc
<1>25. ASSUME NEW c \in Id, PeerSends(c)
       PROVE  TypeOK'
  <2>1. PICK ask \in BOOLEAN : rx' = [rx EXCEPT ![c] = Append(@, [no |-> sent[c] + 1, ask |-> ask])]
    BY <1>25 DEF PeerSends
  <2>2. sent[c] + 1 \in 1 .. MaxReq
    BY <1>25 DEF TypeOK, PeerSends
  <2>3. [no |-> sent[c] + 1, ask |-> ask] \in Frame
    BY <2>2 DEF Frame
  <2>4. rx' \in [Id -> Seq(Frame)]
    BY <2>1, <2>3 DEF TypeOK
  <2>5. sent' \in [Id -> 0 .. MaxReq] /\ edge' \subseteq Id
    BY <1>25, <2>2 DEF TypeOK, PeerSends
  <2>6. UNCHANGED <<workerVars, stop, late, backlog, sock, wire, taken, misc>>
    BY <1>25 DEF PeerSends
  <2> QED
    BY <2>4, <2>5, <2>6 DEF TypeOK
<1>26. ASSUME NEW c \in Id, PeerEnds(c)
       PROVE  TypeOK'
  BY <1>26 DEF TypeOK, PeerEnds
<1>27. ASSUME NEW c \in Id, PeerReceives(c)
       PROVE  TypeOK'
  <2>1. taken' \in [Id -> Nat]
    BY <1>27 DEF TypeOK, PeerReceives
  <2>2. edge' \subseteq Id
    BY <1>27 DEF TypeOK, PeerReceives
  <2>3. UNCHANGED <<workerVars, stop, late, backlog, sock, sent, rx, wire, misc>>
    BY <1>27 DEF PeerReceives
  <2> QED
    BY <2>1, <2>2, <2>3 DEF TypeOK
<1>28. ASSUME NEW c \in Id, Expire(c)
       PROVE  TypeOK'
  BY <1>28 DEF TypeOK, Expire
<1>29. CASE UNCHANGED vars
  BY <1>29 DEF TypeOK, vars
<1> QED
  BY <1>1, <1>2, <1>3, <1>4, <1>5, <1>7, <1>8, <1>9, <1>10, <1>11, <1>12, <1>13, <1>14,
     <1>15, <1>16, <1>17, <1>18, <1>19, <1>20, <1>21, <1>22, <1>23, <1>24, <1>25, <1>26, <1>27,
     <1>28, <1>29
  DEF Next, Tick, Outside, Returned

\* No step of the worker, its handler or their surroundings takes a variable out of
\* its type: in particular the outbox never outgrows REPLY_QUEUE_CAP.
THEOREM TypeCorrect == Spec => []TypeOK
BY TypeInit, TypeNext, PTL DEF Spec


--------------------------------------------------------------------------------
(* The worker's table and the handler's record of it.                       *)

\* Cutting connections that are in the table takes them out of both records, and
\* every reply queued for them out of the outbox.
LEMMA CutTracks ==
  ASSUME TypeOK, HandlerTracksTable, NEW D \in SUBSET Id, Cut(D)
  PROVE  HandlerTracksTable'
<1> DEFINE I == {i \in DOMAIN outbox : outbox[i].id \notin D}
<1>1. known' = table'
  BY DEF HandlerTracksTable, Cut, Forget
<1>2. ASSUME NEW i \in DOMAIN outbox'
      PROVE  outbox'[i].id \in table'
  <2>1. outbox \in Seq(Reply) /\ I \in SUBSET (DOMAIN outbox)
    BY DEF TypeOK
  <2>2. outbox' = Pick(outbox, I)
    BY DEF Cut, Forget
  <2>3. /\ DOMAIN Pick(outbox, I) = 1 .. Cardinality(I)
        /\ \A j \in 1 .. Cardinality(I) : \E k \in I : Pick(outbox, I)[j] = outbox[k]
    <3> HIDE DEF I
    <3>1. DOMAIN Pick(outbox, I) = 1 .. Cardinality(I)
      BY DEF Pick
    <3>2. \A j \in 1 .. Cardinality(I) : \E k \in I : Pick(outbox, I)[j] = outbox[k]
      BY <2>1, PickType
    <3> QED
      BY <3>1, <3>2
  <2>4. PICK k \in I : outbox'[i] = outbox[k]
    BY <2>2, <2>3
  <2>5. outbox[k].id \in table \ D
    BY <2>4 DEF HandlerTracksTable
  <2> QED
    BY <2>4, <2>5 DEF Cut
<1>3. ASSUME NEW c \in table'
      PROVE  c < nextId' /\ sock'[c] \in {"open", "fin", "rst"}
  BY DEF TypeOK, HandlerTracksTable, Cut
<1> QED
  BY <1>1, <1>2, <1>3 DEF HandlerTracksTable

\* A step that leaves the records and the outbox alone and does not close a socket.
LEMMA SameTracks ==
  ASSUME TypeOK, HandlerTracksTable, UNCHANGED <<nextId, table, known, outbox, sock>>
  PROVE  HandlerTracksTable'
BY DEF HandlerTracksTable

\* Every step keeps the two records in agreement.
LEMMA TracksNext == TypeOK /\ HandlerTracksTable /\ [Next]_vars => HandlerTracksTable'
<1> SUFFICES ASSUME TypeOK, HandlerTracksTable, [Next]_vars PROVE HandlerTracksTable'
  OBVIOUS
<1> USE DEF loopVars, connVars, handlerVars, peerVars, pollVars
<1>1. CASE StopAtTop \/ PollFails \/ PollEmpty \/ PollEvents \/ EventUdp \/ EventsDone
           \/ SkipReady \/ ReadyDone \/ RepliesDone \/ UNCHANGED vars
  BY <1>1, SameTracks DEF StopAtTop, PollFails, PollEmpty, PollEvents, EventUdp,
     EventsDone, SkipReady, ReadyDone, RepliesDone, vars
<1>2. CASE Reclaim
  BY <1>2, CutTracks DEF TypeOK, Reclaim, Doomed
<1>3. CASE EventListen
  <2> DEFINE fresh == nextId .. Least(nextId + Accepted, MaxConns) - 1
  <2>1. CASE UNCHANGED <<nextId, table, halfOpen, known, sock>>
    BY <1>3, <2>1, SameTracks DEF EventListen
  <2>2. CASE /\ nextId' = Least(nextId + Accepted, MaxConns)
             /\ \E live \in IF "failure" \in Happens THEN SUBSET fresh ELSE {fresh} :
                  /\ table' = table \cup live
                  /\ halfOpen' = halfOpen \cup live
                  /\ known' = known \cup live
                  /\ sock' = [c \in Id |-> IF c \in live THEN "open" ELSE sock[c]]
    <3>1. PICK live \in SUBSET fresh :
                 /\ table' = table \cup live
                 /\ known' = known \cup live
                 /\ sock' = [c \in Id |-> IF c \in live THEN "open" ELSE sock[c]]
      BY <2>2
    <3>2. outbox' = outbox
      BY <1>3 DEF EventListen
    <3>3. Accepted \in Nat
      BY DEF TypeOK, Accepted, Least
    <3>4. nextId \in Nat /\ nextId <= MaxConns
      BY DEF TypeOK
    <3>5. nextId' \in Nat /\ nextId <= nextId'
      BY <2>2, <3>3, <3>4 DEF Least
    <3>6. \A c \in live : c < nextId'
      BY <2>2, <3>4, <3>5
    <3>7. \A c \in table : c < nextId'
      BY <3>4, <3>5 DEF TypeOK, HandlerTracksTable, Id
    <3>8. \A c \in table' : c \in Id
      BY <3>1, TypeNext DEF TypeOK
    <3>9. \A c \in table' : c < nextId' /\ sock'[c] \in {"open", "fin", "rst"}
      BY <3>1, <3>6, <3>7, <3>8 DEF HandlerTracksTable
    <3> QED
      BY <3>1, <3>2, <3>9 DEF HandlerTracksTable
  <2> QED
    BY <1>3, <2>1, <2>2 DEF EventListen
<1>4. ASSUME NEW h \in hits, EventConn(h)
      PROVE  HandlerTracksTable'
  BY <1>4, SameTracks DEF EventConn
<1>5. ASSUME NEW h \in hits, EventGone(h)
      PROVE  HandlerTracksTable'
  BY <1>5, CutTracks DEF TypeOK, EventGone
<1>6. ASSUME NEW c \in table, ReadFrames(c)
      PROVE  HandlerTracksTable'
  <2>1. c \in Id
    BY DEF TypeOK
  <2>2. \A i \in DOMAIN outbox' :
          (outbox'[i].id = c /\ c \in known) \/ \E j \in DOMAIN outbox : outbox'[i] = outbox[j]
    BY <1>6, <2>1, ReadType
  <2>3. UNCHANGED <<nextId, table, known, sock>>
    BY <1>6 DEF ReadFrames
  <2> QED
    BY <2>2, <2>3 DEF HandlerTracksTable
<1>7. ASSUME NEW c \in table, ReadEnds(c) \/ WriteFails(c)
      PROVE  HandlerTracksTable'
  BY <1>7, CutTracks DEF TypeOK, ReadEnds, WriteFails
<1>8. ASSUME NEW c \in table, WritePieces(c)
      PROVE  HandlerTracksTable'
  BY <1>8, SameTracks DEF WritePieces
<1>9. ASSUME NEW c \in table, TakeReply(c)
      PROVE  HandlerTracksTable'
  <2>1. outbox \in Seq(Reply) /\ outbox # <<>> /\ outbox' = Tail(outbox)
    BY <1>9 DEF TypeOK, TakeReply, AtReplies
  <2>2. \A i \in DOMAIN outbox' : i + 1 \in DOMAIN outbox /\ outbox'[i] = outbox[i + 1]
    BY <2>1
  <2>3. UNCHANGED <<nextId, table, known, sock>>
    BY <1>9 DEF TakeReply
  <2> QED
    BY <2>2, <2>3 DEF HandlerTracksTable
<1>10. ASSUME NEW c \in table, RequeueReply(c)
       PROVE  HandlerTracksTable'
  <2>1. outbox \in Seq(Reply) /\ outbox # <<>> /\ outbox' = Enqueue(Tail(outbox), <<Head(outbox)>>)
    BY <1>10 DEF TypeOK, RequeueReply, AtReplies
  <2>2. Tail(outbox) \in Seq(Reply) /\ <<Head(outbox)>> \in Seq(Reply)
    BY <2>1
  <2>3. \A i \in DOMAIN outbox' : i \in DOMAIN (Tail(outbox) \o <<Head(outbox)>>)
                                  /\ outbox'[i] = (Tail(outbox) \o <<Head(outbox)>>)[i]
    BY <2>1, <2>2, EnqueueType
  <2>4. \A i \in DOMAIN (Tail(outbox) \o <<Head(outbox)>>) :
          \E j \in DOMAIN outbox : (Tail(outbox) \o <<Head(outbox)>>)[i] = outbox[j]
    <3> SUFFICES ASSUME NEW i \in DOMAIN (Tail(outbox) \o <<Head(outbox)>>)
                 PROVE  \E j \in DOMAIN outbox : (Tail(outbox) \o <<Head(outbox)>>)[i] = outbox[j]
      OBVIOUS
    <3>1. Len(outbox) \in Nat \ {0} /\ i \in 1 .. Len(outbox)
      BY <2>1
    <3>2. CASE i < Len(outbox)
      BY <2>1, <3>1, <3>2
    <3>3. CASE i = Len(outbox)
      BY <2>1, <3>1, <3>3
    <3> QED
      BY <3>1, <3>2, <3>3
  <2>5. UNCHANGED <<nextId, table, known, sock>>
    BY <1>10 DEF RequeueReply
  <2> QED
    BY <2>3, <2>4, <2>5 DEF HandlerTracksTable
<1> USE DEF workerVars
<1>11. CASE PeerConnects \/ UdpArrives \/ RequestStop \/ PostWake
  BY <1>11, SameTracks DEF PeerConnects, UdpArrives, RequestStop, PostWake
<1>12. ASSUME NEW c \in Id, PeerSends(c) \/ PeerReceives(c) \/ Expire(c)
       PROVE  HandlerTracksTable'
  BY <1>12, SameTracks DEF PeerSends, PeerReceives, Expire
<1>13. ASSUME NEW c \in Id, PeerEnds(c)
       PROVE  HandlerTracksTable'
  BY <1>13 DEF TypeOK, HandlerTracksTable, PeerEnds
<1> QED
  BY <1>1, <1>2, <1>3, <1>4, <1>5, <1>6, <1>7, <1>8, <1>9, <1>10, <1>11, <1>12, <1>13
  DEF Next, Tick, Outside, Returned

\* The worker and its handler agree on the connections that are alive, whatever
\* fails, and no reply waits for a connection that is gone.
THEOREM HandlerTracks == Spec => []HandlerTracksTable
<1>1. Init => TypeOK /\ HandlerTracksTable
  BY TypeInit DEF Init, HandlerTracksTable
<1>2. TypeOK /\ HandlerTracksTable /\ [Next]_vars => (TypeOK /\ HandlerTracksTable)'
  BY TypeNext, TracksNext
<1> QED
  BY <1>1, <1>2, PTL DEF Spec


--------------------------------------------------------------------------------
(* No wake-up is lost.  The two invariants are not inductive: between a poll  *)
(* and the service of its events, what is owed to a connection is recorded in *)
(* hits and ready, which must be empty again when the next poll clears edge.  *)

\* Between ticks nothing of the last one is left to be handled.
TickDone ==
  /\ pc \in {"top", "poll", "ready", "replies"} => hits = {}
  /\ pc \in {"top", "poll", "replies"} => ready = <<>>

\* A connection that is not in the table has nothing to write.
IdleBuffers == \A c \in Id \ table : wbuf[c] = <<>> /\ ~arm[c]

\* What WriteNotForgotten says of one connection.
WriteDue(c) ==
  /\ arm[c] = (wbuf[c] # <<>>)
  /\ pc # "stopped" /\ wbuf[c] # <<>> /\ Room(c) > 0 => Pending(c)

\* The end of c's stream is still to be reported or acted on.
EndDue(c) == c \in edge \/ \E h \in hits : h.id = c /\ h.gone

EndPending ==
  pc # "stopped" => \A c \in table : sock[c] \in {"fin", "rst"} => EndDue(c)

WakeInv == (\A c \in table : WriteDue(c)) /\ TickDone /\ IdleBuffers /\ EndPending

\* A connection that a step leaves alone keeps its claim if its event is kept.
LEMMA WriteCarried ==
  ASSUME NEW c, WriteDue(c), pc' # "stopped" => pc # "stopped",
         wbuf'[c] = wbuf[c], arm'[c] = arm[c], wire'[c] = wire[c], taken'[c] = taken[c],
         Pending(c) => Pending(c)'
  PROVE  WriteDue(c)'
BY DEF WriteDue, Room

\* A step that touches no connection, and keeps the events it has to.
LEMMA SameWake ==
  ASSUME WakeInv, TickDone', pc' # "stopped" => pc # "stopped",
         UNCHANGED <<table, wbuf, arm, wire, taken, sock>>,
         \A c \in table : (Pending(c) => Pending(c)') /\ (EndDue(c) => EndDue(c)')
  PROVE  WakeInv'
<1>1. ASSUME NEW c \in table
      PROVE  WriteDue(c)'
  BY WriteCarried DEF WakeInv
<1>2. IdleBuffers' /\ EndPending'
  BY DEF WakeInv, IdleBuffers, EndPending
<1> QED
  BY <1>1, <1>2 DEF WakeInv

\* A cut, by a step that keeps the events of the connections it does not cut.
LEMMA CutWake ==
  ASSUME TypeOK, WakeInv, NEW D \in SUBSET Id, Cut(D),
         TickDone', pc' # "stopped" => pc # "stopped",
         \A c \in table \ D : (Pending(c) => Pending(c)') /\ (EndDue(c) => EndDue(c)')
  PROVE  WakeInv'
<1>1. table' = table \ D /\ table \subseteq Id
  BY DEF TypeOK, Cut
<1>2. ASSUME NEW c \in table'
      PROVE  WriteDue(c)'
  <2>1. /\ wbuf'[c] = wbuf[c] /\ arm'[c] = arm[c]
        /\ wire'[c] = wire[c] /\ taken'[c] = taken[c]
    <3>1. arm[c] \in BOOLEAN
      BY <1>1 DEF TypeOK
    <3> QED
      BY <1>1, <3>1 DEF Cut
  <2> QED
    BY <1>1, <2>1, WriteCarried DEF WakeInv
<1>3. IdleBuffers'
  BY <1>1 DEF WakeInv, IdleBuffers, Cut
<1>4. EndPending'
  BY <1>1 DEF WakeInv, EndPending, Cut
<1> QED
  BY <1>2, <1>3, <1>4 DEF WakeInv

\* When the worker polls, what is owed to a connection is what the poller has to
\* report of it.
LEMMA PollReports ==
  ASSUME TypeOK, WakeInv, pc = "poll", NEW c \in table
  PROVE  /\ wbuf[c] # <<>> /\ Room(c) > 0 => EventOf(c) \in ConnEvents /\ EventOf(c).w
         /\ sock[c] \in {"fin", "rst"} => EventOf(c) \in ConnEvents /\ EventOf(c).gone
<1>1. hits = {} /\ ready = <<>>
  BY DEF WakeInv, TickDone
<1>2. Pending(c) => c \in edge
  BY <1>1 DEF Pending
<1>3. EndDue(c) => c \in edge
  BY <1>1 DEF EndDue
<1>4. ASSUME wbuf[c] # <<>>, Room(c) > 0
      PROVE  EventOf(c) \in ConnEvents /\ EventOf(c).w
  <2>1. arm[c] /\ Writable(c) /\ c \in edge
    BY <1>2, <1>4 DEF WakeInv, WriteDue, Writable
  <2>2. EventOf(c).w
    BY <2>1 DEF EventOf
  <2> QED
    BY <2>1, <2>2 DEF ConnEvents
<1>5. ASSUME sock[c] \in {"fin", "rst"}
      PROVE  EventOf(c) \in ConnEvents /\ EventOf(c).gone
  <2>1. c \in edge /\ Gone(c)
    BY <1>3, <1>5 DEF WakeInv, EndPending, Gone
  <2>2. EventOf(c).gone
    BY <2>1 DEF EventOf
  <2> QED
    BY <2>1, <2>2 DEF ConnEvents
<1> QED
  BY <1>4, <1>5

\* Dropping the head of the ready list keeps the entries of other connections.
LEMMA TailKeeps ==
  ASSUME TypeOK, ready # <<>>, ready' = Tail(ready), hits' = hits,
         NEW c, c = Head(ready).id => ~Head(ready).w, c \in edge => c \in edge'
  PROVE  (Pending(c) => Pending(c)') /\ (EndDue(c) => EndDue(c)')
<1>1. ASSUME NEW i \in DOMAIN ready, ready[i].id = c, ready[i].w
      PROVE  \E j \in DOMAIN ready' : ready'[j].id = c /\ ready'[j].w
  <2>1. ready \in Seq(Event) /\ Len(ready) \in Nat /\ i # 1
    BY <1>1 DEF TypeOK
  <2>2. i - 1 \in DOMAIN ready' /\ ready'[i - 1] = ready[i]
    BY <2>1
  <2> QED
    BY <1>1, <2>2
<1> QED
  BY <1>1 DEF Pending, EndDue


\* Every step keeps what the next poll will need.
LEMMA WakeNext ==
  TypeOK /\ WakeInv /\ [Next]_vars => WakeInv'
<1> SUFFICES ASSUME TypeOK, WakeInv, [Next]_vars PROVE WakeInv'
  OBVIOUS
<1>0. table \subseteq Id
  BY DEF TypeOK
<1> USE DEF loopVars, connVars, handlerVars, peerVars, pollVars
<1>1. CASE StopAtTop \/ PollFails \/ EventUdp \/ EventsDone \/ ReadyDone \/ RepliesDone
           \/ UNCHANGED vars
  <2>1. UNCHANGED <<hits, ready, edge, table, wbuf, arm, wire, taken, sock>>
    BY <1>1 DEF StopAtTop, PollFails, EventUdp, EventsDone, ReadyDone, RepliesDone, vars
  <2>2. pc' # "stopped" => pc # "stopped"
    BY <1>1 DEF StopAtTop, PollFails, EventUdp, EventsDone, ReadyDone, RepliesDone, vars
  <2>3. TickDone'
    BY <1>1, <2>1 DEF WakeInv, TickDone, StopAtTop, PollFails, EventUdp, EventsDone,
       ReadyDone, RepliesDone, EndTick, vars
  <2>4. \A c \in table : (Pending(c) => Pending(c)') /\ (EndDue(c) => EndDue(c)')
    BY <2>1 DEF Pending, EndDue
  <2> QED
    BY <2>1, <2>2, <2>3, <2>4, SameWake
<1>2. CASE Reclaim
  <2>1. Cut(Doomed) /\ Doomed \in SUBSET Id
    BY <1>2 DEF TypeOK, Reclaim, Doomed
  <2>2. UNCHANGED <<hits, ready>> /\ edge' = edge \ Doomed /\ pc = "top" /\ pc' = "poll"
    BY <1>2 DEF Reclaim, Cut
  <2>3. TickDone'
    BY <2>2 DEF WakeInv, TickDone
  <2>4. \A c \in table \ Doomed : (Pending(c) => Pending(c)') /\ (EndDue(c) => EndDue(c)')
    BY <2>2 DEF Pending, EndDue
  <2> QED
    BY <2>1, <2>2, <2>3, <2>4, CutWake
<1>3. CASE PollEmpty
  <2>1. UNCHANGED <<hits, ready, table, wbuf, arm, wire, taken, sock>> /\ ConnEvents = {} /\ pc = "poll"
    BY <1>3 DEF PollEmpty
  <2>2. \A c \in table : /\ ~(wbuf[c] # <<>> /\ Room(c) > 0)
                         /\ sock[c] \notin {"fin", "rst"}
    BY <2>1, PollReports
  <2>3. \A c \in table : WriteDue(c)'
    BY <2>1, <2>2 DEF WakeInv, WriteDue, Room
  <2>4. TickDone'
    BY <2>1 DEF WakeInv, TickDone
  <2>5. IdleBuffers' /\ EndPending'
    BY <2>1, <2>2 DEF WakeInv, IdleBuffers, EndPending
  <2> QED
    BY <2>1, <2>3, <2>4, <2>5 DEF WakeInv
<1>4. CASE PollEvents
  <2>1. UNCHANGED <<ready, table, wbuf, arm, wire, taken, sock>> /\ hits' = ConnEvents /\ pc = "poll"
        /\ pc' \in {"stopped", "events"}
    BY <1>4 DEF PollEvents
  <2>2. ASSUME NEW c \in table
        PROVE  WriteDue(c)' /\ (sock'[c] \in {"fin", "rst"} => EndDue(c)')
    <3>1. EventOf(c).id = c
      BY DEF EventOf
    <3> QED
      BY <2>1, <3>1, PollReports DEF WakeInv, WriteDue, Room, Pending, EndDue
  <2>3. TickDone'
    BY <2>1 DEF TickDone
  <2>4. IdleBuffers' /\ EndPending'
    BY <2>1, <2>2 DEF WakeInv, IdleBuffers, EndPending
  <2> QED
    BY <2>1, <2>2, <2>3, <2>4 DEF WakeInv
<1>5. CASE EventListen
  <2> DEFINE fresh == nextId .. Least(nextId + Accepted, MaxConns) - 1
  <2>1. /\ UNCHANGED <<pc, hits, ready, edge, wbuf, arm, wire, taken>>
        /\ \E live \in SUBSET fresh :
             /\ table' = table \cup live
             /\ \A c \in Id : sock'[c] = IF c \in live THEN "open" ELSE sock[c]
    <3>1. UNCHANGED <<pc, hits, ready, edge, wbuf, arm, wire, taken>>
      BY <1>5 DEF EventListen
    <3>2. CASE UNCHANGED <<nextId, table, halfOpen, known, sock>>
      <4>1. {} \in SUBSET fresh /\ table' = table \cup {}
            /\ \A c \in Id : sock'[c] = IF c \in {} THEN "open" ELSE sock[c]
        BY <3>2
      <4> QED
        BY <3>1, <4>1
    <3>3. CASE \E live \in IF "failure" \in Happens THEN SUBSET fresh ELSE {fresh} :
                 /\ table' = table \cup live
                 /\ halfOpen' = halfOpen \cup live
                 /\ known' = known \cup live
                 /\ sock' = [c \in Id |-> IF c \in live THEN "open" ELSE sock[c]]
      <4>1. PICK live \in SUBSET fresh :
                 /\ table' = table \cup live
                 /\ sock' = [c \in Id |-> IF c \in live THEN "open" ELSE sock[c]]
        BY <3>3
      <4> QED
        BY <3>1, <4>1
    <3> QED
      BY <1>5, <3>1, <3>2, <3>3 DEF EventListen
  <2>2. PICK live \in SUBSET fresh :
             /\ table' = table \cup live
             /\ \A c \in Id : sock'[c] = IF c \in live THEN "open" ELSE sock[c]
    BY <2>1
  <2>3. table' \subseteq Id
    BY TypeNext DEF TypeOK
  <2>4. ASSUME NEW c \in table'
        PROVE  WriteDue(c)' /\ (c \in live => sock'[c] = "open")
    <3>1. CASE c \in table
      <4>1. Pending(c) => Pending(c)'
        BY <2>1 DEF Pending
      <4> QED
        BY <2>1, <2>2, <2>3, <3>1, <4>1, WriteCarried DEF WakeInv
    <3>2. CASE c \notin table
      <4>1. c \in Id /\ c \in live
        BY <2>2, <2>3, <3>2
      <4>2. wbuf'[c] = <<>> /\ arm'[c] = FALSE
        <5>1. arm[c] \in BOOLEAN
          BY <4>1 DEF TypeOK
        <5> QED
          BY <2>1, <3>2, <4>1, <5>1 DEF WakeInv, IdleBuffers
      <4>3. sock'[c] = "open"
        BY <2>2, <4>1
      <4> QED
        BY <4>2, <4>3 DEF WriteDue
    <3> QED
      BY <3>1, <3>2
  <2>5. \A c \in table : EndDue(c) => EndDue(c)'
    BY <2>1 DEF EndDue
  <2>6. TickDone' /\ IdleBuffers' /\ EndPending'
    BY <2>1, <2>2, <2>3, <2>4, <2>5 DEF WakeInv, TickDone, IdleBuffers, EndPending
  <2> QED
    BY <2>4, <2>6 DEF WakeInv
<1>6. ASSUME NEW h \in hits, EventConn(h)
      PROVE  WakeInv'
  <2>1. UNCHANGED <<pc, edge, table, wbuf, arm, wire, taken, sock>> /\ pc = "events" /\ ~h.gone
        /\ hits' = hits \ {h} /\ ready' = Append(ready, h) /\ ready \in Seq(Event)
    BY <1>6 DEF TypeOK, EventConn
  <2>2. /\ \A i \in DOMAIN ready : i \in DOMAIN ready' /\ ready'[i] = ready[i]
        /\ \E i \in DOMAIN ready' : ready'[i] = h
    <3>1. Len(ready) + 1 \in DOMAIN ready' /\ ready'[Len(ready) + 1] = h
      BY <2>1
    <3>2. \A i \in DOMAIN ready : i \in DOMAIN ready' /\ ready'[i] = ready[i]
      BY <2>1
    <3> QED
      BY <3>1, <3>2
  <2>3. \A c \in table : (Pending(c) => Pending(c)') /\ (EndDue(c) => EndDue(c)')
    BY <2>1, <2>2 DEF Pending, EndDue
  <2>4. TickDone'
    BY <2>1 DEF TickDone
  <2> QED
    BY <2>1, <2>3, <2>4, SameWake
<1>7. ASSUME NEW h \in hits, EventGone(h)
      PROVE  WakeInv'
  <2> DEFINE D == {h.id} \cap table
  <2>1. Cut(D) /\ D \in SUBSET Id /\ UNCHANGED <<pc, ready>> /\ pc = "events" /\ hits' = hits \ {h}
    BY <1>0, <1>7 DEF EventGone
  <2>2. edge' = edge \ D
    BY <2>1 DEF Cut
  <2>3. \A c \in table \ D : (Pending(c) => Pending(c)') /\ (EndDue(c) => EndDue(c)')
    BY <2>1, <2>2 DEF Pending, EndDue
  <2>4. TickDone'
    BY <2>1 DEF TickDone
  <2> QED
    BY <2>1, <2>3, <2>4, CutWake
<1>8. CASE SkipReady
  <2>1. /\ UNCHANGED <<pc, hits, edge, table, wbuf, arm, wire, taken, sock>>
        /\ pc = "ready" /\ ready # <<>> /\ ready' = Tail(ready)
        /\ \A c \in table : c = Head(ready).id => ~Head(ready).w
    BY <1>8 DEF SkipReady, AtReady, Here
  <2>2. \A c \in table : (Pending(c) => Pending(c)') /\ (EndDue(c) => EndDue(c)')
    BY <2>1, TailKeeps
  <2>3. TickDone'
    BY <2>1 DEF WakeInv, TickDone
  <2> QED
    BY <2>1, <2>2, <2>3, SameWake
<1>9. ASSUME NEW c \in table, ReadFrames(c)
      PROVE  WakeInv'
  <2>1. /\ UNCHANGED <<pc, hits, edge, table, wbuf, arm, wire, taken, sock>>
        /\ pc = "ready" /\ ready # <<>> /\ ready \in Seq(Event) /\ Head(ready).id = c
        /\ ready' = <<[id |-> c, r |-> FALSE, w |-> Head(ready).w, gone |-> FALSE]>> \o Tail(ready)
    BY <1>9 DEF TypeOK, ReadFrames, AtReady, Here
  <2>2. ASSUME NEW i \in DOMAIN ready
        PROVE  i \in DOMAIN ready' /\ ready'[i].id = ready[i].id /\ ready'[i].w = ready[i].w
    <3>1. Len(ready) \in Nat /\ Tail(ready) \in Seq(Event) /\ Len(Tail(ready)) = Len(ready) - 1
      BY <2>1
    <3>2. CASE i = 1
      BY <2>1, <3>1, <3>2
    <3>3. CASE i # 1
      <4>1. i - 1 \in DOMAIN Tail(ready) /\ Tail(ready)[i - 1] = ready[i]
        BY <2>1, <3>1, <3>3
      <4>2. i \in DOMAIN ready' /\ ready'[i] = Tail(ready)[i - 1]
        BY <2>1, <3>1, <3>3
      <4> QED
        BY <4>1, <4>2
    <3> QED
      BY <3>2, <3>3
  <2>3. \A d \in table : (Pending(d) => Pending(d)') /\ (EndDue(d) => EndDue(d)')
    BY <2>1, <2>2 DEF Pending, EndDue
  <2>4. TickDone'
    BY <2>1 DEF WakeInv, TickDone
  <2> QED
    BY <2>1, <2>3, <2>4, SameWake
<1>10. ASSUME NEW c \in table, ReadEnds(c) \/ WriteFails(c)
       PROVE  WakeInv'
  <2>1. /\ Cut({c}) /\ {c} \in SUBSET Id /\ UNCHANGED <<pc, hits>>
        /\ pc = "ready" /\ ready # <<>> /\ ready' = Tail(ready) /\ Head(ready).id = c
    BY <1>0, <1>10 DEF ReadEnds, WriteFails, AtReady, Here
  <2>2. edge' = edge \ {c}
    BY <2>1 DEF Cut
  <2>3. \A d \in table \ {c} : (Pending(d) => Pending(d)') /\ (EndDue(d) => EndDue(d)')
    BY <2>1, <2>2, TailKeeps
  <2>4. TickDone'
    BY <2>1 DEF WakeInv, TickDone
  <2> QED
    BY <2>1, <2>3, <2>4, CutWake
<1>11. ASSUME NEW c \in table, WritePieces(c)
       PROVE  WakeInv'
  <2>1. /\ UNCHANGED <<pc, hits, table, taken, sock>> /\ Renew(c) /\ c \in Id
        /\ pc = "ready" /\ ready # <<>> /\ ready' = Tail(ready) /\ Head(ready).id = c
    BY <1>0, <1>11 DEF WritePieces, AtReady, Here
  <2>2. \A d \in Id \ {c} : wbuf'[d] = wbuf[d] /\ wire'[d] = wire[d] /\ arm'[d] = arm[d]
    BY <1>11 DEF TypeOK, WritePieces
  <2>3. arm'[c] = (wbuf'[c] # <<>>)
    BY <1>11, <2>1 DEF TypeOK, WritePieces
  <2>4. edge \subseteq edge' /\ ((arm[c] /\ Writable(c))' => c \in edge')
    BY <2>1 DEF Renew
  <2>5. WriteDue(c)'
    BY <2>3, <2>4 DEF WriteDue, Pending, Writable
  <2>6. ASSUME NEW d \in table, d # c
        PROVE  WriteDue(d)'
    <3>1. Pending(d) => Pending(d)'
      BY <2>1, <2>4, <2>6, TailKeeps
    <3> QED
      BY <1>0, <2>1, <2>2, <2>6, <3>1, WriteCarried DEF WakeInv
  <2>7. EndPending'
    BY <2>1, <2>4 DEF WakeInv, EndPending, EndDue
  <2>8. TickDone' /\ IdleBuffers'
    BY <2>1, <2>2 DEF WakeInv, TickDone, IdleBuffers
  <2> QED
    BY <2>1, <2>5, <2>6, <2>7, <2>8 DEF WakeInv
<1>12. ASSUME NEW c \in table, TakeReply(c)
       PROVE  WakeInv'
  <2>1. /\ UNCHANGED <<pc, hits, ready, table, wire, taken, sock>> /\ Renew(c) /\ c \in Id
        /\ wbuf' = [wbuf EXCEPT ![c] = FrameOf(Head(outbox).no)]
        /\ arm' = [arm EXCEPT ![c] = TRUE]
    BY <1>0, <1>12 DEF TakeReply
  <2>2. FrameOf(Head(outbox).no) # <<>>
    <3>1. 1 \in DOMAIN FrameOf(Head(outbox).no) /\ DOMAIN <<>> = {}
      BY DEF FrameOf
    <3> QED
      BY <3>1
  <2>3. edge \subseteq edge' /\ ((arm[c] /\ Writable(c))' => c \in edge')
    BY <2>1 DEF Renew
  <2>4. WriteDue(c)'
    BY <2>1, <2>2, <2>3 DEF TypeOK, WriteDue, Pending, Writable
  <2>5. ASSUME NEW d \in table, d # c
        PROVE  WriteDue(d)'
    <3>1. Pending(d) => Pending(d)'
      BY <2>1, <2>3 DEF Pending
    <3>2. wbuf'[d] = wbuf[d] /\ arm'[d] = arm[d]
      BY <1>0, <2>1, <2>5 DEF TypeOK
    <3> QED
      BY <2>1, <2>5, <3>1, <3>2, WriteCarried DEF WakeInv
  <2>6. EndPending'
    BY <2>1, <2>3 DEF WakeInv, EndPending, EndDue
  <2>7. TickDone' /\ IdleBuffers'
    BY <2>1 DEF TypeOK, WakeInv, TickDone, IdleBuffers
  <2> QED
    BY <2>1, <2>4, <2>5, <2>6, <2>7 DEF WakeInv
<1>13. ASSUME NEW c \in table, RequeueReply(c)
       PROVE  WakeInv'
  <2>1. UNCHANGED <<hits, ready, edge, table, wbuf, arm, wire, taken, sock>> /\ pc = "replies"
    BY <1>13 DEF RequeueReply, AtReplies
  <2>2. TickDone'
    BY <2>1 DEF WakeInv, TickDone
  <2>3. \A d \in table : (Pending(d) => Pending(d)') /\ (EndDue(d) => EndDue(d)')
    BY <2>1 DEF Pending, EndDue
  <2> QED
    BY <2>1, <2>2, <2>3, SameWake
<1> USE DEF workerVars
<1>14. CASE \/ PeerConnects \/ UdpArrives \/ RequestStop \/ PostWake
            \/ \E c \in Id : PeerSends(c) \/ Expire(c)
  <2>1. UNCHANGED <<pc, hits, ready, table, wbuf, arm, wire, taken, sock>> /\ edge \subseteq edge'
    BY <1>14 DEF PeerConnects, UdpArrives, RequestStop, PostWake, PeerSends, Expire
  <2>2. TickDone'
    BY <2>1 DEF WakeInv, TickDone
  <2>3. \A d \in table : (Pending(d) => Pending(d)') /\ (EndDue(d) => EndDue(d)')
    BY <2>1 DEF Pending, EndDue
  <2> QED
    BY <2>1, <2>2, <2>3, SameWake
<1>15. ASSUME NEW c \in Id, PeerEnds(c)
       PROVE  WakeInv'
  <2>1. UNCHANGED <<pc, hits, ready, table, wbuf, arm, wire, taken>> /\ edge' = edge \cup {c}
        /\ \A d \in Id \ {c} : sock'[d] = sock[d]
    BY <1>15 DEF TypeOK, PeerEnds
  <2>2. ASSUME NEW d \in table
        PROVE  WriteDue(d)'
    <3>1. Pending(d) => Pending(d)'
      BY <2>1 DEF Pending
    <3> QED
      BY <2>1, <3>1, WriteCarried DEF WakeInv
  <2>3. EndPending'
    BY <1>0, <2>1 DEF WakeInv, EndPending, EndDue
  <2>4. TickDone' /\ IdleBuffers'
    BY <2>1 DEF WakeInv, TickDone, IdleBuffers
  <2> QED
    BY <2>1, <2>2, <2>3, <2>4 DEF WakeInv
<1>16. ASSUME NEW c \in Id, PeerReceives(c)
       PROVE  WakeInv'
  <2>1. UNCHANGED <<pc, hits, ready, table, wbuf, arm, wire, sock>>
        /\ edge' = (IF arm[c] THEN edge \cup {c} ELSE edge)
        /\ \A d \in Id \ {c} : taken'[d] = taken[d]
    BY <1>16 DEF TypeOK, PeerReceives
  <2>2. ASSUME NEW d \in table
        PROVE  WriteDue(d)'
    <3>1. CASE d = c
      BY <2>1, <3>1 DEF WakeInv, WriteDue, Pending
    <3>2. CASE d # c
      <4>1. Pending(d) => Pending(d)'
        BY <2>1 DEF Pending
      <4> QED
        BY <1>0, <2>1, <3>2, <4>1, WriteCarried DEF WakeInv
    <3> QED
      BY <3>1, <3>2
  <2>3. EndPending'
    BY <2>1 DEF WakeInv, EndPending, EndDue
  <2>4. TickDone' /\ IdleBuffers'
    BY <2>1 DEF WakeInv, TickDone, IdleBuffers
  <2> QED
    BY <2>1, <2>2, <2>3, <2>4 DEF WakeInv
<1> QED
  BY <1>1, <1>2, <1>3, <1>4, <1>5, <1>6, <1>7, <1>8, <1>9, <1>10, <1>11, <1>12, <1>13, <1>14,
     <1>15, <1>16
  DEF Next, Tick, Outside, Returned

\* The worker starts with nothing to write.
LEMMA WakeInit == Init => WakeInv
BY DEF Init, WakeInv, TickDone, IdleBuffers, EndPending

\* What the induction rests on holds of every reachable state.
LEMMA WakeHolds == Spec => [](TypeOK /\ WakeInv)
<1>1. Init => TypeOK /\ WakeInv
  BY TypeInit, WakeInit
<1>2. TypeOK /\ WakeInv /\ [Next]_vars
        => (TypeOK /\ WakeInv)'
  BY TypeNext, WakeNext
<1> QED
  BY <1>1, <1>2, PTL DEF Spec

\* A frame half written is never forgotten: while the kernel has room for what is
\* left of it, an event for its connection is on the way.
THEOREM WriteRemembered == Spec => []WriteNotForgotten
<1>1. WakeInv => WriteNotForgotten
  BY DEF WakeInv, WriteDue, WriteNotForgotten
<1> QED
  BY <1>1, WakeHolds, PTL

\* A peer's close or reset is never forgotten: when the worker polls, the event
\* that will cut the connection is among those the poller has.
THEOREM EndRemembered == Spec => []EndNotForgotten
<1>1. WakeInv => EndNotForgotten
  <2> SUFFICES ASSUME WakeInv, pc = "poll", NEW c \in table, sock[c] \in {"fin", "rst"}
               PROVE  c \in edge
    BY DEF EndNotForgotten
  <2>1. hits = {} /\ EndDue(c)
    BY DEF WakeInv, TickDone, EndPending
  <2> QED
    BY <2>1 DEF EndDue
<1> QED
  BY <1>1, WakeHolds, PTL

--------------------------------------------------------------------------------
(* The listener.  accept_all does not renew its registration, so nothing        *)
(* announces what it leaves in the backlog until the next handshake.            *)

\* A handshake that waits is reported, or is about to be accepted in this tick, or a
\* batch may have left it.
BacklogInv ==
  "failure" \notin Happens /\ pc # "stopped" /\ backlog > 0
    => "listen" \in misc \/ (pc = "events" /\ "listen" \in due) \/ PastBatch

\* Every step keeps it.
LEMMA BacklogNext == TypeOK /\ BacklogInv /\ [Next]_vars => BacklogInv'
<1> SUFFICES ASSUME TypeOK, BacklogInv, [Next]_vars, "failure" \notin Happens PROVE BacklogInv'
  BY DEF BacklogInv
<1> USE DEF loopVars, connVars, handlerVars, peerVars, pollVars
<1>1. CASE StopAtTop \/ PollFails \/ EventUdp \/ ReadyDone \/ RepliesDone \/ SkipReady
           \/ UNCHANGED vars
  <2>1. UNCHANGED <<backlog, misc>> /\ ("listen" \in due => "listen" \in due')
    BY <1>1 DEF StopAtTop, PollFails, EventUdp, ReadyDone, RepliesDone, SkipReady, vars
  <2>2. (pc' # "stopped" => pc # "stopped") /\ (pc = "events" => pc' = "events" \/ pc' = "stopped")
    BY <1>1 DEF StopAtTop, PollFails, EventUdp, ReadyDone, RepliesDone, SkipReady, AtReady, EndTick, vars
  <2> QED
    BY <2>1, <2>2 DEF BacklogInv, PastBatch
<1>2. CASE Reclaim
  BY <1>2 DEF BacklogInv, PastBatch, Reclaim, Cut
<1>3. CASE PollEmpty
  <2>1. pc = "poll" /\ MiscEvents = {} /\ backlog' = backlog /\ backlog \in Nat
    BY <1>3 DEF PollEmpty, TypeOK
  <2>2. backlog > 0 => "listen" \notin misc
    BY <2>1 DEF MiscEvents
  <2>3. backlog > 0 => PastBatch
    BY <2>1, <2>2 DEF BacklogInv
  <2> QED
    BY <2>1, <2>3 DEF BacklogInv, PastBatch
<1>4. CASE PollEvents
  <2>1. /\ pc = "poll" /\ pc' \in {"stopped", "events"} /\ backlog' = backlog /\ backlog \in Nat
        /\ due' = MiscEvents \ {"wake"}
    BY <1>4 DEF PollEvents, TypeOK
  <2>2. backlog > 0 /\ "listen" \in misc => "listen" \in MiscEvents
    BY <2>1 DEF MiscEvents
  <2>3. backlog > 0 => "listen" \in due' \/ PastBatch
    BY <2>1, <2>2 DEF BacklogInv
  <2> QED
    BY <2>1, <2>3 DEF BacklogInv, PastBatch
<1>5. CASE EventListen
  <2>1. backlog' = backlog - Accepted
    BY <1>5 DEF EventListen
  <2>2. backlog \in 0 .. MaxBacklog /\ AcceptBatch \in Nat /\ MaxBacklog \in Nat
    BY ConstantsAssumption DEF TypeOK
  <2>3. Accepted \in {backlog, AcceptBatch}
    BY DEF Accepted, Least
  <2>4. ~ (backlog' > 0) \/ PastBatch'
    BY <2>1, <2>2, <2>3 DEF PastBatch
  <2> QED
    BY <2>4 DEF BacklogInv
<1>6. CASE EventsDone
  BY <1>6 DEF BacklogInv, PastBatch, EventsDone
<1>7. ASSUME NEW h \in hits, EventConn(h) \/ EventGone(h)
      PROVE  BacklogInv'
  BY <1>7 DEF BacklogInv, PastBatch, EventConn, EventGone, Cut
<1>8. ASSUME NEW c \in table,
             \/ ReadFrames(c) \/ ReadEnds(c) \/ WritePieces(c) \/ WriteFails(c)
             \/ TakeReply(c) \/ RequeueReply(c)
      PROVE  BacklogInv'
  <2>1. UNCHANGED <<backlog, misc>> /\ pc # "stopped" /\ pc # "events"
    BY <1>8 DEF ReadFrames, ReadEnds, WritePieces, WriteFails, TakeReply, RequeueReply,
       AtReady, AtReplies, Cut
  <2> QED
    BY <2>1 DEF BacklogInv, PastBatch
<1> USE DEF workerVars
<1>9. CASE PeerConnects
  BY <1>9 DEF BacklogInv, PastBatch, PeerConnects
<1>10. CASE \/ UdpArrives \/ RequestStop \/ PostWake
            \/ \E c \in Id : PeerSends(c) \/ PeerEnds(c) \/ PeerReceives(c) \/ Expire(c)
  <2>1. UNCHANGED <<pc, due, backlog>> /\ misc \subseteq misc'
    BY <1>10 DEF UdpArrives, RequestStop, PostWake, PeerSends, PeerEnds, PeerReceives, Expire
  <2> QED
    BY <2>1 DEF BacklogInv, PastBatch
<1> QED
  BY <1>1, <1>2, <1>3, <1>4, <1>5, <1>6, <1>7, <1>8, <1>9, <1>10
  DEF Next, Tick, Outside, Returned

\* No more than what one batch leaves of a full backlog waits without an event, if no
\* accept fails: of the 1024 handshakes the code's listener may hold, accept_all takes
\* 128 at a time and does not renew the registration, so that 896 can be left.
THEOREM OnlyPastBatchIsUnheard == Spec => []OnlyPastBatchWaits
<1>1. Init => TypeOK /\ BacklogInv
  BY TypeInit DEF Init, BacklogInv
<1>2. TypeOK /\ BacklogInv /\ [Next]_vars => (TypeOK /\ BacklogInv)'
  BY TypeNext, BacklogNext
<1>3. BacklogInv => OnlyPastBatchWaits
  BY DEF BacklogInv, OnlyPastBatchWaits
<1> QED
  BY <1>1, <1>2, <1>3, PTL DEF Spec

--------------------------------------------------------------------------------
(* What the thread that joins the worker relies on.                          *)

\* A step of the loop is taken by a worker that runs, and leaves the flag alone.
LEMMA TickRuns == Tick => pc # "stopped" /\ stop' = stop
BY DEF Tick, StopAtTop, Reclaim, Cut, PollFails, PollEmpty, PollEvents, EventUdp, EventListen,
       EventConn, EventGone, EventsDone, AtReady, SkipReady, ReadFrames, ReadEnds, WritePieces,
       WriteFails, ReadyDone, AtReplies, RepliesDone, TakeReply, RequeueReply

\* What happens around the worker does not end it, and raises its flag at most.
LEMMA OutsideRaises == Outside => pc' = pc /\ (stop' = stop \/ (~stop /\ stop' = TRUE))
BY DEF Outside, PeerConnects, PeerSends, PeerEnds, PeerReceives, UdpArrives, Expire, RequestStop,
       PostWake, workerVars, loopVars

\* The safety of what the joining thread relies on (WorkerLife): the worker starts with
\* its flag down, nothing takes a raised flag back, and a loop that has ended does not
\* resume (Worker::run returns once).
THEOREM LifeKept == Spec => Life!Init /\ [][Life!Next]_(Life!vars)
<1>1. Init => Life!Init
  BY DEF Init, Life!Init
<1>2. [Next]_vars => [Life!Next]_(Life!vars)
  <2>1. CASE Tick
    <3>1. CASE pc' = "stopped"
      <4>1. Life!End
        BY <2>1, <3>1, TickRuns DEF Life!End
      <4> QED
        BY <4>1 DEF Life!Next
    <3>2. CASE pc' # "stopped"
      BY <2>1, <3>2, TickRuns DEF Life!vars
    <3> QED
      BY <3>1, <3>2
  <2>2. CASE Outside
    <3>1. CASE stop' = stop
      BY <2>2, <3>1, OutsideRaises DEF Life!vars
    <3>2. CASE ~stop /\ stop' = TRUE
      <4>1. Life!Raise
        BY <2>2, <3>2, OutsideRaises DEF Life!Raise
      <4> QED
        BY <4>1 DEF Life!Next
    <3> QED
      BY <2>2, <3>1, <3>2, OutsideRaises
  <2>3. CASE UNCHANGED vars
    BY <2>3 DEF vars, loopVars, Life!vars
  <2> QED
    BY <2>1, <2>2, <2>3 DEF Next, Returned
<1> QED
  BY <1>1, <1>2, PTL DEF Spec

--------------------------------------------------------------------------------
(* What the connections carry, and that the control path implements the      *)
(* service it promises, ReplyService.                                        *)

(* The inductive invariant.                                                 *)

\* A stream is whole frames: each piece is followed by the next of its frame, and the
\* last one of a frame by the first of another.
FrameByFrame(s) ==
  /\ s # <<>> => s[1].part = 1 /\ s[Len(s)].part = Pieces
  /\ \A i \in 1 .. Len(s) - 1 :
       \/ s[i].part < Pieces /\ s[i + 1] = [no |-> s[i].no, part |-> s[i].part + 1]
       \/ s[i].part = Pieces /\ s[i + 1].part = 1

Distinct(s) == \A i, j \in DOMAIN s : s[i] = s[j] => i = j

\* What has been read of the frames c sent.
ReadOf(c) == sent[c] - Len(rx[c])

\* What c carries, and what waits to be read of it.
StreamOf(c) ==
  /\ FrameByFrame(Stream(c)) /\ Distinct(Stream(c))
  /\ \A i \in DOMAIN Stream(c) : [id |-> c, no |-> Stream(c)[i].no] \in kept
  /\ \A i \in DOMAIN wbuf[c] : wbuf[c][i].part = Pieces => i = Len(wbuf[c])
  /\ c \notin table => wire[c] = <<>> /\ wbuf[c] = <<>>
  /\ \A i \in DOMAIN rx[c] : rx[c][i].no = ReadOf(c) + i

Carries(m) == \E i \in DOMAIN Stream(m.id) : Stream(m.id)[i].no = m.no
Starts(m)  == \E i \in DOMAIN Stream(m.id) : Stream(m.id)[i] = [no |-> m.no, part |-> 1]
Queued(m)  == \E i \in DOMAIN outbox : outbox[i] = m

\* A reply that was accepted answers a frame that was read, and is queued or carried.
KeptOf(m) == m.id \in table /\ m.no <= ReadOf(m.id) /\ (Queued(m) \/ Starts(m))

StreamInv ==
  /\ \A c \in Id : StreamOf(c)
  /\ \A m \in kept : KeptOf(m)
  /\ Distinct(outbox)
  /\ \A i \in DOMAIN outbox : outbox[i] \in kept /\ ~Carries(outbox[i])

--------------------------------------------------------------------------------
(* Streams.                                                                 *)

\* Two queues, one behind the other.
LEMMA Behind ==
  ASSUME NEW S, NEW s \in Seq(S), NEW t \in Seq(S)
  PROVE  /\ s \o t \in Seq(S) /\ Len(s \o t) = Len(s) + Len(t)
         /\ Len(s) \in Nat /\ Len(t) \in Nat
         /\ \A i \in 1 .. Len(s) : (s \o t)[i] = s[i]
         /\ \A i \in Len(s) + 1 .. Len(s) + Len(t) : (s \o t)[i] = t[i - Len(s)]
OBVIOUS

\* The pieces of one framed reply.
LEMMA FrameIs ==
  ASSUME NEW no \in 1 .. MaxReq
  PROVE  /\ FrameOf(no) \in Seq(Piece) /\ Len(FrameOf(no)) = Pieces
         /\ \A p \in 1 .. Pieces : FrameOf(no)[p] = [no |-> no, part |-> p]
<1>1. \A p \in 1 .. Pieces : [no |-> no, part |-> p] \in Piece
  BY DEF Piece
<1>2. FrameOf(no) \in [1 .. Pieces -> Piece]
  BY <1>1 DEF FrameOf
<1>3. Pieces \in Nat
  BY ConstantsAssumption
<1> QED
  BY <1>2, <1>3 DEF FrameOf

\* A whole frame behind whole frames, of a request none of them answers (take_write
\* into an empty buffer).
LEMMA FrameBehind ==
  ASSUME NEW s \in Seq(Piece), FrameByFrame(s), Distinct(s), NEW no \in 1 .. MaxReq,
         \A i \in DOMAIN s : s[i].no # no
  PROVE  /\ FrameByFrame(s \o FrameOf(no)) /\ Distinct(s \o FrameOf(no))
         /\ \A i \in DOMAIN s : i \in DOMAIN (s \o FrameOf(no)) /\ (s \o FrameOf(no))[i] = s[i]
         /\ \A i \in DOMAIN (s \o FrameOf(no)) :
              \/ i \in DOMAIN s /\ (s \o FrameOf(no))[i] = s[i]
              \/ (s \o FrameOf(no))[i].no = no
         /\ \E i \in DOMAIN (s \o FrameOf(no)) : (s \o FrameOf(no))[i] = [no |-> no, part |-> 1]
<1> DEFINE f == FrameOf(no)
           t == s \o f
           n == Len(s)
<1>1. /\ f \in Seq(Piece) /\ Len(f) = Pieces
      /\ \A p \in 1 .. Pieces : f[p] = [no |-> no, part |-> p]
  BY FrameIs
<1>2. n \in Nat /\ DOMAIN s = 1 .. n /\ Pieces \in Nat \ {0}
  BY ConstantsAssumption
<1> HIDE DEF f
<1>3. /\ t \in Seq(Piece) /\ Len(t) = n + Pieces /\ DOMAIN t = 1 .. n + Pieces
      /\ \A i \in 1 .. n : t[i] = s[i]
      /\ \A i \in n + 1 .. n + Pieces : t[i] = f[i - n]
  <2>1. /\ t \in Seq(Piece) /\ Len(t) = Len(s) + Len(f)
        /\ \A i \in 1 .. Len(s) : t[i] = s[i]
        /\ \A i \in Len(s) + 1 .. Len(s) + Len(f) : t[i] = f[i - Len(s)]
    <3>1. f \in Seq(Piece)
      BY <1>1
    <3> QED
      BY <3>1, Behind
  <2> HIDE DEF t
  <2>2. DOMAIN t = 1 .. Len(t)
    BY <2>1
  <2> QED
    BY <1>1, <2>1, <2>2
<1> HIDE DEF t
<1>4. \A i \in n + 1 .. n + Pieces : t[i] = [no |-> no, part |-> i - n]
  <2> SUFFICES ASSUME NEW i \in n + 1 .. n + Pieces PROVE t[i] = [no |-> no, part |-> i - n]
    OBVIOUS
  <2>1. i - n \in 1 .. Pieces
    BY <1>2
  <2> QED
    BY <1>1, <1>3, <2>1
<1>5. \A i \in n + 1 .. n + Pieces : t[i].no = no /\ t[i].part = i - n
  <2> SUFFICES ASSUME NEW i \in n + 1 .. n + Pieces PROVE t[i].no = no /\ t[i].part = i - n
    OBVIOUS
  <2> DEFINE p == i - n
  <2>1. t[i] = [no |-> no, part |-> p]
    BY <1>4
  <2> HIDE DEF p
  <2> QED
    BY <2>1 DEF p
<1> HIDE DEF n
<1>6. FrameByFrame(t)
  <2>1. t[1].part = 1
    <3>1. CASE n = 0
      <4>1. 1 \in n + 1 .. n + Pieces /\ 1 - n = 1
        BY <1>2, <3>1
      <4> QED
        BY <1>5, <4>1
    <3>2. CASE n # 0
      <4>1. 1 \in 1 .. n /\ s # <<>>
        BY <1>2, <3>2 DEF n
      <4> QED
        BY <1>3, <4>1 DEF FrameByFrame
    <3> QED
      BY <3>1, <3>2
  <2>2. t[Len(t)].part = Pieces
    <3>1. n + Pieces \in n + 1 .. n + Pieces /\ (n + Pieces) - n = Pieces
      BY <1>2
    <3> QED
      BY <1>3, <1>5, <3>1
  <2>3. ASSUME NEW i \in 1 .. Len(t) - 1
        PROVE  \/ t[i].part < Pieces /\ t[i + 1] = [no |-> t[i].no, part |-> t[i].part + 1]
               \/ t[i].part = Pieces /\ t[i + 1].part = 1
    <3>1. CASE i < n
      <4>1. i \in 1 .. n - 1 /\ i \in 1 .. n /\ i + 1 \in 1 .. n
        BY <1>2, <1>3, <3>1
      <4>2. t[i] = s[i] /\ t[i + 1] = s[i + 1]
        BY <1>3, <4>1
      <4> QED
        BY <4>1, <4>2 DEF FrameByFrame, n
    <3>2. CASE i = n
      <4>1. i \in 1 .. n /\ s # <<>>
        BY <1>2, <3>2 DEF n
      <4>2. t[i].part = Pieces
        BY <1>3, <3>2, <4>1 DEF FrameByFrame, n
      <4>3. i + 1 \in n + 1 .. n + Pieces /\ (i + 1) - n = 1
        BY <1>2, <3>2
      <4> QED
        BY <1>5, <4>2, <4>3
    <3>3. CASE i > n
      <4>1. /\ i \in n + 1 .. n + Pieces /\ i + 1 \in n + 1 .. n + Pieces
            /\ (i + 1) - n = (i - n) + 1 /\ i - n < Pieces
        BY <1>2, <1>3, <3>3
      <4> QED
        BY <1>4, <1>5, <4>1
    <3> QED
      BY <1>2, <3>1, <3>2, <3>3
  <2> QED
    BY <2>1, <2>2, <2>3 DEF FrameByFrame
<1>7. Distinct(t)
  <2> SUFFICES ASSUME NEW i \in DOMAIN t, NEW j \in DOMAIN t, t[i] = t[j]
               PROVE  i = j
    BY DEF Distinct
  <2>1. CASE i \in 1 .. n /\ j \in 1 .. n
    BY <1>2, <1>3, <2>1 DEF Distinct
  <2>2. CASE i \in n + 1 .. n + Pieces /\ j \in n + 1 .. n + Pieces
    <3>1. i - n = j - n
      BY <1>5, <2>2
    <3> QED
      BY <1>2, <2>2, <3>1
  <2>3. CASE i \in 1 .. n /\ j \in n + 1 .. n + Pieces
    BY <1>2, <1>3, <1>5, <2>3
  <2>4. CASE j \in 1 .. n /\ i \in n + 1 .. n + Pieces
    BY <1>2, <1>3, <1>5, <2>4
  <2>5. \A k \in DOMAIN t : k \in 1 .. n \/ k \in n + 1 .. n + Pieces
    BY <1>2, <1>3
  <2> QED
    BY <2>1, <2>2, <2>3, <2>4, <2>5
<1>8. \E i \in DOMAIN t : t[i] = [no |-> no, part |-> 1]
  <2>1. n + 1 \in n + 1 .. n + Pieces /\ n + 1 \in DOMAIN t /\ (n + 1) - n = 1
    BY <1>2, <1>3
  <2> QED
    BY <1>4, <2>1
<1>9. \A k \in DOMAIN t : k \in 1 .. n \/ k \in n + 1 .. n + Pieces
  BY <1>2, <1>3
<1>10. \A i \in 1 .. n : i \in DOMAIN t
  BY <1>2, <1>3
<1> QED
  BY <1>2, <1>3, <1>5, <1>6, <1>7, <1>8, <1>9, <1>10 DEF t, f

\* The stream is the same with n pieces of the buffer b written behind w.
Rejoined(w, b, n) == (w \o SubSeq(b, 1, n)) \o SubSeq(b, n + 1, Len(b)) = w \o b

\* Writing the front of the buffer moves it and changes nothing of the stream.
LEMMA SplitSame ==
  ASSUME NEW S, NEW w \in Seq(S), NEW b \in Seq(S), NEW n \in 0 .. Len(b)
  PROVE  /\ Rejoined(w, b, n)
         /\ SubSeq(b, 1, n) \in Seq(S) /\ SubSeq(b, n + 1, Len(b)) \in Seq(S)
         /\ Len(SubSeq(b, 1, n)) = n /\ Len(SubSeq(b, n + 1, Len(b))) = Len(b) - n
         /\ \A i \in 1 .. n : SubSeq(b, 1, n)[i] = b[i]
         /\ \A i \in 1 .. Len(b) - n : SubSeq(b, n + 1, Len(b))[i] = b[i + n]
<1> DEFINE x == SubSeq(b, 1, n)
           y == SubSeq(b, n + 1, Len(b))
<1>1. Len(b) \in Nat /\ n \in Nat /\ n <= Len(b) /\ Len(w) \in Nat
  OBVIOUS
<1>2. x \in Seq(S) /\ Len(x) = n /\ \A i \in 1 .. n : x[i] = b[i]
  BY <1>1
<1>3. y \in Seq(S) /\ Len(y) = Len(b) - n /\ \A i \in 1 .. Len(b) - n : y[i] = b[i + n]
  BY <1>1
<1> HIDE DEF x, y
<1> DEFINE v == w \o x
           l == Len(w)
           k == Len(b)
           r == k - n
<1>4. v \in Seq(S) /\ Len(v) = l + n
      /\ (\A i \in 1 .. l : v[i] = w[i])
      /\ (\A i \in l + 1 .. l + n : v[i] = x[i - l])
  <2>1. x \in Seq(S) /\ Len(x) = n
    BY <1>2
  <2>2. /\ v \in Seq(S) /\ Len(v) = Len(w) + Len(x)
        /\ \A i \in 1 .. Len(w) : v[i] = w[i]
        /\ \A i \in Len(w) + 1 .. Len(w) + Len(x) : v[i] = x[i - Len(w)]
    <3>1. x \in Seq(S)
      BY <2>1
    <3> QED
      BY <3>1, Behind
  <2> HIDE DEF v
  <2> QED
    BY <2>1, <2>2
<1> HIDE DEF v, l, k, r
<1>5. /\ v \o y \in Seq(S) /\ Len(v \o y) = (l + n) + r
      /\ \A i \in 1 .. l + n : (v \o y)[i] = v[i]
      /\ \A i \in l + n + 1 .. l + n + r : (v \o y)[i] = y[i - (l + n)]
  <2>1. /\ v \o y \in Seq(S) /\ Len(v \o y) = Len(v) + Len(y)
        /\ \A i \in 1 .. Len(v) : (v \o y)[i] = v[i]
        /\ \A i \in Len(v) + 1 .. Len(v) + Len(y) : (v \o y)[i] = y[i - Len(v)]
    <3>1. v \in Seq(S) /\ y \in Seq(S)
      BY <1>3, <1>4
    <3> QED
      BY <3>1, Behind
  <2>2. Len(v) = l + n /\ Len(y) = r
    BY <1>3, <1>4 DEF k, r
  <2> QED
    BY <2>1, <2>2
<1>6. /\ w \o b \in Seq(S) /\ Len(w \o b) = l + k
      /\ \A i \in 1 .. l : (w \o b)[i] = w[i]
      /\ \A i \in l + 1 .. l + k : (w \o b)[i] = b[i - l]
  BY Behind DEF l, k
<1>7. l \in Nat /\ k \in Nat /\ n \in Nat /\ n <= k /\ r \in Nat /\ r = k - n
  BY <1>1 DEF l, k, r
<1>8. ASSUME NEW i \in 1 .. l + k
      PROVE  (v \o y)[i] = (w \o b)[i]
  <2>1. CASE i \in 1 .. l
    <3>1. i \in 1 .. l + n
      BY <1>7, <2>1
    <3> QED
      BY <1>4, <1>5, <1>6, <2>1, <3>1
  <2>2. CASE i \in l + 1 .. l + n
    <3>1. i \in 1 .. l + n /\ i \in l + 1 .. l + k /\ i - l \in 1 .. n
      BY <1>7, <2>2
    <3> QED
      BY <1>2, <1>4, <1>5, <1>6, <2>2, <3>1
  <2>3. CASE i \in l + n + 1 .. l + n + r
    <3>1. i \in l + 1 .. l + k /\ i - (l + n) \in 1 .. r /\ (i - (l + n)) + n = i - l
      BY <1>7, <2>3
    <3>2. y[i - (l + n)] = b[i - l]
      BY <1>3, <3>1 DEF k, r
    <3> QED
      BY <1>5, <1>6, <2>3, <3>1, <3>2
  <2>4. i \in 1 .. l \/ i \in l + 1 .. l + n \/ i \in l + n + 1 .. l + n + r
    BY <1>7
  <2> QED
    BY <2>1, <2>2, <2>3, <2>4
<1>9. v \o y = w \o b
  <2> DEFINE left == v \o y
             right == w \o b
  <2>1. left \in Seq(S) /\ right \in Seq(S) /\ Len(left) = l + k /\ Len(right) = l + k
    BY <1>5, <1>6, <1>7
  <2>3. \A i \in 1 .. l + k : left[i] = right[i]
    BY <1>8
  <2> HIDE DEF left, right
  <2>2. left = right
    BY <2>1, <2>3
  <2> QED
    BY <2>2 DEF left, right
<1> QED
  BY <1>2, <1>3, <1>9 DEF v, x, y, Rejoined

--------------------------------------------------------------------------------
(* What the steps keep.                                                     *)

\* A step that leaves the replies, the streams and the input alone.
LEMMA SameStream ==
  ASSUME StreamInv, UNCHANGED <<wire, wbuf, outbox, kept, sent, rx>>, table \subseteq table'
  PROVE  StreamInv'
<1>1. \A c \in Id : StreamOf(c)'
  BY DEF StreamInv, StreamOf, Stream, ReadOf
<1>2. \A m \in kept : KeptOf(m)'
  BY DEF StreamInv, KeptOf, ReadOf, Queued, Starts, Stream
<1>3. \A i \in DOMAIN outbox : ~Carries(outbox[i])'
  BY DEF StreamInv, Carries, Stream
<1> QED
  BY <1>1, <1>2, <1>3 DEF StreamInv

\* Cutting connections takes their replies out of the outbox and out of what was
\* accepted together, and nothing of the others (on_conn_gone).
LEMMA CutStream ==
  ASSUME TypeOK, StreamInv, NEW D \in SUBSET Id, Cut(D)
  PROVE  StreamInv'
<1> DEFINE I == {i \in DOMAIN outbox : outbox[i].id \notin D}
<1>1. /\ outbox \in Seq(Reply) /\ kept \subseteq Reply
      /\ wire \in [Id -> Seq(Piece)] /\ wbuf \in [Id -> Seq(Piece)] /\ rx \in [Id -> Seq(Frame)]
  BY DEF TypeOK
<1>2. /\ \A c \in D : wire'[c] = <<>> /\ wbuf'[c] = <<>> /\ rx'[c] = <<>>
      /\ \A c \in Id \ D : wire'[c] = wire[c] /\ wbuf'[c] = wbuf[c] /\ rx'[c] = rx[c]
      /\ sent' = sent /\ table' = table \ D
      /\ kept' = {m \in kept : m.id \notin D} /\ outbox' = Pick(outbox, I)
  BY DEF Cut, Forget
<1>3. PICK g \in [1 .. Cardinality(I) -> I] :
        /\ \A j \in 1 .. Cardinality(I) : Pick(outbox, I)[j] = outbox[g[j]]
        /\ \A i \in I : \E j \in 1 .. Cardinality(I) : g[j] = i
        /\ \A j, k \in 1 .. Cardinality(I) : j < k => g[j] < g[k]
  <2>1. I \in SUBSET (DOMAIN outbox) /\ outbox \in Seq(Reply)
    BY <1>1
  <2> HIDE DEF I
  <2> QED
    BY <2>1, PickOrder
<1>4. DOMAIN outbox' = 1 .. Cardinality(I) /\ Cardinality(I) \in Nat
  <2>1. I \in SUBSET (DOMAIN outbox)
    OBVIOUS
  <2> HIDE DEF I
  <2>2. Cardinality(I) \in 0 .. Len(outbox)
    BY <1>1, <2>1, PickType
  <2> QED
    BY <1>1, <1>2, <2>2 DEF Pick
<1>5. \A j \in DOMAIN outbox' : g[j] \in I /\ outbox'[j] = outbox[g[j]]
  BY <1>2, <1>3, <1>4
<1>6. \A i \in I : \E j \in DOMAIN outbox' : outbox'[j] = outbox[i]
  BY <1>3, <1>4, <1>5
<1>7. \A j, k \in DOMAIN outbox' : g[j] = g[k] => j = k
  <2> SUFFICES ASSUME NEW j \in DOMAIN outbox', NEW k \in DOMAIN outbox', g[j] = g[k], j # k
               PROVE  FALSE
    OBVIOUS
  <2>1. j < k \/ k < j
    BY <1>4
  <2>2. g[j] < g[k] \/ g[k] < g[j]
    BY <1>3, <1>4, <2>1
  <2>3. g[j] \in Int /\ g[k] \in Int
    <3>1. outbox \in Seq(Reply) /\ g[j] \in DOMAIN outbox /\ g[k] \in DOMAIN outbox
      BY <1>1, <1>5
    <3> QED
      BY <3>1
  <2> QED
    BY <2>2, <2>3
<1>8. \A c \in D : Stream(c)' = <<>>
  <2>1. <<>> \o <<>> = <<>>
    OBVIOUS
  <2> QED
    BY <1>2, <2>1 DEF Stream
<1>9. \A c \in Id \ D : Stream(c)' = Stream(c) /\ ReadOf(c)' = ReadOf(c)
  BY <1>2 DEF Stream, ReadOf
<1>10. ASSUME NEW c \in Id
       PROVE  StreamOf(c)'
  <2>1. CASE c \in D
    <3>1. Stream(c)' = <<>> /\ wire'[c] = <<>> /\ wbuf'[c] = <<>> /\ rx'[c] = <<>>
      BY <1>2, <1>8, <2>1
    <3>2. DOMAIN <<>> = {} /\ Len(<<>>) = 0
      OBVIOUS
    <3>3. FrameByFrame(<<>>) /\ Distinct(<<>>)
      BY DEF FrameByFrame, Distinct
    <3> QED
      BY <3>1, <3>2, <3>3 DEF StreamOf
  <2>2. CASE c \notin D
    <3>1. /\ Stream(c)' = Stream(c) /\ ReadOf(c)' = ReadOf(c)
          /\ wire'[c] = wire[c] /\ wbuf'[c] = wbuf[c] /\ rx'[c] = rx[c]
      BY <1>2, <1>9, <2>2
    <3>2. \A no : [id |-> c, no |-> no] \in kept => [id |-> c, no |-> no] \in kept'
      BY <1>2, <2>2
    <3>3. c \notin table' => c \notin table
      BY <1>2, <2>2
    <3> QED
      BY <3>1, <3>2, <3>3 DEF StreamInv, StreamOf
  <2> QED
    BY <2>1, <2>2
<1>11. ASSUME NEW m \in kept'
       PROVE  KeptOf(m)'
  <2>1. m \in kept /\ m.id \in Id \ D
    BY <1>1, <1>2 DEF Reply
  <2>2. KeptOf(m)
    BY <2>1 DEF StreamInv
  <2>3. Queued(m) => Queued(m)'
    <3> SUFFICES ASSUME NEW i \in DOMAIN outbox, outbox[i] = m PROVE Queued(m)'
      BY DEF Queued
    <3>1. i \in I
      BY <2>1
    <3> QED
      BY <1>6, <3>1 DEF Queued
  <2>4. Starts(m) => Starts(m)'
    BY <1>9, <2>1 DEF Starts
  <2> QED
    BY <1>2, <1>9, <2>1, <2>2, <2>3, <2>4 DEF KeptOf
<1>12. Distinct(outbox)'
  <2>1. \A j, k \in DOMAIN outbox' : outbox'[j] = outbox'[k] => j = k
    <3> SUFFICES ASSUME NEW j \in DOMAIN outbox', NEW k \in DOMAIN outbox', outbox'[j] = outbox'[k]
                 PROVE  j = k
      OBVIOUS
    <3>1. /\ g[j] \in DOMAIN outbox /\ outbox'[j] = outbox[g[j]]
          /\ g[k] \in DOMAIN outbox /\ outbox'[k] = outbox[g[k]]
      BY <1>5
    <3>2. g[j] = g[k]
      BY <3>1 DEF StreamInv, Distinct
    <3> QED
      BY <1>7, <3>2
  <2> QED
    BY <2>1 DEF Distinct
<1>13. \A m \in kept : m.id \in Id \ D => (Carries(m)' <=> Carries(m))
  BY <1>9 DEF Carries
<1>14. \A j \in DOMAIN outbox' : outbox'[j] \in kept' /\ (~Carries(outbox[j]))'
  <2> SUFFICES ASSUME NEW j \in DOMAIN outbox', NEW m, m = outbox'[j]
               PROVE  m \in kept' /\ (~Carries(m))'
    BY DEF Carries
  <2>1. PICK i \in I : m = outbox[i]
    BY <1>5
  <2>2. m \in kept /\ ~Carries(m) /\ m.id \in Id \ D
    BY <1>1, <2>1 DEF StreamInv, Reply
  <2> QED
    BY <1>2, <1>13, <2>2
<1> QED
  BY <1>10, <1>11, <1>12, <1>14 DEF StreamInv

\* Writing moves pieces and leaves the streams as they are; of the frame in the buffer
\* what is left is its end (drain_write).
LEMMA WriteStream ==
  ASSUME TypeOK, StreamInv, NEW c \in table, WritePieces(c)
  PROVE  /\ StreamInv' /\ Stream(c)' = Stream(c)
         /\ \E n \in 0 .. Len(wbuf[c]) :
              wire' = [wire EXCEPT ![c] = wire[c] \o SubSeq(wbuf[c], 1, n)]
<1>1. /\ c \in Id /\ wire \in [Id -> Seq(Piece)] /\ wbuf \in [Id -> Seq(Piece)]
      /\ wbuf[c] \in Seq(Piece) /\ wire[c] \in Seq(Piece) /\ Len(wbuf[c]) \in Nat
  BY DEF TypeOK
<1>2. PICK n \in 0 .. Len(wbuf[c]) :
        /\ wire' = [wire EXCEPT ![c] = wire[c] \o SubSeq(wbuf[c], 1, n)]
        /\ wbuf' = [wbuf EXCEPT ![c] = SubSeq(wbuf[c], n + 1, Len(wbuf[c]))]
  <2>1. Room(c) \in Int
    BY <1>1, ConstantsAssumption DEF TypeOK, Room
  <2>2. PICK n \in (IF Room(c) = 0 \/ wbuf[c] = <<>> THEN {0} ELSE 1 .. Least(Room(c), Len(wbuf[c]))) :
           /\ wire' = [wire EXCEPT ![c] = @ \o SubSeq(wbuf[c], 1, n)]
           /\ wbuf' = [wbuf EXCEPT ![c] = SubSeq(@, n + 1, Len(@))]
    BY DEF WritePieces
  <2>3. n \in 0 .. Len(wbuf[c])
    BY <1>1, <2>1, <2>2 DEF Least
  <2> QED
    BY <2>2, <2>3
<1>3. UNCHANGED <<table, outbox, kept, sent, rx>>
  BY DEF WritePieces, handlerVars
<1> DEFINE front == SubSeq(wbuf[c], 1, n)
           rest  == SubSeq(wbuf[c], n + 1, Len(wbuf[c]))
<1>4. /\ (wire[c] \o front) \o rest = wire[c] \o wbuf[c]
      /\ Len(rest) = Len(wbuf[c]) - n /\ rest \in Seq(Piece)
      /\ \A i \in 1 .. Len(wbuf[c]) - n : rest[i] = wbuf[c][i + n]
  <2> DEFINE w == wire[c]
             b == wbuf[c]
  <2>0. w \in Seq(Piece)
    BY <1>1
  <2>1. b \in Seq(Piece)
    BY <1>1
  <2>3. n \in 0 .. Len(b)
    OBVIOUS
  <2> HIDE DEF w, b
  <2>2. Rejoined(w, b, n)
    BY <2>0, <2>1, <2>3, SplitSame
  <2>4. /\ SubSeq(b, n + 1, Len(b)) \in Seq(Piece)
        /\ Len(SubSeq(b, n + 1, Len(b))) = Len(b) - n
        /\ \A i \in 1 .. Len(b) - n : SubSeq(b, n + 1, Len(b))[i] = b[i + n]
    BY <2>0, <2>1, <2>3, SplitSame, SMT
  <2> QED
    BY <2>2, <2>4 DEF w, b, Rejoined
<1>5. wire'[c] = wire[c] \o front /\ wbuf'[c] = rest
  BY <1>1, <1>2
<1> HIDE DEF front, rest
<1>6. \A d \in Id : Stream(d)' = Stream(d)
  <2>1. Stream(c)' = Stream(c)
    BY <1>4, <1>5 DEF Stream
  <2>2. \A d \in Id \ {c} : wire'[d] = wire[d] /\ wbuf'[d] = wbuf[d]
    BY <1>1, <1>2
  <2> QED
    BY <2>1, <2>2 DEF Stream
<1>7. ASSUME NEW d \in Id
      PROVE  StreamOf(d)'
  <2>1. \A i \in DOMAIN wbuf'[d] : wbuf'[d][i].part = Pieces => i = Len(wbuf'[d])
    <3>1. CASE d = c
      <4> SUFFICES ASSUME NEW i \in DOMAIN rest, rest[i].part = Pieces PROVE i = Len(rest)
        BY <1>5, <3>1
      <4> DEFINE held == Len(wbuf[c])
      <4>0. DOMAIN rest = 1 .. held - n /\ DOMAIN wbuf[c] = 1 .. held /\ held \in Nat
        BY <1>1, <1>4
      <4> HIDE DEF held
      <4>1. i \in 1 .. held - n /\ i + n \in DOMAIN wbuf[c]
        <5>1. n \in Nat /\ i \in 1 .. held - n
          BY <1>2, <4>0
        <5>2. i + n \in 1 .. held
          BY <4>0, <5>1
        <5> QED
          BY <4>0, <5>1, <5>2
      <4>2. i + n = Len(wbuf[c])
        BY <1>1, <1>4, <4>1 DEF StreamInv, StreamOf, held
      <4> QED
        BY <1>1, <1>4, <4>1, <4>2 DEF held
    <3>2. CASE d # c
      <4>1. wbuf'[d] = wbuf[d]
        BY <1>1, <1>2, <3>2
      <4> QED
        BY <4>1 DEF StreamInv, StreamOf
    <3> QED
      BY <3>1, <3>2
  <2>2. d \notin table' => wire'[d] = <<>> /\ wbuf'[d] = <<>>
    <3> SUFFICES ASSUME d \notin table' PROVE wire'[d] = <<>> /\ wbuf'[d] = <<>>
      OBVIOUS
    <3>1. d # c /\ d \notin table
      BY <1>3
    <3>2. wire'[d] = wire[d] /\ wbuf'[d] = wbuf[d]
      BY <1>1, <1>2, <3>1
    <3> QED
      BY <3>1, <3>2 DEF StreamInv, StreamOf
  <2>3. ReadOf(d)' = ReadOf(d)
    BY <1>3 DEF ReadOf
  <2>4. Stream(d)' = Stream(d)
    BY <1>6
  <2> QED
    BY <1>3, <2>1, <2>2, <2>3, <2>4 DEF StreamInv, StreamOf
<1>8. \A m \in kept : m.id \in Id
  BY DEF TypeOK, Reply
<1>9. \A m \in kept : KeptOf(m)'
  BY <1>3, <1>6, <1>8 DEF StreamInv, KeptOf, ReadOf, Queued, Starts
<1>10. \A i \in DOMAIN outbox : ~Carries(outbox[i])'
  <2>1. \A m \in kept : Carries(m)' <=> Carries(m)
    BY <1>6, <1>8 DEF Carries
  <2>2. \A i \in DOMAIN outbox : outbox[i] \in kept /\ ~Carries(outbox[i])
    BY DEF StreamInv
  <2> SUFFICES ASSUME NEW i \in DOMAIN outbox, NEW m, m = outbox[i] PROVE ~Carries(m)'
    BY <1>3 DEF Carries
  <2> QED
    BY <2>1, <2>2
<1> QED
  BY <1>2, <1>3, <1>6, <1>7, <1>9, <1>10, <1>1 DEF StreamInv

\* A peer's next frame is numbered and arrives behind what waits to be read.
LEMMA SendStream ==
  ASSUME TypeOK, StreamInv, NEW c \in Id, PeerSends(c)
  PROVE  StreamInv'
<1>1. /\ rx[c] \in Seq(Frame) /\ sent[c] \in Nat /\ Len(rx[c]) \in Nat
      /\ rx \in [Id -> Seq(Frame)] /\ sent \in [Id -> 0 .. MaxReq]
  BY DEF TypeOK
<1>2. PICK ask \in BOOLEAN : rx' = [rx EXCEPT ![c] = Append(rx[c], [no |-> sent[c] + 1, ask |-> ask])]
  BY DEF PeerSends
<1>3. sent' = [sent EXCEPT ![c] = sent[c] + 1] /\ UNCHANGED <<table, wbuf, outbox, kept, wire>>
  BY DEF PeerSends, workerVars, loopVars, handlerVars
<1> DEFINE f == [no |-> sent[c] + 1, ask |-> ask]
<1>4. f.no = sent[c] + 1 /\ rx'[c] = Append(rx[c], f) /\ sent'[c] = sent[c] + 1
  BY <1>1, <1>2, <1>3
<1> HIDE DEF f
<1>5. /\ Len(rx'[c]) = Len(rx[c]) + 1 /\ DOMAIN rx'[c] = 1 .. Len(rx[c]) + 1
      /\ rx'[c][Len(rx[c]) + 1] = f
      /\ \A i \in 1 .. Len(rx[c]) : rx'[c][i] = rx[c][i]
  BY <1>1, <1>4
<1>6. ASSUME NEW d \in Id, d # c
      PROVE  rx'[d] = rx[d] /\ sent'[d] = sent[d]
  BY <1>1, <1>2, <1>3, <1>6
<1>7. ReadOf(c)' = ReadOf(c)
  BY <1>1, <1>4, <1>5 DEF ReadOf
<1>8. \A d \in Id : ReadOf(d)' = ReadOf(d)
  BY <1>6, <1>7 DEF ReadOf
<1>9. \A i \in DOMAIN rx'[c] : rx'[c][i].no = ReadOf(c) + i
  <2> SUFFICES ASSUME NEW i \in DOMAIN rx'[c] PROVE rx'[c][i].no = ReadOf(c) + i
    OBVIOUS
  <2>1. CASE i \in 1 .. Len(rx[c])
    <3>1. i \in DOMAIN rx[c] /\ rx'[c][i] = rx[c][i]
      BY <1>1, <1>5, <2>1
    <3> QED
      BY <3>1 DEF StreamInv, StreamOf
  <2>2. CASE i = Len(rx[c]) + 1
    BY <1>1, <1>4, <1>5, <2>2 DEF ReadOf
  <2> QED
    BY <1>1, <1>5, <2>1, <2>2
<1>10. ASSUME NEW d \in Id
       PROVE  StreamOf(d)'
  <2>1. \A i \in DOMAIN rx'[d] : rx'[d][i].no = ReadOf(d)' + i
    BY <1>6, <1>8, <1>9 DEF StreamInv, StreamOf
  <2> QED
    BY <1>3, <2>1 DEF StreamInv, StreamOf, Stream
<1>11. \A m \in kept : m.id \in Id
  BY DEF TypeOK, Reply
<1>12. \A m \in kept : KeptOf(m)'
  BY <1>3, <1>8, <1>11 DEF StreamInv, KeptOf, Queued, Starts, Stream
<1>13. \A i \in DOMAIN outbox : ~Carries(outbox[i])'
  BY <1>3 DEF StreamInv, Carries, Stream
<1> QED
  BY <1>3, <1>10, <1>12, <1>13 DEF StreamInv

\* A reply moves from the outbox into the empty write buffer, behind what its connection
\* carries (can_write, take_write).
LEMMA TakeStream ==
  ASSUME TypeOK, StreamInv, NEW c \in table, TakeReply(c)
  PROVE  StreamInv'
<1> DEFINE m == Head(outbox)
           f == FrameOf(m.no)
<1>1. /\ outbox \in Seq(Reply) /\ outbox # <<>> /\ outbox' = Tail(outbox)
      /\ c = m.id /\ wbuf[c] = <<>> /\ wbuf' = [wbuf EXCEPT ![c] = f]
      /\ UNCHANGED <<table, kept, sent, rx, wire>>
  BY DEF TypeOK, TakeReply, AtReplies, CanWrite, handlerVars, peerVars, connVars
<1>2. /\ m \in Reply /\ 1 \in DOMAIN outbox /\ outbox[1] = m
      /\ \A j \in DOMAIN outbox' : j + 1 \in DOMAIN outbox /\ outbox'[j] = outbox[j + 1]
      /\ \A i \in DOMAIN outbox : i = 1 \/ (i - 1 \in DOMAIN outbox' /\ outbox'[i - 1] = outbox[i])
  BY <1>1
<1>3. m.no \in 1 .. MaxReq /\ m = [id |-> c, no |-> m.no]
  BY <1>1, <1>2 DEF Reply
<1>4. m \in kept /\ ~Carries(m)
  BY <1>2 DEF StreamInv
<1>5. /\ c \in Id /\ wire \in [Id -> Seq(Piece)] /\ wbuf \in [Id -> Seq(Piece)]
      /\ wire[c] \in Seq(Piece)
  BY DEF TypeOK
<1>6. f \in Seq(Piece) /\ Len(f) = Pieces
      /\ \A p \in 1 .. Pieces : f[p] = [no |-> m.no, part |-> p]
  <2> HIDE DEF m
  <2> QED
    BY <1>3, FrameIs
<1> DEFINE s == Stream(c)
<1>7. s \in Seq(Piece) /\ s = wire[c]
  BY <1>1, <1>5 DEF Stream
<1>8. Stream(c)' = s \o f
  BY <1>1, <1>5, <1>7 DEF Stream
<1>9. \A d \in Id \ {c} : Stream(d)' = Stream(d)
  BY <1>1, <1>5 DEF Stream
<1>10. \A i \in DOMAIN s : s[i].no # m.no
  BY <1>1, <1>4 DEF Carries
<1>11. FrameByFrame(s) /\ Distinct(s)
  BY <1>5 DEF StreamInv, StreamOf
<1> HIDE DEF s, m
<1>12. /\ FrameByFrame(s \o f) /\ Distinct(s \o f)
       /\ \A i \in DOMAIN s : i \in DOMAIN (s \o f) /\ (s \o f)[i] = s[i]
       /\ \A i \in DOMAIN (s \o f) :
            \/ i \in DOMAIN s /\ (s \o f)[i] = s[i]
            \/ (s \o f)[i].no = m.no
       /\ \E i \in DOMAIN (s \o f) : (s \o f)[i] = [no |-> m.no, part |-> 1]
  BY <1>3, <1>7, <1>10, <1>11, FrameBehind
<1>13. \A d \in Id : ReadOf(d)' = ReadOf(d)
  BY <1>1 DEF ReadOf
<1> HIDE DEF f
<1> DEFINE t == s \o f
<1>14. /\ Stream(c)' = t /\ FrameByFrame(t) /\ Distinct(t)
       /\ \A i \in DOMAIN s : i \in DOMAIN t /\ t[i] = s[i]
       /\ \A i \in DOMAIN t : (i \in DOMAIN s /\ t[i] = s[i]) \/ t[i].no = m.no
       /\ \E i \in DOMAIN t : t[i] = [no |-> m.no, part |-> 1]
  BY <1>8, <1>12
<1> HIDE DEF t
<1>15. StreamOf(c)'
  <2>1. \A i \in DOMAIN t : [id |-> c, no |-> t[i].no] \in kept
    <3>1. \A i \in DOMAIN s : [id |-> c, no |-> s[i].no] \in kept
      BY <1>5 DEF StreamInv, StreamOf, s
    <3> QED
      BY <1>3, <1>4, <1>14, <3>1
  <2>2. \A i \in DOMAIN f : f[i].part = Pieces => i = Len(f)
    <3> SUFFICES ASSUME NEW i \in DOMAIN f, f[i].part = Pieces PROVE i = Len(f)
      OBVIOUS
    <3>1. i \in 1 .. Pieces
      BY <1>6, ConstantsAssumption
    <3> QED
      BY <1>6, <3>1
  <2>3. wbuf'[c] = f
    BY <1>1, <1>5
  <2>4. \A i \in DOMAIN rx'[c] : rx'[c][i].no = ReadOf(c)' + i
    BY <1>1, <1>5, <1>13 DEF StreamInv, StreamOf
  <2> QED
    BY <1>1, <1>14, <2>1, <2>2, <2>3, <2>4 DEF StreamOf
<1>16. ASSUME NEW d \in Id, d # c
       PROVE  StreamOf(d)'
  <2>1. Stream(d)' = Stream(d) /\ wire'[d] = wire[d] /\ wbuf'[d] = wbuf[d] /\ ReadOf(d)' = ReadOf(d)
    BY <1>1, <1>5, <1>9, <1>13, <1>16
  <2> QED
    BY <1>1, <2>1 DEF StreamInv, StreamOf
<1>17. ASSUME NEW k \in kept
       PROVE  KeptOf(k)'
  <2>1. k.id \in Id /\ KeptOf(k)
    BY DEF TypeOK, Reply, StreamInv
  <2>2. Starts(k) => Starts(k)'
    <3>1. CASE k.id = c
      BY <1>14, <3>1 DEF Starts, s
    <3>2. CASE k.id # c
      BY <1>9, <2>1, <3>2 DEF Starts
    <3> QED
      BY <3>1, <3>2
  <2>3. Queued(k) => Queued(k)' \/ Starts(k)'
    <3> SUFFICES ASSUME NEW i \in DOMAIN outbox, outbox[i] = k PROVE Queued(k)' \/ Starts(k)'
      BY DEF Queued
    <3>1. CASE i = 1
      <4>1. k = m
        BY <1>2, <3>1
      <4> QED
        BY <1>1, <1>14, <4>1 DEF Starts, m
    <3>2. CASE i # 1
      BY <1>2, <3>2 DEF Queued
    <3> QED
      BY <3>1, <3>2
  <2> QED
    BY <1>1, <1>13, <2>1, <2>2, <2>3 DEF KeptOf
<1>18. Distinct(outbox)'
  <2>1. Distinct(outbox')
    <3> SUFFICES ASSUME NEW i \in DOMAIN outbox', NEW j \in DOMAIN outbox', outbox'[i] = outbox'[j]
                 PROVE  i = j
      BY DEF Distinct
    <3>1. i + 1 = j + 1
      BY <1>2 DEF StreamInv, Distinct
    <3>2. i \in Nat /\ j \in Nat
      BY <1>1
    <3> QED
      BY <3>1, <3>2
  <2> QED
    BY <2>1 DEF Distinct
<1>19. ASSUME NEW j \in DOMAIN outbox', NEW k, k = outbox'[j]
       PROVE  k \in kept /\ (~Carries(k))'
  <2>1. j + 1 \in DOMAIN outbox /\ outbox[j + 1] = k /\ j + 1 # 1
    <3>1. j \in 1 .. Len(outbox')
      BY <1>1
    <3> QED
      BY <1>2, <1>19, <3>1
  <2>2. k \in kept /\ ~Carries(k) /\ k \in Reply
    BY <1>1, <2>1 DEF StreamInv, TypeOK
  <2>3. k # m
    BY <1>2, <2>1 DEF StreamInv, Distinct
  <2>4. (~Carries(k))'
    <3>1. CASE k.id = c
      <4>1. k.no # m.no
        BY <1>3, <2>2, <2>3, <3>1 DEF Reply
      <4>2. \A i \in DOMAIN s : s[i].no # k.no
        BY <2>2, <3>1 DEF Carries, s
      <4>3. \A i \in DOMAIN t : t[i].no # k.no
        BY <1>14, <4>1, <4>2
      <4> QED
        BY <1>14, <3>1, <4>3 DEF Carries
    <3>2. CASE k.id # c
      <4>1. k.id \in Id
        BY <2>2 DEF Reply
      <4> QED
        BY <1>9, <2>2, <3>2, <4>1 DEF Carries
    <3> QED
      BY <3>1, <3>2
  <2> QED
    BY <2>2, <2>4
<1>20. \A j \in DOMAIN outbox' : outbox'[j] \in kept /\ (~Carries(outbox[j]))'
  <2> SUFFICES ASSUME NEW j \in DOMAIN outbox', NEW k, k = outbox'[j]
               PROVE  k \in kept /\ (~Carries(k))'
    BY DEF Carries
  <2> QED
    BY <1>19
<1> QED
  BY <1>1, <1>15, <1>16, <1>17, <1>18, <1>20 DEF StreamInv

\* Replies put at the back of a queue within its cap: those there stay where they are,
\* and the new ones follow in their order, up to the cap.
LEMMA EnqueueBehind ==
  ASSUME NEW q \in Seq(Reply), NEW rs \in Seq(Reply), Len(q) <= QueueCap
  PROVE  /\ Enqueue(q, rs) \in Seq(Reply)
         /\ Len(Enqueue(q, rs)) = Least(Len(q) + Len(rs), QueueCap)
         /\ \A i \in DOMAIN q : i \in DOMAIN Enqueue(q, rs) /\ Enqueue(q, rs)[i] = q[i]
         /\ \A i \in DOMAIN Enqueue(q, rs) :
              \/ i \in DOMAIN q
              \/ i - Len(q) \in DOMAIN rs /\ Enqueue(q, rs)[i] = rs[i - Len(q)]
<1> DEFINE all == q \o rs
           n == Least(Len(all), QueueCap)
<1>1. /\ all \in Seq(Reply) /\ Len(all) = Len(q) + Len(rs)
      /\ Len(q) \in Nat /\ Len(rs) \in Nat
      /\ \A i \in 1 .. Len(q) : all[i] = q[i]
      /\ \A i \in Len(q) + 1 .. Len(q) + Len(rs) : all[i] = rs[i - Len(q)]
  BY Behind
<1>2. Enqueue(q, rs) = SubSeq(all, 1, n)
  BY DEF Enqueue
<1> HIDE DEF all
<1>3. n \in 0 .. Len(all) /\ Len(q) <= n
  BY <1>1, ConstantsAssumption DEF Least
<1> DEFINE e == SubSeq(all, 1, n)
<1>4. e \in Seq(Reply) /\ Len(e) = n /\ DOMAIN e = 1 .. n /\ \A i \in 1 .. n : e[i] = all[i]
  <2> HIDE DEF n
  <2> QED
    BY <1>1, <1>3
<1>5. n = Least(Len(q) + Len(rs), QueueCap)
  BY <1>1
<1>6. DOMAIN q = 1 .. Len(q) /\ DOMAIN rs = 1 .. Len(rs)
  OBVIOUS
<1> HIDE DEF e, n
<1>7. \A i \in DOMAIN q : i \in DOMAIN e /\ e[i] = q[i]
  BY <1>1, <1>3, <1>4, <1>6
<1>8. ASSUME NEW i \in DOMAIN e, i \notin DOMAIN q
      PROVE  i - Len(q) \in DOMAIN rs /\ e[i] = rs[i - Len(q)]
  <2>1. i \in Len(q) + 1 .. Len(q) + Len(rs) /\ i \in 1 .. n /\ i - Len(q) \in 1 .. Len(rs)
    BY <1>1, <1>3, <1>4, <1>6, <1>8
  <2> QED
    BY <1>1, <1>4, <1>6, <2>1
<1>9. Enqueue(q, rs) = e
  BY <1>2 DEF e
<1> QED
  BY <1>4, <1>5, <1>7, <1>8, <1>9

\* A reply put back into the outbox is the last of it, and nothing else moved
\* (queue_reply in drain_replies).
LEMMA RequeueStream ==
  ASSUME TypeOK, StreamInv, NEW c \in table, RequeueReply(c)
  PROVE  StreamInv'
<1> DEFINE tail == Tail(outbox)
           last == <<Head(outbox)>>
           n == Len(outbox)
<1>1. /\ outbox \in Seq(Reply) /\ outbox # <<>> /\ outbox' = Enqueue(tail, last)
      /\ UNCHANGED <<table, kept, sent, rx, wire, wbuf>>
  BY DEF TypeOK, RequeueReply, AtReplies, handlerVars, peerVars, connVars
<1>2. /\ n \in Nat /\ n >= 1 /\ n <= QueueCap /\ DOMAIN outbox = 1 .. n
      /\ tail \in Seq(Reply) /\ Len(tail) = n - 1 /\ DOMAIN tail = 1 .. n - 1
      /\ last \in Seq(Reply) /\ Len(last) = 1 /\ DOMAIN last = 1 .. 1 /\ last[1] = outbox[1]
      /\ \A i \in 1 .. n - 1 : tail[i] = outbox[i + 1]
  BY <1>1 DEF TypeOK
<1> HIDE DEF tail, last, n
<1>3. Len(tail) <= QueueCap /\ Least(Len(tail) + Len(last), QueueCap) = n
  BY <1>2, ConstantsAssumption DEF Least
<1>4. /\ outbox' \in Seq(Reply) /\ Len(outbox') = n
      /\ \A i \in DOMAIN tail : i \in DOMAIN outbox' /\ outbox'[i] = tail[i]
      /\ \A i \in DOMAIN outbox' :
              \/ i \in DOMAIN tail
              \/ i - Len(tail) \in DOMAIN last /\ outbox'[i] = last[i - Len(tail)]
  <2>1. tail \in Seq(Reply)
    BY <1>2
  <2>2. last \in Seq(Reply)
    BY <1>2
  <2>3. Len(tail) <= QueueCap
    BY <1>3
  <2>4. /\ Enqueue(tail, last) \in Seq(Reply)
        /\ Len(Enqueue(tail, last)) = Least(Len(tail) + Len(last), QueueCap)
        /\ \A i \in DOMAIN tail :
             i \in DOMAIN Enqueue(tail, last) /\ Enqueue(tail, last)[i] = tail[i]
        /\ \A i \in DOMAIN Enqueue(tail, last) :
             \/ i \in DOMAIN tail
             \/ i - Len(tail) \in DOMAIN last /\ Enqueue(tail, last)[i] = last[i - Len(tail)]
    BY <2>1, <2>2, <2>3, EnqueueBehind
  <2> QED
    BY <1>1, <1>3, <2>4, Zenon
<1>5. DOMAIN outbox' = 1 .. n
  BY <1>2, <1>4
<1>6. /\ \A i \in 1 .. n - 1 : outbox'[i] = outbox[i + 1] /\ i + 1 \in DOMAIN outbox
      /\ outbox'[n] = outbox[1] /\ 1 \in DOMAIN outbox /\ n \in DOMAIN outbox'
  <2>1. ASSUME NEW i \in 1 .. n - 1
        PROVE  outbox'[i] = outbox[i + 1] /\ i + 1 \in DOMAIN outbox
    <3>1. i \in DOMAIN tail /\ tail[i] = outbox[i + 1]
      BY <1>2
    <3>2. outbox'[i] = tail[i]
      BY <1>4, <3>1
    <3>3. i + 1 \in 1 .. n
      BY <1>2
    <3> QED
      BY <1>2, <3>1, <3>2, <3>3
  <2>2. n \in DOMAIN outbox' /\ n \notin DOMAIN tail /\ n - Len(tail) = 1
    BY <1>2, <1>5
  <2>3. outbox'[n] = last[1]
    BY <1>4, <2>2
  <2> QED
    BY <1>2, <2>1, <2>2, <2>3
<1>7. \A k : Queued(k) => Queued(k)'
  <2> SUFFICES ASSUME NEW i \in DOMAIN outbox
               PROVE  \E j \in DOMAIN outbox' : outbox'[j] = outbox[i]
    BY DEF Queued
  <2>1. CASE i = 1
    BY <1>6, <2>1
  <2>2. CASE i # 1
    <3>1. i - 1 \in 1 .. n - 1 /\ (i - 1) + 1 = i /\ i - 1 \in DOMAIN outbox'
      BY <1>2, <1>5, <2>2
    <3> QED
      BY <1>6, <3>1
  <2> QED
    BY <2>1, <2>2
<1>8. \A c1 \in Id : StreamOf(c1)'
  BY <1>1 DEF StreamInv, StreamOf, Stream, ReadOf
<1>9. \A k \in kept : KeptOf(k)'
  BY <1>1, <1>7 DEF StreamInv, KeptOf, ReadOf, Starts, Stream
<1>10. \A k : Carries(k)' <=> Carries(k)
  BY <1>1 DEF Carries, Stream
<1>11. ASSUME NEW j \in DOMAIN outbox'
       PROVE  \E i \in DOMAIN outbox : outbox'[j] = outbox[i]
  <2>1. j \in 1 .. n - 1 \/ j = n
    BY <1>2, <1>5
  <2> QED
    BY <1>6, <2>1
<1>12. \A j \in DOMAIN outbox' : outbox'[j] \in kept /\ (~Carries(outbox[j]))'
  <2> SUFFICES ASSUME NEW j \in DOMAIN outbox', NEW k, k = outbox'[j]
               PROVE  k \in kept /\ (~Carries(k))'
    BY DEF Carries
  <2>1. PICK i \in DOMAIN outbox : k = outbox[i]
    BY <1>11
  <2>2. k \in kept /\ ~Carries(k)
    BY <2>1 DEF StreamInv
  <2> QED
    BY <1>10, <2>2
<1>13. Distinct(outbox')
  <2> SUFFICES ASSUME NEW i \in DOMAIN outbox', NEW j \in DOMAIN outbox', outbox'[i] = outbox'[j]
               PROVE  i = j
    BY DEF Distinct
  <2>1. \A a, b \in DOMAIN outbox : outbox[a] = outbox[b] => a = b
    BY DEF StreamInv, Distinct
  <2>2. (i \in 1 .. n - 1 \/ i = n) /\ (j \in 1 .. n - 1 \/ j = n)
    BY <1>2, <1>5
  <2>3. CASE i \in 1 .. n - 1 /\ j \in 1 .. n - 1
    <3>1. i + 1 = j + 1
      BY <1>6, <2>1, <2>3
    <3> QED
      BY <2>3, <3>1
  <2>4. CASE i = n /\ j \in 1 .. n - 1
    <3>1. outbox[1] = outbox[j + 1] /\ 1 \in DOMAIN outbox /\ j + 1 \in DOMAIN outbox
      BY <1>6, <2>4
    <3>2. 1 = j + 1
      BY <2>1, <3>1
    <3> QED
      BY <2>4, <3>2
  <2>5. CASE j = n /\ i \in 1 .. n - 1
    BY <1>6, <2>1, <2>5
  <2> QED
    BY <2>2, <2>3, <2>4, <2>5
<1>14. Distinct(outbox)'
  BY <1>13 DEF Distinct
<1> QED
  BY <1>1, <1>8, <1>9, <1>12, <1>14 DEF StreamInv

\* What one read of c does to its input and to the outbox: the frames it took are gone
\* from the input, and the replies put at the back of the outbox answer some of them,
\* each its own.
LEMMA ReadAnswers ==
  ASSUME TypeOK, StreamInv, NEW c \in table, ReadFrames(c)
  PROVE  /\ ReadOf(c) \in Int /\ ReadOf(c)' \in Int /\ ReadOf(c) <= ReadOf(c)'
         /\ \A i \in DOMAIN rx'[c] : rx'[c][i].no = ReadOf(c)' + i
         /\ \A i \in DOMAIN outbox : i \in DOMAIN outbox' /\ outbox'[i] = outbox[i]
         /\ \A i \in DOMAIN outbox' \ DOMAIN outbox :
              /\ outbox'[i] \in Reply /\ outbox'[i].id = c
              /\ ReadOf(c) < outbox'[i].no /\ outbox'[i].no <= ReadOf(c)'
         /\ \A i, j \in DOMAIN outbox' \ DOMAIN outbox : outbox'[i] = outbox'[j] => i = j
<1> DEFINE r == ReadNow(c)
           k == Least(r, DecodeBatch)
           frames == SubSeq(rx[c], 1, k)
           I == {i \in DOMAIN frames : frames[i].ask /\ c \in known}
           asks == Pick(frames, I)
           owed == [i \in DOMAIN asks |-> [id |-> c, no |-> asks[i].no]]
<1>1. /\ c \in Id /\ rx[c] \in Seq(Frame) /\ Len(rx[c]) \in Nat /\ sent[c] \in Nat
      /\ outbox \in Seq(Reply) /\ Len(outbox) <= QueueCap /\ rx \in [Id -> Seq(Frame)]
  BY DEF TypeOK
<1>2. r \in 0 .. Len(rx[c]) /\ k \in 0 .. r
  BY <1>1, ConstantsAssumption DEF ReadNow, Least
<1>3. /\ rx' = [rx EXCEPT ![c] = SubSeq(rx[c], r + 1, Len(rx[c]))]
      /\ outbox' = Enqueue(outbox, owed) /\ sent' = sent
  BY DEF ReadFrames
<1>4. frames \in Seq(Frame) /\ DOMAIN frames = 1 .. k /\ \A i \in 1 .. k : frames[i] = rx[c][i]
  <2> HIDE DEF r, k
  <2> QED
    BY <1>1, <1>2
<1>5. /\ asks \in Seq(Frame) /\ DOMAIN asks = 1 .. Cardinality(I) /\ Cardinality(I) \in Nat
      /\ \E g \in [1 .. Cardinality(I) -> I] :
           /\ \A j \in 1 .. Cardinality(I) : asks[j] = frames[g[j]]
           /\ \A j, l \in 1 .. Cardinality(I) : j < l => g[j] < g[l]
  <2>1. I \in SUBSET (DOMAIN frames) /\ frames \in Seq(Frame)
    BY <1>4
  <2> HIDE DEF frames, I
  <2>2. /\ asks \in Seq(Frame) /\ Len(asks) = Cardinality(I) /\ Cardinality(I) \in 0 .. Len(frames)
    BY <2>1, PickType
  <2>3. \E g \in [1 .. Cardinality(I) -> I] :
           /\ \A j \in 1 .. Cardinality(I) : asks[j] = frames[g[j]]
           /\ \A i \in I : \E j \in 1 .. Cardinality(I) : g[j] = i
           /\ \A j, l \in 1 .. Cardinality(I) : j < l => g[j] < g[l]
    BY <2>1, PickOrder
  <2>4. DOMAIN asks = 1 .. Cardinality(I) /\ Cardinality(I) \in Nat
    <3>1. asks \in Seq(Frame)
      BY <2>2
    <3>2. Len(asks) = Cardinality(I)
      BY <2>2
    <3> HIDE DEF asks
    <3> QED
      BY <3>1, <3>2
  <2> QED
    BY <2>2, <2>3, <2>4
<1> DEFINE N == Cardinality(I)
<1>6. PICK g \in [1 .. N -> I] :
           /\ \A j \in 1 .. N : asks[j] = frames[g[j]]
           /\ \A j, l \in 1 .. N : j < l => g[j] < g[l]
  BY <1>5
<1>7. \A i \in I : i \in 1 .. k
  BY <1>4
<1>8. N \in Nat /\ DOMAIN owed = 1 .. N
  BY <1>5
<1> HIDE DEF I, asks, frames, N, k, r
<1>9. ASSUME NEW j \in 1 .. N
      PROVE  /\ g[j] \in 1 .. k /\ owed[j] = [id |-> c, no |-> ReadOf(c) + g[j]]
             /\ owed[j] \in Reply
  <2>1. g[j] \in I /\ asks[j] = frames[g[j]]
    BY <1>6
  <2>2. g[j] \in 1 .. k /\ frames[g[j]] = rx[c][g[j]]
    BY <1>4, <1>7, <2>1
  <2>3. g[j] \in DOMAIN rx[c]
    BY <1>1, <1>2, <2>2
  <2>4. rx[c][g[j]].no = ReadOf(c) + g[j] /\ rx[c][g[j]] \in Frame
    BY <1>1, <2>3 DEF StreamInv, StreamOf
  <2>5. owed[j] = [id |-> c, no |-> asks[j].no]
    BY <1>5 DEF N
  <2> HIDE DEF owed
  <2>6. owed[j] = [id |-> c, no |-> ReadOf(c) + g[j]]
    BY <2>1, <2>2, <2>4, <2>5
  <2>7. ReadOf(c) + g[j] \in 1 .. MaxReq
    BY <2>4 DEF Frame
  <2> QED
    BY <1>1, <2>2, <2>6, <2>7 DEF Reply
<1>10. owed \in Seq(Reply) /\ Len(owed) = N
  <2>1. owed \in [1 .. N -> Reply]
    BY <1>8, <1>9
  <2> HIDE DEF owed
  <2> QED
    BY <1>8, <2>1
<1> HIDE DEF owed
<1>11. /\ ReadOf(c) \in Int /\ ReadOf(c)' = ReadOf(c) + r
       /\ \A i \in DOMAIN rx'[c] : rx'[c][i].no = ReadOf(c)' + i
  <2> DEFINE z == rx[c]
             y == SubSeq(z, r + 1, Len(z))
  <2>1. z \in Seq(Frame) /\ Len(z) \in Nat /\ r \in 0 .. Len(z) /\ rx'[c] = y
        /\ ReadOf(c) = sent[c] - Len(z) /\ ReadOf(c)' = sent[c] - Len(rx'[c])
    BY <1>1, <1>2, <1>3 DEF ReadOf
  <2>2. \A i \in DOMAIN z : z[i].no = ReadOf(c) + i
    BY <1>1 DEF StreamInv, StreamOf
  <2> HIDE DEF z
  <2>3. Len(y) = Len(z) - r /\ DOMAIN y = 1 .. Len(z) - r /\ \A i \in 1 .. Len(z) - r : y[i] = z[i + r]
    BY <2>1
  <2> HIDE DEF y
  <2>4. ReadOf(c) \in Int /\ ReadOf(c)' = ReadOf(c) + r
    BY <1>1, <2>1, <2>3
  <2>5. ASSUME NEW i \in 1 .. Len(z) - r
        PROVE  y[i].no = (ReadOf(c) + r) + i
    <3>1. i + r \in DOMAIN z /\ y[i] = z[i + r]
      BY <2>1, <2>3
    <3>2. y[i].no = ReadOf(c) + (i + r)
      BY <2>2, <3>1
    <3> QED
      BY <2>1, <2>4, <3>2
  <2> QED
    BY <2>1, <2>3, <2>4, <2>5
<1>12. /\ \A i \in DOMAIN outbox : i \in DOMAIN outbox' /\ outbox'[i] = outbox[i]
       /\ \A i \in DOMAIN outbox' :
              \/ i \in DOMAIN outbox
              \/ i - Len(outbox) \in DOMAIN owed /\ outbox'[i] = owed[i - Len(outbox)]
       /\ outbox' \in Seq(Reply)
  <2>1. outbox \in Seq(Reply)
    BY <1>1
  <2>2. owed \in Seq(Reply)
    BY <1>10
  <2>3. Len(outbox) <= QueueCap
    BY <1>1
  <2>4. outbox' = Enqueue(outbox, owed)
    BY <1>3
  <2>5. /\ Enqueue(outbox, owed) \in Seq(Reply)
        /\ \A i \in DOMAIN outbox : i \in DOMAIN Enqueue(outbox, owed) /\ Enqueue(outbox, owed)[i] = outbox[i]
        /\ \A i \in DOMAIN Enqueue(outbox, owed) :
              \/ i \in DOMAIN outbox
              \/ i - Len(outbox) \in DOMAIN owed /\ Enqueue(outbox, owed)[i] = owed[i - Len(outbox)]
    BY <2>1, <2>2, <2>3, EnqueueBehind
  <2> QED
    BY <2>4, <2>5
<1>13. ASSUME NEW i \in DOMAIN outbox' \ DOMAIN outbox
       PROVE  /\ i - Len(outbox) \in 1 .. N /\ outbox'[i] = owed[i - Len(outbox)]
              /\ i \in Int /\ Len(outbox) \in Int
  <2>1. i - Len(outbox) \in DOMAIN owed /\ outbox'[i] = owed[i - Len(outbox)]
    BY <1>12
  <2>2. i \in Int /\ Len(outbox) \in Int
    BY <1>1, <1>12
  <2> QED
    BY <1>8, <2>1, <2>2
<1>14. ASSUME NEW i \in DOMAIN outbox' \ DOMAIN outbox
       PROVE  /\ outbox'[i] \in Reply /\ outbox'[i].id = c
              /\ ReadOf(c) < outbox'[i].no /\ outbox'[i].no <= ReadOf(c)'
  <2> DEFINE j == i - Len(outbox)
  <2>1. j \in 1 .. N /\ outbox'[i] = owed[j]
    BY <1>13
  <2> HIDE DEF j
  <2>2. /\ outbox'[i] = [id |-> c, no |-> ReadOf(c) + g[j]] /\ outbox'[i] \in Reply
        /\ g[j] \in 1 .. k
    BY <1>9, <2>1
  <2>3. ReadOf(c) < ReadOf(c) + g[j] /\ ReadOf(c) + g[j] <= ReadOf(c)'
    BY <1>2, <1>11, <2>2
  <2> QED
    BY <2>2, <2>3
<1>15. ASSUME NEW i \in DOMAIN outbox' \ DOMAIN outbox, NEW j \in DOMAIN outbox' \ DOMAIN outbox,
              outbox'[i] = outbox'[j]
       PROVE  i = j
  <2> DEFINE a == i - Len(outbox)
             b == j - Len(outbox)
  <2>1. a \in 1 .. N /\ b \in 1 .. N /\ owed[a] = owed[b]
    BY <1>13, <1>15
  <2> HIDE DEF a, b
  <2>2. /\ g[a] \in 1 .. k /\ g[b] \in 1 .. k
        /\ [id |-> c, no |-> ReadOf(c) + g[a]] = [id |-> c, no |-> ReadOf(c) + g[b]]
    BY <1>9, <2>1
  <2>3. ReadOf(c) + g[a] = ReadOf(c) + g[b]
    BY <2>2
  <2>4. g[a] = g[b]
    BY <1>2, <1>11, <2>2, <2>3
  <2>5. a = b
    <3>1. a < b => g[a] < g[b]
      BY <1>6, <2>1
    <3>2. b < a => g[b] < g[a]
      BY <1>6, <2>1
    <3> QED
      BY <2>1, <2>2, <2>4, <3>1, <3>2
  <2> QED
    BY <1>13, <2>5 DEF a, b
<1>16. ReadOf(c)' \in Int /\ ReadOf(c) <= ReadOf(c)'
  BY <1>2, <1>11
<1> QED
  BY <1>11, <1>12, <1>14, <1>15, <1>16

\* A read takes on replies to frames that were not read before, behind those that wait
\* (decode, on_tcp_stun, queue_reply).
LEMMA ReadStream ==
  ASSUME TypeOK, StreamInv, NEW c \in table, ReadFrames(c)
  PROVE  /\ StreamInv'
         /\ \A m \in kept' \ kept : m \in Reply /\ m.id = c
         /\ kept \subseteq kept'
<1>1. /\ ReadOf(c) \in Int /\ ReadOf(c)' \in Int /\ ReadOf(c) <= ReadOf(c)'
      /\ \A i \in DOMAIN rx'[c] : rx'[c][i].no = ReadOf(c)' + i
  BY ReadAnswers
<1>2. /\ \A i \in DOMAIN outbox : i \in DOMAIN outbox' /\ outbox'[i] = outbox[i]
      /\ \A i \in DOMAIN outbox' \ DOMAIN outbox :
              /\ outbox'[i] \in Reply /\ outbox'[i].id = c
              /\ ReadOf(c) < outbox'[i].no /\ outbox'[i].no <= ReadOf(c)'
      /\ \A i, j \in DOMAIN outbox' \ DOMAIN outbox : outbox'[i] = outbox'[j] => i = j
  BY ReadAnswers
<1>3. /\ UNCHANGED <<table, wbuf, sent, wire>> /\ c \in Id
      /\ kept' = kept \cup {outbox'[i] : i \in DOMAIN outbox'}
      /\ \A d \in Id \ {c} : rx'[d] = rx[d]
  BY DEF ReadFrames, TypeOK
<1>4. /\ kept \subseteq Reply /\ \A m \in kept : m.id \in Id /\ m.no \in Nat
      /\ \A i \in DOMAIN outbox : outbox[i] \in kept
  <2>1. kept \subseteq Reply
    BY DEF TypeOK
  <2>2. \A m \in Reply : m.id \in Id /\ m.no \in Nat
    BY ConstantsAssumption DEF Reply
  <2>3. \A i \in DOMAIN outbox : outbox[i] \in kept
    BY DEF StreamInv
  <2> QED
    BY <2>1, <2>2, <2>3
<1>5. ASSUME NEW d \in Id, d # c
      PROVE  ReadOf(d)' = ReadOf(d)
  BY <1>3, <1>5 DEF ReadOf
<1>6. kept \subseteq kept' /\ \A m \in kept' \ kept : \E i \in DOMAIN outbox' \ DOMAIN outbox : m = outbox'[i]
  BY <1>2, <1>3, <1>4
<1>7. ASSUME NEW i \in DOMAIN outbox' \ DOMAIN outbox
      PROVE  outbox'[i] \notin kept /\ \A j \in DOMAIN outbox : outbox'[i] # outbox[j]
  <2> DEFINE m == outbox'[i]
  <2>1. m.id = c /\ ReadOf(c) < m.no
    BY <1>2
  <2> HIDE DEF m
  <2>2. m \notin kept
    <3> SUFFICES ASSUME m \in kept PROVE FALSE
      OBVIOUS
    <3>1. m.no <= ReadOf(c) /\ m.no \in Nat
      BY <1>4, <2>1 DEF StreamInv, KeptOf
    <3> QED
      BY <1>1, <2>1, <3>1
  <2> QED
    BY <1>4, <2>2 DEF m
<1>8. ASSUME NEW d \in Id
      PROVE  StreamOf(d)'
  <2>1. Stream(d)' = Stream(d)
    BY <1>3 DEF Stream
  <2>2. \A i \in DOMAIN rx'[d] : rx'[d][i].no = ReadOf(d)' + i
    <3>1. CASE d = c
      BY <1>1, <3>1
    <3>2. CASE d # c
      BY <1>3, <1>5, <3>2 DEF StreamInv, StreamOf
    <3> QED
      BY <3>1, <3>2
  <2> QED
    BY <1>3, <1>6, <2>1, <2>2 DEF StreamInv, StreamOf
<1>9. ASSUME NEW m \in kept'
      PROVE  KeptOf(m)'
  <2>1. CASE m \in kept
    <3>1. KeptOf(m) /\ m.id \in Id /\ m.no \in Nat
      BY <1>4, <2>1 DEF StreamInv
    <3>2. Queued(m) => Queued(m)'
      BY <1>2 DEF Queued
    <3>3. Starts(m) => Starts(m)'
      BY <1>3 DEF Starts, Stream
    <3>4. m.no <= ReadOf(m.id)'
      <4>1. CASE m.id = c
        BY <1>1, <3>1, <4>1 DEF KeptOf
      <4>2. CASE m.id # c
        BY <1>5, <3>1, <4>2 DEF KeptOf
      <4> QED
        BY <4>1, <4>2
    <3> QED
      BY <1>3, <3>1, <3>2, <3>3, <3>4 DEF KeptOf
  <2>2. CASE m \notin kept
    <3>1. PICK i \in DOMAIN outbox' \ DOMAIN outbox : m = outbox'[i]
      BY <1>6, <2>2
    <3>2. m.id = c /\ m.no <= ReadOf(c)'
      BY <1>2, <3>1
    <3>3. Queued(m)'
      BY <3>1 DEF Queued
    <3> QED
      BY <1>3, <3>2, <3>3 DEF KeptOf
  <2> QED
    BY <2>1, <2>2
<1>10. Distinct(outbox')
  <2> SUFFICES ASSUME NEW i \in DOMAIN outbox', NEW j \in DOMAIN outbox', outbox'[i] = outbox'[j]
               PROVE  i = j
    BY DEF Distinct
  <2>1. CASE i \in DOMAIN outbox /\ j \in DOMAIN outbox
    BY <1>2, <2>1 DEF StreamInv, Distinct
  <2>2. CASE i \notin DOMAIN outbox /\ j \notin DOMAIN outbox
    BY <1>2, <2>2
  <2>3. CASE i \in DOMAIN outbox /\ j \notin DOMAIN outbox
    BY <1>2, <1>7, <2>3
  <2>4. CASE i \notin DOMAIN outbox /\ j \in DOMAIN outbox
    BY <1>2, <1>7, <2>4
  <2> QED
    BY <2>1, <2>2, <2>3, <2>4
<1>11. \A m : Carries(m)' <=> Carries(m)
  BY <1>3 DEF Carries, Stream
<1>12. ASSUME NEW i \in DOMAIN outbox', NEW m, m = outbox'[i]
       PROVE  m \in kept' /\ (~Carries(m))'
  <2>1. m \in kept'
    BY <1>3, <1>12
  <2>2. ~Carries(m)
    <3>1. CASE i \in DOMAIN outbox
      BY <1>2, <1>12, <3>1 DEF StreamInv
    <3>2. CASE i \notin DOMAIN outbox
      <4>1. m \in Reply /\ m.id = c /\ m \notin kept
        BY <1>2, <1>7, <1>12, <3>2
      <4>2. m = [id |-> c, no |-> m.no]
        BY <4>1 DEF Reply
      <4>3. \A n \in DOMAIN Stream(c) : [id |-> c, no |-> Stream(c)[n].no] \in kept
        BY <1>3 DEF StreamInv, StreamOf
      <4> QED
        BY <4>1, <4>2, <4>3 DEF Carries
    <3> QED
      BY <3>1, <3>2
  <2> QED
    BY <1>11, <2>1, <2>2
<1>13. \A i \in DOMAIN outbox' : outbox'[i] \in kept' /\ (~Carries(outbox[i]))'
  <2> SUFFICES ASSUME NEW i \in DOMAIN outbox', NEW m, m = outbox'[i]
               PROVE  m \in kept' /\ (~Carries(m))'
    BY DEF Carries
  <2> QED
    BY <1>12
<1>14. Distinct(outbox)'
  BY <1>10 DEF Distinct
<1>15. \A m \in kept' \ kept : m \in Reply /\ m.id = c
  BY <1>2, <1>6
<1> QED
  BY <1>6, <1>8, <1>9, <1>13, <1>14, <1>15 DEF StreamInv

\* The connections start with nothing on them.
LEMMA StreamInit == Init => StreamInv
<1> SUFFICES ASSUME Init PROVE StreamInv
  OBVIOUS
<1>1. /\ \A c \in Id : wire[c] = <<>> /\ wbuf[c] = <<>> /\ rx[c] = <<>>
      /\ outbox = <<>> /\ kept = {}
  BY DEF Init
<1>2. DOMAIN <<>> = {} /\ Len(<<>>) = 0 /\ <<>> \o <<>> = <<>>
  OBVIOUS
<1>3. \A c \in Id : Stream(c) = <<>>
  BY <1>1, <1>2 DEF Stream
<1>4. FrameByFrame(<<>>) /\ Distinct(<<>>)
  BY <1>2 DEF FrameByFrame, Distinct
<1>5. \A c \in Id : StreamOf(c)
  BY <1>1, <1>2, <1>3, <1>4 DEF StreamOf
<1> QED
  BY <1>1, <1>2, <1>4, <1>5 DEF StreamInv

\* Every step keeps the streams whole and each accepted reply in one place.
LEMMA StreamNext == TypeOK /\ StreamInv /\ [Next]_vars => StreamInv'
<1> SUFFICES ASSUME TypeOK, StreamInv, [Next]_vars PROVE StreamInv'
  OBVIOUS
<1> USE DEF loopVars, connVars, handlerVars, peerVars, pollVars, workerVars
<1>1. CASE StopAtTop \/ PollFails \/ PollEmpty \/ PollEvents \/ EventUdp \/ EventsDone
           \/ SkipReady \/ ReadyDone \/ RepliesDone \/ UNCHANGED vars
  BY <1>1, SameStream DEF StopAtTop, PollFails, PollEmpty, PollEvents, EventUdp,
     EventsDone, SkipReady, ReadyDone, RepliesDone, vars
<1>2. CASE Reclaim
  BY <1>2, CutStream DEF TypeOK, Reclaim, Doomed
<1>3. CASE EventListen
  <2>1. UNCHANGED <<wire, wbuf, outbox, kept, sent, rx>> /\ table \subseteq table'
    BY <1>3 DEF EventListen
  <2> QED
    BY <2>1, SameStream
<1>4. ASSUME NEW h \in hits, EventConn(h)
      PROVE  StreamInv'
  BY <1>4, SameStream DEF EventConn
<1>5. ASSUME NEW h \in hits, EventGone(h)
      PROVE  StreamInv'
  BY <1>5, CutStream DEF TypeOK, EventGone
<1>6. ASSUME NEW c \in table, ReadFrames(c)
      PROVE  StreamInv'
  BY <1>6, ReadStream
<1>7. ASSUME NEW c \in table, ReadEnds(c) \/ WriteFails(c)
      PROVE  StreamInv'
  BY <1>7, CutStream DEF TypeOK, ReadEnds, WriteFails
<1>8. ASSUME NEW c \in table, WritePieces(c)
      PROVE  StreamInv'
  BY <1>8, WriteStream
<1>9. ASSUME NEW c \in table, TakeReply(c)
      PROVE  StreamInv'
  BY <1>9, TakeStream
<1>10. ASSUME NEW c \in table, RequeueReply(c)
       PROVE  StreamInv'
  BY <1>10, RequeueStream
<1>11. CASE PeerConnects \/ UdpArrives \/ RequestStop \/ PostWake
  BY <1>11, SameStream DEF PeerConnects, UdpArrives, RequestStop, PostWake
<1>12. ASSUME NEW c \in Id, PeerSends(c)
       PROVE  StreamInv'
  BY <1>12, SendStream
<1>13. ASSUME NEW c \in Id, PeerEnds(c) \/ PeerReceives(c) \/ Expire(c)
       PROVE  StreamInv'
  BY <1>13, SameStream DEF PeerEnds, PeerReceives, Expire
<1> QED
  BY <1>1, <1>2, <1>3, <1>4, <1>5, <1>6, <1>7, <1>8, <1>9, <1>10, <1>11, <1>12, <1>13
  DEF Next, Tick, Outside, Returned

\* What the theorems below rest on holds of every reachable state.
LEMMA StreamHolds == Spec => [](TypeOK /\ StreamInv)
<1>1. Init => TypeOK /\ StreamInv
  BY TypeInit, StreamInit
<1>2. TypeOK /\ StreamInv /\ [Next]_vars => (TypeOK /\ StreamInv)'
  BY TypeNext, StreamNext
<1> QED
  BY <1>1, <1>2, PTL DEF Spec

--------------------------------------------------------------------------------
(* What the invariant shows of the frames and of the replies.               *)

\* Where a number stands in a block of P of them.
LEMMA PlaceInBlock ==
  ASSUME NEW P \in Nat \ {0}, NEW k \in Nat, NEW r \in 0 .. P - 1
  PROVE  (P * k + r) % P = r
BY SMTT(30)

\* One block more.
LEMMA NextBlock ==
  ASSUME NEW P \in Nat \ {0}, NEW k \in Nat
  PROVE  P * (k + 1) = P * k + P /\ P * k \in Nat /\ P * 0 = 0
OBVIOUS

\* The parts of the pieces of a stream.
LEMMA PartOf ==
  ASSUME NEW s \in Seq(Piece)
  PROVE  /\ DOMAIN s = 1 .. Len(s) /\ Len(s) \in Nat
         /\ \A i \in 1 .. Len(s) : s[i].part \in 1 .. Pieces
<1>1. \A i \in 1 .. Len(s) : s[i] \in Piece
  OBVIOUS
<1>2. \A x \in Piece : x.part \in 1 .. Pieces
  BY DEF Piece
<1> QED
  BY <1>1, <1>2

\* The piece at place i of whole frames has k frames before its own, for some k.
LEMMA FramePlaces ==
  ASSUME NEW s \in Seq(Piece), FrameByFrame(s)
  PROVE  \A i \in 1 .. Len(s) : \E k \in Nat : i = Pieces * k + s[i].part
<1> DEFINE Placed(i) == \E k \in Nat : i = Pieces * k + s[i].part
           S == {i \in 1 .. Len(s) : ~Placed(i)}
<1> SUFFICES ASSUME S # {} PROVE FALSE
  OBVIOUS
<1>1. S \in SUBSET Nat /\ Len(s) \in Nat /\ Pieces \in Nat \ {0}
  BY ConstantsAssumption
<1>2. PICK n \in S : \A m \in S : n <= m
  <2> HIDE DEF S
  <2> QED
    BY <1>1, Smallest
<1>3. n \in 1 .. Len(s) /\ ~Placed(n)
  BY <1>2
<1>4. \A i \in 1 .. Len(s) : i < n => Placed(i)
  <2> SUFFICES ASSUME NEW i \in 1 .. Len(s), i < n, ~Placed(i) PROVE FALSE
    OBVIOUS
  <2>1. i \in S
    OBVIOUS
  <2>2. n <= i
    BY <1>2, <2>1
  <2> QED
    BY <1>1, <1>3, <2>2
<1>5. \A i \in 1 .. Len(s) : s[i].part \in 1 .. Pieces
  BY PartOf
<1> HIDE DEF S
<1>6. CASE n = 1
  <2>1. s # <<>>
    BY <1>3
  <2>2. n = Pieces * 0 + s[n].part
    BY <1>1, <1>6, <2>1, NextBlock DEF FrameByFrame
  <2> QED
    BY <1>3, <2>2
<1>7. CASE n # 1
  <2> DEFINE b == n - 1
  <2>1. b \in 1 .. Len(s) - 1 /\ b \in 1 .. Len(s) /\ b < n /\ n = b + 1
    BY <1>1, <1>3, <1>7
  <2> HIDE DEF b
  <2>2. PICK k \in Nat : b = Pieces * k + s[b].part
    BY <1>4, <2>1
  <2>3. \/ s[b].part < Pieces /\ s[n].part = s[b].part + 1
        \/ s[b].part = Pieces /\ s[n].part = 1
    <3>1. \/ s[b].part < Pieces /\ s[b + 1] = [no |-> s[b].no, part |-> s[b].part + 1]
          \/ s[b].part = Pieces /\ s[b + 1].part = 1
      BY <2>1 DEF FrameByFrame
    <3>2. s[b + 1] = s[n]
      BY <2>1
    <3> QED
      BY <3>1, <3>2
  <2>4. Pieces * (k + 1) = Pieces * k + Pieces /\ Pieces * k \in Nat
    BY <1>1, NextBlock
  <2>5. CASE s[n].part = s[b].part + 1
    <3> DEFINE blocks == Pieces * k
               part   == s[b].part
    <3>1. blocks \in Nat /\ part \in Nat /\ b = blocks + part /\ s[n].part = part + 1 /\ n = b + 1
      BY <1>5, <2>1, <2>2, <2>4, <2>5
    <3> HIDE DEF blocks, part
    <3>2. n = blocks + s[n].part
      BY <3>1
    <3> QED
      BY <1>3, <3>2 DEF blocks
  <2>6. CASE s[b].part = Pieces /\ s[n].part = 1
    <3> DEFINE blocks == Pieces * k
               next   == Pieces * (k + 1)
    <3>1. /\ blocks \in Nat /\ Pieces \in Nat /\ next = blocks + Pieces
          /\ b = blocks + Pieces /\ s[n].part = 1 /\ n = b + 1 /\ k + 1 \in Nat
      BY <1>1, <2>1, <2>2, <2>4, <2>6
    <3> HIDE DEF blocks, next
    <3>2. n = next + s[n].part
      BY <3>1
    <3> QED
      BY <1>3, <3>1, <3>2 DEF next
  <2> QED
    BY <2>3, <2>5, <2>6
<1> QED
  BY <1>6, <1>7

\* However the kernel splits the writes, whatever is queued meanwhile and whichever
\* connections are cut, what a connection carries is whole frames one after the other:
\* take_write never overwrites or interleaves a frame drain_write has partly written.
THEOREM FramesWhole == Spec => []WholeFrames
<1>1. TypeOK /\ StreamInv => WholeFrames
  <2> SUFFICES ASSUME TypeOK, StreamInv, NEW c \in table
               PROVE  /\ Len(Stream(c)) % Pieces = 0
                      /\ \A i \in DOMAIN Stream(c) :
                           /\ Stream(c)[i].part = ((i - 1) % Pieces) + 1
                           /\ Stream(c)[i].part > 1 => Stream(c)[i].no = Stream(c)[i - 1].no
    BY DEF WholeFrames
  <2> DEFINE s == Stream(c)
  <2>1. s \in Seq(Piece) /\ FrameByFrame(s)
    <3>1. c \in Id /\ wire[c] \in Seq(Piece) /\ wbuf[c] \in Seq(Piece)
      BY DEF TypeOK
    <3> QED
      BY <3>1, Behind DEF Stream, StreamInv, StreamOf
  <2> HIDE DEF s
  <2>2. /\ \A i \in 1 .. Len(s) : \E k \in Nat : i = Pieces * k + s[i].part
        /\ \A i \in 1 .. Len(s) : s[i].part \in 1 .. Pieces
        /\ DOMAIN s = 1 .. Len(s) /\ Len(s) \in Nat /\ Pieces \in Nat \ {0}
    BY <2>1, FramePlaces, PartOf, ConstantsAssumption
  <2>3. Len(s) % Pieces = 0
    <3>1. CASE Len(s) = 0
      <4>1. Len(s) = Pieces * 0 + 0
        BY <2>2, <3>1, NextBlock
      <4>2. 0 \in Nat /\ 0 \in 0 .. Pieces - 1
        BY <2>2
      <4> QED
        BY <2>2, <4>1, <4>2, PlaceInBlock
    <3>2. CASE Len(s) # 0
      <4> DEFINE l == Len(s)
      <4>1. l \in 1 .. Len(s) /\ s # <<>>
        BY <2>2, <3>2
      <4>2. s[l].part = Pieces
        BY <2>1, <4>1 DEF FrameByFrame
      <4> HIDE DEF l
      <4>3. PICK k \in Nat : l = Pieces * k + Pieces
        BY <2>2, <4>1, <4>2
      <4>4. l = Pieces * (k + 1) + 0
        BY <2>2, <4>3, NextBlock
      <4>5. k + 1 \in Nat /\ 0 \in 0 .. Pieces - 1
        BY <2>2
      <4>6. l % Pieces = 0
        BY <2>2, <4>4, <4>5, PlaceInBlock
      <4> QED
        BY <4>6 DEF l
    <3> QED
      BY <3>1, <3>2
  <2>4. ASSUME NEW i \in DOMAIN s
        PROVE  /\ s[i].part = ((i - 1) % Pieces) + 1
               /\ s[i].part > 1 => s[i].no = s[i - 1].no
    <3>1. PICK k \in Nat : i = Pieces * k + s[i].part
      BY <2>2
    <3> DEFINE r == s[i].part - 1
    <3>2. r \in 0 .. Pieces - 1 /\ s[i].part = r + 1 /\ i \in 1 .. Len(s)
      BY <2>2
    <3> HIDE DEF r
    <3>3. i - 1 = Pieces * k + r
      BY <2>2, <3>1, <3>2, NextBlock
    <3>4. (i - 1) % Pieces = r
      <4>1. Pieces \in Nat \ {0} /\ k \in Nat
        BY <2>2
      <4>2. (Pieces * k + r) % Pieces = r
        BY <3>2, <4>1, PlaceInBlock
      <4> QED
        BY <3>3, <4>2, Zenon
    <3>5. ASSUME s[i].part > 1
          PROVE  s[i].no = s[i - 1].no
      <4>1. s # <<>> /\ s[1].part = 1
        BY <2>1, <2>2, <3>2 DEF FrameByFrame
      <4>2. i # 1
        BY <3>5, <4>1
      <4> DEFINE b == i - 1
      <4>3. b \in 1 .. Len(s) - 1 /\ b + 1 = i
        <5>1. Len(s) \in Nat /\ i \in 1 .. Len(s) /\ i # 1
          BY <2>2, <3>2, <4>2
        <5> QED
          BY <5>1
      <4> HIDE DEF b
      <4>4. s[i] = [no |-> s[b].no, part |-> s[b].part + 1] \/ s[i].part = 1
        BY <2>1, <4>3 DEF FrameByFrame
      <4>5. s[i].no = s[b].no
        BY <3>5, <4>4
      <4> QED
        BY <4>5 DEF b
    <3> QED
      BY <3>2, <3>4, <3>5
  <2> QED
    BY <2>3, <2>4 DEF s
<1> QED
  BY <1>1, StreamHolds, PTL

\* A set of places of which there is none, and one of which there is one.
LEMMA OnePlace ==
  ASSUME NEW S
  PROVE  /\ S = {} => Cardinality(S) = 0
         /\ (\E i \in S : \A j \in S : j = i) => Cardinality(S) = 1
<1>1. S = {} => Cardinality(S) = 0
  BY FS_EmptySet
<1>2. ASSUME NEW i \in S, \A j \in S : j = i
      PROVE  Cardinality(S) = 1
  <2>1. S = {i}
    BY <1>2
  <2>2. Cardinality({i}) = 1
    BY FS_Singleton
  <2> QED
    BY <2>1, <2>2
<1> QED
  BY <1>1, <1>2

\* Each reply the outbox accepted is, as long as its connection lives, in exactly one
\* place: queued once, or carried once.  Putting a reply back neither loses nor doubles
\* it, and a reply past the cap was never accepted.
THEOREM RepliesInOnePlace == Spec => []RepliesKept
<1>1. TypeOK /\ StreamInv => RepliesKept
  <2> SUFFICES ASSUME TypeOK, StreamInv PROVE RepliesKept
    OBVIOUS
  <2>1. \A c \in table : \A i \in DOMAIN Stream(c) : [id |-> c, no |-> Stream(c)[i].no] \in kept
    BY DEF TypeOK, StreamInv, StreamOf
  <2>2. ASSUME NEW m \in kept
        PROVE  Cardinality({i \in DOMAIN outbox : outbox[i] = m})
                 + Cardinality({i \in DOMAIN Stream(m.id) : Stream(m.id)[i] = [no |-> m.no, part |-> 1]}) = 1
    <3> DEFINE s == Stream(m.id)
               queued  == {i \in DOMAIN outbox : outbox[i] = m}
               carried == {i \in DOMAIN s : s[i] = [no |-> m.no, part |-> 1]}
    <3>1. KeptOf(m) /\ m.id \in Id
      BY DEF StreamInv, TypeOK, Reply
    <3>2. /\ Distinct(outbox) /\ Distinct(s)
          /\ \A i \in DOMAIN outbox : ~Carries(outbox[i])
      BY <3>1 DEF StreamInv, StreamOf
    <3>3. \A i, j \in queued : i = j
      BY <3>2 DEF Distinct
    <3>4. \A i, j \in carried : i = j
      <4> HIDE DEF s
      <4> QED
        BY <3>2 DEF Distinct
    <3>5. CASE Queued(m)
      <4>1. queued # {}
        BY <3>5 DEF Queued
      <4>2. carried = {}
        <5>1. ~Carries(m)
          BY <3>2, <3>5 DEF Queued
        <5> QED
          BY <5>1 DEF Carries
      <4> HIDE DEF queued, carried
      <4>3. Cardinality(queued) = 1 /\ Cardinality(carried) = 0
        BY <3>3, <4>1, <4>2, OnePlace
      <4>4. Cardinality(queued) + Cardinality(carried) = 1
        BY <4>3
      <4> QED
        BY <4>4 DEF queued, carried, s
    <3>6. CASE ~Queued(m)
      <4>1. queued = {}
        BY <3>6 DEF Queued
      <4>2. carried # {}
        BY <3>1, <3>6 DEF KeptOf, Starts
      <4> HIDE DEF queued, carried
      <4>3. Cardinality(queued) = 0 /\ Cardinality(carried) = 1
        BY <3>4, <4>1, <4>2, OnePlace
      <4>4. Cardinality(queued) + Cardinality(carried) = 1
        BY <4>3
      <4> QED
        BY <4>4 DEF queued, carried, s
    <3> QED
      BY <3>5, <3>6
  <2> QED
    BY <2>1, <2>2 DEF RepliesKept
<1> QED
  BY <1>1, StreamHolds, PTL

--------------------------------------------------------------------------------
(* The control path implements the service it promises.                     *)

\* A step that leaves alone what the service is about does nothing of it.
LEMMA SameService ==
  ASSUME UNCHANGED <<nextId, table, kept, wire>>
  PROVE  UNCHANGED Service!serviceVars
BY DEF Service!serviceVars, Given

\* Cutting connections closes them: what was owed to them is owed no more.
LEMMA CutCloses ==
  ASSUME TypeOK, NEW D \in SUBSET Id, Cut(D)
  PROVE  Service!Next
<1>1. /\ table' = table \ D /\ kept' = {m \in kept : m.id \notin D} /\ nextId' = nextId
      /\ \A c \in Id \ D : wire'[c] = wire[c]
      /\ \A m \in kept : m.id \in Id
  BY DEF Cut, Forget, TypeOK, Reply
<1>2. Given' = {m \in Given : m.id \notin D}
  BY <1>1 DEF Given
<1>3. (kept \ Given)' = {m \in kept \ Given : m.id \notin D}
  BY <1>1, <1>2
<1>4. Service!Close(D)
  BY <1>1, <1>2, <1>3 DEF Service!Close
<1> QED
  BY <1>4 DEF Service!Next

\* Ids above those handed out, up to a limit, are within it and new.
LEMMA FreshIds ==
  ASSUME NEW a \in Nat, NEW b \in Nat, NEW limit \in Nat, b <= limit
  PROVE  \A n \in a .. b - 1 : n \in 0 .. limit - 1 /\ n \notin 0 .. a - 1
OBVIOUS

\* Accepting hands out ids that were never used before.
LEMMA ListenOpens ==
  ASSUME TypeOK, EventListen
  PROVE  Service!Next \/ UNCHANGED Service!serviceVars
<1> DEFINE fresh == nextId .. Least(nextId + Accepted, MaxConns) - 1
<1>1. UNCHANGED <<kept, wire>>
  BY DEF EventListen, handlerVars
<1>2. Given' = Given
  BY <1>1 DEF Given
<1>3. CASE UNCHANGED <<nextId, table, halfOpen, known, sock>>
  BY <1>1, <1>3, SameService
<1>4. CASE /\ nextId' = Least(nextId + Accepted, MaxConns)
           /\ \E live \in IF "failure" \in Happens THEN SUBSET fresh ELSE {fresh} :
                /\ table' = table \cup live
                /\ halfOpen' = halfOpen \cup live
                /\ known' = known \cup live
                /\ sock' = [c \in Id |-> IF c \in live THEN "open" ELSE sock[c]]
  <2>1. PICK live \in SUBSET fresh : table' = table \cup live
    BY <1>4
  <2>2. Accepted \in Nat /\ nextId \in Nat /\ nextId <= MaxConns
    <3>1. backlog \in Nat /\ nextId \in Nat /\ nextId <= MaxConns
      BY ConstantsAssumption DEF TypeOK
    <3>2. Accepted \in Nat
      BY <3>1, ConstantsAssumption DEF Accepted, Least
    <3> QED
      BY <3>1, <3>2
  <2>3. nextId' \in Nat /\ nextId <= nextId' /\ nextId' <= MaxConns /\ fresh = nextId .. nextId' - 1
    BY <1>4, <2>2, ConstantsAssumption DEF Least
  <2> HIDE DEF fresh
  <2>4. fresh \in SUBSET Id /\ fresh \cap (0 .. nextId - 1) = {}
    <3>1. MaxConns \in Nat /\ nextId \in Nat /\ nextId' \in Nat /\ nextId' <= MaxConns
      BY <2>2, <2>3, ConstantsAssumption
    <3>2. \A n \in nextId .. nextId' - 1 : n \in 0 .. MaxConns - 1 /\ n \notin 0 .. nextId - 1
      BY <3>1, FreshIds
    <3>3. \A n \in fresh : n \in Id /\ n \notin 0 .. nextId - 1
      BY <2>3, <3>2 DEF Id
    <3> QED
      BY <3>3
  <2>5. 0 .. nextId' - 1 = (0 .. nextId - 1) \cup fresh
    BY <2>2, <2>3
  <2>6. Service!Open(fresh, live)
    BY <1>1, <1>2, <2>1, <2>4, <2>5 DEF Service!Open
  <2> QED
    BY <2>1, <2>4, <2>6 DEF Service!Next
<1> QED
  BY <1>3, <1>4 DEF EventListen

\* A read takes on replies nobody was promised before.
LEMMA ReadOwes ==
  ASSUME TypeOK, StreamInv, NEW c \in table, ReadFrames(c)
  PROVE  Service!Next
<1> DEFINE ms == kept' \ kept
<1>1. /\ \A m \in ms : m \in Reply /\ m.id = c
      /\ kept \subseteq kept'
  BY ReadStream
<1>2. /\ UNCHANGED <<nextId, table, wire, wbuf>> /\ c \in Id
      /\ wire[c] \in Seq(Piece) /\ wbuf[c] \in Seq(Piece)
  BY DEF ReadFrames, TypeOK
<1>3. \A i \in DOMAIN wire[c] : i \in DOMAIN Stream(c) /\ Stream(c)[i] = wire[c][i]
  <2> DEFINE w == wire[c]
             b == wbuf[c]
  <2>1. w \in Seq(Piece) /\ b \in Seq(Piece)
    BY <1>2
  <2> HIDE DEF w, b
  <2>2. \A i \in DOMAIN w : i \in DOMAIN (w \o b) /\ (w \o b)[i] = w[i]
    BY <2>1
  <2> QED
    BY <2>2 DEF w, b, Stream
<1>4. \A i \in DOMAIN wire[c] : [id |-> c, no |-> wire[c][i].no] \in kept
  BY <1>2, <1>3 DEF StreamInv, StreamOf
<1>5. ASSUME NEW m \in ms, NEW i \in DOMAIN wire[c], wire[c][i] = [no |-> m.no, part |-> Pieces]
      PROVE  FALSE
  <2>1. m = [id |-> c, no |-> m.no] /\ m \notin kept
    BY <1>1 DEF Reply
  <2>2. wire[c][i].no = m.no
    BY <1>5
  <2> QED
    BY <1>4, <2>1, <2>2
<1>6. Given' = Given
  <2>1. Given \subseteq Given'
    BY <1>1, <1>2 DEF Given
  <2>2. ASSUME NEW m \in Given', m \notin kept
        PROVE  FALSE
    <3>1. m \in ms /\ m.id = c
      BY <1>1, <2>2 DEF Given
    <3>2. \E i \in DOMAIN wire[c] : wire[c][i] = [no |-> m.no, part |-> Pieces]
      BY <1>2, <3>1 DEF Given
    <3> QED
      BY <1>5, <3>1, <3>2
  <2>3. Given' \subseteq Given
    BY <1>2, <2>2 DEF Given
  <2> QED
    BY <2>1, <2>3
<1>7. Given \subseteq kept
  BY DEF Given
<1>8. (kept \ Given)' = (kept \ Given) \cup ms
  BY <1>1, <1>6, <1>7
<1>9. Service!Owe(ms)
  BY <1>1, <1>2, <1>6, <1>7, <1>8 DEF Service!Owe
<1>10. ms \in SUBSET Service!Replies
  BY <1>1 DEF Reply, Service!Replies
<1> HIDE DEF ms
<1> QED
  BY <1>9, <1>10 DEF Service!Next

\* A write gives the reply whose last piece it writes, if it writes one.
LEMMA WriteGives ==
  ASSUME TypeOK, StreamInv, NEW c \in table, WritePieces(c)
  PROVE  Service!Next \/ UNCHANGED Service!serviceVars
<1>1. PICK n \in 0 .. Len(wbuf[c]) : wire' = [wire EXCEPT ![c] = wire[c] \o SubSeq(wbuf[c], 1, n)]
  BY WriteStream
<1>2. /\ c \in Id /\ wire \in [Id -> Seq(Piece)] /\ wire[c] \in Seq(Piece)
      /\ wbuf[c] \in Seq(Piece) /\ Len(wbuf[c]) \in Nat /\ kept \subseteq Reply
      /\ UNCHANGED <<nextId, table, kept>>
  BY DEF TypeOK, WritePieces, handlerVars
<1> DEFINE w == wire[c]
           b == wbuf[c]
           x == SubSeq(b, 1, n)
<1>3. /\ w \in Seq(Piece) /\ b \in Seq(Piece) /\ n \in 0 .. Len(b) /\ wire'[c] = w \o x
      /\ \A i \in DOMAIN b : b[i].part = Pieces => i = Len(b)
  BY <1>1, <1>2 DEF StreamInv, StreamOf
<1> HIDE DEF w, b
<1>4. x \in Seq(Piece) /\ Len(x) = n /\ DOMAIN x = 1 .. n /\ \A i \in 1 .. n : x[i] = b[i]
  BY <1>3
<1> HIDE DEF x
<1>5. /\ \A i \in DOMAIN w : i \in DOMAIN (w \o x) /\ (w \o x)[i] = w[i]
      /\ \A i \in DOMAIN (w \o x) :
           i \in DOMAIN w \/ (i - Len(w) \in 1 .. n /\ (w \o x)[i] = x[i - Len(w)])
  BY <1>3, <1>4
<1>6. Given \subseteq Given'
  <2> SUFFICES ASSUME NEW m \in Given PROVE m \in Given'
    OBVIOUS
  <2>1. m \in kept /\ m.id \in Id
    BY <1>2 DEF Given, Reply
  <2>2. PICK i \in DOMAIN wire[m.id] : wire[m.id][i] = [no |-> m.no, part |-> Pieces]
    BY DEF Given
  <2>3. i \in DOMAIN wire'[m.id] /\ wire'[m.id][i] = wire[m.id][i]
    <3>1. CASE m.id = c
      BY <1>3, <1>5, <2>2, <3>1 DEF w
    <3>2. CASE m.id # c
      BY <1>1, <1>2, <2>1, <2>2, <3>2
    <3> QED
      BY <3>1, <3>2
  <2> QED
    BY <1>2, <2>1, <2>2, <2>3 DEF Given
<1>7. ASSUME NEW m \in Given', m \notin Given
      PROVE  m \in kept /\ m = [id |-> c, no |-> b[Len(b)].no]
  <2>1. m \in kept /\ m \in Reply
    BY <1>2 DEF Given
  <2>2. PICK i \in DOMAIN wire'[m.id] : wire'[m.id][i] = [no |-> m.no, part |-> Pieces]
    BY DEF Given
  <2>3. m.id = c
    <3> SUFFICES ASSUME m.id # c PROVE FALSE
      OBVIOUS
    <3>1. wire'[m.id] = wire[m.id]
      BY <1>1, <1>2, <2>1 DEF Reply
    <3> QED
      BY <1>7, <2>1, <2>2, <3>1 DEF Given
  <2>4. i \in DOMAIN (w \o x) /\ (w \o x)[i] = [no |-> m.no, part |-> Pieces]
    BY <1>3, <2>2, <2>3
  <2>5. i \notin DOMAIN w
    <3> SUFFICES ASSUME i \in DOMAIN w PROVE FALSE
      OBVIOUS
    <3>1. w[i] = [no |-> m.no, part |-> Pieces]
      BY <1>5, <2>4
    <3> QED
      BY <1>7, <2>1, <2>3, <3>1 DEF Given, w
  <2> DEFINE p == i - Len(w)
  <2>6. p \in 1 .. n /\ x[p] = [no |-> m.no, part |-> Pieces]
    BY <1>5, <2>4, <2>5
  <2> HIDE DEF p
  <2>7. p \in DOMAIN b /\ b[p] = [no |-> m.no, part |-> Pieces]
    BY <1>3, <1>4, <2>6
  <2>8. p = Len(b) /\ b[p].no = m.no
    BY <1>3, <2>7
  <2> QED
    BY <2>1, <2>3, <2>8 DEF Reply
<1>8. Given' \subseteq kept
  BY <1>2 DEF Given
<1>9. CASE Given' = Given
  BY <1>2, <1>9 DEF Service!serviceVars
<1>10. CASE Given' # Given
  <2>1. PICK m \in Given' : m \notin Given
    BY <1>6, <1>10
  <2>2. Given' = Given \cup {m} /\ m \in kept \ Given
    BY <1>6, <1>7, <2>1
  <2>3. (kept \ Given)' = (kept \ Given) \ {m}
    BY <1>2, <2>2
  <2>4. Service!Give(m)
    BY <1>2, <2>2, <2>3 DEF Service!Give
  <2> QED
    BY <2>2, <2>4 DEF Service!Next
<1> QED
  BY <1>9, <1>10

\* Every step of the worker and of its surroundings is a step of the service or none.
LEMMA ServiceStep ==
  TypeOK /\ StreamInv /\ [Next]_vars => [Service!Next]_(Service!serviceVars)
<1> SUFFICES ASSUME TypeOK, StreamInv, [Next]_vars
             PROVE  Service!Next \/ UNCHANGED Service!serviceVars
  OBVIOUS
<1> USE DEF loopVars, connVars, handlerVars, peerVars, pollVars, workerVars
<1>1. CASE StopAtTop \/ PollFails \/ PollEmpty \/ PollEvents \/ EventUdp \/ EventsDone
           \/ SkipReady \/ ReadyDone \/ RepliesDone \/ UNCHANGED vars
  BY <1>1, SameService DEF StopAtTop, PollFails, PollEmpty, PollEvents, EventUdp,
     EventsDone, SkipReady, ReadyDone, RepliesDone, vars
<1>2. CASE Reclaim
  BY <1>2, CutCloses DEF TypeOK, Reclaim, Doomed
<1>3. CASE EventListen
  BY <1>3, ListenOpens
<1>4. ASSUME NEW h \in hits, EventConn(h)
      PROVE  UNCHANGED Service!serviceVars
  BY <1>4, SameService DEF EventConn
<1>5. ASSUME NEW h \in hits, EventGone(h)
      PROVE  Service!Next
  BY <1>5, CutCloses DEF TypeOK, EventGone
<1>6. ASSUME NEW c \in table, ReadFrames(c)
      PROVE  Service!Next
  BY <1>6, ReadOwes
<1>7. ASSUME NEW c \in table, ReadEnds(c) \/ WriteFails(c)
      PROVE  Service!Next
  BY <1>7, CutCloses DEF TypeOK, ReadEnds, WriteFails
<1>8. ASSUME NEW c \in table, WritePieces(c)
      PROVE  Service!Next \/ UNCHANGED Service!serviceVars
  BY <1>8, WriteGives
<1>9. ASSUME NEW c \in table, TakeReply(c) \/ RequeueReply(c)
      PROVE  UNCHANGED Service!serviceVars
  BY <1>9, SameService DEF TakeReply, RequeueReply
<1>10. CASE PeerConnects \/ UdpArrives \/ RequestStop \/ PostWake
  BY <1>10, SameService DEF PeerConnects, UdpArrives, RequestStop, PostWake
<1>11. ASSUME NEW c \in Id, PeerSends(c) \/ PeerEnds(c) \/ PeerReceives(c) \/ Expire(c)
       PROVE  UNCHANGED Service!serviceVars
  BY <1>11, SameService DEF PeerSends, PeerEnds, PeerReceives, Expire
<1> QED
  BY <1>1, <1>2, <1>3, <1>4, <1>5, <1>6, <1>7, <1>8, <1>9, <1>10, <1>11
  DEF Next, Tick, Outside, Returned

\* The worker, its handler and whatever goes wrong around them implement the service:
\* each reply taken on is given at most once, and stays owed until it is given or its
\* connection is closed; a closed connection gets nothing more and its id is not reused.
THEOREM ServiceImplemented == Spec => ServiceKept
<1>1. Init => Service!Init
  <2> SUFFICES ASSUME Init PROVE Service!Init
    OBVIOUS
  <2>1. nextId = 0 /\ table = {} /\ kept = {}
    BY DEF Init
  <2>2. 0 .. nextId - 1 = {} /\ Given = {}
    BY <2>1 DEF Given
  <2> QED
    BY <2>1, <2>2 DEF Service!Init
<1> QED
  BY <1>1, ServiceStep, StreamHolds, PTL DEF Spec, ServiceKept, Service!Spec

===============================================================================
