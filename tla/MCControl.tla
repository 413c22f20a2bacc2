------------------------------- MODULE MCControl -------------------------------
(***************************************************************************)
(* ControlPath for the runs that need fairness, with bounds on what its    *)
(* surroundings do.  None of them holds up the worker: they say when the   *)
(* peers, the clock or the control thread may take a step of theirs.       *)
(***************************************************************************)
EXTENDS ControlPath

\* Bound of the run with peers that receive: connection 0 sends up to MaxReq frames
\* and all others one, which is enough to queue a reply behind one that finds its
\* write buffer occupied.  A stop request is up, or a datagram waits, only while connection 0
\* has sent no second frame, and more than one handshake only before any frame.
FewAtOnce ==
  /\ \A c \in Id \ {0} : sent[c] <= 1
  /\ stop \/ "udp" \in misc => sent[0] <= 1
  /\ backlog > 1 => \A c \in Id : sent[c] = 0

--------------------------------------------------------------------------------
\* One slow peer: that of connection 0 takes nothing off its connection.  No deadline
\* passes but the idle deadline of this one, once its socket takes no more and
\* its write buffer is occupied.  All others send one frame.
OneIsSlow ==
  /\ taken[0] = 0
  /\ late \subseteq {0} /\ (0 \in late => Room(0) = 0 /\ wbuf[0] # <<>>)
  /\ \A c \in Id \ {0} : sent[c] <= 1

\* The worker and all other peers keep going, and the deadline passes in the end.
SlowSpec ==
  /\ Init /\ [][Next /\ OneIsSlow']_vars
  /\ WF_vars(Tick)
  /\ WF_vars(Room(0) = 0 /\ wbuf[0] # <<>> /\ Expire(0))
  /\ \A c \in Id \ {0} : WF_vars(PeerReceives(c))

\* A reply in the outbox is written out on its own connection, whatever the peer
\* of another connection does: the drain of the outbox that stops at an occupied write
\* buffer leaves nothing behind for good.
OthersGoOut ==
  \A m \in Reply :
    (m.id # 0 /\ \E i \in DOMAIN outbox : outbox[i] = m)
      ~> (Carried(m) \/ m.id \notin table \/ pc = "stopped")

================================================================================
