----------------------------- MODULE ReplyService -----------------------------
(***************************************************************************)
(* What the control path promises a peer, whatever the worker's loop, the  *)
(* outbox, the write buffers and the poller do about it: a reply the server *)
(* has taken on for a connection is given to that connection at most once, *)
(* and stays owed until it is given or the connection is closed; a closed  *)
(* connection gets nothing more and its id is never used again.            *)
(***************************************************************************)
EXTENDS Naturals

CONSTANTS Ids,      \* connection ids
          Requests  \* what tells the requests of one connection apart

VARIABLES used,     \* the ids handed out so far
          open,     \* the connections that are open
          owed,     \* replies taken on and not yet given
          given     \* replies given to connections that are open

serviceVars == <<used, open, owed, given>>

Replies == [id : Ids, no : Requests]

TypeOK ==
  /\ used \subseteq Ids /\ open \subseteq used
  /\ owed \subseteq Replies /\ given \subseteq Replies
  /\ owed \cap given = {}

Init == used = {} /\ open = {} /\ owed = {} /\ given = {}

\* Ids are handed out, some of them to connections that then are open.
Open(new, live) ==
  /\ new \cap used = {} /\ live \subseteq new
  /\ used' = used \cup new
  /\ open' = open \cup live
  /\ UNCHANGED <<owed, given>>

\* Replies nobody was promised before are taken on, for open connections.
Owe(ms) ==
  /\ ms \cap (owed \cup given) = {}
  /\ \A m \in ms : m.id \in open
  /\ owed' = owed \cup ms
  /\ UNCHANGED <<used, open, given>>

Give(m) ==
  /\ m \in owed
  /\ owed' = owed \ {m}
  /\ given' = given \cup {m}
  /\ UNCHANGED <<used, open>>

Close(cs) ==
  /\ open' = open \ cs
  /\ owed' = {m \in owed : m.id \notin cs}
  /\ given' = {m \in given : m.id \notin cs}
  /\ UNCHANGED used

Next ==
  \/ \E new \in SUBSET Ids : \E live \in SUBSET new : Open(new, live)
  \/ \E ms \in SUBSET Replies : Owe(ms)
  \/ \E m \in owed : Give(m)
  \/ \E cs \in SUBSET Ids : Close(cs)

Spec == Init /\ [][Next]_serviceVars

================================================================================
