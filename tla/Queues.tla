-------------------------------- MODULE Queues --------------------------------
(***************************************************************************)
(* What is left of a queue when some of its entries are taken out of it,   *)
(* as retain does for the outbox and for the transaction cache.            *)
(***************************************************************************)
EXTENDS Integers, Sequences, FiniteSets

\* The place of i among the numbers of I, counted from 1.
Rank(I, i) == Cardinality({k \in I : k <= i})

\* The entries of q at the places in I, in the order of q.
Pick(q, I) == [j \in 1 .. Cardinality(I) |-> q[CHOOSE i \in I : Rank(I, i) = j]]

================================================================================
