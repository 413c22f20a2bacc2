-------------------------- MODULE ServerProcess_proofs --------------------------
(***************************************************************************)
(* Theorems about ServerProcess, for every number of workers, every batch  *)
(* and every size of the sockets' buffers.                                 *)
(***************************************************************************)
EXTENDS ServerProcess, TLAPS

USE ConstantsAssumption DEF ConstantsAssumption

\* The state main leaves when it begins to wait has the types.
LEMMA TypeInit == Init => TypeOK
<1> SUFFICES ASSUME Init PROVE TypeOK
  OBVIOUS
<1>1. next \in Workers
  BY DEF Init, Workers
<1>2. pending \in [Workers -> BOOLEAN] /\ edge \in [Workers -> BOOLEAN]
  BY DEF Init
<1>3. left \in [Workers -> 0 .. Batch] /\ queue \in [Workers -> 0 .. MaxQueue]
  BY DEF Init
<1> QED
  BY <1>1, <1>2, <1>3 DEF Init, TypeOK

\* Every step keeps the type invariant.
LEMMA TypeNext == TypeOK /\ [Next]_vars => TypeOK'
<1> SUFFICES ASSUME TypeOK, [Next]_vars PROVE TypeOK'
  OBVIOUS
<1> USE DEF TypeOK, mainVars, controlVars, workerVars
<1>1. CASE Released \/ Park \/ TimedOut \/ WokenIdly \/ JoinStdin
  <2>1. /\ pc' \in {"looking", "parked", "waking", "gone"} /\ next' \in {next, 1}
        /\ UNCHANGED <<controlVars, pending, workerVars>>
    BY <1>1 DEF Released, Park, TimedOut, WokenIdly, JoinStdin
  <2>2. 1 \in Workers
    BY DEF Workers
  <2> QED
    BY <2>1, <2>2
<1>2. CASE WakeWorker
  <2>1. next' \in Workers /\ pc' \in {pc, "joining"}
    BY <1>2 DEF WakeWorker, Advance, Workers
  <2>2. pending' \in [Workers -> BOOLEAN]
    BY <1>2 DEF WakeWorker
  <2> QED
    BY <1>2, <2>1, <2>2 DEF WakeWorker
<1>3. CASE JoinWorker
  BY <1>3 DEF JoinWorker, Advance, Workers
<1>4. CASE Stdin
  BY <1>4 DEF Stdin, InputRead, RaiseLatch, NotifyAll
<1>5. CASE InputEnds \/ Elapse
  BY <1>5 DEF InputEnds, Elapse
<1>6. ASSUME NEW k \in Workers, AtTop(k)
      PROVE  TypeOK'
  <2>1. CASE Ends(k)
    BY <1>6, <2>1 DEF AtTop, Ends, Goto
  <2>2. CASE Goto(k, "poll") /\ UNCHANGED <<left, queue, edge>>
    BY <1>6, <2>2 DEF AtTop, Goto
  <2> QED
    BY <1>6, <2>1, <2>2 DEF AtTop
<1>7. ASSUME NEW k \in Workers, Poll(k)
      PROVE  TypeOK'
  <2>1. CASE Ends(k)
    BY <1>7, <2>1 DEF Poll, Ends, Goto
  <2>2. CASE /\ Goto(k, "drain")
             /\ edge' = [edge EXCEPT ![k] = FALSE] /\ left' = [left EXCEPT ![k] = Batch]
             /\ UNCHANGED queue
    <3>1. left' \in [Workers -> 0 .. Batch]
      BY <2>2
    <3> QED
      BY <1>7, <2>2, <3>1 DEF Poll, Goto
  <2>3. CASE Goto(k, "top") /\ UNCHANGED <<left, queue, edge>>
    BY <1>7, <2>3 DEF Poll, Goto
  <2> QED
    BY <1>7, <2>1, <2>2, <2>3 DEF Poll
<1>8. ASSUME NEW k \in Workers, PollFails(k)
      PROVE  TypeOK'
  BY <1>8 DEF PollFails, Ends, Goto
<1>9. ASSUME NEW k \in Workers, DrainOne(k)
      PROVE  TypeOK'
  BY <1>9 DEF DrainOne, DrainIsOver
<1>10. ASSUME NEW k \in Workers, DrainEnds(k)
       PROVE  TypeOK'
  BY <1>10 DEF DrainEnds, Goto
<1>11. ASSUME NEW k \in Workers, Arrive(k)
       PROVE  TypeOK'
  BY <1>11 DEF Arrive
<1>12. CASE UNCHANGED vars
  BY <1>12 DEF vars
<1> QED
  BY <1>1, <1>2, <1>3, <1>4, <1>5, <1>6, <1>7, <1>8, <1>9, <1>10, <1>11, <1>12
  DEF Next, Main, Work

\* The places in main, the threads, the sockets and the events keep their types, and
\* no socket holds more than its buffer.
THEOREM TypeCorrect == Spec => []TypeOK
BY TypeInit, TypeNext, PTL DEF Spec

--------------------------------------------------------------------------------
(* The joins.                                                               *)

\* main joins the workers in turn: those before the one it stands at have ended, and
\* behind the last one it owes at most the stdin thread.
JoinInv ==
  /\ pc = "joining" => \A k \in Workers : k < next => wpc[k] = "ended"
  /\ pc \in {"joiningStdin", "gone"} => \A k \in Workers : wpc[k] = "ended"
  /\ pc = "gone" => stdin \in {"none", "ended"}

\* A worker that has ended does not come back, and no more does the stdin thread.
LEMMA EndedStays ==
  ASSUME TypeOK, [Next]_vars
  PROVE  /\ \A k \in Workers : wpc[k] = "ended" => wpc'[k] = "ended"
         /\ stdin \in {"none", "ended"} => stdin' = stdin
<1> USE DEF TypeOK, mainVars, controlVars, workerVars
<1>1. CASE Main \/ WokenIdly \/ InputEnds \/ Elapse \/ UNCHANGED vars
  <2>1. UNCHANGED <<wpc, stdin>>
    BY <1>1 DEF Main, Released, Park, TimedOut, WakeWorker, JoinWorker, JoinStdin, WokenIdly,
                InputEnds, Elapse, vars
  <2> QED
    BY <2>1
<1>2. CASE Stdin
  BY <1>2 DEF Stdin, InputRead, RaiseLatch, NotifyAll
<1>3. ASSUME NEW j \in Workers, Work(j) \/ PollFails(j) \/ Arrive(j)
      PROVE  \A k \in Workers : wpc[k] = "ended" => wpc'[k] = "ended"
  <2>1. (wpc[j] # "ended" /\ \E place : Goto(j, place)) \/ UNCHANGED wpc
    BY <1>3 DEF Work, AtTop, Poll, PollFails, DrainOne, DrainEnds, Arrive, Ends
  <2> QED
    BY <2>1 DEF Goto
<1>4. ASSUME NEW j \in Workers, Work(j) \/ PollFails(j) \/ Arrive(j)
      PROVE  UNCHANGED stdin
  BY <1>4 DEF Work, AtTop, Poll, PollFails, DrainOne, DrainEnds, Arrive
<1> QED
  BY <1>1, <1>2, <1>3, <1>4 DEF Next

\* Every step of main, and of the threads it joins, keeps the order of the joins.
LEMMA JoinNext == TypeOK /\ JoinInv /\ [Next]_vars => JoinInv'
<1> SUFFICES ASSUME TypeOK, JoinInv, [Next]_vars PROVE JoinInv'
  OBVIOUS
<1>1. /\ \A k \in Workers : wpc[k] = "ended" => wpc'[k] = "ended"
      /\ stdin \in {"none", "ended"} => stdin' = stdin
  BY EndedStays
<1>2. CASE JoinWorker
  <2>1. next \in 1 .. Count /\ wpc[next] = "ended" /\ pc = "joining" /\ UNCHANGED <<wpc, stdin>>
    BY <1>2 DEF TypeOK, Workers, JoinWorker, Joinable, controlVars, workerVars
  <2>2. \A k \in Workers : k <= next => wpc[k] = "ended"
    BY <2>1 DEF JoinInv, Workers
  <2>3. CASE next < Count
    <3>1. next' = next + 1 /\ pc' = "joining"
      BY <1>2, <2>1, <2>3 DEF JoinWorker, Advance
    <3> QED
      BY <2>1, <2>2, <3>1 DEF JoinInv, Workers
  <2>4. CASE ~ next < Count
    <3>1. pc' = IF stdin = "none" THEN "gone" ELSE "joiningStdin"
      BY <1>2, <2>4 DEF JoinWorker, Advance
    <3>2. \A k \in Workers : wpc'[k] = "ended"
      BY <2>1, <2>2, <2>4 DEF Workers
    <3> QED
      BY <2>1, <3>1, <3>2 DEF JoinInv
  <2> QED
    BY <2>3, <2>4
<1>3. CASE JoinStdin
  BY <1>1, <1>3 DEF JoinInv, JoinStdin, controlVars, workerVars
<1>4. CASE WakeWorker
  <2>1. (pc' = "joining" /\ next' = 1) \/ pc' = "waking"
    BY <1>4 DEF WakeWorker, Advance
  <2>2. \A k \in Workers : ~ k < 1
    BY DEF Workers
  <2> QED
    BY <2>1, <2>2 DEF JoinInv
<1>5. CASE Released \/ Park \/ TimedOut \/ WokenIdly
  <2>1. pc' \in {"waking", "parked", "looking"}
    BY <1>5 DEF Released, Park, TimedOut, WokenIdly
  <2> QED
    BY <2>1 DEF JoinInv
<1>6. CASE Stdin
  <2>1. UNCHANGED next /\ (pc' = pc \/ pc' = "looking")
    BY <1>6 DEF Stdin, InputRead, RaiseLatch, NotifyAll, mainVars
  <2> QED
    BY <1>1, <2>1 DEF JoinInv
<1>7. CASE \/ \E k \in Workers : Work(k) \/ PollFails(k) \/ Arrive(k)
           \/ InputEnds \/ Elapse \/ UNCHANGED vars
  <2>1. UNCHANGED <<pc, next>>
    BY <1>7 DEF Work, AtTop, Poll, PollFails, DrainOne, DrainEnds, Arrive, InputEnds, Elapse,
                mainVars, vars
  <2> QED
    BY <1>1, <2>1 DEF JoinInv
<1> QED
  BY <1>2, <1>3, <1>4, <1>5, <1>6, <1>7 DEF Next, Main

\* When main returns, every thread it started has ended, whatever ended it and in
\* whatever order: no worker owns a socket any more (the joins at the end of main).
THEOREM NoneIsLeftBehind == Spec => []NoneLeftBehind
<1>1. Init => JoinInv
  BY DEF Init, JoinInv
<1>2. TypeOK /\ JoinInv => NoneLeftBehind
  BY DEF JoinInv, NoneLeftBehind
<1> QED
  BY <1>1, <1>2, TypeInit, TypeNext, JoinNext, PTL DEF Spec

--------------------------------------------------------------------------------
(* The latch.                                                               *)

\* The server was asked to stop.
Asked == stopped \/ timer = "elapsed"

\* main leaves the latch only when it is asked to, and only then wakes a worker.
AskedInv ==
  /\ pc \notin {"looking", "parked"} => Asked
  /\ OnlyWhenAsked

\* Nobody takes back the latch or the time, and main wakes a worker only after it.
LEMMA AskedNext == TypeOK /\ AskedInv /\ [Next]_vars => AskedInv'
<1> SUFFICES ASSUME TypeOK, AskedInv, [Next]_vars PROVE AskedInv'
  OBVIOUS
<1>1. Asked => Asked'
  BY DEF Asked, Next, Main, Released, Park, TimedOut, WakeWorker, JoinWorker, JoinStdin, WokenIdly,
         Stdin, InputRead, RaiseLatch, NotifyAll, Work, AtTop, Poll, PollFails, DrainOne, DrainEnds,
         Arrive, InputEnds, Elapse, controlVars, vars
<1>2. CASE WakeWorker
  <2>1. Asked /\ Asked'
    BY <1>1, <1>2 DEF AskedInv, WakeWorker
  <2> QED
    BY <2>1 DEF AskedInv, OnlyWhenAsked, Asked
<1>3. CASE ~ WakeWorker
  <2>1. UNCHANGED pending
    BY <1>3 DEF Next, Main, Released, Park, TimedOut, JoinWorker, JoinStdin, WokenIdly,
         Stdin, InputRead, RaiseLatch, NotifyAll, Work, AtTop, Poll, PollFails, DrainOne, DrainEnds,
         Arrive, InputEnds, Elapse, vars
  <2>2. pc' \notin {"looking", "parked"} => pc \notin {"looking", "parked"} \/ WaitIsOver
    BY <1>3 DEF Next, Main, Released, Park, TimedOut, JoinWorker, JoinStdin, WokenIdly,
         Stdin, InputRead, RaiseLatch, NotifyAll, Work, AtTop, Poll, PollFails, DrainOne, DrainEnds,
         Arrive, InputEnds, Elapse, mainVars, vars
  <2>3. WaitIsOver => Asked
    BY DEF WaitIsOver, Asked
  <2> QED
    BY <1>1, <2>1, <2>2, <2>3 DEF AskedInv, OnlyWhenAsked, Asked
<1> QED
  BY <1>2, <1>3

\* No worker is told to stop before the latch is raised or the time is up, however
\* often the condition variable wakes for nothing (ShutdownLatch::wait).
THEOREM StoppedOnlyWhenAsked == Spec => []OnlyWhenAsked
<1>1. Init => AskedInv
  BY DEF Init, AskedInv, OnlyWhenAsked
<1>2. AskedInv => OnlyWhenAsked
  BY DEF AskedInv
<1> QED
  BY <1>1, <1>2, TypeInit, TypeNext, AskedNext, PTL DEF Spec

--------------------------------------------------------------------------------
(* The drain of the datagram socket.                                        *)

\* What a worker's socket holds and no event announces: nothing, or what one batch
\* did not reach; during a drain, what the batch may still read comes on top.
Unannounced(k) ==
  /\ wpc[k] \in {"top", "poll"} => queue[k] = 0 \/ queue[k] <= MaxQueue - Batch
  /\ wpc[k] = "drain" => queue[k] <= MaxQueue - Batch + left[k]

DrainInv == \A k \in Workers : ~edge[k] => Unannounced(k)

\* Every step keeps the account of what is announced.
LEMMA DrainNext == TypeOK /\ DrainInv /\ [Next]_vars => DrainInv'
<1> SUFFICES ASSUME TypeOK, DrainInv, [Next]_vars, NEW j \in Workers PROVE (~edge[j] => Unannounced(j))'
  BY DEF DrainInv
<1>1. /\ edge[j] \in BOOLEAN /\ queue[j] \in 0 .. MaxQueue /\ left[j] \in 0 .. Batch
      /\ wpc[j] \in {"top", "poll", "drain", "ended"}
      /\ ~edge[j] => Unannounced(j)
  BY DEF TypeOK, DrainInv
<1>2. CASE UNCHANGED <<wpc[j], queue[j], left[j], edge[j]>>
  BY <1>1, <1>2 DEF Unannounced
<1>3. CASE Arrive(j)
  <2>1. edge'[j]
    BY <1>3 DEF TypeOK, Arrive
  <2> QED
    BY <2>1
<1>4. CASE AtTop(j) \/ Poll(j) \/ PollFails(j) \/ DrainOne(j) \/ DrainEnds(j)
  <2>1. CASE Ends(j)
    <3>1. wpc'[j] = "ended"
      BY <2>1 DEF TypeOK, Ends, Goto
    <3> QED
      BY <3>1 DEF Unannounced
  <2>2. CASE AtTop(j) /\ ~Ends(j)
    <3>1. wpc[j] = "top" /\ wpc'[j] = "poll" /\ UNCHANGED <<queue, edge, left>>
      BY <2>2 DEF TypeOK, AtTop, Goto
    <3> QED
      BY <1>1, <3>1 DEF Unannounced
  <2>3. CASE Poll(j) /\ edge[j] /\ ~Ends(j)
    <3>1. wpc'[j] = "drain" /\ left'[j] = Batch /\ queue'[j] = queue[j]
      BY <2>3 DEF TypeOK, Poll, Goto
    <3> QED
      BY <1>1, <3>1 DEF Unannounced
  <2>4. CASE Poll(j) /\ ~edge[j] /\ ~Ends(j)
    <3>1. wpc[j] = "poll" /\ wpc'[j] = "top" /\ UNCHANGED <<queue, edge, left>>
      BY <2>4 DEF TypeOK, Poll, Goto
    <3> QED
      BY <1>1, <3>1 DEF Unannounced
  <2>5. CASE DrainOne(j)
    <3>1. /\ wpc[j] = "drain" /\ wpc'[j] = "drain" /\ edge'[j] = edge[j]
          /\ queue'[j] = queue[j] - 1 /\ left'[j] = left[j] - 1
      BY <2>5 DEF TypeOK, DrainOne
    <3> QED
      BY <1>1, <3>1 DEF Unannounced
  <2>6. CASE DrainEnds(j)
    <3>1. /\ wpc[j] = "drain" /\ wpc'[j] = "top" /\ edge'[j] = edge[j] /\ queue'[j] = queue[j]
          /\ left[j] = 0 \/ queue[j] = 0
      BY <2>6 DEF TypeOK, DrainEnds, DrainIsOver, Goto
    <3> QED
      BY <1>1, <3>1 DEF Unannounced
  <2> QED
    BY <1>4, <2>1, <2>2, <2>3, <2>4, <2>5, <2>6 DEF PollFails
<1>5. ASSUME NEW k \in Workers \ {j}, Work(k) \/ PollFails(k) \/ Arrive(k)
      PROVE  UNCHANGED <<wpc[j], queue[j], left[j], edge[j]>>
  BY <1>5 DEF TypeOK, Work, AtTop, Poll, PollFails, DrainOne, DrainEnds, Arrive, Ends, Goto
<1>6. CASE Main \/ WokenIdly \/ Stdin \/ InputEnds \/ Elapse \/ UNCHANGED vars
  <2>1. UNCHANGED <<wpc, queue, left, edge>>
    BY <1>6 DEF Main, Released, Park, TimedOut, WakeWorker, JoinWorker, JoinStdin, WokenIdly,
                Stdin, InputRead, RaiseLatch, NotifyAll, InputEnds, Elapse, workerVars, vars
  <2> QED
    BY <1>2, <2>1
<1> QED
  BY <1>2, <1>3, <1>4, <1>5, <1>6 DEF Next, Work

\* A datagram is left in a socket without an event only if it was beyond the batch of
\* the drain that left it: a burst of up to UDP_DRAIN_BATCH is read to the last, for
\* every batch and every receive buffer (drain_udp).
THEOREM OnlyPastBatchStays == Spec => []OnlyPastBatchIsLeft
<1>1. Init => DrainInv
  BY DEF Init, DrainInv, Unannounced
<1>2. DrainInv => OnlyPastBatchIsLeft
  BY DEF DrainInv, Unannounced, OnlyPastBatchIsLeft
<1> QED
  BY <1>1, <1>2, TypeInit, TypeNext, DrainNext, PTL DEF Spec

===============================================================================
