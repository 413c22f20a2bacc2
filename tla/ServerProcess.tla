----------------------------- MODULE ServerProcess -----------------------------
(***************************************************************************)
(* The process from the moment its workers run to its end: main, which     *)
(* waits on the shutdown latch, wakes the workers and joins them           *)
(* (quickrelay-server, main.rs); the thread that reads stdin; and the      *)
(* workers with their datagram sockets (quickrelay-transport, worker.rs).  *)
(* How a worker serves its control connections is module ControlPath; both *)
(* promise main what WorkerLife says.                                      *)
(*                                                                         *)
(* The datagram sockets share one address with SO_REUSEPORT: the kernel    *)
(* puts a datagram into the socket of any worker that still runs.  The     *)
(* poller is edge-triggered.                                               *)
(***************************************************************************)
EXTENDS Integers

CONSTANTS
  Count,     \* the number of running workers
  Batch,     \* UDP_DRAIN_BATCH
  MaxQueue   \* the datagrams the receive buffer of a socket holds

ASSUME ConstantsAssumption == Count \in Nat \ {0} /\ Batch \in Nat \ {0} /\ MaxQueue \in Nat \ {0}

Workers == 1 .. Count

VARIABLES
  pc,       \* where main stands
  next,     \* the worker main wakes or joins next
  stopped,  \* the flag behind ShutdownLatch
  timer,    \* --shutdown-after: "none", "running", "elapsed"
  input,    \* stdin of the process: "open", or "ended" by its writer or an error
  stdin,    \* the stdin thread: "none", "reading", "raising", "notifying", "ended"
  wpc,      \* where a worker's loop stands
  pending,  \* StopRequest::pending of a worker
  left,     \* how many datagrams the drain in progress may still read
  queue,    \* kernel: datagrams in a worker's socket
  edge      \* poller: the socket has an event to report

mainVars == <<pc, next>>
controlVars == <<stopped, timer, input, stdin>>
workerVars == <<wpc, left, queue, edge>>
vars == <<mainVars, controlVars, pending, workerVars>>

--------------------------------------------------------------------------------
(* main.  The latch is a flag under a mutex and a condition variable; wait_while *)
(* and wait_timeout_while look at the flag under the mutex whenever they wake.    *)

\* Any combination of --shutdown-after and stdin_control_is_live.
Init ==
  /\ pc = "looking" /\ next = 1
  /\ stopped = FALSE /\ timer \in {"none", "running"}
  /\ input = "open" /\ stdin \in {"none", "reading"}
  /\ wpc = [k \in Workers |-> "top"] /\ pending = [k \in Workers |-> FALSE]
  /\ left = [k \in Workers |-> 0]
  /\ queue = [k \in Workers |-> 0] /\ edge = [k \in Workers |-> FALSE]

SlipAnyWakeUp == pc = "looking"

\* ShutdownLatch::wait returns.
WaitIsOver == pc = "looking" /\ (stopped \/ timer = "elapsed")

Released ==
  /\ WaitIsOver
  /\ pc' = "waking" /\ next' = 1
  /\ UNCHANGED <<controlVars, pending, workerVars>>

SlipParkBlindly ==
  /\ pc = "looking"
  /\ pc' = "parked"
  /\ UNCHANGED <<next, controlVars, pending, workerVars>>

Park ==
  /\ pc = "looking" /\ ~WaitIsOver
  /\ pc' = "parked"
  /\ UNCHANGED <<next, controlVars, pending, workerVars>>

\* The wait ends with its deadline, or for no reason at all.
TimedOut ==
  /\ pc = "parked" /\ timer = "elapsed"
  /\ pc' = "looking"
  /\ UNCHANGED <<next, controlVars, pending, workerVars>>

WokenIdly ==
  /\ pc = "parked"
  /\ pc' = "looking"
  /\ UNCHANGED <<next, controlVars, pending, workerVars>>

\* main goes on with the next worker, or with what comes after the last.
Advance(after) == IF next < Count THEN next' = next + 1 /\ UNCHANGED pc
                                  ELSE next' = 1 /\ pc' = after

\* WorkerWake::wake: the flag, then the wake.  The poll has a deadline, so that the
\* wake only makes the end come sooner.
WakeWorker ==
  /\ pc = "waking"
  /\ pending' = [pending EXCEPT ![next] = TRUE]
  /\ Advance("joining")
  /\ UNCHANGED <<controlVars, workerVars>>

SlipFirstOnly == wpc[1] = "ended"

\* A join returns once its thread has.
Joinable == wpc[next] = "ended"

JoinWorker ==
  /\ pc = "joining" /\ Joinable
  /\ Advance(IF stdin = "none" THEN "gone" ELSE "joiningStdin")
  /\ UNCHANGED <<controlVars, pending, workerVars>>

JoinStdin ==
  /\ pc = "joiningStdin" /\ stdin = "ended"
  /\ pc' = "gone"
  /\ UNCHANGED <<next, controlVars, pending, workerVars>>

--------------------------------------------------------------------------------
(* install_stdin_listener and ShutdownLatch::stop.                           *)

\* read_to_string comes back at the end of the input or with an error.
InputRead ==
  /\ stdin = "reading" /\ input = "ended"
  /\ stdin' = "raising"
  /\ UNCHANGED <<mainVars, stopped, timer, input, pending, workerVars>>

RaiseLatch ==
  /\ stdin = "raising"
  /\ stopped' = TRUE /\ stdin' = "notifying"
  /\ UNCHANGED <<mainVars, timer, input, pending, workerVars>>

NotifyAll ==
  /\ stdin = "notifying"
  /\ stdin' = "ended"
  /\ pc' = IF pc = "parked" THEN "looking" ELSE pc
  /\ UNCHANGED <<next, stopped, timer, input, pending, workerVars>>

--------------------------------------------------------------------------------
(* One worker's loop, with the datagram path.                                 *)

\* The worker's loop goes to another place.
Goto(k, place) == wpc' = [wpc EXCEPT ![k] = place]

\* run returns: the sockets close, and with them goes what they hold.
Ends(k) ==
  /\ Goto(k, "ended")
  /\ queue' = [queue EXCEPT ![k] = 0] /\ edge' = [edge EXCEPT ![k] = FALSE]
  /\ UNCHANGED left

AtTop(k) ==
  /\ wpc[k] = "top"
  /\ IF pending[k] THEN Ends(k) ELSE Goto(k, "poll") /\ UNCHANGED <<left, queue, edge>>
  /\ UNCHANGED <<mainVars, controlVars, pending>>

\* An error of the poll ends the loop; nobody is told.
PollFails(k) ==
  /\ wpc[k] = "poll"
  /\ Ends(k)
  /\ UNCHANGED <<mainVars, controlVars, pending>>

\* The poll reports the socket, or something else, or its deadline.
Poll(k) ==
  /\ wpc[k] = "poll"
  /\ \/ pending[k] /\ Ends(k)
     \/ /\ ~pending[k] /\ edge[k]
        /\ Goto(k, "drain")
        /\ edge' = [edge EXCEPT ![k] = FALSE] /\ left' = [left EXCEPT ![k] = Batch]
        /\ UNCHANGED queue
     \/ ~pending[k] /\ ~edge[k] /\ Goto(k, "top") /\ UNCHANGED <<left, queue, edge>>
  /\ UNCHANGED <<mainVars, controlVars, pending>>

SlipOneShort(k) == left[k] = 1 \/ queue[k] = 0

SlipOneMore(k) == left[k] < 0 \/ queue[k] = 0

\* drain_udp ends with its batch, or when the read would block.
DrainIsOver(k) == left[k] = 0 \/ queue[k] = 0

\* recv_from and on_stun, which answers before the next one is read.
DrainOne(k) ==
  /\ wpc[k] = "drain" /\ ~DrainIsOver(k)
  /\ queue' = [queue EXCEPT ![k] = @ - 1] /\ left' = [left EXCEPT ![k] = @ - 1]
  /\ UNCHANGED <<mainVars, controlVars, pending, wpc, edge>>

DrainEnds(k) ==
  /\ wpc[k] = "drain" /\ DrainIsOver(k)
  /\ Goto(k, "top") /\ left' = [left EXCEPT ![k] = 0]
  /\ UNCHANGED <<mainVars, controlVars, pending, queue, edge>>

--------------------------------------------------------------------------------
(* Whoever holds the other end of stdin, the clock, and the peers.            *)

InputEnds ==
  /\ input = "open" /\ input' = "ended"
  /\ UNCHANGED <<mainVars, stopped, timer, stdin, pending, workerVars>>

Elapse ==
  /\ timer = "running" /\ timer' = "elapsed"
  /\ UNCHANGED <<mainVars, stopped, input, stdin, pending, workerVars>>

Arrive(k) ==
  /\ wpc[k] # "ended" /\ queue[k] < MaxQueue
  /\ queue' = [queue EXCEPT ![k] = @ + 1] /\ edge' = [edge EXCEPT ![k] = TRUE]
  /\ UNCHANGED <<mainVars, controlVars, pending, wpc, left>>

--------------------------------------------------------------------------------

Main == Released \/ Park \/ TimedOut \/ WakeWorker \/ JoinWorker \/ JoinStdin

Stdin == InputRead \/ RaiseLatch \/ NotifyAll

Work(k) == AtTop(k) \/ Poll(k) \/ DrainOne(k) \/ DrainEnds(k)

Next ==
  \/ Main \/ WokenIdly \/ Stdin
  \/ \E k \in Workers : Work(k) \/ PollFails(k) \/ Arrive(k)
  \/ InputEnds \/ Elapse

\* The operating system runs every thread that can go on.  Nothing is assumed of
\* the input, the clock and the peers.
Spec ==
  /\ Init /\ [][Next]_vars
  /\ WF_vars(Main) /\ WF_vars(Stdin)
  /\ \A k \in Workers : WF_vars(Work(k))

--------------------------------------------------------------------------------
(* Properties.                                                              *)

TypeOK ==
  /\ pc \in {"looking", "parked", "waking", "joining", "joiningStdin", "gone"}
  /\ next \in Workers /\ stopped \in BOOLEAN
  /\ timer \in {"none", "running", "elapsed"} /\ input \in {"open", "ended"}
  /\ stdin \in {"none", "reading", "raising", "notifying", "ended"}
  /\ wpc \in [Workers -> {"top", "poll", "drain", "ended"}]
  /\ pending \in [Workers -> BOOLEAN] /\ edge \in [Workers -> BOOLEAN]
  /\ left \in [Workers -> 0 .. Batch] /\ queue \in [Workers -> 0 .. MaxQueue]

\* When main returns, no thread it started runs on and no worker owns a socket any
\* more: the joins see to it whatever made the workers end, and in whatever order.
NoneLeftBehind ==
  pc = "gone" => (\A k \in Workers : wpc[k] = "ended") /\ stdin \in {"none", "ended"}

\* No worker is told to stop before the latch is raised or the time is up: a wake-up
\* of the condition variable for no reason does not end the server.
OnlyWhenAsked == \A k \in Workers : pending[k] => stopped \/ timer = "elapsed"

\* A datagram that waits while its worker polls has an event waiting, but for what
\* the socket held beyond one batch when the drain began: a burst of up to a batch
\* is read to the last, though the registration is never renewed.
OnlyPastBatchIsLeft ==
  \A k \in Workers : wpc[k] = "poll" /\ ~edge[k] => queue[k] = 0 \/ queue[k] <= MaxQueue - Batch

\* The process ends once the input it listens to has ended; once the time is up, it
\* ends its workers, and itself if it does not listen to an input that stays open.
\* No wake-up is lost between latch and main, and no peer keeps a worker in its drain.
EndsWhenAsked ==
  /\ input = "ended" /\ stdin # "none" ~> pc = "gone"
  /\ timer = "elapsed" ~> \A k \in Workers : wpc[k] = "ended"
  /\ timer = "elapsed" ~> pc = "gone" \/ (input = "open" /\ stdin = "reading")

================================================================================
