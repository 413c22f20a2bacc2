------------------------------ MODULE WorkerLife ------------------------------
(***************************************************************************)
(* What a worker thread promises the thread that starts and joins it       *)
(* (quickrelay-server, main.rs): it runs until its stop flag is raised or  *)
(* its poll fails, it does not come back, and a raised flag is enough to   *)
(* end it, whether or not the wake that goes with it arrives.              *)
(***************************************************************************)

VARIABLES
  stop,   \* StopRequest::pending
  ended   \* Worker::run has returned

vars == <<stop, ended>>

Init == stop = FALSE /\ ended = FALSE

\* WorkerWake::wake, by another thread.
Raise == ~stop /\ stop' = TRUE /\ UNCHANGED ended

\* The loop saw the flag, or its poll failed.
End == ~ended /\ ended' = TRUE /\ UNCHANGED stop

Next == Raise \/ End

\* Without a stop request the loop need not end; with one it does.
Spec == Init /\ [][Next]_vars /\ WF_vars(stop /\ End)

================================================================================
