------------------------- MODULE HTTPSServerSignals -------------------------
(***************************************************************************)
(* HTTPSServer together with signals sent to the process rather than to    *)
(* the thread that runs the main loop: Ctrl+C on the terminal, or kill(1). *)
(* run() creates the workers before run_internal() blocks SIGINT, so they  *)
(* keep it unblocked, and nothing installs a handler for it.               *)
(***************************************************************************)
EXTENDS HTTPSServer

VARIABLE alive   \* FALSE once the default action of SIGINT has ended the process

SignalVars == <<vars, alive>>

SignalInit == Init /\ alive = TRUE

\* The threads in which SIGINT is not blocked: the workers, and the main thread
\* until it has called sigprocmask
Unblocked == {w \in Workers : worker[w] \notin {"unborn", "exited"}}
               \cup (IF main \in {"spawn", "mask"} THEN {"main"} ELSE {})

\* The kernel delivers the signal to a thread that does not block it, and the
\* default action ends the process; only when all block it does it stay pending
\* for the signalfd
Interrupt == /\ main # "returned"
             /\ IF Unblocked = {}
                THEN signal' = TRUE /\ UNCHANGED alive
                ELSE alive' = FALSE /\ UNCHANGED signal
             /\ UNCHANGED <<main, worker, ssl, backlog, ssl_sockets, served, stop>>

SignalNext == alive /\ ((Next /\ UNCHANGED alive) \/ Interrupt)

SignalSpec == SignalInit /\ [][SignalNext]_SignalVars

(* The server does not stop with an accepted connection unserved, whether it is
   stopped by kill() or by Ctrl+C: the comment on the main loop says the only
   way out is the signal pipe, after which run() joins the workers
   (HTTPSServer.h:207-208, 275-283). *)
GracefulExit == (main = "returned" \/ ~alive) => Queued = {} /\ Serving = {}
=============================================================================
