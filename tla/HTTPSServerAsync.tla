-------------------------- MODULE HTTPSServerAsync --------------------------
(***************************************************************************)
(* HTTPSServer::run(0), "optional parallelism"                             *)
(* (src/src/http/serv/HTTPSServer.h): the main loop hands every accepted   *)
(* connection to std::async and keeps the future in servlets.  std::async  *)
(* with the default policy starts a thread and, in libstdc++, falls back   *)
(* to a deferred call when the system refuses another thread.              *)
(***************************************************************************)
EXTENDS Naturals, FiniteSets

CONSTANTS
    Clients,      \* connections that clients open
    MaxThreads    \* servlet threads the system lets the process have

ASSUME MaxThreadsAssumption == MaxThreads \in Nat

VARIABLES
    main,       \* where the thread that called run(0) is
    backlog,    \* connections the kernel holds for accept()
    future,     \* what has become of the servlet of each connection
    servlets,   \* the connections whose future is in the vector servlets
    signal,     \* a signal is pending on the signalfd
    alive       \* FALSE once the default action of a signal ended the process

vars == <<main, backlog, future, servlets, signal, alive>>

MainLocations  == {"mask", "poll", "accept", "reap", "wait", "returned"}
FutureStatuses == {"none", "running", "deferred", "ready"}

TypeOK == /\ main \in MainLocations
          /\ backlog \subseteq Clients
          /\ future \in [Clients -> FutureStatuses]
          /\ servlets \subseteq Clients
          /\ signal \in BOOLEAN
          /\ alive \in BOOLEAN

Init == /\ main = "mask"
        /\ backlog = {}
        /\ future = [c \in Clients |-> "none"]
        /\ servlets = {}
        /\ signal = FALSE
        /\ alive = TRUE

Having(st) == {c \in Clients : future[c] = st}

-----------------------------------------------------------------------------
Connect(c) == /\ c \notin backlog
              /\ future[c] = "none"
              /\ backlog' = backlog \cup {c}
              /\ UNCHANGED <<main, future, servlets, signal, alive>>

\* SIGINT for the thread (kill()) or for the process (Ctrl+C).  Servlet threads
\* are created after sigprocmask and inherit the mask, so from then on every
\* thread blocks the signal and it is read from the signalfd.
Interrupt == /\ main # "returned"
             /\ IF main = "mask" THEN alive' = FALSE /\ UNCHANGED signal
                                 ELSE signal' = TRUE /\ UNCHANGED alive
             /\ UNCHANGED <<main, backlog, future, servlets>>

\* sigprocmask, signalfd, pth = pthread_self()
Mask == /\ main = "mask"
        /\ main' = "poll"
        /\ UNCHANGED <<backlog, future, servlets, signal, alive>>

PollFails == /\ main = "poll"
             /\ main' = "wait"
             /\ UNCHANGED <<backlog, future, servlets, signal, alive>>

\* bug: the signal is read and the loop goes on
PollSignalIgnored == /\ main = "poll"
                     /\ signal
                     /\ signal' = FALSE
                     /\ UNCHANGED <<main, backlog, future, servlets, alive>>

PollSignal == /\ main = "poll"
              /\ signal
              /\ signal' = FALSE
              /\ main' = "wait"
              /\ UNCHANGED <<backlog, future, servlets, alive>>

PollServer == /\ main = "poll"
              /\ ~signal
              /\ backlog # {}
              /\ main' = "accept"
              /\ UNCHANGED <<backlog, future, servlets, signal, alive>>

\* bug: std::async is given std::launch::deferred
AcceptDeferred ==
    /\ main = "accept"
    /\ \E c \in backlog : /\ backlog' = backlog \ {c}
                          /\ future' = [future EXCEPT ![c] = "deferred"]
                          /\ servlets' = servlets \cup {c}
    /\ main' = "reap"
    /\ UNCHANGED <<signal, alive>>

\* servlets.push_back(std::async(...))
Accept ==
    /\ main = "accept"
    /\ \E c \in backlog :
          /\ backlog' = backlog \ {c}
          /\ future' = [future EXCEPT ![c] =
                IF Cardinality(Having("running")) < MaxThreads THEN "running" ELSE "deferred"]
          /\ servlets' = servlets \cup {c}
    /\ main' = "reap"
    /\ UNCHANGED <<signal, alive>>

\* bug: every future is dropped
ReapAll == /\ main = "reap"
           /\ servlets' = {}
           /\ main' = "poll"
           /\ UNCHANGED <<backlog, future, signal, alive>>

\* bug: remove_if without erase leaves moved-from futures at the end
ReapNoErase == /\ main = "reap"
               /\ servlets' = {IF future[c] = "ready" THEN "moved-from" ELSE c : c \in servlets}
               /\ main' = "poll"
               /\ UNCHANGED <<backlog, future, signal, alive>>

\* remove_if(ready or deferred) and erase; destroying a deferred future that
\* nobody waited for never runs its call
Reap == /\ main = "reap"
        /\ servlets' = {c \in servlets : future[c] \notin {"ready", "deferred"}}
        /\ main' = "poll"
        /\ UNCHANGED <<backlog, future, signal, alive>>

\* bug: run(0) returns without waiting
WaitNobody == /\ main = "wait"
              /\ main' = "returned"
              /\ UNCHANGED <<backlog, future, servlets, signal, alive>>

\* for (auto &srv : servlets) srv.wait();
Wait == /\ main = "wait"
        /\ \A c \in servlets : future[c] = "ready"
        /\ main' = "returned"
        /\ UNCHANGED <<backlog, future, servlets, signal, alive>>

\* the servlet's thread ends; it has closed the connection
ServletDone(c) == /\ future[c] = "running"
                  /\ future' = [future EXCEPT ![c] = "ready"]
                  /\ UNCHANGED <<main, backlog, servlets, signal, alive>>

MainStep == Mask \/ PollSignal \/ PollServer \/ Accept \/ Reap \/ Wait

Terminated == (main = "returned" \/ ~alive) /\ UNCHANGED vars

Next == \/ /\ alive
           /\ \/ \E c \in Clients : Connect(c) \/ ServletDone(c)
              \/ Interrupt \/ MainStep \/ PollFails
        \/ Terminated

Spec == Init /\ [][Next]_vars

\* As in HTTPSServer: threads are scheduled, and clients fall silent at last.
FairSpec == /\ Spec
            /\ WF_vars(alive /\ MainStep)
            /\ \A c \in Clients : WF_vars(alive /\ ServletDone(c))

-----------------------------------------------------------------------------
(* A servlet whose connection is not finished keeps its future in servlets, so
   that the loop can wait for it: only finished servlets are removed
   (HTTPSServer.h:258, 267-271). *)
OnlyFinishedRemoved == Having("running") \cup Having("deferred") \subseteq servlets

(* run(0) returns, by kill() or Ctrl+C, only when every accepted connection has
   been served (HTTPSServer.h:285-288). *)
GracefulExit == (main = "returned" \/ ~alive) => Having("running") \cup Having("deferred") = {}

(* Every accepted connection is served. *)
EveryAcceptedServed == \A c \in Clients : (c \in servlets) ~> (future[c] = "ready")

(* A signal stops the server, whatever is being served when it arrives. *)
SignalStopsServer == signal ~> (main = "returned")
=============================================================================
